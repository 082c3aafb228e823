---------------------------- MODULE CaseLifecycle ----------------------------
(***************************************************************************)
(* What the store promises about one submission, with no table, directory, *)
(* sweep or restart in sight.  A submission is new, then partly there, then *)
(* whole, and once it is gone it never comes back; from the moment its     *)
(* submitter has been promised it, it stays whole until the retention      *)
(* period, less the hour lost to rounding, is over.                        *)
(***************************************************************************)
EXTENDS Integers

CONSTANTS Submissions, Hour, TTL

VARIABLES
    now,       \* the wall clock
    phase,     \* submission -> "new", "partial", "whole" or "gone"
    born,      \* submission -> when its request began, once it is not new
    promised   \* submissions whose submitters have been shown a code

life == <<now, phase, born, promised>>

\* The store may have let go of s.
Lapsed(s) == now + Hour > born[s] + TTL

Init ==
    /\ now = 0
    /\ phase = [s \in Submissions |-> "new"]
    /\ born = [s \in Submissions |-> 0]
    /\ promised = {}

\* The request may have begun some time ago, but within the retention period.
Accept(s) ==
    /\ phase[s] = "new"
    /\ phase' = [phase EXCEPT ![s] = "partial"]
    /\ \E b \in (now - TTL) .. now : born' = [born EXCEPT ![s] = b]
    /\ UNCHANGED <<now, promised>>

Complete(s) ==
    /\ phase[s] = "partial" /\ s \notin promised
    /\ phase' = [phase EXCEPT ![s] = "whole"]
    /\ UNCHANGED <<now, born, promised>>

\* The answer may be so late that nothing is left to promise.
Promise(s) ==
    /\ phase[s] # "new"
    /\ phase[s] = "whole" \/ Lapsed(s)
    /\ promised' = promised \cup {s}
    /\ UNCHANGED <<now, phase, born>>

Damage(s) ==
    /\ phase[s] = "whole" /\ Lapsed(s)
    /\ phase' = [phase EXCEPT ![s] = "partial"]
    /\ UNCHANGED <<now, born, promised>>

\* What was never whole may be taken back at any time.
Remove(s) ==
    /\ phase[s] = "partial"
    /\ s \notin promised \/ Lapsed(s)
    /\ phase' = [phase EXCEPT ![s] = "gone"]
    /\ UNCHANGED <<now, born, promised>>

Tick ==
    /\ now' = now + 1
    /\ UNCHANGED <<phase, born, promised>>

Next ==
    \/ \E s \in Submissions :
          \/ Accept(s)
          \/ Complete(s)
          \/ Promise(s)
          \/ Damage(s)
          \/ Remove(s)
    \/ Tick

Spec == Init /\ [][Next]_life
=============================================================================
