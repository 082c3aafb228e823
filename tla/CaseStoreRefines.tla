-------------------------- MODULE CaseStoreRefines --------------------------
(***************************************************************************)
(* CaseStore implements CaseLifecycle: the state a submission is in can be *)
(* read off the table and the directory at every step of every process.    *)
(***************************************************************************)
EXTENDS CaseStoreInv

Phase(s) ==
    IF sid[s] = None THEN "new"
    ELSE IF ~HasRow(s) THEN "gone"
    ELSE IF file[sid[s]]["blob"] = "sealed" THEN "whole" ELSE "partial"

Born(s) == IF sid[s] = None THEN 0 ELSE sat[s]
Promised == {s \in Submitters : spc[s] = "told"}

Life == INSTANCE CaseLifecycle WITH
            Submissions <- Submitters,
            phase <- [s \in Submitters |-> Phase(s)],
            born <- [s \in Submitters |-> Born(s)],
            promised <- Promised

(* Whatever the handlers, the sweep, failing calls and restarts do, each     *)
(* submission goes through the phases of CaseLifecycle and through nothing   *)
(* else: what has been promised is not damaged before its time, a case that  *)
(* is gone is gone for good, even when its id is drawn again, and every step *)
(* of the store changes at most one submission.                              *)
ImplementsLifecycle == Life!Spec
=============================================================================
