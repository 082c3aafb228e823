--------------------------- MODULE LifecycleProofs ---------------------------
(***************************************************************************)
(* The proof that CaseStore implements CaseLifecycle when the server's     *)
(* loop is the only sweeper and nobody wipes.                              *)
(***************************************************************************)
EXTENDS CaseStoreRefines, CaseStoreProofs

\* A step that leaves every submission in its phase.
Quiet ==
    /\ now' = now
    /\ \A t \in Submitters : Phase(t)' = Phase(t) /\ Born(t)' = Born(t)
    /\ Promised' = Promised

\* A step that moves s, and nothing else, in the abstract state.
OnlyPhase(s, p) ==
    /\ now' = now
    /\ s \in Submitters
    /\ Phase(s)' = p
    /\ \A t \in Submitters \ {s} : Phase(t)' = Phase(t)
    /\ \A t \in Submitters : Born(t)' = Born(t)
    /\ Promised' = Promised

LEMMA QuietStutters == Quiet => UNCHANGED Life!life
BY DEF Quiet, Life!life

(* What happens to the phases, said with the operators of the mapping, is    *)
(* the step of CaseLifecycle of that name.                                   *)
LEMMA PhaseSteps ==
    ASSUME NEW s \in Submitters
    PROVE  /\ OnlyPhase(s, "whole") /\ Phase(s) = "partial" /\ s \notin Promised => Life!Complete(s)
           /\ OnlyPhase(s, "partial") /\ Phase(s) = "whole" /\ now + Hour > Born(s) + TTL
                 => Life!Damage(s)
           /\ OnlyPhase(s, "gone") /\ Phase(s) = "partial"
                 /\ (s \notin Promised \/ now + Hour > Born(s) + TTL) => Life!Remove(s)
<1>1. \A p \in {"whole", "partial", "gone"} : OnlyPhase(s, p) =>
         /\ [t \in Submitters |-> Phase(t)'] =
               [[t \in Submitters |-> Phase(t)] EXCEPT ![s] = p]
         /\ [t \in Submitters |-> Born(t)'] = [t \in Submitters |-> Born(t)]
         /\ UNCHANGED <<now, Promised>>
  BY DEF OnlyPhase
<1>2. [t \in Submitters |-> Phase(t)][s] = Phase(s) /\ [t \in Submitters |-> Born(t)][s] = Born(s)
  OBVIOUS
<1> QED
  BY <1>1, <1>2 DEF Life!Complete, Life!Damage, Life!Remove, Life!Lapsed

(* Steps that touch neither a row's code nor whether a blob is whole move    *)
(* nothing.                                                                  *)
LEMMA DataQuiet ==
    ASSUME TypeOK,
           UNCHANGED <<now, sid, sat>>, Promised' = Promised,
           \A i \in Ids : /\ rows'[i] # None <=> rows[i] # None
                          /\ rows[i] # None => rows'[i].code = rows[i].code
                          /\ file'[i]["blob"] = "sealed" <=> file[i]["blob"] = "sealed"
    PROVE  Quiet
<1>1. ASSUME NEW t \in Submitters PROVE Phase(t)' = Phase(t) /\ Born(t)' = Born(t)
  <2>1. sid[t] = None \/ sid[t] \in Ids
    BY DEF TypeOK
  <2>2. CASE sid[t] = None
    BY <2>2 DEF Phase, Born
  <2>3. CASE sid[t] \in Ids /\ sid[t] # None
    <3>1. HasRow(t)' <=> HasRow(t)
      BY <2>3 DEF HasRow
    <3> QED
      BY <2>3, <3>1 DEF Phase, Born
  <2> QED
    BY <2>1, <2>2, <2>3
<1> QED
  BY <1>1 DEF Quiet

(* A submission's request is what keeps an expired row expired.              *)
LEMMA ExpiredLapsed ==
    ASSUME TypeOK, RowsOwn, NEW s \in Submitters, sid[s] # None, HasRow(s), sid[s] \in Expired
    PROVE  now + Hour > Born(s) + TTL
<1>1. sid[s] \in Ids /\ sat[s] \in Int /\ now \in Int /\ Born(s) = sat[s]
  BY DEF TypeOK, Born
<1>2. rows[sid[s]].exp = Expires(sat[s]) /\ rows[sid[s]].exp < now
  BY DEF RowsOwn, Expired
<1>3. Expires(sat[s]) \in Int /\ Expires(sat[s]) <= sat[s] + TTL
        /\ sat[s] + TTL < Expires(sat[s]) + Hour
  BY <1>1, ExpiresBounds
<1> QED
  BY <1>1, <1>2, <1>3, StoreAssumption

(* Every step of the handlers, the loop, the clock and the process is a step *)
(* of CaseLifecycle or leaves every submission where it is.                  *)
LEMMA StepMaps == LoopAlone /\ IInv /\ RowsOwn /\ [Next]_vars => [Life!Next]_Life!life
<1> SUFFICES ASSUME LoopAlone, IInv, RowsOwn, Next \/ UNCHANGED vars
             PROVE  Life!Next \/ UNCHANGED Life!life
  OBVIOUS
<1> USE StoreAssumption
        DEF IInv, TypeOK, Safe, disk, subs, recs, shred, env, Fault, InCreate, Names, LoopAlone,
            Shredders, Sweepers, Promised
<1>t. TypeOK
  OBVIOUS
<1>n. \A s \in Submitters : Life!Accept(s) \/ Life!Complete(s) \/ Life!Promise(s) \/ Life!Damage(s)
         \/ Life!Remove(s) => Life!Next
  BY DEF Life!Next
<1>q. Quiet => UNCHANGED Life!life
  BY QuietStutters
\* CreateCase
<1>1. ASSUME NEW s \in Submitters, Begin(s) PROVE Quiet
  BY <1>1 DEF Begin, RowsOwn, Quiet, Phase, Born, HasRow
<1>2. ASSUME NEW s \in Submitters, NEW id \in Ids, Insert(s, id) PROVE Life!Accept(s)
  <2>1. sid[s] = None /\ id # None /\ sid'[s] = id /\ file[id]["blob"] # "sealed"
    BY <1>2 DEF Insert, RowsOwn, NoStrandedFiles, FilesHaveDirs
  <2>2. rows'[id] # None /\ rows'[id].code = s
    BY <1>2, NewRowType DEF Insert, NewRow
  <2>3. Phase(s) = "new" /\ Phase(s)' = "partial" /\ Born(s) = 0 /\ Born(s)' = sat[s]
    BY <1>2, <2>1, <2>2 DEF Insert, Phase, Born, HasRow
  <2>4. ASSUME NEW t \in Submitters, t # s PROVE Phase(t)' = Phase(t) /\ Born(t)' = Born(t)
    <3>1. sid'[t] = sid[t] /\ sat' = sat /\ file' = file
      BY <1>2, <2>4 DEF Insert
    <3>2. sid[t] # None => (HasRow(t)' <=> HasRow(t))
      <4>1. CASE sid[t] = id
        BY <1>2, <2>2, <2>4, <3>1, <4>1 DEF Insert, HasRow
      <4>2. CASE sid[t] # id
        BY <1>2, <3>1, <4>2 DEF Insert, HasRow
      <4> QED
        BY <4>1, <4>2
    <3> QED
      BY <3>1, <3>2 DEF Phase, Born
  <2>5. sat[s] \in (now - TTL) .. now
    <3>1. sat[s] <= now /\ now <= Expires(sat[s])
      BY <1>2 DEF Insert, RowsOwn, CreatorsHold
    <3>2. Expires(sat[s]) \in Int /\ Expires(sat[s]) <= sat[s] + TTL
      BY ExpiresBounds
    <3> QED
      BY <3>1, <3>2
  <2>6. /\ [t \in Submitters |-> Phase(t)'] = [[t \in Submitters |-> Phase(t)] EXCEPT ![s] = "partial"]
        /\ [t \in Submitters |-> Born(t)'] = [[t \in Submitters |-> Born(t)] EXCEPT ![s] = sat[s]]
    BY <2>3, <2>4
  <2>7. now' = now /\ Promised' = Promised
    BY <1>2 DEF Insert
  <2> QED
    BY <2>3, <2>5, <2>6, <2>7 DEF Life!Accept
<1>3. ASSUME NEW s \in Submitters,
             \/ \E id \in Ids : Collide(s, id)
             \/ InsertFails(s) \/ MkdirCase(s) \/ MkdirFails(s) \/ BlobFails(s)
      PROVE  Quiet
  BY <1>3, <1>t, DataQuiet DEF Collide, InsertFails, MkdirCase, MkdirFails, BlobFails
<1>4. ASSUME NEW s \in Submitters, OpenBlob(s) PROVE Quiet
  <2>1. sid[s] \in Ids /\ file[sid[s]]["blob"] # "sealed"
    BY <1>4 DEF OpenBlob, CreatorsHold
  <2>2. \A i \in Ids : file'[i]["blob"] = "sealed" <=> file[i]["blob"] = "sealed"
    BY <1>4, <2>1 DEF OpenBlob
  <2> QED
    BY <1>4, <1>t, <2>2, DataQuiet DEF OpenBlob
<1>5. ASSUME NEW s \in Submitters, UndoDir(s) PROVE Quiet
  <2>1. sid[s] \in Ids /\ file[sid[s]]["blob"] # "sealed"
    BY <1>5 DEF UndoDir, CreatorsHold
  <2>2. \A i \in Ids : file'[i]["blob"] = "sealed" <=> file[i]["blob"] = "sealed"
    BY <1>5, <2>1 DEF UndoDir
  <2> QED
    BY <1>5, <1>t, <2>2, DataQuiet DEF UndoDir
<1>6. ASSUME NEW s \in Submitters, WriteBlob(s) PROVE Life!Complete(s)
  <2>1. sid[s] \in Ids /\ sid[s] # None /\ HasRow(s) /\ file[sid[s]]["blob"] # "sealed"
    BY <1>6 DEF WriteBlob, CreatorsHold, Holds, HasRow
  <2>2. file' = [file EXCEPT ![sid[s]]["blob"] = "sealed"] /\ spc[s] = "write"
    BY <1>6 DEF WriteBlob, CreatorsHold
  <2>3. UNCHANGED <<now, rows, sid, sat>> /\ Promised' = Promised /\ s \notin Promised
    BY <1>6, <2>2 DEF WriteBlob
  <2>4. Phase(s) = "partial" /\ Phase(s)' = "whole"
    BY <2>1, <2>2, <2>3 DEF Phase, HasRow
  <2>5. ASSUME NEW t \in Submitters \ {s} PROVE Phase(t)' = Phase(t)
    BY <2>1, <2>2, <2>3 DEF Phase, HasRow
  <2>6. OnlyPhase(s, "whole")
    BY <2>3, <2>4, <2>5 DEF OnlyPhase, Born
  <2> QED
    BY <2>3, <2>4, <2>6, PhaseSteps
<1>7. ASSUME NEW s \in Submitters, UndoRow(s) PROVE Life!Remove(s) \/ Quiet
  <2>1. sid[s] \in Ids /\ sid[s] # None /\ HasRow(s) /\ file[sid[s]]["blob"] # "sealed"
    BY <1>7 DEF UndoRow, CreatorsHold, Holds, HasRow
  <2>2. UNCHANGED <<now, file, sid, sat>> /\ Promised' = Promised /\ s \notin Promised
    BY <1>7 DEF UndoRow
  <2>3. CASE rows' = rows
    BY <1>t, <2>2, <2>3, DataQuiet
  <2>4. CASE rows' = [rows EXCEPT ![sid[s]] = None]
    <3>1. Phase(s) = "partial" /\ Phase(s)' = "gone"
      BY <2>1, <2>2, <2>4 DEF Phase, HasRow
    <3>2. ASSUME NEW t \in Submitters \ {s} PROVE Phase(t)' = Phase(t)
      BY <2>1, <2>2, <2>4 DEF Phase, HasRow
    <3>3. OnlyPhase(s, "gone")
      BY <2>2, <3>1, <3>2 DEF OnlyPhase, Born
    <3> QED
      BY <2>2, <3>1, <3>3, PhaseSteps
  <2> QED
    BY <1>7, <2>3, <2>4 DEF UndoRow
<1>8. ASSUME NEW s \in Submitters, Tell(s) PROVE Life!Promise(s)
  <2>1. UNCHANGED <<now, rows, file, sid, sat>> /\ Promised' = Promised \cup {s}
    BY <1>8 DEF Tell
  <2>2. sid[s] \in Ids /\ sid[s] # None
    BY <1>8 DEF Tell
  <2>3. Phase(s) # "new"
    BY <2>2 DEF Phase, HasRow
  <2>4. Phase(s) = "whole" \/ now + Hour > Born(s) + TTL
    <3>1. CASE now <= Expires(sat[s])
      BY <1>8, <2>2, <3>1 DEF Tell, StoredKept, Holds, Phase, HasRow
    <3>2. CASE ~(now <= Expires(sat[s]))
      <4>1. Expires(sat[s]) \in Int /\ sat[s] + TTL < Expires(sat[s]) + Hour
        BY ExpiresBounds
      <4> QED
        BY <2>2, <3>2, <4>1 DEF Born
    <3> QED
      BY <3>1, <3>2
  <2>5. \A t \in Submitters : Phase(t)' = Phase(t) /\ Born(t)' = Born(t)
    BY <2>1 DEF Phase, Born, HasRow
  <2> QED
    BY <2>1, <2>3, <2>4, <2>5 DEF Life!Promise, Life!Lapsed
\* WriteReply and the download
<1>9. ASSUME NEW r \in Receivers, Reply(r) PROVE Quiet
  <2>1. UNCHANGED <<now, sid, sat, spc>>
    BY <1>9 DEF Reply, ReplyTo, OpenReply, WriteReplyFile, MarkReplied, ReplyFails
  <2>2. \A i \in Ids : /\ rows'[i] # None <=> rows[i] # None
                       /\ rows[i] # None => rows'[i].code = rows[i].code
    <3>1. CASE rows' = rows
      BY <3>1
    <3>2. CASE rpc[r] # "idle" /\ rows[rid[r]] # None
               /\ rows' = [rows EXCEPT ![rid[r]] = [rows[rid[r]] EXCEPT !.hasReply = TRUE]]
      <4>1. rid[r] \in Ids /\ rows[rid[r]] \in Row
        BY <3>2
      <4> QED
        BY <3>2, <4>1, FlaggedRow
    <3> QED
      BY <1>9, <3>1, <3>2 DEF Reply, ReplyTo, OpenReply, WriteReplyFile, MarkReplied, ReplyFails
  <2>3. \A i \in Ids : file'[i]["blob"] = file[i]["blob"]
    <3>1. ASSUME NEW c \in Content, file' = [file EXCEPT ![rid[r]]["reply"] = c]
          PROVE  \A i \in Ids : file'[i]["blob"] = file[i]["blob"]
      BY <3>1
    <3> QED
      BY <1>9, <3>1 DEF Content, Reply, ReplyTo, OpenReply, WriteReplyFile, MarkReplied, ReplyFails
  <2>4. Promised' = Promised
    BY <2>1
  <2>5. \A i \in Ids : file'[i]["blob"] = "sealed" <=> file[i]["blob"] = "sealed"
    BY <2>3
  <2> HIDE DEF TypeOK, Promised
  <2>6. \A i \in Ids : /\ rows'[i] # None <=> rows[i] # None
                       /\ rows[i] # None => rows'[i].code = rows[i].code
                       /\ file'[i]["blob"] = "sealed" <=> file[i]["blob"] = "sealed"
    BY <2>2, <2>5
  <2> QED
    BY <1>t, <2>1, <2>4, <2>6, DataQuiet
<1>10. ASSUME NEW id \in Ids, Download(id) PROVE Quiet
  <2>1. rows[id] \in Row /\ rows[id] # None
    BY <1>10 DEF Download
  <2>2. rows' = [rows EXCEPT ![id] = [rows[id] EXCEPT !.read = TRUE]]
    BY <1>10 DEF Download
  <2>3. \A i \in Ids : /\ rows'[i] # None <=> rows[i] # None
                       /\ rows[i] # None => rows'[i].code = rows[i].code
    BY <2>1, <2>2, FlaggedRow
  <2>4. UNCHANGED <<now, sid, sat, file, spc>>
    BY <1>10 DEF Download
  <2>5. Promised' = Promised
    BY <2>4
  <2>6. \A i \in Ids : file'[i]["blob"] = "sealed" <=> file[i]["blob"] = "sealed"
    BY <2>4
  <2> HIDE DEF TypeOK, Promised
  <2>7. \A i \in Ids : /\ rows'[i] # None <=> rows[i] # None
                       /\ rows[i] # None => rows'[i].code = rows[i].code
                       /\ file'[i]["blob"] = "sealed" <=> file[i]["blob"] = "sealed"
    BY <2>3, <2>6
  <2> QED
    BY <1>t, <2>4, <2>5, <2>7, DataQuiet
\* The loop
<1>11. ASSUME \/ SweepStart(Loop) \/ Stat(Loop) \/ Rmdir(Loop) \/ SweepDone(Loop)
              \/ ShredFails(Loop) \/ DeleteFails(Loop)
              \/ \E id \in Ids : Pick(Loop, id)
       PROVE  Quiet
  BY <1>11, <1>t, DataQuiet
  DEF SweepStart, Stat, Rmdir, SweepDone, ShredFails, DeleteFails, Pick
<1>12. ASSUME Zero(Loop) \/ Unlink(Loop)
       PROVE  (\E s \in Submitters : Life!Damage(s)) \/ Quiet
  <2>1. wcur[Loop] \in Ids /\ wcur[Loop] \in Expired /\ wcur[Loop] \in dir
    BY <1>12 DEF Zero, Unlink, LoopOwns
  <2>2. UNCHANGED <<now, rows, sid, sat>> /\ Promised' = Promised
    BY <1>12 DEF Zero, Unlink
  <2>3. \E c \in {"zeroed", "none"} : file' = [file EXCEPT ![wcur[Loop]][Entry(Loop)] = c]
    BY <1>12, <2>1 DEF Zero, Unlink
  <2>4. Entry(Loop) \in Names
    BY DEF Entry
  <2>5. CASE file'[wcur[Loop]]["blob"] = "sealed" <=> file[wcur[Loop]]["blob"] = "sealed"
    <3>1. \A i \in Ids : file'[i]["blob"] = "sealed" <=> file[i]["blob"] = "sealed"
      BY <2>1, <2>3, <2>4, <2>5
    <3> QED
      BY <1>t, <2>2, <3>1, DataQuiet
  <2>6. CASE file[wcur[Loop]]["blob"] = "sealed" /\ file'[wcur[Loop]]["blob"] # "sealed"
    <3>1. \A i \in Ids \ {wcur[Loop]} : file'[i]["blob"] = file[i]["blob"]
      BY <2>1, <2>3, <2>4
    <3>2. CASE \E s \in Submitters : sid[s] = wcur[Loop] /\ HasRow(s)
      <4> PICK s \in Submitters : sid[s] = wcur[Loop] /\ HasRow(s)
        BY <3>2
      <4>1. sid[s] # None /\ sid'[s] = sid[s] /\ HasRow(s)' = HasRow(s)
        BY <2>1, <2>2 DEF HasRow
      <4>2. Phase(s) = "whole" /\ Phase(s)' = "partial"
        BY <2>6, <4>1 DEF Phase
      <4>3. ASSUME NEW t \in Submitters \ {s} PROVE Phase(t)' = Phase(t)
        <5>1. CASE sid[t] = wcur[Loop]
          BY <2>1, <2>2, <5>1 DEF Phase, HasRow
        <5>2. CASE sid[t] # wcur[Loop]
          BY <2>1, <2>2, <3>1, <5>2 DEF Phase, HasRow
        <5> QED
          BY <5>1, <5>2
      <4>4. OnlyPhase(s, "partial")
        BY <2>2, <4>2, <4>3 DEF OnlyPhase, Born
      <4>5. now + Hour > Born(s) + TTL
        BY <1>t, <2>1, <4>1, ExpiredLapsed
      <4>6. Life!Damage(s)
        BY <4>2, <4>4, <4>5, PhaseSteps
      <4> QED
        BY <4>6
    <3>3. CASE \A s \in Submitters : sid[s] = wcur[Loop] => ~HasRow(s)
      <4>1. ASSUME NEW t \in Submitters PROVE Phase(t)' = Phase(t) /\ Born(t)' = Born(t)
        <5>1. CASE sid[t] = wcur[Loop]
          BY <2>2, <3>3, <5>1 DEF Phase, HasRow, Born
        <5>2. CASE sid[t] # wcur[Loop]
          BY <2>1, <2>2, <3>1, <5>2 DEF Phase, HasRow, Born
        <5> QED
          BY <5>1, <5>2
      <4> QED
        BY <2>2, <4>1 DEF Quiet
    <3> QED
      BY <3>2, <3>3
  <2>7. file'[wcur[Loop]]["blob"] = "sealed" => file[wcur[Loop]]["blob"] = "sealed"
    BY <2>1, <2>3, <2>4
  <2> QED
    BY <2>5, <2>6, <2>7
<1>13. ASSUME DeleteRow(Loop)
       PROVE  (\E s \in Submitters : Life!Remove(s)) \/ Quiet
  <2>1. /\ wcur[Loop] \in Ids /\ wcur[Loop] \in Expired
        /\ file[wcur[Loop]]["blob"] = "none"
    BY <1>13 DEF DeleteRow, LoopOwns, FilesHaveDirs
  <2>2. UNCHANGED <<now, file, sid, sat>> /\ Promised' = Promised
    BY <1>13 DEF DeleteRow
  <2>3. rows' = [rows EXCEPT ![wcur[Loop]] = None]
    BY <1>13 DEF DeleteRow
  <2>4. CASE \E s \in Submitters : sid[s] = wcur[Loop] /\ HasRow(s)
    <3> PICK s \in Submitters : sid[s] = wcur[Loop] /\ HasRow(s)
      BY <2>4
    <3>1. Phase(s) = "partial" /\ Phase(s)' = "gone"
      BY <2>1, <2>2, <2>3 DEF Phase, HasRow
    <3>2. ASSUME NEW t \in Submitters \ {s} PROVE Phase(t)' = Phase(t)
      BY <2>1, <2>2, <2>3 DEF Phase, HasRow
    <3>3. OnlyPhase(s, "gone")
      BY <2>2, <3>1, <3>2 DEF OnlyPhase, Born
    <3>4. now + Hour > Born(s) + TTL
      BY <1>t, <2>1, ExpiredLapsed
    <3>5. Life!Remove(s)
      BY <3>1, <3>3, <3>4, PhaseSteps
    <3> QED
      BY <3>5
  <2>5. CASE \A s \in Submitters : sid[s] = wcur[Loop] => ~HasRow(s)
    <3>1. ASSUME NEW t \in Submitters PROVE Phase(t)' = Phase(t) /\ Born(t)' = Born(t)
      BY <2>1, <2>2, <2>3, <2>5 DEF Phase, HasRow, Born
    <3> QED
      BY <2>2, <3>1 DEF Quiet
  <2> QED
    BY <2>4, <2>5
\* The process and the clock
<1>14. ASSUME ServerStarts \/ ServerStops \/ UNCHANGED vars PROVE Quiet
  BY <1>14, <1>t, DataQuiet DEF ServerStarts, ServerStops, vars
<1>15. ASSUME Tick PROVE Life!Tick
  <2>1. now' = now + 1 /\ UNCHANGED <<rows, file, sid, sat, spc>>
    BY <1>15 DEF Tick
  <2>2. \A t \in Submitters : Phase(t)' = Phase(t) /\ Born(t)' = Born(t)
    BY <2>1 DEF Phase, Born, HasRow
  <2> QED
    BY <2>1, <2>2 DEF Life!Tick
<1>16. ASSUME NEW s \in Submitters, Create(s) PROVE Life!Next \/ Quiet
  BY <1>1, <1>2, <1>3, <1>4, <1>5, <1>6, <1>7, <1>8, <1>16, <1>n DEF Create
<1>17. ASSUME Shred(Loop) \/ ShredBreaks(Loop) PROVE Life!Next \/ Quiet
  BY <1>11, <1>12, <1>13, <1>17, <1>n DEF Shred, ShredBreaks, WipeStart, WipeRows, CliStops
<1>18. Tick => Life!Next
  BY <1>15 DEF Life!Next
<1>19. Life!Next \/ Quiet
  BY <1>9, <1>10, <1>14, <1>16, <1>17, <1>18 DEF Next
<1> QED
  BY <1>19, <1>q

(* The server's loop being the only sweeper and nobody wiping, the table,    *)
(* the directories and everything that runs on them implement CaseLifecycle. *)
THEOREM LifecycleImplemented == LoopAlone => (Spec => ImplementsLifecycle)
<1> SUFFICES ASSUME LoopAlone PROVE Spec => ImplementsLifecycle
  OBVIOUS
<1>1. Init => Life!Init
  BY DEF Init, Life!Init, Phase, Born, Promised
<1>2. Clis = {}
  BY DEF LoopAlone
<1>5. ~WipeBegun
  BY DEF LoopAlone, WipeBegun
<1>3. Sound /\ IInv /\ [Next]_vars => [Life!Next]_Life!life
  BY StepMaps DEF Sound
<1>4. Spec => [](~WipeBegun => IInv)
  BY <1>2, StoreSafe
<1> QED
  BY <1>1, <1>3, <1>4, <1>5, StoreSound, PTL DEF Spec, ImplementsLifecycle, Life!Spec
=============================================================================
