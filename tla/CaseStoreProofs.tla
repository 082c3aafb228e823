--------------------------- MODULE CaseStoreProofs ---------------------------
(***************************************************************************)
(* Proofs about CaseStore for every set of ids, submitters and receivers,  *)
(* every TTL and every bound.                                              *)
(***************************************************************************)
EXTENDS CaseStoreInv, TLAPS

(* The hour truncation moves expires_at back by less than an hour.           *)
LEMMA ExpiresBounds ==
    ASSUME NEW at \in Int
    PROVE  /\ Expires(at) \in Int
           /\ at < Expires(at)
           /\ at + TTL < Expires(at) + Hour
           /\ Expires(at) <= at + TTL
<1>1. at % Hour \in 0 .. (Hour - 1)
  BY StoreAssumption
<1> QED
  BY <1>1, StoreAssumption DEF Expires

(* The two UPDATEs keep a row a row, with its code and its expiry.           *)
LEMMA FlaggedRow ==
    ASSUME NEW c \in Row
    PROVE  /\ [c EXCEPT !.hasReply = TRUE] \in Row
           /\ [c EXCEPT !.read = TRUE] \in Row
           /\ [c EXCEPT !.hasReply = TRUE].code = c.code
           /\ [c EXCEPT !.hasReply = TRUE].exp = c.exp
           /\ [c EXCEPT !.read = TRUE].code = c.code
           /\ [c EXCEPT !.read = TRUE].exp = c.exp
           /\ c.code \in Submitters /\ c.exp \in Int
           /\ [c EXCEPT !.hasReply = TRUE] # None
           /\ [c EXCEPT !.read = TRUE] # None
<1>1. /\ [c EXCEPT !.hasReply = TRUE] \in Row
      /\ [c EXCEPT !.read = TRUE] \in Row
  BY DEF Row
<1> QED
  BY <1>1, StoreAssumption DEF Row

LEMMA NewRowType ==
    ASSUME NEW s \in Submitters, sat[s] \in Int
    PROVE  NewRow(s) \in Row /\ NewRow(s) # None
<1>1. Expires(sat[s]) \in Int
  BY ExpiresBounds
<1>2. NewRow(s) \in Row
  BY <1>1 DEF NewRow, Row
<1> QED
  BY <1>2, StoreAssumption

(* Changing what one file holds.                                             *)
LEMMA FileUpdate ==
  ASSUME NEW f \in [Ids -> [Names -> Content]],
         NEW id \in Ids, NEW n \in Names, NEW c \in Content
  PROVE  [f EXCEPT ![id][n] = c] \in [Ids -> [Names -> Content]]
<1>1. [f[id] EXCEPT ![n] = c] \in [Names -> Content]
  OBVIOUS
<1> QED
  BY <1>1

(* Every step preserves the types: no handler, sweep or stop leaves a        *)
(* process without the case it works on.                                     *)
LEMMA TypeStep == TypeOK /\ [Next]_vars => TypeOK'
<1> SUFFICES ASSUME TypeOK, [Next]_vars PROVE TypeOK'
  OBVIOUS
<1> USE StoreAssumption
        DEF TypeOK, disk, subs, recs, shred, env, Fault, SubmitPcs, InCreate, ReplyPcs,
            ShredPcs, Names, Content
<1>1. ASSUME NEW s \in Submitters, Begin(s) PROVE TypeOK'
  BY <1>1 DEF Begin
<1>2. ASSUME NEW s \in Submitters, NEW id \in Ids, Insert(s, id) PROVE TypeOK'
  <2>1. NewRow(s) \in Row
    BY NewRowType
  <2> QED
    BY <1>2, <2>1 DEF Insert
<1>3. ASSUME NEW s \in Submitters, NEW id \in Ids, Collide(s, id) PROVE TypeOK'
  BY <1>3 DEF Collide
<1>4. ASSUME NEW s \in Submitters, InsertFails(s) PROVE TypeOK'
  BY <1>4 DEF InsertFails
<1>5. ASSUME NEW s \in Submitters, MkdirCase(s) PROVE TypeOK'
  BY <1>5 DEF MkdirCase
<1>6. ASSUME NEW s \in Submitters, MkdirFails(s) PROVE TypeOK'
  BY <1>6 DEF MkdirFails
<1>7. ASSUME NEW s \in Submitters, OpenBlob(s) PROVE TypeOK'
  <2>1. sid[s] \in Ids
    BY <1>7 DEF OpenBlob
  <2>2. file' \in [Ids -> [Names -> Content]]
    <3>1. file' = file \/ file' = [file EXCEPT ![sid[s]]["blob"] = "empty"]
      BY <1>7 DEF OpenBlob
    <3>2. "blob" \in Names /\ "empty" \in Content
      OBVIOUS
    <3> HIDE DEF TypeOK, Names, Content
    <3>3. file \in [Ids -> [Names -> Content]]
      BY DEF TypeOK
    <3>4. [file EXCEPT ![sid[s]]["blob"] = "empty"] \in [Ids -> [Names -> Content]]
      BY <2>1, <3>2, <3>3, FileUpdate
    <3> QED
      BY <3>1, <3>3, <3>4
  <2>3. spc' \in [Submitters -> SubmitPcs]
    BY <1>7 DEF OpenBlob
  <2>4. \A t \in Submitters : t # s => spc'[t] = spc[t]
    BY <1>7 DEF OpenBlob
  <2> QED
    BY <1>7, <2>1, <2>2, <2>3, <2>4 DEF OpenBlob
<1>8. ASSUME NEW s \in Submitters, WriteBlob(s) PROVE TypeOK'
  <2>1. sid[s] \in Ids
    BY <1>8 DEF WriteBlob
  <2>2. file' \in [Ids -> [Names -> Content]]
    <3>1. file' = file \/ \E c \in {"sealed", "mixed"} : file' = [file EXCEPT ![sid[s]]["blob"] = c]
      BY <1>8 DEF WriteBlob
    <3>2. "blob" \in Names /\ {"sealed", "mixed"} \subseteq Content
      OBVIOUS
    <3> HIDE DEF TypeOK, Names, Content
    <3>3. file \in [Ids -> [Names -> Content]]
      BY DEF TypeOK
    <3>4. \A c \in {"sealed", "mixed"} :
             [file EXCEPT ![sid[s]]["blob"] = c] \in [Ids -> [Names -> Content]]
      BY <2>1, <3>2, <3>3, FileUpdate
    <3> QED
      BY <3>1, <3>3, <3>4
  <2>3. spc' \in [Submitters -> SubmitPcs]
    BY <1>8 DEF WriteBlob
  <2>4. \A t \in Submitters : t # s => spc'[t] = spc[t]
    BY <1>8 DEF WriteBlob
  <2> QED
    BY <1>8, <2>1, <2>2, <2>3, <2>4 DEF WriteBlob
<1>9. ASSUME NEW s \in Submitters, BlobFails(s) PROVE TypeOK'
  BY <1>9 DEF BlobFails
<1>10. ASSUME NEW s \in Submitters, UndoDir(s) PROVE TypeOK'
  BY <1>10 DEF UndoDir
<1>11. ASSUME NEW s \in Submitters, UndoRow(s) PROVE TypeOK'
  BY <1>11 DEF UndoRow
<1>12. ASSUME NEW s \in Submitters, Tell(s) PROVE TypeOK'
  BY <1>12 DEF Tell
<1>13. ASSUME NEW r \in Receivers, NEW id \in Ids, ReplyTo(r, id) PROVE TypeOK'
  BY <1>13 DEF ReplyTo
<1>14. ASSUME NEW r \in Receivers, OpenReply(r) PROVE TypeOK'
  <2>1. rid[r] \in Ids
    BY <1>14 DEF OpenReply
  <2>2. file' \in [Ids -> [Names -> Content]]
    <3>1. file' = file \/ file' = [file EXCEPT ![rid[r]]["reply"] = "empty"]
      BY <1>14 DEF OpenReply
    <3>2. "reply" \in Names /\ "empty" \in Content
      OBVIOUS
    <3> HIDE DEF TypeOK, Names, Content
    <3>3. file \in [Ids -> [Names -> Content]]
      BY DEF TypeOK
    <3>4. [file EXCEPT ![rid[r]]["reply"] = "empty"] \in [Ids -> [Names -> Content]]
      BY <2>1, <3>2, <3>3, FileUpdate
    <3> QED
      BY <3>1, <3>3, <3>4
  <2>3. rpc' \in [Receivers -> ReplyPcs]
    BY <1>14 DEF OpenReply
  <2> QED
    BY <1>14, <2>1, <2>2, <2>3 DEF OpenReply
<1>15. ASSUME NEW r \in Receivers, WriteReplyFile(r) PROVE TypeOK'
  BY <1>15 DEF WriteReplyFile
<1>16. ASSUME NEW r \in Receivers, MarkReplied(r) PROVE TypeOK'
  <2>1. rid[r] \in Ids
    BY <1>16 DEF MarkReplied
  <2>2. ASSUME rows[rid[r]] # None
        PROVE  [rows[rid[r]] EXCEPT !.hasReply = TRUE] \in Row
    <3>1. rows[rid[r]] \in Row
      BY <2>1, <2>2
    <3> QED
      BY <3>1, FlaggedRow
  <2>3. rows' \in [Ids -> Row \cup {None}]
    BY <1>16, <2>1, <2>2 DEF MarkReplied
  <2> QED
    BY <1>16, <2>3 DEF MarkReplied
<1>17. ASSUME NEW r \in Receivers, ReplyFails(r) PROVE TypeOK'
  BY <1>17 DEF ReplyFails
<1>18. ASSUME NEW id \in Ids, Download(id) PROVE TypeOK'
  <2>1. rows[id] \in Row
    BY <1>18 DEF Download
  <2>2. [rows[id] EXCEPT !.read = TRUE] \in Row /\ rows[id].code \in Submitters
    BY <2>1, FlaggedRow
  <2> QED
    BY <1>18, <2>2 DEF Download
<1>19. ASSUME NEW w \in Shredders, SweepStart(w) PROVE TypeOK'
  BY <1>19 DEF SweepStart, Expired
<1>20. ASSUME NEW w \in Shredders, WipeStart(w) PROVE TypeOK'
  BY <1>20 DEF WipeStart
<1>21. ASSUME NEW w \in Shredders, NEW id \in Ids, Pick(w, id) PROVE TypeOK'
  <2>1. wpc' \in [Shredders -> ShredPcs]
    <3>1. \E pc \in ShredPcs : wpc' = [wpc EXCEPT ![w] = pc]
      BY <1>21 DEF Pick, ShredReturns
    <3> QED
      BY <3>1
  <2>4. wtodo' \in [Shredders -> SUBSET Ids]
    BY <1>21 DEF Pick, ShredReturns
  <2>2. server' \in {"down", "starting", "serving"}
    BY <1>21 DEF Pick, ShredReturns, Served
  <2>3. \A v \in Shredders : v # w => wpc'[v] = wpc[v]
    BY <1>21 DEF Pick, ShredReturns
  <2> QED
    BY <1>21, <2>1, <2>2, <2>3, <2>4 DEF Pick
<1>22. ASSUME NEW w \in Shredders, Stat(w) PROVE TypeOK'
  <2>0. wcur[w] \in Ids
    BY <1>22 DEF Stat
  <2>1. wpc' \in [Shredders -> ShredPcs]
    <3>1. \E pc \in ShredPcs : wpc' = [wpc EXCEPT ![w] = pc]
      BY <1>22 DEF Stat, ShredReturns
    <3> QED
      BY <3>1
  <2>4. wtodo' \in [Shredders -> SUBSET Ids]
    BY <1>22, <2>0 DEF Stat, ShredReturns
  <2>2. server' \in {"down", "starting", "serving"}
    BY <1>22 DEF Stat, ShredReturns, Served
  <2>3. \A v \in Shredders : v # w => wpc'[v] = wpc[v]
    BY <1>22 DEF Stat, ShredReturns
  <2> QED
    BY <1>22, <2>0, <2>1, <2>2, <2>3, <2>4 DEF Stat
<1>23. ASSUME NEW w \in Shredders, Zero(w) PROVE TypeOK'
  <2>1. wcur[w] \in Ids
    BY <1>23 DEF Zero
  <2>2. file' \in [Ids -> [Names -> Content]]
    <3>1. file' = file \/ file' = [file EXCEPT ![wcur[w]][Entry(w)] = "zeroed"]
      BY <1>23 DEF Zero
    <3>2. Entry(w) \in Names /\ "zeroed" \in Content
      BY DEF Entry
    <3> HIDE DEF TypeOK, Names, Content
    <3>3. file \in [Ids -> [Names -> Content]]
      BY DEF TypeOK
    <3>4. [file EXCEPT ![wcur[w]][Entry(w)] = "zeroed"] \in [Ids -> [Names -> Content]]
      BY <2>1, <3>2, <3>3, FileUpdate
    <3> QED
      BY <3>1, <3>3, <3>4
  <2>3. wpc' \in [Shredders -> ShredPcs]
    BY <1>23 DEF Zero
  <2> QED
    BY <1>23, <2>1, <2>2, <2>3 DEF Zero
<1>24. ASSUME NEW w \in Shredders, Unlink(w) PROVE TypeOK'
  BY <1>24 DEF Unlink, Entry
<1>25. ASSUME NEW w \in Shredders, Rmdir(w) PROVE TypeOK'
  <2>0. wcur[w] \in Ids
    BY <1>25 DEF Rmdir
  <2>1. wpc' \in [Shredders -> ShredPcs]
    <3>1. \E pc \in ShredPcs : wpc' = [wpc EXCEPT ![w] = pc]
      BY <1>25 DEF Rmdir, ShredReturns
    <3> QED
      BY <3>1
  <2>4. wtodo' \in [Shredders -> SUBSET Ids]
    BY <1>25, <2>0 DEF Rmdir, ShredReturns
  <2>2. server' \in {"down", "starting", "serving"}
    BY <1>25 DEF Rmdir, ShredReturns, Served
  <2>3. \A v \in Shredders : v # w => wpc'[v] = wpc[v]
    BY <1>25 DEF Rmdir, ShredReturns
  <2> QED
    BY <1>25, <2>0, <2>1, <2>2, <2>3, <2>4 DEF Rmdir
<1>26. ASSUME NEW w \in Shredders, ShredFails(w) PROVE TypeOK'
  BY <1>26 DEF ShredFails, ShredReturns, Served
<1>27. ASSUME NEW w \in Shredders, DeleteRow(w) PROVE TypeOK'
  BY <1>27 DEF DeleteRow
<1>28. ASSUME NEW w \in Shredders, DeleteFails(w) PROVE TypeOK'
  BY <1>28 DEF DeleteFails, Served
<1>29. ASSUME NEW w \in Shredders, SweepDone(w) PROVE TypeOK'
  BY <1>29 DEF SweepDone, Served
<1>30. ASSUME NEW w \in Shredders, WipeRows(w) PROVE TypeOK'
  BY <1>30 DEF WipeRows
<1>31. CASE ServerStarts
  BY <1>31 DEF ServerStarts
<1>32. CASE ServerStops
  BY <1>32 DEF ServerStops
<1>33. ASSUME NEW w \in Shredders, CliStops(w) PROVE TypeOK'
  BY <1>33 DEF CliStops
<1>34. CASE Tick
  BY <1>34 DEF Tick
<1>35. CASE UNCHANGED vars
  BY <1>35 DEF vars
<1> QED
  BY <1>1, <1>2, <1>3, <1>4, <1>5, <1>6, <1>7, <1>8, <1>9, <1>10, <1>11, <1>12, <1>13,
     <1>14, <1>15, <1>16, <1>17, <1>18, <1>19, <1>20, <1>21, <1>22, <1>23, <1>24, <1>25,
     <1>26, <1>27, <1>28, <1>29, <1>30, <1>31, <1>32, <1>33, <1>34, <1>35
  DEF Next, Create, Reply, Shred, ShredBreaks

(* In every reachable state the store and its processes have their types.    *)
THEOREM TypeCorrect == Spec => []TypeOK
<1>1. Init => TypeOK
  BY StoreAssumption
  DEF Init, TypeOK, SubmitPcs, InCreate, ReplyPcs, ShredPcs, Names, Content
<1> QED
  BY <1>1, TypeStep, PTL DEF Spec

(* An INSERT apart, no step draws an id, makes a row, or changes whose it is *)
(* and when it expires; the time of a request is read once, as it begins.    *)
LEMMA RowsKept ==
    ASSUME TypeOK, [Next]_vars, \A s \in Submitters, id \in Ids : ~Insert(s, id)
    PROVE  /\ sid' = sid /\ now' \in Int /\ now <= now'
           /\ \A i \in Ids : rows'[i] # None =>
                 rows[i] # None /\ rows'[i].code = rows[i].code /\ rows'[i].exp = rows[i].exp
           /\ \A t \in Submitters :
                 \/ sat'[t] = sat[t] /\ (spc'[t] \in {"start", "insert"} => spc'[t] = spc[t])
                 \/ spc[t] = "start" /\ sat'[t] = now /\ now' = now
<1> USE DEF TypeOK, disk, subs, recs, shred, env, Fault, Names, InCreate
<1> DEFINE Kept == \A i \in Ids : rows'[i] # None =>
                      /\ rows[i] # None
                      /\ rows'[i].code = rows[i].code /\ rows'[i].exp = rows[i].exp
           Timed(t) == \/ sat'[t] = sat[t] /\ (spc'[t] \in {"start", "insert"} => spc'[t] = spc[t])
                       \/ spc[t] = "start" /\ sat'[t] = now /\ now' = now
           Fine == /\ sid' = sid /\ now' \in Int /\ now <= now'
                   /\ Kept /\ \A t \in Submitters : Timed(t)
<1>1. ASSUME NEW s \in Submitters, Create(s) PROVE Fine
  <2>1. CASE Begin(s)
    BY <2>1 DEF Begin
  <2>2. CASE ~Begin(s)
    <3>1. /\ UNCHANGED <<sid, sat, now>>
          /\ \A t \in Submitters : spc'[t] \in {"start", "insert"} => spc'[t] = spc[t]
      BY <1>1, <2>2 DEF Create, Collide, InsertFails, MkdirCase, MkdirFails, OpenBlob, WriteBlob,
                        BlobFails, UndoDir, UndoRow, Tell
    <3>2. \A i \in Ids : rows'[i] # None => rows'[i] = rows[i]
      BY <1>1, <2>2 DEF Create, Collide, InsertFails, MkdirCase, MkdirFails, OpenBlob, WriteBlob,
                        BlobFails, UndoDir, UndoRow, Tell
    <3> QED
      BY <3>1, <3>2
  <2> QED
    BY <2>1, <2>2
<1>2. ASSUME NEW r \in Receivers, Reply(r) PROVE Fine
  <2>1. UNCHANGED <<sid, sat, now, spc>>
    BY <1>2 DEF Reply, ReplyTo, OpenReply, WriteReplyFile, MarkReplied, ReplyFails
  <2>2. Kept
    <3>1. CASE rows' = rows
      BY <3>1
    <3>2. CASE rpc[r] # "idle" /\ rows[rid[r]] # None
               /\ rows' = [rows EXCEPT ![rid[r]] = [rows[rid[r]] EXCEPT !.hasReply = TRUE]]
      <4>1. rid[r] \in Ids /\ rows[rid[r]] \in Row
        BY <3>2
      <4> QED
        BY <3>2, <4>1, FlaggedRow
    <3> QED
      BY <1>2, <3>1, <3>2 DEF Reply, ReplyTo, OpenReply, WriteReplyFile, MarkReplied, ReplyFails
  <2> QED
    BY <2>1, <2>2
<1>3. ASSUME NEW id \in Ids, Download(id) PROVE Fine
  <2>1. rows[id] \in Row /\ rows[id] # None
    BY <1>3 DEF Download
  <2>2. rows' = [rows EXCEPT ![id] = [rows[id] EXCEPT !.read = TRUE]]
    BY <1>3 DEF Download
  <2>3. Kept
    BY <2>1, <2>2, FlaggedRow
  <2> QED
    BY <1>3, <2>3 DEF Download
<1>4. ASSUME NEW w \in Shredders, Shred(w) \/ ShredBreaks(w) PROVE Fine
  <2>1. /\ UNCHANGED <<sid, sat, now>>
        /\ \A t \in Submitters : spc'[t] \in {"start", "insert"} => spc'[t] = spc[t]
    BY <1>4 DEF Shred, ShredBreaks, SweepStart, WipeStart, Pick, Stat, Zero, Unlink, Rmdir,
                DeleteRow, SweepDone, WipeRows, ShredFails, DeleteFails, CliStops
  <2>2. \A i \in Ids : rows'[i] # None => rows'[i] = rows[i]
    BY <1>4 DEF Shred, ShredBreaks, SweepStart, WipeStart, Pick, Stat, Zero, Unlink, Rmdir,
                DeleteRow, SweepDone, WipeRows, ShredFails, DeleteFails, CliStops
  <2> QED
    BY <2>1, <2>2
<1>5. CASE ServerStarts \/ ServerStops \/ Tick \/ UNCHANGED vars
  <2>1. /\ UNCHANGED <<sid, sat, rows>> /\ (now' = now \/ now' = now + 1)
        /\ \A t \in Submitters : spc'[t] \in {"start", "insert"} => spc'[t] = spc[t]
    BY <1>5 DEF ServerStarts, ServerStops, Tick, vars
  <2> QED
    BY <2>1
<1> QED
  BY <1>1, <1>2, <1>3, <1>4, <1>5 DEF Next

(* What an INSERT does to the ids: s had none, and id had no row.            *)
LEMMA Inserted ==
    ASSUME TypeOK, RowsOwn, NEW s \in Submitters, NEW id \in Ids, Insert(s, id)
    PROVE  /\ spc[s] = "insert" /\ spc' = [spc EXCEPT ![s] = "mkdir"]
           /\ sid[s] = None /\ sid' = [sid EXCEPT ![s] = id] /\ id # None
           /\ rows[id] = None /\ rows' = [rows EXCEPT ![id] = NewRow(s)]
           /\ NewRow(s) # None /\ NewRow(s).code = s /\ NewRow(s).exp = Expires(sat[s])
           /\ NewRow(s).hasReply = FALSE
           /\ UNCHANGED <<now, server, faults, dir, file, sat, rpc, rid, replies, codes,
                          wpc, wtodo, wcur, wents>>
<1>1. sat[s] \in Int
  BY DEF TypeOK
<1>2. NewRow(s) # None
  BY <1>1, NewRowType
<1> QED
  BY <1>2, StoreAssumption DEF Insert, RowsOwn, NewRow, recs, shred, env

(* Ids are drawn once, rows keep the expiry they were inserted with and stay *)
(* under the id of their submission, through every step of every process.    *)
LEMMA RowsOwnStep ==
    TypeOK /\ RowsOwn /\ RowsNamed /\ [Next]_vars => RowsOwn' /\ RowsNamed'
<1> SUFFICES ASSUME TypeOK, RowsOwn, RowsNamed, [Next]_vars PROVE RowsOwn' /\ RowsNamed'
  OBVIOUS
<1>0. \A i \in Ids : rows[i] # None => rows[i].code \in Submitters /\ sid[rows[i].code] = i
  BY FlaggedRow DEF RowsNamed, TypeOK
<1>1. ASSUME NEW s \in Submitters, NEW id \in Ids, Insert(s, id) PROVE RowsOwn' /\ RowsNamed'
  <2>0. /\ spc' = [spc EXCEPT ![s] = "mkdir"] /\ UNCHANGED <<now, sat>>
        /\ sid[s] = None /\ sid' = [sid EXCEPT ![s] = id] /\ id # None
        /\ rows[id] = None /\ rows' = [rows EXCEPT ![id] = NewRow(s)]
        /\ NewRow(s) # None /\ NewRow(s).code = s /\ NewRow(s).exp = Expires(sat[s])
    BY <1>1, Inserted
  <2>1. RowsOwn'
    <3> SUFFICES ASSUME NEW t \in Submitters
                 PROVE  /\ spc'[t] \in {"start", "insert"} => sid'[t] = None
                        /\ spc'[t] = "insert" => sat'[t] <= now'
                        /\ sid'[t] # None /\ HasRow(t)' => rows'[sid'[t]].exp = Expires(sat'[t])
      BY DEF RowsOwn
    <3>1. CASE t = s
      BY <2>0, <3>1 DEF TypeOK, HasRow, Expires
    <3>2. CASE t # s
      <4>1. spc'[t] = spc[t] /\ sid'[t] = sid[t] /\ sat'[t] = sat[t]
        BY <2>0, <3>2 DEF TypeOK
      <4>2. sid[t] # None /\ HasRow(t)' => rows'[sid[t]] = rows[sid[t]]
        BY <2>0, <3>2, <4>1 DEF HasRow, TypeOK
      <4> QED
        BY <2>0, <4>1, <4>2 DEF RowsOwn, HasRow, Expires
    <3> QED
      BY <3>1, <3>2
  <2>2. RowsNamed'
    <3> SUFFICES ASSUME NEW i \in Ids, rows'[i] # None PROVE sid'[rows'[i].code] = i
      BY DEF RowsNamed
    <3>1. CASE i = id
      BY <2>0, <3>1 DEF TypeOK
    <3>2. CASE i # id
      <4>1. rows'[i] = rows[i]
        BY <2>0, <3>2 DEF TypeOK
      <4>2. rows[i].code # s
        BY <1>0, <2>0, <4>1, StoreAssumption
      <4> QED
        BY <1>0, <2>0, <4>1, <4>2 DEF TypeOK
    <3> QED
      BY <3>1, <3>2
  <2> QED
    BY <2>1, <2>2
<1>2. CASE \A s \in Submitters, id \in Ids : ~Insert(s, id)
  <2>1. /\ sid' = sid /\ now' \in Int /\ now <= now'
        /\ \A i \in Ids : rows'[i] # None =>
              rows[i] # None /\ rows'[i].code = rows[i].code /\ rows'[i].exp = rows[i].exp
        /\ \A t \in Submitters :
              \/ sat'[t] = sat[t] /\ (spc'[t] \in {"start", "insert"} => spc'[t] = spc[t])
              \/ spc[t] = "start" /\ sat'[t] = now /\ now' = now
    BY <1>2, RowsKept
  <2>2. RowsNamed'
    BY <2>1 DEF RowsNamed
  <2>3. RowsOwn'
    <3> SUFFICES ASSUME NEW s \in Submitters
                 PROVE  /\ spc'[s] \in {"start", "insert"} => sid'[s] = None
                        /\ spc'[s] = "insert" => sat'[s] <= now'
                        /\ sid'[s] # None /\ HasRow(s)' => rows'[sid'[s]].exp = Expires(sat'[s])
      BY DEF RowsOwn
    <3>1. CASE sat'[s] = sat[s] /\ (spc'[s] \in {"start", "insert"} => spc'[s] = spc[s])
      BY <2>1, <3>1 DEF RowsOwn, HasRow, TypeOK, Expires
    <3>2. CASE spc[s] = "start" /\ sat'[s] = now /\ now' = now
      BY <2>1, <3>2 DEF RowsOwn, TypeOK
    <3> QED
      BY <2>1, <3>1, <3>2
  <2> QED
    BY <2>2, <2>3
<1> QED
  BY <1>1, <1>2

(* Files come only into directories that are there, a directory goes only    *)
(* with its files, and whoever has a file open when it is unlinked is told   *)
(* apart from one whose file still has its name.                             *)
LEMMA FilesStep == TypeOK /\ FilesHaveDirs /\ [Next]_vars => FilesHaveDirs'
<1> SUFFICES ASSUME TypeOK, FilesHaveDirs, [Next]_vars PROVE FilesHaveDirs'
  OBVIOUS
<1> USE DEF TypeOK, disk, subs, recs, shred, env, Fault, Names
<1>q. ASSUME dir \subseteq dir', UNCHANGED <<sid>>,
             \A i \in Ids, n \in Names :
                /\ file'[i][n] # "none" => file[i][n] # "none" \/ i \in dir'
                /\ file[i][n] # "none" => file'[i][n] # "none",
             \A s \in Submitters : spc'[s] = "write" =>
                spc[s] = "write" \/ file'[sid[s]]["blob"] # "none",
             \A r \in Receivers : rpc'[r] = "write" =>
                (rpc[r] = "write" /\ rid'[r] = rid[r]) \/ file'[rid'[r]]["reply"] # "none"
      PROVE  FilesHaveDirs'
  <2>1. \A i \in Ids, n \in Names : file'[i][n] # "none" => i \in dir'
    BY <1>q DEF FilesHaveDirs
  <2>2. \A s \in Submitters : spc'[s] = "write" => file'[sid'[s]]["blob"] # "none"
    BY <1>q DEF FilesHaveDirs, InCreate
  <2>3. \A r \in Receivers : rpc'[r] = "write" => file'[rid'[r]]["reply"] # "none"
    BY <1>q DEF FilesHaveDirs
  <2> QED
    BY <2>1, <2>2, <2>3 DEF FilesHaveDirs
<1>1. ASSUME NEW s \in Submitters, Create(s) PROVE FilesHaveDirs'
  <2>1. CASE OpenBlob(s)
    <3>1. CASE sid[s] \in dir
      <4>1. file' = [file EXCEPT ![sid[s]]["blob"] = "empty"] /\ sid[s] \in Ids
        BY <2>1, <3>1 DEF OpenBlob
      <4>2. file'[sid[s]]["blob"] # "none"
        BY <4>1
      <4>3. \A i \in Ids, n \in Names :
               /\ file'[i][n] # "none" => file[i][n] # "none" \/ i = sid[s]
               /\ file[i][n] # "none" => file'[i][n] # "none"
        BY <4>1
      <4>4. UNCHANGED <<dir, sid, rid, rpc>> /\ \A t \in Submitters : t # s => spc'[t] = spc[t]
        BY <2>1 DEF OpenBlob
      <4> QED
        BY <1>q, <3>1, <4>2, <4>3, <4>4
    <3>2. CASE sid[s] \notin dir
      BY <2>1, <3>2, <1>q DEF OpenBlob
    <3> QED
      BY <3>1, <3>2
  <2>2. CASE WriteBlob(s)
    <3>1. CASE spc[s] = "write"
      <4>1. PICK c \in {"sealed", "mixed"} : file' = [file EXCEPT ![sid[s]]["blob"] = c]
        BY <2>2, <3>1 DEF WriteBlob
      <4>2. sid[s] \in Ids /\ sid[s] \in dir
        BY <3>1 DEF FilesHaveDirs, InCreate
      <4>3. \A i \in Ids, n \in Names :
               /\ file'[i][n] # "none" => file[i][n] # "none" \/ i = sid[s]
               /\ file[i][n] # "none" => file'[i][n] # "none"
        BY <4>1, <4>2
      <4>4. UNCHANGED <<dir, sid, rid, rpc>>
            /\ \A t \in Submitters : spc'[t] = "write" => spc[t] = "write"
        BY <2>2 DEF WriteBlob
      <4> QED
        BY <1>q, <4>2, <4>3, <4>4
    <3>2. CASE spc[s] # "write"
      BY <2>2, <3>2, <1>q DEF WriteBlob
    <3> QED
      BY <3>1, <3>2
  <2>3. CASE UndoDir(s)
    <3>1. sid[s] \in Ids /\ file' = [file EXCEPT ![sid[s]] = [n \in Names |-> "none"]]
          /\ dir' = dir \ {sid[s]} /\ UNCHANGED <<sid, rid>>
      BY <2>3 DEF UndoDir, InCreate
    <3>2. \A t \in Submitters : spc'[t] = "write" => spc[t] = "write" /\ sid[t] # sid[s]
      BY <2>3 DEF UndoDir
    <3>3. \A r \in Receivers : rpc'[r] = "write" => rpc[r] = "write" /\ rid[r] # sid[s]
      BY <2>3 DEF UndoDir
    <3>4. \A i \in Ids, n \in Names :
             (i # sid[s] => file'[i][n] = file[i][n]) /\ (i = sid[s] => file'[i][n] = "none")
      BY <3>1
    <3>5. \A t \in Submitters : spc[t] = "write" => sid[t] \in Ids
      BY DEF InCreate
    <3> QED
      BY <3>1, <3>2, <3>3, <3>4, <3>5 DEF FilesHaveDirs
  <2>4. CASE \E id \in Ids : Insert(s, id)
    <3>1. UNCHANGED <<dir, file, rpc, rid>> /\ spc'[s] = "mkdir"
          /\ \A t \in Submitters : t # s => spc'[t] = spc[t] /\ sid'[t] = sid[t]
      BY <2>4 DEF Insert
    <3> QED
      BY <3>1 DEF FilesHaveDirs
  <2>5. CASE ~OpenBlob(s) /\ ~WriteBlob(s) /\ ~UndoDir(s) /\ \A id \in Ids : ~Insert(s, id)
    <3>1. UNCHANGED <<file, sid, rid, rpc>> /\ dir \subseteq dir'
          /\ \A t \in Submitters : spc'[t] = "write" => spc[t] = "write"
      BY <1>1, <2>5 DEF Create, Begin, Collide, InsertFails, MkdirCase, MkdirFails, BlobFails,
                        UndoRow, Tell
    <3> QED
      BY <3>1, <1>q
  <2> QED
    BY <2>1, <2>2, <2>3, <2>4, <2>5
<1>2. ASSUME NEW r \in Receivers, Reply(r) PROVE FilesHaveDirs'
  <2>0. UNCHANGED <<dir, sid, spc>>
    BY <1>2 DEF Reply, ReplyTo, OpenReply, WriteReplyFile, MarkReplied, ReplyFails
  <2>1. CASE OpenReply(r)
    <3>1. CASE rid[r] \in dir
      <4>1. file' = [file EXCEPT ![rid[r]]["reply"] = "empty"] /\ rid[r] \in Ids
        BY <2>1, <3>1 DEF OpenReply
      <4>2. file'[rid[r]]["reply"] # "none"
        BY <4>1
      <4>3. \A i \in Ids, n \in Names :
               /\ file'[i][n] # "none" => file[i][n] # "none" \/ i = rid[r]
               /\ file[i][n] # "none" => file'[i][n] # "none"
        BY <4>1
      <4>4. rid' = rid /\ \A q \in Receivers : q # r => rpc'[q] = rpc[q]
        BY <2>1 DEF OpenReply
      <4> QED
        BY <1>q, <2>0, <3>1, <4>2, <4>3, <4>4
    <3>2. CASE rid[r] \notin dir
      BY <2>0, <2>1, <3>2, <1>q DEF OpenReply
    <3> QED
      BY <3>1, <3>2
  <2>2. CASE WriteReplyFile(r)
    <3>1. CASE rpc[r] = "write"
      <4>1. PICK c \in {"sealed", "mixed"} : file' = [file EXCEPT ![rid[r]]["reply"] = c]
        BY <2>2, <3>1 DEF WriteReplyFile
      <4>2. rid[r] \in Ids /\ rid[r] \in dir
        BY <3>1 DEF FilesHaveDirs
      <4>3. \A i \in Ids, n \in Names :
               /\ file'[i][n] # "none" => file[i][n] # "none" \/ i = rid[r]
               /\ file[i][n] # "none" => file'[i][n] # "none"
        BY <4>1, <4>2
      <4>4. rid' = rid /\ \A q \in Receivers : rpc'[q] = "write" => rpc[q] = "write"
        BY <2>2 DEF WriteReplyFile
      <4> QED
        BY <1>q, <2>0, <4>2, <4>3, <4>4
    <3>2. CASE rpc[r] # "write"
      BY <2>0, <2>2, <3>2, <1>q DEF WriteReplyFile
    <3> QED
      BY <3>1, <3>2
  <2>3. CASE ~OpenReply(r) /\ ~WriteReplyFile(r)
    <3>1. file' = file
          /\ \A q \in Receivers : rpc'[q] = "write" => rpc[q] = "write" /\ rid'[q] = rid[q]
      BY <1>2, <2>3 DEF Reply, ReplyTo, MarkReplied, ReplyFails
    <3> QED
      BY <2>0, <3>1, <1>q
  <2> QED
    BY <2>1, <2>2, <2>3
<1>3. ASSUME NEW w \in Shredders, Shred(w) \/ ShredBreaks(w) PROVE FilesHaveDirs'
  <2>0. UNCHANGED <<sid, rid>>
    BY <1>3 DEF Shred, ShredBreaks, SweepStart, WipeStart, Pick, Stat, Zero, Unlink, Rmdir,
                DeleteRow, SweepDone, WipeRows, ShredFails, DeleteFails, CliStops
  <2>1. CASE Zero(w)
    <3>0. wcur[w] \in Ids /\ UNCHANGED <<dir, spc, rpc>>
      BY <2>1 DEF Zero
    <3>1. CASE wcur[w] \in dir
      <4>1. file' = [file EXCEPT ![wcur[w]][Entry(w)] = "zeroed"] /\ Entry(w) \in Names
        BY <2>1, <3>1 DEF Zero, Entry
      <4>2. \A i \in Ids, n \in Names :
               /\ file'[i][n] # "none" => file[i][n] # "none" \/ i = wcur[w]
               /\ file[i][n] # "none" => file'[i][n] # "none"
        BY <3>0, <4>1
      <4> QED
        BY <1>q, <2>0, <3>0, <3>1, <4>2
    <3>2. CASE wcur[w] \notin dir
      <4>1. file' = file
        BY <2>1, <3>2 DEF Zero
      <4> QED
        BY <1>q, <2>0, <3>0, <4>1
    <3> QED
      BY <3>1, <3>2
  <2>2. CASE Unlink(w)
    <3>1. wcur[w] \in Ids /\ Entry(w) \in Names /\ dir' = dir
          /\ file' = [file EXCEPT ![wcur[w]][Entry(w)] = "none"]
      BY <2>2 DEF Unlink, Entry
    <3>2. \A i \in Ids, n \in Names :
             (i # wcur[w] \/ n # Entry(w)) => file'[i][n] = file[i][n]
      BY <3>1
    <3>3. \A i \in Ids, n \in Names : file'[i][n] # "none" => file[i][n] # "none"
      BY <3>1
    <3>4. \A s \in Submitters : spc'[s] = "write" =>
             spc[s] = "write" /\ (sid[s] # wcur[w] \/ "blob" # Entry(w)) /\ sid[s] \in Ids
      BY <2>2 DEF Unlink, InCreate
    <3>5. \A r \in Receivers : rpc'[r] = "write" =>
             rpc[r] = "write" /\ (rid[r] # wcur[w] \/ "reply" # Entry(w)) /\ rid[r] \in Ids
      BY <2>2 DEF Unlink
    <3> QED
      BY <2>0, <3>1, <3>2, <3>3, <3>4, <3>5 DEF FilesHaveDirs
  <2>3. CASE Rmdir(w)
    <3>1. UNCHANGED <<file, spc, rpc>>
          /\ dir \ dir' \subseteq {i \in Ids : \A n \in Names : file[i][n] = "none"}
      BY <2>3 DEF Rmdir
    <3> QED
      BY <2>0, <3>1 DEF FilesHaveDirs
  <2>4. CASE ~Zero(w) /\ ~Unlink(w) /\ ~Rmdir(w)
    <3>1. UNCHANGED <<file, dir, spc, rpc>>
      BY <1>3, <2>4 DEF Shred, ShredBreaks, SweepStart, WipeStart, Pick, Stat,
                        DeleteRow, SweepDone, WipeRows, ShredFails, DeleteFails, CliStops
    <3> QED
      BY <2>0, <3>1, <1>q
  <2> QED
    BY <2>1, <2>2, <2>3, <2>4
<1>4. ASSUME NEW id \in Ids, Download(id) PROVE FilesHaveDirs'
  BY <1>4, <1>q DEF Download
<1>5. CASE ServerStarts \/ ServerStops \/ Tick \/ UNCHANGED vars
  <2>1. UNCHANGED <<file, dir, sid, rid>>
        /\ (\A s \in Submitters : spc'[s] = "write" => spc[s] = "write")
        /\ (\A r \in Receivers : rpc'[r] = "write" => rpc[r] = "write")
    BY <1>5 DEF ServerStarts, ServerStops, Tick, vars
  <2> QED
    BY <2>1, <1>q
<1> QED
  BY <1>1, <1>2, <1>3, <1>4, <1>5 DEF Next

------------------------------------------------------------------------------
(* Who may change what: the steps of Next seen from one variable.            *)

(* A blob changes by a CreateCase on this id, which alone may make it whole, *)
(* or by a shredder at work on this id.                                      *)
LEMMA BlobChanges ==
    ASSUME TypeOK, [Next]_vars, NEW id \in Ids, file'[id]["blob"] # file[id]["blob"]
    PROVE  \/ \E s \in Submitters :
                 /\ Create(s) /\ sid[s] = id /\ spc[s] \in {"open", "write", "undoDir"}
                 /\ file'[id]["blob"] = "sealed" => spc[s] = "write"
           \/ \E w \in Shredders :
                 /\ Shred(w) /\ wcur[w] = id /\ wpc[w] \in {"zero", "unlink"}
                 /\ file'[id]["blob"] # "sealed"
<1> USE DEF TypeOK, disk, subs, recs, shred, env, Fault, Names
<1>1. ASSUME NEW s \in Submitters, Create(s)
      PROVE  /\ sid[s] = id /\ spc[s] \in {"open", "write", "undoDir"}
             /\ file'[id]["blob"] = "sealed" => spc[s] = "write"
  <2>1. CASE OpenBlob(s)
    BY <2>1 DEF OpenBlob
  <2>2. CASE WriteBlob(s)
    <3>1. spc[s] = "write" /\ \E c \in {"sealed", "mixed"} : file' = [file EXCEPT ![sid[s]]["blob"] = c]
      BY <2>2 DEF WriteBlob
    <3> QED
      BY <3>1
  <2>3. CASE UndoDir(s)
    BY <2>3 DEF UndoDir
  <2>4. file' = file \/ OpenBlob(s) \/ WriteBlob(s) \/ UndoDir(s)
    BY <1>1 DEF Create, Begin, Insert, Collide, InsertFails, MkdirCase, MkdirFails, BlobFails,
                UndoRow, Tell
  <2> QED
    BY <2>1, <2>2, <2>3, <2>4
<1>2. ASSUME NEW r \in Receivers, Reply(r) PROVE FALSE
  <2>1. CASE OpenReply(r)
    BY <2>1 DEF OpenReply
  <2>2. CASE WriteReplyFile(r)
    <3>1. file' = file \/ \E c \in {"sealed", "mixed"} : file' = [file EXCEPT ![rid[r]]["reply"] = c]
      BY <2>2 DEF WriteReplyFile
    <3> QED
      BY <3>1
  <2>3. file' = file \/ OpenReply(r) \/ WriteReplyFile(r)
    BY <1>2 DEF Reply, ReplyTo, MarkReplied, ReplyFails
  <2> QED
    BY <2>1, <2>2, <2>3
<1>3. ASSUME NEW w \in Shredders, Shred(w) \/ ShredBreaks(w)
      PROVE  /\ Shred(w) /\ wcur[w] = id /\ wpc[w] \in {"zero", "unlink"}
             /\ file'[id]["blob"] # "sealed"
  <2>1. CASE Zero(w)
    BY <2>1 DEF Shred, Zero
  <2>2. CASE Unlink(w)
    BY <2>2 DEF Shred, Unlink
  <2>3. file' = file \/ Zero(w) \/ Unlink(w)
    BY <1>3 DEF Shred, ShredBreaks, SweepStart, WipeStart, Pick, Stat, Rmdir, DeleteRow, SweepDone,
                WipeRows, ShredFails, DeleteFails, CliStops
  <2> QED
    BY <2>1, <2>2, <2>3
<1>4. \/ file' = file \/ \E s \in Submitters : Create(s)
      \/ \E r \in Receivers : Reply(r)
      \/ \E w \in Shredders : Shred(w) \/ ShredBreaks(w)
  BY DEF Next, Download, ServerStarts, ServerStops, Tick, vars
<1> QED
  BY <1>1, <1>2, <1>3, <1>4

(* A row goes by a rollback, at the end of a sweep of this id, or by a wipe. *)
LEMMA RowGoes ==
    ASSUME TypeOK, [Next]_vars, NEW id \in Ids, rows[id] # None, rows'[id] = None
    PROVE  \/ \E s \in Submitters : Create(s) /\ sid[s] = id /\ spc[s] = "undoRow"
           \/ \E w \in Shredders : Shred(w) /\ wcur[w] = id /\ wpc[w] = "row"
           \/ \E w \in Wipers : Shred(w)
<1> USE DEF TypeOK, disk, subs, recs, shred, env, Fault
<1>1. ASSUME NEW s \in Submitters, Create(s) PROVE sid[s] = id /\ spc[s] = "undoRow"
  <2>1. CASE \E i \in Ids : Insert(s, i)
    BY <2>1, NewRowType DEF Insert
  <2>2. rows' = rows \/ UndoRow(s) \/ \E i \in Ids : Insert(s, i)
    BY <1>1 DEF Create, Begin, Collide, InsertFails, MkdirCase, MkdirFails, OpenBlob, WriteBlob,
                BlobFails, UndoDir, Tell
  <2> QED
    BY <2>1, <2>2 DEF UndoRow
<1>2. ASSUME NEW r \in Receivers, Reply(r) PROVE FALSE
  <2>1. CASE rpc[r] # "idle" /\ rows[rid[r]] # None
             /\ rows' = [rows EXCEPT ![rid[r]] = [rows[rid[r]] EXCEPT !.hasReply = TRUE]]
    <3>1. rid[r] \in Ids /\ rows[rid[r]] \in Row
      BY <2>1
    <3> QED
      BY <2>1, <3>1, FlaggedRow
  <2> QED
    BY <1>2, <2>1 DEF Reply, ReplyTo, OpenReply, WriteReplyFile, MarkReplied, ReplyFails
<1>3. ASSUME NEW i \in Ids, Download(i) PROVE FALSE
  <2>1. rows[i] \in Row /\ rows' = [rows EXCEPT ![i] = [rows[i] EXCEPT !.read = TRUE]]
    BY <1>3 DEF Download
  <2> QED
    BY <2>1, FlaggedRow
<1>4. ASSUME NEW w \in Shredders, Shred(w) \/ ShredBreaks(w)
      PROVE  Shred(w) /\ ((wcur[w] = id /\ wpc[w] = "row") \/ w \in Wipers)
  <2>1. rows' = rows \/ DeleteRow(w) \/ WipeRows(w)
    BY <1>4 DEF Shred, ShredBreaks, SweepStart, WipeStart, Pick, Stat, Zero, Unlink, Rmdir, SweepDone,
                ShredFails, DeleteFails, CliStops
  <2> QED
    BY <2>1 DEF DeleteRow, WipeRows, Shred
<1>5. \/ rows' = rows \/ \E s \in Submitters : Create(s)
      \/ \E r \in Receivers : Reply(r)
      \/ \E i \in Ids : Download(i)
      \/ \E w \in Shredders : Shred(w) \/ ShredBreaks(w)
  BY DEF Next, ServerStarts, ServerStops, Tick, vars
<1> QED
  BY <1>1, <1>2, <1>3, <1>4, <1>5

(* A directory comes by CreateCase, and goes by its rollback or a shredder.  *)
LEMMA DirChanges ==
    ASSUME TypeOK, [Next]_vars, NEW id \in Ids
    PROVE  /\ id \in dir' => id \in dir \/ \E s \in Submitters : sid[s] = id
           /\ id \in dir /\ id \notin dir' =>
                 \/ \E s \in Submitters : Create(s) /\ sid[s] = id /\ spc[s] = "undoDir"
                 \/ \E w \in Shredders : Shred(w) /\ wcur[w] = id /\ wpc[w] = "stat"
<1> USE DEF TypeOK, disk, subs, recs, shred, env, Fault
<1>1. ASSUME NEW s \in Submitters, Create(s)
      PROVE  dir' = dir \/ dir' = dir \cup {sid[s]} \/ (dir' = dir \ {sid[s]} /\ spc[s] = "undoDir")
  BY <1>1 DEF Create, Begin, Insert, Collide, InsertFails, MkdirCase, MkdirFails, OpenBlob, WriteBlob,
              BlobFails, UndoDir, UndoRow, Tell
<1>2. ASSUME NEW r \in Receivers, Reply(r) PROVE dir' = dir
  BY <1>2 DEF Reply, ReplyTo, OpenReply, WriteReplyFile, MarkReplied, ReplyFails
<1>3. ASSUME NEW w \in Shredders, Shred(w) \/ ShredBreaks(w)
      PROVE  dir' = dir \/ (dir' = dir \ {wcur[w]} /\ wpc[w] = "stat" /\ Shred(w))
  BY <1>3 DEF Shred, ShredBreaks, SweepStart, WipeStart, Pick, Stat, Zero, Unlink, Rmdir, DeleteRow,
              SweepDone, WipeRows, ShredFails, DeleteFails, CliStops
<1>4. \/ dir' = dir \/ \E s \in Submitters : Create(s)
      \/ \E r \in Receivers : Reply(r)
      \/ \E w \in Shredders : Shred(w) \/ ShredBreaks(w)
  BY DEF Next, Download, ServerStarts, ServerStops, Tick, vars
<1> QED
  BY <1>1, <1>2, <1>3, <1>4

(* A request is moved on by itself only, unless the server stops or the file *)
(* it is writing loses its name.                                             *)
LEMMA SubmitMoves ==
    ASSUME TypeOK, [Next]_vars, NEW s \in Submitters, ~Create(s)
    PROVE  /\ sid'[s] = sid[s] /\ sat'[s] = sat[s]
           /\ \/ spc'[s] = spc[s]
              \/ spc'[s] = "gone"
              \/ spc[s] = "write" /\ spc'[s] = "orphan" /\ file'[sid[s]]["blob"] = "none"
           /\ spc[s] \in InCreate => now' = now \/ (now' = now + 1 /\ now < Expires(sat[s]))
<1> USE DEF TypeOK, disk, subs, recs, shred, env, Fault, Names
<1> DEFINE Fine == /\ sid'[s] = sid[s] /\ sat'[s] = sat[s]
                   /\ \/ spc'[s] = spc[s]
                      \/ spc'[s] = "gone"
                      \/ spc[s] = "write" /\ spc'[s] = "orphan" /\ file'[sid[s]]["blob"] = "none"
<1>1. ASSUME NEW t \in Submitters, Create(t) PROVE Fine /\ now' = now
  <2>1. t # s
    BY <1>1
  <2>2. CASE UndoDir(t)
    <3>1. sid[t] \in Ids /\ file' = [file EXCEPT ![sid[t]] = [n \in Names |-> "none"]]
          /\ UNCHANGED <<sid, sat, now>>
      BY <2>2 DEF UndoDir, InCreate
    <3>2. spc'[s] = IF spc[s] = "write" /\ sid[s] = sid[t] THEN "orphan" ELSE spc[s]
      BY <2>1, <2>2 DEF UndoDir
    <3>3. file'[sid[t]]["blob"] = "none"
      BY <3>1
    <3> QED
      BY <3>1, <3>2, <3>3
  <2>3. CASE ~UndoDir(t)
    BY <1>1, <2>1, <2>3 DEF Create, Begin, Insert, Collide, InsertFails, MkdirCase, MkdirFails, OpenBlob,
                            WriteBlob, BlobFails, UndoRow, Tell
  <2> QED
    BY <2>2, <2>3
<1>2. ASSUME NEW r \in Receivers, Reply(r) PROVE Fine /\ now' = now
  BY <1>2 DEF Reply, ReplyTo, OpenReply, WriteReplyFile, MarkReplied, ReplyFails
<1>3. ASSUME NEW id \in Ids, Download(id) PROVE Fine /\ now' = now
  BY <1>3 DEF Download
<1>4. ASSUME NEW w \in Shredders, Shred(w) \/ ShredBreaks(w) PROVE Fine /\ now' = now
  <2>1. CASE Unlink(w)
    <3>1. wcur[w] \in Ids /\ UNCHANGED <<sid, sat, now>>
          /\ file' = [file EXCEPT ![wcur[w]][Entry(w)] = "none"]
          /\ spc'[s] = IF Entry(w) = "blob" /\ spc[s] = "write" /\ sid[s] = wcur[w]
                       THEN "orphan" ELSE spc[s]
      BY <2>1 DEF Unlink
    <3>2. Entry(w) = "blob" => file'[wcur[w]]["blob"] = "none"
      BY <3>1
    <3> QED
      BY <3>1, <3>2
  <2>2. CASE ~Unlink(w)
    BY <1>4, <2>2 DEF Shred, ShredBreaks, SweepStart, WipeStart, Pick, Stat, Zero, Rmdir, DeleteRow,
                      SweepDone, WipeRows, ShredFails, DeleteFails, CliStops
  <2> QED
    BY <2>1, <2>2
<1>5. CASE ServerStarts \/ ServerStops \/ UNCHANGED vars
  BY <1>5 DEF ServerStarts, ServerStops, vars
<1>6. CASE Tick
  BY <1>6 DEF Tick
<1> QED
  BY <1>1, <1>2, <1>3, <1>4, <1>5, <1>6 DEF Next

(* A sweeper is moved on by itself only, or put to rest by a stop.           *)
LEMMA SweeperMoves ==
    ASSUME TypeOK, [Next]_vars, NEW w \in Sweepers, ~Shred(w), ~ShredBreaks(w), wpc[w] # "done"
    PROVE  \/ wpc'[w] = "idle"
           \/ /\ wpc'[w] = wpc[w] /\ wtodo'[w] = wtodo[w]
              /\ wcur'[w] = wcur[w] /\ wents'[w] = wents[w]
<1> USE StoreAssumption DEF TypeOK, disk, subs, recs, shred, env, Fault, Shredders, Sweepers
<1>1. ASSUME NEW v \in Shredders, Shred(v) \/ ShredBreaks(v)
      PROVE  /\ wpc'[w] = wpc[w] /\ wtodo'[w] = wtodo[w]
             /\ wcur'[w] = wcur[w] /\ wents'[w] = wents[w]
  <2>1. v # w
    BY <1>1
  <2>2. \A x \in Shredders : x # v => wpc'[x] = wpc[x] /\ wtodo'[x] = wtodo[x]
    BY <1>1 DEF Shred, ShredBreaks, SweepStart, WipeStart, Pick, Stat, Zero, Unlink, Rmdir, DeleteRow,
                SweepDone, WipeRows, ShredFails, DeleteFails, CliStops, ShredReturns
  <2>3. \A x \in Shredders : x # v => wcur'[x] = wcur[x] /\ wents'[x] = wents[x]
    BY <1>1 DEF Shred, ShredBreaks, SweepStart, WipeStart, Pick, Stat, Zero, Unlink, Rmdir, DeleteRow,
                SweepDone, WipeRows, ShredFails, DeleteFails, CliStops
  <2> QED
    BY <2>1, <2>2, <2>3
<1>2. CASE ServerStops
  BY <1>2 DEF ServerStops
<1>3. ASSUME NEW s \in Submitters, Create(s) PROVE UNCHANGED shred
  BY <1>3 DEF Create, Begin, Insert, Collide, InsertFails, MkdirCase, MkdirFails, OpenBlob,
              WriteBlob, BlobFails, UndoDir, UndoRow, Tell
<1>4. ASSUME NEW r \in Receivers, Reply(r) PROVE UNCHANGED shred
  BY <1>4 DEF Reply, ReplyTo, OpenReply, WriteReplyFile, MarkReplied, ReplyFails
<1>5. ASSUME (\E id \in Ids : Download(id)) \/ ServerStarts \/ Tick \/ UNCHANGED vars
      PROVE  UNCHANGED shred
  BY <1>5 DEF Download, ServerStarts, Tick, vars
<1> QED
  BY <1>1, <1>2, <1>3, <1>4, <1>5 DEF Next

(* What holds whoever sweeps and wipes.                                      *)
LEMMA SoundStep == Sound /\ [Next]_vars => Sound'
<1> SUFFICES ASSUME Sound, [Next]_vars PROVE Sound'
  OBVIOUS
<1>1. TypeOK' /\ FilesHaveDirs' /\ RowsOwn' /\ RowsNamed'
  BY TypeStep, FilesStep, RowsOwnStep DEF Sound
<1>2. ASSUME NEW w \in Shredders
      PROVE  /\ w \in Wipers => wpc'[w] # "row"
             /\ w \in Sweepers => wpc'[w] \notin {"done", "gone"}
  <2> USE <1>2, StoreAssumption DEF Sound, TypeOK, Shredders, Sweepers
  <2>1. ASSUME NEW v \in Shredders, Shred(v) \/ ShredBreaks(v)
        PROVE  /\ w \in Wipers => wpc'[w] # "row"
               /\ w \in Sweepers => wpc'[w] \notin {"done", "gone"}
    BY <2>1 DEF Shred, ShredBreaks, SweepStart, WipeStart, Pick, Stat, Zero, Unlink, Rmdir, DeleteRow,
                SweepDone, WipeRows, ShredFails, DeleteFails, CliStops, ShredReturns
  <2>2. CASE UNCHANGED wpc
    BY <2>2
  <2>3. CASE ServerStops
    BY <2>3 DEF ServerStops
  <2>4. ASSUME NEW s \in Submitters, Create(s) PROVE UNCHANGED wpc
    BY <2>4 DEF Create, Begin, Insert, Collide, InsertFails, MkdirCase, MkdirFails, OpenBlob,
                WriteBlob, BlobFails, UndoDir, UndoRow, Tell, shred
  <2>5. ASSUME NEW r \in Receivers, Reply(r) PROVE UNCHANGED wpc
    BY <2>5 DEF Reply, ReplyTo, OpenReply, WriteReplyFile, MarkReplied, ReplyFails, shred
  <2>6. ASSUME (\E id \in Ids : Download(id)) \/ ServerStarts \/ Tick \/ UNCHANGED vars
        PROVE  UNCHANGED wpc
    BY <2>6 DEF Download, ServerStarts, Tick, vars, shred
  <2> QED
    BY <2>1, <2>2, <2>3, <2>4, <2>5, <2>6 DEF Next
<1>3. ASSUME NEW id \in Ids, id \in dir' PROVE \E s \in Submitters : sid'[s] = id
  <2>1. PICK s \in Submitters : sid[s] = id
    BY <1>3, DirChanges DEF Sound
  <2>2. spc[s] # "insert" /\ id # None
    BY <2>1, StoreAssumption DEF Sound, RowsOwn
  <2>3. ~Create(s) => sid'[s] = sid[s]
    BY SubmitMoves DEF Sound
  <2>4. Create(s) => sid'[s] = sid[s]
    BY <2>2 DEF Create, Begin, Insert, Collide, InsertFails, MkdirCase, MkdirFails, OpenBlob,
                WriteBlob, BlobFails, UndoDir, UndoRow, Tell, subs
  <2> QED
    BY <2>1, <2>3, <2>4
<1> QED
  <2>1. dir' \subseteq Ids
    BY <1>1 DEF TypeOK
  <2> QED
    BY <1>1, <1>2, <1>3, <2>1 DEF Sound, Shredders, Sweepers

LEMMA SoundInit == Init => Sound
<1>1. Init => TypeOK
  BY StoreAssumption
  DEF Init, TypeOK, SubmitPcs, InCreate, ReplyPcs, ShredPcs, Names, Content
<1>2. Init => /\ FilesHaveDirs /\ RowsOwn /\ RowsNamed /\ dir = {}
              /\ \A w \in Shredders : wpc[w] = "idle"
  BY DEF Init, FilesHaveDirs, RowsOwn, RowsNamed
<1> QED
  BY <1>1, <1>2 DEF Sound, Shredders, Sweepers

(* The table and the directories keep in step whatever runs on them: each    *)
(* row is under the id its submission drew, with the expiry it was given,    *)
(* and every directory and file belongs to an id that was drawn.             *)
THEOREM StoreSound == Spec => []Sound
  BY SoundInit, SoundStep, PTL DEF Spec

(* A wipe that has begun is never forgotten, and until one begins the wipers *)
(* do nothing.                                                               *)
LEMMA NotWiping ==
    ASSUME Sound, [Next]_vars, ~WipeBegun'
    PROVE  ~WipeBegun /\ \A w \in Wipers : ~Shred(w) /\ ~ShredBreaks(w)
<1> USE StoreAssumption DEF Sound, TypeOK, Shredders, Sweepers
<1>1. ASSUME NEW w \in Wipers, Shred(w) \/ ShredBreaks(w) PROVE wpc'[w] # "idle"
  BY <1>1 DEF Shred, ShredBreaks, SweepStart, WipeStart, Pick, Stat, Zero, Unlink, Rmdir, DeleteRow,
              SweepDone, WipeRows, ShredFails, DeleteFails, CliStops, ShredReturns
<1>2. \A w \in Wipers : ~Shred(w) /\ ~ShredBreaks(w)
  BY <1>1 DEF WipeBegun
<1>3. ASSUME NEW w \in Wipers, wpc[w] # "idle" PROVE wpc'[w] # "idle"
  <2>1. ASSUME NEW v \in Sweepers, Shred(v) \/ ShredBreaks(v) PROVE wpc'[w] = wpc[w]
    BY <1>3, <2>1 DEF Shred, ShredBreaks, SweepStart, WipeStart, Pick, Stat, Zero, Unlink, Rmdir,
                DeleteRow, SweepDone, WipeRows, ShredFails, DeleteFails, CliStops, ShredReturns
  <2>2. CASE ServerStops
    BY <1>3, <2>2 DEF ServerStops
  <2>4. ASSUME NEW s \in Submitters, Create(s) PROVE UNCHANGED wpc
    BY <2>4 DEF Create, Begin, Insert, Collide, InsertFails, MkdirCase, MkdirFails, OpenBlob,
                WriteBlob, BlobFails, UndoDir, UndoRow, Tell, shred
  <2>5. ASSUME NEW r \in Receivers, Reply(r) PROVE UNCHANGED wpc
    BY <2>5 DEF Reply, ReplyTo, OpenReply, WriteReplyFile, MarkReplied, ReplyFails, shred
  <2>6. ASSUME (\E id \in Ids : Download(id)) \/ ServerStarts \/ Tick \/ UNCHANGED vars
        PROVE  UNCHANGED wpc
    BY <2>6 DEF Download, ServerStarts, Tick, vars, shred
  <2> QED
    BY <1>2, <1>3, <2>1, <2>2, <2>4, <2>5, <2>6 DEF Next
<1> QED
  BY <1>2, <1>3 DEF WipeBegun

(* Who owns a row: a running CreateCase, or a stored submission that has not *)
(* expired.                                                                  *)
Owner(s) ==
    \/ spc[s] \in InCreate \ {"insert"}
    \/ spc[s] \in {"stored", "told"} /\ now <= Expires(sat[s])

(* An owner's row is its own, is not the row of another owner, and is not on *)
(* the list of a running sweep.                                              *)
LEMMA Owned ==
    ASSUME IInv
    PROVE  \A s \in Submitters : Owner(s) =>
              /\ sid[s] \in Ids
              /\ Holds(s)
              /\ \A t \in Submitters : Owner(t) /\ t # s => sid[t] # sid[s]
              /\ wpc[Loop] # "idle" => sid[s] \notin wtodo[Loop]
              /\ wpc[Loop] \notin {"idle", "pick"} => sid[s] # wcur[Loop]
<1>1. \A s \in Submitters : Owner(s) => sid[s] \in Ids /\ Holds(s) /\ now <= Expires(sat[s])
  BY DEF IInv, Safe, TypeOK, Owner, CreatorsHold, StoredKept, InCreate
<1>2. \A s \in Submitters : Owner(s) => sid[s] \notin Expired
  <2>1. \A s \in Submitters : Expires(sat[s]) \in Int
    BY ExpiresBounds DEF IInv, TypeOK
  <2> QED
    BY <1>1, <2>1 DEF Expired, Holds, IInv, TypeOK
<1> QED
  BY <1>1, <1>2 DEF Holds, IInv, Safe, TypeOK, LoopOwns, ShredPcs

(* Every step of the loop, the handlers, the clock and the process keeps the *)
(* store safe, until a wipe begins.                                          *)
LEMMA SafeStep ==
    ASSUME Clis = {}, Sound, IInv, [Next]_vars, ~WipeBegun' PROVE IInv'
<1> SUFFICES Safe'
  BY TypeStep DEF IInv
<1>f. FilesHaveDirs' /\ \A w \in Wipers : ~Shred(w) /\ ~ShredBreaks(w)
  BY FilesStep, NotWiping DEF Sound
<1> USE StoreAssumption
        DEF IInv, TypeOK, Safe, disk, subs, recs, shred, env, Fault, InCreate, Names,
            Shredders, Sweepers
<1>o. \A s \in Submitters : Owner(s) =>
              /\ sid[s] \in Ids
              /\ Holds(s)
              /\ \A t \in Submitters : Owner(t) /\ t # s => sid[t] # sid[s]
              /\ wpc[Loop] # "idle" => sid[s] \notin wtodo[Loop]
              /\ wpc[Loop] \notin {"idle", "pick"} => sid[s] # wcur[Loop]
  BY Owned
<1>e. Expires(now) \in Int /\ now <= Expires(now) /\ \A s \in Submitters : Expires(sat[s]) \in Int
  BY ExpiresBounds
<1>1. ASSUME NEW s \in Submitters, Begin(s) PROVE Safe'
  <2>1. CreatorsHold'
    BY <1>1, <1>e DEF Begin, CreatorsHold, Holds
  <2>2. NoStrandedFiles' /\ StoredKept' /\ LoopOwns'
    BY <1>1 DEF Begin, NoStrandedFiles, StoredKept, LoopOwns, Holds, Expired
  <2> QED
    BY <1>f, <2>1, <2>2
<1>2. ASSUME NEW s \in Submitters, NEW id \in Ids, Insert(s, id) PROVE Safe'
  <2>1. CreatorsHold'
    <3>1. id \notin dir /\ file[id]["blob"] = "none"
      BY <1>2 DEF Insert, NoStrandedFiles, FilesHaveDirs
    <3>2. rows'[id] # None /\ rows'[id].code = s /\ rows'[id].exp = Expires(sat[s])
      BY <1>2, NewRowType DEF Insert, NewRow
    <3> SUFFICES ASSUME NEW t \in Submitters, spc'[t] \in InCreate
                 PROVE  /\ now' <= Expires(sat'[t])
                        /\ spc'[t] # "orphan"
                        /\ spc'[t] # "insert" => Holds(t)' /\ file'[sid'[t]]["blob"] # "sealed"
                        /\ spc'[t] \in {"open", "write"} => sid'[t] \in dir'
                        /\ spc'[t] = "write" => file'[sid'[t]]["blob"] = "empty"
                        /\ spc'[t] \in {"mkdir", "undoRow"} => sid'[t] \notin dir'
      BY DEF CreatorsHold
    <3>3. CASE t = s
      BY <1>2, <3>1, <3>2, <3>3 DEF Insert, CreatorsHold, Holds
    <3>4. CASE t # s
      BY <1>2, <3>4 DEF Insert, CreatorsHold, Holds
    <3> QED
      BY <3>3, <3>4
  <2>2. NoStrandedFiles' /\ StoredKept' /\ LoopOwns'
    BY <1>2 DEF Insert, NoStrandedFiles, StoredKept, LoopOwns, Holds, Expired
  <2> QED
    BY <1>f, <2>1, <2>2
<1>3. ASSUME NEW s \in Submitters, NEW id \in Ids, Collide(s, id) PROVE Safe'
  BY <1>f, <1>3 DEF Collide, NoStrandedFiles, CreatorsHold, StoredKept, LoopOwns, Holds, Expired
<1>4. ASSUME NEW s \in Submitters, InsertFails(s) PROVE Safe'
  BY <1>f, <1>4 DEF InsertFails, NoStrandedFiles, CreatorsHold, StoredKept, LoopOwns, Holds, Expired
<1>5. ASSUME NEW s \in Submitters, MkdirCase(s) PROVE Safe'
  <2>1. NoStrandedFiles'
    BY <1>5, <1>o DEF MkdirCase, NoStrandedFiles, Holds, Owner
  <2>2. CreatorsHold'
    BY <1>5, <1>o DEF MkdirCase, CreatorsHold, Holds, Owner
  <2>3. LoopOwns'
    BY <1>5, <1>o DEF MkdirCase, LoopOwns, Expired, Owner
  <2>4. StoredKept'
    BY <1>5 DEF MkdirCase, StoredKept, Holds
  <2> QED
    BY <1>f, <2>1, <2>2, <2>3, <2>4
<1>6. ASSUME NEW s \in Submitters, MkdirFails(s) PROVE Safe'
  BY <1>f, <1>6 DEF MkdirFails, NoStrandedFiles, CreatorsHold, StoredKept, LoopOwns, Holds, Expired
<1>7. ASSUME NEW s \in Submitters, OpenBlob(s) PROVE Safe'
  <2>2. CreatorsHold'
    BY <1>7, <1>o DEF OpenBlob, CreatorsHold, Holds, Owner
  <2>3. StoredKept'
    BY <1>7, <1>o DEF OpenBlob, StoredKept, Holds, Owner
  <2>4. LoopOwns'
    BY <1>7, <1>o DEF OpenBlob, LoopOwns, Expired, Owner
  <2>5. NoStrandedFiles'
    BY <1>7 DEF OpenBlob, NoStrandedFiles
  <2> QED
    BY <1>f, <2>2, <2>3, <2>4, <2>5
<1>8. ASSUME NEW s \in Submitters, WriteBlob(s) PROVE Safe'
  <2>2. CreatorsHold'
    BY <1>8, <1>o DEF WriteBlob, CreatorsHold, Holds, Owner
  <2>3. StoredKept'
    BY <1>8, <1>o DEF WriteBlob, StoredKept, CreatorsHold, Holds, Owner
  <2>4. NoStrandedFiles' /\ LoopOwns'
    BY <1>8 DEF WriteBlob, NoStrandedFiles, LoopOwns, Expired
  <2> QED
    BY <1>f, <2>2, <2>3, <2>4
<1>9. ASSUME NEW s \in Submitters, BlobFails(s) PROVE Safe'
  BY <1>f, <1>9 DEF BlobFails, NoStrandedFiles, CreatorsHold, StoredKept, LoopOwns, Holds, Expired
<1>10. ASSUME NEW s \in Submitters, UndoDir(s) PROVE Safe'
  <2>1. CreatorsHold'
    BY <1>10, <1>o DEF UndoDir, CreatorsHold, Holds, Owner
  <2>2. StoredKept'
    BY <1>10, <1>o DEF UndoDir, StoredKept, Holds, Owner
  <2>3. LoopOwns'
    BY <1>10, <1>o DEF UndoDir, LoopOwns, Expired, Owner
  <2>4. NoStrandedFiles'
    BY <1>10 DEF UndoDir, NoStrandedFiles
  <2> QED
    BY <1>f, <2>1, <2>2, <2>3, <2>4
<1>11. ASSUME NEW s \in Submitters, UndoRow(s) PROVE Safe'
  <2>1. NoStrandedFiles'
    BY <1>11 DEF UndoRow, NoStrandedFiles, CreatorsHold
  <2>2. CreatorsHold'
    BY <1>11, <1>o DEF UndoRow, CreatorsHold, Holds, Owner
  <2>3. StoredKept'
    BY <1>11, <1>o DEF UndoRow, StoredKept, Holds, Owner
  <2>4. LoopOwns'
    <3>1. /\ UNCHANGED <<now, dir, file, wpc, wtodo, wcur, wents>>
          /\ \A i \in Ids : i # sid[s] => rows'[i] = rows[i]
      BY <1>11 DEF UndoRow
    <3>2. wpc[Loop] # "idle" => sid[s] \notin wtodo[Loop]
      BY <1>11, <1>o DEF UndoRow, Owner
    <3> QED
      BY <3>1, <3>2 DEF LoopOwns, Expired
  <2> QED
    BY <2>1, <2>2, <2>3, <2>4, <1>f
<1>12. ASSUME NEW s \in Submitters, Tell(s) PROVE Safe'
  BY <1>f, <1>12 DEF Tell, NoStrandedFiles, CreatorsHold, StoredKept, LoopOwns, Holds, Expired
<1>13. ASSUME NEW r \in Receivers, NEW id \in Ids, ReplyTo(r, id) PROVE Safe'
  BY <1>f, <1>13 DEF ReplyTo, NoStrandedFiles, CreatorsHold, StoredKept, LoopOwns, Holds, Expired
<1>14. ASSUME NEW r \in Receivers, OpenReply(r) PROVE Safe'
  <2>2. CreatorsHold'
    <3>1. \A i \in Ids : file'[i]["blob"] = file[i]["blob"]
      BY <1>14 DEF OpenReply
    <3> QED
      BY <1>14, <3>1 DEF OpenReply, CreatorsHold, Holds
  <2>3. StoredKept'
    <3>1. \A i \in Ids : file'[i]["blob"] = file[i]["blob"]
      BY <1>14 DEF OpenReply
    <3> QED
      BY <1>14, <3>1 DEF OpenReply, StoredKept, Holds
  <2>4. LoopOwns'
    <3>1. \A i \in Ids, n \in Names : file[i][n] # "none" => file'[i][n] # "none"
      BY <1>14 DEF OpenReply
    <3> QED
      BY <1>14, <3>1 DEF OpenReply, LoopOwns, Expired
  <2>5. NoStrandedFiles'
    BY <1>14 DEF OpenReply, NoStrandedFiles
  <2> QED
    BY <1>f, <2>2, <2>3, <2>4, <2>5
<1>15. ASSUME NEW r \in Receivers, WriteReplyFile(r) PROVE Safe'
  <2>2. CreatorsHold'
    <3>1. \A i \in Ids : file'[i]["blob"] = file[i]["blob"]
      <4>1. ASSUME NEW c \in Content, file' = [file EXCEPT ![rid[r]]["reply"] = c]
            PROVE  \A i \in Ids : file'[i]["blob"] = file[i]["blob"]
        BY <4>1
      <4> QED
        BY <1>15, <4>1 DEF WriteReplyFile, Content
    <3> QED
      BY <1>15, <3>1 DEF WriteReplyFile, CreatorsHold, Holds
  <2>3. StoredKept'
    <3>1. \A i \in Ids : file'[i]["blob"] = file[i]["blob"]
      <4>1. ASSUME NEW c \in Content, file' = [file EXCEPT ![rid[r]]["reply"] = c]
            PROVE  \A i \in Ids : file'[i]["blob"] = file[i]["blob"]
        BY <4>1
      <4> QED
        BY <1>15, <4>1 DEF WriteReplyFile, Content
    <3> QED
      BY <1>15, <3>1 DEF WriteReplyFile, StoredKept, Holds
  <2>4. LoopOwns'
    <3>1. \A i \in Ids, n \in Names : file[i][n] # "none" => file'[i][n] # "none"
      <4>1. ASSUME NEW c \in {"sealed", "mixed"}, file' = [file EXCEPT ![rid[r]]["reply"] = c]
            PROVE  \A i \in Ids, n \in Names : file[i][n] # "none" => file'[i][n] # "none"
        BY <4>1
      <4> QED
        BY <1>15, <4>1 DEF WriteReplyFile
    <3>2. UNCHANGED <<now, rows, dir, wpc, wtodo, wcur, wents>>
      BY <1>15 DEF WriteReplyFile
    <3> QED
      BY <3>1, <3>2 DEF LoopOwns, Expired
  <2>5. NoStrandedFiles'
    BY <1>15 DEF WriteReplyFile, NoStrandedFiles
  <2> QED
    BY <1>f, <2>2, <2>3, <2>4, <2>5
<1>16. ASSUME NEW r \in Receivers, MarkReplied(r) PROVE Safe'
  <2>1. rid[r] \in Ids
    BY <1>16 DEF MarkReplied
  <2>2. CASE rows[rid[r]] # None
    <3>1. rows[rid[r]] \in Row
      BY <2>1, <2>2
    <3>2. rows' = [rows EXCEPT ![rid[r]] = [rows[rid[r]] EXCEPT !.hasReply = TRUE]]
      BY <1>16, <2>2 DEF MarkReplied
    <3>3. rows'[rid[r]] # None /\ rows'[rid[r]].code = rows[rid[r]].code /\ rows'[rid[r]].exp = rows[rid[r]].exp
      BY <2>1, <3>1, <3>2, FlaggedRow
    <3>4. \A i \in Ids : i # rid[r] => rows'[i] = rows[i]
      BY <3>2
    <3>5. \A i \in Ids : rows[i] # None =>
             rows'[i] # None /\ rows'[i].code = rows[i].code /\ rows'[i].exp = rows[i].exp
      BY <3>3, <3>4
    <3>6. NoStrandedFiles'
      BY <1>16, <3>5 DEF MarkReplied, NoStrandedFiles
    <3>8. CreatorsHold'
      BY <1>16, <3>5 DEF MarkReplied, CreatorsHold, Holds
    <3>9. StoredKept'
      BY <1>16, <3>5 DEF MarkReplied, StoredKept, Holds
    <3>10. LoopOwns'
      BY <1>16, <3>5 DEF MarkReplied, LoopOwns, Expired
    <3> QED
      BY <3>6, <1>f, <3>8, <3>9, <3>10
  <2>3. CASE rows[rid[r]] = None
    BY <1>f, <1>16, <2>3 DEF MarkReplied, NoStrandedFiles, CreatorsHold, StoredKept, LoopOwns, Holds, Expired
  <2> QED
    BY <1>f, <2>2, <2>3
<1>17. ASSUME NEW r \in Receivers, ReplyFails(r) PROVE Safe'
  BY <1>f, <1>17 DEF ReplyFails, NoStrandedFiles, CreatorsHold, StoredKept, LoopOwns, Holds, Expired
<1>18. ASSUME NEW id \in Ids, Download(id) PROVE Safe'
  <2>1. id \in Ids
    BY <1>18 DEF Download
  <2>2. CASE rows[id] # None
    <3>1. rows[id] \in Row
      BY <2>1, <2>2
    <3>2. rows' = [rows EXCEPT ![id] = [rows[id] EXCEPT !.read = TRUE]]
      BY <1>18, <2>2 DEF Download
    <3>3. rows'[id] # None /\ rows'[id].code = rows[id].code /\ rows'[id].exp = rows[id].exp
      BY <2>1, <3>1, <3>2, FlaggedRow
    <3>4. \A i \in Ids : i # id => rows'[i] = rows[i]
      BY <3>2
    <3>5. \A i \in Ids : rows[i] # None =>
             rows'[i] # None /\ rows'[i].code = rows[i].code /\ rows'[i].exp = rows[i].exp
      BY <3>3, <3>4
    <3>6. NoStrandedFiles'
      BY <1>18, <3>5 DEF Download, NoStrandedFiles
    <3>8. CreatorsHold'
      BY <1>18, <3>5 DEF Download, CreatorsHold, Holds
    <3>9. StoredKept'
      BY <1>18, <3>5 DEF Download, StoredKept, Holds
    <3>10. LoopOwns'
      BY <1>18, <3>5 DEF Download, LoopOwns, Expired
    <3> QED
      BY <3>6, <1>f, <3>8, <3>9, <3>10
  <2>3. CASE rows[id] = None
    BY <1>f, <1>18, <2>3 DEF Download, NoStrandedFiles, CreatorsHold, StoredKept, LoopOwns, Holds, Expired
  <2> QED
    BY <1>f, <2>2, <2>3
<1>19. CASE SweepStart(Loop)
  BY <1>f, <1>19 DEF SweepStart, NoStrandedFiles, CreatorsHold, StoredKept, LoopOwns, Holds, Expired
<1>20. ASSUME NEW id \in Ids, Pick(Loop, id) PROVE Safe'
  BY <1>f, <1>20 DEF Pick, ShredReturns, Served, NoStrandedFiles, CreatorsHold, StoredKept, LoopOwns, Holds, Expired
<1>21. CASE Stat(Loop)
  BY <1>f, <1>21 DEF Stat, ShredReturns, Served, Entry, NoStrandedFiles, CreatorsHold, StoredKept, LoopOwns, Holds, Expired
<1>22. CASE Zero(Loop)
  <2>1. CreatorsHold'
    BY <1>22, <1>o DEF Zero, Entry, CreatorsHold, Holds, Owner
  <2>2. StoredKept'
    BY <1>22, <1>o DEF Zero, Entry, StoredKept, Holds, Owner
  <2>3. /\ wpc[Loop] = "zero" /\ wpc'[Loop] = "unlink" /\ wcur[Loop] \in dir
        /\ UNCHANGED <<now, rows, dir, rpc, rid, wtodo, wcur, wents>>
    BY <1>22 DEF Zero, LoopOwns
  <2>4. \A i \in Ids, n \in Names :
           /\ file[i][n] # "none" => file'[i][n] # "none"
           /\ i # wcur[Loop] => file'[i][n] = file[i][n]
    BY <1>22 DEF Zero, Entry
  <2>5. NoStrandedFiles'
    BY <2>3 DEF NoStrandedFiles
  <2>7. LoopOwns'
    BY <2>3, <2>4 DEF LoopOwns, Expired
  <2> QED
    BY <2>1, <2>2, <2>5, <1>f, <2>7
<1>23. CASE Unlink(Loop)
  <2>1. CreatorsHold'
    BY <1>23, <1>o DEF Unlink, Entry, CreatorsHold, Holds, Owner
  <2>2. StoredKept'
    BY <1>23, <1>o DEF Unlink, Entry, StoredKept, Holds, Owner
  <2>3. NoStrandedFiles' /\ LoopOwns'
    BY <1>23 DEF Unlink, Entry, NoStrandedFiles, LoopOwns, Expired
  <2> QED
    BY <1>f, <2>1, <2>2, <2>3
<1>24. CASE Rmdir(Loop)
  <2>1. CreatorsHold'
    BY <1>24, <1>o DEF Rmdir, ShredReturns, Served, CreatorsHold, Holds, Owner
  <2>2. StoredKept'
    BY <1>24, <1>o DEF Rmdir, ShredReturns, Served, StoredKept, Holds, Owner
  <2>3. NoStrandedFiles' /\ LoopOwns'
    BY <1>24 DEF Rmdir, ShredReturns, Served, NoStrandedFiles, LoopOwns, Expired
  <2> QED
    BY <1>f, <2>1, <2>2, <2>3
<1>25. CASE ShredFails(Loop)
  BY <1>f, <1>25 DEF ShredFails, ShredReturns, Served, NoStrandedFiles, CreatorsHold, StoredKept, LoopOwns, Holds, Expired
<1>26. CASE DeleteRow(Loop)
  <2>1. NoStrandedFiles'
    BY <1>26 DEF DeleteRow, NoStrandedFiles, LoopOwns
  <2>2. CreatorsHold'
    BY <1>26, <1>o DEF DeleteRow, CreatorsHold, Holds, Owner
  <2>3. StoredKept'
    BY <1>26, <1>o DEF DeleteRow, StoredKept, Holds, Owner
  <2>4. LoopOwns'
    BY <1>26 DEF DeleteRow, LoopOwns, Expired
  <2> QED
    BY <1>f, <2>1, <2>2, <2>3, <2>4
<1>27. CASE DeleteFails(Loop)
  BY <1>f, <1>27 DEF DeleteFails, Served, NoStrandedFiles, CreatorsHold, StoredKept, LoopOwns, Holds, Expired
<1>28. CASE SweepDone(Loop)
  BY <1>f, <1>28 DEF SweepDone, Served, NoStrandedFiles, CreatorsHold, StoredKept, LoopOwns, Holds, Expired
<1>29. CASE ServerStarts
  BY <1>f, <1>29 DEF ServerStarts, NoStrandedFiles, CreatorsHold, StoredKept, LoopOwns, Holds, Expired
<1>30. CASE ServerStops
  BY <1>f, <1>30 DEF ServerStops, NoStrandedFiles, CreatorsHold, StoredKept, LoopOwns, Holds, Expired
<1>31. CASE Tick
  <2>1. CreatorsHold'
    BY <1>31, <1>e DEF Tick, CreatorsHold, Holds
  <2>2. StoredKept'
    BY <1>31, <1>e DEF Tick, StoredKept, Holds
  <2>3. LoopOwns'
    BY <1>31 DEF Tick, LoopOwns, Expired, Row
  <2>4. NoStrandedFiles'
    BY <1>31 DEF Tick, NoStrandedFiles
  <2> QED
    BY <1>f, <2>1, <2>2, <2>3, <2>4
<1>32. CASE UNCHANGED vars
  BY <1>f, <1>32 DEF vars, NoStrandedFiles, CreatorsHold, StoredKept, LoopOwns, Holds, Expired
<1>33. ASSUME NEW s \in Submitters, Create(s) PROVE Safe'
  BY <1>33, <1>1, <1>2, <1>3, <1>4, <1>5, <1>6, <1>7, <1>8, <1>9, <1>10, <1>11, <1>12 DEF Create
<1>34. ASSUME NEW r \in Receivers, Reply(r) PROVE Safe'
  BY <1>34, <1>13, <1>14, <1>15, <1>16, <1>17 DEF Reply
<1>35. CASE Shred(Loop) \/ ShredBreaks(Loop)
  BY <1>35, <1>19, <1>20, <1>21, <1>22, <1>23, <1>24, <1>25, <1>26, <1>27, <1>28
  DEF Shred, ShredBreaks, WipeStart, WipeRows, CliStops
<1>36. \A w \in Shredders : Shred(w) \/ ShredBreaks(w) => w = Loop
  BY <1>f
<1> QED
  BY <1>18, <1>29, <1>30, <1>31, <1>32, <1>33, <1>34, <1>35, <1>36 DEF Next

(* With the server's loop as the only sweeper the store is safe until a wipe *)
(* begins: more than with several, since no list can be stale.               *)
THEOREM StoreSafe == Clis = {} => (Spec => [](~WipeBegun => IInv))
<1> SUFFICES ASSUME Clis = {} PROVE Spec => [](~WipeBegun => IInv)
  OBVIOUS
<1>1. Init => IInv
  <2>1. Init => TypeOK
    BY StoreAssumption
    DEF Init, TypeOK, SubmitPcs, InCreate, ReplyPcs, ShredPcs, Names, Content
  <2>2. Init => Safe
    BY DEF Init, Safe, NoStrandedFiles, FilesHaveDirs, CreatorsHold, StoredKept, LoopOwns,
           InCreate, Shredders, Sweepers
  <2> QED
    BY <2>1, <2>2 DEF IInv
<1>2. Sound /\ (~WipeBegun => IInv) /\ [Next]_vars => (~WipeBegun => IInv)'
  BY NotWiping, SafeStep
<1> QED
  BY <1>1, <1>2, StoreSound, PTL DEF Spec

(* No directory is ever left without a row to expire.                        *)
THEOREM NothingStranded == Clis = {} => (Spec => [](~WipeBegun => NoStrandedFiles))
<1> SUFFICES ASSUME Clis = {} PROVE Spec => [](~WipeBegun => NoStrandedFiles)
  OBVIOUS
<1>1. IInv => NoStrandedFiles
  BY DEF IInv, Safe
<1> QED
  BY <1>1, StoreSafe, PTL

------------------------------------------------------------------------------
(* Several sweepers, until a wipe begins.                                    *)

(* Once drawn, an id stays with its request; so what was drawn twice and     *)
(* what has expired stay so.                                                 *)
LEMMA Drawn ==
    ASSUME Sound, [Next]_vars
    PROVE  /\ now' \in Int /\ now <= now'
           /\ \A s \in Submitters : sid[s] # None => sid'[s] = sid[s] /\ sat'[s] = sat[s]
           /\ \A id \in Ids : DrawnOnce(id)' => DrawnOnce(id)
           /\ \A id \in Ids : Spent(id) => Spent(id)'
<1>1. /\ now' \in Int /\ now <= now'
      /\ \A s \in Submitters : sid[s] # None => sid'[s] = sid[s] /\ sat'[s] = sat[s]
  <2>1. ASSUME NEW s \in Submitters, NEW id \in Ids, Insert(s, id)
        PROVE  /\ now' = now /\ sat' = sat /\ sid[s] = None
               /\ \A t \in Submitters : t # s => sid'[t] = sid[t]
    <3>1. sid[s] = None /\ sid' = [sid EXCEPT ![s] = id] /\ UNCHANGED <<now, sat>>
      BY <2>1, Inserted DEF Sound
    <3> QED
      BY <3>1 DEF Sound, TypeOK
  <2>2. CASE \A s \in Submitters, id \in Ids : ~Insert(s, id)
    BY <2>2, RowsKept DEF Sound, RowsOwn
  <2> QED
    BY <2>1, <2>2 DEF Sound, TypeOK
<1>2. \A id \in Ids : id # None
  BY StoreAssumption
<1>3. \A s \in Submitters : Expires(sat[s]) \in Int
  BY ExpiresBounds DEF Sound, TypeOK
<1>4. now \in Int
  BY DEF Sound, TypeOK
<1>5. ASSUME NEW id \in Ids, Spent(id) PROVE Spent(id)'
  <2>1. PICK s \in Submitters : sid[s] = id /\ Expires(sat[s]) < now
    BY <1>5 DEF Spent
  <2>2. sid'[s] = id /\ Expires(sat'[s]) < now'
    BY <1>1, <1>2, <1>3, <1>4, <2>1
  <2> QED
    BY <2>2 DEF Spent, Expires
<1> QED
  BY <1>1, <1>2, <1>5 DEF DrawnOnce

(* A submission that is alone with its id and has not expired is on no list: *)
(* whatever others do, it keeps its row, its directory and its blob.         *)
LEMMA Protected ==
    ASSUME Sound, SweepsSafe, [Next]_vars, ~WipeBegun',
           NEW s \in Submitters, sid[s] \in Ids, DrawnOnce(sid[s]),
           now <= Expires(sat[s]), ~Create(s)
    PROVE  /\ HasRow(s) => HasRow(s)'
           /\ sid[s] \in dir => sid[s] \in dir'
           /\ file'[sid[s]]["blob"] = file[sid[s]]["blob"]
           /\ spc'[s] = spc[s] \/ spc'[s] = "gone"
           /\ sid'[s] = sid[s] /\ sat'[s] = sat[s]
<1>1. ASSUME NEW w \in Shredders, Shred(w), wpc[w] \notin {"idle", "pick"} PROVE wcur[w] # sid[s]
  <2>1. w \in Sweepers
    BY <1>1, NotWiping DEF Shredders
  <2>2. wcur[w] \in Ids /\ Spent(wcur[w])
    BY <1>1, <2>1 DEF SweepsSafe, ListsSpent, Sound, TypeOK, Shredders
  <2>3. Expires(sat[s]) \in Int /\ now \in Int
    BY ExpiresBounds DEF Sound, TypeOK
  <2> QED
    BY <2>2, <2>3 DEF Spent, DrawnOnce
<1>2. \A t \in Submitters : Create(t) => sid[t] # sid[s]
  BY DEF DrawnOnce
<1>3. file'[sid[s]]["blob"] = file[sid[s]]["blob"]
  BY <1>1, <1>2, BlobChanges DEF Sound
<1>4. sid[s] \in dir => sid[s] \in dir'
  BY <1>1, <1>2, DirChanges DEF Sound
<1>5. /\ sid'[s] = sid[s] /\ sat'[s] = sat[s]
      /\ \/ spc'[s] = spc[s] \/ spc'[s] = "gone"
         \/ spc[s] = "write" /\ file'[sid[s]]["blob"] = "none"
  BY SubmitMoves DEF Sound
<1>6. spc[s] = "write" => file[sid[s]]["blob"] # "none"
  BY DEF Sound, FilesHaveDirs
<1>7. ASSUME HasRow(s) PROVE HasRow(s)'
  <2>1. rows'[sid[s]] # None
    BY <1>1, <1>2, <1>7, RowGoes, NotWiping DEF Sound, HasRow
  <2>2. ASSUME NEW t \in Submitters, NEW id \in Ids, Insert(t, id)
        PROVE  rows'[sid[s]] = rows[sid[s]]
    <3>1. rows[id] = None /\ rows' = [rows EXCEPT ![id] = NewRow(t)]
      BY <2>2, Inserted DEF Sound
    <3> QED
      BY <1>7, <3>1 DEF Sound, TypeOK, HasRow
  <2>3. rows'[sid[s]].code = rows[sid[s]].code
    BY <2>1, <2>2, RowsKept DEF Sound
  <2> QED
    BY <1>5, <1>7, <2>1, <2>3 DEF HasRow
<1> QED
  BY <1>3, <1>4, <1>5, <1>6, <1>7

(* Nobody makes the blob of an expired case whole again, short of another    *)
(* submission with its id.                                                   *)
LEMMA SpentStays ==
    ASSUME Sound, SweepsSafe, [Next]_vars,
           NEW id \in Ids, Spent(id), DrawnOnce(id), file[id]["blob"] # "sealed"
    PROVE  file'[id]["blob"] # "sealed"
<1> SUFFICES ASSUME file'[id]["blob"] = "sealed" PROVE FALSE
  OBVIOUS
<1>1. PICK s \in Submitters : Create(s) /\ sid[s] = id /\ spc[s] = "write"
  BY BlobChanges DEF Sound
<1>2. now <= Expires(sat[s])
  BY <1>1 DEF SweepsSafe, CreatorsKeep, InCreate
<1>3. Expires(sat[s]) \in Int /\ now \in Int
  BY ExpiresBounds DEF Sound, TypeOK
<1> QED
  BY <1>1, <1>2, <1>3 DEF Spent, DrawnOnce

(* What an INSERT that draws a fresh id finds there.                         *)
LEMMA FreshId ==
    ASSUME Sound, NEW s \in Submitters, NEW id \in Ids, Insert(s, id), DrawnOnce(id)'
    PROVE  id \notin dir /\ file[id]["blob"] = "none"
<1>1. sid[s] = None /\ sid' = [sid EXCEPT ![s] = id] /\ id # None
  BY Inserted DEF Sound
<1>2. \A t \in Submitters : sid[t] # id
  BY <1>1 DEF DrawnOnce, Sound, TypeOK
<1> QED
  BY <1>2 DEF Sound, FilesHaveDirs, Names

(* A list is read from the table, and only shrinks from then on.             *)
LEMMA ListsStep == ASSUME Sound, SweepsSafe, [Next]_vars PROVE ListsSpent'
<1> SUFFICES ASSUME NEW w \in Sweepers, wpc'[w] # "idle"
             PROVE  /\ \A id \in wtodo'[w] : Spent(id)'
                    /\ wpc'[w] # "pick" => wcur'[w] \in wtodo'[w]
  BY DEF ListsSpent
<1>1. \A id \in Ids : Spent(id) => Spent(id)'
  BY Drawn
<1>2. w \in Shredders /\ w \notin Wipers /\ wtodo[w] \in SUBSET Ids
  BY StoreAssumption DEF Sound, TypeOK, Shredders, Sweepers
<1>3. \A id \in Expired : Spent(id)
  <2> SUFFICES ASSUME NEW id \in Ids, rows[id] # None, rows[id].exp < now PROVE Spent(id)
    BY DEF Expired
  <2>0. rows[id] \in Row
    BY DEF Sound, TypeOK
  <2>1. rows[id].code \in Submitters
    BY <2>0, FlaggedRow
  <2>2. sid[rows[id].code] = id /\ id # None
    BY StoreAssumption DEF Sound, RowsNamed
  <2>3. rows[id].exp = Expires(sat[rows[id].code])
    BY <2>1, <2>2 DEF Sound, RowsOwn, HasRow
  <2> QED
    BY <2>1, <2>2, <2>3 DEF Spent
<1>4. CASE ~Shred(w) /\ ~ShredBreaks(w)
  BY <1>1, <1>2, <1>4, SweeperMoves DEF Sound, SweepsSafe, ListsSpent
<1>5. CASE SweepStart(w)
  <2>1. wtodo'[w] \subseteq Expired /\ wpc'[w] = "pick"
    BY <1>2, <1>5 DEF SweepStart, Sound, TypeOK
  <2>2. Expired \subseteq Ids
    BY DEF Expired
  <2> QED
    BY <1>1, <1>3, <2>1, <2>2
<1>6. CASE ~SweepStart(w) /\ (Shred(w) \/ ShredBreaks(w))
  <2>1. wpc[w] # "idle"
    BY <1>2, <1>6 DEF Shred, ShredBreaks, WipeStart, Pick, Stat, Zero, Unlink, Rmdir, DeleteRow,
                      SweepDone, WipeRows, ShredFails, DeleteFails, CliStops
  <2>2. wtodo'[w] \subseteq wtodo[w]
    BY <1>2, <1>6 DEF Sound, TypeOK, Shred, ShredBreaks, WipeStart, Pick, Stat, Zero, Unlink, Rmdir,
                      DeleteRow, SweepDone, WipeRows, ShredFails, DeleteFails, CliStops, ShredReturns
  <2>3. wpc'[w] # "pick" => wcur'[w] \in wtodo'[w]
    <3>1. ASSUME NEW id \in Ids, Pick(w, id) PROVE wcur'[w] \in wtodo'[w]
      BY <1>2, <3>1 DEF Pick, ShredReturns, Sound, TypeOK
    <3>2. CASE \A id \in Ids : ~Pick(w, id)
      <4>1. wpc'[w] \in {"idle", "pick"} \/ (wtodo' = wtodo /\ wcur' = wcur /\ wpc[w] # "pick")
        BY <1>2, <1>6, <3>2 DEF Sound, TypeOK, Shred, ShredBreaks, WipeStart, Stat, Zero, Unlink,
              Rmdir, DeleteRow, SweepDone, WipeRows, ShredFails, DeleteFails, CliStops, ShredReturns
      <4> QED
        BY <2>1, <4>1 DEF SweepsSafe, ListsSpent
    <3> QED
      BY <3>1, <3>2
  <2> QED
    BY <1>1, <1>2, <2>1, <2>2, <2>3 DEF SweepsSafe, ListsSpent
<1> QED
  BY <1>4, <1>5, <1>6

(* CreateCase keeps what it has made: its own steps by their order, those of *)
(* others because the case is unexpired and alone with its id.               *)
LEMMA CreatorsStep ==
    ASSUME Sound, SweepsSafe, [Next]_vars, ~WipeBegun' PROVE CreatorsKeep'
<1> DEFINE Keeps(s) == /\ HasRow(s) /\ spc[s] # "orphan" /\ file[sid[s]]["blob"] # "sealed"
                       /\ spc[s] \in {"open", "write"} => sid[s] \in dir
                       /\ spc[s] = "write" => file[sid[s]]["blob"] = "empty"
<1> SUFFICES ASSUME NEW s \in Submitters, spc'[s] \in InCreate
             PROVE  /\ now' <= Expires(sat[s])'
                    /\ spc'[s] # "insert" /\ DrawnOnce(sid[s])' => Keeps(s)'
  BY DEF CreatorsKeep
<1>1. now \in Int /\ Expires(sat[s]) \in Int /\ now' \in Int
  BY ExpiresBounds, Drawn DEF Sound, TypeOK
<1>2. \A id \in Ids : DrawnOnce(id)' => DrawnOnce(id)
  BY Drawn
<1>3. spc[s] \in InCreate \ {"insert"} => sid[s] \in Ids
  BY DEF Sound, TypeOK, InCreate
<1>4. CASE ~Create(s)
  <2>1. /\ sid'[s] = sid[s] /\ sat'[s] = sat[s]
        /\ spc[s] \in InCreate /\ (spc'[s] = "insert" <=> spc[s] = "insert")
        /\ now' = now \/ (now' = now + 1 /\ now < Expires(sat[s]))
    BY <1>4, SubmitMoves DEF Sound, InCreate
  <2>2. now <= Expires(sat[s]) /\ now' <= Expires(sat[s])
    BY <1>1, <2>1 DEF SweepsSafe, CreatorsKeep
  <2>3. Expires(sat[s])' = Expires(sat[s])
    BY <2>1 DEF Expires
  <2>4. ASSUME spc'[s] # "insert", DrawnOnce(sid[s])' PROVE Keeps(s)'
    <3>1. sid[s] \in Ids /\ DrawnOnce(sid[s])
      BY <1>2, <1>3, <2>1, <2>4 DEF DrawnOnce
    <3>2. Keeps(s)
      BY <2>1, <2>4, <3>1 DEF SweepsSafe, CreatorsKeep
    <3>3. /\ HasRow(s) => HasRow(s)'
          /\ sid[s] \in dir => sid[s] \in dir'
          /\ file'[sid[s]]["blob"] = file[sid[s]]["blob"]
          /\ spc'[s] = spc[s] \/ spc'[s] = "gone"
      BY <1>4, <2>2, <3>1, Protected
    <3>4. spc'[s] = spc[s]
      BY <3>3 DEF InCreate
    <3> QED
      BY <2>1, <3>2, <3>3, <3>4
  <2> QED
    BY <2>2, <2>3, <2>4
<1>5. CASE Begin(s)
  <2>1. spc'[s] = "insert" /\ now' = now /\ sat'[s] = now
    BY <1>5 DEF Begin, env, Sound, TypeOK
  <2>2. now <= Expires(now)
    BY <1>1, ExpiresBounds
  <2> QED
    BY <1>1, <2>1, <2>2 DEF Expires
<1>6. ASSUME NEW id \in Ids, Insert(s, id)
      PROVE  /\ now' <= Expires(sat[s])'
             /\ DrawnOnce(sid[s])' => Keeps(s)'
  <2>1. /\ spc[s] = "insert" /\ spc' = [spc EXCEPT ![s] = "mkdir"]
        /\ sid' = [sid EXCEPT ![s] = id]
        /\ rows' = [rows EXCEPT ![id] = NewRow(s)]
        /\ NewRow(s) # None /\ NewRow(s).code = s
        /\ UNCHANGED <<now, file, sat>>
    BY <1>6, Inserted DEF Sound
  <2>2. spc'[s] = "mkdir" /\ sid'[s] = id /\ HasRow(s)'
    BY <2>1 DEF HasRow, Sound, TypeOK
  <2>3. now' <= Expires(sat[s])'
    BY <2>1 DEF SweepsSafe, CreatorsKeep, InCreate, Expires
  <2>4. DrawnOnce(id)' => file[id]["blob"] = "none"
    BY <1>6, FreshId
  <2> QED
    BY <2>1, <2>2, <2>3, <2>4 DEF DrawnOnce
<1>7. CASE Create(s) /\ ~Begin(s) /\ \A id \in Ids : ~Insert(s, id)
  <2> USE DEF disk, subs, recs, shred, env, Fault
  <2>1. /\ sid' = sid /\ sat' = sat /\ now' = now
        /\ spc[s] \in InCreate
        /\ spc[s] = "insert" => spc'[s] = "insert"
    BY <1>7 DEF Create, Collide, InsertFails, MkdirCase, MkdirFails, OpenBlob, WriteBlob, BlobFails,
                UndoDir, UndoRow, Tell, InCreate, Sound, TypeOK
  <2>2. now' <= Expires(sat[s])'
    BY <2>1 DEF SweepsSafe, CreatorsKeep, Expires
  <2>3. ASSUME spc'[s] # "insert", DrawnOnce(sid[s])' PROVE Keeps(s)'
    <3>1. sid[s] \in Ids /\ DrawnOnce(sid[s]) /\ spc[s] # "insert"
      BY <1>3, <2>1, <2>3 DEF DrawnOnce
    <3>2. Keeps(s)
      BY <2>1, <3>1 DEF SweepsSafe, CreatorsKeep
    <3>3. HasRow(s)'
      BY <1>7, <2>1, <3>1, <3>2 DEF HasRow, Create, Collide, InsertFails, MkdirCase, MkdirFails,
            OpenBlob, WriteBlob, BlobFails, UndoDir, UndoRow, Tell, InCreate, Sound, TypeOK
    <3>4. spc'[s] # "orphan" /\ file'[sid[s]]["blob"] # "sealed"
          /\ (spc'[s] \in {"open", "write"} => sid[s] \in dir')
          /\ (spc'[s] = "write" => file'[sid[s]]["blob"] = "empty")
      <4>1. CASE OpenBlob(s)
        BY <3>1, <3>2, <4>1 DEF OpenBlob, Sound, TypeOK, Names
      <4>2. CASE UndoDir(s)
        BY <3>1, <4>2 DEF UndoDir, Sound, TypeOK, Names
      <4>3. CASE MkdirCase(s)
        BY <3>1, <3>2, <4>3 DEF MkdirCase, Sound, TypeOK
      <4>4. CASE ~OpenBlob(s) /\ ~UndoDir(s) /\ ~MkdirCase(s)
        BY <1>7, <3>1, <3>2, <4>4 DEF Create, Collide, InsertFails, MkdirFails, WriteBlob, BlobFails,
              UndoRow, Tell, InCreate, Sound, TypeOK
      <4> QED
        BY <4>1, <4>2, <4>3, <4>4
    <3> QED
      BY <2>1, <3>3, <3>4
  <2> QED
    BY <2>2, <2>3
<1> QED
  BY <1>4, <1>5, <1>6, <1>7

(* What was stored stays, and a whole blob goes before its row.              *)
LEMMA StoredStep ==
    ASSUME Sound, SweepsSafe, [Next]_vars, ~WipeBegun' PROVE StoredKeep'
<1> DEFINE Whole(s) == HasRow(s) /\ sid[s] \in dir /\ file[sid[s]]["blob"] = "sealed"
<1> SUFFICES ASSUME NEW s \in Submitters, sid'[s] # None, DrawnOnce(sid[s])'
             PROVE  /\ spc'[s] \in {"stored", "told"} /\ now' <= Expires(sat[s])' => Whole(s)'
                    /\ file'[sid'[s]]["blob"] = "sealed" => HasRow(s)'
  BY DEF StoredKeep
<1>1. now \in Int /\ Expires(sat[s]) \in Int /\ now' \in Int /\ now <= now'
  BY ExpiresBounds, Drawn DEF Sound, TypeOK
<1>2. \A id \in Ids : DrawnOnce(id)' => DrawnOnce(id)
  BY Drawn
<1>3. ASSUME NEW id \in Ids, Insert(s, id)
      PROVE  spc'[s] = "mkdir" /\ file'[sid'[s]]["blob"] # "sealed"
  <2>1. /\ spc' = [spc EXCEPT ![s] = "mkdir"] /\ sid' = [sid EXCEPT ![s] = id] /\ file' = file
    BY <1>3, Inserted DEF Sound
  <2>2. spc'[s] = "mkdir" /\ sid'[s] = id
    BY <2>1 DEF Sound, TypeOK
  <2>3. DrawnOnce(id)'
    BY <2>2 DEF DrawnOnce
  <2> QED
    BY <1>3, <2>1, <2>2, <2>3, FreshId
<1>4. CASE Create(s) /\ \A id \in Ids : ~Insert(s, id)
  <2> USE DEF disk, subs, recs, shred, env, Fault
  <2>1. sid' = sid /\ sid[s] \in Ids /\ DrawnOnce(sid[s])
    <3>1. sid' = sid
      BY <1>4 DEF Create, Begin, Collide, InsertFails, MkdirCase, MkdirFails, OpenBlob, WriteBlob,
                  BlobFails, UndoDir, UndoRow, Tell
    <3>2. sid[s] \in Ids
      BY <3>1 DEF Sound, TypeOK
    <3> QED
      BY <1>2, <3>1, <3>2 DEF DrawnOnce
  <2>2. spc[s] \notin {"start", "insert"}
    BY <2>1, StoreAssumption DEF Sound, RowsOwn
  <2>3. /\ sat' = sat /\ now' = now /\ Expires(sat[s])' = Expires(sat[s])
        /\ spc[s] \in InCreate \cup {"stored"}
    BY <1>4, <2>2 DEF Create, Begin, Collide, InsertFails, MkdirCase, MkdirFails, OpenBlob, WriteBlob,
                      BlobFails, UndoDir, UndoRow, Tell, InCreate, Expires
  <2>4. CASE WriteBlob(s)
    <3>1. spc[s] = "write" /\ HasRow(s) /\ sid[s] \in dir /\ file[sid[s]]["blob"] = "empty"
      BY <2>1, <2>4 DEF WriteBlob, SweepsSafe, CreatorsKeep, InCreate
    <3>2. file' = [file EXCEPT ![sid[s]]["blob"] = "sealed"] /\ UNCHANGED <<rows, dir>>
      BY <2>4, <3>1 DEF WriteBlob
    <3> QED
      BY <2>1, <3>1, <3>2 DEF HasRow, Sound, TypeOK, Names
  <2>5. CASE OpenBlob(s)
    BY <2>1, <2>3, <2>5 DEF OpenBlob, Sound, TypeOK, Names, SweepsSafe, StoredKeep, HasRow
  <2>6. CASE UndoDir(s)
    BY <2>1, <2>6 DEF UndoDir, Sound, TypeOK, Names
  <2>7. CASE UndoRow(s)
    <3>1. file[sid[s]]["blob"] # "sealed"
      BY <2>1, <2>7 DEF UndoRow, SweepsSafe, CreatorsKeep, InCreate
    <3> QED
      BY <2>1, <2>7, <3>1 DEF UndoRow, Sound, TypeOK
  <2>8. CASE Tell(s)
    BY <2>1, <2>3, <2>8, StoreAssumption DEF Tell, Sound, TypeOK, SweepsSafe, StoredKeep, HasRow
  <2>9. CASE MkdirCase(s) \/ MkdirFails(s) \/ BlobFails(s)
    <3>1. spc'[s] \notin {"stored", "told"} /\ UNCHANGED <<rows, file>>
      BY <2>9 DEF MkdirCase, MkdirFails, BlobFails, Sound, TypeOK
    <3> QED
      BY <2>1, <3>1, StoreAssumption DEF SweepsSafe, StoredKeep, HasRow
  <2> QED
    BY <1>4, <2>2, <2>4, <2>5, <2>6, <2>7, <2>8, <2>9 DEF Create, Begin, Collide, InsertFails
<1>5. CASE ~Create(s)
  <2>1. /\ sid'[s] = sid[s] /\ sat'[s] = sat[s]
        /\ spc'[s] \in {"stored", "told"} => spc'[s] = spc[s]
    BY <1>5, SubmitMoves DEF Sound
  <2>2. Expires(sat[s])' = Expires(sat[s])
    BY <2>1 DEF Expires
  <2>3. sid[s] \in Ids /\ DrawnOnce(sid[s])
    <3>1. sid[s] \in Ids
      BY <2>1 DEF Sound, TypeOK
    <3> QED
      BY <1>2, <2>1, <3>1 DEF DrawnOnce
  <2>4. ASSUME spc'[s] \in {"stored", "told"}, now' <= Expires(sat[s])' PROVE Whole(s)'
    <3>1. Whole(s) /\ now <= Expires(sat[s])
      BY <1>1, <2>1, <2>2, <2>3, <2>4, StoreAssumption DEF SweepsSafe, StoredKeep
    <3>2. /\ HasRow(s) => HasRow(s)'
          /\ sid[s] \in dir => sid[s] \in dir'
          /\ file'[sid[s]]["blob"] = file[sid[s]]["blob"]
      BY <1>5, <2>3, <3>1, Protected
    <3> QED
      BY <2>1, <3>1, <3>2
  <2>5. ASSUME file'[sid'[s]]["blob"] = "sealed" PROVE HasRow(s)'
    <3>0. \A t \in Submitters : Create(t) => sid[t] # sid[s]
      BY <1>5, <2>3 DEF DrawnOnce
    <3>1. file[sid[s]]["blob"] = "sealed"
      BY <2>1, <2>3, <2>5, <3>0, BlobChanges DEF Sound
    <3>2. HasRow(s)
      BY <2>3, <3>1, StoreAssumption DEF SweepsSafe, StoredKeep
    <3>3. \A w \in Shredders : Shred(w) => w \in Sweepers /\ ~(wcur[w] = sid[s] /\ wpc[w] = "row")
      BY <2>3, <3>1, NotWiping DEF SweepsSafe, BlobsPassed, Shredders
    <3>4. rows'[sid[s]] # None
      BY <2>3, <3>0, <3>2, <3>3, RowGoes, NotWiping DEF Sound, HasRow
    <3>5. ASSUME NEW t \in Submitters, NEW id \in Ids, Insert(t, id)
          PROVE  rows'[sid[s]] = rows[sid[s]]
      <4>1. rows[id] = None /\ rows' = [rows EXCEPT ![id] = NewRow(t)]
        BY <3>5, Inserted DEF Sound
      <4> QED
        BY <2>3, <3>2, <4>1 DEF Sound, TypeOK, HasRow
    <3>6. rows'[sid[s]].code = rows[sid[s]].code
      BY <2>3, <3>4, <3>5, RowsKept DEF Sound
    <3> QED
      BY <2>1, <3>2, <3>4, <3>6 DEF HasRow
  <2> QED
    BY <2>4, <2>5
<1> QED
  BY <1>3, <1>4, <1>5 DEF Create

(* A sweeper goes on to the row only past the blob: it unlinked the blob, or *)
(* found it gone, and nobody has made it whole again.                        *)
LEMMA BlobsStep ==
    ASSUME Sound, SweepsSafe, [Next]_vars, ~WipeBegun' PROVE BlobsPassed'
<1> SUFFICES ASSUME NEW w \in Sweepers,
                    \/ wpc'[w] \in {"stat", "zero", "unlink"} /\ "blob" \notin wents'[w]
                    \/ wpc'[w] = "row",
                    DrawnOnce(wcur[w])'
             PROVE  file'[wcur'[w]]["blob"] # "sealed"
  BY DEF BlobsPassed
<1> USE DEF Names
<1>1. w \in Shredders /\ w \notin Wipers
  BY StoreAssumption DEF Shredders, Sweepers
<1>2. wcur'[w] \in Ids
  BY <1>1, TypeStep DEF Sound, TypeOK
<1>3. DrawnOnce(wcur'[w])
  BY <1>2, Drawn DEF DrawnOnce
<1>4. wpc[w] \notin {"idle", "pick", "done"} => Spent(wcur[w]) /\ wcur[w] \in Ids
  BY <1>1 DEF SweepsSafe, ListsSpent, Sound, TypeOK
<1>5. ASSUME wcur'[w] = wcur[w],
             \/ wpc[w] \in {"stat", "zero", "unlink"} /\ "blob" \notin wents[w]
             \/ wpc[w] = "row"
      PROVE  file'[wcur'[w]]["blob"] # "sealed"
  BY <1>3, <1>4, <1>5, SpentStays DEF SweepsSafe, BlobsPassed
<1>6. CASE ~Shred(w) /\ ~ShredBreaks(w)
  <2>1. wpc'[w] = wpc[w] /\ wcur'[w] = wcur[w] /\ wents'[w] = wents[w]
    BY <1>6, SweeperMoves DEF Sound
  <2> QED
    BY <1>5, <2>1
<1>7. CASE ShredBreaks(w)
  BY <1>1, <1>7 DEF ShredBreaks, ShredFails, DeleteFails, CliStops, ShredReturns, Sound, TypeOK
<1>8. ASSUME NEW id \in Ids, Pick(w, id) PROVE file'[wcur'[w]]["blob"] # "sealed"
  <2>1. /\ wcur'[w] = id /\ wents'[w] = {n \in Names : file[id][n] # "none"} /\ file' = file
        /\ id \notin dir \/ wpc'[w] = "stat"
    BY <1>1, <1>8 DEF Pick, disk, Sound, TypeOK
  <2> QED
    BY <2>1 DEF Sound, FilesHaveDirs
<1>9. CASE Stat(w)
  <2>1. wpc[w] = "stat" /\ wcur' = wcur /\ wents' = wents /\ file' = file
    BY <1>9 DEF Stat, disk
  <2>2. wpc'[w] = "row" => file[wcur[w]][Entry(w)] = "none"
    BY <1>1, <1>9 DEF Stat, Sound, TypeOK
  <2> QED
    BY <1>5, <2>1, <2>2 DEF Entry
<1>10. CASE Zero(w)
  BY <1>1, <1>5, <1>10 DEF Zero, Sound, TypeOK
<1>11. CASE Unlink(w)
  <2>1. /\ wpc[w] = "unlink" /\ wcur' = wcur
        /\ file' = [file EXCEPT ![wcur[w]][Entry(w)] = "none"]
    BY <1>11 DEF Unlink
  <2>2. CASE "blob" \in wents[w]
    BY <1>2, <2>1, <2>2 DEF Entry, Sound, TypeOK
  <2> QED
    BY <1>5, <2>1, <2>2
<1>12. CASE Rmdir(w)
  BY <1>5, <1>12 DEF Rmdir
<1>13. CASE SweepStart(w) \/ WipeStart(w) \/ DeleteRow(w) \/ SweepDone(w) \/ WipeRows(w)
  BY <1>1, <1>13 DEF SweepStart, WipeStart, DeleteRow, SweepDone, WipeRows, Sound, TypeOK
<1> QED
  BY <1>6, <1>7, <1>8, <1>9, <1>10, <1>11, <1>12, <1>13 DEF Shred

(* What holds with any number of sweepers, until a wipe begins.              *)
THEOREM SweepsHold == Spec => [](~WipeBegun => SweepsSafe)
<1>1. Init => SweepsSafe
  BY DEF Init, SweepsSafe, ListsSpent, CreatorsKeep, StoredKeep, BlobsPassed, InCreate, Shredders
<1>2. Sound /\ (~WipeBegun => SweepsSafe) /\ [Next]_vars => (~WipeBegun => SweepsSafe)'
  BY NotWiping, ListsStep, CreatorsStep, StoredStep, BlobsStep DEF SweepsSafe
<1> QED
  BY <1>1, <1>2, StoreSound, PTL DEF Spec

(* A submission whose code was shown is kept whole for the TTL less an hour, *)
(* short of a wipe; with several sweepers, as long as no other submission    *)
(* draws its id.                                                             *)
THEOREM ToldIsKept == Spec => []ToldKept
<1>1. ASSUME TypeOK,
             \A s \in Submitters :
                spc[s] = "told" /\ now <= Expires(sat[s])
                /\ ~WipeBegun /\ (Clis # {} => DrawnOnce(sid[s])) =>
                   Holds(s) /\ sid[s] \in dir /\ file[sid[s]]["blob"] = "sealed"
      PROVE  ToldKept
  <2> SUFFICES ASSUME NEW s \in Submitters, spc[s] = "told", now + Hour <= sat[s] + TTL,
                      ~WipeBegun, Clis # {} => DrawnOnce(sid[s])
               PROVE  /\ rows[sid[s]] # None
                      /\ rows[sid[s]].code = s
                      /\ sid[s] \in dir
                      /\ file[sid[s]]["blob"] = "sealed"
    BY DEF ToldKept
  <2>1. sat[s] \in Int /\ now \in Int
    BY <1>1 DEF TypeOK
  <2>2. now <= Expires(sat[s])
    BY <2>1, ExpiresBounds, StoreAssumption
  <2> QED
    BY <1>1, <2>2 DEF Holds
<1>2. CASE Clis = {}
  <2>1. TypeOK /\ (~WipeBegun => IInv) => ToldKept
    BY <1>1, <1>2 DEF IInv, Safe, StoredKept
  <2> QED
    BY <1>2, <2>1, StoreSafe, TypeCorrect, PTL
<1>3. CASE Clis # {}
  <2>1. Sound /\ (~WipeBegun => SweepsSafe) => ToldKept
    <3> SUFFICES ASSUME Sound, ~WipeBegun => SweepsSafe,
                        NEW s \in Submitters, spc[s] = "told", now <= Expires(sat[s]),
                        ~WipeBegun, DrawnOnce(sid[s])
                 PROVE  Holds(s) /\ sid[s] \in dir /\ file[sid[s]]["blob"] = "sealed"
      BY <1>1, <1>3 DEF Sound
    <3>1. sid[s] # None
      BY StoreAssumption DEF Sound, TypeOK
    <3> QED
      BY <3>1 DEF SweepsSafe, StoredKeep, Holds, HasRow, Sound, RowsOwn
  <2> QED
    BY <2>1, StoreSound, SweepsHold, PTL
<1> QED
  BY <1>2, <1>3

(* A whole submission is destroyed only once it has expired, short of a wipe *)
(* or of a second sweeper whose list still holds the id from a case before.  *)
THEOREM OnlyExpiredShredded == Spec => ShredOnlyExpired
<1> DEFINE Fine == \A id \in Ids :
                      file[id]["blob"] = "sealed" /\ file'[id]["blob"] # "sealed" =>
                         \/ rows[id] # None /\ rows[id].exp < now
                         \/ WipeBegun
                         \/ Clis # {} /\ ~DrawnOnce(id)
<1>1. ASSUME Sound, [Next]_vars, ~WipeBegun, NEW id \in Ids,
             file[id]["blob"] = "sealed", file'[id]["blob"] # "sealed"
      PROVE  \/ \E s \in Submitters :
                   Create(s) /\ sid[s] = id /\ spc[s] \in {"open", "write", "undoDir"}
                   /\ (spc[s] = "write" => file[sid[s]]["blob"] = "sealed")
             \/ \E w \in Sweepers : wcur[w] = id /\ wpc[w] \in {"zero", "unlink"}
  <2>1. ASSUME NEW w \in Wipers, wpc[w] \in {"zero", "unlink"} PROVE FALSE
    BY <1>1, <2>1 DEF WipeBegun
  <2> QED
    BY <1>1, <2>1, BlobChanges DEF Sound, Shredders
<1>2. CASE Clis = {}
  <2>1. ASSUME Sound, ~WipeBegun => IInv, [Next]_vars PROVE Fine
    <3> SUFFICES ASSUME NEW id \in Ids, ~WipeBegun,
                        file[id]["blob"] = "sealed", file'[id]["blob"] # "sealed"
                 PROVE  rows[id] # None /\ rows[id].exp < now
      OBVIOUS
    <3>1. ASSUME NEW s \in Submitters, sid[s] = id, spc[s] \in {"open", "write", "undoDir"}
          PROVE  FALSE
      BY <2>1, <3>1 DEF IInv, Safe, CreatorsHold, InCreate
    <3>2. wcur[Loop] = id /\ wpc[Loop] \in {"zero", "unlink"}
      BY <1>1, <1>2, <2>1, <3>1 DEF Sweepers
    <3> QED
      BY <2>1, <3>2 DEF IInv, Safe, LoopOwns, Expired
  <2>2. Sound /\ (~WipeBegun => IInv) /\ [Next]_vars => [Fine]_vars
    BY <2>1
  <2> QED
    BY <1>2, <2>2, StoreSound, StoreSafe, PTL DEF Spec, ShredOnlyExpired
<1>3. CASE Clis # {}
  <2>1. ASSUME Sound, ~WipeBegun => SweepsSafe, [Next]_vars PROVE Fine
    <3> SUFFICES ASSUME NEW id \in Ids, ~WipeBegun, DrawnOnce(id),
                        file[id]["blob"] = "sealed", file'[id]["blob"] # "sealed"
                 PROVE  rows[id] # None /\ rows[id].exp < now
      BY <1>3
    <3>1. ASSUME NEW s \in Submitters, sid[s] = id, spc[s] \in {"open", "write", "undoDir"}
          PROVE  FALSE
      BY <2>1, <3>1 DEF SweepsSafe, CreatorsKeep, InCreate
    <3>2. PICK w \in Sweepers : wcur[w] = id /\ wpc[w] \in {"zero", "unlink"}
      BY <1>1, <2>1, <3>1
    <3>3. PICK s \in Submitters : sid[s] = id /\ Expires(sat[s]) < now
      BY <2>1, <3>2 DEF SweepsSafe, ListsSpent, Spent
    <3>4. sid[s] # None /\ HasRow(s)
      BY <2>1, <3>3, StoreAssumption DEF SweepsSafe, StoredKeep
    <3> QED
      BY <2>1, <3>3, <3>4 DEF Sound, RowsOwn, HasRow
  <2>2. Sound /\ (~WipeBegun => SweepsSafe) /\ [Next]_vars => [Fine]_vars
    BY <2>1
  <2> QED
    BY <2>2, StoreSound, SweepsHold, PTL DEF Spec, ShredOnlyExpired
<1> QED
  BY <1>2, <1>3

------------------------------------------------------------------------------
(* A wipe that has the store to itself.                                      *)

(* A wipe takes over the directories of a store at rest, and lets go of one  *)
(* only when it has removed it.                                              *)
LEMMA WipeStep == Sound /\ WipeHolds /\ [Next /\ WipeAlone]_vars => WipeHolds'
<1> DEFINE Working(w) == wpc[w] \notin {"idle", "done", "gone"}
           Fits(w) == /\ AtRest
                      /\ \A v \in Wipers : Working(v) => v = w
                      /\ dir \subseteq wtodo[w]
                      /\ wpc[w] # "pick" =>
                            /\ wcur[w] \in dir
                            /\ \A n \in Names : n \in wents[w] <=> file[wcur[w]][n] # "none"
                      /\ wpc[w] \in {"zero", "unlink"} => wents[w] # {}
<1> SUFFICES ASSUME Sound, WipeHolds, Next, WipeAlone, NEW w \in Wipers, Working(w)'
             PROVE  Fits(w)'
  <2>1. ASSUME UNCHANGED vars, WipeHolds PROVE WipeHolds'
    BY <2>1 DEF vars, WipeHolds, AtRest
  <2> QED
    BY <2>1 DEF WipeHolds
<1> USE DEF disk, subs, recs, shred, env, Names
<1>1. w \in Shredders /\ w \notin Sweepers
  BY StoreAssumption DEF Shredders, Sweepers
<1>2. wpc \in [Shredders -> ShredPcs] /\ wtodo \in [Shredders -> SUBSET Ids]
      /\ wcur \in [Shredders -> Ids \cup {None}] /\ wents \in [Shredders -> SUBSET Names]
  BY DEF Sound, TypeOK
<1>3. CASE ~Wiping
  <2>1. AtRest /\ \A v \in Wipers : ~Working(v)
    BY <1>3 DEF WipeAlone, Wiping
  <2>2. WipeStart(w)
    <3>1. ASSUME NEW v \in Shredders, Shred(v) \/ ShredBreaks(v), ~WipeStart(w) PROVE ~Working(w)'
      BY <1>1, <1>2, <2>1, <3>1
      DEF Shred, ShredBreaks, SweepStart, WipeStart, Pick, Stat, Zero, Unlink, Rmdir, DeleteRow,
          SweepDone, WipeRows, ShredFails, DeleteFails, CliStops, ShredReturns, Sweepers
    <3>2. CASE ServerStops
      BY <1>1, <2>1, <3>2 DEF ServerStops, Sweepers
    <3>3. ASSUME NEW s \in Submitters, Create(s) PROVE UNCHANGED wpc
      BY <3>3 DEF Create, Begin, Insert, Collide, InsertFails, MkdirCase, MkdirFails, OpenBlob,
                  WriteBlob, BlobFails, UndoDir, UndoRow, Tell
    <3>4. ASSUME NEW r \in Receivers, Reply(r) PROVE UNCHANGED wpc
      BY <3>4 DEF Reply, ReplyTo, OpenReply, WriteReplyFile, MarkReplied, ReplyFails
    <3>5. ASSUME (\E id \in Ids : Download(id)) \/ ServerStarts \/ Tick PROVE UNCHANGED wpc
      BY <3>5 DEF Download, ServerStarts, Tick
    <3> QED
      BY <2>1, <3>1, <3>2, <3>3, <3>4, <3>5 DEF Next
  <2>3. AtRest' /\ \A v \in Wipers : v # w => ~Working(v)'
    BY <1>1, <1>2, <2>1, <2>2 DEF WipeStart, AtRest, Shredders
  <2>4. dir' \subseteq wtodo'[w] /\ wpc'[w] = "pick"
    BY <1>1, <1>2, <2>2 DEF WipeStart
  <2> QED
    BY <2>3, <2>4
<1>4. CASE Wiping
  <2>1. PICK v \in Wipers : wpc[v] # "idle" /\ Shred(v)
    BY <1>4 DEF WipeAlone
  <2>2. v \in Shredders /\ v \notin Sweepers
    BY StoreAssumption DEF Shredders, Sweepers
  <2>3. Working(v)
    BY <2>1, <2>2 DEF Shred, SweepStart, WipeStart, Pick, Stat, Zero, Unlink, Rmdir, DeleteRow,
                      SweepDone, WipeRows
  <2>4. Fits(v)
    BY <2>3 DEF WipeHolds
  <2>5. \A u \in Shredders : u # v => wpc'[u] = wpc[u]
    BY <1>2, <2>1 DEF Shred, SweepStart, WipeStart, Pick, Stat, Zero, Unlink, Rmdir, DeleteRow,
                      SweepDone, WipeRows, ShredReturns
  <2>6. v = w
    BY <1>1, <2>4, <2>5
  <2>7. \A u \in Wipers : Working(u)' => u = w
    BY <2>4, <2>5, <2>6 DEF Shredders
  <2>8. AtRest'
    <3>1. \A u \in Sweepers : wpc'[u] = "idle"
      BY <1>1, <2>4, <2>5, <2>6 DEF AtRest, Shredders
    <3>2. UNCHANGED <<spc, rpc>>
          \/ (/\ spc' = [s \in Submitters |-> IF Entry(v) = "blob" /\ spc[s] = "write" /\ sid[s] = wcur[v]
                                              THEN "orphan" ELSE spc[s]]
              /\ rpc' = [r \in Receivers |-> IF Entry(v) = "reply" /\ rpc[r] = "write" /\ rid[r] = wcur[v]
                                              THEN "orphan" ELSE rpc[r]])
      BY <2>1 DEF Shred, SweepStart, WipeStart, Pick, Stat, Zero, Unlink, Rmdir, DeleteRow,
                  SweepDone, WipeRows
    <3>3. (\A s \in Submitters : spc'[s] = spc[s]) /\ \A r \in Receivers : rpc'[r] = rpc[r]
      BY <2>4, <3>2 DEF AtRest, InCreate
    <3> QED
      BY <2>4, <3>1, <3>3 DEF AtRest
  <2> DEFINE Rest == /\ dir \subseteq wtodo[w]
                     /\ wpc[w] # "pick" =>
                           /\ wcur[w] \in dir
                           /\ \A n \in Names : n \in wents[w] <=> file[wcur[w]][n] # "none"
                     /\ wpc[w] \in {"zero", "unlink"} => wents[w] # {}
  <2>9. Rest
    BY <2>4, <2>6
  <2>10. Shred(w) /\ wpc[w] # "row" /\ wpc[w] # "idle"
    BY <2>1, <2>6 DEF Sound
  <2>11. dir \subseteq Ids /\ file \in [Ids -> [Names -> Content]]
    BY DEF Sound, TypeOK
  <2>12. ASSUME NEW id \in Ids, Pick(w, id) PROVE Rest'
    BY <1>1, <1>2, <2>9, <2>12 DEF Pick, ShredReturns
  <2>13. ASSUME Stat(w) PROVE Rest'
    <3>1. Entry(w) \in wents[w] /\ file[wcur[w]][Entry(w)] # "none"
      BY <1>1, <1>2, <2>9, <2>13 DEF Stat, Entry
    <3>2. wpc' = [wpc EXCEPT ![w] = "zero"] /\ UNCHANGED <<wtodo, wcur, wents, dir, file>>
      BY <2>13, <3>1 DEF Stat
    <3>3. wpc'[w] = "zero" /\ wpc[w] = "stat"
      BY <1>1, <1>2, <2>13, <3>2 DEF Stat
    <3> QED
      BY <2>9, <3>1, <3>2, <3>3
  <2>14. ASSUME Zero(w) PROVE Rest'
    <3>1. /\ wpc[w] = "zero" /\ wpc' = [wpc EXCEPT ![w] = "unlink"]
          /\ UNCHANGED <<wtodo, wcur, wents, dir>>
          /\ file' = [file EXCEPT ![wcur[w]][Entry(w)] = "zeroed"]
      BY <2>9, <2>14 DEF Zero
    <3>2. Entry(w) \in wents[w] /\ wcur[w] \in Ids
      BY <1>1, <1>2, <2>9, <2>11, <3>1 DEF Entry
    <3>3. \A n \in Names : (file'[wcur[w]][n] # "none") <=> (file[wcur[w]][n] # "none")
      BY <1>1, <1>2, <2>9, <2>11, <3>1, <3>2
    <3>4. wpc'[w] = "unlink"
      BY <1>1, <1>2, <3>1
    <3> QED
      BY <2>9, <3>1, <3>3, <3>4
  <2>15. ASSUME Unlink(w) PROVE Rest'
    <3>1. /\ wpc[w] = "unlink" /\ wpc' = [wpc EXCEPT ![w] = "stat"]
          /\ UNCHANGED <<wtodo, wcur, dir>>
          /\ file' = [file EXCEPT ![wcur[w]][Entry(w)] = "none"]
          /\ wents' = [wents EXCEPT ![w] = @ \ {Entry(w)}]
      BY <2>15 DEF Unlink
    <3>2. Entry(w) \in Names /\ wcur[w] \in Ids
      BY <2>9, <2>11, <3>1 DEF Entry
    <3>3. \A n \in Names : (file'[wcur[w]][n] # "none") <=> (file[wcur[w]][n] # "none" /\ n # Entry(w))
      BY <2>11, <3>1, <3>2
    <3>4. wpc'[w] = "stat" /\ \A n \in Names : n \in wents'[w] <=> n \in wents[w] /\ n # Entry(w)
      BY <1>1, <1>2, <3>1
    <3> QED
      BY <2>9, <3>1, <3>3, <3>4
  <2>16. ASSUME Rmdir(w) PROVE Rest'
    <3>1. wpc[w] = "stat" /\ wcur[w] \in dir /\ \A n \in Names : file[wcur[w]][n] = "none"
      BY <2>9, <2>16 DEF Rmdir
    <3>2. /\ dir' = dir \ {wcur[w]} /\ wtodo' = [wtodo EXCEPT ![w] = @ \ {wcur[w]}]
          /\ wpc' = [wpc EXCEPT ![w] = "pick"]
      BY <2>16, <3>1 DEF Rmdir, ShredReturns
    <3>3. wpc'[w] = "pick" /\ wtodo'[w] = wtodo[w] \ {wcur[w]}
      BY <1>1, <1>2, <3>2
    <3> QED
      BY <2>9, <3>2, <3>3
  <2>17. ASSUME SweepStart(w) \/ WipeStart(w) \/ DeleteRow(w) \/ SweepDone(w) \/ WipeRows(w) PROVE Rest'
    BY <1>1, <1>2, <2>10, <2>17 DEF SweepStart, WipeStart, DeleteRow, SweepDone, WipeRows
  <2>18. Rest'
    BY <2>10, <2>12, <2>13, <2>14, <2>15, <2>16, <2>17 DEF Shred
  <2> QED
    BY <2>7, <2>8, <2>18
<1> QED
  BY <1>3, <1>4

(* A wipe that has the store to itself and meets no failing call leaves      *)
(* neither a directory nor a row, whatever it found.                         *)
THEOREM WipesEmpty == AloneSpec => WipeEmpties
<1>1. Init => Sound /\ WipeHolds
  <2>1. Init => Sound
    BY SoundInit
  <2>2. Init => WipeHolds
    BY DEF Init, WipeHolds, Shredders
  <2> QED
    BY <2>1, <2>2
<1>2. Sound /\ WipeHolds /\ [Next /\ WipeAlone]_vars => Sound' /\ WipeHolds'
  BY WipeStep, SoundStep
<1>3. Sound /\ WipeHolds /\ [Next /\ WipeAlone]_vars =>
        [\A w \in Wipers :
          wpc[w] = "pick" /\ wpc'[w] = "done" =>
              dir' = {} /\ (faults' = faults => \A id \in Ids : rows'[id] = None)]_vars
  <2> SUFFICES ASSUME Sound, WipeHolds, Next, WipeAlone,
                      NEW w \in Wipers, wpc[w] = "pick", wpc'[w] = "done"
               PROVE  dir' = {} /\ (faults' = faults => \A id \in Ids : rows'[id] = None)
    OBVIOUS
  <2>1. w \in Shredders /\ w \notin Sweepers
    BY StoreAssumption DEF Shredders, Sweepers
  <2>2. wpc \in [Shredders -> ShredPcs] /\ faults \in Int
    BY DEF Sound, TypeOK
  <2>3. PICK v \in Wipers : wpc[v] # "idle" /\ Shred(v)
    BY DEF WipeAlone, Wiping
  <2>4. WipeRows(w)
    BY <2>1, <2>2, <2>3 DEF Shred, SweepStart, WipeStart, Pick, Stat, Zero, Unlink, Rmdir, DeleteRow,
                            SweepDone, WipeRows, ShredReturns
  <2>5. dir \subseteq wtodo[w] /\ wtodo[w] = {} /\ dir' = dir
    BY <2>4 DEF WipeRows, WipeHolds
  <2>6. rows' = [id \in Ids |-> None] \/ faults' = faults + 1
    BY <2>4 DEF WipeRows, Fault
  <2> QED
    BY <2>2, <2>5, <2>6
<1> QED
  BY <1>1, <1>2, <1>3, PTL DEF AloneSpec, WipeEmpties

------------------------------------------------------------------------------
(* A step that gives no reply and draws no id leaves the replies as they     *)
(* are.  It may remove rows, and touch the replies of cases that have lapsed.*)
LEMMA RepliesUntouched ==
    ASSUME TypeOK, RowsOwn, RepliesSafe,
           UNCHANGED <<sid, rid, replies>>,
           now' \in Int, now <= now', faults' \in Nat, faults <= faults',
           codes \subseteq codes',
           \A c \in codes' : c \in codes \/ (sid[c] # None /\ (DrawnOnce(sid[c]) => spc[c] \notin InCreate)),
           \A s \in Submitters : spc'[s] \in InCreate => spc[s] \in InCreate \cup {"start"},
           \A i \in Ids : rows'[i] # None =>
              /\ rows[i] # None /\ rows'[i].code = rows[i].code
              /\ rows'[i].exp = rows[i].exp /\ rows'[i].hasReply = rows[i].hasReply,
           \A i \in Ids : Lapsed(i) \/ file'[i]["reply"] = file[i]["reply"],
           \A r \in Receivers :
              \/ rpc'[r] = rpc[r]
              \/ rpc[r] = "write" /\ rpc'[r] = "orphan" /\ Lapsed(rid[r]),
           codes' \subseteq Submitters
    PROVE  RepliesSafe'
<1>2. CodesOut'
  BY DEF RepliesSafe, CodesOut, RowsOwn, DrawnOnce
<1>3. RepliesCounted'
  BY DEF RepliesSafe, RepliesCounted, HasReply
<1>4. \A i \in Ids : ~Lapsed(i)' => ~Lapsed(i)
  BY DEF Lapsed, DrawnOnce, TypeOK, Row
<1>5. \A i \in Ids : ~Lapsed(i)' /\ ReplyFits(i) => ReplyFits(i)'
  <2> SUFFICES ASSUME NEW i \in Ids, ~Lapsed(i)', ReplyFits(i) PROVE ReplyFits(i)'
    OBVIOUS
  <2>1. ~Lapsed(i) /\ file'[i]["reply"] = file[i]["reply"]
    BY <1>4
  <2>2. \A r \in Receivers : rpc[r] = "write" /\ rid[r] = i => rpc'[r] = "write" /\ rid'[r] = i
    BY <2>1
  <2>3. faults > 0 => faults' > 0
    BY DEF RepliesSafe, RepliesCounted
  <2> QED
    BY <2>1, <2>2, <2>3 DEF ReplyFits
<1>6. WritersFit'
  <2> SUFFICES ASSUME NEW r \in Receivers, rpc'[r] # "idle" PROVE WriterFits(r)'
    BY DEF WritersFit
  <2>1. rpc[r] # "idle" /\ rid[r] \in Ids
    BY DEF TypeOK
  <2>2. \E s \in Submitters : sid'[s] = rid'[r]
    BY <2>1 DEF RepliesSafe, WritersFit, WriterFits
  <2>3. ASSUME ~Lapsed(rid[r])'
        PROVE  /\ rows'[rid[r]].code \in codes'
               /\ rpc'[r] # "orphan"
               /\ rpc'[r] = "write" =>
                     \/ file'[rid[r]]["reply"] = "empty"
                     \/ replies > 1 /\ file'[rid[r]]["reply"] \in {"sealed", "mixed"}
               /\ rpc'[r] = "mark" => ReplyFits(rid[r])'
    <3>1. /\ ~Lapsed(rid[r]) /\ rpc'[r] = rpc[r] /\ rows'[rid[r]] # None
          /\ file'[rid[r]]["reply"] = file[rid[r]]["reply"]
      BY <1>4, <2>1, <2>3 DEF Lapsed
    <3>2. rows'[rid[r]].code = rows[rid[r]].code
      BY <2>1, <3>1
    <3> QED
      BY <1>5, <2>1, <2>3, <3>1, <3>2 DEF RepliesSafe, WritersFit, WriterFits
  <2> QED
    BY <2>2, <2>3 DEF WriterFits
<1>7. FlagsFit'
  BY <1>4, <1>5 DEF RepliesSafe, FlagsFit, HasReply
<1> QED
  BY <1>2, <1>3, <1>6, <1>7 DEF RepliesSafe

(* The steps that leave the replies alone do so: among them every step of    *)
(* the sweep, and the rollback, which belongs to a case nobody can answer.   *)
LEMMA RepliesKept ==
    ASSUME Sound, SweepsSafe, RepliesSafe,
           \/ \E s \in Submitters : Create(s) /\ \A id \in Ids : ~Insert(s, id)
           \/ \E id \in Ids : Download(id)
           \/ \E w \in Sweepers : Shred(w) \/ ShredBreaks(w)
           \/ ServerStarts \/ Tick \/ UNCHANGED vars
    PROVE  RepliesSafe'
<1> USE DEF Sound, TypeOK, disk, subs, recs, shred, env, Fault, InCreate, Names
<1>f. faults \in Nat /\ now \in Int
  BY DEF RepliesSafe, RepliesCounted
<1>1. ASSUME NEW s \in Submitters, Create(s), \A id \in Ids : ~Insert(s, id) PROVE RepliesSafe'
  <2>1. /\ UNCHANGED <<sid, rid, replies, codes, now>>
        /\ faults' \in Nat /\ faults <= faults'
        /\ \A t \in Submitters :
              spc'[t] \in InCreate => spc[t] \in InCreate \cup {"start"}
    BY <1>1, <1>f DEF Create, Begin, Collide, InsertFails, MkdirCase, MkdirFails, OpenBlob,
                      WriteBlob, BlobFails, UndoDir, UndoRow, Tell
  <2>2. \A i \in Ids : rows'[i] # None => rows'[i] = rows[i]
    BY <1>1 DEF Create, Begin, Collide, InsertFails, MkdirCase, MkdirFails, OpenBlob,
                WriteBlob, BlobFails, UndoDir, UndoRow, Tell
  <2>3. CASE UndoDir(s)
    <3>2. \A i \in Ids : i = sid[s] \/ file'[i]["reply"] = file[i]["reply"]
      BY <2>3 DEF UndoDir
    <3>3. \A r \in Receivers :
             \/ rpc'[r] = rpc[r]
             \/ rpc[r] = "write" /\ rpc'[r] = "orphan" /\ rid[r] = sid[s]
      BY <2>3 DEF UndoDir
    <3>4. CASE Lapsed(sid[s])
      BY <2>1, <2>2, <3>2, <3>3, <3>4, RepliesUntouched
    <3>5. CASE ~Lapsed(sid[s])
      <4>0. spc[s] = "undoDir" /\ sid[s] \in Ids /\ DrawnOnce(sid[s])
        BY <2>3, <3>5 DEF UndoDir, Lapsed
      <4>a. rows[sid[s]].code = s /\ s \notin codes
        BY <4>0 DEF SweepsSafe, CreatorsKeep, HasRow, RepliesSafe, CodesOut
      <4>1. \A r \in Receivers : rpc[r] # "idle" => rid[r] # sid[s]
        BY <3>5, <4>0, <4>a DEF RepliesSafe, WritersFit, WriterFits
      <4>2. \A r \in Receivers : rpc'[r] = rpc[r]
        BY <3>3, <4>1
      <4>3. ~HasReply(sid[s])
        BY <3>5, <4>0, <4>a DEF RepliesSafe, FlagsFit
      <4>4. file' = [file EXCEPT ![sid[s]] = [n \in Names |-> "none"]]
        BY <2>3 DEF UndoDir
      <4>5. UNCHANGED <<rows, sid, rid, replies, codes, now, faults>>
        BY <2>3 DEF UndoDir
      <4>b. CodesOut'
        BY <2>1, <4>5 DEF RepliesSafe, CodesOut, RowsOwn, DrawnOnce
      <4>6. RepliesCounted'
        BY <2>1, <4>2, <4>5 DEF RepliesSafe, RepliesCounted, HasReply
      <4>7. \A i \in Ids : Lapsed(i)' = Lapsed(i)
        BY <4>5 DEF Lapsed, DrawnOnce
      <4>8. \A i \in Ids : i # sid[s] => ReplyFits(i)' = ReplyFits(i)
        BY <3>2, <4>2, <4>5 DEF ReplyFits
      <4>9. WritersFit'
        BY <3>2, <4>1, <4>2, <4>5, <4>7, <4>8 DEF RepliesSafe, WritersFit, WriterFits
      <4>10. FlagsFit'
        BY <4>3, <4>5, <4>7, <4>8 DEF RepliesSafe, FlagsFit, HasReply
      <4> QED
        BY <4>b, <4>6, <4>9, <4>10 DEF RepliesSafe
    <3> QED
      BY <3>4, <3>5
  <2>4. CASE ~UndoDir(s)
    <3>1. rpc' = rpc
      BY <1>1, <2>4 DEF Create, Begin, Collide, InsertFails, MkdirCase, MkdirFails, OpenBlob,
                        WriteBlob, BlobFails, UndoRow, Tell
    <3>2. file' = file \/ OpenBlob(s) \/ WriteBlob(s)
      BY <1>1, <2>4 DEF Create, Begin, Collide, InsertFails, MkdirCase, MkdirFails, BlobFails,
                        UndoRow, Tell
    <3>3. \A i \in Ids : file'[i]["reply"] = file[i]["reply"]
      <4>1. CASE OpenBlob(s)
        BY <4>1 DEF OpenBlob
      <4>2. CASE WriteBlob(s)
        <5>1. file' = file \/ \E c \in {"sealed", "mixed"} : file' = [file EXCEPT ![sid[s]]["blob"] = c]
          BY <4>2 DEF WriteBlob
        <5> QED
          BY <5>1
      <4> QED
        BY <3>2, <4>1, <4>2
    <3> QED
      BY <2>1, <2>2, <3>1, <3>3, RepliesUntouched
  <2> QED
    BY <2>3, <2>4
<1>2. ASSUME NEW id \in Ids, Download(id) PROVE RepliesSafe'
  <2>1. rows[id] \in Row /\ rows[id] # None
    BY <1>2 DEF Download
  <2>2. rows' = [rows EXCEPT ![id] = [rows[id] EXCEPT !.read = TRUE]]
    BY <1>2 DEF Download
  <2>3. [rows[id] EXCEPT !.read = TRUE].hasReply = rows[id].hasReply
    BY <2>1 DEF Row
  <2>4. \A i \in Ids : rows'[i] # None =>
           /\ rows[i] # None /\ rows'[i].code = rows[i].code
           /\ rows'[i].exp = rows[i].exp /\ rows'[i].hasReply = rows[i].hasReply
    BY <2>1, <2>2, <2>3, FlaggedRow
  <2>5. rows[id].code \in Submitters /\ sid[rows[id].code] = id /\ id # None
    BY <2>1, FlaggedRow, StoreAssumption DEF RowsNamed
  <2>6. spc[rows[id].code] # "insert"
    BY <2>5 DEF RowsOwn
  <2>7. file[id]["blob"] = "sealed" /\ DrawnOnce(id) => spc[rows[id].code] \notin InCreate
    BY <2>5, <2>6 DEF SweepsSafe, CreatorsKeep
  <2>8. codes' = codes \/ (file[id]["blob"] = "sealed" /\ codes' = codes \cup {rows[id].code})
    BY <1>2 DEF Download
  <2>9. /\ codes \subseteq codes' /\ codes' \subseteq Submitters
        /\ \A c \in codes' :
              c \in codes \/ (sid[c] # None /\ (DrawnOnce(sid[c]) => spc[c] \notin InCreate))
    BY <2>5, <2>7, <2>8
  <2>10. UNCHANGED <<sid, rid, rpc, replies, file, now, faults, spc>>
    BY <1>2 DEF Download
  <2> QED
    BY <1>f, <2>4, <2>9, <2>10, RepliesUntouched
<1>3. ASSUME NEW w \in Sweepers, Shred(w) \/ ShredBreaks(w) PROVE RepliesSafe'
  <2>0. w \in Shredders /\ w \notin Wipers
    BY StoreAssumption DEF Shredders, Sweepers
  <2>1. /\ UNCHANGED <<sid, rid, replies, codes, now>>
        /\ faults' \in Nat /\ faults <= faults'
        /\ \A t \in Submitters :
              spc'[t] \in InCreate => spc[t] \in InCreate \cup {"start"}
    <3>1. CASE Unlink(w)
      BY <1>f, <3>1 DEF Unlink
    <3>2. CASE ~Unlink(w)
      <4>1. UNCHANGED <<sid, rid, replies, codes, now, spc>>
        BY <1>3, <3>2 DEF Shred, ShredBreaks, SweepStart, WipeStart, Pick, Stat, Zero, Rmdir,
                          DeleteRow, SweepDone, WipeRows, ShredFails, DeleteFails, CliStops
      <4>2. faults' = faults \/ faults' = faults + 1
        BY <1>3, <3>2 DEF Shred, ShredBreaks, SweepStart, WipeStart, Pick, Stat, Zero, Rmdir,
                          DeleteRow, SweepDone, WipeRows, ShredFails, DeleteFails, CliStops
      <4> QED
        BY <1>f, <4>1, <4>2
    <3> QED
      BY <3>1, <3>2
  <2>2. \A i \in Ids : rows'[i] # None => rows'[i] = rows[i]
    BY <1>3, <2>0 DEF Shred, ShredBreaks, SweepStart, WipeStart, Pick, Stat, Zero, Unlink, Rmdir,
                      DeleteRow, SweepDone, WipeRows, ShredFails, DeleteFails, CliStops
  <2>3. wpc[w] \in {"zero", "unlink"} => wcur[w] \in Ids /\ Lapsed(wcur[w])
    <3> SUFFICES ASSUME wpc[w] \in {"zero", "unlink"}, rows[wcur[w]] # None, DrawnOnce(wcur[w])
                 PROVE  rows[wcur[w]].exp < now
      BY <2>0 DEF Lapsed
    <3>1. PICK s \in Submitters : sid[s] = wcur[w] /\ Expires(sat[s]) < now
      BY DEF SweepsSafe, ListsSpent, Spent
    <3>2. wcur[w] \in Ids /\ rows[wcur[w]] \in Row
      BY <2>0
    <3>3. rows[wcur[w]].code \in Submitters /\ sid[rows[wcur[w]].code] = wcur[w]
      BY <3>2, FlaggedRow DEF RowsNamed
    <3>4. rows[wcur[w]].code = s
      BY <3>1, <3>3 DEF DrawnOnce
    <3> QED
      BY <3>1, <3>2, <3>4, StoreAssumption DEF RowsOwn, HasRow
  <2>4. /\ \A i \in Ids : Lapsed(i) \/ file'[i]["reply"] = file[i]["reply"]
        /\ \A r \in Receivers :
              \/ rpc'[r] = rpc[r]
              \/ rpc[r] = "write" /\ rpc'[r] = "orphan" /\ Lapsed(rid[r])
    <3>1. CASE Zero(w)
      BY <2>0, <2>3, <3>1 DEF Zero, Entry
    <3>2. CASE Unlink(w)
      BY <2>0, <2>3, <3>2 DEF Unlink, Entry
    <3>3. CASE ~Zero(w) /\ ~Unlink(w)
      BY <1>3, <3>3 DEF Shred, ShredBreaks, SweepStart, WipeStart, Pick, Stat, Rmdir,
                        DeleteRow, SweepDone, WipeRows, ShredFails, DeleteFails, CliStops
    <3> QED
      BY <3>1, <3>2, <3>3
  <2> QED
    BY <2>1, <2>2, <2>4, RepliesUntouched
<1>4. CASE ServerStarts \/ Tick \/ UNCHANGED vars
  <2>1. /\ UNCHANGED <<rows, file, spc, sid, rpc, rid, replies, codes, faults>>
        /\ now' \in Int /\ now <= now'
    BY <1>4 DEF ServerStarts, Tick, vars
  <2> QED
    BY <1>f, <2>1, RepliesUntouched
<1> QED
  BY <1>1, <1>2, <1>3, <1>4

(* A new row takes its id from whoever still works on a case that had it.    *)
LEMMA RepliesInsert ==
    ASSUME Sound, RepliesSafe, NEW s \in Submitters, NEW id \in Ids, Insert(s, id)
    PROVE  RepliesSafe'
<1> USE DEF Sound, TypeOK, disk, recs, shred, env
<1>1. /\ spc[s] = "insert" /\ sid[s] = None /\ rows[id] = None
      /\ sid' = [sid EXCEPT ![s] = id] /\ rows' = [rows EXCEPT ![id] = NewRow(s)]
      /\ spc' = [spc EXCEPT ![s] = "mkdir"]
      /\ UNCHANGED <<file, rpc, rid, replies, codes, now, faults>>
  BY DEF Insert, RowsOwn
<1>2. NewRow(s) # None /\ NewRow(s).code = s /\ NewRow(s).hasReply = FALSE
  BY NewRowType DEF NewRow
<1>3. id # None
  BY StoreAssumption
<1>4. s \notin codes
  BY <1>1 DEF RepliesSafe, CodesOut
<1>6. CodesOut'
  <2> SUFFICES ASSUME NEW c \in codes
               PROVE  sid'[c] # None /\ (DrawnOnce(sid[c])' => spc'[c] \notin InCreate)
    BY <1>1 DEF CodesOut
  <2>1. c # s /\ sid'[c] = sid[c] /\ spc'[c] = spc[c] /\ sid[c] # None
    BY <1>1, <1>4 DEF RepliesSafe, CodesOut
  <2>2. DrawnOnce(sid[c])' => DrawnOnce(sid[c])
    BY <1>1, <2>1 DEF DrawnOnce
  <2> QED
    BY <2>1, <2>2 DEF RepliesSafe, CodesOut
<1>7. \A i \in Ids : HasReply(i)' => i # id /\ HasReply(i)
  BY <1>1, <1>2 DEF HasReply
<1>8. RepliesCounted'
  BY <1>1, <1>7 DEF RepliesSafe, RepliesCounted
<1>9. \A i \in Ids : i # id =>
         rows'[i] = rows[i] /\ (ReplyFits(i)' = ReplyFits(i)) /\ (~Lapsed(i)' => ~Lapsed(i))
  <2> SUFFICES ASSUME NEW i \in Ids, i # id
               PROVE  /\ rows'[i] = rows[i] /\ (ReplyFits(i)' = ReplyFits(i))
                      /\ ~Lapsed(i)' => ~Lapsed(i)
    OBVIOUS
  <2>1. rows'[i] = rows[i]
    BY <1>1
  <2>2. ReplyFits(i)' = ReplyFits(i)
    BY <1>1 DEF ReplyFits
  <2>3. DrawnOnce(i)' => DrawnOnce(i)
    BY <1>1, StoreAssumption DEF DrawnOnce
  <2> QED
    BY <1>1, <2>1, <2>2, <2>3 DEF Lapsed
<1>10. WritersFit'
  <2> SUFFICES ASSUME NEW r \in Receivers, rpc[r] # "idle" PROVE WriterFits(r)'
    BY <1>1 DEF WritersFit
  <2>1. PICK t \in Submitters : sid[t] = rid[r]
    BY DEF RepliesSafe, WritersFit, WriterFits
  <2>2. t # s /\ sid'[t] = rid[r] /\ rid[r] \in Ids
    BY <1>1, <2>1, StoreAssumption
  <2>3. CASE rid[r] = id
    <3>1. ~DrawnOnce(id)'
      BY <1>1, <2>2, <2>3 DEF DrawnOnce
    <3> QED
      BY <1>1, <2>2, <2>3, <3>1 DEF Lapsed, WriterFits
  <2>4. CASE rid[r] # id
    BY <1>1, <1>9, <2>2, <2>4 DEF RepliesSafe, WritersFit, WriterFits
  <2> QED
    BY <2>3, <2>4
<1>11. FlagsFit'
  BY <1>1, <1>7, <1>9 DEF RepliesSafe, FlagsFit
<1> QED
  BY <1>6, <1>8, <1>10, <1>11 DEF RepliesSafe

(* The steps of WriteReply: it flags a row only after its file is whole, and *)
(* whoever spoils a whole file is a second reply.                            *)
LEMMA RepliesGiven ==
    ASSUME Sound, RepliesSafe, NEW r \in Receivers, Reply(r)
    PROVE  RepliesSafe'
<1> USE DEF Sound, TypeOK, disk, subs, shred, env, Fault, Names
<1>f. faults \in Nat /\ replies \in Nat
  BY DEF RepliesSafe, RepliesCounted
<1>0. UNCHANGED <<sid, spc, codes, now>>
  BY DEF Reply, ReplyTo, OpenReply, WriteReplyFile, MarkReplied, ReplyFails
<1>1. UNCHANGED <<sid, spc, codes, now>> /\ CodesOut'
  BY <1>0 DEF RepliesSafe, CodesOut, DrawnOnce
<1>2. ASSUME NEW id \in Ids, ReplyTo(r, id) PROVE RepliesSafe'
  <2>1. /\ rpc[r] = "idle" /\ rows[id] # None /\ rows[id].code \in codes
        /\ rpc' = [rpc EXCEPT ![r] = "open"] /\ rid' = [rid EXCEPT ![r] = id]
        /\ replies' = replies + 1 /\ UNCHANGED <<rows, file, faults>>
    BY <1>2 DEF ReplyTo
  <2>3. \A i \in Ids : (HasReply(i)' = HasReply(i)) /\ (Lapsed(i)' = Lapsed(i))
    BY <1>1, <2>1 DEF HasReply, Lapsed, DrawnOnce
  <2>4. RepliesCounted'
    BY <1>f, <2>1, <2>3 DEF RepliesSafe, RepliesCounted
  <2>5. \A i \in Ids : ReplyFits(i) => ReplyFits(i)'
    <3> SUFFICES ASSUME NEW i \in Ids, ReplyFits(i) PROVE ReplyFits(i)'
      OBVIOUS
    <3>1. \A q \in Receivers : rpc[q] = "write" => rpc'[q] = "write" /\ rid'[q] = rid[q]
      BY <2>1
    <3> QED
      BY <1>f, <2>1, <3>1 DEF ReplyFits
  <2>6. WritersFit'
    <3> SUFFICES ASSUME NEW q \in Receivers, rpc'[q] # "idle" PROVE WriterFits(q)'
      BY DEF WritersFit
    <3>1. CASE q = r
      <4>1. rows[id].code \in Submitters /\ sid[rows[id].code] = id
        BY <2>1, FlaggedRow DEF RowsNamed
      <4> QED
        BY <1>1, <2>1, <3>1, <4>1 DEF WriterFits
    <3>2. CASE q # r
      <4>1. rpc'[q] = rpc[q] /\ rid'[q] = rid[q] /\ rid[q] \in Ids /\ WriterFits(q)
        BY <2>1, <3>2 DEF RepliesSafe, WritersFit
      <4>2. (Lapsed(rid[q])' = Lapsed(rid[q])) /\ (ReplyFits(rid[q]) => ReplyFits(rid[q])')
        BY <2>3, <2>5, <4>1
      <4> QED
        BY <1>1, <1>f, <2>1, <4>1, <4>2 DEF WriterFits
    <3> QED
      BY <3>1, <3>2
  <2>7. FlagsFit'
    BY <1>1, <2>1, <2>3, <2>5 DEF RepliesSafe, FlagsFit
  <2> QED
    BY <1>1, <2>4, <2>6, <2>7 DEF RepliesSafe
<1>a. \A q \in Receivers : rpc[q] # "idle" => rid[q] \in Ids /\ WriterFits(q)
  BY DEF RepliesSafe, WritersFit
<1>b. \A q \in Receivers : q # r /\ rpc[q] # "idle" /\ rpc[r] # "idle" => replies > 1
  BY <1>f DEF RepliesSafe, RepliesCounted
<1>c. \A i \in Ids : HasReply(i) /\ rpc[r] # "idle" => replies > 1
  BY <1>f DEF RepliesSafe, RepliesCounted
\* Every step but ReplyTo.
<1>g. ASSUME rpc[r] # "idle", UNCHANGED <<rid, replies>>, faults' \in Nat,
             \A q \in Receivers : q # r => rpc'[q] = rpc[q],
             \A i \in Ids : Lapsed(i)' = Lapsed(i),
             \A i \in Ids : rows'[i] # None => rows[i] # None /\ rows'[i].code = rows[i].code,
             \A i \in Ids : HasReply(i)' => HasReply(i) \/ (i = rid[r] /\ rpc[r] = "mark"),
             rpc[r] = "mark" => rpc'[r] = "idle",
             rpc'[r] # "idle" => WriterFits(r)',
             \A i \in Ids : i # rid[r] => file'[i]["reply"] = file[i]["reply"],
             file'[rid[r]]["reply"] # file[rid[r]]["reply"] =>
                file'[rid[r]]["reply"] \in {"empty", "sealed", "mixed"},
             \A i \in Ids : ~Lapsed(i) /\ ReplyFits(i) /\ (i = rid[r] => replies > 1 \/ rpc[r] = "mark")
                => ReplyFits(i)'
      PROVE  RepliesSafe'
  <2>2. RepliesCounted'
    <3>1. rpc'[r] # "idle" => \A i \in Ids : HasReply(i)' => HasReply(i)
      BY <1>g
    <3>2. \A q \in Receivers : rpc'[q] # "idle" => rpc[q] # "idle"
      BY <1>g
    <3>3. \A i \in Ids : HasReply(i)' => replies > 0
      BY <1>g DEF RepliesSafe, RepliesCounted
    <3> QED
      BY <1>g, <3>1, <3>2, <3>3 DEF RepliesSafe, RepliesCounted
  <2>3. WritersFit'
    <3> SUFFICES ASSUME NEW q \in Receivers, rpc'[q] # "idle", q # r PROVE WriterFits(q)'
      BY <1>g DEF WritersFit
    <3>1. /\ rpc'[q] = rpc[q] /\ rid'[q] = rid[q] /\ rid[q] \in Ids /\ WriterFits(q)
          /\ replies > 1
      BY <1>a, <1>b, <1>g
    <3>2. ASSUME ~Lapsed(rid[q])'
          PROVE  /\ rows'[rid[q]].code \in codes
                 /\ rpc[q] # "orphan"
                 /\ rpc[q] = "write" => file'[rid[q]]["reply"] \in {"empty", "sealed", "mixed"}
                 /\ rpc[q] = "mark" => ReplyFits(rid[q])'
      <4>1. ~Lapsed(rid[q]) /\ rows'[rid[q]] # None
        BY <1>g, <3>1, <3>2 DEF Lapsed
      <4>2. rows'[rid[q]].code = rows[rid[q]].code
        BY <1>g, <3>1, <4>1
      <4> QED
        BY <1>g, <3>1, <4>1, <4>2 DEF WriterFits
    <3> QED
      BY <1>1, <1>g, <3>1, <3>2 DEF WriterFits
  <2>4. FlagsFit'
    <3> SUFFICES ASSUME NEW i \in Ids, HasReply(i)', ~Lapsed(i)'
                 PROVE  rows'[i].code \in codes /\ ReplyFits(i)'
      BY <1>1 DEF FlagsFit
    <3>1. ~Lapsed(i) /\ rows'[i] # None
      BY <1>g DEF HasReply
    <3>2. rows'[i].code = rows[i].code
      BY <1>g, <3>1
    <3>3. CASE HasReply(i)
      BY <1>c, <1>g, <3>1, <3>2, <3>3 DEF RepliesSafe, FlagsFit
    <3>4. CASE i = rid[r] /\ rpc[r] = "mark"
      BY <1>a, <1>g, <3>1, <3>2, <3>4 DEF WriterFits
    <3> QED
      BY <1>g, <3>3, <3>4
  <2> QED
    BY <1>1, <2>2, <2>3, <2>4 DEF RepliesSafe
<1>3. CASE OpenReply(r)
  <2>1. /\ rpc[r] = "open" /\ UNCHANGED <<rows, rid, replies, faults>>
        /\ rid[r] \in Ids
        /\ \A q \in Receivers : q # r => rpc'[q] = rpc[q]
    BY <1>3 DEF OpenReply
  <2>2. \A i \in Ids : (HasReply(i)' = HasReply(i)) /\ (Lapsed(i)' = Lapsed(i))
    BY <1>1, <2>1 DEF HasReply, Lapsed, DrawnOnce
  <2>3. CASE rid[r] \in dir
    <3>1. file' = [file EXCEPT ![rid[r]]["reply"] = "empty"] /\ rpc'[r] = "write"
      BY <1>3, <2>3 DEF OpenReply
    <3>2. file'[rid[r]]["reply"] = "empty" /\ \A i \in Ids : i # rid[r] => file'[i] = file[i]
      BY <2>1, <3>1
    <3>3. \A i \in Ids : ReplyFits(i) /\ (i = rid[r] => replies > 1) => ReplyFits(i)'
      BY <2>1, <3>1, <3>2 DEF ReplyFits
    <3>4. WriterFits(r)'
      BY <1>1, <1>a, <2>1, <2>2, <3>1, <3>2 DEF WriterFits
    <3> QED
      BY <1>f, <1>g, <2>1, <2>2, <3>1, <3>2, <3>3, <3>4
  <2>4. CASE rid[r] \notin dir
    <3>1. file' = file /\ rpc'[r] = "idle"
      BY <1>3, <2>4 DEF OpenReply
    <3>2. \A i \in Ids : ReplyFits(i) => ReplyFits(i)'
      BY <2>1, <3>1 DEF ReplyFits
    <3> QED
      BY <1>f, <1>g, <2>1, <2>2, <3>1, <3>2
  <2> QED
    BY <2>3, <2>4
<1>4. CASE WriteReplyFile(r)
  <2>1. /\ rpc[r] \in {"write", "orphan"} /\ UNCHANGED <<rows, rid, replies, faults>>
        /\ rid[r] \in Ids /\ rpc'[r] = "mark"
        /\ \A q \in Receivers : q # r => rpc'[q] = rpc[q]
    BY <1>4 DEF WriteReplyFile
  <2>2. \A i \in Ids : (HasReply(i)' = HasReply(i)) /\ (Lapsed(i)' = Lapsed(i))
    BY <1>1, <2>1 DEF HasReply, Lapsed, DrawnOnce
  <2>3. CASE rpc[r] = "write"
    <3>1. PICK c \in {"sealed", "mixed"} :
             /\ file[rid[r]]["reply"] = "empty" => c = "sealed"
             /\ file' = [file EXCEPT ![rid[r]]["reply"] = c]
      BY <1>4, <2>3 DEF WriteReplyFile
    <3>2. file'[rid[r]]["reply"] = c /\ \A i \in Ids : i # rid[r] => file'[i] = file[i]
      BY <2>1, <3>1
    <3>3. ~Lapsed(rid[r]) => ReplyFits(rid[r])'
      BY <1>a, <2>1, <2>3, <3>1, <3>2 DEF ReplyFits, WriterFits
    <3>4. \A i \in Ids : i # rid[r] /\ ReplyFits(i) => ReplyFits(i)'
      BY <2>1, <3>2 DEF ReplyFits
    <3>5. WriterFits(r)'
      BY <1>1, <1>a, <2>1, <2>2, <3>3 DEF WriterFits
    <3> QED
      BY <1>f, <1>g, <2>1, <2>2, <2>3, <3>2, <3>3, <3>4, <3>5
  <2>4. CASE rpc[r] = "orphan"
    <3>1. file' = file
      BY <1>4, <2>4 DEF WriteReplyFile
    <3>2. \A i \in Ids : ReplyFits(i) => ReplyFits(i)'
      BY <2>1, <2>4, <3>1 DEF ReplyFits
    <3>3. Lapsed(rid[r])' /\ WriterFits(r)'
      BY <1>1, <1>a, <2>1, <2>2, <2>4 DEF WriterFits
    <3> QED
      BY <1>f, <1>g, <2>1, <2>2, <2>4, <3>1, <3>2, <3>3
  <2> QED
    BY <2>1, <2>3, <2>4
<1>5. CASE MarkReplied(r)
  <2>1. /\ rpc[r] = "mark" /\ UNCHANGED <<file, rid, replies, faults>>
        /\ rid[r] \in Ids /\ rpc' = [rpc EXCEPT ![r] = "idle"]
    BY <1>5 DEF MarkReplied
  <2>2. \A i \in Ids :
           /\ (rows'[i] = None) <=> (rows[i] = None)
           /\ (i # rid[r]) => (rows'[i] = rows[i])
           /\ (rows[i] # None) =>
                 (rows'[i].code = rows[i].code /\ rows'[i].exp = rows[i].exp)
    <3>1. CASE rows[rid[r]] # None
      <4>1. rows[rid[r]] \in Row
        BY <2>1, <3>1
      <4>2. rows' = [rows EXCEPT ![rid[r]] = [rows[rid[r]] EXCEPT !.hasReply = TRUE]]
        BY <1>5, <3>1 DEF MarkReplied
      <4>3. /\ rows'[rid[r]] # None /\ rows'[rid[r]].code = rows[rid[r]].code
            /\ rows'[rid[r]].exp = rows[rid[r]].exp
        BY <2>1, <4>1, <4>2, FlaggedRow
      <4> QED
        BY <2>1, <3>1, <4>2, <4>3
    <3>2. CASE rows[rid[r]] = None
      BY <1>5, <3>2 DEF MarkReplied
    <3> QED
      BY <3>1, <3>2
  <2>3. \A i \in Ids : Lapsed(i)' = Lapsed(i)
    BY <1>1, <2>2 DEF Lapsed, DrawnOnce
  <2>4. \A i \in Ids : HasReply(i)' => HasReply(i) \/ i = rid[r]
    BY <2>2 DEF HasReply
  <2>5. \A i \in Ids : ReplyFits(i) => ReplyFits(i)'
    BY <2>1 DEF ReplyFits
  <2> QED
    BY <1>f, <1>g, <2>1, <2>2, <2>3, <2>4, <2>5
<1>6. CASE ReplyFails(r)
  <2>1. /\ rpc[r] # "idle" /\ UNCHANGED <<rows, file, rid, replies>>
        /\ faults' = faults + 1 /\ rid[r] \in Ids /\ rpc' = [rpc EXCEPT ![r] = "idle"]
    BY <1>6 DEF ReplyFails
  <2>2. \A i \in Ids : (HasReply(i)' = HasReply(i)) /\ (Lapsed(i)' = Lapsed(i))
    BY <1>1, <2>1 DEF HasReply, Lapsed, DrawnOnce
  <2>3. \A i \in Ids : ReplyFits(i) => ReplyFits(i)'
    BY <1>f, <2>1 DEF ReplyFits
  <2> QED
    BY <1>f, <1>g, <2>1, <2>2, <2>3
<1> QED
  BY <1>2, <1>3, <1>4, <1>5, <1>6 DEF Reply

(* The end of the process takes every reply along, and is counted.           *)
LEMMA RepliesStopped ==
    ASSUME TypeOK, RowsOwn, RepliesSafe, ServerStops
    PROVE  RepliesSafe'
<1>1. /\ faults' = faults + 1 /\ faults \in Nat /\ \A r \in Receivers : rpc'[r] = "idle"
      /\ UNCHANGED <<rows, file, sid, rid, replies, codes, now>>
  BY DEF ServerStops, Fault, disk, RepliesSafe, RepliesCounted
<1>2. \A s \in Submitters :
         spc'[s] \in InCreate => spc[s] \in InCreate
  BY DEF ServerStops, TypeOK, InCreate
<1>3. \A i \in Ids : (HasReply(i)' = HasReply(i)) /\ (Lapsed(i)' = Lapsed(i))
  BY <1>1 DEF HasReply, Lapsed, DrawnOnce
<1>4. \A i \in Ids : ReplyFits(i) => ReplyFits(i)'
  BY <1>1 DEF ReplyFits
<1>5. CodesOut'
  BY <1>1, <1>2 DEF RepliesSafe, CodesOut, TypeOK, DrawnOnce
<1>6. RepliesCounted' /\ WritersFit' /\ FlagsFit'
  BY <1>1, <1>3, <1>4 DEF RepliesSafe, RepliesCounted, WritersFit, FlagsFit
<1> QED
  BY <1>5, <1>6 DEF RepliesSafe

(* The store being safe, the replies are: a row that says it has a reply has *)
(* one that opens, for any number of receivers, replies and sweepers, until  *)
(* the case expires or a wipe begins.                                        *)
THEOREM RepliesAreReadable == Spec => []ReplyReadable
<1>1. Init => RepliesSafe
  BY DEF Init, RepliesSafe, CodesOut, RepliesCounted, WritersFit, FlagsFit, HasReply
<1>2. ASSUME Sound, SweepsSafe, RepliesSafe, [Next]_vars, ~WipeBegun' PROVE RepliesSafe'
  <2>0. \A w \in Wipers : ~Shred(w) /\ ~ShredBreaks(w)
    BY <1>2, NotWiping
  <2>1. ASSUME NEW s \in Submitters, NEW id \in Ids, Insert(s, id) PROVE RepliesSafe'
    BY <1>2, <2>1, RepliesInsert
  <2>2. ASSUME NEW s \in Submitters, Create(s), \A id \in Ids : ~Insert(s, id) PROVE RepliesSafe'
    BY <1>2, <2>2, RepliesKept
  <2>3. ASSUME NEW r \in Receivers, Reply(r) PROVE RepliesSafe'
    BY <1>2, <2>3, RepliesGiven
  <2>4. ASSUME NEW w \in Shredders, Shred(w) \/ ShredBreaks(w) PROVE RepliesSafe'
    BY <1>2, <2>0, <2>4, RepliesKept DEF Shredders
  <2>5. CASE (\E id \in Ids : Download(id)) \/ ServerStarts \/ Tick \/ UNCHANGED vars
    BY <1>2, <2>5, RepliesKept
  <2>6. CASE ServerStops
    BY <1>2, <2>6, RepliesStopped DEF Sound
  <2> QED
    BY <1>2, <2>1, <2>2, <2>3, <2>4, <2>5, <2>6 DEF Next
<1>3. Sound /\ (~WipeBegun => SweepsSafe) /\ (~WipeBegun => RepliesSafe) /\ [Next]_vars
        => (~WipeBegun => RepliesSafe)'
  BY <1>2, NotWiping
<1>4. Sound /\ (~WipeBegun => RepliesSafe) => ReplyReadable
  <2> SUFFICES ASSUME Sound, RepliesSafe, NEW id \in Ids, rows[id] # None, rows[id].hasReply,
                      now <= rows[id].exp, DrawnOnce(id)
               PROVE  ReplyFits(id)
    BY DEF ReplyReadable
  <2>1. now \in Int /\ rows[id] \in Row
    BY DEF Sound, TypeOK
  <2>2. rows[id].exp \in Int
    BY <2>1, FlaggedRow
  <2>3. ~(rows[id].exp < now)
    BY <2>1, <2>2
  <2> QED
    BY <2>3 DEF RepliesSafe, FlagsFit, HasReply, Lapsed
<1> QED
  BY <1>1, <1>3, <1>4, StoreSound, SweepsHold, PTL DEF Spec
=============================================================================
