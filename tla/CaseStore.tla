------------------------------ MODULE CaseStore ------------------------------
(***************************************************************************)
(* The store of cases: one row per case in an SQLite table and one         *)
(* directory per case with two files, the sealed submission                *)
(* (case-data.tar.age) and the sealed reply (reply.bin).  No transaction   *)
(* spans the table and the directories, so every operation is modelled at  *)
(* the grain of its SQL statements and system calls, and everything that   *)
(* runs on the store interleaves:                                          *)
(*   - submitters  : a POST /submit inside Store.CreateCase;               *)
(*   - receivers   : a POST /admin/reply inside Store.WriteReply;          *)
(*   - Loop        : the server's own sweeper (startup GC, then hourly);   *)
(*   - Clis        : `kakekomi gc` processes, each with its own Store;     *)
(*   - Wipers      : a duress login inside Store.Wipe.                     *)
(* The server may stop at any step (crash, kill, or a Shutdown that runs   *)
(* out of its ten seconds) and be started again; a CLI sweep may be killed.*)
(***************************************************************************)
EXTENDS Integers

CONSTANTS
    Ids,         \* case ids NewID may draw
    Submitters,  \* submissions, one CreateCase each
    Receivers,   \* admin requests that write replies
    Loop,        \* the server's sweeper
    Clis,        \* sweepers of `kakekomi gc` processes
    Wipers,      \* duress logins
    None,        \* no row, no id
    Hour,        \* clock ticks in the hour created_at is truncated to
    TTL,         \* retention, in ticks
    MaxTries,    \* maxRetries of CreateCase
    MaxNow,      \* bound on the clock
    MaxReplies,  \* bound on the replies written
    MaxFaults    \* bound on stops and failing calls

VARIABLES
    now,      \* the wall clock
    server,   \* "down", "starting" (startup GC) or "serving"
    rows,     \* table cases: id -> row or None
    dir,      \* ids with a directory blob/<id>
    file,     \* id -> file name -> what the file holds
    spc, sid, sat, stries,    \* submitters: step, id drawn, time read, collisions
    rpc, rid, replies,        \* receivers: step, case; replies begun
    codes,    \* case codes the receiver has read out of downloaded blobs
    wpc, wtodo, wcur, wents,  \* sweepers and wipers: step, ids left, id, names left
    faults    \* stops and failed calls so far

disk  == <<rows, dir, file>>
subs  == <<spc, sid, sat, stries>>
recs  == <<rpc, rid, replies, codes>>
shred == <<wpc, wtodo, wcur, wents>>
env   == <<now, server, faults>>
vars  == <<now, server, rows, dir, file, spc, sid, sat, stries,
           rpc, rid, replies, codes, wpc, wtodo, wcur, wents, faults>>

Sweepers  == {Loop} \cup Clis
Shredders == Sweepers \cup Wipers
Names     == {"blob", "reply"}
\* "sealed": one whole ciphertext; "mixed": the bytes of two of them;
\* "empty": just created or truncated; "zeroed": overwritten by a shredder.
Content   == {"none", "empty", "sealed", "mixed", "zeroed"}
Row       == [code: Submitters, exp: Int, hasReply: BOOLEAN, read: BOOLEAN]

InCreate  == {"insert", "mkdir", "open", "write", "orphan", "undoDir", "undoRow"}
SubmitPcs == InCreate \cup {"start", "stored", "told", "gone"}
ReplyPcs  == {"idle", "open", "write", "orphan", "mark"}
ShredPcs  == {"idle", "pick", "stat", "zero", "unlink", "row", "done", "gone"}

ASSUME StoreAssumption ==
    /\ Hour \in Nat \ {0} /\ TTL \in Nat /\ Hour <= TTL
    /\ MaxTries \in Nat \ {0} /\ MaxNow \in Nat
    /\ MaxReplies \in Nat /\ MaxFaults \in Nat
    /\ None \notin Ids /\ None \notin Row
    /\ Loop \notin Clis /\ Loop \notin Wipers /\ Clis \cap Wipers = {}

\* Truncated to the day, here two hours.
BugExpires(at) == (at - (at % (2 * Hour))) + TTL

\* created_at is the hour the request began in; expires_at is that plus the TTL.
Expires(at) == (at - (at % Hour)) + TTL
BugExpired == {id \in Ids : rows[id] # None /\ rows[id].exp <= now}   \* <= for <
Expired     == {id \in Ids : rows[id] # None /\ rows[id].exp < now}
NewRow(s)   == [code |-> s, exp |-> Expires(sat[s]), hasReply |-> FALSE, read |-> FALSE]

Fault == faults < MaxFaults /\ faults' = faults + 1

------------------------------------------------------------------------------
(* Store.CreateCase: INSERT, MkdirAll, create-or-truncate, write.            *)

Begin(s) ==
    /\ spc[s] = "start" /\ server = "serving"
    /\ spc' = [spc EXCEPT ![s] = "insert"]
    /\ sat' = [sat EXCEPT ![s] = now]
    /\ UNCHANGED <<disk, sid, stries, recs, shred, env>>

\* INSERT OR REPLACE.
BugInsert(s, id) ==
    /\ spc[s] = "insert"
    /\ rows' = [rows EXCEPT ![id] = NewRow(s)]
    /\ sid' = [sid EXCEPT ![s] = id]
    /\ spc' = [spc EXCEPT ![s] = "mkdir"]
    /\ UNCHANGED <<dir, file, sat, stries, recs, shred, env>>

Insert(s, id) ==
    /\ spc[s] = "insert" /\ rows[id] = None
    /\ rows' = [rows EXCEPT ![id] = NewRow(s)]
    /\ sid' = [sid EXCEPT ![s] = id]
    /\ spc' = [spc EXCEPT ![s] = "mkdir"]
    /\ stries' = [stries EXCEPT ![s] = 0]
    /\ UNCHANGED <<dir, file, sat, recs, shred, env>>

\* The loop falls through when the retries are exhausted.
BugCollide(s, id) ==
    /\ spc[s] = "insert" /\ rows[id] # None
    /\ stries' = [stries EXCEPT ![s] = @ + 1]
    /\ spc' = [spc EXCEPT ![s] = IF stries[s] + 1 < MaxTries THEN "insert" ELSE "mkdir"]
    /\ UNCHANGED <<disk, sid, sat, recs, shred, env>>

\* UNIQUE failed: draw again, at most MaxTries times in all.
Collide(s, id) ==
    /\ spc[s] = "insert" /\ rows[id] # None
    /\ stries' = [stries EXCEPT ![s] = @ + 1]
    /\ spc' = [spc EXCEPT ![s] = IF stries[s] + 1 < MaxTries THEN "insert" ELSE "gone"]
    /\ UNCHANGED <<disk, sid, sat, recs, shred, env>>

InsertFails(s) ==
    /\ spc[s] = "insert" /\ Fault
    /\ spc' = [spc EXCEPT ![s] = "gone"]
    /\ UNCHANGED <<disk, sid, sat, stries, recs, shred, now, server>>

MkdirCase(s) ==
    /\ spc[s] = "mkdir"
    /\ dir' = dir \cup {sid[s]}
    /\ spc' = [spc EXCEPT ![s] = "open"]
    /\ UNCHANGED <<rows, file, sid, sat, stries, recs, shred, env>>

MkdirFails(s) ==
    /\ spc[s] = "mkdir" /\ Fault
    /\ spc' = [spc EXCEPT ![s] = "undoRow"]
    /\ UNCHANGED <<disk, sid, sat, stries, recs, shred, now, server>>

\* The first half of os.WriteFile; ENOENT when the directory has been removed.
OpenBlob(s) ==
    /\ spc[s] = "open"
    /\ \/ /\ sid[s] \in dir
          /\ file' = [file EXCEPT ![sid[s]]["blob"] = "empty"]
          /\ spc' = [spc EXCEPT ![s] = "write"]
       \/ /\ sid[s] \notin dir
          /\ spc' = [spc EXCEPT ![s] = "undoDir"]
          /\ UNCHANGED file
    /\ UNCHANGED <<rows, dir, sid, sat, stries, recs, shred, env>>

\* "orphan": the open file has been unlinked, the bytes reach no name.  Over the
\* bytes of another submission with this id they may leave the tail of the longer.
WriteBlob(s) ==
    /\ \/ /\ spc[s] = "write"
          /\ \E c \in {"sealed", "mixed"} :
                /\ file[sid[s]]["blob"] = "empty" => c = "sealed"
                /\ file' = [file EXCEPT ![sid[s]]["blob"] = c]
       \/ /\ spc[s] = "orphan"
          /\ UNCHANGED file
    /\ spc' = [spc EXCEPT ![s] = "stored"]
    /\ UNCHANGED <<rows, dir, sid, sat, stries, recs, shred, env>>

\* The rollback forgets the directory.
BugBlobFails(s) ==
    /\ spc[s] \in {"open", "write", "orphan"} /\ Fault
    /\ spc' = [spc EXCEPT ![s] = "undoRow"]
    /\ UNCHANGED <<disk, sid, sat, stries, recs, shred, now, server>>

BlobFails(s) ==
    /\ spc[s] \in {"open", "write", "orphan"} /\ Fault
    /\ spc' = [spc EXCEPT ![s] = "undoDir"]
    /\ UNCHANGED <<disk, sid, sat, stries, recs, shred, now, server>>

\* os.RemoveAll of the case directory; open files lose their name.
UndoDir(s) ==
    /\ spc[s] = "undoDir"
    /\ dir' = dir \ {sid[s]}
    /\ file' = [file EXCEPT ![sid[s]] = [n \in Names |-> "none"]]
    /\ spc' = [t \in Submitters |->
                 IF t = s THEN "undoRow"
                 ELSE IF spc[t] = "write" /\ sid[t] = sid[s] THEN "orphan" ELSE spc[t]]
    /\ rpc' = [r \in Receivers |->
                 IF rpc[r] = "write" /\ rid[r] = sid[s] THEN "orphan" ELSE rpc[r]]
    /\ UNCHANGED <<rows, sid, sat, stries, rid, replies, codes, shred, env>>

\* The DELETE of the rollback; its error is ignored.
UndoRow(s) ==
    /\ spc[s] = "undoRow"
    /\ \/ /\ rows' = [rows EXCEPT ![sid[s]] = None]
          /\ UNCHANGED faults
       \/ Fault /\ UNCHANGED rows
    /\ spc' = [spc EXCEPT ![s] = "gone"]
    /\ UNCHANGED <<dir, file, sid, sat, stries, recs, shred, now, server>>

\* processSubmit shows the submitter the case code.
Tell(s) ==
    /\ spc[s] = "stored"
    /\ spc' = [spc EXCEPT ![s] = "told"]
    /\ UNCHANGED <<disk, sid, sat, stries, recs, shred, env>>

------------------------------------------------------------------------------
(* Store.WriteReply: SELECT, create-or-truncate, write, UPDATE; and the      *)
(* download of a case, which marks it read.                                  *)

\* handleAdminReply wants the case code, which only the sealed blob carries.
ReplyTo(r, id) ==
    /\ rpc[r] = "idle" /\ server = "serving" /\ replies < MaxReplies
    /\ rows[id] # None /\ rows[id].code \in codes
    /\ rid' = [rid EXCEPT ![r] = id]
    /\ rpc' = [rpc EXCEPT ![r] = "open"]
    /\ replies' = replies + 1
    /\ UNCHANGED <<disk, subs, codes, shred, env>>

OpenReply(r) ==
    /\ rpc[r] = "open"
    /\ \/ /\ rid[r] \in dir
          /\ file' = [file EXCEPT ![rid[r]]["reply"] = "empty"]
          /\ rpc' = [rpc EXCEPT ![r] = "write"]
       \/ /\ rid[r] \notin dir
          /\ rpc' = [rpc EXCEPT ![r] = "idle"]
          /\ UNCHANGED file
    /\ UNCHANGED <<rows, dir, rid, replies, codes, subs, shred, env>>

\* Over bytes someone else wrote since the truncation, a shorter reply leaves
\* the tail of the longer one.
WriteReplyFile(r) ==
    /\ \/ /\ rpc[r] = "write"
          /\ \E c \in {"sealed", "mixed"} :
                /\ file[rid[r]]["reply"] = "empty" => c = "sealed"
                /\ file' = [file EXCEPT ![rid[r]]["reply"] = c]
       \/ /\ rpc[r] = "orphan"
          /\ UNCHANGED file
    /\ rpc' = [rpc EXCEPT ![r] = "mark"]
    /\ UNCHANGED <<rows, dir, rid, replies, codes, subs, shred, env>>

\* UPDATE ... SET has_reply = 1; no row updated is no error.
MarkReplied(r) ==
    /\ rpc[r] = "mark"
    /\ \/ /\ rows[rid[r]] # None
          /\ rows' = [rows EXCEPT ![rid[r]].hasReply = TRUE]
       \/ rows[rid[r]] = None /\ UNCHANGED rows
    /\ rpc' = [rpc EXCEPT ![r] = "idle"]
    /\ UNCHANGED <<dir, file, rid, replies, codes, subs, shred, env>>

\* The error of os.WriteFile is not checked before the UPDATE.
BugReplyFails(r) ==
    /\ rpc[r] # "idle" /\ Fault
    /\ rpc' = [rpc EXCEPT ![r] = "mark"]
    /\ UNCHANGED <<disk, rid, replies, codes, subs, shred, now, server>>

ReplyFails(r) ==
    /\ rpc[r] # "idle" /\ Fault
    /\ rpc' = [rpc EXCEPT ![r] = "idle"]
    /\ UNCHANGED <<disk, rid, replies, codes, subs, shred, now, server>>

\* handleAdminDownload: ReadBlob, then MarkRead.  A whole blob opens with the
\* receiver's age key and shows the code; a truncated or zeroed one does not.
\* A blob without a row is left out: its code opens no case.
Download(id) ==
    /\ server = "serving" /\ file[id]["blob"] # "none" /\ rows[id] # None
    /\ rows' = [rows EXCEPT ![id].read = TRUE]
    /\ codes' = IF file[id]["blob"] = "sealed" THEN codes \cup {rows[id].code} ELSE codes
    /\ UNCHANGED <<dir, file, subs, rpc, rid, replies, shred, env>>

------------------------------------------------------------------------------
(* Store.GC, Store.Wipe and the shredDir both call for each directory.       *)

\* GC reads the whole list first; if the SELECT fails there is nothing to do.
SweepStart(w) ==
    /\ w \in Sweepers /\ wpc[w] = "idle"
    /\ w = Loop => server # "down"
    /\ \/ /\ wtodo' = [wtodo EXCEPT ![w] = Expired]
          /\ UNCHANGED faults
       \/ /\ Fault
          /\ wtodo' = [wtodo EXCEPT ![w] = {}]
    /\ wpc' = [wpc EXCEPT ![w] = "pick"]
    /\ UNCHANGED <<disk, subs, recs, wcur, wents, now, server>>

WipeStart(w) ==
    /\ w \in Wipers /\ wpc[w] = "idle" /\ server = "serving"
    /\ wtodo' = [wtodo EXCEPT ![w] = dir]
    /\ wpc' = [wpc EXCEPT ![w] = "pick"]
    /\ UNCHANGED <<disk, subs, recs, wcur, wents, env>>

\* What a sweep leaves behind when it ends or gives up: Run goes on to serve
\* after the startup GC, whatever it returned.
Served(w) == server' = IF w = Loop /\ server = "starting" THEN "serving" ELSE server

\* shredDir came back for id.  GC goes on to the row unless the error is other
\* than ErrNotExist, which ends the sweep; Wipe ignores every error.
ShredReturns(w, id, ok) ==
    IF w \in Wipers
    THEN /\ wtodo' = [wtodo EXCEPT ![w] = @ \ {id}]
         /\ wpc' = [wpc EXCEPT ![w] = "pick"]
         /\ UNCHANGED server
    ELSE /\ wpc' = [wpc EXCEPT ![w] = IF ok THEN "row" ELSE "idle"]
         /\ IF ok THEN UNCHANGED server ELSE Served(w)
         /\ UNCHANGED wtodo

\* GC does not tolerate a directory that is already gone.
BugPick(w, id) ==
    /\ wpc[w] = "pick" /\ id \in wtodo[w]
    /\ wcur' = [wcur EXCEPT ![w] = id]
    /\ wents' = [wents EXCEPT ![w] = {n \in Names : file[id][n] # "none"}]
    /\ \/ /\ id \in dir
          /\ wpc' = [wpc EXCEPT ![w] = "stat"]
          /\ UNCHANGED <<wtodo, server>>
       \/ /\ id \notin dir
          /\ ShredReturns(w, id, FALSE)
    /\ UNCHANGED <<disk, subs, recs, now, faults>>

\* shredDir begins: the names os.ReadDir found, or ErrNotExist.
Pick(w, id) ==
    /\ wpc[w] = "pick" /\ id \in wtodo[w]
    /\ wcur' = [wcur EXCEPT ![w] = id]
    /\ wents' = [wents EXCEPT ![w] = {n \in Names : file[id][n] # "none"}]
    /\ \/ /\ id \in dir
          /\ wpc' = [wpc EXCEPT ![w] = "stat"]
          /\ UNCHANGED <<wtodo, server>>
       \/ /\ id \notin dir
          /\ ShredReturns(w, id, TRUE)
    /\ UNCHANGED <<disk, subs, recs, now, faults>>

\* os.ReadDir sorts: case-data.tar.age comes before reply.bin.
Entry(w) == IF "blob" \in wents[w] THEN "blob" ELSE "reply"

\* os.Stat; an entry that is gone returns ErrNotExist from the whole shredDir.
Stat(w) ==
    /\ wpc[w] = "stat" /\ wents[w] # {}
    /\ \/ /\ file[wcur[w]][Entry(w)] # "none"
          /\ wpc' = [wpc EXCEPT ![w] = "zero"]
          /\ UNCHANGED <<wtodo, server>>
       \/ /\ file[wcur[w]][Entry(w)] = "none"
          /\ ShredReturns(w, wcur[w], TRUE)
    /\ UNCHANGED <<disk, subs, recs, wcur, wents, now, faults>>

\* os.WriteFile of zeros creates the file if it has gone, unless the directory
\* has gone too; errors are ignored.
Zero(w) ==
    /\ wpc[w] = "zero"
    /\ \/ /\ wcur[w] \in dir
          /\ file' = [file EXCEPT ![wcur[w]][Entry(w)] = "zeroed"]
       \/ wcur[w] \notin dir /\ UNCHANGED file
    /\ wpc' = [wpc EXCEPT ![w] = "unlink"]
    /\ UNCHANGED <<rows, dir, subs, recs, wtodo, wcur, wents, env>>

\* os.Remove; whoever has the file open keeps writing to a file with no name.
Unlink(w) ==
    LET id == wcur[w]  n == Entry(w) IN
    /\ wpc[w] = "unlink"
    /\ file' = [file EXCEPT ![id][n] = "none"]
    /\ spc' = [s \in Submitters |->
                 IF n = "blob" /\ spc[s] = "write" /\ sid[s] = id THEN "orphan" ELSE spc[s]]
    /\ rpc' = [r \in Receivers |->
                 IF n = "reply" /\ rpc[r] = "write" /\ rid[r] = id THEN "orphan" ELSE rpc[r]]
    /\ wents' = [wents EXCEPT ![w] = @ \ {n}]
    /\ wpc' = [wpc EXCEPT ![w] = "stat"]
    /\ UNCHANGED <<rows, dir, sid, sat, stries, rid, replies, codes, wtodo, wcur, env>>

\* The error of the final os.Remove is dropped.
BugRmdir(w) ==
    /\ wpc[w] = "stat" /\ wents[w] = {}
    /\ dir' = IF \E n \in Names : file[wcur[w]][n] # "none" THEN dir ELSE dir \ {wcur[w]}
    /\ ShredReturns(w, wcur[w], TRUE)
    /\ UNCHANGED <<rows, file, subs, recs, wcur, wents, now, faults>>

\* os.Remove of the directory: ENOENT, ENOTEMPTY or done.
Rmdir(w) ==
    LET id == wcur[w]
        occupied == \E n \in Names : file[id][n] # "none"
    IN
    /\ wpc[w] = "stat" /\ wents[w] = {}
    /\ \/ /\ id \in dir /\ ~occupied
          /\ dir' = dir \ {id}
          /\ ShredReturns(w, id, TRUE)
       \/ /\ id \in dir /\ occupied
          /\ ShredReturns(w, id, FALSE)
          /\ UNCHANGED dir
       \/ /\ id \notin dir
          /\ ShredReturns(w, id, TRUE)
          /\ UNCHANGED dir
    /\ UNCHANGED <<rows, file, subs, recs, wcur, wents, now, faults>>

\* A call of shredDir whose error is not ignored fails (EIO, EACCES).
ShredFails(w) ==
    /\ wpc[w] = "stat" /\ Fault
    /\ ShredReturns(w, wcur[w], FALSE)
    /\ UNCHANGED <<disk, subs, recs, wcur, wents, now>>

DeleteRow(w) ==
    /\ wpc[w] = "row"
    /\ rows' = [rows EXCEPT ![wcur[w]] = None]
    /\ wtodo' = [wtodo EXCEPT ![w] = @ \ {wcur[w]}]
    /\ wpc' = [wpc EXCEPT ![w] = "pick"]
    /\ UNCHANGED <<dir, file, subs, recs, wcur, wents, env>>

\* The DELETE fails (SQLITE_BUSY past busy_timeout): the sweep ends.
DeleteFails(w) ==
    /\ wpc[w] = "row" /\ Fault
    /\ wpc' = [wpc EXCEPT ![w] = "idle"]
    /\ Served(w)
    /\ UNCHANGED <<disk, subs, recs, wtodo, wcur, wents, now>>

SweepDone(w) ==
    /\ w \in Sweepers /\ wpc[w] = "pick" /\ wtodo[w] = {}
    /\ wpc' = [wpc EXCEPT ![w] = "idle"]
    /\ wcur' = [wcur EXCEPT ![w] = None]
    /\ wents' = [wents EXCEPT ![w] = {}]
    /\ Served(w)
    /\ UNCHANGED <<disk, subs, recs, wtodo, now, faults>>

\* The wipe forgets the table.
BugWipeRows(w) ==
    /\ w \in Wipers /\ wpc[w] = "pick" /\ wtodo[w] = {}
    /\ wpc' = [wpc EXCEPT ![w] = "done"]
    /\ UNCHANGED <<rows, faults, dir, file, subs, recs, wtodo, wcur, wents, now, server>>

\* DELETE FROM cases; the login handler ignores its error.
WipeRows(w) ==
    /\ w \in Wipers /\ wpc[w] = "pick" /\ wtodo[w] = {}
    /\ \/ /\ rows' = [id \in Ids |-> None]
          /\ UNCHANGED faults
       \/ Fault /\ UNCHANGED rows
    /\ wpc' = [wpc EXCEPT ![w] = "done"]
    /\ UNCHANGED <<dir, file, subs, recs, wtodo, wcur, wents, now, server>>

------------------------------------------------------------------------------
(* Processes and time.                                                       *)

\* Run: after OpenStore the startup GC runs before the listener.
ServerStarts ==
    /\ server = "down"
    /\ server' = "starting"
    /\ UNCHANGED <<disk, subs, recs, shred, now, faults>>

\* The process ends with its handlers and its sweep wherever they are: nobody
\* waits for the sweep, and Shutdown waits ten seconds for the handlers.
ServerStops ==
    /\ server # "down" /\ Fault
    /\ server' = "down"
    /\ spc' = [s \in Submitters |-> IF spc[s] \in InCreate \cup {"stored"} THEN "gone" ELSE spc[s]]
    /\ rpc' = [r \in Receivers |-> "idle"]
    /\ wpc' = [w \in Shredders |->
                 IF w \in Clis \/ wpc[w] \in {"idle", "done"} THEN wpc[w]
                 ELSE IF w = Loop THEN "idle" ELSE "gone"]
    /\ wtodo' = [w \in Shredders |-> IF w \in Clis THEN wtodo[w] ELSE {}]
    /\ wcur' = [w \in Shredders |-> IF w \in Clis THEN wcur[w] ELSE None]
    /\ wents' = [w \in Shredders |-> IF w \in Clis THEN wents[w] ELSE {}]
    /\ UNCHANGED <<disk, sid, sat, stries, rid, replies, codes, now>>

CliStops(w) ==
    /\ w \in Clis /\ wpc[w] # "idle" /\ Fault
    /\ wpc' = [wpc EXCEPT ![w] = "idle"]
    /\ UNCHANGED <<disk, subs, recs, wtodo, wcur, wents, now, server>>

\* A call of CreateCase does not last until its own case expires (days later).
Tick ==
    /\ now < MaxNow
    /\ \A s \in Submitters : spc[s] \in InCreate => now < Expires(sat[s])
    /\ now' = now + 1
    /\ UNCHANGED <<disk, subs, recs, shred, server, faults>>

------------------------------------------------------------------------------
Init ==
    /\ now = 0 /\ server = "down" /\ faults = 0
    /\ rows = [id \in Ids |-> None]
    /\ dir = {}
    /\ file = [id \in Ids |-> [n \in Names |-> "none"]]
    /\ spc = [s \in Submitters |-> "start"]
    /\ sid = [s \in Submitters |-> None]
    /\ sat = [s \in Submitters |-> 0]
    /\ stries = [s \in Submitters |-> 0]
    /\ rpc = [r \in Receivers |-> "idle"]
    /\ rid = [r \in Receivers |-> None]
    /\ replies = 0
    /\ codes = {}
    /\ wpc = [w \in Shredders |-> "idle"]
    /\ wtodo = [w \in Shredders |-> {}]
    /\ wcur = [w \in Shredders |-> None]
    /\ wents = [w \in Shredders |-> {}]

Create(s) ==
    \/ Begin(s)
    \/ \E id \in Ids : Insert(s, id) \/ Collide(s, id)
    \/ InsertFails(s)
    \/ MkdirCase(s)
    \/ MkdirFails(s)
    \/ OpenBlob(s)
    \/ WriteBlob(s)
    \/ BlobFails(s)
    \/ UndoDir(s)
    \/ UndoRow(s)
    \/ Tell(s)

Reply(r) ==
    \/ \E id \in Ids : ReplyTo(r, id)
    \/ OpenReply(r)
    \/ WriteReplyFile(r)
    \/ MarkReplied(r)
    \/ ReplyFails(r)

\* What the sweeping or wiping goroutine itself does.
Shred(w) ==
    \/ SweepStart(w)
    \/ WipeStart(w)
    \/ \E id \in Ids : Pick(w, id)
    \/ Stat(w)
    \/ Zero(w)
    \/ Unlink(w)
    \/ Rmdir(w)
    \/ DeleteRow(w)
    \/ SweepDone(w)
    \/ WipeRows(w)

ShredBreaks(w) == ShredFails(w) \/ DeleteFails(w) \/ CliStops(w)

Next ==
    \/ \E s \in Submitters : Create(s)
    \/ \E r \in Receivers : Reply(r)
    \/ \E id \in Ids : Download(id)
    \/ \E w \in Shredders : Shred(w) \/ ShredBreaks(w)
    \/ ServerStarts
    \/ ServerStops
    \/ Tick

Spec == Init /\ [][Next]_vars

\* The operator restarts the server, its hourly ticker keeps sweeping, and
\* time passes.  Nothing is assumed of handlers or of cron.
Fairness == WF_vars(ServerStarts) /\ WF_vars(Shred(Loop))
FairSpec == Spec /\ Fairness

\* A wipe that meets no other work: it begins when the handlers and sweeps are
\* at rest, and until it ends nothing else moves and no call of shredDir fails.
\* WipeAlone is a constraint on the steps of a run, not part of Spec.
Wiping == \E w \in Wipers : wpc[w] \notin {"idle", "done", "gone"}
AtRest ==
    /\ \A s \in Submitters : spc[s] \notin InCreate
    /\ \A r \in Receivers : rpc[r] = "idle"
    /\ \A w \in Sweepers : wpc[w] = "idle"
WipeAlone ==
    /\ ~Wiping /\ Wiping' => AtRest
    /\ Wiping => \E w \in Wipers : wpc[w] # "idle" /\ Shred(w)

------------------------------------------------------------------------------
(* Type invariant of the store and of everything that runs on it. *)
TypeOK ==
    /\ now \in Int
    /\ server \in {"down", "starting", "serving"}
    /\ rows \in [Ids -> Row \cup {None}]
    /\ dir \in SUBSET Ids
    /\ file \in [Ids -> [Names -> Content]]
    /\ spc \in [Submitters -> SubmitPcs]
    /\ sid \in [Submitters -> Ids \cup {None}]
    /\ \A s \in Submitters :
          spc[s] \in (InCreate \cup {"stored", "told"}) \ {"insert"} => sid[s] \in Ids
    /\ sat \in [Submitters -> Int]
    /\ stries \in [Submitters -> Int]
    /\ rpc \in [Receivers -> ReplyPcs]
    /\ rid \in [Receivers -> Ids \cup {None}]
    /\ \A r \in Receivers : rpc[r] # "idle" => rid[r] \in Ids
    /\ replies \in Int
    /\ codes \in SUBSET Submitters
    /\ wpc \in [Shredders -> ShredPcs]
    /\ wtodo \in [Shredders -> SUBSET Ids]
    /\ wcur \in [Shredders -> Ids \cup {None}]
    /\ \A w \in Shredders : wpc[w] \in {"stat", "zero", "unlink", "row"} => wcur[w] \in Ids
    /\ wents \in [Shredders -> SUBSET Names]
    /\ faults \in Int

(* No case directory exists without its row.  Only rows are ever swept, so   *)
(* such a directory would stay on disk for ever: CreateCase must insert      *)
(* before it makes the directory and roll back in the opposite order, and    *)
(* GC must not delete the row of a directory it did not remove.              *)
NoStrandedFiles == \A id \in dir : rows[id] # None

\* A duress login has reached Store.Wipe.
WipeBegun == \E w \in Wipers : wpc[w] # "idle"

\* An id that has been freed may be drawn again, by NewID with a negligible
\* probability.  Whoever still works on the case that had it before cannot tell.
DrawnOnce(id) == \A s, t \in Submitters : sid[s] = id /\ sid[t] = id => s = t

(* A submitter who has been shown a code has a row that is its own and a     *)
(* whole blob, until the retention period less the hour lost to rounding has *)
(* passed: no restart, rollback, collision or sweep takes them away.  Only   *)
(* the stale list of a second sweeper may, if it still holds the id.         *)
ToldKept ==
    \A s \in Submitters :
        /\ spc[s] = "told" /\ now + Hour <= sat[s] + TTL
        /\ ~WipeBegun /\ (Clis # {} => DrawnOnce(sid[s]))
        => /\ rows[sid[s]] # None
           /\ rows[sid[s]].code = s
           /\ sid[s] \in dir
           /\ file[sid[s]]["blob"] = "sealed"

\* What WriteReply leaves in reply.bin.  It takes a second reply to spoil a whole
\* one: while the file is rewritten, for good when that is cut off, or when two
\* are written over one another.
ReplyFits(id) ==
    \/ file[id]["reply"] = "sealed"
    \/ replies > 1 /\ file[id]["reply"] = "mixed"
    \/ /\ replies > 1 /\ file[id]["reply"] = "empty"
       /\ faults > 0 \/ \E r \in Receivers : rpc[r] = "write" /\ rid[r] = id

(* A row that says it has a reply has a whole one on disk until the case     *)
(* expires or everything is wiped, as far as later replies leave it whole:   *)
(* WriteReply flips has_reply only after the file, and a reply meets neither *)
(* the rollback nor the sweep of an unexpired case.                          *)
ReplyReadable ==
    \A id \in Ids :
        /\ rows[id] # None /\ rows[id].hasReply /\ now <= rows[id].exp
        /\ DrawnOnce(id) /\ ~WipeBegun
        => ReplyFits(id)

(* Short of a wipe, a step that destroys a whole submission is a step on an  *)
(* expired case: a sweep works from a list of ids read earlier, and by the   *)
(* time it reaches one the list may be stale.  A second sweeper may find on  *)
(* its list the id of a case that has gone, with a new case under it.        *)
ShredOnlyExpired ==
    [][\A id \in Ids :
          file[id]["blob"] = "sealed" /\ file'[id]["blob"] # "sealed" =>
              \/ rows[id] # None /\ rows[id].exp < now
              \/ WipeBegun
              \/ Clis # {} /\ ~DrawnOnce(id)]_vars

(* A case past its TTL loses its row and its directory, whatever the sweep   *)
(* ran into on the way: restarts, failing calls, replies written meanwhile.  *)
ExpiredLeave ==
    \A id \in Ids : id \in Expired ~> (rows[id] = None /\ id \notin dir)

(* After a finished wipe, once the handlers that ran beside it have come to  *)
(* rest, every directory on disk has a row.                                  *)
WipeDropsAll ==
    (\E w \in Wipers : wpc[w] = "done") /\ AtRest => NoStrandedFiles

(* A duress wipe that meets no failing call and has the store to itself      *)
(* leaves neither a row nor a directory, whatever interrupted sweeps and     *)
(* stopped requests had left before it.                                      *)
WipeEmpties ==
    [][\A w \in Wipers :
          wpc[w] = "pick" /\ wpc'[w] = "done" =>
              dir' = {} /\ (faults' = faults => \A id \in Ids : rows'[id] = None)]_vars

(* When nothing runs, no directory is left behind without a row to expire.   *)
SweptOrListed == AtRest => NoStrandedFiles
=============================================================================
