---------------------------- MODULE CaseStoreInv ----------------------------
(***************************************************************************)
(* The inductive invariants of CaseStore: what every process may rely on   *)
(* between two of its steps, first when the server's loop is the only      *)
(* sweeper, then with any number of sweepers.  Proved in CaseStoreProofs.  *)
(***************************************************************************)
EXTENDS CaseStore

LoopAlone == Clis = {} /\ Wipers = {}

\* s has a row, and the row is still the one it inserted.
Holds(s) ==
    /\ rows[sid[s]] # None
    /\ rows[sid[s]].code = s
    /\ rows[sid[s]].exp = Expires(sat[s])

\* A file lies in an existing directory, and one being written has a name.
FilesHaveDirs ==
    /\ \A id \in Ids, n \in Names : file[id][n] # "none" => id \in dir
    /\ \A s \in Submitters : spc[s] = "write" => file[sid[s]]["blob"] # "none"
    /\ \A r \in Receivers : rpc[r] = "write" => file[rid[r]]["reply"] # "none"

\* CreateCase owns an unexpired row from its INSERT to its end, so neither the
\* sweep nor another submitter touches the directory meanwhile.
CreatorsHold ==
    \A s \in Submitters :
        spc[s] \in InCreate =>
            /\ now <= Expires(sat[s])
            /\ spc[s] # "orphan"
            /\ spc[s] # "insert" => Holds(s) /\ file[sid[s]]["blob"] # "sealed"
            /\ spc[s] \in {"open", "write"} => sid[s] \in dir
            /\ spc[s] = "write" => file[sid[s]]["blob"] = "empty"
            /\ spc[s] \in {"mkdir", "undoRow"} => sid[s] \notin dir

\* A stored submission stays whole until it expires.
StoredKept ==
    \A s \in Submitters :
        spc[s] \in {"stored", "told"} /\ now <= Expires(sat[s]) =>
            Holds(s) /\ sid[s] \in dir /\ file[sid[s]]["blob"] = "sealed"

\* The sweep works on rows that are still there and still expired, and reaches
\* the DELETE only once the directory is gone.
LoopOwns ==
    wpc[Loop] # "idle" =>
        /\ wtodo[Loop] \subseteq Expired
        /\ wpc[Loop] # "pick" => wcur[Loop] \in wtodo[Loop]
        /\ wpc[Loop] = "row" => wcur[Loop] \notin dir
        /\ wpc[Loop] \in {"stat", "zero", "unlink"} =>
              /\ wcur[Loop] \in dir
              /\ \A n \in wents[Loop] : file[wcur[Loop]][n] # "none"
        /\ wpc[Loop] \in {"zero", "unlink"} => wents[Loop] # {}
        /\ wpc[Loop] \notin {"done", "gone"}

Safe ==
    /\ NoStrandedFiles
    /\ FilesHaveDirs
    /\ CreatorsHold
    /\ StoredKept
    /\ LoopOwns

IInv == TypeOK /\ Safe

------------------------------------------------------------------------------
\* s has the row it inserted; another submission may have its id by now.
HasRow(s) == rows[sid[s]] # None /\ rows[sid[s]].code = s

\* An id is drawn once, by a request that has begun, and as long as the row is
\* there its expiry is that of the request.
RowsOwn ==
    \A s \in Submitters :
        /\ spc[s] \in {"start", "insert"} => sid[s] = None
        /\ spc[s] = "insert" => sat[s] <= now
        /\ sid[s] # None /\ HasRow(s) => rows[sid[s]].exp = Expires(sat[s])

\* Each row is under the id its submission drew.
RowsNamed == \A id \in Ids : rows[id] # None => sid[rows[id].code] = id

\* What holds whoever sweeps and wipes: a wipe deletes the rows all at once and
\* then is done, a sweep goes back to rest, and no directory has an undrawn id.
Sound ==
    /\ TypeOK /\ FilesHaveDirs /\ RowsOwn /\ RowsNamed
    /\ \A w \in Wipers : wpc[w] # "row"
    /\ \A w \in Sweepers : wpc[w] \notin {"done", "gone"}
    /\ \A id \in dir : \E s \in Submitters : sid[s] = id

(* What holds with any number of sweepers until a wipe begins.               *)

\* A case that was stored under id has expired.
Spent(id) == \E s \in Submitters : sid[s] = id /\ Expires(sat[s]) < now

\* A list may be stale, but an id comes on it only through a case that expired.
ListsSpent ==
    \A w \in Sweepers : wpc[w] # "idle" =>
        /\ \A id \in wtodo[w] : Spent(id)
        /\ wpc[w] # "pick" => wcur[w] \in wtodo[w]

\* CreateCase keeps its row and directory, if no other submission had its id.
CreatorsKeep ==
    \A s \in Submitters : spc[s] \in InCreate =>
        /\ now <= Expires(sat[s])
        /\ spc[s] # "insert" /\ DrawnOnce(sid[s]) =>
              /\ HasRow(s) /\ spc[s] # "orphan" /\ file[sid[s]]["blob"] # "sealed"
              /\ spc[s] \in {"open", "write"} => sid[s] \in dir
              /\ spc[s] = "write" => file[sid[s]]["blob"] = "empty"

\* So does what it has stored, until it expires, and the row outlives the blob.
StoredKeep ==
    \A s \in Submitters : sid[s] # None /\ DrawnOnce(sid[s]) =>
        /\ spc[s] \in {"stored", "told"} /\ now <= Expires(sat[s]) =>
              HasRow(s) /\ sid[s] \in dir /\ file[sid[s]]["blob"] = "sealed"
        /\ file[sid[s]]["blob"] = "sealed" => HasRow(s)

\* A sweeper that is past the blob, or finds the directory gone, leaves none
\* behind, though another sweeper may have been there before it.
BlobsPassed ==
    \A w \in Sweepers :
        /\ \/ wpc[w] \in {"stat", "zero", "unlink"} /\ "blob" \notin wents[w]
           \/ wpc[w] = "row"
        /\ DrawnOnce(wcur[w])
        => file[wcur[w]]["blob"] # "sealed"

SweepsSafe == ListsSpent /\ CreatorsKeep /\ StoredKeep /\ BlobsPassed

(* What ReplyReadable rests on beside these.                                 *)

\* A case that a reply no longer reaches.
Lapsed(id) == rows[id] = None \/ rows[id].exp < now \/ ~DrawnOnce(id)

HasReply(id) == rows[id] # None /\ rows[id].hasReply

\* The receiver knows the codes of submissions that were stored, so no rollback
\* follows.
CodesOut ==
    \A c \in codes :
        sid[c] # None /\ (DrawnOnce(sid[c]) => spc[c] \notin InCreate)

\* The first reply has the desk to itself: until a second one begins there is one
\* call at most, and no row is flagged before it ends.
RepliesCounted ==
    /\ replies \in Nat /\ faults \in Nat
    /\ \A r \in Receivers : rpc[r] # "idle" => replies > 0
    /\ \A id \in Ids : HasReply(id) => replies > 0
    /\ replies = 1 =>
          \A r \in Receivers : rpc[r] # "idle" =>
              /\ \A q \in Receivers : rpc[q] # "idle" => q = r
              /\ \A id \in Ids : ~HasReply(id)

\* A call of WriteReply works on a case that was stored.  Unless that has lapsed
\* meanwhile, the file it writes keeps its name and is whole when it is marked.
WriterFits(r) ==
    /\ \E s \in Submitters : sid[s] = rid[r]
    /\ ~Lapsed(rid[r]) =>
          /\ rows[rid[r]].code \in codes
          /\ rpc[r] # "orphan"
          /\ rpc[r] = "write" =>
                \/ file[rid[r]]["reply"] = "empty"
                \/ replies > 1 /\ file[rid[r]]["reply"] \in {"sealed", "mixed"}
          /\ rpc[r] = "mark" => ReplyFits(rid[r])
WritersFit == \A r \in Receivers : rpc[r] # "idle" => WriterFits(r)

FlagsFit ==
    \A id \in Ids : HasReply(id) /\ ~Lapsed(id) => rows[id].code \in codes /\ ReplyFits(id)

RepliesSafe == CodesOut /\ RepliesCounted /\ WritersFit /\ FlagsFit

(* What a wipe that has the store to itself rests on.                        *)

AloneSpec == Init /\ [][Next /\ WipeAlone]_vars

\* The wipe is the only one, nothing else works, every directory there is still
\* on its list, and of the one it shreds it knows every entry.
WipeHolds ==
    \A w \in Wipers : wpc[w] \notin {"idle", "done", "gone"} =>
        /\ AtRest
        /\ \A v \in Wipers : wpc[v] \notin {"idle", "done", "gone"} => v = w
        /\ dir \subseteq wtodo[w]
        /\ wpc[w] # "pick" =>
              /\ wcur[w] \in dir
              /\ \A n \in Names : n \in wents[w] <=> file[wcur[w]][n] # "none"
        /\ wpc[w] \in {"zero", "unlink"} => wents[w] # {}
=============================================================================
