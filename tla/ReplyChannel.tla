---------------------------- MODULE ReplyChannel ----------------------------
(***************************************************************************)
(* The way back to the visitor: handleAdminReply and handleReply of        *)
(* handlers.go, over the parts of the store they use.  A receiver types    *)
(* the visitor's case code and a text; the server seals the text under a   *)
(* key made of the code and the case id and overwrites reply.bin.  The     *)
(* visitor comes back with the code, which is all that finds the case and  *)
(* opens the reply.                                                        *)
(*                                                                         *)
(* CreateCase is one step here and a sweep four; CaseStore takes both      *)
(* apart, with what can fail in them.  An id may be drawn again once its   *)
(* row is gone.  A case has one code, and no two cases share one.          *)
(***************************************************************************)
EXTENDS Integers, Sequences

CONSTANTS
    Ids,        \* the case ids NewID may draw
    Codes,      \* the case codes NewCaseCode may draw: bounds the cases
    Receivers,  \* posts to /admin/reply that are under way at once
    Visitors,   \* posts to /reply that are under way at once
    NoCode,     \* not a code
    MaxTexts    \* bound on the replies sent

ASSUME ReplyAssumption == NoCode \notin Codes /\ MaxTexts \in Nat

VARIABLES
    rows,   \* id -> the code of its row, or NoCode: there is none
    has,    \* the ids whose row has has_reply = 1
    old,    \* the ids whose row is past expires_at
    dirs,   \* the ids whose directory exists
    file,   \* id -> reply.bin
    gc,     \* the sweep
    desk,   \* the receivers' posts
    come,   \* the visitors' posts
    used,   \* the codes given out so far
    sent,   \* text -> the code of the case it answers
    kept    \* id -> the text the receiver was told is saved, 0 if there is none
            \* or another post has touched the file since

vars == <<rows, has, old, dirs, file, gc, desk, come, used, sent, kept>>

Texts == 1..MaxTexts
\* What reply.bin holds: no file, an empty one, bytes that open under no key,
\* or a text sealed under a code and an id.
File     == [is: {"none", "empty", "junk", "sealed"}, code: Codes \cup {NoCode},
             id: Ids, text: 0..MaxTexts]
Not(is, i)         == [is |-> is, code |-> NoCode, id |-> i, text |-> 0]

\* The key is made of the case id alone.
BugSealed(c, i, n) == [is |-> "sealed", code |-> NoCode, id |-> i, text |-> n]
\* EncryptSymmetric under HKDFKey(code, id).
Sealed(c, i, n)    == [is |-> "sealed", code |-> c, id |-> i, text |-> n]

\* FindCaseByCode: the row whose code_lookup and code_hash are the code's.
Found(c) == {i \in Ids : rows[i] = c}

Cut     == [pc |-> "idle"]
\* alone: no other post has had the file open at the same time; linked: the
\* file it has open is still the one in the directory.
Posts   == [pc: {"got", "matched", "checked", "opened", "written"},
            id: Ids, code: Codes, text: Texts, alone: BOOLEAN, linked: BOOLEAN]
Answers == [pc: {"found", "read", "done"}, code: Codes, id: Ids, blob: File,
            said: {"", "no-match", "verified", "has-reply"}, text: 0..MaxTexts,
            due: 0..MaxTexts]

Init == /\ rows = [i \in Ids |-> NoCode] /\ has = {} /\ old = {} /\ dirs = {}
        /\ file = [i \in Ids |-> Not("none", i)]
        /\ gc = [pc |-> "idle"]
        /\ desk = [r \in Receivers |-> Cut] /\ come = [v \in Visitors |-> Cut]
        /\ used = {} /\ sent = <<>> /\ kept = [i \in Ids |-> 0]

store  == <<rows, has, old, dirs, file>>
ghosts == <<used, sent, kept>>

-----------------------------------------------------------------------------
(* Cases come and go.                                                      *)

Create(i) ==
    /\ rows[i] = NoCode
    /\ \E c \in Codes \ used : rows' = [rows EXCEPT ![i] = c] /\ used' = used \cup {c}
    /\ dirs' = dirs \cup {i}
    /\ UNCHANGED <<has, old, file, gc, desk, come, sent, kept>>

Expire(i) ==
    /\ rows[i] # NoCode /\ i \notin old
    /\ old' = old \cup {i} /\ kept' = [kept EXCEPT ![i] = 0]
    /\ come' = [v \in Visitors |->
                  IF come[v].pc \in {"found", "read"} /\ come[v].id = i
                  THEN [come[v] EXCEPT !.due = 0] ELSE come[v]]
    /\ UNCHANGED <<rows, has, dirs, file, gc, desk, used, sent>>

\* The sweep zeroes and removes the files it listed, removes the directory,
\* which a file written since keeps it from, and deletes the row.
Sweep(i) ==
    /\ gc.pc = "idle" /\ i \in old
    /\ gc' = [pc |-> "zero", id |-> i]
    /\ UNCHANGED <<store, desk, come, ghosts>>

ZeroReply ==
    /\ gc.pc = "zero"
    /\ IF file[gc.id].is = "none"
       THEN UNCHANGED file
       ELSE file' = [file EXCEPT ![gc.id] = Not("junk", gc.id)]
    /\ gc' = [gc EXCEPT !.pc = IF file[gc.id].is = "none" THEN "rmdir" ELSE "unlink"]
    /\ UNCHANGED <<rows, has, old, dirs, desk, come, ghosts>>

UnlinkReply ==
    /\ gc.pc = "unlink"
    /\ file' = [file EXCEPT ![gc.id] = Not("none", gc.id)]
    /\ gc' = [gc EXCEPT !.pc = "rmdir"]
    /\ desk' = [r \in Receivers |->
                  IF desk[r].pc = "opened" /\ desk[r].id = gc.id
                  THEN [desk[r] EXCEPT !.linked = FALSE] ELSE desk[r]]
    /\ UNCHANGED <<rows, has, old, dirs, come, ghosts>>

RemoveDir ==
    /\ gc.pc = "rmdir"
    /\ IF file[gc.id].is = "none"
       THEN dirs' = dirs \ {gc.id} /\ gc' = [gc EXCEPT !.pc = "row"]
       ELSE UNCHANGED dirs /\ gc' = [pc |-> "idle"]
    /\ UNCHANGED <<rows, has, old, file, desk, come, ghosts>>

DeleteRow ==
    /\ gc.pc = "row"
    /\ rows' = [rows EXCEPT ![gc.id] = NoCode]
    /\ has' = has \ {gc.id} /\ old' = old \ {gc.id}
    /\ gc' = [pc |-> "idle"]
    /\ UNCHANGED <<dirs, file, desk, come, ghosts>>

-----------------------------------------------------------------------------
(* handleAdminReply.  A receiver knows the codes given out so far.         *)

Step(r, pc) == desk' = [desk EXCEPT ![r].pc = pc]
Ends(r)     == desk' = [desk EXCEPT ![r] = Cut]
NoStore     == UNCHANGED <<store, gc, come, ghosts>>

\* The first GetCase, of the id in the path.
PostReply(r, i, c) ==
    /\ desk[r].pc = "idle" /\ Len(sent) < MaxTexts
    /\ rows[i] # NoCode /\ c \in used
    /\ sent' = Append(sent, rows[i])
    /\ desk' = [desk EXCEPT ![r] = [pc |-> "got", id |-> i, code |-> c,
                                    text |-> Len(sent'), alone |-> TRUE, linked |-> TRUE]]
    /\ UNCHANGED <<store, gc, come, used, kept>>

\* Any code that some case has will do.
BugMatch(r) == /\ desk[r].pc = "got"
               /\ Found(desk[r].code) # {}
               /\ Step(r, "matched") /\ NoStore

\* The code must find the very case of the path.
Match(r) == /\ desk[r].pc = "got"
            /\ Found(desk[r].code) = {desk[r].id}
            /\ Step(r, "matched") /\ NoStore

NoMatch(r) == /\ desk[r].pc = "got"
              /\ Found(desk[r].code) # {desk[r].id}
              /\ Ends(r) /\ NoStore

\* The second GetCase, in WriteReply.
CheckCase(r) == /\ desk[r].pc = "matched"
                /\ IF rows[desk[r].id] # NoCode THEN Step(r, "checked") ELSE Ends(r)
                /\ NoStore

\* Another post that is between its opening of i's file and its end.
Beside(r, i) == {q \in Receivers \ {r} :
                    desk[q].pc \in {"opened", "written"} /\ desk[q].id = i}

\* The file is being rewritten: who reads it may find anything in it.
OpenReply(r) ==
    LET i == desk[r].id
    IN  /\ desk[r].pc = "checked" /\ i \in dirs
        /\ file' = [file EXCEPT ![i] = Not("empty", i)]
        /\ desk' = [q \in Receivers |->
                      IF q = r THEN [desk[r] EXCEPT !.pc = "opened", !.alone = Beside(r, i) = {}]
                      ELSE IF q \in Beside(r, i) THEN [desk[q] EXCEPT !.alone = FALSE]
                      ELSE desk[q]]
        /\ kept' = [kept EXCEPT ![i] = 0]
        /\ come' = [v \in Visitors |->
                      IF come[v].pc \in {"found", "read"} /\ come[v].id = i
                      THEN [come[v] EXCEPT !.due = 0] ELSE come[v]]
        /\ UNCHANGED <<rows, has, old, dirs, gc, used, sent>>

OpenFails(r) == /\ desk[r].pc = "checked"
                /\ Ends(r) /\ NoStore

\* Bytes for a file that has been unlinked are lost; bytes over what another
\* post has written, or the sweep, may leave a tail of it.
WriteReply(r) ==
    LET i == desk[r].id
        s == Sealed(desk[r].code, i, desk[r].text)
    IN  /\ desk[r].pc = "opened"
        /\ \/ ~desk[r].linked /\ UNCHANGED file
           \/ desk[r].linked /\ file' = [file EXCEPT ![i] = s]
           \/ /\ desk[r].linked /\ file[i].is # "empty"
              /\ file' = [file EXCEPT ![i] = Not("junk", i)]
        /\ Step(r, "written")
        /\ UNCHANGED <<rows, has, old, dirs, gc, come, ghosts>>

WriteFails(r) == /\ desk[r].pc = "opened"
                 /\ IF ~desk[r].linked THEN UNCHANGED file
                    ELSE \E is \in {"empty", "junk"} :
                           file' = [file EXCEPT ![desk[r].id] = Not(is, desk[r].id)]
                 /\ Ends(r)
                 /\ UNCHANGED <<rows, has, old, dirs, gc, come, ghosts>>

\* The flag is set with or without a row.
BugMarkReplied(r) ==
    LET i == desk[r].id
    IN  /\ desk[r].pc = "written"
        /\ has' = has \cup {i}
        /\ kept' = IF desk[r].alone /\ rows[i] = sent[desk[r].text] /\ i \notin old
                   THEN [kept EXCEPT ![i] = desk[r].text] ELSE kept
        /\ Ends(r)
        /\ UNCHANGED <<rows, old, dirs, file, gc, come, used, sent>>

\* The UPDATE, which may meet no row, and the page that says "saved".
MarkReplied(r) ==
    LET i == desk[r].id
    IN  /\ desk[r].pc = "written"
        /\ has' = IF rows[i] # NoCode THEN has \cup {i} ELSE has
        /\ kept' = IF desk[r].alone /\ rows[i] = sent[desk[r].text] /\ i \notin old
                   THEN [kept EXCEPT ![i] = desk[r].text] ELSE kept
        /\ Ends(r)
        /\ UNCHANGED <<rows, old, dirs, file, gc, come, used, sent>>

MarkFails(r) == /\ desk[r].pc = "written"
                /\ Ends(r) /\ NoStore

-----------------------------------------------------------------------------
(* handleReply.  due: the reply this visit must show.                      *)

Blank(c, i) == [pc |-> "found", code |-> c, id |-> i, blob |-> Not("none", i),
                said |-> "", text |-> 0, due |-> 0]

\* FindCaseByCode, which finds an expired case as well.
FindCase(v, c) ==
    /\ come[v].pc \in {"idle", "done"} /\ c \in used
    /\ \/ Found(c) = {} /\ come' = [come EXCEPT ![v] = Cut]
       \/ \E i \in Found(c) : come' = [come EXCEPT ![v] = [Blank(c, i) EXCEPT !.due = kept[i]]]
    /\ UNCHANGED <<store, gc, desk, ghosts>>

ReadReply(v) ==
    LET me == come[v]
    IN  /\ me.pc = "found"
        /\ come' = [come EXCEPT ![v] =
              IF file[me.id].is = "none" THEN [me EXCEPT !.pc = "done", !.said = "verified"]
              ELSE [me EXCEPT !.pc = "read", !.blob = file[me.id]]]
        /\ UNCHANGED <<store, gc, desk, ghosts>>

\* GetCase, DecryptSymmetric, and the page.
Answer(v) ==
    LET me == come[v]
    IN  /\ me.pc = "read"
        /\ come' = [come EXCEPT ![v] =
              IF rows[me.id] # NoCode /\ me.blob = Sealed(me.code, me.id, me.blob.text)
              THEN [me EXCEPT !.pc = "done", !.said = "has-reply", !.text = me.blob.text]
              ELSE [me EXCEPT !.pc = "done", !.said = "verified"]]
        /\ UNCHANGED <<store, gc, desk, ghosts>>

-----------------------------------------------------------------------------
\* The server is stopped or killed, and started again.
Restart == /\ gc' = [pc |-> "idle"]
           /\ desk' = [r \in Receivers |-> Cut] /\ come' = [v \in Visitors |-> Cut]
           /\ UNCHANGED <<store, ghosts>>

Cases   == \E i \in Ids : Create(i) \/ Expire(i) \/ Sweep(i)
Shred   == ZeroReply \/ UnlinkReply \/ RemoveDir \/ DeleteRow
Desk(r) == \/ \E i \in Ids, c \in Codes : PostReply(r, i, c)
           \/ Match(r) \/ NoMatch(r) \/ CheckCase(r)
           \/ OpenReply(r) \/ OpenFails(r) \/ WriteReply(r) \/ WriteFails(r)
           \/ MarkReplied(r) \/ MarkFails(r)
Visit(v) == \/ \E c \in Codes : FindCase(v, c)
            \/ ReadReply(v) \/ Answer(v)

Next == \/ Cases \/ Shred \/ Restart
        \/ \E r \in Receivers : Desk(r)
        \/ \E v \in Visitors : Visit(v)

Spec == Init /\ [][Next]_vars

-----------------------------------------------------------------------------
(* What the module promises.                                               *)

TypeOK ==
    /\ rows \in [Ids -> Codes \cup {NoCode}]
    /\ has \subseteq Ids /\ old \subseteq Ids /\ dirs \subseteq Ids
    /\ file \in [Ids -> File]
    /\ gc \in [pc: {"idle"}] \cup [pc: {"zero", "unlink", "rmdir", "row"}, id: Ids]
    /\ desk \in [Receivers -> {Cut} \cup Posts]
    /\ come \in [Visitors -> {Cut} \cup Answers]
    /\ used \subseteq Codes /\ sent \in Seq(Codes) /\ Len(sent) <= MaxTexts
    /\ kept \in [Ids -> 0..MaxTexts]
    /\ \A i \in Ids : file[i].is # "none" => i \in dirs
    /\ \A i \in has \cup old : rows[i] # NoCode

\* The visitor is shown the reply to his own case and no other: not even when
\* a post that has passed its checks writes after the case was swept and its
\* id drawn again, for the key is made of the code too.
OwnReplyOnly ==
    \A v \in Visitors : come[v].pc = "done" /\ come[v].said = "has-reply" =>
        sent[come[v].text] = come[v].code

\* What the receiver was told is saved reaches the visitor: a visit that
\* begins later shows it, whatever other posts were refused, sweeps and
\* restarts came in between, unless the case expires or another post touches
\* the same file first.
SavedReaches ==
    \A v \in Visitors : come[v].pc = "done" /\ come[v].due # 0 =>
        come[v].said = "has-reply" /\ come[v].text = come[v].due
=============================================================================
