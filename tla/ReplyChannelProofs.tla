------------------------- MODULE ReplyChannelProofs -------------------------
(***************************************************************************)
(* Proofs about ReplyChannel for any sets of ids, codes, receivers and     *)
(* visitors: a visitor is shown the reply to his own case and no other,    *)
(* and the reply a receiver was told is saved.                             *)
(***************************************************************************)
EXTENDS ReplyChannel, SequenceTheorems, TLAPS

\* r has reply.bin of its case open, or has just written it.
AtFile(r) == desk[r].pc \in {"opened", "written"}

\* A case that has not expired, under the code it was given.
Current(i, c) == rows[i] = c /\ i \notin old

SealedFor(f) == f.is = "sealed" => f.text \in 1..Len(sent) /\ sent[f.text] = f.code

\* Codes are given out once, and a sweep works on an expired case.
StoreOK ==
    /\ \A i \in Ids : rows[i] # NoCode => rows[i] \in used
    /\ \A i \in Ids, j \in Ids : rows[i] = rows[j] /\ rows[i] # NoCode => i = j
    /\ gc.pc # "idle" => gc.id \in old
    /\ gc.pc = "row" => gc.id \notin dirs

\* A post that has found its case answers the case of its page.
PostOK(r) ==
    desk[r].pc # "idle" =>
        /\ desk[r].code \in used /\ desk[r].text \in 1..Len(sent)
        /\ desk[r].linked \/ AtFile(r)
        /\ \/ desk[r].code = sent[desk[r].text]
           \/ desk[r].pc = "got" /\ rows[desk[r].id] # desk[r].code

\* A post that is alone on the file of a current case finds it as it left it.
FileOK(r) ==
    AtFile(r) =>
        /\ desk[r].alone => \A q \in Receivers \ {r} : AtFile(q) => desk[q].id # desk[r].id
        /\ desk[r].pc = "opened" /\ desk[r].linked => file[desk[r].id].is # "none"
        /\ desk[r].pc = "opened" /\ ~desk[r].linked => ~Current(desk[r].id, desk[r].code)
        /\ desk[r].alone /\ Current(desk[r].id, desk[r].code) =>
              /\ desk[r].pc = "opened" => file[desk[r].id].is = "empty"
              /\ desk[r].pc = "written" =>
                    file[desk[r].id] = Sealed(desk[r].code, desk[r].id, desk[r].text)

\* What is kept lies in the file, and nobody has the file open.
KeptOK(i) ==
    kept[i] # 0 =>
        /\ rows[i] # NoCode /\ i \notin old
        /\ file[i] = Sealed(rows[i], i, kept[i])
        /\ \A r \in Receivers : AtFile(r) => desk[r].id # i

\* A visit that must show a reply has it in reach, in hand, or has shown it.
VisitOK(v) ==
    /\ come[v].pc \in {"found", "read"} /\ come[v].due # 0 =>
          kept[come[v].id] = come[v].due /\ rows[come[v].id] = come[v].code
    /\ come[v].pc = "read" =>
          /\ SealedFor(come[v].blob)
          /\ come[v].due # 0 => come[v].blob = Sealed(come[v].code, come[v].id, come[v].due)
    /\ come[v].pc = "done" =>
          /\ come[v].due # 0 => come[v].said = "has-reply" /\ come[v].text = come[v].due
          /\ come[v].said = "has-reply" =>
                come[v].text \in 1..Len(sent) /\ sent[come[v].text] = come[v].code

ReplyInv ==
    /\ TypeOK /\ StoreOK
    /\ \A i \in Ids : SealedFor(file[i]) /\ KeptOK(i)
    /\ \A r \in Receivers : PostOK(r) /\ FileOK(r)
    /\ \A v \in Visitors : VisitOK(v)

-----------------------------------------------------------------------------
(* The types.                                                              *)

(* What the handlers and the sweep put into reply.bin.                       *)
LEMMA FileTypes ==
    /\ \A i \in Ids, is \in {"none", "empty", "junk"} : Not(is, i) \in File
    /\ \A i \in Ids, c \in Codes, n \in 0..MaxTexts : Sealed(c, i, n) \in File
BY ReplyAssumption DEF File, Not, Sealed

(* A post that is under way, and a visit, have all their fields.             *)
LEMMA UnderWay ==
    ASSUME TypeOK
    PROVE  /\ \A r \in Receivers : desk[r].pc # "idle" => desk[r] \in Posts
           /\ \A v \in Visitors : come[v].pc # "idle" => come[v] \in Answers
BY DEF TypeOK, Cut

(* A post moves on, loses its file, or is joined by another.                 *)
LEMMA PostMoves ==
    ASSUME NEW p \in Posts, NEW b \in BOOLEAN
    PROVE  /\ \A pc \in {"matched", "checked", "written"} : [p EXCEPT !.pc = pc] \in Posts
           /\ [p EXCEPT !.linked = FALSE] \in Posts
           /\ [p EXCEPT !.alone = FALSE] \in Posts
           /\ [p EXCEPT !.pc = "opened", !.alone = b] \in Posts
BY DEF Posts

\* The steps of a post that look at the store and leave it alone.
Waits(r) == Match(r) \/ NoMatch(r) \/ CheckCase(r) \/ OpenFails(r) \/ MarkFails(r)

(* Such a step lets a post on or ends it; Match has found the code's case.   *)
LEMMA Waiting ==
    ASSUME TypeOK, NEW r \in Receivers, Waits(r)
    PROVE  /\ NoStore /\ desk[r].pc # "idle"
           /\ desk' \in [Receivers -> {Cut} \cup Posts]
           /\ \A q \in Receivers \ {r} : desk'[q] = desk[q]
           /\ \/ desk'[r] = Cut
              \/ /\ desk'[r].id = desk[r].id /\ desk'[r].code = desk[r].code
                 /\ desk'[r].text = desk[r].text /\ desk'[r].linked = desk[r].linked
                 /\ ~AtFile(r)
                 /\ \/ desk'[r].pc = "matched" /\ rows[desk[r].id] = desk[r].code
                    \/ desk'[r].pc = "checked" /\ desk[r].pc = "matched"
<1>1. desk \in [Receivers -> {Cut} \cup Posts]
  BY DEF TypeOK
<1>2. desk[r] \in Posts /\ desk[r].id \in Ids
  BY UnderWay DEF Waits, Match, NoMatch, CheckCase, OpenFails, MarkFails, Posts
<1>3. CASE Match(r)
  BY <1>1, <1>2, <1>3 DEF Match, Found, Step, NoStore, AtFile, Posts
<1>4. CASE CheckCase(r) /\ rows[desk[r].id] # NoCode
  BY <1>1, <1>2, <1>4 DEF CheckCase, Step, NoStore, AtFile, Posts
<1>5. CASE \/ NoMatch(r) \/ OpenFails(r) \/ MarkFails(r)
           \/ CheckCase(r) /\ rows[desk[r].id] = NoCode
  BY <1>1, <1>2, <1>5 DEF NoMatch, OpenFails, MarkFails, CheckCase, Ends, NoStore
<1> QED
  BY <1>3, <1>4, <1>5 DEF Waits

(* Posts stay posts.                                                         *)
LEMMA DeskTypes == TypeOK /\ [Next]_vars => (desk \in [Receivers -> {Cut} \cup Posts])'
<1> SUFFICES ASSUME TypeOK, [Next]_vars PROVE desk' \in [Receivers -> {Cut} \cup Posts]
  OBVIOUS
<1>a. desk \in [Receivers -> {Cut} \cup Posts]
  BY DEF TypeOK
<1>b. \A r \in Receivers : desk[r].pc # "idle" => desk[r] \in Posts
  BY UnderWay
<1> USE <1>a, <1>b
<1>1. CASE Cases
  BY <1>1 DEF Cases, Create, Expire, Sweep, store, ghosts
<1>2. CASE ZeroReply
  BY <1>2 DEF ZeroReply, ghosts
<1>3. CASE UnlinkReply
  BY <1>3, PostMoves DEF UnlinkReply, ghosts
<1>4. CASE RemoveDir
  BY <1>4 DEF RemoveDir, ghosts
<1>5. CASE DeleteRow
  BY <1>5 DEF DeleteRow, ghosts
<1>6. ASSUME NEW r \in Receivers, NEW i \in Ids, NEW c \in Codes, PostReply(r, i, c)
      PROVE  desk' \in [Receivers -> {Cut} \cup Posts]
  <2>1. sent \in Seq(Codes) /\ rows[i] \in Codes
    BY <1>6 DEF PostReply, TypeOK
  <2>2. Len(sent') \in Texts
    BY <2>1, <1>6, ReplyAssumption, AppendProperties, LenProperties DEF PostReply, Texts
  <2>3. [pc |-> "got", id |-> i, code |-> c, text |-> Len(sent'), alone |-> TRUE, linked |-> TRUE]
           \in Posts
    BY <2>2 DEF Posts
  <2> QED
    BY <1>6, <2>3 DEF PostReply
<1>7. ASSUME NEW r \in Receivers, Waits(r)
      PROVE  desk' \in [Receivers -> {Cut} \cup Posts]
  BY <1>7, Waiting DEF NoStore, store, ghosts
<1>8. ASSUME NEW r \in Receivers, OpenReply(r)
      PROVE  desk' \in [Receivers -> {Cut} \cup Posts]
  <2>1. PICK b \in BOOLEAN : b = (Beside(r, desk[r].id) = {})
    OBVIOUS
  <2>2. desk[r] \in Posts /\ \A q \in Beside(r, desk[r].id) : desk[q] \in Posts
    BY <1>8 DEF OpenReply, Beside
  <2>3. [desk[r] EXCEPT !.pc = "opened", !.alone = b] \in Posts
    BY <2>2, PostMoves
  <2>4. \A q \in Beside(r, desk[r].id) : [desk[q] EXCEPT !.alone = FALSE] \in Posts
    BY <2>2, PostMoves
  <2> QED
    BY <1>8, <2>1, <2>3, <2>4 DEF OpenReply
<1>9. ASSUME NEW r \in Receivers, WriteReply(r)
      PROVE  desk' \in [Receivers -> {Cut} \cup Posts]
  BY <1>9, PostMoves DEF WriteReply, Step, ghosts
<1>10. ASSUME NEW r \in Receivers, WriteFails(r)
       PROVE  desk' \in [Receivers -> {Cut} \cup Posts]
  BY <1>10 DEF WriteFails, Ends, ghosts
<1>11. ASSUME NEW r \in Receivers, MarkReplied(r)
       PROVE  desk' \in [Receivers -> {Cut} \cup Posts]
  BY <1>11 DEF MarkReplied, Ends
<1>12. ASSUME NEW v \in Visitors, Visit(v)
       PROVE  desk' \in [Receivers -> {Cut} \cup Posts]
  BY <1>12 DEF Visit, FindCase, ReadReply, Answer, store, ghosts
<1>13. CASE Restart
  BY <1>13 DEF Restart, store, ghosts
<1>14. CASE UNCHANGED vars
  BY <1>14 DEF vars
<1> QED
  BY <1>1, <1>2, <1>3, <1>4, <1>5, <1>6, <1>7, <1>8, <1>9, <1>10, <1>11,
     <1>12, <1>13, <1>14 DEF Next, Desk, Waits, Shred

(* A visit reads the file, or must show less than it had to.                 *)
LEMMA AnswerMoves ==
    ASSUME NEW a \in Answers, NEW f \in File
    PROVE  /\ [a EXCEPT !.pc = "read", !.blob = f] \in Answers
           /\ [a EXCEPT !.pc = "done", !.said = "verified"] \in Answers
           /\ [a EXCEPT !.pc = "done", !.said = "has-reply", !.text = a.blob.text] \in Answers
BY ReplyAssumption DEF Answers, File

(* What a visit must show may lapse.                                         *)
LEMMA AnswerDue ==
    ASSUME NEW a \in Answers
    PROVE  [a EXCEPT !.due = 0] \in Answers
<1>1. 0 \in 0..MaxTexts
  BY ReplyAssumption
<1> QED
  BY <1>1 DEF Answers

(* Visits stay visits.                                                       *)
LEMMA ComeTypes == TypeOK /\ [Next]_vars => (come \in [Visitors -> {Cut} \cup Answers])'
<1> SUFFICES ASSUME TypeOK, [Next]_vars PROVE come' \in [Visitors -> {Cut} \cup Answers]
  OBVIOUS
<1>a. come \in [Visitors -> {Cut} \cup Answers]
  BY DEF TypeOK
<1>b. \A v \in Visitors : come[v].pc # "idle" => come[v] \in Answers
  BY UnderWay
<1> USE <1>a, <1>b
<1>1. ASSUME NEW i \in Ids, Create(i)
      PROVE  come' \in [Visitors -> {Cut} \cup Answers]
  BY <1>1 DEF Create
<1>2. ASSUME NEW i \in Ids, Expire(i)
      PROVE  come' \in [Visitors -> {Cut} \cup Answers]
  BY <1>2, AnswerDue DEF Expire
<1>3. ASSUME NEW i \in Ids, Sweep(i)
      PROVE  come' \in [Visitors -> {Cut} \cup Answers]
  BY <1>3 DEF Sweep, store, ghosts
<1>4. CASE Shred
  BY <1>4 DEF Shred, ZeroReply, UnlinkReply, RemoveDir, DeleteRow, ghosts
<1>5. ASSUME NEW r \in Receivers, NEW i \in Ids, NEW c \in Codes, PostReply(r, i, c)
      PROVE  come' \in [Visitors -> {Cut} \cup Answers]
  BY <1>5 DEF PostReply, store
<1>6. ASSUME NEW r \in Receivers, Waits(r)
      PROVE  come' \in [Visitors -> {Cut} \cup Answers]
  BY <1>6, Waiting DEF NoStore, store, ghosts
<1>7. ASSUME NEW r \in Receivers, OpenReply(r)
      PROVE  come' \in [Visitors -> {Cut} \cup Answers]
  BY <1>7, AnswerDue DEF OpenReply
<1>8. ASSUME NEW r \in Receivers, WriteReply(r)
      PROVE  come' \in [Visitors -> {Cut} \cup Answers]
  BY <1>8 DEF WriteReply, ghosts
<1>9. ASSUME NEW r \in Receivers, WriteFails(r)
      PROVE  come' \in [Visitors -> {Cut} \cup Answers]
  BY <1>9 DEF WriteFails, ghosts
<1>10. ASSUME NEW r \in Receivers, MarkReplied(r)
       PROVE  come' \in [Visitors -> {Cut} \cup Answers]
  BY <1>10 DEF MarkReplied
<1>11. ASSUME NEW v \in Visitors, NEW c \in Codes, FindCase(v, c)
       PROVE  come' \in [Visitors -> {Cut} \cup Answers]
  <2>1. kept \in [Ids -> 0..MaxTexts]
    BY DEF TypeOK
  <2>2. ASSUME NEW i \in Ids PROVE [Blank(c, i) EXCEPT !.due = kept[i]] \in Answers
    <3>1. Not("none", i) \in File /\ kept[i] \in 0..MaxTexts /\ 0 \in 0..MaxTexts
      BY <2>1, FileTypes, ReplyAssumption
    <3>2. Blank(c, i) \in Answers
      BY <3>1 DEF Answers, Blank
    <3> QED
      BY <3>1, <3>2 DEF Answers
  <2> QED
    BY <1>11, <2>2 DEF FindCase, Found
<1>12. ASSUME NEW v \in Visitors, ReadReply(v)
       PROVE  come' \in [Visitors -> {Cut} \cup Answers]
  <2>1. come[v] \in Answers
    BY <1>12 DEF ReadReply
  <2>2. file[come[v].id] \in File
    BY <2>1 DEF TypeOK, Answers
  <2>3. \/ come' = [come EXCEPT ![v] = [come[v] EXCEPT !.pc = "done", !.said = "verified"]]
        \/ come' = [come EXCEPT ![v] = [come[v] EXCEPT !.pc = "read", !.blob = file[come[v].id]]]
    <3>1. CASE file[come[v].id].is = "none"
      BY <1>12, <3>1 DEF ReadReply
    <3>2. CASE file[come[v].id].is # "none"
      BY <1>12, <3>2 DEF ReadReply
    <3> QED
      BY <3>1, <3>2
  <2>4. /\ [come[v] EXCEPT !.pc = "done", !.said = "verified"] \in Answers
        /\ [come[v] EXCEPT !.pc = "read", !.blob = file[come[v].id]] \in Answers
    BY <2>1, <2>2, AnswerMoves
  <2> QED
    BY <2>3, <2>4
<1>13. ASSUME NEW v \in Visitors, Answer(v)
       PROVE  come' \in [Visitors -> {Cut} \cup Answers]
  <2>1. come[v] \in Answers /\ come[v].blob \in File
    BY <1>13 DEF Answer, Answers
  <2> QED
    BY <1>13, <2>1, AnswerMoves DEF Answer
<1>14. CASE Restart
  BY <1>14 DEF Restart, store, ghosts
<1>15. CASE UNCHANGED vars
  BY <1>15 DEF vars
<1> QED
  BY <1>1, <1>2, <1>3, <1>4, <1>5, <1>6, <1>7, <1>8, <1>9, <1>10, <1>11,
     <1>12, <1>13, <1>14, <1>15 DEF Next, Desk, Waits, Cases, Visit

\* The types of all but the posts and visits.
StoreTypes ==
    /\ rows \in [Ids -> Codes \cup {NoCode}]
    /\ has \subseteq Ids /\ old \subseteq Ids /\ dirs \subseteq Ids
    /\ file \in [Ids -> File]
    /\ gc \in [pc: {"idle"}] \cup [pc: {"zero", "unlink", "rmdir", "row"}, id: Ids]
    /\ used \subseteq Codes /\ sent \in Seq(Codes) /\ Len(sent) <= MaxTexts
    /\ kept \in [Ids -> 0..MaxTexts]
    /\ \A i \in Ids : file[i].is # "none" => i \in dirs
    /\ \A i \in has \cup old : rows[i] # NoCode

(* No reply file without a directory, no flag without a row: a post that has *)
(* the file open, and has not lost it, keeps the sweep from removing the     *)
(* directory.                                                                *)
LEMMA NextStoreTypes == ReplyInv /\ [Next]_vars => StoreTypes'
<1> SUFFICES ASSUME ReplyInv, [Next]_vars PROVE StoreTypes'
  OBVIOUS
<1>a. TypeOK /\ StoreTypes
  BY DEF ReplyInv, TypeOK, StoreTypes
<1>b. \A r \in Receivers :
         desk[r].pc # "idle" =>
            /\ desk[r].id \in Ids /\ desk[r].code \in Codes /\ desk[r].text \in 0..MaxTexts
            /\ desk[r].pc = "opened" /\ desk[r].linked => file[desk[r].id].is # "none"
  BY UnderWay, ReplyAssumption DEF ReplyInv, FileOK, AtFile, Posts, Texts
<1>c. /\ \A i \in Ids : Not("none", i).is = "none" /\ Not("none", i) \in File
                        /\ Not("empty", i) \in File /\ Not("junk", i) \in File
      /\ \A i \in Ids, c \in Codes, n \in 0..MaxTexts : Sealed(c, i, n) \in File
  BY FileTypes DEF Not
<1> USE <1>a, <1>b, <1>c, ReplyAssumption DEF StoreTypes
<1>1. ASSUME NEW i \in Ids, Create(i) PROVE StoreTypes'
  BY <1>1 DEF Create
<1>2. ASSUME NEW i \in Ids, Expire(i) PROVE StoreTypes'
  BY <1>2 DEF Expire
<1>3. ASSUME NEW i \in Ids, Sweep(i) PROVE StoreTypes'
  BY <1>3 DEF Sweep, store, ghosts
<1>4. CASE ZeroReply
  BY <1>4 DEF ZeroReply, ghosts
<1>5. CASE UnlinkReply
  BY <1>5 DEF UnlinkReply, ghosts
<1>6. CASE RemoveDir
  BY <1>6 DEF RemoveDir, ghosts
<1>7. CASE DeleteRow
  BY <1>7 DEF DeleteRow, ghosts
<1>8. ASSUME NEW r \in Receivers, NEW i \in Ids, NEW c \in Codes, PostReply(r, i, c)
      PROVE  StoreTypes'
  <2>1. rows[i] \in Codes
    BY <1>8 DEF PostReply
  <2>2. Append(sent, rows[i]) \in Seq(Codes) /\ Len(Append(sent, rows[i])) = Len(sent) + 1
    BY <2>1, AppendProperties
  <2> QED
    BY <1>8, <2>2, LenProperties DEF PostReply, store
<1>9. ASSUME NEW r \in Receivers, Waits(r) PROVE StoreTypes'
  BY <1>9, Waiting DEF NoStore, store, ghosts
<1>10. ASSUME NEW r \in Receivers, OpenReply(r) PROVE StoreTypes'
  <2>1. /\ file' = [file EXCEPT ![desk[r].id] = Not("empty", desk[r].id)]
        /\ kept' = [kept EXCEPT ![desk[r].id] = 0]
        /\ desk[r].id \in Ids /\ desk[r].id \in dirs
        /\ UNCHANGED <<rows, has, old, dirs, gc, used, sent>>
    BY <1>10 DEF OpenReply
  <2> QED
    BY <2>1
<1>11. ASSUME NEW r \in Receivers, WriteReply(r) PROVE StoreTypes'
  <2>1. /\ \/ UNCHANGED file
           \/ /\ file[desk[r].id].is # "none"
              /\ \E f \in File : file' = [file EXCEPT ![desk[r].id] = f]
        /\ desk[r].id \in Ids
        /\ UNCHANGED <<rows, has, old, dirs, gc, used, sent, kept>>
    BY <1>11 DEF WriteReply, ghosts
  <2>2. CASE UNCHANGED file
    BY <2>1, <2>2
  <2>3. ASSUME NEW f \in File, file[desk[r].id].is # "none",
               file' = [file EXCEPT ![desk[r].id] = f]
        PROVE  StoreTypes'
    <3>1. /\ file' \in [Ids -> File]
          /\ \A i \in Ids : file'[i].is # "none" => i \in dirs
      BY <2>1, <2>3
    <3> QED
      BY <2>1, <3>1
  <2> QED
    BY <2>1, <2>2, <2>3
<1>12. ASSUME NEW r \in Receivers, WriteFails(r) PROVE StoreTypes'
  <2>1. /\ \/ UNCHANGED file
           \/ /\ file[desk[r].id].is # "none"
              /\ \E f \in File : file' = [file EXCEPT ![desk[r].id] = f]
        /\ desk[r].id \in Ids
        /\ UNCHANGED <<rows, has, old, dirs, gc, used, sent, kept>>
    BY <1>12 DEF WriteFails, ghosts
  <2>2. CASE UNCHANGED file
    BY <2>1, <2>2
  <2>3. ASSUME NEW f \in File, file[desk[r].id].is # "none",
               file' = [file EXCEPT ![desk[r].id] = f]
        PROVE  StoreTypes'
    <3>1. /\ file' \in [Ids -> File]
          /\ \A i \in Ids : file'[i].is # "none" => i \in dirs
      BY <2>1, <2>3
    <3> QED
      BY <2>1, <3>1
  <2> QED
    BY <2>1, <2>2, <2>3
<1>13. ASSUME NEW r \in Receivers, MarkReplied(r) PROVE StoreTypes'
  BY <1>13 DEF MarkReplied
<1>14. ASSUME NEW v \in Visitors, Visit(v) PROVE StoreTypes'
  BY <1>14 DEF Visit, FindCase, ReadReply, Answer, store, ghosts
<1>15. CASE Restart
  BY <1>15 DEF Restart, store, ghosts
<1>16. CASE UNCHANGED vars
  BY <1>16 DEF vars
<1> QED
  BY <1>1, <1>2, <1>3, <1>4, <1>5, <1>6, <1>7, <1>8, <1>9, <1>10, <1>11,
     <1>12, <1>13, <1>14, <1>15, <1>16 DEF Next, Desk, Waits, Cases, Shred

(* The types.                                                                *)
LEMMA NextTypes == ReplyInv /\ [Next]_vars => TypeOK'
BY NextStoreTypes, DeskTypes, ComeTypes DEF ReplyInv, TypeOK, StoreTypes

-----------------------------------------------------------------------------
(* What a step may change.                                                   *)

(* A case that is current under a code given out was so before, since a code *)
(* is drawn once and a row comes back only under a new one.                  *)
LEMMA LiveBack ==
    ASSUME ReplyInv, [Next]_vars, NEW j \in Ids, NEW d \in used
    PROVE  /\ d \in used'
           /\ rows'[j] = d => rows[j] = d
           /\ rows'[j] = d /\ j \notin old' => j \notin old
<1> DEFINE Goal == /\ d \in used'
                   /\ rows'[j] = d => rows[j] = d
                   /\ rows'[j] = d /\ j \notin old' => j \notin old
<1>a. /\ TypeOK /\ rows \in [Ids -> Codes \cup {NoCode}] /\ old \subseteq Ids /\ d # NoCode
      /\ \A i \in old : rows[i] # NoCode
      /\ gc.pc = "row" => gc.id \in Ids
  BY ReplyAssumption DEF ReplyInv, TypeOK
<1> SUFFICES Goal
  OBVIOUS
<1> USE <1>a
<1>1. CASE Cases
  BY <1>1 DEF Cases, Create, Expire, Sweep, store, ghosts
<1>2. CASE Shred
  BY <1>2 DEF Shred, ZeroReply, UnlinkReply, RemoveDir, DeleteRow, ghosts
<1>3. ASSUME NEW r \in Receivers, NEW i \in Ids, NEW c \in Codes, PostReply(r, i, c)
      PROVE  Goal
  BY <1>3 DEF PostReply, store
<1>4. ASSUME NEW r \in Receivers, Waits(r) PROVE Goal
  BY <1>4, Waiting DEF NoStore, store, ghosts
<1>5. ASSUME NEW r \in Receivers, OpenReply(r) PROVE Goal
  BY <1>5 DEF OpenReply
<1>6. ASSUME NEW r \in Receivers, WriteReply(r) PROVE Goal
  BY <1>6 DEF WriteReply, ghosts
<1>7. ASSUME NEW r \in Receivers, WriteFails(r) PROVE Goal
  BY <1>7 DEF WriteFails, ghosts
<1>8. ASSUME NEW r \in Receivers, MarkReplied(r) PROVE Goal
  BY <1>8 DEF MarkReplied
<1>9. ASSUME NEW v \in Visitors, Visit(v) PROVE Goal
  BY <1>9 DEF Visit, FindCase, ReadReply, Answer, store, ghosts
<1>10. CASE Restart
  BY <1>10 DEF Restart, store, ghosts
<1>11. CASE UNCHANGED vars
  BY <1>11 DEF vars
<1> QED
  BY <1>1, <1>2, <1>3, <1>4, <1>5, <1>6, <1>7, <1>8, <1>9, <1>10,
     <1>11 DEF Next, Desk, Waits

(* Texts are sent once and keep the case they answer.                        *)
LEMMA TextsStay ==
    ASSUME ReplyInv, [Next]_vars, NEW n \in 1..Len(sent)
    PROVE  n \in 1..Len(sent') /\ sent'[n] = sent[n]
<1> DEFINE Goal == n \in 1..Len(sent') /\ sent'[n] = sent[n]
<1>a. TypeOK /\ rows \in [Ids -> Codes \cup {NoCode}] /\ sent \in Seq(Codes) /\ Len(sent) \in Nat
  BY LenProperties DEF ReplyInv, TypeOK
<1> SUFFICES Goal
  OBVIOUS
<1> USE <1>a
<1>1. CASE Cases
  BY <1>1 DEF Cases, Create, Expire, Sweep, store, ghosts
<1>2. CASE Shred
  BY <1>2 DEF Shred, ZeroReply, UnlinkReply, RemoveDir, DeleteRow, ghosts
<1>3. ASSUME NEW r \in Receivers, NEW i \in Ids, NEW c \in Codes, PostReply(r, i, c)
      PROVE  Goal
  <2>1. rows[i] \in Codes
    BY <1>3 DEF PostReply
  <2>2. /\ Append(sent, rows[i])[Len(sent) + 1] = rows[i]
        /\ Len(Append(sent, rows[i])) = Len(sent) + 1
        /\ \A m \in 1..Len(sent) : Append(sent, rows[i])[m] = sent[m]
    BY <2>1, AppendProperties
  <2> QED
    BY <1>3, <2>2 DEF PostReply
<1>4. ASSUME NEW r \in Receivers, Waits(r) PROVE Goal
  BY <1>4, Waiting DEF NoStore, store, ghosts
<1>5. ASSUME NEW r \in Receivers, OpenReply(r) PROVE Goal
  BY <1>5 DEF OpenReply
<1>6. ASSUME NEW r \in Receivers, WriteReply(r) PROVE Goal
  BY <1>6 DEF WriteReply, ghosts
<1>7. ASSUME NEW r \in Receivers, WriteFails(r) PROVE Goal
  BY <1>7 DEF WriteFails, ghosts
<1>8. ASSUME NEW r \in Receivers, MarkReplied(r) PROVE Goal
  BY <1>8 DEF MarkReplied
<1>9. ASSUME NEW v \in Visitors, Visit(v) PROVE Goal
  BY <1>9 DEF Visit, FindCase, ReadReply, Answer, store, ghosts
<1>10. CASE Restart
  BY <1>10 DEF Restart, store, ghosts
<1>11. CASE UNCHANGED vars
  BY <1>11 DEF vars
<1> QED
  BY <1>1, <1>2, <1>3, <1>4, <1>5, <1>6, <1>7, <1>8, <1>9, <1>10,
     <1>11 DEF Next, Desk, Waits

(* What OpenReply does to the posts: r is alone if no other post is at the   *)
(* file, and any such post is alone no longer.                               *)
LEMMA OpenEffect ==
    ASSUME TypeOK, NEW r \in Receivers, OpenReply(r)
    PROVE  /\ desk[r].pc = "checked" /\ desk'[r].pc = "opened"
           /\ desk'[r].alone =>
                \A q \in Receivers \ {r} : AtFile(q) => desk[q].id # desk[r].id
           /\ \A q \in Receivers \ {r} :
                /\ desk'[q].pc = desk[q].pc
                /\ desk'[q].alone /\ AtFile(q) => desk[q].alone /\ desk[q].id # desk[r].id
           /\ \A q \in Receivers : /\ desk'[q].id = desk[q].id /\ desk'[q].code = desk[q].code
                                   /\ desk'[q].text = desk[q].text
                                   /\ desk'[q].linked = desk[q].linked
<1>1. desk[r] \in Posts /\ \A q \in Receivers : AtFile(q) => desk[q] \in Posts
  BY UnderWay DEF OpenReply, AtFile
<1>2. /\ desk[r].pc = "checked"
      /\ desk'[r] = [desk[r] EXCEPT !.pc = "opened", !.alone = Beside(r, desk[r].id) = {}]
      /\ \A q \in Receivers \ {r} :
            desk'[q] = IF q \in Beside(r, desk[r].id) THEN [desk[q] EXCEPT !.alone = FALSE]
                       ELSE desk[q]
  BY DEF OpenReply
<1>3. \A q \in Receivers \ {r} :
         q \in Beside(r, desk[r].id) <=> AtFile(q) /\ desk[q].id = desk[r].id
  BY DEF Beside, AtFile
<1>4. /\ desk'[r].pc = "opened" /\ desk'[r].id = desk[r].id /\ desk'[r].code = desk[r].code
      /\ desk'[r].text = desk[r].text /\ desk'[r].linked = desk[r].linked
      /\ desk'[r].alone = (Beside(r, desk[r].id) = {})
  BY <1>1, <1>2 DEF Posts
<1>5. ASSUME NEW q \in Receivers \ {r}
      PROVE  /\ desk'[q].pc = desk[q].pc /\ desk'[q].id = desk[q].id
             /\ desk'[q].code = desk[q].code /\ desk'[q].text = desk[q].text
             /\ desk'[q].linked = desk[q].linked
             /\ desk'[q].alone /\ AtFile(q) => desk[q].alone /\ desk[q].id # desk[r].id
  <2>1. CASE q \in Beside(r, desk[r].id)
    <3>1. desk[q] \in Posts /\ desk'[q] = [desk[q] EXCEPT !.alone = FALSE]
      BY <1>1, <1>2, <1>3, <2>1
    <3> QED
      BY <3>1 DEF Posts
  <2>2. CASE q \notin Beside(r, desk[r].id)
    BY <1>2, <1>3, <2>2
  <2> QED
    BY <2>1, <2>2
<1> QED
  BY <1>2, <1>3, <1>4, <1>5

-----------------------------------------------------------------------------
(* The parts of the invariant.                                               *)

(* Codes are given out once, and a sweep works on an expired case.           *)
LEMMA NextStore == ReplyInv /\ [Next]_vars => StoreOK'
<1> SUFFICES ASSUME ReplyInv, [Next]_vars PROVE StoreOK'
  OBVIOUS
<1>a. TypeOK /\ StoreTypes /\ StoreOK
  BY DEF ReplyInv, TypeOK, StoreTypes
<1> USE <1>a, ReplyAssumption DEF StoreTypes, StoreOK
<1>1. CASE Cases
  BY <1>1 DEF Cases, Create, Expire, Sweep, store, ghosts
<1>2. CASE ZeroReply
  BY <1>2 DEF ZeroReply, ghosts
<1>3. CASE UnlinkReply
  BY <1>3 DEF UnlinkReply, ghosts
<1>4. CASE RemoveDir
  BY <1>4 DEF RemoveDir, ghosts
<1>5. CASE DeleteRow
  BY <1>5 DEF DeleteRow, ghosts
<1>6. ASSUME NEW r \in Receivers, NEW i \in Ids, NEW c \in Codes, PostReply(r, i, c)
      PROVE  StoreOK'
  BY <1>6 DEF PostReply, store
<1>7. ASSUME NEW r \in Receivers, Waits(r) PROVE StoreOK'
  BY <1>7, Waiting DEF NoStore, store, ghosts
<1>8. ASSUME NEW r \in Receivers, OpenReply(r) PROVE StoreOK'
  BY <1>8 DEF OpenReply
<1>9. ASSUME NEW r \in Receivers, WriteReply(r) PROVE StoreOK'
  BY <1>9 DEF WriteReply, ghosts
<1>10. ASSUME NEW r \in Receivers, WriteFails(r) PROVE StoreOK'
  BY <1>10 DEF WriteFails, ghosts
<1>11. ASSUME NEW r \in Receivers, MarkReplied(r) PROVE StoreOK'
  BY <1>11 DEF MarkReplied
<1>12. ASSUME NEW v \in Visitors, Visit(v) PROVE StoreOK'
  BY <1>12 DEF Visit, FindCase, ReadReply, Answer, store, ghosts
<1>13. CASE Restart
  BY <1>13 DEF Restart, store, ghosts
<1>14. CASE UNCHANGED vars
  BY <1>14 DEF vars
<1> QED
  BY <1>1, <1>2, <1>3, <1>4, <1>5, <1>6, <1>7, <1>8, <1>9, <1>10, <1>11,
     <1>12, <1>13, <1>14 DEF Next, Desk, Waits, Shred

(* A post that has found its case answers the case of its page.              *)
LEMMA NextPost == ReplyInv /\ [Next]_vars => \A q \in Receivers : PostOK(q)'
<1> SUFFICES ASSUME ReplyInv, [Next]_vars, NEW q \in Receivers PROVE PostOK(q)'
  OBVIOUS
<1>a. TypeOK /\ desk \in [Receivers -> {Cut} \cup Posts] /\ PostOK(q) /\ StoreTypes
  BY DEF ReplyInv, TypeOK, StoreTypes
<1>b. desk[q].pc # "idle" =>
         /\ desk[q] \in Posts /\ desk[q].id \in Ids
         /\ desk[q].code \in used'
         /\ desk[q].text \in 1..Len(sent') /\ sent'[desk[q].text] = sent[desk[q].text]
         /\ rows'[desk[q].id] = desk[q].code => rows[desk[q].id] = desk[q].code
  BY LiveBack, TextsStay, UnderWay DEF ReplyInv, PostOK, Posts
<1> USE <1>a, <1>b DEF PostOK, AtFile, Cut, StoreTypes
<1>1. CASE Cases
  BY <1>1 DEF Cases, Create, Expire, Sweep, store, ghosts
<1>2. CASE ZeroReply
  BY <1>2 DEF ZeroReply, ghosts
<1>3. CASE UnlinkReply
  BY <1>3 DEF UnlinkReply, ghosts
<1>4. CASE RemoveDir
  BY <1>4 DEF RemoveDir, ghosts
<1>5. CASE DeleteRow
  BY <1>5 DEF DeleteRow, ghosts
<1>6. ASSUME NEW r \in Receivers, NEW i \in Ids, NEW c \in Codes, PostReply(r, i, c)
      PROVE  PostOK(q)'
  <2>1. rows[i] \in Codes
    BY <1>6 DEF PostReply
  <2>2. /\ Append(sent, rows[i])[Len(sent) + 1] = rows[i]
        /\ Len(Append(sent, rows[i])) = Len(sent) + 1
        /\ \A n \in 1..Len(sent) : Append(sent, rows[i])[n] = sent[n]
    BY <2>1, AppendProperties
  <2>3. Len(sent) \in Nat
    BY LenProperties
  <2> QED
    BY <1>6, <2>1, <2>2, <2>3 DEF PostReply, store
<1>7. ASSUME NEW r \in Receivers, Waits(r) PROVE PostOK(q)'
  BY <1>7, Waiting DEF NoStore, store, ghosts
<1>8. ASSUME NEW r \in Receivers, OpenReply(r) PROVE PostOK(q)'
  <2>1. UNCHANGED rows
    BY <1>8 DEF OpenReply
  <2> QED
    BY <1>8, <2>1, OpenEffect
<1>9. ASSUME NEW r \in Receivers, WriteReply(r) PROVE PostOK(q)'
  BY <1>9 DEF WriteReply, Step, ghosts
<1>10. ASSUME NEW r \in Receivers, WriteFails(r) PROVE PostOK(q)'
  BY <1>10 DEF WriteFails, Ends, ghosts
<1>11. ASSUME NEW r \in Receivers, MarkReplied(r) PROVE PostOK(q)'
  BY <1>11 DEF MarkReplied, Ends
<1>12. ASSUME NEW v \in Visitors, Visit(v) PROVE PostOK(q)'
  BY <1>12 DEF Visit, FindCase, ReadReply, Answer, store, ghosts
<1>13. CASE Restart
  BY <1>13 DEF Restart, store, ghosts
<1>14. CASE UNCHANGED vars
  BY <1>14 DEF vars
<1> QED
  BY <1>1, <1>2, <1>3, <1>4, <1>5, <1>6, <1>7, <1>8, <1>9, <1>10, <1>11,
     <1>12, <1>13, <1>14 DEF Next, Desk, Waits, Shred

(* A sealed file is sealed under the code of the case its text answers.      *)
LEMMA NextSealed == ReplyInv /\ [Next]_vars => \A j \in Ids : SealedFor(file[j])'
<1> SUFFICES ASSUME ReplyInv, [Next]_vars, NEW j \in Ids PROVE SealedFor(file[j])'
  OBVIOUS
<1>a. TypeOK /\ file \in [Ids -> File] /\ SealedFor(file[j])
  BY DEF ReplyInv, TypeOK
<1>b. file[j].is = "sealed" =>
         file[j].text \in 1..Len(sent') /\ sent'[file[j].text] = file[j].code
  BY <1>a, TextsStay DEF SealedFor
<1>c. \A r \in Receivers : AtFile(r) =>
         /\ desk[r].text \in 1..Len(sent) /\ desk[r].code = sent[desk[r].text]
  BY DEF ReplyInv, PostOK, AtFile
<1> USE <1>a, <1>b, <1>c DEF SealedFor, AtFile
<1>1. CASE Cases
  BY <1>1 DEF Cases, Create, Expire, Sweep, store, ghosts
<1>2. CASE Shred
  BY <1>2 DEF Shred, ZeroReply, UnlinkReply, RemoveDir, DeleteRow, ghosts, Not
<1>3. ASSUME NEW r \in Receivers, NEW i \in Ids, NEW c \in Codes, PostReply(r, i, c)
      PROVE  SealedFor(file[j])'
  BY <1>3 DEF PostReply, store
<1>4. ASSUME NEW r \in Receivers, Waits(r) PROVE SealedFor(file[j])'
  BY <1>4, Waiting DEF NoStore, store, ghosts
<1>5. ASSUME NEW r \in Receivers, OpenReply(r) PROVE SealedFor(file[j])'
  BY <1>5 DEF OpenReply, Not
<1>6. ASSUME NEW r \in Receivers, WriteReply(r) PROVE SealedFor(file[j])'
  BY <1>6 DEF WriteReply, ghosts, Not, Sealed
<1>7. ASSUME NEW r \in Receivers, WriteFails(r) PROVE SealedFor(file[j])'
  BY <1>7 DEF WriteFails, ghosts, Not
<1>8. ASSUME NEW r \in Receivers, MarkReplied(r) PROVE SealedFor(file[j])'
  BY <1>8 DEF MarkReplied
<1>9. ASSUME NEW v \in Visitors, Visit(v) PROVE SealedFor(file[j])'
  BY <1>9 DEF Visit, FindCase, ReadReply, Answer, store, ghosts
<1>10. CASE Restart
  BY <1>10 DEF Restart, store, ghosts
<1>11. CASE UNCHANGED vars
  BY <1>11 DEF vars
<1> QED
  BY <1>1, <1>2, <1>3, <1>4, <1>5, <1>6, <1>7, <1>8, <1>9, <1>10,
     <1>11 DEF Next, Desk, Waits

\* What FileOK says of a post, of its file and of the others.
AloneAt(r, q) == AtFile(r) /\ desk[r].alone /\ AtFile(q) => desk[q].id # desk[r].id
HasFile(r) ==
    /\ desk[r].pc = "opened" /\ desk[r].linked => file[desk[r].id].is # "none"
    /\ desk[r].pc = "opened" /\ ~desk[r].linked => ~Current(desk[r].id, desk[r].code)
LeftIn(r) ==
    desk[r].alone /\ Current(desk[r].id, desk[r].code) =>
        /\ desk[r].pc = "opened" => file[desk[r].id].is = "empty"
        /\ desk[r].pc = "written" =>
              file[desk[r].id] = Sealed(desk[r].code, desk[r].id, desk[r].text)

(* The parts of FileOK.                                                      *)
LEMMA FileParts ==
    \A r \in Receivers :
        FileOK(r) <=> /\ AtFile(r) => HasFile(r) /\ LeftIn(r)
                      /\ \A q \in Receivers \ {r} : AloneAt(r, q)
BY DEF FileOK, AloneAt, HasFile, LeftIn, AtFile

(* A post that is alone at its file stays so until another opens it.         *)
LEMMA NextAlone ==
    ReplyInv /\ [Next]_vars => \A q \in Receivers : \A p \in Receivers \ {q} : AloneAt(q, p)'
<1> SUFFICES ASSUME ReplyInv, [Next]_vars, NEW q \in Receivers, NEW p \in Receivers \ {q}
             PROVE  AloneAt(q, p)'
  OBVIOUS
<1>a. TypeOK /\ desk \in [Receivers -> {Cut} \cup Posts] /\ AloneAt(q, p)
  BY FileParts DEF ReplyInv, TypeOK
<1>b. \A r \in Receivers : desk[r].pc # "idle" => desk[r] \in Posts
  BY <1>a, UnderWay
<1> USE <1>a, <1>b DEF AloneAt, AtFile, Cut
<1>1. CASE Cases
  BY <1>1 DEF Cases, Create, Expire, Sweep, store
<1>2. CASE ZeroReply
  BY <1>2 DEF ZeroReply
<1>3. CASE UnlinkReply
  <2>1. ASSUME NEW r \in Receivers
        PROVE  /\ desk'[r].pc = desk[r].pc /\ desk'[r].id = desk[r].id
               /\ desk[r].pc \in {"opened", "written"} => desk'[r].alone = desk[r].alone
    BY <1>3 DEF UnlinkReply, Posts
  <2> QED
    BY <2>1
<1>4. CASE RemoveDir
  BY <1>4 DEF RemoveDir
<1>5. CASE DeleteRow
  BY <1>5 DEF DeleteRow
<1>6. ASSUME NEW r \in Receivers, NEW i \in Ids, NEW c \in Codes, PostReply(r, i, c)
      PROVE  AloneAt(q, p)'
  BY <1>6 DEF PostReply, store
<1>7. ASSUME NEW r \in Receivers, Waits(r) PROVE AloneAt(q, p)'
  BY <1>7, Waiting DEF NoStore, store
<1>8. ASSUME NEW r \in Receivers, OpenReply(r) PROVE AloneAt(q, p)'
  BY <1>8, OpenEffect
<1>9. ASSUME NEW r \in Receivers, WriteReply(r) PROVE AloneAt(q, p)'
  BY <1>9 DEF WriteReply, Step
<1>10. ASSUME NEW r \in Receivers, WriteFails(r) PROVE AloneAt(q, p)'
  BY <1>10 DEF WriteFails, Ends
<1>11. ASSUME NEW r \in Receivers, MarkReplied(r) PROVE AloneAt(q, p)'
  BY <1>11 DEF MarkReplied, Ends
<1>12. ASSUME NEW v \in Visitors, Visit(v) PROVE AloneAt(q, p)'
  BY <1>12 DEF Visit, FindCase, ReadReply, Answer, store
<1>13. CASE Restart
  BY <1>13 DEF Restart, store
<1>14. CASE UNCHANGED vars
  BY <1>14 DEF vars
<1> QED
  BY <1>1, <1>2, <1>3, <1>4, <1>5, <1>6, <1>7, <1>8, <1>9, <1>10, <1>11,
     <1>12, <1>13, <1>14 DEF Next, Desk, Waits, Shred

(* A post whose file is gone is one whose case has lapsed.                   *)
LEMMA NextHasFile ==
    ReplyInv /\ [Next]_vars => \A q \in Receivers : (AtFile(q) => HasFile(q))'
<1> SUFFICES ASSUME ReplyInv, [Next]_vars, NEW q \in Receivers PROVE (AtFile(q) => HasFile(q))'
  OBVIOUS
<1>a. /\ TypeOK /\ desk \in [Receivers -> {Cut} \cup Posts] /\ file \in [Ids -> File]
      /\ AtFile(q) => HasFile(q)
      /\ desk[q].pc = "checked" => desk[q].linked
      /\ gc.pc # "idle" => gc.id \in Ids /\ gc.id \in old
  BY FileParts DEF ReplyInv, TypeOK, StoreOK, PostOK, AtFile
<1>b. \A r \in Receivers : desk[r].pc # "idle" => desk[r] \in Posts /\ desk[r].id \in Ids
  BY <1>a, UnderWay DEF Posts
<1>c. desk[q].pc # "idle" =>
         (rows'[desk[q].id] = desk[q].code /\ desk[q].id \notin old' =>
             rows[desk[q].id] = desk[q].code /\ desk[q].id \notin old)
  BY <1>b, LiveBack DEF ReplyInv, PostOK
<1> USE <1>a, <1>b, <1>c DEF HasFile, AtFile, Current, Cut
<1>1. CASE Cases
  BY <1>1 DEF Cases, Create, Expire, Sweep, store, ghosts
<1>2. CASE ZeroReply
  BY <1>2 DEF ZeroReply, ghosts, Not
<1>3. CASE UnlinkReply
  <2>1. /\ gc.id \in Ids /\ gc.id \in old /\ UNCHANGED <<rows, old>>
        /\ file' = [file EXCEPT ![gc.id] = Not("none", gc.id)]
    BY <1>3 DEF UnlinkReply
  <2>2. CASE desk[q].pc = "opened" /\ desk[q].id = gc.id
    <3>1. desk'[q] = [desk[q] EXCEPT !.linked = FALSE]
      BY <1>3, <2>2 DEF UnlinkReply
    <3>2. desk'[q].id = desk[q].id /\ ~desk'[q].linked
      BY <3>1, <2>2 DEF Posts
    <3> QED
      BY <2>1, <2>2, <3>2
  <2>3. CASE ~(desk[q].pc = "opened" /\ desk[q].id = gc.id)
    <3>1. desk'[q] = desk[q]
      BY <1>3, <2>3 DEF UnlinkReply
    <3> QED
      BY <2>1, <2>3, <3>1
  <2> QED
    BY <2>2, <2>3
<1>4. CASE RemoveDir
  BY <1>4 DEF RemoveDir, ghosts
<1>5. CASE DeleteRow
  BY <1>5 DEF DeleteRow, ghosts
<1>6. ASSUME NEW r \in Receivers, NEW i \in Ids, NEW c \in Codes, PostReply(r, i, c)
      PROVE  (AtFile(q) => HasFile(q))'
  BY <1>6 DEF PostReply, store
<1>7. ASSUME NEW r \in Receivers, Waits(r) PROVE (AtFile(q) => HasFile(q))'
  BY <1>7, Waiting DEF NoStore, store, ghosts
<1>8. ASSUME NEW r \in Receivers, OpenReply(r)
      PROVE  (AtFile(q) => HasFile(q))'
  <2>1. /\ file' = [file EXCEPT ![desk[r].id] = Not("empty", desk[r].id)]
        /\ desk[r].id \in Ids /\ UNCHANGED <<rows, old>>
    BY <1>8 DEF OpenReply
  <2> QED
    BY <1>8, <2>1, OpenEffect DEF Not
<1>9. ASSUME NEW r \in Receivers, WriteReply(r)
      PROVE  (AtFile(q) => HasFile(q))'
  BY <1>9 DEF WriteReply, Step, ghosts, Not, Sealed
<1>10. ASSUME NEW r \in Receivers, WriteFails(r)
       PROVE  (AtFile(q) => HasFile(q))'
  BY <1>10 DEF WriteFails, Ends, ghosts, Not
<1>11. ASSUME NEW r \in Receivers, MarkReplied(r)
       PROVE  (AtFile(q) => HasFile(q))'
  BY <1>11 DEF MarkReplied, Ends
<1>12. ASSUME NEW v \in Visitors, Visit(v) PROVE (AtFile(q) => HasFile(q))'
  BY <1>12 DEF Visit, FindCase, ReadReply, Answer, store, ghosts
<1>13. CASE Restart
  BY <1>13 DEF Restart, store, ghosts
<1>14. CASE UNCHANGED vars
  BY <1>14 DEF vars
<1> QED
  BY <1>1, <1>2, <1>3, <1>4, <1>5, <1>6, <1>7, <1>8, <1>9, <1>10, <1>11,
     <1>12, <1>13, <1>14 DEF Next, Desk, Waits, Shred

(* A post alone at the file of a current case finds it as it left it.        *)
LEMMA NextLeftIn ==
    ReplyInv /\ [Next]_vars => \A q \in Receivers : (AtFile(q) => LeftIn(q))'
<1> SUFFICES ASSUME ReplyInv, [Next]_vars, NEW q \in Receivers PROVE (AtFile(q) => LeftIn(q))'
  OBVIOUS
<1>a. /\ TypeOK /\ desk \in [Receivers -> {Cut} \cup Posts] /\ file \in [Ids -> File]
      /\ AtFile(q) => HasFile(q) /\ LeftIn(q)
      /\ \A p \in Receivers \ {q} : AloneAt(q, p)
      /\ gc.pc # "idle" => gc.id \in Ids /\ gc.id \in old
  BY FileParts DEF ReplyInv, TypeOK, StoreOK
<1>b. \A r \in Receivers : desk[r].pc # "idle" => desk[r] \in Posts /\ desk[r].id \in Ids
  BY <1>a, UnderWay DEF Posts
<1>c. desk[q].pc # "idle" =>
         (rows'[desk[q].id] = desk[q].code /\ desk[q].id \notin old' =>
             rows[desk[q].id] = desk[q].code /\ desk[q].id \notin old)
  BY <1>b, LiveBack DEF ReplyInv, PostOK
<1> USE <1>a, <1>b, <1>c DEF LeftIn, AtFile, Current, Cut
<1>1. CASE Cases
  BY <1>1 DEF Cases, Create, Expire, Sweep, store, ghosts
<1>2. CASE ZeroReply
  BY <1>2 DEF ZeroReply, ghosts, Not
<1>3. CASE UnlinkReply
  <2>1. /\ gc.id \in Ids /\ gc.id \in old /\ UNCHANGED <<rows, old>>
        /\ file' = [file EXCEPT ![gc.id] = Not("none", gc.id)]
    BY <1>3 DEF UnlinkReply
  <2>2. /\ desk'[q].pc = desk[q].pc
        /\ AtFile(q) => /\ desk'[q].id = desk[q].id /\ desk'[q].code = desk[q].code
                        /\ desk'[q].text = desk[q].text /\ desk'[q].alone = desk[q].alone
    BY <1>3 DEF UnlinkReply, Posts
  <2> QED
    BY <2>1, <2>2
<1>4. CASE RemoveDir
  BY <1>4 DEF RemoveDir, ghosts
<1>5. CASE DeleteRow
  BY <1>5 DEF DeleteRow, ghosts
<1>6. ASSUME NEW r \in Receivers, NEW i \in Ids, NEW c \in Codes, PostReply(r, i, c)
      PROVE  (AtFile(q) => LeftIn(q))'
  BY <1>6 DEF PostReply, store
<1>7. ASSUME NEW r \in Receivers, Waits(r) PROVE (AtFile(q) => LeftIn(q))'
  BY <1>7, Waiting DEF NoStore, store, ghosts
<1>8. ASSUME NEW r \in Receivers, OpenReply(r) PROVE (AtFile(q) => LeftIn(q))'
  <2>1. /\ file' = [file EXCEPT ![desk[r].id] = Not("empty", desk[r].id)]
        /\ desk[r].id \in Ids /\ UNCHANGED <<rows, old>>
    BY <1>8 DEF OpenReply
  <2> QED
    BY <1>8, <2>1, OpenEffect DEF Not
<1>9. ASSUME NEW r \in Receivers, WriteReply(r)
      PROVE  (AtFile(q) => LeftIn(q))'
  <2>1. CASE q = r
    <3>1. /\ desk'[q] = [desk[q] EXCEPT !.pc = "written"] /\ desk[q].pc = "opened"
          /\ UNCHANGED <<rows, old>>
      BY <1>9, <2>1 DEF WriteReply, Step
    <3>2. ASSUME desk[q].alone, Current(desk[q].id, desk[q].code)
          PROVE  file' = [file EXCEPT ![desk[q].id] =
                            Sealed(desk[q].code, desk[q].id, desk[q].text)]
      BY <1>9, <2>1, <3>1, <3>2 DEF WriteReply, HasFile
    <3>3. desk[q].alone /\ Current(desk[q].id, desk[q].code) =>
             file'[desk[q].id] = Sealed(desk[q].code, desk[q].id, desk[q].text)
      BY <3>1, <3>2
    <3>4. /\ desk'[q].pc = "written" /\ desk'[q].id = desk[q].id /\ desk'[q].code = desk[q].code
          /\ desk'[q].text = desk[q].text /\ desk'[q].alone = desk[q].alone
      BY <3>1 DEF Posts
    <3> QED
      BY <3>1, <3>3, <3>4
  <2>2. CASE q # r
    <3>1. /\ desk'[q] = desk[q] /\ desk[r].pc = "opened" /\ UNCHANGED <<rows, old>>
          /\ \/ UNCHANGED file
             \/ \E f : file' = [file EXCEPT ![desk[r].id] = f]
      BY <1>9, <2>2 DEF WriteReply, Step
    <3> QED
      BY <2>2, <3>1 DEF AloneAt
  <2> QED
    BY <2>1, <2>2
<1>10. ASSUME NEW r \in Receivers, WriteFails(r)
       PROVE  (AtFile(q) => LeftIn(q))'
  <2>1. CASE q = r
    BY <1>10, <2>1 DEF WriteFails, Ends
  <2>2. CASE q # r
    BY <1>10, <2>2 DEF WriteFails, Ends, AloneAt
  <2> QED
    BY <2>1, <2>2
<1>11. ASSUME NEW r \in Receivers, MarkReplied(r)
       PROVE  (AtFile(q) => LeftIn(q))'
  BY <1>11 DEF MarkReplied, Ends
<1>12. ASSUME NEW v \in Visitors, Visit(v) PROVE (AtFile(q) => LeftIn(q))'
  BY <1>12 DEF Visit, FindCase, ReadReply, Answer, store, ghosts
<1>13. CASE Restart
  BY <1>13 DEF Restart, store, ghosts
<1>14. CASE UNCHANGED vars
  BY <1>14 DEF vars
<1> QED
  BY <1>1, <1>2, <1>3, <1>4, <1>5, <1>6, <1>7, <1>8, <1>9, <1>10, <1>11,
     <1>12, <1>13, <1>14 DEF Next, Desk, Waits, Shred

(* A post alone at its file has it to itself and finds it as it left it.     *)
LEMMA NextFile == ReplyInv /\ [Next]_vars => \A q \in Receivers : FileOK(q)'
<1> SUFFICES ASSUME ReplyInv, [Next]_vars, NEW q \in Receivers PROVE FileOK(q)'
  OBVIOUS
<1>1. /\ (AtFile(q) => HasFile(q))' /\ (AtFile(q) => LeftIn(q))'
      /\ \A p \in Receivers \ {q} : AloneAt(q, p)'
  BY NextHasFile, NextLeftIn, NextAlone
<1> QED
  BY <1>1 DEF FileOK, AloneAt, HasFile, LeftIn, AtFile

(* What was reported saved stays in the file, with nobody at it.             *)
LEMMA NextKept == ReplyInv /\ [Next]_vars => \A j \in Ids : KeptOK(j)'
<1> SUFFICES ASSUME ReplyInv, [Next]_vars, NEW j \in Ids PROVE KeptOK(j)'
  OBVIOUS
<1>a. /\ TypeOK /\ StoreTypes /\ desk \in [Receivers -> {Cut} \cup Posts]
      /\ KeptOK(j)
      /\ gc.pc # "idle" => gc.id \in Ids /\ gc.id \in old
  BY DEF ReplyInv, TypeOK, StoreTypes, StoreOK
<1>b. \A r \in Receivers : desk[r].pc # "idle" => desk[r] \in Posts /\ desk[r].id \in Ids
  BY <1>a, UnderWay DEF Posts
<1> USE <1>a, <1>b DEF KeptOK, AtFile, Cut, StoreTypes
<1>1. ASSUME NEW i \in Ids, Create(i) PROVE KeptOK(j)'
  BY <1>1 DEF Create
<1>2. ASSUME NEW i \in Ids, Expire(i) PROVE KeptOK(j)'
  BY <1>2 DEF Expire
<1>3. ASSUME NEW i \in Ids, Sweep(i) PROVE KeptOK(j)'
  BY <1>3 DEF Sweep, store, ghosts
<1>4. CASE ZeroReply
  BY <1>4 DEF ZeroReply, ghosts
<1>5. CASE UnlinkReply
  <2>1. /\ gc.id \in Ids /\ gc.id \in old /\ UNCHANGED <<rows, old, kept>>
        /\ file' = [file EXCEPT ![gc.id] = Not("none", gc.id)]
    BY <1>5 DEF UnlinkReply, ghosts
  <2>2. \A r \in Receivers : /\ desk'[r].pc = desk[r].pc
                             /\ AtFile(r) => desk'[r].id = desk[r].id
    BY <1>5 DEF UnlinkReply, Posts
  <2> QED
    BY <2>1, <2>2
<1>6. CASE RemoveDir
  BY <1>6 DEF RemoveDir, ghosts
<1>7. CASE DeleteRow
  BY <1>7 DEF DeleteRow, ghosts
<1>8. ASSUME NEW r \in Receivers, NEW i \in Ids, NEW c \in Codes, PostReply(r, i, c)
      PROVE  KeptOK(j)'
  BY <1>8 DEF PostReply, store
<1>9. ASSUME NEW r \in Receivers, Waits(r) PROVE KeptOK(j)'
  <2>1. UNCHANGED <<rows, old, file, kept>>
    BY <1>9, Waiting DEF NoStore, store, ghosts
  <2>2. \A q \in Receivers : AtFile(q)' => AtFile(q) /\ desk'[q].id = desk[q].id
    BY <1>9, Waiting
  <2> QED
    BY <2>1, <2>2
<1>10. ASSUME NEW r \in Receivers, OpenReply(r) PROVE KeptOK(j)'
  <2>1. /\ file' = [file EXCEPT ![desk[r].id] = Not("empty", desk[r].id)]
        /\ kept' = [kept EXCEPT ![desk[r].id] = 0]
        /\ desk[r].id \in Ids /\ UNCHANGED <<rows, old>>
    BY <1>10 DEF OpenReply
  <2> QED
    BY <1>10, <2>1, OpenEffect
<1>11. ASSUME NEW r \in Receivers, WriteReply(r) PROVE KeptOK(j)'
  <2>1. /\ desk' = [desk EXCEPT ![r].pc = "written"] /\ desk[r].pc = "opened"
        /\ UNCHANGED <<rows, old, kept>>
        /\ \/ UNCHANGED file
           \/ \E f : file' = [file EXCEPT ![desk[r].id] = f]
    BY <1>11 DEF WriteReply, Step, ghosts
  <2>2. \A q \in Receivers : AtFile(q)' => AtFile(q) /\ desk'[q].id = desk[q].id
    BY <2>1 DEF Posts
  <2> QED
    BY <2>1, <2>2
<1>12. ASSUME NEW r \in Receivers, WriteFails(r) PROVE KeptOK(j)'
  BY <1>12 DEF WriteFails, Ends, ghosts
<1>13. ASSUME NEW r \in Receivers, MarkReplied(r) PROVE KeptOK(j)'
  <2>1. /\ desk' = [desk EXCEPT ![r] = Cut] /\ desk[r].pc = "written"
        /\ UNCHANGED <<rows, old, file>>
    BY <1>13 DEF MarkReplied, Ends
  <2>2. \A q \in Receivers : AtFile(q)' => q # r /\ AtFile(q) /\ desk'[q] = desk[q]
    BY <2>1
  <2>3. CASE /\ desk[r].alone /\ rows[desk[r].id] = sent[desk[r].text]
             /\ desk[r].id \notin old /\ j = desk[r].id
    <3>1. desk[r].code = rows[j] /\ LeftIn(r) /\ \A q \in Receivers \ {r} : AloneAt(r, q)
      BY <2>1, <2>3, FileParts DEF ReplyInv, PostOK
    <3>2. file[j] = Sealed(rows[j], j, desk[r].text) /\ rows[j] # NoCode
      BY <2>1, <2>3, <3>1, ReplyAssumption DEF LeftIn, Current, Posts
    <3>3. kept'[j] = desk[r].text
      BY <1>13, <2>3 DEF MarkReplied
    <3> QED
      BY <2>1, <2>2, <2>3, <3>1, <3>2, <3>3 DEF AloneAt
  <2>4. CASE ~(/\ desk[r].alone /\ rows[desk[r].id] = sent[desk[r].text]
               /\ desk[r].id \notin old /\ j = desk[r].id)
    <3>1. kept'[j] = kept[j]
      BY <1>13, <2>4 DEF MarkReplied
    <3> QED
      BY <2>1, <2>2, <3>1
  <2> QED
    BY <2>3, <2>4
<1>14. ASSUME NEW v \in Visitors, Visit(v) PROVE KeptOK(j)'
  BY <1>14 DEF Visit, FindCase, ReadReply, Answer, store, ghosts
<1>15. CASE Restart
  BY <1>15 DEF Restart, store, ghosts
<1>16. CASE UNCHANGED vars
  BY <1>16 DEF vars
<1> QED
  BY <1>1, <1>2, <1>3, <1>4, <1>5, <1>6, <1>7, <1>8, <1>9, <1>10, <1>11,
     <1>12, <1>13, <1>14, <1>15, <1>16 DEF Next, Desk, Waits, Cases, Shred

(* A visit that must show a reply has it in reach, in hand, or has shown it. *)
LEMMA NextVisit == ReplyInv /\ [Next]_vars => \A u \in Visitors : VisitOK(u)'
<1> SUFFICES ASSUME ReplyInv, [Next]_vars, NEW u \in Visitors PROVE VisitOK(u)'
  OBVIOUS
<1>a. /\ TypeOK /\ StoreTypes /\ come \in [Visitors -> {Cut} \cup Answers]
      /\ VisitOK(u) /\ \A i \in Ids : KeptOK(i) /\ SealedFor(file[i])
      /\ gc.pc # "idle" => gc.id \in Ids /\ gc.id \in old
  BY DEF ReplyInv, TypeOK, StoreTypes, StoreOK
<1>b. \A v \in Visitors : come[v].pc # "idle" =>
         come[v] \in Answers /\ come[v].id \in Ids /\ come[v].code \in Codes
  BY UnderWay DEF ReplyInv, Answers
<1>c. \A n \in 1..Len(sent) : n \in 1..Len(sent') /\ sent'[n] = sent[n]
  BY TextsStay
<1> USE <1>a, <1>b, <1>c, ReplyAssumption DEF VisitOK, KeptOK, SealedFor, Cut, StoreTypes
<1>1. ASSUME NEW i \in Ids, Create(i) PROVE VisitOK(u)'
  BY <1>1 DEF Create
<1>2. ASSUME NEW i \in Ids, Expire(i) PROVE VisitOK(u)'
  BY <1>2 DEF Expire
<1>3. ASSUME NEW i \in Ids, Sweep(i) PROVE VisitOK(u)'
  BY <1>3 DEF Sweep, store, ghosts
<1>4. CASE Shred
  BY <1>4 DEF Shred, ZeroReply, UnlinkReply, RemoveDir, DeleteRow, ghosts
<1>5. ASSUME NEW r \in Receivers, NEW i \in Ids, NEW c \in Codes, PostReply(r, i, c)
      PROVE  VisitOK(u)'
  BY <1>5 DEF PostReply, store
<1>6. ASSUME NEW r \in Receivers, Waits(r) PROVE VisitOK(u)'
  BY <1>6, Waiting DEF NoStore, store, ghosts
<1>7. ASSUME NEW r \in Receivers, OpenReply(r) PROVE VisitOK(u)'
  <2>1. /\ kept' = [kept EXCEPT ![desk[r].id] = 0] /\ UNCHANGED <<rows, sent>>
        /\ come'[u] = IF come[u].pc \in {"found", "read"} /\ come[u].id = desk[r].id
                     THEN [come[u] EXCEPT !.due = 0] ELSE come[u]
    BY <1>7 DEF OpenReply
  <2>2. CASE come[u].pc \in {"found", "read"} /\ come[u].id = desk[r].id
    <3>1. come'[u] = [come[u] EXCEPT !.due = 0]
      BY <2>1, <2>2
    <3>2. /\ come'[u].pc = come[u].pc /\ come'[u].due = 0 /\ come'[u].blob = come[u].blob
      BY <2>2, <3>1 DEF Answers
    <3> QED
      BY <2>1, <2>2, <3>2
  <2>3. CASE ~(come[u].pc \in {"found", "read"} /\ come[u].id = desk[r].id)
    <3>1. come'[u] = come[u]
      BY <2>1, <2>3
    <3> QED
      BY <2>1, <2>3, <3>1
  <2> QED
    BY <2>2, <2>3
<1>8. ASSUME NEW r \in Receivers, WriteReply(r) PROVE VisitOK(u)'
  BY <1>8 DEF WriteReply, ghosts, Sealed
<1>9. ASSUME NEW r \in Receivers, WriteFails(r) PROVE VisitOK(u)'
  BY <1>9 DEF WriteFails, ghosts
<1>10. ASSUME NEW r \in Receivers, MarkReplied(r) PROVE VisitOK(u)'
  <2>1. UNCHANGED <<rows, sent, come>>
    BY <1>10 DEF MarkReplied
  <2>2. come[u].due # 0 /\ come[u].pc \in {"found", "read"} => kept'[come[u].id] = kept[come[u].id]
    BY <1>10 DEF MarkReplied, AtFile
  <2> QED
    BY <2>1, <2>2
<1>11. ASSUME NEW v \in Visitors, NEW c \in Codes, FindCase(v, c)
       PROVE  VisitOK(u)'
  <2>1. UNCHANGED <<rows, sent, kept>>
    BY <1>11 DEF FindCase, store, ghosts
  <2>2. CASE u = v /\ come' = [come EXCEPT ![v] = Cut]
    BY <2>1, <2>2
  <2>3. ASSUME u = v, NEW i \in Found(c),
               come' = [come EXCEPT ![v] = [Blank(c, i) EXCEPT !.due = kept[i]]]
        PROVE  VisitOK(u)'
    <3>1. come'[u].pc = "found" /\ come'[u].code = c /\ come'[u].id = i /\ come'[u].due = kept[i]
      BY <2>3 DEF Blank
    <3> QED
      BY <2>1, <2>3, <3>1 DEF Found
  <2>4. CASE u # v
    <3>1. come'[u] = come[u]
      BY <1>11, <2>4 DEF FindCase
    <3> QED
      BY <2>1, <3>1
  <2> QED
    BY <1>11, <2>2, <2>3, <2>4 DEF FindCase
<1>12. ASSUME NEW v \in Visitors, ReadReply(v) PROVE VisitOK(u)'
  <2>1. /\ come[v].pc = "found" /\ UNCHANGED <<rows, sent, kept>>
        /\ come[v] \in Answers /\ come[v].id \in Ids
    BY <1>12 DEF ReadReply, store, ghosts
  <2>2. CASE u = v /\ file[come[v].id].is = "none"
    <3>1. come'[u] = [come[u] EXCEPT !.pc = "done", !.said = "verified"]
      BY <1>12, <2>2 DEF ReadReply
    <3>2. come'[u].pc = "done" /\ come'[u].said = "verified" /\ come'[u].due = come[u].due
      BY <2>1, <2>2, <3>1 DEF Answers
    <3>3. come[u].due = 0
      BY <2>1, <2>2 DEF Sealed
    <3> QED
      BY <3>2, <3>3
  <2>3. CASE u = v /\ file[come[v].id].is # "none"
    <3>1. come'[u] = [come[u] EXCEPT !.pc = "read", !.blob = file[come[u].id]]
      BY <1>12, <2>3 DEF ReadReply
    <3>2. /\ come'[u].pc = "read" /\ come'[u].blob = file[come[u].id]
          /\ come'[u].due = come[u].due /\ come'[u].id = come[u].id /\ come'[u].code = come[u].code
      BY <2>1, <2>3, <3>1 DEF Answers
    <3> QED
      BY <2>1, <2>3, <3>2
  <2>4. CASE u # v
    <3>1. come'[u] = come[u]
      BY <1>12, <2>4 DEF ReadReply
    <3> QED
      BY <2>1, <3>1
  <2> QED
    BY <2>2, <2>3, <2>4
<1>13. ASSUME NEW v \in Visitors, Answer(v) PROVE VisitOK(u)'
  BY <1>13 DEF Answer, store, ghosts, Sealed
<1>14. CASE Restart
  BY <1>14 DEF Restart, store, ghosts
<1>15. CASE UNCHANGED vars
  BY <1>15 DEF vars
<1> QED
  BY <1>1, <1>2, <1>3, <1>4, <1>5, <1>6, <1>7, <1>8, <1>9, <1>10, <1>11,
     <1>12, <1>13, <1>14, <1>15 DEF Next, Desk, Waits, Cases, Visit

-----------------------------------------------------------------------------
(* The theorems.                                                             *)

(* ReplyInv holds at first and is kept by every step.                        *)
LEMMA InvHolds == Spec => []ReplyInv
<1>1. Init => ReplyInv
  <2> SUFFICES ASSUME Init PROVE ReplyInv
    OBVIOUS
  <2>1. \A i \in Ids : Not("none", i) \in File /\ Not("none", i).is = "none"
    BY FileTypes DEF Not
  <2>2. TypeOK
    BY <2>1, EmptySeq, ReplyAssumption DEF Init, TypeOK
  <2> QED
    BY <2>1, <2>2 DEF Init, ReplyInv, StoreOK, SealedFor, KeptOK, PostOK, FileOK,
                           VisitOK, AtFile, Cut
<1>2. ReplyInv /\ [Next]_vars => ReplyInv'
  BY NextTypes, NextStore, NextSealed, NextKept, NextPost, NextFile, NextVisit DEF ReplyInv
<1> QED
  BY <1>1, <1>2, PTL DEF Spec

(* The types; and a row with has_reply = 1 or past its expiry exists, and a  *)
(* reply file lies in a directory.                                           *)
THEOREM TypesReply == Spec => []TypeOK
<1>1. ReplyInv => TypeOK
  BY DEF ReplyInv
<1> QED
  BY <1>1, InvHolds, PTL

(* handleReply shows a visitor the reply to the case whose code he gave.     *)
THEOREM RepliesAreOwn == Spec => []OwnReplyOnly
<1>1. ReplyInv => OwnReplyOnly
  BY DEF ReplyInv, VisitOK, OwnReplyOnly
<1> QED
  BY <1>1, InvHolds, PTL

(* A reply that handleAdminReply has reported saved is shown to a later      *)
(* visit, until the case expires or another post touches the file.           *)
THEOREM SavedRepliesReach == Spec => []SavedReaches
<1>1. ReplyInv => SavedReaches
  BY DEF ReplyInv, VisitOK, SavedReaches
<1> QED
  BY <1>1, InvHolds, PTL

=============================================================================
