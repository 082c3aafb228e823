------------------------ MODULE AdminSessionsProofs ------------------------
(***************************************************************************)
(* Proofs about AdminSessions for any number of tabs, logins, requests and *)
(* restarts and every idle timeout.                                        *)
(***************************************************************************)
EXTENDS AdminSessions, TLAPS

\* A session not yet made has no state.
FreshAbove == \A k \in Sessions : k > minted => lastSeen[k] = Gone /\ k \notin ended

\* What requireAuth has looked at still holds when the handler runs.
PassedOwn ==
    \A t \in Tabs : tabs[t].pc = "passed" =>
        /\ tabs[t].cookie <= minted
        /\ Posts(t) => tabs[t].cookie = tabs[t].page

\* Only the answer of a login sets a cookie, and it never clears one.
AnswersFit ==
    \A t \in Tabs : tabs[t].pc # "shown" =>
        /\ tabs[t].made # NoSession => tabs[t].kind = "login"
        /\ tabs[t].said = "logged out" => tabs[t].kind # "login"

\* No login can set the cookie again after a logout has cleared it.
OutMeans == last = "logout" => jar = NoCookie /\ ~LoginUnderWay

SessionInv ==
    /\ TypeOK /\ FreshAbove /\ EndedForGood
    /\ PassedOwn /\ SavedFromOwnPage
    /\ AnswersFit /\ OutMeans

(* The initial state satisfies the invariant.                                *)
LEMMA InitInv == Init => SessionInv
<1> SUFFICES ASSUME Init PROVE SessionInv
  OBVIOUS
<1>1. NewTab \in Tab /\ NewTab.pc = "shown"
  BY SessionAssumption DEF NewTab, Tab, Kinds, NoSession
<1>2. TypeOK
  BY <1>1, SessionAssumption DEF Init, TypeOK, NoCookie, NoSession, Sessions, Gone
<1> QED
  BY <1>1, <1>2 DEF Init, SessionInv, FreshAbove, EndedForGood, PassedOwn,
       SavedFromOwnPage, AnswersFit, OutMeans

\* What the steps of a tab have in common: the other tabs stay as they are,
\* and the tab's request is the one that was sent.
Moves(t) ==
    /\ tabs' \in [Tabs -> Tab]
    /\ \A u \in Tabs \ {t} : tabs'[u] = tabs[u]

Pcs   == {"shown", "sent", "passed", "done"}
Words == {"", "page", "error", "forbidden", "to login", "saved", "logged out", "in", "cut"}

Becomes(t, pc, said) ==
    /\ Moves(t)
    /\ tabs'[t].pc = pc /\ tabs'[t].said = said
    /\ tabs'[t].kind = tabs[t].kind /\ tabs'[t].page = tabs[t].page
    /\ tabs'[t].cookie = tabs[t].cookie /\ tabs'[t].made = tabs[t].made

LEMMA PutTab ==
  ASSUME NEW t \in Tabs, NEW r \in Tab, tabs \in [Tabs -> Tab], tabs' = [tabs EXCEPT ![t] = r]
  PROVE  Moves(t) /\ tabs'[t] = r
BY DEF Moves

LEMMA PutWord ==
  ASSUME NEW t \in Tabs, NEW pc \in Pcs, NEW said \in Words, tabs \in [Tabs -> Tab],
         tabs' = [tabs EXCEPT ![t] = [@ EXCEPT !.pc = pc, !.said = said]]
  PROVE  Becomes(t, pc, said)
<1> DEFINE r == [tabs[t] EXCEPT !.pc = pc, !.said = said]
<1>1. r \in Tab
  BY DEF Tab, Pcs, Words
<1>2. tabs' = [tabs EXCEPT ![t] = r]
  OBVIOUS
<1>3. Moves(t) /\ tabs'[t] = r
  <2> HIDE DEF r
  <2> QED
    BY <1>1, <1>2, PutTab
<1>4. /\ r.pc = pc /\ r.said = said /\ r.kind = tabs[t].kind
      /\ r.page = tabs[t].page /\ r.cookie = tabs[t].cookie /\ r.made = tabs[t].made
  BY DEF Tab
<1> QED
  BY <1>3, <1>4 DEF Becomes

(* What each step of a tab does to it.                                       *)
LEMMA SendTab ==
  ASSUME TypeOK, NEW t \in Tabs, NEW kind \in Kinds, Send(t, kind)
  PROVE  /\ Moves(t) /\ tabs'[t].pc = "sent" /\ tabs'[t].kind = kind
         /\ tabs'[t].said = "" /\ tabs'[t].made = NoSession
<1> DEFINE r == [tabs[t] EXCEPT !.pc = "sent", !.kind = kind, !.said = "", !.made = NoSession,
                     !.cookie = IF now < jar.till THEN jar.tok ELSE NoSession]
<1>1. tabs[t] \in Tab /\ jar.tok \in 0 .. MaxSessions /\ NoSession \in 0 .. MaxSessions
  BY SessionAssumption DEF TypeOK, NoSession
<1>2. r \in Tab /\ r.pc = "sent" /\ r.kind = kind /\ r.said = "" /\ r.made = NoSession
  BY <1>1 DEF Tab
<1>3. tabs' = [tabs EXCEPT ![t] = r] /\ tabs \in [Tabs -> Tab]
  BY DEF Send, TypeOK
<1> HIDE DEF r
<1> QED
  BY <1>2, <1>3, PutTab

LEMMA GateTab ==
  ASSUME TypeOK, NEW t \in Tabs, Gate(t)
  PROVE  \/ LetIn(t) /\ Becomes(t, "passed", tabs[t].said)
         \/ \E said \in {"forbidden", "to login"} : Becomes(t, "done", said)
<1>1. tabs \in [Tabs -> Tab] /\ tabs[t].said \in Words
  BY DEF TypeOK, Tab, Words
<1>2. CASE LetIn(t)
  <2>1. [tabs[t] EXCEPT !.pc = "passed"] = [tabs[t] EXCEPT !.pc = "passed", !.said = tabs[t].said]
    BY <1>1 DEF Tab
  <2>2. tabs' = [tabs EXCEPT ![t] = [@ EXCEPT !.pc = "passed", !.said = tabs[t].said]]
    BY <1>2, <2>1 DEF Gate
  <2> QED
    BY <1>1, <1>2, <2>2, PutWord DEF Pcs
<1>3. CASE ~LetIn(t)
  <2>1. PICK said \in {"forbidden", "to login"} :
           tabs' = [tabs EXCEPT ![t] = [@ EXCEPT !.pc = "done", !.said = said]]
    BY <1>3 DEF Gate
  <2> QED
    BY <1>1, <2>1, PutWord DEF Pcs, Words
<1> QED
  BY <1>2, <1>3

LEMMA HandlerTab ==
  ASSUME TypeOK, NEW t \in Tabs,
         View(t) \/ SaveReply(t) \/ Logout(t) \/ LoginRefused(t) \/ Cut(t)
  PROVE  \E pc \in {"shown", "done"}, said \in Words :
            /\ Becomes(t, pc, said)
            /\ said = "logged out" => tabs[t].kind # "login"
<1>1. tabs \in [Tabs -> Tab]
  BY DEF TypeOK
<1>2. PICK pc \in {"shown", "done"}, said \in Words :
         /\ tabs' = [tabs EXCEPT ![t] = [@ EXCEPT !.pc = pc, !.said = said]]
         /\ said = "logged out" => tabs[t].kind # "login"
  BY DEF View, SaveReply, Logout, LoginRefused, Cut, Words
<1> QED
  BY <1>1, <1>2, PutWord DEF Pcs

LEMMA LoginTab ==
  ASSUME TypeOK, NEW t \in Tabs, Login(t)
  PROVE  /\ Moves(t) /\ tabs'[t].pc = "done" /\ tabs'[t].kind = "login" /\ tabs'[t].said = "in"
<1> DEFINE r == [tabs[t] EXCEPT !.pc = "done", !.said = "in", !.made = minted + 1]
<1>1. tabs[t] \in Tab /\ tabs[t].kind = "login" /\ minted + 1 \in 0 .. MaxSessions
  BY SessionAssumption DEF TypeOK, Login
<1>2. r \in Tab /\ r.pc = "done" /\ r.kind = "login" /\ r.said = "in"
  BY <1>1 DEF Tab
<1>3. tabs' = [tabs EXCEPT ![t] = r] /\ tabs \in [Tabs -> Tab]
  BY DEF Login, TypeOK
<1> HIDE DEF r
<1> QED
  BY <1>2, <1>3, PutTab

LEMMA AnswerTab ==
  ASSUME TypeOK, NEW t \in Tabs, Answer(t)
  PROVE  Moves(t) /\ tabs'[t].pc = "shown"
<1> DEFINE r == [tabs[t] EXCEPT !.pc = "shown",
                     !.page = IF tabs[t].said \in {"page", "saved"} THEN tabs[t].cookie
                              ELSE NoSession]
<1>1. tabs[t] \in Tab /\ NoSession \in 0 .. MaxSessions
  BY SessionAssumption DEF TypeOK, NoSession
<1>2. r \in Tab /\ r.pc = "shown"
  BY <1>1 DEF Tab
<1>3. tabs' = [tabs EXCEPT ![t] = r] /\ tabs \in [Tabs -> Tab]
  BY DEF Answer, TypeOK
<1> HIDE DEF r
<1> QED
  BY <1>2, <1>3, PutTab

LEMMA RestartTabs ==
  ASSUME TypeOK, ServerRestarts
  PROVE  tabs' \in [Tabs -> Tab] /\ \A t \in Tabs : tabs'[t].pc = "shown"
<1>1. ASSUME NEW t \in Tabs
      PROVE  /\ [tabs[t] EXCEPT !.pc = "shown", !.said = "cut"] \in Tab
             /\ [tabs[t] EXCEPT !.pc = "shown", !.said = "cut"].pc = "shown"
  BY DEF TypeOK, Tab
<1> QED
  BY <1>1 DEF ServerRestarts, TypeOK

(* A step of one tab, for what is said of each tab by itself.                *)
LEMMA PassedStep == SessionInv /\ [Next]_vars =>
                       /\ tabs' \in [Tabs -> Tab]
                       /\ \A u \in Tabs : tabs'[u].pc = "passed" => tabs'[u].cookie \in Sessions
                       /\ \A u \in Tabs : tabs'[u].pc = "passed" /\ Posts(u)' =>
                             tabs'[u].cookie = tabs'[u].page
                       /\ AnswersFit'
<1> DEFINE Fits(r) == /\ r.pc = "passed" => r.cookie \in Sessions
                      /\ r.pc = "passed" /\ r.kind \in {"reply", "logout"} => r.cookie = r.page
                      /\ r.pc # "shown" => /\ r.made # NoSession => r.kind = "login"
                                           /\ r.said = "logged out" => r.kind # "login"
<1> SUFFICES ASSUME SessionInv, [Next]_vars
             PROVE  tabs' \in [Tabs -> Tab] /\ \A u \in Tabs : Fits(tabs'[u])
  BY DEF AnswersFit, Posts
<1>1. TypeOK /\ tabs \in [Tabs -> Tab] /\ \A u \in Tabs : Fits(tabs[u])
  BY DEF SessionInv, TypeOK, PassedOwn, AnswersFit, Posts
<1>2. ASSUME NEW t \in Tabs, Moves(t), Fits(tabs'[t])
      PROVE  tabs' \in [Tabs -> Tab] /\ \A u \in Tabs : Fits(tabs'[u])
  <2> HIDE DEF Fits
  <2> QED
    BY <1>1, <1>2 DEF Moves
<1>3. ASSUME NEW t \in Tabs, NEW kind \in Kinds, Send(t, kind) PROVE Moves(t) /\ Fits(tabs'[t])
  BY <1>1, <1>3, SendTab
<1>4. ASSUME NEW t \in Tabs, Gate(t) PROVE Moves(t) /\ Fits(tabs'[t])
  <2>1. CASE LetIn(t) /\ Becomes(t, "passed", tabs[t].said)
    <3>1. tabs[t].cookie \in Sessions
      <4>1. tabs[t].cookie \in 0 .. MaxSessions
        BY <1>1 DEF Tab
      <4>2. tabs[t].cookie # 0
        BY <2>1 DEF LetIn, Alive, NoSession
      <4> QED
        BY <4>1, <4>2, SessionAssumption DEF Sessions
    <3>2. tabs[t].kind \in {"reply", "logout"} => tabs[t].cookie = tabs[t].page
      BY <2>1 DEF LetIn, Posts, VerifyCSRF
    <3> QED
      BY <1>1, <1>4, <2>1, <3>1, <3>2 DEF Becomes, Gate
  <2>2. ASSUME NEW said \in {"forbidden", "to login"}, Becomes(t, "done", said)
        PROVE  Moves(t) /\ Fits(tabs'[t])
    BY <1>1, <1>4, <2>2 DEF Becomes, Gate
  <2> QED
    BY <1>1, <1>4, <2>1, <2>2, GateTab
<1>5. ASSUME NEW t \in Tabs, View(t) \/ SaveReply(t) \/ Logout(t) \/ LoginRefused(t) \/ Cut(t)
      PROVE  Moves(t) /\ Fits(tabs'[t])
  <2>1. PICK pc \in {"shown", "done"}, said \in Words :
           Becomes(t, pc, said) /\ (said = "logged out" => tabs[t].kind # "login")
    BY <1>1, <1>5, HandlerTab
  <2>2. tabs[t].pc # "shown"
    BY <1>5 DEF View, SaveReply, Logout, LoginRefused, Cut
  <2> QED
    BY <1>1, <2>1, <2>2 DEF Becomes
<1>6. ASSUME NEW t \in Tabs, Login(t) PROVE Moves(t) /\ Fits(tabs'[t])
  BY <1>1, <1>6, LoginTab
<1>7. ASSUME NEW t \in Tabs, Answer(t) PROVE Moves(t) /\ Fits(tabs'[t])
  BY <1>1, <1>7, AnswerTab
<1>8. CASE ServerRestarts
  BY <1>1, <1>8, RestartTabs
<1>9. CASE UNCHANGED tabs
  BY <1>1, <1>9
<1> HIDE DEF Fits
<1> QED
  BY <1>2, <1>3, <1>4, <1>5, <1>6, <1>7, <1>8, <1>9 DEF Next, vars, Tick

(* The types of all but the cookie, the tabs and the replies.                *)
StoreTypeOK ==
    /\ now \in Nat /\ minted \in 0 .. MaxSessions
    /\ lastSeen \in [Sessions -> Nat \cup {Gone}]
    /\ ended \in SUBSET Sessions
    /\ requests \in Nat /\ restarts \in Nat
    /\ last \in {"none", "login", "logout"}

LEMMA StoreTypes == SessionInv /\ [Next]_vars => StoreTypeOK' /\ minted <= minted'
<1> SUFFICES ASSUME SessionInv, [Next]_vars PROVE StoreTypeOK' /\ minted <= minted'
  OBVIOUS
<1>1. StoreTypeOK /\ \A t \in Tabs : tabs[t].pc = "passed" => tabs[t].cookie \in Sessions
  BY DEF SessionInv, TypeOK, StoreTypeOK
<1>2. minted \in Int /\ minted <= minted
  BY <1>1, SessionAssumption DEF StoreTypeOK
<1> USE DEF StoreTypeOK
<1>3. ASSUME NEW t \in Tabs, NEW kind \in Kinds, Send(t, kind) PROVE StoreTypeOK' /\ minted <= minted'
  BY <1>1, <1>2, <1>3 DEF Send
<1>4. ASSUME NEW t \in Tabs, Gate(t) PROVE StoreTypeOK' /\ minted <= minted'
  BY <1>1, <1>2, <1>4 DEF Gate, Touch
<1>5. ASSUME NEW t \in Tabs, View(t) \/ SaveReply(t) \/ LoginRefused(t) \/ Cut(t)
      PROVE  StoreTypeOK' /\ minted <= minted'
  BY <1>1, <1>2, <1>5 DEF View, SaveReply, LoginRefused, Cut
<1>6. ASSUME NEW t \in Tabs, Logout(t) PROVE StoreTypeOK' /\ minted <= minted'
  BY <1>1, <1>2, <1>6 DEF Logout
<1>7. ASSUME NEW t \in Tabs, Login(t) PROVE StoreTypeOK' /\ minted <= minted'
  <2>1. minted + 1 \in Sessions
    BY <1>1, <1>7, SessionAssumption DEF Login, Sessions
  <2>2. minted' \in 0 .. MaxSessions /\ minted <= minted'
    BY <1>1, <1>7, <2>1, SessionAssumption DEF Login, Sessions
  <2>3. lastSeen' \in [Sessions -> Nat \cup {Gone}]
    BY <1>1, <1>7 DEF Login
  <2> QED
    BY <1>1, <1>7, <2>2, <2>3 DEF Login
<1>8. ASSUME NEW t \in Tabs, Answer(t) PROVE StoreTypeOK' /\ minted <= minted'
  BY <1>1, <1>2, <1>8 DEF Answer
<1>9. CASE ServerRestarts
  <2>1. lastSeen' \in [Sessions -> Nat \cup {Gone}] /\ ended' \in SUBSET Sessions
    BY <1>1, <1>9 DEF ServerRestarts
  <2>2. UNCHANGED <<now, minted, last, requests>> /\ restarts' = restarts + 1
    BY <1>9 DEF ServerRestarts
  <2> QED
    BY <1>1, <1>2, <2>1, <2>2
<1>10. CASE Tick
  BY <1>1, <1>2, <1>10 DEF Tick
<1>11. CASE UNCHANGED vars
  BY <1>1, <1>2, <1>11 DEF vars
<1> HIDE DEF StoreTypeOK
<1> QED
  BY <1>3, <1>4, <1>5, <1>6, <1>7, <1>8, <1>9, <1>10, <1>11 DEF Next

(* A session never comes back: only Login and Touch give a session state,    *)
(* Login to a new one, Touch to one that has it.                             *)
LEMMA StoreStep == SessionInv /\ [Next]_vars => FreshAbove' /\ EndedForGood'
<1> SUFFICES ASSUME SessionInv, [Next]_vars PROVE FreshAbove' /\ EndedForGood'
  OBVIOUS
<1>1. /\ minted \in Nat /\ lastSeen \in [Sessions -> Nat \cup {Gone}]
      /\ ended \in SUBSET Sessions /\ now \in Nat
      /\ FreshAbove /\ EndedForGood
  BY SessionAssumption DEF SessionInv, TypeOK
<1>2. \A k \in Sessions : k \in Nat
  BY SessionAssumption DEF Sessions
<1> USE DEF FreshAbove, EndedForGood
<1>3. ASSUME NEW t \in Tabs, Gate(t) PROVE FreshAbove' /\ EndedForGood'
  <2>1. UNCHANGED minted
    BY <1>3 DEF Gate
  <2>2. Touch(tabs[t].cookie)
    BY <1>3 DEF Gate
  <2> QED
    BY <1>1, <2>1, <2>2 DEF Touch, Alive
<1>4. ASSUME NEW t \in Tabs, Logout(t) PROVE FreshAbove' /\ EndedForGood'
  <2>1. tabs[t].cookie \in Sessions /\ tabs[t].cookie <= minted
    BY <1>4 DEF Logout, SessionInv, TypeOK, PassedOwn
  <2>2. /\ lastSeen' = [lastSeen EXCEPT ![tabs[t].cookie] = Gone]
        /\ ended' = ended \cup {tabs[t].cookie} /\ minted' = minted
    BY <1>4 DEF Logout
  <2>3. ASSUME NEW c \in Sessions, c <= minted, lastSeen' = [lastSeen EXCEPT ![c] = Gone],
               ended' = ended \cup {c}
        PROVE  FreshAbove' /\ EndedForGood'
    BY <1>1, <1>2, <2>2, <2>3
  <2> QED
    BY <2>1, <2>2, <2>3
<1>5. ASSUME NEW t \in Tabs, Login(t) PROVE FreshAbove' /\ EndedForGood'
  BY <1>1, <1>2, <1>5 DEF Login
<1>6. CASE ServerRestarts
  BY <1>1, <1>6 DEF ServerRestarts
<1>7. CASE UNCHANGED <<minted, lastSeen, ended>>
  BY <1>1, <1>7
<1> QED
  BY <1>3, <1>4, <1>5, <1>6, <1>7
  DEF Next, vars, Send, View, SaveReply, LoginRefused, Answer, Cut, Tick

(* A request that is let in comes with a session that has been made.         *)
LEMMA MadeStep == SessionInv /\ [Next]_vars => PassedOwn'
<1> SUFFICES ASSUME SessionInv, [Next]_vars,
                    NEW u \in Tabs, tabs'[u].pc = "passed"
             PROVE  tabs'[u].cookie <= minted'
  BY PassedStep DEF PassedOwn
<1>1. TypeOK /\ FreshAbove /\ PassedOwn /\ minted \in Nat
  BY SessionAssumption DEF SessionInv, TypeOK
<1>2. minted' \in Nat /\ minted <= minted'
  BY StoreTypes, SessionAssumption DEF StoreTypeOK
<1>3. CASE tabs'[u] = tabs[u]
  BY <1>1, <1>2, <1>3, PassedStep, SessionAssumption DEF PassedOwn, Sessions
<1>4. CASE tabs'[u] # tabs[u]
  <2>1. LetIn(u) /\ tabs'[u].cookie = tabs[u].cookie
    <3>1. ASSUME NEW t \in Tabs, NEW kind \in Kinds, Send(t, kind) PROVE FALSE
      BY <1>1, <1>4, <3>1, SendTab DEF Moves
    <3>2. ASSUME NEW t \in Tabs, Gate(t) PROVE LetIn(u) /\ tabs'[u].cookie = tabs[u].cookie
      BY <1>1, <1>4, <3>2, GateTab DEF Moves, Becomes
    <3>3. ASSUME NEW t \in Tabs, View(t) \/ SaveReply(t) \/ Logout(t) \/ LoginRefused(t) \/ Cut(t)
          PROVE  FALSE
      BY <1>1, <1>4, <3>3, HandlerTab DEF Moves, Becomes
    <3>4. ASSUME NEW t \in Tabs, Login(t) PROVE FALSE
      BY <1>1, <1>4, <3>4, LoginTab DEF Moves
    <3>5. ASSUME NEW t \in Tabs, Answer(t) PROVE FALSE
      BY <1>1, <1>4, <3>5, AnswerTab DEF Moves
    <3>6. CASE ServerRestarts
      BY <1>1, <3>6, RestartTabs
    <3>7. CASE UNCHANGED tabs
      BY <1>4, <3>7
    <3> QED
      BY <3>1, <3>2, <3>3, <3>4, <3>5, <3>6, <3>7 DEF Next, vars, Tick
  <2>2. tabs'[u].cookie \in Sessions /\ tabs'[u].cookie \in Int
    BY PassedStep, SessionAssumption DEF Sessions
  <2>3. ~(tabs'[u].cookie > minted)
    BY <1>1, <2>1, <2>2 DEF LetIn, Alive, FreshAbove
  <2> QED
    BY <1>1, <1>2, <2>2, <2>3
<1> QED
  BY <1>3, <1>4

(* A reply is saved for the session that requireAuth has let in.             *)
LEMMA SavedStep == SessionInv /\ [Next]_vars =>
                      /\ saved' \in SUBSET [by: Sessions, form: Sessions]
                      /\ SavedFromOwnPage'
<1> SUFFICES ASSUME SessionInv, [Next]_vars
             PROVE  saved' \in SUBSET [by: Sessions, form: Sessions] /\ SavedFromOwnPage'
  OBVIOUS
<1>1. saved \in SUBSET [by: Sessions, form: Sessions] /\ SavedFromOwnPage
  BY DEF SessionInv, TypeOK
<1>2. ASSUME NEW t \in Tabs, SaveReply(t)
      PROVE  saved' \in SUBSET [by: Sessions, form: Sessions] /\ SavedFromOwnPage'
  <2>1. tabs[t].cookie \in Sessions /\ tabs[t].page = tabs[t].cookie
    BY <1>2 DEF SaveReply, SessionInv, TypeOK, PassedOwn, Posts
  <2>2. saved' = saved \/ saved' = saved \cup {[by |-> tabs[t].cookie, form |-> tabs[t].page]}
    BY <1>2 DEF SaveReply
  <2> QED
    BY <1>1, <2>1, <2>2 DEF SavedFromOwnPage
<1>3. CASE UNCHANGED saved
  BY <1>1, <1>3 DEF SavedFromOwnPage
<1> QED
  BY <1>2, <1>3
  DEF Next, vars, Send, Gate, View, Logout, Login, LoginRefused, Answer, Cut, ServerRestarts, Tick

(* The cookie that a logout has cleared stays cleared until a login is sent. *)
LEMMA CookieStep == SessionInv /\ [Next]_vars =>
                       jar' \in [tok: 0 .. MaxSessions, till: Nat] /\ OutMeans'
<1> SUFFICES ASSUME SessionInv, [Next]_vars
             PROVE  jar' \in [tok: 0 .. MaxSessions, till: Nat] /\ OutMeans'
  OBVIOUS
<1>1. TypeOK /\ AnswersFit /\ OutMeans /\ jar \in [tok: 0 .. MaxSessions, till: Nat]
  BY DEF SessionInv, TypeOK
<1> USE DEF OutMeans, LoginUnderWay
<1>2. ASSUME NEW t \in Tabs, NEW kind \in Kinds, Send(t, kind) PROVE OutMeans' /\ jar' = jar
  <2>1. Moves(t) /\ tabs'[t].kind = kind
    BY <1>1, <1>2, SendTab
  <2>2. jar' = jar /\ last' = IF kind = "login" THEN "login" ELSE last
    BY <1>2 DEF Send
  <2> QED
    BY <1>1, <2>1, <2>2 DEF Moves
<1>3. ASSUME NEW t \in Tabs, Gate(t) PROVE OutMeans' /\ jar' = jar
  <2>1. Moves(t) /\ tabs'[t].kind # "login"
    BY <1>1, <1>3, GateTab DEF Gate, Becomes
  <2>2. jar' = jar /\ last' = last
    BY <1>3 DEF Gate
  <2> QED
    BY <1>1, <2>1, <2>2 DEF Moves
<1>4. ASSUME NEW t \in Tabs, View(t) \/ SaveReply(t) \/ Logout(t) \/ LoginRefused(t) \/ Cut(t)
      PROVE  OutMeans' /\ jar' = jar
  <2>1. Moves(t) /\ tabs'[t].kind = tabs[t].kind
    BY <1>1, <1>4, HandlerTab DEF Becomes
  <2>2. tabs[t].pc # "shown" /\ jar' = jar /\ last' = last
    BY <1>4 DEF View, SaveReply, Logout, LoginRefused, Cut
  <2> QED
    BY <1>1, <2>1, <2>2 DEF Moves
<1>5. ASSUME NEW t \in Tabs, Login(t) PROVE OutMeans' /\ jar' = jar
  BY <1>1, <1>5 DEF Login
<1>6. ASSUME NEW t \in Tabs, Answer(t)
      PROVE  jar' \in [tok: 0 .. MaxSessions, till: Nat] /\ OutMeans'
  <2>1. tabs[t].made \in 0 .. MaxSessions /\ now + Idle \in Nat /\ tabs[t].pc = "done"
    <3>1. tabs[t] \in Tab /\ now \in Nat
      BY <1>1 DEF TypeOK
    <3>2. tabs[t].pc = "done"
      BY <1>6 DEF Answer
    <3>3. tabs[t].made \in 0 .. MaxSessions
      BY <3>1 DEF Tab
    <3>4. now + Idle \in Nat
      BY <3>1, SessionAssumption
    <3> QED
      BY <3>2, <3>3, <3>4
  <2>2. jar' \in [tok: 0 .. MaxSessions, till: Nat]
    BY <1>1, <1>6, <2>1, SessionAssumption DEF Answer, SetCookies, NoCookie, NoSession
  <2>3. Moves(t) /\ tabs'[t].pc = "shown"
    BY <1>1, <1>6, AnswerTab
  <2>4. last' = "logout" => ~LoginUnderWay
    BY <1>1, <1>6 DEF Answer
  <2>5. last' = "logout" => tabs[t].made = NoSession
    BY <1>1, <2>1, <2>4 DEF AnswersFit
  <2>6. last' = "logout" => jar' = NoCookie
    BY <1>1, <1>6, <2>5 DEF Answer, SetCookies
  <2> QED
    BY <2>2, <2>3, <2>4, <2>6 DEF Moves
<1>7. CASE ServerRestarts
  <2>1. \A u \in Tabs : tabs'[u].pc = "shown"
    BY <1>1, <1>7, RestartTabs
  <2> QED
    BY <1>1, <1>7, <2>1 DEF ServerRestarts
<1>8. CASE UNCHANGED <<tabs, jar, last>>
  BY <1>1, <1>8
<1> QED
  BY <1>1, <1>2, <1>3, <1>4, <1>5, <1>6, <1>7, <1>8 DEF Next, vars, Tick

(* The invariant holds in every reachable state.                             *)
THEOREM SessionsSafe == Spec => []SessionInv
<1>1. SessionInv /\ [Next]_vars => SessionInv'
  BY PassedStep, MadeStep, StoreTypes, StoreStep, SavedStep, CookieStep
  DEF SessionInv, TypeOK, StoreTypeOK
<1> QED
  BY InitInv, <1>1, PTL DEF Spec

(* Every reachable state has its types; a request that requireAuth has let   *)
(* in came with a session.                                                   *)
THEOREM SessionTypes == Spec => []TypeOK
<1>1. SessionInv => TypeOK
  BY DEF SessionInv
<1> QED
  BY SessionsSafe, <1>1, PTL

(* A session that has ended is never alive again: Touch and Destroy agree,   *)
(* whatever requests of that session are under way.                          *)
THEOREM NoSessionReturns == Spec => []EndedForGood
<1>1. SessionInv => EndedForGood
  BY DEF SessionInv
<1> QED
  BY SessionsSafe, <1>1, PTL

(* A reply is saved only from a page of the session it was sent with: what   *)
(* VerifyCSRF has checked still holds when handleAdminReply writes.          *)
THEOREM RepliesFromOwnPage == Spec => []SavedFromOwnPage
<1>1. SessionInv => SavedFromOwnPage
  BY DEF SessionInv
<1> QED
  BY SessionsSafe, <1>1, PTL

(* After a logout the browser holds no cookie of a live session, until a     *)
(* login is sent.                                                            *)
THEOREM LogoutLogsOut == Spec => []LoggedOut
<1>1. SessionInv => LoggedOut
  BY DEF SessionInv, TypeOK, OutMeans, LoggedOut, NoCookie
<1> QED
  BY SessionsSafe, <1>1, PTL
=============================================================================
