---------------------------- MODULE AdminSessions ----------------------------
(***************************************************************************)
(* The receiver's sessions: SessionStore in the server's memory, the       *)
(* session cookie in the receiver's browser, and the requests between      *)
(* them.  Every request of a tab goes through four steps that interleave   *)
(* with those of the other tabs: sent with the cookie the browser holds,   *)
(* let in by requireAuth (Touch, VerifyCSRF), carried out, answered.  The  *)
(* answer sets or clears the cookie; it may be lost.  A restart of the     *)
(* server forgets all sessions and breaks the requests it is working on.   *)
(*                                                                         *)
(* A session is the number of the login that made it; the CSRF token of a  *)
(* page is an HMAC of the session token, modelled by the number itself.    *)
(* The cookie's other attributes are left out, as are the forms of the     *)
(* login page (module AnonForms).                                          *)
(***************************************************************************)
EXTENDS Integers

CONSTANTS
    Tabs,         \* tabs of the receiver's browser
    Idle,         \* idleTimeout, which is also the MaxAge of the cookie
    MaxSessions,  \* bound on the logins
    MaxRequests,  \* bound on the requests
    MaxRestarts,  \* bound on the restarts
    MaxNow        \* bound on the clock

ASSUME SessionAssumption ==
    /\ Idle \in Nat \ {0} /\ MaxSessions \in Nat /\ MaxRequests \in Nat
    /\ MaxRestarts \in Nat /\ MaxNow \in Nat

VARIABLES
    now,
    minted,    \* sessions made so far
    lastSeen,  \* the map of SessionStore: session -> LastSeen, or Gone
    ended,     \* sessions deleted, by logout, idleness or restart
    jar,       \* the session cookie: session and expiry
    tabs,      \* what each tab shows or waits for
    saved,     \* replies saved: session, session of the form
    last,      \* the last of: a login sent, a logout answered
    requests, restarts

vars == <<now, minted, lastSeen, ended, jar, tabs, saved, last, requests, restarts>>

NoSession == 0
Gone      == -1
Sessions  == 1 .. MaxSessions
Kinds     == {"view", "reply", "logout", "leave", "login"}   \* leave: GET of /admin/logout
\* page: the session whose CSRF token the page carries; cookie: what was sent;
\* made: the session a login has made; said: what the answer says.
Tab == [pc: {"shown", "sent", "passed", "done"}, kind: Kinds, page: 0 .. MaxSessions,
        cookie: 0 .. MaxSessions, made: 0 .. MaxSessions,
        said: {"", "page", "error", "forbidden", "to login", "saved", "logged out", "in", "cut"}]

NewTab == [pc |-> "shown", kind |-> "view", page |-> NoSession, cookie |-> NoSession,
           made |-> NoSession, said |-> ""]

NoCookie == [tok |-> NoSession, till |-> 0]

\* The state of SessionStore for k at this moment, before any request of it.
Alive(k) == k # NoSession /\ lastSeen[k] # Gone /\ now - lastSeen[k] <= Idle

------------------------------------------------------------------------------
(* The browser.                                                              *)

\* A GET of an admin page, a POST of the form the tab shows, or a login.
Send(t, kind) ==
    /\ tabs[t].pc = "shown" /\ requests < MaxRequests
    /\ kind \in {"reply", "logout"} => tabs[t].page # NoSession
    /\ tabs' = [tabs EXCEPT ![t] = [@ EXCEPT !.pc = "sent", !.kind = kind, !.said = "",
                   !.made = NoSession,
                   !.cookie = IF now < jar.till THEN jar.tok ELSE NoSession]]
    /\ last' = IF kind = "login" THEN "login" ELSE last
    /\ requests' = requests + 1
    /\ UNCHANGED <<now, minted, lastSeen, ended, jar, saved, restarts>>

\* The logout leaves the cookie in the browser.
BugSetCookies(t) == IF tabs[t].made # NoSession
                    THEN [tok |-> tabs[t].made, till |-> now + Idle] ELSE jar

\* What the headers of an answer do to the jar: setSessionCookie on a login,
\* clearSessionCookie on a logout.
SetCookies(t) ==
    IF tabs[t].made # NoSession THEN [tok |-> tabs[t].made, till |-> now + Idle]
    ELSE IF tabs[t].said = "logged out" THEN NoCookie
    ELSE jar

LoginUnderWay == \E t \in Tabs : tabs[t].kind = "login" /\ tabs[t].pc # "shown"

Answer(t) ==
    /\ tabs[t].pc = "done"
    /\ jar' = SetCookies(t)
    /\ tabs' = [tabs EXCEPT ![t] = [@ EXCEPT !.pc = "shown",
                   !.page = IF tabs[t].said \in {"page", "saved"} THEN tabs[t].cookie
                               ELSE NoSession]]
    /\ last' = IF tabs[t].said = "logged out" /\ ~LoginUnderWay THEN "logout" ELSE last
    /\ UNCHANGED <<now, minted, lastSeen, ended, saved, requests, restarts>>

\* The connection breaks before the request has arrived or after the handler
\* has run, which a broken connection does not stop; the page stays as it was.
Cut(t) ==
    /\ tabs[t].pc \in {"sent", "done"}
    /\ tabs' = [tabs EXCEPT ![t] = [@ EXCEPT !.pc = "shown", !.said = "cut"]]
    /\ UNCHANGED <<now, minted, lastSeen, ended, jar, saved, last, requests, restarts>>

------------------------------------------------------------------------------
(* The server.                                                               *)

\* Any session's form will do.
BugVerifyCSRF(k, form) == form # NoSession
VerifyCSRF(k, form) == k = form

\* Touch, under the mutex: refresh the session or, when it has been idle for
\* too long, delete it.
Touch(k) ==
    \/ /\ Alive(k)
       /\ lastSeen' = [lastSeen EXCEPT ![k] = now]
       /\ UNCHANGED ended
    \/ /\ k \in Sessions /\ lastSeen[k] # Gone /\ ~Alive(k)
       /\ lastSeen' = [lastSeen EXCEPT ![k] = Gone]
       /\ ended' = ended \cup {k}
    \/ /\ ~(k \in Sessions /\ lastSeen[k] # Gone)
       /\ UNCHANGED <<lastSeen, ended>>

Posts(t) == tabs[t].kind \in {"reply", "logout"}

\* Only a POST is looked at.
BugLetIn(t) == Posts(t) => VerifyCSRF(tabs[t].cookie, tabs[t].page)

LetIn(t) ==
    /\ Alive(tabs[t].cookie)
    /\ Posts(t) => VerifyCSRF(tabs[t].cookie, tabs[t].page)

\* requireAuth: no session leads to the login page; a POST needs the token of
\* the session it comes with.
Gate(t) ==
    /\ tabs[t].pc = "sent" /\ tabs[t].kind # "login"
    /\ Touch(tabs[t].cookie)
    /\ \/ /\ LetIn(t)
          /\ tabs' = [tabs EXCEPT ![t] = [@ EXCEPT !.pc = "passed"]]
       \/ /\ ~LetIn(t)
          /\ tabs' = [tabs EXCEPT ![t] = [@ EXCEPT !.pc = "done",
                         !.said = IF Alive(tabs[t].cookie) THEN "forbidden" ELSE "to login"]]
    /\ UNCHANGED <<now, minted, jar, saved, last, requests, restarts>>

\* The session's last use is noted when its request has been carried out.
BugView(t) ==
    /\ tabs[t].pc = "passed" /\ tabs[t].kind = "view"
    /\ lastSeen' = [lastSeen EXCEPT ![tabs[t].cookie] = now]
    /\ tabs' = [tabs EXCEPT ![t] = [@ EXCEPT !.pc = "done", !.said = "page"]]
    /\ UNCHANGED <<now, minted, ended, jar, saved, last, requests, restarts>>

\* handleAdminInbox, handleAdminCase, GET of handleAdminReply: render, with the
\* CSRF token of the session the cookie names; or an error.
View(t) ==
    /\ tabs[t].pc = "passed" /\ tabs[t].kind = "view"
    /\ \E said \in {"page", "error"} :
          tabs' = [tabs EXCEPT ![t] = [@ EXCEPT !.pc = "done", !.said = said]]
    /\ UNCHANGED <<now, minted, lastSeen, ended, jar, saved, last, requests, restarts>>

\* POST of handleAdminReply: saved, or refused on the page it is written in, or failed.
SaveReply(t) ==
    /\ tabs[t].pc = "passed" /\ tabs[t].kind = "reply"
    /\ \/ /\ saved' = saved \cup {[by |-> tabs[t].cookie, form |-> tabs[t].page]}
          /\ tabs' = [tabs EXCEPT ![t] = [@ EXCEPT !.pc = "done", !.said = "saved"]]
       \/ /\ \E said \in {"page", "error"} :
                tabs' = [tabs EXCEPT ![t] = [@ EXCEPT !.pc = "done", !.said = said]]
          /\ UNCHANGED saved
    /\ UNCHANGED <<now, minted, lastSeen, ended, jar, last, requests, restarts>>

\* handleAdminLogout, which asks for no method
Logout(t) ==
    /\ tabs[t].pc = "passed" /\ tabs[t].kind \in {"logout", "leave"}
    /\ lastSeen' = [lastSeen EXCEPT ![tabs[t].cookie] = Gone]
    /\ ended' = ended \cup {tabs[t].cookie}
    /\ tabs' = [tabs EXCEPT ![t] = [@ EXCEPT !.pc = "done", !.said = "logged out"]]
    /\ UNCHANGED <<now, minted, jar, saved, last, requests, restarts>>

\* SessionStore.New draws a token of its own.
Login(t) ==
    /\ tabs[t].pc = "sent" /\ tabs[t].kind = "login" /\ minted < MaxSessions
    /\ minted' = minted + 1
    /\ lastSeen' = [lastSeen EXCEPT ![minted + 1] = now]
    /\ tabs' = [tabs EXCEPT ![t] = [@ EXCEPT !.pc = "done", !.said = "in", !.made = minted + 1]]
    /\ UNCHANGED <<now, ended, jar, saved, last, requests, restarts>>

\* Wrong credentials, or the duress code: the wipe leaves the sessions alone.
LoginRefused(t) ==
    /\ tabs[t].pc = "sent" /\ tabs[t].kind = "login"
    /\ tabs' = [tabs EXCEPT ![t] = [@ EXCEPT !.pc = "done", !.said = "to login"]]
    /\ UNCHANGED <<now, minted, lastSeen, ended, jar, saved, last, requests, restarts>>

\* Sessions live in memory; csrfKey does not change.
ServerRestarts ==
    /\ restarts < MaxRestarts
    /\ restarts' = restarts + 1
    /\ ended' = ended \cup {k \in Sessions : lastSeen[k] # Gone}
    /\ lastSeen' = [k \in Sessions |-> Gone]
    /\ tabs' = [t \in Tabs |-> IF tabs[t].pc = "shown" THEN tabs[t]
                               ELSE [tabs[t] EXCEPT !.pc = "shown", !.said = "cut"]]
    /\ UNCHANGED <<now, minted, jar, saved, last, requests>>

Tick ==
    /\ now < MaxNow
    /\ now' = now + 1
    /\ UNCHANGED <<minted, lastSeen, ended, jar, tabs, saved, last, requests, restarts>>

Init ==
    /\ now = 0 /\ minted = 0 /\ requests = 0 /\ restarts = 0
    /\ lastSeen = [k \in Sessions |-> Gone]
    /\ ended = {} /\ saved = {} /\ last = "none"
    /\ jar = NoCookie
    /\ tabs = [t \in Tabs |-> NewTab]

Next ==
    \/ \E t \in Tabs :
          \/ \E kind \in Kinds : Send(t, kind)
          \/ Gate(t) \/ View(t) \/ SaveReply(t) \/ Logout(t)
          \/ Login(t) \/ LoginRefused(t)
          \/ Answer(t) \/ Cut(t)
    \/ ServerRestarts
    \/ Tick

Spec == Init /\ [][Next]_vars

------------------------------------------------------------------------------
(* Types; a request that was let in came with the session it is carried out  *)
(* for.                                                                      *)
TypeOK ==
    /\ now \in Nat /\ minted \in 0 .. MaxSessions
    /\ lastSeen \in [Sessions -> Nat \cup {Gone}]
    /\ ended \in SUBSET Sessions
    /\ jar \in [tok: 0 .. MaxSessions, till: Nat]
    /\ tabs \in [Tabs -> Tab]
    /\ \A t \in Tabs : tabs[t].pc = "passed" => tabs[t].cookie \in Sessions
    /\ saved \in SUBSET [by: Sessions, form: Sessions]
    /\ last \in {"none", "login", "logout"}
    /\ requests \in Nat /\ restarts \in Nat

(* A session that has ended, by logout, by idleness or with its process, is  *)
(* never alive again, whatever requests of it are still being carried out.   *)
EndedForGood == \A k \in ended : lastSeen[k] = Gone

(* A reply is saved only from a page of the session it was sent with: a form *)
(* left open in a tab across a logout and a new login is refused.            *)
SavedFromOwnPage == \A r \in saved : r.by = r.form

(* Once a logout has been answered with no login under way, and until one is *)
(* sent, the browser holds no cookie of a live session, whatever other tabs  *)
(* were doing meanwhile.                                                     *)
LoggedOut == last = "logout" => ~(now < jar.till /\ Alive(jar.tok))
=============================================================================
