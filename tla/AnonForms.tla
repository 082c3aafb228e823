------------------------------ MODULE AnonForms ------------------------------
(***************************************************************************)
(* The forms of visitors who have no session: /submit, /reply and          *)
(* /admin/login.  The server keeps nothing about them.  A GET mints a      *)
(* random token and hands it out twice, as a cookie and as a hidden field; *)
(* a POST is taken if the two come back equal (double submit).  The form   *)
(* of /submit also carries a dated proof-of-work token.                    *)
(*                                                                         *)
(* Everything that makes this hard is in the browser: one cookie jar       *)
(* shared by several tabs, cookies scoped by path that expire, Back,       *)
(* uploads that take time, connections that break before or after the     *)
(* server has acted.  A tick is a minute; the order of steps within one is *)
(* free.  Tokens are numbered in the order in which their forms arrive.    *)
(***************************************************************************)
EXTENDS Integers, Sequences

CONSTANTS
    Tabs,        \* tabs of one browser
    CookieLife,  \* MaxAge of the cookie
    PowLife,     \* powTokenLifetime
    Upload,      \* ReadTimeout of the server
    MaxForms,    \* bound on the forms opened
    MaxPosts,    \* bound on the posts sent
    MaxNow       \* bound on the clock

ASSUME FormAssumption ==
    /\ CookieLife \in Nat \ {0} /\ PowLife \in Nat /\ Upload \in Nat
    /\ MaxForms \in Nat /\ MaxPosts \in Nat /\ MaxNow \in Nat

VARIABLES
    now,
    powOn,   \* security.pow.enabled
    jar,     \* the browser's cookies: path -> token and expiry
    opened,  \* token -> page and time of the GET that minted it
    tabs,    \* what each tab shows, or has sent
    stored,  \* the submissions stored: token of the form, time
    posts    \* posts so far

vars == <<now, powOn, jar, opened, tabs, stored, posts>>

Pages  == {"/submit", "/reply", "/admin/login"}
NoTok  == 0
Cookie == [tok: Nat, till: Int]
Form   == [page: Pages, csrf: Nat, pow: Int]
\* form and prev: the form shown or sent, and the one Back leads to;
\* cookie, at, since: sent along with the post, when, and after how many GETs.
Tab    == [pc: {"form", "sent", "shown"}, form: Form, prev: Form,
           cookie: Nat, at: Int, since: Nat,
           said: {"", "dropped", "csrf", "pow", "error", "code", "ok", "again", "cut"}]

Blank    == [page |-> "/submit", csrf |-> NoTok, pow |-> 0]
EmptyTab == [pc |-> "shown", form |-> Blank, prev |-> Blank,
             cookie |-> NoTok, at |-> 0, since |-> 0, said |-> ""]

\* One cookie for the whole site.
BugCookiePaths(p) == Pages
\* handleReply and handleAdminLogin set the cookie at their own path, and
\* renderPublic sets it at /submit for whichever page it renders.
CookiePaths(p) == {p, "/submit"}

\* readAnonCSRFCookie: what the browser sends with a post to p.
Sends(p) == IF now < jar[p].till THEN jar[p].tok ELSE NoTok

Open(t, p) ==
    LET tok == Len(opened) + 1 IN
    /\ tabs[t].pc # "sent" /\ tok <= MaxForms
    /\ opened' = Append(opened, [page |-> p, at |-> now])
    /\ jar' = [q \in Pages |-> IF q \in CookiePaths(p)
                               THEN [tok |-> tok, till |-> now + CookieLife] ELSE jar[q]]
    /\ tabs' = [tabs EXCEPT ![t] = [EmptyTab EXCEPT !.pc = "form",
                   !.form = [page |-> p, csrf |-> tok, pow |-> now],
                   !.prev = [page |-> p, csrf |-> tok, pow |-> now]]]
    /\ UNCHANGED <<now, powOn, stored, posts>>

Send(t) ==
    /\ tabs[t].pc = "form" /\ posts < MaxPosts
    /\ tabs' = [tabs EXCEPT ![t] = [@ EXCEPT !.pc = "sent", !.at = now, !.since = Len(opened),
                                             !.cookie = Sends(tabs[t].form.page)]]
    /\ posts' = posts + 1
    /\ UNCHANGED <<now, powOn, jar, opened, stored>>

\* Two empty strings are equal.
BugVerifyAnonCSRF(cookie, field) == cookie = field
\* VerifyAnonCSRF
VerifyAnonCSRF(cookie, field) == cookie # NoTok /\ field # NoTok /\ cookie = field

\* The lifetime of the cookie.
BugVerifyPoW(issued) == powOn => now - issued <= CookieLife
\* VerifyPoWToken looks at the token only, and nothing remembers it.
VerifyPoW(issued) == powOn => now - issued <= PowLife

\* What the tab shows; the answer itself may be lost.
Answer(t, said) ==
    \E s \in {said, "cut"} : tabs' = [tabs EXCEPT ![t] = [@ EXCEPT !.pc = "shown", !.said = s]]

\* A re-rendered form: renderPublic was given no token for it.
Rerender(t, said) ==
    \/ tabs' = [tabs EXCEPT ![t] = [@ EXCEPT !.pc = "form", !.said = said, !.prev = tabs[t].form,
                                             !.form = [tabs[t].form EXCEPT !.csrf = NoTok]]]
    \/ tabs' = [tabs EXCEPT ![t] = [@ EXCEPT !.pc = "shown", !.said = "cut"]]

\* The body is read by now, within the read timeout.
Arrives(t, p) ==
    /\ tabs[t].pc = "sent" /\ tabs[t].form.page = p /\ now <= tabs[t].at + Upload
    /\ UNCHANGED <<now, powOn, jar, opened, posts>>

\* processSubmit: a body that does not parse or a filled honeypot are dropped;
\* then CSRF, PoW, the fields and CreateCase.
PostSubmit(t) ==
    LET f == tabs[t].form
        csrf == VerifyAnonCSRF(tabs[t].cookie, f.csrf)
    IN
    /\ Arrives(t, "/submit")
    /\ \/ Answer(t, "dropped") /\ UNCHANGED stored
       \/ ~csrf /\ Answer(t, "csrf") /\ UNCHANGED stored
       \/ csrf /\ ~VerifyPoW(f.pow) /\ Answer(t, "pow") /\ UNCHANGED stored
       \/ csrf /\ VerifyPoW(f.pow) /\ Answer(t, "error") /\ UNCHANGED stored
       \/ /\ csrf /\ VerifyPoW(f.pow) /\ Answer(t, "code")
          /\ stored' = Append(stored, [form |-> f.csrf, at |-> now])

\* handleReply and handleAdminLogin: CSRF, then the answer on a fresh page (a
\* missing code, a good login) or in the form rendered again.
PostOther(t) ==
    LET csrf == VerifyAnonCSRF(tabs[t].cookie, tabs[t].form.csrf) IN
    /\ Arrives(t, "/reply") \/ Arrives(t, "/admin/login")
    /\ \/ ~csrf /\ Answer(t, "csrf")
       \/ csrf /\ Answer(t, "ok")
       \/ csrf /\ Rerender(t, "again")
    /\ UNCHANGED stored

\* The connection breaks before the body is read, or the timeout cuts it.
Cut(t) ==
    /\ tabs[t].pc = "sent"
    /\ tabs' = [tabs EXCEPT ![t] = [@ EXCEPT !.pc = "shown", !.said = "cut"]]
    /\ UNCHANGED <<now, powOn, jar, opened, stored, posts>>

\* Back shows the form as it was sent.
Back(t) ==
    /\ \/ tabs[t].pc = "shown" /\ tabs[t].form.csrf # NoTok
       \/ tabs[t].pc = "form" /\ tabs[t].prev # tabs[t].form
    /\ tabs' = [tabs EXCEPT ![t] = [@ EXCEPT !.pc = "form", !.said = "",
                   !.form = IF tabs[t].pc = "form" THEN tabs[t].prev ELSE tabs[t].form]]
    /\ UNCHANGED <<now, powOn, jar, opened, stored, posts>>

Tick ==
    /\ now < MaxNow
    /\ now' = now + 1
    /\ UNCHANGED <<powOn, jar, opened, tabs, stored, posts>>

Init ==
    /\ now = 0 /\ powOn \in BOOLEAN
    /\ jar = [p \in Pages |-> [tok |-> NoTok, till |-> 0]]
    /\ opened = <<>> /\ stored = <<>> /\ posts = 0
    /\ tabs = [t \in Tabs |-> EmptyTab]

Next ==
    \/ \E t \in Tabs :
          \/ \E p \in Pages : Open(t, p)
          \/ Send(t) \/ PostSubmit(t) \/ PostOther(t) \/ Cut(t) \/ Back(t)
    \/ Tick

Spec == Init /\ [][Next]_vars

------------------------------------------------------------------------------
(* Types of the browser's state and of what the server has stored; a form    *)
(* that was taken and rendered again had a token.                            *)
TypeOK ==
    /\ now \in Int /\ powOn \in BOOLEAN
    /\ jar \in [Pages -> Cookie]
    /\ opened \in Seq([page: Pages, at: Int])
    /\ tabs \in [Tabs -> Tab]
    /\ \A t \in Tabs : tabs[t].said = "again" => tabs[t].prev.csrf # NoTok
    /\ stored \in Seq([form: Nat \ {NoTok}, at: Int])
    /\ posts \in Nat

\* A post was refused although its form is neither re-rendered, nor expired,
\* nor superseded by a newer form of the same page.
RefusedInVain(t) ==
    LET f == tabs[t].form IN
    /\ tabs[t].said = "csrf" /\ f.csrf # NoTok
    /\ tabs[t].at < opened[f.csrf].at + CookieLife
    /\ ~\E k \in (f.csrf + 1) .. tabs[t].since : opened[k].page = f.page

(* The pages /reply and /admin/login do not disturb one another, nor does    *)
(* /submit disturb them: the newest form a visitor has of such a page works  *)
(* for as long as its cookie lives, whatever else they open meanwhile.       *)
OwnFormWorks ==
    \A t \in Tabs : RefusedInVain(t) => tabs[t].form.page = "/submit"

(* "so /submit and /reply don't share the same cookie value": nor does       *)
(* another page take the newest /submit form its cookie away.                *)
SubmitFormWorks == \A t \in Tabs : ~RefusedInVain(t)

(* A case is stored only from a /submit form that was, at the time of the    *)
(* store, no older than the proof of work allows, or with the proof of work  *)
(* off than the cookie and the upload allow: the proof of work is dated when *)
(* the form is made but checked when the whole body has come in.             *)
StoredFresh ==
    \A i \in 1 .. Len(stored) :
        LET o == opened[stored[i].form] IN
        /\ o.page = "/submit"
        /\ stored[i].at - o.at <= CookieLife + Upload
        /\ powOn => stored[i].at - o.at <= PowLife
=============================================================================
