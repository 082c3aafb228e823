--------------------------- MODULE AnonFormsProofs ---------------------------
(***************************************************************************)
(* Proofs about AnonForms for any number of tabs, forms and posts and any  *)
(* lifetimes: what is stored was fresh, and the newest form of a page      *)
(* other than /submit is not refused while its cookie lives.               *)
(***************************************************************************)
EXTENDS AnonForms, SequenceTheorems, TLAPS

\* What a form says of itself is true of the GET that minted its token.
Known(f) ==
    f.csrf # NoTok => /\ f.csrf \in 1 .. Len(opened)
                      /\ opened[f.csrf].page = f.page /\ opened[f.csrf].at = f.pow

\* A form is still good: its cookie lives at time t, and of the first n forms
\* none of the same page is newer.
Good(f, t, n) ==
    /\ f.csrf # NoTok /\ t < opened[f.csrf].at + CookieLife
    /\ \A k \in (f.csrf + 1) .. n : opened[k].page # f.page

\* A cookie lives as long as it should, and holds the newest token of its path;
\* that of /submit may hold that of any page.
JarFits ==
    \A p \in Pages :
        /\ jar[p].tok # NoTok => /\ jar[p].tok \in 1 .. Len(opened)
                                 /\ jar[p].till = opened[jar[p].tok].at + CookieLife
        /\ p # "/submit" =>
              /\ jar[p].tok # NoTok => opened[jar[p].tok].page = p
              /\ \A k \in (jar[p].tok + 1) .. Len(opened) : opened[k].page # p

\* A tab knows its forms; a post carries a cookie that lived when it was sent,
\* and if its form was good then, the one it needs.
TabFits(t) ==
    /\ Known(tabs[t].form) /\ Known(tabs[t].prev) /\ tabs[t].since <= Len(opened)
    /\ tabs[t].said = "csrf" => tabs[t].pc = "shown"
    /\ tabs[t].said = "again" => tabs[t].prev.csrf # NoTok
    /\ tabs[t].pc = "sent" =>
          /\ tabs[t].cookie # NoTok => /\ tabs[t].cookie \in 1 .. Len(opened)
                                       /\ tabs[t].at < opened[tabs[t].cookie].at + CookieLife
          /\ tabs[t].form.page # "/submit" /\ Good(tabs[t].form, tabs[t].at, tabs[t].since)
                => tabs[t].cookie = tabs[t].form.csrf
    /\ tabs[t].said = "csrf" /\ tabs[t].form.page # "/submit"
          => ~Good(tabs[t].form, tabs[t].at, tabs[t].since)

\* What is stored came from a form that exists.
StoredKnown == \A i \in 1 .. Len(stored) : stored[i].form \in 1 .. Len(opened)

FormInv ==
    /\ TypeOK /\ JarFits /\ StoredKnown /\ StoredFresh
    /\ \A t \in Tabs : TabFits(t)

-----------------------------------------------------------------------------
(* What each step does to its tab.                                         *)

\* What a tab may show.
Words == {"", "dropped", "csrf", "pow", "error", "code", "ok", "again", "cut"}

\* The other tabs stay as they are.
Moves(t) ==
    /\ tabs' \in [Tabs -> Tab]
    /\ \A u \in Tabs \ {t} : tabs'[u] = tabs[u]

\* The post of the tab stays what it was.
SamePost(t) ==
    /\ tabs'[t].cookie = tabs[t].cookie
    /\ tabs'[t].at = tabs[t].at /\ tabs'[t].since = tabs[t].since

SameForms(t) == tabs'[t].form = tabs[t].form /\ tabs'[t].prev = tabs[t].prev

LEMMA PutTab ==
  ASSUME NEW t \in Tabs, NEW r \in Tab, tabs \in [Tabs -> Tab], tabs' = [tabs EXCEPT ![t] = r]
  PROVE  Moves(t) /\ tabs'[t] = r
BY DEF Moves

(* The fields of a tab.                                                      *)
LEMMA Fields ==
  ASSUME TypeOK, NEW t \in Tabs
  PROVE  /\ tabs \in [Tabs -> Tab] /\ tabs[t] \in Tab
         /\ tabs[t].form \in Form /\ tabs[t].prev \in Form
         /\ tabs[t].form.csrf \in Nat /\ tabs[t].form.page \in Pages /\ tabs[t].form.pow \in Int
         /\ tabs[t].prev.csrf \in Nat
         /\ tabs[t].cookie \in Nat /\ tabs[t].at \in Int /\ tabs[t].since \in Nat
<1>1. tabs \in [Tabs -> Tab] /\ tabs[t] \in Tab
  BY DEF TypeOK
<1>2. tabs[t].form \in Form /\ tabs[t].prev \in Form
  BY <1>1 DEF Tab
<1>3. /\ tabs[t].form.csrf \in Nat /\ tabs[t].form.page \in Pages /\ tabs[t].form.pow \in Int
      /\ tabs[t].prev.csrf \in Nat
  BY <1>2 DEF Form
<1>4. tabs[t].cookie \in Nat /\ tabs[t].at \in Int /\ tabs[t].since \in Nat
  BY <1>1 DEF Tab
<1> QED
  BY <1>1, <1>2, <1>3, <1>4

(* There are so many forms.                                                  *)
LEMMA OpenedLen ==
  ASSUME TypeOK
  PROVE  Len(opened) \in Nat
<1>1. opened \in Seq([page: Pages, at: Int])
  BY DEF TypeOK
<1> QED
  BY <1>1, LenProperties

(* An answer is shown, or lost.                                              *)
LEMMA Said ==
  ASSUME TypeOK, NEW t \in Tabs, NEW said \in Words,
         tabs' = [tabs EXCEPT ![t] = [@ EXCEPT !.pc = "shown", !.said = said]]
  PROVE  /\ Moves(t) /\ SamePost(t) /\ SameForms(t)
         /\ tabs'[t].pc = "shown" /\ tabs'[t].said = said
<1> DEFINE r == [tabs[t] EXCEPT !.pc = "shown", !.said = said]
<1>1. tabs \in [Tabs -> Tab] /\ tabs[t] \in Tab
  BY Fields
<1>2. /\ r \in Tab /\ r.pc = "shown" /\ r.said = said
      /\ r.cookie = tabs[t].cookie /\ r.at = tabs[t].at /\ r.since = tabs[t].since
      /\ r.form = tabs[t].form /\ r.prev = tabs[t].prev
  BY <1>1 DEF Tab, Words
<1>3. tabs' = [tabs EXCEPT ![t] = r]
  OBVIOUS
<1> HIDE DEF r
<1>4. Moves(t) /\ tabs'[t] = r
  BY <1>1, <1>2, <1>3, PutTab
<1> QED
  BY <1>2, <1>4 DEF SamePost, SameForms

LEMMA AnswerTab ==
  ASSUME TypeOK, NEW t \in Tabs, NEW said \in Words, Answer(t, said)
  PROVE  /\ Moves(t) /\ SamePost(t) /\ SameForms(t)
         /\ tabs'[t].pc = "shown" /\ tabs'[t].said \in {said, "cut"}
<1>1. PICK s \in {said, "cut"} : tabs' = [tabs EXCEPT ![t] = [@ EXCEPT !.pc = "shown", !.said = s]]
  BY DEF Answer
<1>2. s \in Words
  BY DEF Words
<1> QED
  BY <1>1, <1>2, Said

LEMMA SendTab ==
  ASSUME TypeOK, NEW t \in Tabs, Send(t)
  PROVE  /\ Moves(t) /\ SameForms(t)
         /\ tabs[t].pc = "form" /\ tabs'[t].pc = "sent" /\ tabs'[t].said = tabs[t].said
         /\ tabs'[t].at = now /\ tabs'[t].since = Len(opened)
         /\ tabs'[t].cookie = Sends(tabs[t].form.page)
<1>1. tabs \in [Tabs -> Tab] /\ tabs[t] \in Tab /\ tabs[t].form.page \in Pages /\ now \in Int
  BY Fields DEF TypeOK
<1>2. PICK n \in Nat : n = Len(opened)
  BY OpenedLen
<1>3. \A p \in Pages : jar[p].tok \in Nat /\ NoTok \in Nat
  BY DEF TypeOK, Cookie, NoTok
<1>4. PICK c \in Nat : c = Sends(tabs[t].form.page)
  BY <1>1, <1>3 DEF Sends
<1> DEFINE r == [tabs[t] EXCEPT !.pc = "sent", !.at = now, !.since = n, !.cookie = c]
<1>5. /\ r \in Tab /\ r.pc = "sent" /\ r.said = tabs[t].said
      /\ r.cookie = c /\ r.at = now /\ r.since = n
      /\ r.form = tabs[t].form /\ r.prev = tabs[t].prev
  BY <1>1 DEF Tab
<1>6. tabs' = [tabs EXCEPT ![t] = r] /\ tabs[t].pc = "form"
  BY <1>2, <1>4 DEF Send
<1> HIDE DEF r
<1>7. Moves(t) /\ tabs'[t] = r
  BY <1>1, <1>5, <1>6, PutTab
<1> QED
  BY <1>2, <1>4, <1>5, <1>6, <1>7 DEF SameForms

LEMMA RerenderTab ==
  ASSUME TypeOK, NEW t \in Tabs, Rerender(t, "again")
  PROVE  /\ Moves(t) /\ SamePost(t)
         /\ \/ SameForms(t) /\ tabs'[t].pc = "shown" /\ tabs'[t].said = "cut"
            \/ /\ tabs'[t].pc = "form" /\ tabs'[t].said = "again"
               /\ tabs'[t].prev = tabs[t].form /\ tabs'[t].form.csrf = NoTok
<1>1. tabs \in [Tabs -> Tab] /\ tabs[t] \in Tab /\ tabs[t].form \in Form
  BY Fields
<1>2. CASE tabs' = [tabs EXCEPT ![t] = [@ EXCEPT !.pc = "shown", !.said = "cut"]]
  <2>1. "cut" \in Words
    BY DEF Words
  <2> QED
    BY <1>2, <2>1, Said
<1>3. CASE tabs' = [tabs EXCEPT ![t] = [@ EXCEPT !.pc = "form", !.said = "again",
                                  !.prev = tabs[t].form,
                                  !.form = [tabs[t].form EXCEPT !.csrf = NoTok]]]
  <2>0. PICK f \in Form : f = tabs[t].form
    BY <1>1
  <2>1. PICK g \in Form : g = [f EXCEPT !.csrf = NoTok] /\ g.csrf = NoTok
    <3> DEFINE g == [f EXCEPT !.csrf = NoTok]
    <3>1. g \in Form /\ g.csrf = NoTok
      BY DEF Form, NoTok
    <3> QED
      BY <3>1, Zenon
  <2> DEFINE r == [tabs[t] EXCEPT !.pc = "form", !.said = "again", !.prev = f, !.form = g]
  <2>2. /\ r \in Tab /\ r.pc = "form" /\ r.said = "again" /\ r.prev = f /\ r.form = g
        /\ r.cookie = tabs[t].cookie /\ r.at = tabs[t].at /\ r.since = tabs[t].since
    BY <1>1 DEF Tab
  <2>3. tabs' = [tabs EXCEPT ![t] = r]
    BY <1>3, <2>0, <2>1
  <2> HIDE DEF r
  <2>4. Moves(t) /\ tabs'[t] = r
    BY <1>1, <2>2, <2>3, PutTab
  <2> QED
    BY <2>0, <2>1, <2>2, <2>4 DEF SamePost
<1> QED
  BY <1>2, <1>3 DEF Rerender

LEMMA BackTab ==
  ASSUME TypeOK, NEW t \in Tabs, Back(t)
  PROVE  /\ Moves(t) /\ SamePost(t)
         /\ tabs'[t].pc = "form" /\ tabs'[t].said = ""
         /\ tabs'[t].form \in {tabs[t].form, tabs[t].prev} /\ tabs'[t].prev = tabs[t].prev
<1>1. tabs \in [Tabs -> Tab] /\ tabs[t] \in Tab /\ tabs[t].form \in Form /\ tabs[t].prev \in Form
  BY Fields
<1>2. PICK f \in {tabs[t].form, tabs[t].prev} :
         f = IF tabs[t].pc = "form" THEN tabs[t].prev ELSE tabs[t].form
  OBVIOUS
<1> DEFINE r == [tabs[t] EXCEPT !.pc = "form", !.said = "", !.form = f]
<1>3. /\ r \in Tab /\ r.pc = "form" /\ r.said = "" /\ r.form = f /\ r.prev = tabs[t].prev
      /\ r.cookie = tabs[t].cookie /\ r.at = tabs[t].at /\ r.since = tabs[t].since
  BY <1>1 DEF Tab
<1>4. tabs' = [tabs EXCEPT ![t] = r]
  BY <1>2 DEF Back
<1> HIDE DEF r
<1>5. Moves(t) /\ tabs'[t] = r
  BY <1>1, <1>3, <1>4, PutTab
<1> QED
  BY <1>2, <1>3, <1>5 DEF SamePost

(* A GET opens one form more, and its token goes into the jar.               *)
LEMMA OpenTab ==
  ASSUME TypeOK, NEW t \in Tabs, NEW p \in Pages, Open(t, p)
  PROVE  LET tok == Len(opened) + 1 IN
         /\ Moves(t) /\ tabs'[t].pc = "form" /\ tabs'[t].said = "" /\ tabs'[t].since = 0
         /\ tabs'[t].form.page = p /\ tabs'[t].form.csrf = tok /\ tabs'[t].form.pow = now
         /\ tabs'[t].prev = tabs'[t].form
         /\ opened' \in Seq([page: Pages, at: Int])
         /\ Len(opened') = tok /\ opened'[tok].page = p /\ opened'[tok].at = now
         /\ \A k \in 1 .. Len(opened) : opened'[k] = opened[k]
         /\ jar' \in [Pages -> Cookie]
         /\ \A q \in Pages : \/ /\ q \in {p, "/submit"}
                                /\ jar'[q].tok = tok /\ jar'[q].till = now + CookieLife
                             \/ q # p /\ jar'[q] = jar[q]
<1>1. /\ tabs \in [Tabs -> Tab] /\ now \in Int /\ CookieLife \in Nat
      /\ opened \in Seq([page: Pages, at: Int]) /\ jar \in [Pages -> Cookie]
  BY FormAssumption DEF TypeOK
<1>2. PICK tok \in Nat : tok = Len(opened) + 1
  BY <1>1
<1>3. PICK f \in Form : /\ f = [page |-> p, csrf |-> tok, pow |-> now]
                        /\ f.page = p /\ f.csrf = tok /\ f.pow = now
  <2>1. [page |-> p, csrf |-> tok, pow |-> now] \in Form
    BY <1>1 DEF Form
  <2> QED
    BY <2>1
<1>a. PICK e \in Tab : e = EmptyTab /\ e.since = 0
  <2>1. EmptyTab \in Tab
    BY DEF Tab, EmptyTab, NoTok, Blank, Form, Pages
  <2>2. EmptyTab.since = 0
    BY DEF EmptyTab
  <2> QED
    BY <2>1, <2>2
<1> DEFINE r == [e EXCEPT !.pc = "form", !.form = f, !.prev = f]
<1>4. /\ r \in Tab /\ r.pc = "form" /\ r.form = f /\ r.prev = f /\ r.since = 0
      /\ r.said = e.said /\ e.said = ""
  <2>1. r \in Tab /\ r.pc = "form" /\ r.form = f /\ r.prev = f /\ r.since = e.since /\ r.said = e.said
    BY DEF Tab
  <2>2. e.said = ""
    BY <1>a DEF EmptyTab
  <2> QED
    BY <1>a, <2>1, <2>2
<1>5. tabs' = [tabs EXCEPT ![t] = r]
  BY <1>2, <1>3, <1>a DEF Open
<1> HIDE DEF r
<1>6. Moves(t) /\ tabs'[t] = r
  BY <1>1, <1>4, <1>5, PutTab
<1>7. PICK o \in [page: Pages, at: Int] : o = [page |-> p, at |-> now] /\ o.page = p /\ o.at = now
  <2>1. [page |-> p, at |-> now] \in [page: Pages, at: Int]
    BY <1>1
  <2> QED
    BY <2>1
<1>8. /\ opened' \in Seq([page: Pages, at: Int]) /\ Len(opened') = tok /\ opened'[tok] = o
      /\ \A k \in 1 .. Len(opened) : opened'[k] = opened[k]
  <2>1. opened' = Append(opened, o)
    BY <1>7 DEF Open
  <2> QED
    BY <1>1, <1>2, <2>1, AppendProperties
<1>9. PICK c \in Cookie : /\ c = [tok |-> tok, till |-> now + CookieLife]
                          /\ c.tok = tok /\ c.till = now + CookieLife
  <2>1. PICK m \in Int : m = now + CookieLife
    BY <1>1
  <2>2. [tok |-> tok, till |-> m] \in Cookie
    BY DEF Cookie
  <2> QED
    BY <2>1, <2>2
<1>10. jar' = [q \in Pages |-> IF q \in {p, "/submit"} THEN c ELSE jar[q]]
  BY <1>2, <1>9 DEF Open, CookiePaths
<1>11. /\ jar' \in [Pages -> Cookie]
       /\ \A q \in Pages : \/ q \in {p, "/submit"} /\ jar'[q] = c
                           \/ q # p /\ jar'[q] = jar[q]
  BY <1>1, <1>10
<1> QED
  BY <1>2, <1>3, <1>4, <1>6, <1>7, <1>8, <1>9, <1>11

-----------------------------------------------------------------------------
(* The invariant holds in every state.                                     *)

\* No form opened is forgotten.
Kept ==
    /\ Len(opened) \in Nat /\ Len(opened') \in Nat /\ Len(opened) <= Len(opened')
    /\ \A k \in 1 .. Len(opened) : opened'[k] = opened[k]

(* A tab that does nothing, ...                                              *)
LEMMA TabKept ==
  ASSUME TypeOK, NEW t \in Tabs, TabFits(t), tabs'[t] = tabs[t], Kept
  PROVE  TabFits(t)'
<1>1. tabs[t].since \in Nat /\ tabs[t].form.csrf \in Nat
  BY Fields
<1>2. Good(tabs[t].form, tabs[t].at, tabs[t].since)' /\ Known(tabs[t].form)
          => Good(tabs[t].form, tabs[t].at, tabs[t].since)
  BY <1>1 DEF Good, Known, TabFits, Kept
<1> QED
  BY <1>1, <1>2 DEF TabFits, Known, Kept

(* ... and what is stored, stay as they were.                                *)
LEMMA StoredKept ==
  ASSUME TypeOK, StoredKnown, StoredFresh, Kept, UNCHANGED <<stored, powOn>>
  PROVE  StoredKnown' /\ StoredFresh'
<1>1. StoredKnown'
  BY DEF StoredKnown, Kept
<1>2. StoredFresh'
  BY DEF StoredKnown, StoredFresh, Kept
<1> QED
  BY <1>1, <1>2

LEMMA NoOpen ==
  ASSUME TypeOK, UNCHANGED opened
  PROVE  Kept
BY DEF Kept, TypeOK

(* A step of one tab that neither opens a form nor stores one.               *)
LEMMA TabStep ==
  ASSUME FormInv, NEW t \in Tabs, Moves(t), UNCHANGED <<now, powOn, jar, opened>>,
         TabFits(t)', posts' \in Nat,
         \/ UNCHANGED stored
         \/ /\ StoredKnown' /\ StoredFresh'
            /\ stored' \in Seq([form: Nat \ {NoTok}, at: Int])
  PROVE  FormInv'
<1>1. TypeOK /\ JarFits /\ StoredKnown /\ StoredFresh /\ Kept /\ \A u \in Tabs : TabFits(u)
  BY NoOpen DEF FormInv
<1>2. JarFits'
  BY <1>1 DEF JarFits
<1>3. StoredKnown' /\ StoredFresh'
  BY <1>1, StoredKept
<1>4. ASSUME NEW u \in Tabs PROVE TabFits(u)'
  BY <1>1, TabKept DEF Moves
<1>5. TypeOK'
  BY <1>1, <1>4 DEF TypeOK, Moves, TabFits
<1> QED
  BY <1>2, <1>3, <1>4, <1>5 DEF FormInv

LEMMA OpenStep ==
  ASSUME FormInv, NEW t \in Tabs, NEW p \in Pages, Open(t, p)
  PROVE  FormInv'
<1>1. TypeOK /\ JarFits /\ StoredKnown /\ StoredFresh /\ \A u \in Tabs : TabFits(u)
  BY DEF FormInv
<1>2. PICK n \in Nat : n = Len(opened)
  BY <1>1, OpenedLen
<1>3. /\ Moves(t) /\ tabs'[t].pc = "form" /\ tabs'[t].said = "" /\ tabs'[t].since = 0
      /\ tabs'[t].form.page = p /\ tabs'[t].form.csrf = n + 1 /\ tabs'[t].form.pow = now
      /\ tabs'[t].prev = tabs'[t].form
  BY <1>1, <1>2, OpenTab
<1>a. /\ opened' \in Seq([page: Pages, at: Int]) /\ Len(opened') = n + 1
      /\ opened'[n + 1].page = p /\ opened'[n + 1].at = now
  BY <1>1, <1>2, OpenTab
<1>b. \A k \in 1 .. n : opened'[k] = opened[k]
  BY <1>1, <1>2, OpenTab
<1>c. /\ jar' \in [Pages -> Cookie]
      /\ \A q \in Pages : \/ /\ q \in {p, "/submit"}
                             /\ jar'[q].tok = n + 1 /\ jar'[q].till = now + CookieLife
                          \/ q # p /\ jar'[q] = jar[q]
  BY <1>1, <1>2, OpenTab
<1>4. Kept
  <2>1. Len(opened) \in Nat /\ Len(opened') \in Nat /\ Len(opened) <= Len(opened')
    BY <1>2, <1>a
  <2> QED
    BY <1>2, <1>b, <2>1 DEF Kept
<1>5. UNCHANGED <<now, powOn, stored, posts>>
  BY DEF Open
<1>6. StoredKnown' /\ StoredFresh'
  BY <1>1, <1>4, <1>5, StoredKept
<1>7. ASSUME NEW u \in Tabs PROVE TabFits(u)'
  <2>1. CASE u = t
    <3>1. n + 1 \in 1 .. n + 1 /\ 0 <= n + 1
      OBVIOUS
    <3>2. Known(tabs[t].form)'
      BY <1>3, <1>a, <3>1 DEF Known
    <3>3. Known(tabs[t].prev)' /\ (tabs[t].since <= Len(opened))'
      BY <1>3, <1>a, <3>1, <3>2 DEF Known
    <3> QED
      BY <1>3, <2>1, <3>2, <3>3 DEF TabFits
  <2>2. CASE u # t
    BY <1>1, <1>3, <1>4, <2>2, TabKept DEF Moves
  <2> QED
    BY <2>1, <2>2
<1>8. TypeOK'
  BY <1>1, <1>3, <1>a, <1>c, <1>5, <1>7 DEF TypeOK, Moves, TabFits
<1>9. JarFits'
  <2> SUFFICES ASSUME NEW q \in Pages
               PROVE  /\ jar'[q].tok # NoTok =>
                            /\ jar'[q].tok \in 1 .. Len(opened')
                            /\ jar'[q].till = opened'[jar'[q].tok].at + CookieLife
                      /\ q # "/submit" =>
                            /\ jar'[q].tok # NoTok => opened'[jar'[q].tok].page = q
                            /\ \A k \in (jar'[q].tok + 1) .. Len(opened') : opened'[k].page # q
    BY DEF JarFits
  <2>1. CASE q \in {p, "/submit"} /\ jar'[q].tok = n + 1 /\ jar'[q].till = now + CookieLife
    <3>1. n + 1 \in 1 .. n + 1 /\ \A k \in (n + 1 + 1) .. n + 1 : FALSE
      OBVIOUS
    <3>2. jar'[q].tok # NoTok =>
             /\ jar'[q].tok \in 1 .. Len(opened')
             /\ jar'[q].till = opened'[jar'[q].tok].at + CookieLife
      BY <1>a, <2>1, <3>1
    <3>3. q # "/submit" => q = p
      BY <2>1
    <3>4. \A k \in (jar'[q].tok + 1) .. Len(opened') : opened'[k].page # q
      BY <1>a, <2>1, <3>1
    <3> QED
      BY <1>a, <2>1, <3>2, <3>3, <3>4
  <2>2. CASE q # p /\ jar'[q] = jar[q]
    <3>1. jar[q].tok \in Nat
      BY <1>1 DEF TypeOK, Cookie
    <3>2. /\ jar[q].tok # NoTok => jar[q].tok \in 1 .. n
          /\ jar[q].tok # NoTok => jar[q].till = opened[jar[q].tok].at + CookieLife
          /\ q # "/submit" => /\ jar[q].tok # NoTok => opened[jar[q].tok].page = q
                              /\ \A k \in (jar[q].tok + 1) .. n : opened[k].page # q
      BY <1>1, <1>2 DEF JarFits
    <3>3. \A k \in (jar[q].tok + 1) .. n + 1 : k \in (jar[q].tok + 1) .. n \/ k = n + 1
      BY <3>1
    <3>4. \A k \in (jar[q].tok + 1) .. n : k \in 1 .. n
      BY <3>1
    <3>5. PICK c \in Nat : c = jar[q].tok /\ c = jar'[q].tok
      BY <2>2, <3>1
    <3>6. c # NoTok => /\ c \in 1 .. n + 1 /\ jar'[q].till = opened'[c].at + CookieLife
                       /\ q # "/submit" => opened'[c].page = q
      BY <1>b, <2>2, <3>2, <3>5
    <3>7. q # "/submit" => \A k \in (c + 1) .. n + 1 : opened'[k].page # q
      <4> SUFFICES ASSUME q # "/submit", NEW k \in (c + 1) .. n + 1 PROVE opened'[k].page # q
        OBVIOUS
      <4>1. CASE k = n + 1
        BY <1>a, <2>2, <4>1
      <4>2. CASE k \in (c + 1) .. n
        BY <1>b, <3>2, <3>4, <3>5, <4>2
      <4> QED
        BY <3>3, <3>5, <4>1, <4>2
    <3> QED
      BY <1>a, <3>5, <3>6, <3>7
  <2> QED
    BY <1>c, <2>1, <2>2
<1> QED
  BY <1>6, <1>7, <1>8, <1>9 DEF FormInv

(* A post takes the cookie along, which for the newest form of a page other  *)
(* than /submit is the one the form needs.                                   *)
LEMMA SendStep ==
  ASSUME FormInv, NEW t \in Tabs, Send(t)
  PROVE  FormInv'
<1>1. TypeOK /\ JarFits /\ TabFits(t) /\ tabs[t].form.page \in Pages /\ tabs[t].form.csrf \in Nat
  <2>1. TypeOK /\ JarFits /\ TabFits(t)
    BY DEF FormInv
  <2> QED
    BY <2>1, Fields
<1>2. PICK n \in Nat : n = Len(opened)
  BY <1>1, OpenedLen
<1>3. /\ Moves(t) /\ SameForms(t)
      /\ tabs[t].pc = "form" /\ tabs'[t].pc = "sent" /\ tabs'[t].said = tabs[t].said
      /\ tabs'[t].at = now /\ tabs'[t].since = n
      /\ tabs'[t].cookie = Sends(tabs[t].form.page)
  BY <1>1, <1>2, SendTab
<1>4. UNCHANGED <<now, powOn, jar, opened, stored>> /\ posts' \in Nat
  BY <1>1 DEF Send, TypeOK
<1>5. PICK p \in Pages : p = tabs[t].form.page
  BY <1>1
<1>6. /\ jar[p].tok \in Nat /\ NoTok \notin 1 .. n
      /\ jar[p].tok # NoTok => jar[p].tok \in 1 .. n /\ jar[p].till = opened[jar[p].tok].at + CookieLife
      /\ p # "/submit" => /\ jar[p].tok # NoTok => opened[jar[p].tok].page = p
                          /\ \A k \in (jar[p].tok + 1) .. n : opened[k].page # p
  BY <1>1, <1>2 DEF JarFits, TypeOK, Cookie, NoTok
<1>7. /\ Sends(p) \in {jar[p].tok, NoTok}
      /\ Sends(p) # NoTok => now < jar[p].till
      /\ now < jar[p].till => Sends(p) = jar[p].tok
  BY DEF Sends
<1>8. Sends(p) # NoTok => Sends(p) \in 1 .. n /\ now < opened[Sends(p)].at + CookieLife
  BY <1>6, <1>7
<1>9. p # "/submit" /\ Good(tabs[t].form, now, n) => Sends(p) = tabs[t].form.csrf
  <2> SUFFICES ASSUME p # "/submit", Good(tabs[t].form, now, n) PROVE Sends(p) = tabs[t].form.csrf
    OBVIOUS
  <2>1. PICK f \in 1 .. n : f = tabs[t].form.csrf /\ opened[f].page = p /\ now < opened[f].at + CookieLife
                            /\ \A k \in (f + 1) .. n : opened[k].page # p
    BY <1>1, <1>2, <1>5 DEF Good, TabFits, Known
  <2>2. jar[p].tok = f
    BY <1>6, <2>1 DEF NoTok
  <2>3. now < jar[p].till
    BY <1>6, <2>1, <2>2
  <2> QED
    BY <1>7, <2>1, <2>2, <2>3
<1>10. TabFits(t)'
  BY <1>1, <1>2, <1>3, <1>4, <1>5, <1>8, <1>9 DEF TabFits, Known, Good, SameForms
<1> QED
  BY <1>3, <1>4, <1>10, TabStep

(* What an answer leaves in its tab.                                         *)
LEMMA ShownFits ==
  ASSUME FormInv, NEW t \in Tabs, UNCHANGED opened, SameForms(t), SamePost(t),
         tabs'[t].pc = "shown", tabs'[t].said # "again",
         tabs'[t].said = "csrf" =>
            /\ tabs[t].pc = "sent"
            /\ ~VerifyAnonCSRF(tabs[t].cookie, tabs[t].form.csrf)
  PROVE  TabFits(t)'
<1>1. TabFits(t)
  BY DEF FormInv
<1>2. tabs'[t].said = "csrf" /\ tabs[t].form.page # "/submit"
         => ~Good(tabs[t].form, tabs[t].at, tabs[t].since)
  BY <1>1 DEF TabFits, VerifyAnonCSRF, Good
<1> QED
  BY <1>1, <1>2 DEF TabFits, Known, Good, SameForms, SamePost

(* A case that is stored is as fresh as its cookie and its proof of work.    *)
LEMMA StoreFresh ==
  ASSUME FormInv, NEW t \in Tabs, Arrives(t, "/submit"),
         VerifyAnonCSRF(tabs[t].cookie, tabs[t].form.csrf), VerifyPoW(tabs[t].form.pow),
         stored' = Append(stored, [form |-> tabs[t].form.csrf, at |-> now])
  PROVE  StoredKnown' /\ StoredFresh' /\ stored' \in Seq([form: Nat \ {NoTok}, at: Int])
<1>1. /\ TypeOK /\ StoredKnown /\ StoredFresh /\ TabFits(t)
      /\ tabs[t].form.csrf \in Nat /\ tabs[t].at \in Int /\ now \in Int
      /\ CookieLife \in Nat /\ Upload \in Nat /\ PowLife \in Nat
      /\ UNCHANGED <<now, powOn, opened>>
  BY Fields, FormAssumption DEF FormInv, TypeOK, Arrives
<1>2. PICK f \in 1 .. Len(opened) :
         /\ f = tabs[t].form.csrf /\ f # NoTok
         /\ opened[f].page = "/submit" /\ opened[f].at = tabs[t].form.pow
         /\ tabs[t].at < opened[f].at + CookieLife
  BY <1>1 DEF VerifyAnonCSRF, TabFits, Known, Arrives
<1>3. opened[f].at \in Int /\ now <= tabs[t].at + Upload
  <2>1. opened[f] \in [page: Pages, at: Int]
    BY <1>1, ElementOfSeq DEF TypeOK
  <2> QED
    BY <2>1 DEF Arrives
<1>4. now - opened[f].at <= CookieLife + Upload /\ (powOn => now - opened[f].at <= PowLife)
  BY <1>1, <1>2, <1>3 DEF VerifyPoW
<1>5. PICK n \in Nat : n = Len(stored)
  BY <1>1 DEF TypeOK
<1>6. PICK s \in [form: Nat \ {NoTok}, at: Int] :
         s = [form |-> tabs[t].form.csrf, at |-> now] /\ s.form = f /\ s.at = now
  <2>1. [form |-> tabs[t].form.csrf, at |-> now] \in [form: Nat \ {NoTok}, at: Int]
    BY <1>1, <1>2
  <2> QED
    BY <1>2, <2>1
<1>7. /\ stored' \in Seq([form: Nat \ {NoTok}, at: Int])
      /\ Len(stored') = n + 1 /\ stored'[n + 1] = s
      /\ \A i \in 1 .. n : stored'[i] = stored[i]
  BY <1>1, <1>5, <1>6, AppendProperties DEF TypeOK
<1>8. \A i \in 1 .. n + 1 : i \in 1 .. n \/ i = n + 1
  OBVIOUS
<1>9. StoredKnown'
  BY <1>1, <1>2, <1>5, <1>6, <1>7, <1>8 DEF StoredKnown
<1>10. StoredFresh'
  <2> SUFFICES ASSUME NEW i \in 1 .. n + 1
               PROVE  /\ opened[stored'[i].form].page = "/submit"
                      /\ stored'[i].at - opened[stored'[i].form].at <= CookieLife + Upload
                      /\ powOn => stored'[i].at - opened[stored'[i].form].at <= PowLife
    BY <1>1, <1>7 DEF StoredFresh
  <2>1. CASE i = n + 1
    BY <1>2, <1>4, <1>6, <1>7, <2>1
  <2>2. CASE i \in 1 .. n
    BY <1>1, <1>5, <1>7, <2>2 DEF StoredFresh
  <2> QED
    BY <1>8, <2>1, <2>2
<1> QED
  BY <1>7, <1>9, <1>10

LEMMA PostSubmitStep ==
  ASSUME FormInv, NEW t \in Tabs, PostSubmit(t)
  PROVE  FormInv'
<1>1. TypeOK /\ Arrives(t, "/submit") /\ tabs[t].pc = "sent"
  BY DEF FormInv, PostSubmit, Arrives
<1>2. UNCHANGED <<now, powOn, jar, opened, posts>> /\ posts' \in Nat
  BY <1>1 DEF Arrives, TypeOK
<1>3. PICK said \in {"dropped", "csrf", "pow", "error", "code"} :
         /\ Answer(t, said)
         /\ said = "csrf" => ~VerifyAnonCSRF(tabs[t].cookie, tabs[t].form.csrf)
         /\ \/ UNCHANGED stored
            \/ /\ VerifyAnonCSRF(tabs[t].cookie, tabs[t].form.csrf) /\ VerifyPoW(tabs[t].form.pow)
               /\ stored' = Append(stored, [form |-> tabs[t].form.csrf, at |-> now])
  <2> USE DEF PostSubmit
  <2>1. CASE Answer(t, "dropped") /\ UNCHANGED stored
    BY <2>1
  <2>2. CASE ~VerifyAnonCSRF(tabs[t].cookie, tabs[t].form.csrf) /\ Answer(t, "csrf") /\ UNCHANGED stored
    BY <2>2
  <2>3. CASE Answer(t, "pow") /\ UNCHANGED stored
    BY <2>3
  <2>4. CASE Answer(t, "error") /\ UNCHANGED stored
    BY <2>4
  <2>5. CASE /\ VerifyAnonCSRF(tabs[t].cookie, tabs[t].form.csrf) /\ VerifyPoW(tabs[t].form.pow)
             /\ Answer(t, "code")
             /\ stored' = Append(stored, [form |-> tabs[t].form.csrf, at |-> now])
    BY <2>5
  <2> QED
    BY <2>1, <2>2, <2>3, <2>4, <2>5
<1>4. /\ Moves(t) /\ SamePost(t) /\ SameForms(t)
      /\ tabs'[t].pc = "shown" /\ tabs'[t].said \in {said, "cut"}
  <2>1. said \in Words
    BY DEF Words
  <2> QED
    BY <1>1, <1>3, <2>1, AnswerTab
<1>5. TabFits(t)'
  BY <1>1, <1>2, <1>3, <1>4, ShownFits
<1>6. \/ UNCHANGED stored
      \/ StoredKnown' /\ StoredFresh' /\ stored' \in Seq([form: Nat \ {NoTok}, at: Int])
  BY <1>1, <1>3, StoreFresh
<1> QED
  BY <1>2, <1>4, <1>5, <1>6, TabStep

LEMMA PostOtherStep ==
  ASSUME FormInv, NEW t \in Tabs, PostOther(t)
  PROVE  FormInv'
<1>1. TypeOK /\ TabFits(t) /\ tabs[t].pc = "sent" /\ UNCHANGED <<now, powOn, jar, opened, posts, stored>>
  BY DEF FormInv, PostOther, Arrives
<1>2. posts' \in Nat
  BY <1>1 DEF TypeOK
<1>3. CASE \E said \in {"csrf", "ok"} :
              /\ Answer(t, said)
              /\ said = "csrf" => ~VerifyAnonCSRF(tabs[t].cookie, tabs[t].form.csrf)
  <2>1. PICK said \in {"csrf", "ok"} :
              /\ Answer(t, said)
              /\ said = "csrf" => ~VerifyAnonCSRF(tabs[t].cookie, tabs[t].form.csrf)
    BY <1>3
  <2>2. /\ Moves(t) /\ SamePost(t) /\ SameForms(t)
        /\ tabs'[t].pc = "shown" /\ tabs'[t].said \in {said, "cut"}
    <3>1. said \in Words
      BY DEF Words
    <3> QED
      BY <1>1, <2>1, <3>1, AnswerTab
  <2>3. TabFits(t)'
    BY <1>1, <2>1, <2>2, ShownFits
  <2> QED
    BY <1>1, <1>2, <2>2, <2>3, TabStep
<1>4. CASE VerifyAnonCSRF(tabs[t].cookie, tabs[t].form.csrf) /\ Rerender(t, "again")
  <2>1. /\ Moves(t) /\ SamePost(t)
        /\ \/ SameForms(t) /\ tabs'[t].pc = "shown" /\ tabs'[t].said = "cut"
           \/ /\ tabs'[t].pc = "form" /\ tabs'[t].said = "again"
              /\ tabs'[t].prev = tabs[t].form /\ tabs'[t].form.csrf = NoTok
    BY <1>1, <1>4, RerenderTab
  <2>2. CASE SameForms(t) /\ tabs'[t].pc = "shown" /\ tabs'[t].said = "cut"
    <3>1. TabFits(t)'
      BY <1>1, <2>1, <2>2, ShownFits
    <3> QED
      BY <1>1, <1>2, <2>1, <3>1, TabStep
  <2>3. CASE /\ tabs'[t].pc = "form" /\ tabs'[t].said = "again"
             /\ tabs'[t].prev = tabs[t].form /\ tabs'[t].form.csrf = NoTok
    <3>1. tabs[t].form.csrf # NoTok
      BY <1>4 DEF VerifyAnonCSRF
    <3>2. TabFits(t)'
      BY <1>1, <2>1, <2>3, <3>1 DEF TabFits, Known, SamePost
    <3> QED
      BY <1>1, <1>2, <2>1, <3>2, TabStep
  <2> QED
    BY <2>1, <2>2, <2>3
<1> QED
  BY <1>3, <1>4 DEF PostOther

LEMMA CutStep ==
  ASSUME FormInv, NEW t \in Tabs, Cut(t)
  PROVE  FormInv'
<1>1. TypeOK /\ UNCHANGED <<now, powOn, jar, opened, posts, stored>> /\ posts' \in Nat
  BY DEF FormInv, Cut, TypeOK
<1>2. /\ Moves(t) /\ SamePost(t) /\ SameForms(t)
      /\ tabs'[t].pc = "shown" /\ tabs'[t].said = "cut"
  <2>1. "cut" \in Words
    BY DEF Words
  <2> QED
    BY <1>1, <2>1, Said DEF Cut
<1>3. TabFits(t)'
  BY <1>1, <1>2, ShownFits
<1> QED
  BY <1>1, <1>2, <1>3, TabStep

LEMMA BackStep ==
  ASSUME FormInv, NEW t \in Tabs, Back(t)
  PROVE  FormInv'
<1>1. TypeOK /\ TabFits(t) /\ UNCHANGED <<now, powOn, jar, opened, posts, stored>> /\ posts' \in Nat
  BY DEF FormInv, Back, TypeOK
<1>2. /\ Moves(t) /\ SamePost(t)
      /\ tabs'[t].pc = "form" /\ tabs'[t].said = ""
      /\ tabs'[t].form \in {tabs[t].form, tabs[t].prev} /\ tabs'[t].prev = tabs[t].prev
  BY <1>1, BackTab
<1>3. TabFits(t)'
  BY <1>1, <1>2 DEF TabFits, Known, SamePost
<1> QED
  BY <1>1, <1>2, <1>3, TabStep

(* The clock.                                                                *)
LEMMA QuietStep ==
  ASSUME FormInv, UNCHANGED <<powOn, jar, opened, tabs, stored, posts>>, now' \in Int
  PROVE  FormInv'
<1>1. TypeOK /\ JarFits /\ StoredKnown /\ StoredFresh /\ \A u \in Tabs : TabFits(u)
  BY DEF FormInv
<1>2. Kept
  BY <1>1, NoOpen
<1>3. \A u \in Tabs : TabFits(u)'
  BY <1>1, <1>2, TabKept
<1>4. StoredKnown' /\ StoredFresh'
  BY <1>1, <1>2, StoredKept
<1>5. JarFits' /\ TypeOK'
  BY <1>1 DEF JarFits, TypeOK
<1> QED
  BY <1>3, <1>4, <1>5 DEF FormInv

LEMMA InitForms == Init => FormInv
<1> SUFFICES ASSUME Init PROVE FormInv
  OBVIOUS
<1>1. /\ EmptyTab \in Tab
      /\ EmptyTab.pc = "shown" /\ EmptyTab.said = "" /\ EmptyTab.since = 0
      /\ EmptyTab.form.csrf = NoTok /\ EmptyTab.prev.csrf = NoTok
  BY DEF EmptyTab, Tab, Blank, Form, Pages, NoTok
<1>2. opened = <<>> /\ stored = <<>> /\ Len(opened) = 0 /\ Len(stored) = 0
  BY DEF Init
<1>3. tabs \in [Tabs -> Tab] /\ \A t \in Tabs : tabs[t] = EmptyTab
  BY <1>1 DEF Init
<1>4. jar \in [Pages -> Cookie] /\ \A p \in Pages : jar[p].tok = NoTok
  <2>1. PICK c \in Cookie : c = [tok |-> NoTok, till |-> 0] /\ c.tok = NoTok
    <3>1. [tok |-> NoTok, till |-> 0] \in Cookie
      BY DEF Cookie, NoTok
    <3> QED
      BY <3>1
  <2> QED
    BY <2>1 DEF Init
<1>5. TypeOK
  <2>1. \A S : <<>> \in Seq(S)
    OBVIOUS
  <2>2. now \in Int /\ powOn \in BOOLEAN /\ posts \in Nat
    BY DEF Init
  <2> QED
    BY <1>1, <1>2, <1>3, <1>4, <2>1, <2>2 DEF TypeOK
<1>6. JarFits /\ StoredKnown /\ StoredFresh
  BY <1>2, <1>4 DEF JarFits, StoredKnown, StoredFresh, NoTok
<1>7. ASSUME NEW t \in Tabs PROVE TabFits(t)
  <2>1. /\ tabs[t].pc = "shown" /\ tabs[t].said = "" /\ tabs[t].since = 0
        /\ tabs[t].form.csrf = NoTok /\ tabs[t].prev.csrf = NoTok
    BY <1>1, <1>3
  <2>2. Known(tabs[t].form) /\ Known(tabs[t].prev)
    BY <2>1 DEF Known
  <2>3. tabs[t].since <= Len(opened)
    <3>1. 0 <= 0
      OBVIOUS
    <3> QED
      BY <1>2, <2>1, <3>1, Zenon
  <2> QED
    BY <2>1, <2>2, <2>3 DEF TabFits
<1> QED
  BY <1>5, <1>6, <1>7 DEF FormInv

LEMMA NextForms == FormInv /\ [Next]_vars => FormInv'
<1> SUFFICES ASSUME FormInv, [Next]_vars PROVE FormInv'
  OBVIOUS
<1>1. CASE UNCHANGED vars
  <2>1. now' \in Int /\ UNCHANGED <<powOn, jar, opened, tabs, stored, posts>>
    BY <1>1 DEF vars, FormInv, TypeOK
  <2> QED
    BY <2>1, QuietStep
<1>2. CASE Tick
  <2>1. now' \in Int /\ UNCHANGED <<powOn, jar, opened, tabs, stored, posts>>
    BY <1>2 DEF Tick, FormInv, TypeOK
  <2> QED
    BY <2>1, QuietStep
<1> QED
  BY <1>1, <1>2, OpenStep, SendStep, PostSubmitStep, PostOtherStep, CutStep, BackStep DEF Next

LEMMA FormInvHolds == Spec => []FormInv
<1> QED
  BY InitForms, NextForms, PTL DEF Spec

-----------------------------------------------------------------------------
(* The results.                                                            *)

(* The jar, the forms and what is stored have their types, and a form that   *)
(* was taken and rendered again had a token.                                 *)
THEOREM TypesForms == Spec => []TypeOK
<1>1. FormInv => TypeOK
  BY DEF FormInv
<1> QED
  BY <1>1, FormInvHolds, PTL

(* A case is stored only from a /submit form no older than the proof of work *)
(* or, with that off, the cookie and the upload allow.                       *)
THEOREM StoresFresh == Spec => []StoredFresh
<1>1. FormInv => StoredFresh
  BY DEF FormInv
<1> QED
  BY <1>1, FormInvHolds, PTL

(* Whatever else the visitor opens, the newest form of /reply or of          *)
(* /admin/login works as long as its cookie lives.                           *)
THEOREM OwnFormsWork == Spec => []OwnFormWorks
<1>1. FormInv => OwnFormWorks
  <2> SUFFICES ASSUME FormInv, NEW t \in Tabs, RefusedInVain(t) PROVE tabs[t].form.page = "/submit"
    BY DEF OwnFormWorks
  <2>1. Good(tabs[t].form, tabs[t].at, tabs[t].since) /\ tabs[t].said = "csrf"
    BY DEF RefusedInVain, Good
  <2> QED
    BY <2>1 DEF FormInv, TabFits
<1> QED
  BY <1>1, FormInvHolds, PTL
=============================================================================
