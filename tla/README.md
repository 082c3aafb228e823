# A formal model of kakekomi

kakekomi is an anonymous tip line: visitors submit reports through a web form
(over Tor), the server seals each one to the receiver's age key and stores it,
the receiver downloads and answers it, and everything is deleted after a
retention period or at once under duress. It is one Go process
(`cmd/kakekomi`, package `internal/kakekomi`), a few one-shot commands of the
same binary that work on the same data directory, and an offline viewer.

This directory holds TLA+ models of the parts where order, concurrency and
failure decide whether it is right, TLC configurations that check them on small
instances, and TLAPS proofs for every instance. Paths below are relative to the
repository; files without a directory are in `internal/kakekomi/`.

## 1. Inventory

| Component | State it keeps | Operations | Interacts through | Model |
|---|---|---|---|---|
| Case store (`store.go`) | SQLite table `cases`; `blob/<id>/case-data.tar.age`, `blob/<id>/reply.bin` | CreateCase, WriteReply, MarkRead, ReadBlob, FindCaseByCode, GC, Wipe | table and directories, with no transaction over both, no lock between processes | `CaseStore` |
| Garbage collection (`gc.go`) | a list of ids, per sweep | startup GC, hourly GC, `kakekomi gc` | the store, from two processes | `CaseStore` |
| Server lifecycle (`server.go`) | running or not | start in a fixed order, serve, Shutdown | config, secrets, store, Tor | `CaseStore`, `KeyCustody`, `TorIngress` |
| Submit intake (`handlers.go`, `pow.go`) | none | processSubmit: honeypot, CSRF, PoW, fields, attachments, pack, seal, store, show code | forms, store | `AnonForms`, `Delivery`, `CaseStore` |
| Anonymous forms (`session.go`, `handlers.go`, `pow.go`) | none on the server; cookies and forms in the browser | GET and POST of /submit, /reply, /admin/login | cookies scoped by path, hidden fields | `AnonForms` |
| Reply channel (`handlers.go`, `crypto.go`) | `reply.bin`, `has_reply` | handleAdminReply, handleReply | the case code, which only the sealed blob and the submitter have | `ReplyChannel`; writing under failing calls: `CaseStore` |
| Admin desk (`handlers.go`, `session.go`) | sessions in memory, session cookie | login, duress login, logout, inbox, case, download | session cookie, store | sessions: `AdminSessions`; download, reply, wipe: `CaseStore` |
| Key custody (`config.go`, `init.go`, `rotate.go`) | config, receiver.pub, pubkey.lock | init, rotate-key, LoadConfig | the files, read by a starting server | `KeyCustody` |
| Secrets (`secrets.go`) | secrets.age, secrets.salt | SaveSecrets, LoadSecrets | the files | `KeyCustody` |
| Padding (`padding.go`, `tarpack.go`) | none | neededPad, block padding, SizeBucket, FixedWaitUntil | every response and blob | lengths: `Padding` |
| Attachments (`mime.go`, `image.go`, `tarpack.go`) | none | limits, sniffing, re-encoding, file names | the viewer reads the names | `Delivery` |
| Cryptography (`crypto.go`, `random.go`) | none | seal, open, derive | used by all | ideal in `ReplyChannel`, `Delivery`; lengths in `Padding` |
| Tor ingress (`tor.go`, `setupTor`) | onion key file, control connection | AddOnion, DelOnion | tor's control port | `TorIngress` |
| Viewer (`cmd/viewer`) | none | decrypt, unpack | files from a download | `Delivery` |
| CLI, templates, hardening, deployment | none | | | not modelled |

What is hard here:

* **No transaction spans the table and the directories.** A submission is a row,
  a directory and a file; a sweep removes the file, the directory and the row.
  Every prefix of one meets every prefix of the other, and a stop or a failing
  call may end either of them.
* **Several sweepers.** The server sweeps at start and hourly, `README.md`
  recommends cron for `kakekomi gc`, and a duress login shreds everything.
  `os.ErrNotExist` is read as "someone else has finished".
* **Files written one after another.** init and rotate-key write three to five
  files in place and print the only copy of the secret last.
* **Requests in flight.** Sessions are a map under a mutex, but a request holds
  nothing once `requireAuth` has let it in: a logout or a restart finds others at
  any of their steps, and answers that set or clear the cookie come in any order.
* **Publishing before keeping.** tor publishes a new service before its key is on
  disk, and keeps it when the server is killed; the next start must neither lose
  the address nor be stopped by the service that is still there.
* **Everything hangs on the code.** A reply crosses from one request to another
  over a file whose case may expire, be swept and have its id drawn again between
  any two steps of either.
* **State in the browser.** The anonymous forms are stateless on the server;
  what works depends on which tab last set which cookie.

For each component, what makes it correct: a submitter who has been shown a code
has a stored report until it expires, and nothing survives that nobody will
delete (store); everything expired is removed in the end (GC); a wipe leaves
nothing, and a session that has ended stays ended (admin desk); a row that promises a reply has one (reply channel);
reports are sealed only to keys the receiver has been given, and the server
comes up again (key custody); a form that a visitor has just opened works, and a
stale one is not stored (forms); a reply reaches the visitor it is for and no
other, once the receiver was told it is saved (reply channel); an archive holds
what the configuration lets in and is unpacked whole or not at all (attachments,
viewer); an address once shown stays, and is served (Tor ingress); lengths say
no more than their block (padding).

`PROJECT.json` lists the hazards behind these, each at its line, with the
properties that cover it or the reason why none does yet.

## 2. Modules

| Module | What it is |
|---|---|
| `CaseStore` | the store and all who work on it |
| `CaseStoreInv` | its inductive invariants |
| `CaseLifecycle` | abstract: what the store promises one submission |
| `CaseStoreRefines` | the refinement mapping from `CaseStore` to it |
| `MCCaseStore` | the module TLC runs for the store |
| `CaseStoreProofs` | theorems about it |
| `LifecycleProofs` | `CaseStore` implements `CaseLifecycle` |
| `KeyCustody` | init, rotate-key and the server's start over their files |
| `KeyCustodyProofs` | its inductive invariant and the theorems about it |
| `AdminSessions` | the receiver's sessions, their cookie and the requests in flight |
| `AdminSessionsProofs` | its inductive invariant and the theorems about it |
| `AnonForms` | the forms of visitors without a session |
| `AnonFormsProofs` | its inductive invariant and the theorems about it |
| `ReplyChannel` | a reply from the receiver's form to the visitor's page |
| `ReplyChannelProofs` | its inductive invariant and the theorems about it |
| `Delivery` | a submission from the form to the viewer's output directory |
| `Padding` | the lengths of pages, archives and blobs (used by `Delivery`) |
| `DeliveryProofs` | the inductive invariant of `Delivery`, and theorems about both for every length |
| `TorIngress` | the onion address across starts, kills and stops of tor |
| `TorIngressProofs` | its inductive invariant and the theorems about it |

Operators whose names begin with `Bug` are variants of the definition that
follows them, each with a plausible mistake; nothing uses them. They record, for
every property, an error in the code the property would catch.

### CaseStore

One process per activity, each with a program counter: submitters (`spc`, one
CreateCase each), receivers (`rpc`, one WriteReply at a time), and shredders
(`wpc`): `Loop` is the server's sweeper, `Clis` are `kakekomi gc` processes,
`Wipers` are duress logins. An action is one SQL statement or one system call.

| Code | Actions |
|---|---|
| CreateCase (86-118) | Begin, Insert / Collide / InsertFails, MkdirCase / MkdirFails, OpenBlob, WriteBlob, BlobFails, UndoDir, UndoRow |
| processSubmit's answer | Tell |
| handleAdminReply, WriteReply | ReplyTo, OpenReply, WriteReplyFile, MarkReplied, ReplyFails |
| handleAdminDownload | Download |
| GC (223-252) | SweepStart, Pick ... , DeleteRow / DeleteFails, SweepDone |
| shredDir (257-279) | Pick, Stat, Zero, Unlink, Rmdir, ShredFails; `ShredReturns` is what its two callers do with the error |
| Wipe (282-295) | WipeStart, Pick ... , WipeRows |
| Run, Gc | ServerStarts, ServerStops, CliStops |

Abstractions: a file's content is "none", "empty" (created or truncated),
"sealed" (one whole ciphertext), "mixed" (the bytes of two, which for a blob takes
an id that was drawn twice) or "zeroed". A file
that is unlinked while someone writes to it goes on without a name ("orphan").
A code is the submitter it was shown to. VACUUM, the admin desk's lists and
`ReadReply` change nothing here. ReadBlob and MarkRead of a download are one
step, since nothing depends on the read flag. The rollback's `os.RemoveAll` is
one step and succeeds; `shredDir` is not, it is where the races are.

Assumptions on the environment, all stated in the module: the stop of a process
is not a power loss (data handed to the kernel stays); a call of CreateCase does
not last until its own case expires, days later (guard of `Tick`); the clock
does not run backwards; an id that has been freed may be drawn again.

Bounds: `MaxNow` (clock), `MaxReplies`, `MaxFaults` (stops and failing calls
together) and the finite sets. One failing call or stop, placed anywhere, reaches
each error path; two submitters on two ids reach every collision and id reuse; a
`TTL` of one hour and a half, of two ticks the hour, makes the rounding visible.
store_cron has ticks of an hour and one id for two submitters, so that the second
sweeper's list can name an id that has been drawn again; its two replies come one
after the other. Replies that overlap, on which ReplyReadable has a clause of its
own, are covered by the theorem and by longer instances (three replies of two
receivers to one case; two receivers and two submitters on one id), which pass.

### CaseLifecycle and its refinement

CaseLifecycle knows submissions and nothing of how they are stored: new, partly
there, whole, gone; promised or not. A promised submission is neither damaged nor
removed before it has lapsed, and a gone one never returns. `CaseStoreRefines`
reads this state off the store: a submission is new until it has an id; gone when
the row of that id is missing or another's (ids are reused); whole when the blob
in the directory is. `ImplementsLifecycle` is `Life!Spec`; it also says that no
step of the store changes two submissions at once.

### ReplyChannel

A receiver's post goes through five steps (PostReply, Match or NoMatch,
CheckCase, OpenReply, WriteReply, MarkReplied, each but the second with its
failure), a visitor's through three (FindCase, ReadReply, Answer). Receivers type
any code that has been given out. A sealed reply is the triple of code, id and
text; it opens under the same code and id. CreateCase is one step and a sweep
four, as seen from reply.bin; `old` are the ids past their expiry. `linked` is
false once the sweep has unlinked the file a post has open. History: `sent` says
which case a text answers, `kept` which text the receiver has been told is saved,
`due` which one a visit must show. Two ids and two codes contain both interesting
cases, a wrong code and a reused id; two receivers overlap on one file. A longer
instance (three codes, or three texts; 14 million states) passes as well. The
wipe is left out: it is in CaseStore.

### Delivery and Padding

A file of the form is its name, what it is sniffed as, its size and whether it is
sound (text that is text, an image that decodes). The archive is the list of
attachments taken; `Whole` is the number of age chunks of the sealed archive,
computed with the operators of `Padding` from the sizes in bytes. WriteChunk
lets the blob grow, Download takes any prefix of what is there. The viewer is
Decrypt, OpenEntry, CopyEntry, ArchiveEnds and ViewerFails over an output
directory that may hold files of an earlier run. Limits are scaled down: two
files, 70000 bytes each, 100000 together, so that each limit is the one that
bites in some run and the archive takes one, two or three chunks.

`safeFilename` keeps letters, digits, `_` and `-` and drops the rest; all that
matters here is that different names may come out equal, which `Odd` stands for.
`safeTarName` never refuses a name PackSubmission makes; archives made by anyone
else are out of scope.

### TorIngress

`setupTor` is one action per call and per error: Dial, Authenticate, ReadKey,
AddOnionExistingKey or AddOnionV3, the two halves of os.WriteFile, the addresses
file. tor is an environment with a set of live services: it refuses a key that is
live already (550) or not whole, keeps detached services when the connection
closes, and forgets them when it stops. A kill may come anywhere; a signal before
signal.Notify, that is during setupTor, is a kill. `Stop` runs the teardown only
if setupTor returned one. Whether authentication succeeds is tor's choice; that
tor closes the connection after a refused AUTHENTICATE, so that the password is
never tried after a wrong cookie, ends in the same AuthFails. Three keys allow two
services whose key was lost before the one that is shown.

### KeyCustody

Files hold the number of the key drawn by the tool run that wrote them, or are
Absent or Torn (`os.WriteFile` truncates, then writes). A tool is an interpreter
of `Script`, the list of files in the order in which the code writes them; the
server's start is ReadConfig, CheckLock, ReadSalt, OpenSecrets, as in `Run`.
`Die` ends a tool between any two steps. `Repin` is the operator's edit of
`security.pubkey_lock`. The archived public key is left out: no code reads it.
One operator runs one tool at a time. `MaxKeys = 3` allows an init and two
rotations; `MaxDead = 1` a death at any of their steps; `MaxEdits = 1`. The
proofs need none of these bounds.

### AdminSessions

`lastSeen` is the map of SessionStore (`Gone`: not in the map), `ended` the
sessions that were in it once, `jar` the cookie with its expiry. Each tab has one
request at a time, in four steps: Send (with the cookie of that moment), Gate
(requireAuth: Touch and VerifyCSRF), the handler (View, SaveReply, Logout; Login
and LoginRefused need no session), Answer (what the headers do to the jar, which
page is shown). Cut loses the request or the answer; it does not stop a handler.
A GET of /admin/logout logs out without a token (`leave`), as the code has it.
A session is the number of its login: tokens are random, so they are never drawn
twice, and a CSRF token stands for its session (an HMAC under a key that does not
change). What the pages show is left out, also the validation of the reply form:
a reply is saved, refused on its page, or failed. Bounds: two tabs, two logins,
four requests (a login, a page, a logout and one more beside them), one restart,
a clock of two idle timeouts; the proofs need none of them.

The idle timeout and the cookie disagree: the cookie lives 900 s from the login
(`session.go:178-188`) and is never sent again, so a receiver at work is sent to
the login page 15 minutes after the login although the session has never been
idle. The model has both clocks. `HARDENING.md:351` asks for exactly this
attribute and line 353, like `SPEC.md:117`, for an idle timeout; it is a question
for the team, not a property.

### AnonForms

One browser: tabs and a cookie jar. A form carries its page, its CSRF token
(0 when it was rendered without one) and the time of its proof of work; a post
carries the cookie the browser held for that path when it was sent, and is
handled later, within the read timeout. The answer may be lost after the server
has acted. Back brings back the form as it was sent. A GET is one step: cookie
and form reach the browser in the same response. Checks of fields and
attachments are one nondeterministic refusal, likewise the password and TOTP of
a login and the code of a reply: the forms behave the same for all outcomes.
Secure, SameSite and HttpOnly do not differ between the cases modelled.
`CookieLife = 2`, `PowLife = 1` keep the order of 10 and 5 minutes; three forms
and two posts suffice for two tabs, a Back and a resend.

## 3. Runs

| Run | Module, configuration | Checks | Result |
|---|---|---|---|
| store_core | MCCaseStore, CaseStore_core | TypeOK, NoStrandedFiles, ToldKept, IInv, ShredOnlyExpired, ExpiredLeave, ImplementsLifecycle | pass, 1.4 million states |
| store_cron | MCCaseStore, CaseStore_cron | ReplyReadable, ShredOnlyExpired, WipeEmpties | pass, 4.1 million |
| keys | KeyCustody | TypeOK, SealedOpenable, RestAgrees, ComesUp | pass, 28 thousand |
| sessions | AdminSessions | TypeOK, EndedForGood, SavedFromOwnPage, LoggedOut | pass, 1.6 million |
| forms | AnonForms | TypeOK, OwnFormWorks, StoredFresh | pass, 3.0 million |
| ingress | TorIngress | TypeOK, AddressKept, AnswersAtAddress | pass, 17 thousand |
| replies | ReplyChannel | TypeOK, OwnReplyOnly, SavedReaches | pass, 1.1 million |
| delivery | Delivery | TypeOK, PackedAsConfigured, ToldOpens, WholeOrNothing | pass, 1.7 million |
| wipe_race | MCCaseStore, CaseStore_wiperace | WipeDropsAll | violated |
| two_sweepers | MCCaseStore, CaseStore_twogc | SweptOrListed | violated |
| keys_relock | KeyCustody, KeyCustody_relock | RotateRelocks | violated |
| forms_cookie | AnonForms, AnonForms_cookie | SubmitFormWorks | violated |

What the passing runs show. *store_core*: with one sweeper and no wipe, insert
before mkdir and the opposite order in the rollback and in the sweep are enough;
no stop or failing call strands a directory, takes away a promised report or
shreds an unexpired one; whatever is left of a case is swept once it has expired,
since a sweep treats a missing directory or file as done and a failing one as a
reason to come back; and every step is one of CaseLifecycle or invisible to it.
*store_cron*: the sweeper of a second
process shreds nothing unexpired, unless the id on its list has been drawn again
meanwhile, and never makes a row promise an unreadable reply, cut-off rewrites of
an earlier one apart; a wipe that has the store to itself empties it, also of
what the races of other runs leave. *keys*: since the lock is written after the
config and the salt after secrets.age, a server never gets past its checks on a
key the receiver was not given, save in the window between the last write and
the display, which the property names (`Unprinted`). *sessions*: Touch is the only
place that refreshes a session, so a request that passed it cannot bring the
session back; no answer but a login's sets the cookie, so late answers leave a
logout alone. *forms*: the pages other
than /submit do not disturb one another. *ingress*: the address is made known
only after its key file is whole, so that no kill or failed write can cost it, and
a service left behind by a killed server is the very one the next start needs.
*replies*: the reply key is made of the code and the id, so that a post that
passed its checks for a case that has been swept meanwhile writes nothing the
next holder of the id can read; the code must find the very case of the path,
without which a reply would be reported saved that nobody can open. *delivery*:
the viewer writes nothing before it has all of the archive; a torn download fails
and may be repeated; the index keeps equal names apart.

What the violated ones show (details and quotations in `PROJECT.json`,
"findings"): a wipe misses a submission in progress; two sweepers can drop the
row of a directory that still exists; rotate-key does not update a lock named in
the config; /reply and /admin/login replace the cookie of /submit.

Remarks without a run, for the team:

* Two replies to one case at the same time are written into one file: when both
  have truncated it and the shorter one writes last, the file opens under no key,
  while both receivers are told it is saved (`store.go:183`; WriteReply in
  ReplyChannel). A second reply that is cut off after the truncation costs the
  first, and the row still promises it. ReplyReadable says that nothing else
  spoils a reply; SavedReaches is about posts that do not overlap.
* A reply or a second sweep that is still at work on a case when it is swept and
  its id drawn again meets the new case: the UPDATE flags a row that has no reply
  (`store.go:186`), the sweep shreds a fresh submission. Ids are 64 random bits
  (`crypto.go:126`), so this is noted in the properties (`DrawnOnce`) and not
  counted as a flaw.
* A /submit form can be stored twice, by Back or after a lost answer:
  `pow.go:53` remembers no token, where `ARCHITECTURE.md:149` says "1 回限り".
* An error of reading the onion key is dropped (`server.go:151`) and counts as a
  first start: the key is overwritten, and with it the address that
  `HARDENING.md:241` calls fixed. AddressKept excepts it (`misread`).
* A torn key file is refused at every start, and the server goes on without Tor
  until somebody removes it. When tor restarts beneath a running server, nothing
  adds the service again; `deploy/systemd/kakekomi.service` has
  `Requires=tor.service`, which covers a restart by systemd, not a crash of tor.
  After a crash of the server the service is not torn down by the next clean stop.
* The control connection has no deadline after the dial: a tor that accepts and
  does not answer holds up the start.
* A download marks a case read (`handlers.go:536`) before the answer is sent and
  whether or not its blob is complete.
* `safeFilename` looks for the dot only up to the last four bytes
  (`tarpack.go:117`), so "photo.jpg" becomes "photojpg.jpg", against the comment
  below it. The viewer does not clear its output directory: attachments of an
  earlier case stay beside those of a later one.
* The byte that is to emulate PKCS#7 (`tarpack.go:98`) is 0 for every archive
  (PadIsZero), and the doc comment of PackSubmission speaks of random bytes.
  Error pages go through http.Error and are not padded, where `SPEC.md:79` says
  every response to a submission is.
* FindCaseByCode finds a case that has expired and is not swept yet: the visitor
  sees its reply up to an hour longer.

* A missing lock is reported with "re-run `kakekomi init`
or restore" (`config.go:146`), but init refuses as long as the config exists
(`init.go:36-38`; StartInit in KeyCustody), which it does whenever that message is
printed.

`CHECK_DEADLOCK FALSE` in the AnonForms, AdminSessions, ReplyChannel and Delivery
configurations: the bounded number of forms, posts, replies or downloads may
simply be used up. The other models never deadlock.

Fairness. `FairSpec` of CaseStore assumes that the server, when down, is started
again (ServerStarts) and that the sweeping goroutine takes its steps, which
includes that the hourly ticker fires; of handlers and cron it assumes nothing.
The unit file has `Restart=on-failure`, but the start needs the passphrase, so
the operator or a credential is part of that assumption. The bound on faults
makes failing calls stop eventually: the property says that the code recovers,
not that it outruns a disk that always fails. `FairSpec` of KeyCustody assumes
that a tool that has started runs on (or dies) and that failed starts are
retried.

store_cron has the action constraint `WipeAlone`, which restricts when a wipe
runs: it starts with handlers and sweeps at rest and nothing else moves until it
ends. Steps outside a wipe are not restricted. Without that restriction
WipeDropsAll is violated (wipe_race), which is the point of having both.

## 4. Proofs

`CaseStoreProofs` proves, for all sets of ids, submitters, receivers, sweepers
and wipers, every TTL, hour and bound:

* `TypeCorrect` and `StoreSound`: Spec => []TypeOK and Spec => []Sound.
* `ToldIsKept`, `OnlyExpiredShredded`, `RepliesAreReadable`: ToldKept,
  ShredOnlyExpired and ReplyReadable, for any number of sweepers. What a wipe or
  an id drawn twice may do is excepted in the properties themselves.
* `SweepsHold`: Spec => [](~WipeBegun => SweepsSafe), the invariant behind them.
* `StoreSafe` and `NothingStranded`, if the server's loop is the only sweeper
  (`Clis = {}`): IInv and NoStrandedFiles in every state until a wipe begins.
* `WipesEmpty`: AloneSpec => WipeEmpties. `AloneSpec` takes the steps `WipeAlone`
  admits, as store_cron does.

Assumptions: `StoreAssumption` (the hour is at least a tick, the TTL at least an
hour, the kinds of processes are disjoint), and those that stand in the theorems,
none of which is a convenience: two_sweepers violates what StoreSafe says with a
second sweeper, wipe_race with a wipe.

The argument. None of the properties is inductive. `Sound` is what no process
can break, neither a wipe nor a sweep with a stale list: a file lies in a
directory, a row under the id its submission drew and with the expiry it was
given, and nothing is there under an id nobody drew. The rest is in two layers
above it.

With one sweeper: a sweep reads its list of expired ids once and acts on it much
later, so what protects a submission is that a listed row stays expired and
cannot be replaced while it exists (`LoopOwns`: the list is contained in Expired
at every step), and that an unfinished CreateCase holds an unexpired row of its
own (`CreatorsHold`). Two owners never share an id, nor does an owner have an id on
the list (lemma `Owned`); so the sweep and the creators work on different
directories, and the DELETE of a sweep comes only when the directory is gone.
`FilesHaveDirs` excludes that a late write of a reply brings back a file under a
directory that has been removed. `IInv` is the conjunction of these with TypeOK;
TLC checks it in store_core, `SafeStep` proves it inductive with one step per
action.

With several: a list may be stale, since the other sweeper may have deleted the
row and the id may have been drawn again. What remains true is that an id comes
on a list only through a case that has expired (`ListsSpent`), which time cannot
undo (`SpentStays`). A submission that alone drew its id has not expired, so no
list holds it (`Protected`); hence CreateCase keeps its row and directory
(`CreatorsKeep`) and what it stored stays (`StoredKeep`). The converse, that a row
outlives its blob although two sweepers may be at work in one directory, needs
where each of them is: past the blob, it is no longer whole (`BlobsPassed`).
`ListsStep`, `CreatorsStep`, `StoredStep` and `BlobsStep` prove the four, each
from the three lemmas on what a step may do to rows, files and directories
(`RowGoes`, `BlobChanges`, `DirChanges`).

A wipe: once it has begun nothing is promised, and `NotWiping` lets every proof
above begin where there is none. For one that has the store to itself `WipeHolds`
says that all directories left are on its list and that it knows every entry of
the one it shreds, whatever the races of earlier runs left there; when the list
is empty the directories are gone, and the DELETE takes all rows.

ReplyReadable needs `RepliesSafe` beside these. Whoever answers a case has its
code, so the case was stored and, if its id is its own, no rollback will follow
(`CodesOut`): the only thing that takes reply.bin away is a sweep, and then the
case has lapsed. A call of WriteReply is known to have left a whole file before it
marks the row (`WritersFit`), and until a second reply begins it is the only one
and nothing is marked (`RepliesCounted`). A case that has lapsed (row gone,
expired, or the id drawn again) is out of the statement, and stays so as far as
those are concerned who still work on it, because ids are drawn once per
submission (`RowsOwn`). `RepliesUntouched` says once what all steps but six keep.

`AdminSessionsProofs` proves, for any number of tabs, logins, requests and
restarts and every idle timeout (`SessionAssumption`: the bounds are natural
numbers, the timeout is positive): `SessionTypes` (TypeOK), `NoSessionReturns`
(EndedForGood), `RepliesFromOwnPage` (SavedFromOwnPage), `LogoutLogsOut`
(LoggedOut). The invariant `SessionInv` adds what the handlers rely on after
requireAuth has let a request in: the session it carries has been made and, for
a POST, is that of the page (`PassedOwn`); a session not made yet has no state and
has not ended (`FreshAbove`), without which a Login could revive one; only the
answer of a login sets a cookie (`AnswersFit`), and none is under way after a
logout until one is sent (`OutMeans`). Each lemma `...Tab` says what one action
does to its tab; the step lemmas use those instead of the actions.

`LifecycleProofs` proves `LifecycleImplemented`: LoopAlone => (Spec =>
ImplementsLifecycle), where `LoopAlone` is no second sweeper and no wipe: either
takes away more than the abstract specification allows. The mapping needs IInv and
`RowsOwn`: an id is drawn once,
by a request that has begun, and as long as its row is there the row's expiry is
that of the request. `PhaseSteps` says for which steps the phase of a submission
changes at all (an INSERT, the end of a write, a file zeroed or unlinked, a DELETE),
`QuietStutters` and `DataQuiet` that every other step is a stutter, `ExpiredLapsed`
that what the sweep or a rollback takes away has lapsed or was never promised.
`StepMaps` puts them together, one step per action.

`TorIngressProofs` proves AddressKept, AnswersAtAddress and TypeOK for any set of
keys (`TypesIngress`, `AddressStays`, `ServedAtAddress`). `SetupAgrees` is what
makes them inductive: while a new key is being written the key file holds no whole
one, before an existing one is used it is the one read, and as long as setupTor
runs, a control connection is open whenever tor has not stopped.

`ReplyChannelProofs` proves TypeOK, OwnReplyOnly and SavedReaches (`TypesReply`,
`RepliesAreOwn`, `SavedRepliesReach`) for any ids, codes, receivers and visitors
and any number of texts (`ReplyAssumption`: the code that stands for no row is
none of the codes). OwnReplyOnly rests on what is in the files: a whole reply is
sealed under the code of the case it answers (`SealedFor`), because a post that
got past Match carries the code of the very case of its page (`PostOK`).
SavedReaches needs the fate of one file: as long as a text is kept, the file
holds it sealed under the code of the row, and nobody has the file open
(`KeptOK`); a post that is alone on the file of a case that is still current finds
it as it left it, whatever was unlinked or drawn again elsewhere (`FileOK`); the
sweep is at work on expired ids only (`StoreOK`); and what a visit must show is
what is kept until it has read it (`VisitOK`).

`KeyCustodyProofs` proves TypeOK, SealedOpenable and RestAgrees (`TypesKeys`,
`SealsOpen`, `RestsWhole`) for any number of keys, deaths and edits
(`KeyAssumption`: the bounds are natural numbers). Nothing is there before the
config (`NothingBeforeConfig`), and what a running tool has written so far is
there (`InOrder`), which turns the order of `Script` into facts about the files.
There is one init that gets as far as the config (`OneInit`), so the salt becomes
whole only when the lock and the secrets are; from then on a whole lock holds a
key that was displayed or is about to be (`LocksOpenable`), and a start that has
checked its lock passes the salt only with such a key (`StartOpenable`).
`WholeAgrees` is RestAgrees, said also of a tool that has not begun to write.
`OpenableGrows`: no step takes a key back.

`AnonFormsProofs` proves TypeOK, StoredFresh and OwnFormWorks (`TypesForms`,
`StoresFresh`, `OwnFormsWork`) for any number of tabs, forms and posts and any
lifetimes (`FormAssumption`: natural numbers, the cookie lives at all). A cookie
of /reply or /admin/login holds the newest token of its page, one of /submit any
(`JarFits`): the asymmetry that keeps OwnFormWorks true and that forms_cookie
shows the other side of. A post under way carries a cookie that lived when it was
sent and, if its form was good then, the one its form needs (`TabFits`).

`DeliveryProofs` proves PackedAsConfigured, ToldOpens and WholeOrNothing
(`PacksAsConfigured`, `OpensWhenTold`, `ExtractsWhole`) for any names, sizes,
limits and configuration (`DeliveryAssumption`: sizes and limits are natural
numbers). Only allowed files are taken, and those not yet looked at fit
(`WithinLimits`); the archive no longer changes once a byte of its blob exists, so
that what was downloaded earlier may be compared with it later (`Frozen`); the
entries the viewer is past lie in the output under names of their own
(`Unpacked`). TypeOK (`TypeCorrect`) bounds the chunks of the blob and of a
download by those of the archive, says that a blob has its row, that the viewer
is never more than one entry past the end, and that no two files of the output
directory have one name. Its only hard part is that the length of an archive is
a number, since `ArchiveLen` sums up with a recursive function: `SetInduction`
derives induction over the naturals from their being well founded, with a set in
place of a predicate; with it `SumExists` and `SumNat` say that such a sum exists
and is a natural, and `ArchiveLenNat` applies them. The theorems about the lengths
(`FillerFits`, `PagesFillBlocks`,
`PagesBlend`, `ArchivesFillBlocks`, `PadIsZero`, `BlobsBlend`, `BucketsGrow`) need
no invariant: linear arithmetic, with quotient and remainder named where a
product would appear.

TLC was run on each of these invariants, on the instance of the component's run,
before it was proved; on Sound and SweepsSafe also with two sweepers, two
submitters and one or two ids, on WipeHolds under AloneSpec.

Only model-checked: liveness (ExpiredLeave, ComesUp), which is out of the prover's
reach. Every invariant, action property and refinement of the passing runs is the
statement of a theorem; NoStrandedFiles and ImplementsLifecycle with the
conditions named above.

## 5. Plan

Done: the models of section 2; every safety property of the passing runs is
proved. Left:

1. An abstract specification that also has the wipe and the second sweeper, whose
   promises would be those of ToldKept and ShredOnlyExpired, so that the
   refinement needs no LoopAlone.
2. Delivery has one submission; several with one inbox would show what the marks
   of a download say of each (`handlers.go:536`).

## 6. Not modelled

Cryptographic primitives, image decoding and process hardening are third-party
code or system calls without state of their own; templates, config validation and
the command line only dispatch or look at one parsed file; security headers are
constants. Timing floors (`FixedWaitUntil`) and server-side work are statistical
properties and not statements about behaviours. A power loss is outside: what
SQLite with synchronous=NORMAL and files without fsync lose is up to the file
system. The admin onion is named in the config (`config.go`, AdminOnionAddr) but
no code publishes it.
