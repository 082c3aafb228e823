----------------------------- MODULE TorIngress -----------------------------
(***************************************************************************)
(* The onion address of the server: setupTor of server.go and the control  *)
(* client of tor.go.  A start asks tor to publish the service whose key    *)
(* lies in tor/ingress.key, or draws a new key and writes that file.  The  *)
(* service is detached: tor keeps it when the control connection closes,   *)
(* so it outlives a server that is killed; it ends with DEL_ONION, or with *)
(* tor.  Whatever goes wrong in setupTor, the server goes on without Tor.  *)
(*                                                                         *)
(* A key stands for the address and the service that go with it.           *)
(***************************************************************************)
EXTENDS FiniteSets

CONSTANT Keys    \* the keys tor may draw; their number bounds the new services

\* What a key file holds that is not a whole key.
Unwhole == {"empty", "torn"}

ASSUME KeysAssumption == Keys \cap Unwhole = {}

VARIABLES
    tor,      \* the tor process: "up" or "down"
    live,     \* the services tor publishes
    file,     \* tor/ingress.key; an absent file reads as an empty one
    address,  \* tor/addresses.txt
    phase,    \* how far the server has got
    conn,     \* the control connection is open
    priv,     \* what os.ReadFile returned
    mine,     \* serviceID and newKey
    reached,  \* tor let this server in, and has not stopped since
    shown,    \* the addresses logged or written to addresses.txt so far
    misread   \* a read of a whole key file has failed

server == <<phase, conn, priv, mine, reached>>
vars   == <<tor, live, file, address, server, shown, misread>>

Contents == Keys \cup Unwhole
Phases   == {"off", "start", "auth", "read", "add", "save", "fill",
             "persist", "serving", "ingress"}

\* Tor draws a key nobody has.
Fresh == Keys \ (live \cup shown \cup {file, priv, mine})

Init == /\ tor \in {"up", "down"} /\ live = {} /\ file = "empty"
        /\ address = "empty" /\ shown = {} /\ misread = FALSE
        /\ phase = "off" /\ conn = FALSE /\ priv = "empty"
        /\ mine = "empty" /\ reached = FALSE

-----------------------------------------------------------------------------
(* setupTor, one action per call it makes.                                 *)

Start == /\ phase = "off"
         /\ phase' = "start" /\ priv' = "empty" /\ mine' = "empty"
         /\ reached' = FALSE
         /\ UNCHANGED <<tor, live, file, address, conn, shown, misread>>

\* "continuing without Tor": no teardown is deferred.
GoesOn == phase' = "serving" /\ conn' = FALSE

\* Tor is disabled, or DialTorControl fails.
NoTor == /\ phase = "start"
         /\ GoesOn
         /\ UNCHANGED <<tor, live, file, address, priv, mine, reached, shown, misread>>

Dial == /\ phase = "start" /\ tor = "up"
        /\ phase' = "auth" /\ conn' = TRUE
        /\ UNCHANGED <<tor, live, file, address, priv, mine, reached, shown, misread>>

Authenticate == /\ phase = "auth" /\ conn
                /\ phase' = "read" /\ reached' = TRUE
                /\ UNCHANGED <<tor, live, file, address, conn, priv, mine, shown, misread>>

AuthFails == /\ phase = "auth"
             /\ GoesOn
             /\ UNCHANGED <<tor, live, file, address, priv, mine, reached, shown, misread>>

ReadKey == /\ phase = "read"
           /\ phase' = "add" /\ priv' = file
           /\ UNCHANGED <<tor, live, file, address, conn, mine, reached, shown, misread>>

\* The error of ReadFile is dropped: the key file counts as empty.
ReadFails == /\ phase = "read"
             /\ phase' = "add" /\ priv' = "empty"
             /\ misread' = (misread \/ file \in Keys)
             /\ UNCHANGED <<tor, live, file, address, conn, mine, reached, shown>>

\* Any content of the file is taken for a key.
BugAddOnionExistingKey ==
    /\ phase = "add" /\ conn
    /\ priv # "empty" /\ priv \notin live
    /\ live' = live \cup {priv} /\ mine' = priv /\ phase' = "persist"
    /\ UNCHANGED <<tor, file, address, conn, priv, reached, shown, misread>>

\* ADD_ONION with the key of the file.
AddOnionExistingKey ==
    /\ phase = "add" /\ conn
    /\ priv \in Keys \ live
    /\ live' = live \cup {priv} /\ mine' = priv /\ phase' = "persist"
    /\ UNCHANGED <<tor, file, address, conn, priv, reached, shown, misread>>

\* No whole key (refused here or by tor), a service that is there already
\* (tor answers 550), or a connection that is gone.
AddOnionRefused ==
    /\ phase = "add" /\ priv # "empty"
    /\ priv \notin Keys \/ priv \in live \/ ~conn
    /\ GoesOn
    /\ UNCHANGED <<tor, live, file, address, priv, mine, reached, shown, misread>>

\* The address is made known before its key is kept.
BugAddOnionV3 ==
    /\ phase = "add" /\ priv = "empty" /\ conn
    /\ \E k \in Fresh : live' = live \cup {k} /\ mine' = k /\ shown' = shown \cup {k}
    /\ phase' = "save"
    /\ UNCHANGED <<tor, file, address, conn, priv, reached, misread>>

\* ADD_ONION NEW:ED25519-V3; the key comes back with the service.
AddOnionV3 ==
    /\ phase = "add" /\ priv = "empty" /\ conn
    /\ \E k \in Fresh : live' = live \cup {k} /\ mine' = k
    /\ phase' = "save"
    /\ UNCHANGED <<tor, file, address, conn, priv, reached, shown, misread>>

AddOnionFails ==
    /\ phase = "add" /\ priv = "empty" /\ ~conn
    /\ GoesOn
    /\ UNCHANGED <<tor, live, file, address, priv, mine, reached, shown, misread>>

\* os.WriteFile opens the file, which truncates it, and writes the key.
OpenKeyFile == /\ phase = "save"
               /\ phase' = "fill" /\ file' = "empty"
               /\ UNCHANGED <<tor, live, address, conn, priv, mine, reached, shown, misread>>

FillKeyFile == /\ phase = "fill"
               /\ phase' = "persist" /\ file' = mine
               /\ UNCHANGED <<tor, live, address, conn, priv, mine, reached, shown, misread>>

\* The service stays, though nobody has its key.
WriteFails == /\ \/ phase = "save" /\ file' = file
                 \/ phase = "fill" /\ file' \in Unwhole
              /\ GoesOn
              /\ UNCHANGED <<tor, live, address, priv, mine, reached, shown, misread>>

\* The teardown runs when setupTor returns, and not when Run does.
BugPersistOnionAddrs == /\ phase = "persist"
                        /\ address' \in {mine, address} \cup Unwhole
                        /\ shown' = shown \cup {mine} /\ phase' = "ingress"
                        /\ live' = live \ {mine}
                        /\ UNCHANGED <<tor, file, conn, priv, mine, reached, misread>>

\* persistOnionAddrs, whose error is dropped, and the log line of Run; from
\* here on the teardown is deferred.
PersistOnionAddrs == /\ phase = "persist"
                     /\ address' \in {mine, address} \cup Unwhole
                     /\ shown' = shown \cup {mine} /\ phase' = "ingress"
                     /\ UNCHANGED <<tor, live, file, conn, priv, mine, reached, misread>>

-----------------------------------------------------------------------------
\* A signal and Shutdown, or ListenAndServe fails: Run returns, and the
\* teardown runs if setupTor returned one.
Stop == /\ phase \in {"serving", "ingress"}
        /\ live' = IF phase = "ingress" /\ conn THEN live \ {mine} ELSE live
        /\ conn' = FALSE /\ phase' = "off"
        /\ UNCHANGED <<tor, file, address, priv, mine, reached, shown, misread>>

\* Killed; a signal before signal.Notify kills as well.
Crash == /\ phase # "off"
         /\ file' \in IF phase = "fill" THEN Unwhole ELSE {file}
         /\ address' \in IF phase = "persist" THEN {address} \cup Unwhole ELSE {address}
         /\ conn' = FALSE /\ phase' = "off"
         /\ UNCHANGED <<tor, live, priv, mine, reached, shown, misread>>

\* Tor forgets the services that were added to it.
TorStops == /\ tor = "up"
            /\ tor' = "down" /\ live' = {} /\ conn' = FALSE /\ reached' = FALSE
            /\ UNCHANGED <<file, address, phase, priv, mine, shown, misread>>

TorStarts == /\ tor = "down"
             /\ tor' = "up"
             /\ UNCHANGED <<live, file, address, server, shown, misread>>

SetupTor == \/ NoTor \/ Dial \/ Authenticate \/ AuthFails \/ ReadKey \/ ReadFails
            \/ AddOnionExistingKey \/ AddOnionRefused \/ AddOnionV3 \/ AddOnionFails
            \/ OpenKeyFile \/ FillKeyFile \/ WriteFails \/ PersistOnionAddrs

Next == Start \/ SetupTor \/ Stop \/ Crash \/ TorStops \/ TorStarts

Spec == Init /\ [][Next]_vars

-----------------------------------------------------------------------------
(* What the module promises.                                               *)

TypeOK ==
    /\ tor \in {"up", "down"} /\ live \subseteq Keys
    /\ file \in Contents /\ address \in Contents
    /\ phase \in Phases /\ conn \in BOOLEAN
    /\ priv \in Contents /\ mine \in Contents
    /\ reached \in BOOLEAN
    /\ shown \subseteq Keys /\ misread \in BOOLEAN

\* An address that was shown, in the log or in addresses.txt, stays the
\* address of every later start: whatever fails or is killed in between, its
\* key is the one in the key file (tor.go:182: "the .onion address stays the
\* same across restarts").  A failed read of the key file ends this: setupTor
\* takes it for a first start and overwrites the key.
AddressKept == ~misread => shown \cup ({address} \cap Keys) \subseteq {file}

\* A server that tor let in, and that has done with setupTor, can be reached
\* at the address of its key file for as long as tor runs: also when setupTor
\* failed because a killed server had left the service behind.
AnswersAtAddress ==
    phase \in {"serving", "ingress"} /\ reached /\ ~misread
        => {file} \cap Keys \subseteq live
=============================================================================
