----------------------------- MODULE KeyCustody -----------------------------
(***************************************************************************)
(* The receiver's age key and the files that hold, pin and protect it.     *)
(* `kakekomi init` and `kakekomi rotate-key` write several files one after *)
(* another and print the new secret key last; `kakekomi run` reads them    *)
(* one after another and then encrypts every submission to the key it has  *)
(* read.  A tool may die, or a write fail, between any two steps; the      *)
(* server starts, stops and restarts beside the tools.                     *)
(*                                                                         *)
(* A file's content is abstracted to the number of the key drawn by the    *)
(* tool run that wrote it (the lock holds its hash, secrets.age and        *)
(* secrets.salt hold that run's passphrase salt); config also names the    *)
(* lock file to check.  os.WriteFile truncates, then writes: in between    *)
(* the file is Torn.  The archived copy of the old public key is left out, *)
(* no code reads it.                                                       *)
(*                                                                         *)
(* One operator runs one tool at a time, and edits the config only between *)
(* tool runs.                                                              *)
(***************************************************************************)
EXTENDS Integers, Sequences

CONSTANTS
    MaxKeys,   \* bound on the keys drawn
    MaxDead,   \* bound on the tool runs that die
    MaxEdits   \* bound on the operator's edits of the config

ASSUME KeyAssumption == MaxKeys \in Nat /\ MaxDead \in Nat /\ MaxEdits \in Nat

VARIABLES
    disk,     \* file -> Absent, Torn or a key number
    path,     \* the lock file config names
    drawn,    \* keys drawn so far
    tool,     \* the running tool: step, kind, key, position in its script, path read
    dead,     \* positions (kind, key, at) where tools died
    shown,    \* keys whose secret was printed
    server,   \* the server: step, key and salt it has read, lock path
    sealed,   \* keys submissions are encrypted to
    said,     \* the last message of a tool or of a failed start
    edits

vars == <<disk, path, drawn, tool, dead, shown, server, sealed, said, edits>>

Absent == 0
Torn   == -1
Keys   == 1 .. MaxKeys
Locks  == {"lock", "altLock"}
Files  == {"config", "pub", "secrets", "salt"} \cup Locks

\* Rotation pins the key before it puts it into use.
BugScriptOrder(kind) ==
    IF kind = "init" THEN <<"config", "pub", "lock", "secrets", "salt">>
                     ELSE <<"lock", "config", "pub">>
\* Rotation leaves the old public key file.
BugScriptPub(kind) ==
    IF kind = "init" THEN <<"config", "pub", "lock", "secrets", "salt">>
                     ELSE <<"config", "lock">>

\* What Init and RotateKey write, in their order; the secret is printed last.
Script(kind) ==
    IF kind = "init" THEN <<"config", "pub", "lock", "secrets", "salt">>
                     ELSE <<"config", "pub", "lock">>

Kinds == {"init", "rotate"}
Tools == [pc: {"idle", "load", "check", "draw", "trunc", "fill", "print"},
          kind: Kinds, key: Int, at: 1 .. 6, path: Locks]
Servers == [pc: {"down", "check", "salt", "blob", "serving"}, key: Int, salt: Int, path: Locks]

NoTool == [pc |-> "idle", kind |-> "init", key |-> Absent, at |-> 1, path |-> "lock"]
Stopped == [pc |-> "down", key |-> Absent, salt |-> Absent, path |-> "lock"]

------------------------------------------------------------------------------
(* The tools.                                                                *)

\* Init refuses when a config exists.
StartInit ==
    /\ tool.pc = "idle" /\ drawn < MaxKeys
    /\ \/ /\ disk["config"] # Absent
          /\ said' = "exists"
          /\ UNCHANGED tool
       \/ /\ disk["config"] = Absent
          /\ tool' = [NoTool EXCEPT !.pc = "draw"]
          /\ UNCHANGED said
    /\ UNCHANGED <<disk, path, drawn, dead, shown, server, sealed, edits>>

\* RotateKey begins with LoadConfig.
StartRotate ==
    /\ tool.pc = "idle" /\ drawn < MaxKeys
    /\ tool' = [NoTool EXCEPT !.pc = "load", !.kind = "rotate"]
    /\ UNCHANGED <<disk, path, drawn, dead, shown, server, sealed, said, edits>>

ToolReadsConfig ==
    /\ tool.pc = "load"
    /\ \/ /\ disk["config"] \in Keys
          /\ tool' = [tool EXCEPT !.pc = "check", !.key = disk["config"], !.path = path]
          /\ UNCHANGED said
       \/ /\ disk["config"] \notin Keys
          /\ tool' = NoTool /\ said' = "config"
    /\ UNCHANGED <<disk, path, drawn, dead, shown, server, sealed, edits>>

\* verifyPubkeyLock
LockSays(p, k) ==
    IF disk[p] = k THEN "ok" ELSE IF disk[p] = Absent THEN "missing" ELSE "mismatch"

ToolChecksLock ==
    /\ tool.pc = "check"
    /\ LET says == LockSays(tool.path, tool.key) IN
       \/ /\ says = "ok"
          /\ tool' = [tool EXCEPT !.pc = "draw"]
          /\ UNCHANGED said
       \/ /\ says # "ok"
          /\ tool' = NoTool /\ said' = says
    /\ UNCHANGED <<disk, path, drawn, dead, shown, server, sealed, edits>>

\* GenerateAgeKey
DrawKey ==
    /\ tool.pc = "draw"
    /\ drawn' = drawn + 1
    /\ tool' = [tool EXCEPT !.pc = "trunc", !.key = drawn + 1]
    /\ UNCHANGED <<disk, path, dead, shown, server, sealed, said, edits>>

Truncate ==
    /\ tool.pc = "trunc"
    /\ disk' = [disk EXCEPT ![Script(tool.kind)[tool.at]] = Torn]
    /\ tool' = [tool EXCEPT !.pc = "fill"]
    /\ UNCHANGED <<path, drawn, dead, shown, server, sealed, said, edits>>

\* One file too many.
BugFill ==
    LET f == Script(tool.kind)[tool.at]
        last == tool.at > Len(Script(tool.kind))
    IN
    /\ tool.pc = "fill"
    /\ disk' = [disk EXCEPT ![f] = tool.key]
    /\ path' = IF f = "config" THEN tool.path ELSE path
    /\ tool' = [tool EXCEPT !.pc = IF last THEN "print" ELSE "trunc", !.at = @ + 1]
    /\ UNCHANGED <<drawn, dead, shown, server, sealed, said, edits>>

\* RotateKey writes back the config it read, with the lock path it had; Init
\* writes the default one.  Both write the lock at the default path.
Fill ==
    LET f == Script(tool.kind)[tool.at]
        last == tool.at = Len(Script(tool.kind))
    IN
    /\ tool.pc = "fill"
    /\ disk' = [disk EXCEPT ![f] = tool.key]
    /\ path' = IF f = "config" THEN tool.path ELSE path
    /\ tool' = [tool EXCEPT !.pc = IF last THEN "print" ELSE "trunc", !.at = @ + 1]
    /\ UNCHANGED <<drawn, dead, shown, server, sealed, said, edits>>

\* The one and only display of the secret key.
PrintSecret ==
    /\ tool.pc = "print"
    /\ shown' = shown \cup {tool.key}
    /\ said' = tool.kind
    /\ tool' = NoTool
    /\ UNCHANGED <<disk, path, drawn, dead, server, sealed, edits>>

\* Killed, out of power, or os.WriteFile returned an error.
Die ==
    /\ tool.pc \in {"trunc", "fill", "print"} /\ Len(dead) < MaxDead
    /\ dead' = Append(dead, [kind |-> tool.kind, key |-> tool.key, at |-> tool.at])
    /\ tool' = NoTool
    /\ UNCHANGED <<disk, path, drawn, shown, server, sealed, said, edits>>

------------------------------------------------------------------------------
(* The server.                                                               *)

\* Run: LoadConfig reads the config, then the lock file it names ...
ReadConfig ==
    /\ server.pc = "down"
    /\ \/ /\ disk["config"] \in Keys
          /\ server' = [server EXCEPT !.pc = "check", !.key = disk["config"], !.path = path]
          /\ UNCHANGED said
       \/ /\ disk["config"] \notin Keys
          /\ said' = "config"
          /\ UNCHANGED server
    /\ UNCHANGED <<disk, path, drawn, tool, dead, shown, sealed, edits>>

\* A start that finds the lock wrong waits for it, with the config it has read.
BugCheckLock ==
    /\ server.pc = "check"
    /\ LET says == LockSays(server.path, server.key) IN
       \/ /\ says = "ok"
          /\ server' = [server EXCEPT !.pc = "salt"]
          /\ UNCHANGED said
       \/ /\ says # "ok"
          /\ UNCHANGED server /\ said' = says
    /\ UNCHANGED <<disk, path, drawn, tool, dead, shown, sealed, edits>>

CheckLock ==
    /\ server.pc = "check"
    /\ LET says == LockSays(server.path, server.key) IN
       \/ /\ says = "ok"
          /\ server' = [server EXCEPT !.pc = "salt"]
          /\ UNCHANGED said
       \/ /\ says # "ok"
          /\ server' = Stopped /\ said' = says
    /\ UNCHANGED <<disk, path, drawn, tool, dead, shown, sealed, edits>>

\* ... then LoadSecrets reads the salt and decrypts secrets.age with it.
ReadSalt ==
    /\ server.pc = "salt"
    /\ \/ /\ disk["salt"] # Absent
          /\ server' = [server EXCEPT !.pc = "blob", !.salt = disk["salt"]]
          /\ UNCHANGED said
       \/ /\ disk["salt"] = Absent
          /\ server' = Stopped /\ said' = "secrets"
    /\ UNCHANGED <<disk, path, drawn, tool, dead, shown, sealed, edits>>

OpenSecrets ==
    /\ server.pc = "blob"
    /\ \/ /\ disk["secrets"] \in Keys /\ disk["secrets"] = server.salt
          /\ server' = [server EXCEPT !.pc = "serving"]
          /\ UNCHANGED said
       \/ /\ disk["secrets"] \notin Keys \/ disk["secrets"] # server.salt
          /\ server' = Stopped /\ said' = "secrets"
    /\ UNCHANGED <<disk, path, drawn, tool, dead, shown, sealed, edits>>

\* processSubmit encrypts to the key read at the start.
Submit ==
    /\ server.pc = "serving"
    /\ sealed' = sealed \cup {server.key}
    /\ UNCHANGED <<disk, path, drawn, tool, dead, shown, server, said, edits>>

ServerStops ==
    /\ server.pc = "serving"
    /\ server' = Stopped
    /\ UNCHANGED <<disk, path, drawn, tool, dead, shown, sealed, said, edits>>

\* The operator pins the key in a file of their choice, as the example config
\* does, and names it in security.pubkey_lock.
Repin ==
    /\ tool.pc = "idle" /\ edits < MaxEdits
    /\ path = "lock" /\ disk["config"] \in Keys /\ disk["lock"] = disk["config"]
    /\ disk' = [disk EXCEPT !["altLock"] = disk["lock"]]
    /\ path' = "altLock"
    /\ edits' = edits + 1
    /\ UNCHANGED <<drawn, tool, dead, shown, server, sealed, said>>

------------------------------------------------------------------------------
Init ==
    /\ disk = [f \in Files |-> Absent]
    /\ path = "lock" /\ drawn = 0 /\ tool = NoTool /\ dead = <<>>
    /\ shown = {} /\ server = Stopped /\ sealed = {} /\ said = "" /\ edits = 0

ToolStep == ToolReadsConfig \/ ToolChecksLock \/ DrawKey \/ Truncate \/ Fill \/ PrintSecret
StartStep == ReadConfig \/ CheckLock \/ ReadSalt \/ OpenSecrets

Next ==
    \/ StartInit \/ StartRotate \/ ToolStep \/ Die
    \/ StartStep \/ Submit \/ ServerStops \/ Repin

Spec == Init /\ [][Next]_vars

\* A started tool runs on; a failed start is retried, with the passphrase: by
\* the operator, or by the service manager (Restart=on-failure) when it has been
\* given the passphrase as a credential.
FairSpec == Spec /\ WF_vars(ToolStep) /\ WF_vars(StartStep)

------------------------------------------------------------------------------
(* Types of the files, the running tool and the server. *)
TypeOK ==
    /\ disk \in [Files -> Int]
    /\ path \in Locks
    /\ drawn \in Int
    /\ tool \in Tools
    /\ tool.pc \in {"trunc", "fill"} => tool.at <= Len(Script(tool.kind))
    /\ dead \in Seq([kind: Kinds, key: Int, at: 1 .. 6])
    /\ shown \subseteq Int /\ sealed \subseteq Int
    /\ server \in Servers
    /\ edits \in Int

(* A key whose secret the receiver has not been shown and may never be: its  *)
(* tool has written every file but not printed yet, or died just there.      *)
Unprinted ==
    (IF tool.pc = "print" THEN {tool.key} ELSE {})
        \cup {dead[i].key : i \in {j \in 1 .. Len(dead) : dead[j].at > Len(Script(dead[j].kind))}}

(* Submissions are sealed only to keys the receiver can open: a tool that is *)
(* interrupted before its last file never gets its key into use, because the *)
(* lock is written after the config and the salt after secrets.age.  The one *)
(* exception is the window between the last write and the display.           *)
SealedOpenable == sealed \subseteq shown \cup Unprinted

(* With the default lock path and no tool ever cut off, the files agree      *)
(* whenever no tool is running, so the server can start.                     *)
RestAgrees ==
    tool.pc = "idle" /\ dead = <<>> /\ path = "lock" /\ disk["config"] # Absent =>
        /\ disk["config"] \in shown
        /\ disk["lock"] = disk["config"] /\ disk["pub"] = disk["config"]
        /\ disk["secrets"] = disk["salt"] /\ disk["salt"] \in Keys

(* A key that has been displayed comes into use: the server, whenever it is  *)
(* down, gets up again however its start collided with a tool, unless a tool *)
(* died or the lock was moved.                                               *)
ComesUp ==
    (shown # {}) ~> (server.pc = "serving" \/ dead # <<>> \/ path # "lock")

(* rotate-key updates the lock: after it has reported success the config and *)
(* the lock it names agree.                                                  *)
RotateRelocks ==
    said = "rotate" /\ tool.pc = "idle" => disk["config"] = disk[path]
=============================================================================
