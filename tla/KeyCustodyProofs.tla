-------------------------- MODULE KeyCustodyProofs --------------------------
(***************************************************************************)
(* Proofs about KeyCustody for any bounds: no submission is sealed to a    *)
(* key the receiver cannot open, but for the window of the display; and    *)
(* with tools that are never cut off the files agree at rest.              *)
(***************************************************************************)
EXTENDS KeyCustody, SequenceTheorems, TLAPS

\* The keys the receiver can open, but for the window of the display.
Openable == shown \cup Unprinted

\* An init that has not written its last file.
Starting == tool.kind = "init" /\ tool.pc \in {"draw", "trunc", "fill"}

\* No file is older than the config, and nobody reads one before it is there.
NothingBeforeConfig ==
    disk["config"] = Absent =>
        /\ \A f \in Files : disk[f] = Absent
        /\ path = "lock" /\ server.pc = "down"
        /\ tool.pc \in {"idle", "load", "draw", "trunc"}
        /\ tool.pc \in {"draw", "trunc"} => tool.kind = "init"

\* The number of files a tool writes.
Last(kind) == IF kind = "init" THEN 5 ELSE 3

\* What a running tool has written is there, for only one runs at a time.
InOrder ==
    /\ drawn \in 0 .. MaxKeys
    /\ tool.pc \in {"load", "check", "draw"} => drawn < MaxKeys
    /\ tool.pc \in {"load", "check"} => tool.kind = "rotate"
    /\ tool.pc \in {"trunc", "fill", "print"} =>
          /\ tool.key \in Keys
          /\ tool.at > 1 => disk["config"] = tool.key
          /\ tool.at > 2 => disk["pub"] = tool.key
          /\ tool.at > 3 => disk["lock"] = tool.key
          /\ tool.at > 4 => disk["secrets"] = tool.key
          /\ tool.at > 5 => disk["salt"] = tool.key
    /\ tool.pc = "fill" /\ tool.at = 1 => disk["config"] = Torn
    /\ tool.pc \in {"draw", "load", "check"} => tool.at = 1
    /\ tool.pc \in {"trunc", "fill"} => tool.at <= Last(tool.kind)
    /\ tool.pc = "print" => tool.at = Last(tool.kind) + 1

\* There is one init that gets as far as the config.
OneInit ==
    Starting =>
        /\ tool.pc = "draw" \/ (tool.pc = "trunc" /\ tool.at = 1) => disk["config"] = Absent
        /\ path = "lock" /\ tool.path = "lock"
        /\ disk["altLock"] = Absent /\ disk["salt"] \notin Keys
        /\ server.pc # "serving"
        /\ server.pc # "down" => server.key = tool.key

\* The salt is written last: once it is whole, a whole lock is of a key in use.
LocksOpenable ==
    disk["salt"] \in Keys => \A p \in Locks : disk[p] \in Keys => disk[p] \in Openable

\* A start that has checked its lock gets by the salt only with such a key.
StartOpenable ==
    /\ server.pc # "down" => server.key \in Keys
    /\ server.pc \in {"salt", "blob"} /\ server.key \notin Openable => disk["salt"] \notin Keys
    /\ server.pc = "blob" /\ server.salt \in Keys => disk["salt"] \in Keys
    /\ server.pc = "serving" => server.key \in Openable

\* What RestAgrees says, of a tool that has not begun to write as well.
WholeAgrees ==
    dead = <<>> /\ disk["config"] # Absent =>
        /\ ~Starting => disk["secrets"] = disk["salt"] /\ disk["salt"] \in Keys
        /\ tool.pc \in {"idle", "load", "check", "draw"} =>
              /\ disk["config"] \in shown /\ disk["pub"] = disk["config"]
              /\ path = "lock" => disk["lock"] = disk["config"]

KeyInv ==
    /\ TypeOK /\ NothingBeforeConfig /\ InOrder /\ OneInit
    /\ LocksOpenable /\ StartOpenable /\ WholeAgrees /\ SealedOpenable

-----------------------------------------------------------------------------
(* The scripts, and the types.                                             *)

(* What the tools write, and in which order.                                 *)
LEMMA Scripts ==
    /\ Len(Script("init")) = 5 /\ Len(Script("rotate")) = 3
    /\ \A kind \in Kinds :
          /\ \A j \in 1 .. Len(Script(kind)) : Script(kind)[j] \in Files
          /\ Script(kind)[1] = "config" /\ Script(kind)[2] = "pub" /\ Script(kind)[3] = "lock"
    /\ Script("init")[4] = "secrets" /\ Script("init")[5] = "salt"
<1>1. Len(Script("init")) = 5 /\ Len(Script("rotate")) = 3
  BY DEF Script
<1>2. /\ Script("init")[1] = "config" /\ Script("init")[2] = "pub" /\ Script("init")[3] = "lock"
      /\ Script("init")[4] = "secrets" /\ Script("init")[5] = "salt"
  BY DEF Script
<1>3. Script("rotate")[1] = "config" /\ Script("rotate")[2] = "pub" /\ Script("rotate")[3] = "lock"
  BY DEF Script
<1> QED
  BY <1>1, <1>2, <1>3 DEF Kinds, Files, Locks

(* The moves of a tool and of the server.                                    *)
LEMMA Moves ==
    /\ NoTool \in Tools /\ [NoTool EXCEPT !.pc = "draw"] \in Tools
    /\ [NoTool EXCEPT !.pc = "load", !.kind = "rotate"] \in Tools
    /\ \A t \in Tools, k \in Int, p \in Locks :
          /\ [t EXCEPT !.pc = "check", !.key = k, !.path = p] \in Tools
          /\ [t EXCEPT !.pc = "draw"] \in Tools /\ [t EXCEPT !.pc = "fill"] \in Tools
          /\ [t EXCEPT !.pc = "trunc", !.key = k] \in Tools
    /\ \A t \in Tools : t.at < 6 =>
          /\ [t EXCEPT !.pc = "print", !.at = t.at + 1] \in Tools
          /\ [t EXCEPT !.pc = "trunc", !.at = t.at + 1] \in Tools
    /\ Stopped \in Servers
    /\ \A s \in Servers, k \in Int, p \in Locks :
          /\ [s EXCEPT !.pc = "check", !.key = k, !.path = p] \in Servers
          /\ [s EXCEPT !.pc = "salt"] \in Servers /\ [s EXCEPT !.pc = "serving"] \in Servers
          /\ [s EXCEPT !.pc = "blob", !.salt = k] \in Servers
<1>1. /\ NoTool \in Tools /\ [NoTool EXCEPT !.pc = "draw"] \in Tools
      /\ [NoTool EXCEPT !.pc = "load", !.kind = "rotate"] \in Tools /\ Stopped \in Servers
  <2>1. NoTool \in Tools /\ Stopped \in Servers
    BY DEF NoTool, Tools, Kinds, Locks, Absent, Stopped, Servers
  <2> QED
    BY <2>1 DEF Tools, Kinds
<1>2. ASSUME NEW t \in Tools, NEW k \in Int, NEW p \in Locks
      PROVE  /\ [t EXCEPT !.pc = "check", !.key = k, !.path = p] \in Tools
             /\ [t EXCEPT !.pc = "draw"] \in Tools /\ [t EXCEPT !.pc = "fill"] \in Tools
             /\ [t EXCEPT !.pc = "trunc", !.key = k] \in Tools
  BY DEF Tools
<1>3. ASSUME NEW t \in Tools, t.at < 6
      PROVE  /\ [t EXCEPT !.pc = "print", !.at = t.at + 1] \in Tools
             /\ [t EXCEPT !.pc = "trunc", !.at = t.at + 1] \in Tools
  <2>1. t.at + 1 \in 1 .. 6
    BY <1>3 DEF Tools
  <2> QED
    BY <2>1 DEF Tools
<1>4. ASSUME NEW s \in Servers, NEW k \in Int, NEW p \in Locks
      PROVE  /\ [s EXCEPT !.pc = "check", !.key = k, !.path = p] \in Servers
             /\ [s EXCEPT !.pc = "salt"] \in Servers /\ [s EXCEPT !.pc = "serving"] \in Servers
             /\ [s EXCEPT !.pc = "blob", !.salt = k] \in Servers
  BY DEF Servers
<1> QED
  BY <1>1, <1>2, <1>3, <1>4

(* The fields of the tool and of the server.                                 *)
LEMMA Fields ==
    ASSUME TypeOK
    PROVE  /\ tool.kind \in Kinds /\ tool.key \in Int /\ tool.at \in 1 .. 6 /\ tool.path \in Locks
           /\ server.key \in Int /\ server.salt \in Int /\ server.path \in Locks
BY DEF TypeOK, Tools, Servers

(* The tool and the server stay what they are.                               *)
LEMMA NextRuns == TypeOK /\ [Next]_vars => tool' \in Tools /\ server' \in Servers
<1> SUFFICES ASSUME TypeOK, [Next]_vars PROVE tool' \in Tools /\ server' \in Servers
  OBVIOUS
<1>a. /\ tool \in Tools /\ server \in Servers /\ drawn \in Int /\ path \in Locks
      /\ disk["config"] \in Int /\ disk["salt"] \in Int /\ drawn + 1 \in Int
      /\ tool.at \in 1 .. 6 /\ (tool.pc = "fill" => tool.at < 6)
  <2>1. \A kind \in Kinds : Len(Script(kind)) \in {3, 5}
    BY Scripts DEF Kinds
  <2>2. tool.kind \in Kinds /\ tool.at \in 1 .. 6
    BY Fields
  <2>3. tool.pc = "fill" => tool.at <= Len(Script(tool.kind))
    BY DEF TypeOK
  <2>4. PICK n \in {3, 5} : n = Len(Script(tool.kind))
    BY <2>1, <2>2, Zenon
  <2>5. tool.pc = "fill" => tool.at < 6
    <3>1. tool.pc = "fill" => tool.at <= n
      BY <2>3, <2>4, Zenon
    <3> QED
      BY <2>2, <3>1
  <2>6. /\ tool \in Tools /\ server \in Servers /\ drawn \in Int /\ path \in Locks
        /\ disk["config"] \in Int /\ disk["salt"] \in Int
    BY DEF TypeOK, Files
  <2> QED
    BY <2>2, <2>5, <2>6
<1> USE <1>a, Moves
<1>1. CASE StartInit
  BY <1>1 DEF StartInit
<1>2. CASE StartRotate
  BY <1>2 DEF StartRotate
<1>3. CASE ToolReadsConfig
  <2>1. [tool EXCEPT !.pc = "check", !.key = disk["config"], !.path = path] \in Tools
    OBVIOUS
  <2> QED
    BY <1>3, <2>1 DEF ToolReadsConfig
<1>4. CASE ToolChecksLock
  BY <1>4 DEF ToolChecksLock
<1>5. CASE DrawKey
  BY <1>5 DEF DrawKey
<1>6. CASE Truncate
  BY <1>6 DEF Truncate
<1>7. CASE Fill
  BY <1>7 DEF Fill
<1>8. CASE PrintSecret
  BY <1>8 DEF PrintSecret
<1>9. CASE Die
  BY <1>9 DEF Die
<1>10. CASE ReadConfig
  <2>1. [server EXCEPT !.pc = "check", !.key = disk["config"], !.path = path] \in Servers
    OBVIOUS
  <2> QED
    BY <1>10, <2>1 DEF ReadConfig
<1>11. CASE CheckLock
  BY <1>11 DEF CheckLock
<1>12. CASE ReadSalt
  BY <1>12 DEF ReadSalt
<1>13. CASE OpenSecrets
  BY <1>13 DEF OpenSecrets
<1>14. CASE Submit
  BY <1>14 DEF Submit
<1>15. CASE ServerStops
  BY <1>15 DEF ServerStops
<1>16. CASE Repin
  BY <1>16 DEF Repin
<1>17. CASE UNCHANGED vars
  BY <1>17 DEF vars
<1> QED
  BY <1>1, <1>2, <1>3, <1>4, <1>5, <1>6, <1>7, <1>8, <1>9, <1>10, <1>11, <1>12, <1>13,
     <1>14, <1>15, <1>16, <1>17 DEF Next, ToolStep, StartStep

(* A tool that writes has a file to write.                                   *)
LEMMA NextAt ==
    TypeOK /\ InOrder /\ [Next]_vars => (tool.pc \in {"trunc", "fill"} => tool.at <= Len(Script(tool.kind)))'
<1> DEFINE Goal == (tool.pc \in {"trunc", "fill"} => tool.at <= Len(Script(tool.kind)))'
<1> SUFFICES ASSUME TypeOK, InOrder, [Next]_vars PROVE Goal
  OBVIOUS
<1>a. tool \in Tools /\ (tool.pc \in {"trunc", "fill"} => tool.at <= Len(Script(tool.kind)))
      /\ (tool.pc = "draw" => tool.at = 1)
      /\ drawn \in Int /\ disk["config"] \in Int /\ path \in Locks
  BY DEF TypeOK, InOrder, Files
<1>b. tool.kind \in Kinds /\ \A kind \in Kinds : Len(Script(kind)) \in {3, 5}
  BY Scripts, Fields DEF Kinds
<1>c. \A kind \in Kinds : 1 <= Len(Script(kind))
  BY Scripts DEF Kinds
<1> USE <1>a, <1>b DEF Tools
<1>1. CASE StartInit
  BY <1>1 DEF StartInit, NoTool
<1>2. CASE StartRotate
  BY <1>2 DEF StartRotate, NoTool
<1>3. CASE ToolReadsConfig
  <2>1. CASE tool' = NoTool
    BY <2>1 DEF NoTool
  <2>2. ASSUME NEW k \in Int, NEW p \in Locks,
               tool' = [tool EXCEPT !.pc = "check", !.key = k, !.path = p]
        PROVE  Goal
    BY <2>2
  <2> QED
    BY <1>3, <2>1, <2>2 DEF ToolReadsConfig
<1>4. CASE ToolChecksLock
  BY <1>4 DEF ToolChecksLock, NoTool, LockSays
<1>5. CASE DrawKey
  <2>a. drawn + 1 \in Int
    BY <1>a
  <2>1. PICK k \in Int : tool' = [tool EXCEPT !.pc = "trunc", !.key = k]
    BY <1>5, <2>a DEF DrawKey
  <2>2. tool'.at = 1 /\ tool'.kind = tool.kind
    BY <1>5, <2>1 DEF DrawKey
  <2>3. tool'.kind \in Kinds
    BY <1>b, <2>2, Zenon
  <2> QED
    BY <1>c, <2>2, <2>3, Zenon
<1>6. CASE Truncate
  BY <1>6 DEF Truncate
<1>7. CASE Fill
  BY <1>7 DEF Fill
<1>8. CASE PrintSecret
  BY <1>8 DEF PrintSecret, NoTool
<1>9. CASE Die
  BY <1>9 DEF Die, NoTool
<1>10. CASE ReadConfig
  BY <1>10 DEF ReadConfig
<1>11. CASE CheckLock
  BY <1>11 DEF CheckLock, Stopped, LockSays
<1>12. CASE ReadSalt
  BY <1>12 DEF ReadSalt, Stopped
<1>13. CASE OpenSecrets
  BY <1>13 DEF OpenSecrets, Stopped
<1>14. CASE Submit
  BY <1>14 DEF Submit
<1>15. CASE ServerStops
  BY <1>15 DEF ServerStops, Stopped
<1>16. CASE Repin
  BY <1>16 DEF Repin
<1>17. CASE UNCHANGED vars
  BY <1>17 DEF vars
<1> QED
  BY <1>1, <1>2, <1>3, <1>4, <1>5, <1>6, <1>7, <1>8, <1>9, <1>10, <1>11, <1>12, <1>13,
     <1>14, <1>15, <1>16, <1>17 DEF Next, ToolStep, StartStep

(* Every step keeps the types.                                               *)
LEMMA NextTypes == TypeOK /\ InOrder /\ [Next]_vars => TypeOK'
<1> SUFFICES ASSUME TypeOK, InOrder, [Next]_vars PROVE TypeOK'
  OBVIOUS
<1>a. /\ tool' \in Tools /\ server' \in Servers
      /\ Absent \in Int /\ Torn \in Int /\ Keys \subseteq Int /\ {"lock", "altLock"} = Locks
      /\ tool.kind \in Kinds /\ tool.key \in Int /\ tool.at \in 1 .. 6 /\ tool.path \in Locks
      /\ server.key \in Int
  BY NextRuns, Fields DEF Absent, Torn, Keys, Locks
<1>c. (tool.pc \in {"trunc", "fill"} => tool.at <= Len(Script(tool.kind)))'
  BY NextAt
<1>b. /\ \A kind \in Kinds : Len(Script(kind)) \in {3, 5}
      /\ \A kind \in Kinds : \A j \in 1 .. Len(Script(kind)) : Script(kind)[j] \in Files
  BY Scripts DEF Kinds
<1> USE <1>a, <1>b, <1>c DEF TypeOK
<1>1. CASE StartInit
  BY <1>1 DEF StartInit, NoTool
<1>2. CASE StartRotate
  BY <1>2 DEF StartRotate, NoTool
<1>3. CASE ToolReadsConfig
  BY <1>3 DEF ToolReadsConfig, NoTool
<1>4. CASE ToolChecksLock
  BY <1>4 DEF ToolChecksLock, NoTool, LockSays
<1>5. CASE DrawKey
  BY <1>5 DEF DrawKey
<1>6. CASE Truncate
  BY <1>6 DEF Truncate
<1>7. CASE Fill
  BY <1>7 DEF Fill
<1>8. CASE PrintSecret
  BY <1>8 DEF PrintSecret, NoTool
<1>9. CASE Die
  <2>1. [kind |-> tool.kind, key |-> tool.key, at |-> tool.at] \in [kind: Kinds, key: Int, at: 1 .. 6]
    BY Fields
  <2>2. dead' \in Seq([kind: Kinds, key: Int, at: 1 .. 6])
    BY <1>9, <2>1, AppendProperties DEF Die
  <2> QED
    BY <1>9, <2>2 DEF Die, NoTool
<1>10. CASE ReadConfig
  BY <1>10 DEF ReadConfig
<1>11. CASE CheckLock
  BY <1>11 DEF CheckLock, Stopped, LockSays
<1>12. CASE ReadSalt
  BY <1>12 DEF ReadSalt, Stopped
<1>13. CASE OpenSecrets
  BY <1>13 DEF OpenSecrets, Stopped
<1>14. CASE Submit
  BY <1>14 DEF Submit
<1>15. CASE ServerStops
  BY <1>15 DEF ServerStops, Stopped
<1>16. CASE Repin
  <2>1. disk' \in [Files -> Int] /\ path' \in Locks
    BY <1>16 DEF Repin, Files, Locks
  <2> QED
    BY <1>16, <2>1 DEF Repin
<1>17. CASE UNCHANGED vars
  BY <1>17 DEF vars
<1> QED
  BY <1>1, <1>2, <1>3, <1>4, <1>5, <1>6, <1>7, <1>8, <1>9, <1>10, <1>11, <1>12, <1>13,
     <1>14, <1>15, <1>16, <1>17 DEF Next, ToolStep, StartStep

-----------------------------------------------------------------------------
(* What the tools do.                                                        *)

(* How many files a tool writes, and which one comes at which position.      *)
LEMMA Positions ==
    /\ \A kind \in Kinds : Len(Script(kind)) = Last(kind)
    /\ \A kind \in Kinds, at \in 1 .. 6 : at <= Last(kind) =>
          \/ at = 1 /\ Script(kind)[at] = "config"
          \/ at = 2 /\ Script(kind)[at] = "pub"
          \/ at = 3 /\ Script(kind)[at] = "lock"
          \/ at = 4 /\ Script(kind)[at] = "secrets" /\ kind = "init"
          \/ at = 5 /\ Script(kind)[at] = "salt" /\ kind = "init"
BY Scripts DEF Last, Kinds

(* The file whose turn it is.                                                *)
Turn(f) ==
    /\ f \in Files
    /\ \/ tool.at = 1 /\ f = "config"
       \/ tool.at = 2 /\ f = "pub"
       \/ tool.at = 3 /\ f = "lock"
       \/ tool.at = 4 /\ f = "secrets" /\ tool.kind = "init"
       \/ tool.at = 5 /\ f = "salt" /\ tool.kind = "init"

LEMMA TurnIs ==
    ASSUME TypeOK, InOrder, tool.pc \in {"trunc", "fill"}
    PROVE  Turn(Script(tool.kind)[tool.at])
<1>1. tool.kind \in Kinds /\ tool.at \in 1 .. 6 /\ tool.at <= Last(tool.kind)
  BY Fields DEF InOrder
<1>2. \/ tool.at = 1 /\ Script(tool.kind)[tool.at] = "config"
      \/ tool.at = 2 /\ Script(tool.kind)[tool.at] = "pub"
      \/ tool.at = 3 /\ Script(tool.kind)[tool.at] = "lock"
      \/ tool.at = 4 /\ Script(tool.kind)[tool.at] = "secrets" /\ tool.kind = "init"
      \/ tool.at = 5 /\ Script(tool.kind)[tool.at] = "salt" /\ tool.kind = "init"
  BY <1>1, Positions, Zenon
<1>3. PICK f : f = Script(tool.kind)[tool.at]
  OBVIOUS
<1>4. f \in {"config", "pub", "lock", "secrets", "salt"}
  BY <1>2, <1>3, Zenon
<1>5. f \in Files
  BY <1>4, Zenon DEF Files, Locks
<1>6. \/ tool.at = 1 /\ f = "config"
      \/ tool.at = 2 /\ f = "pub"
      \/ tool.at = 3 /\ f = "lock"
      \/ tool.at = 4 /\ f = "secrets" /\ tool.kind = "init"
      \/ tool.at = 5 /\ f = "salt" /\ tool.kind = "init"
  BY <1>2, <1>3, Zenon
<1>7. Turn(f)
  BY <1>5, <1>6, Zenon DEF Turn
<1> QED
  BY <1>3, <1>7

(* Truncate tears the file that comes next.                                  *)
LEMMA Truncated ==
    ASSUME TypeOK, InOrder, Truncate
    PROVE  /\ tool.pc = "trunc" /\ tool'.pc = "fill" /\ tool'.kind = tool.kind
           /\ tool'.key = tool.key /\ tool'.at = tool.at /\ tool'.path = tool.path
           /\ path' = path /\ disk' \in [Files -> Int]
           /\ \E f \in Files :
                 Turn(f) /\ \A g \in Files : disk'[g] = IF g = f THEN Torn ELSE disk[g]
<1>1. tool \in Tools /\ tool.pc = "trunc" /\ disk \in [Files -> Int] /\ Torn \in Int
  BY DEF TypeOK, Truncate, Torn
<1>2. /\ tool'.pc = "fill" /\ tool'.kind = tool.kind /\ tool'.key = tool.key
      /\ tool'.at = tool.at /\ tool'.path = tool.path
  BY <1>1 DEF Truncate, Tools
<1>3. PICK f \in Files : f = Script(tool.kind)[tool.at] /\ Turn(f)
  BY <1>1, TurnIs DEF Turn
<1>4. disk' = [disk EXCEPT ![f] = Torn] /\ path' = path
  BY <1>3 DEF Truncate
<1>5. disk' \in [Files -> Int] /\ \A g \in Files : disk'[g] = IF g = f THEN Torn ELSE disk[g]
  BY <1>1, <1>4
<1> QED
  BY <1>1, <1>2, <1>3, <1>4, <1>5

(* Fill writes the key into it, and after the last one comes the display.    *)
LEMMA Filled ==
    ASSUME TypeOK, InOrder, Fill
    PROVE  /\ tool.pc = "fill" /\ tool'.kind = tool.kind /\ tool'.key = tool.key
           /\ tool'.at = tool.at + 1 /\ tool'.path = tool.path
           /\ tool'.pc = IF tool.at = Last(tool.kind) THEN "print" ELSE "trunc"
           /\ path' \in {path, tool.path}
           /\ \E f \in Files :
                 Turn(f) /\ \A g \in Files : disk'[g] = IF g = f THEN tool.key ELSE disk[g]
<1>1. /\ tool \in Tools /\ tool.kind \in Kinds /\ tool.at \in 1 .. 6
      /\ tool.pc = "fill" /\ disk \in [Files -> Int]
  BY Fields DEF TypeOK, Fill
<1>2. tool' = [tool EXCEPT !.pc = IF tool.at = Last(tool.kind) THEN "print" ELSE "trunc",
                           !.at = tool.at + 1]
  BY <1>1, Positions DEF Fill
<1>3. /\ tool'.kind = tool.kind /\ tool'.key = tool.key /\ tool'.at = tool.at + 1
      /\ tool'.path = tool.path
      /\ tool'.pc = IF tool.at = Last(tool.kind) THEN "print" ELSE "trunc"
  BY <1>1, <1>2 DEF Tools
<1>4. PICK f \in Files : f = Script(tool.kind)[tool.at] /\ Turn(f)
  BY <1>1, TurnIs DEF Turn
<1>5. disk' = [disk EXCEPT ![f] = tool.key] /\ path' \in {path, tool.path}
  BY <1>4 DEF Fill
<1>6. \A g \in Files : disk'[g] = IF g = f THEN tool.key ELSE disk[g]
  BY <1>1, <1>5
<1> QED
  BY <1>1, <1>3, <1>4, <1>5, <1>6

(* The other steps of a tool.                                                *)
LEMMA ToolGoesOn ==
    ASSUME TypeOK, InOrder
    PROVE  /\ StartInit => \/ UNCHANGED tool
                           \/ /\ tool'.pc = "draw" /\ tool'.kind = "init" /\ tool'.at = 1
                              /\ tool'.path = "lock" /\ disk["config"] = Absent
           /\ StartRotate => tool'.pc = "load" /\ tool'.kind = "rotate" /\ tool'.at = 1
           /\ ToolReadsConfig => \/ tool' = NoTool
                                 \/ /\ tool'.pc = "check" /\ tool'.kind = tool.kind
                                    /\ tool'.at = tool.at /\ disk["config"] \in Keys
           /\ ToolChecksLock => \/ tool' = NoTool
                                \/ /\ tool'.pc = "draw" /\ tool'.kind = tool.kind
                                   /\ tool'.at = tool.at
           /\ DrawKey => /\ tool'.pc = "trunc" /\ tool'.kind = tool.kind /\ tool'.at = tool.at
                         /\ tool'.key = drawn + 1 /\ tool'.path = tool.path
           /\ NoTool.pc = "idle"
<1>1. /\ tool \in Tools /\ drawn \in Int /\ drawn + 1 \in Int /\ path \in Locks
      /\ disk["config"] \in Int
  BY DEF TypeOK, Files
<1>2. ASSUME StartInit, tool' # tool
      PROVE  /\ tool'.pc = "draw" /\ tool'.kind = "init" /\ tool'.at = 1
             /\ tool'.path = "lock" /\ disk["config"] = Absent
  BY <1>2 DEF StartInit, NoTool
<1>3. ASSUME StartRotate
      PROVE  tool'.pc = "load" /\ tool'.kind = "rotate" /\ tool'.at = 1
  BY <1>3 DEF StartRotate, NoTool
<1>4. ASSUME ToolReadsConfig, tool' # NoTool
      PROVE  /\ tool'.pc = "check" /\ tool'.kind = tool.kind
             /\ tool'.at = tool.at /\ disk["config"] \in Keys
  <2>1. /\ tool' = [tool EXCEPT !.pc = "check", !.key = disk["config"], !.path = path]
        /\ disk["config"] \in Keys
    BY <1>4 DEF ToolReadsConfig
  <2>2. PICK k \in Int : k = disk["config"]
    BY <1>1
  <2>3. tool' = [tool EXCEPT !.pc = "check", !.key = k, !.path = path]
    BY <2>1, <2>2
  <2>4. \A p \in Locks : LET t == [tool EXCEPT !.pc = "check", !.key = k, !.path = p]
                         IN  t.pc = "check" /\ t.kind = tool.kind /\ t.at = tool.at
    BY <1>1 DEF Tools
  <2> QED
    BY <1>1, <2>1, <2>3, <2>4
<1>5. ASSUME ToolChecksLock, tool' # NoTool
      PROVE  tool'.pc = "draw" /\ tool'.kind = tool.kind /\ tool'.at = tool.at
  BY <1>1, <1>5 DEF ToolChecksLock, Tools
<1>6. ASSUME DrawKey
      PROVE  /\ tool'.pc = "trunc" /\ tool'.kind = tool.kind /\ tool'.at = tool.at
             /\ tool'.key = drawn + 1 /\ tool'.path = tool.path
  <2>1. PICK k \in Int : k = drawn + 1
    BY <1>1
  <2>2. tool' = [tool EXCEPT !.pc = "trunc", !.key = k]
    BY <1>6, <2>1 DEF DrawKey
  <2>3. /\ tool'.pc = "trunc" /\ tool'.kind = tool.kind /\ tool'.at = tool.at
        /\ tool'.key = k /\ tool'.path = tool.path
    BY <1>1, <2>2 DEF Tools
  <2> QED
    BY <2>1, <2>3
<1> QED
  BY <1>2, <1>3, <1>4, <1>5, <1>6 DEF NoTool

(* The steps of the server.                                                  *)
LEMMA ServerGoesOn ==
    ASSUME TypeOK
    PROVE  /\ ReadConfig => \/ UNCHANGED server
                            \/ /\ server'.pc = "check" /\ server'.key = disk["config"]
                               /\ disk["config"] \in Keys
           /\ CheckLock => \/ server' = Stopped
                           \/ /\ server'.pc = "salt" /\ server'.key = server.key
                              /\ disk[server.path] = server.key
           /\ ReadSalt => \/ server' = Stopped
                          \/ /\ server'.pc = "blob" /\ server'.key = server.key
                             /\ server'.salt = disk["salt"]
           /\ OpenSecrets => \/ server' = Stopped
                             \/ /\ server'.pc = "serving" /\ server'.key = server.key
                                /\ server.salt \in Keys
           /\ Stopped.pc = "down"
<1>1. server \in Servers /\ path \in Locks /\ disk["config"] \in Int /\ disk["salt"] \in Int
  BY DEF TypeOK, Files
<1>2. ASSUME ReadConfig, server' # server
      PROVE  /\ server'.pc = "check" /\ server'.key = disk["config"]
             /\ disk["config"] \in Keys
  <2>1. PICK k \in Int : k = disk["config"]
    BY <1>1
  <2>2. server' = [server EXCEPT !.pc = "check", !.key = k, !.path = path] /\ k \in Keys
    BY <1>2, <2>1 DEF ReadConfig
  <2>3. \A p \in Locks : LET s == [server EXCEPT !.pc = "check", !.key = k, !.path = p]
                         IN  s.pc = "check" /\ s.key = k
    BY <1>1 DEF Servers
  <2> QED
    BY <1>1, <2>1, <2>2, <2>3
<1>3. ASSUME CheckLock, server' # Stopped
      PROVE  /\ server'.pc = "salt" /\ server'.key = server.key
             /\ disk[server.path] = server.key
  BY <1>1, <1>3 DEF CheckLock, LockSays, Servers
<1>4. ASSUME ReadSalt, server' # Stopped
      PROVE  /\ server'.pc = "blob" /\ server'.key = server.key /\ server'.salt = disk["salt"]
  <2>1. PICK k \in Int : k = disk["salt"]
    BY <1>1
  <2>2. server' = [server EXCEPT !.pc = "blob", !.salt = k]
    BY <1>4, <2>1 DEF ReadSalt
  <2>3. server'.pc = "blob" /\ server'.key = server.key /\ server'.salt = k
    BY <1>1, <2>2 DEF Servers
  <2> QED
    BY <2>1, <2>3
<1>5. ASSUME OpenSecrets, server' # Stopped
      PROVE  server'.pc = "serving" /\ server'.key = server.key /\ server.salt \in Keys
  BY <1>1, <1>5 DEF OpenSecrets, Servers
<1> QED
  BY <1>2, <1>3, <1>4, <1>5 DEF Stopped

(* The files and what can be in them.                                        *)
LEMMA Contents ==
    /\ Files = {"config", "pub", "secrets", "salt", "lock", "altLock"}
    /\ Locks = {"lock", "altLock"} /\ Kinds = {"init", "rotate"}
    /\ Absent \notin Keys /\ Torn \notin Keys /\ Torn # Absent
BY KeyAssumption DEF Files, Locks, Kinds, Absent, Torn, Keys

-----------------------------------------------------------------------------
(* No step takes an openable key away.                                     *)

(* Who is openable.                                                          *)
LEMMA OpenableIs ==
    \A k : k \in Openable <=>
              \/ k \in shown
              \/ tool.pc = "print" /\ k = tool.key
              \/ \E i \in 1 .. Len(dead) :
                    dead[i].at > Len(Script(dead[i].kind)) /\ k = dead[i].key
BY Zenon DEF Openable, Unprinted

LEMMA OpenableWillBe ==
    \A k : k \in Openable' <=>
              \/ k \in shown'
              \/ tool'.pc = "print" /\ k = tool'.key
              \/ \E i \in 1 .. Len(dead') :
                    dead'[i].at > Len(Script(dead'[i].kind)) /\ k = dead'[i].key
BY Zenon DEF Openable, Unprinted

(* A tool at the display stays there until it displays or dies.              *)
LEMMA AtTheDisplay ==
    [Next]_vars /\ tool.pc = "print" => UNCHANGED tool \/ PrintSecret \/ Die
<1> SUFFICES ASSUME tool.pc = "print", [Next]_vars PROVE UNCHANGED tool \/ PrintSecret \/ Die
  OBVIOUS
<1>1. CASE StartInit
  BY <1>1 DEF StartInit
<1>2. CASE StartRotate
  BY <1>2 DEF StartRotate
<1>3. CASE ToolReadsConfig
  BY <1>3 DEF ToolReadsConfig
<1>4. CASE ToolChecksLock
  BY <1>4 DEF ToolChecksLock
<1>5. CASE DrawKey
  BY <1>5 DEF DrawKey
<1>6. CASE Truncate
  BY <1>6 DEF Truncate
<1>7. CASE Fill
  BY <1>7 DEF Fill
<1>8. CASE PrintSecret
  BY <1>8 DEF PrintSecret
<1>9. CASE Die
  BY <1>9 DEF Die
<1>10. CASE ReadConfig
  BY <1>10 DEF ReadConfig
<1>11. CASE CheckLock
  BY <1>11 DEF CheckLock
<1>12. CASE ReadSalt
  BY <1>12 DEF ReadSalt
<1>13. CASE OpenSecrets
  BY <1>13 DEF OpenSecrets
<1>14. CASE Submit
  BY <1>14 DEF Submit
<1>15. CASE ServerStops
  BY <1>15 DEF ServerStops
<1>16. CASE Repin
  BY <1>16 DEF Repin
<1>17. CASE UNCHANGED vars
  BY <1>17 DEF vars
<1> QED
  BY <1>1, <1>2, <1>3, <1>4, <1>5, <1>6, <1>7, <1>8, <1>9, <1>10, <1>11, <1>12, <1>13,
     <1>14, <1>15, <1>16, <1>17 DEF Next, ToolStep, StartStep

(* The steps that display or leave something behind.                         *)
LEMMA WhatIsLeft ==
    [Next]_vars => /\ shown \subseteq shown'
                   /\ UNCHANGED dead \/ Die
<1> SUFFICES ASSUME [Next]_vars PROVE shown \subseteq shown' /\ (UNCHANGED dead \/ Die)
  OBVIOUS
<1>1. CASE StartInit
  BY <1>1 DEF StartInit
<1>2. CASE StartRotate
  BY <1>2 DEF StartRotate
<1>3. CASE ToolReadsConfig
  BY <1>3 DEF ToolReadsConfig
<1>4. CASE ToolChecksLock
  BY <1>4 DEF ToolChecksLock
<1>5. CASE DrawKey
  BY <1>5 DEF DrawKey
<1>6. CASE Truncate
  BY <1>6 DEF Truncate
<1>7. CASE Fill
  BY <1>7 DEF Fill
<1>8. CASE PrintSecret
  BY <1>8 DEF PrintSecret
<1>9. CASE Die
  BY <1>9 DEF Die
<1>10. CASE ReadConfig
  BY <1>10 DEF ReadConfig
<1>11. CASE CheckLock
  BY <1>11 DEF CheckLock
<1>12. CASE ReadSalt
  BY <1>12 DEF ReadSalt
<1>13. CASE OpenSecrets
  BY <1>13 DEF OpenSecrets
<1>14. CASE Submit
  BY <1>14 DEF Submit
<1>15. CASE ServerStops
  BY <1>15 DEF ServerStops
<1>16. CASE Repin
  BY <1>16 DEF Repin
<1>17. CASE UNCHANGED vars
  BY <1>17 DEF vars
<1> QED
  BY <1>1, <1>2, <1>3, <1>4, <1>5, <1>6, <1>7, <1>8, <1>9, <1>10, <1>11, <1>12, <1>13,
     <1>14, <1>15, <1>16, <1>17 DEF Next, ToolStep, StartStep

LEMMA OpenableGrows ==
    TypeOK /\ InOrder /\ [Next]_vars => Openable \subseteq Openable'
<1> SUFFICES ASSUME TypeOK, InOrder, [Next]_vars, NEW k \in Openable PROVE k \in Openable'
  OBVIOUS
<1>1. CASE k \in shown
  BY <1>1, WhatIsLeft, OpenableWillBe
<1>a. ASSUME Die
      PROVE  /\ Len(dead') = Len(dead) + 1 /\ Len(dead) \in Nat
             /\ \A i \in 1 .. Len(dead) : dead'[i] = dead[i]
             /\ dead'[Len(dead) + 1] = [kind |-> tool.kind, key |-> tool.key, at |-> tool.at]
  <2>1. dead \in Seq([kind: Kinds, key: Int, at: 1 .. 6])
    BY DEF TypeOK
  <2>2. [kind |-> tool.kind, key |-> tool.key, at |-> tool.at] \in [kind: Kinds, key: Int, at: 1 .. 6]
    BY Fields
  <2> QED
    BY <1>a, <2>1, <2>2, AppendProperties, LenProperties DEF Die
<1>2. CASE \E i \in 1 .. Len(dead) : dead[i].at > Len(Script(dead[i].kind)) /\ k = dead[i].key
  <2>1. PICK i \in 1 .. Len(dead) : dead[i].at > Len(Script(dead[i].kind)) /\ k = dead[i].key
    BY <1>2
  <2>2. CASE UNCHANGED dead
    BY <2>1, <2>2, OpenableWillBe
  <2>3. CASE Die
    <3>1. i \in 1 .. Len(dead') /\ dead'[i] = dead[i]
      BY <1>a, <2>3
    <3> QED
      BY <2>1, <3>1, OpenableWillBe
  <2> QED
    BY <2>2, <2>3, WhatIsLeft
<1>3. CASE tool.pc = "print" /\ k = tool.key
  <2>1. CASE UNCHANGED tool
    BY <1>3, <2>1, OpenableWillBe
  <2>2. CASE PrintSecret
    BY <1>3, <2>2, OpenableWillBe DEF PrintSecret
  <2>3. CASE Die
    <3>1. PICK i : i = Len(dead) + 1
      OBVIOUS
    <3>2. i \in 1 .. Len(dead') /\ dead'[i] = [kind |-> tool.kind, key |-> tool.key, at |-> tool.at]
      BY <1>a, <2>3, <3>1
    <3>3. tool.kind \in Kinds /\ tool.at = Last(tool.kind) + 1
      BY <1>3, Fields DEF InOrder
    <3>4. Len(Script(tool.kind)) = Last(tool.kind)
      BY <3>3, Positions
    <3>5. tool.at > Len(Script(tool.kind))
      BY <3>3, <3>4 DEF Last
    <3> QED
      BY <1>3, <3>2, <3>5, OpenableWillBe
  <2> QED
    BY <1>3, <2>1, <2>2, <2>3, AtTheDisplay
<1> QED
  BY <1>1, <1>2, <1>3, OpenableIs

-----------------------------------------------------------------------------
(* Every step keeps every part of the invariant.                           *)

(* The config comes first.                                                   *)
LEMMA ConfigIsFirst == KeyInv /\ [Next]_vars => NothingBeforeConfig'
<1> SUFFICES ASSUME KeyInv, [Next]_vars PROVE NothingBeforeConfig'
  OBVIOUS
<1>a. TypeOK /\ InOrder /\ NothingBeforeConfig /\ OneInit /\ LocksOpenable /\ StartOpenable
  BY DEF KeyInv
<1>b. /\ \A f \in Files : disk[f] \in Int
      /\ tool.at \in 1 .. 6
  BY <1>a, Fields DEF TypeOK
<1> USE <1>a, <1>b, Contents, ToolGoesOn, ServerGoesOn DEF NothingBeforeConfig
<1>1. CASE StartInit
  BY <1>1 DEF StartInit
<1>2. CASE StartRotate
  BY <1>2 DEF StartRotate
<1>3. CASE ToolReadsConfig
  BY <1>3 DEF ToolReadsConfig
<1>4. CASE ToolChecksLock
  BY <1>4 DEF ToolChecksLock
<1>5. CASE DrawKey
  BY <1>5 DEF DrawKey
<1>6. CASE Truncate
  <2>1. PICK f \in Files : Turn(f) /\ \A g \in Files : disk'[g] = IF g = f THEN Torn ELSE disk[g]
    BY <1>6, Truncated
  <2>2. disk'["config"] # Absent
    BY <1>6, <2>1, Truncated DEF Turn, InOrder
  <2> QED
    BY <2>2
<1>7. CASE Fill
  <2>1. PICK f \in Files : Turn(f) /\ \A g \in Files : disk'[g] = IF g = f THEN tool.key ELSE disk[g]
    BY <1>7, Filled
  <2>2. tool.key \in Keys /\ disk["config"] # Absent
    BY <1>7, Filled DEF InOrder
  <2>3. disk'["config"] # Absent
    BY <2>1, <2>2
  <2> QED
    BY <2>3
<1>8. CASE PrintSecret
  BY <1>8 DEF PrintSecret
<1>9. CASE Die
  BY <1>9 DEF Die
<1>10. CASE ReadConfig
  BY <1>10 DEF ReadConfig
<1>11. CASE CheckLock
  BY <1>11 DEF CheckLock
<1>12. CASE ReadSalt
  BY <1>12 DEF ReadSalt
<1>13. CASE OpenSecrets
  BY <1>13 DEF OpenSecrets
<1>14. CASE Submit
  BY <1>14 DEF Submit
<1>15. CASE ServerStops
  BY <1>15 DEF ServerStops
<1>16. CASE Repin
  <2>1. disk'["config"] = disk["config"] /\ disk["config"] \in Keys
    BY <1>16 DEF Repin, TypeOK
  <2> QED
    BY <2>1
<1>17. CASE UNCHANGED vars
  BY <1>17 DEF vars
<1> QED
  BY <1>1, <1>2, <1>3, <1>4, <1>5, <1>6, <1>7, <1>8, <1>9, <1>10, <1>11, <1>12, <1>13,
     <1>14, <1>15, <1>16, <1>17 DEF Next, ToolStep, StartStep

(* What a tool has written stays.                                            *)
LEMMA StepsInOrder == KeyInv /\ [Next]_vars => InOrder'
<1> SUFFICES ASSUME KeyInv, [Next]_vars PROVE InOrder'
  OBVIOUS
<1>a. TypeOK /\ InOrder /\ NothingBeforeConfig /\ OneInit /\ LocksOpenable /\ StartOpenable
  BY DEF KeyInv
<1>b. /\ tool.at \in 1 .. 6 /\ drawn \in Int /\ MaxKeys \in Nat /\ tool.kind \in Kinds
      /\ disk \in [Files -> Int]
  BY <1>a, Fields, KeyAssumption DEF TypeOK
<1> USE <1>a, <1>b, Contents, ToolGoesOn DEF InOrder
<1>1. CASE StartInit
  BY <1>1 DEF StartInit
<1>2. CASE StartRotate
  BY <1>2 DEF StartRotate
<1>3. CASE ToolReadsConfig
  BY <1>3 DEF ToolReadsConfig
<1>4. CASE ToolChecksLock
  BY <1>4 DEF ToolChecksLock
<1>5. CASE DrawKey
  <2>1. drawn < MaxKeys /\ tool.at = 1 /\ drawn >= 0
    BY <1>5 DEF DrawKey
  <2>2. drawn + 1 \in Keys /\ drawn + 1 \in 0 .. MaxKeys
    BY <2>1 DEF Keys
  <2>3. drawn' = drawn + 1 /\ tool'.key = drawn + 1 /\ tool'.pc = "trunc" /\ tool'.at = 1
    BY <1>5, <2>1 DEF DrawKey
  <2>4. 1 <= Last(tool'.kind)
    BY DEF Last
  <2> QED
    BY <2>2, <2>3, <2>4
<1>6. CASE Truncate
  <2>1. PICK f \in Files : Turn(f) /\ \A g \in Files : disk'[g] = IF g = f THEN Torn ELSE disk[g]
    BY <1>6, Truncated
  <2> QED
    BY <1>6, <2>1, Truncated DEF Turn, Truncate
<1>7. CASE Fill
  <2>1. PICK f \in Files : Turn(f) /\ \A g \in Files : disk'[g] = IF g = f THEN tool.key ELSE disk[g]
    BY <1>7, Filled
  <2>2. /\ tool'.kind = tool.kind /\ tool'.key = tool.key /\ tool'.at = tool.at + 1
        /\ tool'.pc = IF tool.at = Last(tool.kind) THEN "print" ELSE "trunc"
        /\ tool.key \in Keys /\ drawn' = drawn
    BY <1>7, Filled DEF Fill
  <2>3. /\ tool.at > 0 => disk'["config"] = tool.key
        /\ tool.at > 1 => disk'["pub"] = tool.key
        /\ tool.at > 2 => disk'["lock"] = tool.key
    BY <1>7, <2>1, Filled DEF Turn
  <2>4. /\ tool.at > 3 => disk'["secrets"] = tool.key
        /\ tool.at > 4 => disk'["salt"] = tool.key
    BY <1>7, <2>1, Filled DEF Turn, Last
  <2>5. /\ tool'.pc = "trunc" => tool'.at <= Last(tool'.kind)
        /\ tool'.pc = "print" => tool'.at = Last(tool'.kind) + 1
    BY <1>7, <2>2, Filled DEF Last
  <2>6. tool.at <= 5
    BY <1>7, Filled DEF Last
  <2> QED
    BY <2>2, <2>3, <2>4, <2>5, <2>6
<1>8. CASE PrintSecret
  BY <1>8 DEF PrintSecret
<1>9. CASE Die
  BY <1>9 DEF Die
<1>10. CASE ReadConfig
  BY <1>10 DEF ReadConfig
<1>11. CASE CheckLock
  BY <1>11 DEF CheckLock
<1>12. CASE ReadSalt
  BY <1>12 DEF ReadSalt
<1>13. CASE OpenSecrets
  BY <1>13 DEF OpenSecrets
<1>14. CASE Submit
  BY <1>14 DEF Submit
<1>15. CASE ServerStops
  BY <1>15 DEF ServerStops
<1>16. CASE Repin
  BY <1>16 DEF Repin
<1>17. CASE UNCHANGED vars
  BY <1>17 DEF vars
<1> QED
  BY <1>1, <1>2, <1>3, <1>4, <1>5, <1>6, <1>7, <1>8, <1>9, <1>10, <1>11, <1>12, <1>13,
     <1>14, <1>15, <1>16, <1>17 DEF Next, ToolStep, StartStep

(* There is one init.                                                        *)
LEMMA InitIsAlone == KeyInv /\ [Next]_vars => OneInit'
<1> SUFFICES ASSUME KeyInv, [Next]_vars PROVE OneInit'
  OBVIOUS
<1>a. TypeOK /\ InOrder /\ NothingBeforeConfig /\ OneInit /\ LocksOpenable /\ StartOpenable
  BY DEF KeyInv
<1>b. /\ tool.at \in 1 .. 6 /\ tool.kind \in Kinds /\ disk \in [Files -> Int]
  BY <1>a, Fields DEF TypeOK
<1> USE <1>a, <1>b, Contents, ToolGoesOn, ServerGoesOn DEF OneInit, Starting
<1>1. CASE StartInit
  BY <1>1 DEF StartInit, NothingBeforeConfig
<1>2. CASE StartRotate
  BY <1>2 DEF StartRotate
<1>3. CASE ToolReadsConfig
  BY <1>3 DEF ToolReadsConfig, InOrder
<1>4. CASE ToolChecksLock
  BY <1>4 DEF ToolChecksLock, InOrder
<1>5. CASE DrawKey
  BY <1>5 DEF DrawKey, NothingBeforeConfig, InOrder
<1>6. CASE Truncate
  <2>1. PICK f \in Files : Turn(f) /\ \A g \in Files : disk'[g] = IF g = f THEN Torn ELSE disk[g]
    BY <1>6, Truncated
  <2> QED
    BY <1>6, <2>1, Truncated DEF Turn, Truncate
<1>7. CASE Fill
  <2>1. PICK f \in Files : Turn(f) /\ \A g \in Files : disk'[g] = IF g = f THEN tool.key ELSE disk[g]
    BY <1>7, Filled
  <2>2. CASE tool'.pc = "trunc"
    BY <1>7, <2>1, <2>2, Filled DEF Turn, Fill, Last
  <2> QED
    BY <1>7, <2>2, Filled
<1>8. CASE PrintSecret
  BY <1>8 DEF PrintSecret
<1>9. CASE Die
  BY <1>9 DEF Die
<1>10. CASE ReadConfig
  BY <1>10 DEF ReadConfig, InOrder
<1>11. CASE CheckLock
  BY <1>11 DEF CheckLock
<1>12. CASE ReadSalt
  BY <1>12 DEF ReadSalt
<1>13. CASE OpenSecrets
  BY <1>13 DEF OpenSecrets, StartOpenable
<1>14. CASE Submit
  BY <1>14 DEF Submit
<1>15. CASE ServerStops
  BY <1>15 DEF ServerStops
<1>16. CASE Repin
  BY <1>16 DEF Repin
<1>17. CASE UNCHANGED vars
  BY <1>17 DEF vars
<1> QED
  BY <1>1, <1>2, <1>3, <1>4, <1>5, <1>6, <1>7, <1>8, <1>9, <1>10, <1>11, <1>12, <1>13,
     <1>14, <1>15, <1>16, <1>17 DEF Next, ToolStep, StartStep

(* A whole lock beside a whole salt is of an openable key.                   *)
LEMMA LocksStayOpenable == KeyInv /\ [Next]_vars => LocksOpenable'
<1> SUFFICES ASSUME KeyInv, [Next]_vars PROVE LocksOpenable'
  OBVIOUS
<1>a. TypeOK /\ InOrder /\ NothingBeforeConfig /\ OneInit /\ LocksOpenable /\ StartOpenable
  BY DEF KeyInv
<1>b. /\ tool.at \in 1 .. 6 /\ tool.kind \in Kinds /\ disk \in [Files -> Int]
  BY <1>a, Fields DEF TypeOK
<1>c. \A k : k \in Openable => k \in Openable'
  BY <1>a, OpenableGrows
<1>d. tool'.pc = "print" => tool'.key \in Openable'
  BY OpenableWillBe
<1> USE <1>a, <1>b, <1>c, <1>d, Contents DEF LocksOpenable
<1>1. CASE StartInit
  BY <1>1 DEF StartInit
<1>2. CASE StartRotate
  BY <1>2 DEF StartRotate
<1>3. CASE ToolReadsConfig
  BY <1>3 DEF ToolReadsConfig
<1>4. CASE ToolChecksLock
  BY <1>4 DEF ToolChecksLock
<1>5. CASE DrawKey
  BY <1>5 DEF DrawKey
<1>6. CASE Truncate
  <2>1. PICK f \in Files : Turn(f) /\ \A g \in Files : disk'[g] = IF g = f THEN Torn ELSE disk[g]
    BY <1>6, Truncated
  <2> QED
    BY <2>1
<1>7. CASE Fill
  <2>1. PICK f \in Files : Turn(f) /\ \A g \in Files : disk'[g] = IF g = f THEN tool.key ELSE disk[g]
    BY <1>7, Filled
  <2>2. CASE tool'.pc = "print"
    <3>1. tool.key \in Openable'
      BY <1>7, <2>2, Filled
    <3>2. CASE f = "salt"
      BY <1>7, <2>1, <3>1, <3>2, Filled DEF Turn, InOrder, OneInit, Starting
    <3> QED
      BY <2>1, <3>1, <3>2
  <2>3. CASE tool'.pc = "trunc"
    <3>1. (tool.kind = "init" /\ Starting /\ f # "salt") \/ f \notin {"lock", "altLock", "salt"}
      BY <1>7, <2>1, <2>3, Filled DEF Turn, Last, Starting
    <3> QED
      BY <2>1, <3>1 DEF OneInit
  <2> QED
    BY <1>7, <2>2, <2>3, Filled
<1>8. CASE PrintSecret
  BY <1>8 DEF PrintSecret
<1>9. CASE Die
  BY <1>9 DEF Die
<1>10. CASE ReadConfig
  BY <1>10 DEF ReadConfig
<1>11. CASE CheckLock
  BY <1>11 DEF CheckLock
<1>12. CASE ReadSalt
  BY <1>12 DEF ReadSalt
<1>13. CASE OpenSecrets
  BY <1>13 DEF OpenSecrets
<1>14. CASE Submit
  BY <1>14 DEF Submit
<1>15. CASE ServerStops
  BY <1>15 DEF ServerStops
<1>16. CASE Repin
  <2>1. \A g \in Files : disk'[g] = IF g = "altLock" THEN disk["lock"] ELSE disk[g]
    BY <1>16 DEF Repin
  <2> QED
    BY <2>1
<1>17. CASE UNCHANGED vars
  BY <1>17 DEF vars
<1> QED
  BY <1>1, <1>2, <1>3, <1>4, <1>5, <1>6, <1>7, <1>8, <1>9, <1>10, <1>11, <1>12, <1>13,
     <1>14, <1>15, <1>16, <1>17 DEF Next, ToolStep, StartStep

(* A server that serves has an openable key.                                 *)
LEMMA StartsStayOpenable == KeyInv /\ [Next]_vars => StartOpenable'
<1> SUFFICES ASSUME KeyInv, [Next]_vars PROVE StartOpenable'
  OBVIOUS
<1>a. TypeOK /\ InOrder /\ NothingBeforeConfig /\ OneInit /\ LocksOpenable /\ StartOpenable
  BY DEF KeyInv
<1>b. /\ tool.at \in 1 .. 6 /\ tool.kind \in Kinds /\ disk \in [Files -> Int]
      /\ server.path \in Locks
  BY <1>a, Fields DEF TypeOK
<1>c. \A k : k \in Openable => k \in Openable'
  BY <1>a, OpenableGrows
<1>d. tool'.pc = "print" => tool'.key \in Openable'
  BY OpenableWillBe
<1> USE <1>a, <1>b, <1>c, <1>d, Contents, ServerGoesOn DEF StartOpenable
<1>1. CASE StartInit
  BY <1>1 DEF StartInit
<1>2. CASE StartRotate
  BY <1>2 DEF StartRotate
<1>3. CASE ToolReadsConfig
  BY <1>3 DEF ToolReadsConfig
<1>4. CASE ToolChecksLock
  BY <1>4 DEF ToolChecksLock
<1>5. CASE DrawKey
  BY <1>5 DEF DrawKey
<1>6. CASE Truncate
  <2>1. PICK f \in Files : Turn(f) /\ \A g \in Files : disk'[g] = IF g = f THEN Torn ELSE disk[g]
    BY <1>6, Truncated
  <2>2. f = "salt" => Starting
    BY <1>6, <2>1, Truncated DEF Turn, Starting
  <2>3. disk'["salt"] \in Keys <=> disk["salt"] \in Keys
    BY <2>1, <2>2 DEF OneInit
  <2> QED
    BY <1>6, <2>3 DEF Truncate
<1>7. CASE Fill
  <2>1. PICK f \in Files : Turn(f) /\ \A g \in Files : disk'[g] = IF g = f THEN tool.key ELSE disk[g]
    BY <1>7, Filled
  <2>2. CASE f = "salt"
    <3>1. Starting /\ tool'.pc = "print" /\ tool'.key = tool.key
      BY <1>7, <2>1, <2>2, Filled DEF Turn, Starting, Last
    <3>2. server.pc # "down" => server.key \in Openable'
      BY <3>1 DEF OneInit
    <3>3. disk'["salt"] \in Keys
      BY <1>7, <2>1, <2>2, Filled DEF InOrder
    <3> QED
      BY <1>7, <3>2, <3>3 DEF Fill
  <2>3. CASE f # "salt"
    <3>1. disk'["salt"] = disk["salt"]
      BY <2>1, <2>3
    <3> QED
      BY <1>7, <3>1 DEF Fill
  <2> QED
    BY <2>2, <2>3
<1>8. CASE PrintSecret
  BY <1>8 DEF PrintSecret
<1>9. CASE Die
  BY <1>9 DEF Die
<1>10. CASE ReadConfig
  BY <1>10 DEF ReadConfig
<1>11. CASE CheckLock
  BY <1>11 DEF CheckLock, LocksOpenable
<1>12. CASE ReadSalt
  BY <1>12 DEF ReadSalt
<1>13. CASE OpenSecrets
  BY <1>13 DEF OpenSecrets
<1>14. CASE Submit
  BY <1>14 DEF Submit
<1>15. CASE ServerStops
  BY <1>15 DEF ServerStops
<1>16. CASE Repin
  <2>1. disk'["salt"] = disk["salt"] /\ UNCHANGED server
    BY <1>16 DEF Repin
  <2> QED
    BY <2>1
<1>17. CASE UNCHANGED vars
  BY <1>17 DEF vars
<1> QED
  BY <1>1, <1>2, <1>3, <1>4, <1>5, <1>6, <1>7, <1>8, <1>9, <1>10, <1>11, <1>12, <1>13,
     <1>14, <1>15, <1>16, <1>17 DEF Next, ToolStep, StartStep

(* Without a cut-off tool the files agree at rest.                           *)
LEMMA WholeStaysSo == KeyInv /\ [Next]_vars => WholeAgrees'
<1> SUFFICES ASSUME KeyInv, [Next]_vars PROVE WholeAgrees'
  OBVIOUS
<1>a. TypeOK /\ InOrder /\ NothingBeforeConfig /\ OneInit /\ LocksOpenable /\ StartOpenable
  BY DEF KeyInv
<1>b. /\ tool.at \in 1 .. 6 /\ tool.kind \in Kinds /\ disk \in [Files -> Int]
      /\ WholeAgrees
  BY <1>a, Fields DEF TypeOK, KeyInv
<1> USE <1>a, <1>b, Contents, ToolGoesOn DEF WholeAgrees, Starting
<1>1. CASE StartInit
  BY <1>1 DEF StartInit
<1>2. CASE StartRotate
  BY <1>2 DEF StartRotate
<1>3. CASE ToolReadsConfig
  BY <1>3 DEF ToolReadsConfig, InOrder
<1>4. CASE ToolChecksLock
  BY <1>4 DEF ToolChecksLock, InOrder
<1>5. CASE DrawKey
  BY <1>5 DEF DrawKey, OneInit
<1>6. CASE Truncate
  <2>1. PICK f \in Files : Turn(f) /\ \A g \in Files : disk'[g] = IF g = f THEN Torn ELSE disk[g]
    BY <1>6, Truncated
  <2>2. CASE tool.kind = "init"
    BY <1>6, <2>2, Truncated
  <2>3. CASE tool.kind = "rotate"
    <3>1. disk["config"] # Absent /\ ~Starting
      BY <1>6, <2>3, Truncated DEF NothingBeforeConfig
    <3>2. disk'["secrets"] = disk["secrets"] /\ disk'["salt"] = disk["salt"]
      BY <2>1, <2>3 DEF Turn
    <3> QED
      BY <1>6, <3>1, <3>2, Truncated DEF Truncate
  <2> QED
    BY <2>2, <2>3
<1>7. CASE Fill
  <2>1. PICK f \in Files : Turn(f) /\ \A g \in Files : disk'[g] = IF g = f THEN tool.key ELSE disk[g]
    BY <1>7, Filled
  <2>2. disk["config"] # Absent /\ tool'.pc \in {"trunc", "print"} /\ tool'.kind = tool.kind
    BY <1>7, Filled DEF NothingBeforeConfig
  <2>3. CASE tool.kind = "init" /\ tool'.pc = "print"
    <3>1. f = "salt" /\ tool.at = 5
      BY <1>7, <2>1, <2>3, Filled DEF Turn, Last
    <3>2. disk'["secrets"] = tool.key /\ disk'["salt"] = tool.key /\ tool.key \in Keys
      BY <1>7, <2>1, <3>1, Filled DEF InOrder
    <3> QED
      BY <2>2, <2>3, <3>2
  <2>4. CASE tool.kind = "rotate"
    <3>1. disk'["secrets"] = disk["secrets"] /\ disk'["salt"] = disk["salt"]
      BY <2>1, <2>4 DEF Turn
    <3> QED
      BY <1>7, <2>2, <2>4, <3>1 DEF Fill
  <2> QED
    BY <2>2, <2>3, <2>4
<1>8. CASE PrintSecret
  BY <1>8 DEF PrintSecret, NoTool, InOrder, Last
<1>9. CASE Die
  <2>1. Len(dead') = Len(dead) + 1 /\ Len(dead) \in Nat
    <3>1. dead \in Seq([kind: Kinds, key: Int, at: 1 .. 6])
      BY DEF TypeOK
    <3>2. [kind |-> tool.kind, key |-> tool.key, at |-> tool.at] \in [kind: Kinds, key: Int, at: 1 .. 6]
      BY Fields
    <3> QED
      BY <1>9, <3>1, <3>2, AppendProperties, LenProperties DEF Die
  <2>2. dead' # <<>>
    BY <2>1
  <2> QED
    BY <2>2
<1>10. CASE ReadConfig
  BY <1>10 DEF ReadConfig
<1>11. CASE CheckLock
  BY <1>11 DEF CheckLock
<1>12. CASE ReadSalt
  BY <1>12 DEF ReadSalt
<1>13. CASE OpenSecrets
  BY <1>13 DEF OpenSecrets
<1>14. CASE Submit
  BY <1>14 DEF Submit
<1>15. CASE ServerStops
  BY <1>15 DEF ServerStops
<1>16. CASE Repin
  <2>1. /\ \A g \in Files : g # "altLock" => disk'[g] = disk[g]
        /\ path' # "lock"
    BY <1>16 DEF Repin
  <2> QED
    BY <1>16, <2>1 DEF Repin
<1>17. CASE UNCHANGED vars
  BY <1>17 DEF vars
<1> QED
  BY <1>1, <1>2, <1>3, <1>4, <1>5, <1>6, <1>7, <1>8, <1>9, <1>10, <1>11, <1>12, <1>13,
     <1>14, <1>15, <1>16, <1>17 DEF Next, ToolStep, StartStep

(* Submissions are sealed to an openable key.                                *)
LEMMA SealsStayOpenable == KeyInv /\ [Next]_vars => SealedOpenable'
<1> SUFFICES ASSUME KeyInv, [Next]_vars PROVE SealedOpenable'
  OBVIOUS
<1>a. TypeOK /\ InOrder /\ NothingBeforeConfig /\ OneInit /\ LocksOpenable /\ StartOpenable
  BY DEF KeyInv
<1>b. SealedOpenable /\ Openable \subseteq Openable'
  BY <1>a, OpenableGrows DEF KeyInv
<1>c. SealedOpenable <=> sealed \subseteq Openable
  BY Zenon DEF SealedOpenable, Openable
<1>d. SealedOpenable' <=> sealed' \subseteq Openable'
  BY Zenon DEF SealedOpenable, Openable
<1> USE <1>b, <1>c, <1>d
<1>1. CASE StartInit
  BY <1>1 DEF StartInit
<1>2. CASE StartRotate
  BY <1>2 DEF StartRotate
<1>3. CASE ToolReadsConfig
  BY <1>3 DEF ToolReadsConfig
<1>4. CASE ToolChecksLock
  BY <1>4 DEF ToolChecksLock
<1>5. CASE DrawKey
  BY <1>5 DEF DrawKey
<1>6. CASE Truncate
  BY <1>6 DEF Truncate
<1>7. CASE Fill
  BY <1>7 DEF Fill
<1>8. CASE PrintSecret
  BY <1>8 DEF PrintSecret
<1>9. CASE Die
  BY <1>9 DEF Die
<1>10. CASE ReadConfig
  BY <1>10 DEF ReadConfig
<1>11. CASE CheckLock
  BY <1>11 DEF CheckLock
<1>12. CASE ReadSalt
  BY <1>12 DEF ReadSalt
<1>13. CASE OpenSecrets
  BY <1>13 DEF OpenSecrets
<1>14. CASE Submit
  BY <1>14, <1>a DEF Submit, StartOpenable
<1>15. CASE ServerStops
  BY <1>15 DEF ServerStops
<1>16. CASE Repin
  BY <1>16 DEF Repin
<1>17. CASE UNCHANGED vars
  BY <1>17 DEF vars
<1> QED
  BY <1>1, <1>2, <1>3, <1>4, <1>5, <1>6, <1>7, <1>8, <1>9, <1>10, <1>11, <1>12, <1>13,
     <1>14, <1>15, <1>16, <1>17 DEF Next, ToolStep, StartStep

-----------------------------------------------------------------------------
(* The results.                                                            *)

(* KeyInv holds at the start ...                                             *)
LEMMA InitKey == Init => KeyInv
<1> SUFFICES ASSUME Init PROVE KeyInv
  OBVIOUS
<1>1. TypeOK
  <2>1. tool \in Tools /\ server \in Servers
    BY Moves DEF Init
  <2>2. disk \in [Files -> Int]
    <3>1. Absent \in Int
      BY DEF Absent
    <3> QED
      BY <3>1 DEF Init
  <2>3. dead \in Seq([kind: Kinds, key: Int, at: 1 .. 6])
    <3>1. \A S : <<>> \in Seq(S)
      OBVIOUS
    <3> QED
      BY <3>1 DEF Init
  <2>4. tool.pc = "idle" /\ path \in Locks
    BY DEF Init, NoTool, Locks
  <2>5. drawn \in Int /\ shown \subseteq Int /\ sealed \subseteq Int /\ edits \in Int
    <3>1. drawn = 0 /\ shown = {} /\ sealed = {} /\ edits = 0
      BY DEF Init
    <3> QED
      BY <3>1
  <2> QED
    BY <2>1, <2>2, <2>3, <2>4, <2>5 DEF TypeOK
<1>2. /\ \A f \in Files : disk[f] = Absent
      /\ tool.pc = "idle" /\ server.pc = "down" /\ path = "lock" /\ drawn = 0 /\ sealed = {}
  BY DEF Init, NoTool, Stopped
<1>3. InOrder
  BY <1>2, KeyAssumption DEF InOrder
<1>4. NothingBeforeConfig /\ OneInit /\ StartOpenable
  BY <1>2 DEF NothingBeforeConfig, OneInit, Starting, StartOpenable
<1>5. LocksOpenable /\ WholeAgrees /\ SealedOpenable
  BY <1>2, Contents DEF LocksOpenable, WholeAgrees, SealedOpenable
<1> QED
  BY <1>1, <1>3, <1>4, <1>5 DEF KeyInv

(* ... and every step keeps it.                                              *)
LEMMA NextKey == KeyInv /\ [Next]_vars => KeyInv'
<1> SUFFICES ASSUME KeyInv, [Next]_vars PROVE KeyInv'
  OBVIOUS
<1>1. TypeOK'
  BY NextTypes DEF KeyInv
<1>2. NothingBeforeConfig' /\ InOrder' /\ OneInit' /\ LocksOpenable'
  BY ConfigIsFirst, StepsInOrder, InitIsAlone, LocksStayOpenable
<1>3. StartOpenable' /\ WholeAgrees' /\ SealedOpenable'
  BY StartsStayOpenable, WholeStaysSo, SealsStayOpenable
<1> QED
  BY <1>1, <1>2, <1>3 DEF KeyInv

LEMMA KeyInvHolds == Spec => []KeyInv
<1> QED
  BY InitKey, NextKey, PTL DEF Spec

(* The files, the tool and the server have their types, and a tool that      *)
(* writes has a file to write.                                               *)
THEOREM TypesKeys == Spec => []TypeOK
<1>1. KeyInv => TypeOK
  BY DEF KeyInv
<1> QED
  BY <1>1, KeyInvHolds, PTL

(* Whatever is cut off where, and however a start collides with a tool, a    *)
(* submission is sealed to a key that the receiver has been shown, or that   *)
(* has only its display to come.                                             *)
THEOREM SealsOpen == Spec => []SealedOpenable
<1>1. KeyInv => SealedOpenable
  BY DEF KeyInv
<1> QED
  BY <1>1, KeyInvHolds, PTL

(* When no tool was ever cut off and the lock is where it was, the files     *)
(* agree whenever no tool is running, on a key that has been displayed.      *)
THEOREM RestsWhole == Spec => []RestAgrees
<1>1. KeyInv => RestAgrees
  BY DEF KeyInv, RestAgrees, WholeAgrees, Starting
<1> QED
  BY <1>1, KeyInvHolds, PTL

=============================================================================
