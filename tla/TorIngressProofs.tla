-------------------------- MODULE TorIngressProofs --------------------------
(***************************************************************************)
(* Proofs about TorIngress for any set of keys.                            *)
(***************************************************************************)
EXTENDS TorIngress, TLAPS

\* Where setupTor stands in what makes AddressKept and AnswersAtAddress inductive.
SetupAgrees ==
    /\ phase \in {"save", "fill", "persist"} => mine \in Keys
    /\ phase \in {"start", "auth"} => ~reached
    /\ phase \in {"read", "add", "save", "fill", "persist"} /\ reached => conn
    /\ phase \in {"save", "fill", "persist"} /\ reached => mine \in live
    /\ ~misread =>
          /\ phase = "add" /\ {file, priv} \cap Keys # {} => priv = file
          /\ phase \in {"save", "fill"} => file \notin Keys
          /\ phase = "persist" => mine = file

IngressInv == TypeOK /\ AddressKept /\ AnswersAtAddress /\ SetupAgrees

(* The initial states satisfy the invariant.                                 *)
LEMMA InitInv == Init => IngressInv
BY KeysAssumption DEF Init, IngressInv, TypeOK, AddressKept, AnswersAtAddress,
     SetupAgrees, Contents, Unwhole, Phases

(* Every step keeps the types.                                               *)
LEMMA NextTypes == IngressInv /\ [Next]_vars => TypeOK'
<1> SUFFICES ASSUME IngressInv, [Next]_vars PROVE TypeOK'
  OBVIOUS
<1> USE DEF IngressInv, TypeOK, Contents, Phases, Unwhole
<1>1. CASE Start
  BY <1>1 DEF Start
<1>2. CASE NoTor
  BY <1>2 DEF NoTor, GoesOn
<1>3. CASE Dial
  BY <1>3 DEF Dial
<1>4. CASE Authenticate
  BY <1>4 DEF Authenticate
<1>5. CASE AuthFails
  BY <1>5 DEF AuthFails, GoesOn
<1>6. CASE ReadKey
  BY <1>6 DEF ReadKey
<1>7. CASE ReadFails
  BY <1>7 DEF ReadFails
<1>8. CASE AddOnionExistingKey
  BY <1>8 DEF AddOnionExistingKey
<1>9. CASE AddOnionRefused
  BY <1>9 DEF AddOnionRefused, GoesOn
<1>10. CASE AddOnionV3
  BY <1>10 DEF AddOnionV3, Fresh
<1>11. CASE AddOnionFails
  BY <1>11 DEF AddOnionFails, GoesOn
<1>12. CASE OpenKeyFile
  BY <1>12 DEF OpenKeyFile
<1>13. CASE FillKeyFile
  BY <1>13 DEF FillKeyFile
<1>14. CASE WriteFails
  BY <1>14 DEF WriteFails, GoesOn
<1>15. CASE PersistOnionAddrs
  BY <1>15 DEF PersistOnionAddrs, SetupAgrees
<1>16. CASE Stop
  BY <1>16 DEF Stop
<1>17. CASE Crash
  BY <1>17 DEF Crash
<1>18. CASE TorStops
  BY <1>18 DEF TorStops
<1>19. CASE TorStarts
  BY <1>19 DEF TorStarts, server
<1>20. CASE UNCHANGED vars
  BY <1>20 DEF vars, server
<1> QED
  BY <1>1, <1>2, <1>3, <1>4, <1>5, <1>6, <1>7, <1>8, <1>9, <1>10, <1>11, <1>12, <1>13, <1>14, <1>15, <1>16, <1>17, <1>18, <1>19, <1>20 DEF Next, SetupTor

(* No step changes an address that was shown.                               *)
LEMMA NextKeeps == IngressInv /\ [Next]_vars => AddressKept'
<1> SUFFICES ASSUME IngressInv, [Next]_vars PROVE AddressKept'
  OBVIOUS
<1> USE KeysAssumption DEF IngressInv, TypeOK, AddressKept, AnswersAtAddress, SetupAgrees,
      Contents, Unwhole
<1>1. CASE Start
  BY <1>1 DEF Start
<1>2. CASE NoTor
  BY <1>2 DEF NoTor, GoesOn
<1>3. CASE Dial
  BY <1>3 DEF Dial
<1>4. CASE Authenticate
  BY <1>4 DEF Authenticate
<1>5. CASE AuthFails
  BY <1>5 DEF AuthFails, GoesOn
<1>6. CASE ReadKey
  BY <1>6 DEF ReadKey
<1>7. CASE ReadFails
  BY <1>7 DEF ReadFails
<1>8. CASE AddOnionExistingKey
  BY <1>8 DEF AddOnionExistingKey
<1>9. CASE AddOnionRefused
  BY <1>9 DEF AddOnionRefused, GoesOn
<1>10. CASE AddOnionV3
  BY <1>10 DEF AddOnionV3, Fresh
<1>11. CASE AddOnionFails
  BY <1>11 DEF AddOnionFails, GoesOn
<1>12. CASE OpenKeyFile
  BY <1>12 DEF OpenKeyFile
<1>13. CASE FillKeyFile
  BY <1>13 DEF FillKeyFile
<1>14. CASE WriteFails
  BY <1>14 DEF WriteFails, GoesOn
<1>15. CASE PersistOnionAddrs
  BY <1>15 DEF PersistOnionAddrs
<1>16. CASE Stop
  BY <1>16 DEF Stop
<1>17. CASE Crash
  BY <1>17 DEF Crash
<1>18. CASE TorStops
  BY <1>18 DEF TorStops
<1>19. CASE TorStarts
  BY <1>19 DEF TorStarts, server
<1>20. CASE UNCHANGED vars
  BY <1>20 DEF vars, server
<1> QED
  BY <1>1, <1>2, <1>3, <1>4, <1>5, <1>6, <1>7, <1>8, <1>9, <1>10, <1>11, <1>12, <1>13, <1>14, <1>15, <1>16, <1>17, <1>18, <1>19, <1>20 DEF Next, SetupTor

(* No step leaves a server without the service of its key file.             *)
LEMMA NextAnswers == IngressInv /\ [Next]_vars => AnswersAtAddress'
<1> SUFFICES ASSUME IngressInv, [Next]_vars PROVE AnswersAtAddress'
  OBVIOUS
<1> USE KeysAssumption DEF IngressInv, TypeOK, AddressKept, AnswersAtAddress, SetupAgrees,
      Contents, Unwhole
<1>1. CASE Start
  BY <1>1 DEF Start
<1>2. CASE NoTor
  BY <1>2 DEF NoTor, GoesOn
<1>3. CASE Dial
  BY <1>3 DEF Dial
<1>4. CASE Authenticate
  BY <1>4 DEF Authenticate
<1>5. CASE AuthFails
  BY <1>5 DEF AuthFails, GoesOn
<1>6. CASE ReadKey
  BY <1>6 DEF ReadKey
<1>7. CASE ReadFails
  BY <1>7 DEF ReadFails
<1>8. CASE AddOnionExistingKey
  BY <1>8 DEF AddOnionExistingKey
<1>9. CASE AddOnionRefused
  BY <1>9 DEF AddOnionRefused, GoesOn
<1>10. CASE AddOnionV3
  BY <1>10 DEF AddOnionV3, Fresh
<1>11. CASE AddOnionFails
  BY <1>11 DEF AddOnionFails, GoesOn
<1>12. CASE OpenKeyFile
  BY <1>12 DEF OpenKeyFile
<1>13. CASE FillKeyFile
  BY <1>13 DEF FillKeyFile
<1>14. CASE WriteFails
  BY <1>14 DEF WriteFails, GoesOn
<1>15. CASE PersistOnionAddrs
  BY <1>15 DEF PersistOnionAddrs
<1>16. CASE Stop
  BY <1>16 DEF Stop
<1>17. CASE Crash
  BY <1>17 DEF Crash
<1>18. CASE TorStops
  BY <1>18 DEF TorStops
<1>19. CASE TorStarts
  BY <1>19 DEF TorStarts, server
<1>20. CASE UNCHANGED vars
  BY <1>20 DEF vars, server
<1> QED
  BY <1>1, <1>2, <1>3, <1>4, <1>5, <1>6, <1>7, <1>8, <1>9, <1>10, <1>11, <1>12, <1>13, <1>14, <1>15, <1>16, <1>17, <1>18, <1>19, <1>20 DEF Next, SetupTor

(* setupTor stays in step with the key file and with tor.                   *)
LEMMA NextAgrees == IngressInv /\ [Next]_vars => SetupAgrees'
<1> SUFFICES ASSUME IngressInv, [Next]_vars PROVE SetupAgrees'
  OBVIOUS
<1> USE KeysAssumption DEF IngressInv, TypeOK, AddressKept, AnswersAtAddress, SetupAgrees,
      Contents, Unwhole
<1>1. CASE Start
  BY <1>1 DEF Start
<1>2. CASE NoTor
  BY <1>2 DEF NoTor, GoesOn
<1>3. CASE Dial
  BY <1>3 DEF Dial
<1>4. CASE Authenticate
  BY <1>4 DEF Authenticate
<1>5. CASE AuthFails
  BY <1>5 DEF AuthFails, GoesOn
<1>6. CASE ReadKey
  BY <1>6 DEF ReadKey
<1>7. CASE ReadFails
  BY <1>7 DEF ReadFails
<1>8. CASE AddOnionExistingKey
  BY <1>8 DEF AddOnionExistingKey
<1>9. CASE AddOnionRefused
  BY <1>9 DEF AddOnionRefused, GoesOn
<1>10. CASE AddOnionV3
  BY <1>10 DEF AddOnionV3, Fresh
<1>11. CASE AddOnionFails
  BY <1>11 DEF AddOnionFails, GoesOn
<1>12. CASE OpenKeyFile
  BY <1>12 DEF OpenKeyFile
<1>13. CASE FillKeyFile
  BY <1>13 DEF FillKeyFile
<1>14. CASE WriteFails
  BY <1>14 DEF WriteFails, GoesOn
<1>15. CASE PersistOnionAddrs
  BY <1>15 DEF PersistOnionAddrs
<1>16. CASE Stop
  BY <1>16 DEF Stop
<1>17. CASE Crash
  BY <1>17 DEF Crash
<1>18. CASE TorStops
  BY <1>18 DEF TorStops
<1>19. CASE TorStarts
  BY <1>19 DEF TorStarts, server
<1>20. CASE UNCHANGED vars
  BY <1>20 DEF vars, server
<1> QED
  BY <1>1, <1>2, <1>3, <1>4, <1>5, <1>6, <1>7, <1>8, <1>9, <1>10, <1>11, <1>12, <1>13, <1>14, <1>15, <1>16, <1>17, <1>18, <1>19, <1>20 DEF Next, SetupTor

(* The invariant holds always.                                               *)
LEMMA IngressAlways == Spec => []IngressInv
<1>1. IngressInv /\ [Next]_vars => IngressInv'
  BY NextTypes, NextKeeps, NextAnswers, NextAgrees DEF IngressInv
<1> QED
  BY InitInv, <1>1, PTL DEF Spec

(* Type correctness: tor only ever publishes services with whole keys.       *)
THEOREM TypesIngress == Spec => []TypeOK
<1>1. IngressInv => TypeOK
  BY DEF IngressInv
<1> QED
  BY IngressAlways, <1>1, PTL

(* An address that was shown stays the address of every later start.         *)
THEOREM AddressStays == Spec => []AddressKept
<1>1. IngressInv => AddressKept
  BY DEF IngressInv
<1> QED
  BY IngressAlways, <1>1, PTL

(* A server tor let in answers at the address of its key file.               *)
THEOREM ServedAtAddress == Spec => []AnswersAtAddress
<1>1. IngressInv => AnswersAtAddress
  BY DEF IngressInv
<1> QED
  BY IngressAlways, <1>1, PTL
=============================================================================
