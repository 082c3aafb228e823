--------------------------- MODULE DeliveryProofs ---------------------------
(***************************************************************************)
(* Proofs about Delivery for all names, sizes and limits, and about what   *)
(* padding does to every length.                                           *)
(***************************************************************************)
EXTENDS Delivery, SequenceTheorems, WellFoundedInduction, TLAPS

\* The data the submission and the viewer work on.
Shapes ==
    /\ conf \in Conf /\ atts \in Seq(Att) /\ left \in Nat /\ total \in Nat
    /\ viewer \in [at: {"idle", "next", "copy", "ok", "bad", "failed"}, k: Nat]

\* An attachment the configuration lets in.
Allowed(a) ==
    /\ a.was.size <= MaxSize /\ a.was.mime \in Safe
    /\ conf.allowed # {} => a.was.mime \in conf.allowed
    /\ conf.strip /\ a.mime \in Images => a.stripped

\* The files taken and those still to be looked at are within the limits.
WithinLimits ==
    /\ total <= MaxTotal /\ Len(atts) <= MaxFiles
    /\ phase = "form" => atts = <<>>
    /\ ~conf.enabled => atts = <<>> /\ phase # "files"
    /\ phase = "files" => 1 <= left /\ Len(atts) + left <= MaxFiles
    /\ \A k \in 1 .. Len(atts) : Allowed(atts[k])

\* Nobody sees a blob before its archive is what it will be, and what was
\* downloaded is compared with that.
Frozen ==
    /\ blob # NoBlob => phase \in {"write", "told", "cut"}
    /\ got.chunks # NoBlob => phase \in {"write", "told", "failed", "cut"}
    /\ phase = "told" => blob = Whole
    /\ got.told => phase = "told"
    /\ got.told /\ got.all => got.chunks = Whole
    /\ viewer.at # "idle" => got.chunks # NoBlob
    /\ viewer.at \in {"next", "copy", "ok"} => got.chunks = Whole

\* The entries the viewer has done are there.
Unpacked ==
    /\ viewer.at \in {"next", "copy", "ok"} =>
          \A j \in 0 .. Len(atts) : j < viewer.k => [name |-> EntryName(j), data |-> j] \in out
    /\ viewer.at = "ok" => viewer.k > Len(atts)

DelInv == Shapes /\ WithinLimits /\ Frozen /\ ToldOpens /\ Unpacked

\* The viewer copies only an entry the archive has, and a blob is written
\* only for a row.
Typed == /\ TypeOK
         /\ viewer.at = "copy" => viewer.k <= Len(atts)
         /\ phase = "write" => row

-----------------------------------------------------------------------------
(* Lengths.                                                                *)

(* A page that needs no pad is sent as it is; any other gets at least the    *)
(* wrapper of the comment, so strings.Repeat never sees a negative count     *)
(* (padding.go:50, "L4 fix").                                                *)
THEOREM FillerFits ==
  ASSUME NEW n \in Nat
  PROVE  n % Block # 0 => Filler(n) \in Nat
BY DEF Filler, NeededPad, Block, Wrapper

(* Every page fills whole blocks of 4 KiB (SPEC.md:79, F-51), and is less    *)
(* than a block and a wrapper longer than it was.                            *)
THEOREM PagesFillBlocks ==
  ASSUME NEW n \in Nat
  PROVE  /\ PageLen(n) % Block = 0
         /\ n <= PageLen(n) /\ PageLen(n) < n + Block + Wrapper
<1> DEFINE q == n \div Block
           r == n % Block
<1>1. n = Block * q + r /\ q \in Nat /\ r \in 0..(Block - 1)
  BY DEF Block
<1>2. CASE r = 0
  BY <1>1, <1>2 DEF PageLen, Filler, NeededPad, Block, Wrapper
<1>3. CASE r # 0 /\ Block - r >= Wrapper
  <2>1. PageLen(n) = Block * (q + 1)
    BY <1>1, <1>3 DEF PageLen, Filler, NeededPad, Block, Wrapper
  <2> QED
    BY <1>1, <1>3, <2>1 DEF Block, Wrapper
<1>4. CASE r # 0 /\ Block - r < Wrapper
  <2>1. PageLen(n) = Block * (q + 2)
    BY <1>1, <1>4 DEF PageLen, Filler, NeededPad, Block, Wrapper
  <2> QED
    BY <1>1, <1>4, <2>1 DEF Block, Wrapper
<1> QED
  BY <1>1, <1>2, <1>3, <1>4 DEF Block, Wrapper

(* Two pages that end in the same block, short of its last 13 bytes, look    *)
(* alike: the length tells a visitor's "no match" from "verified" no more.   *)
THEOREM PagesBlend ==
  ASSUME NEW k \in Nat, NEW n \in Nat, NEW m \in Nat,
         n \in (Block * k + 1)..(Block * k + Block - Wrapper),
         m \in (Block * k + 1)..(Block * k + Block - Wrapper)
  PROVE  PageLen(n) = PageLen(m)
<1>1. n % Block = n - Block * k /\ m % Block = m - Block * k
  BY DEF Block, Wrapper
<1> QED
  BY <1>1 DEF PageLen, Filler, NeededPad, Block, Wrapper

(* An archive is padded to the next 64 KiB, a whole block if it was there    *)
(* already (SPEC.md:80, F-52).                                               *)
LEMMA RemBounds ==
  ASSUME NEW n \in Nat
  PROVE  /\ Rem(n) \in Nat /\ 1 <= Rem(n) /\ Rem(n) <= Chunk
         /\ n \div Chunk \in Nat
         /\ PackedLen(n) = Chunk * (n \div Chunk + 1)
         /\ Chunks(n) = n \div Chunk + 1
<1>1. n % 65536 \in Nat /\ n % 65536 < 65536
  BY SMT
<1>2. Rem(n) \in Nat /\ 1 <= Rem(n) /\ Rem(n) <= Chunk
  BY <1>1, SMT DEF Rem, Chunk
<1>3. PICK q \in Nat : q = n \div Chunk
  BY SMT DEF Chunk
<1>4. PackedLen(n) = Chunk * (n \div Chunk + 1)
  BY SMT DEF PackedLen, Rem, Chunk
<1>5. (65536 * (q + 1)) \div 65536 = q + 1
  BY SMT
<1>6. Chunks(n) = q + 1
  BY <1>3, <1>4, <1>5, SMT DEF Chunks, Chunk
<1> QED
  BY <1>2, <1>3, <1>4, <1>6, SMT

THEOREM ArchivesFillBlocks ==
  ASSUME NEW n \in Nat
  PROVE  /\ PackedLen(n) % Chunk = 0
         /\ n < PackedLen(n) /\ PackedLen(n) <= n + Chunk
<1>1. PICK q \in Nat : PackedLen(n) = 65536 * (q + 1)
  BY RemBounds, SMT DEF Chunk
<1>2. (65536 * (q + 1)) % 65536 = 0
  BY SMT
<1>3. PICK m \in Nat : m = Rem(n) /\ 1 <= m /\ m <= 65536
  BY RemBounds, SMT DEF Chunk
<1>4. PackedLen(n) = n + m
  BY <1>3 DEF PackedLen
<1>5. n < n + m /\ n + m <= n + 65536
  BY <1>3, SMT
<1> QED
  BY <1>1, <1>2, <1>4, <1>5, SMT DEF Chunk

THEOREM PadIsZero ==
  ASSUME NEW n \in Nat, n % Record = 0
  PROVE  PadByte(n) = 0
<1> DEFINE s == n \div Record
<1>1. n = 512 * s /\ s \in Nat
  BY DEF Record
<1>2. n % Chunk = 512 * (s % 128)
  BY <1>1 DEF Chunk
<1>3. s % 128 \in 0..127
  BY <1>1
<1>4. \A t \in 0..127 : (65536 - 512 * t) % 256 = 0
  OBVIOUS
<1> QED
  BY <1>2, <1>3, <1>4 DEF PadByte, Rem, Chunk

(* The length of a blob is a function of the number of its chunks.           *)
LEMMA LenByChunks ==
  ASSUME NEW n \in Nat
  PROVE  n \div Chunk \in Nat /\ SealedLen(n) = 65744 + 65552 * (n \div Chunk)
<1>1. PICK q \in Nat : /\ q = n \div Chunk /\ Chunks(n) = q + 1
                      /\ PackedLen(n) = Chunk * (q + 1)
  BY RemBounds
<1>2. PackedLen(n) = 65536 * q + 65536
  BY <1>1 DEF Chunk
<1> QED
  BY <1>1, <1>2 DEF SealedLen, Overhead

(* The blob of a case is as long as that of any other whose archive ends in  *)
(* the same 64 KiB, and its length grows with the archive's.                 *)
THEOREM BlobsBlend ==
  ASSUME NEW n \in Nat, NEW m \in Nat
  PROVE  /\ n \div Chunk = m \div Chunk => SealedLen(n) = SealedLen(m)
         /\ n <= m => SealedLen(n) <= SealedLen(m)
<1>1. n <= m => n \div Chunk <= m \div Chunk
  BY DEF Chunk
<1>2. PICK a \in Nat : a = n \div Chunk /\ SealedLen(n) = 65744 + 65552 * a
  BY LenByChunks
<1>3. PICK b \in Nat : b = m \div Chunk /\ SealedLen(m) = 65744 + 65552 * b
  BY LenByChunks
<1> QED
  BY <1>1, <1>2, <1>3

(* The inbox never shows a smaller bucket for a larger case.                 *)
THEOREM BucketsGrow ==
  ASSUME NEW n \in Nat, NEW m \in Nat, n <= m
  PROVE  SizeBucket(n) <= SizeBucket(m) /\ SizeBucket(n) \in 1..4
BY DEF SizeBucket

-----------------------------------------------------------------------------
(* The length of an archive, which a recursive function sums up.           *)

Smaller == OpToRel(<, Nat)

(* Induction over the naturals, with a set for the property.                 *)
LEMMA SetInduction ==
  ASSUME NEW S, 0 \in S, \A n \in Nat : n \in S => n + 1 \in S
  PROVE  Nat \subseteq S
<1> SUFFICES ASSUME Nat \ S # {} PROVE FALSE
  OBVIOUS
<1>1. PICK x \in Nat \ S : \A y \in Nat \ S : ~ (<<y, x>> \in Smaller)
  <2>1. IsWellFoundedOn(Smaller, Nat)
    BY NatLessThanWellFounded DEF Smaller
  <2> QED BY <2>1, WFMin
<1>2. x \in Nat /\ x # 0 /\ x - 1 \in Nat
  BY <1>1
<1>3. <<x - 1, x>> \in Smaller
  BY <1>2 DEF Smaller, OpToRel
<1>4. x - 1 \in S
  BY <1>1, <1>3, <1>2
<1> QED
  BY <1>1, <1>2, <1>4

(* A running sum of naturals exists, and is a natural all along.             *)
Sums(n, a, L) == {f \in [0..n -> Nat] : \A k \in 0..n : f[k] = IF k = 0 THEN a ELSE f[k - 1] + L[k]}

LEMMA SumExists ==
  ASSUME NEW a \in Nat, NEW N \in Nat, NEW L \in [1..N -> Nat]
  PROVE  Sums(N, a, L) # {}
<1> DEFINE S == {n \in Nat : n <= N => Sums(n, a, L) # {}}
<1>1. 0 \in S
  <2> DEFINE f == [k \in 0..0 |-> a]
  <2>1. f \in Sums(0, a, L)
    BY DEF Sums
  <2> QED
    BY <2>1
<1>2. ASSUME NEW n \in Nat, n \in S PROVE n + 1 \in S
  <2> SUFFICES ASSUME n + 1 <= N PROVE Sums(n + 1, a, L) # {}
    OBVIOUS
  <2>1. PICK f \in [0..n -> Nat] : \A k \in 0..n : f[k] = IF k = 0 THEN a ELSE f[k - 1] + L[k]
    BY <1>2 DEF Sums
  <2> DEFINE g == [k \in 0..(n + 1) |-> IF k <= n THEN f[k] ELSE f[n] + L[n + 1]]
  <2>2. L[n + 1] \in Nat /\ f[n] \in Nat
    BY <2>1
  <2>3. g \in [0..(n + 1) -> Nat]
    BY <2>1, <2>2
  <2>4. \A k \in 0..n : g[k] = f[k]
    OBVIOUS
  <2>5. g[n + 1] = f[n] + L[n + 1]
    OBVIOUS
  <2> HIDE DEF g
  <2>6. ASSUME NEW k \in 0..(n + 1) PROVE g[k] = IF k = 0 THEN a ELSE g[k - 1] + L[k]
    <3>1. CASE k = n + 1
      BY <2>4, <2>5, <3>1
    <3>2. CASE k # n + 1
      <4>1. k \in 0..n /\ (k # 0 => k - 1 \in 0..n)
        BY <3>2
      <4> QED
        BY <2>1, <2>4, <4>1
    <3> QED
      BY <3>1, <3>2
  <2> QED
    BY <2>3, <2>6 DEF Sums
<1>3. Nat \subseteq S
  <2> HIDE DEF S
  <2> QED
    BY <1>1, <1>2, SetInduction
<1> QED
  BY <1>3

LEMMA EntryLenNat == ASSUME NEW d \in Nat PROVE EntryLen(d) \in Nat
  BY DEF EntryLen, Record

(* What is summed up that way ends in a natural.                             *)
LEMMA SumNat ==
  ASSUME NEW a \in Nat, NEW N \in Nat, NEW L \in [1..N -> Nat], NEW g,
         \A k \in 0..N : g[k] = IF k = 0 THEN a ELSE g[k - 1] + L[k]
  PROVE  g[N] \in Nat
<1> DEFINE S == {k \in Nat : k <= N => g[k] \in Nat}
<1>1. 0 \in S
  BY Z3
<1>2. ASSUME NEW k \in Nat, k \in S PROVE k + 1 \in S
  <2> SUFFICES ASSUME k + 1 <= N PROVE g[k + 1] \in Nat
    OBVIOUS
  <2>1. L[k + 1] \in Nat /\ g[k] \in Nat
    BY <1>2
  <2>2. g[k + 1] = g[k] + L[k + 1]
    OBVIOUS
  <2> QED
    BY <2>1, <2>2
<1>3. Nat \subseteq S
  <2> HIDE DEF S
  <2> QED
    BY <1>1, <1>2, SetInduction
<1> QED
  BY <1>3

(* The length of an archive is a number: its recursive function exists.      *)
LEMMA ArchiveLenNat ==
  \A as \in Seq(Att) : ArchiveLen(as) \in Nat
<1>0. SUFFICES ASSUME NEW as, as \in Seq(Att) PROVE ArchiveLen(as) \in Nat
  BY Zenon
<1>1. PICK n \in Nat : n = Len(as)
  BY <1>0, LenProperties
<1> DEFINE a == EntryLen(MetaLen)
           L == [k \in 1..n |-> EntryLen(as[k].size)]
           upTo[k \in 0..Len(as)] == IF k = 0 THEN EntryLen(MetaLen)
                                     ELSE upTo[k - 1] + EntryLen(as[k].size)
<1>2. a \in Nat
  BY EntryLenNat, DeliveryAssumption
<1>3. L \in [1..n -> Nat]
  <2> SUFFICES ASSUME NEW k \in 1..n PROVE EntryLen(as[k].size) \in Nat
    OBVIOUS
  <2>1. as[k] \in Att
    BY <1>0, <1>1, ElementOfSeq
  <2>2. as[k].size \in Nat
    BY <2>1, DeliveryAssumption DEF Att
  <2> QED
    BY <2>2, EntryLenNat
<1>4. \A k \in 0..n : k # 0 => L[k] = EntryLen(as[k].size)
  <2>1. \A k \in 1..n : L[k] = EntryLen(as[k].size)
    BY Zenon
  <2>2. \A k \in 0..n : k # 0 => k \in 1..n
    OBVIOUS
  <2> QED
    BY <2>1, <2>2, Zenon
<1>5. PICK f : f \in Sums(n, a, L)
  <2> HIDE DEF L, a
  <2> QED
    BY <1>2, <1>3, SumExists
<1>6. f = [k \in 0..Len(as) |-> IF k = 0 THEN EntryLen(MetaLen)
                                ELSE f[k - 1] + EntryLen(as[k].size)]
  <2>1. /\ f = [k \in 0..n |-> f[k]]
        /\ \A k \in 0..n : f[k] = IF k = 0 THEN a ELSE f[k - 1] + L[k]
    <3> HIDE DEF L, a
    <3> QED
      BY <1>5 DEF Sums
  <2> HIDE DEF L
  <2> QED
    BY <1>1, <1>4, <2>1
<1>7. upTo = [k \in 0..Len(as) |-> IF k = 0 THEN EntryLen(MetaLen)
                                   ELSE upTo[k - 1] + EntryLen(as[k].size)]
  BY <1>6, Zenon
<1>8. ArchiveLen(as) = upTo[Len(as)] + Trailer
  BY Zenon DEF ArchiveLen
<1> HIDE DEF upTo, L
<1>9. \A k \in 0..n : upTo[k] = IF k = 0 THEN a ELSE upTo[k - 1] + L[k]
  <2>1. \A k \in 0..n : upTo[k] = IF k = 0 THEN a ELSE upTo[k - 1] + EntryLen(as[k].size)
    BY <1>1, <1>7
  <2> QED
    BY <1>4, <2>1
<1>10. upTo[n] \in Nat
  <2> HIDE DEF a
  <2> QED
    BY <1>2, <1>3, <1>9, SumNat
<1>11. \A x \in Nat : x + Trailer \in Nat
  BY DEF Trailer, Record
<1> QED
  BY <1>1, <1>8, <1>10, <1>11, Zenon

(* A sealed archive has a number of chunks.                                  *)
LEMMA WholeNat ==
  ASSUME atts \in Seq(Att)
  PROVE  Whole \in Nat
<1>1. PICK n \in Nat : n = ArchiveLen(atts)
  BY ArchiveLenNat
<1>2. Chunks(n) \in Nat
  <2>1. PICK q \in Nat : q = n \div Chunk /\ Chunks(n) = q + 1
    BY RemBounds
  <2> QED
    BY <2>1
<1> QED
  BY <1>1, <1>2 DEF Whole

-----------------------------------------------------------------------------
(* What is sent reaches the receiver.                                      *)

(* An archive that is not touched keeps its length and its names.            *)
LEMMA SameArchive ==
  ASSUME UNCHANGED atts
  PROVE  Whole' = Whole /\ \A k : EntryName(k)' = EntryName(k)
<1>1. Whole' = Whole
  BY DEF Whole
<1>2. \A k : EntryName(k)' = EntryName(k)
  BY DEF EntryName, Entry
<1> QED
  BY <1>1, <1>2

(* The index keeps the names of an archive apart.                            *)
LEMMA NamesDiffer ==
  ASSUME NEW j \in Nat, NEW k \in Nat, j # k
  PROVE  EntryName(j) # EntryName(k)
<1>1. \A i \in Nat : EntryName(i)[1] = i
  BY DEF EntryName, Meta, Entry
<1> QED
  BY <1>1

(* The file the viewer puts in place takes none away but its own.            *)
LEMMA PutKeeps ==
  ASSUME NEW data, Put(data), NEW name, NEW d, [name |-> name, data |-> d] \in out,
         name # EntryName(viewer.k)
  PROVE  [name |-> name, data |-> d] \in out'
<1>1. [name |-> name, data |-> d].name = name
  OBVIOUS
<1> QED
  BY <1>1 DEF Put

LEMMA PutPuts ==
  ASSUME NEW data, Put(data)
  PROVE  [name |-> EntryName(viewer.k), data |-> data] \in out'
BY DEF Put

(* The two ways of taking a file leave one that is allowed.                  *)
LEMMA TakenAllowed ==
  ASSUME Shapes, NEW u \in Upload, Take(u)
  PROVE  \E a \in Att : atts' = Append(atts, a) /\ Allowed(a)
<1>1. u.mime \in Safe /\ u.size \in Sizes /\ u.size <= MaxSize
      /\ (conf.allowed # {} => u.mime \in conf.allowed)
  BY DEF Take, Fits, Verified, Upload
<1>2. CASE Strips(u)
  <2>1. PICK a \in Reencoded(u) : atts' = Append(atts, a)
    BY <1>2 DEF Take
  <2>2. PICK s \in Encoded, m \in Safe :
           a = [was |-> u, size |-> s, stripped |-> TRUE, mime |-> m]
    BY <1>1, <2>1 DEF Reencoded, Safe
  <2>3. a \in Att /\ a.was = u /\ a.stripped = TRUE /\ a.mime = m
    BY <2>2 DEF Att
  <2> QED
    BY <1>1, <2>1, <2>3 DEF Allowed
<1>3. CASE ~Strips(u)
  <2>1. PICK a : a = [was |-> u, size |-> u.size, stripped |-> FALSE, mime |-> u.mime]
    OBVIOUS
  <2>2. atts' = Append(atts, a)
    BY <1>3, <2>1 DEF Take, AsSent
  <2>3. a \in Att /\ a.was = u /\ a.mime = u.mime
    BY <1>1, <2>1 DEF Att
  <2> QED
    BY <1>1, <1>3, <2>2, <2>3 DEF Allowed, Strips
<1> QED
  BY <1>2, <1>3

(* Taking a file.                                                            *)
LEMMA TakeStep ==
  ASSUME DelInv, NEW u \in Upload, Take(u)
  PROVE  DelInv'
<1>1. /\ Shapes /\ WithinLimits /\ Frozen /\ phase = "files"
      /\ UNCHANGED <<conf, row, blob, read, got, viewer, out>>
      /\ total' = total + u.size /\ left' = left - 1
      /\ phase' = IF left = 1 THEN "pack" ELSE "files"
      /\ total + u.size <= MaxTotal
  BY DEF DelInv, Take, Fits, offline
<1>2. /\ left \in Nat /\ total \in Nat /\ u.size \in Nat /\ atts \in Seq(Att)
      /\ MaxFiles \in Nat /\ MaxTotal \in Nat /\ conf.enabled
      /\ 1 <= left
  BY <1>1, DeliveryAssumption DEF Shapes, WithinLimits, Upload
<1>3. PICK n \in Nat : n = Len(atts)
  BY <1>2, LenProperties
<1>4. PICK a \in Att : atts' = Append(atts, a) /\ Allowed(a)
  BY <1>1, TakenAllowed
<1>5. /\ atts' \in Seq(Att) /\ Len(atts') = n + 1 /\ atts'[n + 1] = a
      /\ \A k \in 1 .. n : atts'[k] = atts[k]
  BY <1>2, <1>3, <1>4, AppendProperties
<1>6. Shapes'
  BY <1>1, <1>2, <1>5 DEF Shapes
<1>7. WithinLimits'
  <2>1. \A k \in 1 .. n + 1 : Allowed(atts'[k])
    <3>1. \A k \in 1 .. n + 1 : k \in 1 .. n \/ k = n + 1
      OBVIOUS
    <3>2. \A k \in 1 .. n : Allowed(atts[k])
      BY <1>1, <1>3 DEF WithinLimits
    <3> QED
      BY <1>4, <1>5, <3>1, <3>2
  <2>3. (\A k \in 1 .. Len(atts) : Allowed(atts[k]))'
    BY <1>1, <1>5, <2>1 DEF Allowed
  <2>4. n + left <= MaxFiles
    BY <1>1, <1>3 DEF WithinLimits
  <2>5. total' <= MaxTotal /\ Len(atts') <= MaxFiles
    BY <1>1, <1>2, <1>5, <2>4
  <2>6. phase' = "files" => 1 <= left' /\ Len(atts') + left' <= MaxFiles
    BY <1>1, <1>2, <1>5, <2>4
  <2> QED
    BY <1>1, <1>2, <2>3, <2>5, <2>6 DEF WithinLimits
<1>8. blob = NoBlob /\ got.chunks = NoBlob /\ ~got.told /\ viewer.at = "idle"
  BY <1>1 DEF Frozen
<1>9. Frozen' /\ ToldOpens' /\ Unpacked'
  BY <1>1, <1>8 DEF Frozen, ToldOpens, Unpacked
<1> QED
  BY <1>6, <1>7, <1>9 DEF DelInv

(* What stays as it is when the attachments do.                              *)
LEMMA SameAttachments ==
  ASSUME DelInv, UNCHANGED <<conf, atts>>
  PROVE  /\ Whole' = Whole /\ \A k : EntryName(k)' = EntryName(k)
         /\ Len(atts') = Len(atts) /\ Len(atts) \in Nat /\ Len(atts) <= MaxFiles
         /\ (\A k \in 1 .. Len(atts) : Allowed(atts[k]))'
<1>1. atts \in Seq(Att) /\ Len(atts) <= MaxFiles /\ \A k \in 1 .. Len(atts) : Allowed(atts[k])
  BY DEF DelInv, Shapes, WithinLimits
<1>2. (\A k \in 1 .. Len(atts) : Allowed(atts[k]))'
  BY <1>1 DEF Allowed
<1> QED
  BY <1>1, <1>2, SameArchive, LenProperties

(* A step of a submission that takes no file.                                *)
LEMMA IntakeStep ==
  ASSUME DelInv, UNCHANGED <<conf, atts, total, got, viewer, out>>, left' \in Nat,
         phase' # "form",
         ~(~conf.enabled /\ phase' = "files"),
         phase' = "files" => 1 <= left' /\ Len(atts) + left' <= MaxFiles,
         blob' # NoBlob => phase' \in {"write", "told", "cut"},
         got.chunks # NoBlob => phase' \in {"write", "told", "failed", "cut"},
         phase' = "told" => blob' = Whole,
         phase = "told" => phase' = "told"
  PROVE  DelInv'
<1>1. Shapes /\ WithinLimits /\ Frozen /\ ToldOpens /\ Unpacked
  BY DEF DelInv
<1>2. /\ Whole' = Whole /\ \A k : EntryName(k)' = EntryName(k)
      /\ Len(atts') = Len(atts)
      /\ (\A k \in 1 .. Len(atts) : Allowed(atts[k]))'
  BY SameAttachments
<1>3. Shapes'
  BY <1>1 DEF Shapes
<1>4. WithinLimits'
  BY <1>1, <1>2 DEF WithinLimits
<1>5. Frozen' /\ ToldOpens'
  BY <1>1, <1>2 DEF Frozen, ToldOpens
<1>6. Unpacked'
  BY <1>1, <1>2 DEF Unpacked
<1> QED
  BY <1>3, <1>4, <1>5, <1>6 DEF DelInv

LEMMA SubmitStep ==
  ASSUME DelInv, Submit
  PROVE  DelInv'
<1>1. Shapes /\ WithinLimits /\ Frozen /\ left \in Nat /\ MaxFiles \in Nat
  BY DeliveryAssumption DEF DelInv, Shapes
<1>2. CASE FieldsRefused
  <2>1. /\ phase = "form" /\ phase' = "refused"
        /\ UNCHANGED <<conf, left, total, atts, blob, got, viewer, out>>
    BY <1>2 DEF FieldsRefused, offline
  <2> QED
    BY <1>1, <2>1, IntakeStep DEF Frozen
<1>3. ASSUME NEW n \in 0 .. MaxFiles + 1, FieldsTaken(n)
      PROVE  DelInv'
  <2>1. /\ phase = "form" /\ atts = <<>> /\ Len(atts) = 0
        /\ UNCHANGED <<conf, total, atts, blob, got, viewer, out>>
    BY <1>1, <1>3 DEF FieldsTaken, offline, WithinLimits
  <2>2. \/ phase' \in {"pack", "refused"} /\ left' = 0
        \/ phase' = "files" /\ left' = n /\ conf.enabled /\ 1 <= n /\ n <= MaxFiles
    BY <1>1, <1>3 DEF FieldsTaken
  <2>3. left' \in Nat /\ (phase' = "files" => 1 <= left' /\ Len(atts) + left' <= MaxFiles)
    BY <2>1, <2>2
  <2>4. blob = NoBlob /\ got.chunks = NoBlob
    BY <1>1, <2>1 DEF Frozen
  <2> QED
    BY <2>1, <2>2, <2>3, <2>4, IntakeStep
<1>4. ASSUME NEW u \in Upload, Refuse(u)
      PROVE  DelInv'
  <2>1. /\ phase = "files" /\ phase' = "refused"
        /\ UNCHANGED <<conf, left, total, atts, blob, got, viewer, out>>
    BY <1>4 DEF Refuse, offline
  <2> QED
    BY <1>1, <2>1, IntakeStep DEF Frozen
<1>5. CASE PackAndInsert
  <2>1. /\ phase = "pack" /\ phase' = "write"
        /\ UNCHANGED <<conf, left, total, atts, got, viewer, out>>
    BY <1>5 DEF PackAndInsert, offline
  <2> QED
    BY <1>1, <2>1, IntakeStep
<1>6. CASE PackFails
  <2>1. /\ phase = "pack" /\ phase' = "failed"
        /\ UNCHANGED <<conf, left, total, atts, blob, got, viewer, out>>
    BY <1>6 DEF PackFails, offline
  <2> QED
    BY <1>1, <2>1, IntakeStep DEF Frozen
<1>7. CASE WriteChunk
  <2>1. /\ phase = "write" /\ phase' = "write"
        /\ UNCHANGED <<conf, left, total, atts, got, viewer, out>>
    BY <1>7 DEF WriteChunk, intake, offline
  <2> QED
    BY <1>1, <2>1, IntakeStep
<1>8. CASE WriteFails
  <2>1. /\ phase = "write" /\ phase' = "failed" /\ blob' = NoBlob
        /\ UNCHANGED <<conf, left, total, atts, got, viewer, out>>
    BY <1>8 DEF WriteFails, offline
  <2> QED
    BY <1>1, <2>1, IntakeStep
<1>9. CASE Tell
  <2>1. /\ phase = "write" /\ phase' = "told" /\ blob' = Whole
        /\ UNCHANGED <<conf, left, total, atts, got, viewer, out>>
    BY <1>9 DEF Tell, offline
  <2> QED
    BY <1>1, <2>1, IntakeStep
<1>10. CASE Killed
  <2>1. /\ phase \in {"form", "files", "pack", "write"} /\ phase' = "cut"
        /\ UNCHANGED <<conf, left, total, atts, blob, got, viewer, out>>
    BY <1>10 DEF Killed, offline
  <2> QED
    BY <1>1, <2>1, IntakeStep
<1> QED
  BY <1>2, <1>3, <1>4, <1>5, <1>6, <1>7, <1>8, <1>9, <1>10, TakeStep DEF Submit

(* The receiver's steps leave the submission alone.                          *)
LEMMA ReceiverStep ==
  ASSUME DelInv, UNCHANGED <<intake, row, blob>>,
         viewer' \in [at: {"idle", "next", "copy", "ok", "bad", "failed"}, k: Nat],
         got'.chunks # NoBlob => got.chunks # NoBlob \/ blob # NoBlob,
         got'.told => phase = "told",
         got'.told /\ got'.all => got'.chunks = Whole,
         viewer'.at # "idle" => got'.chunks # NoBlob,
         viewer'.at \in {"next", "copy", "ok"} => got'.chunks = Whole,
         viewer'.at = "bad" => ~(got'.told /\ got'.all),
         viewer'.at = "ok" => viewer'.k > Len(atts),
         viewer'.at \in {"next", "copy", "ok"} =>
            \A j \in 0 .. Len(atts) : j < viewer'.k => [name |-> EntryName(j), data |-> j] \in out'
  PROVE  DelInv'
<1>1. Shapes /\ WithinLimits /\ Frozen /\ UNCHANGED <<conf, phase, left, total, atts>>
  BY DEF DelInv, intake
<1>2. /\ Whole' = Whole /\ \A k : EntryName(k)' = EntryName(k)
      /\ Len(atts') = Len(atts)
      /\ (\A k \in 1 .. Len(atts) : Allowed(atts[k]))'
  BY <1>1, SameAttachments
<1>3. Shapes'
  BY <1>1 DEF Shapes
<1>4. WithinLimits'
  BY <1>1, <1>2 DEF WithinLimits
<1>5. Frozen' /\ ToldOpens'
  BY <1>1, <1>2 DEF Frozen, ToldOpens
<1>6. Unpacked'
  BY <1>1, <1>2 DEF Unpacked
<1> QED
  BY <1>3, <1>4, <1>5, <1>6 DEF DelInv

LEMMA DownloadStep ==
  ASSUME DelInv, NEW n, Download(n)
  PROVE  DelInv'
<1>1. /\ blob # NoBlob /\ UNCHANGED <<intake, row, blob>>
      /\ got'.all = (n = blob) /\ got'.chunks = n /\ got'.told = (phase = "told")
      /\ viewer' = [at |-> "idle", k |-> 0]
  BY DEF Download
<1>2. /\ viewer'.at = "idle"
      /\ viewer' \in [at: {"idle", "next", "copy", "ok", "bad", "failed"}, k: Nat]
  BY <1>1
<1>3. phase = "told" => blob = Whole
  BY DEF DelInv, Frozen
<1> QED
  BY <1>1, <1>2, <1>3, ReceiverStep

LEMMA ViewStep ==
  ASSUME DelInv, View
  PROVE  DelInv'
<1>1. /\ Shapes /\ Frozen /\ ToldOpens /\ Unpacked /\ Len(atts) \in Nat
      /\ viewer.k \in Nat
      /\ viewer \in [at: {"idle", "next", "copy", "ok", "bad", "failed"}, k: Nat]
  <2>1. Shapes
    BY DEF DelInv
  <2> QED
    BY <2>1, LenProperties DEF DelInv, Shapes
<1>2. UNCHANGED <<intake, row, blob, got>>
  BY DEF View, Decrypt, OpenEntry, CopyEntry, ArchiveEnds, ViewerFails
<1>3. CASE Decrypt
  <2>1. PICK at \in {"next", "bad"} :
           /\ viewer' = [at |-> at, k |-> 0]
           /\ (at = "next") <=> (got.chunks = Whole)
    BY <1>3 DEF Decrypt
  <2>2. /\ viewer'.at = at /\ viewer'.k = 0
        /\ viewer' \in [at: {"idle", "next", "copy", "ok", "bad", "failed"}, k: Nat]
    BY <2>1
  <2>4. got.chunks # NoBlob /\ out' = out
    BY <1>3 DEF Decrypt
  <2>3. \A j \in 0 .. Len(atts) : ~(j < 0)
    BY <1>1
  <2> QED
    BY <1>1, <1>2, <2>1, <2>2, <2>3, <2>4, ReceiverStep DEF Frozen
<1>4. CASE OpenEntry
  <2>1. viewer.at = "next" /\ Put(Partial) /\ viewer' = [viewer EXCEPT !.at = "copy"]
    BY <1>4 DEF OpenEntry
  <2>2. /\ viewer'.at = "copy" /\ viewer'.k = viewer.k
        /\ viewer' \in [at: {"idle", "next", "copy", "ok", "bad", "failed"}, k: Nat]
    BY <1>1, <2>1
  <2>3. ASSUME NEW j \in 0 .. Len(atts), j < viewer.k
        PROVE  [name |-> EntryName(j), data |-> j] \in out'
    <3>1. [name |-> EntryName(j), data |-> j] \in out
      BY <1>1, <2>1, <2>3 DEF Unpacked
    <3>2. EntryName(j) # EntryName(viewer.k)
      BY <1>1, <2>3, NamesDiffer
    <3> QED
      BY <2>1, <3>1, <3>2, PutKeeps
  <2> QED
    BY <1>1, <1>2, <2>1, <2>2, <2>3, ReceiverStep DEF Frozen
<1>5. CASE CopyEntry
  <2>1. /\ viewer.at = "copy" /\ Put(viewer.k)
        /\ viewer' = [at |-> "next", k |-> viewer.k + 1]
    BY <1>5 DEF CopyEntry
  <2>2. /\ viewer'.at = "next" /\ viewer'.k = viewer.k + 1
        /\ viewer' \in [at: {"idle", "next", "copy", "ok", "bad", "failed"}, k: Nat]
    BY <1>1, <2>1
  <2>3. ASSUME NEW j \in 0 .. Len(atts), j < viewer.k + 1
        PROVE  [name |-> EntryName(j), data |-> j] \in out'
    <3>1. CASE j = viewer.k
      BY <2>1, <3>1, PutPuts
    <3>2. CASE j < viewer.k
      <4>1. [name |-> EntryName(j), data |-> j] \in out
        BY <1>1, <2>1, <3>2 DEF Unpacked
      <4>2. EntryName(j) # EntryName(viewer.k)
        BY <1>1, <3>2, NamesDiffer
      <4> QED
        BY <2>1, <4>1, <4>2, PutKeeps
    <3> QED
      BY <1>1, <2>3, <3>1, <3>2
  <2> QED
    BY <1>1, <1>2, <2>1, <2>2, <2>3, ReceiverStep DEF Frozen
<1>6. CASE ArchiveEnds
  <2>1. /\ viewer.at = "next" /\ viewer.k > Len(atts) /\ out' = out
        /\ viewer' = [viewer EXCEPT !.at = "ok"]
    BY <1>6 DEF ArchiveEnds
  <2>2. /\ viewer'.at = "ok" /\ viewer'.k = viewer.k
        /\ viewer' \in [at: {"idle", "next", "copy", "ok", "bad", "failed"}, k: Nat]
    BY <1>1, <2>1
  <2> QED
    BY <1>1, <1>2, <2>1, <2>2, ReceiverStep DEF Frozen, Unpacked
<1>7. CASE ViewerFails
  <2>1. /\ viewer.at \in {"next", "copy"}
        /\ viewer' = [viewer EXCEPT !.at = "failed"]
    BY <1>7 DEF ViewerFails
  <2>2. /\ viewer'.at = "failed"
        /\ viewer' \in [at: {"idle", "next", "copy", "ok", "bad", "failed"}, k: Nat]
    BY <1>1, <2>1
  <2> QED
    BY <1>1, <1>2, <2>1, <2>2, ReceiverStep DEF Frozen
<1> QED
  BY <1>3, <1>4, <1>5, <1>6, <1>7 DEF View

LEMMA InitDel == Init => DelInv
<1> SUFFICES ASSUME Init PROVE DelInv
  OBVIOUS
<1>1. /\ atts = <<>> /\ Len(atts) = 0 /\ phase = "form" /\ blob = NoBlob
      /\ got.chunks = NoBlob /\ ~got.told /\ viewer.at = "idle" /\ total = 0
  BY DEF Init
<1>2. Shapes
  <2>1. \A S : <<>> \in Seq(S)
    OBVIOUS
  <2>2. viewer \in [at: {"idle", "next", "copy", "ok", "bad", "failed"}, k: Nat]
    BY DEF Init
  <2>3. conf \in Conf /\ left \in Nat /\ total \in Nat
    BY DEF Init
  <2> QED
    BY <1>1, <2>1, <2>2, <2>3 DEF Shapes
<1>3. WithinLimits
  <2>1. 0 <= MaxTotal /\ 0 <= MaxFiles
    BY DeliveryAssumption
  <2> QED
    BY <1>1, <2>1 DEF WithinLimits
<1>4. Frozen /\ ToldOpens /\ Unpacked
  BY <1>1 DEF Frozen, ToldOpens, Unpacked
<1> QED
  BY <1>2, <1>3, <1>4 DEF DelInv

LEMMA NextDel == DelInv /\ [Next]_vars => DelInv'
<1> SUFFICES ASSUME DelInv, [Next]_vars PROVE DelInv'
  OBVIOUS
<1>1. CASE UNCHANGED vars
  <2>1. UNCHANGED <<intake, row, blob, got, viewer, out>>
    BY <1>1 DEF vars, offline
  <2>2. Shapes /\ Frozen /\ ToldOpens /\ Unpacked
    BY DEF DelInv
  <2>3. viewer' \in [at: {"idle", "next", "copy", "ok", "bad", "failed"}, k: Nat]
    BY <2>1, <2>2 DEF Shapes
  <2> QED
    BY <2>1, <2>2, <2>3, ReceiverStep DEF Frozen, ToldOpens, Unpacked
<1> QED
  BY <1>1, SubmitStep, ViewStep, DownloadStep DEF Next

LEMMA DelInvHolds == Spec => []DelInv
<1> QED
  BY InitDel, NextDel, PTL DEF Spec

(* What is packed is counted, sized and sniffed as the configuration says,   *)
(* and no image keeps its metadata if they are to go.                        *)
THEOREM PacksAsConfigured == Spec => []PackedAsConfigured
<1>1. DelInv => PackedAsConfigured
  <2> SUFFICES ASSUME DelInv PROVE PackedAsConfigured
    OBVIOUS
  <2>1. WithinLimits /\ atts \in Seq(Att) /\ DOMAIN atts = 1 .. Len(atts)
    BY LenProperties DEF DelInv, Shapes
  <2>2. Len(atts) <= (IF conf.enabled THEN MaxFiles ELSE 0)
    BY <2>1 DEF WithinLimits
  <2> QED
    BY <2>1, <2>2 DEF PackedAsConfigured, WithinLimits, Allowed
<1> QED
  BY <1>1, DelInvHolds, PTL

(* What was downloaded whole after the visitor had seen the code opens.      *)
THEOREM OpensWhenTold == Spec => []ToldOpens
<1>1. DelInv => ToldOpens
  BY DEF DelInv
<1> QED
  BY <1>1, DelInvHolds, PTL

(* The viewer extracts a whole archive or nothing, and what it reports done  *)
(* lies in the output directory.                                             *)
THEOREM ExtractsWhole == Spec => []WholeOrNothing
<1>1. DelInv => WholeOrNothing
  <2> SUFFICES ASSUME DelInv PROVE WholeOrNothing
    OBVIOUS
  <2>1. Shapes /\ Frozen /\ Unpacked /\ Len(atts) \in Nat /\ viewer.k \in Nat
    <3>1. Shapes
      BY DEF DelInv
    <3> QED
      BY <3>1, LenProperties DEF DelInv, Shapes
  <2>2. ASSUME viewer.at = "ok", NEW k \in 0 .. Len(atts)
        PROVE  [name |-> EntryName(k), data |-> k] \in out
    BY <2>1, <2>2 DEF Unpacked
  <2>3. viewer.at = "ok" => Archive \subseteq out
    BY <2>2 DEF Archive
  <2> QED
    BY <2>1, <2>3 DEF WholeOrNothing, Frozen
<1> QED
  BY <1>1, DelInvHolds, PTL

-----------------------------------------------------------------------------
(* Types.                                                                  *)

(* A step that takes no file leaves the bounds of the chunks alone.          *)
LEMMA TypedStep ==
  ASSUME Typed, UNCHANGED <<conf, total, atts>>,
         phase' \in {"form", "files", "pack", "write", "told", "refused", "failed", "cut"},
         left' \in 0..MaxFiles, row' \in BOOLEAN, read' \in BOOLEAN,
         blob' \in NoBlob..Whole, blob' # NoBlob => row', phase' = "write" => row',
         got' \in [chunks: NoBlob..Whole, all: BOOLEAN, told: BOOLEAN],
         viewer' \in [at: {"idle", "next", "copy", "ok", "bad", "failed"}, k: 0..(Len(atts) + 1)],
         viewer'.at = "copy" => viewer'.k <= Len(atts),
         \A f \in out', g \in out' : f.name = g.name => f = g
  PROVE  Typed'
<1>1. Whole' = Whole
  BY SameArchive
<1>2. Len(atts') = Len(atts)
  OBVIOUS
<1>3. TypeOK'
  BY <1>1, <1>2 DEF Typed, TypeOK
<1> QED
  BY <1>2, <1>3 DEF Typed

(* Taking a file lengthens the archive, of which there is no blob yet.       *)
LEMMA TypedTake ==
  ASSUME DelInv, Typed, NEW u \in Upload, Take(u)
  PROVE  Typed'
<1>1. /\ phase = "files" /\ UNCHANGED <<conf, row, blob, read, got, viewer, out>>
      /\ total' = total + u.size /\ left' = left - 1
      /\ phase' = IF left = 1 THEN "pack" ELSE "files"
  BY DEF Take, offline
<1>2. /\ Shapes /\ WithinLimits /\ Frozen /\ TypeOK /\ 1 <= left
      /\ blob = NoBlob /\ got.chunks = NoBlob /\ viewer.at = "idle"
  BY <1>1 DEF DelInv, WithinLimits, Frozen, Typed
<1>3. total' \in Nat /\ left' \in 0..MaxFiles
  <2>1. u.size \in Nat /\ total \in Nat /\ left \in 0..MaxFiles /\ MaxFiles \in Nat
    BY <1>2, DeliveryAssumption DEF Shapes, TypeOK, Upload
  <2> QED
    BY <1>1, <1>2, <2>1
<1>4. PICK a \in Att : atts' = Append(atts, a)
  BY <1>2, TakenAllowed
<1>5. PICK n \in Nat : n = Len(atts) /\ Len(atts') = n + 1 /\ atts' \in Seq(Att)
  BY <1>2, <1>4, LenProperties, AppendProperties DEF Shapes
<1>6. Whole' \in Nat
  <2>1. (atts \in Seq(Att) => Whole \in Nat)'
    BY WholeNat, PTL
  <2> QED
    BY <1>5, <2>1
<1>7. NoBlob \in NoBlob..Whole'
  BY <1>6 DEF NoBlob
<1>8. got' \in [chunks: NoBlob..Whole', all: BOOLEAN, told: BOOLEAN]
  <2>1. got \in [chunks: NoBlob..Whole, all: BOOLEAN, told: BOOLEAN]
    BY <1>2 DEF TypeOK
  <2>2. got = [chunks |-> NoBlob, all |-> got.all, told |-> got.told]
        /\ got.all \in BOOLEAN /\ got.told \in BOOLEAN
    BY <1>2, <2>1
  <2> QED
    BY <1>1, <1>7, <2>2
<1>9. viewer' \in [at: {"idle", "next", "copy", "ok", "bad", "failed"}, k: 0..(Len(atts') + 1)]
  <2>1. viewer \in [at: {"idle", "next", "copy", "ok", "bad", "failed"}, k: 0..(n + 1)]
    BY <1>2, <1>5 DEF TypeOK
  <2> QED
    BY <1>1, <1>5, <2>1
<1>10. /\ conf' \in Conf /\ row' \in BOOLEAN /\ read' \in BOOLEAN
       /\ phase' \in {"form", "files", "pack", "write", "told", "refused", "failed", "cut"}
       /\ \A f \in out', g \in out' : f.name = g.name => f = g
  BY <1>1, <1>2 DEF TypeOK
<1>11. blob' \in NoBlob..Whole' /\ blob' = NoBlob
  BY <1>1, <1>2, <1>7
<1>12. TypeOK'
  BY <1>3, <1>5, <1>8, <1>9, <1>10, <1>11 DEF TypeOK
<1> QED
  BY <1>1, <1>2, <1>12 DEF Typed

(* What is known of the state before a step that takes no file.              *)
LEMMA TypedNow ==
  ASSUME DelInv, Typed
  PROVE  /\ phase \in {"form", "files", "pack", "write", "told", "refused", "failed", "cut"}
         /\ left \in 0..MaxFiles /\ MaxFiles \in Nat
         /\ row \in BOOLEAN /\ read \in BOOLEAN
         /\ blob \in NoBlob..Whole /\ (blob # NoBlob => row)
         /\ got \in [chunks: NoBlob..Whole, all: BOOLEAN, told: BOOLEAN]
         /\ viewer \in [at: {"idle", "next", "copy", "ok", "bad", "failed"}, k: 0..(Len(atts) + 1)]
         /\ viewer.at = "copy" => viewer.k <= Len(atts)
         /\ phase = "write" => row
         /\ \A f \in out, g \in out : f.name = g.name => f = g
         /\ Whole \in Nat /\ Len(atts) \in Nat
<1>1. Whole \in Nat /\ Len(atts) \in Nat
  BY WholeNat, LenProperties DEF Typed, TypeOK
<1> QED
  BY <1>1, DeliveryAssumption DEF Typed, TypeOK

LEMMA TypedSubmit ==
  ASSUME DelInv, Typed, Submit
  PROVE  Typed'
<1>1. ASSUME UNCHANGED <<conf, total, atts, row, blob, read, got, offline>>,
             left' \in 0..MaxFiles,
             phase' \in {"form", "files", "pack", "told", "refused", "failed", "cut"}
      PROVE  Typed'
  BY <1>1, TypedNow, TypedStep DEF offline
<1>3. CASE FieldsRefused
  BY <1>1, <1>3, TypedNow DEF FieldsRefused
<1>4. ASSUME NEW n \in 0..(MaxFiles + 1), FieldsTaken(n) PROVE Typed'
  <2>1. MaxFiles \in Nat
    BY DeliveryAssumption
  <2>2. left' \in 0..MaxFiles /\ phase' \in {"files", "pack", "refused"}
    BY <1>4, <2>1 DEF FieldsTaken
  <2> QED
    BY <1>1, <1>4, <2>2 DEF FieldsTaken
<1>5. ASSUME NEW u \in Upload, Refuse(u) PROVE Typed'
  BY <1>1, <1>5, TypedNow DEF Refuse
<1>6. CASE PackAndInsert
  <2>1. 0 \in NoBlob..Whole
    BY TypedNow DEF NoBlob
  <2> QED
    BY <1>6, <2>1, TypedNow, TypedStep DEF PackAndInsert, offline
<1>7. CASE PackFails
  BY <1>1, <1>7, TypedNow DEF PackFails
<1>8. CASE WriteChunk
  <2>1. blob + 1 \in NoBlob..Whole
    BY <1>8, TypedNow DEF WriteChunk, NoBlob
  <2> QED
    BY <1>8, <2>1, TypedNow, TypedStep DEF WriteChunk, intake, offline
<1>9. CASE WriteFails
  <2>1. NoBlob \in NoBlob..Whole
    BY TypedNow DEF NoBlob
  <2> QED
    BY <1>9, <2>1, TypedNow, TypedStep DEF WriteFails, offline
<1>10. CASE Tell
  BY <1>1, <1>10, TypedNow DEF Tell
<1>11. CASE Killed
  BY <1>1, <1>11, TypedNow DEF Killed
<1> QED
  BY <1>3, <1>4, <1>5, <1>6, <1>7, <1>8, <1>9, <1>10, <1>11, TypedTake DEF Submit

(* The file of an entry takes the place of one of its name.                  *)
LEMMA PutUnique ==
  ASSUME NEW data, Put(data), \A f \in out, g \in out : f.name = g.name => f = g
  PROVE  \A f \in out', g \in out' : f.name = g.name => f = g
<1>1. PICK e : e = [name |-> EntryName(viewer.k), data |-> data]
  OBVIOUS
<1>2. e.name = EntryName(viewer.k)
  BY <1>1
<1>3. out' = {f \in out : f.name # e.name} \cup {e}
  BY <1>1, <1>2 DEF Put
<1> QED
  BY <1>3

LEMMA TypedDownload ==
  ASSUME DelInv, Typed, NEW n, Download(n)
  PROVE  Typed'
<1>1. PICK b \in NoBlob..Whole : b = blob /\ n \in 0..b
  BY TypedNow DEF Download
<1>2. n \in NoBlob..Whole
  BY <1>1, TypedNow DEF NoBlob
<1>3. got' \in [chunks: NoBlob..Whole, all: BOOLEAN, told: BOOLEAN]
  BY <1>2 DEF Download
<1>4. /\ viewer' \in [at: {"idle", "next", "copy", "ok", "bad", "failed"}, k: 0..(Len(atts) + 1)]
      /\ viewer'.at = "idle"
  <2>1. 0 \in 0..(Len(atts) + 1)
    BY TypedNow
  <2> QED
    BY <2>1 DEF Download
<1> QED
  BY <1>3, <1>4, TypedNow, TypedStep DEF Download, intake

LEMMA TypedView ==
  ASSUME DelInv, Typed, View
  PROVE  Typed'
<1>1. ASSUME UNCHANGED <<intake, row, blob, read, got>>,
             viewer' \in [at: {"idle", "next", "copy", "ok", "bad", "failed"}, k: 0..(Len(atts) + 1)],
             viewer'.at = "copy" => viewer'.k <= Len(atts),
             out' = out \/ \E data : Put(data)
      PROVE  Typed'
  <2>1. \A f \in out', g \in out' : f.name = g.name => f = g
    BY <1>1, TypedNow, PutUnique
  <2> QED
    BY <1>1, <2>1, TypedNow, TypedStep DEF intake
<1>2. PICK l \in Nat, k \in Nat : l = Len(atts) /\ k = viewer.k /\ k <= l + 1
  BY TypedNow
<1>3. viewer \in [at: {"idle", "next", "copy", "ok", "bad", "failed"}, k: 0..(l + 1)]
  BY <1>2, TypedNow
<1>4. CASE Decrypt
  <2>1. /\ viewer' \in [at: {"next", "bad"}, k: {0}]
        /\ UNCHANGED <<intake, row, blob, read, got, out>>
    BY <1>4 DEF Decrypt
  <2> QED
    BY <1>1, <1>2, <2>1
<1>5. CASE OpenEntry
  <2>1. /\ viewer' = [viewer EXCEPT !.at = "copy"] /\ k <= l
        /\ UNCHANGED <<intake, row, blob, read, got>> /\ Put(Partial)
    BY <1>2, <1>5 DEF OpenEntry
  <2> QED
    BY <1>1, <1>2, <1>3, <2>1
<1>6. CASE CopyEntry
  <2>1. /\ viewer' = [at |-> "next", k |-> k + 1] /\ k <= l
        /\ UNCHANGED <<intake, row, blob, read, got>> /\ \E data : Put(data)
    BY <1>2, <1>6, TypedNow DEF CopyEntry
  <2> QED
    BY <1>1, <1>2, <2>1
<1>7. CASE ArchiveEnds
  <2>1. /\ viewer' = [viewer EXCEPT !.at = "ok"]
        /\ UNCHANGED <<intake, row, blob, read, got, out>>
    BY <1>7 DEF ArchiveEnds
  <2> QED
    BY <1>1, <1>2, <1>3, <2>1
<1>8. CASE ViewerFails
  <2>1. /\ viewer' = [viewer EXCEPT !.at = "failed"]
        /\ UNCHANGED <<intake, row, blob, read, got, out>>
    BY <1>8 DEF ViewerFails
  <2> QED
    BY <1>1, <1>2, <1>3, <2>1
<1> QED
  BY <1>4, <1>5, <1>6, <1>7, <1>8 DEF View

LEMMA TypedInit == Init => Typed
<1> SUFFICES ASSUME Init PROVE Typed
  OBVIOUS
<1>1. /\ atts = <<>> /\ Len(atts) = 0 /\ blob = NoBlob /\ viewer = [at |-> "idle", k |-> 0]
      /\ got = [chunks |-> NoBlob, all |-> FALSE, told |-> FALSE]
  BY DEF Init
<1>2. atts \in Seq(Att)
  <2>1. <<>> \in Seq(Att)
    OBVIOUS
  <2> QED
    BY <1>1, <2>1
<1>3. NoBlob \in NoBlob..Whole
  <2>1. Whole \in Nat
    BY <1>2, WholeNat
  <2> QED
    BY <2>1 DEF NoBlob
<1>4. got \in [chunks: NoBlob..Whole, all: BOOLEAN, told: BOOLEAN]
  BY <1>1, <1>3
<1>5. /\ viewer \in [at: {"idle", "next", "copy", "ok", "bad", "failed"}, k: 0..(Len(atts) + 1)]
      /\ viewer.at = "idle"
  BY <1>1
<1>6. \A f \in out, g \in out : f.name = g.name => f = g
  <2>1. Meta # <<1, "file", "image/png">>
    BY DEF Meta
  <2>2. PICK m : m = Meta
    OBVIOUS
  <2>3. PICK p : p = <<1, "file", "image/png">>
    OBVIOUS
  <2>4. out \in {{}, {[name |-> m, data |-> Stale], [name |-> p, data |-> Stale]}}
    BY <2>2, <2>3 DEF Init
  <2>5. m # p
    BY <2>1, <2>2, <2>3
  <2> QED
    BY <2>4, <2>5
<1>7. /\ conf \in Conf /\ phase = "form" /\ left \in 0..MaxFiles /\ total \in Nat
      /\ row \in BOOLEAN /\ read \in BOOLEAN
  <2>1. 0 \in 0..MaxFiles
    BY DeliveryAssumption
  <2>2. /\ conf \in Conf /\ phase = "form" /\ left = 0 /\ total = 0
        /\ row = FALSE /\ read = FALSE
    BY DEF Init
  <2> QED
    BY <2>1, <2>2
<1>8. TypeOK
  BY <1>1, <1>2, <1>3, <1>4, <1>5, <1>6, <1>7 DEF TypeOK
<1> QED
  BY <1>5, <1>7, <1>8 DEF Typed

LEMMA TypedNext == DelInv /\ Typed /\ [Next]_vars => Typed'
<1> SUFFICES ASSUME DelInv, Typed, [Next]_vars PROVE Typed'
  OBVIOUS
<1>1. CASE UNCHANGED vars
  BY <1>1, TypedNow, TypedStep DEF vars, intake, offline
<1> QED
  BY <1>1, TypedSubmit, TypedView, TypedDownload DEF Next

(* The blob never grows past what the archive seals to, nor does a download, *)
(* a blob on the disk has its row, the viewer is never past the end of the   *)
(* archive by more than one entry, and no two files of the output directory  *)
(* have one name.                                                            *)
THEOREM TypeCorrect == Spec => []TypeOK
<1>1. Spec => []Typed
  BY TypedInit, TypedNext, DelInvHolds, PTL DEF Spec
<1>2. Typed => TypeOK
  BY DEF Typed
<1> QED
  BY <1>1, <1>2, PTL
=============================================================================
