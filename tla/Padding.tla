------------------------------ MODULE Padding ------------------------------
(***************************************************************************)
(* What the server does to lengths, so that they say little: pages are     *)
(* padded to blocks of 4 KiB (padding.go), archives to blocks of 64 KiB    *)
(* before they are sealed (tarpack.go), and the inbox shows sizes in four  *)
(* buckets.  All lengths are bytes; none comes near 2^63.                  *)
(***************************************************************************)
EXTENDS Integers

Block   == 4096         \* blockSize of padding.go
Wrapper == 14           \* "\n<!-- pad:" and " -->"
Chunk   == 65536        \* blockSize of PackSubmission; also age's chunk
Record  == 512          \* what archive/tar rounds up to

\* The bytes neededPad wants appended to a page of n bytes.
NeededPad(n) ==
    LET r == n % Block
        p == Block - r
    IN  IF r = 0 THEN 0 ELSE IF p < Wrapper THEN p + Block ELSE p

\* Flush: the count strings.Repeat is called with, and the length sent.
Filler(n)  == NeededPad(n) - Wrapper
PageLen(n) == n + (IF NeededPad(n) > 0 THEN Filler(n) + Wrapper ELSE 0)

\* rem of PackSubmission, a whole block if the archive fills its last one,
\* and the byte it is filled with.
Rem(n)       == Chunk - (n % Chunk)
PadByte(n)   == Rem(n) % 256
PackedLen(n) == n + Rem(n)

\* archive/tar: a header and rounded data per file, two empty records.
EntryLen(d) == Record + ((d + Record - 1) \div Record) * Record
Trailer     == 2 * Record

\* EncryptToReceiver: envelope, age's header and nonce, 16 bytes more a chunk.
Overhead     == 8 + 184
Chunks(n)    == PackedLen(n) \div Chunk
SealedLen(n) == Overhead + PackedLen(n) + 16 * Chunks(n)

\* SizeBucket, the labels in their order.
SizeBucket(n) == IF n < 100 * 1024 THEN 1
                 ELSE IF n < 1024 * 1024 THEN 2
                 ELSE IF n < 10 * 1024 * 1024 THEN 3 ELSE 4
=============================================================================
