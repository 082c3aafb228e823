------------------------------ MODULE Delivery ------------------------------
(***************************************************************************)
(* The way of one submission from the form to the receiver's offline       *)
(* machine: the second half of processSubmit and PackSubmission, the blob  *)
(* while it is written, handleAdminDownload, and the viewer's decrypt and  *)
(* extractTar.  The receiver's inbox lists a case as soon as its row is    *)
(* there, which is before its blob is.                                     *)
(*                                                                         *)
(* What a file contains is its number: 0 for meta.json, k for the k-th     *)
(* attachment.  A sealed blob is counted in age's chunks; age opens it     *)
(* only if the last one is there.                                          *)
(***************************************************************************)
EXTENDS Padding, Sequences

CONSTANTS
    Names,     \* the file names visitors may send
    Odd,       \* those of which safeFilename keeps nothing
    Sizes,     \* the sizes they may have
    Encoded,   \* the sizes an image may have once it is encoded again
    MaxFiles, MaxSize, MaxTotal,  \* config.Attachments
    MetaLen    \* the length of meta.json

ASSUME DeliveryAssumption ==
    /\ Odd \subseteq Names
    /\ Sizes \subseteq Nat /\ Encoded \subseteq Nat
    /\ MaxFiles \in Nat /\ MaxSize \in Nat /\ MaxTotal \in Nat /\ MetaLen \in Nat

VARIABLES
    conf,    \* the switches of config.Attachments
    phase,   \* how far the submission has got
    left,    \* the files of the form not yet looked at
    total,   \* totalSize
    atts,    \* the attachments taken
    row,     \* the case has its row
    blob,    \* the chunks in the case's blob; NoBlob: there is no file
    read,    \* read_flag
    got,     \* what the receiver downloaded last
    viewer,  \* the viewer: where it is, and the next entry of the archive
    out      \* the output directory

intake  == <<conf, phase, left, total, atts>>
offline == <<viewer, out>>
vars    == <<intake, row, blob, read, got, offline>>

\* safeMIMEs; image/gif goes the way of image/png.
Safe    == {"image/jpeg", "image/png", "image/webp", "text/plain"}
Sniffed == Safe \cup {"text/html"}
Images  == {"image/jpeg", "image/png", "image/webp"}
Conf    == [enabled: BOOLEAN, strip: BOOLEAN, allowed: {{}, {"image/webp", "text/plain"}}]

\* A file of the form: what http.DetectContentType makes of it, and whether
\* it also passes looksLikeText, or the decoder of its kind.
Upload == [name: Names, mime: Sniffed, size: Sizes, sound: BOOLEAN]
Att    == [was: Upload, mime: Safe, size: Sizes \cup Encoded, stripped: BOOLEAN]

NoBlob  == -1
Partial == -1   \* a file the viewer has not finished
Stale   == -2   \* a file that lay in the directory before

-----------------------------------------------------------------------------
(* Packing.                                                                *)

\* VerifyAttachment
Verified(u) == /\ u.mime \in Safe
               /\ conf.allowed = {} \/ u.mime \in conf.allowed
               /\ u.mime = "text/plain" => u.sound

Strips(u) == conf.strip /\ u.mime \in Images

\* StripImageMetadata: there is no encoder for WEBP.
Reencoded(u) == {[was |-> u, size |-> s, stripped |-> TRUE,
                  mime |-> IF u.mime = "image/webp" THEN "image/png" ELSE u.mime] : s \in Encoded}
AsSent(u)    == [was |-> u, size |-> u.size, stripped |-> FALSE, mime |-> u.mime]

\* safeFilename
Stem(name) == IF name \in Odd THEN "file" ELSE name

Meta == <<0, "meta", "json">>

\* The name of an attachment without its index.
BugEntry(k) == <<1, Stem(atts[k].was.name), atts[k].mime>>
\* "%03d-" and the safe name.
Entry(k)    == <<k, Stem(atts[k].was.name), atts[k].mime>>

EntryName(k) == IF k = 0 THEN Meta ELSE Entry(k)
Archive      == {[name |-> EntryName(k), data |-> k] : k \in 0..Len(atts)}

\* The bytes of an archive, and the chunks of it once it is sealed.
ArchiveLen(as) ==
    LET upTo[k \in 0..Len(as)] == IF k = 0 THEN EntryLen(MetaLen)
                                  ELSE upTo[k - 1] + EntryLen(as[k].size)
    IN  upTo[Len(as)] + Trailer
Whole          == Chunks(ArchiveLen(atts))

-----------------------------------------------------------------------------
Init == /\ conf \in Conf /\ phase = "form" /\ left = 0 /\ total = 0 /\ atts = <<>>
        /\ row = FALSE /\ blob = NoBlob /\ read = FALSE
        /\ got = [chunks |-> NoBlob, all |-> FALSE, told |-> FALSE]
        /\ viewer = [at |-> "idle", k |-> 0]
        /\ out \in {{}, {[name |-> Meta, data |-> Stale],
                         [name |-> <<1, "file", "image/png">>, data |-> Stale]}}

\* A required field is missing, or a field is too long.
FieldsRefused == /\ phase = "form"
                 /\ phase' = "refused"
                 /\ UNCHANGED <<conf, left, total, atts, row, blob, read, got, offline>>

\* n files come with the form.
FieldsTaken(n) ==
    /\ phase = "form"
    /\ IF ~conf.enabled \/ n = 0 THEN phase' = "pack" /\ left' = 0
       ELSE IF n > MaxFiles THEN phase' = "refused" /\ left' = 0
       ELSE phase' = "files" /\ left' = n
    /\ UNCHANGED <<conf, total, atts, row, blob, read, got, offline>>

\* The total is compared before the file is added to it.
BugFits(u) == u.size <= MaxSize /\ total <= MaxTotal
Fits(u)    == u.size <= MaxSize /\ total + u.size <= MaxTotal

Take(u) ==
    /\ phase = "files"
    /\ Fits(u) /\ Verified(u)
    /\ IF Strips(u) THEN u.sound /\ \E a \in Reencoded(u) : atts' = Append(atts, a)
                    ELSE atts' = Append(atts, AsSent(u))
    /\ total' = total + u.size /\ left' = left - 1
    /\ phase' = IF left = 1 THEN "pack" ELSE "files"
    /\ UNCHANGED <<conf, row, blob, read, got, offline>>

Refuse(u) ==
    /\ phase = "files"
    /\ ~Fits(u) \/ ~Verified(u) \/ (Strips(u) /\ ~u.sound)
    /\ phase' = "refused"
    /\ UNCHANGED <<conf, left, total, atts, row, blob, read, got, offline>>

\* PackSubmission, EncryptToReceiver, and CreateCase up to the open file.
PackAndInsert == /\ phase = "pack"
                 /\ phase' = "write" /\ row' = TRUE /\ blob' = 0
                 /\ UNCHANGED <<conf, left, total, atts, read, got, offline>>

PackFails == /\ phase = "pack"
             /\ phase' = "failed"
             /\ UNCHANGED <<conf, left, total, atts, row, blob, read, got, offline>>

WriteChunk == /\ phase = "write" /\ blob < Whole
              /\ blob' = blob + 1
              /\ UNCHANGED <<intake, row, read, got, offline>>

\* The row goes, the directory stays.
BugWriteFails == /\ phase = "write"
                 /\ phase' = "failed" /\ row' = FALSE /\ UNCHANGED blob
                 /\ UNCHANGED <<conf, left, total, atts, read, got, offline>>

\* CreateCase removes the directory and the row.
WriteFails == /\ phase = "write"
              /\ phase' = "failed" /\ row' = FALSE /\ blob' = NoBlob
              /\ UNCHANGED <<conf, left, total, atts, read, got, offline>>

\* The visitor is told before the blob is written.
BugTell == /\ phase = "write"
           /\ phase' = "told" /\ UNCHANGED <<conf, left, total, atts>>
           /\ UNCHANGED <<row, blob, read, got, offline>>

\* CreateCase returns, and the visitor sees the code.
Tell == /\ phase = "write" /\ blob = Whole
        /\ phase' = "told" /\ UNCHANGED <<conf, left, total, atts>>
        /\ UNCHANGED <<row, blob, read, got, offline>>

\* The server is killed: what has been written stays, with its row.
Killed == /\ phase \in {"form", "files", "pack", "write"}
          /\ phase' = "cut" /\ UNCHANGED <<conf, left, total, atts>>
          /\ UNCHANGED <<row, blob, read, got, offline>>

-----------------------------------------------------------------------------
\* handleAdminDownload: ReadBlob, MarkRead, and the answer, of which the
\* connection may lose the end.
Download(n) ==
    /\ blob # NoBlob /\ n \in 0..blob
    /\ read' = TRUE
    /\ got' = [chunks |-> n, all |-> n = blob, told |-> phase = "told"]
    /\ viewer' = [at |-> "idle", k |-> 0]
    /\ UNCHANGED <<intake, row, blob, out>>

\* What age has opened is extracted while it goes on reading.
BugDecrypt ==
    /\ viewer.at \in {"idle", "failed"} /\ got.chunks # NoBlob
    /\ viewer' = [at |-> IF got.chunks > 0 THEN "next" ELSE "bad", k |-> 0]
    /\ UNCHANGED <<intake, row, blob, read, got, out>>

\* decrypt: unwrapEnvelope, age.Decrypt, and all of the archive read.
Decrypt ==
    /\ viewer.at \in {"idle", "failed"} /\ got.chunks # NoBlob
    /\ viewer' = [at |-> IF got.chunks = Whole THEN "next" ELSE "bad", k |-> 0]
    /\ UNCHANGED <<intake, row, blob, read, got, out>>

Put(data) == out' = {f \in out : f.name # EntryName(viewer.k)}
                        \cup {[name |-> EntryName(viewer.k), data |-> data]}

\* extractTar opens, and so truncates, the file of an entry.
OpenEntry == /\ viewer.at = "next" /\ viewer.k <= Len(atts)
             /\ Put(Partial)
             /\ viewer' = [viewer EXCEPT !.at = "copy"]
             /\ UNCHANGED <<intake, row, blob, read, got>>

CopyEntry == /\ viewer.at = "copy"
             /\ Put(viewer.k)
             /\ viewer' = [at |-> "next", k |-> viewer.k + 1]
             /\ UNCHANGED <<intake, row, blob, read, got>>

ArchiveEnds == /\ viewer.at = "next" /\ viewer.k > Len(atts)
               /\ viewer' = [viewer EXCEPT !.at = "ok"]
               /\ UNCHANGED <<intake, row, blob, read, got, out>>

\* A full disk, or the viewer is killed.
ViewerFails == /\ viewer.at \in {"next", "copy"}
               /\ viewer' = [viewer EXCEPT !.at = "failed"]
               /\ UNCHANGED <<intake, row, blob, read, got, out>>

Submit == \/ FieldsRefused \/ \E n \in 0..(MaxFiles + 1) : FieldsTaken(n)
          \/ \E u \in Upload : Take(u) \/ Refuse(u)
          \/ PackAndInsert \/ PackFails \/ WriteChunk \/ WriteFails \/ Tell \/ Killed
View   == Decrypt \/ OpenEntry \/ CopyEntry \/ ArchiveEnds \/ ViewerFails

Next == Submit \/ View \/ \E n \in 0..Whole : Download(n)

Spec == Init /\ [][Next]_vars

-----------------------------------------------------------------------------
(* What the module promises.                                               *)

TypeOK ==
    /\ conf \in Conf
    /\ phase \in {"form", "files", "pack", "write", "told", "refused", "failed", "cut"}
    /\ left \in 0..MaxFiles /\ total \in Nat
    /\ atts \in Seq(Att)
    /\ row \in BOOLEAN /\ read \in BOOLEAN
    /\ blob \in NoBlob..Whole /\ (blob # NoBlob => row)
    /\ got \in [chunks: NoBlob..Whole, all: BOOLEAN, told: BOOLEAN]
    /\ viewer \in [at: {"idle", "next", "copy", "ok", "bad", "failed"}, k: 0..(Len(atts) + 1)]
    /\ \A f \in out, g \in out : f.name = g.name => f = g

\* What is packed is what the configuration lets in: counted, sized and
\* sniffed as it came, and no image with its metadata if they are to go.
PackedAsConfigured ==
    /\ Len(atts) <= (IF conf.enabled THEN MaxFiles ELSE 0)
    /\ total <= MaxTotal
    /\ \A k \in DOMAIN atts :
          /\ atts[k].was.size <= MaxSize /\ atts[k].was.mime \in Safe
          /\ conf.allowed # {} => atts[k].was.mime \in conf.allowed
          /\ conf.strip /\ atts[k].mime \in Images => atts[k].stripped

\* A download that begins after the visitor has seen the code, and that the
\* network does not cut, opens.
ToldOpens == got.told /\ got.all => viewer.at # "bad"

\* Nothing comes out of a blob that was caught half written or lost its end;
\* and when the viewer says it is done, every file of the case lies in the
\* output directory with its own content, two of one name included, whatever
\* lay there before and however often the viewer failed.
WholeOrNothing ==
    /\ viewer.at \in {"next", "copy", "ok"} => got.chunks = Whole
    /\ viewer.at = "ok" => Archive \subseteq out
=============================================================================
