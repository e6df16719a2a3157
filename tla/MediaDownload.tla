--------------------------- MODULE MediaDownload ---------------------------
(***************************************************************************)
(* Downloads of media: downloadEncryptedContent of lib/messages-media.js   *)
(* under downloadMediaMessage.  The file at the server is the plain file   *)
(* filled up to whole blocks, encrypted in CBC mode, and a MAC that is not *)
(* looked at.  A caller may want the bytes from startByte up to endByte;   *)
(* zero and absent are the same to the code.  The body comes in pieces of  *)
(* any size.  What is handed on is known by the positions of its bytes in  *)
(* the filled up file.                                                     *)
(***************************************************************************)
EXTENDS Integers, Sequences, FiniteSetsExt

CONSTANTS Block,      \* AES_CHUNK_SIZE: 16
          MacBytes,   \* 10, less than a block
          FileBytes,  \* the sizes of the files
          LastByte    \* bound: what startByte and endByte may be

ASSUME MediaAssumption ==
    Block \in Nat \ {0} /\ MacBytes \in 0 .. Block - 1 /\ FileBytes \subseteq Nat /\ LastByte \in Nat

VARIABLES file,          \* the size of the file
          startByte, endByte,
          body,          \* the bytes of the answer that have not come yet
          remaining,     \* remainingBytes: what is less than a block
          next,          \* the block that is decrypted next
          withheld,      \* decrypted blocks the cipher withholds for their padding
          aes,           \* whether the cipher was made
          bytesFetched,
          pushed,        \* what was handed on
          transfer       \* where the download is

downloadVars == <<file, startByte, endByte, body, remaining, next, withheld, aes, bytesFetched, pushed, transfer>>

SmallestChunk(n) == (n \div Block) * Block

\* The encrypted file; the padding is at least one byte.
Encrypted == SmallestChunk(file) + Block

\* With an offset of a block or more, the block before it is fetched as the IV.
FirstBlockIsIV == startByte >= Block
StartChunk == IF FirstBlockIsIV THEN SmallestChunk(startByte) - Block ELSE 0
EndChunk == SmallestChunk(endByte) + Block

\* The Range header, whose last byte is part of it.
BodyBytes ==
    LET all == Encrypted + MacBytes
        last == IF endByte > 0 /\ EndChunk < all THEN EndChunk + 1 ELSE all
    IN IF StartChunk < last THEN last - StartChunk ELSE 0

DownloadInit ==
    /\ file = 0 /\ startByte = 0 /\ endByte = 0
    /\ body = 0 /\ remaining = 0 /\ withheld = 0 /\ bytesFetched = 0 /\ next = 0
    /\ aes = FALSE /\ pushed = <<>> /\ transfer = "none"

\* The range, in order, is that of the caller.
DownloadStarts(f, from, to) ==
    /\ transfer = "none"
    /\ file' = f /\ startByte' = from /\ endByte' = to
    /\ transfer' = "asked"
    /\ UNCHANGED <<body, remaining, next, withheld, aes, bytesFetched, pushed>>

\* getHttpStream: an answer other than 2xx rejects with an error that has no
\* statusCode, so downloadMediaMessage never asks for the media to be uploaded
\* again (and reuploadRequest gives the message back as it is).
Respond(ok) ==
    /\ transfer = "asked"
    /\ IF ok /\ BodyBytes > 0
       THEN /\ transfer' = "open"
            /\ body' = BodyBytes
            /\ bytesFetched' = IF FirstBlockIsIV THEN SmallestChunk(startByte) ELSE 0
            /\ next' = StartChunk \div Block
       ELSE /\ transfer' = "failed"
            /\ UNCHANGED <<body, bytesFetched, next>>
    /\ UNCHANGED <<file, startByte, endByte, remaining, withheld, aes, pushed>>

\* Buffer.slice(start, end) with what Math.max makes of an absent endByte: NaN,
\* which counts as 0.
Sliced(bytes, from, to) == SubSeq(bytes, from + 1, IF to < Len(bytes) THEN to ELSE Len(bytes))

\* Plausible bug: the end is counted from the first byte of the answer.
Pushed_EndFromStart(bytes) ==
    IF startByte = 0 /\ endByte = 0 THEN bytes
    ELSE LET from == IF bytesFetched >= startByte THEN 0 ELSE startByte - bytesFetched
         IN Sliced(bytes, from, IF bytesFetched + Len(bytes) < endByte THEN Len(bytes) ELSE endByte)

\* pushBytes.
Pushed(bytes) ==
    IF startByte = 0 /\ endByte = 0 THEN bytes
    ELSE LET from == IF bytesFetched >= startByte THEN 0 ELSE startByte - bytesFetched
             to == IF bytesFetched + Len(bytes) < endByte THEN Len(bytes) ELSE Max({endByte - bytesFetched, 0})
         IN Sliced(bytes, from, IF endByte = 0 THEN 0 ELSE to)

Push(bytes) ==
    /\ pushed' = pushed \o Pushed(bytes)
    /\ bytesFetched' = bytesFetched + Len(bytes)

\* The bytes of n blocks, from one on.
Blocks(first, n) == [i \in 1 .. n * Block |-> first * Block + i - 1]

\* transform: whole blocks are decrypted; the cipher withholds the last one it
\* has, unless the padding is off because the end is not wanted.
Piece(n) ==
    /\ transfer = "open" /\ n \in 1 .. body
    /\ body' = body - n
    /\ LET data == remaining + n
           whole == data \div Block
           iv == IF FirstBlockIsIV /\ ~aes THEN 1 ELSE 0
           kept == IF endByte = 0 /\ withheld + whole - iv > 0 THEN 1 ELSE 0
       IN IF iv > whole
          THEN \* createDecipheriv throws for an IV that is too short
               /\ transfer' = "threw"
               /\ UNCHANGED <<remaining, next, withheld, aes, bytesFetched, pushed>>
          ELSE /\ remaining' = data - whole * Block
               /\ aes' = TRUE
               /\ next' = next + whole
               /\ withheld' = kept
               /\ Push(Blocks(next + iv - withheld, withheld + whole - iv - kept))
               /\ UNCHANGED transfer
    /\ UNCHANGED <<file, startByte, endByte>>

\* final: the withheld block is the last one of the file, and gives what is
\* not padding; without one, the cipher throws.
Finish ==
    /\ transfer = "open" /\ body = 0
    /\ IF endByte = 0 /\ withheld = 0
       THEN transfer' = "failed" /\ UNCHANGED <<bytesFetched, pushed>>
       ELSE /\ transfer' = "done"
            /\ Push(SubSeq(Blocks(next - withheld, withheld), 1, withheld * (file % Block)))
    /\ UNCHANGED <<file, startByte, endByte, body, remaining, next, withheld, aes>>

\* The connection breaks: nobody tells the reader (pipe hands on no error).
Breaks ==
    /\ transfer = "open" /\ body > 0
    /\ transfer' = "stuck"
    /\ UNCHANGED <<file, startByte, endByte, body, remaining, next, withheld, aes, bytesFetched, pushed>>

DownloadNext ==
    \/ \E f \in FileBytes, from \in 0 .. LastByte : \E to \in {0} \cup from .. LastByte : DownloadStarts(f, from, to)
    \/ \E ok \in BOOLEAN : Respond(ok)
    \/ \E n \in 1 .. body : Piece(n)
    \/ Finish \/ Breaks

DownloadSpec == DownloadInit /\ [][DownloadNext]_downloadVars
-----------------------------------------------------------------------------
Positions(from, to) == [i \in 1 .. Max({to - from, 0}) |-> from + i - 1]

\* Whatever the pieces the body comes in, what a reader has got is a beginning of
\* the bytes it asked for, and all of them once the download is done: of the
\* whole file or from startByte up to endByte, with some of the padding behind
\* the end of the file; but nothing when only startByte is given.
RangeExact ==
    LET wanted == IF endByte > 0 THEN Positions(startByte, IF endByte < Encrypted THEN endByte ELSE Encrypted)
                  ELSE IF startByte > 0 THEN <<>> ELSE Positions(0, file)
    IN /\ Len(pushed) <= Len(wanted) /\ pushed = SubSeq(wanted, 1, Len(pushed))
       /\ transfer = "done" => pushed = wanted
=============================================================================
