----------------------------- MODULE HttpRange -----------------------------
(***************************************************************************)
(* Responses to Range requests, aiobp/aiohttp/_http_range.py.              *)
(*                                                                         *)
(* slice_response() and chunk_response() answer in one go from data held   *)
(* in memory and are operators here.  stream_response() writes a file in   *)
(* chunks, awaiting every read and write: it is the state machine, next to *)
(* a file that other processes may append to or truncate meanwhile.        *)
(*                                                                         *)
(* A body is the sequence of the positions its bytes have in the content.  *)
(***************************************************************************)
EXTENDS Integers, Sequences, SequencesExt

CONSTANTS
  None,         \* no Range header, or one that is not understood
  Open,         \* a Range without end position, "bytes=3-"
  DefaultChunk, \* _DEFAULT_CHUNK_SIZE
  StreamChunk,  \* _STREAM_CHUNK_SIZE
  MaxLen,       \* bound: size of the content
  MaxChange     \* bound: changes made to the file by others

ASSUME RangeConstants ==
  /\ {DefaultChunk, StreamChunk, MaxLen} \subseteq Nat \ {0} /\ MaxChange \in Nat
  /\ None \notin Int /\ Open \notin Int /\ None # Open

VARIABLES
  pc,        \* where stream_response() is
  header,    \* what _parse_range_header() made of the Range header
  size,      \* the size of the file
  total,     \* total_length
  status,    \* of the response, 0 before there is one
  range,     \* the first and last position it announces
  length,    \* its Content-Length
  offset,    \* the position of the file object
  remaining, \* bytes to be read yet
  chunk,     \* bytes read and not yet written
  sent,      \* the body written so far
  changes    \* history: changes of the file by others

rangeVars == <<pc, header, size, total, status, range, length, offset, remaining, chunk, sent,
               changes>>

Smaller(a, b) == IF a < b THEN a ELSE b

\* int() takes "-2" too: "bytes=1--2" is understood as an end position of -2.
Header == {None} \cup [start : 0 .. MaxLen, stop : (-MaxLen .. MaxLen) \cup {Open}]

-----------------------------------------------------------------------------
(* From a header to a response. *)

Positions(first, count) == [i \in 1 .. count |-> first + i - 1]

\* Python's data[from:to] of n bytes, where a negative `to` counts from the end.
PySlice(n, from, to) ==
  LET stop == IF to < 0 THEN n + to ELSE Smaller(to, n)
  IN  Positions(from, stop - from)

BytesRange(h) ==
  <<h.start, IF h.stop = Open THEN h.start + DefaultChunk - 1 ELSE h.stop>>

Satisfiable(h, n) == h.start < n

Clamped(h, n) == <<BytesRange(h)[1], Smaller(BytesRange(h)[2], n - 1)>>

RangeResponse(code, first_last, count, body) ==
  [status |-> code, range |-> first_last, length |-> count, body |-> body]

\* The body of the error page counts as none.
Refused == RangeResponse(416, <<0, -1>>, 0, <<>>)

SliceResponse(h, n) ==
  IF h = None THEN RangeResponse(200, <<0, n - 1>>, n, Positions(0, n))
  ELSE IF ~ Satisfiable(h, n) THEN Refused
  ELSE LET piece == PySlice(n, Clamped(h, n)[1], Clamped(h, n)[2] + 1)
       IN  RangeResponse(206, Clamped(h, n), Len(piece), piece)

\* The caller hands over the piece.
ChunkResponse(h, n, piece) ==
  IF h = None THEN RangeResponse(200, <<0, n - 1>>, Len(piece), piece)
  ELSE IF ~ Satisfiable(h, n) THEN Refused
  ELSE RangeResponse(206, Clamped(h, n), Len(piece), piece)

-----------------------------------------------------------------------------
(* stream_response() *)

RangeInit ==
  /\ pc = "called" /\ header \in Header /\ size \in 0 .. MaxLen /\ total = 0
  /\ status = 0 /\ range = <<0, -1>> /\ length = 0
  /\ offset = 0 /\ remaining = 0 /\ chunk = 0 /\ sent = <<>> /\ changes = 0

\* The size is known, from seek(0, 2) or the caller: headers are sent, prepare().
Prepare ==
  /\ pc = "called"
  /\ total' = size
  /\ LET bounds == IF header = None THEN <<0, size - 1>> ELSE Clamped(header, size)
     IN  IF header # None /\ ~ Satisfiable(header, size)
           THEN /\ pc' = "done" /\ status' = 416
                /\ UNCHANGED <<range, length, remaining>>
           ELSE /\ pc' = "seek" /\ range' = bounds
                /\ status' = IF header = None THEN 200 ELSE 206
                /\ length' = bounds[2] - bounds[1] + 1
                /\ remaining' = bounds[2] - bounds[1] + 1
  /\ UNCHANGED <<header, size, offset, chunk, sent, changes>>

\* The caller gave no size and the file cannot tell it: TypeError.
NoSize ==
  /\ pc = "called"
  /\ pc' = "failed"
  /\ UNCHANGED <<header, size, total, status, range, length, offset, remaining, chunk,
                 sent, changes>>

Seek ==
  /\ pc = "seek"
  /\ offset' = range[1]
  /\ pc' = IF remaining > 0 THEN "read" ELSE "eof"
  /\ UNCHANGED <<header, size, total, status, range, length, remaining, chunk, sent, changes>>

\* Mutant of Read: a whole chunk is asked for, whatever remains.
ReadWholeChunks ==
  /\ pc = "read"
  /\ \E n \in 0 .. StreamChunk :
       /\ n = 0 <=> offset >= size
       /\ n > 0 => offset + n <= size
       /\ chunk' = n
       /\ offset' = offset + n
       /\ pc' = IF n = 0 THEN "eof" ELSE "write"
  /\ UNCHANGED <<header, size, total, status, range, length, remaining, sent, changes>>

\* Mutant of Read: the end of the file does not end the loop.
ReadOn ==
  /\ pc = "read"
  /\ \E n \in 0 .. Smaller(StreamChunk, remaining) :
       /\ n = 0 <=> offset >= size
       /\ n > 0 => offset + n <= size
       /\ chunk' = n
       /\ offset' = offset + n
       /\ pc' = "write"
  /\ UNCHANGED <<header, size, total, status, range, length, remaining, sent, changes>>

\* read() returns some of what was asked for, nothing only at the end of the file.
Read ==
  /\ pc = "read"
  /\ \E n \in 0 .. Smaller(StreamChunk, remaining) :
       /\ n = 0 <=> offset >= size
       /\ n > 0 => offset + n <= size
       /\ chunk' = n
       /\ offset' = offset + n
       /\ pc' = IF n = 0 THEN "eof" ELSE "write"
  /\ UNCHANGED <<header, size, total, status, range, length, remaining, sent, changes>>

\* Mutant of Write: a read that returned less than a chunk counts as the last.
WriteUntilShort ==
  /\ pc = "write"
  /\ sent' = sent \o Positions(offset - chunk, chunk)
  /\ remaining' = remaining - chunk
  /\ chunk' = 0
  /\ pc' = IF remaining' > 0 /\ chunk = StreamChunk THEN "read" ELSE "eof"
  /\ UNCHANGED <<header, size, total, status, range, length, offset, changes>>

Write ==
  /\ pc = "write"
  /\ sent' = sent \o Positions(offset - chunk, chunk)
  /\ remaining' = remaining - chunk
  /\ chunk' = 0
  /\ pc' = IF remaining' > 0 THEN "read" ELSE "eof"
  /\ UNCHANGED <<header, size, total, status, range, length, offset, changes>>

WriteEof ==
  /\ pc = "eof"
  /\ pc' = "done"
  /\ UNCHANGED <<header, size, total, status, range, length, offset, remaining, chunk,
                 sent, changes>>

\* The client is gone, or reading fails: the exception leaves stream_response().
ConnectionFails ==
  /\ pc \in {"seek", "read", "write", "eof"}
  /\ pc' = "failed"
  /\ UNCHANGED <<header, size, total, status, range, length, offset, remaining, chunk,
                 sent, changes>>

\* Another process appends to the file or truncates it.
FileChanges ==
  /\ pc \notin {"done", "failed"} /\ changes < MaxChange
  /\ size' \in (0 .. MaxLen) \ {size}
  /\ changes' = changes + 1
  /\ UNCHANGED <<pc, header, total, status, range, length, offset, remaining, chunk, sent>>

StreamNext == Prepare \/ NoSize \/ Seek \/ Read \/ Write \/ WriteEof \/ ConnectionFails

RangeNext == StreamNext \/ FileChanges

RangeSpec == RangeInit /\ [][RangeNext]_rangeVars

FairSpec == RangeSpec /\ WF_rangeVars(StreamNext)

-----------------------------------------------------------------------------
(* Properties. *)

\* Every variable has its type, and the loop only reads while something remains.
TypeOK ==
  /\ pc \in {"called", "seek", "read", "write", "eof", "done", "failed"}
  /\ header \in Header /\ {size, total, chunk} \subseteq 0 .. MaxLen
  /\ status \in {0, 200, 206, 416}
  /\ range \in Int \X Int /\ length \in Int /\ remaining \in Int
  /\ offset \in 0 .. MaxLen /\ sent \in Seq(0 .. MaxLen - 1) /\ changes \in 0 .. MaxChange
  /\ pc \in {"read", "write"} => remaining > 0

Ordered == header = None \/ header.stop = Open \/ header.start <= header.stop

\* Whatever the reads return and whatever happens to the file meanwhile, the
\* loop of _write_stream() has written the bytes from the first position it
\* announced, in order and without a gap, and never more than Content-Length.
SentIsPrefix ==
  /\ sent = Positions(range[1], Len(sent))
  /\ Len(sent) > 0 => Len(sent) <= length

\* What stream_response() sends of a file nobody changes.
StreamIsSlice ==
  pc = "done" /\ changes = 0 =>
    LET sliced == SliceResponse(header, total)
    IN  /\ status = sliced.status /\ range = sliced.range /\ length = sliced.length
        /\ sent = sliced.body

\* What chunk_response() makes of the data of a caller that cuts it to bytes_range,
\* data[start:end + 1], and does not compare that with the total length.
ChunkIsSlice ==
  status # 0 =>
    LET given == IF header = None THEN <<0, total - 1>> ELSE BytesRange(header)
        piece == PySlice(total, given[1], given[2] + 1)
    IN  ChunkResponse(header, total, piece) = SliceResponse(header, total)

\* The three kinds of response agree: stream_response() and chunk_response() have
\* the status, Content-Range, Content-Length and body that slice_response() has of
\* the same content in memory, for every Range whose end is not before its start.
ResponsesAgree == Ordered => StreamIsSlice /\ ChunkIsSlice

\* A response with status 206 announces a slice of the content, and a
\* Content-Length that is the length of that slice.
PartialIsSlice ==
  status = 206 =>
    /\ 0 <= range[1] /\ range[1] <= range[2] /\ range[2] < total
    /\ length = range[2] - range[1] + 1

\* stream_response() returns or raises: a read that returns less than asked
\* for, or a file that shrinks or grows meanwhile, cannot keep its loop going.
StreamEnds == <>(pc \in {"done", "failed"})

=============================================================================
