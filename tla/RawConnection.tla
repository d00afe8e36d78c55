---------------------------- MODULE RawConnection ----------------------------
(***************************************************************************)
(* handle_raw_connection() in src/auomsctl.cpp (`auomsctl monitor'): read  *)
(* length-prefixed raw events that auoms writes to the socket, print each  *)
(* and write back a 20-byte ack.  read() may return any number of the      *)
(* bytes asked for, 0 at end of stream, or -1.                             *)
(*                                                                         *)
(* A byte of the stream is <<i, j>>: byte j of frame i.  The first four    *)
(* bytes of a frame hold its header; size is the header's low SizeBits     *)
(* bits (24 in the code, with a 256 KiB buffer: scaled down here, keeping  *)
(* the mask larger than the buffer).                                       *)
(***************************************************************************)
EXTENDS Naturals, Sequences, SequencesExt

CONSTANTS
    BufSize,        \* data.size(): 1024*256 in the code
    SizeBits,       \* bits of the header that hold the size: 24 in the code
    FrameLens,      \* lengths of the frames auoms may send
    MaxFrames,      \* most frames in one connection
    AnyHeader,      \* TRUE: a header may hold any size, not its frame's length
    MaxErrors       \* read()/write() calls that may fail in one behaviour

ASSUME 2^SizeBits > BufSize /\ FrameLens \subseteq 1..BufSize

Mask == 2^SizeBits - 1
Garbage == <<0, 0>>         \* an uninitialized byte of data

\* A variant that forgets the header already read, for mutation testing
\* of WithinBuffer.
Int32SizeWhole(s) == s

\* nleft = size - 4 (line 1002): the uint32_t difference wraps to
\* 2^32 + size - 4 when size < 4, and converting it to the int nleft maps
\* it back to the negative size - 4, as it does for every size < 2^31.
Int32SizeMinus4(s) == s - 4

VARIABLES
    lens,       \* the frames auoms writes: their lengths
    hdr,        \* and the size field of their headers
    pos,        \* bytes of the stream read so far
    data,       \* the buffer: index 0..BufSize-1 -> byte
    nread, nleft, size,
    pc,         \* "hdr", "body", "ack", "done"
    events,     \* events printed so far
    errors

vars == <<lens, hdr, pos, data, nread, nleft, size, pc, events, errors>>

\* The stream: the bytes of every frame, in order.
Stream ==
    LET F(i) == [j \in 1..lens[i] |-> <<i, j - 1>>]
    IN  FoldLeft(LAMBDA acc, i : acc \o F(i), <<>>, [i \in 1..Len(lens) |-> i])

Init ==
    /\ lens \in BoundedSeq(FrameLens, MaxFrames) \ {<<>>}
    /\ hdr \in IF AnyHeader THEN [1..Len(lens) -> 0..Mask] ELSE {lens}
    /\ pos = 0
    /\ data = [j \in 0..BufSize-1 |-> Garbage]
    /\ nread = 0
    /\ nleft = 4
    /\ size = 0
    /\ pc = "hdr"
    /\ events = 0
    /\ errors = 0

\* A variant that reads to data.data() instead of data.data() + nread, for
\* mutation testing of FrameIntegrity.
ReadChunkNoOffset(nr) ==
    /\ data' = [j \in 0..BufSize-1 |-> IF j < nr THEN Stream[pos + 1 + j] ELSE data[j]]
    /\ pos' = pos + nr
    /\ nread' = nread + nr
    /\ nleft' = nleft - nr

\* One read(fd, data.data() + nread, nleft): nr bytes of the stream land at
\* data[nread..]; writes past the end of data are dropped here (in the code
\* they overrun the array).
ReadChunk(nr) ==
    /\ data' = [j \in 0..BufSize-1 |->
                  IF nread <= j /\ j < nread + nr THEN Stream[pos + 1 + j - nread] ELSE data[j]]
    /\ pos' = pos + nr
    /\ nread' = nread + nr
    /\ nleft' = nleft - nr

\* A variant that takes a read of 0 for no data, as if the test of lines
\* 986 and 1005 were nr < 0, for mutation testing of
\* MonitorReturnsAfterClose.
ReadEndsIgnoresZero ==
    /\ errors < MaxErrors /\ errors' = errors + 1
    /\ pc' = "done"

\* The read returns 0 (end of stream) or -1: the function returns.
ReadEnds ==
    /\ \/ pos = Len(Stream) /\ UNCHANGED errors
       \/ errors < MaxErrors /\ errors' = errors + 1
    /\ pc' = "done"

(***************************************************************************)
(* Lines 982-996: read the four header bytes.                              *)
(***************************************************************************)
ReadHeader ==
    /\ pc = "hdr"
    /\ nleft > 0
    /\ \/ \E nr \in 1..nleft :
            /\ pos + nr <= Len(Stream)
            /\ ReadChunk(nr)
            /\ UNCHANGED <<pc, errors>>
       \/ ReadEnds /\ UNCHANGED <<pos, data, nread, nleft>>
    /\ UNCHANGED <<lens, hdr, size, events>>

(***************************************************************************)
(* Lines 997-1002: decode the size (bytes that are not a frame's header    *)
(* decode to any value); an invalid size is logged and used all the same. *)
(***************************************************************************)
DecodeSize ==
    /\ pc = "hdr"
    /\ nleft = 0
    /\ \E s \in IF data[0][2] = 0 /\ data[0] # Garbage
                THEN {hdr[data[0][1]] % (Mask + 1)} ELSE 0..Mask :
         /\ size' = s
         /\ nread' = 4
         /\ nleft' = Int32SizeMinus4(s)
    /\ pc' = "body"
    /\ UNCHANGED <<lens, hdr, pos, data, events, errors>>

(***************************************************************************)
(* Lines 1003-1015: read the rest of the frame.                            *)
(***************************************************************************)
ReadBody ==
    /\ pc = "body"
    /\ nleft > 0
    /\ \/ \E nr \in 1..nleft :
            /\ pos + nr <= Len(Stream)
            /\ ReadChunk(nr)
            /\ UNCHANGED <<pc, errors>>
       \/ ReadEnds /\ UNCHANGED <<pos, data, nread, nleft>>
    /\ UNCHANGED <<lens, hdr, size, events>>

\* A variant of EmitEvent that does not reset nread for the next header,
\* for mutation testing of TypeOK.
EmitEventNoReset ==
    /\ pc = "body"
    /\ nleft <= 0
    /\ events' = events + 1
    /\ nleft' = 4
    /\ pc' = "hdr"
    /\ UNCHANGED <<lens, hdr, pos, data, size, nread, errors>>

(***************************************************************************)
(* Lines 1017-1032: build the Event from data[0..size), print it, write    *)
(* the ack; a short or failed write returns.  Then the next header.        *)
(***************************************************************************)
EmitEvent ==
    /\ pc = "body"
    /\ nleft <= 0
    /\ events' = events + 1
    /\ \/ /\ nread' = 0 /\ nleft' = 4
          /\ pc' = "hdr"
          /\ UNCHANGED errors
       \/ /\ errors < MaxErrors /\ errors' = errors + 1
          /\ pc' = "done"
          /\ UNCHANGED <<nread, nleft>>
    /\ UNCHANGED <<lens, hdr, pos, data, size>>

Next == ReadHeader \/ DecodeSize \/ ReadBody \/ EmitEvent

Spec == Init /\ [][Next]_vars

-----------------------------------------------------------------------------

TypeOK ==
    /\ pos \in 0..Len(Stream)
    /\ pc \in {"hdr", "body", "done"}
    /\ size \in 0..Mask
    /\ nread \in 0..BufSize /\ nleft \in Int
    /\ events \in 0..MaxFrames + 1

\* Every event handed to Event() is exactly the next frame of the stream:
\* its size is the frame's length and data[0..size) holds the frame's
\* bytes, whatever lengths the reads of lines 985 and 1004 returned.
FrameIntegrity ==
    (pc = "body" /\ nleft <= 0) =>
        /\ events + 1 <= Len(lens)
        /\ size = lens[events + 1]
        /\ \A j \in 0..size - 1 : data[j] = <<events + 1, j>>

\* No read writes past the end of data (the bound the check at line 998
\* states) and no Event reads past it or before the end of its header.
WithinBuffer ==
    /\ pc = "body" => nread + nleft <= BufSize
    /\ (pc = "body" /\ nleft <= 0) => 4 < size /\ size <= BufSize

=============================================================================
