---------------------------- MODULE WireActivity ----------------------------
(***************************************************************************)
(* Counting requests on a serial line whose bytes arrive in chunks cut     *)
(* anywhere (dtsu_server.py: scan_rtu_requests, WireActivity).  The count  *)
(* tells an installer which slave address a master polls.                  *)
(*                                                                         *)
(* A frame is FrameLen bytes: a slave id, a function code, a payload, and  *)
(* a checksum over what precedes it.  The CRC is abstracted to a sum: what *)
(* matters is that some windows of the stream pass the test and others do  *)
(* not, wherever they lie and however they overlap.                        *)
(***************************************************************************)
EXTENDS Integers, Sequences, FiniteSets, SequencesExt

CONSTANTS
    FrameLen,       \* _RTU_REQUEST_LEN
    Base,           \* bytes are 0 .. Base - 1
    RequestCodes,   \* _REQUEST_FUNCTION_CODES
    MaxIds,         \* max_ids: distinct slave ids that are tracked
    MaxChunk,       \* bound: bytes per read of the port
    MaxBytes        \* bound: bytes in all

ASSUME WireConstants ==
    /\ FrameLen \in Nat /\ FrameLen >= 3
    /\ MaxIds \in Nat /\ MaxChunk \in Nat /\ MaxBytes \in Nat

Bytes == 0 .. Base - 1

VARIABLES
    stream,     \* history: every byte received
    tail,       \* _tail
    frames      \* [tracked slave id -> requests counted]

vars == <<stream, tail, frames>>

Init == stream = <<>> /\ tail = <<>> /\ frames = <<>>

-----------------------------------------------------------------------------
Checksum(data) == FoldLeft(+, 0, data) % Base

IsRequest(frame) ==
    /\ frame[2] \in RequestCodes
    /\ Checksum(Front(frame)) = Last(frame)

\* The windows scan_rtu_requests tries, overlapping ones included.
Window(buffer, i) == SubSeq(buffer, i, i + FrameLen - 1)
Windows(buffer) == [i \in 1 .. Len(buffer) - FrameLen + 1 |-> Window(buffer, i)]

\* A table of at most room keys: a known key keeps counting, a new one is
\* tracked while there is room.
Counted(counts, key, room) ==
    IF key \in DOMAIN counts \/ Cardinality(DOMAIN counts) < room
    THEN [k \in DOMAIN counts \cup {key} |->
            (IF k \in DOMAIN counts THEN counts[k] ELSE 0) + (IF k = key THEN 1 ELSE 0)]
    ELSE counts

CountFrame(counts, frame) ==
    IF IsRequest(frame) THEN Counted(counts, frame[1], MaxIds) ELSE counts
CountFrames(counts, list) == FoldLeft(CountFrame, counts, list)

\* Mutant of KeepTail: a whole frame is kept.
KeepWholeFrame(buffer) ==
    SubSeq(buffer, IF Len(buffer) <= FrameLen THEN 1 ELSE Len(buffer) - FrameLen + 1, Len(buffer))

\* buffer[-(_RTU_REQUEST_LEN - 1):], too short to hold a frame.
KeepTail(buffer) ==
    SubSeq(buffer, IF Len(buffer) < FrameLen THEN 1 ELSE Len(buffer) - FrameLen + 2, Len(buffer))

\* One read of the port.
Record ==
    \E n \in 1 .. MaxChunk : \E data \in [1 .. n -> Bytes] :
        LET buffer == tail \o data
        IN /\ Len(stream) + n <= MaxBytes
           /\ stream' = stream \o data
           /\ frames' = CountFrames(frames, Windows(buffer))
           /\ tail' = KeepTail(buffer)

Next == Record

Spec == Init /\ [][Next]_vars

-----------------------------------------------------------------------------
(* Properties.                                                             *)

Requests(id) ==
    {i \in DOMAIN Windows(stream) : stream[i] = id /\ IsRequest(Window(stream, i))}

\* However the stream is cut into chunks, a tracked slave id has been counted
\* exactly once per request anywhere in it: none is missed at a cut, none is
\* seen twice, and an id tracked at all was tracked from its first request.
\* An id with requests goes untracked only if MaxIds others are tracked.
CountsEachRequestOnce ==
    \A id \in Bytes :
        IF id \in DOMAIN frames THEN frames[id] = Cardinality(Requests(id))
        ELSE Requests(id) = {} \/ Cardinality(DOMAIN frames) = MaxIds
=============================================================================
