------------------------------- MODULE Bridge -------------------------------
(***************************************************************************)
(* One bridge, end to end: the poll loop (nd45_poller.py) that reads the   *)
(* source block by block, decodes a sample, writes it to the served        *)
(* registers and stamps the canonical store (build_on_update in app.py),   *)
(* composed with the output supervisor of DtsuServer.tla, which reads the  *)
(* store's age and nothing else.  Both are coroutines of one event loop:   *)
(* they interleave only at awaits, so a sample is decoded, written and     *)
(* stamped in one step, but a poll takes as many steps as it reads blocks. *)
(*                                                                         *)
(* supervise_poller may cancel the poll loop at any await and start a new  *)
(* one (Recovery.tla); here that is the action CancelPoll.                 *)
(***************************************************************************)
EXTENDS DtsuServer, FiniteSets

CONSTANTS
    Points,        \* canonical quantities the target maps refer to
    Optional,      \* OPTIONAL_INVALID_ZERO_POINTS: power factors
    Blocks,        \* number of read blocks (READ_GROUPS)
    BlockOf,       \* the block each point is read in
    Values,        \* readings of a point
    Invalid,       \* a non-finite or over-range reading
    Zero,          \* the register content 0.0
    ReadMax,       \* the longest a block read takes before it answers or fails
    PollInterval   \* source.poll_interval_s

ASSUME PollConstants ==
    /\ Optional \subseteq Points
    /\ Points \ Optional # {}
    /\ Blocks \in Nat \ {0}
    /\ BlockOf \in [Points -> 1 .. Blocks]
    /\ Invalid \notin Values /\ Zero \notin Values /\ Invalid # Zero
    /\ ReadMax \in Nat
    /\ PollInterval \in Nat \ {0}

VARIABLES
    poll,       \* where run_poller is
    block,      \* the block being read
    pollWait,   \* ticks spent in the current await of the poll loop
    pollAge,    \* history: ticks since the current poll began
    raw,        \* registers read so far by the current poll
    image,      \* the datastore: the registers Sigenergy reads
    snapshot,   \* CanonicalStore._values
    realAge     \* history: ticks since the poll that produced image began

pollVars   == <<poll, block, pollWait, pollAge, raw>>
dataVars   == <<image, snapshot, realAge>>
bridgeVars == <<vars, pollVars, dataVars>>

PollBound   == Blocks * ReadMax
RealBound   == ServeBound + PollBound
RealCap     == RealBound + 1
Register    == Values \cup {Zero}
InitialImage == [p \in Points |-> Zero]

BridgeTypeOK ==
    /\ TypeOK
    /\ poll \in {"begin", "read", "sleep", "cancelled", "done"}
    /\ block \in 1 .. Blocks
    /\ pollWait \in Nat
    /\ pollAge \in 0 .. PollBound
    /\ raw \in [Points -> Values \cup {Invalid}]
    /\ image \in [Points -> Register]
    /\ snapshot \in [Points -> Register]
    /\ realAge \in 0 .. RealCap

BridgeInit ==
    /\ Init
    /\ poll = "begin"
    /\ block = 1
    /\ pollWait = 0
    /\ pollAge = 0
    /\ raw = [p \in Points |-> Invalid]
    /\ image = InitialImage
    /\ snapshot = InitialImage
    /\ realAge = RealCap

-----------------------------------------------------------------------------
(* Decoding one sample.                                                    *)

\* One critical value out of range rejects the whole sample.
Rejected(r) == \E p \in Points \ Optional : r[p] = Invalid

\* An invalid power factor is served as 0.0.
Decoded(r) == [p \in Points |-> IF r[p] = Invalid THEN Zero ELSE r[p]]

\* Mutant of WrittenImage: points are written as they are encoded.
WrittenPointwise(values, unencodable) ==
    [p \in Points |-> IF p \in unencodable THEN image[p] ELSE values[p]]

\* update_datastore: every point is encoded before the first write, so a
\* point that cannot be encoded (or is missing) leaves the image alone.
WrittenImage(values, unencodable) ==
    [p \in Points |-> IF unencodable = {} THEN values[p] ELSE image[p]]

\* Mutant of Publishes: the store is stamped before the datastore is written.
PublishesFirst(unencodable) == TRUE

\* on_update: the datastore first; the store is stamped only if that worked.
Publishes(unencodable) == unencodable = {}

StoreSample(values, unencodable) ==
    /\ image' = WrittenImage(values, unencodable)
    /\ realAge' = IF unencodable = {} THEN pollAge ELSE realAge
    /\ IF Publishes(unencodable)
       THEN snapshot' = values /\ dataAge' = 0
       ELSE UNCHANGED <<snapshot, dataAge>>

-----------------------------------------------------------------------------
(* The poll loop.                                                          *)

BeginRead(b) == poll' = "read" /\ block' = b /\ pollWait' = 0

\* wait_for(stop_event.wait(), interval), after a good or a failed poll.
SleepUntilNextPoll ==
    /\ poll' = "sleep"
    /\ pollWait' = 0
    /\ pollAge' = 0
    /\ block' = 1
    /\ raw' = [p \in Points |-> Invalid]

BeginPoll ==
    /\ poll = "begin"
    /\ IF stopEvent = "set"
       THEN poll' = "done" /\ UNCHANGED <<block, pollWait>>
       ELSE BeginRead(1)
    /\ UNCHANGED <<vars, dataVars, pollAge, raw>>

\* What the registers of block b hold when the source is asked.
Reading(b) ==
    {r \in [Points -> Values \cup {Invalid}] :
        \A p \in Points : BlockOf[p] # b => r[p] = raw[p]}

\* A block other than the last one arrives.
ReadBlock ==
    /\ poll = "read"
    /\ block < Blocks
    /\ raw' \in Reading(block)
    /\ BeginRead(block + 1)
    /\ UNCHANGED <<vars, dataVars, pollAge>>

\* The last block arrives: decode, and publish unless the sample is rejected.
ReadLastBlock ==
    /\ poll = "read"
    /\ block = Blocks
    /\ \E r \in Reading(block) :
          IF Rejected(r)
          THEN UNCHANGED <<dataVars, dataAge>>
          ELSE \E unencodable \in SUBSET Points :
                  /\ Cardinality(unencodable) <= 1
                  /\ StoreSample(Decoded(r), unencodable)
    /\ SleepUntilNextPoll
    /\ UNCHANGED <<supervisorVars, stopEvent>>

\* Error response, short frame, timeout or lost connection: PollError.
ReadFails ==
    /\ poll = "read"
    /\ SleepUntilNextPoll
    /\ UNCHANGED <<vars, dataVars>>

NextPoll ==
    /\ poll = "sleep"
    /\ stopEvent = "set" \/ pollWait >= PollInterval
    /\ poll' = "begin"
    /\ pollWait' = 0
    /\ UNCHANGED <<vars, dataVars, block, pollAge, raw>>

\* supervise_poller cancels the task, at whatever await it is.
CancelPoll ==
    /\ poll \in {"read", "sleep"}
    /\ poll' = "cancelled"
    /\ pollWait' = 0
    /\ pollAge' = 0
    /\ block' = 1
    /\ raw' = [p \in Points |-> Invalid]
    /\ UNCHANGED <<vars, dataVars>>

\* ... and starts a new poll loop, or leaves when the bridge stops.
RestartPoll ==
    /\ poll = "cancelled"
    /\ poll' = IF stopEvent = "set" THEN "done" ELSE "begin"
    /\ UNCHANGED <<vars, dataVars, block, pollWait, pollAge, raw>>

Poller ==
    \/ BeginPoll \/ ReadBlock \/ ReadLastBlock \/ ReadFails \/ NextPoll
    \/ CancelPoll \/ RestartPoll

-----------------------------------------------------------------------------
Server ==
    /\ Supervisor \/ Transport \/ RequestStop
    /\ UNCHANGED <<pollVars, dataVars>>

PollerIdle ==
    /\ poll # "begin"
    /\ poll = "read" => pollWait < ReadMax
    /\ poll = "sleep" => pollWait < PollInterval /\ stopEvent = "clear"

BridgeTick ==
    /\ PollerIdle
    /\ Tick
    /\ pollWait' = IF poll \in {"read", "sleep"} THEN pollWait + 1 ELSE pollWait
    /\ pollAge' = IF poll = "read" THEN pollAge + 1 ELSE pollAge
    /\ realAge' = Older(realAge, RealCap)
    /\ UNCHANGED <<poll, block, raw, image, snapshot>>

BridgeNext == Poller \/ Server \/ BridgeTick

BridgeSpec == BridgeInit /\ [][BridgeNext]_bridgeVars

-----------------------------------------------------------------------------
(* Properties.                                                             *)

\* What Sigenergy is served is exactly the last sample the store was stamped
\* with, for every point: update_datastore is all or nothing and
\* build_on_update stamps the store only after the write.
ImageMatchesStore == image = snapshot

\* A register of a critical quantity never shows anything but a reading: once
\* a sample was published, 0.0 appears only in place of an invalid power
\* factor (poll_once rejects, it does not substitute).
CriticalIsRead ==
    image # InitialImage => \A p \in Points \ Optional : image[p] \in Values

\* The age the gate decides on is stamped when the poll ENDS, so what is
\* served may be older than the store says, but by no more than one poll.
RealAgeBounded ==
    /\ dataAge < AgeCap => realAge <= dataAge + PollBound
    /\ transport = "open" => realAge <= RealBound

-----------------------------------------------------------------------------
(* The bridge implements the abstract meter.                               *)

Promise == INSTANCE Meter WITH
    Images     <- {i \in [Points -> Register] :
                     \A p \in Points \ Optional : i[p] \in Values},
    NoImage    <- InitialImage,
    SampleTime <- PollBound,
    MaxRealAge <- RealBound,
    answering  <- IF transport = "open" THEN "yes" ELSE "no",
    image      <- image,
    age        <- realAge

ImplementsMeter == Promise!MeterSpec
=============================================================================
