---------------------------- MODULE RtuActivity ----------------------------
(***************************************************************************)
(* What the monitor tells an installer about a serial port: the requests   *)
(* on the wire (WireActivity) beside the reads this bridge was asked for   *)
(* (dtsu_server.py: RtuActivity, RecordingSlaveContext, tracing_rtu_framer;*)
(* monitor.py: _render_wire).                                              *)
(*                                                                         *)
(* tracing_rtu_framer hands every chunk to WireActivity and then to        *)
(* pymodbus, which drops what is not addressed to this slave or not        *)
(* readable, and calls getValues for the rest.  A block of registers is    *)
(* stood for by its function code.                                         *)
(***************************************************************************)
EXTENDS WireActivity

CONSTANTS
    SlaveId,        \* the address this bridge answers
    MaxBlocks,      \* max_blocks: distinct blocks that are tracked
    RecentMaxlen,   \* recent_maxlen
    RateWindow,     \* rate_window
    MaxTime         \* bound on the clock

ASSUME ActivityConstants ==
    /\ MaxIds >= 2
    /\ MaxBlocks \in Nat /\ RecentMaxlen \in Nat \ {0}
    /\ RateWindow \in Nat /\ MaxTime \in Nat

VARIABLES
    now,        \* time.monotonic()
    heard,      \* history: every call of record, with its time
    blocks,     \* _blocks: [tracked block -> reads counted]
    recent,     \* _recent
    times,      \* _times: what is kept to compute the rate
    addrLastSeen \* _addr_last_seen: [block read so far -> time]

activity == <<heard, blocks, recent, times, addrLastSeen>>
activityVars == <<vars, now, activity>>

ActivityInit ==
    /\ Init
    /\ now = 0 /\ heard = <<>> /\ recent = <<>> /\ times = <<>>
    /\ blocks = <<>> /\ addrLastSeen = <<>>

-----------------------------------------------------------------------------
CountBlock(counts, block) == Counted(counts, block, MaxBlocks)
CountBlocks(counts, list) == FoldLeft(CountBlock, counts, list)

\* The deque loses what has left the window, from its old end.
PruneTimes(ts) ==
    LET old == {i \in DOMAIN ts : \A j \in 1 .. i : now - ts[j] > RateWindow}
    IN SubSeq(ts, Cardinality(old) + 1, Len(ts))

LastOf(s, n) == SubSeq(s, IF Len(s) > n THEN Len(s) - n + 1 ELSE 1, Len(s))

\* RtuActivity.record, for the reads one chunk completed, in their order.
RecordReads(reads) ==
    LET stamped == [i \in DOMAIN reads |-> [ts |-> now, block |-> reads[i]]]
        asked == {reads[i] : i \in DOMAIN reads}
    IN /\ heard' = heard \o stamped
       /\ blocks' = CountBlocks(blocks, reads)
       /\ recent' = LastOf(recent \o stamped, RecentMaxlen)
       /\ times' = IF reads = <<>> THEN times
                   ELSE PruneTimes(times \o [i \in DOMAIN reads |-> now])
       /\ addrLastSeen' = [b \in DOMAIN addrLastSeen \cup asked |->
                              IF b \in asked THEN now ELSE addrLastSeen[b]]

\* The requests of a buffer that carry this slave's address.
OwnRequests(buffer) ==
    {i \in DOMAIN Windows(buffer) : buffer[i] = SlaveId /\ IsRequest(Window(buffer, i))}

\* One read of the port.  pymodbus takes frames one after the other, resyncs
\* on an error and refuses a block outside the datastore: some of the requests
\* of the chunk are not read.  The master sends reads only: pymodbus serves a
\* write of FC06, FC22 or FC23 with a getValues of its own, and of these
\* scan_rtu_requests counts FC06 alone.
PortRead ==
    /\ Record
    /\ LET buffer == tail \o SubSeq(stream', Len(stream) + 1, Len(stream'))
           own == OwnRequests(buffer)
       IN \E n \in 0 .. Cardinality(own) : \E taken \in [1 .. n -> own] :
             /\ \A j, k \in 1 .. n : j < k => taken[j] < taken[k]
             /\ RecordReads([k \in 1 .. n |-> buffer[taken[k] + 1]])
    /\ UNCHANGED now

Tick ==
    /\ now < MaxTime
    /\ now' = now + 1
    /\ UNCHANGED <<vars, activity>>

ActivityNext == PortRead \/ Tick

ActivitySpec == ActivityInit /\ [][ActivityNext]_activityVars

-----------------------------------------------------------------------------
(* What is shown.                                                          *)

\* Mutant of RateReads: what record left in the deque is not filtered again.
RateReadsUnfiltered == Len(times)

\* summary: the reads of the last RateWindow; the rate is their number per
\* second.
RateReads == Cardinality({i \in DOMAIN times : now - times[i] <= RateWindow})

\* Mutant of WrongAddress: any foreign request is a wrong address.
WrongAddressByAny == DOMAIN frames \ {SlaveId} # {}

\* The verdict of _render_wire.
WrongAddress == heard = <<>> /\ DOMAIN frames \ {SlaveId} # {}

-----------------------------------------------------------------------------
(* Properties.                                                             *)

Reads(block) == {i \in DOMAIN heard : heard[i].block = block}

\* At any moment the activity agrees with the reads that were answered
\* (dtsu_server.py, RtuActivity): the rate is that of the window before this
\* moment although nothing is dropped between reads, a tracked block has all
\* its reads, one is untracked only when the table is full, and the age of
\* every register is that of its last read, tracked or not.
ActivityIsExact ==
    /\ RateReads = Cardinality({i \in DOMAIN heard : now - heard[i].ts <= RateWindow})
    /\ \A block \in RequestCodes :
          /\ IF block \in DOMAIN blocks THEN blocks[block] = Cardinality(Reads(block))
             ELSE Reads(block) = {} \/ Cardinality(DOMAIN blocks) = MaxBlocks
          /\ IF block \in DOMAIN addrLastSeen
             THEN \E i \in Reads(block) :
                     /\ heard[i].ts = addrLastSeen[block]
                     /\ \A j \in Reads(block) : j <= i
             ELSE Reads(block) = {}
    /\ recent = LastOf(heard, RecentMaxlen)

\* The installer is told WRONG ADDRESS (monitor.py, _render_wire) exactly when
\* this bridge has answered nothing although a request for another address
\* passed: eight tracked ids leave room for a foreign one, and what was
\* answered had been counted on the wire.
WrongAddressIsRight ==
    /\ WrongAddress <=>
          heard = <<>> /\ \E id \in Bytes \ {SlaveId} : Requests(id) # {}
    /\ Len(heard) <= Cardinality(Requests(SlaveId))
=============================================================================
