--------------------------- MODULE HubStreamProofs ---------------------------
(***************************************************************************)
(* Proofs about the hub connection and its cache, for every subscription   *)
(* and every value of the time constants.                                  *)
(***************************************************************************)
EXTENDS HubStream, TLAPS

LEMMA Numbers ==
    /\ StalenessThreshold \in Nat
    /\ AgeCap \in Nat /\ AgeCap = StalenessThreshold + 1
    /\ ReadCap \in Nat /\ ReadCap = AgeCap + MaxLag
    /\ MaxLag \in Nat
BY HubConstants DEF HubConstants, StalenessThreshold, AgeCap, ReadCap

-----------------------------------------------------------------------------
(***************************************************************************)
(* Locking the cache.                                                      *)
(***************************************************************************)

\* The cache is unlocked only by a stream that delivered and was not closed;
\* a closed connection has no stream task.
UnlockedByStream ==
    /\ Connected => live = "yes" /\ stream \in {"receiving", "broken"}
    /\ closed = "yes" => stream = "closed"

LEMMA UnlockedInit == Init => UnlockedByStream
BY DEF Init, UnlockedByStream, Connected

LEMMA UnlockedStep == UnlockedByStream /\ [Next]_vars => UnlockedByStream'
<1> SUFFICES ASSUME UnlockedByStream, [Next]_vars PROVE UnlockedByStream'
  OBVIOUS
<1> USE DEF UnlockedByStream, Connected
<1>1. CASE ConnectBegins
  BY <1>1 DEF ConnectBegins
<1>2. CASE Close
  BY <1>2 DEF Close
<1>3. CASE Stream
  BY <1>3 DEF Stream, Subscribes, StreamFails, StreamRetries
<1>4. CASE Delivery
  BY <1>4 DEF Delivery, Deliver
<1>5. CASE HubBreaks
  BY <1>5 DEF HubBreaks
<1>6. CASE ConnectEnds \/ HubReturns \/ Poll
  BY <1>6 DEF ConnectEnds, HubReturns, Poll, streamVars
<1>7. CASE Tick
  BY <1>7 DEF Tick
<1>still. CASE UNCHANGED vars
  BY <1>still DEF vars
<1> QED
  BY <1>1, <1>2, <1>3, <1>4, <1>5, <1>6, <1>7, <1>still DEF Next

\* lookup() never answers between the loss of one stream and the first update
\* of the next, and never again once close() was called.
THEOREM CacheLocked == Spec => []SilentWithoutStream
<1>1. UnlockedByStream => SilentWithoutStream
  BY DEF UnlockedByStream, SilentWithoutStream, Answers
<1> QED
  BY <1>1, UnlockedInit, UnlockedStep, PTL DEF Spec

-----------------------------------------------------------------------------
(***************************************************************************)
(* Types.                                                                  *)
(***************************************************************************)

\* Every variable has its type; in particular the backoff stays within the
\* configured limits.
THEOREM HubTypeCorrect == Spec => []TypeOK
<1> USE Numbers, HubConstants DEF HubConstants
<1>1. Init => TypeOK
  BY DEF Init, TypeOK, Entry, NoEntry, NoSample
<1>2. TypeOK /\ [Next]_vars => TypeOK'
  <2> SUFFICES ASSUME TypeOK, [Next]_vars PROVE TypeOK'
    OBVIOUS
  <2> USE DEF TypeOK
  <2>1. CASE ConnectBegins
    BY <2>1 DEF ConnectBegins
  <2>2. CASE ConnectEnds
    BY <2>2 DEF ConnectEnds, streamVars
  <2>3. CASE Close
    BY <2>3 DEF Close
  <2>4. CASE Stream
    BY <2>4 DEF Stream, Subscribes, StreamFails, StreamRetries, NextDelay
  <2>5. CASE Delivery
    <3>1. PICK b \in Blocks : Deliver(b)
      BY <2>5 DEF Delivery
    <3>2. entries' \in [Blocks -> Entry]
      BY <3>1 DEF Deliver, Entry, ReadCap
    <3> QED
      BY <3>1, <3>2 DEF Deliver
  <2>6. CASE HubBreaks \/ HubReturns
    BY <2>6 DEF HubBreaks, HubReturns, streamVars
  <2>7. CASE Poll
    <3>1. sample' \in [result : {"none", "ok", "failed"}, oldestRead : 0 .. ReadCap]
      BY <2>7 DEF Poll, NoSample, Entry
    <3> QED
      BY <2>7, <3>1 DEF Poll, streamVars
  <2>8. CASE Tick
    <3>1. wait' \in 0 .. RetryMax /\ callWait' \in 0 .. ConnectWait
      BY <2>8 DEF Tick, Older
    <3>2. entries' \in [Blocks -> Entry]
      BY <2>8 DEF Tick, Older, Entry
    <3> QED
      BY <2>8, <3>1, <3>2 DEF Tick
  <2>still. CASE UNCHANGED vars
    BY <2>still DEF vars
  <2> QED
    BY <2>1, <2>2, <2>3, <2>4, <2>5, <2>6, <2>7, <2>8, <2>still DEF Next
<1> QED
  BY <1>1, <1>2, PTL DEF Spec

-----------------------------------------------------------------------------
(***************************************************************************)
(* Readiness.                                                              *)
(***************************************************************************)

\* A block that is no longer awaited has an entry, and connect() waited for all.
ReadyIsDelivered ==
    /\ \A b \in Blocks : b \notin awaited => entries[b].kind # "none"
    /\ caller = "connected" => awaited = {}

\* connect() returns True only when every block of the subscription has been
\* delivered: the next poll fails on none of them as "not covered".
THEOREM ConnectWaitsForAll == Spec => []ConnectedMeansDelivered
<1>1. Init => ReadyIsDelivered
  BY DEF Init, ReadyIsDelivered
<1>2. TypeOK /\ ReadyIsDelivered /\ [Next]_vars => ReadyIsDelivered'
  <2> SUFFICES ASSUME TypeOK, ReadyIsDelivered, [Next]_vars PROVE ReadyIsDelivered'
    OBVIOUS
  <2> USE DEF ReadyIsDelivered
  <2>1. CASE Delivery
    <3>1. PICK b \in Blocks : Deliver(b)
      BY <2>1 DEF Delivery
    <3>2. entries \in [Blocks -> Entry]
      BY DEF TypeOK
    <3> QED
      BY <3>1, <3>2 DEF Deliver, Entry
  <2>2. CASE ConnectBegins \/ ConnectEnds
    BY <2>2 DEF ConnectBegins, ConnectEnds, Ready, streamVars
  <2>3. CASE Close \/ Stream \/ HubBreaks \/ HubReturns \/ Poll
    BY <2>3 DEF Close, Stream, Subscribes, StreamFails, StreamRetries, HubBreaks,
                HubReturns, Poll, streamVars
  <2>4. CASE Tick
    <3>1. \A b \in Blocks : entries'[b].kind = entries[b].kind
      BY <2>4 DEF Tick, TypeOK, Entry
    <3> QED
      BY <2>4, <3>1 DEF Tick
  <2>still. CASE UNCHANGED vars
    BY <2>still DEF vars
  <2> QED
    BY <2>1, <2>2, <2>3, <2>4, <2>still DEF Next
<1>3. ReadyIsDelivered => ConnectedMeansDelivered
  BY DEF ReadyIsDelivered, ConnectedMeansDelivered
<1> QED
  BY <1>1, <1>2, <1>3, HubTypeCorrect, PTL DEF Spec

-----------------------------------------------------------------------------
(***************************************************************************)
(* Ages.                                                                   *)
(***************************************************************************)

\* An entry was read at most MaxLag before it was received, and what the last
\* good poll accepted was young when it was accepted.
AgesAgree ==
    /\ \A b \in Blocks : entries[b].readAge <= entries[b].age + MaxLag
    /\ SampleBounded

\* A poll never accepts a value that left the device longer ago than the
\* staleness window plus the delivery lag.
THEOREM SamplesAreRecent == Spec => []SampleBounded
<1> USE Numbers
<1>1. Init => AgesAgree
  BY DEF Init, AgesAgree, SampleBounded, NoEntry, NoSample
<1>2. TypeOK /\ AgesAgree /\ [Next]_vars => AgesAgree'
  <2> SUFFICES ASSUME TypeOK, AgesAgree, [Next]_vars PROVE AgesAgree'
    OBVIOUS
  <2>1. entries \in [Blocks -> Entry]
    BY DEF TypeOK
  <2> USE DEF AgesAgree, SampleBounded
  <2>2. CASE Delivery
    <3>1. PICK b \in Blocks : Deliver(b)
      BY <2>2 DEF Delivery
    <3> QED
      BY <2>1, <3>1 DEF Deliver, Entry
  <2>3. CASE Poll
    <3>1. UNCHANGED entries
      BY <2>3 DEF Poll, streamVars
    <3>2. ASSUME sample'.result = "ok" PROVE sample'.oldestRead <= StalenessThreshold + MaxLag
      <4>1. PICK best \in [Blocks -> Blocks], r \in Blocks :
               /\ Answers(best[r])
               /\ sample'.oldestRead = entries[best[r]].readAge
        BY <2>3, <3>2 DEF Poll, NoSample
      <4>2. best[r] \in Blocks
        BY <4>1
      <4> QED
        BY <2>1, <4>1, <4>2 DEF Answers, Entry
    <3> QED
      BY <3>1, <3>2
  <2>4. CASE Tick
    BY <2>1, <2>4 DEF Tick, Older, Entry
  <2>5. CASE ConnectBegins \/ ConnectEnds \/ Close \/ Stream \/ HubBreaks \/ HubReturns
    BY <2>5 DEF ConnectBegins, ConnectEnds, Close, Stream, Subscribes, StreamFails,
                StreamRetries, HubBreaks, HubReturns, streamVars
  <2>still. CASE UNCHANGED vars
    BY <2>still DEF vars
  <2> QED
    BY <2>2, <2>3, <2>4, <2>5, <2>still DEF Next
<1>3. AgesAgree => SampleBounded
  BY DEF AgesAgree
<1> QED
  BY <1>1, <1>2, <1>3, HubTypeCorrect, PTL DEF Spec
=============================================================================
