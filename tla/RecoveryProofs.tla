--------------------------- MODULE RecoveryProofs ---------------------------
(***************************************************************************)
(* Proofs about stall recovery and its escalation, for every configuration *)
(* whose timeouts are ordered as deployed (DeployedOrdering).              *)
(***************************************************************************)
EXTENDS Recovery, TLAPS

LEMMA Numbers ==
    /\ StallTimeout \in Nat /\ PollMax \in Nat /\ CheckEvery \in Nat
    /\ RetryDelay \in Nat /\ RetryMax \in Nat /\ RetryDelay <= RetryMax
    /\ ConnectMax \in Nat /\ CancelMax \in Nat
    /\ HalfWatchdog \in Nat /\ HalfWatchdog > 0
    /\ WatchdogSec \in Nat /\ WatchdogSec = HalfWatchdog + HalfWatchdog
    /\ BeatCap \in Nat /\ BeatCap = WatchdogSec + 1
    /\ DataCap \in Nat
BY RecoveryTiming DEF RecoveryTiming, WatchdogSec, BeatCap

LEMMA Ordering ==
    /\ StallTimeout + CheckEvery + CancelMax <= WatchdogSec
    /\ ConnectMax + RetryMax <= WatchdogSec
    /\ PollMax <= StallTimeout
BY DeployedOrdering DEF DeployedOrdering

-----------------------------------------------------------------------------
\* Every variable has its type; in particular no backoff leaves the configured
\* range and no clock overruns.
THEOREM RecoveryTypeCorrect == Spec => []TypeOK
<1> USE Numbers DEF Connecting
<1>1. Init => TypeOK
  BY DEF Init, TypeOK
<1>2. TypeOK /\ [Next]_vars => TypeOK'
  <2> SUFFICES ASSUME TypeOK, [Next]_vars PROVE TypeOK'
    OBVIOUS
  <2> USE DEF TypeOK, supVars, loopVars, startVars, wdVars
  <2>1. CASE PollLoop
    BY <2>1 DEF PollLoop, LoopBegins, PollSucceeds, PollFails, PollReports, PollHangs, LoopDies
  <2>2. CASE CheckLoop
    BY <2>2 DEF CheckLoop, BeginRebuild, Enter
  <2>3. CASE LoopCancelled
    BY <2>3 DEF LoopCancelled, BeginRebuild, Enter
  <2>4. CASE RebuildAttemptFails \/ RebuildHangs \/ StopWatching \/ LoopStopped
    BY <2>4 DEF RebuildAttemptFails, RebuildHangs, StopWatching, LoopStopped, Enter
  <2>5. CASE RebuildRetries \/ RebuildEnds
    BY <2>5 DEF RebuildRetries, RebuildEnds, StartLoop, Doubled, Enter
  <2>6. CASE Startup \/ StartupHangs
    BY <2>6 DEF Startup, StartupConnects, StartupAttemptFails, StartupRetries, StartupStops,
                StartupCancelled, StartupHangs, StartupStep, Doubled
  <2>7. CASE WatchdogLooks \/ RequestStop
    BY <2>7 DEF WatchdogLooks, RequestStop
  <2>8. CASE SystemdRestarts
    BY <2>8 DEF SystemdRestarts
  <2>9. CASE Tick
    BY <2>9 DEF Tick, Idle, Older
  <2>still. CASE UNCHANGED vars
    BY <2>still DEF vars
  <2> QED
    BY <2>1, <2>2, <2>3, <2>4, <2>5, <2>6, <2>7, <2>8, <2>9, <2>still
       DEF Next, Supervise, Watchdog
<1> QED
  BY <1>1, <1>2, PTL DEF Spec

-----------------------------------------------------------------------------
(***************************************************************************)
(* The inductive invariant.  Each part says how old the heartbeat can be   *)
(* in one await of the supervisor, or what that await implies of the loop. *)
(***************************************************************************)

\* A loop that is not stuck reports at least once per poll.
LiveLoopReports ==
    /\ loop = "polling" => beat <= loopWait
    /\ loop = "begin" => beat = 0 /\ loopWait = 0

\* The store is never younger than the last report of the poll loop.
DataOlderThanBeat == dataAge < DataCap => beat <= dataAge

\* Only a hung loop is cancelled, and while it is or its client is rebuilt,
\* no poll can refresh the data.
RecoveryHoldsLoop ==
    /\ sup = "cancelling" => loop = "hung"
    /\ sup \in {"done"} \cup Connecting => loop = "ended"
    /\ reason = "stall" => sup \in Connecting
    /\ StallOutdatesData

\* How old the heartbeat can be while nobody asked the bridge to stop.
BeatByPhase ==
    stopEvent = "clear" =>
        /\ sup = "watch" => beat <= StallTimeout + supWait /\ supWait <= CheckEvery
        /\ sup = "cancelling" =>
              beat <= StallTimeout + CheckEvery + supWait /\ supWait <= CancelMax
        /\ sup = "connecting" => beat <= supWait /\ supWait <= ConnectMax
        /\ sup = "backoff" => beat <= ConnectMax + supWait /\ supWait <= supDelay
        /\ sup \notin {"leaving", "done"}

\* The ping is never later than the watchdog's own look at the heartbeat,
\* unless a connect hangs.
PingOnTime == stopEvent = "clear" /\ sup # "connectHung" => ping = wdWait

RInv == LiveLoopReports /\ DataOlderThanBeat /\ RecoveryHoldsLoop /\ BeatByPhase /\ PingOnTime

LEMMA RInit == Init => RInv
BY Numbers DEF Init, RInv, LiveLoopReports, DataOlderThanBeat, RecoveryHoldsLoop, BeatByPhase,
               PingOnTime, StallOutdatesData, FromStall, Connecting

\* A live loop is never taken for a stalled one.
LEMMA StalledIsHung ==
    ASSUME TypeOK, RInv, Stalled, loop # "ended"
    PROVE  loop = "hung"
BY Numbers, Ordering DEF TypeOK, RInv, LiveLoopReports, Stalled

\* A stalled loop means data older than a stall.
LEMMA StalledIsStale ==
    ASSUME TypeOK, RInv, Stalled
    PROVE  dataAge > StallTimeout \/ dataAge = DataCap
BY Numbers, Ordering DEF TypeOK, RInv, DataOlderThanBeat, Stalled

\* While nothing hangs in a connect, the heartbeat is young enough for a ping.
LEMMA BeatWithinWatchdog ==
    ASSUME TypeOK, RInv, stopEvent = "clear", sup # "connectHung"
    PROVE  beat <= WatchdogSec
BY Numbers, Ordering DEF TypeOK, RInv, BeatByPhase, Connecting

\* A heartbeat, or a poll that touches none, disturbs no bound on the beat.
LEMMA BeatStaysBounded ==
    ASSUME TypeOK, RInv, UNCHANGED <<sup, supWait, supDelay, stopEvent>>,
           beat' = beat \/ beat' = 0
    PROVE  BeatByPhase'
<1>1. CASE beat' = beat
  BY <1>1 DEF RInv, BeatByPhase
<1>2. CASE beat' = 0
  <2>1. \A a, b \in Nat : 0 <= a + b /\ 0 <= a
    OBVIOUS
  <2>2. StallTimeout + CheckEvery \in Nat
    BY Numbers
  <2>3. /\ 0 <= StallTimeout + supWait /\ 0 <= StallTimeout + CheckEvery + supWait
        /\ 0 <= supWait /\ 0 <= ConnectMax + supWait
    BY <2>1, <2>2, Numbers DEF TypeOK
  <2> QED
    BY <1>2, <2>3 DEF RInv, BeatByPhase
<1> QED
  BY <1>1, <1>2

LEMMA RStep == TypeOK /\ RInv /\ TypeOK' /\ [Next]_vars => RInv'
<1> SUFFICES ASSUME TypeOK, RInv, TypeOK', [Next]_vars PROVE RInv'
  OBVIOUS
<1> USE Numbers DEF supVars, loopVars, startVars, wdVars
<1>1. CASE PollLoop
  <2>1. LiveLoopReports'
    BY <1>1 DEF PollLoop, LoopBegins, PollSucceeds, PollFails, PollReports, PollHangs,
       LoopDies, TypeOK, RInv, LiveLoopReports
  <2>2. DataOlderThanBeat'
    BY <1>1 DEF PollLoop, LoopBegins, PollSucceeds, PollFails, PollReports, PollHangs,
       LoopDies, TypeOK, RInv, DataOlderThanBeat
  <2>3. RecoveryHoldsLoop'
    BY <1>1 DEF PollLoop, LoopBegins, PollSucceeds, PollFails, PollReports, PollHangs,
       LoopDies, TypeOK, RInv, RecoveryHoldsLoop,
       StallOutdatesData, FromStall, Connecting
  <2>4. BeatByPhase'
    <3>1. beat' = beat \/ beat' = 0
      BY <1>1 DEF PollLoop, LoopBegins, PollSucceeds, PollFails, PollReports, PollHangs,
                  LoopDies
    <3>2. UNCHANGED <<sup, supWait, supDelay, stopEvent>>
      BY <1>1 DEF PollLoop, LoopBegins, PollSucceeds, PollFails, PollReports, PollHangs,
                  LoopDies
    <3> QED
      BY <3>1, <3>2, BeatStaysBounded
  <2>5. PingOnTime'
    BY <1>1 DEF PollLoop, LoopBegins, PollSucceeds, PollFails, PollReports, PollHangs,
       LoopDies, TypeOK, RInv, PingOnTime
  <2> QED
    BY <2>1, <2>2, <2>3, <2>4, <2>5 DEF RInv
<1>2. CASE CheckLoop /\ loop = "ended"
  <2>1. LiveLoopReports'
    BY <1>2 DEF CheckLoop, BeginRebuild, Enter, TypeOK, RInv, LiveLoopReports
  <2>2. DataOlderThanBeat'
    BY <1>2 DEF CheckLoop, BeginRebuild, Enter, TypeOK, RInv, DataOlderThanBeat
  <2>3. RecoveryHoldsLoop'
    BY <1>2 DEF CheckLoop, BeginRebuild, Enter, TypeOK, RInv, RecoveryHoldsLoop,
       StallOutdatesData, FromStall, Connecting
  <2>4. BeatByPhase'
    BY <1>2 DEF CheckLoop, BeginRebuild, Enter, TypeOK, RInv, BeatByPhase, Connecting
  <2>5. PingOnTime'
    BY <1>2 DEF CheckLoop, BeginRebuild, Enter, TypeOK, RInv, PingOnTime
  <2> QED
    BY <2>1, <2>2, <2>3, <2>4, <2>5 DEF RInv
<1>3. CASE CheckLoop /\ loop # "ended" /\ Stalled
  <2>1. LiveLoopReports'
    BY <1>3, StalledIsHung, StalledIsStale DEF CheckLoop, Enter, TypeOK, RInv,
       LiveLoopReports
  <2>2. DataOlderThanBeat'
    BY <1>3, StalledIsHung, StalledIsStale DEF CheckLoop, Enter, TypeOK, RInv,
       DataOlderThanBeat
  <2>3. RecoveryHoldsLoop'
    BY <1>3, StalledIsHung, StalledIsStale DEF CheckLoop, Enter, TypeOK, RInv,
       RecoveryHoldsLoop,
       StallOutdatesData, FromStall, Connecting
  <2>4. BeatByPhase'
    <3>1. sup' = "cancelling" /\ supWait' = 0 /\ beat' = beat /\ 0 <= CancelMax
      BY <1>3 DEF CheckLoop, Enter
    <3>2. stopEvent = "clear" => beat <= StallTimeout + CheckEvery
      <4>1. stopEvent = "clear" => beat <= StallTimeout + supWait /\ supWait <= CheckEvery
        BY <1>3 DEF CheckLoop, RInv, BeatByPhase
      <4> QED
        BY <4>1 DEF TypeOK
    <3>3. StallTimeout + CheckEvery = StallTimeout + CheckEvery + 0
      OBVIOUS
    <3>4. stopEvent' = stopEvent
      BY <1>3 DEF CheckLoop
    <3> QED
      BY <3>1, <3>2, <3>3, <3>4 DEF BeatByPhase
  <2>5. PingOnTime'
    BY <1>3, StalledIsHung, StalledIsStale DEF CheckLoop, Enter, TypeOK, RInv, PingOnTime
  <2> QED
    BY <2>1, <2>2, <2>3, <2>4, <2>5 DEF RInv
<1>4. CASE CheckLoop /\ loop # "ended" /\ ~Stalled
  <2>1. LiveLoopReports'
    BY <1>4 DEF CheckLoop, Stalled, Enter, TypeOK, RInv, LiveLoopReports
  <2>2. DataOlderThanBeat'
    BY <1>4 DEF CheckLoop, Stalled, Enter, TypeOK, RInv, DataOlderThanBeat
  <2>3. RecoveryHoldsLoop'
    BY <1>4 DEF CheckLoop, Stalled, Enter, TypeOK, RInv, RecoveryHoldsLoop,
       StallOutdatesData, FromStall, Connecting
  <2>4. BeatByPhase'
    <3>1. sup' = "watch" /\ supWait' = 0 /\ beat' = beat /\ 0 <= CheckEvery
      BY <1>4 DEF CheckLoop, Enter
    <3>2. beat <= StallTimeout + 0
      BY <1>4 DEF Stalled, TypeOK
    <3> QED
      BY <3>1, <3>2 DEF BeatByPhase
  <2>5. PingOnTime'
    BY <1>4 DEF CheckLoop, Stalled, Enter, TypeOK, RInv, PingOnTime
  <2> QED
    BY <2>1, <2>2, <2>3, <2>4, <2>5 DEF RInv
<1>5. CASE LoopCancelled
  <2>1. LiveLoopReports'
    BY <1>5 DEF LoopCancelled, BeginRebuild, Enter, TypeOK, RInv, LiveLoopReports
  <2>2. DataOlderThanBeat'
    BY <1>5 DEF LoopCancelled, BeginRebuild, Enter, TypeOK, RInv, DataOlderThanBeat
  <2>3. RecoveryHoldsLoop'
    BY <1>5 DEF LoopCancelled, BeginRebuild, Enter, TypeOK, RInv, RecoveryHoldsLoop,
       StallOutdatesData, FromStall, Connecting
  <2>4. BeatByPhase'
    BY <1>5 DEF LoopCancelled, BeginRebuild, Enter, TypeOK, RInv, BeatByPhase, Connecting
  <2>5. PingOnTime'
    BY <1>5 DEF LoopCancelled, BeginRebuild, Enter, TypeOK, RInv, PingOnTime
  <2> QED
    BY <2>1, <2>2, <2>3, <2>4, <2>5 DEF RInv
<1>6. CASE RebuildAttemptFails \/ RebuildHangs
  <2>1. LiveLoopReports'
    BY <1>6 DEF RebuildAttemptFails, RebuildHangs, Enter, TypeOK, RInv, LiveLoopReports
  <2>2. DataOlderThanBeat'
    BY <1>6 DEF RebuildAttemptFails, RebuildHangs, Enter, TypeOK, RInv, DataOlderThanBeat
  <2>3. RecoveryHoldsLoop'
    BY <1>6 DEF RebuildAttemptFails, RebuildHangs, Enter, TypeOK, RInv, RecoveryHoldsLoop,
       StallOutdatesData, FromStall, Connecting
  <2>4. BeatByPhase'
    <3>1. CASE RebuildAttemptFails
      <4>1. sup' = "backoff" /\ supWait' = 0 /\ beat' = beat /\ supDelay' = supDelay
            /\ stopEvent' = stopEvent
        BY <3>1 DEF RebuildAttemptFails, Enter
      <4>2. stopEvent = "clear" => beat <= supWait /\ supWait <= ConnectMax
        BY <3>1 DEF RebuildAttemptFails, RInv, BeatByPhase
      <4>3. stopEvent = "clear" => beat <= ConnectMax + 0
        BY <4>2 DEF TypeOK
      <4>4. 0 <= supDelay
        BY DEF TypeOK
      <4> QED
        BY <4>1, <4>3, <4>4 DEF BeatByPhase
    <3>2. CASE RebuildHangs
      BY <3>2 DEF RebuildHangs, BeatByPhase
    <3> QED
      BY <1>6, <3>1, <3>2
  <2>5. PingOnTime'
    BY <1>6 DEF RebuildAttemptFails, RebuildHangs, Enter, TypeOK, RInv, PingOnTime
  <2> QED
    BY <2>1, <2>2, <2>3, <2>4, <2>5 DEF RInv
<1>7. CASE StopWatching \/ LoopStopped
  <2>1. LiveLoopReports'
    BY <1>7 DEF StopWatching, LoopStopped, Enter, TypeOK, RInv, LiveLoopReports
  <2>2. DataOlderThanBeat'
    BY <1>7 DEF StopWatching, LoopStopped, Enter, TypeOK, RInv, DataOlderThanBeat
  <2>3. RecoveryHoldsLoop'
    BY <1>7 DEF StopWatching, LoopStopped, Enter, TypeOK, RInv, RecoveryHoldsLoop,
       StallOutdatesData, FromStall, Connecting
  <2>4. BeatByPhase'
    BY <1>7 DEF StopWatching, LoopStopped, Enter, TypeOK, RInv, BeatByPhase, Connecting
  <2>5. PingOnTime'
    BY <1>7 DEF StopWatching, LoopStopped, Enter, TypeOK, RInv, PingOnTime
  <2> QED
    BY <2>1, <2>2, <2>3, <2>4, <2>5 DEF RInv
<1>8. CASE RebuildRetries
  <2>1. LiveLoopReports'
    BY <1>8 DEF RebuildRetries, Enter, TypeOK, RInv, LiveLoopReports
  <2>2. DataOlderThanBeat'
    BY <1>8 DEF RebuildRetries, Enter, TypeOK, RInv, DataOlderThanBeat
  <2>3. RecoveryHoldsLoop'
    BY <1>8 DEF RebuildRetries, Enter, TypeOK, RInv, RecoveryHoldsLoop,
       StallOutdatesData, FromStall, Connecting
  <2>4. BeatByPhase'
    BY <1>8 DEF RebuildRetries, Enter, TypeOK, RInv, BeatByPhase, Connecting
  <2>5. PingOnTime'
    BY <1>8 DEF RebuildRetries, Enter, TypeOK, RInv, PingOnTime
  <2> QED
    BY <2>1, <2>2, <2>3, <2>4, <2>5 DEF RInv
<1>9. CASE RebuildEnds
  <2>1. LiveLoopReports'
    BY <1>9 DEF RebuildEnds, StartLoop, Enter, TypeOK, RInv, LiveLoopReports
  <2>2. DataOlderThanBeat'
    BY <1>9 DEF RebuildEnds, StartLoop, Enter, TypeOK, RInv, DataOlderThanBeat
  <2>3. RecoveryHoldsLoop'
    BY <1>9 DEF RebuildEnds, StartLoop, Enter, TypeOK, RInv, RecoveryHoldsLoop,
       StallOutdatesData, FromStall, Connecting
  <2>4. BeatByPhase'
    BY <1>9 DEF RebuildEnds, StartLoop, Enter, TypeOK, RInv, BeatByPhase, Connecting
  <2>5. PingOnTime'
    BY <1>9 DEF RebuildEnds, StartLoop, Enter, TypeOK, RInv, PingOnTime
  <2> QED
    BY <2>1, <2>2, <2>3, <2>4, <2>5 DEF RInv
<1>10. CASE Startup \/ StartupHangs
  <2>1. LiveLoopReports'
    BY <1>10 DEF Startup, StartupConnects, StartupAttemptFails, StartupRetries,
       StartupStops, StartupCancelled, StartupHangs, StartupStep, TypeOK, RInv,
       LiveLoopReports
  <2>2. DataOlderThanBeat'
    BY <1>10 DEF Startup, StartupConnects, StartupAttemptFails, StartupRetries,
       StartupStops, StartupCancelled, StartupHangs, StartupStep, TypeOK, RInv,
       DataOlderThanBeat
  <2>3. RecoveryHoldsLoop'
    BY <1>10 DEF Startup, StartupConnects, StartupAttemptFails, StartupRetries,
       StartupStops, StartupCancelled, StartupHangs, StartupStep, TypeOK, RInv,
       RecoveryHoldsLoop,
       StallOutdatesData, FromStall, Connecting
  <2>4. BeatByPhase'
    <3>1. beat' = beat \/ beat' = 0
      BY <1>10 DEF Startup, StartupConnects, StartupAttemptFails, StartupRetries,
                   StartupStops, StartupCancelled, StartupHangs, StartupStep
    <3>2. UNCHANGED <<sup, supWait, supDelay, stopEvent>>
      BY <1>10 DEF Startup, StartupConnects, StartupAttemptFails, StartupRetries,
                   StartupStops, StartupCancelled, StartupHangs, StartupStep
    <3> QED
      BY <3>1, <3>2, BeatStaysBounded
  <2>5. PingOnTime'
    BY <1>10 DEF Startup, StartupConnects, StartupAttemptFails, StartupRetries,
       StartupStops, StartupCancelled, StartupHangs, StartupStep, TypeOK, RInv, PingOnTime
  <2> QED
    BY <2>1, <2>2, <2>3, <2>4, <2>5 DEF RInv
<1>11. CASE WatchdogLooks
  <2>1. LiveLoopReports'
    BY <1>11, BeatWithinWatchdog DEF WatchdogLooks, TypeOK, RInv, LiveLoopReports
  <2>2. DataOlderThanBeat'
    BY <1>11, BeatWithinWatchdog DEF WatchdogLooks, TypeOK, RInv, DataOlderThanBeat
  <2>3. RecoveryHoldsLoop'
    BY <1>11, BeatWithinWatchdog DEF WatchdogLooks, TypeOK, RInv, RecoveryHoldsLoop,
       StallOutdatesData, FromStall, Connecting
  <2>4. BeatByPhase'
    BY <1>11, BeatWithinWatchdog DEF WatchdogLooks, TypeOK, RInv, BeatByPhase, Connecting
  <2>5. PingOnTime'
    BY <1>11, BeatWithinWatchdog DEF WatchdogLooks, TypeOK, RInv, PingOnTime
  <2> QED
    BY <2>1, <2>2, <2>3, <2>4, <2>5 DEF RInv
<1>12. CASE SystemdRestarts
  <2>1. LiveLoopReports'
    BY <1>12 DEF SystemdRestarts, TypeOK, RInv, LiveLoopReports
  <2>2. DataOlderThanBeat'
    BY <1>12 DEF SystemdRestarts, TypeOK, RInv, DataOlderThanBeat
  <2>3. RecoveryHoldsLoop'
    BY <1>12 DEF SystemdRestarts, TypeOK, RInv, RecoveryHoldsLoop,
       StallOutdatesData, FromStall, Connecting
  <2>4. BeatByPhase'
    BY <1>12 DEF SystemdRestarts, TypeOK, RInv, BeatByPhase, Connecting
  <2>5. PingOnTime'
    BY <1>12 DEF SystemdRestarts, TypeOK, RInv, PingOnTime
  <2> QED
    BY <2>1, <2>2, <2>3, <2>4, <2>5 DEF RInv
<1>13. CASE RequestStop
  <2>1. LiveLoopReports'
    BY <1>13 DEF RequestStop, TypeOK, RInv, LiveLoopReports
  <2>2. DataOlderThanBeat'
    BY <1>13 DEF RequestStop, TypeOK, RInv, DataOlderThanBeat
  <2>3. RecoveryHoldsLoop'
    BY <1>13 DEF RequestStop, TypeOK, RInv, RecoveryHoldsLoop,
       StallOutdatesData, FromStall, Connecting
  <2>4. BeatByPhase'
    BY <1>13 DEF RequestStop, TypeOK, RInv, BeatByPhase, Connecting
  <2>5. PingOnTime'
    BY <1>13 DEF RequestStop, TypeOK, RInv, PingOnTime
  <2> QED
    BY <2>1, <2>2, <2>3, <2>4, <2>5 DEF RInv
<1>14. CASE Tick
  <2>1. LiveLoopReports'
    BY <1>14 DEF Tick, Idle, Older, TypeOK, RInv, LiveLoopReports
  <2>2. DataOlderThanBeat'
    BY <1>14 DEF Tick, Idle, Older, TypeOK, RInv, DataOlderThanBeat
  <2>3. RecoveryHoldsLoop'
    BY <1>14 DEF Tick, Idle, Older, TypeOK, RInv, RecoveryHoldsLoop,
       StallOutdatesData, FromStall, Connecting
  <2>4. BeatByPhase'
    BY <1>14 DEF Tick, Idle, Older, TypeOK, RInv, BeatByPhase, Connecting
  <2>5. PingOnTime'
    BY <1>14 DEF Tick, Idle, Older, TypeOK, RInv, PingOnTime
  <2> QED
    BY <2>1, <2>2, <2>3, <2>4, <2>5 DEF RInv
<1>still. CASE UNCHANGED vars
  <2>1. LiveLoopReports'
    BY <1>still DEF vars, TypeOK, RInv, LiveLoopReports
  <2>2. DataOlderThanBeat'
    BY <1>still DEF vars, TypeOK, RInv, DataOlderThanBeat
  <2>3. RecoveryHoldsLoop'
    BY <1>still DEF vars, TypeOK, RInv, RecoveryHoldsLoop,
       StallOutdatesData, FromStall, Connecting
  <2>4. BeatByPhase'
    BY <1>still DEF vars, TypeOK, RInv, BeatByPhase, Connecting
  <2>5. PingOnTime'
    BY <1>still DEF vars, TypeOK, RInv, PingOnTime
  <2> QED
    BY <2>1, <2>2, <2>3, <2>4, <2>5 DEF RInv
<1> QED
  BY <1>1, <1>2, <1>3, <1>4, <1>5, <1>6, <1>7, <1>8,
     <1>9, <1>10, <1>11, <1>12, <1>13, <1>14, <1>still DEF Next, Supervise, Watchdog

THEOREM RecoveryInvariance == Spec => [](TypeOK /\ RInv)
BY RecoveryTypeCorrect, RInit, RStep, PTL DEF Spec

-----------------------------------------------------------------------------
\* From the cancel of a hung poll loop until its rebuilt client is polled, the
\* stored sample is older than the stall timeout, whatever the watchdog, the
\* startup task and systemd do meanwhile.
THEOREM StallKeepsOld == Spec => []StallOutdatesData
<1>1. RInv => StallOutdatesData
  BY DEF RInv, RecoveryHoldsLoop
<1> QED
  BY <1>1, RecoveryInvariance, PTL

\* No poll loop outlives its supervisor or runs beside a rebuild.
THEOREM LoopNotOrphaned == Spec => []NoOrphanLoop
<1>1. RInv => NoOrphanLoop
  BY DEF RInv, RecoveryHoldsLoop, NoOrphanLoop
<1> QED
  BY <1>1, RecoveryInvariance, PTL

\* The watchdog restarts the process only when a rebuild hangs in a connect:
\* the cheap recovery always goes first.
THEOREM RestartLast == Spec => []RestartIsLastResort
<1>1. TypeOK /\ RInv => RestartIsLastResort
  BY Numbers DEF TypeOK, RInv, PingOnTime, RestartIsLastResort
<1> QED
  BY <1>1, RecoveryInvariance, PTL

\* A source that merely fails is never treated as a hung poll loop.
THEOREM FailingIsNotStalled == Spec => UnreachableIsNotStall
<1> DEFINE CancelsHung ==
      sup = "watch" /\ sup' = "cancelling" /\ stopEvent = "clear" => loop = "hung"
<1>1. TypeOK /\ RInv /\ [Next]_vars => [CancelsHung]_vars
  <2> SUFFICES ASSUME TypeOK, RInv, [Next]_vars,
                      sup = "watch", sup' = "cancelling", stopEvent = "clear"
               PROVE  loop = "hung"
    OBVIOUS
  <2>1. CASE CheckLoop
    BY <2>1, StalledIsHung DEF CheckLoop, BeginRebuild, Enter
  <2>2. CASE ~CheckLoop
    BY <2>2 DEF Next, PollLoop, LoopBegins, PollSucceeds, PollFails, PollReports, PollHangs,
                LoopDies, Supervise, LoopCancelled, RebuildAttemptFails, RebuildRetries,
                RebuildEnds, RebuildHangs, StopWatching, LoopStopped, Startup,
                StartupConnects, StartupAttemptFails, StartupRetries, StartupStops,
                StartupCancelled, StartupHangs, StartupStep, Watchdog, WatchdogLooks,
                SystemdRestarts, RequestStop, Tick, Enter, supVars, vars
  <2> QED
    BY <2>1, <2>2
<1> QED
  BY <1>1, RecoveryInvariance, PTL DEF Spec, UnreachableIsNotStall
=============================================================================
