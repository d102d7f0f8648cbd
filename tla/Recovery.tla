------------------------------ MODULE Recovery ------------------------------
(***************************************************************************)
(* How a bridge process recovers from a hung poll loop, and how it         *)
(* escalates when it cannot: supervise_poller, connect_with_retry and      *)
(* run_app (app.py), the heartbeat and watchdog_loop (watchdog.py), and    *)
(* the systemd unit (WatchdogSec, Restart=always).                         *)
(*                                                                         *)
(* Four coroutines share one heartbeat.  The poll loop touches it after    *)
(* every poll, good or failed; supervise_poller reads it and rebuilds the  *)
(* loop when it is older than the stall timeout; connect_with_retry        *)
(* touches it before every attempt, both inside a recovery and in the      *)
(* startup task of run_app, which runs beside the poll loop; watchdog_loop *)
(* reads it and withholds the ping systemd waits for.                      *)
(***************************************************************************)
EXTENDS Integers

CONSTANTS
    StallTimeout,   \* source.stall_timeout_s
    CheckEvery,     \* min(safety.check_interval_s, stall_timeout_s / 2)
    PollMax,        \* the longest one poll and the sleep after it take
    RetryDelay,     \* source.reconnect_delay_s
    RetryMax,       \* source.reconnect_delay_max_s
    ConnectMax,     \* the longest a connect attempt takes before it returns
    CancelMax,      \* the longest a cancelled poll loop takes to end
    HalfWatchdog,   \* half of WatchdogSec, the ping interval
    DataCap         \* bound: where the age of the data saturates; "never"

WatchdogSec == 2 * HalfWatchdog

ASSUME RecoveryTiming ==
    /\ StallTimeout \in Nat /\ PollMax \in Nat /\ DataCap \in Nat
    /\ CheckEvery \in Nat \ {0}
    /\ RetryDelay \in Nat \ {0} /\ RetryMax \in Nat /\ RetryDelay <= RetryMax
    /\ ConnectMax \in Nat /\ CancelMax \in Nat
    /\ HalfWatchdog \in Nat \ {0}

\* What the deployed configuration and unit file guarantee, and no validator
\* checks: the cheap recovery always goes before the process restart, and a
\* poll that only fails is shorter than a stall.
ASSUME DeployedOrdering ==
    /\ StallTimeout + CheckEvery + CancelMax <= WatchdogSec
    /\ ConnectMax + RetryMax <= WatchdogSec
    /\ PollMax <= StallTimeout

VARIABLES
    sup,        \* the await supervise_poller is in
    supWait,    \* ticks spent in it
    supDelay,   \* connect_with_retry's `current`, in a recovery
    reason,     \* why the running recovery began
    loop,       \* the poll loop task
    loopWait,   \* ticks since it last reported
    startup,    \* the await of run_app's connect task
    startWait,  \* ticks spent in it
    startDelay, \* its `current`
    beat,       \* heartbeat.age(now)
    dataAge,    \* age of the canonical store
    ping,       \* ticks since systemd got WATCHDOG=1 (or READY=1)
    wdWait,     \* ticks since watchdog_loop looked at the heartbeat
    stopEvent

supVars   == <<sup, supWait, supDelay, reason>>
loopVars  == <<loop, loopWait>>
startVars == <<startup, startWait, startDelay>>
wdVars    == <<ping, wdWait>>
vars == <<supVars, loopVars, startVars, beat, dataAge, wdVars, stopEvent>>

BeatCap == WatchdogSec + 1

Connecting == {"connecting", "backoff", "connectHung"}

TypeOK ==
    /\ sup \in {"watch", "cancelling", "leaving", "done"} \cup Connecting
    /\ supWait \in Nat
    /\ supDelay \in RetryDelay .. RetryMax
    /\ reason \in {"none", "stall", "died"}
    /\ loop \in {"begin", "polling", "hung", "ended"}
    /\ loopWait \in 0 .. PollMax
    /\ startup \in {"connected", "ended"} \cup Connecting
    /\ startWait \in Nat
    /\ startDelay \in RetryDelay .. RetryMax
    /\ beat \in 0 .. BeatCap
    /\ dataAge \in 0 .. DataCap
    /\ ping \in 0 .. WatchdogSec
    /\ wdWait \in 0 .. HalfWatchdog
    /\ stopEvent \in {"clear", "set"}

\* run_app has created all its tasks; each has run up to its first await.
\* watchdog_loop ran first, before any heartbeat: it withheld its first ping,
\* but READY=1 has just started systemd's timer.
Init ==
    /\ sup = "watch" /\ supWait = 0 /\ supDelay = RetryDelay /\ reason = "none"
    /\ loop = "begin" /\ loopWait = 0
    /\ startup = "connecting" /\ startWait = 0 /\ startDelay = RetryDelay
    /\ beat = 0
    /\ dataAge = DataCap
    /\ ping = 0 /\ wdWait = 0
    /\ stopEvent = "clear"

-----------------------------------------------------------------------------
(* The poll loop, as the supervisor sees it.                               *)

\* The while test of run_poller.
LoopBegins ==
    /\ loop = "begin"
    /\ loop' = IF stopEvent = "set" THEN "ended" ELSE "polling"
    /\ UNCHANGED <<supVars, loopWait, startVars, beat, dataAge, wdVars, stopEvent>>

\* A poll reports: on_update or on_error, both touch the heartbeat.
PollReports(newDataAge, newBeat) ==
    /\ loop = "polling"
    /\ loop' = "begin"
    /\ loopWait' = 0
    /\ beat' = newBeat
    /\ dataAge' = newDataAge
    /\ UNCHANGED <<supVars, startVars, wdVars, stopEvent>>

\* Mutant of PollFails: on_error does not touch the heartbeat.
PollFailsSilently == PollReports(dataAge, beat)

PollSucceeds == PollReports(0, 0)
PollFails    == PollReports(dataAge, 0)

\* An await that never returns.
PollHangs ==
    /\ loop = "polling"
    /\ loop' = "hung"
    /\ UNCHANGED <<supVars, loopWait, startVars, beat, dataAge, wdVars, stopEvent>>

\* The task ends although nobody stopped it.
LoopDies ==
    /\ loop = "polling"
    /\ loop' = "ended"
    /\ UNCHANGED <<supVars, loopWait, startVars, beat, dataAge, wdVars, stopEvent>>

PollLoop == LoopBegins \/ PollSucceeds \/ PollFails \/ PollHangs \/ LoopDies

-----------------------------------------------------------------------------
(* supervise_poller.                                                       *)

Enter(state) == sup' = state /\ supWait' = 0

\* close, replace_client, then connect_with_retry up to its first await; it
\* returns at once if the event is set, as it does from a backoff.
BeginRebuild(why) ==
    /\ reason' = why
    /\ supDelay' = RetryDelay
    /\ IF stopEvent = "set"
       THEN Enter("backoff") /\ UNCHANGED beat
       ELSE Enter("connecting") /\ beat' = 0

\* start(): a fresh loop starts with a clean slate.
StartLoop ==
    /\ beat' = 0
    /\ loop' = "begin"
    /\ loopWait' = 0

\* Mutants of Stalled: one tick early; the watchdog's limit instead.
StalledEarly      == beat >= StallTimeout
StalledAtWatchdog == beat > WatchdogSec

Stalled == beat > StallTimeout

\* The check interval is over and the event is not set.
CheckLoop ==
    /\ sup = "watch"
    /\ supWait >= CheckEvery
    /\ stopEvent = "clear"
    /\ \/ /\ loop = "ended"
          /\ BeginRebuild("died")
       \/ /\ loop # "ended" /\ Stalled
          /\ Enter("cancelling")
          /\ UNCHANGED <<reason, supDelay, beat>>
       \/ /\ loop # "ended" /\ ~Stalled
          /\ Enter("watch")
          /\ UNCHANGED <<reason, supDelay, beat>>
    /\ UNCHANGED <<loopVars, startVars, dataAge, wdVars, stopEvent>>

\* The cancelled loop has ended.
LoopCancelled ==
    /\ sup = "cancelling"
    /\ loop' = "ended"
    /\ loopWait' = 0
    /\ BeginRebuild("stall")
    /\ UNCHANGED <<startVars, dataAge, wdVars, stopEvent>>

\* connect() returned False; the loop of connect_with_retry sleeps.
RebuildAttemptFails ==
    /\ sup = "connecting"
    /\ Enter("backoff")
    /\ UNCHANGED <<supDelay, reason, loopVars, startVars, beat, dataAge, wdVars, stopEvent>>

Doubled(delay) == IF 2 * delay <= RetryMax THEN 2 * delay ELSE RetryMax

\* Mutant of RebuildRetries: connect_with_retry is not given the heartbeat.
RebuildRetriesSilently ==
    /\ sup = "backoff"
    /\ supWait >= supDelay
    /\ stopEvent = "clear"
    /\ Enter("connecting")
    /\ supDelay' = Doubled(supDelay)
    /\ UNCHANGED <<beat, reason, loopVars, startVars, dataAge, wdVars, stopEvent>>

RebuildRetries ==
    /\ sup = "backoff"
    /\ supWait >= supDelay
    /\ stopEvent = "clear"
    /\ Enter("connecting")
    /\ supDelay' = Doubled(supDelay)
    /\ beat' = 0
    /\ UNCHANGED <<reason, loopVars, startVars, dataAge, wdVars, stopEvent>>

\* Mutants of RebuildEnds: the rebuilt loop is not started; a stop during the
\* backoff leads to one more attempt.
RebuildEndsUnstarted ==
    /\ sup = "connecting" \/ (sup = "backoff" /\ stopEvent = "set")
    /\ Enter("watch")
    /\ reason' = "none"
    /\ supDelay' = RetryDelay
    /\ UNCHANGED <<loopVars, beat, startVars, dataAge, wdVars, stopEvent>>

RebuildEndsUnstoppable ==
    /\ \/ sup = "connecting" /\ StartLoop /\ Enter("watch")
       \/ /\ sup = "backoff" /\ stopEvent = "set"
          /\ Enter("connecting")
          /\ beat' = 0
          /\ UNCHANGED loopVars
    /\ UNCHANGED <<reason, supDelay, startVars, dataAge, wdVars, stopEvent>>

\* connect_with_retry returns: connected, or stopped.
RebuildEnds ==
    /\ \/ sup = "connecting"
       \/ sup = "backoff" /\ stopEvent = "set"
    /\ StartLoop
    /\ Enter("watch")
    /\ reason' = "none"
    /\ supDelay' = RetryDelay
    /\ UNCHANGED <<startVars, dataAge, wdVars, stopEvent>>

\* connect() never returns.
RebuildHangs ==
    /\ sup = "connecting"
    /\ sup' = "connectHung"
    /\ UNCHANGED <<supWait, supDelay, reason, loopVars, startVars, beat, dataAge,
                   wdVars, stopEvent>>

\* Mutant of StopWatching: there is no finally block.
StopWatchingUncancelled ==
    /\ sup = "watch"
    /\ stopEvent = "set"
    /\ Enter("done")
    /\ UNCHANGED <<supDelay, reason, loopVars, startVars, beat, dataAge, wdVars, stopEvent>>

\* stop_event is set: the finally block cancels the loop.
StopWatching ==
    /\ sup = "watch"
    /\ stopEvent = "set"
    /\ Enter("leaving")
    /\ UNCHANGED <<supDelay, reason, loopVars, startVars, beat, dataAge, wdVars, stopEvent>>

LoopStopped ==
    /\ sup = "leaving"
    /\ Enter("done")
    /\ loop' = "ended"
    /\ loopWait' = 0
    /\ UNCHANGED <<supDelay, reason, startVars, beat, dataAge, wdVars, stopEvent>>

Supervise ==
    \/ CheckLoop \/ LoopCancelled \/ RebuildAttemptFails \/ RebuildRetries
    \/ RebuildEnds \/ StopWatching \/ LoopStopped

-----------------------------------------------------------------------------
(* The connect task run_app starts beside the poll loop.                   *)

StartupStep(state) ==
    /\ startup' = state
    /\ startWait' = 0
    /\ UNCHANGED <<supVars, loopVars, dataAge, wdVars, stopEvent>>

StartupConnects ==
    /\ startup = "connecting"
    /\ StartupStep("connected")
    /\ UNCHANGED <<startDelay, beat>>

StartupAttemptFails ==
    /\ startup = "connecting"
    /\ StartupStep("backoff")
    /\ UNCHANGED <<startDelay, beat>>

StartupRetries ==
    /\ startup = "backoff"
    /\ startWait >= startDelay
    /\ stopEvent = "clear"
    /\ StartupStep("connecting")
    /\ startDelay' = Doubled(startDelay)
    /\ beat' = 0

StartupStops ==
    /\ startup = "backoff"
    /\ stopEvent = "set"
    /\ StartupStep("ended")
    /\ UNCHANGED <<startDelay, beat>>

StartupHangs ==
    /\ startup = "connecting"
    /\ StartupStep("connectHung")
    /\ UNCHANGED <<startDelay, beat>>

\* run_app's finally block cancels the task.
StartupCancelled ==
    /\ sup = "done"
    /\ startup # "ended"
    /\ StartupStep("ended")
    /\ UNCHANGED <<startDelay, beat>>

Startup ==
    \/ StartupConnects \/ StartupAttemptFails \/ StartupRetries \/ StartupStops
    \/ StartupCancelled

-----------------------------------------------------------------------------
(* The watchdog and systemd.                                               *)

WatchdogLooks ==
    /\ wdWait >= HalfWatchdog
    /\ stopEvent = "clear"
    /\ wdWait' = 0
    /\ ping' = IF beat <= WatchdogSec THEN 0 ELSE ping
    /\ UNCHANGED <<supVars, loopVars, startVars, beat, dataAge, stopEvent>>

\* WatchdogSec without a ping: systemd kills the process and starts it again.
SystemdRestarts ==
    /\ ping >= WatchdogSec
    /\ stopEvent = "clear"
    /\ sup' = "watch" /\ supWait' = 0 /\ supDelay' = RetryDelay /\ reason' = "none"
    /\ loop' = "begin" /\ loopWait' = 0
    /\ startup' = "connecting" /\ startWait' = 0 /\ startDelay' = RetryDelay
    /\ beat' = 0
    /\ dataAge' = DataCap
    /\ ping' = 0 /\ wdWait' = 0
    /\ UNCHANGED stopEvent

RequestStop ==
    /\ stopEvent = "clear"
    /\ stopEvent' = "set"
    /\ UNCHANGED <<supVars, loopVars, startVars, beat, dataAge, wdVars>>

-----------------------------------------------------------------------------
Older(age, cap) == IF age < cap THEN age + 1 ELSE cap

\* No coroutine is due: time passes.
Idle ==
    /\ loop # "begin"
    /\ loop = "polling" => loopWait < PollMax
    /\ sup = "watch" => supWait < CheckEvery /\ stopEvent = "clear"
    /\ sup \in {"cancelling", "leaving"} => supWait < CancelMax
    /\ sup = "connecting" => supWait < ConnectMax
    /\ sup = "backoff" => supWait < supDelay /\ stopEvent = "clear"
    /\ startup = "connecting" => startWait < ConnectMax
    /\ startup = "backoff" => startWait < startDelay /\ stopEvent = "clear"
    /\ stopEvent = "clear" => wdWait < HalfWatchdog /\ ping < WatchdogSec

Tick ==
    /\ Idle
    /\ supWait' = IF sup \in {"done", "connectHung"} THEN supWait ELSE supWait + 1
    /\ loopWait' = IF loop = "polling" THEN loopWait + 1 ELSE loopWait
    /\ startWait' = IF startup \in {"connecting", "backoff"} THEN startWait + 1 ELSE startWait
    /\ beat' = Older(beat, BeatCap)
    /\ dataAge' = Older(dataAge, DataCap)
    /\ IF stopEvent = "clear"
       THEN ping' = Older(ping, WatchdogSec) /\ wdWait' = Older(wdWait, HalfWatchdog)
       ELSE UNCHANGED wdVars
    /\ UNCHANGED <<sup, supDelay, reason, loop, startup, startDelay, stopEvent>>

Watchdog == WatchdogLooks \/ SystemdRestarts

Next ==
    \/ PollLoop \/ Supervise \/ RebuildHangs \/ Startup \/ StartupHangs
    \/ Watchdog \/ RequestStop \/ Tick

Spec == Init /\ [][Next]_vars

(***************************************************************************)
(* Fairness: the loop runs ready coroutines, connect attempts and cancels  *)
(* that do not hang return, systemd acts, time passes.                     *)
(***************************************************************************)
FairSpec ==
    /\ Spec
    /\ WF_vars(LoopBegins) /\ WF_vars(PollSucceeds \/ PollFails)
    /\ WF_vars(Supervise) /\ WF_vars(Startup) /\ WF_vars(Watchdog) /\ WF_vars(Tick)

-----------------------------------------------------------------------------
(* Properties.                                                             *)

\* README: "An unreachable source is *not* a stall".  Only a poll loop that
\* really hangs is cancelled; failed polls keep the heartbeat young.
UnreachableIsNotStall ==
    [][sup = "watch" /\ sup' = "cancelling" /\ stopEvent = "clear" => loop = "hung"]_vars

\* A stalled loop is being cancelled, or its client rebuilt.
FromStall == sup = "cancelling" \/ reason = "stall"

\* No sample is stored from the last one before a stall until its recovery is
\* over: meanwhile the data is older than the stall timeout.
StallOutdatesData == FromStall => dataAge > StallTimeout \/ dataAge = DataCap

\* The process is restarted only if a connect inside a recovery never
\* returned: neither a hung poll nor an unreachable source escalates.
RestartIsLastResort == ping >= WatchdogSec /\ stopEvent = "clear" => sup = "connectHung"

\* supervise_poller never leaves a poll loop running when it ends, and a
\* rebuilt client is not polled before it is connected.
NoOrphanLoop ==
    sup \in {"done"} \cup Connecting => loop = "ended"

\* README: "A poll loop that stops making progress for source.stall_timeout_s
\* is torn down and rebuilt in place".  It holds only where the startup task's
\* retries (which touch the same heartbeat) are further apart than a stall.
HungLoopTornDown == loop = "hung" ~> (loop # "hung" \/ stopEvent = "set")

\* Unless the source refuses connects for ever, a dead or hung poll loop is
\* always replaced, in process or (if the rebuild hangs) by systemd, or the
\* bridge is stopped.  Either connect task retrying for ever would mask both.
LoopComesBack ==
    /\ []<>(sup \notin {"connecting", "backoff"})
    /\ []<>(startup \notin {"connecting", "backoff"})
    => (loop \in {"hung", "ended"} ~> (loop \in {"begin", "polling"} \/ stopEvent = "set"))

\* SIGTERM ends the supervisor, except inside a connect that never returns.
StopEndsRecovery == stopEvent = "set" ~> (sup = "done" \/ sup = "connectHung")
=============================================================================
