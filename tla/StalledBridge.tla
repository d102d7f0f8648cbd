--------------------------- MODULE StalledBridge ---------------------------
(***************************************************************************)
(* A bridge whose poll loop may stall: its recovery (Recovery.tla, with    *)
(* the heartbeat, the watchdog and systemd) and its output (DtsuServer.tla)*)
(* as coroutines of one process.  Neither calls the other.  They share the *)
(* stop event and the age of the canonical store: the poll loop that one   *)
(* of them cancels and rebuilds is all that keeps the other serving.       *)
(***************************************************************************)
EXTENDS DtsuServer

CONSTANTS
    StallTimeout,   \* source.stall_timeout_s
    CheckEvery,     \* min(safety.check_interval_s, stall_timeout_s / 2)
    PollMax, RetryDelay, RetryMax, ConnectMax, CancelMax, HalfWatchdog

VARIABLES
    sup, supWait, supDelay, reason,     \* supervise_poller
    loop, loopWait,                     \* the poll loop
    startup, startWait, startDelay,     \* the startup connect task
    beat,                               \* the heartbeat
    ping, wdWait                        \* the watchdog

recoveryVars == <<sup, supWait, supDelay, reason, loop, loopWait,
                  startup, startWait, startDelay, beat, ping, wdWait>>
stalledVars == <<vars, recoveryVars>>

Rec == INSTANCE Recovery WITH DataCap <- AgeCap

\* As in Recovery.tla; no validator relates StallTimeout to MaxAge.
ASSUME StalledTiming == Rec!RecoveryTiming /\ Rec!DeployedOrdering

StalledInit == Init /\ Rec!Init

-----------------------------------------------------------------------------
ServerStep ==
    /\ Supervisor \/ Transport
    /\ UNCHANGED recoveryVars

\* The finally block of run_app runs when both supervisors have returned.
StartupStep ==
    \/ Rec!StartupConnects \/ Rec!StartupAttemptFails \/ Rec!StartupRetries
    \/ Rec!StartupStops \/ Rec!StartupHangs
    \/ Rec!StartupCancelled /\ pc = "done"

\* Of these steps only a good poll changes the age of the data.
RecoveryStep ==
    /\ \/ Rec!PollLoop \/ Rec!Supervise \/ Rec!RebuildHangs
       \/ StartupStep \/ Rec!WatchdogLooks
    /\ UNCHANGED supervisorVars

\* A new process: nothing is stored, nothing is served.
ProcessRestarts ==
    /\ Rec!SystemdRestarts
    /\ pc' = "check" /\ elapsed' = 0
    /\ seen' = [age |-> AgeCap, since |-> StartCap]
    /\ task' = "none" /\ transport' = "none" /\ status' = "down"
    /\ sinceStart' = StartCap /\ uptime' = StartCap

Stopped    == RequestStop /\ Rec!RequestStop
ClockTicks == Tick /\ Rec!Tick

StalledNext == ServerStep \/ RecoveryStep \/ ProcessRestarts \/ Stopped \/ ClockTicks

StalledSpec == StalledInit /\ [][StalledNext]_stalledVars

-----------------------------------------------------------------------------
(* Properties.                                                             *)

\* supervise_poller: "Throughout a recovery this bridge's output stays
\* silenced".  From the moment a hung poll loop is cancelled until its rebuilt
\* client is polled, no port answers.  It is so if a stall lasts at least as
\* long as the gate may go on serving, closes and check intervals included.
RecoveryIsSilent == Rec!FromStall => transport # "open"
=============================================================================
