----------------------------- MODULE DtsuServer -----------------------------
(***************************************************************************)
(* The output side of one bridge: supervise_server (dtsu_server.py), the   *)
(* coroutine that answers Modbus requests of the Sigenergy inverter only   *)
(* while the meter data is fresh, together with the pymodbus server task   *)
(* it starts and closes.                                                   *)
(*                                                                         *)
(* The supervisor is one coroutine of an asyncio loop, so what it does     *)
(* between two awaits is one action.  It awaits in four places: while it   *)
(* closes a dead server, while it closes a server whose data went stale,   *)
(* while it sleeps until the next check, and in its finally block.  The    *)
(* clock and the age of the data are read once per iteration, BEFORE the   *)
(* first of these awaits, and used after it.                               *)
(*                                                                         *)
(* Time is counted in ticks; ages saturate just above the largest value    *)
(* the code compares them with, which keeps the state space finite and     *)
(* changes no comparison.                                                  *)
(***************************************************************************)
EXTENDS Integers

CONSTANTS
    MaxAge,         \* safety.max_data_age_s
    CheckInterval,  \* safety.check_interval_s
    MinRestart,     \* safety.min_restart_interval_s
    DeadGrace,      \* dead_start_grace
    MaxClose        \* the longest a close (shutdown and task cancel) takes

ASSUME ServerTiming ==
    /\ MaxAge \in Nat
    /\ CheckInterval \in Nat \ {0}
    /\ MinRestart \in Nat
    /\ DeadGrace \in Nat
    /\ MaxClose \in Nat

VARIABLES
    dataAge,     \* CanonicalStore.age(now); AgeCap stands for "never updated"
    pc,          \* where supervise_server is
    elapsed,     \* ticks since it began the close or the sleep it is in
    seen,        \* age and time since last_start, as captured by the check
    task,        \* the task running serve_forever(); "none": server is None
    transport,   \* the serial port or the TCP listener of that server
    sinceStart,  \* now - last_start; StartCap also stands for None
    status,      \* ServerStatus.status, exported as dtsu_server_up
    stopEvent,   \* stop_event, "set" by SIGTERM
    uptime       \* history: ticks since the latest server was really created

vars == <<dataAge, pc, elapsed, seen, task, transport, sinceStart,
          status, stopEvent, uptime>>
supervisorVars == <<pc, elapsed, seen, task, transport, sinceStart,
                    status, uptime>>

-----------------------------------------------------------------------------
ServeBound == MaxAge + CheckInterval + 2 * MaxClose
AgeCap     == ServeBound + 1
StartCap   == IF MinRestart >= DeadGrace THEN MinRestart ELSE DeadGrace

Closing == {"closeDead", "closeStale", "closeFinal"}

TypeOK ==
    /\ dataAge \in 0 .. AgeCap
    /\ pc \in {"check", "wait", "done"} \cup Closing
    /\ elapsed \in Nat
    /\ seen \in [age : 0 .. AgeCap, since : 0 .. StartCap]
    /\ task \in {"none", "alive", "ended"}
    /\ transport \in {"none", "opening", "open", "unopened"}
    /\ sinceStart \in 0 .. StartCap
    /\ status \in {"up", "down"}
    /\ stopEvent \in {"clear", "set"}
    /\ uptime \in 0 .. StartCap

Init ==
    /\ dataAge = AgeCap
    /\ pc = "check"
    /\ elapsed = 0
    /\ seen = [age |-> AgeCap, since |-> StartCap]
    /\ task = "none"
    /\ transport = "none"
    /\ sinceStart = StartCap
    /\ status = "down"
    /\ stopEvent = "clear"
    /\ uptime = StartCap

-----------------------------------------------------------------------------
(* The decisions of one check.                                             *)

ServerUp == task # "none"

ShouldServe(age) == age <= MaxAge

\* The transport is not active: is_active() is false until it opens.
ListenNeverOpened == transport # "open"

\* Mutants of ServerAction: the stop is forgotten; the throttle is.
ServerActionNeverStops(fresh, isUp, since) ==
    IF fresh /\ ~isUp THEN IF since >= MinRestart THEN "start" ELSE "wait" ELSE "none"

ServerActionUnthrottled(fresh, isUp, since) ==
    IF fresh /\ ~isUp THEN "start" ELSE IF ~fresh /\ isUp THEN "stop" ELSE "none"

ServerAction(fresh, isUp, since) ==
    IF fresh /\ ~isUp
    THEN IF since >= MinRestart THEN "start" ELSE "wait"
    ELSE IF ~fresh /\ isUp THEN "stop" ELSE "none"

\* Mutants of MustReplace: no grace period; a task that ended is not noticed.
MustReplaceAtOnce == task = "ended" \/ (task = "alive" /\ ListenNeverOpened)
MustReplaceOnlyUnopened == task = "alive" /\ ListenNeverOpened /\ sinceStart >= DeadGrace

MustReplace ==
    \/ task = "ended"
    \/ task = "alive" /\ ListenNeverOpened /\ sinceStart >= DeadGrace

\* last_start = t, the time captured `lag` ticks ago.
StartServer(lag) ==
    /\ task' = "alive"
    /\ transport' = "opening"
    /\ sinceStart' = IF lag < StartCap THEN lag ELSE StartCap
    /\ status' = "up"
    /\ uptime' = 0

\* Mutant of DropServer: the reference is dropped, the server is not closed.
DropServerUnclosed ==
    /\ task' = "none"
    /\ status' = "down"
    /\ UNCHANGED <<transport, sinceStart, uptime>>

\* server, serve_task = None, None after the close; _mark_down().
DropServer ==
    /\ task' = "none"
    /\ transport' = "none"
    /\ status' = "down"
    /\ UNCHANGED <<sinceStart, uptime>>

KeepServer ==
    UNCHANGED <<task, transport, sinceStart, status, uptime>>

\* wait_for(stop_event.wait(), check_interval)
Sleep == pc' = "wait" /\ elapsed' = 0

\* A close begins: the first await of the iteration.
BeginClose(how) == pc' = how /\ elapsed' = 0

-----------------------------------------------------------------------------
(* The supervisor.                                                         *)

\* One iteration up to its first await.
Check ==
    /\ pc = "check"
    /\ stopEvent = "clear"
    /\ seen' = [age |-> dataAge, since |-> sinceStart]
    /\ LET action == ServerAction(ShouldServe(dataAge), ServerUp, sinceStart)
       IN  \/ MustReplace /\ BeginClose("closeDead") /\ KeepServer
           \/ ~MustReplace /\ action = "stop" /\ BeginClose("closeStale") /\ KeepServer
           \/ ~MustReplace /\ action = "start" /\ StartServer(0) /\ Sleep
           \/ ~MustReplace /\ action \in {"none", "wait"} /\ KeepServer /\ Sleep
    /\ UNCHANGED <<dataAge, stopEvent>>

\* The dead server is closed; the same iteration goes on with what it
\* captured before the close.
ReplaceDead ==
    /\ pc = "closeDead"
    /\ IF ServerAction(ShouldServe(seen.age), FALSE, seen.since) = "start"
       THEN StartServer(elapsed)
       ELSE DropServer
    /\ Sleep
    /\ UNCHANGED <<dataAge, seen, stopEvent>>

\* Fail-safe: the server is closed because the data is stale.
GoSilent ==
    /\ pc = "closeStale"
    /\ DropServer
    /\ Sleep
    /\ UNCHANGED <<dataAge, seen, stopEvent>>

Wake ==
    /\ pc = "wait"
    /\ stopEvent = "set" \/ elapsed >= CheckInterval
    /\ pc' = "check"
    /\ elapsed' = 0
    /\ KeepServer
    /\ UNCHANGED <<dataAge, seen, stopEvent>>

\* Mutant of Leave: there is no finally block.
LeaveServing ==
    /\ pc = "check"
    /\ stopEvent = "set"
    /\ pc' = "done"
    /\ elapsed' = 0
    /\ KeepServer
    /\ UNCHANGED <<dataAge, seen, stopEvent>>

\* The loop is left; the finally block closes the server if there is one.
Leave ==
    /\ pc = "check"
    /\ stopEvent = "set"
    /\ \/ ServerUp /\ BeginClose("closeFinal") /\ KeepServer
       \/ ~ServerUp /\ pc' = "done" /\ elapsed' = 0 /\ DropServer
    /\ UNCHANGED <<dataAge, seen, stopEvent>>

Finish ==
    /\ pc = "closeFinal"
    /\ pc' = "done"
    /\ elapsed' = 0
    /\ DropServer
    /\ UNCHANGED <<dataAge, seen, stopEvent>>

Supervisor == Check \/ ReplaceDead \/ GoSilent \/ Wake \/ Leave \/ Finish

-----------------------------------------------------------------------------
(* The pymodbus server, as supervise_server uses it.                       *)

TransportStep(from, to) ==
    /\ task = "alive"
    /\ transport = from
    /\ transport' = to
    /\ UNCHANGED <<dataAge, pc, elapsed, seen, task, sinceStart,
                   status, stopEvent, uptime>>

PortOpens      == TransportStep("opening", "open")
PortFailsToOpen == TransportStep("opening", "unopened")
PortLost       == TransportStep("open", "unopened")

\* serve_forever() returns or raises; it may leave its socket open.
TaskEnds ==
    /\ task = "alive"
    /\ task' = "ended"
    /\ transport' \in {transport, "unopened"}
    /\ UNCHANGED <<dataAge, pc, elapsed, seen, sinceStart, status,
                   stopEvent, uptime>>

Transport == PortOpens \/ PortFailsToOpen \/ PortLost \/ TaskEnds

-----------------------------------------------------------------------------
(* The rest of the process: the poll loop stores a sample; SIGTERM.        *)

Publish ==
    /\ dataAge # 0
    /\ dataAge' = 0
    /\ UNCHANGED <<supervisorVars, stopEvent>>

RequestStop ==
    /\ stopEvent = "clear"
    /\ stopEvent' = "set"
    /\ UNCHANGED <<supervisorVars, dataAge>>

\* Time passes only when no coroutine is ready to run: the loop is idle.
LoopIdle ==
    /\ pc # "check"
    /\ pc = "wait" => elapsed < CheckInterval /\ stopEvent = "clear"
    /\ pc \in Closing => elapsed < MaxClose

Older(age, cap) == IF age < cap THEN age + 1 ELSE cap

\* The clocks of the supervisor and of its server.
ClocksAdvance ==
    /\ elapsed' = IF pc = "done" THEN elapsed ELSE elapsed + 1
    /\ sinceStart' = Older(sinceStart, StartCap)
    /\ uptime' = Older(uptime, StartCap)
    /\ UNCHANGED <<pc, seen, task, transport, status>>

Tick ==
    /\ LoopIdle
    /\ dataAge' = Older(dataAge, AgeCap)
    /\ ClocksAdvance
    /\ UNCHANGED stopEvent

Next == Supervisor \/ Transport \/ Publish \/ RequestStop \/ Tick

Spec == Init /\ [][Next]_vars

(***************************************************************************)
(* Fairness: the asyncio loop runs a ready coroutine, an awaited close     *)
(* ends, and time passes.  Nothing is assumed of the transport.            *)
(***************************************************************************)
FairSpec == Spec /\ WF_vars(Supervisor) /\ WF_vars(Tick)

(***************************************************************************)
(* In addition, a port that is tried again and again opens in the end.     *)
(***************************************************************************)
PortFairSpec == FairSpec /\ SF_vars(PortOpens)

-----------------------------------------------------------------------------
(* Properties.                                                             *)

\* Fail-safe: a request is never answered from data older than the age limit
\* plus one check interval plus two closes.  Two, because supervise_server
\* uses the age captured before it awaited the close of a dead server.
BoundedServe == transport = "open" => dataAge <= ServeBound

\* dtsu_server_up never reads 0 while a transport may still be answering, and
\* a supervisor that ended leaves no transport behind (every branch of
\* supervise_server closes the server before it drops the reference).
NoUnreportedService ==
    /\ status = "down" => transport = "none"
    /\ pc = "done" => transport = "none" /\ task = "none"

\* Flapping data or a flapping port never restarts the transport faster than
\* the restart throttle, less the close the captured clock reading predates.
RestartThrottled ==
    [][uptime' < uptime => uptime >= MinRestart - MaxClose]_vars

\* A server that is still opening its port is given the grace period, less
\* one close, before supervise_server gives it up as "never opened".
OpeningGetsGrace ==
    [][transport = "opening" /\ pc' = "closeDead" /\ pc # "closeDead" /\ task = "alive"
          => uptime >= DeadGrace - MaxClose]_vars

\* If the data stays fresh and nobody stops the bridge, the meter comes back
\* again and again, whatever the port does, as long as it can be opened.
FreshDataIsServed ==
    <>[](ShouldServe(dataAge) /\ stopEvent = "clear") => []<>(transport = "open")

\* SIGTERM ends the supervisor with its transport closed, from any await.
StopTerminates == stopEvent = "set" ~> (pc = "done" /\ transport = "none")

-----------------------------------------------------------------------------
(* What the repository says and the code does not do.                      *)

\* README, metric dtsu_server_up: "1 while the output transport is actually
\* serving (0 = fail-safe or port problem)".
PortProblemIsReported == transport = "unopened" ~> (transport = "open" \/ status = "down")
=============================================================================
