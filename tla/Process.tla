------------------------------ MODULE Process ------------------------------
(***************************************************************************)
(* The whole process: run_app gathers the two coroutines of every bridge   *)
(* (supervise_poller and supervise_server), asyncio.run cancels what is    *)
(* left when run_app returns, and systemd restarts the process.            *)
(*                                                                         *)
(* gather is used without return_exceptions and stop_event is not set when *)
(* one coroutine raises, so the others go on while run_app cleans up, and  *)
(* asyncio.run then cancels each of them ONCE.  A coroutine that is at     *)
(* that moment awaiting a task it cancels itself takes the CancelledError  *)
(* for that task's and goes on as if nothing had happened.                 *)
(*                                                                         *)
(* Timing is that of DtsuServer and Recovery; here every timeout may fire  *)
(* at any time.  wait_closed is that of Python 3.12, the newest version    *)
(* the CI runs: it waits for the open connections of the endpoint.         *)
(***************************************************************************)
CONSTANT Bridges

ASSUME SomeBridge == Bridges # {}

VARIABLES
    supervised,  \* the process is a systemd service with a watchdog
    phase,       \* where run_app and asyncio.run are
    stop,        \* stop_event, set by SIGTERM or SIGINT
    poller,      \* [bridge -> where supervise_poller is]
    loop,        \* [bridge -> its run_poller task]
    server,      \* [bridge -> where supervise_server is]
    up,          \* [bridge -> its output transport exists]
    metrics,     \* the task of serve_metrics
    scrape       \* one _handle whose peer does not read the response

bridgeVars == <<poller, loop, server, up>>
vars == <<supervised, phase, stop, bridgeVars, metrics, scrape>>

Ended == {"done", "raised"}

Failed == \E b \in Bridges : "raised" \in {poller[b], server[b]}

AllEnded == \A b \in Bridges : poller[b] \in Ended /\ server[b] \in Ended

Everywhere(value) == [b \in Bridges |-> value]

\* The endpoint is optional: metrics.start returns None when it is disabled.
Init ==
    /\ supervised \in BOOLEAN
    /\ phase = "running" /\ stop = FALSE
    /\ poller = Everywhere("watch") /\ loop = Everywhere("live")
    /\ server = Everywhere("wait") /\ up = Everywhere(FALSE)
    /\ metrics \in {"serving", "done"} /\ scrape = "none"

Alive == phase # "exited"

-----------------------------------------------------------------------------
(* run_poller: a poll hangs, a bug ends the loop, the stop event ends it,  *)
(* a cancellation is delivered.                                            *)

LoopFails(b) ==
    /\ Alive /\ loop[b] = "live"
    /\ \E fate \in {"hung", "over"} : loop' = [loop EXCEPT ![b] = fate]
    /\ UNCHANGED <<supervised, phase, stop, poller, server, up, metrics, scrape>>

LoopEnds(b) ==
    /\ Alive
    /\ loop[b] = "cancelled" \/ (loop[b] = "live" /\ stop)
    /\ loop' = [loop EXCEPT ![b] = "over"]
    /\ UNCHANGED <<supervised, phase, stop, poller, server, up, metrics, scrape>>

(* supervise_poller.                                                       *)

MovePoller(b, to) ==
    /\ poller' = [poller EXCEPT ![b] = to]
    /\ UNCHANGED <<supervised, phase, stop, server, up, metrics, scrape>>

CancelledLoop(b) == IF loop[b] = "over" THEN "over" ELSE "cancelled"

\* A stalled loop is cancelled and awaited; the stop event is not looked at
\* again between the timeout of the wait and this.
CancelStalled(b) ==
    /\ Alive /\ poller[b] = "watch" /\ loop[b] = "hung"
    /\ loop' = [loop EXCEPT ![b] = "cancelled"]
    /\ MovePoller(b, "cancelling")

\* The loop is gone, cancelled or dead: its client is closed and rebuilt.
\* Reading the exception of a cancelled task, and building a client, raise.
Rebuild(b) ==
    /\ Alive /\ poller[b] \in {"watch", "cancelling"} /\ loop[b] = "over"
    /\ \E next \in {"connecting", "raised"} : MovePoller(b, next)
    /\ UNCHANGED loop

\* connect_with_retry returns when connected, or after an attempt with the
\* stop event set; supervise_poller then starts a loop in either case, and
\* leaves, cancelling it, when the event is set.
ConnectReturns(b) ==
    /\ Alive /\ poller[b] = "connecting"
    /\ loop' = [loop EXCEPT ![b] = IF stop THEN "cancelled" ELSE "live"]
    /\ MovePoller(b, IF stop THEN "leaving" ELSE "watch")

\* client.connect() never returns, or raises.
ConnectBreaks(b) ==
    /\ Alive /\ poller[b] = "connecting"
    /\ \E next \in {"held", "raised"} : MovePoller(b, next)
    /\ UNCHANGED loop

\* Mutant of PollerSeesStop: the finally block awaits the loop uncancelled.
PollerSeesStopPatient(b) ==
    /\ Alive /\ poller[b] = "watch" /\ stop
    /\ MovePoller(b, "leaving")
    /\ UNCHANGED loop

PollerSeesStop(b) ==
    /\ Alive /\ poller[b] = "watch" /\ stop
    /\ loop' = [loop EXCEPT ![b] = CancelledLoop(b)]
    /\ MovePoller(b, "leaving")

PollerLeaves(b) ==
    /\ Alive /\ poller[b] = "leaving" /\ loop[b] = "over"
    /\ MovePoller(b, "done")
    /\ UNCHANGED loop

-----------------------------------------------------------------------------
(* supervise_server.  "closing" awaits shutdown(), "reaping" awaits the    *)
(* cancelled serve task, "final" is the finally block with a server.       *)

MoveServer(b, to) ==
    /\ server' = [server EXCEPT ![b] = to]
    /\ UNCHANGED <<supervised, phase, stop, poller, loop, metrics, scrape>>

StartServer(b) ==
    /\ Alive /\ server[b] = "wait" /\ ~stop /\ ~up[b]
    /\ up' = [up EXCEPT ![b] = TRUE]
    /\ MoveServer(b, "wait")

\* The factory is called outside any try.
FactoryRaises(b) ==
    /\ Alive /\ server[b] = "wait" /\ ~stop /\ ~up[b]
    /\ MoveServer(b, "raised")
    /\ UNCHANGED up

\* Stale data, a serve task that ended, or a port that never opened.
CloseServer(b) ==
    /\ Alive /\ server[b] = "wait" /\ ~stop /\ up[b]
    /\ MoveServer(b, "closing")
    /\ UNCHANGED up

\* The iteration goes on after the close, without a look at the stop event:
\* it may start the next server, or fail to make one.
RestOfIteration(b) ==
    \/ up' = [up EXCEPT ![b] = FALSE] /\ MoveServer(b, "wait")
    \/ up' = [up EXCEPT ![b] = TRUE]  /\ MoveServer(b, "wait")
    \/ up' = [up EXCEPT ![b] = FALSE] /\ MoveServer(b, "raised")

\* A serve task that ended by itself is not awaited.
ServerClosed(b) ==
    /\ Alive /\ server[b] = "closing"
    /\ \/ RestOfIteration(b)
       \/ up' = [up EXCEPT ![b] = FALSE] /\ MoveServer(b, "reaping")

ServerReaped(b) ==
    /\ Alive /\ server[b] = "reaping"
    /\ RestOfIteration(b)

ServerSeesStop(b) ==
    /\ Alive /\ server[b] = "wait" /\ stop
    /\ MoveServer(b, IF up[b] THEN "final" ELSE "done")
    /\ UNCHANGED up

ServerLeaves(b) ==
    /\ Alive /\ server[b] = "final"
    /\ up' = [up EXCEPT ![b] = FALSE]
    /\ MoveServer(b, "done")

-----------------------------------------------------------------------------
(* The metrics endpoint: _handle writes the response (drain) and closes    *)
(* the connection (flush), both without a timeout.                         *)

ScrapeSticks ==
    /\ Alive /\ metrics = "serving" /\ scrape = "none"
    /\ scrape' \in {"drain", "flush"}
    /\ UNCHANGED <<supervised, phase, stop, bridgeVars, metrics>>

\* The peer reads at last, or its connection breaks.
ScrapeEnds ==
    /\ Alive /\ scrape # "none"
    /\ scrape' = "none"
    /\ UNCHANGED <<supervised, phase, stop, bridgeVars, metrics>>

\* serve_metrics leaves on the stop event, and waits for open connections.
MetricsSeesStop ==
    /\ Alive /\ metrics = "serving" /\ stop
    /\ metrics' = "closing"
    /\ UNCHANGED <<supervised, phase, stop, bridgeVars, scrape>>

MetricsClosed ==
    /\ Alive /\ metrics \in {"closing", "cancelled"} /\ scrape = "none"
    /\ metrics' = "done"
    /\ UNCHANGED <<supervised, phase, stop, bridgeVars, scrape>>

\* What metrics.stop's cancel() does: it interrupts a wait for connections,
\* but a task that still serves only begins that wait; one whose port could
\* not be bound ends at once.
CancelledMetrics ==
    IF metrics = "serving" THEN {"cancelled", "done"} ELSE {"done"}

-----------------------------------------------------------------------------
(* run_app and asyncio.run.                                                *)

\* Mutant of GatherDone: the first coroutine to end ends it.
GatherDoneAtFirst ==
    Failed \/ \E b \in Bridges : poller[b] \in Ended \/ server[b] \in Ended

\* gather ends with the first exception, or when all have returned; the
\* watchdog loop is one of them and returns on the stop event.
GatherDone == Failed \/ (AllEnded /\ (supervised => stop))

GatherReturns ==
    /\ phase = "running" /\ GatherDone
    /\ phase' = "connects"
    /\ UNCHANGED <<supervised, stop, bridgeVars, metrics, scrape>>

\* The startup connects have been cancelled and awaited.
ConnectsEnded ==
    /\ phase = "connects"
    /\ phase' = "metrics"
    /\ metrics' \in CancelledMetrics
    /\ UNCHANGED <<supervised, stop, bridgeVars, scrape>>

\* With the endpoint closed, every bridge's client is closed, without await.
RunAppReturns ==
    /\ phase = "metrics" /\ metrics = "done"
    /\ phase' = "returned"
    /\ UNCHANGED <<supervised, stop, bridgeVars, metrics, scrape>>

\* Where a coroutine is after CancelledError was thrown at its await.
PollerCancelled(b) ==
    IF poller[b] \in {"watch", "connecting", "held"} THEN "leaving" ELSE poller[b]

\* Mutant of ServerCancelled: no finally block when shutdown() is cut off.
ServerCancelledUnclosed(b) ==
    CASE server[b] = "wait" -> IF up[b] THEN "final" ELSE "done"
      [] server[b] \in {"closing", "final"} -> "done"
      [] OTHER -> server[b]

ServerCancelled(b) ==
    CASE server[b] = "wait"    -> IF up[b] THEN "final" ELSE "done"
      [] server[b] = "closing" -> "final"
      [] server[b] = "final"   -> "done"
      [] OTHER                 -> server[b]

\* A handler cancelled in drain goes on to flush, and is not cancelled again.
ScrapeCancelled == IF scrape = "drain" THEN "flush" ELSE "none"

\* asyncio.run cancels every task.  A finally block cut off in shutdown() may
\* have closed the transport or not.
CancelAll ==
    /\ phase = "returned"
    /\ phase' = "cancelling"
    /\ poller' = [b \in Bridges |-> PollerCancelled(b)]
    /\ loop' = [b \in Bridges |-> CancelledLoop(b)]
    /\ server' = [b \in Bridges |-> ServerCancelled(b)]
    /\ \E closed \in SUBSET {b \in Bridges : server[b] = "final"} :
          up' = [b \in Bridges |-> up[b] /\ b \notin closed]
    /\ scrape' = ScrapeCancelled
    /\ UNCHANGED <<supervised, stop, metrics>>

\* The process is gone and its sockets with it.
Gone ==
    /\ phase' = "exited"
    /\ poller' = Everywhere("done") /\ loop' = Everywhere("over")
    /\ server' = Everywhere("done") /\ up' = Everywhere(FALSE)
    /\ metrics' = "done" /\ scrape' = "none"
    /\ UNCHANGED <<supervised, stop>>

\* asyncio.run waits for every task it cancelled.
Exit ==
    /\ phase = "cancelling" /\ AllEnded /\ scrape = "none"
    /\ Gone

-----------------------------------------------------------------------------
(* systemd: the watchdog, Restart=always, and stopping the service.        *)

Beating(b) == loop[b] = "live" \/ poller[b] = "connecting"

\* Mutant of NoPing: the watchdog loop is not among the cancelled tasks.
NoPingFromHeartbeats == \E b \in Bridges : ~Beating(b)

\* Pings cease when the slowest heartbeat is old, or with the watchdog loop.
NoPing == phase = "cancelling" \/ \E b \in Bridges : ~Beating(b)

WatchdogKill ==
    /\ supervised /\ Alive /\ ~stop /\ NoPing
    /\ Gone

Restart ==
    /\ supervised /\ phase = "exited" /\ ~stop
    /\ phase' = "running"
    /\ poller' = Everywhere("watch") /\ loop' = Everywhere("live")
    /\ server' = Everywhere("wait") /\ up' = Everywhere(FALSE)
    /\ metrics' \in {"serving", "done"} /\ scrape' = "none"
    /\ UNCHANGED <<supervised, stop>>

Terminate ==
    /\ Alive /\ ~stop
    /\ stop' = TRUE
    /\ UNCHANGED <<supervised, phase, bridgeVars, metrics, scrape>>

-----------------------------------------------------------------------------
PollerStep(b) ==
    CancelStalled(b) \/ Rebuild(b) \/ PollerSeesStop(b) \/ PollerLeaves(b)

ServerEnds(b) ==
    \/ ServerClosed(b) \/ ServerReaped(b) \/ ServerSeesStop(b) \/ ServerLeaves(b)

RunStep ==
    \/ GatherReturns \/ ConnectsEnded \/ RunAppReturns \/ CancelAll \/ Exit

Next ==
    \/ \E b \in Bridges :
          \/ LoopFails(b) \/ LoopEnds(b)
          \/ PollerStep(b) \/ ConnectReturns(b) \/ ConnectBreaks(b)
          \/ StartServer(b) \/ FactoryRaises(b) \/ CloseServer(b) \/ ServerEnds(b)
    \/ ScrapeSticks \/ ScrapeEnds \/ MetricsSeesStop \/ MetricsClosed
    \/ RunStep
    \/ WatchdogKill \/ Restart \/ Terminate

\* What the event loop and systemd are sure to do.  Nothing is assumed of the
\* source, which may refuse connects for ever, of the peer of a scrape, or of
\* who sends the signal; an attempt that does not hang returns once stopped.
Fairness ==
    /\ \A b \in Bridges :
          /\ WF_vars(LoopEnds(b)) /\ WF_vars(PollerStep(b)) /\ WF_vars(ServerEnds(b))
          /\ WF_vars(stop /\ ConnectReturns(b))
    /\ WF_vars(MetricsSeesStop) /\ WF_vars(MetricsClosed) /\ WF_vars(RunStep)
    /\ WF_vars(WatchdogKill) /\ WF_vars(Restart)

Spec == Init /\ [][Next]_vars /\ Fairness

-----------------------------------------------------------------------------
(* Every variable has its type.                                            *)
TypeOK ==
    /\ supervised \in BOOLEAN /\ stop \in BOOLEAN
    /\ phase \in {"running", "connects", "metrics", "returned", "cancelling", "exited"}
    /\ poller \in [Bridges -> {"watch", "cancelling", "connecting", "held", "leaving",
                               "done", "raised"}]
    /\ loop \in [Bridges -> {"live", "hung", "cancelled", "over"}]
    /\ server \in [Bridges -> {"wait", "closing", "reaping", "final", "done", "raised"}]
    /\ up \in [Bridges -> BOOLEAN]
    /\ metrics \in {"serving", "closing", "cancelled", "done"}
    /\ scrape \in {"none", "drain", "flush"}

(* However a failure, the cancellation of everything and a signal          *)
(* interleave, an output outlives its supervisor (app.py, gather;          *)
(* dtsu_server.py, the finally block) only while the process is also being *)
(* stopped: no register image is left on the bus with nobody to silence it.*)
NoUngatedService ==
    \A b \in Bridges : up[b] /\ server[b] \in Ended => stop

(* run_app closes the clients (app.py, the end of run_app) after every     *)
(* supervisor has ended, unless one of them raised: only a failure takes   *)
(* the connection away under a poll loop that is still running.            *)
ClientsClosedLast ==
    [][RunAppReturns => Failed \/ AllEnded]_vars

\* A peer that does not read its scrape holds metrics.stop.
HeldByScrape == phase = "metrics" /\ metrics = "cancelled" /\ scrape # "none"

(* A supervised process in which a coroutine raised (app.py, gather) runs  *)
(* again from the start, or is being stopped, even when a sibling survives *)
(* its cancellation; the one exception is a scrape that holds metrics.stop *)
(* while every bridge still polls, so that the watchdog is kept content.   *)
FailureIsRepaired ==
    (supervised /\ Failed) ~>
        \/ phase = "running" /\ ~Failed
        \/ stop
        \/ [](HeldByScrape /\ Failed) /\ []<>~NoPing

(* SIGTERM ends the process (app.py, __main__.py) from wherever its        *)
(* coroutines are, a failure under way included, unless a connect() never  *)
(* returns or a peer never reads its scrape.                               *)
StopEndsProcess ==
    stop ~>
        \/ phase = "exited"
        \/ \E b \in Bridges : [](poller[b] = "held")
        \/ [](scrape # "none")
=============================================================================
