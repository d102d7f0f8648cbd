--------------------------- MODULE ProcessProofs ---------------------------
(***************************************************************************)
(* What Process guarantees for every set of bridges, and what the          *)
(* validators of config.py guarantee of the endpoints of a deployment      *)
(* (Deployment) for every set of bridges, ports and hosts.                 *)
(***************************************************************************)
EXTENDS Process, Deployment, TLAPS

\* A supervisor is in its finally block because of the stop event, or of the
\* one cancellation of asyncio.run.
FinalHasReason ==
    \A b \in Bridges : server[b] = "final" => stop \/ phase = "cancelling"

\* From the return of gather until asyncio.run cancels what is left, some
\* coroutine has raised or every one has ended.
GatherKept ==
    phase \in {"connects", "metrics", "returned"} => Failed \/ AllEnded

IInv == TypeOK /\ FinalHasReason /\ NoUngatedService /\ GatherKept

-----------------------------------------------------------------------------
(* The two facts that make GatherKept inductive: who has ended stays ended, *)
(* who has raised stays raised, as long as the process does not restart.   *)

Stays ==
    \A b \in Bridges :
        /\ poller[b] \in Ended => poller'[b] = poller[b]
        /\ server[b] \in Ended => server'[b] = server[b]

LEMMA EndedStays == ASSUME Stays PROVE (Failed \/ AllEnded) => (Failed \/ AllEnded)'
  <1>1. Failed => Failed'
    BY DEF Stays, Failed, Ended
  <1>2. AllEnded => AllEnded'
    BY DEF Stays, AllEnded, Ended
  <1> QED BY <1>1, <1>2

LEMMA BridgeStepStays ==
    ASSUME TypeOK, NEW b \in Bridges,
           LoopFails(b) \/ LoopEnds(b) \/ PollerStep(b)
             \/ ConnectReturns(b) \/ ConnectBreaks(b)
             \/ StartServer(b) \/ FactoryRaises(b) \/ CloseServer(b) \/ ServerEnds(b)
    PROVE  Stays /\ phase' = phase /\ stop' = stop
  <1>1. CASE LoopFails(b) \/ LoopEnds(b)
    BY <1>1 DEF Stays, LoopFails, LoopEnds
  <1>2. CASE PollerStep(b) \/ ConnectReturns(b) \/ ConnectBreaks(b)
    <2>1. poller[b] \notin Ended
      BY <1>2 DEF PollerStep, CancelStalled, Rebuild, ConnectReturns, ConnectBreaks,
                  PollerSeesStop, PollerLeaves, Ended
    <2>2. /\ \E to : poller' = [poller EXCEPT ![b] = to]
          /\ UNCHANGED <<server, phase, stop>>
      BY <1>2 DEF PollerStep, CancelStalled, Rebuild, ConnectReturns, ConnectBreaks,
                  PollerSeesStop, PollerLeaves, MovePoller
    <2> QED BY <2>1, <2>2 DEF Stays, TypeOK
  <1>3. CASE StartServer(b) \/ FactoryRaises(b) \/ CloseServer(b) \/ ServerEnds(b)
    <2>1. server[b] \notin Ended
      BY <1>3 DEF StartServer, FactoryRaises, CloseServer, ServerEnds, ServerClosed,
                  ServerReaped, RestOfIteration, ServerSeesStop, ServerLeaves, Ended
    <2>2. /\ \E to : server' = [server EXCEPT ![b] = to]
          /\ UNCHANGED <<poller, phase, stop>>
      BY <1>3 DEF StartServer, FactoryRaises, CloseServer, ServerEnds, ServerClosed,
                  ServerReaped, RestOfIteration, ServerSeesStop, ServerLeaves, MoveServer
    <2> QED BY <2>1, <2>2 DEF Stays, TypeOK
  <1> QED BY <1>1, <1>2, <1>3

-----------------------------------------------------------------------------
LEMMA InitProcess == Init => IInv
  <1> SUFFICES ASSUME Init PROVE IInv
    OBVIOUS
  <1>1. TypeOK
    BY DEF Init, TypeOK, Everywhere
  <1>2. FinalHasReason
    BY DEF Init, FinalHasReason, Everywhere
  <1>3. NoUngatedService
    BY DEF Init, NoUngatedService, Everywhere
  <1>4. GatherKept
    BY DEF Init, GatherKept
  <1> QED BY <1>1, <1>2, <1>3, <1>4 DEF IInv

LEMMA TypeStep == ASSUME TypeOK, [Next]_vars PROVE TypeOK'
  <1>1. ASSUME NEW b \in Bridges, LoopFails(b) \/ LoopEnds(b) PROVE TypeOK'
    BY <1>1 DEF TypeOK, LoopFails, LoopEnds
  <1>2. ASSUME NEW b \in Bridges, PollerStep(b) \/ ConnectReturns(b) \/ ConnectBreaks(b)
        PROVE  TypeOK'
    <2>1. CASE CancelStalled(b) BY <2>1 DEF TypeOK, CancelStalled, MovePoller
    <2>2. CASE Rebuild(b) BY <2>2 DEF TypeOK, Rebuild, MovePoller
    <2>3. CASE ConnectReturns(b) BY <2>3 DEF TypeOK, ConnectReturns, MovePoller
    <2>4. CASE PollerSeesStop(b) BY <2>4 DEF TypeOK, PollerSeesStop, MovePoller, CancelledLoop
    <2>5. CASE PollerLeaves(b) BY <2>5 DEF TypeOK, PollerLeaves, MovePoller
    <2>6. CASE ConnectBreaks(b) BY <2>6 DEF TypeOK, ConnectBreaks, MovePoller
    <2> QED BY <1>2, <2>1, <2>2, <2>3, <2>4, <2>5, <2>6 DEF PollerStep
  <1>3. ASSUME NEW b \in Bridges,
               StartServer(b) \/ FactoryRaises(b) \/ CloseServer(b) \/ ServerEnds(b)
        PROVE  TypeOK'
    <2>1. CASE StartServer(b) BY <2>1 DEF TypeOK, StartServer, MoveServer
    <2>2. CASE FactoryRaises(b) \/ CloseServer(b)
      BY <2>2 DEF TypeOK, FactoryRaises, CloseServer, MoveServer
    <2>3. CASE ServerClosed(b) BY <2>3 DEF TypeOK, ServerClosed, RestOfIteration, MoveServer
    <2>4. CASE ServerReaped(b) BY <2>4 DEF TypeOK, ServerReaped, RestOfIteration, MoveServer
    <2>5. CASE ServerSeesStop(b) BY <2>5 DEF TypeOK, ServerSeesStop, MoveServer
    <2>6. CASE ServerLeaves(b) BY <2>6 DEF TypeOK, ServerLeaves, MoveServer
    <2> QED BY <1>3, <2>1, <2>2, <2>3, <2>4, <2>5, <2>6 DEF ServerEnds
  <1>4. CASE ScrapeSticks \/ ScrapeEnds \/ MetricsSeesStop \/ MetricsClosed
    BY <1>4 DEF TypeOK, ScrapeSticks, ScrapeEnds, MetricsSeesStop, MetricsClosed, bridgeVars
  <1>5. CASE GatherReturns \/ ConnectsEnded \/ RunAppReturns
    BY <1>5 DEF TypeOK, GatherReturns, ConnectsEnded, RunAppReturns, CancelledMetrics, bridgeVars
  <1>6. CASE CancelAll
    BY <1>6 DEF TypeOK, CancelAll, PollerCancelled, ServerCancelled, CancelledLoop,
                ScrapeCancelled
  <1>7. CASE Exit \/ WatchdogKill
    <2>1. Gone
      BY <1>7 DEF Exit, WatchdogKill
    <2> QED BY <2>1 DEF TypeOK, Gone, Everywhere
  <1>8. CASE Restart
    BY <1>8 DEF TypeOK, Restart, Everywhere
  <1>9. CASE Terminate
    BY <1>9 DEF TypeOK, Terminate, bridgeVars
  <1>still. CASE UNCHANGED vars
    BY <1>still DEF TypeOK, vars, bridgeVars
  <1> QED BY <1>1, <1>2, <1>3, <1>4, <1>5, <1>6, <1>7, <1>8, <1>9, <1>still
          DEF Next, RunStep

LEMMA ReasonStep ==
    ASSUME IInv, [Next]_vars PROVE FinalHasReason' /\ NoUngatedService'
  <1> USE DEF IInv, FinalHasReason, NoUngatedService, TypeOK, Ended
  <1>1. ASSUME NEW b \in Bridges,
               LoopFails(b) \/ LoopEnds(b) \/ PollerStep(b)
                 \/ ConnectReturns(b) \/ ConnectBreaks(b)
        PROVE  FinalHasReason' /\ NoUngatedService'
    BY <1>1 DEF LoopFails, LoopEnds, PollerStep, CancelStalled, Rebuild, ConnectReturns,
                PollerSeesStop, PollerLeaves, ConnectBreaks, MovePoller
  <1>2. ASSUME NEW b \in Bridges,
               StartServer(b) \/ FactoryRaises(b) \/ CloseServer(b) \/ ServerEnds(b)
        PROVE  FinalHasReason' /\ NoUngatedService'
    <2>1. CASE StartServer(b) BY <2>1 DEF StartServer, MoveServer
    <2>2. CASE FactoryRaises(b) BY <2>2 DEF FactoryRaises, MoveServer
    <2>3. CASE CloseServer(b) BY <2>3 DEF CloseServer, MoveServer
    <2>4. CASE ServerClosed(b) BY <2>4 DEF ServerClosed, RestOfIteration, MoveServer
    <2>5. CASE ServerReaped(b) BY <2>5 DEF ServerReaped, RestOfIteration, MoveServer
    <2>6. CASE ServerSeesStop(b) BY <2>6 DEF ServerSeesStop, MoveServer
    <2>7. CASE ServerLeaves(b) BY <2>7 DEF ServerLeaves, MoveServer
    <2> QED BY <1>2, <2>1, <2>2, <2>3, <2>4, <2>5, <2>6, <2>7 DEF ServerEnds
  <1>3. CASE ScrapeSticks \/ ScrapeEnds \/ MetricsSeesStop \/ MetricsClosed
    BY <1>3 DEF ScrapeSticks, ScrapeEnds, MetricsSeesStop, MetricsClosed, bridgeVars
  <1>4. CASE GatherReturns \/ ConnectsEnded \/ RunAppReturns
    BY <1>4 DEF GatherReturns, ConnectsEnded, RunAppReturns, bridgeVars
  <1>5. CASE CancelAll
    <2>1. FinalHasReason'
      BY <1>5 DEF CancelAll
    <2>2. \A b \in Bridges : up'[b] => up[b]
      BY <1>5 DEF CancelAll
    <2>3. ASSUME NEW b \in Bridges, up'[b], server'[b] \in Ended PROVE stop'
      \* It was ended before, or cut off in its finally block.
      <3>1. server[b] \in Ended \/ server[b] = "final"
        BY <1>5, <2>2, <2>3 DEF CancelAll, ServerCancelled
      <3> QED BY <1>5, <2>2, <2>3, <3>1 DEF CancelAll
    <2> QED BY <2>1, <2>3
  <1>6. CASE Exit \/ WatchdogKill
    BY <1>6 DEF Exit, WatchdogKill, Gone, Everywhere
  <1>7. CASE Restart
    BY <1>7 DEF Restart, Everywhere
  <1>8. CASE Terminate
    BY <1>8 DEF Terminate, bridgeVars
  <1>still. CASE UNCHANGED vars
    BY <1>still DEF vars, bridgeVars
  <1> QED BY <1>1, <1>2, <1>3, <1>4, <1>5, <1>6, <1>7, <1>8, <1>still DEF Next, RunStep

LEMMA GatherStep == ASSUME IInv, [Next]_vars PROVE GatherKept'
  <1> USE DEF IInv, GatherKept
  <1>1. ASSUME NEW b \in Bridges,
               LoopFails(b) \/ LoopEnds(b) \/ PollerStep(b)
                 \/ ConnectReturns(b) \/ ConnectBreaks(b)
                 \/ StartServer(b) \/ FactoryRaises(b) \/ CloseServer(b) \/ ServerEnds(b)
        PROVE  GatherKept'
    <2>1. Stays /\ phase' = phase
      BY <1>1, BridgeStepStays
    <2> QED BY <2>1, EndedStays
  <1>2. CASE ScrapeSticks \/ ScrapeEnds \/ MetricsSeesStop \/ MetricsClosed \/ Terminate
    BY <1>2 DEF ScrapeSticks, ScrapeEnds, MetricsSeesStop, MetricsClosed, Terminate,
                bridgeVars, Failed, AllEnded
  <1>3. CASE GatherReturns
    BY <1>3 DEF GatherReturns, GatherDone, bridgeVars, Failed, AllEnded
  <1>4. CASE ConnectsEnded \/ RunAppReturns
    BY <1>4 DEF ConnectsEnded, RunAppReturns, bridgeVars, Failed, AllEnded
  <1>5. CASE CancelAll \/ Exit \/ WatchdogKill \/ Restart
    BY <1>5 DEF CancelAll, Exit, WatchdogKill, Restart, Gone
  <1>still. CASE UNCHANGED vars
    BY <1>still DEF vars, bridgeVars, Failed, AllEnded
  <1> QED BY <1>1, <1>2, <1>3, <1>4, <1>5, <1>still DEF Next, RunStep

LEMMA ProcessInvariant == Spec => []IInv
  <1>1. IInv /\ [Next]_vars => IInv'
    BY TypeStep, ReasonStep, GatherStep DEF IInv
  <1> QED BY <1>1, InitProcess, PTL DEF Spec

(* Every variable keeps its type, whatever the set of bridges.             *)
THEOREM ProcessTypeCorrect == Spec => []TypeOK
  <1>1. IInv => TypeOK BY DEF IInv
  <1> QED BY <1>1, ProcessInvariant, PTL

(* No output outlives its supervisor (dtsu_server.py, the finally block,   *)
(* under app.py's gather and asyncio.run's cancellation) unless the process*)
(* is being stopped as well.                                               *)
THEOREM NoneUngated == Spec => []NoUngatedService
  <1>1. IInv => NoUngatedService BY DEF IInv
  <1> QED BY <1>1, ProcessInvariant, PTL

(* run_app (app.py) closes the clients after every supervisor has ended,   *)
(* unless one of them raised.                                              *)
THEOREM ClientsLast == Spec => ClientsClosedLast
  <1>1. IInv => [RunAppReturns => Failed \/ AllEnded]_vars
    BY DEF IInv, GatherKept, RunAppReturns
  <1> QED BY <1>1, ProcessInvariant, PTL DEF ClientsClosedLast

-----------------------------------------------------------------------------
(***************************************************************************)
(* Deployment.                                                             *)
(***************************************************************************)

Deployed == stage \in {"together", "instances"}

\* Only accepted configurations are deployed, and whatever is bound, or was
\* blocked, is an endpoint of a process of this deployment.
DeployInv ==
    /\ dtsu \in [EnabledBridges -> Outputs]
    /\ metricsPort \in [EnabledBridges -> TcpPorts \cup {0}]
    /\ prometheus \in [enabled : BOOLEAN, host : Hosts, port : TcpPorts]
    /\ stage \in {"file", "refused", "together", "instances"}
    /\ Deployed => Accepted
    /\ ~Deployed => bound = {} /\ blocked = {}
    /\ \A e \in bound \cup blocked : \E process \in Processes : e \in Endpoints(process)

-----------------------------------------------------------------------------
\* No validator has run at the start and nothing is bound.
LEMMA DeployInitInv == DeployInit => DeployInv
BY DEF DeployInit, DeployInv, Deployed

\* Validators, binds and restarts keep the invariant.
LEMMA DeployStep == DeployInv /\ [DeployNext]_deployVars => DeployInv'
<1> SUFFICES ASSUME DeployInv, [DeployNext]_deployVars PROVE DeployInv'
    OBVIOUS
<1>1. CASE LoadConfig
    BY <1>1 DEF LoadConfig, DeployInv, Deployed, Accepted, OutputsDistinct, MetricsPortFree,
                MetricsPortsDistinct, Tcp, HostsOverlap, config
<1>2. ASSUME UNCHANGED <<config, stage>>, Deployed,
             \A e \in bound' \cup blocked' :
                \/ e \in bound \cup blocked
                \/ \E process \in Processes : e \in Endpoints(process)
      PROVE  DeployInv'
  <2>1. /\ dtsu' = dtsu /\ metricsPort' = metricsPort /\ prometheus' = prometheus
        /\ stage' = stage
        BY <1>2 DEF config
  <2>2. Processes' = Processes
        BY <2>1 DEF Processes
  <2>3. \A process : Endpoints(process)' = Endpoints(process)
        BY <2>1 DEF Endpoints, OutputOf, MetricsOf, MetricsPortFor
  <2>4. Accepted' = Accepted
        BY <2>1 DEF Accepted, OutputsDistinct, MetricsPortFree, MetricsPortsDistinct, Tcp,
                    HostsOverlap
  <2>5. Deployed'
        BY <1>2, <2>1 DEF Deployed
  <2>6. \A e \in bound' \cup blocked' : \E process \in Processes : e \in Endpoints(process)
        BY <1>2 DEF DeployInv
  <2> QED
        BY <2>1, <2>2, <2>3, <2>4, <2>5, <2>6 DEF DeployInv, Deployed
<1>3. CASE Bind
    BY <1>2, <1>3 DEF Bind, Deployed
<1>4. CASE RestartProcess
    BY <1>2, <1>4 DEF RestartProcess, Deployed
<1>still. CASE UNCHANGED deployVars
  <2>1. CASE Deployed
        BY <1>2, <1>still, <2>1 DEF deployVars
  <2>2. CASE ~Deployed
        BY <1>still, <2>2 DEF deployVars, config, DeployInv, Deployed
  <2> QED
        BY <2>1, <2>2
<1> QED
    BY <1>1, <1>3, <1>4, <1>still DEF DeployNext

\* The invariant holds throughout.
THEOREM Deployable == DeploySpec => []DeployInv
BY DeployInitInv, DeployStep, PTL DEF DeploySpec

-----------------------------------------------------------------------------
(* What an endpoint of a deployment can be.                                *)

\* A process runs all bridges or one, and its metrics endpoint, if any, is
\* process-wide, a bridge's own, or the process-wide one as a fallback.
LEMMA EndpointShape ==
    ASSUME DeployInv, Deployed, NEW process \in Processes, NEW e \in Endpoints(process)
    PROVE  \/ \E b \in process : b \in EnabledBridges /\ e = OutputOf(b, process)
           \/ /\ prometheus.enabled
              /\ e = MetricsOf(process)
              /\ \/ stage = "together" /\ process = EnabledBridges
                    /\ MetricsPortFor(process) = prometheus.port
                 \/ \E b \in EnabledBridges :
                      /\ stage = "instances" /\ process = {b}
                      /\ MetricsPortFor(process)
                            = IF metricsPort[b] # 0 THEN metricsPort[b] ELSE prometheus.port
<1>1. process = EnabledBridges \/ \E b \in EnabledBridges : process = {b}
    BY DEF Processes
<1>2. CASE prometheus.enabled /\ e = MetricsOf(process)
  <2>1. CASE stage = "together"
        BY <1>2, <2>1 DEF Processes, MetricsPortFor
  <2>2. CASE stage # "together"
    <3>1. PICK b \in EnabledBridges : process = {b}
          BY <2>2 DEF Processes
    <3>2. (CHOOSE c \in EnabledBridges : process = {c}) = b
          BY <3>1
    <3> QED
          BY <1>2, <2>2, <3>1, <3>2 DEF MetricsPortFor, Deployed
  <2> QED
        BY <2>1, <2>2
<1>3. CASE \E b \in process : e = OutputOf(b, process)
    BY <1>1, <1>3
<1> QED
    BY <1>2, <1>3 DEF Endpoints

\* Each bridge belongs to one process.
LEMMA OneProcess ==
    ASSUME NEW p \in Processes, NEW q \in Processes, NEW b \in p, b \in q
    PROVE  p = q
BY DEF Processes

-----------------------------------------------------------------------------
(* Which endpoints may collide.                                            *)

\* Outputs of two bridges collide only over the wildcard host: the validator
\* compares (host, port) pairs and serial ports, not what they stand for.
LEMMA OutputsCollide ==
    ASSUME DeployInv, Deployed,
           NEW p \in Processes, NEW b \in p, b \in EnabledBridges,
           NEW q \in Processes, NEW c \in q, c \in EnabledBridges,
           Conflict(OutputOf(b, p), OutputOf(c, q))
    PROVE  /\ dtsu[b].transport = "tcp"
           /\ AnyHost \in {dtsu[b].host, dtsu[c].host}
           /\ dtsu[b].host # dtsu[c].host
<1>1. b # c
    BY OneProcess DEF Conflict
<1>2. dtsu[b] # dtsu[c]
    BY <1>1 DEF DeployInv, Accepted, OutputsDistinct
<1>3. /\ dtsu[b].transport = dtsu[c].transport
      /\ dtsu[b].port = dtsu[c].port
      /\ dtsu[b].transport = "tcp" => HostsOverlap(dtsu[b].host, dtsu[c].host)
    BY DEF Conflict, OutputOf
<1>4. dtsu[b] \in Outputs /\ dtsu[c] \in Outputs
    BY DEF DeployInv
<1>5. dtsu[b].transport = "tcp" /\ dtsu[b].host # dtsu[c].host
    BY <1>2, <1>3, <1>4 DEF Outputs
<1> QED
    BY <1>3, <1>5 DEF HostsOverlap

\* A metrics endpoint never collides with an output: the two checks of the
\* metrics ports cover the process-wide port and every bridge's own.
LEMMA MetricsAvoidOutputs ==
    ASSUME DeployInv, Deployed,
           NEW p \in Processes, NEW m \in Endpoints(p), m = MetricsOf(p), prometheus.enabled,
           NEW q \in Processes, NEW c \in q, c \in EnabledBridges
    PROVE  ~Conflict(m, OutputOf(c, q)) /\ ~Conflict(OutputOf(c, q), m)
<1> SUFFICES ASSUME dtsu[c].transport = "tcp", dtsu[c].port = MetricsPortFor(p),
                    HostsOverlap(dtsu[c].host, prometheus.host)
             PROVE  FALSE
    BY DEF Conflict, MetricsOf, OutputOf, HostsOverlap
<1>1. MetricsPortFor(p) = prometheus.port
        \/ \E b \in EnabledBridges : MetricsPortFor(p) = metricsPort[b]
    BY EndpointShape DEF OutputOf, MetricsOf
<1>2. CASE MetricsPortFor(p) = prometheus.port
    BY <1>2 DEF DeployInv, Accepted, MetricsPortFree, Tcp
<1>3. CASE \E b \in EnabledBridges : MetricsPortFor(p) = metricsPort[b]
    BY <1>3 DEF DeployInv, Accepted, MetricsPortsDistinct, Tcp
<1> QED
    BY <1>1, <1>2, <1>3

\* Two metrics endpoints collide only between instances one of which has no
\* port of its own: the ports that are set are compared, the fallback is not.
LEMMA MetricsCollide ==
    ASSUME DeployInv, Deployed, prometheus.enabled,
           NEW p \in Processes, NEW e \in Endpoints(p), e = MetricsOf(p),
           NEW q \in Processes, NEW f \in Endpoints(q), f = MetricsOf(q),
           Conflict(e, f)
    PROVE  stage = "instances" /\ \E b \in p \cup q : metricsPort[b] = 0
<1>1. p # q
    BY DEF Conflict
<1>2. stage = "instances"
    BY <1>1 DEF Processes, Deployed
<1>3. PICK b \in EnabledBridges : p = {b}
    BY <1>2 DEF Processes
<1>4. PICK c \in EnabledBridges : q = {c}
    BY <1>2 DEF Processes
<1>5. (CHOOSE d \in EnabledBridges : p = {d}) = b /\ (CHOOSE d \in EnabledBridges : q = {d}) = c
    BY <1>3, <1>4
<1>6. MetricsPortFor(p) = MetricsPortFor(q)
    BY DEF Conflict, MetricsOf
<1>7. metricsPort[b] # 0 /\ metricsPort[c] # 0 => metricsPort[b] = metricsPort[c]
    BY <1>2, <1>5, <1>6 DEF MetricsPortFor
<1>8. b # c /\ metricsPort[b] # 0 => metricsPort[b] # metricsPort[c]
    BY DEF DeployInv, Accepted, MetricsPortsDistinct
<1> QED
    BY <1>1, <1>2, <1>3, <1>4, <1>7, <1>8

-----------------------------------------------------------------------------
\* Whatever is bound or was blocked is one of the endpoints above.
LEMMA BoundShape ==
    ASSUME DeployInv, NEW e \in bound \cup blocked
    PROVE  /\ Deployed
           /\ \E p \in Processes :
                \/ \E b \in p : b \in EnabledBridges /\ e = OutputOf(b, p)
                \/ e \in Endpoints(p) /\ e = MetricsOf(p) /\ prometheus.enabled
<1>1. Deployed
    BY DEF DeployInv
<1>2. PICK p \in Processes : e \in Endpoints(p)
    BY DEF DeployInv
<1>3. \/ \E b \in p : b \in EnabledBridges /\ e = OutputOf(b, p)
      \/ e = MetricsOf(p) /\ prometheus.enabled
    BY <1>1, <1>2, EndpointShape
<1> QED
    BY <1>1, <1>2, <1>3

\* No accepted configuration makes outputs collide but over the wildcard host,
\* and no metrics endpoint takes an output's address (config.py:810-904).
THEOREM OutputsExclusive == DeploySpec => []OutputsAreExclusive
<1>1. DeployInv => OutputsAreExclusive
  <2> SUFFICES ASSUME DeployInv, NEW e \in blocked, NEW f \in bound, Conflict(e, f),
                      "output" \in {e.kind, f.kind}
               PROVE  /\ e.kind = "output" /\ f.kind = "output" /\ e.at.transport = "tcp"
                      /\ AnyHost \in {e.at.host, f.at.host} /\ e.at.host # f.at.host
        BY DEF OutputsAreExclusive
  <2>1. PICK p \in Processes : \/ \E b \in p : b \in EnabledBridges /\ e = OutputOf(b, p)
                               \/ e \in Endpoints(p) /\ e = MetricsOf(p) /\ prometheus.enabled
        BY BoundShape
  <2>2. PICK q \in Processes : \/ \E c \in q : c \in EnabledBridges /\ f = OutputOf(c, q)
                               \/ f \in Endpoints(q) /\ f = MetricsOf(q) /\ prometheus.enabled
        BY BoundShape
  <2>3. Deployed
        BY BoundShape
  <2>4. CASE \E b \in p : b \in EnabledBridges /\ e = OutputOf(b, p)
    <3>1. PICK b \in p : b \in EnabledBridges /\ e = OutputOf(b, p)
          BY <2>4
    <3>2. ~(f \in Endpoints(q) /\ f = MetricsOf(q) /\ prometheus.enabled)
          BY <2>3, <3>1, MetricsAvoidOutputs
    <3>3. PICK c \in q : c \in EnabledBridges /\ f = OutputOf(c, q)
          BY <2>2, <3>2
    <3>4. /\ dtsu[b].transport = "tcp"
          /\ AnyHost \in {dtsu[b].host, dtsu[c].host}
          /\ dtsu[b].host # dtsu[c].host
          BY <2>3, <3>1, <3>3, OutputsCollide
    <3> QED
          BY <3>1, <3>3, <3>4 DEF OutputOf
  <2>5. CASE e \in Endpoints(p) /\ e = MetricsOf(p) /\ prometheus.enabled
    <3>1. ~\E c \in q : c \in EnabledBridges /\ f = OutputOf(c, q)
          BY <2>3, <2>5, MetricsAvoidOutputs
    <3>2. e.kind = "metrics" /\ f.kind = "metrics"
          BY <2>2, <2>5, <3>1 DEF MetricsOf
    <3> QED
          BY <3>2
  <2> QED
        BY <2>1, <2>4, <2>5
<1> QED
    BY <1>1, Deployable, PTL

\* Metrics endpoints collide only by the fallback (config.py:737, 881).
THEOREM MetricsExclusive == DeploySpec => []MetricsAreExclusive
<1>1. DeployInv => MetricsAreExclusive
  <2> SUFFICES ASSUME DeployInv, NEW e \in blocked, NEW f \in bound, Conflict(e, f),
                      e.kind = "metrics"
               PROVE  /\ f.kind = "metrics" /\ stage = "instances"
                      /\ \E b \in e.of \cup f.of : metricsPort[b] = 0
        BY DEF MetricsAreExclusive
  <2>1. PICK p \in Processes : e \in Endpoints(p) /\ e = MetricsOf(p) /\ prometheus.enabled
        BY BoundShape DEF OutputOf
  <2>2. PICK q \in Processes : \/ \E c \in q : c \in EnabledBridges /\ f = OutputOf(c, q)
                               \/ f \in Endpoints(q) /\ f = MetricsOf(q) /\ prometheus.enabled
        BY BoundShape
  <2>3. Deployed
        BY BoundShape
  <2>4. f \in Endpoints(q) /\ f = MetricsOf(q)
        BY <2>1, <2>2, <2>3, MetricsAvoidOutputs
  <2>5. stage = "instances" /\ \E b \in p \cup q : metricsPort[b] = 0
        BY <2>1, <2>3, <2>4, MetricsCollide
  <2> QED
        BY <2>1, <2>4, <2>5 DEF MetricsOf
<1> QED
    BY <1>1, Deployable, PTL
=============================================================================
