---------------------------- MODULE BridgeProofs ----------------------------
(***************************************************************************)
(* Proofs about one bridge, in four parts: supervise_server alone          *)
(* (DtsuServer), the journal and the counters beside it (Telemetry), the   *)
(* bridge composed of poller, store and server (Bridge), and the bridge    *)
(* whose poll loop stalls and is recovered (StalledBridge).  The later     *)
(* parts rest on the first: telemetry, poller and recovery leave the       *)
(* supervisor alone, so what is proved of it holds with them too.  All of  *)
(* it for every set of points, block layout and timing.                    *)
(***************************************************************************)
EXTENDS Bridge, Telemetry, StalledBridge, TLAPS

-----------------------------------------------------------------------------
(***************************************************************************)
(* Part 1.  supervise_server, for every value of its time constants.       *)
(***************************************************************************)

\* The caps the model saturates its clocks at are natural numbers.
LEMMA CapsAreNat == ServeBound \in Nat /\ AgeCap \in Nat /\ StartCap \in Nat
BY ServerTiming DEF ServerTiming, ServeBound, AgeCap, StartCap

LEMMA TypeStep == TypeOK /\ [Next]_vars => TypeOK'
<1> SUFFICES ASSUME TypeOK, [Next]_vars PROVE TypeOK'
  OBVIOUS
<1> USE CapsAreNat DEF Closing, TypeOK
<1>1. CASE Supervisor
  <2> USE DEF KeepServer, DropServer, StartServer, Sleep, BeginClose
  <2>1. CASE Check
    BY <2>1 DEF Check
  <2>2. CASE ReplaceDead
    <3>1. CASE StartServer(elapsed)
      BY <2>2, <3>1 DEF ReplaceDead
    <3>2. CASE DropServer
      BY <2>2, <3>2 DEF ReplaceDead
    <3> QED
      BY <2>2, <3>1, <3>2 DEF ReplaceDead
  <2>3. CASE GoSilent \/ Wake \/ Leave \/ Finish
    BY <2>3 DEF GoSilent, Wake, Leave, Finish
  <2> QED
    BY <1>1, <2>1, <2>2, <2>3 DEF Supervisor
<1>2. CASE Transport
  BY <1>2 DEF Transport, PortOpens, PortFailsToOpen, PortLost, TransportStep, TaskEnds
<1>3. CASE Publish \/ RequestStop
  BY <1>3 DEF Publish, RequestStop, supervisorVars
<1>4. CASE Tick
  BY <1>4 DEF Tick, ClocksAdvance, Older
<1>still. CASE UNCHANGED vars
  BY <1>still DEF vars
<1> QED
  BY <1>1, <1>2, <1>3, <1>4, <1>still DEF Next

\* Every variable has its type: the supervisor never mixes up its own state.
THEOREM TypeCorrect == Spec => []TypeOK
<1>1. Init => TypeOK
  BY CapsAreNat DEF Init, TypeOK, Closing
<1> QED
  BY <1>1, TypeStep, PTL DEF Spec

-----------------------------------------------------------------------------
(***************************************************************************)
(* The inductive invariant.  BoundedServe alone is not inductive: nothing  *)
(* in it says how old the data may be when a close or a sleep begins.      *)
(***************************************************************************)

\* A dropped server holds no transport and is reported down, and conversely.
DroppedIsClosed ==
    /\ task = "none" => transport = "none"
    /\ task = "none" => status = "down"
    /\ status = "down" => task = "none"
    /\ pc = "done" => task = "none"

\* The supervisor oversleeps neither its close nor its check interval.
OnTime ==
    /\ pc \in Closing => elapsed <= MaxClose
    /\ pc = "wait" => elapsed <= CheckInterval

\* How old the data behind a server can be, by where the supervisor is.
AgeByPhase ==
    ServerUp =>
        /\ pc = "wait" => dataAge <= MaxAge + MaxClose + elapsed
        /\ pc = "check" => dataAge <= MaxAge + MaxClose + CheckInterval
        /\ pc \in Closing => dataAge <= MaxAge + MaxClose + CheckInterval + elapsed

\* What a check captured before it awaited the close of a dead server.
CapturedBeforeClose ==
    pc = "closeDead" =>
        /\ dataAge <= seen.age + elapsed
        /\ uptime >= seen.since - MaxClose

\* last_start is recorded at most one close before the server is created.
StartRecordedEarly == uptime >= sinceStart - MaxClose

Phases == /\ DroppedIsClosed
          /\ OnTime
          /\ AgeByPhase
          /\ CapturedBeforeClose
          /\ StartRecordedEarly

IInv == TypeOK /\ Phases

LEMMA InitInvariant == Init => IInv
BY ServerTiming, CapsAreNat
   DEF ServerTiming, Init, IInv, Phases, Phases, TypeOK, DroppedIsClosed, OnTime, AgeByPhase,
       CapturedBeforeClose, StartRecordedEarly, Closing, ServerUp

\* All that the steps below need of the types: bounds on the clocks.
Numbers ==
    /\ dataAge \in Nat /\ dataAge <= AgeCap
    /\ elapsed \in Nat
    /\ sinceStart \in Nat /\ sinceStart <= StartCap
    /\ uptime \in Nat /\ uptime <= StartCap
    /\ seen.age \in Nat /\ seen.since \in Nat

LEMMA StepInvariant == TypeOK' /\ IInv /\ [Next]_vars => IInv'
<1> SUFFICES ASSUME TypeOK', IInv, [Next]_vars PROVE Phases'
  BY DEF IInv
<1>a. Numbers
  BY CapsAreNat DEF IInv, TypeOK, Numbers
<1>b. Numbers'
  BY CapsAreNat DEF TypeOK, Numbers
<1>c. Phases
  BY DEF IInv
<1>d. MaxAge \in Nat /\ CheckInterval \in Nat /\ MaxClose \in Nat /\ AgeCap \in Nat /\ StartCap \in Nat
  BY ServerTiming, CapsAreNat DEF ServerTiming
<1> USE <1>a, <1>b, <1>c, <1>d
    DEF Numbers, Phases, DroppedIsClosed, OnTime, AgeByPhase, CapturedBeforeClose,
        StartRecordedEarly, Closing, ServerUp
<1>1. CASE Check
  <2> USE <1>1 DEF Check, Sleep, BeginClose, ServerAction, ShouldServe
  <2>1. CASE MustReplace /\ BeginClose("closeDead") /\ KeepServer
    <3>1. ServerUp
      BY <2>1 DEF MustReplace
    <3> QED
      BY <2>1, <3>1 DEF KeepServer
  <2>2. CASE pc' = "closeStale" /\ BeginClose("closeStale") /\ KeepServer
    BY <2>2 DEF KeepServer
  <2>3. CASE StartServer(0) /\ Sleep /\ ShouldServe(dataAge)
    BY <2>3 DEF StartServer
  <2>4. CASE KeepServer /\ Sleep /\ (ServerUp => ShouldServe(dataAge))
    BY <2>4 DEF KeepServer
  <2> QED
    BY <2>1, <2>2, <2>3, <2>4
<1>2. CASE ReplaceDead
  <2>1. CASE StartServer(elapsed) /\ ShouldServe(seen.age)
    BY <1>2, <2>1 DEF ReplaceDead, StartServer, Sleep, ShouldServe
  <2>2. CASE DropServer
    BY <1>2, <2>2 DEF ReplaceDead, DropServer, Sleep
  <2> QED
    BY <1>2, <2>1, <2>2 DEF ReplaceDead, ServerAction
<1>3. CASE GoSilent \/ Finish
  <2>1. DroppedIsClosed'
    BY <1>3 DEF GoSilent, Finish, DropServer, Sleep
  <2>2. OnTime'
    BY <1>3 DEF GoSilent, Finish, DropServer, Sleep
  <2>3. AgeByPhase'
    BY <1>3 DEF GoSilent, Finish, DropServer, Sleep
  <2>4. CapturedBeforeClose'
    BY <1>3 DEF GoSilent, Finish, DropServer, Sleep
  <2>5. StartRecordedEarly'
    BY <1>3 DEF GoSilent, Finish, DropServer, Sleep
  <2> QED
    BY <2>1, <2>2, <2>3, <2>4, <2>5
<1>4. CASE Wake
  BY <1>4 DEF Wake, KeepServer
<1>5. CASE Leave
  <2>1. CASE ServerUp /\ BeginClose("closeFinal") /\ KeepServer
    BY <1>5, <2>1 DEF Leave, KeepServer, BeginClose
  <2>2. CASE ~ServerUp /\ pc' = "done" /\ elapsed' = 0 /\ DropServer
    BY <1>5, <2>2 DEF Leave, DropServer
  <2> QED
    BY <1>5, <2>1, <2>2 DEF Leave
<1>6. CASE Transport
  BY <1>6 DEF Transport, PortOpens, PortFailsToOpen, PortLost, TransportStep, TaskEnds
<1>7. CASE Publish \/ RequestStop
  <2>1. CASE Publish
    BY <2>1 DEF Publish, supervisorVars
  <2>2. CASE RequestStop
    BY <2>2 DEF RequestStop, supervisorVars
  <2> QED
    BY <1>7, <2>1, <2>2
<1>8. CASE Tick
  BY <1>8 DEF Tick, LoopIdle, ClocksAdvance, Older
<1>still. CASE UNCHANGED vars
  BY <1>still DEF vars
<1> QED
  BY <1>1, <1>2, <1>3, <1>4, <1>5, <1>6, <1>7, <1>8, <1>still DEF Next, Supervisor

THEOREM Invariance == Spec => []IInv
<1>1. Init => IInv
  BY InitInvariant
<1>2. TypeOK' /\ IInv /\ [Next]_vars => IInv'
  BY StepInvariant
<1> QED
  BY <1>1, <1>2, TypeCorrect, PTL DEF Spec

-----------------------------------------------------------------------------
(* What follows from it.                                                   *)

LEMMA InvariantBounds == IInv => BoundedServe
BY ServerTiming
   DEF ServerTiming, IInv, Phases, TypeOK, DroppedIsClosed, OnTime, AgeByPhase, BoundedServe,
       ServeBound, Closing, ServerUp

\* Fail-safe: the output never answers from data older than ServeBound.
THEOREM FailSafe == Spec => []BoundedServe
BY InvariantBounds, Invariance, PTL

\* dtsu_server_up is never 0 while a transport is held, and the supervisor
\* leaves none behind.
THEOREM HonestStatus == Spec => []NoUnreportedService
<1>1. IInv => NoUnreportedService
  BY DEF IInv, Phases, DroppedIsClosed, NoUnreportedService
<1> QED
  BY <1>1, Invariance, PTL

\* Restarts of the output transport are throttled, whatever the data and the
\* port do.
THEOREM Throttled == Spec => RestartThrottled
<1>1. IInv /\ [Next]_vars => (uptime' < uptime => uptime >= MinRestart - MaxClose)
  <2> SUFFICES ASSUME IInv, [Next]_vars, uptime' < uptime
               PROVE  uptime >= MinRestart - MaxClose
    OBVIOUS
  <2> USE ServerTiming, CapsAreNat
      DEF ServerTiming, IInv, Phases, TypeOK, CapturedBeforeClose, StartRecordedEarly
  <2>1. CASE Check
    BY <2>1 DEF Check, KeepServer, StartServer, ServerAction
  <2>2. CASE ReplaceDead
    BY <2>2 DEF ReplaceDead, DropServer, ServerAction
  <2>3. CASE GoSilent \/ Wake \/ Leave \/ Finish
    BY <2>3 DEF GoSilent, Wake, Leave, Finish, KeepServer, DropServer
  <2>4. CASE Transport \/ Publish \/ RequestStop \/ UNCHANGED vars
    BY <2>4 DEF Transport, PortOpens, PortFailsToOpen, PortLost, TransportStep,
                TaskEnds, Publish, RequestStop, supervisorVars, vars
  <2>5. CASE Tick
    BY <2>5 DEF Tick, ClocksAdvance, Older
  <2> QED
    BY <2>1, <2>2, <2>3, <2>4, <2>5 DEF Next, Supervisor
<1> QED
  BY <1>1, Invariance, PTL DEF RestartThrottled, Spec

\* A slow port is not mistaken for one that never opens before the grace
\* period, less one close, is over.
THEOREM GraceGiven == Spec => OpeningGetsGrace
<1>1. IInv /\ [Next]_vars =>
        (transport = "opening" /\ pc' = "closeDead" /\ pc # "closeDead" /\ task = "alive"
            => uptime >= DeadGrace - MaxClose)
  <2> SUFFICES ASSUME IInv, [Next]_vars, pc' = "closeDead", pc # "closeDead", task = "alive"
               PROVE  uptime >= DeadGrace - MaxClose
    OBVIOUS
  <2>1. Check
    BY DEF Next, vars, Supervisor, ReplaceDead, GoSilent, Wake, Leave, Finish, Sleep,
           BeginClose, Transport, PortOpens, PortFailsToOpen, PortLost, TransportStep,
           TaskEnds, Publish, RequestStop, supervisorVars, Tick, ClocksAdvance
  <2>2. MustReplace
    BY <2>1 DEF Check, BeginClose, Sleep
  <2>3. sinceStart >= DeadGrace
    BY <2>2 DEF MustReplace
  <2> QED
    BY <2>3, ServerTiming, CapsAreNat
       DEF ServerTiming, IInv, Phases, TypeOK, StartRecordedEarly
<1> QED
  BY <1>1, Invariance, PTL DEF OpeningGetsGrace, Spec

-----------------------------------------------------------------------------
(***************************************************************************)
(* Part 2.  The journal and the counters, for every summary interval,      *)
(* every length of an outage and every timing of supervise_server.         *)
(***************************************************************************)

\* The telemetry only watches: what is proved of supervise_server
\* in part 1 holds with it too.
THEOREM TelemetryOnlyWatches == TelemetrySpec => Spec
<1>1. TelemetryInit => Init
  BY DEF TelemetryInit
<1>2. [TelemetryNext]_telemetryVars => [Next]_vars
  <2>1. ASSUME TelemetryNext PROVE Next \/ UNCHANGED vars
    BY <2>1 DEF TelemetryNext, OnUpdate, OnError, ServeStep, TimePasses, Next
  <2>2. ASSUME UNCHANGED telemetryVars PROVE UNCHANGED vars
    BY <2>2 DEF telemetryVars
  <2> QED
    BY <2>1, <2>2
<1> QED
  BY <1>1, <1>2, PTL DEF TelemetrySpec, Spec

\* In particular, with the journal and the counters fed by on_update and
\* on_error, no poll that fails and no line that is logged makes
\* supervise_server serve old data, answer while dtsu_server_up reads 0, or
\* hurry a restart.
THEOREM TelemetryKeepsPromises ==
    TelemetrySpec => /\ []BoundedServe /\ []NoUnreportedService
                     /\ RestartThrottled /\ OpeningGetsGrace
BY TelemetryOnlyWatches, FailSafe, HonestStatus, Throttled, GraceGiven, PTL

-----------------------------------------------------------------------------
(***************************************************************************)
(* The inductive invariant: the three accounts of an outage agree, and the *)
(* reporter's clock of its last warning is the history's.                  *)
(***************************************************************************)
AccountsAgree ==
    /\ outage \in Nat
    /\ failing \in {"yes", "no"}
    /\ failing = "yes" <=> outage > 0
    /\ count = outage
    /\ consecutive = outage
    /\ lastOkAge = dataAge
    /\ failing = "yes" => muted = summaryAge

LEMMA AccountsInit == TelemetryInit => AccountsAgree
BY DEF TelemetryInit, Init, AccountsAgree

LEMMA AccountsStep == AccountsAgree /\ [TelemetryNext]_telemetryVars => AccountsAgree'
<1> SUFFICES ASSUME AccountsAgree, [TelemetryNext]_telemetryVars PROVE AccountsAgree'
  OBVIOUS
<1> USE DEF AccountsAgree, reporterVars, pollStats
<1>1. CASE OnUpdate
  BY <1>1 DEF OnUpdate, RecordOk, ReporterSuccess, Publish
<1>2. CASE OnError
  <2>1. outage' \in Nat /\ outage' > 0 /\ count' = outage' /\ consecutive' = outage'
    <3>1. outage' = outage + 1 /\ consecutive' = consecutive + 1 /\ count' = count + 1
      BY <1>2 DEF OnError, RecordError, ReporterFailure
    <3> QED
      BY <3>1
  <2>2. failing' = "yes" /\ lastOkAge' = dataAge'
    BY <1>2 DEF OnError, RecordError, ReporterFailure, vars
  <2>3. muted' = summaryAge'
    <3>1. CASE failing = "no"
      BY <1>2, <3>1 DEF OnError, RecordError, ReporterFailure
    <3>2. CASE failing = "yes" /\ summaryAge >= SummaryInterval
      BY <1>2, <3>2 DEF OnError, RecordError, ReporterFailure
    <3>3. CASE failing = "yes" /\ ~(summaryAge >= SummaryInterval)
      BY <1>2, <3>3 DEF OnError, RecordError, ReporterFailure
    <3> QED
      BY <3>1, <3>2, <3>3
  <2> QED
    BY <2>1, <2>2, <2>3
<1>3. CASE ServeStep
  <2>1. dataAge' = dataAge
    BY <1>3 DEF ServeStep, Supervisor, Check, ReplaceDead, GoSilent, Wake, Leave, Finish,
                Transport, PortOpens, PortFailsToOpen, PortLost, TransportStep, TaskEnds,
                RequestStop
  <2> QED
    BY <1>3, <2>1 DEF ServeStep
<1>4. CASE TimePasses
  BY <1>4 DEF TimePasses, Tick, Older
<1>still. CASE UNCHANGED telemetryVars
  BY <1>still DEF telemetryVars, telemetry, vars
<1> QED
  BY <1>1, <1>2, <1>3, <1>4, <1>still DEF TelemetryNext

\* One outage is one "failed" and one "recovered" in the journal, with a
\* summary no more often than its interval, and the journal, the counters and
\* the store never disagree about it.
THEOREM OutagesAreToldOnce == TelemetrySpec => OutageIsToldOnce
<1> DEFINE Told ==
      /\ line' \in {"failed", "still failing"} /\ outage > 0 => muted >= SummaryInterval
      /\ line' = "recovered" => outage > 0 /\ outage' = 0 /\ dataAge' = 0
      /\ outage' > 0 <=> failing' = "yes"
      /\ consecutive' = outage' /\ count' = outage'
      /\ lastOkAge' = dataAge'
<1>1. AccountsAgree /\ AccountsAgree' /\ [TelemetryNext]_telemetryVars
        => [Told]_telemetryVars
  <2> SUFFICES ASSUME AccountsAgree, AccountsAgree', TelemetryNext PROVE Told
    OBVIOUS
  <2>1. CASE OnUpdate
    BY <2>1 DEF AccountsAgree, OnUpdate, RecordOk, ReporterSuccess, Publish
  <2>2. CASE OnError
    BY <2>2 DEF AccountsAgree, OnError, RecordError, ReporterFailure
  <2>3. CASE ServeStep \/ TimePasses
    BY <2>3 DEF AccountsAgree, ServeStep, TimePasses
  <2> QED
    BY <2>1, <2>2, <2>3 DEF TelemetryNext
<1> QED
  BY <1>1, AccountsInit, AccountsStep, PTL DEF TelemetrySpec, OutageIsToldOnce

-----------------------------------------------------------------------------
(***************************************************************************)
(* Part 3.  The bridge: its supervisor behaves as DtsuServer.tla says, its *)
(* registers always hold one published sample, and it implements the       *)
(* abstract meter.                                                         *)
(***************************************************************************)

-----------------------------------------------------------------------------
(***************************************************************************)
(* The composition leaves the supervisor alone.                            *)
(***************************************************************************)

LEMMA SupervisorStep == BridgeNext => [Next]_vars
<1> SUFFICES ASSUME BridgeNext PROVE [Next]_vars
  OBVIOUS
<1>1. CASE ReadLastBlock
  <2>1. UNCHANGED <<supervisorVars, stopEvent>> /\ (dataAge' = 0 \/ UNCHANGED dataAge)
    BY <1>1 DEF ReadLastBlock, StoreSample
  <2>2. CASE dataAge' = 0 /\ dataAge # 0
    BY <2>1, <2>2 DEF Next, Publish
  <2>3. CASE UNCHANGED dataAge
    BY <2>1, <2>3 DEF vars, supervisorVars
  <2> QED
    BY <2>1, <2>2, <2>3
<1>2. CASE BeginPoll \/ ReadBlock \/ ReadFails \/ NextPoll \/ CancelPoll \/ RestartPoll
  BY <1>2 DEF BeginPoll, ReadBlock, ReadFails, NextPoll, CancelPoll, RestartPoll
<1>3. CASE Server
  BY <1>3 DEF Server, Next
<1>4. CASE BridgeTick
  BY <1>4 DEF BridgeTick, Next
<1> QED
  BY <1>1, <1>2, <1>3, <1>4 DEF BridgeNext, Poller

\* Whatever was proved of the output supervisor holds of it inside a bridge.
THEOREM BridgeRefinesServer == BridgeSpec => Spec
<1>1. BridgeInit => Init
  BY DEF BridgeInit
<1>2. [BridgeNext]_bridgeVars => [Next]_vars
  BY SupervisorStep DEF bridgeVars
<1> QED
  BY <1>1, <1>2, PTL DEF BridgeSpec, Spec

-----------------------------------------------------------------------------
(***************************************************************************)
(* What the registers hold.                                                *)
(***************************************************************************)

\* The types of the data a sample is made of.
DataTypes ==
    /\ raw \in [Points -> Values \cup {Invalid}]
    /\ image \in [Points -> Register]

\* The registers are the image the datastore was built with or a sample whose
\* critical quantities were all read.
CompleteImage ==
    \/ image = InitialImage
    \/ \A p \in Points \ Optional : image[p] \in Values

DataInv == DataTypes /\ ImageMatchesStore /\ CompleteImage

\* A sample that is not rejected decodes to a complete image.
LEMMA DecodedIsComplete ==
    ASSUME NEW r \in [Points -> Values \cup {Invalid}], ~Rejected(r)
    PROVE  /\ Decoded(r) \in [Points -> Register]
           /\ \A p \in Points \ Optional : Decoded(r)[p] \in Values
BY PollConstants DEF PollConstants, Rejected, Decoded, Register

\* update_datastore writes all of a sample or nothing.
LEMMA WriteIsAtomic ==
    ASSUME NEW values \in [Points -> Register], NEW unencodable,
           image \in [Points -> Register]
    PROVE  /\ unencodable = {} => WrittenImage(values, unencodable) = values
           /\ unencodable # {} => WrittenImage(values, unencodable) = image
BY DEF WrittenImage

\* What the last block of a poll does to registers, store and clock.
LEMMA PollOutcome ==
    ASSUME DataInv, ReadLastBlock
    PROVE  \/ UNCHANGED <<dataVars, dataAge>>
           \/ /\ image' \in [Points -> Register]
              /\ \A p \in Points \ Optional : image'[p] \in Values
              /\ snapshot' = image'
              /\ dataAge' = 0
              /\ realAge' = pollAge
<1>1. PICK r \in Reading(block) :
         IF Rejected(r)
         THEN UNCHANGED <<dataVars, dataAge>>
         ELSE \E unencodable \in SUBSET Points :
                 Cardinality(unencodable) <= 1 /\ StoreSample(Decoded(r), unencodable)
  BY DEF ReadLastBlock
<1>2. r \in [Points -> Values \cup {Invalid}]
  BY <1>1 DEF Reading
<1>3. CASE Rejected(r)
  BY <1>1, <1>3
<1>4. CASE ~Rejected(r)
  <2>1. PICK unencodable \in SUBSET Points : StoreSample(Decoded(r), unencodable)
    BY <1>1, <1>4
  <2>2. /\ Decoded(r) \in [Points -> Register]
        /\ \A p \in Points \ Optional : Decoded(r)[p] \in Values
    BY <1>2, <1>4, DecodedIsComplete
  <2>3. image \in [Points -> Register]
    BY DEF DataInv, DataTypes
  <2>4. CASE unencodable = {}
    <3>1. image' = Decoded(r)
      BY <2>1, <2>2, <2>3, <2>4, WriteIsAtomic DEF StoreSample
    <3> QED
      BY <2>1, <2>2, <2>4, <3>1 DEF StoreSample, Publishes
  <2>5. CASE unencodable # {}
    <3>1. image' = image
      BY <2>1, <2>2, <2>3, <2>5, WriteIsAtomic DEF StoreSample
    <3> QED
      BY <2>1, <2>5, <3>1 DEF StoreSample, Publishes, dataVars
  <2> QED
    BY <2>4, <2>5
<1> QED
  BY <1>3, <1>4

LEMMA DataInit == BridgeInit => DataInv
BY DEF BridgeInit, DataInv, DataTypes, CompleteImage, ImageMatchesStore,
       InitialImage, Register

\* The steps of the poll loop other than the last block, of the supervisor and
\* of the clock leave registers and store alone.
LEMMA OtherSteps ==
    ASSUME [BridgeNext]_bridgeVars, ~ReadLastBlock
    PROVE  UNCHANGED <<image, snapshot>>
BY DEF BridgeNext, Poller, BeginPoll, ReadBlock, ReadFails, NextPoll, CancelPoll,
       RestartPoll, Server, BridgeTick, bridgeVars, dataVars

LEMMA RawType == 
    ASSUME DataTypes, [BridgeNext]_bridgeVars
    PROVE  raw' \in [Points -> Values \cup {Invalid}]
<1>1. [p \in Points |-> Invalid] \in [Points -> Values \cup {Invalid}]
  OBVIOUS
<1>2. CASE ReadBlock
  BY <1>2 DEF ReadBlock, Reading
<1>3. CASE ReadLastBlock \/ ReadFails \/ CancelPoll
  BY <1>1, <1>3 DEF ReadLastBlock, ReadFails, CancelPoll, SleepUntilNextPoll
<1>4. CASE UNCHANGED raw
  BY <1>4 DEF DataTypes
<1>5. CASE BeginPoll \/ NextPoll \/ RestartPoll \/ Server \/ BridgeTick \/ UNCHANGED bridgeVars
  BY <1>4, <1>5 DEF BeginPoll, NextPoll, RestartPoll, Server, BridgeTick, bridgeVars, pollVars
<1> QED
  BY <1>2, <1>3, <1>5 DEF BridgeNext, Poller

LEMMA DataStep == DataInv /\ [BridgeNext]_bridgeVars => DataInv'
<1> SUFFICES ASSUME DataInv, [BridgeNext]_bridgeVars PROVE DataInv'
  OBVIOUS
<1>1. raw' \in [Points -> Values \cup {Invalid}]
  BY RawType DEF DataInv
<1>2. CASE ReadLastBlock
  BY <1>1, <1>2, PollOutcome DEF DataInv, DataTypes, CompleteImage, ImageMatchesStore, dataVars
<1>3. CASE ~ReadLastBlock
  BY <1>1, <1>3, OtherSteps DEF DataInv, DataTypes, CompleteImage, ImageMatchesStore
<1> QED
  BY <1>2, <1>3

THEOREM DataInvariance == BridgeSpec => []DataInv
BY DataInit, DataStep, PTL DEF BridgeSpec

\* Sigenergy is never served anything but the sample the store was stamped
\* with: not half of it, and not one whose write failed.
THEOREM ServedIsStored == BridgeSpec => []ImageMatchesStore
<1>1. DataInv => ImageMatchesStore
  BY DEF DataInv
<1> QED
  BY <1>1, DataInvariance, PTL

\* A critical register never shows a value nobody read.
THEOREM NothingInvented == BridgeSpec => []CriticalIsRead
<1>1. DataInv => CriticalIsRead
  BY DEF DataInv, CompleteImage, CriticalIsRead
<1> QED
  BY <1>1, DataInvariance, PTL

-----------------------------------------------------------------------------
(***************************************************************************)
(* How old the registers are.                                              *)
(***************************************************************************)

\* Reading block after block takes at most ReadMax for each.
LEMMA BlockTime ==
    /\ ReadMax \in Nat /\ PollBound \in Nat
    /\ \A b \in 1 .. Blocks :
          /\ (b - 1) * ReadMax \in Nat
          /\ (b - 1) * ReadMax + ReadMax <= PollBound
          /\ ((b + 1) - 1) * ReadMax = (b - 1) * ReadMax + ReadMax
<1>1. ReadMax \in Nat /\ Blocks \in Nat
  BY PollConstants DEF PollConstants
<1>2. PollBound \in Nat
  BY <1>1 DEF PollBound
<1>3. ASSUME NEW b \in 1 .. Blocks
      PROVE  /\ (b - 1) * ReadMax \in Nat
             /\ (b - 1) * ReadMax + ReadMax <= PollBound
             /\ ((b + 1) - 1) * ReadMax = (b - 1) * ReadMax + ReadMax
  <2>1. b \in Nat /\ b - 1 \in Nat /\ Blocks - b \in Nat
    BY <1>1
  <2>2. (b - 1) * ReadMax \in Nat /\ (Blocks - b) * ReadMax \in Nat
    BY <1>1, <2>1
  <2>3. (b - 1) * ReadMax + ReadMax = b * ReadMax
    BY <1>1, <2>1
  <2>4. Blocks * ReadMax = b * ReadMax + (Blocks - b) * ReadMax
    BY <1>1, <2>1
  <2>5. (b + 1) - 1 = b
    BY <2>1
  <2>6. b * ReadMax \in Nat
    BY <1>1, <2>1
  <2> QED
    BY <1>1, <2>2, <2>3, <2>4, <2>5, <2>6 DEF PollBound
<1> QED
  BY <1>1, <1>2, <1>3

\* Where the poll loop is and how long its current poll has taken.
PollTiming ==
    /\ poll \in {"begin", "read", "sleep", "cancelled", "done"}
    /\ block \in 1 .. Blocks
    /\ pollWait \in Nat
    /\ pollAge \in Nat
    /\ poll = "read" => pollWait <= ReadMax /\ pollAge <= (block - 1) * ReadMax + pollWait
    /\ poll # "read" => pollAge = 0

LEMMA PollIsShort == PollTiming => pollAge \in 0 .. PollBound
BY BlockTime DEF PollTiming

LEMMA PollTimingInit == BridgeInit => PollTiming
BY PollConstants DEF PollConstants, BridgeInit, PollTiming

LEMMA PollTimingStep == PollTiming /\ [BridgeNext]_bridgeVars => PollTiming'
<1> SUFFICES ASSUME PollTiming, [BridgeNext]_bridgeVars PROVE PollTiming'
  OBVIOUS
<1> USE DEF PollTiming
<1>1. Blocks \in Nat /\ 1 \in 1 .. Blocks
  BY PollConstants DEF PollConstants
<1>2. CASE BeginPoll
  <2>1. (1 - 1) * ReadMax = 0
    BY BlockTime
  <2> QED
    BY <1>1, <1>2, <2>1, BlockTime DEF BeginPoll, BeginRead
<1>3. CASE ReadBlock
  <2>1. block' = block + 1 /\ block' \in 1 .. Blocks /\ poll' = "read" /\ pollWait' = 0
    BY <1>1, <1>3 DEF ReadBlock, BeginRead
  <2>2. pollAge <= (block - 1) * ReadMax + ReadMax
    BY <1>3, BlockTime DEF ReadBlock
  <2>3. pollAge <= (block' - 1) * ReadMax
    BY <2>1, <2>2, BlockTime
  <2>4. (block' - 1) * ReadMax + 0 = (block' - 1) * ReadMax
    BY <2>1, BlockTime
  <2> QED
    BY <1>3, <2>1, <2>3, <2>4, BlockTime DEF ReadBlock
<1>4. CASE ReadLastBlock \/ ReadFails
  BY <1>1, <1>4 DEF ReadLastBlock, ReadFails, SleepUntilNextPoll
<1>5. CASE NextPoll \/ CancelPoll \/ RestartPoll
  BY <1>1, <1>5 DEF NextPoll, CancelPoll, RestartPoll
<1>6. CASE Server \/ UNCHANGED bridgeVars
  BY <1>6 DEF Server, bridgeVars, pollVars
<1>7. CASE BridgeTick
  <2>1. UNCHANGED <<poll, block>>
    BY <1>7 DEF BridgeTick
  <2>2. CASE poll = "read"
    <3>1. pollWait' = pollWait + 1 /\ pollAge' = pollAge + 1 /\ pollWait < ReadMax
      BY <1>7, <2>2 DEF BridgeTick, PollerIdle
    <3> QED
      BY <2>1, <2>2, <3>1, BlockTime
  <2>3. CASE poll # "read"
    BY <1>7, <2>1, <2>3 DEF BridgeTick
  <2> QED
    BY <2>2, <2>3
<1> QED
  BY <1>2, <1>3, <1>4, <1>5, <1>6, <1>7 DEF BridgeNext, Poller

\* The history of the registers' age: never more than one poll above the age
\* of the store.
AgeOfRegisters ==
    /\ realAge \in 0 .. RealCap
    /\ dataAge < AgeCap => realAge <= dataAge + PollBound

LEMMA BridgeNumbers ==
    /\ PollBound \in Nat /\ AgeCap \in Nat /\ ServeBound \in Nat
    /\ AgeCap = ServeBound + 1
    /\ RealBound \in Nat /\ RealBound = ServeBound + PollBound
    /\ RealCap \in Nat /\ RealCap = RealBound + 1
BY CapsAreNat, BlockTime DEF AgeCap, RealBound, RealCap

LEMMA AgeInit == BridgeInit => AgeOfRegisters
BY BridgeNumbers DEF BridgeInit, Init, AgeOfRegisters

LEMMA AgeStep ==
    ASSUME TypeOK, DataInv, PollTiming, AgeOfRegisters, [BridgeNext]_bridgeVars
    PROVE  AgeOfRegisters'
<1> USE BridgeNumbers DEF AgeOfRegisters
<1>1. dataAge \in 0 .. AgeCap
  BY DEF TypeOK
<1>2. CASE ReadLastBlock
  <2>1. pollAge \in 0 .. PollBound
    BY PollIsShort
  <2>2. UNCHANGED <<realAge, dataAge>> \/ (dataAge' = 0 /\ realAge' = pollAge)
    BY <1>2, PollOutcome DEF dataVars
  <2> QED
    BY <2>1, <2>2
<1>3. CASE BridgeTick
  BY <1>1, <1>3 DEF BridgeTick, Tick, Older
<1>4. CASE Server
  <2>1. UNCHANGED <<dataAge, realAge>>
    BY <1>4 DEF Server, dataVars, Supervisor, Check, ReplaceDead, GoSilent, Wake, Leave,
                Finish, Transport, PortOpens, PortFailsToOpen, PortLost, TransportStep,
                TaskEnds, RequestStop
  <2> QED
    BY <2>1
<1>5. CASE BeginPoll \/ ReadBlock \/ ReadFails \/ NextPoll \/ CancelPoll \/ RestartPoll
           \/ UNCHANGED bridgeVars
  <2>1. UNCHANGED <<dataAge, realAge>>
    BY <1>5 DEF BeginPoll, ReadBlock, ReadFails, NextPoll, CancelPoll, RestartPoll,
                bridgeVars, dataVars, vars
  <2> QED
    BY <2>1
<1> QED
  BY <1>2, <1>3, <1>4, <1>5 DEF BridgeNext, Poller

BridgeInv ==
    /\ TypeOK /\ BoundedServe
    /\ DataInv /\ PollTiming /\ AgeOfRegisters

THEOREM BridgeInvariance == BridgeSpec => []BridgeInv
<1>1. BridgeInit => PollTiming /\ AgeOfRegisters
  BY PollTimingInit, AgeInit
<1>2. TypeOK /\ DataInv /\ (PollTiming /\ AgeOfRegisters) /\ [BridgeNext]_bridgeVars
          => (PollTiming /\ AgeOfRegisters)'
  BY PollTimingStep, AgeStep
<1>3. BridgeSpec => []TypeOK /\ []BoundedServe
  BY BridgeRefinesServer, TypeCorrect, FailSafe, PTL
<1>4. BridgeInv <=> TypeOK /\ BoundedServe /\ DataInv /\ (PollTiming /\ AgeOfRegisters)
  BY DEF BridgeInv
<1> QED
  BY <1>1, <1>2, <1>3, <1>4, DataInvariance, PTL DEF BridgeSpec

\* Every variable of the bridge has its type; a poll never outlasts its bound.
THEOREM BridgeTypeCorrect == BridgeSpec => []BridgeTypeOK
<1>1. BridgeInv => BridgeTypeOK
  BY PollIsShort DEF BridgeInv, BridgeTypeOK, PollTiming, DataInv, DataTypes,
                     ImageMatchesStore, AgeOfRegisters
<1> QED
  BY <1>1, BridgeInvariance, PTL

\* End to end: no request is answered from registers whose values left the
\* source longer ago than the fail-safe bound plus one poll.
THEOREM EndToEndAge == BridgeSpec => []RealAgeBounded
<1>1. BridgeInv => RealAgeBounded
  BY BridgeNumbers DEF BridgeInv, RealAgeBounded, AgeOfRegisters, BoundedServe, TypeOK
<1> QED
  BY <1>1, BridgeInvariance, PTL

-----------------------------------------------------------------------------
(***************************************************************************)
(* The bridge implements the meter.                                        *)
(***************************************************************************)

LEMMA AddBound ==
    ASSUME NEW a \in Nat, NEW b \in Nat, NEW c \in Nat, NEW d \in Nat, a <= b + c, b <= d
    PROVE  a <= d + c
OBVIOUS

\* The bound of RealAgeBounded, after a step.
LEMMA AnsweringIsRecent ==
    ASSUME BridgeInv'
    PROVE  realAge' \in 0 .. RealCap /\ (transport' = "open" => realAge' <= RealBound)
<1>1. dataAge' \in 0 .. AgeCap
  BY DEF BridgeInv, TypeOK
<1>2. transport' = "open" => dataAge' <= ServeBound
  BY DEF BridgeInv, BoundedServe
<1>3. realAge' \in 0 .. RealCap /\ (dataAge' < AgeCap => realAge' <= dataAge' + PollBound)
  BY DEF BridgeInv, AgeOfRegisters
<1>4. ASSUME transport' = "open" PROVE realAge' <= RealBound
  <2>1. dataAge' <= ServeBound /\ dataAge' < AgeCap
    BY <1>1, <1>2, <1>4, BridgeNumbers
  <2>2. realAge' <= dataAge' + PollBound
    BY <1>3, <2>1
  <2>3. realAge' \in Nat /\ dataAge' \in Nat
    BY <1>1, <1>3, BridgeNumbers
  <2>4. ServeBound \in Nat /\ PollBound \in Nat
    BY BridgeNumbers
  <2> QED
    BY <2>1, <2>2, <2>3, <2>4, AddBound DEF RealBound
<1> QED
  BY <1>3, <1>4

\* A step that changes neither registers nor time is an answer, a silence or
\* a stutter of the meter.
LEMMA TransportSimulates ==
    ASSUME BridgeInv', UNCHANGED <<image, realAge>>
    PROVE  [Promise!MeterNext]_(Promise!meterVars)
<1>1. transport' = "open" => realAge <= RealBound
  BY AnsweringIsRecent
<1>2. CASE transport' = "open"
  <2>1. Promise!Answer
    BY <1>1, <1>2 DEF Promise!Answer
  <2> QED
    BY <2>1 DEF Promise!MeterNext
<1>3. CASE transport' # "open"
  <2>1. Promise!FallSilent
    BY <1>3 DEF Promise!FallSilent
  <2> QED
    BY <2>1 DEF Promise!MeterNext
<1> QED
  BY <1>2, <1>3

LEMMA StepSimulates ==
    ASSUME BridgeInv, BridgeInv', [BridgeNext]_bridgeVars
    PROVE  [Promise!MeterNext]_(Promise!meterVars)
<1>1. CASE ReadLastBlock
  <2>1. UNCHANGED transport
    BY <1>1 DEF ReadLastBlock, supervisorVars
  <2>2. CASE UNCHANGED <<dataVars, dataAge>>
    BY <2>2, TransportSimulates DEF dataVars
  <2>3. CASE /\ image' \in [Points -> Register]
             /\ \A p \in Points \ Optional : image'[p] \in Values
             /\ realAge' = pollAge
    <3>1. pollAge \in 0 .. PollBound
      BY PollIsShort DEF BridgeInv
    <3>2. Promise!NewSample
      BY <2>1, <2>3, <3>1 DEF Promise!NewSample
    <3> QED
      BY <3>2 DEF Promise!MeterNext
  <2> QED
    BY <1>1, <2>2, <2>3, PollOutcome DEF BridgeInv
<1>2. CASE BridgeTick
  <2>1. UNCHANGED <<transport, image>> /\ realAge' = Older(realAge, RealCap)
    BY <1>2 DEF BridgeTick, Tick, ClocksAdvance
  <2>2. realAge \in 0 .. RealCap /\ (transport' = "open" => realAge' <= RealBound)
    BY AnsweringIsRecent DEF BridgeInv, AgeOfRegisters
  <2>3. transport = "open" => realAge < RealBound
    BY <2>1, <2>2, BridgeNumbers DEF Older
  <2>4. Promise!GrowOlder
    BY <2>1, <2>3, BridgeNumbers DEF Promise!GrowOlder, Promise!TooOld, Older
  <2> QED
    BY <2>4 DEF Promise!MeterNext
<1>3. CASE Server
  BY <1>3, TransportSimulates DEF Server, dataVars
<1>4. CASE BeginPoll \/ ReadBlock \/ ReadFails \/ NextPoll \/ CancelPoll \/ RestartPoll
  BY <1>4, TransportSimulates
     DEF BeginPoll, ReadBlock, ReadFails, NextPoll, CancelPoll, RestartPoll, dataVars
<1>5. CASE UNCHANGED bridgeVars
  BY <1>5, TransportSimulates DEF bridgeVars, dataVars
<1> QED
  BY <1>1, <1>2, <1>3, <1>4, <1>5 DEF BridgeNext, Poller

\* A bridge is a meter that is silent or shows one complete and recent sample,
\* whatever the source, the port, the supervisor and the clock do.
THEOREM BridgeIsMeter == BridgeSpec => ImplementsMeter
<1>1. BridgeInit => Promise!MeterInit
  BY DEF BridgeInit, Init, Promise!MeterInit, Promise!TooOld, RealCap
<1> QED
  BY <1>1, StepSimulates, BridgeInvariance, PTL
     DEF BridgeSpec, ImplementsMeter, Promise!MeterSpec

-----------------------------------------------------------------------------
(***************************************************************************)
(* Part 4.  A bridge whose poll loop stalls: the output is silent while    *)
(* the loop is cancelled and its client rebuilt, for every timing in which *)
(* a stall lasts at least as long as the gate may go on serving.           *)
(***************************************************************************)
RecP == INSTANCE RecoveryProofs WITH DataCap <- AgeCap

\* What is proved of stall recovery is proved under these assumptions.
LEMMA RecoveryAssumed == RecP!RecoveryTiming /\ RecP!DeployedOrdering
BY StalledTiming
   DEF Rec!RecoveryTiming, Rec!DeployedOrdering, Rec!WatchdogSec,
       RecP!RecoveryTiming, RecP!DeployedOrdering, RecP!WatchdogSec

\* Beside the output, stall recovery behaves as Recovery.tla says.
LEMMA RecoveryActions ==
    /\ Rec!PollLoop => RecP!PollLoop
    /\ Rec!Supervise => RecP!Supervise
    /\ Rec!RebuildHangs => RecP!RebuildHangs
    /\ StartupStep => RecP!Startup \/ RecP!StartupHangs
    /\ Rec!WatchdogLooks => RecP!Watchdog
    /\ Rec!SystemdRestarts => RecP!Watchdog
    /\ Rec!RequestStop => RecP!RequestStop
    /\ Rec!Tick => RecP!Tick
<1> USE DEF Rec!supVars, RecP!supVars, Rec!loopVars, RecP!loopVars, Rec!startVars,
            RecP!startVars, Rec!wdVars, RecP!wdVars, Rec!WatchdogSec, RecP!WatchdogSec
<1>1. Rec!PollLoop => RecP!PollLoop
  BY DEF Rec!PollLoop, Rec!LoopBegins, Rec!PollSucceeds, Rec!PollFails, Rec!PollReports,
         Rec!PollHangs, Rec!LoopDies,
         RecP!PollLoop, RecP!LoopBegins, RecP!PollSucceeds, RecP!PollFails,
         RecP!PollReports, RecP!PollHangs, RecP!LoopDies
<1>2. Rec!Supervise => RecP!Supervise
  <2> USE DEF Rec!Enter, RecP!Enter, Rec!BeginRebuild, RecP!BeginRebuild
  <2>1. Rec!CheckLoop => RecP!CheckLoop
    BY DEF Rec!CheckLoop, RecP!CheckLoop, Rec!Stalled, RecP!Stalled
  <2>2. Rec!LoopCancelled => RecP!LoopCancelled
    BY DEF Rec!LoopCancelled, RecP!LoopCancelled
  <2>3. Rec!RebuildAttemptFails => RecP!RebuildAttemptFails
    BY DEF Rec!RebuildAttemptFails, RecP!RebuildAttemptFails
  <2>4. Rec!RebuildRetries => RecP!RebuildRetries
    BY DEF Rec!RebuildRetries, RecP!RebuildRetries, Rec!Doubled, RecP!Doubled
  <2>5. Rec!RebuildEnds => RecP!RebuildEnds
    BY DEF Rec!RebuildEnds, RecP!RebuildEnds, Rec!StartLoop, RecP!StartLoop
  <2>6. Rec!StopWatching \/ Rec!LoopStopped => RecP!StopWatching \/ RecP!LoopStopped
    BY DEF Rec!StopWatching, RecP!StopWatching, Rec!LoopStopped, RecP!LoopStopped
  <2> QED
    BY <2>1, <2>2, <2>3, <2>4, <2>5, <2>6 DEF Rec!Supervise, RecP!Supervise
<1>3. Rec!RebuildHangs => RecP!RebuildHangs
  BY DEF Rec!RebuildHangs, RecP!RebuildHangs
<1>4. StartupStep => RecP!Startup \/ RecP!StartupHangs
  BY DEF StartupStep, Rec!StartupConnects, Rec!StartupAttemptFails, Rec!StartupRetries,
         Rec!StartupStops, Rec!StartupHangs, Rec!StartupCancelled, Rec!StartupStep,
         Rec!Doubled,
         RecP!Startup, RecP!StartupConnects, RecP!StartupAttemptFails,
         RecP!StartupRetries, RecP!StartupStops, RecP!StartupHangs,
         RecP!StartupCancelled, RecP!StartupStep, RecP!Doubled
<1>5. Rec!WatchdogLooks => RecP!Watchdog
  BY DEF Rec!WatchdogLooks, RecP!WatchdogLooks, RecP!Watchdog
<1>6. Rec!SystemdRestarts => RecP!Watchdog
  BY DEF Rec!SystemdRestarts, RecP!SystemdRestarts, RecP!Watchdog
<1>7. Rec!RequestStop => RecP!RequestStop
  BY DEF Rec!RequestStop, RecP!RequestStop
<1>8. Rec!Tick => RecP!Tick
  BY DEF Rec!Tick, RecP!Tick, Rec!Idle, RecP!Idle, Rec!Older, RecP!Older,
         Rec!BeatCap, RecP!BeatCap
<1> QED
  BY <1>1, <1>2, <1>3, <1>4, <1>5, <1>6, <1>7, <1>8

LEMMA StalledIsRecovery == StalledSpec => RecP!Spec
<1>1. StalledInit => RecP!Init
  BY DEF StalledInit, Rec!Init, RecP!Init
<1>2. [StalledNext]_stalledVars => [RecP!Next]_(RecP!vars)
  <2> USE DEF RecP!Next
  <2>1. CASE ServerStep \/ UNCHANGED stalledVars
    <3>1. UNCHANGED <<recoveryVars, dataAge, stopEvent>>
      BY <2>1 DEF ServerStep, Supervisor, Check, ReplaceDead, GoSilent, Wake, Leave, Finish,
                  Transport, PortOpens, PortFailsToOpen, PortLost, TransportStep, TaskEnds,
                  stalledVars, vars
    <3> QED
      BY <3>1 DEF recoveryVars, RecP!vars, RecP!supVars, RecP!loopVars, RecP!startVars,
                  RecP!wdVars
  <2>2. CASE RecoveryStep
    BY <2>2, RecoveryActions DEF RecoveryStep
  <2>3. CASE ProcessRestarts \/ Stopped \/ ClockTicks
    BY <2>3, RecoveryActions DEF ProcessRestarts, Stopped, ClockTicks
  <2> QED
    BY <2>1, <2>2, <2>3 DEF StalledNext
<1> QED
  BY <1>1, <1>2, PTL DEF StalledSpec, RecP!Spec

\* The supervisor behaves as DtsuServer.tla says until systemd restarts the
\* process, and a new process begins as the first one did.
LEMMA StalledServerStep ==
    ASSUME StalledNext \/ UNCHANGED stalledVars
    PROVE  [Next]_vars \/ Init'
<1>1. CASE ServerStep
  BY <1>1 DEF ServerStep, Next
<1>2. CASE RecoveryStep
  <2>1. UNCHANGED <<supervisorVars, stopEvent>> /\ (dataAge' = 0 \/ UNCHANGED dataAge)
    <3>1. UNCHANGED supervisorVars
      BY <1>2 DEF RecoveryStep
    <3>2. UNCHANGED stopEvent /\ (dataAge' = 0 \/ UNCHANGED dataAge)
      BY <1>2 DEF RecoveryStep, Rec!PollLoop, Rec!LoopBegins, Rec!PollSucceeds,
           Rec!PollFails, Rec!PollReports, Rec!PollHangs, Rec!LoopDies, Rec!Supervise,
           Rec!CheckLoop, Rec!LoopCancelled, Rec!RebuildAttemptFails, Rec!RebuildRetries,
           Rec!RebuildEnds, Rec!StopWatching, Rec!LoopStopped, Rec!RebuildHangs,
           StartupStep, Rec!StartupConnects, Rec!StartupAttemptFails, Rec!StartupRetries,
           Rec!StartupStops, Rec!StartupHangs, Rec!StartupCancelled, Rec!StartupStep,
           Rec!WatchdogLooks
    <3> QED
      BY <3>1, <3>2
  <2>2. CASE dataAge' = 0 /\ dataAge # 0
    BY <2>1, <2>2 DEF Next, Publish
  <2>3. CASE UNCHANGED dataAge
    BY <2>1, <2>3 DEF vars, supervisorVars
  <2> QED
    BY <2>1, <2>2, <2>3
<1>3. CASE ProcessRestarts
  BY <1>3 DEF ProcessRestarts, Rec!SystemdRestarts, Init
<1>4. CASE Stopped \/ ClockTicks
  BY <1>4 DEF Stopped, ClockTicks, Next
<1>still. CASE UNCHANGED stalledVars
  BY <1>still DEF stalledVars
<1> QED
  BY <1>1, <1>2, <1>3, <1>4, <1>still DEF StalledNext

LEMMA StalledInvariance == StalledSpec => []IInv
<1>1. StalledInit => IInv
  BY InitInvariant DEF StalledInit
<1>2. IInv /\ [StalledNext]_stalledVars => IInv'
  <2> SUFFICES ASSUME IInv, [StalledNext]_stalledVars PROVE IInv'
    OBVIOUS
  <2>1. CASE [Next]_vars
    BY <2>1, TypeStep, StepInvariant DEF IInv
  <2>2. CASE Init'
    <3>1. Init' => IInv'
      BY InitInvariant, PTL
    <3> QED
      BY <2>2, <3>1
  <2> QED
    BY <2>1, <2>2, StalledServerStep
<1> QED
  BY <1>1, <1>2, PTL DEF StalledSpec

\* So the fail-safe bound survives stalls, rebuilds and process restarts.
THEOREM StalledFailSafe == StalledSpec => []BoundedServe
BY InvariantBounds, StalledInvariance, PTL

\* supervise_poller keeps its word that the output is silent throughout a
\* recovery, from the cancel of a hung loop to the first poll of the rebuilt
\* client, wherever the stall timeout is no shorter than the longest the gate
\* may serve one sample: an age limit, a check interval and two closes.
THEOREM SilentRecovery ==
    ASSUME ServeBound <= StallTimeout
    PROVE  StalledSpec => []RecoveryIsSilent
<1>1. IInv /\ RecP!StallOutdatesData => RecoveryIsSilent
  <2> SUFFICES ASSUME IInv, RecP!StallOutdatesData, Rec!FromStall, transport = "open"
               PROVE  FALSE
    BY DEF RecoveryIsSilent
  <2>1. dataAge \in Nat /\ dataAge <= ServeBound
    BY InvariantBounds, CapsAreNat DEF IInv, TypeOK, BoundedServe
  <2>2. dataAge > StallTimeout \/ dataAge = AgeCap
    BY DEF RecP!StallOutdatesData, RecP!FromStall, Rec!FromStall
  <2> QED
    BY <2>1, <2>2, CapsAreNat, RecoveryAssumed DEF AgeCap, RecP!RecoveryTiming
<1>2. RecP!Spec => []RecP!StallOutdatesData
  BY RecoveryAssumed, RecP!StallKeepsOld
<1> QED
  BY <1>1, <1>2, StalledIsRecovery, StalledInvariance, PTL
=============================================================================
