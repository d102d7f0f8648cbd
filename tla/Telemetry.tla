----------------------------- MODULE Telemetry -----------------------------
(***************************************************************************)
(* What a bridge says about its polls while supervise_server (DtsuServer)  *)
(* serves their samples: the journal lines of FaultReporter (app.py) and   *)
(* the counters of PollStats (metrics.py), both fed from on_update and     *)
(* on_error of _bridge_coros.                                              *)
(*                                                                         *)
(* They are kept apart from the store and from each other.  The poll loop  *)
(* catches what on_update raises and calls on_error, so a sample that      *)
(* cannot be written is a failed poll to all three.                        *)
(***************************************************************************)
EXTENDS DtsuServer

CONSTANTS
    SummaryInterval, \* summary_interval of FaultReporter
    MaxFailures      \* bound: failed polls in one outage

ASSUME TelemetryConstants == SummaryInterval \in Nat /\ MaxFailures \in Nat

VARIABLES
    failing,     \* FaultReporter._failing, "yes" or "no"
    count,       \* FaultReporter._count
    summaryAge,  \* now - _last_summary, while failing
    line,        \* what this step logged
    consecutive, \* PollStats.consecutive_failures
    lastOkAge,   \* age of PollStats.last_ok_ts; AgeCap stands for None
    outage,      \* history: failed polls since a sample was stored
    muted        \* history: ticks since a warning of this outage

reporterVars == <<failing, count, summaryAge>>
pollStats    == <<consecutive, lastOkAge>>
telemetry    == <<reporterVars, line, pollStats, outage, muted>>
telemetryVars == <<vars, telemetry>>

TelemetryInit ==
    /\ Init
    /\ failing = "no" /\ count = 0 /\ summaryAge = 0 /\ line = "nothing"
    /\ consecutive = 0 /\ lastOkAge = AgeCap
    /\ outage = 0 /\ muted = 0

-----------------------------------------------------------------------------
\* FaultReporter.success
ReporterSuccess ==
    /\ line' = IF failing = "yes" THEN "recovered" ELSE "nothing"
    /\ failing' = "no"
    /\ count' = 0
    /\ UNCHANGED summaryAge

\* Mutant of ReporterFailure: success was called before the write was tried.
ReporterFailureAfterSuccess ==
    /\ count' = 1
    /\ failing' = "yes"
    /\ summaryAge' = 0
    /\ line' = "failed"

\* FaultReporter.failure: the first failure, then a summary now and then.
ReporterFailure ==
    LET summaryDue == failing = "yes" /\ summaryAge >= SummaryInterval
    IN /\ count' = count + 1
       /\ failing' = "yes"
       /\ summaryAge' = IF failing = "no" \/ summaryDue THEN 0 ELSE summaryAge
       /\ line' = IF failing = "no" THEN "failed"
                  ELSE IF summaryDue THEN "still failing" ELSE "nothing"

\* PollStats.record_ok and record_error
RecordOk    == consecutive' = 0 /\ lastOkAge' = 0
RecordError == consecutive' = consecutive + 1 /\ UNCHANGED lastOkAge

\* The sample is written and stored; only then does the poll count as good.
OnUpdate ==
    /\ Publish
    /\ ReporterSuccess
    /\ RecordOk
    /\ outage' = 0 /\ muted' = 0

\* The read failed, or update_datastore raised and the store was not stamped.
OnError ==
    /\ outage < MaxFailures
    /\ ReporterFailure
    /\ RecordError
    /\ outage' = outage + 1
    /\ muted' = IF line' = "nothing" THEN muted ELSE 0
    /\ UNCHANGED vars

ServeStep ==
    /\ Supervisor \/ Transport \/ RequestStop
    /\ line' = "nothing"
    /\ UNCHANGED <<reporterVars, pollStats, outage, muted>>

TimePasses ==
    /\ Tick
    /\ line' = "nothing"
    /\ summaryAge' = Older(summaryAge, SummaryInterval)
    /\ lastOkAge' = Older(lastOkAge, AgeCap)
    /\ muted' = Older(muted, SummaryInterval)
    /\ UNCHANGED <<failing, count, consecutive, outage>>

TelemetryNext == OnUpdate \/ OnError \/ ServeStep \/ TimePasses

\* The fairness of DtsuServer: nothing is assumed of the polls.
TelemetrySpec ==
    /\ TelemetryInit
    /\ [][TelemetryNext]_telemetryVars
    /\ WF_vars(Supervisor) /\ WF_vars(Tick) /\ SF_vars(PortOpens)

-----------------------------------------------------------------------------
\* One outage is told once (app.py, FaultReporter and _bridge_coros): however
\* polls fail, at the read or at the write, a warning inside an outage comes no
\* sooner than the summary interval after the one before; "recovered" is said
\* only when a sample is stored after one that was not; and the journal, the
\* poll counters and the store that the gate and /healthz read agree on how
\* many polls failed since the last sample and how old that sample is.
OutageIsToldOnce ==
    [][/\ line' \in {"failed", "still failing"} /\ outage > 0 => muted >= SummaryInterval
       /\ line' = "recovered" => outage > 0 /\ outage' = 0 /\ dataAge' = 0
       /\ outage' > 0 <=> failing' = "yes"
       /\ consecutive' = outage' /\ count' = outage'
       /\ lastOkAge' = dataAge']_telemetryVars
=============================================================================
