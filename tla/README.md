# TLA+ models of nd45_dtsu666

The program bridges power meters (an ND45, a Huawei SmartLogger, or several
eTango relays) to a Sigenergy inverter: it polls the source over Modbus, turns
the readings into canonical SI values, and serves them as a DTSU666 meter over
RS-485 or TCP. The inverter regulates on what it reads, so the one thing the
program must never do is answer with old, mixed or invented values: if it does
not know, it must fall silent.

Everything runs in one asyncio event loop per process. Coroutines interleave
only at `await`, so in these models the code between two awaits is one action,
and every await is a state of its own.

## Components of the program

| component | state it keeps | operations | talks to | hard part |
|---|---|---|---|---|
| output supervisor (`dtsu_server.py: supervise_server`) | server, serve task, `last_start`, status | check, replace dead server, start, stop, finally | reads the store's age; starts and closes the pymodbus server | awaits in the middle of an iteration, ports that fail silently, SIGTERM anywhere |
| datastore (`update_datastore`, `build_on_update`) | the served registers | write one sample | written by the poll loop, read by the server | all or nothing, write before stamp |
| poll loop (`nd45_poller.py`, `huawei_poller.py`, `etango_poller.py`) | registers read so far | read blocks, decode, reject | source client, `on_update`, `on_error` | half-read samples, cancel at any await |
| store and gate (`canonical.py`) | latest values and their time | update, age | poll loop, supervisor | age is stamped when the poll ends |
| stall recovery (`app.py: supervise_poller, connect_with_retry`) | poll task, client, backoff | detect, cancel, rebuild, reconnect | heartbeat, client | slow, dead and unreachable look alike |
| startup connect (`app.py: run_app`) | one task per bridge | connect, back off | client, heartbeat | runs beside the poll loop on the same client and heartbeat |
| fault reporter and counters (`app.py: FaultReporter`, `metrics.py: PollStats, ServerStatus`) | failing, counts, last summary | success, failure, record | `on_update`, `on_error`; the journal, `/metrics` | a write that fails after a read that did not |
| watchdog (`watchdog.py`, systemd unit) | last ping | ping or withhold | heartbeat, systemd | the last resort must stay the last resort |
| hub client (`hub_client.py`) | stream task, backoff, block cache, readiness | subscribe, receive, retry, lookup, close | modbus-hub | dead stream unnoticed, close against update |
| process (`app.py: run_app, SlowestHeartbeat`, `__main__.py`) | the coroutines of every bridge, the metrics task | gather, clean up, cancel everything, restart | all of the above, asyncio.run, systemd | failure of one coroutine, a cancellation that is swallowed, a shutdown that waits |
| metrics endpoint (`metrics.py`) | a task, open scrapes | bind, answer, stop | reads every bridge; `run_app` | a scraper that never reads |
| codec, derivation, register maps (`codec.py`, `canonical.py`, `config.py`) | none | pure functions | loaders, pollers | boundaries |
| wire statistics (`dtsu_server.py`) and the monitor's verdict (`monitor.py`) | counters, times of reads | record, summary, render | operator | chunked frames, counters before and after a filter |

What makes each correct is stated as properties below; `PROJECT.json` lists the
hazards at their lines, with the properties that cover them.

## Modules

The core, one `await` at a time:

* **`DtsuServer`**: the output supervisor. `pc` is the await the coroutine is
  in (`wait`, one of three closes) or `check` when it is about to run an
  iteration. `seen` holds the age and the clock reading captured at the top of
  the iteration, which the code goes on using after it awaited a close
  (`ReplaceDead`). The pymodbus server is a task and a transport: the port may
  open, fail to open without an error, get lost later, and the task may end by
  itself leaving the socket open (external actions `PortOpens` ... `TaskEnds`).
  `Publish` stands for the poll loop. `uptime` is a history variable: ticks
  since a server was really created, where `sinceStart` is what the code believes.
* **`Telemetry`** extends it with `FaultReporter` and `PollStats`, as `on_update`
  and `on_error` call them. `line` is what the current step writes to the
  journal; `outage` and `muted` are history: failed polls since a sample was
  stored, ticks since the last warning. `OnError` is a failed read and a failed
  write alike, because the poll loop catches what `on_update` raises.
* **`Bridge`** extends it with the poll loop (block by block, with failure and
  cancel at every await), decoding (a critical out-of-range value rejects the
  sample, a power factor becomes 0.0), the datastore and the store. `Publish`
  is not used: `ReadLastBlock` is the real thing. `realAge` is a history
  variable: ticks since the source was asked for what the registers hold. The
  store's empty dictionary before the first sample is the same state as the
  datastore's zeros.
* **`Meter`**: what a bridge promises, in four actions: registers change only
  as a whole and to complete samples; it answers only while they are recent.
  `Bridge` implements it (`ImplementsMeter`).
* **`Recovery`**: poll loop, `supervise_poller`, the startup connect task,
  heartbeat, `watchdog_loop` and systemd. The poll loop is reduced to what a
  supervisor can tell: reports, hangs, ended. `reason` records which recovery
  runs. The 5 s systemd waits before a restart are left out (nothing runs then).
  `dataAge` is the age of the store; what the output makes of it is not here.
* **`StalledBridge`** extends `DtsuServer` with an instance of `Recovery`: a
  bridge whose poll loop may stall, with its output. The two coroutines never
  call each other; they share the stop event and the age of the store, which the
  poll loop of one resets and the gate of the other reads. `run_app` cancels the
  startup connect only when both have returned, and a restart by systemd begins
  both anew.
* **`HubStream`**: `HubConnection`, `BlockCache` and the connect task over a
  hub that breaks and returns. A stream that broke is first `broken`, unnoticed,
  and any number of polls can happen before `StreamFails`. All lookups of one
  poll are one action because the hub-backed reads never await. The
  freshness limit of the bridge does not occur: the hub client does not know it.

The process around them:

* **`Process`**: `run_app` with any set of bridges. Each bridge is a poll loop,
  its supervisor, and its output supervisor; beside them the metrics task and
  one scrape whose peer does not read. `gather` ends with the first exception
  and sets no stop event, so `phase` walks through the cleanup (cancel the
  startup connects, `metrics.stop`, close the clients) while the other
  coroutines go on; then `asyncio.run` cancels each of them once (`CancelAll`)
  and waits. A coroutine that is awaiting a task it cancels itself (`cancelling`
  in `_cancel`, `reaping` in `_cancel_and_await`) takes that CancelledError for
  the task's and goes on: it is alive after everything was cancelled, and
  `Exit` waits for it. Then the watchdog is what ends the process, for its loop
  was cancelled too. No time here: every timeout may fire at any moment, which
  includes the timings of `DtsuServer` and `Recovery`. The startup connects are
  a phase (`Recovery` has them step by step), and `wait_closed` is that of
  Python 3.12, the newest version the CI runs, which waits for connections;
  3.10 and 3.11 return at once, which is the case without a scrape. systemd's
  SIGKILL after its stop timeout is left out, so `StopEndsProcess` is about what
  the program does by itself.

What the pollers compute, as operators used by several modules:

* **`Codec`**: registers as pairs of bytes, word and byte order, sized integers
  and their sentinel, `encode_point`. A byte is a digit in base `Base`, 256 in
  the code and small in a run. `DeviceRegisters` is the other side, written
  from the position of a byte and not from `codec.py`.
* **`Derive`**: the steps of `apply_derive` and `compute_derived` over
  fractions; a number without a denominator is a NaN or an infinity. A loop
  over the steps of a map is a fold over a list of any length.

Modules over them, and beside the core:

* **`HuaweiPoll`**: one SmartLogger poll, from what the device holds (`meant`)
  through its registers to the published sample. The points of a section are
  integers, as all the shipped ones are; the device and its map are drawn
  together, so that it holds what fits in the registers the map describes.
* **`EtangoPoll`**: the relays of an e2TANGO bridge, read one after the other
  while links drop and return, a startup or rebuild `connect()` goes through
  the same devices, or everything is closed; combination into one sample.
* **`RegisterMap`**: `registers.json`: what the validators accept, what the
  three pollers and the hub subscription make of it, and the registers of one
  poll after encoding.
* **`Deployment`**: what `AppConfig` accepts, and the serial ports, TCP outputs
  and metrics endpoints that then bind, in any order and across restarts, as
  one process or as one systemd instance per bridge.
* **`WireActivity`**: `scan_rtu_requests` and `WireActivity.record` over a
  byte stream cut into chunks anywhere. **`RtuActivity`** extends it with the
  reads the bridge answers: a chunk goes to both, pymodbus drops some requests
  in between, and the monitor compares the two. `heard` is a history of every
  recorded read.

**`MCBridge`**, **`MCHubStream`**, **`MCSources`** and **`MCConfiguration`** hold
the constants of small instances. The last two hold two systems that share no
state and are checked one at a time: `MCSources` a bridge of either deriving
source (`HuaweiPoll` or `EtangoPoll`, by `source.type`), `MCConfiguration` either
of the two files (`RegisterMap` or `Deployment`). The modules named `...Proofs`, and **`Folding`**, hold the theorems.

Definitions commented "Mutant of ..." are not part of any specification. Each
is what one definition would be with a plausible bug; with it in place TLC
finds the property it was written for violated.

Time is counted in ticks. `Tick` is disabled while a coroutine is ready or a
bounded await is over, so a timer fires on time and every delay the code can
meet is a choice within its bound. Ages saturate one tick above the largest
value they are compared with, which changes no comparison.

## Runs

| run | question | result |
|---|---|---|
| `DtsuServer` (module `Telemetry`) | how old can served data get, may `dtsu_server_up` hide a transport, can the transport flap, is fresh data served again and again, does SIGTERM end it, is an outage told once | holds: age at most limit + check interval + 2 closes; the bound is tight |
| `Bridge` | is what Sigenergy reads always one complete, recent sample; does the bridge implement `Meter` | holds |
| `Recovery` | who is cancelled, when is the process restarted, does a hung or dead loop come back, does a stop end a recovery | holds where connect retries are further apart than a stall |
| `StalledBridge` | does any port answer between the cancel of a hung loop and the first poll of the rebuilt client | none, with a stall timeout as long as the gate may serve one sample |
| `HubStream` | when may the cache answer and from what, do stream and `connect()` come back | holds |
| `Sources` (module `MCSources`) | SmartLogger: is the sample what the device holds, can it always be served, are power factors within bounds, do phases agree with totals; relays: does a published total contain every aggregating relay, of one poll, and no other | holds |
| `Configuration` (module `MCConfiguration`) | `registers.json`: does an accepted map work on a healthy source, is each served pair whole; `config.yaml`: can an accepted deployment fight over a port | holds, for maps that are `WellKept`; ports collide only in the two ways the properties name |
| `RtuActivity` | is each request on the wire counted once, are the read statistics those of this moment, when is the installer told WRONG ADDRESS | holds, as long as the table of ids has room for a foreign one |
| `Process` | what is left behind when one coroutine raises, when everything is cancelled, when SIGTERM arrives; is a failure repaired | holds, with the exceptions the properties name |
| `DtsuServerPortReport` | README: `dtsu_server_up` is "1 while the output transport is actually serving" | violated: it stays 1 with a port that never opens |
| `StalledBridgeFresh` | docstring of `supervise_poller`: "Throughout a recovery this bridge's output stays silenced" | violated where the freshness limit exceeds the stall timeout, which no validator refuses |
| `RecoveryMasked` | README: a loop without progress for the stall timeout "is torn down and rebuilt in place" | violated: the startup connect task keeps the shared heartbeat young |

Two closes, not one, bound the age of served data because an iteration may
await the close of a dead server, start a new one from the age captured before
it, sleep, and only then begin the close that silences it.

`RecoveryMasked` is not a corner case of the configuration: with
`reconnect_delay_max_s` 30 and `stall_timeout_s` 60, as shipped for the
SmartLogger, a source that refuses the startup connect masks a stall for as
long as it does. The same touches also mask a hung rebuild from the watchdog,
which is why `LoopComesBack` assumes that neither connect task retries for ever.

`StalledBridge` has the stall timeout exactly at the age bound of the output
(freshness limit, one check interval, two closes). One tick less and the last
close is still under way when the loop is cancelled. The shipped settings are far
from it (30 s against 3 s, 60 s against 30 s); `StalledBridgeFresh` is a
configuration that loads and is not. Only recoveries from a stall are meant: a
loop that died instead is replaced at the next check, and its last sample is
served until the gate closes, as after any missed poll.

`Process` names three ways in which the shutdown is not what one would expect.
A failure in one bridge is not repaired while a scraper that reads nothing
holds `metrics.stop` and every other poll loop keeps the watchdog content
(`FailureIsRepaired`). SIGTERM does not end the process while such a scraper
stays, or while a `connect()` inside a recovery never returns
(`StopEndsProcess`). And an output may outlive its supervisor when the process
is being stopped: the finally block of `supervise_server`, cut off in
`shutdown()` by the cancellation, leaves the transport to the exit of the
process (`NoUngatedService`).

### What the code does not promise, though its text does

These were met while modelling; each is in a model as the code has it, and the
property beside it says exactly how far the promise holds.

| code | text | where it shows |
|---|---|---|
| `dtsu_server.py:513` decides to start a server on an age read before an awaited close | `:441` "while data is fresh" | `BoundedServe` counts two closes |
| `canonical.py:95`, `:112`: power factor 1.0 at rest without P, an equal split without weights | `:64` missing inputs write NaN | `Derive!PowerFactor`, `Derive!RatioShares` |
| `config.py:217`: address lists are not compared with the read groups, and two pollers cannot take them | `:202` fail at load time | `WellKept` |
| `config.py:338`: derive targets count as produced in an ND45 section, whose poller does not derive | `:314` produced by every section | `WellKept` |
| `config.py`: a derive step may name inputs nothing produces; its target is then zeroed or refused at every poll | `:313` | `WellKept` |
| `nd45_poller.py:93` reads at documented addresses | `config.py:194` the offset is added on the wire | `RegisterMap!Reads`, `BlocksForSource` agree on it |
| `nd45_poller.py`, `etango_poller.py` ignore `dtype` | `config.py` accepts any | `RegisterMap!Decodes`, `WellKept` |
| `config.py:238`: output maps are not compared with each other | none | `PairsAreWhole` |
| `hub_client.py:199`: the staleness threshold is `max(timeout_s, 3 * poll_interval_s)`; nothing relates it to `max_data_age_s` | `:194` "always fires before" the freshness limit | `HubStream` has the threshold and no freshness limit: `SampleBounded` counts the threshold alone |
| `app.py:538`: the age of the heartbeat decides on a recovery, and nothing relates `stall_timeout_s` to `max_data_age_s` | `:500` "its data is stale by definition" | `StalledBridgeFresh`; `SilentRecovery` assumes the relation |
| `app.py:646`: a supervisor awaiting a task it cancelled swallows the one cancellation; a scrape holds the cleanup before it | `docs/AUDIT-2026-08-05.md` P2-7: asyncio.run's hard cancel closes the port | `Process!PollerCancelled`, `ServerCancelled`, `HeldByScrape` |
| the process can wait in `metrics.stop` while its poll loops beat | `systemd/nd45-dtsu666@.service:69` "always self-recovers" | `FailureIsRepaired` |
| the watchdog follows the slowest poll loop (`app.py:582`) | `watchdog.py:21`, `:87` "event-loop liveness" | `Process!NoPing`, `Beating` |
| `metrics.py:797` `/healthz` and the monitor's "SERVING" compare ages only | "only when every bridge is serving" | `dataAge` and `transport` are separate in `DtsuServer` |
| `monitor.py:304`: also when the port was never opened | "nothing is transmitting on this port" | `transport = "unopened"` in `DtsuServer` |
| the handlers of the write requests FC06, FC22 and FC23 in pymodbus read registers through `getValues`, which counts them; on the wire `scan_rtu_requests` counts FC06 but not FC22 and FC23, so a master that sends those can be answered more often than it was heard | `dtsu_server.py:196` "read requests" | left out: the master of `RtuActivity` sends only reads, and `WrongAddressIsRight` is about such a master |
| `config.py:832`: a wildcard host is a host like any other | `:812` must not share an output transport | `OutputsAreExclusive` |
| `config.py:881`, `:737`: bridges without a metrics port all fall back to one | `:872` must not share a metrics port | `MetricsAreExclusive` |

### Bounds

The timing constants are small but ordered in the ways the code distinguishes:
restart throttle above, and grace period different from, the check interval;
closes that take time; connect attempts that take time; stall below watchdog.
`Recovery` has a retry delay that reaches past a stall, and lets the age of the
data saturate (`DataCap`) beyond it. `StalledBridge` has the shortest stall
timeout for which its property holds, and one tick for every other delay, closes
and cancels included; in `StalledBridgeFresh` the stall timeout is more than two
poll intervals and the limit more than two as well, as the validators ask.
`Bridge` has two blocks, a critical point in each and an optional one, and two
readings, enough to see a mix of two samples; the readings are interchangeable,
and the run's properties are all safety properties, so the symmetry is sound.
`HubStream` has two blocks, one covering the other, so that the choice of the
newest entry matters.

In `Sources`, `HuaweiPoll` works in base 2, where an `i32` has four bits: every type maximum
and both signs fit, and all four combinations of word and byte order occur over
two sections shaped like the shipped ones. `EtangoPoll` has three relays, one of
them read but not aggregated. In `Configuration`, `RegisterMap` has sections with one thing wrong
each (address list, offset, short or long type, uncovered point, derive step on
a missing input) and output maps that overlap within a map and across maps.
`Deployment` has two bridges, two serial ports, two TCP ports, and the wildcard
beside one address. `Process` has two bridges, one that fails and one that is
dragged along; every coroutine of both can be anywhere when it happens. The
telemetry counts up to four failures of an outage and summarises every two
ticks, so an outage has several summaries. `RtuActivity` has frames of three bytes over three byte
values, two tracked ids, and every stream of up to eight bytes in chunks of up
to four: more than two frames, and more ids than can be tracked; its clock runs
past the rate window, and its table of blocks is smaller than what is read.

`Configuration`, `RtuActivity` and `Process` stop when the map is
refused, all endpoints are settled, the stream is used up, or the process has
exited; everywhere else a deadlock would be reported.

### Fairness

The event loop runs what is ready (weak fairness of each coroutine's steps), an
awaited close, cancel or connect that does not hang returns, time passes.
Nothing is assumed of ports, sources or the hub except where a property says
so: `FreshDataIsServed` also assumes that a port tried again and again opens in
the end (strong fairness of `PortOpens`); `StreamComesBack` that the hub stays
up from some point on; a hang (`PollHangs`, `RebuildHangs`) is never fair and
never excluded. In `Process` the fair steps are those of the event loop, a
cancellation that is delivered, systemd's kill when no ping comes and its
restart; the source, which may refuse connects for ever, the peer of a scrape and
whoever sends the signal owe nothing. Once the stop event is set,
`connect_with_retry` returns unless its attempt hangs (weak fairness of
`stop /\ ConnectReturns`). The remaining modules have safety properties only.

## Proofs

All for every value of the constants that satisfies the named assumptions. Every
safety invariant, action property and refinement the passing runs check has a
theorem; the runs show it on a small instance, the theorem for every one.

* **`BridgeProofs`**, one bridge in four parts.
  - *The supervisor* (from `ServerTiming`): `TypeCorrect`, `FailSafe`
    (`[]BoundedServe`), `HonestStatus` (`[]NoUnreportedService`), `Throttled`,
    `GraceGiven`. `BoundedServe` is not inductive: that a transport is open with
    young data says nothing about how long the supervisor will take to look. The
    invariant says, for each await, how old the data can be given how long the
    supervisor has been in it: in a sleep, at most the age limit plus one close
    plus the sleep so far when a server is up; in a close, the age at its
    beginning plus the time the close took; and that `seen` is the reading of
    that long ago. The bounds then follow from the guards of `Tick`.
  - *The telemetry*: `TelemetryOnlyWatches` (every behaviour with it is one of
    `DtsuServer`), hence `TelemetryKeepsPromises` (the four properties above hold
    in the specification the run checks; that `dtsu_server_up` is 1 only while the
    port is open is not among them, see `DtsuServerPortReport`), and
    `OutagesAreToldOnce`. The invariant: reporter, counters and history count the same failures, and the
    reporter's clock is the history's.
  - *Poller, store and server together*: `BridgeRefinesServer` first (the bridge
    is a behaviour of `DtsuServer`, so its theorems carry over), then
    `ServedIsStored`, `NothingInvented`, `EndToEndAge`, `BridgeTypeCorrect`, and
    `BridgeIsMeter`: initial states map to initial states and every step to a
    step of `Meter` or a stutter. The invariant relates `realAge`, `dataAge` and
    the time a poll has been under way.
  - *Recovery and output together* (from `StalledTiming`): `StalledFailSafe`, the
    age bound across stalls, rebuilds and restarts, and `SilentRecovery`
    (`[]RecoveryIsSilent`, assuming `ServeBound <= StallTimeout`). Every step is a
    step of `DtsuServer`, or begins it anew, so the invariant of the first part
    holds; and every step is one of `Recovery`, so `StallKeepsOld` does. What is
    served is at most `ServeBound` old, and during a recovery from a stall there is
    nothing that young. That assumption is on the configuration: the code does not
    check it.
* **`RecoveryProofs`** (from `DeployedOrdering`: a poll is no longer than a
  stall; a stall, its detection and a cancel, and likewise a connect attempt
  with its longest retry delay, fit in the watchdog time): `RecoveryTypeCorrect`,
  `StallKeepsOld` (while a hung loop is cancelled and its client rebuilt, the
  stored sample is older than a stall), `RestartLast`, `LoopNotOrphaned`,
  `FailingIsNotStalled`. The
  invariant bounds the heartbeat's age in each state of the supervisor and says
  which of its states leave a loop behind.
* **`HubStreamProofs`**: `HubTypeCorrect`, `CacheLocked` (also after `close()`),
  `ConnectWaitsForAll`, `SamplesAreRecent`.
* **`ProcessProofs`** (for any set of bridges): `ProcessTypeCorrect`,
  `NoneUngated`, `ClientsLast`. A transport belongs to a supervisor that has not
  ended, except after everything was cancelled, where a finally block cut off in
  its close is the one that leaves it; and that block is reached without a
  failure of its own only on the stop event. Then, for any bridges, ports and
  hosts, `OutputsExclusive` and `MetricsExclusive` of `Deployment`: only accepted
  configurations are deployed, and whatever is bound or was blocked is an
  endpoint of a process of that deployment; the rest is a case distinction over
  pairs of endpoints.
* **`Folding`**: what a loop over a list computes, for any loop body, stated once
  for the constant operator `Op`. A module that proves something about a loop
  takes an INSTANCE of it with the body as `Op`, so one set of lemmas serves the
  derive steps, the output maps, the sums, the digits of a number and the frames
  of a chunk. `FoldSteps` gives the chain of intermediate results: the first is
  the initial value, each next one is the body applied to the one before it, the
  last is the fold. `InductionOverNat`, about sets of numbers, then carries a
  property along that chain.
* **`RtuActivityProofs`**: `WireCounts`, `PortCounts` (each request is counted
  once, without and with the filter of pymodbus beside it), `ActivityExact` and
  `WrongAddressRight`. The heart is that the buffer and the frames found so far
  are a function of the whole stream: `record` of a chunk after a kept tail finds
  exactly the frames that end in that chunk, wherever it was cut. On top of it
  the counts are tallies of a log with at most so many entries, the kept reads
  and times are the youngest of the history, and no more was answered than was
  asked. `MaxIds >= 2` is what the verdict needs: in a table of one, requests to
  this bridge that it did not answer would leave no room for a foreign id. The
  code has eight.
* **`RegisterMapProofs`**: `HubCovers`, from `ReadsAreDeclared` (the reads of
  the pollers and the blocks of `blocks_for_source` are the same set);
  `EncodedIsRead`, for all bytes and orders; `PairsWhole`, for any number of
  output maps: a pair just written reads back, and a later map disturbs it only
  by claiming a register of it, which `ClaimedLater` records; `KeptServe`: a
  well-kept map leaves no derived point unproduced after the last step, so no
  poll of a healthy source fails and nothing is zeroed.
* **`SourceProofs`**, what the pollers make of their readings.
  - *`EtangoPoll`*: `ConnectsTogether`, `MembersComplete`, `NotNetted`. The
    invariant: a poll at device *n* has *n - 1* valid readings behind it,
    `connect()` one result per device tried, and the published sample is the
    combination of one whole poll. That sums, averages and apparent powers are
    then what they should be follows from lemmas about adding fractions in any
    grouping.
  - *`Codec`*: `IntegerIsRead`: a device's integer is read back, for every
    width, both signs, both orders and every even `Base`. By induction over the
    words and over the bytes of a word.
  - *`HuaweiPoll`*: `MeantIsServed`, `AlwaysServable` (with `NeededStayFinite` and
    `FactorsFit`) and `PhasesMakeTheTotal`, for any accepted map. The invariant
    `ServedInv` only says that what is served is the sample of what was held; the
    work is in the chain of derive steps: a step that writes a point last is what
    is published (`Final`), and its inputs are what it read if nothing wrote
    them after it (`Settled`).

What the theorems assume of the constants is what the code checks or ships:
`SectionsTyped`, `TargetsTyped`, `DevicesCombine` and `MapsAccepted` are the types
and validators of `config.py`, and the lists of a configuration are finite. Three
assumptions go beyond that. Scales and offsets are finite fractions, where
pydantic accepts NaN and infinity. A SmartLogger section has integer points only.
And `HoldingsFit` says of the device that what it holds fits in its registers.
Two properties have a condition of their own: `SampleIsMeant` is about points no
derive step overwrites (`Measured`), which no validator forbids but no shipped
section does, and `PowerFactorFits` is about maps whose steps all have their
inputs (`Supplied`).

Only model-checked: the liveness properties (`FreshDataIsServed`,
`StopTerminates`, `HungLoopTornDown`, `LoopComesBack`, `StopEndsRecovery`,
`StreamComesBack`, `ConnectReturns`, `FailureIsRepaired`, `StopEndsProcess`),
because neither fairness nor ENABLED can be reasoned about with the provers used
here. No module declares a RECURSIVE operator; loops are folds, which is what
makes them provable. What a float computes is in neither: the fractions of
`Derive` are exact, so the theorems say nothing of rounding.

## Not modelled, and why

Text rendering and the operator tools beyond the monitor's verdict on the bus
(`rtudebug`, `diag`, `static`, `selftest`, the command line) do not affect what
is served: they run the same coroutines and print. `/metrics` is a rendering of
state that other modules hold, and `SampleStats` is statistics for a terminal.
pymodbus, pyserial, gRPC, asyncio and systemd are external and modelled as far
as the code relies on them. Rounding of float32 and float64 is left out;
`math.hypot` and the square root of 3 are replaced by rational steps with the
same sign, zeros and bounds. Left out too: the second TCP connection a startup
connect may open on a client that a rebuild already closed (nothing polls it),
and the single-field bounds of the configuration, which are assumptions on the
constants.

## Plan

1. *Done*: every component's module with its runs; every safety property,
   action property and refinement of a run proved.
2. Worth adding: the timing settings `AppConfig` accepts, related to
   `ServerTiming`, `DeployedOrdering` and the assumption of `SilentRecovery`;
   float points in a SmartLogger section; a master that writes, for the wire
   statistics.
3. Worth proving: that `Process` abstracts `Recovery` and `DtsuServer`; that a
   `HuaweiPoll` sample is one `Bridge` may publish; the safety half of the
   liveness properties, such as which states a stop can still be waited for in.
