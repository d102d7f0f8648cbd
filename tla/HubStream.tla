------------------------------ MODULE HubStream ------------------------------
(***************************************************************************)
(* Reading a source through modbus-hub (hub_client.py).  A HubConnection   *)
(* keeps one Subscribe stream alive (_run, _stream_once): it subscribes    *)
(* the blocks the source needs, puts every update the hub pushes into a    *)
(* BlockCache, and after a failure waits and subscribes again.  The poll   *)
(* loop never waits for the hub: its reads are lookups in the cache, and   *)
(* the lookups of one poll run without an await between them.              *)
(*                                                                         *)
(* The cache is what the fail-safe rests on: it must refuse to answer when *)
(* the stream is down, when a block is old, and for ever once closed.      *)
(***************************************************************************)
EXTENDS Integers, FiniteSets

CONSTANTS
    Blocks,       \* the blocks of the subscription
    Covering,     \* Covering[b]: the blocks that contain the registers of b
    PollInterval, \* source.poll_interval_s
    Timeout,      \* source.timeout_s
    MaxLag,       \* the longest an update is on its way from the device
    RetryDelay,   \* source.reconnect_delay_s
    RetryMax,     \* source.reconnect_delay_max_s
    ConnectWait   \* period_s * 5 + 2.0

ASSUME HubConstants ==
    /\ IsFiniteSet(Blocks) /\ Blocks # {}
    /\ Covering \in [Blocks -> SUBSET Blocks]
    /\ \A b \in Blocks : b \in Covering[b]
    /\ PollInterval \in Nat \ {0} /\ Timeout \in Nat \ {0}
    /\ MaxLag \in Nat
    /\ RetryDelay \in Nat \ {0} /\ RetryMax \in Nat /\ RetryDelay <= RetryMax
    /\ ConnectWait \in Nat \ {0}

VARIABLES
    hub,       \* modbus-hub: "up" or "down"
    stream,    \* where _run is; "broken": the stream is gone, unnoticed
    delay,     \* the next backoff of _run
    wait,      \* ticks spent in the current backoff
    error,     \* BlockCache._stream_error: "none" or "set"
    entries,   \* BlockCache._entries, with the age of each entry
    awaited,   \* blocks that were never delivered; {}: _ready is set
    closed,    \* HubConnection._closed: "no" or "yes"
    caller,    \* the connect_with_retry task of run_app
    callWait,  \* ticks it has waited for _ready, or slept after a refusal
    sample,    \* outcome of the latest poll
    live       \* history: the current stream has delivered something

vars == <<hub, stream, delay, wait, error, entries, awaited, closed, caller,
          callWait, sample, live>>
streamVars == <<stream, delay, wait, error, entries, awaited, closed, live>>

\* staleness_threshold
StalenessThreshold == IF Timeout >= 3 * PollInterval THEN Timeout ELSE 3 * PollInterval

AgeCap  == StalenessThreshold + 1
ReadCap == AgeCap + MaxLag

Entry == [kind : {"none", "registers", "error"}, age : 0 .. AgeCap, readAge : 0 .. ReadCap]
NoEntry == [kind |-> "none", age |-> AgeCap, readAge |-> ReadCap]
NoSample == [result |-> "none", oldestRead |-> 0]

TypeOK ==
    /\ hub \in {"up", "down"}
    /\ stream \in {"none", "opening", "receiving", "broken", "backoff", "closed"}
    /\ delay \in RetryDelay .. RetryMax
    /\ wait \in 0 .. RetryMax
    /\ error \in {"none", "set"}
    /\ entries \in [Blocks -> Entry]
    /\ awaited \subseteq Blocks
    /\ closed \in {"no", "yes"}
    /\ caller \in {"idle", "waiting", "connected", "refused"}
    /\ callWait \in 0 .. ConnectWait
    /\ sample \in [result : {"none", "ok", "failed"}, oldestRead : 0 .. ReadCap]
    /\ live \in {"no", "yes"}

Init ==
    /\ hub \in {"up", "down"}
    /\ stream = "none" /\ delay = RetryDelay /\ wait = 0
    /\ error = "set"
    /\ entries = [b \in Blocks |-> NoEntry]
    /\ awaited = Blocks
    /\ closed = "no"
    /\ caller = "idle" /\ callWait = 0
    /\ sample = NoSample
    /\ live = "no"

-----------------------------------------------------------------------------
(* connect() and close().                                                  *)

Connected == error = "none"

\* connect_with_retry calls until a call succeeds, and sleeps in between.
Calls == caller = "idle" \/ (caller = "refused" /\ callWait >= 1)

\* A closed connection refuses at once; otherwise the stream is started if it
\* is not running, and the call waits for _ready.
ConnectBegins ==
    /\ Calls
    /\ IF closed = "yes"
       THEN caller' = "refused" /\ UNCHANGED stream
       ELSE /\ caller' = "waiting"
            /\ stream' = IF stream = "none" THEN "opening" ELSE stream
    /\ callWait' = 0
    /\ UNCHANGED <<hub, delay, wait, error, entries, awaited, closed, sample, live>>

\* Mutant of Ready: the first block to arrive signals readiness.
ReadyAtFirst == awaited # Blocks

Ready == awaited = {}

\* Mutant of ConnectEnds: the wait for _ready has no timeout.
ConnectEndsUntimed ==
    /\ caller = "waiting"
    /\ Ready
    /\ caller' = IF Connected THEN "connected" ELSE "refused"
    /\ callWait' = 0
    /\ UNCHANGED <<hub, streamVars, sample>>

ConnectEnds ==
    /\ caller = "waiting"
    /\ \/ Ready /\ caller' = IF Connected THEN "connected" ELSE "refused"
       \/ ~Ready /\ callWait >= ConnectWait /\ caller' = "refused"
    /\ callWait' = 0
    /\ UNCHANGED <<hub, streamVars, sample>>

\* The task is cancelled at its await and never runs again.
Close ==
    /\ closed = "no"
    /\ closed' = "yes"
    /\ stream' = "closed"
    /\ error' = "set"
    /\ live' = "no"
    /\ UNCHANGED <<hub, delay, wait, entries, awaited, caller, callWait, sample>>

-----------------------------------------------------------------------------
(* _run and _stream_once.                                                  *)

\* The subscription is written.
Subscribes ==
    /\ stream = "opening"
    /\ hub = "up"
    /\ stream' = "receiving"
    /\ UNCHANGED <<hub, delay, wait, error, entries, awaited, closed, caller,
                   callWait, sample, live>>

\* One update of the stream, with registers or with the hub's error.
Deliver(b) ==
    /\ stream = "receiving"
    /\ \E kind \in {"registers", "error"}, lag \in 0 .. MaxLag :
          entries' = [entries EXCEPT ![b] = [kind |-> kind, age |-> 0, readAge |-> lag]]
    /\ error' = "none"
    /\ awaited' = awaited \ {b}
    /\ live' = "yes"
    /\ UNCHANGED <<hub, stream, delay, wait, closed, caller, callWait, sample>>

\* Mutants of StreamFails: the cache is not told; _run is not retried.
StreamFailsQuietly ==
    /\ stream = "broken" \/ (stream = "opening" /\ hub = "down")
    /\ stream' = "backoff" /\ wait' = 0
    /\ live' = "no"
    /\ UNCHANGED <<error, hub, delay, entries, awaited, closed, caller, callWait, sample>>

StreamFailsForGood ==
    /\ stream = "broken" \/ (stream = "opening" /\ hub = "down")
    /\ stream' = "closed"
    /\ error' = "set"
    /\ live' = "no"
    /\ UNCHANGED <<wait, hub, delay, entries, awaited, closed, caller, callWait, sample>>

\* The write or the receive raises, or the hub closed the stream.
StreamFails ==
    /\ stream = "broken" \/ (stream = "opening" /\ hub = "down")
    /\ stream' = "backoff" /\ wait' = 0
    /\ error' = "set"
    /\ live' = "no"
    /\ UNCHANGED <<hub, delay, entries, awaited, closed, caller, callWait, sample>>

\* _stream_once always raises: the reset of the delay after it never runs.
NextDelay == IF 2 * delay <= RetryMax THEN 2 * delay ELSE RetryMax

StreamRetries ==
    /\ stream = "backoff"
    /\ wait >= delay
    /\ stream' = "opening"
    /\ delay' = NextDelay
    /\ wait' = 0
    /\ UNCHANGED <<hub, error, entries, awaited, closed, caller, callWait, sample, live>>

-----------------------------------------------------------------------------
(* The hub process.                                                        *)

HubBreaks ==
    /\ hub = "up"
    /\ hub' = "down"
    /\ stream' = IF stream = "receiving" THEN "broken" ELSE stream
    /\ UNCHANGED <<delay, wait, error, entries, awaited, closed, caller, callWait,
                   sample, live>>

HubReturns ==
    /\ hub = "down"
    /\ hub' = "up"
    /\ UNCHANGED <<streamVars, caller, callWait, sample>>

-----------------------------------------------------------------------------
(* Lookups and polls.                                                      *)

Known(b) == {c \in Covering[b] : entries[c].kind # "none"}

\* The most recently received covering entry; of several received in the same
\* tick, any one.
Newest(b) == {c \in Known(b) : \A d \in Known(b) : entries[c].age <= entries[d].age}

\* Mutant of Answers: the age of the entry is not looked at.
AnswersAtAnyAge(c) == Connected /\ entries[c].kind = "registers"

\* lookup() answers from entry c.
Answers(c) ==
    /\ Connected
    /\ entries[c].kind = "registers"
    /\ entries[c].age <= StalenessThreshold

\* poll_once through a HubClient: every block is looked up; one error fails it.
\* `r` is the block that was read the longest ago.
Poll ==
    /\ \/ \E best \in [Blocks -> Blocks], r \in Blocks :
             /\ \A b \in Blocks :
                   /\ best[b] \in Newest(b) /\ Answers(best[b])
                   /\ entries[best[b]].readAge <= entries[best[r]].readAge
             /\ sample' = [result |-> "ok", oldestRead |-> entries[best[r]].readAge]
       \/ /\ \E b \in Blocks : Newest(b) = {} \/ \E c \in Newest(b) : ~Answers(c)
          /\ sample' = [result |-> "failed", oldestRead |-> 0]
    /\ UNCHANGED <<hub, streamVars, caller, callWait>>

-----------------------------------------------------------------------------
Older(age, cap) == IF age < cap THEN age + 1 ELSE cap

Tick ==
    /\ stream = "backoff" => wait < delay
    /\ caller = "waiting" => ~Ready /\ callWait < ConnectWait
    /\ wait' = IF stream = "backoff" THEN wait + 1 ELSE wait
    /\ callWait' = IF caller \in {"waiting", "refused"}
                   THEN Older(callWait, ConnectWait) ELSE callWait
    /\ entries' = [b \in Blocks |->
                     [kind |-> entries[b].kind,
                      age |-> Older(entries[b].age, AgeCap),
                      readAge |-> Older(entries[b].readAge, ReadCap)]]
    /\ UNCHANGED <<hub, stream, delay, error, awaited, closed, caller, sample, live>>

Stream == Subscribes \/ StreamFails \/ StreamRetries
Delivery == \E b \in Blocks : Deliver(b)

Next ==
    \/ ConnectBegins \/ ConnectEnds \/ Close \/ Stream \/ Delivery
    \/ HubBreaks \/ HubReturns \/ Poll \/ Tick

Spec == Init /\ [][Next]_vars

(***************************************************************************)
(* Fairness: the event loop runs the stream task and the connect call, the *)
(* first connect is made (connect_with_retry), time passes, and a hub that *)
(* is up keeps delivering every subscribed block.                          *)
(***************************************************************************)
FairSpec ==
    /\ Spec
    /\ WF_vars(Stream) /\ WF_vars(Tick) /\ WF_vars(ConnectEnds)
    /\ WF_vars(ConnectBegins /\ stream = "none")
    /\ \A b \in Blocks : WF_vars(Deliver(b))

-----------------------------------------------------------------------------
(* Properties.                                                             *)

\* No block is answered from the cache unless the stream that is open now (or
\* broke and was not noticed yet) has delivered something: after a failure the
\* entries of the old stream stay locked until the new one is really up.  And
\* close() is final: the connection a recovery threw away never answers again,
\* however close() interleaves with updates and reconnects.
SilentWithoutStream ==
    /\ (\E b \in Blocks : Answers(b)) => live = "yes" /\ stream \in {"receiving", "broken"}
    /\ closed = "yes" => ~Connected

\* A connect() that returned True means every block was delivered at least
\* once, so the first poll cannot fail on a block nobody has sent yet.
ConnectedMeansDelivered ==
    caller = "connected" => \A b \in Blocks : entries[b].kind # "none"

\* What a poll accepts was read from the device at most one staleness window
\* plus the delivery lag ago, although its age is counted from the receipt.
SampleBounded == sample.result = "ok" => sample.oldestRead <= StalenessThreshold + MaxLag

\* As long as the hub stays up and nobody closes the connection, the stream
\* comes back, whatever happened before.
StreamComesBack ==
    <>[](hub = "up" /\ closed = "no") => <>[](stream = "receiving" /\ Connected)

\* connect() returns: a hub that delivers nothing cannot hold it for ever.
ConnectReturns == caller = "waiting" ~> caller # "waiting"
=============================================================================
