----------------------------- MODULE EtangoPoll -----------------------------
(***************************************************************************)
(* One reading from several e2TANGO relays (etango_poller.py): each device *)
(* is read and decoded in turn, the aggregating ones are combined, and one *)
(* bad device refuses the whole sample.  MultiHostClient makes the devices *)
(* look like one client to connect_with_retry and supervise_poller.        *)
(*                                                                         *)
(* The awaits are one per device: reading all blocks of a device, and      *)
(* connecting it.  Between them links drop, and the poll may be cancelled. *)
(***************************************************************************)
EXTENDS Derive

CONSTANTS
    Devices,        \* the configured devices, in order
    Aggregating,    \* those with aggregate = true
    Mode,           \* [points -> {"sum", "avg"}]
    DeriveOps,      \* derive steps, each with its own aggregate mode
    Readings,       \* values a device may show
    OutOfRange      \* a reading no device can mean

Hosts  == {Devices[i] : i \in DOMAIN Devices}
Points == DOMAIN Mode

ASSUME DevicesCombine ==
    /\ Devices \in Seq(Hosts)
    /\ Aggregating \subseteq Hosts /\ Aggregating # {}
    /\ Readings \subseteq Int
    /\ DeriveOps \in Seq(ToSet(DeriveOps))
    /\ \A op \in ToSet(DeriveOps) : op.targets \in Seq(ToSet(op.targets))

VARIABLES
    link,       \* [device -> whether its TCP connection is up]
    poll,       \* "idle" or the index of the device being read
    perDevice,  \* values read so far in this poll
    sample,     \* the last published sample
    made,       \* history: the points each device showed for it
    connect,    \* "idle" or the index of the device being connected
    results,    \* results of connect() so far
    outcome     \* what the last connect() returned

pollVars    == <<poll, perDevice>>
outputVars  == <<sample, made>>
connectVars == <<connect, results, outcome>>
vars == <<link, pollVars, outputVars, connectVars>>

Init ==
    /\ link = [d \in Hosts |-> "down"]
    /\ poll = 0 /\ perDevice = <<>>
    /\ sample = <<>> /\ made = <<>>
    /\ connect = 0 /\ results = <<>> /\ outcome = "none"

-----------------------------------------------------------------------------
(* External: a connection is lost, or pymodbus reconnects one it had.      *)
LinkChanges ==
    /\ \E d \in Hosts : link' = [link EXCEPT ![d] = IF @ = "up" THEN "down" ELSE "up"]
    /\ UNCHANGED <<pollVars, outputVars, connectVars>>

-----------------------------------------------------------------------------
(* poll_once.                                                              *)

BeginPoll ==
    /\ poll = 0
    /\ poll' = 1
    /\ perDevice' = <<>>
    /\ UNCHANGED <<link, outputVars, connectVars>>

\* What decode_source and apply_derive make of one device; the test for the
\* range is on the raw reading.
Decoded(shown) == ApplyDerive([key \in Points |-> Num(shown[key])], DeriveOps)

\* decode_source refuses a point out of range, poll_once a derived NaN.
Valid(shown) ==
    /\ \A key \in Points : shown[key] # OutOfRange
    /\ LET values == Decoded(shown) IN \A key \in DOMAIN values : IsFinite(values[key])

\* Combines the points first and derives once.  Mutant of Combine.
CombineThenDerive(values) ==
    LET readings(key) == [i \in DOMAIN values |-> values[i][key]]
        points == [key \in Points |->
                     IF Mode[key] = "sum" THEN Total(readings(key))
                     ELSE Over(Total(readings(key)), Num(Len(values)))]
    IN ApplyDerive(points, DeriveOps)

\* _aggregate_mode: of the point, else of the step that derives the key.
AggregateMode(key) ==
    IF key \in Points THEN Mode[key]
    ELSE LET deriving == {i \in DOMAIN DeriveOps : key \in ToSet(DeriveOps[i].targets)}
         IN DeriveOps[CHOOSE i \in deriving : \A j \in deriving : i <= j].aggregate

\* _combine: the devices share one map, so each has every key.
Combine(values) ==
    [key \in DOMAIN values[1] |->
        LET total == Total([i \in DOMAIN values |-> values[i][key]])
        IN IF AggregateMode(key) = "sum" THEN total ELSE Over(total, Num(Len(values)))]

\* if link.aggregate
Chosen(list, i) == IF Devices[i] \in Aggregating THEN Append(list, i) ELSE list

\* The decoded values of the aggregating devices.
Selected(values) ==
    LET chosen == FoldLeft(Chosen, <<>>, [i \in DOMAIN values |-> i])
    IN [j \in DOMAIN chosen |-> Decoded(values[chosen[j]])]

\* Reads the next device; after the last one, combines and publishes.
ReadDevice ==
    /\ poll # 0
    /\ link[Devices[poll]] = "up"
    /\ \E shown \in [Points -> Readings \cup {OutOfRange}] :
        LET all == Append(perDevice, shown)
        IN /\ Valid(shown)
           /\ IF poll < Len(Devices)
              THEN /\ poll' = poll + 1
                   /\ perDevice' = all
                   /\ UNCHANGED outputVars
              ELSE /\ poll' = 0
                   /\ perDevice' = <<>>
                   /\ sample' = ComputeDerived(Combine(Selected(all)))
                   /\ made' = all
    /\ UNCHANGED <<link, connectVars>>

\* Mutant of DeviceFails: the device is skipped.
DeviceSkipped ==
    /\ poll # 0
    /\ IF poll < Len(Devices)
       THEN poll' = poll + 1 /\ UNCHANGED <<perDevice, outputVars>>
       ELSE /\ perDevice # <<>>
            /\ poll' = 0
            /\ perDevice' = <<>>
            /\ sample' = ComputeDerived(Combine(Selected(perDevice)))
            /\ made' = perDevice
    /\ UNCHANGED <<link, connectVars>>

\* A read error, a short read or an invalid value of any device, aggregating
\* or not, is a PollError; so is a cancelled poll.
DeviceFails ==
    /\ poll # 0
    /\ poll' = 0
    /\ perDevice' = <<>>
    /\ UNCHANGED <<link, outputVars, connectVars>>

-----------------------------------------------------------------------------
(* MultiHostClient.                                                        *)

BeginConnect ==
    /\ connect = 0
    /\ connect' = 1
    /\ results' = <<>>
    /\ outcome' = "none"
    /\ UNCHANGED <<link, pollVars, outputVars>>

\* Mutant of Verdict: any device is enough.
VerdictAny(list) == IF \E i \in DOMAIN list : list[i] THEN "true" ELSE "false"

\* all(results).
Verdict(list) == IF \A i \in DOMAIN list : list[i] THEN "true" ELSE "false"

\* One device connects, refuses or raises; the others are tried regardless.
ConnectDevice ==
    /\ connect # 0
    /\ \E ok \in BOOLEAN :
        /\ link' = [link EXCEPT ![Devices[connect]] = IF ok THEN "up" ELSE "down"]
        /\ results' = Append(results, ok)
        /\ IF connect < Len(Devices)
           THEN connect' = connect + 1 /\ UNCHANGED outcome
           ELSE connect' = 0 /\ outcome' = Verdict(Append(results, ok))
    /\ UNCHANGED <<pollVars, outputVars>>

\* A rebuild closes every link, whatever was under way.
CloseAll ==
    /\ link' = [d \in Hosts |-> "down"]
    /\ poll' = 0 /\ perDevice' = <<>>
    /\ connect' = 0 /\ results' = <<>> /\ outcome' = "none"
    /\ UNCHANGED outputVars

Next ==
    \/ LinkChanges \/ BeginPoll \/ ReadDevice \/ DeviceFails
    \/ BeginConnect \/ ConnectDevice \/ CloseAll

Spec == Init /\ [][Next]_vars

-----------------------------------------------------------------------------
(* Properties.                                                             *)

Published == sample # <<>>
Members == {i \in DOMAIN made : Devices[i] \in Aggregating}

\* The module docstring: silently losing one member "would understate the
\* total by an unknown, unflagged amount".  What is summed is the readings of
\* every aggregating device of one and the same poll, and of no other device;
\* an averaged quantity lies within what those devices showed.
AggregateIsComplete ==
    Published =>
        /\ Len(made) = Len(Devices)
        /\ \A key \in Measured(Points, DeriveOps) :
              /\ Mode[key] = "sum" =>
                    Same(sample[key], Total([i \in DOMAIN made |->
                                               Num(IF i \in Members THEN made[i][key] ELSE 0)]))
              /\ Mode[key] = "avg" =>
                    /\ \E i \in Members : AtMost(sample[key], Num(made[i][key]))
                    /\ \E i \in Members : AtMost(Num(made[i][key]), sample[key])

\* Feeders that export do not hide the load of feeders that import: apparent
\* power is derived per device before it is combined, so it is zero only if
\* every device is at rest.
ApparentPowerIsNotNetted ==
    Published =>
        \A k \in DOMAIN DeriveOps : \A i \in DOMAIN DeriveOps[k].targets :
            LET op == DeriveOps[k]
            IN /\ op.op = "hypot" /\ Final(DeriveOps, k)
               /\ Legs(op, i) \subseteq Measured(Points, DeriveOps)
               /\ IsZero(sample[op.targets[i]])
               => \A j \in Members : \A leg \in Legs(op, i) : made[j][leg] = 0

\* connect() is "All-or-nothing: True only once every device is connected":
\* each device was tried and succeeded in this very call.
ConnectIsAllOrNothing ==
    outcome = "true" => Len(results) = Len(Devices) /\ \A i \in DOMAIN results : results[i]
=============================================================================
