----------------------------- MODULE HuaweiPoll -----------------------------
(***************************************************************************)
(* What a SmartLogger bridge makes of its registers (huawei_poller.py):    *)
(* decode, zero what is invalid, derive what the device cannot supply,     *)
(* scrub, publish.  overrange_seen, which only keeps a warning from being  *)
(* logged twice, is left out.  Reading the blocks is as in Bridge; here a  *)
(* poll that reads them is one action on arbitrary readings, since nothing *)
(* between the last read and the publication awaits.                       *)
(***************************************************************************)
EXTENDS Derive, Codec

CONSTANTS
    Maps,       \* source sections: points, orders, derive steps
    Holdings(_),\* for each map, the [points -> integers] its device may hold
    Needed      \* the keys the output maps refer to

Fractions == [n : Int, d : Nat \ {0}]

\* What the validators of DeriveOp and RegisterMap accept.
StepAccepted(op) ==
    /\ op.op \in {"constant", "copy", "split_equal", "phase_from_line", "hypot",
                  "ratio_split", "pf_from_p_s"}
    /\ \A list \in {op.targets, op.from, op.weights} : list \in Seq(ToSet(list))
    /\ ArityOk(op)
    /\ op.op = "constant" => op.value \in Fractions

ASSUME MapsAccepted ==
    \A m \in Maps :
        /\ m.wordOrder \in {"big", "little"} /\ m.byteOrder \in {"big", "little"}
        /\ \A key \in DOMAIN m.points :
              /\ m.points[key].dtype \in DOMAIN IntDtype
              /\ m.points[key].scale \in Fractions /\ m.points[key].offset \in Fractions
              /\ m.points[key].sign \in Int
        /\ m.derive \in Seq(ToSet(m.derive))
        /\ \A op \in ToSet(m.derive) : StepAccepted(op)
        /\ Needed \subseteq DOMAIN m.points \cup Derived(m.derive) \cup Aliases

\* External: a device holds what fits in its registers.
ASSUME HoldingsFit ==
    \A m \in Maps : \A held \in Holdings(m) : \A key \in DOMAIN m.points :
        held[key] \in Least(m.points[key].dtype) .. Greatest(m.points[key].dtype)

VARIABLES
    map,        \* the bridge's source section
    meant,      \* history: what the device held when it was last read
    served      \* the sample published last

huaweiVars == <<map, meant, served>>

MapPoints == DOMAIN map.points

HuaweiInit ==
    /\ map \in Maps
    /\ meant = <<>> /\ served = <<>>

Scaled(raw, point) == Plus(Times(Num(raw * point.sign), point.scale), point.offset)

\* decode_int_point: NaN for the sentinel, else scale, sign and offset.
Decode(regs, point) ==
    LET raw == RegistersToInt(regs, point.dtype, map.wordOrder, map.byteOrder)
    IN IF IntIsInvalid(raw, point.dtype) THEN NaN ELSE Scaled(raw, point)

\* Mutant of ZeroInvalid: only what can be decoded is kept.
DropInvalid(values) ==
    [key \in {k \in DOMAIN values : IsFinite(values[k])} |-> values[key]]

\* An invalid channel reads 0.0; it does not reject the sample.
ZeroInvalid(values) ==
    [key \in DOMAIN values |-> IF IsFinite(values[key]) THEN values[key] ELSE Num(0)]

\* poll_once, up to the returned sample.
Sample(values) ==
    ComputeDerived(ZeroInvalid(ApplyDerive(ZeroInvalid(values), map.derive)))

Values(held) ==
    LET point(key) == map.points[key]
        regs(key) == DeviceRegisters(held[key], point(key).dtype, map.wordOrder, map.byteOrder)
    IN [key \in MapPoints |-> Decode(regs(key), point(key))]

\* A poll that reads every block; one that does not changes nothing here.
Poll ==
    \E held \in Holdings(map) :
        /\ meant' = held
        /\ served' = Sample(Values(held))
        /\ UNCHANGED map

HuaweiNext == Poll

HuaweiSpec == HuaweiInit /\ [][HuaweiNext]_huaweiVars

-----------------------------------------------------------------------------
(* Properties.                                                             *)

Polled == served # <<>>

\* Whatever the width and the orders, what was read is what the device held,
\* scaled and with the sign of the map; only the type maximum reads as 0.0.
SampleIsMeant ==
    Polled =>
        \A key \in Measured(MapPoints, map.derive) :
            LET point == map.points[key]
            IN Same(served[key], IF meant[key] = Greatest(point.dtype) THEN Num(0)
                                 ELSE Scaled(meant[key], point))

\* Whatever the SmartLogger cannot supply, the sample has a finite value for
\* every key the outputs need: update_datastore never refuses it, so a lost
\* channel never silences the bridge.
NeededAreFinite ==
    Polled => \A key \in Needed : key \in DOMAIN served /\ IsFinite(served[key])

\* Every step reads points or what steps before it wrote.
Supplied(points, ops) ==
    \A k \in DOMAIN ops :
        Inputs(ops[k]) \subseteq
            points \cup UNION {ToSet(ops[l].targets) : l \in {l \in DOMAIN ops : l < k}}

\* A power factor derived from an apparent power derived from the same active
\* power lies between -1 and 1, and is 0 only under load without active power,
\* however small the load and whatever channels are lost.
PowerFactorFits ==
    Polled /\ Supplied(MapPoints, map.derive) =>
        \A l, k \in DOMAIN map.derive :
            LET apparent == map.derive[l]
                factor   == map.derive[k]
            IN /\ l < k /\ apparent.op = "hypot" /\ factor.op = "pf_from_p_s"
               /\ Final(map.derive, l) /\ Final(map.derive, k)
               => \A j \in DOMAIN apparent.targets, i \in DOMAIN factor.targets :
                    LET active == factor.from[2 * i - 1]
                        p  == served[active]
                        s  == served[factor.from[2 * i]]
                        pf == served[factor.targets[i]]
                    IN /\ factor.from[2 * i] = apparent.targets[j]
                       /\ active \in Legs(apparent, j) /\ Settled(map.derive, l - 1, active)
                       => /\ AtMost(Magnitude(pf), Num(1))
                          /\ IsZero(pf) <=> IsZero(p) /\ ~IsZero(s)

\* The sample can be served, and its power factors are such.
SampleServable == NeededAreFinite /\ PowerFactorFits

\* However a total was split over the phases, and whatever was invalid, the
\* phases served add up to the total served.
PhasesAddUp ==
    Polled =>
        \A k \in DOMAIN map.derive :
            LET op == map.derive[k]
            IN /\ op.op \in {"split_equal", "ratio_split"}
               /\ Final(map.derive, k) /\ Settled(map.derive, k - 1, op.from[1])
               /\ op.from[1] \in DOMAIN served
               => Same(Total([j \in DOMAIN op.targets |-> served[op.targets[j]]]),
                       served[op.from[1]])
=============================================================================
