------------------------------- MODULE Derive -------------------------------
(***************************************************************************)
(* The declarative derive steps of canonical.py (apply_derive) and the     *)
(* energy aliases every poller adds (compute_derived).                     *)
(*                                                                         *)
(* A sample maps canonical keys to numbers.  A number is a fraction; one   *)
(* without a denominator stands for NaN and the infinities, which nothing  *)
(* downstream tells apart: every test of the code is math.isfinite.        *)
(* Rounding is left out.  Two irrational steps are replaced by rational    *)
(* ones with the same sign, zeros and bounds: math.hypot and SQRT3.        *)
(***************************************************************************)
EXTENDS Integers, Sequences, SequencesExt

NaN == [n |-> 0, d |-> 0]
Num(i) == [n |-> i, d |-> 1]

IsFinite(x) == x.d # 0

Plus(x, y)  == [n |-> x.n * y.d + y.n * x.d, d |-> x.d * y.d]
Times(x, y) == [n |-> x.n * y.n, d |-> x.d * y.d]
Over(x, y)  == IF y.n < 0 THEN [n |-> 0 - x.n * y.d, d |-> 0 - x.d * y.n]
               ELSE [n |-> x.n * y.d, d |-> x.d * y.n]
Magnitude(x) == IF x.n < 0 THEN [x EXCEPT !.n = 0 - x.n] ELSE x

Same(x, y)    == x.n * y.d = y.n * x.d /\ IsFinite(x) /\ IsFinite(y)
AtMost(x, y)  == x.n * y.d <= y.n * x.d
IsZero(x)     == IsFinite(x) /\ x.n = 0

Total(numbers) == FoldLeft(Plus, Num(0), numbers)

\* math.hypot up to rounding: between the larger leg and the sum of the legs.
Hypot(a, b) ==
    LET x == Magnitude(a)
        y == Magnitude(b)
        half(z) == Over(z, Num(2))
    IN IF AtMost(y, x) THEN Plus(x, half(y)) ELSE Plus(y, half(x))

SQRT3 == [n |-> 7, d |-> 4]

-----------------------------------------------------------------------------
Get(values, key) == IF key \in DOMAIN values THEN values[key] ELSE NaN

Put(values, key, number) ==
    [k \in DOMAIN values \cup {key} |-> IF k = key THEN number ELSE values[k]]

\* Mutant of RatioShares: the sign of a weight is kept.
SignedRatioShares(values, op) ==
    LET total   == Get(values, op.from[1])
        weights == [i \in DOMAIN op.weights |-> Get(values, op.weights[i])]
        sum     == Total([i \in DOMAIN weights |-> Magnitude(weights[i])])
    IN [i \in DOMAIN weights |->
          IF ~IsFinite(sum) \/ IsZero(sum) THEN Over(total, Num(Len(weights)))
          ELSE Over(Times(total, weights[i]), sum)]

\* _apply_ratio_split: proportional to the magnitudes of the weights, equal
\* shares where they carry no information.
RatioShares(values, op) ==
    LET total   == Get(values, op.from[1])
        weights == [i \in DOMAIN op.weights |-> Magnitude(Get(values, op.weights[i]))]
        sum     == Total(weights)
    IN [i \in DOMAIN weights |->
          IF ~IsFinite(sum) \/ IsZero(sum) THEN Over(total, Num(Len(weights)))
          ELSE Over(Times(total, weights[i]), sum)]

\* Unity for a meter at rest.
PowerFactor(p, s) == IF IsZero(s) THEN Num(1) ELSE Over(p, s)

\* What is assigned to one target.  Three steps read their inputs before the
\* first target is assigned, the others for each target.
Written(values, target) ==
    LET op     == target.of
        i      == target.index
        source == Get(target.before, op.from[1])
        pair(F(_, _)) == F(Get(values, op.from[2 * i - 1]), Get(values, op.from[2 * i]))
    IN CASE op.op = "constant"        -> op.value
         [] op.op = "copy"            -> source
         [] op.op = "split_equal"     -> Over(source, Num(Len(op.targets)))
         [] op.op = "phase_from_line" -> Over(Get(values, op.from[i]), SQRT3)
         [] op.op = "hypot"           -> pair(Hypot)
         [] op.op = "pf_from_p_s"     -> pair(PowerFactor)
         [] op.op = "ratio_split"     -> RatioShares(target.before, op)[i]

Assign(values, target) ==
    Put(values, target.of.targets[target.index], Written(values, target))

Targets(values, op) ==
    [i \in DOMAIN op.targets |-> [of |-> op, index |-> i, before |-> values]]

Step(values, op) == FoldLeft(Assign, values, Targets(values, op))

\* Steps run in list order: one may consume what an earlier one wrote.
ApplyDerive(values, ops) == FoldLeft(Step, values, ops)

\* DeriveOp._check_arity.
ArityOk(op) ==
    LET n == Len(op.targets)
    IN /\ n >= 1
       /\ Len(op.from) = CASE op.op = "constant" -> 0
                           [] op.op \in {"copy", "split_equal", "ratio_split"} -> 1
                           [] op.op = "phase_from_line" -> n
                           [] op.op \in {"hypot", "pf_from_p_s"} -> 2 * n
       /\ Len(op.weights) = IF op.op = "ratio_split" THEN n ELSE 0

\* What a derive step reads and, of a hypot step, what target i is made of.
Inputs(op) == ToSet(op.from) \cup ToSet(op.weights)
Legs(op, i) == {op.from[2 * i - 1], op.from[2 * i]}

\* The keys derive steps write.
Derived(ops) == UNION {ToSet(op.targets) : op \in ToSet(ops)}

\* The energy aliases the output maps refer to.
Aliases == {"active_energy_total", "net_imp_energy_total", "net_exp_energy_total"}

ComputeDerived(values) ==
    LET energy(key) == IF key \in DOMAIN values THEN values[key] ELSE Num(0)
        imp == energy("imp_energy_total")
        exp == energy("exp_energy_total")
    IN Put(Put(Put(values, "active_energy_total", Plus(imp, exp)),
               "net_imp_energy_total", imp),
           "net_exp_energy_total", exp)

\* The points nothing is written over.
Measured(points, ops) == points \ (Aliases \cup Derived(ops))

\* Nothing is written over a key after step k.
Settled(ops, k, key) ==
    /\ key \notin Aliases
    /\ \A l \in DOMAIN ops : l > k => key \notin ToSet(ops[l].targets)

\* What step k writes stays, and each target once.
Final(ops, k) ==
    LET targets == ops[k].targets
    IN /\ \A i, j \in DOMAIN targets : targets[i] = targets[j] => i = j
       /\ \A i \in DOMAIN targets : Settled(ops, k, targets[i])
=============================================================================
