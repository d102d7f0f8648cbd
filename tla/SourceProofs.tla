---------------------------- MODULE SourceProofs ----------------------------
(***************************************************************************)
(* What the pollers make of their readings, for every map and all readings.*)
(*                                                                         *)
(* Part 1: the loops of apply_derive.  Part 2: sums of fractions.  Part 3: *)
(* several e2TANGO relays as one source (EtangoPoll).  Part 4: integers in *)
(* registers (Codec).  Part 5: what a SmartLogger bridge makes of its      *)
(* registers (HuaweiPoll).                                                 *)
(***************************************************************************)
EXTENDS EtangoPoll, HuaweiPoll, TLAPS

Adding    == INSTANCE Folding WITH Op <- Plus
Choosing  == INSTANCE Folding WITH Op <- Chosen
Deriving  == INSTANCE Folding WITH Op <- Step
Assigning == INSTANCE Folding WITH Op <- Assign
Raising   == INSTANCE Folding WITH Op <- OneMoreDigit
Reading   == INSTANCE Folding WITH Op <- OneMoreWord

-----------------------------------------------------------------------------
(***************************************************************************)
(* Part 1.  apply_derive goes through its steps, and each step through its *)
(* targets: a key has the value of the last assignment to it.              *)
(***************************************************************************)

SameAt(f, g, key) ==
    /\ key \in DOMAIN f <=> key \in DOMAIN g
    /\ key \in DOMAIN f => f[key] = g[key]

SameBut(f, g, keys) == \A key : key \notin keys => SameAt(f, g, key)

LEMMA SameAtFacts ==
    ASSUME NEW f, NEW g, NEW h, NEW key, SameAt(g, f, key)
    PROVE  /\ SameAt(f, g, key)
           /\ Get(g, key) = Get(f, key)
           /\ SameAt(h, g, key) => SameAt(h, f, key)
BY DEF SameAt, Get

\* One assignment changes one key.
LEMMA AssignKeeps ==
    ASSUME NEW values, NEW target, NEW key, key # target.of.targets[target.index]
    PROVE  SameAt(Assign(values, target), values, key)
BY DEF Assign, Put, SameAt

LEMMA AssignSets ==
    ASSUME NEW values, NEW target
    PROVE  LET key == target.of.targets[target.index]
           IN /\ key \in DOMAIN Assign(values, target)
              /\ Assign(values, target)[key] = Written(values, target)
BY DEF Assign, Put

Target(values, op, i) == [of |-> op, index |-> i, before |-> values]

\* The loop over the targets of one step: acc[i] is what is known after target i.
Assigns(acc, values, op) ==
    /\ acc[0] = values
    /\ \A i \in 1 .. Len(op.targets) : acc[i] = Assign(acc[i - 1], Target(values, op, i))
    /\ Step(values, op) = acc[Len(op.targets)]

LEMMA StepRun ==
    ASSUME NEW values, NEW op, op.targets \in Seq(ToSet(op.targets))
    PROVE  /\ Len(op.targets) \in Nat /\ DOMAIN op.targets = 1 .. Len(op.targets)
           /\ \E acc : Assigns(acc, values, op)
<1> DEFINE n == Len(op.targets)
           list == Targets(values, op)
<1>1. n \in Nat /\ DOMAIN op.targets = 1 .. n
    OBVIOUS
<1>2. DOMAIN list = 1 .. n /\ \A i \in 1 .. n : list[i] = Target(values, op, i)
    BY <1>1 DEF Targets, Target
<1>3. Step(values, op) = Assigning!Fold(values, list)
    BY DEF Step, FoldLeft, MapThenFoldSet, Max,
           Assigning!Fold, Assigning!FoldLeft, Assigning!MapThenFoldSet, Assigning!Max
<1> HIDE DEF n, list
<1>4. PICK acc : Assigning!Run(acc, values, list, n)
    BY <1>1, <1>2, Assigning!FoldSteps
<1>5. Assigns(acc, values, op)
    BY <1>2, <1>3, <1>4 DEF Assigning!Run, Assigns, n
<1> QED
    BY <1>1, <1>5 DEF n

\* A key that none of the targets after target j is keeps its value.
LEMMA TargetsKeep ==
    ASSUME NEW values, NEW op, op.targets \in Seq(ToSet(op.targets)),
           NEW acc, Assigns(acc, values, op),
           NEW j \in 0 .. Len(op.targets), NEW m \in j .. Len(op.targets), NEW key,
           \A i \in DOMAIN op.targets : i > j /\ i <= m => op.targets[i] # key
    PROVE  SameAt(acc[m], acc[j], key)
<1> DEFINE n == Len(op.targets)
<1>1. n \in Nat /\ DOMAIN op.targets = 1 .. n
    BY StepRun
<1>2. j \in 0 .. n /\ m \in j .. n
      /\ \A i \in 1 .. n : acc[i] = Assign(acc[i - 1], Target(values, op, i))
    BY DEF Assigns
<1> HIDE DEF n
<1> DEFINE S == {k \in Nat : j + k <= m => SameAt(acc[j + k], acc[j], key)}
<1>3. 0 \in S
    BY <1>1, <1>2 DEF SameAt
<1>4. ASSUME NEW k \in Nat, k \in S PROVE k + 1 \in S
  <2> DEFINE i == j + k
  <2> SUFFICES ASSUME i + 1 <= m PROVE SameAt(acc[i + 1], acc[j], key)
        BY <1>1, <1>2
  <2>1. i + 1 \in 1 .. n /\ (i + 1) - 1 = i /\ i <= m /\ i + 1 > j
        BY <1>1, <1>2
  <2>2. SameAt(acc[i], acc[j], key)
        BY <1>4, <2>1
  <2> HIDE DEF i
  <2>3. acc[i + 1] = Assign(acc[i], Target(values, op, i + 1))
        BY <1>2, <2>1
  <2>4. op.targets[i + 1] # key
        BY <1>1, <2>1
  <2>5. SameAt(acc[i + 1], acc[i], key)
        BY <2>3, <2>4, AssignKeeps DEF Target
  <2> QED
        BY <2>2, <2>5, SameAtFacts
<1> HIDE DEF S
<1>5. m - j \in Nat /\ j + (m - j) = m
    BY <1>1, <1>2
<1>6. m - j \in S
    BY <1>3, <1>4, <1>5, Assigning!InductionOverNat
<1> QED
    BY <1>1, <1>2, <1>5, <1>6 DEF S

\* One step changes its targets.
LEMMA StepKeeps ==
    ASSUME NEW values, NEW op, op.targets \in Seq(ToSet(op.targets)),
           NEW key, key \notin ToSet(op.targets)
    PROVE  SameAt(Step(values, op), values, key)
<1>1. PICK acc : Assigns(acc, values, op)
    BY StepRun
<1>2. /\ 0 \in 0 .. Len(op.targets) /\ Len(op.targets) \in 0 .. Len(op.targets)
      /\ \A i \in DOMAIN op.targets : op.targets[i] # key
    BY StepRun DEF ToSet
<1>3. SameAt(acc[Len(op.targets)], acc[0], key)
    BY <1>1, <1>2, TargetsKeep
<1> QED
    BY <1>1, <1>3 DEF Assigns

\* What a step writes to target i when it begins from these values: it reads
\* them when its first i - 1 targets have been assigned, and only they changed.
IsWritten(number, values, op, i) ==
    \E now : /\ SameBut(now, values, ToSet(op.targets))
             /\ \E acc : Assigns(acc, values, op) /\ now = acc[i - 1]
             /\ number = Written(now, Target(values, op, i))

LEMMA StepWrites ==
    ASSUME NEW values, NEW op, op.targets \in Seq(ToSet(op.targets)),
           NEW i \in DOMAIN op.targets,
           \A j \in DOMAIN op.targets : op.targets[j] = op.targets[i] => j = i
    PROVE  /\ op.targets[i] \in DOMAIN Step(values, op)
           /\ IsWritten(Step(values, op)[op.targets[i]], values, op, i)
<1> DEFINE n == Len(op.targets)
           target == op.targets[i]
<1>1. n \in Nat /\ DOMAIN op.targets = 1 .. n /\ i \in 1 .. n
    BY StepRun
<1>2. PICK acc : Assigns(acc, values, op)
    BY StepRun
<1>3. \A j \in DOMAIN op.targets : op.targets[j] \in ToSet(op.targets)
    BY DEF ToSet
<1>4. \A j \in DOMAIN op.targets : j > i => op.targets[j] # target
  <2> SUFFICES ASSUME NEW j \in DOMAIN op.targets, j > i, op.targets[j] = target PROVE FALSE
        OBVIOUS
  <2>1. j = i
        OBVIOUS
  <2> QED
        BY <1>1, <2>1
<1>5. 0 \in 0 .. n /\ i - 1 \in 0 .. n /\ i \in 0 .. n /\ n \in i .. n
    BY <1>1
<1>6. ASSUME NEW key, key \notin ToSet(op.targets) PROVE SameAt(acc[i - 1], values, key)
  <2>1. \A j \in DOMAIN op.targets : op.targets[j] # key
        BY <1>3, <1>6
  <2>2. SameAt(acc[i - 1], acc[0], key)
        BY <1>2, <1>5, <2>1, TargetsKeep
  <2> QED
        BY <1>2, <2>2 DEF Assigns
<1>7. target \in DOMAIN acc[i] /\ acc[i][target] = Written(acc[i - 1], Target(values, op, i))
    BY <1>1, <1>2, AssignSets DEF Assigns, Target
<1>8. SameAt(acc[n], acc[i], target)
    BY <1>2, <1>4, <1>5, TargetsKeep
<1> HIDE DEF n, target
<1>9. Step(values, op) = acc[n]
    BY <1>2 DEF Assigns, n
<1>10. SameBut(acc[i - 1], values, ToSet(op.targets))
    BY <1>6 DEF SameBut
<1>11. IsWritten(acc[i][target], values, op, i)
    BY <1>2, <1>7, <1>10 DEF IsWritten
<1> QED
    BY <1>7, <1>8, <1>9, <1>11 DEF SameAt, target

\* Lists of steps as the configuration has them.
Listed(ops) == ops \in Seq(ToSet(ops)) /\ \A op \in ToSet(ops) : op.targets \in Seq(ToSet(op.targets))

\* The loop over the steps: acc[k] is what is known after step k.
Derives(acc, values, ops) ==
    /\ acc[0] = values
    /\ \A k \in 1 .. Len(ops) : acc[k] = Step(acc[k - 1], ops[k])
    /\ ApplyDerive(values, ops) = acc[Len(ops)]

LEMMA DeriveRun ==
    ASSUME NEW values, NEW ops, Listed(ops)
    PROVE  /\ Len(ops) \in Nat /\ DOMAIN ops = 1 .. Len(ops)
           /\ \A k \in 1 .. Len(ops) : ops[k].targets \in Seq(ToSet(ops[k].targets))
           /\ \E acc : Derives(acc, values, ops)
<1> DEFINE n == Len(ops)
<1>1. n \in Nat /\ DOMAIN ops = 1 .. n
    BY DEF Listed
<1>2. \A k \in 1 .. n : ops[k].targets \in Seq(ToSet(ops[k].targets))
  <2>1. \A k \in 1 .. n : ops[k] \in ToSet(ops)
        BY <1>1 DEF ToSet
  <2> QED
        BY <2>1 DEF Listed
<1>3. ApplyDerive(values, ops) = Deriving!Fold(values, ops)
    BY DEF ApplyDerive, FoldLeft, MapThenFoldSet, Max,
           Deriving!Fold, Deriving!FoldLeft, Deriving!MapThenFoldSet, Deriving!Max
<1> HIDE DEF n
<1>4. PICK acc : Deriving!Run(acc, values, ops, n)
    BY <1>1, Deriving!FoldSteps
<1>5. Derives(acc, values, ops)
    BY <1>3, <1>4 DEF Deriving!Run, Derives, n
<1> QED
    BY <1>1, <1>2, <1>5 DEF n

\* A key that no step after step k writes keeps its value.
LEMMA DeriveKeeps ==
    ASSUME NEW values, NEW ops, Listed(ops), NEW acc, Derives(acc, values, ops),
           NEW k \in 0 .. Len(ops), NEW m \in k .. Len(ops), NEW key,
           \A l \in DOMAIN ops : l > k /\ l <= m => key \notin ToSet(ops[l].targets)
    PROVE  SameAt(acc[m], acc[k], key)
<1> DEFINE n == Len(ops)
<1>1. /\ n \in Nat /\ DOMAIN ops = 1 .. n
      /\ \A l \in 1 .. n : ops[l].targets \in Seq(ToSet(ops[l].targets))
    BY DeriveRun
<1>2. k \in 0 .. n /\ m \in k .. n
      /\ \A l \in 1 .. n : acc[l] = Step(acc[l - 1], ops[l])
    BY DEF Derives
<1> HIDE DEF n
<1> DEFINE S == {j \in Nat : k + j <= m => SameAt(acc[k + j], acc[k], key)}
<1>3. 0 \in S
    BY <1>1, <1>2 DEF SameAt
<1>4. ASSUME NEW j \in Nat, j \in S PROVE j + 1 \in S
  <2> DEFINE l == k + j
  <2> SUFFICES ASSUME l + 1 <= m PROVE SameAt(acc[l + 1], acc[k], key)
        BY <1>1, <1>2
  <2>1. l + 1 \in 1 .. n /\ (l + 1) - 1 = l /\ l <= m /\ l + 1 > k
        BY <1>1, <1>2
  <2>2. SameAt(acc[l], acc[k], key)
        BY <1>4, <2>1
  <2> HIDE DEF l
  <2>3. SameAt(acc[l + 1], acc[l], key)
        BY <1>1, <1>2, <2>1, StepKeeps
  <2> QED
        BY <2>2, <2>3, SameAtFacts
<1> HIDE DEF S
<1>5. m - k \in Nat /\ k + (m - k) = m
    BY <1>1, <1>2
<1>6. m - k \in S
    BY <1>3, <1>4, <1>5, Deriving!InductionOverNat
<1> QED
    BY <1>1, <1>2, <1>5, <1>6 DEF S

\* A key that is settled before step k has at the end the value it had then.
LEMMA SettledIsKept ==
    ASSUME NEW values, NEW ops, Listed(ops), NEW acc, Derives(acc, values, ops),
           NEW k \in 1 .. Len(ops) + 1, NEW key, Settled(ops, k - 1, key)
    PROVE  SameAt(ApplyDerive(values, ops), acc[k - 1], key)
<1>1. Len(ops) \in Nat /\ DOMAIN ops = 1 .. Len(ops)
    BY DeriveRun
<1>2. k - 1 \in 0 .. Len(ops) /\ Len(ops) \in k - 1 .. Len(ops)
    BY <1>1
<1>3. SameAt(acc[Len(ops)], acc[k - 1], key)
    BY <1>1, <1>2, DeriveKeeps DEF Settled
<1> QED
    BY <1>3 DEF Derives

\* A key that no step writes has at the end the value it had before.
LEMMA MeasuredIsKept ==
    ASSUME NEW values, NEW ops, Listed(ops), NEW key, key \notin Derived(ops)
    PROVE  /\ SameAt(ApplyDerive(values, ops), values, key)
           /\ \A acc : Derives(acc, values, ops) =>
                \A k \in 0 .. Len(ops) : SameAt(acc[k], values, key)
<1>1. /\ Len(ops) \in Nat /\ DOMAIN ops = 1 .. Len(ops)
      /\ \E acc : Derives(acc, values, ops)
    BY DeriveRun
<1>2. \A l \in DOMAIN ops : key \notin ToSet(ops[l].targets)
    BY DEF Derived, ToSet
<1>3. ASSUME NEW acc, Derives(acc, values, ops), NEW k \in 0 .. Len(ops)
      PROVE  SameAt(acc[k], values, key)
  <2>1. 0 \in 0 .. Len(ops)
        BY <1>1
  <2>2. SameAt(acc[k], acc[0], key)
        BY <1>2, <1>3, <2>1, DeriveKeeps
  <2> QED
        BY <1>3, <2>2 DEF Derives
<1>4. PICK acc : Derives(acc, values, ops)
    BY <1>1
<1>5. Len(ops) \in 0 .. Len(ops) /\ ApplyDerive(values, ops) = acc[Len(ops)]
    BY <1>1, <1>4 DEF Derives
<1>6. SameAt(ApplyDerive(values, ops), values, key)
    BY <1>3, <1>4, <1>5
<1> QED
    BY <1>3, <1>6

\* A target that only step k writes last has what step k wrote.
LEMMA TargetIsKept ==
    ASSUME NEW values, NEW ops, Listed(ops), NEW acc, Derives(acc, values, ops),
           NEW k \in DOMAIN ops, Final(ops, k), NEW i \in DOMAIN ops[k].targets
    PROVE  /\ ops[k].targets[i] \in DOMAIN ApplyDerive(values, ops)
           /\ IsWritten(ApplyDerive(values, ops)[ops[k].targets[i]], acc[k - 1], ops[k], i)
<1> DEFINE op == ops[k]
           key == op.targets[i]
<1>1. /\ Len(ops) \in Nat /\ DOMAIN ops = 1 .. Len(ops)
      /\ op.targets \in Seq(ToSet(op.targets))
    BY DeriveRun
<1>2. /\ \A j \in DOMAIN op.targets : op.targets[j] = op.targets[i] => j = i
      /\ Settled(ops, k, key)
    BY DEF Final
<1>3. k \in 1 .. Len(ops) /\ k + 1 \in 1 .. Len(ops) + 1 /\ (k + 1) - 1 = k
    BY <1>1
<1>4. SameAt(ApplyDerive(values, ops), acc[k], key)
    BY <1>2, <1>3, SettledIsKept
<1>5. acc[k] = Step(acc[k - 1], op)
    BY <1>3 DEF Derives
<1> HIDE DEF op
<1>6. /\ key \in DOMAIN Step(acc[k - 1], op)
      /\ IsWritten(Step(acc[k - 1], op)[key], acc[k - 1], op, i)
    BY <1>1, <1>2, StepWrites DEF op
<1> HIDE DEF key
<1> QED
    BY <1>4, <1>5, <1>6 DEF SameAt, key, op

LEMMA WrittenHypot ==
    ASSUME NEW values, NEW target, target.of.op = "hypot"
    PROVE  Written(values, target) =
             Hypot(Get(values, target.of.from[2 * target.index - 1]),
                   Get(values, target.of.from[2 * target.index]))
BY DEF Written

-----------------------------------------------------------------------------
(* Part 2.  Sums and means.                                                *)

LEMMA ListFacts ==
    ASSUME NEW T, NEW s \in Seq(T)
    PROVE  /\ Len(s) \in Nat /\ DOMAIN s = 1 .. Len(s)
           /\ s \in [1 .. Len(s) -> T] /\ \A j \in 1 .. Len(s) : s[j] \in T
OBVIOUS

LEMMA AppendFacts ==
    ASSUME NEW T, NEW s \in Seq(T), NEW x \in T
    PROVE  /\ Append(s, x) \in Seq(T)
           /\ DOMAIN Append(s, x) = 1 .. (Len(s) + 1)
           /\ Append(s, x)[Len(s) + 1] = x
           /\ \A j \in 1 .. Len(s) : Append(s, x)[j] = s[j]
OBVIOUS

LEMMA TotalOfNone == Total(<<>>) = Num(0)
<1>1. Total(<<>>) = Adding!Fold(Num(0), <<>>)
    BY DEF Total, FoldLeft, MapThenFoldSet, Max,
           Adding!Fold, Adding!FoldLeft, Adding!MapThenFoldSet, Adding!Max
<1> QED
    BY <1>1, Adding!FoldEmpty

LEMMA TotalOfOneMore ==
    ASSUME NEW S, NEW list \in Seq(S), NEW x \in S
    PROVE  Total(Append(list, x)) = Plus(Total(list), x)
<1>1. \A l : Total(l) = Adding!Fold(Num(0), l)
    BY DEF Total, FoldLeft, MapThenFoldSet, Max,
           Adding!Fold, Adding!FoldLeft, Adding!MapThenFoldSet, Adding!Max
<1> QED
    BY <1>1, Adding!FoldAppend

LEMMA Distribute ==
    ASSUME NEW a \in Int, NEW b \in Int, NEW c \in Int
    PROVE  (a + b) * c = a * c + b * c
OBVIOUS

LEMMA OnceMore == ASSUME NEW a \in Int, NEW c \in Int PROVE (a + 1) * c = a * c + c
<1>1. (a + 1) * c = a * c + 1 * c
    BY Distribute
<1> QED
    BY <1>1

\* The total of integers is an integer, and some of them are at most, and some
\* at least, its share of each.
LEMMA MeanIsBetween ==
    ASSUME NEW m \in Nat \ {0}, NEW r \in [1 .. m -> Int]
    PROVE  \E t \in Int :
              /\ Total([j \in 1 .. m |-> Num(r[j])]) = Num(t)
              /\ \E j \in 1 .. m : t <= r[j] * m
              /\ \E j \in 1 .. m : r[j] * m <= t
<1> DEFINE list == [j \in 1 .. m |-> Num(r[j])]
<1>1. DOMAIN list = 1 .. m /\ \A j \in 1 .. m : list[j] = Num(r[j]) /\ r[j] \in Int
    OBVIOUS
<1>2. Total(list) = Adding!Fold(Num(0), list)
    BY DEF Total, FoldLeft, MapThenFoldSet, Max,
           Adding!Fold, Adding!FoldLeft, Adding!MapThenFoldSet, Adding!Max
<1> HIDE DEF list
<1>3. PICK acc : Adding!Run(acc, Num(0), list, m)
    BY <1>1, Adding!FoldSteps
<1> DEFINE sum == [k \in 0 .. m |-> acc[k].n]
           S == {k \in Nat : k <= m => sum[k] \in Int /\ acc[k] = Num(sum[k])}
<1>4. 0 \in S
    BY <1>3 DEF Adding!Run, Num
<1>5. ASSUME NEW k \in Nat, k \in S PROVE k + 1 \in S
  <2> SUFFICES ASSUME k + 1 <= m
               PROVE  sum[k + 1] \in Int /\ acc[k + 1] = Num(sum[k + 1])
        OBVIOUS
  <2>1. k + 1 \in 1 .. m /\ (k + 1) - 1 = k /\ k <= m /\ k + 1 \in 0 .. m
        OBVIOUS
  <2>2. acc[k + 1] = Plus(acc[k], Num(r[k + 1]))
        BY <1>1, <1>3, <2>1 DEF Adding!Run
  <2>3. sum[k] \in Int /\ acc[k] = Num(sum[k]) /\ r[k + 1] \in Int
        BY <1>1, <1>5, <2>1
  <2> HIDE DEF sum
  <2>4. acc[k + 1] = Num(sum[k] + r[k + 1])
        BY <2>2, <2>3 DEF Plus, Num
  <2> QED
        BY <2>1, <2>3, <2>4 DEF sum, Num
<1> HIDE DEF S
<1>6. Nat \subseteq S
    BY <1>4, <1>5, Adding!InductionOverNat
<1>7. /\ sum[0] = 0
      /\ \A k \in 0 .. m : sum[k] \in Int
      /\ \A k \in Nat : k + 1 <= m => sum[k + 1] = sum[k] + r[k + 1]
      /\ Total(list) = Num(sum[m])
  <2>1. \A k \in 0 .. m : sum[k] \in Int /\ acc[k] = Num(sum[k])
    <3>1. \A k \in 0 .. m : k \in Nat /\ k <= m
          OBVIOUS
    <3> HIDE DEF sum
    <3> QED
          BY <1>6, <3>1 DEF S
  <2>2. sum[0] = 0
        BY <1>3 DEF Adding!Run, Num
  <2>3. ASSUME NEW k \in Nat, k + 1 <= m PROVE sum[k + 1] = sum[k] + r[k + 1]
    <3>1. k + 1 \in 1 .. m /\ (k + 1) - 1 = k /\ k \in 0 .. m /\ k + 1 \in 0 .. m
          BY <2>3
    <3>2. acc[k + 1] = Plus(Num(sum[k]), Num(r[k + 1]))
          BY <1>1, <1>3, <2>1, <3>1 DEF Adding!Run
    <3>3. sum[k] \in Int /\ r[k + 1] \in Int /\ sum[k + 1] = acc[k + 1].n
          BY <1>1, <2>1, <3>1
    <3> HIDE DEF sum
    <3> QED
          BY <3>2, <3>3 DEF Plus, Num
  <2>4. Total(list) = Num(sum[m])
        BY <1>2, <1>3, <2>1 DEF Adding!Run
  <2> QED
        BY <2>1, <2>2, <2>3, <2>4
<1> HIDE DEF sum
<1> DEFINE t == sum[m]
<1>8. t \in Int
    BY <1>7
<1>9. \E j \in 1 .. m : t <= r[j] * m
  <2> SUFFICES ASSUME \A j \in 1 .. m : r[j] * m < t PROVE FALSE
        BY <1>8
  <2> DEFINE Q == {k \in Nat : k <= m => sum[k] * m <= k * t /\ (k > 0 => sum[k] * m < k * t)}
  <2>1. 0 \in Q
        BY <1>7, <1>8
  <2>2. ASSUME NEW k \in Nat, k \in Q PROVE k + 1 \in Q
    <3> SUFFICES ASSUME k + 1 <= m PROVE sum[k + 1] * m < (k + 1) * t
          BY <1>7, <1>8
    <3>1. k + 1 \in 1 .. m /\ sum[k] \in Int /\ r[k + 1] \in Int /\ k <= m
          BY <1>7
    <3>2. sum[k] * m <= k * t /\ r[k + 1] * m < t
          BY <2>2, <3>1
    <3>3. sum[k + 1] * m = sum[k] * m + r[k + 1] * m
      <4>1. sum[k + 1] = sum[k] + r[k + 1]
            BY <1>7
      <4> QED
            BY <3>1, <4>1, Distribute
    <3>4. (k + 1) * t = k * t + t
      <4> HIDE DEF t
      <4> QED
            BY <1>8, OnceMore
    <3> HIDE DEF t
    <3> QED
          BY <1>8, <3>1, <3>2, <3>3, <3>4
  <2> HIDE DEF Q
  <2>3. m \in Q
        BY <2>1, <2>2, Adding!InductionOverNat
  <2> QED
        BY <1>8, <2>3 DEF Q
<1>10. \E j \in 1 .. m : r[j] * m <= t
  <2> SUFFICES ASSUME \A j \in 1 .. m : t < r[j] * m PROVE FALSE
        BY <1>8
  <2> DEFINE Q == {k \in Nat : k <= m => k * t <= sum[k] * m /\ (k > 0 => k * t < sum[k] * m)}
  <2>1. 0 \in Q
        BY <1>7, <1>8
  <2>2. ASSUME NEW k \in Nat, k \in Q PROVE k + 1 \in Q
    <3> SUFFICES ASSUME k + 1 <= m PROVE (k + 1) * t < sum[k + 1] * m
          BY <1>7, <1>8
    <3>1. k + 1 \in 1 .. m /\ sum[k] \in Int /\ r[k + 1] \in Int /\ k <= m
          BY <1>7
    <3>2. k * t <= sum[k] * m /\ t < r[k + 1] * m
          BY <2>2, <3>1
    <3>3. sum[k + 1] * m = sum[k] * m + r[k + 1] * m
      <4>1. sum[k + 1] = sum[k] + r[k + 1]
            BY <1>7
      <4> QED
            BY <3>1, <4>1, Distribute
    <3>4. (k + 1) * t = k * t + t
      <4> HIDE DEF t
      <4> QED
            BY <1>8, OnceMore
    <3> HIDE DEF t
    <3> QED
          BY <1>8, <3>1, <3>2, <3>3, <3>4
  <2> HIDE DEF Q
  <2>3. m \in Q
        BY <2>1, <2>2, Adding!InductionOverNat
  <2> QED
        BY <1>8, <2>3 DEF Q
<1> QED
    BY <1>7, <1>8, <1>9, <1>10 DEF list

\* Numbers at least zero.
AtLeastZero == [n : Nat, d : Nat \ {0}]

LEMMA ProductIsPositive ==
    ASSUME NEW a \in Nat, NEW b \in Nat \ {0}
    PROVE  a * b \in Nat /\ (a # 0 => a * b # 0)
OBVIOUS

\* Up to its rounding math.hypot is zero only for two zeros.
LEMMA HypotIsPositive ==
    ASSUME NEW a \in Int, NEW b \in Int
    PROVE  LET power == Hypot(Num(a), Num(b))
           IN power \in AtLeastZero /\ (power.n = 0 => a = 0 /\ b = 0)
<1>1. \A i \in Int : \E x \in Nat : Magnitude(Num(i)) = Num(x) /\ (x = 0 => i = 0)
  <2>1. \A i \in Int : i < 0 => [Num(i) EXCEPT !.n = 0 - Num(i).n] = Num(0 - i)
        BY DEF Num
  <2>2. \A i \in Int : Num(i).n = i
        BY DEF Num
  <2>3. \A i \in Int : Magnitude(Num(i)) = IF i < 0 THEN Num(0 - i) ELSE Num(i)
        BY <2>1, <2>2 DEF Magnitude
  <2> QED
        BY <2>3
<1>2. PICK x \in Nat : Magnitude(Num(a)) = Num(x) /\ (x = 0 => a = 0)
    BY <1>1
<1>3. PICK y \in Nat : Magnitude(Num(b)) = Num(y) /\ (y = 0 => b = 0)
    BY <1>1
<1>4. \A p, q \in Nat : Plus(Num(p), Over(Num(q), Num(2))) = [n |-> 2 * p + q, d |-> 2]
    BY DEF Plus, Over, Num
<1>5. \/ Hypot(Num(a), Num(b)) = [n |-> 2 * x + y, d |-> 2]
      \/ Hypot(Num(a), Num(b)) = [n |-> 2 * y + x, d |-> 2]
    BY <1>2, <1>3, <1>4 DEF Hypot
<1> QED
    BY <1>2, <1>3, <1>5 DEF AtLeastZero

\* Numbers at least zero do not cancel out.
LEMMA NothingCancels ==
    ASSUME NEW m \in Nat, NEW list \in [1 .. m -> AtLeastZero]
    PROVE  /\ Total(list) \in AtLeastZero
           /\ Total(list).n = 0 => \A j \in 1 .. m : list[j].n = 0
<1>1. DOMAIN list = 1 .. m /\ \A j \in 1 .. m : list[j] \in AtLeastZero
    OBVIOUS
<1>2. Total(list) = Adding!Fold(Num(0), list)
    BY DEF Total, FoldLeft, MapThenFoldSet, Max,
           Adding!Fold, Adding!FoldLeft, Adding!MapThenFoldSet, Adding!Max
<1>3. PICK acc : Adding!Run(acc, Num(0), list, m)
    BY <1>1, Adding!FoldSteps
<1>4. ASSUME NEW x \in AtLeastZero, NEW y \in AtLeastZero
      PROVE  Plus(x, y) \in AtLeastZero /\ (Plus(x, y).n = 0 => x.n = 0 /\ y.n = 0)
  <2>1. /\ x.n \in Nat /\ y.n \in Nat /\ x.d \in Nat \ {0} /\ y.d \in Nat \ {0}
        /\ Plus(x, y) = [n |-> x.n * y.d + y.n * x.d, d |-> x.d * y.d]
        BY DEF AtLeastZero, Plus
  <2>2. /\ x.n * y.d \in Nat /\ (x.n # 0 => x.n * y.d # 0)
        /\ y.n * x.d \in Nat /\ (y.n # 0 => y.n * x.d # 0)
        /\ x.d * y.d \in Nat \ {0}
        BY <2>1, ProductIsPositive
  <2>3. \A p, q \in Nat : p + q \in Nat /\ (p + q = 0 => p = 0 /\ q = 0)
        OBVIOUS
  <2>4. \A p \in Nat, q \in Nat \ {0} : [n |-> p, d |-> q] \in AtLeastZero
        BY DEF AtLeastZero
  <2> QED
        BY <2>1, <2>2, <2>3, <2>4
<1> DEFINE Good(k) == acc[k] \in AtLeastZero /\ (acc[k].n = 0 => \A j \in 1 .. k : list[j].n = 0)
           S == {k \in Nat : k <= m => Good(k)}
<1>5. 0 \in S
    BY <1>3 DEF Adding!Run, Num, AtLeastZero
<1>6. ASSUME NEW k \in Nat, k \in S PROVE k + 1 \in S
  <2> SUFFICES ASSUME k + 1 <= m PROVE Good(k + 1)
        OBVIOUS
  <2>1. /\ k + 1 \in 1 .. m /\ (k + 1) - 1 = k /\ k <= m
        /\ \A j \in 1 .. k + 1 : j \in 1 .. k \/ j = k + 1
        OBVIOUS
  <2>2. acc[k + 1] = Plus(acc[k], list[k + 1])
        BY <1>3, <2>1 DEF Adding!Run
  <2>3. Good(k)
        BY <1>6, <2>1
  <2> QED
        BY <1>1, <1>4, <2>1, <2>2, <2>3
<1> HIDE DEF S
<1>7. m \in S
    BY <1>5, <1>6, Adding!InductionOverNat
<1>8. Good(m)
    BY <1>7 DEF S
<1> QED
    BY <1>2, <1>3, <1>8 DEF Adding!Run

-----------------------------------------------------------------------------
(* Part 3.  What poll_once of the e2TANGO combines.                        *)

\* What a valid device shows.
Shown == [Points -> Readings]

IsPoll(values) == values \in [1 .. Len(Devices) -> Shown]

Member(i) == Devices[i] \in Aggregating

\* The positions that list comprehension keeps.
Positions(values) == FoldLeft(Chosen, <<>>, [i \in DOMAIN values |-> i])

LEMMA DevicesAreListed == Len(Devices) \in Nat /\ DOMAIN Devices = 1 .. Len(Devices)
BY DevicesCombine

LEMMA LastOfThem == ASSUME NEW n \in Nat, NEW p \in 1 .. n, ~(p < n) PROVE p = n
OBVIOUS

\* Choosing the aggregating devices and adding is adding with zeros for the
\* others: no member is lost, none is added twice.
LEMMA MembersAreChosen ==
    ASSUME NEW values, IsPoll(values), NEW key \in Points
    PROVE  LET list == Positions(values)
           IN /\ list \in Seq(DOMAIN values) /\ list # <<>>
              /\ \A j \in DOMAIN list : Member(list[j])
              /\ \A i \in DOMAIN values : Member(i) => \E j \in DOMAIN list : list[j] = i
              /\ Total([j \in DOMAIN list |-> Num(values[list[j]][key])])
                   = Total([i \in DOMAIN values |-> Num(IF Member(i) THEN values[i][key] ELSE 0)])
<1> DEFINE n == Len(Devices)
           id == [i \in DOMAIN values |-> i]
           zeros == [i \in DOMAIN values |-> Num(IF Member(i) THEN values[i][key] ELSE 0)]
           Part(list) == [j \in DOMAIN list |-> Num(values[list[j]][key])]
<1>1. /\ n \in Nat /\ DOMAIN values = 1 .. n
      /\ DOMAIN id = 1 .. n /\ \A i \in 1 .. n : id[i] = i
      /\ DOMAIN zeros = 1 .. n
      /\ \A i \in 1 .. n : zeros[i] = Num(IF Member(i) THEN values[i][key] ELSE 0)
    BY DevicesAreListed DEF IsPoll
<1>2. \A i \in 1 .. n : values[i][key] \in Int
    BY <1>1, DevicesCombine DEF IsPoll, Shown
<1>3. Positions(values) = Choosing!Fold(<<>>, id)
    BY DEF Positions, FoldLeft, MapThenFoldSet, Max,
           Choosing!Fold, Choosing!FoldLeft, Choosing!MapThenFoldSet, Choosing!Max
<1>4. Total(zeros) = Adding!Fold(Num(0), zeros)
    BY DEF Total, FoldLeft, MapThenFoldSet, Max,
           Adding!Fold, Adding!FoldLeft, Adding!MapThenFoldSet, Adding!Max
<1> HIDE DEF n, id, zeros
<1>5. PICK acc : Choosing!Run(acc, <<>>, id, n)
    BY <1>1, Choosing!FoldSteps
<1>6. PICK sum : Adding!Run(sum, Num(0), zeros, n)
    BY <1>1, Adding!FoldSteps
<1> DEFINE Good(k) ==
             /\ acc[k] \in Seq(1 .. n)
             /\ \A j \in DOMAIN acc[k] : Member(acc[k][j])
             /\ \A i \in 1 .. k : Member(i) => \E j \in DOMAIN acc[k] : acc[k][j] = i
             /\ \E t \in Int : sum[k] = Num(t)
             /\ Total(Part(acc[k])) = sum[k]
           S == {k \in Nat : k <= n => Good(k)}
<1>7. 0 \in S
  <2>1. acc[0] = <<>> /\ sum[0] = Num(0)
        BY <1>5, <1>6 DEF Choosing!Run, Adding!Run
  <2>2. Part(<<>>) = <<>>
        OBVIOUS
  <2> HIDE DEF Part
  <2>3. Good(0)
        BY <2>1, <2>2, TotalOfNone
  <2> QED
        BY <2>3
<1>8. ASSUME NEW k \in Nat, k \in S PROVE k + 1 \in S
  <2> SUFFICES ASSUME k + 1 <= n PROVE Good(k + 1)
        OBVIOUS
  <2>1. k + 1 \in 1 .. n /\ (k + 1) - 1 = k /\ k <= n
        BY <1>1
  <2>2. acc[k + 1] = Chosen(acc[k], k + 1)
        BY <1>1, <1>5, <2>1 DEF Choosing!Run
  <2>3. sum[k + 1] = Plus(sum[k], Num(IF Member(k + 1) THEN values[k + 1][key] ELSE 0))
        BY <1>1, <1>6, <2>1 DEF Adding!Run
  <2>4. Good(k)
        BY <1>8, <2>1
  <2>5. values[k + 1][key] \in Int
        BY <1>2, <2>1
  <2>6. \E t \in Int : sum[k + 1] = Num(t)
    <3>1. PICK t \in Int : sum[k] = Num(t)
          BY <2>4
    <3>2. \A x \in Int : Plus(Num(t), Num(x)) = Num(t + x)
          BY DEF Plus, Num
    <3> QED
          BY <2>3, <2>5, <3>1, <3>2
  <2>7. CASE Member(k + 1)
    <3>1. acc[k + 1] = Append(acc[k], k + 1)
          BY <2>2, <2>7 DEF Chosen, Member
    <3>2. /\ acc[k + 1] \in Seq(1 .. n)
          /\ \A j \in DOMAIN acc[k + 1] : Member(acc[k + 1][j])
          /\ \A j \in DOMAIN acc[k] : j \in DOMAIN acc[k + 1] /\ acc[k + 1][j] = acc[k][j]
          /\ \E j \in DOMAIN acc[k + 1] : acc[k + 1][j] = k + 1
      <4>1. acc[k] \in Seq(1 .. n) /\ k + 1 \in 1 .. n
            BY <2>1, <2>4
      <4>2. Len(acc[k]) \in Nat /\ DOMAIN acc[k] = 1 .. Len(acc[k])
            BY <4>1, ListFacts
      <4>3. /\ acc[k + 1] \in Seq(1 .. n)
            /\ DOMAIN acc[k + 1] = 1 .. (Len(acc[k]) + 1)
            /\ acc[k + 1][Len(acc[k]) + 1] = k + 1
            /\ \A j \in 1 .. Len(acc[k]) : acc[k + 1][j] = acc[k][j]
            BY <3>1, <4>1, AppendFacts
      <4>4. /\ \A j \in 1 .. Len(acc[k]) + 1 : j \in 1 .. Len(acc[k]) \/ j = Len(acc[k]) + 1
            /\ \A j \in 1 .. Len(acc[k]) : j \in 1 .. Len(acc[k]) + 1
            /\ Len(acc[k]) + 1 \in 1 .. Len(acc[k]) + 1
            BY <4>2
      <4> QED
            BY <2>4, <2>7, <4>2, <4>3, <4>4
    <3>3. Total(Part(acc[k + 1])) = Plus(Total(Part(acc[k])), Num(values[k + 1][key]))
      <4> DEFINE N == {Num(x) : x \in Int}
      <4>1. Part(acc[k]) \in Seq(N)
        <5>1. /\ Len(acc[k]) \in Nat /\ DOMAIN acc[k] = 1 .. Len(acc[k])
              /\ \A j \in 1 .. Len(acc[k]) : acc[k][j] \in 1 .. n
          <6>1. acc[k] \in Seq(1 .. n)
                BY <2>4
          <6> HIDE DEF Part, N
          <6> QED
                BY <6>1, ListFacts
        <5>2. \A j \in 1 .. Len(acc[k]) : Num(values[acc[k][j]][key]) \in N
              BY <1>2, <5>1
        <5> HIDE DEF N
        <5>3. Part(acc[k]) \in [1 .. Len(acc[k]) -> N]
              BY <5>1, <5>2
        <5> HIDE DEF Part
        <5> QED
              BY <5>1, <5>3
      <4>2. Num(values[k + 1][key]) \in N
            BY <2>5
      <4>3. Part(acc[k + 1]) = Append(Part(acc[k]), Num(values[k + 1][key]))
        <5>1. acc[k] \in Seq(1 .. n)
              BY <2>4
        <5>2. /\ Len(acc[k]) \in Nat /\ DOMAIN acc[k] = 1 .. Len(acc[k])
              /\ DOMAIN acc[k + 1] = 1 .. (Len(acc[k]) + 1)
              /\ acc[k + 1][Len(acc[k]) + 1] = k + 1
              /\ \A j \in 1 .. Len(acc[k]) : acc[k + 1][j] = acc[k][j]
              BY <5>1, <3>1
        <5>3. Len(Part(acc[k])) = Len(acc[k]) /\ DOMAIN Part(acc[k]) = 1 .. Len(acc[k])
              BY <4>1, <5>2
        <5> QED
              BY <4>1, <4>2, <5>2, <5>3
      <4> HIDE DEF N, Part
      <4> QED
            BY <4>1, <4>2, <4>3, TotalOfOneMore
    <3>4. \A i \in 1 .. k + 1 : i \in 1 .. k \/ i = k + 1
          OBVIOUS
    <3>5. \A i \in 1 .. k + 1 :
             Member(i) => \E j \in DOMAIN acc[k + 1] : acc[k + 1][j] = i
          BY <2>4, <3>2, <3>4
    <3> HIDE DEF Part
    <3> QED
          BY <2>3, <2>4, <2>6, <2>7, <3>2, <3>3, <3>5
  <2>8. CASE ~Member(k + 1)
    <3>1. acc[k + 1] = acc[k]
          BY <2>2, <2>8 DEF Chosen, Member
    <3>2. sum[k + 1] = sum[k]
      <4>1. PICK t \in Int : sum[k] = Num(t)
            BY <2>4
      <4>2. Plus(Num(t), Num(0)) = Num(t)
            BY DEF Plus, Num
      <4> QED
            BY <2>3, <2>8, <4>1, <4>2
    <3>3. \A i \in 1 .. k + 1 : Member(i) => i \in 1 .. k
          BY <2>8
    <3> HIDE DEF Part
    <3> QED
          BY <2>4, <3>1, <3>2, <3>3
  <2> QED
        BY <2>7, <2>8
<1> HIDE DEF S
<1>9. n \in S
    BY <1>1, <1>7, <1>8, Adding!InductionOverNat
<1>10. Good(n)
    BY <1>1, <1>9 DEF S
<1>11. \E i \in 1 .. n : Member(i)
    BY DevicesAreListed, DevicesCombine DEF Hosts, Member, n
<1>12. Positions(values) = acc[n] /\ Total(zeros) = sum[n]
    BY <1>3, <1>4, <1>5, <1>6 DEF Choosing!Run, Adding!Run
<1> QED
    BY <1>1, <1>10, <1>11, <1>12 DEF zeros

LEMMA OpsAreListed == Listed(DeriveOps)
BY DevicesCombine DEF Listed

\* A point that no derive step writes is what the device showed
\* (etango_poller.py: decode_source, then apply_derive).
LEMMA MeasuredIsShown ==
    ASSUME NEW shown, NEW key \in Measured(Points, DeriveOps)
    PROVE  key \in DOMAIN Decoded(shown) /\ Decoded(shown)[key] = Num(shown[key])
<1> DEFINE values == [k \in Points |-> Num(shown[k])]
<1>1. key \in DOMAIN values /\ values[key] = Num(shown[key]) /\ key \notin Derived(DeriveOps)
    BY DEF Measured
<1> HIDE DEF values
<1>2. SameAt(ApplyDerive(values, DeriveOps), values, key)
    BY <1>1, OpsAreListed, MeasuredIsKept
<1> QED
    BY <1>1, <1>2 DEF SameAt, Decoded, values

\* Apparent power of one device is that of what this device showed.
LEMMA PowerIsDerived ==
    ASSUME NEW shown, NEW k \in DOMAIN DeriveOps, NEW i \in DOMAIN DeriveOps[k].targets,
           DeriveOps[k].op = "hypot", Final(DeriveOps, k),
           Legs(DeriveOps[k], i) \subseteq Measured(Points, DeriveOps)
    PROVE  LET op == DeriveOps[k]
           IN /\ op.targets[i] \in DOMAIN Decoded(shown)
              /\ Decoded(shown)[op.targets[i]]
                   = Hypot(Num(shown[op.from[2 * i - 1]]), Num(shown[op.from[2 * i]]))
<1> DEFINE values == [key \in Points |-> Num(shown[key])]
           op == DeriveOps[k]
           a == op.from[2 * i - 1]
           b == op.from[2 * i]
<1>1. \A leg \in {a, b} : /\ leg \in DOMAIN values /\ values[leg] = Num(shown[leg])
                          /\ leg \notin Derived(DeriveOps)
    BY DEF Measured, Legs
<1>2. /\ Len(DeriveOps) \in Nat /\ DOMAIN DeriveOps = 1 .. Len(DeriveOps)
      /\ ToSet(op.targets) \subseteq Derived(DeriveOps)
    BY OpsAreListed, DeriveRun DEF Derived, ToSet
<1> HIDE DEF values
<1>3. PICK acc : Derives(acc, values, DeriveOps)
    BY OpsAreListed, DeriveRun
<1>4. /\ op.targets[i] \in DOMAIN ApplyDerive(values, DeriveOps)
      /\ IsWritten(ApplyDerive(values, DeriveOps)[op.targets[i]], acc[k - 1], op, i)
    BY <1>3, OpsAreListed, TargetIsKept
<1>5. PICK now : /\ SameBut(now, acc[k - 1], ToSet(op.targets))
                 /\ ApplyDerive(values, DeriveOps)[op.targets[i]]
                      = Written(now, Target(acc[k - 1], op, i))
    BY <1>4 DEF IsWritten
<1> HIDE DEF a, b
<1>6. ASSUME NEW leg \in {a, b} PROVE Get(now, leg) = Num(shown[leg])
  <2>1. leg \in DOMAIN values /\ values[leg] = Num(shown[leg]) /\ leg \notin Derived(DeriveOps)
        BY <1>1
  <2>2. SameAt(now, acc[k - 1], leg)
        BY <1>2, <1>5, <2>1 DEF SameBut
  <2>3. k - 1 \in 0 .. Len(DeriveOps)
        BY <1>2
  <2>4. SameAt(acc[k - 1], values, leg)
        BY <1>3, <2>1, <2>3, OpsAreListed, MeasuredIsKept
  <2> QED
        BY <2>1, <2>2, <2>4 DEF SameAt, Get
<1>7. Written(now, Target(acc[k - 1], op, i)) = Hypot(Get(now, a), Get(now, b))
    BY WrittenHypot DEF Target, a, b
<1>8. Written(now, Target(acc[k - 1], op, i)) = Hypot(Num(shown[a]), Num(shown[b]))
    BY <1>6, <1>7
<1> QED
    BY <1>4, <1>5, <1>8 DEF Decoded, values, a, b

LEMMA AliasesAreAdded ==
    ASSUME NEW values, NEW key \in DOMAIN values, key \notin Aliases
    PROVE  ComputeDerived(values)[key] = values[key]
<1>1. \A v, k, x : key \in DOMAIN v /\ key # k =>
         key \in DOMAIN Put(v, k, x) /\ Put(v, k, x)[key] = v[key]
    BY DEF Put
<1>2. key # "active_energy_total" /\ key # "net_imp_energy_total" /\ key # "net_exp_energy_total"
    BY DEF Aliases
<1> QED
    BY <1>1, <1>2 DEF ComputeDerived

\* A key of the combined sample, from what the members show for it.
LEMMA CombinedKey ==
    ASSUME NEW values, NEW key,
           key \notin Aliases, \A i \in DOMAIN values : key \in DOMAIN Decoded(values[i]),
           Positions(values) \in Seq(DOMAIN values), Positions(values) # <<>>
    PROVE  LET list == Positions(values)
               total == Total([j \in DOMAIN list |-> Decoded(values[list[j]])[key]])
           IN ComputeDerived(Combine(Selected(values)))[key]
                = IF AggregateMode(key) = "sum" THEN total ELSE Over(total, Num(Len(list)))
<1> DEFINE list == Positions(values)
           m == Len(list)
           decoded == Selected(values)
           total == Total([j \in DOMAIN list |-> Decoded(values[list[j]])[key]])
<1> HIDE DEF list
<1>2. /\ m \in Nat \ {0} /\ DOMAIN list = 1 .. m
      /\ \A j \in 1 .. m : list[j] \in DOMAIN values
    BY DEF list
<1>3. decoded = [j \in 1 .. m |-> Decoded(values[list[j]])]
    BY <1>2 DEF Selected, Positions, list
<1>4. DOMAIN decoded = 1 .. m /\ Len(decoded) = m
  <2>1. DOMAIN decoded = 1 .. m
        BY <1>3
  <2>2. Len([j \in 1 .. m |-> Decoded(values[list[j]])]) = m
        BY <1>2
  <2> QED
        BY <1>3, <2>1, <2>2
<1>5. \A j \in 1 .. m :
         key \in DOMAIN decoded[j] /\ decoded[j][key] = Decoded(values[list[j]])[key]
    BY <1>2, <1>3
<1> HIDE DEF decoded, m
<1>6. Total([j \in DOMAIN decoded |-> decoded[j][key]]) = total
  <2>1. [j \in DOMAIN decoded |-> decoded[j][key]]
          = [j \in DOMAIN list |-> Decoded(values[list[j]])[key]]
        BY <1>2, <1>4, <1>5
  <2> QED
        BY <2>1
<1> HIDE DEF total
<1>8. key \in DOMAIN decoded[1]
    BY <1>2, <1>5
<1>9. /\ key \in DOMAIN Combine(decoded)
      /\ Combine(decoded)[key]
           = IF AggregateMode(key) = "sum" THEN total ELSE Over(total, Num(m))
    BY <1>4, <1>6, <1>8 DEF Combine
<1>10. ComputeDerived(Combine(decoded))[key] = Combine(decoded)[key]
    BY <1>9, AliasesAreAdded
<1> QED
    BY <1>9, <1>10 DEF decoded, total, m, list

\* For a measured point these are the readings of the members.
LEMMA CombinedIsTotal ==
    ASSUME NEW values, IsPoll(values), NEW key \in Measured(Points, DeriveOps)
    PROVE  LET list == Positions(values)
               total == Total([j \in DOMAIN list |-> Num(values[list[j]][key])])
           IN ComputeDerived(Combine(Selected(values)))[key]
                = IF Mode[key] = "sum" THEN total ELSE Over(total, Num(Len(list)))
<1> DEFINE list == Positions(values)
<1>1. list \in Seq(DOMAIN values) /\ list # <<>>
    BY MembersAreChosen DEF Measured
<1>2. key \notin Aliases /\ AggregateMode(key) = Mode[key]
    BY DEF AggregateMode, Measured
<1>3. \A i \in DOMAIN values :
         key \in DOMAIN Decoded(values[i]) /\ Decoded(values[i])[key] = Num(values[i][key])
    BY MeasuredIsShown
<1>4. [j \in DOMAIN list |-> Decoded(values[list[j]])[key]]
        = [j \in DOMAIN list |-> Num(values[list[j]][key])]
  <2>1. \A j \in DOMAIN list : list[j] \in DOMAIN values
        BY <1>1
  <2> HIDE DEF list
  <2> QED
        BY <1>3, <2>1
<1>5. \A i \in DOMAIN values : key \in DOMAIN Decoded(values[i])
    BY <1>3
<1> QED
    BY <1>1, <1>2, <1>4, <1>5, CombinedKey

\* What is published of one whole poll counts every member, and nobody else.
LEMMA CombinedIsComplete ==
    ASSUME NEW values, IsPoll(values), NEW key \in Measured(Points, DeriveOps)
    PROVE  LET out == ComputeDerived(Combine(Selected(values)))[key]
           IN /\ Mode[key] = "sum" =>
                   Same(out, Total([i \in DOMAIN values |->
                                      Num(IF Member(i) THEN values[i][key] ELSE 0)]))
              /\ Mode[key] = "avg" =>
                   /\ \E i \in DOMAIN values : Member(i) /\ AtMost(out, Num(values[i][key]))
                   /\ \E i \in DOMAIN values : Member(i) /\ AtMost(Num(values[i][key]), out)
<1> DEFINE list == Positions(values)
           m == Len(list)
           r == [j \in 1 .. m |-> values[list[j]][key]]
           out == ComputeDerived(Combine(Selected(values)))[key]
           zeros == [i \in DOMAIN values |-> Num(IF Member(i) THEN values[i][key] ELSE 0)]
<1>1. /\ list \in Seq(DOMAIN values) /\ list # <<>>
      /\ \A j \in DOMAIN list : Member(list[j])
      /\ Total([j \in DOMAIN list |-> Num(values[list[j]][key])]) = Total(zeros)
    BY MembersAreChosen DEF Measured
<1>2. out = IF Mode[key] = "sum" THEN Total(zeros) ELSE Over(Total(zeros), Num(m))
    BY <1>1, CombinedIsTotal
<1> HIDE DEF list, out, zeros
<1>3. /\ m \in Nat \ {0} /\ DOMAIN list = 1 .. m
      /\ \A j \in 1 .. m : list[j] \in DOMAIN values /\ Member(list[j])
    BY <1>1, ListFacts
<1>4. \A j \in 1 .. m : values[list[j]][key] \in Int
    BY <1>3, DevicesCombine DEF IsPoll, Shown, Measured
<1> HIDE DEF m
<1>5. r \in [1 .. m -> Int] /\ \A j \in 1 .. m : r[j] = values[list[j]][key]
    BY <1>4
<1>6. [j \in DOMAIN list |-> Num(values[list[j]][key])] = [j \in 1 .. m |-> Num(r[j])]
    BY <1>3, <1>5
<1> HIDE DEF r
<1>7. PICK t \in Int :
              /\ Total([j \in 1 .. m |-> Num(r[j])]) = Num(t)
              /\ \E j \in 1 .. m : t <= r[j] * m
              /\ \E j \in 1 .. m : r[j] * m <= t
    BY <1>3, <1>5, MeanIsBetween
<1>8. Total(zeros) = Num(t)
    BY <1>1, <1>6, <1>7
<1>9. Mode[key] = "sum" => Same(out, Total(zeros))
    BY <1>2, <1>8 DEF Same, Num, IsFinite
<1>10. ASSUME Mode[key] = "avg"
       PROVE  /\ \E i \in DOMAIN values : Member(i) /\ AtMost(out, Num(values[i][key]))
              /\ \E i \in DOMAIN values : Member(i) /\ AtMost(Num(values[i][key]), out)
  <2>1. out.n = t /\ out.d = m
    <3>1. out = Over(Num(t), Num(m))
          BY <1>2, <1>8, <1>10
    <3> QED
          BY <1>3, <3>1 DEF Over, Num
  <2>2. PICK j \in 1 .. m : t <= r[j] * m
        BY <1>7
  <2>3. PICK k \in 1 .. m : r[k] * m <= t
        BY <1>7
  <2>4. r[j] \in Int /\ r[k] \in Int
        BY <1>5
  <2>5. AtMost(out, Num(r[j])) /\ AtMost(Num(r[k]), out)
    <3>1. t * 1 = t
          OBVIOUS
    <3> QED
          BY <2>1, <2>2, <2>3, <3>1 DEF AtMost, Num
  <2> QED
        BY <1>3, <1>5, <2>5
<1> QED
    BY <1>9, <1>10 DEF out, zeros

\* Apparent power of the combined sample is zero only if no member shows power.
LEMMA PowerIsNotNetted ==
    ASSUME NEW values, IsPoll(values),
           NEW k \in DOMAIN DeriveOps, NEW i \in DOMAIN DeriveOps[k].targets,
           DeriveOps[k].op = "hypot", Legs(DeriveOps[k], i) \subseteq Measured(Points, DeriveOps),
           Final(DeriveOps, k),
           ComputeDerived(Combine(Selected(values)))[DeriveOps[k].targets[i]].n = 0,
           NEW member \in DOMAIN values, Member(member), NEW leg \in Legs(DeriveOps[k], i)
    PROVE  values[member][leg] = 0
<1> DEFINE list == Positions(values)
           m == Len(list)
           key == DeriveOps[k].targets[i]
           a == DeriveOps[k].from[2 * i - 1]
           b == DeriveOps[k].from[2 * i]
           powers == [j \in DOMAIN list |-> Decoded(values[list[j]])[key]]
           out == ComputeDerived(Combine(Selected(values)))[key]
<1>1. leg \in Points /\ a \in Points /\ b \in Points /\ leg \in {a, b}
    BY DEF Measured, Legs
<1>2. /\ list \in Seq(DOMAIN values) /\ list # <<>>
      /\ \E j \in DOMAIN list : list[j] = member
    BY <1>1, MembersAreChosen
<1>3. \A j \in DOMAIN values :
         /\ key \in DOMAIN Decoded(values[j])
         /\ Decoded(values[j])[key] = Hypot(Num(values[j][a]), Num(values[j][b]))
    BY PowerIsDerived
<1>4. \A j \in DOMAIN values : values[j][a] \in Int /\ values[j][b] \in Int
    BY <1>1, DevicesCombine DEF IsPoll, Shown
<1>5. out = IF AggregateMode(key) = "sum" THEN Total(powers) ELSE Over(Total(powers), Num(m))
  <2>1. key \notin Aliases
        BY DEF Final, Settled
  <2> QED
        BY <1>2, <1>3, <2>1, CombinedKey
<1>6. out.n = 0
    OBVIOUS
<1> HIDE DEF list, key, a, b, out
<1>7. /\ m \in Nat \ {0} /\ DOMAIN list = 1 .. m
      /\ \A j \in 1 .. m : list[j] \in DOMAIN values
    BY <1>2, ListFacts
<1> HIDE DEF m
<1>8. ASSUME NEW j \in 1 .. m
      PROVE  /\ powers[j] \in AtLeastZero
             /\ powers[j].n = 0 => values[list[j]][a] = 0 /\ values[list[j]][b] = 0
  <2>1. powers[j] = Hypot(Num(values[list[j]][a]), Num(values[list[j]][b]))
        BY <1>3, <1>7
  <2>2. values[list[j]][a] \in Int /\ values[list[j]][b] \in Int
        BY <1>4, <1>7
  <2> QED
        BY <2>1, <2>2, HypotIsPositive
<1>9. powers \in [1 .. m -> AtLeastZero]
    BY <1>7, <1>8
<1> HIDE DEF powers
<1>10. /\ Total(powers) \in AtLeastZero
       /\ Total(powers).n = 0 => \A j \in 1 .. m : powers[j].n = 0
    BY <1>7, <1>9, NothingCancels
<1>11. Total(powers).n = 0
  <2>1. Over(Total(powers), Num(m)).n = Total(powers).n
        BY <1>7, <1>10 DEF Over, Num, AtLeastZero
  <2> QED
        BY <1>5, <1>6, <2>1
<1> QED
    BY <1>1, <1>2, <1>7, <1>8, <1>10, <1>11

-----------------------------------------------------------------------------
(***************************************************************************)
(* The inductive invariant: where a poll is, it has read that many devices *)
(* and all of them were valid; what is published is the combination of one *)
(* such poll; connect() has one result per device tried so far.            *)
(***************************************************************************)
PollInv ==
    /\ poll \in 0 .. Len(Devices)
    /\ perDevice \in Seq(Shown)
    /\ poll # 0 => Len(perDevice) = poll - 1

SampleInv ==
    Published => IsPoll(made) /\ sample = ComputeDerived(Combine(Selected(made)))

ConnectInv ==
    /\ connect \in 0 .. Len(Devices)
    /\ results \in Seq(BOOLEAN)
    /\ connect # 0 => Len(results) = connect - 1 /\ outcome = "none"
    /\ ConnectIsAllOrNothing

IInv == PollInv /\ SampleInv /\ ConnectInv

LEMMA InitSource == Init => IInv
BY DevicesAreListed
   DEF Init, IInv, PollInv, SampleInv, ConnectInv, Published, ConnectIsAllOrNothing

\* A valid device shows a reading for each point.
LEMMA ValidIsShown ==
    ASSUME NEW shown \in [Points -> Readings \cup {OutOfRange}], Valid(shown)
    PROVE  shown \in Shown
BY DEF Valid, Shown

\* poll_once: a device read, the last one included.
LEMMA ReadKeeps == ASSUME IInv, ReadDevice PROVE PollInv' /\ SampleInv'
<1>1. PICK shown \in [Points -> Readings \cup {OutOfRange}] :
        /\ Valid(shown)
        /\ IF poll < Len(Devices)
           THEN /\ poll' = poll + 1
                /\ perDevice' = Append(perDevice, shown)
                /\ UNCHANGED outputVars
           ELSE /\ poll' = 0
                /\ perDevice' = <<>>
                /\ sample' = ComputeDerived(Combine(Selected(Append(perDevice, shown))))
                /\ made' = Append(perDevice, shown)
    BY DEF ReadDevice
<1> DEFINE all == Append(perDevice, shown)
<1>2. all \in Seq(Shown) /\ Len(all) = poll
  <2>1. shown \in Shown
        BY <1>1, ValidIsShown
  <2>2. perDevice \in Seq(Shown) /\ Len(perDevice) = poll - 1 /\ poll \in Nat
        BY DevicesAreListed DEF IInv, PollInv, ReadDevice
  <2> QED
        BY <2>1, <2>2
<1>3. poll \in 1 .. Len(Devices)
    BY DevicesAreListed DEF IInv, PollInv, ReadDevice
<1>4. CASE poll < Len(Devices)
  <2>1. poll' = poll + 1 /\ perDevice' = all /\ UNCHANGED outputVars
        BY <1>1, <1>4
  <2>2. PollInv'
        BY <1>2, <1>3, <1>4, <2>1, DevicesAreListed DEF PollInv
  <2>3. SampleInv'
        BY <2>1 DEF IInv, SampleInv, Published, outputVars
  <2> QED
        BY <2>2, <2>3
<1>5. CASE ~(poll < Len(Devices))
  <2>1. /\ poll' = 0 /\ perDevice' = <<>>
        /\ sample' = ComputeDerived(Combine(Selected(all))) /\ made' = all
        BY <1>1, <1>5
  <2>2. poll = Len(Devices)
        BY <1>3, <1>5, DevicesAreListed, LastOfThem
  <2>3. IsPoll(all)
    <3>1. all \in [1 .. Len(all) -> Shown]
          BY <1>2, ListFacts
    <3>2. Len(all) = Len(Devices)
          BY <1>2, <2>2
    <3> HIDE DEF all
    <3> QED
          BY <3>1, <3>2 DEF IsPoll
  <2>4. PollInv'
        BY <2>1, DevicesAreListed DEF PollInv
  <2>5. IsPoll(made)'
        BY <2>1, <2>3 DEF IsPoll
  <2>6. SampleInv'
        BY <2>1, <2>5 DEF SampleInv
  <2> QED
        BY <2>4, <2>6
<1> QED
    BY <1>4, <1>5

\* MultiHostClient.connect: a device tried, the last one included.
LEMMA ConnectKeeps == ASSUME IInv, ConnectDevice PROVE ConnectInv'
<1>1. PICK ok \in BOOLEAN :
        /\ results' = Append(results, ok)
        /\ IF connect < Len(Devices)
           THEN connect' = connect + 1 /\ UNCHANGED outcome
           ELSE connect' = 0 /\ outcome' = Verdict(Append(results, ok))
    BY DEF ConnectDevice
<1>2. /\ connect \in 1 .. Len(Devices) /\ results \in Seq(BOOLEAN)
      /\ Len(results) = connect - 1 /\ outcome = "none"
    BY DevicesAreListed DEF IInv, ConnectInv, ConnectDevice
<1>3. results' \in Seq(BOOLEAN) /\ Len(results') = connect
    BY <1>1, <1>2
<1>4. CASE connect < Len(Devices)
    BY <1>1, <1>2, <1>3, <1>4, DevicesAreListed DEF ConnectInv, ConnectIsAllOrNothing
<1>5. CASE ~(connect < Len(Devices))
  <2>1. connect' = 0 /\ outcome' = Verdict(results')
        BY <1>1, <1>5
  <2>2. connect = Len(Devices)
        BY <1>2, <1>5, DevicesAreListed, LastOfThem
  <2>3. outcome' = "true" => \A i \in DOMAIN results' : results'[i]
        BY <2>1 DEF Verdict
  <2> QED
        BY <1>3, <2>1, <2>2, <2>3, DevicesAreListed DEF ConnectInv, ConnectIsAllOrNothing
<1> QED
    BY <1>4, <1>5

LEMMA StepSource == IInv /\ [Next]_vars => IInv'
<1> SUFFICES ASSUME IInv, [Next]_vars PROVE IInv'
    OBVIOUS
<1>0. Len(Devices) \in Nat /\ Len(Devices) # 0
    BY DevicesAreListed, DevicesCombine DEF Hosts
<1>1. UNCHANGED pollVars => PollInv'
    BY DEF IInv, PollInv, pollVars
<1>2. UNCHANGED outputVars => SampleInv'
    BY DEF IInv, SampleInv, Published, outputVars
<1>3. UNCHANGED connectVars => ConnectInv'
    BY DEF IInv, ConnectInv, ConnectIsAllOrNothing, connectVars
<1>4. CASE LinkChanges
    BY <1>1, <1>2, <1>3, <1>4 DEF LinkChanges, IInv
<1>5. CASE BeginPoll
  <2>1. PollInv'
        BY <1>0, <1>5 DEF BeginPoll, PollInv
  <2> QED
        BY <1>2, <1>3, <1>5, <2>1 DEF BeginPoll, IInv
<1>6. CASE ReadDevice
    BY <1>3, <1>6, ReadKeeps DEF ReadDevice, IInv
<1>7. CASE DeviceFails
  <2>1. PollInv'
        BY <1>0, <1>7 DEF DeviceFails, PollInv
  <2> QED
        BY <1>2, <1>3, <1>7, <2>1 DEF DeviceFails, IInv
<1>8. CASE BeginConnect
  <2>1. ConnectInv'
        BY <1>0, <1>8 DEF BeginConnect, ConnectInv, ConnectIsAllOrNothing
  <2> QED
        BY <1>1, <1>2, <1>8, <2>1 DEF BeginConnect, IInv
<1>9. CASE ConnectDevice
    BY <1>1, <1>2, <1>9, ConnectKeeps DEF ConnectDevice, IInv
<1>10. CASE CloseAll
  <2>1. PollInv' /\ ConnectInv'
        BY <1>0, <1>10 DEF CloseAll, PollInv, ConnectInv, ConnectIsAllOrNothing
  <2> QED
        BY <1>2, <1>10, <2>1 DEF CloseAll, IInv
<1>still. CASE UNCHANGED vars
    BY <1>1, <1>2, <1>3, <1>still DEF vars, IInv
<1> QED
    BY <1>4, <1>5, <1>6, <1>7, <1>8, <1>9, <1>10, <1>still DEF Next

\* The invariant holds throughout.
THEOREM SourceInvariance == Spec => []IInv
BY InitSource, StepSource, PTL DEF Spec

\* MultiHostClient.connect returns True only if this call connected every
\* device (etango_poller.py:66).
THEOREM ConnectsTogether == Spec => []ConnectIsAllOrNothing
<1>1. IInv => ConnectIsAllOrNothing
    BY DEF IInv, ConnectInv
<1> QED
    BY <1>1, SourceInvariance, PTL

\* poll_once publishes every member of one poll or nothing: totals neither
\* lose nor double a relay, averages lie within what the relays showed
\* (etango_poller.py:199, _combine).
THEOREM MembersComplete == Spec => []AggregateIsComplete
<1>1. IInv => AggregateIsComplete
  <2> SUFFICES ASSUME IInv, Published PROVE AggregateIsComplete
        BY DEF AggregateIsComplete
  <2>1. IsPoll(made) /\ sample = ComputeDerived(Combine(Selected(made)))
        BY DEF IInv, SampleInv
  <2>2. made \in Seq(Shown) /\ Len(made) = Len(Devices)
        BY <2>1, DevicesAreListed DEF IsPoll
  <2>3. \A i \in DOMAIN made : i \in Members <=> Member(i)
        BY DEF Members, Member
  <2>4. ASSUME NEW key \in Measured(Points, DeriveOps)
        PROVE  /\ Mode[key] = "sum" =>
                    Same(sample[key], Total([i \in DOMAIN made |->
                                               Num(IF i \in Members THEN made[i][key] ELSE 0)]))
               /\ Mode[key] = "avg" =>
                    /\ \E i \in Members : AtMost(sample[key], Num(made[i][key]))
                    /\ \E i \in Members : AtMost(Num(made[i][key]), sample[key])
    <3>1. [i \in DOMAIN made |-> Num(IF i \in Members THEN made[i][key] ELSE 0)]
            = [i \in DOMAIN made |-> Num(IF Member(i) THEN made[i][key] ELSE 0)]
          BY <2>3
    <3> QED
          BY <2>1, <2>3, <3>1, CombinedIsComplete
  <2> QED
        BY <2>2, <2>4 DEF AggregateIsComplete
<1> QED
    BY <1>1, SourceInvariance, PTL

\* Apparent power is derived per relay before it is combined (etango_poller.py:
\* 238, apply_derive, then _combine): feeders that export do not cancel the load
\* of feeders that import.
THEOREM NotNetted == Spec => []ApparentPowerIsNotNetted
<1>1. IInv => ApparentPowerIsNotNetted
  <2> SUFFICES ASSUME IInv, Published,
                      NEW k \in DOMAIN DeriveOps, NEW i \in DOMAIN DeriveOps[k].targets,
                      DeriveOps[k].op = "hypot", Legs(DeriveOps[k], i) \subseteq Measured(Points, DeriveOps),
                      Final(DeriveOps, k),
                      IsZero(sample[DeriveOps[k].targets[i]]),
                      NEW j \in Members, NEW leg \in Legs(DeriveOps[k], i)
               PROVE  made[j][leg] = 0
        BY DEF ApparentPowerIsNotNetted
  <2>1. IsPoll(made) /\ sample = ComputeDerived(Combine(Selected(made)))
        BY DEF IInv, SampleInv
  <2>2. j \in DOMAIN made /\ Member(j)
        BY DEF Members, Member
  <2>3. ComputeDerived(Combine(Selected(made)))[DeriveOps[k].targets[i]].n = 0
        BY <2>1 DEF IsZero
  <2> QED
        BY <2>1, <2>2, <2>3, PowerIsNotNetted
<1> QED
    BY <1>1, SourceInvariance, PTL

-----------------------------------------------------------------------------
(***************************************************************************)
(* Part 4.  registers_to_int gives back the integer a device laid out in   *)
(* its registers, for every type, both word orders and both byte orders.   *)
(***************************************************************************)

LEMMA PowerFacts ==
    /\ Power(0) = 1
    /\ \A n \in Nat : Power(n) \in Nat \ {0} /\ Power(n + 1) = Power(n) * Base
<1>1. ASSUME NEW n \in Nat
      PROVE  \E acc : /\ acc[0] = 1 /\ Power(n) = acc[n]
                      /\ \A k \in 1 .. n : acc[k] = acc[k - 1] * Base
  <2> DEFINE list == [i \in 1 .. n |-> i]
  <2>1. DOMAIN list = 1 .. n
        OBVIOUS
  <2>2. Power(n) = Raising!Fold(1, list)
        BY DEF Power, FoldLeft, MapThenFoldSet, Max,
               Raising!Fold, Raising!FoldLeft, Raising!MapThenFoldSet, Raising!Max
  <2> HIDE DEF list
  <2>3. PICK acc : Raising!Run(acc, 1, list, n)
        BY <2>1, Raising!FoldSteps
  <2>4. /\ acc[0] = 1 /\ Power(n) = acc[n]
        /\ \A k \in 1 .. n : acc[k] = acc[k - 1] * Base
        BY <2>2, <2>3 DEF Raising!Run, OneMoreDigit
  <2> QED
        BY <2>4
<1>2. Power(0) = 1
  <2>1. 0 \in Nat
        OBVIOUS
  <2> QED
        BY <1>1, <2>1
<1>3. ASSUME NEW n \in Nat PROVE Power(n + 1) = Power(n) * Base
  <2>1. PICK acc : /\ acc[0] = 1 /\ Power(n) = acc[n]
                   /\ \A k \in 1 .. n : acc[k] = acc[k - 1] * Base
        BY <1>1
  <2>2. PICK bcc : /\ bcc[0] = 1 /\ Power(n + 1) = bcc[n + 1]
                   /\ \A k \in 1 .. n + 1 : bcc[k] = bcc[k - 1] * Base
        BY <1>1
  <2> DEFINE S == {k \in Nat : k <= n => acc[k] = bcc[k]}
  <2>3. 0 \in S
        BY <2>1, <2>2
  <2>4. ASSUME NEW k \in Nat, k \in S PROVE k + 1 \in S
    <3> SUFFICES ASSUME k + 1 <= n PROVE acc[k + 1] = bcc[k + 1]
          OBVIOUS
    <3>1. k + 1 \in 1 .. n /\ k + 1 \in 1 .. n + 1 /\ (k + 1) - 1 = k /\ acc[k] = bcc[k]
          BY <2>4
    <3> QED
          BY <2>1, <2>2, <3>1
  <2> HIDE DEF S
  <2>5. n \in S
        BY <2>3, <2>4, Raising!InductionOverNat
  <2>6. n + 1 \in 1 .. n + 1 /\ (n + 1) - 1 = n /\ acc[n] = bcc[n]
        BY <2>5 DEF S
  <2> QED
        BY <2>1, <2>2, <2>6
<1> DEFINE P == {n \in Nat : Power(n) \in Nat \ {0}}
<1>4. 0 \in P
    BY <1>2
<1>5. ASSUME NEW n \in Nat, n \in P PROVE n + 1 \in P
  <2>1. \A a, b \in Nat \ {0} : a * b \in Nat \ {0}
        OBVIOUS
  <2> QED
        BY <1>3, <1>5, <2>1, BaseIsEven
<1> HIDE DEF P
<1>6. Nat \subseteq P
    BY <1>4, <1>5, Raising!InductionOverNat
<1> QED
    BY <1>2, <1>3, <1>6 DEF P

\* Division by a product, and a number from its quotient and remainder.
LEMMA Divisions ==
    ASSUME NEW v \in Nat, NEW a \in Nat \ {0}, NEW b \in Nat \ {0}
    PROVE  /\ (v \div a) \div b = v \div (a * b)
           /\ v = (v \div a) * a + (v % a)
           /\ v \div a \in Nat /\ v % a \in 0 .. a - 1
           /\ v < a => v \div a = 0
OBVIOUS


\* A number with its last two digits taken off, and they.
LEMMA LastTwoDigits ==
    ASSUME NEW v \in Nat, NEW p \in Nat \ {0}
    PROVE  v \div p = (v \div (p * Base * Base)) * Base * Base
                        + (((v \div (p * Base)) % Base) * Base + ((v \div p) % Base))
<1> DEFINE x == v \div p
           y == x \div Base
           z == y \div Base
           yd == y % Base
           xd == x % Base
<1>1. Base \in Nat \ {0} /\ p * Base \in Nat \ {0}
    BY BaseIsEven
<1>2. x \in Nat /\ y = v \div (p * Base)
  <2>1. x \in Nat
        BY Divisions
  <2>2. (v \div p) \div Base = v \div (p * Base)
        BY <1>1, Divisions
  <2> QED
        BY <2>1, <2>2
<1>3. y \in Nat /\ x = y * Base + xd /\ xd \in Int
  <2>1. x \in Nat
        BY <1>2
  <2> HIDE DEF x
  <2> QED
        BY <1>1, <2>1, Divisions
<1>4. z = v \div (p * Base * Base)
  <2>1. (v \div (p * Base)) \div Base = v \div ((p * Base) * Base)
        BY <1>1, Divisions
  <2> QED
        BY <1>2, <2>1
<1>5. y = z * Base + yd /\ z \in Int /\ yd \in Int
    BY <1>1, <1>3, Divisions
<1> HIDE DEF xd, yd, z, y, x
<1>6. x = z * Base * Base + (yd * Base + xd)
    BY <1>1, <1>2, <1>3, <1>5
<1> QED
    BY <1>2, <1>4, <1>6 DEF x, xd, yd

\* Digit k of n words, the most significant being digit 0.
Digit(v, n, k) == (v \div Power(2 * n - 1 - k)) % Base

\* Reading the words of a number one after the other gives the number.
LEMMA WordsAreRead ==
    ASSUME NEW n \in Nat, NEW v \in Nat, v < Power(2 * n),
           NEW list, DOMAIN list = 1 .. n,
           \A i \in 1 .. n :
               list[i] = Digit(v, n, 2 * (i - 1)) * Base + Digit(v, n, 2 * (i - 1) + 1)
    PROVE  FoldLeft(OneMoreWord, 0, list) = v
<1>1. FoldLeft(OneMoreWord, 0, list) = Reading!Fold(0, list)
    BY DEF FoldLeft, MapThenFoldSet, Max,
           Reading!Fold, Reading!FoldLeft, Reading!MapThenFoldSet, Reading!Max
<1>2. PICK acc : Reading!Run(acc, 0, list, n)
    BY Reading!FoldSteps
<1>3. /\ acc[0] = 0 /\ Reading!Fold(0, list) = acc[n]
      /\ \A k \in 1 .. n : acc[k] = acc[k - 1] * Base * Base + list[k]
    BY <1>2 DEF Reading!Run, OneMoreWord
<1> DEFINE S == {k \in Nat : k <= n => acc[k] = v \div Power(2 * (n - k))}
<1>4. 0 \in S
  <2>1. 2 * (n - 0) = 2 * n /\ 2 * n \in Nat
        OBVIOUS
  <2>2. v \div Power(2 * n) = 0
        BY <2>1, PowerFacts, Divisions
  <2> QED
        BY <1>3, <2>1, <2>2
<1>5. ASSUME NEW k \in Nat, k \in S PROVE k + 1 \in S
  <2> SUFFICES ASSUME k + 1 <= n PROVE acc[k + 1] = v \div Power(2 * (n - (k + 1)))
        OBVIOUS
  <2> DEFINE e == 2 * (n - (k + 1))
             p == Power(e)
  <2>1. /\ e \in Nat /\ e + 1 \in Nat /\ (e + 1) + 1 = 2 * (n - k)
        /\ k + 1 \in 1 .. n /\ (k + 1) - 1 = k /\ k <= n
        /\ 2 * n - 1 - 2 * ((k + 1) - 1) = e + 1
        /\ 2 * n - 1 - (2 * ((k + 1) - 1) + 1) = e
        OBVIOUS
  <2>2. acc[k] = v \div Power(2 * (n - k))
        BY <1>5, <2>1
  <2> HIDE DEF e
  <2>3. p \in Nat \ {0} /\ Power(e + 1) = p * Base /\ Power((e + 1) + 1) = Power(e + 1) * Base
        BY <2>1, PowerFacts
  <2>4. list[k + 1] = ((v \div (p * Base)) % Base) * Base + ((v \div p) % Base)
        BY <2>1, <2>3 DEF Digit
  <2>5. acc[k + 1] = acc[k] * Base * Base + list[k + 1]
        BY <1>3, <2>1
  <2>6. acc[k] = v \div (p * Base * Base)
        BY <2>1, <2>2, <2>3
  <2>7. v \div p = (v \div (p * Base * Base)) * Base * Base
                        + (((v \div (p * Base)) % Base) * Base + ((v \div p) % Base))
        BY <2>3, LastTwoDigits
  <2> HIDE DEF p
  <2>8. acc[k + 1] = v \div p
        BY <2>4, <2>5, <2>6, <2>7
  <2> QED
        BY <2>8 DEF p, e
<1> HIDE DEF S
<1>6. n \in S
    BY <1>4, <1>5, Raising!InductionOverNat
<1>7. acc[n] = v \div Power(0)
  <2>1. 2 * (n - n) = 0
        OBVIOUS
  <2> QED
        BY <1>6, <2>1 DEF S
<1>8. v \div 1 = v
    OBVIOUS
<1> QED
    BY <1>1, <1>3, <1>7, <1>8, PowerFacts

\* What a type can tell apart is an even number of values.
LEMMA SpanIsEven ==
    ASSUME NEW dtype \in DOMAIN IntDtype
    PROVE  /\ IntDtype[dtype].count \in {1, 2, 4} /\ IntDtype[dtype].signed \in BOOLEAN
           /\ \E half \in Nat \ {0} : Span(dtype) = 2 * half
<1> DEFINE c == IntDtype[dtype].count
<1>1. c \in {1, 2, 4} /\ IntDtype[dtype].signed \in BOOLEAN
  <2>1. \/ dtype = "u16" \/ dtype = "i16" \/ dtype = "u32"
        \/ dtype = "i32" \/ dtype = "u64" \/ dtype = "i64"
        BY DEF IntDtype
  <2>2. /\ IntDtype["u16"].count = 1 /\ IntDtype["u16"].signed = FALSE
        /\ IntDtype["i16"].count = 1 /\ IntDtype["i16"].signed = TRUE
        BY DEF IntDtype
  <2>3. /\ IntDtype["u32"].count = 2 /\ IntDtype["u32"].signed = FALSE
        /\ IntDtype["i32"].count = 2 /\ IntDtype["i32"].signed = TRUE
        BY DEF IntDtype
  <2>4. /\ IntDtype["u64"].count = 4 /\ IntDtype["u64"].signed = FALSE
        /\ IntDtype["i64"].count = 4 /\ IntDtype["i64"].signed = TRUE
        BY DEF IntDtype
  <2> QED
        BY <2>1, <2>2, <2>3, <2>4
<1> HIDE DEF c
<1>2. 2 * c - 1 \in Nat /\ (2 * c - 1) + 1 = 2 * c
    BY <1>1
<1>3. Power(2 * c - 1) \in Nat \ {0} /\ Power(2 * c) = Power(2 * c - 1) * Base
    BY <1>2, PowerFacts
<1>4. PICK b \in Nat \ {0} : Base = 2 * b
  <2>1. Base = 2 * (Base \div 2) /\ Base \div 2 \in Nat \ {0}
        BY BaseIsEven
  <2> QED
        BY <2>1
<1>5. Power(2 * c) = 2 * (Power(2 * c - 1) * b) /\ Power(2 * c - 1) * b \in Nat \ {0}
    BY <1>3, <1>4
<1> QED
    BY <1>1, <1>5 DEF Span, c

Orders == {"big", "little"}

\* Put in order, the registers of a device are the words of the number.
LEMMA WordsAreInOrder ==
    ASSUME NEW dtype \in DOMAIN IntDtype, NEW value \in Int,
           NEW wordOrder \in Orders, NEW byteOrder \in Orders
    PROVE  LET n     == IntDtype[dtype].count
               regs  == DeviceRegisters(value, dtype, wordOrder, byteOrder)
               words == IF wordOrder = "big" THEN regs ELSE Reverse(regs)
               v     == value % Span(dtype)
           IN /\ DOMAIN words = 1 .. n /\ Len(words) = n
              /\ \A i \in 1 .. n :
                    Word(words[i], byteOrder)
                      = Digit(v, n, 2 * (i - 1)) * Base + Digit(v, n, 2 * (i - 1) + 1)
<1> DEFINE n     == IntDtype[dtype].count
           regs  == DeviceRegisters(value, dtype, wordOrder, byteOrder)
           words == IF wordOrder = "big" THEN regs ELSE Reverse(regs)
           v     == value % Span(dtype)
           register(i) == [j \in 1 .. 2 |-> Digit(v, n, Significance(i, j, n, wordOrder, byteOrder))]
           place(i) == IF wordOrder = "big" THEN i ELSE n - i + 1
<1>1. n \in Nat
    BY SpanIsEven
<1>2. regs = [i \in 1 .. n |-> register(i)]
    BY DEF DeviceRegisters, Digit, Span
<1> HIDE DEF n, regs, v
<1>3. DOMAIN regs = 1 .. n /\ Len(regs) = n
    BY <1>1, <1>2
<1>4. /\ DOMAIN words = 1 .. n /\ Len(words) = n
      /\ \A i \in 1 .. n : words[i] = regs[place(i)]
    BY <1>1, <1>3 DEF Reverse
<1>5. ASSUME NEW i \in 1 .. n
      PROVE  Word(words[i], byteOrder)
               = Digit(v, n, 2 * (i - 1)) * Base + Digit(v, n, 2 * (i - 1) + 1)
  <2>1. place(i) \in 1 .. n
        BY <1>1
  <2>2. words[i] = register(place(i))
        BY <1>2, <1>4, <2>1
  <2>3. Significance(place(i), 1, n, wordOrder, byteOrder)
          = IF byteOrder = "big" THEN 2 * (i - 1) ELSE 2 * (i - 1) + 1
        BY <1>1 DEF Significance
  <2>4. Significance(place(i), 2, n, wordOrder, byteOrder)
          = IF byteOrder = "big" THEN 2 * (i - 1) + 1 ELSE 2 * (i - 1)
        BY <1>1 DEF Significance
  <2>5. /\ register(place(i))[1] = Digit(v, n, Significance(place(i), 1, n, wordOrder, byteOrder))
        /\ register(place(i))[2] = Digit(v, n, Significance(place(i), 2, n, wordOrder, byteOrder))
        OBVIOUS
  <2> DEFINE word == register(place(i))
  <2> HIDE DEF word, words
  <2>6. CASE byteOrder = "big"
    <3>1. /\ word[1] = Digit(v, n, 2 * (i - 1)) /\ word[2] = Digit(v, n, 2 * (i - 1) + 1)
          BY <2>3, <2>4, <2>5, <2>6 DEF word
    <3> QED
          BY <2>2, <2>6, <3>1 DEF Word, WordBytes, word
  <2>7. CASE byteOrder # "big"
    <3>1. /\ word[2] = Digit(v, n, 2 * (i - 1)) /\ word[1] = Digit(v, n, 2 * (i - 1) + 1)
          BY <2>3, <2>4, <2>5, <2>7 DEF word
    <3> QED
          BY <2>2, <2>7, <3>1 DEF Word, WordBytes, word
  <2> QED
        BY <2>6, <2>7
<1> QED
    BY <1>4, <1>5 DEF n, regs, v

\* A remainder of a number of one type.
LEMMA TwosComplement ==
    ASSUME NEW half \in Nat \ {0}, NEW v \in 0 - 2 * half .. 2 * half - 1
    PROVE  /\ v % (2 * half) \in 0 .. 2 * half - 1
           /\ v % (2 * half) = IF v >= 0 THEN v ELSE v + 2 * half
<1>1. CASE v >= 0
    BY <1>1
<1>2. CASE v < 0
    BY <1>2
<1> QED
    BY <1>1, <1>2

\* Whatever the width, the sign, the word order and the byte order of a channel,
\* registers_to_int gives the integer whose bytes the device put in its
\* registers: no two settings of a section can be taken for one another.
THEOREM IntegerIsRead ==
    ASSUME NEW dtype \in DOMAIN IntDtype, NEW value \in Least(dtype) .. Greatest(dtype),
           NEW wordOrder \in Orders, NEW byteOrder \in Orders
    PROVE  RegistersToInt(DeviceRegisters(value, dtype, wordOrder, byteOrder),
                          dtype, wordOrder, byteOrder) = value
<1> DEFINE n      == IntDtype[dtype].count
           signed == IntDtype[dtype].signed
           regs   == DeviceRegisters(value, dtype, wordOrder, byteOrder)
           words  == IF wordOrder = "big" THEN regs ELSE Reverse(regs)
           v      == value % Span(dtype)
           list   == [i \in DOMAIN words |-> Word(words[i], byteOrder)]
<1>1. n \in Nat /\ signed \in BOOLEAN /\ Span(dtype) = Power(2 * n)
    BY SpanIsEven DEF Span
<1>2. PICK half \in Nat \ {0} : Span(dtype) = 2 * half
    BY SpanIsEven
<1>3. Span(dtype) \div 2 = half
    BY <1>2
<1>4. /\ value \in 0 - 2 * half .. 2 * half - 1
      /\ signed => value \in 0 - half .. half - 1
      /\ ~signed => value >= 0
    BY <1>1, <1>2, <1>3 DEF Least, Greatest
<1>5. v \in 0 .. 2 * half - 1 /\ v = IF value >= 0 THEN value ELSE value + 2 * half
    BY <1>2, <1>4, TwosComplement
<1>6. /\ DOMAIN words = 1 .. n /\ Len(words) = n
      /\ \A i \in 1 .. n :
            Word(words[i], byteOrder)
              = Digit(v, n, 2 * (i - 1)) * Base + Digit(v, n, 2 * (i - 1) + 1)
  <2>1. value \in Int
        BY <1>4
  <2> QED
        BY <2>1, WordsAreInOrder
<1>7. RegistersToInt(regs, dtype, wordOrder, byteOrder) = FromWords(words, byteOrder, signed)
    BY DEF RegistersToInt
<1> HIDE DEF n, signed, regs, words, v
<1>8. FoldLeft(OneMoreWord, 0, list) = v
  <2>1. v \in Nat /\ v < Power(2 * n) /\ DOMAIN list = 1 .. n
        BY <1>1, <1>2, <1>5, <1>6
  <2>2. \A i \in 1 .. n :
            list[i] = Digit(v, n, 2 * (i - 1)) * Base + Digit(v, n, 2 * (i - 1) + 1)
        BY <1>6
  <2> HIDE DEF list
  <2> QED
        BY <1>1, <2>1, <2>2, WordsAreRead
<1>9. FromWords(words, byteOrder, signed)
        = IF signed /\ v >= half THEN v - 2 * half ELSE v
    BY <1>1, <1>2, <1>3, <1>6, <1>8 DEF FromWords
<1>10. (IF signed /\ v >= half THEN v - 2 * half ELSE v) = value
    BY <1>1, <1>4, <1>5
<1> QED
    BY <1>7, <1>9, <1>10 DEF regs

-----------------------------------------------------------------------------
(***************************************************************************)
(* Part 5.  What poll_once of the SmartLogger publishes.                   *)
(***************************************************************************)

\* Numbers, the one without a denominator included.
Numbers == [n : Int, d : Nat]

LEMMA Closed ==
    ASSUME NEW N \in {Numbers, Fractions}, NEW x \in N, NEW y \in N
    PROVE  /\ Plus(x, y) \in N /\ Times(x, y) \in N /\ Magnitude(x) \in N
           /\ ~IsZero(y) => Over(x, y) \in N
<1>1. /\ x.n \in Int /\ x.d \in Nat /\ y.n \in Int /\ y.d \in Nat
      /\ N # Numbers => x.d # 0 /\ y.d # 0
      /\ \A n \in Int, d \in Nat : N = Numbers \/ d # 0 => [n |-> n, d |-> d] \in N
      /\ x = [n |-> x.n, d |-> x.d]
  <2>1. \A z \in Numbers : z.n \in Int /\ z.d \in Nat /\ z = [n |-> z.n, d |-> z.d]
        BY DEF Numbers
  <2>2. /\ \A z \in Fractions : z \in Numbers /\ z.d # 0
        /\ \A n \in Int, d \in Nat : [n |-> n, d |-> d] \in Numbers
        /\ \A n \in Int, d \in Nat : d # 0 => [n |-> n, d |-> d] \in Fractions
        BY DEF Fractions, Numbers
  <2> QED
    <3>1. CASE N = Numbers
          BY <2>1, <2>2, <3>1
    <3>2. CASE N = Fractions /\ N # Numbers
          BY <2>1, <2>2, <3>2
    <3> QED
          BY <3>1, <3>2
<1>2. \A i, j \in Int : i * j \in Int /\ i + j \in Int /\ 0 - i \in Int
    OBVIOUS
<1>3. \A i, j \in Nat : i * j \in Nat /\ (i # 0 /\ j # 0 => i * j # 0)
    OBVIOUS
<1>4. Plus(x, y) \in N /\ Times(x, y) \in N
  <2>1. /\ x.n * y.d + y.n * x.d \in Int /\ x.n * y.n \in Int /\ x.d * y.d \in Nat
        /\ N = Numbers \/ x.d * y.d # 0
        BY <1>1, <1>2, <1>3
  <2> QED
        BY <1>1, <2>1 DEF Plus, Times
<1>5. Magnitude(x) \in N
  <2>1. Magnitude(x) = [n |-> IF x.n < 0 THEN 0 - x.n ELSE x.n, d |-> x.d]
        BY <1>1 DEF Magnitude
  <2> QED
        BY <1>1, <2>1
<1>6. ASSUME ~IsZero(y) PROVE Over(x, y) \in N
  <2>1. y.n # 0 \/ N = Numbers
        BY <1>1, <1>6 DEF IsZero, IsFinite
  <2>2. CASE y.n < 0
    <3>1. /\ 0 - y.n \in Nat /\ 0 - y.n # 0 /\ 0 - x.d * y.n = x.d * (0 - y.n)
          /\ 0 - x.n * y.d \in Int
          BY <1>1, <2>2
    <3> HIDE DEF Numbers
    <3> QED
          BY <1>1, <1>3, <2>2, <3>1 DEF Over
  <2>3. CASE ~(y.n < 0)
    <3>1. y.n \in Nat /\ x.n * y.d \in Int
          BY <1>1, <2>3
    <3> QED
          BY <1>1, <1>3, <2>1, <2>3, <3>1 DEF Over
  <2> QED
        BY <2>2, <2>3
<1> QED
    BY <1>4, <1>5, <1>6

LEMMA Constants ==
    ASSUME NEW N \in {Numbers, Fractions}
    PROVE  /\ Fractions \subseteq N /\ SQRT3 \in N /\ ~IsZero(SQRT3)
           /\ \A i \in Int : Num(i) \in N /\ (i # 0 => ~IsZero(Num(i)))
           /\ NaN \in Numbers
<1>1. Fractions \subseteq N /\ NaN \in Numbers
  <2>1. Fractions \subseteq Numbers /\ NaN \in Numbers
        BY DEF Numbers, Fractions, NaN
  <2> QED
        BY <2>1
<1>2. SQRT3 \in Fractions /\ \A i \in Int : Num(i) \in Fractions
    BY DEF Fractions, SQRT3, Num
<1>3. ~IsZero(SQRT3) /\ \A i \in Int : i # 0 => ~IsZero(Num(i))
    BY DEF SQRT3, Num, IsZero
<1> QED
    BY <1>1, <1>2, <1>3

LEMMA ClosedUnderHypot ==
    ASSUME NEW N \in {Numbers, Fractions}, NEW x \in N, NEW y \in N
    PROVE  Hypot(x, y) \in N
<1>1. Magnitude(x) \in N /\ Magnitude(y) \in N
    BY Closed
<1>2. ASSUME NEW z \in N PROVE Over(z, Num(2)) \in N
  <2>1. Num(2) \in N /\ ~IsZero(Num(2))
        BY Constants
  <2> QED
        BY <2>1, Closed
<1>3. \A z, w \in N : Plus(z, w) \in N
    BY Closed
<1> QED
    BY <1>1, <1>2, <1>3 DEF Hypot

LEMMA ClosedUnderTotal ==
    ASSUME NEW N \in {Numbers, Fractions}, NEW m \in Nat, NEW list \in [1 .. m -> N]
    PROVE  Total(list) \in N
<1>1. DOMAIN list = 1 .. m /\ \A j \in 1 .. m : list[j] \in N
    OBVIOUS
<1>2. Total(list) = Adding!Fold(Num(0), list)
    BY DEF Total, FoldLeft, MapThenFoldSet, Max,
           Adding!Fold, Adding!FoldLeft, Adding!MapThenFoldSet, Adding!Max
<1>3. PICK acc : Adding!Run(acc, Num(0), list, m)
    BY <1>1, Adding!FoldSteps
<1> DEFINE S == {k \in Nat : k <= m => acc[k] \in N}
<1>4. 0 \in S
    BY <1>3, Constants DEF Adding!Run
<1>5. ASSUME NEW k \in Nat, k \in S PROVE k + 1 \in S
  <2> SUFFICES ASSUME k + 1 <= m PROVE acc[k + 1] \in N
        OBVIOUS
  <2>1. k + 1 \in 1 .. m /\ (k + 1) - 1 = k /\ k <= m
        OBVIOUS
  <2>2. acc[k + 1] = Plus(acc[k], list[k + 1]) /\ acc[k] \in N /\ list[k + 1] \in N
        BY <1>1, <1>3, <1>5, <2>1 DEF Adding!Run
  <2> QED
        BY <2>2, Closed
<1> HIDE DEF S
<1>6. m \in S
    BY <1>4, <1>5, Adding!InductionOverNat
<1> QED
    BY <1>2, <1>3, <1>6 DEF S, Adding!Run

\* What a step reads are numbers of the set N.
Reads(values, op, N) == \A key \in Inputs(op) : Get(values, key) \in N

LEMMA RatioSharesAreNumbers ==
    ASSUME NEW N \in {Numbers, Fractions}, NEW op, NEW values, StepAccepted(op),
           op.op = "ratio_split", Reads(values, op, N), NEW i \in DOMAIN op.targets
    PROVE  RatioShares(values, op)[i] \in N
<1> DEFINE m == Len(op.weights)
           total == Get(values, op.from[1])
           weights == [j \in DOMAIN op.weights |-> Magnitude(Get(values, op.weights[j]))]
           sum == Total(weights)
<1>1. /\ m \in Nat \ {0} /\ DOMAIN op.weights = 1 .. m /\ i \in 1 .. m
      /\ op.from[1] \in Inputs(op)
      /\ \A j \in 1 .. m : op.weights[j] \in Inputs(op)
  <2>1. /\ op.weights \in Seq(ToSet(op.weights)) /\ op.targets \in Seq(ToSet(op.targets))
        /\ op.from \in Seq(ToSet(op.from)) /\ ArityOk(op)
        BY DEF StepAccepted
  <2>2. Len(op.weights) = Len(op.targets) /\ Len(op.targets) >= 1 /\ Len(op.from) = 1
        BY <2>1 DEF ArityOk
  <2>3. /\ m \in Nat \ {0} /\ DOMAIN op.weights = 1 .. m /\ i \in 1 .. m
        /\ DOMAIN op.from = 1 .. 1
        BY <2>1, <2>2
  <2> QED
        BY <2>3 DEF Inputs, ToSet
<1>2. total \in N
    BY <1>1 DEF Reads
<1>3. ASSUME NEW j \in 1 .. m PROVE Magnitude(Get(values, op.weights[j])) \in N
  <2>1. Get(values, op.weights[j]) \in N
        BY <1>1 DEF Reads
  <2> QED
        BY <2>1, Closed
<1>4. weights \in [1 .. m -> N]
    BY <1>1, <1>3
<1>5. RatioShares(values, op)[i] = IF ~IsFinite(sum) \/ IsZero(sum) THEN Over(total, Num(Len(weights)))
                                   ELSE Over(Times(total, weights[i]), sum)
    BY <1>1 DEF RatioShares
<1>6. Len(weights) = m /\ DOMAIN weights = 1 .. m
    BY <1>1
<1> HIDE DEF m, total, weights
<1>7. sum \in N /\ weights[i] \in N
    BY <1>1, <1>4, ClosedUnderTotal
<1> HIDE DEF sum
<1>8. Over(total, Num(m)) \in N
  <2>1. Num(m) \in N /\ ~IsZero(Num(m))
        BY <1>1, Constants
  <2> QED
        BY <1>2, <2>1, Closed
<1>9. ~IsZero(sum) => Over(Times(total, weights[i]), sum) \in N
    BY <1>2, <1>7, Closed
<1> QED
    BY <1>5, <1>6, <1>8, <1>9

\* What each kind of step writes.
LEMMA WrittenCases ==
    ASSUME NEW values, NEW op, NEW i, NEW before
    PROVE  LET written == Written(values, [of |-> op, index |-> i, before |-> before])
               x == Get(values, op.from[2 * i - 1])
               y == Get(values, op.from[2 * i])
               source == Get(before, op.from[1])
           IN /\ op.op = "constant" => written = op.value
              /\ op.op = "copy" => written = source
              /\ op.op = "split_equal" => written = Over(source, Num(Len(op.targets)))
              /\ op.op = "phase_from_line" => written = Over(Get(values, op.from[i]), SQRT3)
              /\ op.op = "hypot" => written = Hypot(x, y)
              /\ op.op = "pf_from_p_s" => written = PowerFactor(x, y)
              /\ op.op = "ratio_split" => written = RatioShares(before, op)[i]
BY DEF Written

\* The inputs a step reads are where its arity says.
LEMMA ArityGives ==
    ASSUME NEW op, StepAccepted(op), NEW i \in DOMAIN op.targets
    PROVE  /\ op.targets \in Seq(ToSet(op.targets)) /\ DOMAIN op.targets = 1 .. Len(op.targets)
           /\ Len(op.targets) \in Nat \ {0} /\ i \in 1 .. Len(op.targets)
           /\ op.op \in {"copy", "split_equal", "ratio_split"} => op.from[1] \in Inputs(op)
           /\ op.op = "phase_from_line" => op.from[i] \in Inputs(op)
           /\ op.op \in {"hypot", "pf_from_p_s"} =>
                op.from[2 * i - 1] \in Inputs(op) /\ op.from[2 * i] \in Inputs(op)
           /\ op.op = "ratio_split" => DOMAIN op.weights = 1 .. Len(op.targets)
<1> DEFINE n == Len(op.targets)
<1>1. /\ op.targets \in Seq(ToSet(op.targets)) /\ op.from \in Seq(ToSet(op.from))
      /\ op.weights \in Seq(ToSet(op.weights)) /\ ArityOk(op)
    BY DEF StepAccepted
<1>2. n \in Nat /\ DOMAIN op.targets = 1 .. n /\ n >= 1
    BY <1>1 DEF ArityOk
<1>3. DOMAIN op.from = 1 .. Len(op.from)
    BY <1>1
<1> HIDE DEF n
<1>4. /\ op.op \in {"copy", "split_equal", "ratio_split"} => Len(op.from) = 1
      /\ op.op = "phase_from_line" => Len(op.from) = n
      /\ op.op \in {"hypot", "pf_from_p_s"} => Len(op.from) = 2 * n
    BY <1>1 DEF ArityOk, n
<1>5. \A j \in DOMAIN op.from : op.from[j] \in Inputs(op)
    BY DEF Inputs, ToSet
<1>6. op.op = "ratio_split" => DOMAIN op.weights = 1 .. n
    BY <1>1 DEF ArityOk, n
<1>7. op.op \in {"copy", "split_equal", "ratio_split"} => op.from[1] \in Inputs(op)
    BY <1>3, <1>4, <1>5
<1>8. op.op = "phase_from_line" => op.from[i] \in Inputs(op)
    BY <1>2, <1>3, <1>4, <1>5
<1>9. op.op \in {"hypot", "pf_from_p_s"} =>
          op.from[2 * i - 1] \in Inputs(op) /\ op.from[2 * i] \in Inputs(op)
    BY <1>2, <1>3, <1>4, <1>5
<1> QED
    BY <1>1, <1>2, <1>6, <1>7, <1>8, <1>9 DEF n

LEMMA WrittenIsNumber ==
    ASSUME NEW N \in {Numbers, Fractions}, NEW op, StepAccepted(op), NEW i \in DOMAIN op.targets,
           NEW values, NEW before, Reads(values, op, N), Reads(before, op, N)
    PROVE  Written(values, Target(before, op, i)) \in N
<1> DEFINE w == Written(values, Target(before, op, i))
           n == Len(op.targets)
<1>1. op.op \in {"constant", "copy", "split_equal", "phase_from_line", "hypot",
                 "ratio_split", "pf_from_p_s"}
    BY DEF StepAccepted
<1>2. CASE op.op = "constant"
  <2>1. w = op.value
        BY <1>2, WrittenCases DEF Target
  <2>2. op.value \in Fractions
        BY <1>2 DEF StepAccepted
  <2> QED
        BY <2>1, <2>2, Constants
<1>3. CASE op.op = "copy"
  <2>1. w = Get(before, op.from[1])
        BY <1>3, WrittenCases DEF Target
  <2> QED
        BY <1>3, <2>1, ArityGives DEF Reads
<1>4. CASE op.op = "split_equal"
  <2>1. w = Over(Get(before, op.from[1]), Num(n))
        BY <1>4, WrittenCases DEF Target
  <2>2. Get(before, op.from[1]) \in N
        BY <1>4, ArityGives DEF Reads
  <2>3. Num(n) \in N /\ ~IsZero(Num(n))
        BY ArityGives, Constants
  <2> QED
        BY <2>1, <2>2, <2>3, Closed
<1>5. CASE op.op = "phase_from_line"
  <2>1. w = Over(Get(values, op.from[i]), SQRT3)
        BY <1>5, WrittenCases DEF Target
  <2>2. Get(values, op.from[i]) \in N
        BY <1>5, ArityGives DEF Reads
  <2>3. SQRT3 \in N /\ ~IsZero(SQRT3)
        BY Constants
  <2> QED
        BY <2>1, <2>2, <2>3, Closed
<1>6. op.op \in {"hypot", "pf_from_p_s"} =>
          Get(values, op.from[2 * i - 1]) \in N /\ Get(values, op.from[2 * i]) \in N
    BY ArityGives DEF Reads
<1>7. CASE op.op = "hypot"
  <2>1. w = Hypot(Get(values, op.from[2 * i - 1]), Get(values, op.from[2 * i]))
        BY <1>7, WrittenCases DEF Target
  <2> QED
        BY <1>6, <1>7, <2>1, ClosedUnderHypot
<1>8. CASE op.op = "pf_from_p_s"
  <2>1. w = PowerFactor(Get(values, op.from[2 * i - 1]), Get(values, op.from[2 * i]))
        BY <1>8, WrittenCases DEF Target
  <2>2. ASSUME NEW x \in N, NEW y \in N PROVE PowerFactor(x, y) \in N
    <3>1. Num(1) \in N
          BY Constants
    <3>2. ~IsZero(y) => Over(x, y) \in N
          BY Closed
    <3> QED
          BY <3>1, <3>2 DEF PowerFactor
  <2> QED
        BY <1>6, <1>8, <2>1, <2>2
<1>9. CASE op.op = "ratio_split"
  <2>1. w = RatioShares(before, op)[i]
        BY <1>9, WrittenCases DEF Target
  <2> QED
        BY <1>9, <2>1, RatioSharesAreNumbers
<1> QED
    BY <1>1, <1>2, <1>3, <1>4, <1>5, <1>7, <1>8, <1>9

\* The first j targets of a step.
Assigned(op, j) == {op.targets[i] : i \in 1 .. j}

\* Assignments add their keys.
LEMMA AssignsGrow ==
    ASSUME NEW values, NEW op, op.targets \in Seq(ToSet(op.targets)),
           NEW acc, Assigns(acc, values, op), NEW j \in 0 .. Len(op.targets)
    PROVE  DOMAIN acc[j] = DOMAIN values \cup Assigned(op, j)
<1> DEFINE n == Len(op.targets)
           keys(k) == DOMAIN values \cup Assigned(op, k)
           S == {k \in Nat : k <= n => DOMAIN acc[k] = keys(k)}
<1>1. n \in Nat /\ j \in Nat /\ j <= n
    BY StepRun
<1>2. /\ acc[0] = values
      /\ \A i \in 1 .. n : acc[i] = Assign(acc[i - 1], Target(values, op, i))
    BY DEF Assigns
<1> HIDE DEF n
<1>3. 0 \in S
    BY <1>2 DEF Assigned
<1>4. ASSUME NEW k \in Nat, k \in S PROVE k + 1 \in S
  <2> SUFFICES ASSUME k + 1 <= n PROVE DOMAIN acc[k + 1] = keys(k + 1)
        OBVIOUS
  <2>1. /\ k + 1 \in 1 .. n /\ (k + 1) - 1 = k /\ k <= n
        /\ \A i : i \in 1 .. k + 1 <=> i \in 1 .. k \/ i = k + 1
        BY <1>1
  <2>2. acc[k + 1] = Assign(acc[k], Target(values, op, k + 1))
        BY <1>2, <2>1
  <2>3. DOMAIN acc[k + 1] = DOMAIN acc[k] \cup {op.targets[k + 1]}
        BY <2>2 DEF Assign, Put, Target
  <2>4. DOMAIN acc[k] = keys(k)
        BY <1>4, <2>1
  <2>5. keys(k + 1) = keys(k) \cup {op.targets[k + 1]}
        BY <2>1 DEF Assigned
  <2> QED
        BY <2>3, <2>4, <2>5
<1> HIDE DEF S
<1>5. j \in S
    BY <1>1, <1>3, <1>4, Assigning!InductionOverNat
<1> QED
    BY <1>1, <1>5 DEF S

\* All values are numbers of the set N.
All(values, N) == \A key \in DOMAIN values : values[key] \in N

\* The inputs of a step are there, or what is not is no more than a number.
Ready(values, op, N) == N = Numbers \/ Inputs(op) \subseteq DOMAIN values

LEMMA ReadyReads ==
    ASSUME NEW N \in {Numbers, Fractions}, NEW op, NEW values, NEW more,
           Ready(values, op, N), All(more, N), DOMAIN values \subseteq DOMAIN more
    PROVE  Reads(more, op, N)
<1>1. ASSUME NEW key \in Inputs(op) PROVE Get(more, key) \in N
  <2>1. CASE key \in DOMAIN more
        BY <2>1 DEF Get, All
  <2>2. CASE key \notin DOMAIN more
        BY <1>1, <2>2, Constants DEF Get, Ready
  <2> QED
        BY <2>1, <2>2
<1> QED
    BY <1>1 DEF Reads

\* Numbers stay numbers while the targets of a step are assigned.
LEMMA AssignsStayNumbers ==
    ASSUME NEW N \in {Numbers, Fractions}, NEW values, NEW op, StepAccepted(op),
           All(values, N), Ready(values, op, N),
           NEW acc, Assigns(acc, values, op), NEW j \in 0 .. Len(op.targets)
    PROVE  All(acc[j], N)
<1> DEFINE n == Len(op.targets)
           S == {k \in Nat : k <= n => All(acc[k], N)}
<1>1. op.targets \in Seq(ToSet(op.targets))
    BY DEF StepAccepted
<1>2. n \in Nat /\ j \in Nat /\ j <= n /\ DOMAIN op.targets = 1 .. n
    BY <1>1, StepRun
<1>3. /\ acc[0] = values
      /\ \A i \in 1 .. n : acc[i] = Assign(acc[i - 1], Target(values, op, i))
      /\ \A k \in 0 .. n : DOMAIN values \subseteq DOMAIN acc[k]
    BY <1>1, AssignsGrow DEF Assigns
<1> HIDE DEF n
<1>4. 0 \in S
    BY <1>3
<1>5. ASSUME NEW k \in Nat, k \in S PROVE k + 1 \in S
  <2> SUFFICES ASSUME k + 1 <= n PROVE All(acc[k + 1], N)
        OBVIOUS
  <2>1. k + 1 \in 1 .. n /\ (k + 1) - 1 = k /\ k \in 0 .. n
        BY <1>2
  <2>2. acc[k + 1] = Assign(acc[k], Target(values, op, k + 1))
        BY <1>3, <2>1
  <2>3. All(acc[k], N) /\ DOMAIN values \subseteq DOMAIN acc[k]
        BY <1>3, <1>5, <2>1
  <2>4. Reads(values, op, N) /\ Reads(acc[k], op, N)
        BY <2>3, ReadyReads
  <2>5. Written(acc[k], Target(values, op, k + 1)) \in N
        BY <1>2, <2>1, <2>4, WrittenIsNumber
  <2> QED
        BY <2>2, <2>3, <2>5 DEF All, Assign, Put
<1> HIDE DEF S
<1>6. j \in S
    BY <1>2, <1>4, <1>5, Assigning!InductionOverNat
<1> QED
    BY <1>2, <1>6 DEF S

\* A step adds its targets and leaves numbers.
LEMMA StepGrows ==
    ASSUME NEW values, NEW op, op.targets \in Seq(ToSet(op.targets))
    PROVE  /\ DOMAIN Step(values, op) = DOMAIN values \cup ToSet(op.targets)
           /\ \A N \in {Numbers, Fractions} :
                StepAccepted(op) /\ All(values, N) /\ Ready(values, op, N)
                  => All(Step(values, op), N)
<1> DEFINE n == Len(op.targets)
<1>1. n \in Nat /\ DOMAIN op.targets = 1 .. n /\ n \in 0 .. n
    BY StepRun
<1>2. PICK acc : Assigns(acc, values, op)
    BY StepRun
<1>3. Step(values, op) = acc[n]
    BY <1>2 DEF Assigns
<1>4. DOMAIN acc[n] = DOMAIN values \cup Assigned(op, n)
  <2>1. \A j \in 0 .. n : DOMAIN acc[j] = DOMAIN values \cup Assigned(op, j)
        BY <1>2, AssignsGrow
  <2> HIDE DEF n
  <2> QED
        BY <1>1, <2>1
<1>5. Assigned(op, n) = ToSet(op.targets)
    BY <1>1 DEF ToSet, Assigned
<1>6. ASSUME NEW N \in {Numbers, Fractions},
             StepAccepted(op), All(values, N), Ready(values, op, N)
      PROVE  All(acc[n], N)
    BY <1>1, <1>2, <1>6, AssignsStayNumbers
<1> QED
    BY <1>3, <1>4, <1>5, <1>6

\* What steps before step k + 1 have written.
Before(ops, k) == UNION {ToSet(ops[l].targets) : l \in {l \in DOMAIN ops : l <= k}}

\* After k steps the keys are the points and what these steps wrote, and what was
\* a number is one.
LEMMA DerivesGrow ==
    ASSUME NEW values, NEW ops, Listed(ops), NEW acc, Derives(acc, values, ops),
           NEW k \in 0 .. Len(ops)
    PROVE  /\ DOMAIN acc[k] = DOMAIN values \cup Before(ops, k)
           /\ \A N \in {Numbers, Fractions} :
                 /\ All(values, N)
                 /\ \A l \in DOMAIN ops :
                       /\ StepAccepted(ops[l])
                       /\ N = Numbers \/ Inputs(ops[l]) \subseteq DOMAIN values \cup Before(ops, l - 1)
                 => All(acc[k], N)
<1> DEFINE n == Len(ops)
           keys(j) == DOMAIN values \cup Before(ops, j)
           Fed(N) == /\ All(values, N)
                     /\ \A l \in DOMAIN ops : /\ StepAccepted(ops[l])
                                              /\ N = Numbers \/ Inputs(ops[l]) \subseteq keys(l - 1)
           Good(j) == /\ DOMAIN acc[j] = keys(j)
                      /\ \A N \in {Numbers, Fractions} : Fed(N) => All(acc[j], N)
           S == {j \in Nat : j <= n => Good(j)}
<1>1. /\ n \in Nat /\ DOMAIN ops = 1 .. n /\ k \in Nat /\ k <= n
      /\ \A l \in 1 .. n : ops[l].targets \in Seq(ToSet(ops[l].targets))
  <2>1. /\ n \in Nat /\ DOMAIN ops = 1 .. n
        /\ \A l \in 1 .. n : ops[l].targets \in Seq(ToSet(ops[l].targets))
        BY DeriveRun
  <2> QED
        BY <2>1
<1>2. acc[0] = values /\ \A l \in 1 .. n : acc[l] = Step(acc[l - 1], ops[l])
    BY DEF Derives
<1> HIDE DEF n
<1>3. 0 \in S
  <2>1. Before(ops, 0) = {}
        BY <1>1 DEF Before
  <2> QED
        BY <1>2, <2>1
<1>4. ASSUME NEW j \in Nat, j \in S PROVE j + 1 \in S
  <2> SUFFICES ASSUME j + 1 <= n PROVE Good(j + 1)
        OBVIOUS
  <2>1. /\ j + 1 \in 1 .. n /\ (j + 1) - 1 = j /\ j <= n
        /\ \A l \in 1 .. n : l <= j + 1 <=> l <= j \/ l = j + 1
        BY <1>1
  <2>2. Good(j) /\ acc[j + 1] = Step(acc[j], ops[j + 1])
        BY <1>2, <1>4, <2>1
  <2>3. DOMAIN acc[j + 1] = keys(j) \cup ToSet(ops[j + 1].targets)
        BY <1>1, <2>1, <2>2, StepGrows
  <2>4. Before(ops, j + 1) = Before(ops, j) \cup ToSet(ops[j + 1].targets)
        BY <1>1, <2>1 DEF Before
  <2>5. ASSUME NEW N \in {Numbers, Fractions}, Fed(N) PROVE All(acc[j + 1], N)
    <3>1. Ready(acc[j], ops[j + 1], N) /\ StepAccepted(ops[j + 1]) /\ All(acc[j], N)
          BY <1>1, <2>1, <2>2, <2>5 DEF Ready
    <3> QED
          BY <1>1, <2>1, <2>2, <3>1, StepGrows
  <2> QED
        BY <2>3, <2>4, <2>5
<1> HIDE DEF S
<1>5. k \in S
    BY <1>1, <1>3, <1>4, Deriving!InductionOverNat
<1>6. Good(k)
    BY <1>1, <1>5 DEF S
<1> QED
    BY <1>6

-----------------------------------------------------------------------------
\* The inductive invariant: what is served was made of what the device held.
ServedInv ==
    /\ map \in Maps
    /\ Polled => meant \in Holdings(map) /\ served = Sample(Values(meant))

LEMMA InitServed == HuaweiInit => ServedInv
BY DEF HuaweiInit, ServedInv, Polled

LEMMA StepServed == ServedInv /\ [HuaweiNext]_huaweiVars => ServedInv'
<1> SUFFICES ASSUME ServedInv, [HuaweiNext]_huaweiVars PROVE ServedInv'
    OBVIOUS
<1>1. CASE Poll
  <2>1. PICK held \in Holdings(map) :
            /\ meant' = held /\ served' = Sample(Values(held)) /\ map' = map
        BY <1>1 DEF Poll
  <2>2. Values(held)' = Values(held)
        BY <2>1 DEF Values, Decode, MapPoints
  <2>3. Sample(Values(meant))' = Sample(Values(held))
        BY <2>1 DEF Sample, Values, Decode, MapPoints
  <2> QED
        BY <2>1, <2>3 DEF ServedInv
<1>2. CASE UNCHANGED huaweiVars
  <2>1. Sample(Values(meant))' = Sample(Values(meant))
        BY <1>2 DEF huaweiVars, Sample, Values, Decode, MapPoints
  <2> QED
        BY <1>2, <2>1 DEF huaweiVars, ServedInv, Polled
<1> QED
    BY <1>1, <1>2 DEF HuaweiNext

\* The invariant holds throughout.
THEOREM ServedInvariance == HuaweiSpec => []ServedInv
BY InitServed, StepServed, PTL DEF HuaweiSpec

LEMMA MapsAreListed ==
    ASSUME map \in Maps
    PROVE  /\ Listed(map.derive) /\ \A op \in ToSet(map.derive) : StepAccepted(op)
           /\ \A l \in DOMAIN map.derive : StepAccepted(map.derive[l])
<1>1. /\ map.derive \in Seq(ToSet(map.derive))
      /\ \A op \in ToSet(map.derive) : StepAccepted(op)
    BY MapsAccepted
<1>2. \A op \in ToSet(map.derive) : op.targets \in Seq(ToSet(op.targets))
    BY <1>1 DEF StepAccepted
<1>3. \A l \in DOMAIN map.derive : map.derive[l] \in ToSet(map.derive)
    BY DEF ToSet
<1> QED
    BY <1>1, <1>2, <1>3 DEF Listed

\* Zeroing keeps keys, and what it leaves is finite.
LEMMA Zeroed ==
    ASSUME NEW values
    PROVE  /\ DOMAIN ZeroInvalid(values) = DOMAIN values
           /\ \A key \in DOMAIN values :
                 /\ IsFinite(ZeroInvalid(values)[key])
                 /\ ZeroInvalid(values)[key] = IF IsFinite(values[key]) THEN values[key] ELSE Num(0)
           /\ \A N \in {Numbers, Fractions} : All(values, N) => All(ZeroInvalid(values), Fractions)
<1>1. IsFinite(Num(0)) /\ Num(0) \in Fractions
    BY Constants DEF IsFinite, Num
<1>2. \A x \in Numbers : IsFinite(x) => x \in Fractions
    BY DEF Numbers, Fractions, IsFinite
<1>3. Fractions \subseteq Numbers
    BY Constants
<1> QED
    BY <1>1, <1>2, <1>3 DEF ZeroInvalid, All

\* What a channel reads is what the device held there.
LEMMA ChannelIsRead ==
    ASSUME map \in Maps, NEW held \in Holdings(map), NEW key \in MapPoints
    PROVE  LET point == map.points[key]
           IN /\ key \in DOMAIN Values(held)
              /\ Values(held)[key] = IF held[key] = Greatest(point.dtype) THEN NaN
                                     ELSE Scaled(held[key], point)
              /\ Scaled(held[key], point) \in Fractions
<1> DEFINE point == map.points[key]
<1>1. /\ map.wordOrder \in Orders /\ map.byteOrder \in Orders
      /\ point.dtype \in DOMAIN IntDtype
      /\ point.scale \in Fractions /\ point.offset \in Fractions /\ point.sign \in Int
    BY MapsAccepted DEF MapPoints, Orders
<1>2. held[key] \in Least(point.dtype) .. Greatest(point.dtype)
    BY HoldingsFit DEF MapPoints
<1>3. Values(held)[key] =
        Decode(DeviceRegisters(held[key], point.dtype, map.wordOrder, map.byteOrder), point)
    BY DEF Values
<1>4. IntSentinel(point.dtype) = Greatest(point.dtype)
    BY DEF IntSentinel, Greatest
<1> HIDE DEF point
<1>5. RegistersToInt(DeviceRegisters(held[key], point.dtype, map.wordOrder, map.byteOrder),
                     point.dtype, map.wordOrder, map.byteOrder) = held[key]
    BY <1>1, <1>2, IntegerIsRead
<1>6. Values(held)[key] = IF held[key] = Greatest(point.dtype) THEN NaN
                          ELSE Scaled(held[key], point)
    BY <1>3, <1>4, <1>5 DEF Decode, IntIsInvalid
<1>7. held[key] * point.sign \in Int
  <2>1. held[key] \in Int
    <3>1. PICK half \in Nat \ {0} : Span(point.dtype) = 2 * half
          BY <1>1, SpanIsEven
    <3>2. Least(point.dtype) \in Int /\ Greatest(point.dtype) \in Int
          BY <1>1, <3>1, SpanIsEven DEF Least, Greatest
    <3> QED
          BY <1>2, <3>2
  <2> QED
        BY <1>1, <2>1
<1>8. Num(held[key] * point.sign) \in Fractions
    BY <1>7, Constants
<1>9. Times(Num(held[key] * point.sign), point.scale) \in Fractions
    BY <1>1, <1>8, Closed
<1>10. Scaled(held[key], point) \in Fractions
    BY <1>1, <1>9, Closed DEF Scaled
<1>11. key \in DOMAIN Values(held)
    BY DEF Values
<1> QED
    BY <1>6, <1>10, <1>11 DEF point

\* poll_once before the aliases are added: what is derived, and that scrubbed.
Input(held) == ZeroInvalid(Values(held))
Output(held) == ApplyDerive(Input(held), map.derive)

LEMMA SampleIs ==
    ASSUME NEW held
    PROVE  /\ Sample(Values(held)) = ComputeDerived(ZeroInvalid(Output(held)))
           /\ DOMAIN Sample(Values(held)) = DOMAIN Output(held) \cup Aliases
           /\ \A key \in DOMAIN Output(held) : key \notin Aliases =>
                Sample(Values(held))[key] = ZeroInvalid(Output(held))[key]
<1>1. Sample(Values(held)) = ComputeDerived(ZeroInvalid(Output(held)))
    BY DEF Sample, Output, Input
<1>2. DOMAIN ZeroInvalid(Output(held)) = DOMAIN Output(held)
    BY Zeroed
<1>3. \A v : DOMAIN ComputeDerived(v) = DOMAIN v \cup Aliases
    BY DEF ComputeDerived, Put, Aliases
<1> QED
    BY <1>1, <1>2, <1>3, AliasesAreAdded

\* The values a section is derived from are fractions.
LEMMA InputsAreNumbers ==
    ASSUME map \in Maps, NEW held \in Holdings(map)
    PROVE  DOMAIN Input(held) = MapPoints /\ All(Input(held), Fractions)
<1>1. DOMAIN Values(held) = MapPoints
    BY DEF Values
<1>2. All(Values(held), Numbers)
    BY <1>1, ChannelIsRead, Constants DEF All
<1> QED
    BY <1>1, <1>2, Zeroed DEF Input

\* Whatever the width and the orders of a section, what poll_once publishes for a
\* point is what the device held, scaled and signed; only the type maximum reads
\* as 0.0 (codec.py:100, huawei_poller.py:93).
THEOREM MeantIsServed == HuaweiSpec => []SampleIsMeant
<1>1. ServedInv => SampleIsMeant
  <2> SUFFICES ASSUME ServedInv, Polled, NEW key \in Measured(MapPoints, map.derive)
               PROVE  LET point == map.points[key]
                      IN Same(served[key], IF meant[key] = Greatest(point.dtype) THEN Num(0)
                                           ELSE Scaled(meant[key], point))
        BY DEF SampleIsMeant
  <2> DEFINE point == map.points[key]
             right == IF meant[key] = Greatest(point.dtype) THEN Num(0) ELSE Scaled(meant[key], point)
  <2>1. /\ map \in Maps /\ meant \in Holdings(map) /\ served = Sample(Values(meant))
        /\ key \in MapPoints /\ key \notin Derived(map.derive) /\ key \notin Aliases
        BY DEF ServedInv, Measured
  <2>2. /\ key \in DOMAIN Values(meant)
        /\ Values(meant)[key] = IF meant[key] = Greatest(point.dtype) THEN NaN
                                ELSE Scaled(meant[key], point)
        /\ Scaled(meant[key], point) \in Fractions
        BY <2>1, ChannelIsRead
  <2> HIDE DEF point
  <2>3. /\ ~IsFinite(NaN)
        /\ \A x \in Fractions : IsFinite(x) /\ x.n \in Int /\ x.d \in Int
        BY DEF NaN, IsFinite, Fractions
  <2>4. right \in Fractions
        BY <2>2, Constants
  <2>5. key \in DOMAIN Input(meant) /\ Input(meant)[key] = right
        BY <2>2, <2>3, Zeroed DEF Input
  <2> HIDE DEF right
  <2>6. SameAt(Output(meant), Input(meant), key)
        BY <2>1, MapsAreListed, MeasuredIsKept DEF Output
  <2>7. key \in DOMAIN Output(meant) /\ Output(meant)[key] = right
        BY <2>5, <2>6 DEF SameAt
  <2>8. ZeroInvalid(Output(meant))[key] = right
        BY <2>3, <2>4, <2>7, Zeroed
  <2>9. served[key] = right
        BY <2>1, <2>7, <2>8, SampleIs
  <2>10. Same(served[key], right)
        BY <2>3, <2>4, <2>9 DEF Same
  <2> QED
        BY <2>10 DEF right, point
<1> QED
    BY <1>1, ServedInvariance, PTL

\* update_datastore never refuses a sample of poll_once: whatever channels are
\* lost, every key the outputs need has a finite value (huawei_poller.py:215).
THEOREM NeededStayFinite == HuaweiSpec => []NeededAreFinite
<1>1. ServedInv => NeededAreFinite
  <2> SUFFICES ASSUME ServedInv, Polled, NEW key \in Needed
               PROVE  key \in DOMAIN served /\ IsFinite(served[key])
        BY DEF NeededAreFinite
  <2>1. /\ map \in Maps /\ meant \in Holdings(map) /\ served = Sample(Values(meant))
        /\ Needed \subseteq MapPoints \cup Derived(map.derive) \cup Aliases
        BY MapsAccepted DEF ServedInv, MapPoints
  <2> DEFINE out == Output(meant)
             ops == map.derive
  <2>2. PICK acc : Derives(acc, Input(meant), ops)
        BY <2>1, MapsAreListed, DeriveRun
  <2>3. /\ Len(ops) \in Nat /\ DOMAIN ops = 1 .. Len(ops) /\ out = acc[Len(ops)]
        BY <2>1, <2>2, MapsAreListed, DeriveRun DEF Derives, Output
  <2>4. /\ DOMAIN acc[Len(ops)] = DOMAIN Input(meant) \cup Before(ops, Len(ops))
        /\ All(acc[Len(ops)], Numbers)
    <3>1. All(Input(meant), Numbers)
          BY <2>1, InputsAreNumbers, Constants DEF All
    <3>2. \A k \in 0 .. Len(ops) : /\ DOMAIN acc[k] = DOMAIN Input(meant) \cup Before(ops, k)
                                   /\ All(acc[k], Numbers)
          BY <2>1, <2>2, <3>1, MapsAreListed, DerivesGrow
    <3> HIDE DEF ops
    <3> QED
          BY <2>3, <3>2
  <2>5. Before(ops, Len(ops)) = Derived(ops)
        BY <2>3 DEF Before, Derived, ToSet
  <2>6. DOMAIN out = MapPoints \cup Derived(ops) /\ All(out, Numbers)
        BY <2>1, <2>3, <2>4, <2>5, InputsAreNumbers
  <2> HIDE DEF out, ops
  <2>7. key \in DOMAIN served
        BY <2>1, <2>6, SampleIs DEF out, ops
  <2>8. /\ DOMAIN ZeroInvalid(out) = DOMAIN out /\ All(ZeroInvalid(out), Fractions)
        BY <2>6, Zeroed
  <2>9. CASE key \notin Aliases
    <3>1. key \in DOMAIN out
          BY <2>1, <2>6, <2>9 DEF ops
    <3>2. served[key] = ZeroInvalid(out)[key]
          BY <2>1, <2>9, <3>1, SampleIs DEF out
    <3> QED
          BY <2>7, <3>1, <3>2, Zeroed
  <2>10. CASE key \in Aliases
    <3> DEFINE zeroed == ZeroInvalid(out)
               energy(k) == IF k \in DOMAIN zeroed THEN zeroed[k] ELSE Num(0)
    <3>1. \A k : energy(k) \in Fractions
          BY <2>8, Constants DEF All
    <3> HIDE DEF zeroed
    <3>2. \A v, k, x : Put(v, k, x)[k] = x /\ \A l \in DOMAIN v : l # k => Put(v, k, x)[l] = v[l]
          BY DEF Put
    <3>3. \A v, k, x : k \in DOMAIN Put(v, k, x) /\ DOMAIN v \subseteq DOMAIN Put(v, k, x)
          BY DEF Put
    <3>4. \/ served[key] = Plus(energy("imp_energy_total"), energy("exp_energy_total"))
          \/ served[key] = energy("imp_energy_total")
          \/ served[key] = energy("exp_energy_total")
      <4>1. served = ComputeDerived(zeroed)
            BY <2>1, SampleIs DEF zeroed, out
      <4> HIDE DEF energy
      <4>2. ComputeDerived(zeroed) =
              Put(Put(Put(zeroed, "active_energy_total",
                          Plus(energy("imp_energy_total"), energy("exp_energy_total"))),
                      "net_imp_energy_total", energy("imp_energy_total")),
                  "net_exp_energy_total", energy("exp_energy_total"))
            BY DEF ComputeDerived, energy
      <4> QED
            BY <2>10, <3>2, <3>3, <4>1, <4>2 DEF Aliases
    <3>5. served[key] \in Fractions
      <4>1. Plus(energy("imp_energy_total"), energy("exp_energy_total")) \in Fractions
            BY <3>1, Closed
      <4> QED
            BY <3>1, <3>4, <4>1
    <3> QED
          BY <2>7, <3>5 DEF Fractions, IsFinite
  <2> QED
        BY <2>7, <2>9, <2>10
<1> QED
    BY <1>1, ServedInvariance, PTL

-----------------------------------------------------------------------------
(* Derived phases and power factors.                                       *)

LEMMA ProductsOrder ==
    ASSUME NEW a \in Int, NEW b \in Int, NEW c \in Nat, a <= b
    PROVE  a * c <= b * c
OBVIOUS

LEMMA MagnitudeIs ==
    ASSUME NEW x \in Fractions
    PROVE  /\ Magnitude(x) \in AtLeastZero /\ Magnitude(x).d = x.d
           /\ Magnitude(x).n = IF x.n < 0 THEN 0 - x.n ELSE x.n
<1>1. x.n \in Int /\ x.d \in Nat \ {0} /\ x = [n |-> x.n, d |-> x.d]
    BY DEF Fractions
<1>2. Magnitude(x) = [n |-> IF x.n < 0 THEN 0 - x.n ELSE x.n, d |-> x.d]
    BY <1>1 DEF Magnitude
<1>3. (IF x.n < 0 THEN 0 - x.n ELSE x.n) \in Nat
    BY <1>1
<1> QED
    BY <1>1, <1>2, <1>3 DEF AtLeastZero

\* The larger of two magnitudes and half the other is at least both of them.
LEMMA LargerAndHalf ==
    ASSUME NEW x \in AtLeastZero, NEW y \in AtLeastZero, AtMost(y, x)
    PROVE  LET h == Plus(x, Over(y, Num(2)))
           IN h \in AtLeastZero /\ AtMost(x, h) /\ AtMost(y, h)
<1> DEFINE h == Plus(x, Over(y, Num(2)))
           u == y.n * x.d
           v == x.n * y.d
           e == x.d * y.d
<1>1. /\ x.n \in Nat /\ y.n \in Nat /\ x.d \in Nat \ {0} /\ y.d \in Nat \ {0}
    BY DEF AtLeastZero
<1>2. Over(y, Num(2)) = [n |-> y.n, d |-> 2 * y.d]
    BY <1>1 DEF Over, Num
<1>3. h = [n |-> x.n * (2 * y.d) + y.n * x.d, d |-> x.d * (2 * y.d)]
    BY <1>2 DEF Plus
<1>4. u \in Nat /\ v \in Nat /\ e \in Nat \ {0} /\ u <= v
  <2>1. u <= v
        BY DEF AtMost
  <2> QED
        BY <1>1, <2>1, ProductIsPositive
<1>5. x.n * (2 * y.d) + y.n * x.d = 2 * v + u /\ x.d * (2 * y.d) = 2 * e
    BY <1>1
<1>6. h = [n |-> 2 * v + u, d |-> 2 * e]
    BY <1>3, <1>5
<1>7. x.n * (2 * e) = (2 * v) * x.d /\ y.n * (2 * e) = (2 * u) * y.d
    BY <1>1
<1> HIDE DEF h, u, v, e
<1>8. 2 * v + u \in Nat /\ 2 * e \in Nat \ {0} /\ 2 * v <= 2 * v + u /\ 2 * u <= 2 * v + u
    BY <1>4
<1>9. (2 * v) * x.d <= (2 * v + u) * x.d /\ (2 * u) * y.d <= (2 * v + u) * y.d
    BY <1>1, <1>4, <1>8, ProductsOrder
<1>10. h \in AtLeastZero
    BY <1>6, <1>8 DEF AtLeastZero
<1>11. AtMost(x, h) /\ AtMost(y, h)
    BY <1>6, <1>7, <1>9 DEF AtMost
<1> QED
    BY <1>10, <1>11 DEF h

\* An apparent power is at least the magnitude of what it is made of.
LEMMA HypotBounds ==
    ASSUME NEW a \in Fractions, NEW b \in Fractions, NEW leg \in {a, b}
    PROVE  Hypot(a, b) \in AtLeastZero /\ AtMost(Magnitude(leg), Hypot(a, b))
<1> DEFINE x == Magnitude(a)
           y == Magnitude(b)
<1>1. x \in AtLeastZero /\ y \in AtLeastZero
    BY MagnitudeIs
<1>2. CASE AtMost(y, x)
  <2>1. Hypot(a, b) = Plus(x, Over(y, Num(2)))
        BY <1>2 DEF Hypot
  <2> HIDE DEF x, y
  <2>2. Hypot(a, b) \in AtLeastZero /\ AtMost(x, Hypot(a, b)) /\ AtMost(y, Hypot(a, b))
        BY <1>1, <1>2, <2>1, LargerAndHalf
  <2> QED
        BY <2>2 DEF x, y
<1>3. CASE ~AtMost(y, x)
  <2>1. Hypot(a, b) = Plus(y, Over(x, Num(2)))
        BY <1>3 DEF Hypot
  <2> HIDE DEF x, y
  <2>2. AtMost(x, y)
    <3>1. \A p, q \in Int : ~(p <= q) => q <= p
          OBVIOUS
    <3>2. y.n * x.d \in Int /\ x.n * y.d \in Int
          BY <1>1 DEF AtLeastZero
    <3> QED
          BY <1>3, <3>1, <3>2 DEF AtMost
  <2>3. Hypot(a, b) \in AtLeastZero /\ AtMost(x, Hypot(a, b)) /\ AtMost(y, Hypot(a, b))
        BY <1>1, <2>1, <2>2, LargerAndHalf
  <2> QED
        BY <2>3 DEF x, y
<1> QED
    BY <1>2, <1>3

\* The power factor of an active power and an apparent power at least as large.
LEMMA PowerFactorIsBounded ==
    ASSUME NEW p \in Fractions, NEW s \in AtLeastZero, AtMost(Magnitude(p), s)
    PROVE  LET pf == PowerFactor(p, s)
           IN /\ pf \in Fractions
              /\ AtMost(Magnitude(pf), Num(1))
              /\ IsZero(pf) <=> IsZero(p) /\ ~IsZero(s)
<1>1. /\ p.n \in Int /\ p.d \in Nat \ {0} /\ s.n \in Nat /\ s.d \in Nat \ {0}
      /\ IsZero(p) <=> p.n = 0
      /\ IsZero(s) <=> s.n = 0
    BY DEF Fractions, AtLeastZero, IsZero, IsFinite
<1>2. CASE s.n = 0
  <2>1. PowerFactor(p, s) = Num(1)
        BY <1>1, <1>2 DEF PowerFactor
  <2>2. Num(1) \in Fractions /\ AtMost(Magnitude(Num(1)), Num(1)) /\ ~IsZero(Num(1))
    <3>1. Num(1) \in Fractions /\ Num(1).n = 1 /\ Num(1).d = 1
          BY Constants DEF Num
    <3>2. Magnitude(Num(1)).n = 1 /\ Magnitude(Num(1)).d = 1
          BY <3>1, MagnitudeIs
    <3> QED
          BY <3>1, <3>2 DEF AtMost, IsZero
  <2> QED
        BY <1>1, <1>2, <2>1, <2>2
<1>3. CASE s.n # 0
  <2> DEFINE m == IF p.n < 0 THEN 0 - p.n ELSE p.n
             num == p.n * s.d
             den == p.d * s.n
  <2>1. PowerFactor(p, s) = [n |-> num, d |-> den]
        BY <1>1, <1>3 DEF PowerFactor, Over
  <2>2. den \in Nat \ {0} /\ num \in Int /\ (num = 0 <=> p.n = 0)
    <3>1. s.n \in Nat \ {0}
          BY <1>1, <1>3
    <3>2. \A q \in Int, d \in Nat \ {0} : q * d \in Int /\ (q * d = 0 <=> q = 0)
          OBVIOUS
    <3> QED
          BY <1>1, <3>1, <3>2, ProductIsPositive
  <2>3. m * s.d <= den
    <3>1. m * s.d <= s.n * p.d
          BY MagnitudeIs DEF AtMost
    <3> QED
          BY <1>1, <3>1
  <2>4. m * s.d = IF num < 0 THEN 0 - num ELSE num
    <3>1. CASE p.n < 0
      <4>1. num < 0 /\ (0 - p.n) * s.d = 0 - num
            BY <1>1, <3>1
      <4> QED
            BY <3>1, <4>1
    <3>2. CASE ~(p.n < 0)
      <4>1. ~(num < 0)
            BY <1>1, <3>2
      <4> QED
            BY <3>2, <4>1
    <3> QED
          BY <3>1, <3>2
  <2> HIDE DEF m, num, den
  <2> DEFINE pf == [n |-> num, d |-> den]
  <2>5. pf \in Fractions /\ pf.n = num /\ pf.d = den
        BY <2>2 DEF Fractions
  <2>6. Magnitude(pf).n = m * s.d /\ Magnitude(pf).d = den
        BY <2>4, <2>5, MagnitudeIs
  <2>7. AtMost(Magnitude(pf), Num(1))
    <3>1. m * s.d \in Int
          BY <2>2, <2>4
    <3> QED
          BY <2>2, <2>3, <2>6, <3>1 DEF AtMost, Num
  <2>8. IsZero(pf) <=> p.n = 0
        BY <2>2, <2>5 DEF IsZero, IsFinite
  <2> HIDE DEF pf
  <2> QED
        BY <1>1, <1>3, <2>1, <2>5, <2>7, <2>8 DEF pf
<1> QED
    BY <1>2, <1>3

\* The values after each step of a section that is supplied are finite.
LEMMA SuppliedIsFinite ==
    ASSUME map \in Maps, Supplied(MapPoints, map.derive), NEW held \in Holdings(map),
           NEW acc, Derives(acc, Input(held), map.derive), NEW k \in 0 .. Len(map.derive)
    PROVE  /\ DOMAIN acc[k] = MapPoints \cup Before(map.derive, k)
           /\ All(acc[k], Fractions)
           /\ \A l \in DOMAIN map.derive :
                Inputs(map.derive[l]) \subseteq MapPoints \cup Before(map.derive, l - 1)
<1> DEFINE ops == map.derive
<1>1. /\ Listed(ops) /\ Len(ops) \in Nat /\ DOMAIN ops = 1 .. Len(ops)
      /\ \A l \in DOMAIN ops : StepAccepted(ops[l])
    BY MapsAreListed, DeriveRun
<1>2. DOMAIN Input(held) = MapPoints /\ All(Input(held), Fractions)
    BY InputsAreNumbers
<1>3. ASSUME NEW l \in DOMAIN ops
      PROVE  Inputs(ops[l]) \subseteq MapPoints \cup Before(ops, l - 1)
  <2>1. \A m \in DOMAIN ops : m < l <=> m <= l - 1
        BY <1>1
  <2>2. {m \in DOMAIN ops : m < l} = {m \in DOMAIN ops : m <= l - 1}
        BY <2>1
  <2>3. Inputs(ops[l]) \subseteq
            MapPoints \cup UNION {ToSet(ops[m].targets) : m \in {m \in DOMAIN ops : m < l}}
        BY DEF Supplied
  <2> QED
        BY <2>2, <2>3 DEF Before
<1>4. \A N \in {Numbers, Fractions} :
          All(Input(held), N) => /\ DOMAIN acc[k] = MapPoints \cup Before(ops, k)
                                 /\ All(acc[k], N)
    BY <1>1, <1>2, <1>3, DerivesGrow
<1> QED
    BY <1>2, <1>3, <1>4

\* The power factor of an apparent power that was itself derived from the same
\* active power lies between -1 and 1, however lossy the readings are
\* (canonical.py:100, _power_factor).
THEOREM FactorsFit == HuaweiSpec => []PowerFactorFits
<1>1. ServedInv => PowerFactorFits
  <2> DEFINE ops == map.derive
             out == Output(meant)
             Chain(l, k, j, i) ==
                 /\ l < k /\ ops[l].op = "hypot" /\ ops[k].op = "pf_from_p_s"
                 /\ Final(ops, l) /\ Final(ops, k)
                 /\ ops[k].from[2 * i] = ops[l].targets[j]
                 /\ ops[k].from[2 * i - 1] \in Legs(ops[l], j)
                 /\ Settled(ops, l - 1, ops[k].from[2 * i - 1])
  <2> SUFFICES ASSUME ServedInv, Polled, Supplied(MapPoints, ops),
                      NEW l \in DOMAIN ops, NEW k \in DOMAIN ops,
                      NEW j \in DOMAIN ops[l].targets, NEW i \in DOMAIN ops[k].targets,
                      Chain(l, k, j, i)
               PROVE  LET p  == served[ops[k].from[2 * i - 1]]
                          s  == served[ops[k].from[2 * i]]
                          pf == served[ops[k].targets[i]]
                      IN /\ AtMost(Magnitude(pf), Num(1))
                         /\ IsZero(pf) <=> IsZero(p) /\ ~IsZero(s)
        BY DEF PowerFactorFits
  <2> DEFINE active == ops[k].from[2 * i - 1]
             apparent == ops[k].from[2 * i]
             factor == ops[k].targets[i]
             a == ops[l].from[2 * j - 1]
             b == ops[l].from[2 * j]
  <2>1. /\ map \in Maps /\ meant \in Holdings(map) /\ served = Sample(Values(meant))
        BY DEF ServedInv
  <2>2. /\ Listed(ops) /\ Len(ops) \in Nat /\ DOMAIN ops = 1 .. Len(ops)
        /\ StepAccepted(ops[l]) /\ StepAccepted(ops[k])
        BY <2>1, MapsAreListed, DeriveRun
  <2>3. PICK acc : Derives(acc, Input(meant), ops)
        BY <2>2, DeriveRun
  <2>4. ASSUME NEW m \in 0 .. Len(ops)
        PROVE  /\ DOMAIN acc[m] = MapPoints \cup Before(ops, m) /\ All(acc[m], Fractions)
               /\ \A n \in DOMAIN ops : Inputs(ops[n]) \subseteq MapPoints \cup Before(ops, n - 1)
        BY <2>1, <2>3, SuppliedIsFinite
  <2>5. /\ l - 1 \in 0 .. Len(ops) /\ k - 1 \in 0 .. Len(ops) /\ Len(ops) \in 0 .. Len(ops)
        /\ l \in 1 .. Len(ops) /\ k \in 1 .. Len(ops)
        /\ l \in 1 .. Len(ops) + 1 /\ k \in 1 .. Len(ops) + 1
        /\ l \in Int /\ k \in Int /\ l - 1 < l /\ l - 1 < k /\ k - 1 < k
        /\ \A n \in DOMAIN ops : (n > k - 1 => n > l /\ n > l - 1)
        BY <2>2
  <2>6. out = acc[Len(ops)] /\ All(out, Fractions)
        BY <2>3, <2>4, <2>5 DEF Derives, Output
  <2>7. ASSUME NEW key \in DOMAIN out, key \notin Aliases
        PROVE  served[key] = out[key] /\ out[key] \in Fractions
    <3>1. out[key] \in Fractions
          BY <2>6, <2>7 DEF All
    <3>2. IsFinite(out[key])
          BY <3>1 DEF Fractions, IsFinite
    <3>3. ZeroInvalid(out)[key] = out[key]
          BY <2>7, <3>2, Zeroed
    <3> QED
          BY <2>1, <2>7, <3>1, <3>3, SampleIs
  <2>8. /\ apparent = ops[l].targets[j] /\ active \in {a, b}
        /\ a \in Inputs(ops[l]) /\ b \in Inputs(ops[l])
        /\ Settled(ops, l - 1, active) /\ Settled(ops, k - 1, active)
        /\ Settled(ops, k - 1, apparent)
        /\ active \notin Aliases /\ apparent \notin Aliases /\ factor \notin Aliases
        /\ active \notin ToSet(ops[l].targets) /\ active \notin ToSet(ops[k].targets)
        /\ apparent \notin ToSet(ops[k].targets)
    <3>1. apparent = ops[l].targets[j] /\ active \in {a, b} /\ Settled(ops, l - 1, active)
          BY DEF Legs
    <3>2. Settled(ops, l, apparent) /\ factor \notin Aliases
          BY <3>1 DEF Final, Settled
    <3>3. Settled(ops, k - 1, active) /\ Settled(ops, k - 1, apparent)
          BY <2>5, <3>1, <3>2 DEF Settled
    <3>4. a \in Inputs(ops[l]) /\ b \in Inputs(ops[l])
          BY <2>2, ArityGives
    <3> HIDE DEF ops
    <3> QED
          BY <2>5, <3>1, <3>2, <3>3, <3>4 DEF Settled
  <2>9. /\ SameAt(out, acc[l - 1], active) /\ SameAt(out, acc[k - 1], active)
        /\ SameAt(out, acc[k - 1], apparent)
        BY <2>2, <2>3, <2>5, <2>8, SettledIsKept DEF Output
  <2>10. /\ apparent \in DOMAIN out /\ IsWritten(out[apparent], acc[l - 1], ops[l], j)
         /\ factor \in DOMAIN out /\ IsWritten(out[factor], acc[k - 1], ops[k], i)
        BY <2>2, <2>3, <2>8, TargetIsKept DEF Output
  <2> HIDE DEF out, ops, active, apparent, factor, a, b
  <2>11. active \in DOMAIN out
        BY <2>4, <2>5, <2>8, <2>9 DEF SameAt
  <2>12. /\ served[active] = out[active] /\ out[active] \in Fractions
         /\ served[apparent] = out[apparent] /\ served[factor] = out[factor]
        BY <2>7, <2>8, <2>10, <2>11
  <2>13. out[apparent] \in AtLeastZero /\ AtMost(Magnitude(out[active]), out[apparent])
    <3>1. PICK now : /\ SameBut(now, acc[l - 1], ToSet(ops[l].targets))
                     /\ \E bcc : Assigns(bcc, acc[l - 1], ops[l]) /\ now = bcc[j - 1]
                     /\ out[apparent] = Written(now, Target(acc[l - 1], ops[l], j))
          BY <2>10 DEF IsWritten
    <3>2. PICK bcc : Assigns(bcc, acc[l - 1], ops[l]) /\ now = bcc[j - 1]
          BY <3>1
    <3>3. /\ j - 1 \in 0 .. Len(ops[l].targets)
          /\ ops[l].targets \in Seq(ToSet(ops[l].targets))
      <4>1. Len(ops[l].targets) \in Nat \ {0} /\ j \in 1 .. Len(ops[l].targets)
            /\ ops[l].targets \in Seq(ToSet(ops[l].targets))
            BY <2>2, ArityGives
      <4> QED
            BY <4>1
    <3>4. /\ Inputs(ops[l]) \subseteq DOMAIN acc[l - 1] /\ All(acc[l - 1], Fractions)
          BY <2>4, <2>5
    <3>5. All(now, Fractions) /\ DOMAIN acc[l - 1] \subseteq DOMAIN now
      <4>1. Ready(acc[l - 1], ops[l], Fractions)
            BY <3>4 DEF Ready
      <4>2. All(bcc[j - 1], Fractions)
            BY <2>2, <3>2, <3>3, <3>4, <4>1, AssignsStayNumbers
      <4>3. DOMAIN acc[l - 1] \subseteq DOMAIN bcc[j - 1]
            BY <3>2, <3>3, AssignsGrow
      <4> QED
            BY <3>2, <4>2, <4>3
    <3>6. Get(now, a) \in Fractions /\ Get(now, b) \in Fractions
          BY <2>8, <3>4, <3>5 DEF Get, All
    <3>7. Get(now, active) = out[active]
          BY <2>8, <2>9, <2>11, <3>1 DEF SameBut, SameAt, Get
    <3>8. out[apparent] = Hypot(Get(now, a), Get(now, b))
          BY <3>1, WrittenCases DEF Target, a, b
    <3>9. Get(now, active) \in {Get(now, a), Get(now, b)}
          BY <2>8
    <3> QED
          BY <3>6, <3>7, <3>8, <3>9, HypotBounds
  <2>14. out[factor] = PowerFactor(out[active], out[apparent])
    <3>1. PICK now : /\ SameBut(now, acc[k - 1], ToSet(ops[k].targets))
                     /\ out[factor] = Written(now, Target(acc[k - 1], ops[k], i))
          BY <2>10 DEF IsWritten
    <3>2. Get(now, active) = out[active] /\ Get(now, apparent) = out[apparent]
          BY <2>8, <2>9, <2>10, <2>11, <3>1 DEF SameBut, SameAt, Get
    <3>3. out[factor] = PowerFactor(Get(now, active), Get(now, apparent))
          BY <3>1, WrittenCases DEF Target, active, apparent
    <3> QED
          BY <3>2, <3>3
  <2>15. /\ AtMost(Magnitude(out[factor]), Num(1))
         /\ IsZero(out[factor]) <=> IsZero(out[active]) /\ ~IsZero(out[apparent])
        BY <2>12, <2>13, <2>14, PowerFactorIsBounded
  <2> QED
        BY <2>12, <2>15 DEF ops, active, apparent, factor
<1> QED
    BY <1>1, ServedInvariance, PTL

\* What poll_once publishes can be served, and its power factors are such
\* (huawei_poller.py:215).
THEOREM AlwaysServable == HuaweiSpec => []SampleServable
BY NeededStayFinite, FactorsFit, PTL DEF SampleServable

\* Products in other orders.
LEMMA Regrouped ==
    ASSUME NEW a \in Int, NEW b \in Int, NEW c \in Int, NEW d \in Int, NEW e \in Int
    PROVE  /\ (a * b) * (c * (d * e)) = (a * (c * d)) * (b * e)
           /\ (a * (b * c)) * (d * e) = ((a * b) * d) * (e * c)
OBVIOUS

\* x is K over L times w.
Proportional(x, w, K, L) ==
    x \in Fractions /\ w \in Fractions /\ x.n * (L * w.d) = (K * w.n) * x.d

\* Shares of one number in proportion to weights make up that number.
LEMMA SharesAddUp ==
    ASSUME NEW m \in Nat, NEW K \in Int, NEW L \in Nat \ {0},
           NEW weights \in [1 .. m -> Fractions], NEW shares, DOMAIN shares = 1 .. m,
           \A j \in 1 .. m : shares[j] = [n |-> K * weights[j].n, d |-> L * weights[j].d]
    PROVE  Proportional(Total(shares), Total(weights), K, L)
<1>1. /\ DOMAIN weights = 1 .. m /\ \A j \in 1 .. m : weights[j] \in Fractions
      /\ DOMAIN shares = 1 .. m
      /\ \A j \in 1 .. m : shares[j] = [n |-> K * weights[j].n, d |-> L * weights[j].d]
    OBVIOUS
<1>2. \A list : Total(list) = Adding!Fold(Num(0), list)
    BY DEF Total, FoldLeft, MapThenFoldSet, Max,
           Adding!Fold, Adding!FoldLeft, Adding!MapThenFoldSet, Adding!Max
<1>3. PICK acc : Adding!Run(acc, Num(0), shares, m)
    BY <1>1, Adding!FoldSteps
<1>4. PICK bcc : Adding!Run(bcc, Num(0), weights, m)
    BY <1>1, Adding!FoldSteps
<1>5. /\ \A x \in Fractions : x.n \in Int /\ x.d \in Nat \ {0}
      /\ \A n \in Int, d \in Nat \ {0} : [n |-> n, d |-> d] \in Fractions
    BY DEF Fractions
<1>6. \A i \in Nat \ {0}, j \in Nat \ {0} : i * j \in Nat \ {0}
    OBVIOUS
<1>7. \A x, y \in Fractions : Plus(x, y) \in Fractions
    BY Closed
<1> DEFINE Good(k) == /\ acc[k] \in Fractions /\ bcc[k] \in Fractions
                      /\ acc[k].n * (L * bcc[k].d) = (K * bcc[k].n) * acc[k].d
           S == {k \in Nat : k <= m => Good(k)}
<1>8. 0 \in S
  <2>1. acc[0] = Num(0) /\ bcc[0] = Num(0)
        BY <1>3, <1>4 DEF Adding!Run
  <2>2. Num(0) \in Fractions /\ Num(0).n = 0 /\ Num(0).d = 1
        BY Constants DEF Num
  <2> QED
        BY <2>1, <2>2
<1>9. ASSUME NEW k \in Nat, k \in S PROVE k + 1 \in S
  <2> SUFFICES ASSUME k + 1 <= m PROVE Good(k + 1)
        OBVIOUS
  <2>1. k + 1 \in 1 .. m /\ (k + 1) - 1 = k /\ k <= m
        OBVIOUS
  <2> DEFINE x == acc[k]
             w == bcc[k]
             v == weights[k + 1]
             s == shares[k + 1]
  <2>2. /\ acc[k + 1] = Plus(x, s) /\ bcc[k + 1] = Plus(w, v)
        /\ v \in Fractions /\ s = [n |-> K * v.n, d |-> L * v.d]
        BY <1>1, <1>3, <1>4, <2>1 DEF Adding!Run
  <2>3. x \in Fractions /\ w \in Fractions /\ x.n * (L * w.d) = (K * w.n) * x.d
        BY <1>9, <2>1
  <2> HIDE DEF x, w, v, s
  <2>4. /\ x.n \in Int /\ x.d \in Nat \ {0} /\ w.n \in Int /\ w.d \in Nat \ {0}
        /\ v.n \in Int /\ v.d \in Nat \ {0} /\ s.n = K * v.n /\ s.d = L * v.d
        BY <1>5, <2>2, <2>3
  <2>5. s \in Fractions /\ s.n \in Int /\ s.d \in Nat \ {0}
    <3>1. K * v.n \in Int /\ L * v.d \in Nat \ {0}
          BY <1>6, <2>4
    <3>2. s \in Fractions
          BY <1>5, <2>2, <3>1
    <3> QED
          BY <2>4, <3>1, <3>2
  <2>int. /\ x.n \in Int /\ x.d \in Int /\ w.n \in Int /\ w.d \in Int /\ v.n \in Int
          /\ v.d \in Int /\ s.n \in Int /\ s.d \in Int /\ K \in Int /\ L \in Int
        BY <2>4, <2>5
  <2>6. /\ Plus(x, s).n = x.n * s.d + s.n * x.d /\ Plus(x, s).d = x.d * s.d
        /\ Plus(w, v).n = w.n * v.d + v.n * w.d /\ Plus(w, v).d = w.d * v.d
        BY DEF Plus
  <2>7. (x.n * s.d) * (L * (w.d * v.d)) = (K * (w.n * v.d)) * (x.d * s.d)
    <3>1. (x.n * s.d) * (L * (w.d * v.d)) = (x.n * (L * w.d)) * (s.d * v.d)
          BY <2>int, Regrouped
    <3>2. (K * (w.n * v.d)) * (x.d * s.d) = ((K * w.n) * x.d) * (s.d * v.d)
          BY <2>int, Regrouped
    <3> QED
          BY <2>3, <3>1, <3>2
  <2>8. (s.n * x.d) * (L * (w.d * v.d)) = (K * (v.n * w.d)) * (x.d * s.d)
        BY <2>4
  <2>9. (x.n * s.d + s.n * x.d) * (L * (w.d * v.d)) = (K * (w.n * v.d + v.n * w.d)) * (x.d * s.d)
    <3>1. \A a, b, c \in Int : (a + b) * c = a * c + b * c
          OBVIOUS
    <3>2. /\ x.n * s.d \in Int /\ s.n * x.d \in Int /\ L * (w.d * v.d) \in Int
          /\ w.n * v.d \in Int /\ v.n * w.d \in Int /\ x.d * s.d \in Int
          /\ K * (w.n * v.d) \in Int /\ K * (v.n * w.d) \in Int
      <4>1. \A i, j \in Int : i * j \in Int
            OBVIOUS
      <4>2. /\ x.n * s.d \in Int /\ s.n * x.d \in Int /\ w.d * v.d \in Int
            /\ w.n * v.d \in Int /\ v.n * w.d \in Int /\ x.d * s.d \in Int
            BY <2>int, <4>1
      <4> QED
            BY <2>int, <4>1, <4>2
    <3>3. (x.n * s.d + s.n * x.d) * (L * (w.d * v.d))
            = (x.n * s.d) * (L * (w.d * v.d)) + (s.n * x.d) * (L * (w.d * v.d))
          BY <3>1, <3>2
    <3>4. K * (w.n * v.d + v.n * w.d) = K * (w.n * v.d) + K * (v.n * w.d)
          BY <3>2
    <3>5. (K * (w.n * v.d + v.n * w.d)) * (x.d * s.d)
            = (K * (w.n * v.d)) * (x.d * s.d) + (K * (v.n * w.d)) * (x.d * s.d)
          BY <3>1, <3>2, <3>4
    <3> QED
          BY <2>7, <2>8, <3>3, <3>5
  <2>10. Plus(x, s) \in Fractions /\ Plus(w, v) \in Fractions
        BY <1>7, <2>2, <2>3, <2>5
  <2> QED
        BY <2>2, <2>6, <2>9, <2>10
<1> HIDE DEF S
<1>10. m \in S
    BY <1>8, <1>9, Adding!InductionOverNat
<1>11. Good(m)
    BY <1>10 DEF S
<1>12. Total(shares) = acc[m] /\ Total(weights) = bcc[m]
    BY <1>2, <1>3, <1>4 DEF Adding!Run
<1> QED
    BY <1>11, <1>12 DEF Proportional

\* As many ones.
LEMMA TotalOfOnes ==
    ASSUME NEW m \in Nat \ {0}
    PROVE  Total([j \in 1 .. m |-> Num(1)]) = Num(m)
<1> DEFINE r == [j \in 1 .. m |-> 1]
<1>1. r \in [1 .. m -> Int] /\ \A j \in 1 .. m : r[j] = 1
    OBVIOUS
<1>2. [j \in 1 .. m |-> Num(r[j])] = [j \in 1 .. m |-> Num(1)]
    OBVIOUS
<1> HIDE DEF r
<1>3. PICK t \in Int :
        /\ Total([j \in 1 .. m |-> Num(r[j])]) = Num(t)
        /\ \E j \in 1 .. m : t <= r[j] * m
        /\ \E j \in 1 .. m : r[j] * m <= t
    BY <1>1, MeanIsBetween
<1>4. t = m
    BY <1>1, <1>3
<1> QED
    BY <1>2, <1>3, <1>4

\* A total is finite only if all of what it is made of is.
LEMMA FiniteTotal ==
    ASSUME NEW m \in Nat, NEW list \in [1 .. m -> Numbers], IsFinite(Total(list))
    PROVE  \A j \in 1 .. m : IsFinite(list[j])
<1>1. DOMAIN list = 1 .. m /\ \A j \in 1 .. m : list[j] \in Numbers
    OBVIOUS
<1>2. Total(list) = Adding!Fold(Num(0), list)
    BY DEF Total, FoldLeft, MapThenFoldSet, Max,
           Adding!Fold, Adding!FoldLeft, Adding!MapThenFoldSet, Adding!Max
<1>3. PICK acc : Adding!Run(acc, Num(0), list, m)
    BY <1>1, Adding!FoldSteps
<1>4. ASSUME NEW x \in Numbers, NEW y \in Numbers
      PROVE  Plus(x, y) \in Numbers /\ (IsFinite(Plus(x, y)) => IsFinite(x) /\ IsFinite(y))
  <2>1. x.d \in Nat /\ y.d \in Nat /\ Plus(x, y).d = x.d * y.d
        BY DEF Numbers, Plus
  <2>2. \A i \in Nat : i * 0 = 0 /\ 0 * i = 0
        OBVIOUS
  <2>3. Plus(x, y) \in Numbers
        BY Closed
  <2> QED
        BY <2>1, <2>2, <2>3 DEF IsFinite
<1> DEFINE Good(k) == acc[k] \in Numbers /\ (IsFinite(acc[k]) => \A j \in 1 .. k : IsFinite(list[j]))
           S == {k \in Nat : k <= m => Good(k)}
<1>5. 0 \in S
    BY <1>3, Constants DEF Adding!Run
<1>6. ASSUME NEW k \in Nat, k \in S PROVE k + 1 \in S
  <2> SUFFICES ASSUME k + 1 <= m PROVE Good(k + 1)
        OBVIOUS
  <2>1. /\ k + 1 \in 1 .. m /\ (k + 1) - 1 = k /\ k <= m
        /\ \A j \in 1 .. k + 1 : j \in 1 .. k \/ j = k + 1
        OBVIOUS
  <2>2. acc[k + 1] = Plus(acc[k], list[k + 1])
        BY <1>3, <2>1 DEF Adding!Run
  <2>3. Good(k)
        BY <1>6, <2>1
  <2> QED
        BY <1>1, <1>4, <2>1, <2>2, <2>3
<1> HIDE DEF S
<1>7. m \in S
    BY <1>5, <1>6, Adding!InductionOverNat
<1>8. Good(m)
    BY <1>7 DEF S
<1> QED
    BY <1>2, <1>3, <1>8 DEF Adding!Run

\* The shares of one number: its numerator and denominator, each times that of a
\* weight, and the weights add up to what makes the number of K and L.
IsShared(number, m, shares) ==
    \E K \in Int, L \in Nat, weights \in [1 .. m -> Fractions] :
        LET W == Total(weights)
        IN /\ L = 0 <=> number.d = 0
           /\ \A j \in 1 .. m : shares[j] = [n |-> K * weights[j].n, d |-> L * weights[j].d]
           /\ (K * W.n) * number.d = number.n * (L * W.d)

LEMMA EqualShares ==
    ASSUME NEW T \in Numbers, NEW m \in Nat \ {0}, NEW shares,
           \A j \in 1 .. m : shares[j] = Over(T, Num(m))
    PROVE  IsShared(T, m, shares)
<1> DEFINE weights == [j \in 1 .. m |-> Num(1)]
           K == T.n
           L == T.d * m
<1>1. T.n \in Int /\ T.d \in Nat
    BY DEF Numbers
<1>2. Num(1) \in Fractions /\ Num(1).n = 1 /\ Num(1).d = 1 /\ Num(m).n = m /\ Num(m).d = 1
    BY Constants DEF Num
<1>3. weights \in [1 .. m -> Fractions] /\ \A j \in 1 .. m : weights[j] = Num(1)
    BY <1>2
<1>4. Total(weights) = Num(m)
    BY TotalOfOnes
<1> HIDE DEF weights
<1>5. Over(T, Num(m)) = [n |-> T.n * 1, d |-> T.d * m]
    BY <1>2 DEF Over
<1>6. L \in Nat /\ (L = 0 <=> T.d = 0)
    BY <1>1, ProductIsPositive
<1>7. (K * m) * T.d = T.n * (L * 1)
    BY <1>1
<1>8. \A j \in 1 .. m : shares[j] = [n |-> K * weights[j].n, d |-> L * weights[j].d]
  <2>1. T.n * 1 = K * 1 /\ T.d * m = L * 1
        BY <1>1, <1>6
  <2> QED
        BY <1>2, <1>3, <1>5, <2>1
<1> HIDE DEF K, L
<1>9. K \in Int
    BY <1>1 DEF K
<1> QED
    BY <1>2, <1>3, <1>4, <1>6, <1>7, <1>8, <1>9 DEF IsShared

LEMMA RatioIsShared ==
    ASSUME NEW op, StepAccepted(op), op.op = "ratio_split", NEW values, All(values, Numbers)
    PROVE  IsShared(Get(values, op.from[1]), Len(op.targets), RatioShares(values, op))
<1> DEFINE T == Get(values, op.from[1])
           m == Len(op.targets)
           weights == [j \in DOMAIN op.weights |-> Magnitude(Get(values, op.weights[j]))]
           sum == Total(weights)
           shares == RatioShares(values, op)
<1>1. m \in Nat \ {0} /\ DOMAIN op.weights = 1 .. m
  <2>1. /\ op.targets \in Seq(ToSet(op.targets)) /\ op.weights \in Seq(ToSet(op.weights))
        /\ ArityOk(op)
        BY DEF StepAccepted
  <2>2. Len(op.weights) = Len(op.targets) /\ Len(op.targets) >= 1
        BY <2>1 DEF ArityOk
  <2> QED
        BY <2>1, <2>2
<1>2. \A key : Get(values, key) \in Numbers
    BY Constants DEF Get, All
<1>3. weights \in [1 .. m -> Numbers]
  <2>1. \A x \in Numbers : Magnitude(x) \in Numbers
        BY Closed
  <2> QED
        BY <1>1, <1>2, <2>1
<1>4. T \in Numbers
    BY <1>2
<1>5. /\ DOMAIN weights = 1 .. m /\ Len(weights) = m
      /\ \A j \in 1 .. m : weights[j] = Magnitude(Get(values, op.weights[j]))
    BY <1>1
<1>6. \A j \in 1 .. m :
          shares[j] = IF ~IsFinite(sum) \/ IsZero(sum) THEN Over(T, Num(m))
                      ELSE Over(Times(T, weights[j]), sum)
    BY <1>1, <1>5 DEF RatioShares
<1> HIDE DEF T, m, weights, shares
<1>7. CASE ~IsFinite(sum) \/ IsZero(sum)
    BY <1>1, <1>4, <1>6, <1>7, EqualShares DEF T, m, shares
<1>8. CASE IsFinite(sum) /\ ~IsZero(sum)
  <2>1. ASSUME NEW j \in 1 .. m PROVE weights[j] \in AtLeastZero
    <3> DEFINE x == Get(values, op.weights[j])
    <3>1. x \in Numbers /\ weights[j] = Magnitude(x) /\ IsFinite(weights[j])
          BY <1>1, <1>2, <1>3, <1>5, <1>8, FiniteTotal
    <3> HIDE DEF x
    <3>2. Magnitude(x).d = x.d
          BY DEF Magnitude
    <3>3. x \in Fractions
          BY <3>1, <3>2 DEF IsFinite, Numbers, Fractions
    <3> QED
          BY <3>1, <3>3, MagnitudeIs
  <2>2. /\ weights \in [1 .. m -> AtLeastZero] /\ weights \in [1 .. m -> Fractions]
    <3>1. AtLeastZero \subseteq Fractions
          BY DEF AtLeastZero, Fractions
    <3> QED
          BY <1>3, <2>1, <3>1
  <2>3. sum \in AtLeastZero
        BY <1>1, <2>2, NothingCancels
  <2> HIDE DEF sum
  <2>4. sum.n \in Nat \ {0} /\ sum.d \in Nat \ {0} /\ T.n \in Int /\ T.d \in Nat
        BY <1>4, <1>8, <2>3 DEF AtLeastZero, IsZero, Numbers
  <2> DEFINE K == T.n * sum.d
             L == T.d * sum.n
  <2>5. K \in Int /\ L \in Nat /\ (L = 0 <=> T.d = 0)
        BY <2>4, ProductIsPositive
  <2>6. (K * sum.n) * T.d = T.n * (L * sum.d)
        BY <2>4
  <2>7. ASSUME NEW j \in 1 .. m
        PROVE  shares[j] = [n |-> K * weights[j].n, d |-> L * weights[j].d]
    <3>1. weights[j].n \in Int /\ weights[j].d \in Int
          BY <2>1 DEF AtLeastZero
    <3>2. shares[j] = [n |-> (T.n * weights[j].n) * sum.d, d |-> (T.d * weights[j].d) * sum.n]
      <4> DEFINE x == Times(T, weights[j])
      <4>1. x.n = T.n * weights[j].n /\ x.d = T.d * weights[j].d
            BY DEF Times
      <4>2. shares[j] = Over(x, sum)
            BY <1>6, <1>8
      <4> HIDE DEF x
      <4>3. Over(x, sum) = [n |-> x.n * sum.d, d |-> x.d * sum.n]
            BY <2>4 DEF Over
      <4> QED
            BY <4>1, <4>2, <4>3
    <3>3. /\ (T.n * weights[j].n) * sum.d = K * weights[j].n
          /\ (T.d * weights[j].d) * sum.n = L * weights[j].d
          BY <2>4, <3>1
    <3> QED
          BY <3>2, <3>3
  <2> HIDE DEF K, L
  <2>8. sum = Total(weights)
        BY DEF sum
  <2>9. IsShared(T, m, shares)
        BY <2>2, <2>5, <2>6, <2>7, <2>8 DEF IsShared
  <2> QED
        BY <2>9 DEF T, m, shares
<1> QED
    BY <1>7, <1>8

LEMMA TotalOfZeros ==
    ASSUME NEW m \in Nat, NEW list, list = [j \in 1 .. m |-> Num(0)]
    PROVE  IsZero(Total(list))
<1>1. list \in [1 .. m -> AtLeastZero] /\ DOMAIN list = 1 .. m
    BY DEF AtLeastZero, Num
<1>2. Total(list) = Adding!Fold(Num(0), list)
    BY DEF Total, FoldLeft, MapThenFoldSet, Max,
           Adding!Fold, Adding!FoldLeft, Adding!MapThenFoldSet, Adding!Max
<1>3. PICK acc : Adding!Run(acc, Num(0), list, m)
    BY <1>1, Adding!FoldSteps
<1> DEFINE S == {k \in Nat : k <= m => acc[k] = Num(0)}
<1>4. 0 \in S
    BY <1>3 DEF Adding!Run
<1>5. ASSUME NEW k \in Nat, k \in S PROVE k + 1 \in S
  <2> SUFFICES ASSUME k + 1 <= m PROVE acc[k + 1] = Num(0)
        OBVIOUS
  <2>1. k + 1 \in 1 .. m /\ (k + 1) - 1 = k /\ k <= m
        OBVIOUS
  <2>2. acc[k + 1] = Plus(Num(0), Num(0))
        BY <1>3, <1>5, <2>1 DEF Adding!Run
  <2> QED
        BY <2>2 DEF Plus, Num
<1> HIDE DEF S
<1>6. m \in S
    BY <1>4, <1>5, Adding!InductionOverNat
<1> QED
    BY <1>2, <1>3, <1>6 DEF S, Adding!Run, IsZero, IsFinite, Num

\* Shares of a number, zeroed where they are not finite, add up to that number,
\* zeroed likewise.
LEMMA ZeroedSharesAddUp ==
    ASSUME NEW T \in Numbers, NEW m \in Nat, NEW shares, IsShared(T, m, shares),
           NEW list,
           list = [j \in 1 .. m |-> IF IsFinite(shares[j]) THEN shares[j] ELSE Num(0)]
    PROVE  Same(Total(list), IF IsFinite(T) THEN T ELSE Num(0))
<1>1. PICK K \in Int, L \in Nat, weights \in [1 .. m -> Fractions] :
        /\ L = 0 <=> T.d = 0
        /\ \A j \in 1 .. m : shares[j] = [n |-> K * weights[j].n, d |-> L * weights[j].d]
        /\ (K * Total(weights).n) * T.d = T.n * (L * Total(weights).d)
    BY DEF IsShared
<1>2. T.n \in Int /\ T.d \in Nat
    BY DEF Numbers
<1>3. ASSUME NEW j \in 1 .. m PROVE weights[j].d \in Nat \ {0} /\ weights[j].n \in Int
  <2>1. weights[j] \in Fractions
        OBVIOUS
  <2> QED
        BY <2>1 DEF Fractions
<1>4. CASE T.d = 0
  <2>1. ASSUME NEW j \in 1 .. m PROVE ~IsFinite(shares[j])
    <3>1. L * weights[j].d = 0
          BY <1>1, <1>3, <1>4
    <3>2. shares[j] = [n |-> K * weights[j].n, d |-> L * weights[j].d]
          BY <1>1
    <3>3. shares[j].d = 0
          BY <3>1, <3>2
    <3> QED
          BY <3>3 DEF IsFinite
  <2>2. list = [j \in 1 .. m |-> Num(0)]
        BY <2>1
  <2>3. IsZero(Total(list))
        BY <2>2, TotalOfZeros
  <2>4. Total(list).n = 0 /\ Total(list).d # 0
        BY <2>3 DEF IsZero, IsFinite
  <2>5. Total(list) \in Numbers
    <3>1. list \in [1 .. m -> Numbers]
          BY <2>2, Constants
    <3> QED
          BY <3>1, ClosedUnderTotal
  <2>6. Total(list).d \in Nat
        BY <2>5 DEF Numbers
  <2> QED
        BY <1>4, <2>4, <2>6 DEF Same, IsFinite, Num
<1>5. CASE T.d # 0
  <2>1. L \in Nat \ {0}
        BY <1>1, <1>5
  <2>2. ASSUME NEW j \in 1 .. m PROVE IsFinite(shares[j])
    <3>1. L * weights[j].d # 0
          BY <1>3, <2>1, ProductIsPositive
    <3>2. shares[j] = [n |-> K * weights[j].n, d |-> L * weights[j].d]
          BY <1>1
    <3>3. shares[j].d # 0
          BY <3>1, <3>2
    <3> QED
          BY <3>3 DEF IsFinite
  <2>3. /\ DOMAIN list = 1 .. m
        /\ \A j \in 1 .. m : list[j] = [n |-> K * weights[j].n, d |-> L * weights[j].d]
        BY <1>1, <2>2
  <2> DEFINE X == Total(list)
             W == Total(weights)
  <2>a. weights \in [1 .. m -> Fractions] /\ m \in Nat /\ K \in Int
        OBVIOUS
  <2>4. X \in Fractions /\ W \in Fractions /\ X.n * (L * W.d) = (K * W.n) * X.d
    <3>1. Proportional(Total(list), Total(weights), K, L)
        BY <2>1, <2>3, <2>a, SharesAddUp
    <3> QED
        BY <3>1 DEF Proportional
  <2>5. (K * W.n) * T.d = T.n * (L * W.d)
        BY <1>1
  <2> HIDE DEF X, W
  <2>6. X.n \in Int /\ X.d \in Nat \ {0} /\ W.n \in Int /\ W.d \in Nat \ {0}
        BY <2>4 DEF Fractions
  <2> DEFINE E == L * W.d
             F == K * W.n
  <2>7. E \in Nat \ {0} /\ F \in Int
        BY <2>1, <2>6, ProductIsPositive
  <2>8. X.n * E = F * X.d /\ F * T.d = T.n * E
        BY <2>4, <2>5
  <2> HIDE DEF E, F
  <2>9. (X.n * T.d) * E = (T.n * X.d) * E
    <3>1. (X.n * T.d) * E = (F * X.d) * T.d
          BY <1>2, <2>6, <2>7, <2>8
    <3>2. (T.n * X.d) * E = (F * T.d) * X.d
          BY <1>2, <2>6, <2>7, <2>8
    <3>3. (F * X.d) * T.d = (F * T.d) * X.d
          BY <1>2, <2>6, <2>7
    <3> QED
          BY <3>1, <3>2, <3>3
  <2>10. X.n * T.d = T.n * X.d
    <3>1. \A p, q \in Int : \A e \in Nat \ {0} : p * e = q * e => p = q
          OBVIOUS
    <3>2. X.n * T.d \in Int /\ T.n * X.d \in Int
          BY <1>2, <2>6
    <3> QED
          BY <2>7, <2>9, <3>1, <3>2
  <2> QED
        BY <1>5, <2>6, <2>10 DEF Same, IsFinite, X
<1> QED
    BY <1>4, <1>5

\* However a total was split over the phases, and whatever was invalid, the phases
\* served add up to the total served (canonical.py:78, :105, _apply_ratio_split).
THEOREM PhasesMakeTheTotal == HuaweiSpec => []PhasesAddUp
<1>1. ServedInv => PhasesAddUp
  <2> DEFINE ops == map.derive
             out == Output(meant)
  <2> SUFFICES ASSUME ServedInv, Polled, NEW k \in DOMAIN ops,
                      ops[k].op \in {"split_equal", "ratio_split"},
                      Final(ops, k), Settled(ops, k - 1, ops[k].from[1]),
                      ops[k].from[1] \in DOMAIN served
               PROVE  Same(Total([j \in DOMAIN ops[k].targets |-> served[ops[k].targets[j]]]),
                           served[ops[k].from[1]])
        BY DEF PhasesAddUp
  <2> DEFINE source == ops[k].from[1]
             m == Len(ops[k].targets)
  <2>1. /\ map \in Maps /\ meant \in Holdings(map) /\ served = Sample(Values(meant))
        BY DEF ServedInv
  <2>2. /\ Listed(ops) /\ Len(ops) \in Nat /\ DOMAIN ops = 1 .. Len(ops)
        /\ StepAccepted(ops[k]) /\ \A l \in DOMAIN ops : StepAccepted(ops[l])
        BY <2>1, MapsAreListed, DeriveRun
  <2>3. PICK acc : Derives(acc, Input(meant), ops)
        BY <2>2, DeriveRun
  <2>4. /\ k - 1 \in 0 .. Len(ops) /\ k \in 1 .. Len(ops) + 1 /\ Len(ops) \in 0 .. Len(ops)
        BY <2>2
  <2> DEFINE before == acc[k - 1]
             T == Get(before, source)
  <2>5. All(before, Numbers) /\ All(acc[Len(ops)], Numbers)
    <3>1. All(Input(meant), Numbers)
          BY <2>1, InputsAreNumbers, Constants DEF All
    <3>2. \A l \in 0 .. Len(ops) : All(acc[l], Numbers)
          BY <2>2, <2>3, <3>1, DerivesGrow
    <3> QED
          BY <2>4, <3>2
  <2>6. T \in Numbers
        BY <2>5, Constants DEF Get, All
  <2>7. m \in Nat \ {0} /\ DOMAIN ops[k].targets = 1 .. m
    <3>1. /\ ops[k].targets \in Seq(ToSet(ops[k].targets)) /\ ArityOk(ops[k])
          BY <2>2 DEF StepAccepted
    <3>2. m >= 1
          BY <3>1 DEF ArityOk
    <3> QED
          BY <3>1, <3>2
  <2>8. SameAt(out, before, source)
        BY <2>2, <2>3, <2>4, SettledIsKept DEF Output
  <2>9. \A j \in 1 .. m :
           /\ ops[k].targets[j] \in DOMAIN out /\ ops[k].targets[j] \notin Aliases
           /\ IsWritten(out[ops[k].targets[j]], before, ops[k], j)
    <3>1. \A j \in 1 .. m : ops[k].targets[j] \notin Aliases
          BY <2>7 DEF Final, Settled
    <3> QED
          BY <2>2, <2>3, <2>7, <3>1, TargetIsKept DEF Output
  <2>10. source \notin Aliases
        BY DEF Settled
  <2> HIDE DEF out, source
  <2>11. ASSUME NEW key \in DOMAIN out, key \notin Aliases
         PROVE  served[key] = IF IsFinite(out[key]) THEN out[key] ELSE Num(0)
    <3>1. served[key] = ZeroInvalid(out)[key]
          BY <2>1, <2>11, SampleIs DEF out
    <3> QED
          BY <2>11, <3>1, Zeroed
  <2>12. served[source] = IF IsFinite(T) THEN T ELSE Num(0)
    <3>1. source \in DOMAIN served
          BY DEF source
    <3>2. source \in DOMAIN out
          BY <2>1, <2>10, <3>1, SampleIs DEF out
    <3>3. T = out[source]
          BY <2>8, <3>2 DEF SameAt, Get
    <3> QED
          BY <2>10, <2>11, <3>2, <3>3
  <2> DEFINE shares == [j \in 1 .. m |-> out[ops[k].targets[j]]]
  <2>13. IsShared(T, m, shares)
    <3>1. CASE ops[k].op = "split_equal"
      <4>1. ASSUME NEW j \in 1 .. m PROVE shares[j] = Over(T, Num(m))
        <5>1. PICK now : out[ops[k].targets[j]] = Written(now, Target(before, ops[k], j))
              BY <2>9 DEF IsWritten
        <5>2. Written(now, Target(before, ops[k], j)) = Over(Get(before, ops[k].from[1]), Num(m))
              BY <3>1, WrittenCases DEF Target
        <5> QED
              BY <5>1, <5>2 DEF source
      <4> HIDE DEF shares, T, m
      <4> QED
            BY <2>6, <2>7, <4>1, EqualShares
    <3>2. CASE ops[k].op = "ratio_split"
      <4>1. ASSUME NEW j \in 1 .. m PROVE shares[j] = RatioShares(before, ops[k])[j]
        <5>1. PICK now : out[ops[k].targets[j]] = Written(now, Target(before, ops[k], j))
              BY <2>9 DEF IsWritten
        <5>2. Written(now, Target(before, ops[k], j)) = RatioShares(before, ops[k])[j]
              BY <3>2, WrittenCases DEF Target
        <5> QED
              BY <5>1, <5>2
      <4>2. IsShared(T, m, RatioShares(before, ops[k]))
            BY <2>2, <2>5, <3>2, RatioIsShared DEF source
      <4> HIDE DEF shares, T, m
      <4> QED
            BY <4>1, <4>2 DEF IsShared
    <3> QED
          BY <3>1, <3>2
  <2> DEFINE list == [j \in DOMAIN ops[k].targets |-> served[ops[k].targets[j]]]
  <2>14. list = [j \in 1 .. m |-> IF IsFinite(shares[j]) THEN shares[j] ELSE Num(0)]
        BY <2>7, <2>9, <2>11
  <2> HIDE DEF shares, T, list
  <2>15. Same(Total(list), IF IsFinite(T) THEN T ELSE Num(0))
        BY <2>6, <2>7, <2>13, <2>14, ZeroedSharesAddUp
  <2> QED
        BY <2>12, <2>15 DEF list, source
<1> QED
    BY <1>1, ServedInvariance, PTL
=============================================================================
