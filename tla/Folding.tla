------------------------------ MODULE Folding ------------------------------
(***************************************************************************)
(* Loops over lists.  The code applies derive steps, writes output maps and*)
(* sums readings by going through a list of any length; the modules say it *)
(* with FoldLeft.  Here is what FoldLeft computes for any operator, one    *)
(* element after the other: a module that proves something about a loop    *)
(* takes an INSTANCE of this one, WITH Op <- the body of that loop.        *)
(***************************************************************************)
EXTENDS Integers, Sequences, SequencesExt, WellFoundedInduction, TLAPS

CONSTANT Op(_, _)

Fold(base, list) == FoldLeft(Op, base, list)

-----------------------------------------------------------------------------
\* Induction over the natural numbers, as a fact about sets of them.
THEOREM InductionOverNat ==
    ASSUME NEW S, 0 \in S, \A n \in Nat : n \in S => n + 1 \in S
    PROVE  Nat \subseteq S
<1> SUFFICES ASSUME Nat \ S # {} PROVE FALSE
    OBVIOUS
<1>1. \E n \in Nat \ S : \A m \in Nat \ S : ~(<<m, n>> \in OpToRel(<, Nat))
    BY NatLessThanWellFounded, WFMin
<1>2. PICK n \in Nat \ S : \A m \in Nat \ S : ~(m < n)
    BY <1>1 DEF OpToRel
<1>3. n - 1 \in Nat /\ n - 1 < n /\ n = (n - 1) + 1
    BY <1>2
<1> QED
    BY <1>2, <1>3

LEMMA MaxIsUpperBound ==
    ASSUME NEW S \in SUBSET Int, NEW m \in S, \A i \in S : m >= i
    PROVE  Max(S) = m
<1> DEFINE Bound(x) == x \in S /\ \A i \in S : x >= i
<1>1. ASSUME NEW x, Bound(x) PROVE x = m
  <2>1. x \in Int /\ m \in Int /\ x >= m /\ m >= x
        BY <1>1
  <2> QED
        BY <2>1
<1>2. Max(S) = CHOOSE x : Bound(x)
    BY DEF Max
<1>3. Bound(m)
    OBVIOUS
<1> HIDE DEF Bound
<1> QED
    BY <1>1, <1>2, <1>3

-----------------------------------------------------------------------------
\* What the definition of FoldLeft looks up for a set of positions.
Value(values, base, list, s) ==
    IF s = {} THEN base ELSE Op(values[s \ {Max(s)}], list[Max(s)])

LEMMA FoldIsValue ==
    ASSUME NEW base, NEW list
    PROVE  Fold(base, list) =
             (CHOOSE values :
                values = [s \in SUBSET DOMAIN list |-> Value(values, base, list, s)])
               [DOMAIN list]
BY DEF Fold, FoldLeft, MapThenFoldSet, Value

\* The recursion is well-defined, however long the list.
LEMMA ValuesExist ==
    ASSUME NEW base, NEW list, NEW n \in Nat
    PROVE  \E values : values = [s \in SUBSET (1 .. n) |-> Value(values, base, list, s)]
<1> DEFINE Defines(m, f) ==
             /\ f = [s \in SUBSET (1 .. m) |-> f[s]]
             /\ \A s \in SUBSET (1 .. m) : f[s] = Value(f, base, list, s)
           Exists(m) == \E f : Defines(m, f)
           S == {m \in Nat : Exists(m)}
<1>1. 0 \in S
  <2> DEFINE f == [s \in SUBSET (1 .. 0) |-> base]
  <2>1. \A s \in SUBSET (1 .. 0) : s = {}
        OBVIOUS
  <2>2. f = [s \in SUBSET (1 .. 0) |-> f[s]] /\ \A s \in SUBSET (1 .. 0) : f[s] = base
        OBVIOUS
  <2> HIDE DEF f
  <2>3. Defines(0, f)
        BY <2>1, <2>2 DEF Value
  <2> QED
        BY <2>3
<1>2. ASSUME NEW m \in Nat, m \in S PROVE m + 1 \in S
  <2>1. PICK f : Defines(m, f)
        BY <1>2
  <2> DEFINE g == [s \in SUBSET (1 .. m + 1) |->
                     IF m + 1 \in s THEN Op(f[s \ {m + 1}], list[m + 1]) ELSE f[s]]
  <2>2. \A s \in SUBSET (1 .. m + 1) : s \ {m + 1} \in SUBSET (1 .. m)
        OBVIOUS
  <2>3. \A s \in SUBSET (1 .. m + 1) : m + 1 \notin s => s \in SUBSET (1 .. m)
        OBVIOUS
  <2>4. ASSUME NEW s \in SUBSET (1 .. m + 1) PROVE g[s] = Value(g, base, list, s)
    <3>1. CASE m + 1 \in s
      <4>1. Max(s) = m + 1
            BY <3>1, MaxIsUpperBound
      <4>2. g[s \ {m + 1}] = f[s \ {m + 1}]
            BY <2>2
      <4>3. g[s] = Op(f[s \ {m + 1}], list[m + 1])
            BY <3>1
      <4> HIDE DEF g
      <4> QED
            BY <3>1, <4>1, <4>2, <4>3 DEF Value
    <3>2. CASE m + 1 \notin s
      <4>1. s \in SUBSET (1 .. m) /\ s \ {Max(s)} \in SUBSET (1 .. m)
            BY <2>3, <3>2
      <4>2. g[s] = f[s] /\ g[s \ {Max(s)}] = f[s \ {Max(s)}]
            BY <4>1, <3>2
      <4>3. f[s] = Value(f, base, list, s)
            BY <2>1, <4>1
      <4> HIDE DEF g
      <4> QED
            BY <4>2, <4>3 DEF Value
    <3> QED
        BY <3>1, <3>2
  <2>5. g = [s \in SUBSET (1 .. m + 1) |-> g[s]]
        OBVIOUS
  <2> HIDE DEF g
  <2>6. Exists(m + 1)
    <3>1. Defines(m + 1, g)
        BY <2>4, <2>5
    <3> QED
        BY <3>1
  <2> HIDE DEF Exists
  <2> QED
        BY <2>6
<1> HIDE DEF Exists
<1>3. Exists(n)
  <2> HIDE DEF S
  <2>1. n \in S
        BY <1>1, <1>2, InductionOverNat
  <2> QED
        BY <2>1 DEF S
<1>4. PICK f : Defines(n, f)
    BY <1>3 DEF Exists
<1>5. f = [s \in SUBSET (1 .. n) |-> Value(f, base, list, s)]
    BY <1>4
<1> QED
    BY <1>5

\* acc has the value of the loop before the first element and after each.
Run(acc, base, list, n) ==
    /\ acc[0] = base
    /\ \A k \in 1 .. n : acc[k] = Op(acc[k - 1], list[k])
    /\ Fold(base, list) = acc[n]

\* A loop over a list starts from the initial value, goes through the elements
\* in their order, and ends with the value after the last one.
THEOREM FoldSteps ==
    ASSUME NEW base, NEW list, NEW n \in Nat, DOMAIN list = 1 .. n
    PROVE  \E acc : Run(acc, base, list, n)
<1> DEFINE values ==
             CHOOSE f : f = [s \in SUBSET (1 .. n) |-> Value(f, base, list, s)]
           acc == [k \in 0 .. n |-> values[1 .. k]]
<1>1. values = [s \in SUBSET (1 .. n) |-> Value(values, base, list, s)]
    BY ValuesExist
<1>2. Fold(base, list) = values[1 .. n]
    BY FoldIsValue
<1> HIDE DEF values
<1>3. \A k \in 0 .. n : acc[k] = Value(values, base, list, 1 .. k)
  <2>1. \A k \in 0 .. n : 1 .. k \in SUBSET (1 .. n)
        OBVIOUS
  <2> QED
        BY <1>1, <2>1
<1>4. acc[0] = base
  <2>1. 1 .. 0 = {} /\ 0 \in 0 .. n
        OBVIOUS
  <2> QED
        BY <1>3, <2>1 DEF Value
<1>5. ASSUME NEW k \in 1 .. n PROVE acc[k] = Op(acc[k - 1], list[k])
  <2>1. k \in 1 .. k /\ (\A i \in 1 .. k : k >= i) /\ 1 .. k \in SUBSET Int /\ k \in 0 .. n
        OBVIOUS
  <2>2. Max(1 .. k) = k
        BY <2>1, MaxIsUpperBound
  <2>3. (1 .. k) \ {k} = 1 .. (k - 1) /\ k - 1 \in 0 .. n
        OBVIOUS
  <2>4. acc[k] = Op(values[1 .. (k - 1)], list[k])
        BY <1>3, <2>1, <2>2, <2>3 DEF Value
  <2> QED
        BY <2>3, <2>4
<1>6. n \in 0 .. n /\ acc[n] = values[1 .. n]
    OBVIOUS
<1> HIDE DEF acc
<1> QED
    BY <1>2, <1>4, <1>5, <1>6 DEF Run

\* The first n turns of a loop.
Turns(acc, base, list, n) ==
    acc[0] = base /\ \A k \in 1 .. n : acc[k] = Op(acc[k - 1], list[k])

\* Two loops over lists that agree so far have the same value so far.
LEMMA RunsAgree ==
    ASSUME NEW base, NEW list, NEW other, NEW n \in Nat, NEW acc, NEW bcc,
           Turns(acc, base, list, n), Turns(bcc, base, other, n),
           \A k \in 1 .. n : list[k] = other[k]
    PROVE  acc[n] = bcc[n]
<1> DEFINE S == {k \in Nat : k <= n => acc[k] = bcc[k]}
<1>1. 0 \in S
    BY DEF Turns
<1>2. ASSUME NEW k \in Nat, k \in S PROVE k + 1 \in S
  <2> SUFFICES ASSUME k + 1 <= n PROVE acc[k + 1] = bcc[k + 1]
        OBVIOUS
  <2>1. k + 1 \in 1 .. n /\ (k + 1) - 1 = k /\ k <= n
        OBVIOUS
  <2>2. acc[k + 1] = Op(acc[k], list[k + 1]) /\ bcc[k + 1] = Op(bcc[k], other[k + 1])
        BY <2>1 DEF Turns
  <2>3. acc[k] = bcc[k] /\ list[k + 1] = other[k + 1]
        BY <1>2, <2>1
  <2> QED
        BY <2>2, <2>3
<1> HIDE DEF S
<1>3. n \in S
    BY <1>1, <1>2, InductionOverNat
<1> QED
    BY <1>3 DEF S

\* Nothing to go through: the initial value.
LEMMA FoldEmpty == ASSUME NEW base PROVE Fold(base, <<>>) = base
<1>1. DOMAIN <<>> = 1 .. 0
    OBVIOUS
<1>2. PICK acc : Run(acc, base, <<>>, 0)
    BY <1>1, FoldSteps
<1> QED
    BY <1>2 DEF Run

\* One more element is one more turn of the loop.
THEOREM FoldAppend ==
    ASSUME NEW base, NEW S, NEW list \in Seq(S), NEW x \in S
    PROVE  Fold(base, Append(list, x)) = Op(Fold(base, list), x)
<1> DEFINE n == Len(list)
           longer == Append(list, x)
<1>1. n \in Nat /\ DOMAIN list = 1 .. n
    OBVIOUS
<1>2. n + 1 \in Nat /\ DOMAIN longer = 1 .. (n + 1) /\ longer[n + 1] = x
    OBVIOUS
<1>3. \A k \in 1 .. n : longer[k] = list[k]
    OBVIOUS
<1> HIDE DEF n, longer
<1>4. PICK acc : Run(acc, base, list, n)
    BY <1>1, FoldSteps
<1>5. PICK bcc : Run(bcc, base, longer, n + 1)
    BY <1>2, FoldSteps
<1>6. n + 1 \in 1 .. n + 1 /\ (n + 1) - 1 = n /\ \A k \in 1 .. n : k \in 1 .. n + 1
    BY <1>1
<1>7. bcc[n + 1] = Op(bcc[n], x)
    BY <1>2, <1>5, <1>6 DEF Run
<1>8. acc[n] = bcc[n]
  <2>1. Turns(acc, base, list, n)
        BY <1>4 DEF Run, Turns
  <2>2. Turns(bcc, base, longer, n)
        BY <1>5, <1>6 DEF Run, Turns
  <2>3. \A k \in 1 .. n : list[k] = longer[k]
        BY <1>3
  <2> QED
        BY <1>1, <2>1, <2>2, <2>3, RunsAgree
<1> QED
    BY <1>4, <1>5, <1>7, <1>8 DEF Run, longer
=============================================================================
