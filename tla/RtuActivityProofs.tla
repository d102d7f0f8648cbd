------------------------- MODULE RtuActivityProofs -------------------------
(***************************************************************************)
(* For every frame length, alphabet and bound: however the bytes of a      *)
(* serial line are cut into chunks, each request is counted once, the      *)
(* statistics of the bridge agree with what it answered, and the installer *)
(* is told WRONG ADDRESS exactly when that is so.                          *)
(***************************************************************************)
EXTENDS RtuActivity, FiniteSetTheorems, SequenceTheorems, TLAPS

FrameLoop == INSTANCE Folding WITH Op <- CountFrame
BlockLoop == INSTANCE Folding WITH Op <- CountBlock

-----------------------------------------------------------------------------
(* Lists and their pieces.                                                 *)

\* The same elements, a places further.
LEMMA SamePiece ==
    ASSUME NEW s, NEW t, NEW m \in Int, NEW n \in Int, NEW p \in Int, NEW q \in Int,
           NEW a \in Int, p = a + m, q = a + n,
           \A j \in m .. n : t[j] = s[a + j]
    PROVE  SubSeq(t, m, n) = SubSeq(s, p, q)
<1> DEFINE S == {t[j] : j \in m .. n}
           left == SubSeq(t, m, n)
           right == SubSeq(s, p, q)
<1>0. \A j \in m .. n : t[j] \in S
    OBVIOUS
<1> HIDE DEF S
<1>1. \A j \in p .. q : s[j] \in S
  <2> TAKE j \in p .. q
  <2>1. j - a \in m .. n /\ a + (j - a) = j
        OBVIOUS
  <2> QED
        BY <1>0, <2>1
<1>2. /\ left \in Seq(S) /\ Len(left) = IF m <= n THEN n - m + 1 ELSE 0
      /\ \A i \in 1 .. n - m + 1 : left[i] = t[m + i - 1]
    BY <1>0, SubSeqProperties
<1>3. /\ right \in Seq(S)
      /\ Len(right) = IF p <= q THEN q - p + 1 ELSE 0
      /\ \A i \in 1 .. q - p + 1 : right[i] = s[p + i - 1]
  <2> QED
        BY <1>1, SubSeqProperties
<1> HIDE DEF left, right
<1>4. Len(left) = Len(right)
    BY <1>2, <1>3
<1>5. ASSUME NEW i \in 1 .. Len(left) PROVE left[i] = right[i]
  <2>1. i \in 1 .. n - m + 1 /\ i \in 1 .. q - p + 1
        BY <1>2
  <2>2. m + i - 1 \in m .. n /\ a + (m + i - 1) = p + i - 1
        BY <2>1
  <2> QED
        BY <1>2, <1>3, <2>1, <2>2
<1>6. left = right
    BY <1>2, <1>3, <1>4, <1>5, SeqEqual
<1> QED
    BY <1>6 DEF left, right

LEMMA FinitePart ==
    ASSUME NEW n \in Nat, NEW A \in SUBSET (1 .. n)
    PROVE  IsFiniteSet(A)
<1>1. IsFiniteSet(1 .. n)
    BY FS_Interval
<1> QED
    BY <1>1, FS_Subset

\* As many numbers, d further.
LEMMA ShiftedSet ==
    ASSUME NEW A \in SUBSET Int, IsFiniteSet(A), NEW d \in Int
    PROVE  IsFiniteSet({a + d : a \in A}) /\ Cardinality({a + d : a \in A}) = Cardinality(A)
<1> DEFINE B == {a + d : a \in A}
           f == [a \in A |-> a + d]
<1>0. f \in [A -> B] /\ \A a \in A : f[a] = a + d
    OBVIOUS
<1> HIDE DEF f
<1>1. f \in Bijection(A, B)
  <2>1. \A a, b \in A : f[a] = f[b] => a = b
        BY <1>0
  <2>2. \A b \in B : \E a \in A : f[a] = b
        BY <1>0
  <2> QED
        BY <1>0, <2>1, <2>2 DEF Bijection, Injection, Surjection, IsInjective
<1>2. ExistsBijection(A, B)
    BY <1>1 DEF ExistsBijection
<1> QED
    BY <1>2, FS_Bijection

\* A set of numbers that has every predecessor of its members.
LEMMA PrefixSet ==
    ASSUME NEW n \in Nat, NEW P \in SUBSET (1 .. n), \A i \in P : \A j \in 1 .. i : j \in P
    PROVE  \E m \in 0 .. n : P = 1 .. m /\ Cardinality(P) = m
<1>1. \E m \in 0 .. n : P = 1 .. m
  <2> DEFINE S == {k \in Nat : k <= n => k + 1 \in P \/ \E m \in 0 .. k : P = 1 .. m}
  <2>0. 0 \in S
    <3> SUFFICES ASSUME 0 + 1 \notin P PROVE \E m \in 0 .. 0 : P = 1 .. m
        OBVIOUS
    <3>1. P = {} /\ 1 .. 0 = {}
        OBVIOUS
    <3>2. 0 \in 0 .. 0
        OBVIOUS
    <3> QED
        BY <3>1, <3>2
  <2>1. ASSUME NEW k \in Nat, k \in S PROVE k + 1 \in S
    <3> SUFFICES ASSUME k + 1 <= n, (k + 1) + 1 \notin P
                 PROVE  \E m \in 0 .. k + 1 : P = 1 .. m
        OBVIOUS
    <3>1. CASE k + 1 \in P
      <4>1. \A i \in P : i <= k + 1
            <5> SUFFICES ASSUME NEW i \in P, i > k + 1 PROVE FALSE
                OBVIOUS
            <5>1. (k + 1) + 1 \in 1 .. i
                OBVIOUS
            <5> QED
                BY <5>1
      <4>2. \A i \in 1 .. k + 1 : i \in P
            BY <3>1
      <4>3. \A i \in P : i \in 1 .. k + 1
            BY <4>1
      <4>4. P = 1 .. k + 1
            BY <4>2, <4>3
      <4>5. k + 1 \in 0 .. k + 1
            OBVIOUS
      <4> QED
            BY <4>4, <4>5
    <3>2. CASE \E m \in 0 .. k : P = 1 .. m
        BY <3>2
    <3> QED
        BY <2>1, <3>1, <3>2
  <2> HIDE DEF S
  <2>2. n \in S
        BY <2>0, <2>1, FrameLoop!InductionOverNat
  <2>3. n + 1 \notin P
        OBVIOUS
  <2> QED
        BY <2>2, <2>3 DEF S
<1>2. PICK m \in 0 .. n : P = 1 .. m
    BY <1>1
<1>3. Cardinality(1 .. m) = m
    BY FS_Interval
<1> QED
    BY <1>2, <1>3

\* The last of some positions.
LEMMA LastPosition ==
    ASSUME NEW n \in Nat, NEW P \in SUBSET (1 .. n), P # {}
    PROVE  \E i \in P : \A j \in P : j <= i
<1> DEFINE S == {k \in Nat : \A Q \in SUBSET (1 .. k) :
                    Q # {} => \E i \in Q : \A j \in Q : j <= i}
<1>0. 0 \in S
  <2>1. 1 .. 0 = {}
        OBVIOUS
  <2> QED
        BY <2>1
<1>1. ASSUME NEW k \in Nat, k \in S PROVE k + 1 \in S
  <2> SUFFICES ASSUME NEW Q \in SUBSET (1 .. k + 1), Q # {}
               PROVE  \E i \in Q : \A j \in Q : j <= i
        OBVIOUS
  <2>1. CASE k + 1 \in Q
        BY <2>1
  <2>2. CASE k + 1 \notin Q
    <3>1. Q \in SUBSET (1 .. k)
        BY <2>2
    <3> QED
        BY <1>1, <3>1
  <2> QED
        BY <2>1, <2>2
<1> HIDE DEF S
<1>2. n \in S
    BY <1>0, <1>1, FrameLoop!InductionOverNat
<1> QED
    BY <1>2 DEF S

-----------------------------------------------------------------------------
(* Counters with a bound on their keys.                                    *)

Hits(log, key) == {i \in DOMAIN log : log[i] = key}

\* What counts says of a log of keys: each tracked key has all its entries, and
\* an entry goes uncounted only when the table is full.
Tallied(counts, log, room) ==
    /\ IsFiniteSet(DOMAIN counts) /\ Cardinality(DOMAIN counts) <= room
    /\ IsFiniteSet(DOMAIN log)
    /\ \A key \in DOMAIN counts :
          Hits(log, key) # {} /\ counts[key] = Cardinality(Hits(log, key))
    /\ \A key : key \in DOMAIN counts \/ Hits(log, key) = {}
                  \/ Cardinality(DOMAIN counts) = room

LEMMA NothingTallied ==
    ASSUME NEW log, DOMAIN log = {}, NEW room \in Nat
    PROVE  Tallied(<<>>, log, room)
<1>1. DOMAIN <<>> = {}
    OBVIOUS
<1> QED
    BY <1>1, FS_EmptySet DEF Tallied, Hits

\* One more entry (WireActivity.record, RtuActivity.record).
LEMMA CountedOnce ==
    ASSUME NEW counts, NEW log, NEW more, NEW i, NEW room \in Nat,
           i \notin DOMAIN log, DOMAIN more = DOMAIN log \cup {i},
           \A j \in DOMAIN log : more[j] = log[j], Tallied(counts, log, room)
    PROVE  Tallied(Counted(counts, more[i], room), more, room)
<1> DEFINE key == more[i]
           after == Counted(counts, key, room)
<1>1. IsFiniteSet(DOMAIN more)
    BY FS_AddElement DEF Tallied
<1>2. \A other : other # key => Hits(more, other) = Hits(log, other)
    BY DEF Hits
<1>3. Hits(more, key) = Hits(log, key) \cup {i} /\ i \notin Hits(log, key)
    BY DEF Hits
<1>4. IsFiniteSet(Hits(log, key))
  <2>1. Hits(log, key) \in SUBSET DOMAIN log
        BY DEF Hits
  <2> QED
        BY <2>1, FS_Subset DEF Tallied
<1>5. /\ Cardinality(Hits(more, key)) = Cardinality(Hits(log, key)) + 1
      /\ Cardinality(Hits(log, key)) \in Nat
    BY <1>3, <1>4, FS_AddElement, FS_CardinalityType
<1>6. Cardinality(DOMAIN counts) \in Nat
    BY FS_CardinalityType DEF Tallied
<1>7. CASE key \in DOMAIN counts
  <2>1. DOMAIN after = DOMAIN counts
        BY <1>7 DEF Counted
  <2>2. after[key] = counts[key] + 1
        BY <1>7 DEF Counted
  <2>3. \A other \in DOMAIN counts : other # key => after[other] = counts[other]
    <3> TAKE other \in DOMAIN counts
    <3> HAVE other # key
    <3>1. Cardinality(Hits(log, other)) \in Nat
      <4>1. Hits(log, other) \in SUBSET DOMAIN log
            BY DEF Hits
      <4> QED
            BY <4>1, FS_Subset, FS_CardinalityType DEF Tallied
    <3>2. counts[other] \in Nat
        BY <3>1 DEF Tallied
    <3>3. after[other] = counts[other] + 0
        BY <1>7 DEF Counted
    <3> QED
        BY <3>2, <3>3
  <2> HIDE DEF after
  <2> QED
        BY <1>1, <1>2, <1>3, <1>5, <1>7, <2>1, <2>2, <2>3 DEF Tallied, after
<1>8. CASE key \notin DOMAIN counts /\ Cardinality(DOMAIN counts) < room
  <2>1. DOMAIN after = DOMAIN counts \cup {key}
        BY <1>8 DEF Counted
  <2>2. IsFiniteSet(DOMAIN after) /\ Cardinality(DOMAIN after) = Cardinality(DOMAIN counts) + 1
        BY <1>8, <2>1, FS_AddElement DEF Tallied
  <2>3. Hits(log, key) = {}
        BY <1>6, <1>8 DEF Tallied
  <2>4. after[key] = 1 /\ Cardinality(Hits(more, key)) = 1
        BY <1>5, <1>8, <2>3, FS_EmptySet DEF Counted
  <2>5. \A other \in DOMAIN counts : other # key /\ after[other] = counts[other]
    <3> TAKE other \in DOMAIN counts
    <3>1. Cardinality(Hits(log, other)) \in Nat
      <4>1. Hits(log, other) \in SUBSET DOMAIN log
            BY DEF Hits
      <4> QED
            BY <4>1, FS_Subset, FS_CardinalityType DEF Tallied
    <3>2. counts[other] \in Nat /\ other # key
        BY <1>8, <3>1 DEF Tallied
    <3>3. after[other] = counts[other] + 0
        BY <1>8, <3>2 DEF Counted
    <3> QED
        BY <3>2, <3>3
  <2>6. \A other : other \notin DOMAIN after => Hits(more, other) = {}
        BY <1>2, <1>6, <1>8, <2>1 DEF Tallied
  <2> HIDE DEF after
  <2> QED
        BY <1>1, <1>2, <1>3, <1>6, <1>8, <2>1, <2>2, <2>4, <2>5, <2>6 DEF Tallied, after
<1>9. CASE key \notin DOMAIN counts /\ ~(Cardinality(DOMAIN counts) < room)
  <2>1. after = counts
        BY <1>9 DEF Counted
  <2>2. Cardinality(DOMAIN counts) = room
        BY <1>6, <1>9 DEF Tallied
  <2> HIDE DEF after
  <2> QED
        BY <1>1, <1>2, <1>9, <2>1, <2>2 DEF Tallied, after
<1> QED
    BY <1>7, <1>8, <1>9

-----------------------------------------------------------------------------
(* WireActivity: the tail and the windows.                                 *)

\* The requests among the first n windows of s, and whom they address.
RequestLog(s, n) == [i \in {i \in 1 .. n : IsRequest(Window(s, i))} |-> s[i]]

\* Windows of s that were seen when all of s had been received.
Done(s) == IF Len(s) < FrameLen THEN 0 ELSE Len(s) - FrameLen + 1

WireInv ==
    /\ stream \in Seq(Bytes)
    /\ tail = KeepTail(stream)
    /\ Tallied(frames, RequestLog(stream, Done(stream)), MaxIds)

LEMMA DoneType ==
    ASSUME NEW s \in Seq(Bytes)
    PROVE  /\ Done(s) \in Nat /\ Done(s) <= Len(s)
           /\ DOMAIN Windows(s) = 1 .. Done(s)
           /\ \A i \in 1 .. Done(s) : i + FrameLen - 1 \in 1 .. Len(s)
BY WireConstants DEF Done, Windows

\* The bytes the next scan sees: those of the stream from the first window
\* that was not complete before.
LEMMA BufferIsStream ==
    ASSUME NEW s \in Seq(Bytes), NEW data \in Seq(Bytes)
    PROVE  /\ KeepTail(s) \o data \in Seq(Bytes) /\ s \o data \in Seq(Bytes)
           /\ Len(s \o data) = Len(s) + Len(data)
           /\ Len(KeepTail(s) \o data) = Len(s \o data) - Done(s)
           /\ \A j \in 1 .. Len(KeepTail(s) \o data) :
                 (KeepTail(s) \o data)[j] = (s \o data)[Done(s) + j]
<1> DEFINE first == IF Len(s) < FrameLen THEN 1 ELSE Len(s) - FrameLen + 2
<1>1. Len(s) \in Nat /\ Len(data) \in Nat
    OBVIOUS
<1>2. first \in 1 .. Len(s) + 1 /\ first = Done(s) + 1
    BY <1>1, WireConstants DEF Done
<1>3. KeepTail(s) = SubSeq(s, first, Len(s))
    BY DEF KeepTail
<1> HIDE DEF first
<1>4. /\ KeepTail(s) \in Seq(Bytes) /\ Len(KeepTail(s)) = Len(s) - Done(s)
      /\ \A i \in 1 .. Len(s) - Done(s) : KeepTail(s)[i] = s[Done(s) + i]
  <2>1. \A i \in first .. Len(s) : s[i] \in Bytes
        BY <1>1, <1>2
  <2>2. /\ KeepTail(s) \in Seq(Bytes)
        /\ Len(KeepTail(s)) = IF first <= Len(s) THEN Len(s) - first + 1 ELSE 0
        /\ \A i \in 1 .. Len(s) - first + 1 : KeepTail(s)[i] = s[first + i - 1]
        BY <1>1, <1>2, <1>3, <2>1, SubSeqProperties
  <2>3. Done(s) \in Nat
        BY DoneType
  <2>4. Len(s) - first + 1 = Len(s) - Done(s)
        BY <1>1, <1>2, <2>3
  <2>5. ASSUME NEW i \in 1 .. Len(s) - Done(s) PROVE KeepTail(s)[i] = s[Done(s) + i]
    <3>1. first + i - 1 = Done(s) + i /\ i \in 1 .. Len(s) - first + 1
        BY <1>1, <1>2, <2>3
    <3> QED
        BY <2>2, <3>1
  <2>6. Len(KeepTail(s)) = Len(s) - Done(s)
        BY <1>1, <1>2, <2>2, <2>3
  <2> QED
        BY <2>2, <2>5, <2>6
<1>5. Done(s) \in Nat /\ Done(s) <= Len(s)
    BY DoneType
<1>6. /\ s \o data \in Seq(Bytes) /\ Len(s \o data) = Len(s) + Len(data)
      /\ \A i \in 1 .. Len(s) + Len(data) :
            (s \o data)[i] = IF i <= Len(s) THEN s[i] ELSE data[i - Len(s)]
    BY ConcatProperties
<1>7. /\ KeepTail(s) \o data \in Seq(Bytes)
      /\ Len(KeepTail(s) \o data) = Len(KeepTail(s)) + Len(data)
      /\ \A i \in 1 .. Len(KeepTail(s)) + Len(data) : (KeepTail(s) \o data)[i] =
            IF i <= Len(KeepTail(s)) THEN KeepTail(s)[i] ELSE data[i - Len(KeepTail(s))]
    BY <1>4, ConcatProperties
<1>8. ASSUME NEW j \in 1 .. Len(KeepTail(s) \o data)
      PROVE  (KeepTail(s) \o data)[j] = (s \o data)[Done(s) + j]
  <2>1. /\ j \in 1 .. Len(KeepTail(s)) + Len(data) /\ Done(s) + j \in 1 .. Len(s) + Len(data)
        /\ j <= Len(KeepTail(s)) <=> Done(s) + j <= Len(s)
        /\ (Done(s) + j) - Len(s) = j - Len(KeepTail(s))
        BY <1>1, <1>4, <1>5, <1>7
  <2>2. CASE j <= Len(KeepTail(s))
    <3>1. j \in 1 .. Len(s) - Done(s)
        BY <1>1, <1>4, <1>5, <2>2
    <3> QED
        BY <1>4, <1>6, <1>7, <2>1, <2>2, <3>1
  <2>3. CASE ~(j <= Len(KeepTail(s)))
        BY <1>6, <1>7, <2>1, <2>3
  <2> QED
        BY <2>2, <2>3
<1>9. Len(KeepTail(s) \o data) = Len(s \o data) - Done(s)
    BY <1>1, <1>4, <1>5, <1>6, <1>7
<1> QED
    BY <1>6, <1>7, <1>8, <1>9

\* However a stream is cut, what a scan keeps is what the whole stream would
\* keep, and it sees each complete window that ends in the new bytes, once.
LEMMA CutAnywhere ==
    ASSUME NEW s \in Seq(Bytes), NEW data \in Seq(Bytes), data # <<>>
    PROVE  LET buffer == KeepTail(s) \o data
               whole == s \o data
           IN /\ KeepTail(buffer) = KeepTail(whole)
              /\ Done(whole) = Done(s) + Done(buffer)
              /\ \A i \in 1 .. Done(buffer) :
                    /\ Window(buffer, i) = Window(whole, Done(s) + i)
                    /\ Window(buffer, i)[1] = whole[Done(s) + i]
              /\ \A i \in 1 .. Done(s) : Window(whole, i) = Window(s, i) /\ whole[i] = s[i]
<1> DEFINE buffer == KeepTail(s) \o data
           whole == s \o data
           n == Done(s)
<1>1. /\ buffer \in Seq(Bytes) /\ whole \in Seq(Bytes)
      /\ Len(whole) = Len(s) + Len(data)
      /\ Len(buffer) = Len(whole) - n
      /\ \A j \in 1 .. Len(buffer) : buffer[j] = whole[n + j]
    BY BufferIsStream
<1>2. /\ n \in Nat /\ n <= Len(s) /\ Len(s) \in Nat /\ Len(data) \in Nat \ {0}
      /\ FrameLen \in Nat /\ FrameLen >= 3
    BY DoneType, WireConstants
<1>w. \A i \in 1 .. Len(s) : whole[i] = s[i]
    BY ConcatProperties
<1>n. n = IF Len(s) < FrameLen THEN 0 ELSE Len(s) - FrameLen + 1
    BY DEF Done
<1>e. \A j \in 1 .. Len(buffer) : buffer[j] \in Bytes
    BY <1>1, ElementOfSeq
<1>s. \A j \in 1 .. Len(s) : s[j] \in Bytes
    BY ElementOfSeq
<1>d. Done(buffer) \in Nat /\ \A i \in 1 .. Done(buffer) : i + FrameLen - 1 \in 1 .. Len(buffer)
    BY <1>1, DoneType
<1> HIDE DEF buffer, whole, n
<1>l. /\ Len(whole) \in Nat /\ Len(buffer) \in Nat
      /\ \/ n = 0 /\ Len(s) < FrameLen /\ Len(buffer) = Len(whole)
         \/ /\ n = Len(s) - FrameLen + 1 /\ Len(buffer) = FrameLen - 1 + Len(data)
            /\ Len(buffer) >= FrameLen /\ Len(whole) >= FrameLen
  <2>1. Len(whole) \in Nat /\ Len(buffer) \in Nat
        BY <1>1, <1>2
  <2>2. CASE Len(s) < FrameLen
        BY <1>1, <1>2, <1>n, <2>1, <2>2
  <2>3. CASE ~(Len(s) < FrameLen)
    <3>1. n = Len(s) - FrameLen + 1
        BY <1>n, <2>3
    <3> QED
        BY <1>1, <1>2, <2>1, <2>3, <3>1
  <2> QED
        BY <2>1, <2>2, <2>3
<1>3. Done(whole) = n + Done(buffer)
    BY <1>1, <1>2, <1>l DEF Done
<1>4. KeepTail(buffer) = KeepTail(whole)
  <2> DEFINE first == IF Len(buffer) < FrameLen THEN 1 ELSE Len(buffer) - FrameLen + 2
  <2>1. /\ first \in Int /\ first >= 1 /\ Len(buffer) \in Int
        /\ n + Len(buffer) = Len(whole)
        /\ n + first = IF Len(whole) < FrameLen THEN 1 ELSE Len(whole) - FrameLen + 2
        BY <1>1, <1>2, <1>l
  <2>2. KeepTail(buffer) = SubSeq(buffer, first, Len(buffer))
        BY DEF KeepTail
  <2>3. KeepTail(whole) = SubSeq(whole, n + first, n + Len(buffer))
        BY <2>1 DEF KeepTail
  <2> HIDE DEF first
  <2>4. \A j \in first .. Len(buffer) : buffer[j] = whole[n + j]
        BY <1>1, <2>1
  <2> DEFINE last == Len(buffer)
             from == n + first
             to == n + last
  <2>a. /\ first \in Int /\ last \in Int /\ from \in Int /\ to \in Int /\ n \in Int
        /\ from = n + first /\ to = n + last
        BY <1>2, <2>1
  <2>b. \A j \in first .. last : buffer[j] = whole[n + j]
        BY <2>4
  <2> HIDE DEF last, from, to
  <2>c. SubSeq(buffer, first, last) = SubSeq(whole, from, to)
        BY <2>a, <2>b, SamePiece
  <2>5. SubSeq(buffer, first, Len(buffer)) = SubSeq(whole, n + first, n + Len(buffer))
        BY <2>c DEF last, from, to
  <2> QED
        BY <2>2, <2>3, <2>5
<1>5. ASSUME NEW i \in 1 .. Done(buffer)
      PROVE  Window(buffer, i) = Window(whole, n + i) /\ Window(buffer, i)[1] = whole[n + i]
  <2>1. /\ i \in Int /\ i + FrameLen - 1 \in Int /\ i \in 1 .. Len(buffer)
        /\ i + FrameLen - 1 \in 1 .. Len(buffer)
        BY <1>1, <1>2, DoneType
  <2>2. \A j \in i .. i + FrameLen - 1 : buffer[j] \in Bytes /\ buffer[j] = whole[n + j]
        BY <1>1, <1>e, <2>1
  <2> DEFINE last == i + FrameLen - 1
             from == n + i
             to == from + FrameLen - 1
  <2>a. /\ last \in Int /\ from \in Int /\ to \in Int /\ n \in Int
        /\ from = n + i /\ to = n + last
        BY <1>2, <2>1
  <2>b. \A j \in i .. last : buffer[j] = whole[n + j]
        BY <2>2
  <2> HIDE DEF last, from, to
  <2>c. SubSeq(buffer, i, last) = SubSeq(whole, from, to)
        BY <2>1, <2>a, <2>b, SamePiece
  <2>3. SubSeq(buffer, i, i + FrameLen - 1) = SubSeq(whole, n + i, (n + i) + FrameLen - 1)
        BY <2>c DEF last, from, to
  <2>5. \A k \in 1 .. (i + FrameLen - 1) - i + 1 :
           SubSeq(buffer, i, i + FrameLen - 1)[k] = buffer[i + k - 1]
        BY <2>1, <2>2, SubSeqProperties
  <2>6. 1 \in 1 .. (i + FrameLen - 1) - i + 1 /\ i + 1 - 1 = i
        BY <1>2, <2>1
  <2>7. SubSeq(buffer, i, i + FrameLen - 1)[1] = buffer[i]
        BY <2>5, <2>6
  <2> QED
        BY <1>1, <2>1, <2>3, <2>7 DEF Window
<1>6. ASSUME NEW i \in 1 .. n
      PROVE  Window(whole, i) = Window(s, i) /\ whole[i] = s[i]
  <2>1. i \in Int /\ i \in 1 .. Len(s) /\ i + FrameLen - 1 \in 1 .. Len(s)
        BY <1>2, <1>n
  <2>2. \A j \in i .. i + FrameLen - 1 : whole[j] \in Bytes /\ whole[j] = s[0 + j]
        BY <1>w, <1>s, <1>2, <2>1
  <2>3. SubSeq(whole, i, i + FrameLen - 1) = SubSeq(s, 0 + i, 0 + (i + FrameLen - 1))
        BY <2>1, <2>2, SamePiece
  <2> QED
        BY <1>w, <2>1, <2>3 DEF Window
<1> QED
    BY <1>3, <1>4, <1>5, <1>6 DEF buffer, whole, n

-----------------------------------------------------------------------------
(* WireActivity: the count.                                                *)

LEMMA LogType ==
    ASSUME NEW s, NEW n \in Nat
    PROVE  IsFiniteSet(DOMAIN RequestLog(s, n))
<1>1. DOMAIN RequestLog(s, n) \in SUBSET (1 .. n) /\ IsFiniteSet(1 .. n)
    BY FS_Interval DEF RequestLog
<1> QED
    BY <1>1, FS_Subset

LEMMA CountFramesIsFold ==
    ASSUME NEW counts, NEW list
    PROVE  CountFrames(counts, list) = FrameLoop!Fold(counts, list)
BY DEF CountFrames, FoldLeft, MapThenFoldSet, Max, FrameLoop!Fold, FrameLoop!FoldLeft,
       FrameLoop!MapThenFoldSet, FrameLoop!Max

\* Going through the frames of a buffer in order counts the requests among
\* the windows the stream has gained (scan_rtu_requests, WireActivity.record).
LEMMA FramesAreCounted ==
    ASSUME WireInv, NEW data \in Seq(Bytes), data # <<>>
    PROVE  Tallied(CountFrames(frames, Windows(tail \o data)),
                   RequestLog(stream \o data, Done(stream \o data)), MaxIds)
<1> DEFINE buffer == tail \o data
           whole == stream \o data
           list == Windows(buffer)
           d == Done(stream)
           n == Done(buffer)
<1>1. /\ stream \in Seq(Bytes) /\ tail = KeepTail(stream)
      /\ buffer \in Seq(Bytes)
    BY BufferIsStream DEF WireInv
<1>2. /\ Done(whole) = d + n
      /\ \A i \in 1 .. n : Window(buffer, i) = Window(whole, d + i)
                             /\ Window(buffer, i)[1] = whole[d + i]
      /\ \A i \in 1 .. d : Window(whole, i) = Window(stream, i) /\ whole[i] = stream[i]
    BY <1>1, CutAnywhere
<1>3. d \in Nat /\ n \in Nat /\ DOMAIN list = 1 .. n
    BY <1>1, DoneType
<1>4. \A k \in 1 .. n : list[k] = Window(whole, d + k) /\ list[k][1] = whole[d + k]
    BY <1>2, <1>3 DEF Windows
<1>6. RequestLog(whole, d) = RequestLog(stream, d)
    BY <1>2 DEF RequestLog
<1>7. Tallied(frames, RequestLog(whole, d), MaxIds)
    BY <1>6 DEF WireInv
<1>8. MaxIds \in Nat
    BY WireConstants
<1> HIDE DEF buffer, whole, list, d, n
<1>a. PICK acc : FrameLoop!Run(acc, frames, list, n)
    BY <1>3, FrameLoop!FoldSteps
<1>9. /\ acc[0] = frames
      /\ \A k \in 1 .. n : acc[k] = CountFrame(acc[k - 1], list[k])
      /\ CountFrames(frames, list) = acc[n]
    BY <1>a, CountFramesIsFold DEF FrameLoop!Run
<1> DEFINE S == {k \in Nat : k <= n => Tallied(acc[k], RequestLog(whole, d + k), MaxIds)}
<1>10. 0 \in S
  <2>1. d + 0 = d
        BY <1>3
  <2> QED
        BY <1>7, <1>9, <2>1
<1>11. ASSUME NEW k \in Nat, k \in S PROVE k + 1 \in S
  <2> SUFFICES ASSUME k + 1 <= n
               PROVE  Tallied(acc[k + 1], RequestLog(whole, d + (k + 1)), MaxIds)
        OBVIOUS
  <2> DEFINE i == d + (k + 1)
             log == RequestLog(whole, d + k)
             more == RequestLog(whole, i)
  <2>1. k + 1 \in 1 .. n /\ (k + 1) - 1 = k /\ k <= n /\ i \in Nat /\ i \notin 1 .. d + k
          /\ 1 .. i = (1 .. d + k) \cup {i}
        BY <1>3
  <2>2. acc[k + 1] = CountFrame(acc[k], list[k + 1])
        BY <1>9, <2>1
  <2>3. list[k + 1] = Window(whole, i) /\ list[k + 1][1] = whole[i]
        BY <1>4, <2>1
  <2>4. Tallied(acc[k], log, MaxIds)
        BY <1>11, <2>1
  <2>5. CASE IsRequest(Window(whole, i))
    <3>1. DOMAIN more = DOMAIN log \cup {i} /\ i \notin DOMAIN log
        BY <2>1, <2>5 DEF RequestLog
    <3>2. more[i] = whole[i] /\ \A j \in DOMAIN log : more[j] = log[j]
        BY <2>1, <2>5 DEF RequestLog
    <3>3. acc[k + 1] = Counted(acc[k], more[i], MaxIds)
        BY <2>2, <2>3, <2>5, <3>2 DEF CountFrame
    <3> HIDE DEF more, log, i
    <3>4. Tallied(acc[k + 1], more, MaxIds)
        BY <1>8, <2>4, <3>1, <3>2, <3>3, CountedOnce
    <3> QED
        BY <3>4 DEF more, i
  <2>6. CASE ~IsRequest(Window(whole, i))
    <3>1. more = log
        BY <2>1, <2>6 DEF RequestLog
    <3>2. acc[k + 1] = acc[k]
        BY <2>2, <2>3, <2>6 DEF CountFrame
    <3> QED
        BY <2>4, <3>1, <3>2
  <2> QED
        BY <2>5, <2>6
<1> HIDE DEF S
<1>12. Nat \subseteq S
    BY <1>10, <1>11, FrameLoop!InductionOverNat
<1>13. Tallied(acc[n], RequestLog(whole, d + n), MaxIds)
    BY <1>3, <1>12 DEF S
<1> QED
    BY <1>2, <1>9, <1>13 DEF buffer, whole, list

LEMMA InitWire == Init => WireInv
<1> SUFFICES ASSUME Init PROVE WireInv
    OBVIOUS
<1>1. stream = <<>> /\ tail = <<>> /\ frames = <<>>
    BY DEF Init
<1>2. Done(stream) = 0 /\ KeepTail(stream) = <<>>
    BY <1>1, WireConstants DEF Done, KeepTail
<1>3. DOMAIN RequestLog(stream, 0) = {}
    BY DEF RequestLog
<1>4. Tallied(<<>>, RequestLog(stream, 0), MaxIds)
    BY <1>3, WireConstants, NothingTallied
<1> QED
    BY <1>1, <1>2, <1>4 DEF WireInv

LEMMA RecordWire == WireInv /\ Record => WireInv'
<1> SUFFICES ASSUME WireInv, Record PROVE WireInv'
    OBVIOUS
<1>0. PICK n \in 1 .. MaxChunk : \E data \in [1 .. n -> Bytes] :
         /\ stream' = stream \o data
         /\ frames' = CountFrames(frames, Windows(tail \o data))
         /\ tail' = KeepTail(tail \o data)
    BY DEF Record
<1>1. PICK data \in [1 .. n -> Bytes] :
         /\ stream' = stream \o data
         /\ frames' = CountFrames(frames, Windows(tail \o data))
         /\ tail' = KeepTail(tail \o data)
    BY <1>0
<1>2. n \in Nat /\ n >= 1
    BY WireConstants
<1>3. data \in Seq(Bytes) /\ Len(data) = n /\ data # <<>>
    BY <1>2
<1>4. stream' \in Seq(Bytes) /\ tail' = KeepTail(stream')
    BY <1>1, <1>3, BufferIsStream, CutAnywhere DEF WireInv
<1>5. Tallied(frames', RequestLog(stream', Done(stream')), MaxIds)
    BY <1>1, <1>3, FramesAreCounted
<1> QED
    BY <1>4, <1>5 DEF WireInv

LEMMA RequestsAreLogged ==
    ASSUME WireInv, NEW id
    PROVE  Requests(id) = Hits(RequestLog(stream, Done(stream)), id)
<1>1. DOMAIN Windows(stream) = 1 .. Done(stream)
    BY DoneType DEF WireInv
<1> QED
    BY <1>1 DEF Requests, Hits, RequestLog

LEMMA WireIsExact == WireInv => CountsEachRequestOnce
<1> SUFFICES ASSUME WireInv, NEW id \in Bytes
             PROVE  IF id \in DOMAIN frames THEN frames[id] = Cardinality(Requests(id))
                    ELSE Requests(id) = {} \/ Cardinality(DOMAIN frames) = MaxIds
    BY DEF CountsEachRequestOnce
<1> QED
    BY RequestsAreLogged DEF WireInv, Tallied

\* The counts of a port are exact, whatever the chunks its bytes come in.
THEOREM WireCounts == Spec => []CountsEachRequestOnce
<1>1. WireInv /\ [Next]_vars => WireInv'
  <2>1. WireInv /\ UNCHANGED vars => WireInv'
    <3> SUFFICES ASSUME WireInv, stream' = stream, tail' = tail, frames' = frames
                 PROVE  WireInv'
        BY DEF vars
    <3> QED
        BY DEF WireInv
  <2> QED
        BY <2>1, RecordWire DEF Next
<1> QED
    BY <1>1, InitWire, WireIsExact, PTL DEF Spec

-----------------------------------------------------------------------------
(* RtuActivity: what is kept of the reads.                                 *)

Read == [ts : Nat, block : Bytes]
HeardLog(h) == [i \in DOMAIN h |-> h[i].block]

\* The deque holds the times of the last reads, and those it lost are old.
TimesKept ==
    /\ times \in Seq(Nat) /\ Len(times) <= Len(heard)
    /\ \A i \in 1 .. Len(times) : times[i] = heard[Len(heard) - Len(times) + i].ts
    /\ \A i \in 1 .. Len(heard) - Len(times) : now - heard[i].ts > RateWindow

LastSeen ==
    \A block : IF block \in DOMAIN addrLastSeen
               THEN \E i \in Reads(block) : /\ heard[i].ts = addrLastSeen[block]
                                            /\ \A j \in Reads(block) : j <= i
               ELSE Reads(block) = {}

ReadsKept ==
    /\ now \in Nat /\ heard \in Seq(Read)
    /\ Tallied(blocks, HeardLog(heard), MaxBlocks)
    /\ recent = LastOf(heard, RecentMaxlen)
    /\ TimesKept
    /\ LastSeen

LEMMA CountBlocksIsFold ==
    ASSUME NEW counts, NEW list
    PROVE  CountBlocks(counts, list) = BlockLoop!Fold(counts, list)
BY DEF CountBlocks, FoldLeft, MapThenFoldSet, Max, BlockLoop!Fold, BlockLoop!FoldLeft,
       BlockLoop!MapThenFoldSet, BlockLoop!Max

\* The reads of a chunk follow those before it.
LEMMA HeardGrows ==
    ASSUME ReadsKept, NEW reads \in Seq(Bytes), RecordReads(reads)
    PROVE  /\ heard' \in Seq(Read) /\ Len(heard') = Len(heard) + Len(reads)
           /\ Len(heard) \in Nat /\ Len(reads) \in Nat
           /\ \A i \in 1 .. Len(heard) : heard'[i] = heard[i]
           /\ \A i \in 1 .. Len(reads) :
                 heard'[Len(heard) + i] = [ts |-> now, block |-> reads[i]]
<1> DEFINE stamped == [i \in DOMAIN reads |-> [ts |-> now, block |-> reads[i]]]
           h == Len(heard)
           n == Len(reads)
<1>1. heard' = heard \o stamped
    BY DEF RecordReads
<1>2. n \in Nat /\ DOMAIN reads = 1 .. n /\ h \in Nat /\ now \in Nat /\ heard \in Seq(Read)
    BY DEF ReadsKept
<1>3. \A i \in 1 .. n : reads[i] \in Bytes
    BY ElementOfSeq
<1>4. stamped \in [1 .. n -> Read]
    BY <1>2, <1>3 DEF Read
<1>5. stamped \in Seq(Read) /\ Len(stamped) = n
    BY <1>2, <1>4
<1>6. \A i \in 1 .. n : stamped[i] = [ts |-> now, block |-> reads[i]]
    BY <1>2
<1> HIDE DEF stamped
<1>c. /\ heard \o stamped \in Seq(Read)
      /\ Len(heard \o stamped) = Len(heard) + Len(stamped)
      /\ \A i \in 1 .. Len(heard) + Len(stamped) : (heard \o stamped)[i] =
            IF i <= Len(heard) THEN heard[i] ELSE stamped[i - Len(heard)]
    BY <1>2, <1>5, ConcatProperties
<1>7. /\ heard \o stamped \in Seq(Read) /\ Len(heard \o stamped) = h + n
      /\ \A i \in 1 .. h + n :
            (heard \o stamped)[i] = IF i <= h THEN heard[i] ELSE stamped[i - h]
    BY <1>5, <1>c
<1>8. ASSUME NEW i \in 1 .. n PROVE heard'[h + i] = stamped[i]
  <2>1. h + i \in 1 .. h + n /\ ~(h + i <= h) /\ (h + i) - h = i
        BY <1>2
  <2> QED
        BY <1>1, <1>7, <2>1
<1>9. \A i \in 1 .. h : heard'[i] = heard[i]
  <2>1. \A i \in 1 .. h : i \in 1 .. h + n /\ i <= h
        BY <1>2
  <2> QED
        BY <1>1, <1>7, <2>1
<1> QED
    BY <1>1, <1>2, <1>6, <1>7, <1>8, <1>9

\* The capped counter of blocks (RtuActivity.record).
LEMMA BlocksAreCounted ==
    ASSUME ReadsKept, NEW reads \in Seq(Bytes), RecordReads(reads)
    PROVE  Tallied(blocks', HeardLog(heard'), MaxBlocks)
<1> DEFINE h == Len(heard)
           n == Len(reads)
           log(k) == [i \in 1 .. h + k |-> heard'[i].block]
<1>1. /\ heard' \in Seq(Read) /\ Len(heard') = h + n /\ h \in Nat /\ n \in Nat
      /\ \A i \in 1 .. h : heard'[i] = heard[i]
      /\ \A i \in 1 .. n : heard'[h + i].block = reads[i]
  <2>1. \A i \in 1 .. n : heard'[h + i] = [ts |-> now, block |-> reads[i]]
        BY HeardGrows
  <2>2. \A i \in 1 .. n : heard'[h + i].block = reads[i]
    <3> HIDE DEF h, n
    <3> TAKE i \in 1 .. n
    <3>1. heard'[h + i] = [ts |-> now, block |-> reads[i]]
        BY <2>1
    <3> QED
        BY <3>1
  <2> HIDE DEF h, n
  <2> QED
        BY <2>2, HeardGrows DEF h, n
<1>2. DOMAIN reads = 1 .. n /\ DOMAIN heard = 1 .. h /\ DOMAIN heard' = 1 .. h + n
    BY <1>1 DEF ReadsKept
<1>3. MaxBlocks \in Nat
    BY ActivityConstants
<1>4. blocks' = BlockLoop!Fold(blocks, reads)
    BY CountBlocksIsFold DEF RecordReads
<1>5. HeardLog(heard') = log(n)
    BY <1>2 DEF HeardLog
<1>6. HeardLog(heard) = log(0)
    BY <1>1, <1>2 DEF HeardLog
<1> HIDE DEF h, n, log
<1>a. PICK acc : BlockLoop!Run(acc, blocks, reads, n)
    BY <1>1, <1>2, BlockLoop!FoldSteps
<1>7. /\ acc[0] = blocks
      /\ \A k \in 1 .. n : acc[k] = CountBlock(acc[k - 1], reads[k])
      /\ blocks' = acc[n]
    BY <1>4, <1>a DEF BlockLoop!Run
<1> DEFINE S == {k \in Nat : k <= n => Tallied(acc[k], log(k), MaxBlocks)}
<1>8. 0 \in S
    BY <1>6, <1>7 DEF ReadsKept
<1>9. ASSUME NEW k \in Nat, k \in S PROVE k + 1 \in S
  <2> SUFFICES ASSUME k + 1 <= n PROVE Tallied(acc[k + 1], log(k + 1), MaxBlocks)
        OBVIOUS
  <2> DEFINE i == h + (k + 1)
  <2>1. /\ k + 1 \in 1 .. n /\ (k + 1) - 1 = k /\ k <= n
        /\ i \notin 1 .. h + k /\ 1 .. i = (1 .. h + k) \cup {i}
        BY <1>1
  <2>2. acc[k + 1] = Counted(acc[k], reads[k + 1], MaxBlocks)
        BY <1>7, <2>1 DEF CountBlock
  <2>3. DOMAIN log(k + 1) = DOMAIN log(k) \cup {i} /\ i \notin DOMAIN log(k)
        BY <2>1 DEF log
  <2>4. \A j \in DOMAIN log(k) : log(k + 1)[j] = log(k)[j]
        BY <2>1 DEF log
  <2>5. log(k + 1)[i] = reads[k + 1]
        BY <1>1, <2>1 DEF log
  <2>6. Tallied(acc[k], log(k), MaxBlocks)
        BY <1>9, <2>1
  <2> HIDE DEF i
  <2>7. Tallied(Counted(acc[k], log(k + 1)[i], MaxBlocks), log(k + 1), MaxBlocks)
        BY <1>3, <2>3, <2>4, <2>6, CountedOnce
  <2> QED
        BY <2>2, <2>5, <2>7
<1> HIDE DEF S
<1>10. n \in S
  <2>1. Nat \subseteq S
        BY <1>8, <1>9, BlockLoop!InductionOverNat
  <2> QED
        BY <1>1, <2>1
<1> QED
    BY <1>1, <1>5, <1>7, <1>10 DEF S

\* The deque of the last reads (deque(maxlen) of RtuActivity).
LEMMA RecentAreLast ==
    ASSUME ReadsKept, NEW reads \in Seq(Bytes), RecordReads(reads)
    PROVE  recent' = LastOf(heard', RecentMaxlen)
<1> DEFINE stamped == [i \in DOMAIN reads |-> [ts |-> now, block |-> reads[i]]]
           R == RecentMaxlen
           h == Len(heard)
           n == Len(reads)
           gone == IF h > R THEN h - R ELSE 0
           kept == recent \o stamped
           first == IF Len(kept) > R THEN Len(kept) - R + 1 ELSE 1
           from == IF h + n > R THEN h + n - R + 1 ELSE 1
<1>1. /\ heard' \in Seq(Read) /\ Len(heard') = h + n /\ h \in Nat /\ n \in Nat
      /\ \A i \in 1 .. h : heard'[i] = heard[i]
      /\ \A i \in 1 .. n : heard'[h + i] = [ts |-> now, block |-> reads[i]]
    BY HeardGrows
<1>2. R \in Nat /\ R >= 1 /\ heard \in Seq(Read) /\ recent = LastOf(heard, R)
    BY ActivityConstants DEF ReadsKept
<1>3. heard' = heard \o stamped /\ recent' = LastOf(kept, R)
    BY DEF RecordReads
<1>4. DOMAIN reads = 1 .. n
    OBVIOUS
<1>5. stamped \in Seq(Read) /\ Len(stamped) = n
      /\ \A i \in 1 .. n : stamped[i] = [ts |-> now, block |-> reads[i]]
  <2>1. \A i \in 1 .. n : reads[i] \in Bytes
        BY ElementOfSeq
  <2>2. stamped \in [1 .. n -> Read]
        BY <1>4, <2>1 DEF ReadsKept, Read
  <2> QED
        BY <1>1, <1>4, <2>2
<1>6. gone \in Nat /\ gone <= h /\ (IF h > R THEN h - R + 1 ELSE 1) = gone + 1
    BY <1>1, <1>2
<1>7. /\ recent \in Seq(Read) /\ Len(recent) = h - gone
      /\ \A i \in 1 .. h - gone : recent[i] = heard[gone + i]
  <2>1. recent = SubSeq(heard, gone + 1, h)
        BY <1>2, <1>6 DEF LastOf
  <2>2. \A i \in gone + 1 .. h : heard[i] \in Read
        BY <1>1, <1>2, <1>6, ElementOfSeq
  <2>3. /\ recent \in Seq(Read)
        /\ Len(recent) = IF gone + 1 <= h THEN h - (gone + 1) + 1 ELSE 0
        /\ \A i \in 1 .. h - (gone + 1) + 1 : recent[i] = heard[(gone + 1) + i - 1]
        BY <1>1, <1>6, <2>1, <2>2, SubSeqProperties
  <2>4. h - (gone + 1) + 1 = h - gone
        BY <1>1, <1>6
  <2>5. Len(recent) = h - gone
        BY <1>1, <1>6, <2>3
  <2>6. ASSUME NEW i \in 1 .. h - gone PROVE recent[i] = heard[gone + i]
    <3>1. (gone + 1) + i - 1 = gone + i
        BY <1>1, <1>6
    <3> QED
        BY <2>3, <2>4, <3>1
  <2> QED
        BY <2>3, <2>5, <2>6
<1> HIDE DEF stamped
<1>c. /\ kept \in Seq(Read) /\ Len(kept) = Len(recent) + Len(stamped)
      /\ \A i \in 1 .. Len(recent) + Len(stamped) :
            kept[i] = IF i <= Len(recent) THEN recent[i] ELSE stamped[i - Len(recent)]
  <2>1. recent \in Seq(Read) /\ stamped \in Seq(Read)
        BY <1>5, <1>7
  <2> HIDE DEF h, n, gone
  <2> QED
        BY <2>1, ConcatProperties
<1>8. /\ kept \in Seq(Read) /\ Len(kept) = Len(recent) + n
      /\ \A i \in 1 .. Len(recent) + n :
            kept[i] = IF i <= Len(recent) THEN recent[i] ELSE stamped[i - Len(recent)]
    BY <1>5, <1>c
<1> HIDE DEF kept, h, n, R
<1>g. (h > R /\ gone = h - R) \/ (h <= R /\ gone = 0)
    BY <1>1, <1>2
<1> HIDE DEF gone
<1>9. \A j \in 1 .. Len(kept) : kept[j] \in Read /\ kept[j] = heard'[gone + j]
  <2> TAKE j \in 1 .. Len(kept)
  <2>1. kept[j] \in Read
        BY <1>8, ElementOfSeq
  <2>2. j \in 1 .. Len(recent) + n /\ Len(recent) \in Nat
        BY <1>8, <1>7
  <2>3. CASE j <= Len(recent)
    <3>1. j \in 1 .. h - gone /\ gone + j \in 1 .. h
        BY <1>1, <1>6, <1>7, <2>2, <2>3
    <3> QED
        BY <1>1, <1>7, <1>8, <2>1, <2>2, <2>3, <3>1
  <2>4. CASE ~(j <= Len(recent))
    <3>1. j - Len(recent) \in 1 .. n /\ h + (j - Len(recent)) = gone + j
        BY <1>1, <1>6, <1>7, <2>2, <2>4
    <3>2. heard'[h + (j - Len(recent))] = stamped[j - Len(recent)]
        BY <1>1, <1>5, <3>1
    <3> QED
        BY <1>8, <2>1, <2>2, <2>4, <3>1, <3>2
  <2> QED
        BY <2>3, <2>4
<1>l. Len(kept) = h - gone + n
    BY <1>7, <1>8
<1>10. /\ first \in Int /\ first >= 1 /\ Len(kept) \in Int /\ from \in Int /\ h + n \in Int
       /\ from = gone + first /\ h + n = gone + Len(kept)
  <2>1. Len(kept) \in Int /\ h + n \in Int /\ h + n = gone + Len(kept)
        BY <1>1, <1>6, <1>l
  <2>2. CASE h > R /\ gone = h - R
        BY <1>1, <1>2, <1>l, <2>1, <2>2
  <2>3. CASE h <= R /\ gone = 0
        BY <1>1, <1>2, <1>l, <2>1, <2>3
  <2> QED
        BY <1>g, <2>1, <2>2, <2>3
<1>11. \A j \in first .. Len(kept) : kept[j] \in Read /\ kept[j] = heard'[gone + j]
    BY <1>9, <1>10
<1>12. recent' = SubSeq(kept, first, Len(kept))
    BY <1>3 DEF LastOf, R
<1>13. LastOf(heard', R) = SubSeq(heard', from, h + n)
  <2>1. Len(heard') = h + n /\ h \in Nat /\ n \in Nat /\ R \in Nat
        BY <1>1, <1>2
  <2> QED
        BY <2>1 DEF LastOf
<1> HIDE DEF first, from
<1>14. SubSeq(kept, first, Len(kept)) = SubSeq(heard', from, h + n)
  <2> DEFINE last == Len(kept)
             to == h + n
  <2>1. /\ first \in Int /\ last \in Int /\ from \in Int /\ to \in Int /\ gone \in Int
        /\ from = gone + first /\ to = gone + last
        BY <1>6, <1>10
  <2>2. \A j \in first .. last : kept[j] = heard'[gone + j]
        BY <1>11
  <2> HIDE DEF last, to
  <2>3. SubSeq(kept, first, last) = SubSeq(heard', from, to)
        BY <2>1, <2>2, SamePiece
  <2> QED
        BY <2>3 DEF last, to
<1> QED
    BY <1>12, <1>13, <1>14 DEF R

\* The deque of times loses only what is old, from its old end
\* (RtuActivity.record).
LEMMA TimesStayKept ==
    ASSUME ReadsKept, NEW reads \in Seq(Bytes), RecordReads(reads), now' = now
    PROVE  TimesKept'
<1> DEFINE h == Len(heard)
           n == Len(reads)
           l == Len(times)
           g == h - l
           extended == times \o [i \in DOMAIN reads |-> now]
           old == {i \in DOMAIN extended : \A j \in 1 .. i : now - extended[j] > RateWindow}
<1>1. /\ heard' \in Seq(Read) /\ Len(heard') = h + n /\ h \in Nat /\ n \in Nat
      /\ \A i \in 1 .. h : heard'[i] = heard[i]
      /\ \A i \in 1 .. n : heard'[h + i] = [ts |-> now, block |-> reads[i]]
    BY HeardGrows
<1>2. /\ times \in Seq(Nat) /\ l \in Nat /\ l <= h /\ now \in Nat
      /\ \A i \in 1 .. l : times[i] = heard[g + i].ts
      /\ \A i \in 1 .. g : now - heard[i].ts > RateWindow
    BY DEF ReadsKept, TimesKept
<1>3. DOMAIN reads = 1 .. n
    OBVIOUS
<1>r. times' = IF reads = <<>> THEN times ELSE SubSeq(extended, Cardinality(old) + 1, Len(extended))
    BY DEF RecordReads, PruneTimes
<1>4. CASE reads = <<>>
  <2>1. n = 0 /\ Len(heard') = h /\ times' = times
        BY <1>1, <1>4, <1>r
  <2> HIDE DEF h, l, n
  <2>2. ASSUME NEW i \in 1 .. l PROVE times[i] = heard'[g + i].ts
    <3>1. g + i \in 1 .. h
        BY <1>1, <1>2
    <3> QED
        BY <1>1, <1>2, <3>1
  <2>3. ASSUME NEW i \in 1 .. g PROVE now - heard'[i].ts > RateWindow
    <3>1. i \in 1 .. h
        BY <1>1, <1>2
    <3> QED
        BY <1>1, <1>2, <3>1
  <2> QED
        BY <1>2, <2>1, <2>2, <2>3 DEF TimesKept, l, h
<1>5. CASE reads # <<>>
  <2> DEFINE stamps == [i \in DOMAIN reads |-> now]
  <2>1. stamps \in [1 .. n -> Nat] /\ \A i \in 1 .. n : stamps[i] = now
        BY <1>2, <1>3
  <2>2. stamps \in Seq(Nat) /\ Len(stamps) = n
        BY <1>1, <2>1
  <2> HIDE DEF stamps, n, h
  <2>3. /\ times \o stamps \in Seq(Nat) /\ Len(times \o stamps) = Len(times) + Len(stamps)
        /\ \A i \in 1 .. Len(times) + Len(stamps) : (times \o stamps)[i] =
              IF i <= Len(times) THEN times[i] ELSE stamps[i - Len(times)]
        BY <1>2, <2>2, ConcatProperties
  <2>4. /\ extended \in Seq(Nat) /\ Len(extended) = l + n
        /\ \A i \in 1 .. l + n :
              extended[i] = IF i <= l THEN times[i] ELSE stamps[i - l]
        BY <2>2, <2>3 DEF stamps
  <2> HIDE DEF extended, l
  <2>5. g \in Nat /\ g + l = h
        BY <1>1, <1>2
  <2> HIDE DEF g
  <2>6. ASSUME NEW i \in 1 .. l + n PROVE extended[i] = heard'[g + i].ts
    <3>1. CASE i <= l
      <4>1. i \in 1 .. l /\ g + i \in 1 .. h
            BY <1>1, <1>2, <2>5, <3>1
      <4> QED
            BY <1>1, <1>2, <2>4, <3>1, <4>1
    <3>2. CASE ~(i <= l)
      <4>1. i - l \in 1 .. n /\ h + (i - l) = g + i
            BY <1>1, <1>2, <2>5, <3>2
      <4>2. heard'[g + i] = [ts |-> now, block |-> reads[i - l]]
            BY <1>1, <4>1
      <4>3. extended[i] = now
            BY <2>1, <2>4, <3>2, <4>1
      <4> QED
            BY <4>2, <4>3
    <3> QED
        BY <3>1, <3>2
  <2>7. DOMAIN extended = 1 .. l + n /\ l + n \in Nat
        BY <1>1, <1>2, <2>4
  <2>8. PICK m \in 0 .. l + n : old = 1 .. m /\ Cardinality(old) = m
    <3>1. old \in SUBSET (1 .. l + n)
        BY <2>7
    <3>2. ASSUME NEW i \in old, NEW j \in 1 .. i PROVE j \in old
      <4>1. i \in 1 .. l + n /\ \A k \in 1 .. i : now - extended[k] > RateWindow
            BY <2>7
      <4>2. j \in 1 .. l + n /\ 1 .. j \subseteq 1 .. i
            BY <2>7, <4>1
      <4> QED
            BY <2>7, <4>1, <4>2
    <3> HIDE DEF old
    <3> QED
        BY <2>7, <3>1, <3>2, PrefixSet
  <2>9. \A i \in 1 .. m : now - extended[i] > RateWindow
    <3> TAKE i \in 1 .. m
    <3>1. i \in old /\ i \in 1 .. i
        BY <2>8
    <3> QED
        BY <3>1
  <2> HIDE DEF old
  <2>10. times' = SubSeq(extended, m + 1, l + n)
        BY <1>5, <1>r, <2>4, <2>8
  <2>11. /\ times' \in Seq(Nat)
         /\ Len(times') = IF m + 1 <= l + n THEN (l + n) - (m + 1) + 1 ELSE 0
         /\ \A i \in 1 .. (l + n) - (m + 1) + 1 : times'[i] = extended[(m + 1) + i - 1]
    <3>1. \A i \in m + 1 .. l + n : extended[i] \in Nat
        BY <2>4, <2>7, ElementOfSeq
    <3>2. m + 1 \in Int /\ l + n \in Int
        BY <2>7
    <3> QED
        BY <2>10, <3>1, <3>2, SubSeqProperties
  <2>12. /\ Len(times') = l + n - m /\ m \in Nat
         /\ Len(heard') - Len(times') = g + m /\ Len(times') <= Len(heard')
        BY <1>1, <1>2, <2>5, <2>7, <2>11
  <2>13. ASSUME NEW i \in 1 .. Len(times') PROVE times'[i] = heard'[(g + m) + i].ts
    <3>1. /\ i \in 1 .. (l + n) - (m + 1) + 1 /\ (m + 1) + i - 1 = m + i
          /\ m + i \in 1 .. l + n /\ g + (m + i) = (g + m) + i
        BY <1>1, <1>2, <2>5, <2>12
    <3> QED
        BY <2>6, <2>11, <3>1
  <2>14. ASSUME NEW i \in 1 .. g + m PROVE now - heard'[i].ts > RateWindow
    <3>1. CASE i <= g
      <4>1. i \in 1 .. g /\ i \in 1 .. h
            BY <1>1, <1>2, <2>5, <3>1
      <4> QED
            BY <1>1, <1>2, <4>1
    <3>2. CASE ~(i <= g)
      <4>1. i - g \in 1 .. m /\ i - g \in 1 .. l + n /\ g + (i - g) = i
            BY <2>5, <2>7, <2>12, <3>2
      <4> QED
            BY <2>6, <2>9, <4>1
    <3> QED
        BY <3>1, <3>2
  <2> QED
        BY <2>11, <2>12, <2>13, <2>14 DEF TimesKept
<1> QED
    BY <1>4, <1>5

\* The rate counts the reads of the window before this moment, although the
\* deque is pruned only when a read comes (RtuActivity.summary).
LEMMA RateIsExact ==
    ASSUME ReadsKept
    PROVE  RateReads = Cardinality({i \in DOMAIN heard : now - heard[i].ts <= RateWindow})
<1> DEFINE h == Len(heard)
           l == Len(times)
           g == h - l
           A == {i \in 1 .. l : now - times[i] <= RateWindow}
           B == {i \in 1 .. h : now - heard[i].ts <= RateWindow}
<1>1. /\ DOMAIN times = 1 .. l /\ DOMAIN heard = 1 .. h /\ l \in Nat /\ h \in Nat /\ l <= h
      /\ now \in Nat /\ RateWindow \in Nat
      /\ \A i \in 1 .. l : times[i] = heard[g + i].ts
      /\ \A i \in 1 .. g : now - heard[i].ts > RateWindow
      /\ \A i \in 1 .. h : heard[i].ts \in Nat
  <2>1. \A i \in 1 .. h : heard[i] \in Read
        BY ElementOfSeq DEF ReadsKept
  <2> QED
        BY <2>1, ActivityConstants DEF ReadsKept, TimesKept, Read
<1>2. RateReads = Cardinality(A)
    BY <1>1 DEF RateReads
<1> HIDE DEF h, l
<1>3. IsFiniteSet(A)
  <2>1. IsFiniteSet(1 .. l) /\ A \in SUBSET (1 .. l)
        BY <1>1, FS_Interval
  <2> QED
        BY <2>1, FS_Subset
<1>4. B = {a + g : a \in A}
  <2>1. ASSUME NEW a \in A PROVE a + g \in B
    <3>1. a \in 1 .. l /\ g + a = a + g /\ a + g \in 1 .. h /\ now - times[a] <= RateWindow
        BY <1>1
    <3> QED
        BY <1>1, <3>1
  <2>2. ASSUME NEW b \in B PROVE \E a \in A : b = a + g
    <3>1. b \in 1 .. h /\ now - heard[b].ts <= RateWindow
        OBVIOUS
    <3>2. b > g
      <4>1. b <= g => now - heard[b].ts > RateWindow
            BY <1>1, <3>1
      <4>2. heard[b].ts \in Nat
            BY <1>1, <3>1
      <4> QED
            BY <1>1, <3>1, <4>1, <4>2
    <3>3. b - g \in 1 .. l /\ g + (b - g) = b /\ b = (b - g) + g
        BY <1>1, <3>1, <3>2
    <3>4. b - g \in A
        BY <1>1, <3>1, <3>3
    <3> QED
        BY <3>3, <3>4
  <2> QED
        BY <2>1, <2>2
<1>5. A \in SUBSET Int /\ g \in Int
    BY <1>1
<1> HIDE DEF A, B, g
<1>6. Cardinality(B) = Cardinality(A)
    BY <1>3, <1>4, <1>5, ShiftedSet
<1> QED
    BY <1>1, <1>2, <1>6 DEF B

\* The age of a register is that of its last read (RtuActivity.record).
LEMMA LastStaysSeen ==
    ASSUME ReadsKept, NEW reads \in Seq(Bytes), RecordReads(reads)
    PROVE  LastSeen'
<1> DEFINE h == Len(heard)
           n == Len(reads)
           asked == {reads[i] : i \in DOMAIN reads}
<1>1. /\ heard' \in Seq(Read) /\ Len(heard') = h + n /\ h \in Nat /\ n \in Nat
      /\ \A i \in 1 .. h : heard'[i] = heard[i]
      /\ \A i \in 1 .. n : heard'[h + i] = [ts |-> now, block |-> reads[i]]
    BY HeardGrows
<1>2. DOMAIN reads = 1 .. n /\ DOMAIN heard = 1 .. h /\ DOMAIN heard' = 1 .. h + n
    BY <1>1 DEF ReadsKept
<1>3. addrLastSeen' = [b \in DOMAIN addrLastSeen \cup asked |->
                          IF b \in asked THEN now ELSE addrLastSeen[b]]
    BY DEF RecordReads
<1> HIDE DEF h, n
<1> SUFFICES ASSUME NEW block
             PROVE  IF block \in DOMAIN addrLastSeen'
                    THEN \E i \in Reads(block)' : /\ heard'[i].ts = addrLastSeen'[block]
                                                  /\ \A j \in Reads(block)' : j <= i
                    ELSE Reads(block)' = {}
    BY DEF LastSeen
<1> DEFINE new == {i \in 1 .. n : reads[i] = block}
<1>4. Reads(block) = {i \in 1 .. h : heard[i].block = block}
    BY <1>2 DEF Reads
<1>5. Reads(block)' = {i \in 1 .. h + n : heard'[i].block = block}
    BY <1>2 DEF Reads
<1>6. \A i \in 1 .. h : i \in Reads(block)' <=> i \in Reads(block)
  <2> TAKE i \in 1 .. h
  <2>1. i \in 1 .. h + n
        BY <1>1
  <2> QED
        BY <1>1, <1>4, <1>5, <2>1
<1>7. \A i \in 1 .. n : h + i \in Reads(block)' <=> i \in new
  <2> TAKE i \in 1 .. n
  <2>1. h + i \in 1 .. h + n
        BY <1>1
  <2>2. heard'[h + i] = [ts |-> now, block |-> reads[i]]
        BY <1>1
  <2>3. heard'[h + i].block = reads[i]
        BY <2>2
  <2> QED
        BY <1>5, <2>1, <2>3
<1>8. \A i \in Reads(block)' : i \in 1 .. h \/ (i - h \in 1 .. n /\ i = h + (i - h))
    BY <1>1, <1>5
<1>9. block \in asked <=> new # {}
    BY <1>2
<1>l. IF block \in DOMAIN addrLastSeen
      THEN \E i \in Reads(block) : /\ heard[i].ts = addrLastSeen[block]
                                   /\ \A j \in Reads(block) : j <= i
      ELSE Reads(block) = {}
    BY DEF ReadsKept, LastSeen
<1> HIDE DEF asked
<1>10. CASE block \in asked
  <2>1. PICK i \in new : \A j \in new : j <= i
    <3>1. new \in SUBSET (1 .. n) /\ new # {}
        BY <1>9, <1>10
    <3> HIDE DEF new
    <3> QED
        BY <1>1, <3>1, LastPosition
  <2>2. i \in 1 .. n /\ h + i \in Reads(block)'
        BY <1>7
  <2>3. heard'[h + i].ts = now
    <3>1. heard'[h + i] = [ts |-> now, block |-> reads[i]]
        BY <1>1, <2>2
    <3> QED
        BY <3>1
  <2>4. ASSUME NEW j \in Reads(block)' PROVE j <= h + i
    <3>1. CASE j \in 1 .. h
        BY <1>1, <2>2, <3>1
    <3>2. CASE j - h \in 1 .. n /\ j = h + (j - h)
      <4>1. j - h \in new
            BY <1>7, <3>2
      <4>2. j - h <= i
            BY <2>1, <4>1
      <4>3. j \in Int
            BY <1>1, <1>5
      <4> QED
            BY <1>1, <2>2, <4>2, <4>3
    <3> QED
        BY <1>8, <3>1, <3>2
  <2>5. block \in DOMAIN addrLastSeen' /\ addrLastSeen'[block] = now
        BY <1>3, <1>10
  <2> QED
        BY <2>2, <2>3, <2>4, <2>5
<1>11. CASE block \notin asked
  <2>1. \A j \in Reads(block)' : j \in 1 .. h
    <3> TAKE j \in Reads(block)'
    <3>1. new = {}
        BY <1>9, <1>11
    <3>2. ~(j - h \in 1 .. n /\ j = h + (j - h))
        BY <1>7, <3>1
    <3> QED
        BY <1>8, <3>2
  <2>2. Reads(block)' = Reads(block)
        BY <1>4, <1>6, <2>1
  <2>3. block \in DOMAIN addrLastSeen' <=> block \in DOMAIN addrLastSeen
        BY <1>3, <1>11
  <2>4. CASE block \in DOMAIN addrLastSeen
    <3>1. addrLastSeen'[block] = addrLastSeen[block]
        BY <1>3, <1>11, <2>4
    <3>2. PICK i \in Reads(block) : /\ heard[i].ts = addrLastSeen[block]
                                    /\ \A j \in Reads(block) : j <= i
        BY <1>l, <2>4
    <3>3. heard'[i].ts = heard[i].ts
        BY <1>1, <1>4
    <3> QED
        BY <2>2, <2>3, <2>4, <3>1, <3>2, <3>3
  <2>5. CASE block \notin DOMAIN addrLastSeen
        BY <1>l, <2>2, <2>3, <2>5
  <2> QED
        BY <2>4, <2>5
<1> QED
    BY <1>10, <1>11

LEMMA RecordKeeps ==
    ASSUME ReadsKept, NEW reads \in Seq(Bytes), RecordReads(reads), now' = now
    PROVE  ReadsKept' /\ Len(heard') = Len(heard) + Len(reads)
<1>1. heard' \in Seq(Read) /\ Len(heard') = Len(heard) + Len(reads)
    BY HeardGrows
<1>2. now' \in Nat
    BY DEF ReadsKept
<1> QED
    BY <1>1, <1>2, BlocksAreCounted, RecentAreLast, TimesStayKept, LastStaysSeen DEF ReadsKept

-----------------------------------------------------------------------------
(* The port.                                                               *)

\* No more has been answered than was asked of this slave.
AInv == WireInv /\ ReadsKept /\ Len(heard) <= Cardinality(Requests(SlaveId))

LEMMA InitActivity == ActivityInit => AInv
<1> SUFFICES ASSUME ActivityInit PROVE AInv
    OBVIOUS
<1>1. WireInv
    BY InitWire DEF ActivityInit
<1>2. /\ now = 0 /\ heard = <<>> /\ recent = <<>> /\ times = <<>>
      /\ blocks = <<>> /\ addrLastSeen = <<>>
    BY DEF ActivityInit
<1>3. Tallied(blocks, HeardLog(heard), MaxBlocks)
  <2>1. DOMAIN HeardLog(<<>>) = {}
        BY DEF HeardLog
  <2> QED
        BY <1>2, <2>1, NothingTallied, ActivityConstants
<1>4. recent = LastOf(heard, RecentMaxlen)
    BY <1>2, ActivityConstants DEF LastOf
<1>5. TimesKept /\ LastSeen
    BY <1>2 DEF TimesKept, LastSeen, Reads
<1>6. Len(heard) = 0 /\ Cardinality(Requests(SlaveId)) \in Nat
  <2>1. Requests(SlaveId) \in SUBSET (1 .. Done(stream)) /\ Done(stream) \in Nat
        BY <1>1, DoneType DEF WireInv, Requests
  <2>2. IsFiniteSet(Requests(SlaveId))
        BY <2>1, FinitePart
  <2> QED
        BY <1>2, <2>2, FS_CardinalityType
<1> QED
    BY <1>1, <1>2, <1>3, <1>4, <1>5, <1>6 DEF AInv, ReadsKept

\* The requests for this slave that the stream has gained are those that the
\* framer finds in the buffer of its tracer.
LEMMA OwnAreNew ==
    ASSUME WireInv, NEW data \in Seq(Bytes), data # <<>>, stream' = stream \o data
    PROVE  /\ IsFiniteSet(OwnRequests(tail \o data))
           /\ Cardinality(Requests(SlaveId))'
                = Cardinality(Requests(SlaveId)) + Cardinality(OwnRequests(tail \o data))
           /\ Cardinality(Requests(SlaveId)) \in Nat
<1> DEFINE buffer == tail \o data
           whole == stream \o data
           d == Done(stream)
           n == Done(buffer)
           own == OwnRequests(buffer)
           before == Requests(SlaveId)
           shifted == {i + d : i \in own}
<1>1. stream \in Seq(Bytes) /\ tail = KeepTail(stream) /\ buffer \in Seq(Bytes) /\ whole \in Seq(Bytes)
    BY BufferIsStream DEF WireInv
<1>2. /\ Done(whole) = d + n
      /\ \A i \in 1 .. n : Window(buffer, i) = Window(whole, d + i)
      /\ \A i \in 1 .. d : Window(whole, i) = Window(stream, i) /\ whole[i] = stream[i]
    BY <1>1, CutAnywhere
<1>3. /\ d \in Nat /\ n \in Nat
      /\ DOMAIN Windows(buffer) = 1 .. n /\ DOMAIN Windows(stream) = 1 .. d
      /\ DOMAIN Windows(whole) = 1 .. d + n
    BY <1>1, <1>2, DoneType
<1>4. \A i \in 1 .. n : buffer[i] = whole[d + i]
  <2>1. \A j \in 1 .. Len(buffer) : buffer[j] = whole[d + j]
        BY <1>1, BufferIsStream
  <2>2. n <= Len(buffer) /\ Len(buffer) \in Nat
    <3> HIDE DEF buffer
    <3> QED
        BY <1>1, DoneType
  <2> HIDE DEF buffer, whole, d, n
  <2> QED
        BY <1>3, <2>1, <2>2
<1>5. own = {i \in 1 .. n : buffer[i] = SlaveId /\ IsRequest(Window(buffer, i))}
    BY <1>3 DEF OwnRequests
<1>6. before = {i \in 1 .. d : stream[i] = SlaveId /\ IsRequest(Window(stream, i))}
    BY <1>3 DEF Requests
<1>7. Requests(SlaveId)' = {i \in 1 .. d + n : whole[i] = SlaveId /\ IsRequest(Window(whole, i))}
    BY <1>3 DEF Requests
<1> HIDE DEF buffer, whole, d, n, own, before
<1>8. Requests(SlaveId)' = before \cup shifted
  <2>1. ASSUME NEW i \in Requests(SlaveId)' PROVE i \in before \cup shifted
    <3>1. CASE i \in 1 .. d
        BY <1>2, <1>6, <1>7, <3>1
    <3>2. CASE i \notin 1 .. d
      <4>1. i - d \in 1 .. n /\ d + (i - d) = i /\ (i - d) + d = i
            BY <1>3, <1>7, <3>2
      <4>2. i - d \in own
            BY <1>2, <1>4, <1>5, <1>7, <4>1
      <4> QED
            BY <4>1, <4>2
    <3> QED
        BY <3>1, <3>2
  <2>2. ASSUME NEW i \in before PROVE i \in Requests(SlaveId)'
    <3>1. i \in 1 .. d /\ i \in 1 .. d + n
        BY <1>3, <1>6
    <3> QED
        BY <1>2, <1>6, <1>7, <3>1
  <2>3. ASSUME NEW i \in own PROVE i + d \in Requests(SlaveId)'
    <3>1. i \in 1 .. n /\ d + i \in 1 .. d + n /\ i + d = d + i
        BY <1>3, <1>5
    <3> QED
        BY <1>2, <1>4, <1>5, <1>7, <3>1
  <2> QED
        BY <2>1, <2>2, <2>3
<1>9. IsFiniteSet(own) /\ IsFiniteSet(before) /\ own \in SUBSET Int
  <2>1. own \in SUBSET (1 .. n) /\ before \in SUBSET (1 .. d)
        BY <1>5, <1>6
  <2>2. own \in SUBSET Int
        BY <1>3, <2>1
  <2> QED
        BY <1>3, <2>1, <2>2, FinitePart
<1>10. IsFiniteSet(shifted) /\ Cardinality(shifted) = Cardinality(own)
  <2>1. d \in Int
        BY <1>3
  <2> QED
        BY <1>9, <2>1, ShiftedSet
<1>11. before \cap shifted = {}
  <2> SUFFICES ASSUME NEW i \in own, i + d \in before PROVE FALSE
        OBVIOUS
  <2>1. i \in 1 .. n /\ i + d \in 1 .. d
        BY <1>5, <1>6
  <2> QED
        BY <1>3, <2>1
<1>12. /\ Cardinality(before) \in Nat /\ Cardinality(own) \in Nat
       /\ Cardinality(before \cup shifted) = Cardinality(before) + Cardinality(shifted)
  <2>1. Cardinality(before \cap shifted) = 0
        BY <1>11, FS_EmptySet
  <2> HIDE DEF shifted
  <2>2. Cardinality(before \cup shifted)
          = Cardinality(before) + Cardinality(shifted) - Cardinality(before \cap shifted)
        BY <1>9, <1>10, FS_Union
  <2>3. Cardinality(before) \in Nat /\ Cardinality(shifted) \in Nat /\ Cardinality(own) \in Nat
        BY <1>9, <1>10, FS_CardinalityType
  <2> QED
        BY <2>1, <2>2, <2>3
<1>13. Cardinality(Requests(SlaveId))' = Cardinality(Requests(SlaveId)')
    OBVIOUS
<1> QED
    BY <1>8, <1>9, <1>10, <1>12, <1>13 DEF own, before, buffer

LEMMA PortReadKeeps == AInv /\ PortRead => AInv'
<1> SUFFICES ASSUME AInv, PortRead PROVE AInv'
    OBVIOUS
<1>1. WireInv'
    BY RecordWire DEF AInv, PortRead
<1>2. PICK m \in 1 .. MaxChunk : \E data \in [1 .. m -> Bytes] : stream' = stream \o data
    BY DEF PortRead, Record
<1>3. PICK data \in [1 .. m -> Bytes] : stream' = stream \o data
    BY <1>2
<1>4. m \in Nat /\ data \in Seq(Bytes) /\ Len(data) = m /\ data # <<>>
    BY WireConstants
<1>5. SubSeq(stream', Len(stream) + 1, Len(stream')) = data
  <2> DEFINE a == Len(stream)
             b == Len(stream')
             piece == SubSeq(stream', a + 1, b)
  <2>1. stream \in Seq(Bytes) /\ a \in Nat
        BY DEF AInv, WireInv
  <2>2. /\ stream' \in Seq(Bytes) /\ b = a + Len(data)
        /\ \A i \in 1 .. a + Len(data) :
              stream'[i] = IF i <= a THEN stream[i] ELSE data[i - a]
        BY <1>3, <1>4, <2>1, ConcatProperties
  <2>3. \A i \in a + 1 .. b : stream'[i] \in Bytes
    <3>1. \A i \in 1 .. b : stream'[i] \in Bytes
        BY <2>2, ElementOfSeq
    <3> HIDE DEF a, b
    <3> QED
        BY <2>1, <3>1
  <2> HIDE DEF a, b
  <2>4. /\ piece \in Seq(Bytes)
        /\ Len(piece) = IF a + 1 <= b THEN b - (a + 1) + 1 ELSE 0
        /\ \A i \in 1 .. b - (a + 1) + 1 : piece[i] = stream'[(a + 1) + i - 1]
    <3>1. a + 1 \in Int /\ b \in Int
        BY <1>4, <2>1, <2>2
    <3> QED
        BY <2>3, <3>1, SubSeqProperties
  <2> HIDE DEF piece
  <2>5. Len(piece) = Len(data)
        BY <1>4, <2>1, <2>2, <2>4
  <2>6. ASSUME NEW i \in 1 .. Len(piece) PROVE piece[i] = data[i]
    <3>1. /\ i \in 1 .. b - (a + 1) + 1 /\ (a + 1) + i - 1 = a + i
          /\ a + i \in 1 .. a + Len(data) /\ ~(a + i <= a) /\ (a + i) - a = i
        BY <1>4, <2>1, <2>2, <2>5
    <3> QED
        BY <2>2, <2>4, <3>1
  <2>7. piece = data
        BY <1>4, <2>4, <2>5, <2>6, SeqEqual
  <2> QED
        BY <2>7 DEF piece, a, b
<1> DEFINE buffer == tail \o data
           own == OwnRequests(buffer)
<1>6. PICK n \in 0 .. Cardinality(own) : \E taken \in [1 .. n -> own] :
         RecordReads([k \in 1 .. n |-> buffer[taken[k] + 1]])
    BY <1>5 DEF PortRead
<1>7. PICK taken \in [1 .. n -> own] : RecordReads([k \in 1 .. n |-> buffer[taken[k] + 1]])
    BY <1>6
<1> DEFINE reads == [k \in 1 .. n |-> buffer[taken[k] + 1]]
<1>8. /\ IsFiniteSet(own) /\ Cardinality(Requests(SlaveId)) \in Nat
      /\ Cardinality(Requests(SlaveId))' = Cardinality(Requests(SlaveId)) + Cardinality(own)
    BY <1>3, <1>4, OwnAreNew DEF AInv
<1>9. Cardinality(own) \in Nat /\ n \in Nat /\ n <= Cardinality(own)
    BY <1>8, FS_CardinalityType
<1>10. \A i \in own : buffer[i + 1] \in Bytes
  <2> TAKE i \in own
  <2>1. buffer \in Seq(Bytes)
        BY <1>4, BufferIsStream DEF AInv, WireInv
  <2>2. i \in 1 .. Done(buffer)
        BY <2>1, DoneType DEF OwnRequests
  <2>3. i + FrameLen - 1 \in 1 .. Len(buffer) /\ Len(buffer) \in Nat /\ i \in Nat /\ i >= 1
    <3> HIDE DEF buffer
    <3>1. /\ Done(buffer) \in Nat
          /\ \A k \in 1 .. Done(buffer) : k + FrameLen - 1 \in 1 .. Len(buffer)
        BY <2>1, DoneType
    <3>2. Len(buffer) \in Nat
        BY <2>1
    <3> QED
        BY <2>2, <3>1, <3>2
  <2>4. i + 1 \in 1 .. Len(buffer)
        BY <2>3, WireConstants
  <2> HIDE DEF buffer
  <2> QED
        BY <2>1, <2>4, ElementOfSeq
<1> HIDE DEF buffer, own
<1>11. reads \in [1 .. n -> Bytes]
    BY <1>10
<1>12. reads \in Seq(Bytes) /\ Len(reads) = n
    BY <1>9, <1>11
<1>13. now' = now
    BY DEF PortRead
<1> HIDE DEF reads
<1>14. ReadsKept' /\ Len(heard') = Len(heard) + Len(reads)
    BY <1>7, <1>12, <1>13, RecordKeeps DEF AInv, reads
<1>15. Len(heard) \in Nat /\ Len(heard) <= Cardinality(Requests(SlaveId))
    BY DEF AInv, ReadsKept
<1> QED
    BY <1>1, <1>8, <1>9, <1>12, <1>14, <1>15 DEF AInv

LEMMA TickKeeps == AInv /\ Tick => AInv'
<1> SUFFICES ASSUME AInv, Tick PROVE AInv'
    OBVIOUS
<1>1. UNCHANGED <<vars, activity>> /\ now' = now + 1 /\ now \in Nat
    BY DEF Tick, AInv, ReadsKept
<1>2. /\ stream' = stream /\ tail' = tail /\ frames' = frames /\ heard' = heard
      /\ blocks' = blocks /\ recent' = recent /\ times' = times
      /\ addrLastSeen' = addrLastSeen
    BY <1>1 DEF vars, activity
<1>3. WireInv' /\ Requests(SlaveId)' = Requests(SlaveId)
    BY <1>2 DEF AInv, WireInv, Requests
<1>4. TimesKept'
  <2>1. \A i \in 1 .. Len(heard) - Len(times) :
           heard[i].ts \in Nat /\ now + 1 - heard[i].ts > RateWindow
    <3> TAKE i \in 1 .. Len(heard) - Len(times)
    <3>1. now - heard[i].ts > RateWindow /\ RateWindow \in Nat
        BY ActivityConstants DEF AInv, ReadsKept, TimesKept
    <3>2. i \in 1 .. Len(heard) /\ heard \in Seq(Read)
        BY DEF AInv, ReadsKept, TimesKept
    <3>a. heard[i] \in Read
        BY <3>2, ElementOfSeq
    <3>3. heard[i].ts \in Nat
        BY <3>a DEF Read
    <3> QED
        BY <1>1, <3>1, <3>3
  <2>2. /\ times \in Seq(Nat) /\ Len(times) <= Len(heard)
        /\ \A i \in 1 .. Len(times) : times[i] = heard[Len(heard) - Len(times) + i].ts
        BY DEF AInv, ReadsKept, TimesKept
  <2>3. ASSUME NEW i \in 1 .. Len(heard') - Len(times')
        PROVE  now' - heard'[i].ts > RateWindow
    <3>1. i \in 1 .. Len(heard) - Len(times)
        BY <1>2
    <3>2. heard[i].ts \in Nat /\ now + 1 - heard[i].ts > RateWindow
        BY <2>1, <3>1
    <3>3. heard'[i].ts = heard[i].ts /\ now' = now + 1 /\ now \in Nat
        BY <1>1, <1>2
    <3> QED
        BY <3>2, <3>3
  <2>4. /\ times' \in Seq(Nat) /\ Len(times') <= Len(heard')
        /\ \A i \in 1 .. Len(times') : times'[i] = heard'[Len(heard') - Len(times') + i].ts
        BY <1>2, <2>2
  <2> QED
        BY <2>3, <2>4 DEF TimesKept
<1>5. LastSeen'
    BY <1>2 DEF AInv, ReadsKept, LastSeen, Reads
<1> QED
    BY <1>1, <1>2, <1>3, <1>4, <1>5 DEF AInv, ReadsKept

\* What is kept of the wire and of the reads is that of the history, at any
\* moment.
THEOREM ActivityInvariance == ActivitySpec => []AInv
<1>1. AInv /\ [ActivityNext]_activityVars => AInv'
  <2>1. ASSUME AInv, UNCHANGED activityVars PROVE AInv'
    <3>1. /\ stream' = stream /\ tail' = tail /\ frames' = frames /\ now' = now
          /\ heard' = heard /\ blocks' = blocks /\ recent' = recent /\ times' = times
          /\ addrLastSeen' = addrLastSeen
        BY <2>1 DEF activityVars, vars, activity
    <3>2. WireInv' /\ Requests(SlaveId)' = Requests(SlaveId)
        BY <2>1, <3>1 DEF AInv, WireInv, Requests
    <3>3. ReadsKept'
        BY <2>1, <3>1 DEF AInv, ReadsKept, TimesKept, LastSeen, Reads
    <3> QED
        BY <2>1, <3>1, <3>2, <3>3 DEF AInv
  <2> QED
        BY <2>1, PortReadKeeps, TickKeeps DEF ActivityNext
<1> QED
    BY <1>1, InitActivity, PTL DEF ActivitySpec

\* The wire counts are exact on a port that also answers (WireActivity.record,
\* called by tracing_rtu_framer before pymodbus).
THEOREM PortCounts == ActivitySpec => []CountsEachRequestOnce
BY ActivityInvariance, WireIsExact, PTL DEF AInv

\* RtuActivity.record and summary: rate, blocks, ages and recent reads.
THEOREM ActivityExact == ActivitySpec => []ActivityIsExact
<1>1. AInv => ActivityIsExact
  <2> SUFFICES ASSUME AInv PROVE ActivityIsExact
        OBVIOUS
  <2>1. ASSUME NEW block
        PROVE  IF block \in DOMAIN blocks THEN blocks[block] = Cardinality(Reads(block))
               ELSE Reads(block) = {} \/ Cardinality(DOMAIN blocks) = MaxBlocks
    <3>1. Hits(HeardLog(heard), block) = Reads(block)
        BY DEF Hits, HeardLog, Reads
    <3> QED
        BY <3>1 DEF AInv, ReadsKept, Tallied
  <2>2. LastSeen /\ recent = LastOf(heard, RecentMaxlen)
        BY DEF AInv, ReadsKept
  <2>3. RateReads = Cardinality({i \in DOMAIN heard : now - heard[i].ts <= RateWindow})
        BY RateIsExact DEF AInv
  <2> QED
        BY <2>1, <2>2, <2>3 DEF ActivityIsExact, LastSeen
<1> QED
    BY <1>1, ActivityInvariance, PTL

\* The installer is told WRONG ADDRESS when, and only when, nothing was
\* answered and another address was asked (monitor.py, _render_wire): the
\* table has room for two addresses at least.
THEOREM WrongAddressRight == ActivitySpec => []WrongAddressIsRight
<1>1. AInv => WrongAddressIsRight
  <2> SUFFICES ASSUME AInv PROVE WrongAddressIsRight
        OBVIOUS
  <2> DEFINE log == RequestLog(stream, Done(stream))
  <2>1. Tallied(frames, log, MaxIds)
        BY DEF AInv, WireInv
  <2>2. \A id : Requests(id) = Hits(log, id)
        BY RequestsAreLogged DEF AInv
  <2>3. \A id : Hits(log, id) # {} => id \in Bytes
    <3> SUFFICES ASSUME NEW id, NEW i \in DOMAIN log, log[i] = id PROVE id \in Bytes
        BY DEF Hits
    <3>1. i \in 1 .. Done(stream) /\ log[i] = stream[i]
        BY DEF RequestLog
    <3>2. stream \in Seq(Bytes)
        BY DEF AInv, WireInv
    <3>3. i \in 1 .. Len(stream)
        BY <3>1, <3>2, DoneType
    <3> HIDE DEF log
    <3> QED
        BY <3>1, <3>2, <3>3, ElementOfSeq
  <2> HIDE DEF log
  <2>4. DOMAIN frames \ {SlaveId} # {} => \E id \in Bytes \ {SlaveId} : Requests(id) # {}
        BY <2>1, <2>2, <2>3 DEF Tallied
  <2>5. ASSUME NEW id \in Bytes \ {SlaveId}, Requests(id) # {}
        PROVE  DOMAIN frames \ {SlaveId} # {}
    <3>1. CASE id \in DOMAIN frames
        BY <3>1
    <3>2. CASE Cardinality(DOMAIN frames) = MaxIds
      <4> SUFFICES ASSUME DOMAIN frames \subseteq {SlaveId} PROVE FALSE
            OBVIOUS
      <4>1. IsFiniteSet({SlaveId}) /\ Cardinality({SlaveId}) = 1
        <5>1. {} \cup {SlaveId} = {SlaveId}
            OBVIOUS
        <5> QED
            BY <5>1, FS_EmptySet, FS_AddElement
      <4>2. Cardinality(DOMAIN frames) <= 1
            BY <4>1, FS_Subset
      <4> QED
            BY <3>2, <4>2, ActivityConstants, WireConstants
    <3> QED
        BY <2>1, <2>2, <2>5, <3>1, <3>2 DEF Tallied
  <2>6. Len(heard) <= Cardinality(Requests(SlaveId))
        BY DEF AInv
  <2> QED
        BY <2>4, <2>5, <2>6 DEF WrongAddressIsRight, WrongAddress
<1> QED
    BY <1>1, ActivityInvariance, PTL

=============================================================================
