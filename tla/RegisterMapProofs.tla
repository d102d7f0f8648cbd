------------------------- MODULE RegisterMapProofs -------------------------
(***************************************************************************)
(* For every register map and bridge: a poll never reads what its hub      *)
(* connection did not subscribe to; whatever the orders of the output maps *)
(* and however many there are, the pair written for a point is read back as*)
(* its value; and a map that is well kept never fails a poll.              *)
(***************************************************************************)
EXTENDS RegisterMap, TLAPS

Sides == INSTANCE Folding WITH Op <- WriteSide
Steps == INSTANCE Folding WITH Op <- DeriveStep

\* What the validators leave of the files they load.
Validated ==
    /\ \A s \in SectionNames : SectionOk(map.sections[s])
    /\ \A side \in ToSet(map.targets) : Disjoint(side)
    /\ Complete

\* Only validated files are loaded, and a bridge is built only if its source
\* can be read, with the subscription computed from the section it polls.
IInv ==
    /\ bridge \in Bridges
    /\ map.sections \in [SectionNames -> Sections] /\ map.targets \in TargetLists
    /\ phase \in {"loaded", "built"} => Validated
    /\ phase = "built" =>
        /\ ReadableAtStartup
        /\ bridge.viaHub => subscribed = Subscription
        /\ DOMAIN image = Served
    /\ phase # "built" => polled = "none" /\ zeroed = {}

-----------------------------------------------------------------------------
\* Nothing is built at the start.
LEMMA InitIInv == Init => IInv
<1> SUFFICES ASSUME Init PROVE IInv
    OBVIOUS
<1>1. PICK sections \in [SectionNames -> Sections], targets \in TargetLists :
         map = [sections |-> sections, targets |-> targets]
    BY DEF Init
<1> QED
    BY <1>1 DEF Init, IInv

\* What is computed from the file and the bridge changes with neither.
LEMMA MapIsFixed ==
    ASSUME map' = map, bridge' = bridge
    PROVE  /\ Validated' = Validated /\ ReadableAtStartup' = ReadableAtStartup
           /\ Subscription' = Subscription /\ Served' = Served /\ WellKept' = WellKept
<1>1. Validated' = Validated
    BY DEF Validated, Complete, Needed, Produced, SectionOk
<1>2. ReadableAtStartup' = ReadableAtStartup
    BY DEF ReadableAtStartup, Section
<1>3. Subscription' = Subscription
    BY DEF Subscription, BlocksForSource, Section
<1>4. Served' = Served
    BY DEF Served
<1>5. WellKept' = WellKept
    BY DEF WellKept, Section, Good, DeriveOps
<1> QED
    BY <1>1, <1>2, <1>3, <1>4, <1>5

-----------------------------------------------------------------------------
(* update_datastore goes through the output maps in their order.           *)

\* The registers after each output map (dtsu_server.py, update_datastore).
LEMMA SidesInOrder ==
    ASSUME map.targets \in TargetLists
    PROVE  \E acc :
             /\ Len(map.targets) \in Nat /\ DOMAIN map.targets = 1 .. Len(map.targets)
             /\ acc[0] = image
             /\ \A k \in 1 .. Len(map.targets) : acc[k] = WriteSide(acc[k - 1], k)
             /\ FoldLeftDomain(WriteSide, image, map.targets) = acc[Len(map.targets)]
<1> DEFINE n == Len(map.targets)
           indices == [i \in DOMAIN map.targets |-> i]
<1>1. n \in Nat /\ DOMAIN map.targets = 1 .. n
    BY TargetsTyped DEF IsList
<1>2. DOMAIN indices = 1 .. n /\ \A k \in 1 .. n : indices[k] = k
    BY <1>1
<1>3. FoldLeftDomain(WriteSide, image, map.targets) = Sides!Fold(image, indices)
    BY DEF FoldLeftDomain, FoldLeft, MapThenFoldSet, Max,
           Sides!Fold, Sides!FoldLeft, Sides!MapThenFoldSet, Sides!Max
<1> HIDE DEF n, indices
<1>4. PICK acc : /\ acc[0] = image
                 /\ \A k \in 1 .. n : acc[k] = WriteSide(acc[k - 1], indices[k])
                 /\ Sides!Fold(image, indices) = acc[n]
    BY <1>1, <1>2, Sides!FoldSteps DEF Sides!Run
<1>5. \A k \in 1 .. n : acc[k] = WriteSide(acc[k - 1], k)
    BY <1>2, <1>4
<1> QED
    BY <1>1, <1>3, <1>4, <1>5 DEF n

\* No register is added or lost.
LEMMA SidesKeepDomain ==
    ASSUME map.targets \in TargetLists
    PROVE  DOMAIN FoldLeftDomain(WriteSide, image, map.targets) = DOMAIN image
<1>1. PICK acc :
         /\ Len(map.targets) \in Nat
         /\ acc[0] = image
         /\ \A k \in 1 .. Len(map.targets) : acc[k] = WriteSide(acc[k - 1], k)
         /\ FoldLeftDomain(WriteSide, image, map.targets) = acc[Len(map.targets)]
    BY SidesInOrder
<1> DEFINE n == Len(map.targets)
           S == {k \in Nat : k <= n => DOMAIN acc[k] = DOMAIN image}
<1>2. 0 \in S
    BY <1>1
<1>3. ASSUME NEW k \in Nat, k \in S PROVE k + 1 \in S
  <2> SUFFICES ASSUME k + 1 <= n PROVE DOMAIN acc[k + 1] = DOMAIN image
        OBVIOUS
  <2>1. acc[k + 1] = WriteSide(acc[k], k + 1)
    <3>1. k + 1 \in 1 .. Len(map.targets) /\ (k + 1) - 1 = k
        BY <1>1
    <3> QED
        BY <1>1, <3>1
  <2>2. DOMAIN acc[k] = DOMAIN image
        BY <1>3, <1>1
  <2> QED
        BY <2>1, <2>2 DEF WriteSide
<1> HIDE DEF S
<1>4. Nat \subseteq S
    BY <1>2, <1>3, Sides!InductionOverNat
<1> QED
    BY <1>1, <1>4 DEF S

-----------------------------------------------------------------------------
\* Loading decides on the file, building subscribes, polling changes registers
\* but neither the file nor the set of registers.
LEMMA NextIInv == IInv /\ [Next]_vars => IInv'
<1> SUFFICES ASSUME IInv, [Next]_vars PROVE IInv'
    OBVIOUS
<1>0. map' = map /\ bridge' = bridge
    BY DEF Next, Load, Build, Poll, vars
<1>1. CASE Load
  <2>1. phase' = "loaded" => Validated
        BY <1>1 DEF Load, Validated
  <2>2. phase' \in {"loaded", "refused"} /\ UNCHANGED <<subscribed, polled, zeroed, image>>
        BY <1>1 DEF Load
  <2>3. polled' = "none" /\ zeroed' = {}
        BY <1>1, <2>2 DEF Load, IInv
  <2> QED
        BY <1>0, <2>1, <2>2, <2>3, MapIsFixed DEF IInv
<1>2. CASE Build
  <2>1. phase' = "built" =>
          /\ ReadableAtStartup
          /\ bridge.viaHub => subscribed' = Subscription
          /\ DOMAIN image' = Served
        BY <1>2 DEF Build
  <2>2. phase' \in {"built", "refused"} /\ Validated /\ polled' = "none" /\ zeroed' = {}
        BY <1>2 DEF Build, IInv
  <2> QED
        BY <1>0, <2>1, <2>2, MapIsFixed DEF IInv
<1>3. CASE Poll
  <2>1. DOMAIN image' = DOMAIN image
    <3>1. image' = image \/ image' = FoldLeftDomain(WriteSide, image, map.targets)
        BY <1>3 DEF Poll
    <3> QED
        BY <3>1, SidesKeepDomain DEF IInv
  <2>2. phase' = "built" /\ phase = "built" /\ subscribed' = subscribed
        BY <1>3 DEF Poll
  <2> QED
        BY <1>0, <2>1, <2>2, MapIsFixed DEF IInv
<1>still. CASE UNCHANGED vars
    BY <1>0, <1>still, MapIsFixed DEF IInv, vars
<1> QED
    BY <1>1, <1>2, <1>3, <1>still DEF Next

-----------------------------------------------------------------------------
\* A block that is read covers itself.
LEMMA CoversItself ==
    ASSUME NEW link, NEW unit, NEW fc, NEW base \in Int, NEW count \in Nat
    PROVE  CoversRead(Block(link, unit, fc, base, count), Block(link, unit, fc, base, count))
BY DEF CoversRead, Block, Within

\* What a poller reads of a device is what blocks_for_source declares for it,
\* block by block (hub_client.py:202-238 and read_groups of the pollers).
LEMMA ReadsAreDeclared ==
    ASSUME IInv, phase = "built", NEW device, NEW read \in Reads(device)
    PROVE  read \in BlocksForSource(device) /\ CoversRead(read, read)
<1>1. bridge.type \in {"nd45", "huawei", "etango"} /\ Section \in Sections
    BY BridgesTyped DEF IInv, Section, SectionNames
<1>2. CASE bridge.type = "nd45"
  <2>1. PICK g \in ToSet(Nd45Groups) :
           read = Block(device.link, device.unit, 3, g.base, g.count)
        BY <1>2 DEF Reads
  <2>2. g.base \in Int /\ g.count \in Nat
        BY Nd45GroupsTyped DEF BlocksTyped
  <2> QED
        BY <1>2, <2>1, <2>2, CoversItself DEF BlocksForSource
<1>3. CASE bridge.type \in {"huawei", "etango"}
  <2> DEFINE fc == IF bridge.type = "etango" THEN 4 ELSE 3
  <2>1. PICK g \in ToSet(Section.groups) :
           read = Block(device.link, UnitOf(g, device), fc, g.base + Section.offset, g.count)
        BY <1>3 DEF Reads
  <2>2. Section.groups # None
        BY <1>3 DEF IInv, ReadableAtStartup, GroupsOf
  <2>3. g.base + Section.offset \in Int /\ g.count \in Nat
        BY <1>1, <2>2, SectionsTyped DEF BlocksTyped
  <2> QED
        BY <1>3, <2>1, <2>2, <2>3, CoversItself DEF BlocksForSource, GroupsOf
<1> QED
    BY <1>1, <1>2, <1>3

\* The hub can answer every read of every poll (hub_client.py:153-188, 202-238).
LEMMA ReadsAreAnswered == IInv => HubCoversReads
<1> SUFFICES ASSUME IInv, phase = "built", NEW device \in ToSet(bridge.devices),
                    NEW read \in Reads(device), bridge.viaHub
             PROVE  \E block \in subscribed : CoversRead(block, read)
    BY DEF HubCoversReads, Answered
<1>1. read \in BlocksForSource(device) /\ CoversRead(read, read)
    BY ReadsAreDeclared
<1>2. read \in subscribed
    BY <1>1 DEF IInv, Subscription
<1> QED
    BY <1>1, <1>2

\* No read of any poll goes beyond what the hub streams (make_hub_client
\* against read_registers of the same connection).
THEOREM HubCovers == Spec => []HubCoversReads
BY ReadsAreAnswered, InitIInv, NextIInv, PTL DEF Spec

-----------------------------------------------------------------------------
\* encode_point, then a master reading in the orders of the map: the value, or
\* for a coarse alias its high word over a zero low word (codec.py:53-91).
THEOREM EncodedIsRead ==
    ASSUME NEW a, NEW b, NEW c, NEW d, NEW zero \in BOOLEAN,
           NEW wordOrder \in {"big", "little"}, NEW byteOrder \in {"big", "little"}
    PROVE  RegistersToFloat(EncodePoint(<<a, b, c, d>>, wordOrder, byteOrder, zero),
                            wordOrder, byteOrder)
             = IF zero THEN <<a, b, 0, 0>> ELSE <<a, b, c, d>>
<1> DEFINE hi == BytesWord(<<a, b>>, byteOrder)
           lo == BytesWord(<<c, d>>, byteOrder)
           low == IF zero THEN <<0, 0>> ELSE lo
<1>1. EncodePoint(<<a, b, c, d>>, wordOrder, byteOrder, zero)
        = IF wordOrder = "big" THEN <<hi, low>> ELSE <<low, hi>>
    BY DEF EncodePoint, FloatToRegisters
<1>2. WordBytes(hi, byteOrder) = <<a, b>>
    BY DEF WordBytes, BytesWord
<1>3. WordBytes(low, byteOrder) = IF zero THEN <<0, 0>> ELSE <<c, d>>
    BY DEF WordBytes, BytesWord
<1> HIDE DEF hi, lo, low
<1>4. RegistersToFloat(IF wordOrder = "big" THEN <<hi, low>> ELSE <<low, hi>>,
                       wordOrder, byteOrder)
        = <<WordBytes(hi, byteOrder)[1], WordBytes(hi, byteOrder)[2],
            WordBytes(low, byteOrder)[1], WordBytes(low, byteOrder)[2]>>
  <2>1. CASE wordOrder = "big"
        BY <2>1 DEF RegistersToFloat
  <2>2. CASE wordOrder = "little"
        BY <2>2 DEF RegistersToFloat
  <2> QED
        BY <2>1, <2>2
<1> QED
    BY <1>1, <1>2, <1>3, <1>4
-----------------------------------------------------------------------------
(* Each pair of registers is read back whole.                              *)

Pair(registers, side, p) ==
    [w \in 1 .. 2 |-> registers[<<side.fc, side.points[p].addr + w - 1>>]]

\* A master that reads the two registers of p in the orders of output map i.
ReadsBack(registers, i, p) ==
    LET side == map.targets[i]
        raw  == Raw(i, p)
    IN RegistersToFloat(Pair(registers, side, p), side.wordOrder, side.byteOrder)
         = IF side.points[p].zeroLowWord THEN <<raw[1], raw[2], 0, 0>> ELSE raw

\* One of the maps i + 1 .. k claims a register of p.
ClaimedLater(i, p, k) ==
    \E j \in {j \in DOMAIN map.targets : i < j /\ j <= k} :
        /\ map.targets[j].fc = map.targets[i].fc
        /\ \E q \in DOMAIN map.targets[j].points :
             RegistersOf(map.targets[i], p) \cap RegistersOf(map.targets[j], q) # {}

\* The registers of p are served, and no other point of its map has them.
LEMMA OneOwner ==
    ASSUME IInv, phase = "built", NEW i \in DOMAIN map.targets,
           NEW p \in DOMAIN map.targets[i].points, NEW r \in RegistersOf(map.targets[i], p)
    PROVE  /\ r \in Served
           /\ \A q \in DOMAIN map.targets[i].points :
                r \in RegistersOf(map.targets[i], q) => q = p
<1> DEFINE side == map.targets[i]
<1>1. side \in ToSet(map.targets) /\ Disjoint(side)
    BY DEF IInv, Validated, ToSet
<1>2. \A q \in DOMAIN side.points : side.points[q].addr \in Nat
    BY <1>1, TargetsTyped DEF IInv
<1>3. r \in Served
    BY <1>1 DEF Served
<1>4. ASSUME NEW q \in DOMAIN side.points, r \in RegistersOf(side, q) PROVE q = p
  <2>1. PICK v \in {0, 1}, w \in {0, 1} : side.points[p].addr + w = side.points[q].addr + v
        BY <1>4 DEF RegistersOf
  <2>2. side.points[p].addr \in Nat /\ side.points[q].addr \in Nat
        BY <1>2
  <2>3. \/ side.points[p].addr = side.points[q].addr
        \/ side.points[p].addr = side.points[q].addr + 1
        \/ side.points[q].addr = side.points[p].addr + 1
        BY <2>1, <2>2
  <2> QED
        BY <1>1, <2>3 DEF Disjoint
<1> QED
    BY <1>3, <1>4

\* Writing an output map writes all of each pair (update_datastore,
\* encode_point).
LEMMA PairIsWritten ==
    ASSUME IInv, phase = "built", NEW i \in DOMAIN map.targets,
           NEW p \in DOMAIN map.targets[i].points,
           NEW registers, DOMAIN registers = Served
    PROVE  ReadsBack(WriteSide(registers, i), i, p)
<1> DEFINE side == map.targets[i]
           raw == Raw(i, p)
           zero == side.points[p].zeroLowWord
           written == EncodePoint(raw, side.wordOrder, side.byteOrder, zero)
           pair == Pair(WriteSide(registers, i), side, p)
<1>1. side.points[p].addr \in Nat /\ side.wordOrder \in {"big", "little"}
        /\ side.byteOrder \in {"big", "little"} /\ zero \in BOOLEAN
    BY TargetsTyped DEF IInv, ToSet
<1>2. ASSUME NEW w \in {0, 1}
      PROVE  WriteSide(registers, i)[<<side.fc, side.points[p].addr + w>>] = written[w + 1]
  <2> DEFINE r == <<side.fc, side.points[p].addr + w>>
             owners == {q \in DOMAIN side.points : r \in RegistersOf(side, q)}
  <2>1. r \in RegistersOf(side, p)
        BY DEF RegistersOf
  <2>2. r \in Served /\ owners = {p}
        BY <2>1, OneOwner
  <2>3. (CHOOSE q \in owners : TRUE) = p
        BY <2>2
  <2>4. r[2] - side.points[p].addr + 1 = w + 1
        BY <1>1
  <2> HIDE DEF owners
  <2>5. WriteSide(registers, i)[r] =
          IF owners = {} THEN registers[r]
          ELSE LET q == CHOOSE q \in owners : TRUE
               IN EncodePoint(Raw(i, q), side.wordOrder, side.byteOrder,
                              side.points[q].zeroLowWord)[r[2] - side.points[q].addr + 1]
        BY <2>2 DEF WriteSide, owners
  <2> QED
        BY <2>2, <2>3, <2>4, <2>5
<1>3. pair[1] = written[1] /\ pair[2] = written[2]
  <2>1. /\ side.points[p].addr + 1 - 1 = side.points[p].addr + 0
        /\ side.points[p].addr + 2 - 1 = side.points[p].addr + 1
        BY <1>1
  <2>2. /\ pair[1] = WriteSide(registers, i)[<<side.fc, side.points[p].addr + 0>>]
        /\ pair[2] = WriteSide(registers, i)[<<side.fc, side.points[p].addr + 1>>]
        BY <2>1 DEF Pair
  <2> QED
        BY <1>2, <2>2
<1>4. raw = <<raw[1], raw[2], raw[3], raw[4]>>
    BY DEF Raw
<1>5. written = EncodePoint(<<raw[1], raw[2], raw[3], raw[4]>>, side.wordOrder,
                            side.byteOrder, zero)
    BY <1>4
<1> HIDE DEF raw, written, pair
<1>6. RegistersToFloat(pair, side.wordOrder, side.byteOrder)
        = RegistersToFloat(written, side.wordOrder, side.byteOrder)
    BY <1>3 DEF RegistersToFloat
<1>7. RegistersToFloat(written, side.wordOrder, side.byteOrder)
        = IF zero THEN <<raw[1], raw[2], 0, 0>> ELSE <<raw[1], raw[2], raw[3], raw[4]>>
    BY <1>1, <1>5, EncodedIsRead
<1> QED
    BY <1>4, <1>6, <1>7 DEF ReadsBack, raw, pair

\* Writing another map leaves the registers it does not claim.
LEMMA PairIsKept ==
    ASSUME IInv, phase = "built", NEW i \in DOMAIN map.targets,
           NEW p \in DOMAIN map.targets[i].points, NEW k \in DOMAIN map.targets, i < k,
           ~ClaimedLater(i, p, k), NEW registers, DOMAIN registers = Served,
           ReadsBack(registers, i, p)
    PROVE  ReadsBack(WriteSide(registers, k), i, p)
<1> DEFINE side == map.targets[i]
           other == map.targets[k]
<1>1. side.points[p].addr \in Nat
    BY TargetsTyped DEF IInv, ToSet
<1>2. ASSUME NEW w \in 1 .. 2
      PROVE  LET r == <<side.fc, side.points[p].addr + w - 1>>
             IN WriteSide(registers, k)[r] = registers[r]
  <2> DEFINE r == <<side.fc, side.points[p].addr + w - 1>>
             v == w - 1
  <2>1. v \in {0, 1} /\ side.points[p].addr + w - 1 = side.points[p].addr + v
        BY <1>1
  <2>2. r \in RegistersOf(side, p)
        BY <2>1 DEF RegistersOf
  <2>0. r \in Served
        BY <2>2, OneOwner
  <2>3. ASSUME NEW q \in DOMAIN other.points, r \in RegistersOf(other, q) PROVE FALSE
    <3>1. other.fc = side.fc
        BY <2>3 DEF RegistersOf
    <3>2. RegistersOf(side, p) \cap RegistersOf(other, q) # {}
        BY <2>2, <2>3
    <3>3. k \in {j \in DOMAIN map.targets : i < j /\ j <= k}
        BY TargetsTyped DEF IInv, IsList
    <3> QED
        BY <3>1, <3>2, <3>3 DEF ClaimedLater
  <2> QED
        BY <2>0, <2>3 DEF WriteSide
<1>3. Pair(WriteSide(registers, k), side, p) = Pair(registers, side, p)
    BY <1>2 DEF Pair
<1> QED
    BY <1>3 DEF ReadsBack

\* After all output maps of a sample are written.
LEMMA PairsAfterUpdate ==
    ASSUME IInv, phase = "built", NEW i \in DOMAIN map.targets,
           NEW p \in DOMAIN map.targets[i].points
    PROVE  \/ ReadsBack(FoldLeftDomain(WriteSide, image, map.targets), i, p)
           \/ ClaimedLater(i, p, Len(map.targets))
<1>1. PICK acc :
         /\ Len(map.targets) \in Nat /\ DOMAIN map.targets = 1 .. Len(map.targets)
         /\ acc[0] = image
         /\ \A k \in 1 .. Len(map.targets) : acc[k] = WriteSide(acc[k - 1], k)
         /\ FoldLeftDomain(WriteSide, image, map.targets) = acc[Len(map.targets)]
    BY SidesInOrder DEF IInv
<1> DEFINE n == Len(map.targets)
           Sound(k) == /\ DOMAIN acc[k] = Served
                       /\ i <= k => ReadsBack(acc[k], i, p) \/ ClaimedLater(i, p, k)
           S == {k \in Nat : k <= n => Sound(k)}
<1> HIDE DEF n
<1>2. 0 \in S
    BY <1>1 DEF IInv
<1>3. ASSUME NEW k \in Nat, k \in S PROVE k + 1 \in S
  <2> SUFFICES ASSUME k + 1 <= n PROVE Sound(k + 1)
        OBVIOUS
  <2>1. k + 1 \in 1 .. n /\ (k + 1) - 1 = k /\ k <= n /\ n \in Nat
        BY <1>1 DEF n
  <2>2. acc[k + 1] = WriteSide(acc[k], k + 1) /\ k + 1 \in DOMAIN map.targets
        BY <1>1, <2>1 DEF n
  <2>3. Sound(k)
        BY <1>3, <2>1
  <2>4. DOMAIN acc[k + 1] = Served
        BY <2>2, <2>3 DEF WriteSide
  <2>5. CASE i = k + 1
    <3>1. ReadsBack(acc[k + 1], i, p)
        BY <2>2, <2>3, <2>5, PairIsWritten
    <3> QED
        BY <2>4, <3>1
  <2>6. CASE i <= k
    <3>1. i < k + 1 /\ i \in Nat
        BY <1>1, <2>6
    <3>2. ClaimedLater(i, p, k) => ClaimedLater(i, p, k + 1)
        BY <1>1, <3>1 DEF ClaimedLater
    <3>3. ReadsBack(acc[k], i, p) /\ ~ClaimedLater(i, p, k + 1) => ReadsBack(acc[k + 1], i, p)
        BY <2>2, <2>3, <3>1, PairIsKept
    <3> QED
        BY <2>3, <2>4, <2>6, <3>2, <3>3
  <2> QED
        BY <1>1, <2>4, <2>5, <2>6
<1> HIDE DEF S
<1>4. n \in S
  <2>1. Nat \subseteq S
        BY <1>2, <1>3, Sides!InductionOverNat
  <2> QED
        BY <1>1, <2>1 DEF n
<1>5. i <= n /\ n \in Nat
    BY <1>1 DEF n
<1>6. Sound(n)
    BY <1>4, <1>5 DEF S
<1> QED
    BY <1>1, <1>5, <1>6 DEF n

\* However many output maps there are, and whatever their orders, a master
\* that reads the pair of a point finds its value, unless a later map claims a
\* register of it.
THEOREM PairsWhole == Spec => []PairsAreWhole
<1> DEFINE Standing ==
      polled = "ok" => \A i \in DOMAIN map.targets : \A p \in DOMAIN map.targets[i].points :
         ReadsBack(image, i, p) \/ ClaimedLater(i, p, Len(map.targets))
<1>1. Init => Standing
    BY DEF Init
<1>2. IInv /\ Standing /\ [Next]_vars => Standing'
  <2> SUFFICES ASSUME IInv, Standing, [Next]_vars, polled' = "ok",
                      NEW i \in (DOMAIN map.targets)', NEW p \in (DOMAIN map.targets[i].points)'
               PROVE  ReadsBack(image, i, p)' \/ ClaimedLater(i, p, Len(map.targets))'
        OBVIOUS
  <2>1. map' = map
        BY DEF Next, Load, Build, Poll, vars
  <2>2. i \in DOMAIN map.targets /\ p \in DOMAIN map.targets[i].points
        BY <2>1
  <2>3. ClaimedLater(i, p, Len(map.targets))' <=> ClaimedLater(i, p, Len(map.targets))
        BY <2>1 DEF ClaimedLater
  <2>4. ReadsBack(image, i, p)' <=> ReadsBack(image', i, p)
        BY <2>1 DEF ReadsBack, Raw
  <2>5. CASE polled = "ok" /\ image' = image
        BY <2>2, <2>3, <2>4, <2>5
  <2>6. CASE Poll /\ image' = FoldLeftDomain(WriteSide, image, map.targets)
        BY <2>2, <2>3, <2>4, <2>6, PairsAfterUpdate DEF Poll
  <2>7. polled = "ok" => phase = "built"
        BY DEF IInv
  <2> QED
        BY <2>5, <2>6, <2>7 DEF Next, Load, Build, Poll, vars
<1>3. IInv /\ Standing => PairsAreWhole
  <2> SUFFICES ASSUME IInv, Standing, polled = "ok", NEW i \in DOMAIN map.targets,
                      NEW p \in DOMAIN map.targets[i].points,
                      ClaimedLater(i, p, Len(map.targets))
               PROVE  \E j \in {j \in DOMAIN map.targets :
                                  j > i /\ map.targets[j].fc = map.targets[i].fc} :
                        \E q \in DOMAIN map.targets[j].points :
                          RegistersOf(map.targets[i], p) \cap RegistersOf(map.targets[j], q) # {}
        BY DEF PairsAreWhole, ReadsBack, Pair
  <2>1. DOMAIN map.targets = 1 .. Len(map.targets)
        BY TargetsTyped DEF IInv, IsList
  <2> QED
        BY <2>1 DEF ClaimedLater
<1> QED
    BY <1>1, <1>2, <1>3, InitIInv, NextIInv, PTL DEF Spec

-----------------------------------------------------------------------------
(* A map that is well kept.                                                *)

\* A key that no derive step writes keeps the value that was read
\* (derivation.py, apply_derive_ops).
LEMMA ReadIsKept ==
    ASSUME IInv, NEW key \in DOMAIN Section.points,
           key \notin UNION {ToSet(op.targets) : op \in ToSet(DeriveOps)}
    PROVE  key \in Good
<1> DEFINE ops == DeriveOps
           n == Len(ops)
<1>1. n \in Nat /\ DOMAIN ops = 1 .. n
  <2>1. Section \in Sections
        BY BridgesTyped DEF IInv, Section, SectionNames
  <2>2. IsList(Section.derive)
        BY <2>1, SectionsTyped
  <2>3. ops = <<>> \/ ops \in Seq(ToSet(Section.derive))
        BY <2>2 DEF DeriveOps, IsList
  <2> HIDE DEF ops
  <2> QED
        BY <2>3
<1>2. Good = Steps!Fold(DOMAIN Section.points, ops)
    BY DEF Good, FoldLeft, MapThenFoldSet, Max,
           Steps!Fold, Steps!FoldLeft, Steps!MapThenFoldSet, Steps!Max
<1>3. \A k \in 1 .. n : key \notin ToSet(ops[k].targets)
    BY <1>1 DEF ToSet
<1> HIDE DEF ops, n
<1>4. PICK acc : /\ acc[0] = DOMAIN Section.points
                 /\ \A k \in 1 .. n : acc[k] = DeriveStep(acc[k - 1], ops[k])
                 /\ Steps!Fold(DOMAIN Section.points, ops) = acc[n]
    BY <1>1, Steps!FoldSteps DEF Steps!Run
<1> DEFINE S == {k \in Nat : k <= n => key \in acc[k]}
<1>5. 0 \in S
    BY <1>4
<1>6. ASSUME NEW k \in Nat, k \in S PROVE k + 1 \in S
  <2> SUFFICES ASSUME k + 1 <= n PROVE key \in acc[k + 1]
        OBVIOUS
  <2>1. k + 1 \in 1 .. n /\ (k + 1) - 1 = k /\ k <= n
        BY <1>1
  <2>2. acc[k + 1] = DeriveStep(acc[k], ops[k + 1])
        BY <1>4, <2>1
  <2>3. key \in acc[k] /\ key \notin ToSet(ops[k + 1].targets)
        BY <1>3, <1>6, <2>1
  <2> QED
        BY <2>2, <2>3 DEF DeriveStep
<1> HIDE DEF S
<1>7. Nat \subseteq S
    BY <1>5, <1>6, Steps!InductionOverNat
<1> QED
    BY <1>1, <1>2, <1>4, <1>7 DEF S

\* Every key of a sample is good, and every key an output needs is a key of
\* it: RegisterMap._check_every_source_produces_every_target_point.
LEMMA SampleIsWhole ==
    ASSUME IInv, WellKept, phase = "built"
    PROVE  Keys \subseteq Good /\ Needed \subseteq Keys \cup DerivedKeys
<1> DEFINE targets == UNION {ToSet(op.targets) : op \in ToSet(DeriveOps)}
<1>1. DeriveOps = Section.derive
    BY DEF WellKept, DeriveOps
<1>2. targets \subseteq Good
    BY <1>1 DEF WellKept
<1>3. \A key \in DOMAIN Section.points : key \notin targets => key \in Good
    BY ReadIsKept
<1>4. Keys = DOMAIN Section.points \cup targets
    BY DEF Keys
<1>5. Needed \subseteq Produced(Section)
    BY BridgesTyped DEF IInv, Validated, Complete, Section, SectionNames
<1>6. Produced(Section) = DOMAIN Section.points \cup targets \cup DerivedKeys
    BY <1>1 DEF Produced
<1> HIDE DEF targets
<1> QED
    BY <1>2, <1>3, <1>4, <1>5, <1>6

\* Every point of the section is found in a block that was read
\* (SourcePoint._check_shape, _check_points_covered_by_read_groups,
\* validate_source_coverage).
LEMMA PointsDecode ==
    ASSUME IInv, WellKept, phase = "built", NEW key \in DOMAIN Section.points
    PROVE  Decodes(Section.points[key])
<1> DEFINE pt == Section.points[key]
<1>1. bridge.type \in {"nd45", "huawei", "etango"}
    BY BridgesTyped DEF IInv
<1>2. SectionOk(Section)
    BY BridgesTyped DEF IInv, Validated, Section, SectionNames
<1>3. CASE bridge.type = "nd45"
    BY <1>3 DEF IInv, ReadableAtStartup, Decodes
<1>4. CASE bridge.type \in {"huawei", "etango"}
  <2>1. pt.compose = None /\ Section.groups # None
        BY <1>4 DEF WellKept, IInv, ReadableAtStartup, GroupsOf
  <2>2. pt.addr # None
        BY <1>2, <2>1 DEF SectionOk, ShapeOk
  <2>3. \E g \in ToSet(Section.groups) :
           Within(pt.addr, RegisterWidth(pt.dtype), g.base, g.count)
        BY <1>2, <2>1, <2>2 DEF SectionOk, Covered
  <2>4. bridge.type = "etango" => RegisterWidth(pt.dtype) >= 2
        BY DEF WellKept
  <2> QED
        BY <1>4, <2>2, <2>3, <2>4 DEF Decodes
<1> QED
    BY <1>1, <1>3, <1>4

\* A map that was loaded, and that is well kept, never fails a poll of a
\* healthy source and never serves a made-up value.
THEOREM KeptServe == Spec => []KeptMapsServe
<1>1. Init => KeptMapsServe
    BY DEF Init, KeptMapsServe
<1>2. IInv /\ KeptMapsServe /\ [Next]_vars => KeptMapsServe'
  <2> SUFFICES ASSUME IInv, KeptMapsServe, [Next]_vars, WellKept', phase' = "built"
               PROVE  polled' # "error" /\ zeroed' = {}
        BY DEF KeptMapsServe
  <2>1. WellKept
    <3>1. map' = map /\ bridge' = bridge
        BY DEF Next, Load, Build, Poll, vars
    <3> QED
        BY <3>1, MapIsFixed
  <2>2. CASE Load
        BY <2>2 DEF Load
  <2>3. CASE Build
        BY <2>3 DEF Build, IInv
  <2>4. CASE Poll
    <3>1. phase = "built"
        BY <2>4 DEF Poll
    <3>2. Keys \subseteq Good /\ Needed \subseteq Keys \cup DerivedKeys
        BY <2>1, <3>1, SampleIsWhole
    <3>3. \A key \in DOMAIN Section.points : Decodes(Section.points[key])
        BY <2>1, <3>1, PointsDecode
    <3>4. \A device \in ToSet(bridge.devices) : \A read \in Reads(device) : Answered(read)
        BY <3>1, ReadsAreAnswered DEF HubCoversReads
    <3>5. PollSucceeds
        BY <3>2, <3>3, <3>4 DEF PollSucceeds
    <3>6. polled' = "ok" /\ zeroed' = Keys \ Good
        BY <2>4, <3>2, <3>5 DEF Poll
    <3> QED
        BY <3>2, <3>6
  <2>5. CASE UNCHANGED vars
        BY <2>1, <2>5 DEF KeptMapsServe, vars
  <2> QED
        BY <2>2, <2>3, <2>4, <2>5 DEF Next
<1> QED
    BY <1>1, <1>2, InitIInv, NextIInv, PTL DEF Spec

=============================================================================
