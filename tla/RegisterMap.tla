----------------------------- MODULE RegisterMap -----------------------------
(***************************************************************************)
(* From registers.json to the served registers: what the validators of     *)
(* config.py accept, what the pollers then make of it, and what reaches    *)
(* the datastore.  An error in a map must show when it is loaded: later it *)
(* raises on every poll, which the fault reporter mutes, and looks like a  *)
(* dead source.                                                            *)
(*                                                                         *)
(* The source is healthy here: every read is answered and every register   *)
(* holds a valid value.  Of a value that is read, only whether it is good  *)
(* or was not finite and was zeroed is kept; of one that is served, its    *)
(* four bytes.                                                             *)
(***************************************************************************)
EXTENDS Derive, Codec, FiniteSets

CONSTANTS
    None,           \* an absent field
    Sections,       \* source sections a file may hold
    TargetLists,    \* lists of output maps a file may hold
    Bridges,        \* source settings of the bridge
    Nd45Groups,     \* READ_GROUPS of nd45_poller.py
    DerivedKeys     \* DERIVED_CANONICAL_KEYS

BlocksTyped(groups) == \A g \in ToSet(groups) : g.base \in Nat /\ g.count \in Nat
IsList(s) == s \in Seq(ToSet(s))

ASSUME SectionsTyped ==
    \A s \in Sections :
        s.offset \in Int /\ IsList(s.derive) /\ (s.groups # None => BlocksTyped(s.groups))
ASSUME TargetsTyped ==
    \A sides \in TargetLists : IsList(sides) /\ \A side \in ToSet(sides) :
        /\ side.wordOrder \in {"big", "little"} /\ side.byteOrder \in {"big", "little"}
        /\ \A p \in DOMAIN side.points :
              side.points[p].addr \in Nat /\ side.points[p].zeroLowWord \in BOOLEAN
ASSUME Nd45GroupsTyped == BlocksTyped(Nd45Groups)
ASSUME BridgesTyped ==
    \A b \in Bridges :
        b.type \in {"nd45", "huawei", "etango"} /\ b.section \in {"first", "second"}

VARIABLES
    map,        \* the file: [sections, targets]
    bridge,     \* [type, section, devices, viaHub]
    phase,      \* "file", "refused", "loaded", "built"
    subscribed, \* blocks the hub connection was built with
    polled,     \* "none", "ok", "error": the last poll and its write
    zeroed,     \* keys of the last sample that were made up
    image       \* [<<function code, address>> -> register]

vars == <<map, bridge, phase, subscribed, polled, zeroed, image>>

SectionNames == {"first", "second"}

Init ==
    /\ map \in [sections : [SectionNames -> Sections], targets : TargetLists]
    /\ bridge \in Bridges
    /\ phase = "file"
    /\ subscribed = {} /\ polled = "none" /\ zeroed = {} /\ image = <<>>

-----------------------------------------------------------------------------
(* The validators.                                                         *)

\* SourcePoint._check_shape; an address list has no integer equivalent.
ShapeOk(pt) ==
    IF pt.compose # None
    THEN pt.addr = None /\ pt.compose # <<>> /\ pt.dtype = "float32"
    ELSE pt.addr # None

Within(addr, width, base, count) == base <= addr /\ addr + width <= base + count

\* SourceSide._check_points_covered_by_read_groups.
Covered(section) ==
    section.groups # None =>
        \A key \in DOMAIN section.points :
            LET pt == section.points[key]
            IN pt.addr # None =>
                 \E g \in ToSet(section.groups) :
                     Within(pt.addr, RegisterWidth(pt.dtype), g.base, g.count)

\* TargetSide._check_point_ranges_do_not_overlap: two registers a point.
Disjoint(side) ==
    \A p, q \in DOMAIN side.points : p # q =>
        /\ side.points[p].addr # side.points[q].addr
        /\ side.points[p].addr # side.points[q].addr + 1

NeededBy(side) == {side.points[p].from : p \in DOMAIN side.points}
Needed == UNION {NeededBy(side) : side \in ToSet(map.targets)}

Produced(section) ==
    DOMAIN section.points \cup DerivedKeys
      \cup UNION {ToSet(op.targets) : op \in ToSet(section.derive)}

\* Mutant of Complete: the sections are checked together.
CompleteTogether == Needed \subseteq UNION {Produced(map.sections[s]) : s \in SectionNames}

\* RegisterMap._check_every_source_produces_every_target_point.
Complete == \A s \in SectionNames : Needed \subseteq Produced(map.sections[s])

SectionOk(section) ==
    /\ \A key \in DOMAIN section.points : ShapeOk(section.points[key])
    /\ \A op \in ToSet(section.derive) : ArityOk(op)
    /\ Covered(section)

Load ==
    /\ phase = "file"
    /\ phase' = IF /\ \A s \in SectionNames : SectionOk(map.sections[s])
                   /\ \A side \in ToSet(map.targets) : Disjoint(side)
                   /\ Complete
                THEN "loaded" ELSE "refused"
    /\ UNCHANGED <<map, bridge, subscribed, polled, zeroed, image>>

-----------------------------------------------------------------------------
(* Attaching a bridge to its section.                                      *)

Section == map.sections[bridge.section]
GroupsOf(section) == IF section.groups = None THEN <<>> ELSE section.groups

ComposeOf(pt) == IF pt.compose # None THEN pt.compose ELSE <<pt.addr>>

\* validate_source_coverage of the three pollers.
ReadableAtStartup ==
    IF bridge.type = "nd45"
    THEN \A key \in DOMAIN Section.points : \A a \in ToSet(ComposeOf(Section.points[key])) :
            \E g \in ToSet(Nd45Groups) : Within(a, 2, g.base, g.count)
    ELSE GroupsOf(Section) # <<>>

Block(link, unit, fc, base, count) ==
    [link |-> link, unit |-> unit, fc |-> fc, base |-> base, count |-> count]

UnitOf(group, device) == IF group.unit # None THEN group.unit ELSE device.unit

\* Mutant of BlocksForSource: the blocks as documented.
BlocksAsDocumented(device) ==
    IF bridge.type = "nd45"
    THEN {Block(device.link, device.unit, 3, g.base, g.count) : g \in ToSet(Nd45Groups)}
    ELSE {Block(device.link, UnitOf(g, device), IF bridge.type = "etango" THEN 4 ELSE 3,
                g.base, g.count) : g \in ToSet(GroupsOf(Section))}

\* blocks_for_source.
BlocksForSource(device) ==
    IF bridge.type = "nd45"
    THEN {Block(device.link, device.unit, 3, g.base, g.count) : g \in ToSet(Nd45Groups)}
    ELSE {Block(device.link, UnitOf(g, device), IF bridge.type = "etango" THEN 4 ELSE 3,
                g.base + Section.offset, g.count) : g \in ToSet(GroupsOf(Section))}

\* make_hub_client declares the blocks of every device on one connection.
Subscription == UNION {BlocksForSource(device) : device \in ToSet(bridge.devices)}

RegistersOf(side, p) == {<<side.fc, side.points[p].addr + w>> : w \in {0, 1}}

\* Addresses of the output maps; build_context seeds them, and all others, 0.
Served == UNION {UNION {RegistersOf(side, p) : p \in DOMAIN side.points} :
                   side \in ToSet(map.targets)}

Build ==
    /\ phase = "loaded"
    /\ IF ReadableAtStartup
       THEN /\ phase' = "built"
            /\ subscribed' = IF bridge.viaHub THEN Subscription ELSE {}
            /\ image' = [register \in Served |-> <<0, 0>>]
       ELSE phase' = "refused" /\ UNCHANGED <<subscribed, image>>
    /\ UNCHANGED <<map, bridge, polled, zeroed>>

-----------------------------------------------------------------------------
(* A poll.                                                                 *)

\* The reads poll_once makes of one device.
Reads(device) ==
    CASE bridge.type = "nd45" ->
           {Block(device.link, device.unit, 3, g.base, g.count) : g \in ToSet(Nd45Groups)}
      [] bridge.type = "huawei" ->
           {Block(device.link, UnitOf(g, device), 3, g.base + Section.offset, g.count) :
              g \in ToSet(Section.groups)}
      [] bridge.type = "etango" ->
           {Block(device.link, UnitOf(g, device), 4, g.base + Section.offset, g.count) :
              g \in ToSet(Section.groups)}

\* BlockKey.covers.
CoversRead(block, read) ==
    /\ block.link = read.link /\ block.unit = read.unit /\ block.fc = read.fc
    /\ Within(read.base, read.count, block.base, block.count)

Answered(read) == bridge.viaHub => \E block \in subscribed : CoversRead(block, read)

\* decode_source of one point: extract_registers finds it in a block, and the
\* decoder gets the words it takes.  Only the ND45 poller composes, and only
\* the SmartLogger poller looks at the dtype.
Decodes(pt) ==
    CASE bridge.type = "nd45" ->
           \A a \in ToSet(ComposeOf(pt)) : \E g \in ToSet(Nd45Groups) : Within(a, 2, g.base, g.count)
      [] bridge.type = "huawei" ->
           /\ pt.addr # None
           /\ \E g \in ToSet(Section.groups) :
                Within(pt.addr, RegisterWidth(pt.dtype), g.base, g.count)
      [] bridge.type = "etango" ->
           /\ pt.addr # None /\ RegisterWidth(pt.dtype) >= 2
           /\ \E g \in ToSet(Section.groups) :
                Within(pt.addr, RegisterWidth(pt.dtype), g.base, g.count)

\* One derive step: its targets are good where its inputs are; weights that
\* are missing only make the split equal.
DeriveStep(good, op) ==
    IF ToSet(op.from) \subseteq good THEN good \cup ToSet(op.targets)
    ELSE good \ ToSet(op.targets)

\* Only the ND45 poller does not derive.
DeriveOps == IF bridge.type = "nd45" THEN <<>> ELSE Section.derive
Good == FoldLeft(DeriveStep, DOMAIN Section.points, DeriveOps)
Keys == DOMAIN Section.points \cup UNION {ToSet(op.targets) : op \in ToSet(DeriveOps)}

PollSucceeds ==
    /\ \A device \in ToSet(bridge.devices) : \A read \in Reads(device) : Answered(read)
    /\ \A key \in DOMAIN Section.points : Decodes(Section.points[key])
    /\ bridge.type = "etango" => Keys \subseteq Good

\* The float32 served for a point: four bytes no other point has.
Raw(i, p) == [k \in 1 .. 4 |-> 100 * i + 4 * map.targets[i].points[p].addr + k]

\* Writes of one output map, over what is there.
WriteSide(registers, i) ==
    LET side == map.targets[i]
        written(p) == EncodePoint(Raw(i, p), side.wordOrder, side.byteOrder,
                                  side.points[p].zeroLowWord)
        owners(r) == {p \in DOMAIN side.points : r \in RegistersOf(side, p)}
    IN [r \in DOMAIN registers |->
          IF owners(r) = {} THEN registers[r]
          ELSE LET p == CHOOSE p \in owners(r) : TRUE
               IN written(p)[r[2] - side.points[p].addr + 1]]

\* update_datastore raises for a missing key before it writes anything.
Poll ==
    /\ phase = "built"
    /\ IF PollSucceeds /\ Needed \subseteq Keys \cup DerivedKeys
       THEN /\ polled' = "ok"
            /\ zeroed' = Keys \ Good
            /\ image' = FoldLeftDomain(WriteSide, image, map.targets)
       ELSE polled' = "error" /\ UNCHANGED <<zeroed, image>>
    /\ UNCHANGED <<map, bridge, phase, subscribed>>

Next == Load \/ Build \/ Poll

Spec == Init /\ [][Next]_vars

-----------------------------------------------------------------------------
(* Properties.                                                             *)

\* Every read the bridge's poller makes is covered by a block it subscribed
\* to: the two are computed in different modules from the same section.
HubCoversReads ==
    phase = "built" =>
        \A device \in ToSet(bridge.devices) : \A read \in Reads(device) : Answered(read)

\* Whoever reads the two registers of a point in the orders of its map finds
\* the four bytes of its value, a coarse one with its low word zeroed, unless a
\* later map claims one of the two: no validator compares maps.
PairsAreWhole ==
    polled = "ok" =>
        \A i \in DOMAIN map.targets : \A p \in DOMAIN map.targets[i].points :
            LET side == map.targets[i]
                raw  == Raw(i, p)
                pair == [w \in 1 .. 2 |-> image[<<side.fc, side.points[p].addr + w - 1>>]]
                later == {j \in DOMAIN map.targets : j > i /\ map.targets[j].fc = side.fc}
            IN \/ RegistersToFloat(pair, side.wordOrder, side.byteOrder)
                    = IF side.points[p].zeroLowWord THEN <<raw[1], raw[2], 0, 0>> ELSE raw
               \/ \E j \in later : \E q \in DOMAIN map.targets[j].points :
                    RegistersOf(side, p) \cap RegistersOf(map.targets[j], q) # {}

\* What the validators leave to the author of a map: no address lists and no
\* one-word points where the poller cannot take them, and derive steps only
\* where they run, from what exists by then.
WellKept ==
    /\ bridge.type # "nd45" =>
         \A key \in DOMAIN Section.points : Section.points[key].compose = None
    /\ bridge.type = "etango" =>
         \A key \in DOMAIN Section.points : RegisterWidth(Section.points[key].dtype) >= 2
    /\ bridge.type = "nd45" => Section.derive = <<>>
    /\ UNION {ToSet(op.targets) : op \in ToSet(Section.derive)} \subseteq Good

\* Nothing else can go wrong with a map that was loaded: a healthy source is
\* decoded at every poll, the sample has every key the outputs need, and none
\* of them is made up.
KeptMapsServe == WellKept /\ phase = "built" => polled # "error" /\ zeroed = {}
=============================================================================
