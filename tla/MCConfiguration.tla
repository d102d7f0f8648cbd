-------------------------- MODULE MCConfiguration --------------------------
(***************************************************************************)
(* The two files a deployment is made of, one at a time, since no          *)
(* definition reads both.  registers.json (RegisterMap): two canonical     *)
(* keys and an alias, six registers, sections that are right and sections  *)
(* with one thing wrong.  config.yaml (Deployment): two bridges,           *)
(* interchangeable.                                                        *)
(***************************************************************************)
EXTENDS RegisterMap, Deployment, TLC

CONSTANTS b1, b2

VARIABLE file       \* which of the two is loaded


Point(addr, dtype) == [addr |-> addr, compose |-> None, dtype |-> dtype]
Composed(addrs, dtype) == [addr |-> None, compose |-> addrs, dtype |-> dtype]
Op(op, targets, from, weights) ==
    [op |-> op, targets |-> targets, from |-> from, weights |-> weights]
Group(base, count, unit) == [base |-> base, count |-> count, unit |-> unit]

MCPoints ==
    {[p |-> Point(0, "float32"), u |-> q] :
        q \in {Point(2, "float32"), Point(3, "float32"), Point(2, "u16"), Point(2, "u64"),
               Point(None, "u16"), Composed(<<0, 2>>, "float32"), Composed(<<7>>, "float32"),
               Composed(<<0>>, "i32")}}
      \cup {[p |-> Point(0, "float32")]}

MCDerives ==
    {<<>>, <<Op("copy", <<"u">>, <<"p">>, <<>>)>>, <<Op("copy", <<"u">>, <<"typo">>, <<>>)>>,
     <<Op("hypot", <<"u">>, <<"p">>, <<>>)>>,
     <<Op("ratio_split", <<"u">>, <<"p">>, <<"typo">>)>>}

MCGroups == {None, <<Group(0, 4, None)>>, <<Group(0, 2, 9), Group(2, 4, None)>>}

MCSections ==
    [points : MCPoints, derive : MCDerives, groups : MCGroups, offset : {0, 1}]

Side(fc, wordOrder, byteOrder, points) ==
    [fc |-> fc, wordOrder |-> wordOrder, byteOrder |-> byteOrder, points |-> points]
Target(addr, from) == [addr |-> addr, from |-> from, zeroLowWord |-> FALSE]
Coarse(addr, from) == [addr |-> addr, from |-> from, zeroLowWord |-> TRUE]

MCTargetLists ==
    {<<Side(3, "big", "big", [a |-> Target(0, "p"), b |-> Coarse(2, "u")]),
       Side(4, "little", "big", [c |-> Target(0, "alias"), d |-> Coarse(2, "p")])>>,
     <<Side(4, "big", "big", [a |-> Target(0, "p"), b |-> Target(1, "u")])>>,
     <<Side(4, "big", "little", [a |-> Target(0, "p")]),
       Side(4, "little", "little", [b |-> Coarse(1, "alias"), c |-> Target(3, "p")])>>}

Device(link, unit) == [link |-> link, unit |-> unit]

MCBridges ==
    {[type |-> type, section |-> "first", viaHub |-> hub,
      devices |-> IF type = "etango" THEN <<Device("x", 1), Device("y", 2)>>
                  ELSE <<Device("x", 1)>>] :
        type \in {"nd45", "huawei", "etango"}, hub \in BOOLEAN}

MCNd45Groups == <<Group(0, 4, None), Group(4, 2, None)>>

\* The section the bridge does not use only matters to Complete.
Others == {[points |-> [p |-> Point(0, "float32")], derive |-> d, groups |-> None, offset |-> 0] :
              d \in {<<>>, <<Op("copy", <<"u">>, <<"p">>, <<>>)>>}}

-----------------------------------------------------------------------------
MCEnabledBridges == {b1, b2}
Symmetry == Permutations(MCEnabledBridges)

-----------------------------------------------------------------------------
\* One value for the file that is not loaded.
OneMap == [sections |-> [s \in SectionNames |-> CHOOSE x \in Others : TRUE],
           targets |-> CHOOSE list \in MCTargetLists : TRUE]

OneDeployment ==
    /\ dtsu = [b \in EnabledBridges |-> CHOOSE output \in Outputs : TRUE]
    /\ metricsPort = [b \in EnabledBridges |-> 0]
    /\ prometheus = [enabled |-> FALSE, host |-> AnyHost, port |-> 1]

MCInit ==
    /\ \/ file = "registers.json" /\ OneDeployment
       \/ file = "config.yaml" /\ map = OneMap /\ bridge = CHOOSE b \in MCBridges : TRUE
    /\ Init /\ map.sections["second"] \in Others
    /\ DeployInit

MCNext ==
    \/ file = "registers.json" /\ Next /\ UNCHANGED <<file, deployVars>>
    \/ file = "config.yaml" /\ DeployNext /\ UNCHANGED <<file, vars>>

MCSpec == MCInit /\ [][MCNext]_<<file, vars, deployVars>>
=============================================================================
