----------------------------- MODULE MCSources -----------------------------
(***************************************************************************)
(* The two sources that derive: a SmartLogger (HuaweiPoll) with sections   *)
(* like the two of config/registers.json, with two phases, in the four     *)
(* combinations of word and byte order; and relays (EtangoPoll), three of  *)
(* them, one watched but not aggregated.  A bridge has one of the two.     *)
(***************************************************************************)
EXTENDS EtangoPoll, HuaweiPoll

VARIABLE type       \* source.type of the bridge


Op(op, targets, from, weights) ==
    [op |-> op, targets |-> targets, from |-> from, weights |-> weights, value |-> Num(0)]

Constant(targets, value) ==
    [op |-> "constant", targets |-> targets, from |-> <<>>, weights |-> <<>>,
     value |-> Num(value)]

Point(dtype, scale, sign) ==
    [dtype |-> dtype, scale |-> Num(scale), sign |-> sign, offset |-> Num(0)]

PlantMap(wordOrder, byteOrder) ==
    [wordOrder |-> wordOrder, byteOrder |-> byteOrder,
     points |-> [p_total |-> Point("i32", 1, -1), q_total |-> Point("i32", 1, 1),
                 u_l12 |-> Point("u16", 1, 1), exp_energy_total |-> Point("u64", 1, 1)],
     derive |-> <<
        Op("phase_from_line", <<"u_l1">>, <<"u_l12">>, <<>>),
        Op("split_equal", <<"p_l1", "p_l2">>, <<"p_total">>, <<>>),
        Op("split_equal", <<"q_l1", "q_l2">>, <<"q_total">>, <<>>),
        Op("hypot", <<"s_total">>, <<"p_total", "q_total">>, <<>>),
        Op("split_equal", <<"s_l1", "s_l2">>, <<"s_total">>, <<>>),
        Constant(<<"freq">>, 50),
        Constant(<<"imp_energy_total">>, 0)>>]

MeterMap(wordOrder, byteOrder) ==
    [wordOrder |-> wordOrder, byteOrder |-> byteOrder,
     points |-> [p_l1 |-> Point("i32", 2, 1), p_l2 |-> Point("i32", 2, 1),
                 q_total |-> Point("i32", 2, 1), u_l1 |-> Point("i16", 1, 1)],
     derive |-> <<
        Op("ratio_split", <<"q_l1", "q_l2">>, <<"q_total">>, <<"p_l1", "p_l2">>),
        Op("hypot", <<"s_l1", "s_l2">>, <<"p_l1", "q_l1", "p_l2", "q_l2">>, <<>>),
        Op("pf_from_p_s", <<"pf_l1", "pf_l2">>, <<"p_l1", "s_l1", "p_l2", "s_l2">>, <<>>),
        Constant(<<"freq">>, 50)>>]

MCMaps == {PlantMap("big", "big"), PlantMap("little", "little"),
           MeterMap("big", "little"), MeterMap("little", "big")}

\* In base 2; the last choice of each is the type maximum.
MCHoldings(section) ==
    IF "p_total" \in DOMAIN section.points
    THEN {[p_total |-> p, q_total |-> q, u_l12 |-> u, exp_energy_total |-> e] :
            p \in {-8, -1, 0, 4, 7}, q \in {-3, 0, 4, 7}, u \in {0, 2, 3}, e \in {0, 32, 255}}
    ELSE {[p_l1 |-> p, p_l2 |-> p2, q_total |-> q, u_l1 |-> u] :
            p \in {-8, -1, 0, 4, 7}, p2 \in {-1, 0, 3, 7}, q \in {-1, 0, 4, 7}, u \in {-2, -1, 1}}

MCNeeded == {"u_l1", "q_l1", "q_l2", "s_l1", "s_l2", "freq", "active_energy_total",
             "net_imp_energy_total", "net_exp_energy_total"}

-----------------------------------------------------------------------------

MCDevices == <<"feeder1", "spare", "feeder2">>
MCAggregating == {"feeder1", "feeder2"}
MCMode == [p_total |-> "sum", u_l1 |-> "avg"]
MCDeriveOps ==
    <<[op |-> "hypot", targets |-> <<"s_total">>, from |-> <<"p_total", "p_total">>,
       weights |-> <<>>, aggregate |-> "sum"],
      [op |-> "copy", targets |-> <<"u_l2">>, from |-> <<"u_l1">>, weights |-> <<>>,
       aggregate |-> "avg"]>>
MCReadings == {-1, 1}

-----------------------------------------------------------------------------
\* The other source has nothing to tell apart.
MCInit ==
    /\ type \in {"huawei", "etango"}
    /\ Init /\ HuaweiInit
    /\ type = "etango" => map = CHOOSE m \in MCMaps : TRUE

MCNext ==
    \/ type = "huawei" /\ HuaweiNext /\ UNCHANGED <<type, vars>>
    \/ type = "etango" /\ Next /\ UNCHANGED <<type, huaweiVars>>

MCSpec == MCInit /\ [][MCNext]_<<type, vars, huaweiVars>>
=============================================================================
