------------------------------ MODULE MCBridge ------------------------------
(***************************************************************************)
(* Bridge.tla on a small instance: two blocks; a power and a power factor  *)
(* in the first, an energy in the second; two distinguishable readings.    *)
(***************************************************************************)
EXTENDS Bridge, TLC

CONSTANTS power, pf, energy, v1, v2

MCPoints   == {power, pf, energy}
MCOptional == {pf}
MCBlockOf  == (power :> 1) @@ (pf :> 1) @@ (energy :> 2)
MCValues   == {v1, v2}

\* The two readings are interchangeable: no definition names either.
ReadingSymmetry == Permutations(MCValues)
=============================================================================
