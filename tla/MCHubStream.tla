----------------------------- MODULE MCHubStream -----------------------------
(***************************************************************************)
(* HubStream.tla on two blocks, one of which also contains the registers   *)
(* of the other.                                                           *)
(***************************************************************************)
EXTENDS HubStream, TLC

CONSTANTS whole, part

MCBlocks   == {whole, part}
MCCovering == (whole :> {whole}) @@ (part :> {whole, part})
=============================================================================
