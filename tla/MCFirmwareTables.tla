--------------------------- MODULE MCFirmwareTables ---------------------------
(***************************************************************************)
(* FirmwareTables for the run tables: a version of one package and one of  *)
(* two, so that the comparison of versions meets both.                     *)
(***************************************************************************)
EXTENDS FirmwareTables

CONSTANTS v1, v2

TwoOffers == {v1, v2}
OneAndTwo == [v \in TwoOffers |-> IF v = v1 THEN 1 ELSE 2]
=============================================================================
