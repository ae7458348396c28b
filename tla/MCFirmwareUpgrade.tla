-------------------------- MODULE MCFirmwareUpgrade --------------------------
(* Small instances of FirmwareUpgrade for TLC.                              *)
EXTENDS FirmwareUpgrade

CONSTANTS v1, v2

\* The sizes of the packages: the larger one has a chunk that is not its last,
\* after which DOWNLOADING is reported.
MCSize == [v \in Versions |-> IF v = v1 THEN 1 ELSE 2]
=============================================================================
