--------------------------- MODULE MCClientRegistry ---------------------------
(* The instance of ClientRegistry for TLC. *)
EXTENDS ClientRegistry, TLC

CONSTANTS a1, a2, l1, app, local

\* Two callback objects with the upgrade info of one application, and a local updater.
SharedInfo == (a1 :> app) @@ (a2 :> app) @@ (l1 :> local)
=============================================================================
