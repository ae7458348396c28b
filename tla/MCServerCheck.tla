---------------------------- MODULE MCServerCheck ----------------------------
(* The instance of ServerCheck for TLC. *)
EXTENDS ServerCheck

CONSTANTS v1, v2
MCVersions == {v1, v2}

Result(v, lacks) == [ver |-> v, lacks |-> lacks]
\* No result, one that is whole or lacks a field, and two that are whole.
MCResults ==
  {<<>>, <<Result(v1, "nothing")>>, <<Result(v2, "id")>>, <<Result(v2, "size")>>,
   <<Result(v1, "nothing"), Result(v2, "nothing")>>}
=============================================================================
