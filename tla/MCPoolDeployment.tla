-------------------------- MODULE MCPoolDeployment --------------------------
(***************************************************************************)
(* One deployment, with frames of a header of two bytes and a payload of   *)
(* one chunk or of two, one of them as long as the header.                 *)
(***************************************************************************)
EXTENDS PoolDeployment

MCShapes == {<<2, 1>>, <<2, 2, 1>>}

MCMaxSent == [initiator |-> 1, responder |-> 2]
=============================================================================
