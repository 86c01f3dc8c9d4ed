---------------------------- MODULE MCFuzzStages ----------------------------
(***************************************************************************)
(* Two inputs, a map of two indices, and a check whose two runs grow to    *)
(* four when an index is unstable.                                         *)
(***************************************************************************)
EXTENDS FuzzStages

CONSTANTS i1, i2, x1, x2

MCInputs  == {i1, i2}
MCIndices == {x1, x2}
=============================================================================
