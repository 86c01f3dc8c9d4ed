-------------------------------- MODULE Maps --------------------------------
(***************************************************************************)
(* The maps of the standard library the code keeps its tables in           *)
(* (std::collections): a map is a function of the keys it holds, << >> the *)
(* empty one.                                                              *)
(***************************************************************************)

\* insert: a key the map has is given the new value.
Insert(map, key, value) ==
  [k \in DOMAIN map \cup {key} |-> IF k = key THEN value ELSE map[k]]
=============================================================================
