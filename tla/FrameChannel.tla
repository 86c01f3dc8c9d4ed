---------------------------- MODULE FrameChannel ----------------------------
(***************************************************************************)
(* What a pair of transports promises: the frames a side posts arrive at   *)
(* the other in order, each once, until one that did not go out whole or   *)
(* bytes that are no frame break the stream, and none after that.          *)
(***************************************************************************)
EXTENDS Integers, Sequences

CONSTANT Sides   \* the two ends

VARIABLES
  posted,    \* for every frame of a side, whether it went out whole
  got,       \* how many frames have arrived at a side
  spoiled,   \* whether bytes that are no frame were put in the stream to a side
  broken     \* whether the stream to a side is broken

channel_vars == <<posted, got, spoiled, broken>>

Other(s) == CHOOSE o \in Sides : o # s

Init ==
  /\ posted = [s \in Sides |-> << >>] /\ got = [s \in Sides |-> 0]
  /\ spoiled = [s \in Sides |-> FALSE] /\ broken = [s \in Sides |-> FALSE]

Post(s) ==
  /\ \E whole \in BOOLEAN : posted' = [posted EXCEPT ![s] = Append(@, whole)]
  /\ UNCHANGED <<got, spoiled, broken>>

\* The frame that arrives next at s went out, whole or not.
NextIs(s, whole) == got[s] < Len(posted[Other(s)]) /\ posted[Other(s)][got[s] + 1] = whole

Arrive(s) ==
  /\ ~broken[s] /\ NextIs(s, TRUE)
  /\ got' = [got EXCEPT ![s] = @ + 1]
  /\ UNCHANGED <<posted, spoiled, broken>>

Spoil(s) ==
  /\ spoiled' = [spoiled EXCEPT ![s] = TRUE]
  /\ UNCHANGED <<posted, got, broken>>

Break(s) ==
  /\ spoiled[s] \/ NextIs(s, FALSE)
  /\ broken' = [broken EXCEPT ![s] = TRUE]
  /\ UNCHANGED <<posted, got, spoiled>>

\* Another connection takes the place of this one.
Reconnect ==
  /\ posted' = [s \in Sides |-> << >>] /\ got' = [s \in Sides |-> 0]
  /\ spoiled' = [s \in Sides |-> FALSE] /\ broken' = [s \in Sides |-> FALSE]

Next == Reconnect \/ \E s \in Sides : Post(s) \/ Arrive(s) \/ Spoil(s) \/ Break(s)

Spec == Init /\ [][Next]_channel_vars
=============================================================================
