---------------------------- MODULE DelayNetwork ----------------------------
(***************************************************************************)
(* What the simulated network promises: a letter is lost when it is posted *)
(* or not at all: by chance if the network is lossy, and surely if an end  *)
(* was severed or the receiver is unknown.  One that is not lost arrives   *)
(* once, within its latency, in any order.                                 *)
(***************************************************************************)
EXTENDS Integers, Sequences

CONSTANTS
  Addrs,      \* the addresses
  Latencies   \* how long a letter may take

VARIABLES
  now,       \* the time
  letters,   \* the letters posted, each with its ends and the time it was posted
  flight,    \* those under way
  box,       \* those that arrived, by receiver, in the order they arrived
  known,     \* the receivers there are
  lossy,     \* whether letters may be lost by chance
  severed    \* the ends cut off, which stay so

abstract_vars == <<now, letters, flight, box, known, lossy, severed>>

Init ==
  /\ now = 0 /\ letters = << >> /\ flight = {} /\ known = {}
  /\ lossy = FALSE /\ severed = {}
  /\ box = [a \in Addrs |-> << >>]

Post ==
  \E a \in Addrs, src \in Addrs :
    /\ letters' = Append(letters, [src |-> src, dst |-> a, at |-> now])
    /\ known' = known \cup {src}
    /\ IF a \notin known' \/ {src, a} \cap severed # {} THEN flight' = flight
       ELSE \/ flight' = flight \cup {Len(letters) + 1}
            \/ lossy /\ flight' = flight
    /\ UNCHANGED <<now, box, lossy, severed>>

Arrive ==
  \E m \in flight :
    /\ now - letters[m].at \in Latencies
    /\ flight' = flight \ {m}
    /\ box' = [box EXCEPT ![letters[m].dst] = Append(@, m)]
    /\ UNCHANGED <<now, letters, known, lossy, severed>>

Take ==
  \E a \in Addrs :
    /\ box[a] # << >>
    /\ box' = [box EXCEPT ![a] = Tail(@)]
    /\ UNCHANGED <<now, letters, flight, known, lossy, severed>>

\* Time moves, but not past the last moment a letter has to arrive.
Tick ==
  /\ now' > now
  /\ \A m \in flight : \E l \in Latencies : letters[m].at + l >= now'
  /\ UNCHANGED <<letters, flight, box, known, lossy, severed>>

\* Receivers come up, links go bad or better, and ends are cut off.
Change ==
  /\ known \subseteq known' /\ severed \subseteq severed'
  /\ lossy' \in BOOLEAN
  /\ UNCHANGED <<now, letters, flight, box>>

Next == Post \/ Arrive \/ Take \/ Tick \/ Change

Spec == Init /\ [][Next]_abstract_vars
=============================================================================
