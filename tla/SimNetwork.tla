----------------------------- MODULE SimNetwork -----------------------------
(***************************************************************************)
(* The simulated network (crates/stratamoto-dst/src/net/network.rs and     *)
(* net/mod.rs): an endpoint per address, messages dropped when they are    *)
(* sent or delivered by a timer after a random latency, and the addresses  *)
(* that are cut off.  An endpoint outlives the tasks that read it.         *)
(*                                                                         *)
(* The channel behind an endpoint is async_channel's, which is external: a *)
(* task that finds it empty listens, a message notifies the task that has  *)
(* listened longest, and a notified task that is dropped, or that does not *)
(* need the notification any more, passes it on.                           *)
(***************************************************************************)
EXTENDS SimTasks

CONSTANT Latencies   \* the latencies a message may be given

ASSUME LatenciesAssumption == Latencies \subseteq Nat

VARIABLES
  endpoints,   \* the addresses that have an endpoint
  clogged,     \* Network.clogged
  lossy,       \* whether packet_loss_rate is above 0
  inbox,       \* the messages in each endpoint's channel
  listening,   \* the tasks listening on each channel, longest first
  notified,    \* the tasks that were notified and have not been polled since
  sent,        \* history: the messages sent, in order
  cut          \* history: the addresses connect or disconnect was called for

net_vars == <<endpoints, clogged, lossy, inbox, listening, notified, sent, cut>>

NetworkInit ==
  /\ endpoints = {} /\ clogged = {} /\ lossy = FALSE /\ cut = {}
  /\ inbox = [a \in Addrs |-> << >>]
  /\ listening = [a \in Addrs |-> << >>]
  /\ notified = {}
  /\ sent = << >>

-----------------------------------------------------------------------------
(* The channel. *)

\* A task listens once at most.
Without(s, t) ==
  IF \E i \in DOMAIN s : s[i] = t
    THEN LET i == CHOOSE i \in DOMAIN s : s[i] = t
         IN SubSeq(s, 1, i - 1) \o SubSeq(s, i + 1, Len(s))
    ELSE s

\* The first of the tasks listening, None if there is none.
First(s) == IF s = << >> THEN None ELSE Head(s)

\* notify_additional(1) on what is left of the listeners: the task to wake is First(l).
Notify(a, l, n) ==
  IF l = << >> THEN /\ listening' = [listening EXCEPT ![a] = l]
                    /\ notified' = n
  ELSE /\ listening' = [listening EXCEPT ![a] = Tail(l)]
       /\ notified' = n \cup {Head(l)}

\* Dropping task t's listener: a notification it had goes to the next.
DropListener(a, t) ==
  IF t \in notified THEN Notify(a, listening[a], notified \ {t})
  ELSE /\ listening' = [listening EXCEPT ![a] = Without(@, t)]
       /\ UNCHANGED notified

\* The task that the drop of t's listener wakes.
Successor(a, t) == IF t \in notified THEN First(listening[a]) ELSE None

\* A task that finds the channel empty listens; one that used its notification up does again.
Listen(a, t) ==
  /\ listening' = [listening EXCEPT ![a] = Append(Without(@, t), t)]
  /\ notified' = notified \ {t}

-----------------------------------------------------------------------------
(* Operations. *)

\* get: the endpoint, made if there is none.
Get(a) == endpoints' = endpoints \cup {a}

\* Mutant: only the receiver's end is looked at.
DropsAtReceiver(src, dst) == dst \notin endpoints \cup {src} \/ dst \in clogged

\* send: what makes it drop the message before it rolls the dice.
Drops(src, dst) ==
  dst \notin endpoints \cup {src} \/ src \in clogged \/ dst \in clogged

Message(src, dst) == [src |-> src, dst |-> dst, at |-> clock]

\* send through the sender's own handle, which has its endpoint: the message is dropped, or a
\* timer will hand it to the channel the receiver has now.
Send(src, dst) ==
  /\ Get(src)
  /\ \/ /\ Drops(src, dst) \/ lossy
        /\ sent' = Append(sent, Message(src, dst))
        /\ UNCHANGED timer
     \/ /\ ~Drops(src, dst)
        /\ sent' = Append(sent, Message(src, dst))
        /\ \E latency \in Latencies :
             timer' = timer \cup {Event(After(latency), <<"deliver", Len(sent) + 1>>)}
  /\ UNCHANGED <<clock, firing, clogged, lossy, inbox, listening, notified, cut, task_vars>>

\* The timer's callback: try_send, which notifies one listener.
Deliver(m) ==
  LET a == sent[m].dst
  IN /\ inbox' = [inbox EXCEPT ![a] = Append(@, m)]
     /\ Notify(a, listening[a], notified)
     /\ Wake(First(listening[a]))
     /\ UNCHANGED <<endpoints, clogged, lossy, sent, cut, infos, info, main, running, pc>>

\* disconnect, which clogs the address.
Disconnect(a) ==
  /\ clogged' = clogged \cup {a} /\ cut' = cut \cup {a}
  /\ UNCHANGED <<endpoints, lossy, inbox, listening, notified, sent>>

\* connect, by way of unclog, which puts the address in the set as clog does.
Connect(a) ==
  /\ clogged' = clogged \cup {a} /\ cut' = cut \cup {a}
  /\ UNCHANGED <<endpoints, lossy, inbox, listening, notified, sent>>

SetPacketLossRate ==
  /\ lossy' \in BOOLEAN
  /\ UNCHANGED <<endpoints, clogged, inbox, listening, notified, sent, cut>>

\* try_recv: a message that is there already.
TryRecv(a) ==
  /\ inbox[a] # << >>
  /\ inbox' = [inbox EXCEPT ![a] = Tail(@)]
  /\ UNCHANGED <<endpoints, clogged, lossy, listening, notified, sent, cut>>
=============================================================================
