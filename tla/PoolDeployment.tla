--------------------------- MODULE PoolDeployment ---------------------------
(***************************************************************************)
(* A deployment of the pool (crates/stratamoto-targets/src/pool.rs and     *)
(* node.rs): the node and the pool process are started, the pool is dialled*)
(* until a handshake completes, connections are opened to it and closed,   *)
(* it is asked whether it is alive, and all is taken down, by an error on  *)
(* the way up or by the drop.                                              *)
(*                                                                         *)
(* One connection is open at a time, the one of NoiseTransport; a new dial *)
(* is a new one.  The pool process is external: it binds its port, accepts *)
(* after its first template or never, and exits when it likes.  Deadlines  *)
(* are flags that become true some time after they are set.                *)
(***************************************************************************)
EXTENDS NoiseTransport

VARIABLES
  pc,              \* where the harness is
  node,            \* the node's process: "none", "running" or "stopped"
  pool,            \* the pool's: "none", "running", "exited" (and not waited for) or "reaped"
  dir,             \* whether the pool's directory is there
  bound,           \* whether the pool listens on its port,
  accepting,       \*   and whether it accepts what is connected
  purpose,         \* what the dial under way is for: "start", "connect" or "alive"
  dial_over,       \* whether the dial's budget is used up
  startup_over,    \* whether STARTUP_TIMEOUT has passed
  alive,           \* what is_alive said last: "unasked", "yes" or "no"
  answered         \* history: whether the pool answered the handshake of the attempt under way

processes == <<node, pool, dir, bound, accepting>>
dial_vars == <<purpose, dial_over, startup_over, alive, answered>>
pool_vars == <<pc, processes, dial_vars>>
vars == <<noise_vars, pool_vars>>

Init ==
  /\ NoiseInit
  /\ pc = "off" /\ node = "none" /\ pool = "none" /\ dir = FALSE
  /\ bound = FALSE /\ accepting = FALSE
  /\ purpose = "start" /\ dial_over = FALSE /\ startup_over = FALSE
  /\ alive = "unasked" /\ answered = FALSE

Goes(from, to) == pc = from /\ pc' = to

-----------------------------------------------------------------------------
(* start_with and Pool::start. *)

\* Node::start, which fails before there is a process or not at all.
NodeStart ==
  /\ \/ Goes("off", "node") /\ node' = "running"
     \/ Goes("off", "failed") /\ UNCHANGED node
  /\ UNCHANGED <<noise_vars, pool, dir, bound, accepting, dial_vars>>

\* The port is reserved and the directory made.
MakeDir ==
  /\ \/ Goes("node", "dir") /\ dir' = TRUE
     \/ Goes("node", "drop_node") /\ UNCHANGED dir
  /\ UNCHANGED <<noise_vars, node, pool, bound, accepting, dial_vars>>

\* The configuration and the log are written and the process spawned.  There is no Pool to
\* drop before there is a child, so an error leaves the directory.
SpawnPool ==
  /\ \/ Goes("dir", "waiting") /\ pool' = "running"
     \/ Goes("dir", "drop_node") /\ UNCHANGED pool
  /\ startup_over' = FALSE
  /\ UNCHANGED <<noise_vars, node, dir, bound, accepting, purpose, dial_over, alive, answered>>

\* wait_until_accepting: the process is looked at before every dial.
PoolHasExited ==
  /\ pc = "waiting" /\ pool = "exited"
  /\ pool' = "reaped"
  /\ pc' = "abort"
  /\ UNCHANGED <<noise_vars, node, dir, bound, accepting, dial_vars>>

\* try_wait itself fails.
LookFails ==
  /\ Goes("waiting", "abort")
  /\ UNCHANGED <<noise_vars, processes, dial_vars>>

\* kill: the process is killed and waited for.
Killed == IF pool \in {"running", "exited"} THEN "reaped" ELSE pool

\* Its end of a connection goes with the process.
PoolGone == IF pool = "running" THEN ShutsDown ELSE UNCHANGED noise_vars

\* Mutant: an error on the way up is returned without the process being killed.
AbortQuietly ==
  /\ pc = "abort"
  /\ pc' = "drop_node"
  /\ UNCHANGED <<noise_vars, processes, dial_vars>>

\* The pool that did not come up is killed, then dropped: killed once more, its directory gone.
Abort ==
  /\ pc = "abort"
  /\ pool' = Killed /\ PoolGone
  /\ dir' = FALSE
  /\ bound' = FALSE /\ accepting' = FALSE
  /\ pc' = "drop_node"
  /\ UNCHANGED <<node, dial_vars>>

-----------------------------------------------------------------------------
(* dial. *)

Dial(what) ==
  /\ pc' = "dial" /\ purpose' = what
  /\ dial_over' = FALSE /\ alive' = "unasked"

DialForStart ==
  /\ pc = "waiting" /\ pool # "exited"
  /\ Dial("start")
  /\ UNCHANGED <<noise_vars, processes, startup_over, answered>>

\* connect: a role the deployment does not have is refused without a dial, which changes nothing.
Connect ==
  /\ pc = "up"
  /\ Dial("connect")
  /\ UNCHANGED <<noise_vars, processes, startup_over, answered>>

IsAlive ==
  /\ pc = "up"
  /\ Dial("alive")
  /\ UNCHANGED <<noise_vars, processes, startup_over, answered>>

\* The TCP connection goes through when the pool listens, whether or not it accepts.
AttemptConnects ==
  /\ pc = "dial" /\ phase["initiator"] = "closed"
  /\ bound
  /\ HandshakeBegins
  /\ answered' = FALSE
  /\ UNCHANGED <<pc, processes, purpose, dial_over, startup_over, alive>>

\* It is refused, or does not go through in time.
AttemptRefused ==
  /\ pc = "dial" /\ phase["initiator"] = "closed"
  /\ pc' = "attempt_failed"
  /\ UNCHANGED <<noise_vars, processes, dial_vars>>

HandshakeStep ==
  /\ pc = "dial"
  /\ HandshakeEnds \/ HandshakeFails
  /\ UNCHANGED pool_vars

\* A socket whose handshake failed is dropped.
AttemptFails ==
  /\ pc = "dial" /\ phase["initiator"] = "failed"
  /\ HangsUp
  /\ pc' = "attempt_failed"
  /\ UNCHANGED <<processes, dial_vars>>

Retry ==
  /\ Goes("attempt_failed", "dial")
  /\ ~dial_over
  /\ UNCHANGED <<noise_vars, processes, dial_vars>>

\* Mutant: the deadline of the start is not looked at.
AfterDialForEver == IF purpose = "start" THEN "waiting" ELSE "up"

\* Where an error of dial leads: the start goes on until its own deadline.
AfterDial ==
  IF purpose # "start" THEN "up" ELSE IF startup_over THEN "abort" ELSE "waiting"

DialErr ==
  /\ pc = "attempt_failed" /\ dial_over
  /\ pc' = AfterDial
  /\ alive' = IF purpose = "alive" THEN "no" ELSE alive
  /\ dial_over' = FALSE
  /\ UNCHANGED <<noise_vars, processes, purpose, startup_over, answered>>

\* Mutant: a connection that goes through is enough.
DialOkConnected ==
  /\ pc = "dial" /\ phase["initiator"] \in {"handshake", "open"}
  /\ IF purpose = "connect" THEN UNCHANGED noise_vars ELSE HangsUp
  /\ pc' = IF purpose = "connect" THEN "talk" ELSE "up"
  /\ alive' = IF purpose = "alive" THEN "yes" ELSE alive
  /\ dial_over' = FALSE /\ startup_over' = FALSE
  /\ UNCHANGED <<processes, purpose, answered>>

\* The handshake completed; only connect keeps the connection.
DialOk ==
  /\ pc = "dial" /\ phase["initiator"] = "open"
  /\ IF purpose = "connect" THEN UNCHANGED noise_vars ELSE HangsUp
  /\ pc' = IF purpose = "connect" THEN "talk" ELSE "up"
  /\ alive' = IF purpose = "alive" THEN "yes" ELSE alive
  /\ dial_over' = FALSE /\ startup_over' = FALSE
  /\ UNCHANGED <<processes, purpose, answered>>

DialExpires ==
  /\ pc \in {"dial", "attempt_failed"} /\ ~dial_over
  /\ dial_over' = TRUE
  /\ UNCHANGED <<noise_vars, pc, processes, purpose, startup_over, alive, answered>>

StartupExpires ==
  /\ pc \in {"waiting", "dial", "attempt_failed"} /\ purpose = "start" /\ ~startup_over
  /\ startup_over' = TRUE
  /\ UNCHANGED <<noise_vars, pc, processes, purpose, dial_over, alive, answered>>

-----------------------------------------------------------------------------
(* A connection, and the end. *)

Talk ==
  /\ pc = "talk"
  /\ \/ Recv("initiator")
     \/ \E shape \in Shapes :
          \/ Send("initiator", shape)
          \/ \E n \in 0..Len(Frame("initiator", shape)) : SendTorn("initiator", shape, n)
  /\ UNCHANGED pool_vars

\* The connection is dropped; a recv returns first.
HangUp ==
  /\ Goes("talk", "up")
  /\ read_timeout["initiator"] = "io"
  /\ HangsUp
  /\ UNCHANGED <<processes, dial_vars>>

\* is_running: a pool that has exited is waited for.
IsRunning ==
  /\ pc = "up" /\ pool = "exited"
  /\ pool' = "reaped"
  /\ UNCHANGED <<noise_vars, pc, node, dir, bound, accepting, dial_vars>>

\* kill_pool: the deployment stays.
KillPool ==
  /\ pc = "up"
  /\ pool' = Killed /\ PoolGone
  /\ bound' = FALSE /\ accepting' = FALSE
  /\ UNCHANGED <<pc, node, dir, dial_vars>>

\* Mutant: the fields are dropped the other way round.
DropPoolLast ==
  /\ Goes("up", "drop_node")
  /\ node' = "stopped"
  /\ UNCHANGED <<noise_vars, pool, dir, bound, accepting, dial_vars>>

\* The drop of the deployment: of the pool first, which is declared first,
DropPool ==
  /\ Goes("up", "drop_node")
  /\ pool' = Killed /\ PoolGone
  /\ dir' = FALSE
  /\ bound' = FALSE /\ accepting' = FALSE
  /\ UNCHANGED <<node, dial_vars>>

\* and of the node, after an error as after the drop.
DropNode ==
  /\ Goes("drop_node", "down")
  /\ node' = "stopped"
  /\ UNCHANGED <<noise_vars, pool, dir, bound, accepting, dial_vars>>

-----------------------------------------------------------------------------
(* The pool process. *)

PoolBinds ==
  /\ pool = "running" /\ ~bound
  /\ bound' = TRUE
  /\ UNCHANGED <<noise_vars, pc, node, pool, dir, accepting, dial_vars>>

PoolTakesATemplate ==
  /\ pool = "running" /\ bound /\ ~accepting
  /\ accepting' = TRUE
  /\ UNCHANGED <<noise_vars, pc, node, pool, dir, bound, dial_vars>>

PoolAccepts ==
  /\ pool = "running" /\ accepting
  /\ Accepts
  /\ answered' = TRUE
  /\ UNCHANGED <<pc, processes, purpose, dial_over, startup_over, alive>>

PoolTalks ==
  /\ pool = "running" /\ pc = "talk"
  /\ \/ Recv("responder") \/ SendsJunk
     \/ \E shape \in Shapes : Send("responder", shape)
     \/ phase["responder"] = "open" /\ read_timeout["responder"] = "io" /\ ShutsDown
  /\ UNCHANGED pool_vars

PoolExits ==
  /\ pool = "running"
  /\ pool' = "exited" /\ ShutsDown
  /\ bound' = FALSE /\ accepting' = FALSE
  /\ UNCHANGED <<pc, node, dir, dial_vars>>

-----------------------------------------------------------------------------

Start == NodeStart \/ MakeDir \/ SpawnPool \/ PoolHasExited \/ LookFails \/ DialForStart \/ Abort

Dialling ==
  \/ AttemptConnects \/ AttemptRefused \/ HandshakeStep \/ AttemptFails \/ Retry
  \/ DialErr \/ DialOk

Uses == Connect \/ IsAlive \/ Talk \/ HangUp \/ IsRunning \/ KillPool \/ DropPool

Pool == PoolBinds \/ PoolTakesATemplate \/ PoolAccepts \/ PoolTalks \/ PoolExits

Next == Start \/ Dialling \/ Uses \/ DropNode \/ DialExpires \/ StartupExpires \/ Pool

Spec == Init /\ [][Next]_vars

\* The harness is one thread whose calls all return, by a timeout if not before, and clocks
\* move.  Nothing is assumed of the pool.
FairSpec ==
  Spec /\ WF_vars(Start \/ Dialling \/ DropNode) /\ WF_vars(DialExpires) /\ WF_vars(StartupExpires)

-----------------------------------------------------------------------------
(* Properties. *)

\* Whatever step of the way up fails, and whatever the pool did meanwhile, no process is left
\* running or waiting to be reaped when the deployment is gone (pool.rs:149-153, 185-196), and
\* the pool's directory is left only if the pool was never spawned.
CleanedUp ==
  pc \in {"down", "failed"} =>
    /\ node # "running" /\ pool \in {"none", "reaped"}
    /\ dir => pool = "none"

\* pool.rs:51, "Declared before the node so that it is dropped first": the pool never runs on
\* without the node it takes its templates from.
PoolNeverOutlivesItsNode == pool = "running" => node = "running"

\* However a deployment ends, on the way up or by the drop, its processes end in their order and
\* leave nothing: CleanedUp and PoolNeverOutlivesItsNode.
NothingLeftBehind == CleanedUp /\ PoolNeverOutlivesItsNode

\* pool.rs:156-157, "a TCP connection going through says nothing. A completed handshake does":
\* a start that succeeded, a connection handed out and a yes of is_alive each rest on an answer
\* the pool gave in the very attempt that succeeded (pool.rs:269-274), not in an earlier one of
\* the same dial, which timed out or was torn, and not in an earlier dial.
SuccessWasAnswered ==
  /\ pc = "talk" => answered
  /\ pc = "up" /\ purpose = "start" => answered
  /\ pc = "up" /\ purpose = "alive" /\ alive = "yes" => answered

\* A start comes to an end, with a pool that accepts or with an error that has been cleaned up,
\* whatever the pool does or leaves undone (pool.rs:158-178): the start's deadline is looked at
\* between dials that each have their own.
StartEnds == (pc = "off") ~> (pc \in {"up", "down", "failed"})
=============================================================================
