------------------------ MODULE PoolDeploymentProofs ------------------------
(***************************************************************************)
(* Proofs about a deployment of the pool, whatever frames are sent on its  *)
(* connections and however many.                                           *)
(*                                                                         *)
(* Three inductive invariants.  StageInv says which processes there are,   *)
(* and whether the directory is, at each place the harness may be: the     *)
(* pool is never looked for where it may be alive and forgotten.           *)
(* AnswerInv says that bytes of the pool are on a connection, and that a   *)
(* handshake has completed, only after the pool answered in the attempt    *)
(* under way.                                                              *)
(* NoiseInv is about the bytes of a connection: what is in the buffer and  *)
(* on the wire is a stream in which every byte is the one due after its    *)
(* predecessor, as far as the frames went out whole, and all that was sent *)
(* is in it.  The connection implements FrameChannel by it.                *)
(***************************************************************************)
EXTENDS PoolDeployment, SequenceTheorems, WellFoundedInduction, TLAPS

Before == {"off", "failed"}
Served == {"waiting", "dial", "attempt_failed", "up", "talk", "abort"}
Places == Before \cup Served \cup {"node", "dir", "drop_node", "down"}

\* The pool is gone, and its directory with it if it was ever spawned.
PoolIsGone == pool \in {"none", "reaped"} /\ (dir => pool = "none")

\* The processes at each place.
StageInv ==
  /\ pc \in Places
  /\ pc \in Before => node = "none" /\ pool = "none" /\ dir = FALSE
  /\ pc = "node" => node = "running" /\ pool = "none" /\ dir = FALSE
  /\ pc = "dir" => node = "running" /\ pool = "none"
  /\ pc \in Served => node = "running" /\ pool \in {"running", "exited", "reaped"}
  /\ pc = "drop_node" => node = "running" /\ PoolIsGone
  /\ pc = "down" => node = "stopped" /\ PoolIsGone

-----------------------------------------------------------------------------
(* The processes. *)

\* The stages imply the property.
LEMMA StageInvImplies == StageInv => NothingLeftBehind
  BY DEF StageInv, Places, Before, Served, PoolIsGone, NothingLeftBehind, CleanedUp,
         PoolNeverOutlivesItsNode

LEMMA StageInvInit == Init => StageInv
  BY DEF Init, StageInv, Places, Before, Served

\* Every step keeps the processes of its place.
LEMMA StageInvNext == StageInv /\ [Next]_vars => StageInv'
<1> SUFFICES ASSUME StageInv, [Next]_vars
             PROVE  StageInv'
  OBVIOUS
<1> USE DEF StageInv, Places, Before, Served, PoolIsGone
<1>1. CASE Start
  <2>1. CASE NodeStart
    BY <2>1 DEF NodeStart, Goes
  <2>2. CASE MakeDir
    BY <2>2 DEF MakeDir, Goes
  <2>3. CASE SpawnPool
    BY <2>3 DEF SpawnPool, Goes
  <2>4. CASE PoolHasExited
    BY <2>4 DEF PoolHasExited
  <2>5. CASE LookFails
    BY <2>5 DEF LookFails, Goes, processes
  <2>6. CASE DialForStart
    BY <2>6 DEF DialForStart, Dial, processes
  <2>7. CASE Abort
    BY <2>7 DEF Abort, Killed
  <2>8. QED
    BY <1>1, <2>1, <2>2, <2>3, <2>4, <2>5, <2>6, <2>7 DEF Start
<1>2. CASE Dialling
  <2>1. UNCHANGED processes
    BY <1>2 DEF Dialling, AttemptConnects, AttemptRefused, HandshakeStep, AttemptFails, Retry,
                DialErr, DialOk, pool_vars, processes
  <2>2. pc \in Served /\ pc' \in Served
    BY <1>2 DEF Dialling, AttemptConnects, AttemptRefused, HandshakeStep, AttemptFails, Retry,
                DialErr, AfterDial, DialOk, Goes, pool_vars
  <2>3. QED
    BY <2>1, <2>2 DEF processes
<1>3. CASE Uses
  <2>1. CASE Connect \/ IsAlive
    BY <2>1 DEF Connect, IsAlive, Dial, processes
  <2>2. CASE Talk
    BY <2>2 DEF Talk, pool_vars, processes
  <2>3. CASE HangUp
    BY <2>3 DEF HangUp, Goes, processes
  <2>4. CASE IsRunning
    BY <2>4 DEF IsRunning
  <2>5. CASE KillPool
    BY <2>5 DEF KillPool, Killed
  <2>6. CASE DropPool
    BY <2>6 DEF DropPool, Killed, Goes
  <2>7. QED
    BY <1>3, <2>1, <2>2, <2>3, <2>4, <2>5, <2>6 DEF Uses
<1>4. CASE DropNode
  BY <1>4 DEF DropNode, Goes
<1>5. CASE DialExpires \/ StartupExpires
  BY <1>5 DEF DialExpires, StartupExpires, processes
<1>6. CASE Pool
  <2>1. CASE PoolBinds \/ PoolTakesATemplate
    BY <2>1 DEF PoolBinds, PoolTakesATemplate
  <2>2. CASE PoolAccepts
    BY <2>2 DEF PoolAccepts, processes
  <2>3. CASE PoolTalks
    BY <2>3 DEF PoolTalks, pool_vars, processes
  <2>4. CASE PoolExits
    BY <2>4 DEF PoolExits
  <2>5. QED
    BY <1>6, <2>1, <2>2, <2>3, <2>4 DEF Pool
<1>7. CASE UNCHANGED vars
  BY <1>7 DEF vars, pool_vars, processes
<1>8. QED
  BY <1>1, <1>2, <1>3, <1>4, <1>5, <1>6, <1>7 DEF Next

\* However a deployment ends, at whatever step of the way up and whatever the pool does, its
\* processes have ended, the pool's before the node's, and its directory is gone
\* (pool.rs:149-153, 185-196, 51).
THEOREM NothingIsLeftBehind == Spec => []NothingLeftBehind
<1>1. Spec => []StageInv
  BY StageInvInit, StageInvNext, PTL DEF Spec
<1>2. QED
  BY <1>1, StageInvImplies, PTL

-----------------------------------------------------------------------------
(* The handshake. *)

\* The connection as far as the handshake goes.
ConnectionOK ==
  /\ phase \in [Sides -> {"closed", "handshake", "open", "failed"}]
  /\ wire = [s \in Sides |-> wire[s]]
  /\ phase["initiator"] = "closed" => wire["initiator"] = << >> /\ wire["responder"] = << >>

\* There is a connection only in a dial and in what connect handed out.
ConnectionPlace ==
  /\ pc \notin {"dial", "talk"} => phase["initiator"] = "closed"
  /\ pc = "talk" => phase["initiator"] = "open" /\ purpose = "connect"

\* What the pool must have answered for.
AnswerFirst ==
  /\ phase["initiator"] = "open" => answered
  /\ wire["initiator"] # << >> => answered

AnswerInv == ConnectionOK /\ ConnectionPlace /\ AnswerFirst /\ SuccessWasAnswered

LEMMA AnswerInvInit == Init => AnswerInv
  BY DEF Init, NoiseInit, Both, Sides, AnswerInv, ConnectionOK, ConnectionPlace, AnswerFirst,
         SuccessWasAnswered

\* A connection that is dropped leaves nothing behind.
LEMMA HangsUpCloses ==
  ASSUME HangsUp
  PROVE  /\ ConnectionOK' /\ AnswerFirst'
         /\ phase'["initiator"] = "closed"
  BY DEF HangsUp, Both, Sides, ConnectionOK, AnswerFirst

\* The pool going away puts nothing on the wire.
LEMMA ShutsDownKeeps ==
  ASSUME ConnectionOK, AnswerFirst, ShutsDown, answered' = answered
  PROVE  /\ ConnectionOK' /\ AnswerFirst'
         /\ phase'["initiator"] = phase["initiator"]
<1>1. PICK n \in 0..Len(wire["initiator"]) :
        wire' = [wire EXCEPT !["responder"] = << >>,
                             !["initiator"] = SubSeq(wire["initiator"], 1, n)]
  BY DEF ShutsDown
<1>2. phase' = [phase EXCEPT !["responder"] = "closed"]
  BY DEF ShutsDown
<1>3. /\ DOMAIN wire = Sides
      /\ wire' = [s \in Sides |-> wire'[s]]
      /\ wire'["responder"] = << >>
      /\ wire'["initiator"] = SubSeq(wire["initiator"], 1, n)
  BY <1>1 DEF ConnectionOK, Sides
<1>4. wire["initiator"] = << >> => wire'["initiator"] = << >>
  <2>1. SUFFICES ASSUME wire["initiator"] = << >>
                 PROVE  wire'["initiator"] = << >>
    OBVIOUS
  <2>2. n = 0
    BY <2>1, <1>1
  <2>3. QED
    BY <1>3, <2>1, <2>2, SubSeqEmpty
<1>5. QED
  BY <1>2, <1>3, <1>4 DEF ConnectionOK, AnswerFirst, Sides

\* Every step keeps the answer ahead of what rests on it.
LEMMA AnswerInvNext == AnswerInv /\ [Next]_vars => AnswerInv'
<1> SUFFICES ASSUME AnswerInv, [Next]_vars
             PROVE  AnswerInv'
  OBVIOUS
<1> USE DEF AnswerInv
<1>1. ASSUME UNCHANGED <<phase, wire, answered>>
      PROVE  ConnectionOK' /\ AnswerFirst'
  BY <1>1 DEF ConnectionOK, AnswerFirst
<1>2. CASE Start
  <2>1. CASE NodeStart \/ MakeDir \/ SpawnPool \/ PoolHasExited \/ LookFails
    BY <2>1, <1>1 DEF NodeStart, MakeDir, SpawnPool, PoolHasExited, LookFails, Goes, noise_vars,
                      dial_vars, ConnectionPlace, SuccessWasAnswered
  <2>2. CASE DialForStart
    BY <2>2 DEF DialForStart, Dial, noise_vars, ConnectionOK, ConnectionPlace, AnswerFirst,
                SuccessWasAnswered
  <2>3. CASE Abort
    <3>1. answered' = answered /\ pc = "abort" /\ pc' = "drop_node"
      BY <2>3 DEF Abort, dial_vars
    <3>2. ConnectionOK' /\ AnswerFirst' /\ phase'["initiator"] = phase["initiator"]
      BY <2>3, <3>1, <1>1, ShutsDownKeeps DEF Abort, PoolGone, noise_vars
    <3>3. QED
      BY <3>1, <3>2 DEF ConnectionPlace, SuccessWasAnswered
  <2>4. QED
    BY <1>2, <2>1, <2>2, <2>3 DEF Start
<1>3. CASE Dialling
  <2>1. CASE AttemptConnects
    BY <2>1 DEF AttemptConnects, HandshakeBegins, Both, Sides, ConnectionOK, ConnectionPlace,
                AnswerFirst, SuccessWasAnswered
  <2>2. CASE AttemptRefused \/ Retry
    BY <2>2, <1>1 DEF AttemptRefused, Retry, Goes, noise_vars, dial_vars, ConnectionPlace,
                      SuccessWasAnswered
  <2>3. CASE HandshakeStep
    BY <2>3 DEF HandshakeStep, HandshakeEnds, HandshakeFails, Sides, pool_vars, dial_vars,
                ConnectionOK, ConnectionPlace, AnswerFirst, SuccessWasAnswered
  <2>4. CASE AttemptFails
    BY <2>4, HangsUpCloses DEF AttemptFails, dial_vars, ConnectionPlace, SuccessWasAnswered
  <2>5. CASE DialErr
    BY <2>5, <1>1 DEF DialErr, AfterDial, noise_vars, ConnectionPlace, SuccessWasAnswered
  <2>6. CASE DialOk
    <3>1. /\ pc = "dial" /\ phase["initiator"] = "open" /\ answered
          /\ answered' = answered /\ purpose' = purpose
      BY <2>6 DEF DialOk, AnswerFirst
    <3>2. CASE purpose = "connect"
      BY <2>6, <3>1, <3>2, <1>1 DEF DialOk, noise_vars, ConnectionPlace, SuccessWasAnswered
    <3>3. CASE purpose # "connect"
      BY <2>6, <3>1, <3>3, HangsUpCloses DEF DialOk, ConnectionPlace, SuccessWasAnswered
    <3>4. QED
      BY <3>2, <3>3
  <2>7. QED
    BY <1>3, <2>1, <2>2, <2>3, <2>4, <2>5, <2>6 DEF Dialling
<1>4. CASE Uses
  <2>1. CASE Connect \/ IsAlive
    BY <2>1 DEF Connect, IsAlive, Dial, noise_vars, ConnectionOK, ConnectionPlace, AnswerFirst,
                SuccessWasAnswered
  <2>2. CASE Talk
    <3>1. /\ pc = "talk" /\ answered /\ UNCHANGED pool_vars
          /\ phase' = phase /\ wire' = [s \in Sides |-> wire'[s]]
      BY <2>2 DEF Talk, Recv, RecvBegins, ReadTimesOut, ReadEnds, ReadsPart, DecryptsChunk,
                  DecryptsFrame, DecryptFails, ReadsChunk, Read, Send, SendTorn, Puts,
                  ConnectionOK, ConnectionPlace, AnswerFirst
    <3>2. QED
      BY <3>1 DEF pool_vars, dial_vars, ConnectionOK, ConnectionPlace, AnswerFirst,
                  SuccessWasAnswered
  <2>3. CASE HangUp
    BY <2>3, HangsUpCloses DEF HangUp, Goes, dial_vars, ConnectionPlace, SuccessWasAnswered
  <2>4. CASE IsRunning
    BY <2>4, <1>1 DEF IsRunning, noise_vars, dial_vars, ConnectionPlace, SuccessWasAnswered
  <2>5. CASE KillPool \/ DropPool
    <3>1. answered' = answered /\ pc = "up" /\ pc' \in {"up", "drop_node"} /\ UNCHANGED dial_vars
      BY <2>5 DEF KillPool, DropPool, Goes, dial_vars
    <3>2. ConnectionOK' /\ AnswerFirst' /\ phase'["initiator"] = phase["initiator"]
      BY <2>5, <3>1, <1>1, ShutsDownKeeps DEF KillPool, DropPool, PoolGone, noise_vars
    <3>3. QED
      BY <3>1, <3>2 DEF dial_vars, ConnectionPlace, SuccessWasAnswered
  <2>6. QED
    BY <1>4, <2>1, <2>2, <2>3, <2>4, <2>5 DEF Uses
<1>5. CASE DropNode \/ DialExpires \/ StartupExpires
  BY <1>5, <1>1 DEF DropNode, DialExpires, StartupExpires, Goes, noise_vars, dial_vars,
                    ConnectionPlace, SuccessWasAnswered
<1>6. CASE Pool
  <2>1. CASE PoolBinds \/ PoolTakesATemplate
    BY <2>1, <1>1 DEF PoolBinds, PoolTakesATemplate, noise_vars, dial_vars, ConnectionPlace,
                      SuccessWasAnswered
  <2>2. CASE PoolAccepts
    <3>1. /\ wire["responder"] = <<Hello>> /\ answered' = TRUE
          /\ phase' = [phase EXCEPT !["responder"] = "open"]
          /\ wire' = [s \in Sides |-> wire'[s]]
          /\ UNCHANGED <<pc, purpose, alive>>
      BY <2>2 DEF PoolAccepts, Accepts, ConnectionOK
    <3>2. phase["initiator"] # "closed" /\ phase'["initiator"] = phase["initiator"]
      BY <3>1 DEF ConnectionOK, Sides
    <3>3. QED
      BY <3>1, <3>2 DEF ConnectionOK, ConnectionPlace, AnswerFirst, SuccessWasAnswered, Sides
  <2>3. CASE PoolTalks
    <3>1. /\ pc = "talk" /\ answered /\ UNCHANGED pool_vars
          /\ phase["initiator"] = "open"
      BY <2>3 DEF PoolTalks, ConnectionPlace, AnswerFirst
    <3>2. /\ phase' \in [Sides -> {"closed", "handshake", "open", "failed"}]
          /\ phase'["initiator"] = "open"
          /\ wire' = [s \in Sides |-> wire'[s]]
      BY <2>3, <3>1 DEF PoolTalks, Recv, RecvBegins, ReadTimesOut, ReadEnds, ReadsPart,
                        DecryptsChunk, DecryptsFrame, DecryptFails, ReadsChunk, Read, Send, Puts,
                        SendsJunk, ShutsDown, Sides, ConnectionOK
    <3>3. QED
      BY <3>1, <3>2 DEF pool_vars, dial_vars, ConnectionOK, ConnectionPlace, AnswerFirst,
                        SuccessWasAnswered
  <2>4. CASE PoolExits
    BY <2>4, ShutsDownKeeps DEF PoolExits, dial_vars, ConnectionPlace, SuccessWasAnswered
  <2>5. QED
    BY <1>6, <2>1, <2>2, <2>3, <2>4 DEF Pool
<1>7. CASE UNCHANGED vars
  BY <1>7, <1>1 DEF vars, noise_vars, pool_vars, dial_vars, ConnectionPlace, SuccessWasAnswered
<1>8. QED
  BY <1>2, <1>3, <1>4, <1>5, <1>6, <1>7 DEF Next

\* A start that succeeded, a connection handed out and a yes of is_alive rest on an answer the
\* pool gave in that very attempt (pool.rs:156-157, 269-274), however the attempts of a dial, the
\* pool's death and what is on the wire interleave.
THEOREM SuccessRestsOnAnAnswer == Spec => []SuccessWasAnswered
<1>1. Spec => []AnswerInv
  BY AnswerInvInit, AnswerInvNext, PTL DEF Spec
<1>2. AnswerInv => SuccessWasAnswered
  BY DEF AnswerInv
<1>3. QED
  BY <1>1, <1>2, PTL

-----------------------------------------------------------------------------
(* Induction, and what FlattenSeq computes. *)

Less == {ss \in Nat \X Nat : ss[1] < ss[2]}

\* Induction, for a set of natural numbers.
LEMMA Induction ==
  ASSUME NEW S, 0 \in S, \A n \in Nat : n \in S => n + 1 \in S
  PROVE  Nat \subseteq S
<1> DEFINE T == {n \in Nat : n \notin S}
<1> SUFFICES ASSUME T # {} PROVE FALSE
  OBVIOUS
<1>1. Less = OpToRel(<, Nat)
  BY Zenon DEF OpToRel, Less
<1>2. IsWellFoundedOn(Less, Nat)
  BY <1>1, NatLessThanWellFounded, Zenon
<1>3. PICK x \in T : \A y \in T : ~(<<y, x>> \in Less)
  BY <1>2, WFMin
<1>4. x \in Nat /\ x \notin S /\ x # 0
  OBVIOUS
<1>5. x - 1 \in Nat /\ x - 1 + 1 = x /\ x - 1 < x
  BY <1>4
<1>6. x - 1 \notin S
  BY <1>4, <1>5
<1>7. x - 1 \in T /\ <<x - 1, x>> \in Less
  BY <1>4, <1>5, <1>6 DEF Less
<1>8. QED
  BY <1>3, <1>7

\* f[i] is the first i sequences of ss, one after the other.
Flattens(f, ss, n) ==
  f = [i \in 1..n |-> IF i = 1 THEN ss[i] ELSE f[i - 1] \o ss[i]]

LEMMA FlattensExist ==
  ASSUME NEW ss, NEW n \in Nat
  PROVE  \E f : Flattens(f, ss, n)
<1> DEFINE S == {m \in Nat : \E f : Flattens(f, ss, m)}
<1>1. 0 \in S
  <2> DEFINE f == [i \in 1..0 |-> ss[i]]
  <2>1. f = [i \in 1..0 |-> IF i = 1 THEN ss[i] ELSE f[i - 1] \o ss[i]]
    OBVIOUS
  <2> HIDE DEF f
  <2>2. QED
    BY <2>1 DEF Flattens
<1>2. ASSUME NEW m \in Nat, m \in S PROVE m + 1 \in S
  <2>1. PICK f : Flattens(f, ss, m)
    BY <1>2
  <2> DEFINE last == IF m = 0 THEN ss[1] ELSE f[m] \o ss[m + 1]
             g == [i \in 1..(m + 1) |-> IF i = m + 1 THEN last ELSE f[i]]
  <2> HIDE DEF last
  <2>2. ASSUME NEW i \in 1..(m + 1)
        PROVE  g[i] = IF i = 1 THEN ss[i] ELSE g[i - 1] \o ss[i]
    <3>1. CASE i \in 1..m
      <4>1. f[i] = IF i = 1 THEN ss[i] ELSE f[i - 1] \o ss[i]
        BY <2>1, <3>1 DEF Flattens
      <4>2. i # m + 1 /\ (i # 1 => i - 1 \in 1..(m + 1) /\ i - 1 # m + 1)
        BY <3>1
      <4>3. g[i] = f[i] /\ (i # 1 => g[i - 1] = f[i - 1])
        BY <4>2
      <4>4. QED
        BY <4>1, <4>3
    <3>2. CASE i = m + 1
      <4>1. g[i] = last
        BY <3>2
      <4>2. m # 0 => m \in 1..(m + 1) /\ m # m + 1 /\ i - 1 = m /\ i # 1
        BY <3>2
      <4>3. m # 0 => g[i - 1] = f[m]
        BY <4>2
      <4>4. m = 0 => i = 1
        BY <3>2
      <4> HIDE DEF g
      <4>5. QED
        BY <3>2, <4>1, <4>2, <4>3, <4>4 DEF last
    <3>3. QED
      BY <3>1, <3>2
  <2>3. g = [i \in 1..(m + 1) |-> g[i]]
    OBVIOUS
  <2> HIDE DEF g
  <2>4. Flattens(g, ss, m + 1)
    BY <2>2, <2>3 DEF Flattens
  <2>5. QED
    BY <2>4
<1> HIDE DEF S
<1>3. n \in S
  BY <1>1, <1>2, Induction
<1>4. QED
  BY <1>3 DEF S

LEMMA FlattenSeqIs ==
  ASSUME NEW ss, Len(ss) \in Nat \ {0}
  PROVE  \E f : Flattens(f, ss, Len(ss)) /\ FlattenSeq(ss) = f[Len(ss)]
<1> DEFINE g == CHOOSE f : f = [i \in 1..Len(ss) |-> IF i = 1 THEN ss[i] ELSE f[i - 1] \o ss[i]]
<1>1. \E f : f = [i \in 1..Len(ss) |-> IF i = 1 THEN ss[i] ELSE f[i - 1] \o ss[i]]
  BY FlattensExist, Zenon DEF Flattens
<1>2. Flattens(g, ss, Len(ss))
  BY <1>1, Zenon DEF Flattens
<1>3. Len(ss) # 0
  OBVIOUS
<1>4. FlattenSeq(ss) = g[Len(ss)]
  BY <1>3, Zenon DEF FlattenSeq
<1>5. QED
  BY <1>2, <1>4, Zenon

-----------------------------------------------------------------------------
(* The bytes of a frame. *)

Byte == [frame : Nat, chunk : Nat, at : Nat]

ByteAt(n, c, i) == [frame |-> n, chunk |-> c, at |-> i]

\* The byte that comes after b, if the frame of b is of this shape and is there as a whole.
Succ(b, shape) ==
  IF b.at < shape[b.chunk] THEN ByteAt(b.frame, b.chunk, b.at + 1)
  ELSE IF b.chunk < Len(shape) THEN ByteAt(b.frame, b.chunk + 1, 1)
  ELSE ByteAt(b.frame + 1, 1, 1)

LastByte(n, shape) == ByteAt(n, Len(shape), shape[Len(shape)])

\* b is a byte of the first k chunks of frame n.
OfFrame(b, n, shape, k) ==
  /\ b \in Byte /\ b.frame = n
  /\ b.chunk \in 1..k /\ b.at \in 1..shape[b.chunk]

\* e is the first k chunks of frame n, byte for byte.
Spells(e, n, shape, k) ==
  /\ e \in Seq(Byte) /\ Len(e) > 0
  /\ e[1] = ByteAt(n, 1, 1) /\ e[Len(e)] = ByteAt(n, k, shape[k])
  /\ \A i \in 1..Len(e) : OfFrame(e[i], n, shape, k)
  /\ \A i \in 1..Len(e) : i > 1 => e[i] = Succ(e[i - 1], shape)

LEMMA ByteFields ==
  ASSUME NEW n \in Nat, NEW c \in Nat, NEW i \in Nat, NEW b, b = ByteAt(n, c, i)
  PROVE  b \in Byte /\ b.frame = n /\ b.chunk = c /\ b.at = i
  BY DEF ByteAt, Byte

\* A function on 1..m is a sequence of that length.
LEMMA IsSeq ==
  ASSUME NEW S, NEW m \in Nat, NEW f \in [1..m -> S]
  PROVE  f \in Seq(S) /\ Len(f) = m
  OBVIOUS

\* w is e, of length l, and d, of length m, one after the other.
Joined(w, S, e, l, d, m) ==
  /\ l \in Nat /\ m \in Nat
  /\ w \in Seq(S) /\ Len(w) = l + m
  /\ \A i \in 1..l : w[i] = e[i]
  /\ \A i \in 1..m : w[l + i] = d[i]

LEMMA Concatenated ==
  ASSUME NEW S, NEW e \in Seq(S), NEW d \in Seq(S), NEW l, l = Len(e), NEW m, m = Len(d),
         NEW w, w = e \o d
  PROVE  Joined(w, S, e, l, d, m)
  BY DEF Joined

\* One chunk is in order.
LEMMA ChunkSpells ==
  ASSUME NEW n \in Nat, NEW shape \in Seq(Nat \ {0}), NEW k \in 1..Len(shape)
  PROVE  /\ ChunkOf(n, shape, k) \in Seq(Byte) /\ Len(ChunkOf(n, shape, k)) = shape[k]
         /\ shape[k] \in Nat \ {0}
         /\ \A i \in 1..shape[k] : /\ ChunkOf(n, shape, k)[i] = ByteAt(n, k, i)
                                   /\ OfFrame(ChunkOf(n, shape, k)[i], n, shape, k)
                                   /\ i > 1 => ChunkOf(n, shape, k)[i]
                                                 = Succ(ChunkOf(n, shape, k)[i - 1], shape)
<1>1. shape[k] \in Nat \ {0} /\ k \in Nat
  OBVIOUS
<1>2. ChunkOf(n, shape, k) = [i \in 1..shape[k] |-> ByteAt(n, k, i)]
  BY DEF ChunkOf, ByteAt
<1>3. \A i \in 1..shape[k] : ByteAt(n, k, i) \in Byte
  BY <1>1, ByteFields
<1>4. ChunkOf(n, shape, k) \in Seq(Byte) /\ Len(ChunkOf(n, shape, k)) = shape[k]
  <2>1. DOMAIN ChunkOf(n, shape, k) = 1..shape[k]
    BY <1>2
  <2>2. ChunkOf(n, shape, k) \in [1..shape[k] -> Byte]
    BY <1>2, <1>3
  <2>3. QED
    BY <1>1, <2>2, IsSeq
<1>5. ASSUME NEW i \in 1..shape[k]
      PROVE  /\ ChunkOf(n, shape, k)[i] = ByteAt(n, k, i)
             /\ OfFrame(ChunkOf(n, shape, k)[i], n, shape, k)
             /\ i > 1 => ChunkOf(n, shape, k)[i] = Succ(ChunkOf(n, shape, k)[i - 1], shape)
  <2>1. ChunkOf(n, shape, k)[i] = ByteAt(n, k, i) /\ i \in Nat
    BY <1>2, <1>1
  <2>2. OfFrame(ByteAt(n, k, i), n, shape, k)
    <3> DEFINE b == ByteAt(n, k, i)
    <3>1. b \in Byte /\ b.frame = n /\ b.chunk = k /\ b.at = i
      BY <1>1, <2>1 DEF ByteAt, Byte
    <3> HIDE DEF b
    <3>2. OfFrame(b, n, shape, k)
      BY <1>1, <2>1, <3>1 DEF OfFrame
    <3>3. QED
      BY <3>2 DEF b
  <2>3. ASSUME i > 1
        PROVE  ByteAt(n, k, i) = Succ(ChunkOf(n, shape, k)[i - 1], shape)
    <3>1. i - 1 \in 1..shape[k] /\ i - 1 \in Nat /\ i - 1 < shape[k] /\ i - 1 + 1 = i
      BY <1>1, <2>1, <2>3
    <3>2. ChunkOf(n, shape, k)[i - 1] = ByteAt(n, k, i - 1)
      BY <1>2, <3>1
    <3>3. PICK b : b = ByteAt(n, k, i - 1)
      OBVIOUS
    <3>4. b.frame = n /\ b.chunk = k /\ b.at = i - 1
      BY <3>3 DEF ByteAt
    <3>5. Succ(b, shape) = ByteAt(n, k, i)
      BY <3>1, <3>4 DEF Succ
    <3>6. QED
      BY <3>2, <3>3, <3>5
  <2>4. QED
    BY <2>1, <2>2, <2>3
<1>6. QED
  BY <1>1, <1>4, <1>5

\* With one chunk more, a frame is still in order.
LEMMA SpellsMore ==
  ASSUME NEW n \in Nat, NEW shape \in Seq(Nat \ {0}), NEW k \in 1..Len(shape), k > 1,
         NEW e, Spells(e, n, shape, k - 1)
  PROVE  Spells(e \o ChunkOf(n, shape, k), n, shape, k)
<1> DEFINE d == ChunkOf(n, shape, k)
<1>1. /\ d \in Seq(Byte) /\ Len(d) = shape[k] /\ shape[k] \in Nat \ {0}
      /\ \A i \in 1..shape[k] : /\ d[i] = ByteAt(n, k, i)
                                /\ OfFrame(d[i], n, shape, k)
                                /\ i > 1 => d[i] = Succ(d[i - 1], shape)
  BY ChunkSpells, ZenonT(30)
<1> HIDE DEF d
<1>2. /\ e \in Seq(Byte) /\ Len(e) > 0
      /\ e[1] = ByteAt(n, 1, 1) /\ e[Len(e)] = ByteAt(n, k - 1, shape[k - 1])
      /\ \A i \in 1..Len(e) : OfFrame(e[i], n, shape, k - 1)
      /\ \A i \in 1..Len(e) : i > 1 => e[i] = Succ(e[i - 1], shape)
  BY DEF Spells
<1> DEFINE l == Len(e)
           m == shape[k]
           w == e \o d
<1>3. l \in Nat /\ m \in Nat /\ l > 0 /\ m > 0 /\ k \in Nat /\ k - 1 \in Nat
  BY <1>1, <1>2
<1>0. /\ w = e \o d /\ l = Len(e) /\ m = Len(d)
      /\ e \in Seq(Byte) /\ d \in Seq(Byte)
  BY <1>1, <1>2
<1> HIDE DEF w, l, m
<1>4. /\ w \in Seq(Byte) /\ Len(w) = l + m
      /\ \A i \in 1..l : w[i] = e[i]
      /\ \A i \in 1..m : w[l + i] = d[i]
  <2>1. Joined(w, Byte, e, l, d, m)
    BY <1>0, Concatenated
  <2>2. QED
    BY <2>1 DEF Joined
<1>5. w[1] = ByteAt(n, 1, 1) /\ w[l + m] = ByteAt(n, k, shape[k])
  <2>1. 1 \in 1..l /\ m \in 1..m
    BY <1>3
  <2>2. w[1] = e[1] /\ w[l + m] = d[m]
    BY <1>4, <2>1
  <2>3. d[m] = ByteAt(n, k, m)
    BY <1>1, <2>1 DEF m
  <2>4. QED
    BY <1>2, <2>2, <2>3 DEF m
<1>6. ASSUME NEW i \in 1..(l + m) PROVE OfFrame(w[i], n, shape, k)
  <2>1. CASE i \in 1..l
    <3>1. w[i] = e[i] /\ OfFrame(e[i], n, shape, k - 1)
      BY <1>2, <1>4, <2>1 DEF l
    <3>2. \A c \in 1..(k - 1) : c \in 1..k
      BY <1>3
    <3>3. QED
      BY <3>1, <3>2 DEF OfFrame
  <2>2. CASE i \notin 1..l
    <3>1. i - l \in 1..m /\ l + (i - l) = i
      BY <1>3, <2>2
    <3>2. QED
      BY <1>1, <1>4, <3>1 DEF m
  <2>3. QED
    BY <2>1, <2>2
<1>7. ASSUME NEW i \in 1..(l + m), i > 1 PROVE w[i] = Succ(w[i - 1], shape)
  <2>1. CASE i \in 1..l
    <3>1. i - 1 \in 1..l
      BY <1>3, <1>7, <2>1
    <3>2. QED
      BY <1>2, <1>4, <1>7, <2>1, <3>1 DEF l
  <2>2. CASE i = l + 1
    <3>1. i - 1 = l /\ l \in 1..l /\ 1 \in 1..m
      BY <1>3, <2>2
    <3>2. w[i - 1] = ByteAt(n, k - 1, shape[k - 1]) /\ w[i] = ByteAt(n, k, 1)
      BY <1>1, <1>2, <1>4, <2>2, <3>1 DEF l, m
    <3>3. shape[k - 1] \in Nat /\ k - 1 < Len(shape) /\ k - 1 + 1 = k
      BY <1>3
    <3>4. PICK b : b = ByteAt(n, k - 1, shape[k - 1])
      OBVIOUS
    <3>5. b.frame = n /\ b.chunk = k - 1 /\ b.at = shape[k - 1]
      BY <3>4 DEF ByteAt
    <3>6. Succ(b, shape) = ByteAt(n, k, 1)
      BY <3>3, <3>5 DEF Succ
    <3>7. QED
      BY <3>2, <3>4, <3>6
  <2>3. CASE i > l + 1
    <3>1. /\ i - l \in 1..m /\ l + (i - l) = i /\ i - l > 1
          /\ (i - l) - 1 \in 1..m /\ l + ((i - l) - 1) = i - 1
      BY <1>3, <2>3
    <3>2. w[i] = d[i - l] /\ w[i - 1] = d[(i - l) - 1]
      BY <1>4, <3>1
    <3>3. QED
      BY <1>1, <3>1, <3>2 DEF m
  <2>4. QED
    BY <1>3, <2>1, <2>2, <2>3
<1>8. Spells(w, n, shape, k)
  BY <1>3, <1>4, <1>5, <1>6, <1>7 DEF Spells
<1>9. QED
  BY <1>8 DEF w, d

\* The bytes that send puts on the wire are those of the frame, each once and in their order.
LEMMA EncodedSpells ==
  ASSUME NEW n \in Nat, NEW shape \in Shapes
  PROVE  /\ Spells(Encoded(n, shape), n, shape, Len(shape))
         /\ shape \in Seq(Nat \ {0}) /\ Len(shape) \in Nat \ {0}
<1>1. shape \in Seq(Nat \ {0}) /\ Len(shape) \in Nat \ {0}
  BY ShapesAssumption
<1> DEFINE ss == [c \in 1..Len(shape) |-> ChunkOf(n, shape, c)]
<1>2. Len(ss) = Len(shape) /\ \A c \in 1..Len(shape) : ss[c] = ChunkOf(n, shape, c)
  BY <1>1
<1>3. Encoded(n, shape) = FlattenSeq(ss)
  BY DEF Encoded
<1> HIDE DEF ss
<1>4. PICK f : Flattens(f, ss, Len(ss)) /\ FlattenSeq(ss) = f[Len(ss)]
  BY <1>1, <1>2, FlattenSeqIs
<1>5. \A k \in 1..Len(shape) : f[k] = IF k = 1 THEN ChunkOf(n, shape, k)
                                      ELSE f[k - 1] \o ChunkOf(n, shape, k)
  BY <1>2, <1>4 DEF Flattens
<1> DEFINE S == {m \in Nat : m \in 1..Len(shape) => Spells(f[m], n, shape, m)}
<1>6. 0 \in S
  OBVIOUS
<1>7. ASSUME NEW m \in Nat, m \in S PROVE m + 1 \in S
  <2>1. SUFFICES ASSUME m + 1 \in 1..Len(shape)
                 PROVE  Spells(f[m + 1], n, shape, m + 1)
    OBVIOUS
  <2>2. CASE m = 0
    <3>1. f[1] = ChunkOf(n, shape, 1) /\ 1 \in 1..Len(shape)
      BY <1>5, <2>1, <2>2
    <3> DEFINE d == ChunkOf(n, shape, 1)
    <3>2. /\ d \in Seq(Byte) /\ Len(d) = shape[1] /\ shape[1] \in Nat \ {0}
          /\ \A i \in 1..shape[1] : /\ d[i] = ByteAt(n, 1, i)
                                    /\ OfFrame(d[i], n, shape, 1)
                                    /\ i > 1 => d[i] = Succ(d[i - 1], shape)
      BY <1>1, <3>1, ChunkSpells
    <3> HIDE DEF d
    <3>3. Spells(d, n, shape, 1)
      BY <3>2 DEF Spells
    <3>4. QED
      BY <2>2, <3>1, <3>3 DEF d
  <2>3. CASE m # 0
    <3>1. /\ m \in 1..Len(shape) /\ m + 1 - 1 = m /\ m + 1 # 1 /\ m + 1 > 1
          /\ m + 1 \in 1..Len(shape)
      BY <1>1, <2>1, <2>3
    <3>2. Spells(f[(m + 1) - 1], n, shape, (m + 1) - 1)
      BY <1>7, <3>1
    <3>3. f[m + 1] = f[(m + 1) - 1] \o ChunkOf(n, shape, m + 1)
      BY <1>5, <3>1
    <3>4. Spells(f[(m + 1) - 1] \o ChunkOf(n, shape, m + 1), n, shape, m + 1)
      BY <1>1, <3>1, <3>2, SpellsMore
    <3>5. QED
      BY <3>3, <3>4
  <2>4. QED
    BY <2>2, <2>3
<1> HIDE DEF S
<1>8. Len(shape) \in S
  BY <1>1, <1>6, <1>7, Induction
<1>9. Spells(f[Len(shape)], n, shape, Len(shape))
  BY <1>1, <1>8 DEF S
<1>10. QED
  BY <1>1, <1>2, <1>3, <1>4, <1>9

-----------------------------------------------------------------------------
(* The stream of bytes to a side: those in its buffer and those on the wire.  *)

Sent == [shape : Shapes, whole : BOOLEAN]

\* No frame of snd after the first r, and up to the f-th, was torn.
Clean(snd, r, f) == \A j \in (r + 1)..f : j <= Len(snd) => snd[j].whole

\* b is a byte of a frame of snd.
Proper(b, snd) ==
  /\ b \in Byte /\ b.frame \in 1..Len(snd)
  /\ b.chunk \in 1..Len(snd[b.frame].shape)
  /\ b.at \in 1..snd[b.frame].shape[b.chunk]

\* The byte that belongs at i in a stream whose reader has r frames and waits for chunk c.
Due(st, i, snd, r, c) ==
  IF i = 1 THEN ByteAt(r + 1, c, 1) ELSE Succ(st[i - 1], snd[st[i - 1].frame].shape)

\* The bytes are those that belong there, up to the first frame that was torn.
InOrder(st, snd, r, c) ==
  \A i \in 1..Len(st) :
    /\ Proper(st[i], snd)
    /\ Clean(snd, r, Due(st, i, snd, r, c).frame) => st[i] = Due(st, i, snd, r, c)

\* Nothing of what was sent is missing at the end, unless a frame was torn.
AllThere(st, snd, r, c) ==
  Clean(snd, r, Due(st, Len(st) + 1, snd, r, c).frame) =>
    Due(st, Len(st) + 1, snd, r, c) = ByteAt(Len(snd) + 1, 1, 1)

\* The last byte of a frame that was torn is not in the stream.
Untorn(st, snd) ==
  \A i \in 1..Len(st) :
    /\ st[i].frame <= Len(snd)
    /\ st[i].frame > 0 /\ ~snd[st[i].frame].whole =>
         st[i] # LastByte(st[i].frame, snd[st[i].frame].shape)

\* d is the first k bytes of e.
Begins(d, k, e) == d \in Seq(Byte) /\ Len(d) = k /\ k \in 0..Len(e) /\ \A i \in 1..k : d[i] = e[i]

\* What is due is of the frame of the byte before it or of the next.
LEMMA SuccFrame ==
  ASSUME NEW b \in Byte, NEW shape \in Seq(Nat \ {0}),
         b.chunk \in 1..Len(shape), b.at \in 1..shape[b.chunk]
  PROVE  /\ Succ(b, shape).frame \in {b.frame, b.frame + 1}
         /\ b = LastByte(b.frame, shape) => Succ(b, shape) = ByteAt(b.frame + 1, 1, 1)
<1>1. b.frame \in Nat /\ b.chunk \in Nat /\ b.at \in Nat /\ Len(shape) \in Nat
  BY DEF Byte
<1>2. shape[b.chunk] \in Nat
  OBVIOUS
<1>3. b = LastByte(b.frame, shape) => b.chunk = Len(shape) /\ b.at = shape[Len(shape)]
  BY DEF LastByte, ByteAt
<1>4. b = LastByte(b.frame, shape) => ~(b.at < shape[b.chunk]) /\ ~(b.chunk < Len(shape))
  BY <1>1, <1>2, <1>3
<1>5. Succ(b, shape).frame \in {b.frame, b.frame + 1}
  BY DEF Succ, ByteAt
<1>6. QED
  BY <1>4, <1>5 DEF Succ

\* Of a frame, only its last byte is followed by a byte of the next.
LEMMA SpellsLast ==
  ASSUME NEW n \in Nat, NEW shape \in Seq(Nat \ {0}), Len(shape) \in Nat \ {0},
         NEW e, Spells(e, n, shape, Len(shape)),
         NEW i \in 1..Len(e), e[i] = LastByte(n, shape)
  PROVE  i = Len(e)
<1>1. /\ e \in Seq(Byte) /\ Len(e) \in Nat
      /\ \A j \in 1..Len(e) : OfFrame(e[j], n, shape, Len(shape))
      /\ \A j \in 1..Len(e) : j > 1 => e[j] = Succ(e[j - 1], shape)
  BY DEF Spells
<1>2. SUFFICES ASSUME i < Len(e) PROVE FALSE
  BY <1>1
<1>3. i + 1 \in 1..Len(e) /\ i + 1 > 1 /\ i + 1 - 1 = i
  BY <1>1, <1>2
<1>4. e[i + 1] = Succ(e[i], shape) /\ e[i + 1].frame = n
  BY <1>1, <1>3 DEF OfFrame
<1>5. OfFrame(e[i], n, shape, Len(shape))
  BY <1>1
<1>6. /\ e[i] \in Byte /\ e[i].frame = n /\ e[i].chunk \in 1..Len(shape)
      /\ e[i].at \in 1..shape[e[i].chunk] /\ e[i] = LastByte(e[i].frame, shape)
  BY <1>5 DEF OfFrame
<1>7. Succ(e[i], shape) = ByteAt(e[i].frame + 1, 1, 1)
  BY <1>6, SuccFrame
<1>8. e[i + 1].frame = n + 1
  BY <1>4, <1>6, <1>7 DEF ByteAt
<1>9. QED
  BY <1>4, <1>8

\* s2 is snd, which has n frames, with one of this shape after them.
OneMore(s2, snd, n, shape, whole) ==
  /\ s2 \in Seq(Sent) /\ n = Len(snd) /\ n \in Nat /\ Len(s2) = n + 1
  /\ \A j \in 1..n : s2[j] = snd[j]
  /\ s2[n + 1].shape = shape /\ s2[n + 1].whole = whole

LEMMA OneMoreSent ==
  ASSUME NEW snd \in Seq(Sent), NEW shape \in Shapes, NEW whole \in BOOLEAN,
         NEW x, x = [shape |-> shape, whole |-> whole], NEW s2, s2 = Append(snd, x),
         NEW n, n = Len(snd)
  PROVE  OneMore(s2, snd, n, shape, whole)
<1>1. x \in Sent /\ x.shape = shape /\ x.whole = whole
  BY DEF Sent
<1>2. /\ s2 \in Seq(Sent) /\ Len(snd) \in Nat /\ Len(s2) = Len(snd) + 1
      /\ \A j \in 1..Len(snd) : s2[j] = snd[j]
      /\ s2[Len(snd) + 1] = x
  BY <1>1
<1>3. QED
  BY <1>1, <1>2 DEF OneMore

\* What was clean with one frame more was clean without it.
LEMMA CleanBefore ==
  ASSUME NEW snd, NEW s2, NEW n, NEW shape, NEW whole, OneMore(s2, snd, n, shape, whole),
         NEW r \in Nat, r <= n, NEW f \in Nat, Clean(s2, r, f)
  PROVE  /\ Clean(snd, r, f)
         /\ f >= n + 1 => whole
<1>0. /\ n = Len(snd) /\ n \in Nat /\ Len(s2) = n + 1
      /\ \A j \in 1..n : s2[j] = snd[j]
      /\ s2[n + 1].whole = whole
  BY DEF OneMore
<1>1. ASSUME NEW j \in (r + 1)..f, j <= Len(snd) PROVE snd[j].whole
  <2>1. j \in 1..n /\ j <= Len(s2)
    BY <1>0, <1>1
  <2>2. s2[j].whole /\ s2[j] = snd[j]
    BY <1>0, <2>1 DEF Clean
  <2>3. QED
    BY <2>2
<1>2. ASSUME f >= n + 1 PROVE whole
  <2>1. n + 1 \in (r + 1)..f /\ n + 1 <= Len(s2)
    BY <1>0, <1>2
  <2>2. QED
    BY <1>0, <2>1 DEF Clean
<1>3. QED
  BY <1>1, <1>2 DEF Clean

\* A byte of a frame stays one.
LEMMA ProperKept ==
  ASSUME NEW snd, NEW s2, NEW n, NEW shape, NEW whole, OneMore(s2, snd, n, shape, whole),
         NEW b, Proper(b, snd)
  PROVE  Proper(b, s2) /\ s2[b.frame] = snd[b.frame] /\ b.frame \in 1..n
<1>1. b.frame \in 1..n /\ b.frame \in 1..(n + 1) /\ Len(s2) = n + 1
  BY DEF Proper, OneMore
<1>2. s2[b.frame] = snd[b.frame]
  BY <1>1 DEF OneMore
<1>3. QED
  BY <1>1, <1>2 DEF Proper

\* What is due next is of a frame with a number.
LEMMA DueFrame ==
  ASSUME NEW snd \in Seq(Sent), NEW st, NEW r \in Nat, NEW c, NEW i \in Nat \ {0},
         i > 1 => Proper(st[i - 1], snd)
  PROVE  Due(st, i, snd, r, c).frame \in Nat
<1>1. CASE i = 1
  BY <1>1 DEF Due, ByteAt
<1>2. CASE i # 1
  <2>1. Proper(st[i - 1], snd)
    BY <1>2
  <2>2. PICK b : b = st[i - 1]
    OBVIOUS
  <2>3. b \in Byte /\ b.frame \in 1..Len(snd) /\ b.frame \in Nat
    BY <2>1, <2>2 DEF Proper
  <2>4. Succ(b, snd[b.frame].shape).frame \in {b.frame, b.frame + 1}
    BY DEF Succ, ByteAt
  <2>5. QED
    BY <1>2, <2>2, <2>3, <2>4 DEF Due
<1>3. QED
  BY <1>1, <1>2

\* A send that goes out whole keeps the stream in order; one that is torn breaks it only from
\* its own frame on.
LEMMA SendKeepsOrder ==
  ASSUME NEW st \in Seq(Byte), NEW snd \in Seq(Sent), NEW r \in Nat, NEW c \in Nat,
         NEW shape \in Shapes, NEW whole \in BOOLEAN, NEW k,
         NEW e, e = Encoded(Len(snd) + 1, shape), NEW d, Begins(d, k, e), whole => k = Len(e),
         NEW s2, s2 = Append(snd, [shape |-> shape, whole |-> whole]),
         NEW w, w = st \o d,
         r <= Len(snd), InOrder(st, snd, r, c), AllThere(st, snd, r, c)
  PROVE  InOrder(w, s2, r, c) /\ AllThere(w, s2, r, c)
<1>1. PICK n : n = Len(snd)
  OBVIOUS
<1>0. OneMore(s2, snd, n, shape, whole)
  <2>1. PICK x : x = [shape |-> shape, whole |-> whole]
    OBVIOUS
  <2>2. s2 = Append(snd, x)
    BY <2>1
  <2>3. QED
    BY <1>1, <2>1, <2>2, OneMoreSent
<1>2. /\ s2 \in Seq(Sent) /\ n \in Nat /\ Len(s2) = n + 1
      /\ \A j \in 1..n : s2[j] = snd[j]
      /\ s2[n + 1].shape = shape /\ s2[n + 1].whole = whole
  BY <1>0 DEF OneMore
<1>3. Spells(e, n + 1, shape, Len(shape)) /\ shape \in Seq(Nat \ {0}) /\ Len(shape) \in Nat \ {0}
  BY <1>1, <1>2, EncodedSpells
<1>4. /\ e \in Seq(Byte) /\ Len(e) \in Nat \ {0}
      /\ e[1] = ByteAt(n + 1, 1, 1) /\ e[Len(e)] = LastByte(n + 1, shape)
      /\ \A i \in 1..Len(e) : OfFrame(e[i], n + 1, shape, Len(shape))
      /\ \A i \in 1..Len(e) : i > 1 => e[i] = Succ(e[i - 1], shape)
  BY <1>3 DEF Spells, LastByte
<1>5. d \in Seq(Byte) /\ Len(d) = k /\ k \in 0..Len(e) /\ k \in Nat /\ \A i \in 1..k : d[i] = e[i]
  BY <1>4 DEF Begins
<1>6. PICK l : l = Len(st)
  OBVIOUS
<1>7. /\ l \in Nat /\ w \in Seq(Byte) /\ Len(w) = l + k
      /\ \A i \in 1..l : w[i] = st[i]
      /\ \A i \in 1..k : w[l + i] = d[i]
  <2>1. d \in Seq(Byte) /\ k = Len(d)
    BY <1>5
  <2>2. Joined(w, Byte, st, l, d, k)
    BY <1>6, <2>1, Concatenated
  <2>3. QED
    BY <2>2 DEF Joined
<1>8. \A i \in 1..l : /\ Proper(st[i], snd)
                      /\ Clean(snd, r, Due(st, i, snd, r, c).frame) => st[i] = Due(st, i, snd, r, c)
  BY <1>6 DEF InOrder
<1>9. ASSUME NEW i \in 1..(l + 1)
      PROVE  /\ Due(w, i, s2, r, c) = Due(st, i, snd, r, c)
             /\ Due(st, i, snd, r, c).frame \in Nat
  <2>1. CASE i = 1
    BY <2>1 DEF Due, ByteAt
  <2>2. CASE i # 1
    <3>1. i - 1 \in 1..l /\ i \in Nat \ {0}
      BY <1>7, <2>2
    <3>2. w[i - 1] = st[i - 1] /\ Proper(st[i - 1], snd)
      BY <1>7, <1>8, <3>1
    <3>3. s2[st[i - 1].frame] = snd[st[i - 1].frame]
      <4>1. PICK b : b = st[i - 1]
        OBVIOUS
      <4>2. Proper(b, snd)
        BY <3>2, <4>1
      <4>3. b.frame \in 1..n
        BY <1>1, <4>2 DEF Proper
      <4>4. QED
        BY <1>2, <4>1, <4>3
    <3>4. Due(w, i, s2, r, c) = Due(st, i, snd, r, c)
      BY <3>2, <3>3 DEF Due
    <3>5. Due(st, i, snd, r, c).frame \in Nat
      BY <3>1, <3>2, DueFrame
    <3>6. QED
      BY <3>4, <3>5
  <2>3. QED
    BY <2>1, <2>2
<1>10. ASSUME NEW f \in Nat, Clean(s2, r, f)
       PROVE  Clean(snd, r, f) /\ (f >= n + 1 => whole)
  BY <1>0, <1>1, <1>10, CleanBefore
<1>11. ASSUME NEW i \in 1..k
       PROVE  /\ w[l + i] = e[i] /\ e[i].frame = n + 1 /\ i \in 1..Len(e)
              /\ OfFrame(e[i], n + 1, shape, Len(shape)) /\ Proper(e[i], s2)
  <2>1. i \in 1..Len(e) /\ w[l + i] = e[i]
    BY <1>4, <1>5, <1>7
  <2>2. OfFrame(e[i], n + 1, shape, Len(shape))
    BY <1>4, <2>1
  <2>3. n + 1 \in 1..Len(s2)
    BY <1>2
  <2>4. QED
    BY <1>2, <2>1, <2>2, <2>3 DEF OfFrame, Proper
<1>12. ASSUME NEW i \in 1..Len(w)
       PROVE  /\ Proper(w[i], s2)
              /\ Clean(s2, r, Due(w, i, s2, r, c).frame) => w[i] = Due(w, i, s2, r, c)
  <2>1. CASE i \in 1..l
    <3>1. w[i] = st[i] /\ Proper(st[i], snd) /\ i \in 1..(l + 1)
      BY <1>7, <1>8, <2>1
    <3>2. Proper(w[i], s2)
      BY <1>0, <3>1, ProperKept
    <3>3. Due(w, i, s2, r, c) = Due(st, i, snd, r, c) /\ Due(st, i, snd, r, c).frame \in Nat
      BY <1>9, <3>1
    <3>4. Clean(s2, r, Due(w, i, s2, r, c).frame) => w[i] = Due(w, i, s2, r, c)
      BY <1>8, <1>10, <2>1, <3>1, <3>3
    <3>5. QED
      BY <3>2, <3>4
  <2>2. CASE i = l + 1
    <3>1. 1 \in 1..k /\ i \in 1..(l + 1)
      BY <1>5, <1>7, <2>2
    <3>2. w[i] = ByteAt(n + 1, 1, 1) /\ Proper(w[i], s2)
      BY <1>4, <1>11, <2>2, <3>1
    <3>3. Due(w, i, s2, r, c) = Due(st, i, snd, r, c) /\ Due(st, i, snd, r, c).frame \in Nat
      BY <1>9, <3>1
    <3>4. Clean(snd, r, Due(st, i, snd, r, c).frame) => Due(st, i, snd, r, c) = ByteAt(n + 1, 1, 1)
      BY <1>1, <1>6, <2>2 DEF AllThere
    <3>5. QED
      BY <1>10, <3>2, <3>3, <3>4
  <2>3. CASE i > l + 1
    <3>1. /\ i - l \in 1..k /\ l + (i - l) = i /\ i - l > 1
          /\ (i - l) - 1 \in 1..k /\ l + ((i - l) - 1) = i - 1 /\ i # 1
      BY <1>5, <1>7, <2>3
    <3>2. w[i] = e[i - l] /\ Proper(w[i], s2) /\ i - l \in 1..Len(e)
      BY <1>11, <3>1
    <3>3. w[i - 1] = e[(i - l) - 1] /\ w[i - 1].frame = n + 1
      BY <1>11, <3>1
    <3>4. w[i] = Succ(w[i - 1], shape)
      BY <1>4, <3>1, <3>2, <3>3
    <3>5. Due(w, i, s2, r, c) = Succ(w[i - 1], shape)
      BY <1>2, <3>1, <3>3 DEF Due
    <3>6. QED
      BY <3>2, <3>4, <3>5
  <2>4. QED
    BY <1>5, <1>7, <2>1, <2>2, <2>3
<1>13. PICK x : x = Due(w, l + k + 1, s2, r, c)
  OBVIOUS
<1>14. ASSUME Clean(s2, r, x.frame)
       PROVE  x = ByteAt((n + 1) + 1, 1, 1)
  <2>1. CASE k = 0
    <3>1. l + k + 1 = l + 1 /\ l + 1 \in 1..(l + 1)
      BY <1>7, <2>1
    <3>2. x = Due(st, l + 1, snd, r, c) /\ x.frame \in Nat
      BY <1>9, <1>13, <3>1
    <3>3. Clean(snd, r, x.frame) => x = ByteAt(n + 1, 1, 1)
      BY <1>1, <1>6, <3>2 DEF AllThere
    <3>4. x = ByteAt(n + 1, 1, 1)
      BY <1>10, <1>14, <3>2, <3>3
    <3>5. x.frame = n + 1
      BY <3>4 DEF ByteAt
    <3>6. whole
      BY <1>2, <1>10, <1>14, <3>2, <3>5
    <3>7. QED
      BY <1>4, <2>1, <3>6
  <2>2. CASE k # 0
    <3>1. k \in 1..k /\ l + k + 1 # 1 /\ (l + k + 1) - 1 = l + k
      BY <1>5, <1>7, <2>2
    <3>2. w[l + k] = e[k] /\ e[k].frame = n + 1 /\ OfFrame(e[k], n + 1, shape, Len(shape))
      BY <1>11, <3>1
    <3>3. x = Succ(e[k], shape)
      BY <1>2, <1>13, <3>1, <3>2 DEF Due
    <3>4. /\ e[k] \in Byte /\ e[k].chunk \in 1..Len(shape) /\ e[k].at \in 1..shape[e[k].chunk]
      BY <3>2 DEF OfFrame
    <3>5. /\ x.frame \in {n + 1, (n + 1) + 1}
          /\ e[k] = LastByte(n + 1, shape) => x = ByteAt((n + 1) + 1, 1, 1)
      BY <1>3, <3>2, <3>3, <3>4, SuccFrame
    <3>6. x.frame \in Nat /\ x.frame >= n + 1
      BY <1>2, <3>5
    <3>7. whole
      BY <1>10, <1>14, <3>6
    <3>8. QED
      BY <1>4, <3>5, <3>7
  <2>3. QED
    BY <2>1, <2>2
<1>15. InOrder(w, s2, r, c)
  BY <1>12 DEF InOrder
<1>16. AllThere(w, s2, r, c)
  BY <1>2, <1>7, <1>13, <1>14 DEF AllThere
<1>17. QED
  BY <1>15, <1>16

\* d is the first k bytes of the frame with which snd becomes s2, all of them only if it
\* went out whole.
GoesOut(d, k, snd, s2, shape) ==
  /\ Begins(d, k, Encoded(Len(snd) + 1, shape))
  /\ Len(s2) = Len(snd) + 1
  /\ \A j \in 1..Len(snd) : s2[j] = snd[j]
  /\ s2[Len(snd) + 1].shape = shape
  /\ ~s2[Len(snd) + 1].whole => k # Len(Encoded(Len(snd) + 1, shape))

\* A frame that does not go out whole goes out without its last byte.
LEMMA SendKeepsUntorn ==
  ASSUME NEW st \in Seq(Byte), NEW snd \in Seq(Sent), NEW shape \in Shapes,
         NEW k, NEW d, NEW s2, GoesOut(d, k, snd, s2, shape), Untorn(st, snd),
         NEW w, w = st \o d
  PROVE  Untorn(w, s2)
<1>1. PICK n, e : n = Len(snd) /\ e = Encoded(Len(snd) + 1, shape)
  OBVIOUS
<1>2. Begins(d, k, e) /\ (~s2[n + 1].whole => k # Len(e))
  BY <1>1 DEF GoesOut
<1>3. /\ n \in Nat /\ Len(s2) = n + 1
      /\ \A j \in 1..n : s2[j] = snd[j]
      /\ s2[n + 1].shape = shape
  BY <1>1 DEF GoesOut
<1>4. Spells(e, n + 1, shape, Len(shape)) /\ shape \in Seq(Nat \ {0}) /\ Len(shape) \in Nat \ {0}
  BY <1>1, <1>3, EncodedSpells
<1>5. /\ e \in Seq(Byte) /\ Len(e) \in Nat
      /\ \A i \in 1..Len(e) : e[i].frame = n + 1
  BY <1>4 DEF Spells, OfFrame
<1>6. d \in Seq(Byte) /\ k = Len(d) /\ k \in 0..Len(e) /\ \A i \in 1..k : d[i] = e[i]
  BY <1>2 DEF Begins
<1>7. PICK l : l = Len(st)
  OBVIOUS
<1>8. Joined(w, Byte, st, l, d, k)
  BY <1>6, <1>7, Concatenated
<1>9. /\ l \in Nat /\ k \in Nat /\ Len(w) = l + k
      /\ \A i \in 1..l : w[i] = st[i]
      /\ \A i \in 1..k : w[l + i] = d[i]
  BY <1>8 DEF Joined
<1>10. ASSUME NEW i \in 1..Len(w)
       PROVE  /\ w[i].frame <= Len(s2)
              /\ w[i].frame > 0 /\ ~s2[w[i].frame].whole =>
                   w[i] # LastByte(w[i].frame, s2[w[i].frame].shape)
  <2>1. CASE i \in 1..l
    <3>1. PICK b : b = st[i]
      OBVIOUS
    <3>2. b \in Byte /\ w[i] = b
      BY <1>7, <1>9, <2>1, <3>1
    <3>3. /\ b.frame <= n
          /\ b.frame > 0 /\ ~snd[b.frame].whole => b # LastByte(b.frame, snd[b.frame].shape)
      BY <1>1, <1>7, <2>1, <3>1 DEF Untorn
    <3>4. b.frame \in Nat
      BY <3>2 DEF Byte
    <3>5. b.frame > 0 => s2[b.frame] = snd[b.frame]
      BY <1>2, <1>3, <3>3, <3>4
    <3>6. b.frame <= n + 1
      BY <1>3, <3>3, <3>4
    <3>7. QED
      BY <1>3, <3>2, <3>3, <3>5, <3>6
  <2>2. CASE i \notin 1..l
    <3>1. i - l \in 1..k /\ l + (i - l) = i
      BY <1>9, <2>2
    <3>2. i - l \in 1..Len(e) /\ (k # Len(e) => i - l # Len(e))
      BY <1>5, <1>6, <1>9, <3>1
    <3>3. w[i] = e[i - l] /\ w[i].frame = n + 1
      <4>1. PICK j : j = i - l
        OBVIOUS
      <4>2. w[l + j] = d[j] /\ d[j] = e[j] /\ e[j].frame = n + 1
        BY <1>5, <1>6, <1>9, <3>1, <3>2, <4>1
      <4>3. l + j = i
        BY <3>1, <4>1
      <4>4. QED
        BY <4>1, <4>2, <4>3
    <3>4. k # Len(e) => e[i - l] # LastByte(n + 1, shape)
      BY <1>3, <1>4, <3>2, SpellsLast
    <3>5. ~s2[n + 1].whole => w[i] # LastByte(n + 1, s2[n + 1].shape)
      BY <1>2, <1>3, <3>3, <3>4
    <3>6. QED
      BY <1>3, <3>3, <3>5
  <2>3. QED
    BY <2>1, <2>2
<1>11. QED
  BY <1>10 DEF Untorn

\* What is cut off at its end is still in order.
LEMMA CutKeepsOrder ==
  ASSUME NEW st \in Seq(Byte), NEW snd, NEW r, NEW c, NEW k, NEW t, Begins(t, k, st)
  PROVE  /\ InOrder(st, snd, r, c) => InOrder(t, snd, r, c)
         /\ Untorn(st, snd) => Untorn(t, snd)
<1>1. t \in Seq(Byte) /\ k = Len(t) /\ k \in 0..Len(st) /\ \A i \in 1..k : t[i] = st[i]
  BY DEF Begins
<1>2. k \in Nat /\ Len(st) \in Nat /\ k <= Len(st)
  BY <1>1
<1>3. ASSUME NEW i \in 1..k
      PROVE  i \in 1..Len(st) /\ t[i] = st[i] /\ Due(t, i, snd, r, c) = Due(st, i, snd, r, c)
  <2>1. i \in 1..Len(st) /\ t[i] = st[i] /\ (i # 1 => i - 1 \in 1..k)
    BY <1>1, <1>2
  <2>2. i # 1 => t[i - 1] = st[i - 1]
    BY <1>1, <2>1
  <2>3. QED
    BY <2>1, <2>2 DEF Due
<1>4. ASSUME InOrder(st, snd, r, c) PROVE InOrder(t, snd, r, c)
  <2>1. ASSUME NEW i \in 1..Len(t)
        PROVE  /\ Proper(t[i], snd)
               /\ Clean(snd, r, Due(t, i, snd, r, c).frame) => t[i] = Due(t, i, snd, r, c)
    <3>1. i \in 1..k
      BY <1>1
    <3>2. i \in 1..Len(st) /\ t[i] = st[i] /\ Due(t, i, snd, r, c) = Due(st, i, snd, r, c)
      BY <1>3, <3>1
    <3>3. QED
      BY <1>4, <3>2 DEF InOrder
  <2>2. QED
    BY <2>1 DEF InOrder
<1>5. ASSUME Untorn(st, snd) PROVE Untorn(t, snd)
  <2>1. ASSUME NEW i \in 1..Len(t)
        PROVE  /\ t[i].frame <= Len(snd)
               /\ t[i].frame > 0 /\ ~snd[t[i].frame].whole =>
                    t[i] # LastByte(t[i].frame, snd[t[i].frame].shape)
    <3>1. i \in 1..k
      BY <1>1
    <3>2. i \in 1..Len(st) /\ t[i] = st[i]
      BY <1>3, <3>1
    <3>3. QED
      BY <1>5, <3>2 DEF Untorn
  <2>2. QED
    BY <2>1 DEF Untorn
<1>6. QED
  BY <1>4, <1>5

\* t is st without its first m bytes.
Rest(t, m, st) ==
  /\ t \in Seq(Byte) /\ m \in 1..Len(st) /\ Len(t) = Len(st) - m
  /\ \A i \in 1..Len(t) : t[i] = st[m + i]

LEMMA RestUntorn ==
  ASSUME NEW st \in Seq(Byte), NEW snd, NEW m, NEW t, Rest(t, m, st), Untorn(st, snd)
  PROVE  Untorn(t, snd)
<1>1. ASSUME NEW i \in 1..Len(t)
      PROVE  /\ t[i].frame <= Len(snd)
             /\ t[i].frame > 0 /\ ~snd[t[i].frame].whole =>
                  t[i] # LastByte(t[i].frame, snd[t[i].frame].shape)
  <2>1. m + i \in 1..Len(st) /\ t[i] = st[m + i]
    BY DEF Rest
  <2>2. QED
    BY <2>1 DEF Untorn
<1>2. QED
  BY <1>1 DEF Untorn

\* A reader that has taken m bytes, and waits for the byte that was due after them, finds the
\* rest in order.
LEMMA RestInOrder ==
  ASSUME NEW st \in Seq(Byte), NEW snd, NEW r \in Nat, NEW c, NEW m, NEW t, Rest(t, m, st),
         NEW r2 \in Nat, NEW c2, Due(st, m + 1, snd, r, c) = ByteAt(r2 + 1, c2, 1),
         \/ r2 = r
         \/ r2 = r + 1 /\ snd[r2].whole,
         InOrder(st, snd, r, c)
  PROVE  /\ InOrder(t, snd, r2, c2)
         /\ AllThere(st, snd, r, c) => AllThere(t, snd, r2, c2)
<1>1. /\ t \in Seq(Byte) /\ m \in Nat /\ m > 0 /\ Len(st) \in Nat /\ Len(t) \in Nat
      /\ Len(t) = Len(st) - m /\ \A i \in 1..Len(t) : t[i] = st[m + i]
  BY DEF Rest
<1>2. ASSUME NEW f, Clean(snd, r2, f) PROVE Clean(snd, r, f)
  <2>1. CASE r2 = r
    BY <1>2, <2>1
  <2>2. CASE r2 = r + 1 /\ snd[r2].whole
    <3>1. ASSUME NEW j \in (r + 1)..f, j <= Len(snd) PROVE snd[j].whole
      <4>1. CASE j = r2
        BY <2>2, <4>1
      <4>2. CASE j # r2
        <5>1. j \in (r2 + 1)..f
          BY <2>2, <4>2
        <5>2. QED
          BY <1>2, <3>1, <5>1 DEF Clean
      <4>3. QED
        BY <4>1, <4>2
    <3>2. QED
      BY <3>1 DEF Clean
  <2>3. QED
    BY <2>1, <2>2
<1>3. ASSUME NEW i \in 1..(Len(t) + 1)
      PROVE  Due(t, i, snd, r2, c2) = Due(st, m + i, snd, r, c)
  <2>1. CASE i = 1
    BY <2>1 DEF Due
  <2>2. CASE i # 1
    <3>1. i - 1 \in 1..Len(t) /\ m + (i - 1) = (m + i) - 1 /\ m + i # 1
      BY <1>1, <2>2
    <3>2. t[i - 1] = st[(m + i) - 1]
      BY <1>1, <3>1
    <3>3. QED
      BY <2>2, <3>1, <3>2 DEF Due
  <2>3. QED
    BY <2>1, <2>2
<1>4. ASSUME NEW i \in 1..Len(t)
      PROVE  /\ Proper(t[i], snd)
             /\ Clean(snd, r2, Due(t, i, snd, r2, c2).frame) => t[i] = Due(t, i, snd, r2, c2)
  <2>1. m + i \in 1..Len(st) /\ t[i] = st[m + i] /\ i \in 1..(Len(t) + 1)
    BY <1>1
  <2>2. Due(t, i, snd, r2, c2) = Due(st, m + i, snd, r, c)
    BY <1>3, <2>1
  <2>3. /\ Proper(st[m + i], snd)
        /\ Clean(snd, r, Due(st, m + i, snd, r, c).frame) => st[m + i] = Due(st, m + i, snd, r, c)
    BY <2>1 DEF InOrder
  <2>4. QED
    BY <1>2, <2>1, <2>2, <2>3
<1>5. ASSUME AllThere(st, snd, r, c) PROVE AllThere(t, snd, r2, c2)
  <2>1. Len(t) + 1 \in 1..(Len(t) + 1) /\ m + (Len(t) + 1) = Len(st) + 1
    BY <1>1
  <2>2. Due(t, Len(t) + 1, snd, r2, c2) = Due(st, Len(st) + 1, snd, r, c)
    BY <1>3, <2>1
  <2>3. QED
    BY <1>2, <1>5, <2>2 DEF AllThere
<1>6. QED
  BY <1>4, <1>5 DEF InOrder

\* The bytes of the chunk that the decoder asks for are the next of the stream, if the frame
\* went out whole.
LEMMA ChunkIsNext ==
  ASSUME NEW st \in Seq(Byte), NEW snd \in Seq(Sent), NEW r \in Nat, NEW c \in Nat \ {0},
         r < Len(snd), snd[r + 1].whole, c <= Len(snd[r + 1].shape),
         InOrder(st, snd, r, c), NEW m, m = snd[r + 1].shape[c], m <= Len(st)
  PROVE  \A i \in 1..m : st[i] = ByteAt(r + 1, c, i)
<1>1. /\ r + 1 \in 1..Len(snd) /\ snd[r + 1] \in Sent
      /\ Len(st) \in Nat
  OBVIOUS
<1>2. PICK shape : shape = snd[r + 1].shape
  OBVIOUS
<1>3. shape \in Seq(Nat \ {0}) /\ c \in 1..Len(shape)
  BY <1>1, <1>2, ShapesAssumption DEF Sent
<1>4. m \in Nat \ {0} /\ m = shape[c]
  BY <1>2, <1>3
<1>5. Clean(snd, r, r + 1)
  BY DEF Clean
<1> DEFINE S == {j \in Nat : j \in 1..m => st[j] = ByteAt(r + 1, c, j)}
<1>6. 0 \in S
  OBVIOUS
<1>7. ASSUME NEW j \in Nat, j \in S PROVE j + 1 \in S
  <2>1. SUFFICES ASSUME j + 1 \in 1..m
                 PROVE  st[j + 1] = ByteAt(r + 1, c, j + 1)
    OBVIOUS
  <2>2. Due(st, j + 1, snd, r, c) = ByteAt(r + 1, c, j + 1)
    <3>1. CASE j = 0
      BY <3>1 DEF Due
    <3>2. CASE j # 0
      <4>1. j \in 1..m /\ j + 1 - 1 = j /\ j + 1 # 1 /\ j < m
        BY <1>4, <2>1, <3>2
      <4>2. PICK b : b = st[j]
        OBVIOUS
      <4>3. b = ByteAt(r + 1, c, j)
        BY <1>7, <4>1, <4>2
      <4>4. b.frame = r + 1 /\ b.chunk = c /\ b.at = j
        BY <4>3 DEF ByteAt
      <4>5. Succ(b, shape) = ByteAt(r + 1, c, j + 1)
        BY <1>4, <4>1, <4>4 DEF Succ
      <4>6. QED
        BY <1>2, <4>1, <4>2, <4>4, <4>5 DEF Due
    <3>3. QED
      BY <3>1, <3>2
  <2>3. Due(st, j + 1, snd, r, c).frame = r + 1
    BY <2>2 DEF ByteAt
  <2>4. j + 1 \in 1..Len(st)
    BY <1>1, <1>4, <2>1
  <2>5. QED
    BY <1>5, <2>2, <2>3, <2>4 DEF InOrder
<1> HIDE DEF S
<1>8. Nat \subseteq S
  BY <1>6, <1>7, Induction
<1>9. QED
  BY <1>4, <1>8 DEF S

-----------------------------------------------------------------------------
(* The invariant of a connection. *)

TransportType ==
  /\ phase \in [Sides -> {"closed", "handshake", "open", "failed"}]
  /\ wire \in [Sides -> Seq(Byte)] /\ shut \in [Sides -> BOOLEAN]
  /\ decrypt \in [Sides -> BOOLEAN] /\ chunk \in [Sides -> Nat \ {0}]
  /\ DOMAIN pending_len = Sides /\ pending \in [Sides -> Seq(Byte)]
  /\ read_timeout \in [Sides -> {"io", "short"}]
  /\ sent \in [Sides -> Seq(Sent)]
  /\ received \in [Sides -> Nat] /\ junk \in [Sides -> Nat]

\* A side that nothing was sent to or by.
Fresh(s) ==
  /\ decrypt[s] /\ chunk[s] = 1 /\ pending[s] = << >>
  /\ sent[s] = << >> /\ received[s] = 0 /\ junk[s] = 0

\* How the phases of the two sides, what is on the wire and what is closed go together.
Phases ==
  /\ ~shut["responder"] /\ phase["responder"] \in {"open", "closed"}
  /\ \A s \in Sides : read_timeout[s] = "short" => phase[s] = "open"
  /\ phase["initiator"] = "closed" =>
       phase["responder"] = "closed" /\ wire["initiator"] = << >> /\ wire["responder"] = << >>
  /\ phase["initiator"] = "handshake" => Len(wire["initiator"]) <= 1
  /\ phase["initiator"] # "open" =>
       /\ Fresh("initiator") /\ Fresh("responder")
       /\ phase["responder"] = "open" => wire["responder"] = << >>
  /\ phase["initiator"] # "closed" /\ phase["responder"] = "closed" =>
       \/ shut["initiator"] /\ wire["responder"] = << >>
       \/ /\ phase["initiator"] # "open" /\ ~shut["initiator"]
          /\ wire["initiator"] = << >> /\ wire["responder"] = <<Hello>>
  /\ phase["responder"] = "open" => ~shut["initiator"]

Stream(s) == pending[s] \o wire[s]

\* What the decoder asks for is of a frame that was sent, and the buffer is for it.
Decoder(s) ==
  /\ received[s] <= Len(sent[Other(s)])
  /\ chunk[s] > 1 => received[s] < Len(sent[Other(s)]) /\ chunk[s] <= Len(Arriving(s).shape)
  /\ pending[s] # << >> => pending_len[s] = Expected(s)

\* Bytes arrive at s that are nothing but frames, and have all decrypted.
Flowing(s) ==
  /\ phase["initiator"] = "open" /\ phase[s] = "open"
  /\ junk[s] = 0 /\ decrypt[s]

Flow(s) ==
  /\ Decoder(s) /\ Untorn(Stream(s), sent[Other(s)])
  /\ Flowing(s) => InOrder(Stream(s), sent[Other(s)], received[s], chunk[s])
  /\ Flowing(s) /\ phase["responder"] = "open" =>
       AllThere(Stream(s), sent[Other(s)], received[s], chunk[s])

NoiseInv == TransportType /\ Phases /\ \A s \in Sides : Flow(s)

\* The steps that change the connection, and when they are taken.
Talks(s) ==
  \/ Recv(s)
  \/ \E shape \in Shapes :
       \/ Send(s, shape)
       \/ \E n \in 0..Len(Frame(s, shape)) : SendTorn(s, shape, n)

NoiseStep ==
  \/ HangsUp \/ HandshakeBegins \/ Accepts \/ HandshakeEnds \/ HandshakeFails \/ ShutsDown
  \/ phase["initiator"] = "open" /\ SendsJunk
  \/ phase["initiator"] = "open" /\ \E s \in Sides : Talks(s)

LEMMA Others ==
  /\ Other("initiator") = "responder" /\ Other("responder") = "initiator"
  /\ \A s \in Sides : Other(s) \in Sides /\ Other(s) # s /\ Other(Other(s)) = s
<1>1. \E o \in Sides : o # "initiator"
  BY DEF Sides
<1>2. \E o \in Sides : o # "responder"
  BY DEF Sides
<1>3. Other("initiator") \in Sides /\ Other("initiator") # "initiator"
  BY <1>1 DEF Other
<1>4. Other("responder") \in Sides /\ Other("responder") # "responder"
  BY <1>2 DEF Other
<1>5. Other("initiator") = "responder" /\ Other("responder") = "initiator"
  BY <1>3, <1>4 DEF Sides
<1>6. QED
  BY <1>5 DEF Sides

\* Whatever the deployment does, it does one of these steps to the connection or none.
LEMMA StepsOfTheConnection ==
  ASSUME AnswerInv, [Next]_vars
  PROVE  NoiseStep \/ UNCHANGED noise_vars
<1>1. pc = "talk" => phase["initiator"] = "open"
  BY DEF AnswerInv, ConnectionPlace
<1>2. "initiator" \in Sides /\ "responder" \in Sides
  BY DEF Sides
<1>3. CASE Start
  BY <1>3 DEF Start, NodeStart, MakeDir, SpawnPool, PoolHasExited, LookFails, DialForStart, Abort,
              PoolGone, NoiseStep
<1>4. CASE Dialling
  BY <1>4 DEF Dialling, AttemptConnects, AttemptRefused, HandshakeStep, AttemptFails, Retry,
              DialErr, DialOk, NoiseStep
<1>5. CASE Uses
  <2>1. CASE Talk
    <3>1. Talks("initiator") /\ pc = "talk"
      BY <2>1 DEF Talk, Talks
    <3>2. QED
      BY <1>1, <1>2, <3>1 DEF NoiseStep
  <2>2. CASE ~Talk
    BY <1>5, <2>2 DEF Uses, Connect, IsAlive, HangUp, IsRunning, KillPool, DropPool, PoolGone,
                      NoiseStep
  <2>3. QED
    BY <2>1, <2>2
<1>6. CASE DropNode \/ DialExpires \/ StartupExpires
  BY <1>6 DEF DropNode, DialExpires, StartupExpires
<1>7. CASE Pool
  <2>1. CASE PoolTalks
    <3>1. pc = "talk" /\ (Talks("responder") \/ SendsJunk \/ ShutsDown)
      BY <2>1 DEF PoolTalks, Talks
    <3>2. QED
      BY <1>1, <1>2, <3>1 DEF NoiseStep
  <2>2. CASE ~PoolTalks
    BY <1>7, <2>2 DEF Pool, PoolBinds, PoolTakesATemplate, PoolAccepts, PoolExits, NoiseStep
  <2>3. QED
    BY <2>1, <2>2
<1>8. CASE UNCHANGED vars
  BY <1>8 DEF vars
<1>9. QED
  BY <1>3, <1>4, <1>5, <1>6, <1>7, <1>8 DEF Next

\* Bytes that are of no frame.
Early(w) == w \in Seq(Byte) /\ \A i \in 1..Len(w) : w[i].frame = 0

\* A connection on which nothing but the handshake has been sent.
Quiet(s) ==
  /\ phase["initiator"] # "open" /\ Fresh(s) /\ sent[Other(s)] = << >>
  /\ Early(wire[s])

LEMMA QuietFlow == \A s \in Sides : Quiet(s) => Flow(s)
<1> SUFFICES ASSUME NEW s \in Sides, Quiet(s) PROVE Flow(s)
  OBVIOUS
<1>1. /\ phase["initiator"] # "open" /\ Fresh(s) /\ sent[Other(s)] = << >>
      /\ wire[s] \in Seq(Byte) /\ \A i \in 1..Len(wire[s]) : wire[s][i].frame = 0
  BY DEF Quiet, Early
<1>2. Stream(s) = wire[s]
  BY <1>1 DEF Stream, Fresh
<1>3. Untorn(Stream(s), sent[Other(s)])
  BY <1>1, <1>2 DEF Untorn
<1>4. Decoder(s)
  BY <1>1 DEF Decoder, Fresh
<1>5. QED
  BY <1>1, <1>3, <1>4 DEF Flow, Flowing

LEMMA HandshakeBytes == Hello \in Byte /\ Hello.frame = 0 /\ Reply \in Byte /\ Reply.frame = 0
                        /\ Junk \in Byte /\ Junk.frame = 0 /\ Hello # Reply
  BY DEF Hello, Reply, Junk, Byte

LEMMA HandshakeIsEarly == Early(<< >>) /\ Early(<<Hello>>) /\ Early(<<Reply>>)
<1>1. Early(<< >>)
  BY DEF Early
<1>2. ASSUME NEW b \in Byte, b.frame = 0 PROVE Early(<<b>>)
  <2>1. <<b>> \in Seq(Byte) /\ Len(<<b>>) = 1 /\ <<b>>[1] = b
    OBVIOUS
  <2>2. QED
    BY <1>2, <2>1 DEF Early
<1>3. QED
  BY <1>1, <1>2, HandshakeBytes

LEMMA NoiseInvInit == Init => NoiseInv
<1> SUFFICES ASSUME Init PROVE NoiseInv
  OBVIOUS
<1>1. TransportType
  BY DEF Init, NoiseInit, Both, TransportType
<1>2. Phases
  BY DEF Init, NoiseInit, Both, Phases, Fresh, Sides
<1>3. \A s \in Sides : Quiet(s)
  BY Others, HandshakeIsEarly DEF Init, NoiseInit, Both, Quiet, Fresh, Sides
<1>4. QED
  BY <1>1, <1>2, <1>3, QuietFlow DEF NoiseInv

\* A connection that is dropped, or begun.
LEMMA AnewKeeps ==
  ASSUME HangsUp \/ HandshakeBegins
  PROVE  NoiseInv'
<1>1. FreshTransport
  BY DEF HangsUp, HandshakeBegins
<1>2. PICK h \in {<< >>, <<Hello>>}, p \in {"closed", "handshake"} :
        /\ wire' = [s \in Sides |-> IF s = "responder" THEN h ELSE << >>]
        /\ phase' = [s \in Sides |-> IF s = "initiator" THEN p ELSE "closed"]
        /\ shut' = [s \in Sides |-> FALSE]
        /\ p = "closed" => h = << >>
        /\ p = "handshake" => h = <<Hello>>
  <2>1. CASE HangsUp
    <3>1. /\ wire' = [s \in Sides |-> IF s = "responder" THEN << >> ELSE << >>]
          /\ phase' = [s \in Sides |-> IF s = "initiator" THEN "closed" ELSE "closed"]
          /\ shut' = [s \in Sides |-> FALSE]
      BY <2>1 DEF HangsUp, Both
    <3>2. QED
      BY <3>1
  <2>2. CASE HandshakeBegins
    <3>1. /\ wire' = [s \in Sides |-> IF s = "responder" THEN <<Hello>> ELSE << >>]
          /\ phase' = [s \in Sides |-> IF s = "initiator" THEN "handshake" ELSE "closed"]
          /\ shut' = [s \in Sides |-> FALSE]
      BY <2>2 DEF HandshakeBegins, Both, Sides
    <3>2. QED
      BY <3>1
  <2>3. QED
    BY <2>1, <2>2
<1>3. Early(h) /\ h \in Seq(Byte) /\ Early(<< >>)
  BY HandshakeIsEarly DEF Early
<1>4. /\ phase'["initiator"] = p /\ phase'["responder"] = "closed"
      /\ wire'["initiator"] = << >> /\ wire'["responder"] = h
      /\ ~shut'["initiator"] /\ ~shut'["responder"]
  BY <1>2 DEF Sides
<1>5. TransportType'
  BY <1>1, <1>2, <1>3 DEF FreshTransport, Both, TransportType
<1>6. \A s \in Sides : Fresh(s)' /\ sent'[s] = << >> /\ read_timeout'[s] = "io"
  BY <1>1 DEF FreshTransport, Both, Fresh
<1>7. Phases'
  BY <1>2, <1>4, <1>6 DEF Phases, Sides
<1>8. ASSUME NEW s \in Sides PROVE Quiet(s)'
  <2>1. sent'[Other(s)] = << >>
    BY <1>6, Others
  <2>2. Early(wire'[s])
    BY <1>3, <1>4 DEF Sides
  <2>3. QED
    BY <1>2, <1>4, <1>6, <2>1, <2>2 DEF Quiet
<1>9. (\A s \in Sides : Quiet(s) => Flow(s))'
  BY QuietFlow, PTL
<1>10. QED
  BY <1>5, <1>7, <1>8, <1>9 DEF NoiseInv

\* A stream with nothing in it, to a side that has received nothing.
LEMMA EmptyFlow ==
  \A s \in Sides : Fresh(s) /\ sent[Other(s)] = << >> /\ wire[s] = << >> => Flow(s)
<1> SUFFICES ASSUME NEW s \in Sides, Fresh(s), sent[Other(s)] = << >>, wire[s] = << >>
             PROVE  Flow(s)
  OBVIOUS
<1>1. Stream(s) = << >> /\ received[s] = 0 /\ chunk[s] = 1 /\ pending[s] = << >>
  BY DEF Stream, Fresh
<1>2. Untorn(<< >>, << >>) /\ InOrder(<< >>, << >>, 0, 1)
  BY DEF Untorn, InOrder
<1>3. AllThere(<< >>, << >>, 0, 1)
  BY DEF AllThere, Due
<1>4. Decoder(s)
  BY <1>1 DEF Decoder
<1>5. QED
  BY <1>1, <1>2, <1>3, <1>4 DEF Flow

\* A step that leaves a stream and its reader alone.
LEMMA FlowKept ==
  ASSUME NEW s \in Sides, Flow(s),
         pending'[s] = pending[s], wire'[s] = wire[s], sent'[Other(s)] = sent[Other(s)],
         received'[s] = received[s], chunk'[s] = chunk[s],
         pending'[s] # << >> => pending_len'[s] = pending_len[s],
         Flowing(s)' => Flowing(s),
         Flowing(s)' /\ phase'["responder"] = "open" => phase["responder"] = "open"
  PROVE  Flow(s)'
<1>1. Stream(s)' = Stream(s)
  BY DEF Stream
<1>2. Expected(s)' = Expected(s) /\ Arriving(s)' = Arriving(s)
  BY DEF Expected, Arriving
<1>3. Decoder(s)'
  BY <1>2 DEF Flow, Decoder
<1>4. Untorn(Stream(s), sent[Other(s)])'
  BY <1>1 DEF Flow
<1>5. Flowing(s)' => InOrder(Stream(s), sent[Other(s)], received[s], chunk[s])'
  BY <1>1 DEF Flow
<1>6. Flowing(s)' /\ phase'["responder"] = "open" =>
        AllThere(Stream(s), sent[Other(s)], received[s], chunk[s])'
  BY <1>1 DEF Flow
<1>7. QED
  BY <1>3, <1>4, <1>5, <1>6 DEF Flow

LEMMA AcceptsKeeps ==
  ASSUME NoiseInv, Accepts
  PROVE  NoiseInv'
<1>1. TransportType /\ Phases
  BY DEF NoiseInv
<1>2. phase["responder"] = "closed" /\ wire["responder"] = <<Hello>>
  BY DEF Accepts
<1>3. <<Hello>> # << >>
  OBVIOUS
<1>4. /\ phase["initiator"] \notin {"closed", "open"} /\ ~shut["initiator"]
      /\ wire["initiator"] = << >> /\ Fresh("initiator") /\ Fresh("responder")
  BY <1>1, <1>2, <1>3 DEF Phases
<1>5. Append(wire["initiator"], Reply) = <<Reply>>
  BY <1>4
<1>6. /\ phase' = [phase EXCEPT !["responder"] = "open"]
      /\ wire' = [wire EXCEPT !["responder"] = << >>, !["initiator"] = <<Reply>>]
      /\ UNCHANGED <<shut, decrypt, chunk, pending_len, pending, read_timeout, sent, received, junk>>
  BY <1>5 DEF Accepts
<1>7. <<Reply>> \in Seq(Byte) /\ << >> \in Seq(Byte) /\ Len(<<Reply>>) = 1
  BY HandshakeBytes
<1>8. TransportType'
  BY <1>1, <1>6, <1>7 DEF TransportType
<1>9. /\ phase'["responder"] = "open" /\ phase'["initiator"] = phase["initiator"]
      /\ wire'["responder"] = << >> /\ wire'["initiator"] = <<Reply>>
  BY <1>1, <1>6 DEF TransportType, Sides
<1>10. Fresh("initiator")' /\ Fresh("responder")'
  BY <1>4, <1>6 DEF Fresh
<1>11. Phases'
  <2>1. \A s \in Sides : read_timeout'[s] = "short" => phase'[s] = "open"
    BY <1>1, <1>6, <1>9 DEF Phases, Sides
  <2>2. ~shut'["responder"] /\ ~shut'["initiator"]
    BY <1>1, <1>4, <1>6 DEF Phases
  <2>3. QED
    BY <1>4, <1>7, <1>9, <1>10, <2>1, <2>2 DEF Phases
<1>12. \A s \in Sides : Quiet(s)'
  BY <1>4, <1>9, <1>10, Others, HandshakeIsEarly DEF Quiet, Fresh, Sides
<1>13. (\A s \in Sides : Quiet(s) => Flow(s))'
  BY QuietFlow, PTL
<1>14. QED
  BY <1>8, <1>11, <1>12, <1>13 DEF NoiseInv

LEMMA HandshakeKeeps ==
  ASSUME NoiseInv, HandshakeEnds \/ HandshakeFails
  PROVE  NoiseInv'
<1>1. TransportType /\ Phases /\ \A s \in Sides : Flow(s)
  BY DEF NoiseInv
<1>2. /\ phase["initiator"] = "handshake"
      /\ UNCHANGED <<shut, decrypt, chunk, pending_len, pending, read_timeout, sent, received, junk>>
  BY DEF HandshakeEnds, HandshakeFails
<1>3. PICK p \in {"open", "failed"} : phase' = [phase EXCEPT !["initiator"] = p]
  BY DEF HandshakeEnds, HandshakeFails
<1>4. Fresh("initiator") /\ Fresh("responder") /\ Len(wire["initiator"]) <= 1
  BY <1>1, <1>2 DEF Phases
<1>5. /\ wire["initiator"] \in Seq(Byte) /\ wire \in [Sides -> Seq(Byte)]
      /\ phase \in [Sides -> {"closed", "handshake", "open", "failed"}]
  BY <1>1 DEF TransportType, Sides
<1>6. HandshakeEnds => wire["initiator"] # << >> /\ Tail(wire["initiator"]) = << >>
  BY <1>4, <1>5 DEF HandshakeEnds
<1>7. /\ wire' \in [Sides -> Seq(Byte)] /\ wire'["responder"] = wire["responder"]
      /\ wire'["initiator"] \in {<< >>, wire["initiator"]}
      /\ p = "open" => wire'["initiator"] = << >> /\ wire["initiator"] # << >>
  <2>1. CASE HandshakeEnds
    <3>1. wire' = [wire EXCEPT !["initiator"] = << >>]
      BY <1>6, <2>1 DEF HandshakeEnds
    <3>2. QED
      BY <1>5, <1>6, <2>1, <3>1 DEF Sides
  <2>2. CASE HandshakeFails
    <3>1. wire' = wire /\ phase'["initiator"] = "failed" /\ phase'["initiator"] = p
      BY <1>3, <1>5, <2>2 DEF HandshakeFails, Sides
    <3>2. QED
      BY <1>5, <3>1
  <2>3. QED
    BY <2>1, <2>2
<1>8. phase'["initiator"] = p /\ phase'["responder"] = phase["responder"]
  BY <1>3, <1>5 DEF Sides
<1>9. TransportType'
  BY <1>1, <1>2, <1>3, <1>7 DEF TransportType
<1>10. Fresh("initiator")' /\ Fresh("responder")' /\ sent'["initiator"] = << >>
       /\ sent'["responder"] = << >>
  BY <1>2, <1>4 DEF Fresh
<1>11. p = "open" => wire["responder"] = << >>
  BY <1>1, <1>2, <1>7 DEF Phases
<1>12. Phases'
  <2>1. /\ ~shut["responder"] /\ phase["responder"] \in {"open", "closed"}
        /\ phase["responder"] = "open" => ~shut["initiator"] /\ wire["responder"] = << >>
        /\ phase["responder"] = "closed" =>
             \/ shut["initiator"] /\ wire["responder"] = << >>
             \/ ~shut["initiator"] /\ wire["initiator"] = << >> /\ wire["responder"] = <<Hello>>
    BY <1>1, <1>2 DEF Phases
  <2>2. \A s \in Sides : read_timeout'[s] = "short" => phase'[s] = "open"
    <3>1. ASSUME NEW s \in Sides, read_timeout[s] = "short" PROVE phase'[s] = "open"
      <4>1. phase[s] = "open" /\ s # "initiator"
        BY <1>1, <1>2, <3>1 DEF Phases
      <4>2. QED
        BY <1>3, <1>5, <4>1
    <3>2. QED
      BY <1>2, <3>1
  <2>3. /\ phase'["responder"] = "open" => wire'["responder"] = << >> /\ ~shut'["initiator"]
        /\ ~shut'["responder"] /\ phase'["responder"] \in {"open", "closed"}
    BY <1>2, <1>7, <1>8, <2>1
  <2>4. phase'["responder"] = "closed" =>
             \/ shut'["initiator"] /\ wire'["responder"] = << >>
             \/ /\ phase'["initiator"] # "open" /\ ~shut'["initiator"]
                /\ wire'["initiator"] = << >> /\ wire'["responder"] = <<Hello>>
    BY <1>2, <1>7, <1>8, <2>1
  <2>5. phase'["initiator"] \notin {"closed", "handshake"}
    BY <1>8
  <2>6. QED
    BY <1>10, <2>2, <2>3, <2>4, <2>5 DEF Phases
<1>13. (\A s \in Sides : Fresh(s) /\ sent[Other(s)] = << >> /\ wire[s] = << >> => Flow(s))'
  BY EmptyFlow, PTL
<1>14. ASSUME NEW s \in Sides PROVE Flow(s)'
  <2>1. Fresh(s)' /\ sent'[Other(s)] = << >>
    BY <1>10, Others DEF Sides
  <2>2. CASE wire'[s] = << >>
    BY <1>13, <2>1, <2>2
  <2>3. CASE wire'[s] # << >>
    <3>1. wire'[s] = wire[s] /\ p # "open"
      BY <1>7, <1>11, <2>3 DEF Sides
    <3>2. ~Flowing(s)'
      BY <1>8, <3>1 DEF Flowing
    <3>3. QED
      BY <1>1, <1>2, <3>1, <3>2, FlowKept
  <2>4. QED
    BY <2>2, <2>3
<1>15. QED
  BY <1>9, <1>12, <1>14 DEF NoiseInv

\* The first n bytes of a sequence.
LEMMA PrefixBegins ==
  ASSUME NEW e \in Seq(Byte), NEW n \in 0..Len(e), NEW d, d = SubSeq(e, 1, n)
  PROVE  Begins(d, n, e)
  BY DEF Begins

\* What is on the wire is cut off, and so is the stream.
LEMMA StreamCut ==
  ASSUME NEW p \in Seq(Byte), NEW w \in Seq(Byte), NEW n \in 0..Len(w),
         NEW v, v = SubSeq(w, 1, n), NEW st, st = p \o w, NEW t, t = p \o v
  PROVE  Begins(t, Len(t), st) /\ st \in Seq(Byte)
<1>1. PICK l, m : l = Len(p) /\ m = Len(w)
  OBVIOUS
<1>2. v \in Seq(Byte) /\ n = Len(v) /\ n \in Nat /\ n <= m /\ m \in Nat
      /\ \A i \in 1..n : v[i] = w[i]
  BY <1>1
<1>3. Joined(st, Byte, p, l, w, m)
  BY <1>1, Concatenated
<1>4. Joined(t, Byte, p, l, v, n)
  BY <1>1, <1>2, Concatenated
<1>5. ASSUME NEW i \in 1..(l + n) PROVE t[i] = st[i]
  <2>1. CASE i \in 1..l
    BY <1>3, <1>4, <2>1 DEF Joined
  <2>2. CASE i \notin 1..l
    <3>1. PICK j : j = i - l
      OBVIOUS
    <3>2. j \in 1..n /\ j \in 1..m /\ l + j = i
      BY <1>2, <1>3, <2>2, <3>1 DEF Joined
    <3>3. t[l + j] = v[j] /\ st[l + j] = w[j] /\ v[j] = w[j]
      BY <1>2, <1>3, <1>4, <3>2 DEF Joined
    <3>4. QED
      BY <3>2, <3>3
  <2>3. QED
    BY <2>1, <2>2
<1>6. /\ t \in Seq(Byte) /\ Len(t) = l + n /\ l \in Nat
      /\ st \in Seq(Byte) /\ Len(st) = l + m
  BY <1>3, <1>4 DEF Joined
<1>7. l + n \in 0..(l + m)
  BY <1>2, <1>6
<1>8. QED
  BY <1>5, <1>6, <1>7 DEF Begins

LEMMA ShutsDownKeepsFlow ==
  ASSUME NoiseInv, ShutsDown
  PROVE  NoiseInv'
<1>1. TransportType /\ Phases /\ \A s \in Sides : Flow(s)
  BY DEF NoiseInv
<1>2. PICK n \in 0..Len(wire["initiator"]) :
        wire' = [wire EXCEPT !["responder"] = << >>,
                             !["initiator"] = SubSeq(wire["initiator"], 1, n)]
  BY DEF ShutsDown
<1>3. /\ phase' = [phase EXCEPT !["responder"] = "closed"]
      /\ shut' = [shut EXCEPT !["initiator"] = phase["initiator"] # "closed"]
      /\ pending_len' = [pending_len EXCEPT !["responder"] = 0]
      /\ pending' = [pending EXCEPT !["responder"] = << >>]
      /\ read_timeout' = [read_timeout EXCEPT !["responder"] = "io"]
      /\ UNCHANGED <<decrypt, chunk, sent, received, junk>>
  BY DEF ShutsDown
<1>4. /\ wire["initiator"] \in Seq(Byte) /\ wire \in [Sides -> Seq(Byte)]
      /\ "initiator" \in Sides /\ "responder" \in Sides
  BY <1>1 DEF TransportType, Sides
<1>5. SubSeq(wire["initiator"], 1, n) \in Seq(Byte) /\ Len(SubSeq(wire["initiator"], 1, n)) = n
      /\ n <= Len(wire["initiator"]) /\ n \in Nat
  BY <1>4
<1>6. TransportType'
  <2>1. wire' \in [Sides -> Seq(Byte)]
    <3>1. PICK v \in Seq(Byte) : v = SubSeq(wire["initiator"], 1, n)
      BY <1>5
    <3>2. wire' = [wire EXCEPT !["responder"] = << >>, !["initiator"] = v] /\ << >> \in Seq(Byte)
      BY <1>2, <3>1
    <3>3. QED
      BY <1>4, <3>2
  <2>2. shut' \in [Sides -> BOOLEAN]
    BY <1>1, <1>3 DEF TransportType
  <2>3. /\ phase' \in [Sides -> {"closed", "handshake", "open", "failed"}]
        /\ read_timeout' \in [Sides -> {"io", "short"}]
    BY <1>1, <1>3 DEF TransportType
  <2>4. DOMAIN pending_len' = Sides /\ pending' \in [Sides -> Seq(Byte)]
    <3>1. pending \in [Sides -> Seq(Byte)] /\ << >> \in Seq(Byte) /\ DOMAIN pending_len = Sides
      BY <1>1 DEF TransportType
    <3>2. QED
      BY <1>3, <3>1
  <2>5. UNCHANGED <<decrypt, chunk, sent, received, junk>>
    BY <1>3
  <2>6. QED
    BY <1>1, <2>1, <2>2, <2>3, <2>4, <2>5 DEF TransportType
<1>7. /\ phase'["responder"] = "closed" /\ phase'["initiator"] = phase["initiator"]
      /\ wire'["responder"] = << >> /\ wire'["initiator"] = SubSeq(wire["initiator"], 1, n)
      /\ shut'["initiator"] = (phase["initiator"] # "closed") /\ shut'["responder"] = shut["responder"]
      /\ pending'["responder"] = << >> /\ pending'["initiator"] = pending["initiator"]
      /\ pending_len'["initiator"] = pending_len["initiator"]
      /\ read_timeout'["responder"] = "io" /\ read_timeout'["initiator"] = read_timeout["initiator"]
  BY <1>1, <1>2, <1>3, <1>4 DEF TransportType, Sides
<1>8. Phases'
  <2>1. phase["initiator"] # "open" => Fresh("initiator")' /\ Fresh("responder")'
    BY <1>1, <1>3, <1>7 DEF Phases, Fresh
  <2>2. \A s \in Sides : read_timeout'[s] = "short" => phase'[s] = "open"
    BY <1>1, <1>7 DEF Phases, Sides
  <2>3. phase["initiator"] = "closed" => wire'["initiator"] = << >>
    <3>1. SUFFICES ASSUME phase["initiator"] = "closed" PROVE wire'["initiator"] = << >>
      OBVIOUS
    <3>2. wire["initiator"] = << >>
      BY <1>1, <3>1 DEF Phases
    <3>3. n = 0
      BY <1>5, <3>2
    <3>4. QED
      BY <1>4, <1>7, <3>3
  <2>4. phase["initiator"] = "handshake" => Len(wire'["initiator"]) <= 1
    <3>1. SUFFICES ASSUME phase["initiator"] = "handshake" PROVE Len(wire'["initiator"]) <= 1
      OBVIOUS
    <3>2. Len(wire["initiator"]) <= 1 /\ Len(wire["initiator"]) \in Nat
      BY <1>1, <1>4, <3>1 DEF Phases
    <3>3. Len(wire'["initiator"]) = n
      BY <1>5, <1>7
    <3>4. QED
      BY <1>5, <3>2, <3>3
  <2>5. ~shut'["responder"]
    BY <1>1, <1>7 DEF Phases
  <2>6. QED
    BY <1>7, <2>1, <2>2, <2>3, <2>4, <2>5 DEF Phases
<1>9. Flow("responder")'
  <2>1. Stream("responder")' = << >> /\ pending'["responder"] = << >>
    BY <1>7 DEF Stream
  <2>2. Untorn(<< >>, sent["initiator"])
    BY DEF Untorn
  <2>3. Decoder("responder")
    BY <1>1, <1>4 DEF Flow
  <2>4. Decoder("responder")'
    BY <1>3, <1>7, <2>3 DEF Decoder, Arriving
  <2>5. ~Flowing("responder")'
    BY <1>7 DEF Flowing
  <2>6. Untorn(Stream("responder")', sent'[Other("responder")])
    BY <1>3, <2>1, <2>2, Others
  <2>7. QED
    BY <2>4, <2>5, <2>6 DEF Flow
<1>10. Flow("initiator")'
  <2>1. /\ Flow("initiator") /\ pending["initiator"] \in Seq(Byte)
    BY <1>1, <1>4 DEF TransportType
  <2>2. PICK t : t = Stream("initiator")'
    OBVIOUS
  <2>3. t = pending["initiator"] \o SubSeq(wire["initiator"], 1, n)
    BY <1>7, <2>2 DEF Stream
  <2>4. Begins(t, Len(t), Stream("initiator")) /\ Stream("initiator") \in Seq(Byte)
    BY <1>4, <2>1, <2>3, StreamCut DEF Stream
  <2>5. /\ InOrder(Stream("initiator"), sent[Other("initiator")], received["initiator"],
                   chunk["initiator"]) =>
             InOrder(t, sent[Other("initiator")], received["initiator"], chunk["initiator"])
        /\ Untorn(Stream("initiator"), sent[Other("initiator")]) =>
             Untorn(t, sent[Other("initiator")])
    BY <2>4, CutKeepsOrder
  <2>6. Flowing("initiator")' => Flowing("initiator")
    BY <1>3, <1>7 DEF Flowing
  <2>7. Decoder("initiator")'
    BY <1>3, <1>7, <2>1 DEF Flow, Decoder, Arriving, Expected
  <2>8. Untorn(Stream("initiator"), sent[Other("initiator")])'
    BY <1>3, <2>1, <2>2, <2>5 DEF Flow
  <2>9. Flowing("initiator")' =>
          InOrder(Stream("initiator"), sent[Other("initiator")], received["initiator"],
                  chunk["initiator"])'
    BY <1>3, <2>1, <2>2, <2>5, <2>6 DEF Flow
  <2>10. QED
    BY <1>7, <2>7, <2>8, <2>9 DEF Flow
<1>11. QED
  BY <1>6, <1>8, <1>9, <1>10 DEF NoiseInv, Sides

LEMMA JunkKeeps ==
  ASSUME NoiseInv, SendsJunk, phase["initiator"] = "open"
  PROVE  NoiseInv'
<1>1. TransportType /\ Phases /\ \A s \in Sides : Flow(s)
  BY DEF NoiseInv
<1>2. /\ phase["responder"] = "open"
      /\ wire' = [wire EXCEPT !["initiator"] = Append(wire["initiator"], Junk)]
      /\ junk' = [junk EXCEPT !["initiator"] = junk["initiator"] + 1]
      /\ UNCHANGED <<phase, shut, decrypt, chunk, pending_len, pending, read_timeout, sent,
                     received>>
  BY DEF SendsJunk
<1>3. /\ wire["initiator"] \in Seq(Byte) /\ pending["initiator"] \in Seq(Byte)
      /\ junk["initiator"] \in Nat /\ "initiator" \in Sides /\ "responder" \in Sides
      /\ sent[Other("initiator")] \in Seq(Sent)
  BY <1>1, Others DEF TransportType, Sides
<1>4. Append(wire["initiator"], Junk) \in Seq(Byte) /\ Junk.frame = 0 /\ Junk \in Byte
  BY <1>3, HandshakeBytes
<1>5. TransportType'
  <2>1. wire' \in [Sides -> Seq(Byte)]
    <3>1. PICK v \in Seq(Byte) : v = Append(wire["initiator"], Junk)
      BY <1>4
    <3>2. wire' = [wire EXCEPT !["initiator"] = v]
      BY <1>2, <3>1
    <3>3. QED
      BY <1>1, <3>2 DEF TransportType
  <2>2. junk' \in [Sides -> Nat]
    <3>1. PICK v \in Nat : v = junk["initiator"] + 1
      BY <1>3
    <3>2. junk' = [junk EXCEPT !["initiator"] = v] /\ junk \in [Sides -> Nat]
      BY <1>1, <1>2, <3>1 DEF TransportType
    <3>3. QED
      BY <3>2
  <2>3. UNCHANGED <<phase, shut, decrypt, chunk, pending_len, pending, read_timeout, sent,
                    received>>
    BY <1>2
  <2>4. QED
    BY <1>1, <2>1, <2>2, <2>3 DEF TransportType
<1>6. /\ wire'["responder"] = wire["responder"] /\ junk'["responder"] = junk["responder"]
      /\ wire'["initiator"] = Append(wire["initiator"], Junk)
      /\ junk'["initiator"] = junk["initiator"] + 1
  BY <1>1, <1>2, <1>3 DEF TransportType, Sides
<1>7. Phases'
  BY <1>1, <1>2 DEF Phases
<1>8. Flow("responder")'
  <2>1. Flowing("responder")' => Flowing("responder")
    BY <1>2, <1>6 DEF Flowing
  <2>2. QED
    BY <1>1, <1>2, <1>3, <1>6, <2>1, FlowKept
<1>9. Flow("initiator")'
  <2>1. Flow("initiator")
    BY <1>1, <1>3
  <2>2. PICK st, t, n, snd : /\ st = Stream("initiator") /\ t = Append(st, Junk) /\ n = Len(st)
                             /\ snd = sent[Other("initiator")]
    OBVIOUS
  <2>3. Stream("initiator")' = t /\ st \in Seq(Byte)
    <3>1. PICK p, w : p = pending["initiator"] /\ w = wire["initiator"]
      OBVIOUS
    <3>2. Stream("initiator")' = p \o Append(w, Junk) /\ st = p \o w
      BY <1>2, <1>6, <2>2, <3>1 DEF Stream
    <3>3. p \in Seq(Byte) /\ w \in Seq(Byte)
      BY <1>3, <3>1
    <3>4. p \o Append(w, Junk) = Append(p \o w, Junk) /\ p \o w \in Seq(Byte)
      BY <1>4, <3>3
    <3>5. QED
      BY <2>2, <3>2, <3>4
  <2>4. /\ n \in Nat /\ Len(t) = n + 1 /\ t[n + 1] = Junk /\ \A i \in 1..n : t[i] = st[i]
    BY <1>4, <2>2, <2>3
  <2>5. Untorn(st, snd) /\ Len(snd) \in Nat
    BY <1>3, <2>1, <2>2 DEF Flow
  <2>6. ASSUME NEW i \in 1..Len(t)
        PROVE  /\ t[i].frame <= Len(snd)
               /\ t[i].frame > 0 /\ ~snd[t[i].frame].whole =>
                    t[i] # LastByte(t[i].frame, snd[t[i].frame].shape)
    <3>1. CASE i \in 1..n
      <4>1. t[i] = st[i]
        BY <2>4, <3>1
      <4>2. QED
        BY <2>2, <2>5, <3>1, <4>1 DEF Untorn
    <3>2. CASE i = n + 1
      <4>1. t[i].frame = 0
        BY <1>4, <2>4, <3>2
      <4>2. QED
        BY <2>5, <4>1
    <3>3. QED
      BY <2>4, <3>1, <3>2
  <2>7. Untorn(t, snd)
    BY <2>6 DEF Untorn
  <2>8. ~Flowing("initiator")'
    BY <1>3, <1>6 DEF Flowing
  <2>9. Decoder("initiator")'
    BY <1>2, <2>1 DEF Flow, Decoder, Expected, Arriving
  <2>10. Untorn(Stream("initiator"), sent[Other("initiator")])'
    BY <1>2, <2>2, <2>3, <2>7
  <2>11. QED
    BY <2>8, <2>9, <2>10 DEF Flow
<1>10. QED
  BY <1>5, <1>7, <1>8, <1>9 DEF NoiseInv, Sides

-----------------------------------------------------------------------------
(* Sending. *)

\* send, whole or torn.
SendStep(s, shape, whole, n) ==
  /\ Sending(s) /\ Encrypted(s, shape, whole) /\ Puts(s, shape, n)
  /\ n \in 0..Len(Frame(s, shape))
  /\ IF whole THEN n = Len(Frame(s, shape)) ELSE n < Len(Frame(s, shape))
  /\ UNCHANGED <<phase, shut, decrypt, chunk, pending_len, pending, read_timeout, received, junk>>

LEMMA SendSteps ==
  ASSUME TransportType, NEW s \in Sides, NEW shape \in Shapes,
         \/ Send(s, shape)
         \/ \E n \in 0..Len(Frame(s, shape)) : SendTorn(s, shape, n)
  PROVE  \E whole \in BOOLEAN, n \in 0..Len(Frame(s, shape)) : SendStep(s, shape, whole, n)
<1>1. CASE Send(s, shape)
  <2>1. Len(sent[s]) + 1 \in Nat
    BY DEF TransportType
  <2>2. Spells(Frame(s, shape), Len(sent[s]) + 1, shape, Len(shape))
    BY <2>1, EncodedSpells DEF Frame
  <2>3. Len(Frame(s, shape)) \in 0..Len(Frame(s, shape))
    BY <2>2 DEF Spells
  <2>4. SendStep(s, shape, TRUE, Len(Frame(s, shape)))
    BY <1>1, <2>3 DEF Send, SendStep
  <2>5. QED
    BY <2>3, <2>4
<1>2. CASE \E n \in 0..Len(Frame(s, shape)) : SendTorn(s, shape, n)
  <2>1. PICK n \in 0..Len(Frame(s, shape)) : SendTorn(s, shape, n)
    BY <1>2
  <2>2. SendStep(s, shape, FALSE, n)
    BY <2>1 DEF SendTorn, SendStep
  <2>3. QED
    BY <2>2
<1>3. QED
  BY <1>1, <1>2

LEMMA SendKeeps ==
  ASSUME NoiseInv, phase["initiator"] = "open", NEW s \in Sides, NEW shape \in Shapes,
         NEW whole \in BOOLEAN, NEW n, SendStep(s, shape, whole, n)
  PROVE  NoiseInv'
<1>1. TransportType /\ Phases /\ \A t \in Sides : Flow(t)
  BY DEF NoiseInv
<1>2. PICK o : o = Other(s)
  OBVIOUS
<1>3. /\ o \in Sides /\ o # s /\ Other(o) = s /\ s \in Sides
      /\ (s = "initiator" => o = "responder") /\ (s = "responder" => o = "initiator")
  BY <1>2, Others
<1>4. PICK e, snd, x, s2 : /\ e = Frame(s, shape) /\ snd = sent[s]
                           /\ x = [shape |-> shape, whole |-> whole] /\ s2 = Append(snd, x)
  OBVIOUS
<1>5. PICK k, d : k = (IF shut[s] THEN 0 ELSE n) /\ d = SubSeq(e, 1, k)
  OBVIOUS
<1>6. /\ phase[s] = "open" /\ sent' = [sent EXCEPT ![s] = s2]
      /\ wire' = [wire EXCEPT ![o] = wire[o] \o d]
      /\ n \in 0..Len(e) /\ (IF whole THEN n = Len(e) ELSE n < Len(e))
      /\ UNCHANGED <<phase, shut, decrypt, chunk, pending_len, pending, read_timeout, received, junk>>
  BY <1>2, <1>4, <1>5 DEF SendStep, Sending, Encrypted, Puts
<1>7. /\ wire \in [Sides -> Seq(Byte)] /\ sent \in [Sides -> Seq(Sent)]
      /\ wire[o] \in Seq(Byte) /\ pending[o] \in Seq(Byte) /\ snd \in Seq(Sent)
      /\ received[o] \in Nat /\ chunk[o] \in Nat \ {0}
  BY <1>1, <1>3, <1>4 DEF TransportType
<1>8. OneMore(s2, snd, Len(snd), shape, whole)
  BY <1>4, <1>7, OneMoreSent
<1>9. /\ s2 \in Seq(Sent) /\ Len(snd) \in Nat /\ Len(s2) = Len(snd) + 1
      /\ \A j \in 1..Len(snd) : s2[j] = snd[j]
  BY <1>8 DEF OneMore
<1>10. e = Encoded(Len(snd) + 1, shape) /\ s2 = Append(snd, [shape |-> shape, whole |-> whole])
  BY <1>4 DEF Frame
<1>11. e \in Seq(Byte) /\ Len(e) \in Nat /\ Len(e) > 0
  BY <1>9, <1>10, EncodedSpells DEF Spells
<1>12. k \in 0..Len(e) /\ k <= n /\ n \in Nat /\ n <= Len(e)
  BY <1>5, <1>6, <1>11
<1>13. Begins(d, k, e) /\ d \in Seq(Byte)
  BY <1>5, <1>11, <1>12, PrefixBegins DEF Begins
<1>14. wire[o] \o d \in Seq(Byte)
  BY <1>7, <1>13
<1>15. /\ wire'[o] = wire[o] \o d /\ wire'[s] = wire[s]
       /\ sent'[s] = s2 /\ sent'[o] = sent[o]
  BY <1>3, <1>6, <1>7
<1>16. TransportType'
  <2>1. PICK v \in Seq(Byte) : v = wire[o] \o d
    BY <1>14
  <2>2. wire' = [wire EXCEPT ![o] = v]
    BY <1>6, <2>1
  <2>3. wire' \in [Sides -> Seq(Byte)]
    BY <1>7, <2>2
  <2>4. sent' \in [Sides -> Seq(Sent)]
    BY <1>6, <1>7, <1>9
  <2>5. UNCHANGED <<phase, shut, decrypt, chunk, pending_len, pending, read_timeout, received, junk>>
    BY <1>6
  <2>6. QED
    BY <1>1, <2>3, <2>4, <2>5 DEF TransportType
<1>17. Phases'
  <2>1. phase["responder"] # "open" => wire'["responder"] = << >> /\ shut["initiator"]
    <3>1. SUFFICES ASSUME phase["responder"] # "open"
                   PROVE  wire'["responder"] = << >> /\ shut["initiator"]
      OBVIOUS
    <3>2. shut["initiator"] /\ wire["responder"] = << >> /\ s = "initiator" /\ o = "responder"
      BY <1>1, <1>3, <1>6, <3>1 DEF Phases, Sides
    <3>3. k = 0
      BY <1>5, <3>2
    <3>4. d = << >>
      BY <1>5, <1>11, <3>3
    <3>5. QED
      BY <1>15, <3>2, <3>4
  <2>2. QED
    BY <1>1, <1>6, <2>1 DEF Phases
<1>18. Flow(s)'
  <2>1. Flowing(s)' => Flowing(s)
    BY <1>6 DEF Flowing
  <2>2. Flow(s) /\ sent'[Other(s)] = sent[Other(s)]
    BY <1>1, <1>2, <1>15
  <2>3. QED
    BY <1>6, <1>15, <2>1, <2>2, FlowKept
<1>19. Flow(o)'
  <2>1. PICK st : st = Stream(o)
    OBVIOUS
  <2>2. st \in Seq(Byte) /\ Stream(o)' = st \o d
    <3>1. PICK p, w : p = pending[o] /\ w = wire[o]
      OBVIOUS
    <3>2. p \in Seq(Byte) /\ w \in Seq(Byte)
      BY <1>7, <3>1
    <3>3. p \o w \in Seq(Byte) /\ p \o (w \o d) = (p \o w) \o d
      BY <1>13, <3>2
    <3>4. Stream(o)' = p \o (w \o d) /\ st = p \o w
      BY <1>6, <1>15, <2>1, <3>1 DEF Stream
    <3>5. QED
      BY <3>3, <3>4
  <2>3. PICK v : v = st \o d
    OBVIOUS
  <2>4. Flow(o) /\ Decoder(o) /\ Untorn(st, snd)
    BY <1>1, <1>3, <1>4, <2>1 DEF Flow
  <2>5. received[o] <= Len(snd)
    BY <1>3, <1>4, <2>4 DEF Decoder
  <2>6. Untorn(v, s2)
    <3>1. /\ s2[Len(snd) + 1].shape = shape
          /\ ~s2[Len(snd) + 1].whole => ~whole
      BY <1>8 DEF OneMore
    <3>2. ~whole => k # Len(e)
      BY <1>6, <1>11, <1>12
    <3>3. GoesOut(d, k, snd, s2, shape)
      BY <1>9, <1>10, <1>13, <3>1, <3>2 DEF GoesOut
    <3>4. st \in Seq(Byte) /\ snd \in Seq(Sent) /\ Untorn(st, snd)
      BY <1>7, <2>2, <2>4
    <3>5. QED
      BY <2>3, <3>3, <3>4, SendKeepsUntorn
  <2>7. Flowing(o)' => Flowing(o) /\ phase["responder"] = "open"
    BY <1>3, <1>6 DEF Flowing, Sides
  <2>8. ASSUME Flowing(o), phase["responder"] = "open"
        PROVE  InOrder(v, s2, received[o], chunk[o]) /\ AllThere(v, s2, received[o], chunk[o])
    <3>1. ~shut[s]
      BY <1>1, <2>8 DEF Phases, Sides
    <3>2. whole => k = Len(e)
      BY <1>5, <1>6, <3>1
    <3>3. InOrder(st, snd, received[o], chunk[o]) /\ AllThere(st, snd, received[o], chunk[o])
      BY <1>3, <1>4, <2>1, <2>4, <2>8 DEF Flow
    <3>4. received[o] \in Nat /\ chunk[o] \in Nat
      BY <1>7
    <3>5. QED
      BY <1>7, <1>10, <1>13, <2>2, <2>3, <2>5, <3>2, <3>3, <3>4, SendKeepsOrder
  <2>9. Decoder(o)'
    <3>1. PICK r, c : r = received[o] /\ c = chunk[o]
      OBVIOUS
    <3>2. /\ r \in Nat /\ r <= Len(snd) /\ c \in Nat
          /\ c > 1 => r < Len(snd) /\ c <= Len(snd[r + 1].shape)
      BY <1>3, <1>4, <1>7, <2>4, <3>1 DEF Decoder, Arriving
    <3>3. r <= Len(s2) /\ (c > 1 => r < Len(s2) /\ s2[r + 1] = snd[r + 1])
      BY <1>9, <3>2
    <3>4. c > 1 => Arriving(o)' = Arriving(o)
      BY <1>3, <1>4, <1>6, <1>15, <3>1, <3>3 DEF Arriving
    <3>5. Expected(o)' = Expected(o)
      BY <1>6, <1>7, <3>1, <3>4 DEF Expected
    <3>6. pending'[o] # << >> => pending_len'[o] = Expected(o)'
      BY <1>6, <2>4, <3>5 DEF Decoder
    <3>7. /\ received'[o] <= Len(sent'[Other(o)])
          /\ chunk'[o] > 1 => received'[o] < Len(sent'[Other(o)])
      BY <1>3, <1>6, <1>15, <3>1, <3>3
    <3>8. chunk'[o] > 1 => chunk'[o] <= Len(Arriving(o)'.shape)
      BY <1>6, <2>4, <3>1, <3>4 DEF Decoder
    <3>9. QED
      BY <3>6, <3>7, <3>8 DEF Decoder
  <2>10. Stream(o)' = v /\ sent'[Other(o)] = s2 /\ received'[o] = received[o] /\ chunk'[o] = chunk[o]
    BY <1>3, <1>6, <1>15, <2>2, <2>3
  <2>11. QED
    BY <2>6, <2>7, <2>8, <2>9, <2>10 DEF Flow
<1>20. QED
  BY <1>3, <1>16, <1>17, <1>18, <1>19 DEF NoiseInv, Sides

-----------------------------------------------------------------------------
(* recv keeps the invariant. *)

\* b and then v is st.
Moves(b, v, st) ==
  /\ b \in Seq(Byte) /\ v \in Seq(Byte) /\ st \in Seq(Byte) /\ Len(b) \in Nat
  /\ b \o v = st /\ Begins(b, Len(b), st) /\ Rest(v, Len(b), st)

\* A read moves n bytes from the wire w to the buffer p, and the stream is what it was.
LEMMA ReadMoves ==
  ASSUME NEW p \in Seq(Byte), NEW w \in Seq(Byte), NEW n \in 1..Len(w),
         NEW b, b = p \o SubSeq(w, 1, n), NEW v, v = SubSeq(w, n + 1, Len(w)),
         NEW st, st = p \o w
  PROVE  Moves(b, v, st)
<1>1. PICK u, m : u = SubSeq(w, 1, n) /\ m = Len(w)
  OBVIOUS
<1>2. u \in Seq(Byte) /\ Len(u) = n /\ m \in Nat /\ n \in Nat /\ n > 0 /\ n <= m
      /\ \A i \in 1..n : u[i] = w[i]
  BY <1>1
<1>3. v \in Seq(Byte) /\ Len(v) = m - n /\ \A i \in 1..(m - n) : v[i] = w[n + i]
  BY <1>1
<1>4. PICK l : l = Len(p)
  OBVIOUS
<1>5. Joined(b, Byte, p, l, u, n)
  BY <1>1, <1>2, <1>4, Concatenated
<1>6. /\ l \in Nat /\ b \in Seq(Byte) /\ Len(b) = l + n
      /\ \A i \in 1..l : b[i] = p[i]
      /\ \A i \in 1..n : b[l + i] = u[i]
  BY <1>5 DEF Joined
<1>8. Joined(st, Byte, p, l, w, m)
  BY <1>1, <1>4, Concatenated
<1>9. /\ st \in Seq(Byte) /\ Len(st) = l + m
      /\ \A i \in 1..l : st[i] = p[i]
      /\ \A i \in 1..m : st[l + i] = w[i]
  BY <1>8 DEF Joined
<1>10. ASSUME NEW i \in 1..(l + n) PROVE b[i] = st[i]
  <2>1. CASE i \in 1..l
    BY <1>6, <1>9, <2>1
  <2>2. CASE i \notin 1..l
    <3>1. PICK j : j = i - l
      OBVIOUS
    <3>2. j \in 1..n /\ j \in 1..m /\ l + j = i
      BY <1>2, <1>6, <2>2, <3>1
    <3>3. b[l + j] = w[j] /\ st[l + j] = w[j]
      BY <1>2, <1>6, <1>9, <3>2
    <3>4. QED
      BY <3>2, <3>3
  <2>3. QED
    BY <2>1, <2>2
<1>11. ASSUME NEW i \in 1..(m - n) PROVE v[i] = st[(l + n) + i]
  <2>1. n + i \in 1..m /\ l + (n + i) = (l + n) + i
    BY <1>2, <1>6
  <2>2. QED
    BY <1>3, <1>9, <2>1
<1>12. Begins(b, Len(b), st)
  <2>1. l + n \in 0..Len(st)
    BY <1>2, <1>6, <1>9
  <2>2. QED
    BY <1>6, <1>10, <2>1 DEF Begins
<1>13. Rest(v, Len(b), st)
  <2>1. l + n \in 1..Len(st) /\ m - n = Len(st) - (l + n)
    BY <1>2, <1>6, <1>9
  <2>2. QED
    BY <1>3, <1>6, <1>11, <2>1 DEF Rest
<1>14. b \o v = st
  <2>1. PICK q : q = b \o v
    OBVIOUS
  <2>2. Joined(q, Byte, b, l + n, v, m - n)
    BY <1>3, <1>6, <2>1, Concatenated
  <2>3. /\ q \in Seq(Byte) /\ Len(q) = (l + n) + (m - n)
        /\ \A i \in 1..(l + n) : q[i] = b[i]
        /\ \A i \in 1..(m - n) : q[(l + n) + i] = v[i]
    BY <2>2 DEF Joined
  <2>4. Len(q) = Len(st) /\ Len(q) \in Nat
    BY <1>2, <1>6, <1>9, <2>3
  <2>5. ASSUME NEW i \in 1..Len(q) PROVE q[i] = st[i]
    <3>1. CASE i \in 1..(l + n)
      BY <1>10, <2>3, <3>1
    <3>2. CASE i \notin 1..(l + n)
      <4>1. PICK k, h : k = l + n /\ h = m - n
        OBVIOUS
      <4> PICK j : j = i - k
        OBVIOUS
      <4>2. j \in 1..(m - n) /\ (l + n) + j = i
        <5>1. k \in Nat /\ h \in Nat /\ Len(q) = k + h /\ i \notin 1..k
          BY <1>2, <1>6, <2>3, <3>2, <4>1
        <5>2. i \in Nat /\ i <= k + h /\ i > 0
          BY <5>1
        <5>3. j \in 1..h /\ k + j = i
          BY <5>1, <5>2
        <5>4. QED
          BY <4>1, <5>3
      <4>3. q[(l + n) + j] = v[j] /\ v[j] = st[(l + n) + j]
        BY <1>11, <2>3, <4>2
      <4>4. QED
        BY <4>2, <4>3
    <3>3. QED
      BY <3>1, <3>2
  <2>6. q = st
    BY <1>9, <2>3, <2>4, <2>5, SeqEqual
  <2>7. QED
    BY <2>1, <2>6
<1>15. Len(b) \in Nat
  BY <1>6
<1>16. QED
  BY <1>3, <1>6, <1>9, <1>12, <1>13, <1>14, <1>15 DEF Moves

\* The bytes of a chunk.
ChunkIs(b, n, shape, c) ==
  Len(b) = shape[c] /\ shape[c] \in Nat \ {0} /\ \A i \in 1..shape[c] : b[i] = ByteAt(n, c, i)

LEMMA ChunkBytes ==
  ASSUME NEW n \in Nat, NEW shape \in Seq(Nat \ {0}), NEW c \in 1..Len(shape)
  PROVE  ChunkIs(ChunkOf(n, shape, c), n, shape, c)
  BY ChunkSpells DEF ChunkIs

\* What is due after a chunk of a frame, and what its last chunk tells about the frame.
LEMMA ChunkTaken ==
  ASSUME NEW st \in Seq(Byte), NEW snd \in Seq(Sent), NEW r \in Nat, NEW c \in Nat \ {0},
         r < Len(snd), NEW shape, shape = snd[r + 1].shape, c <= Len(shape),
         NEW b, b = ChunkOf(r + 1, shape, c), NEW m, Begins(b, m, st)
  PROVE  /\ m \in 1..Len(st)
         /\ c < Len(shape) => Due(st, m + 1, snd, r, c) = ByteAt(r + 1, c + 1, 1)
         /\ c = Len(shape) => Due(st, m + 1, snd, r, c) = ByteAt((r + 1) + 1, 1, 1)
         /\ c = Len(shape) /\ Untorn(st, snd) => snd[r + 1].whole
<1>1. r + 1 \in 1..Len(snd) /\ snd[r + 1] \in Sent /\ r + 1 \in Nat
  OBVIOUS
<1>2. shape \in Seq(Nat \ {0}) /\ c \in 1..Len(shape)
  BY <1>1, ShapesAssumption DEF Sent
<1>3. Len(b) = shape[c] /\ shape[c] \in Nat \ {0} /\ \A i \in 1..shape[c] : b[i] = ByteAt(r + 1, c, i)
  <2>1. ChunkIs(b, r + 1, shape, c)
    BY <1>1, <1>2, ChunkBytes
  <2>2. QED
    BY <2>1 DEF ChunkIs
<1>4. Len(b) = m /\ m \in 0..Len(st) /\ \A i \in 1..m : b[i] = st[i]
  BY DEF Begins
<1>5. PICK x : x = st[m]
  OBVIOUS
<1>6. m = shape[c] /\ m \in Nat /\ m > 0 /\ m \in 1..Len(st) /\ x = ByteAt(r + 1, c, m)
  BY <1>3, <1>4, <1>5
<1>7. x.frame = r + 1 /\ x.chunk = c /\ x.at = m
  BY <1>6 DEF ByteAt
<1>8. m + 1 # 1 /\ (m + 1) - 1 = m
  BY <1>6
<1>9. Due(st, m + 1, snd, r, c) = Succ(x, shape)
  BY <1>5, <1>7, <1>8 DEF Due
<1>10. /\ c < Len(shape) => Succ(x, shape) = ByteAt(r + 1, c + 1, 1)
       /\ c = Len(shape) => Succ(x, shape) = ByteAt((r + 1) + 1, 1, 1)
  <2>1. ~(x.at < shape[x.chunk])
    BY <1>6, <1>7
  <2>2. c < Len(shape) => x.chunk < Len(shape)
    BY <1>7
  <2>3. c = Len(shape) => ~(x.chunk < Len(shape))
    BY <1>2, <1>7
  <2>4. /\ ByteAt(x.frame, x.chunk + 1, 1) = ByteAt(r + 1, c + 1, 1)
        /\ ByteAt(x.frame + 1, 1, 1) = ByteAt((r + 1) + 1, 1, 1)
    BY <1>7
  <2>5. QED
    BY <2>1, <2>2, <2>3, <2>4 DEF Succ
<1>11. ASSUME c = Len(shape), Untorn(st, snd) PROVE snd[r + 1].whole
  <2>1. x = LastByte(r + 1, shape)
    BY <1>6, <1>11 DEF LastByte
  <2>2. x.frame > 0
    BY <1>7
  <2>3. ~snd[x.frame].whole => x # LastByte(x.frame, snd[x.frame].shape)
    BY <1>5, <1>6, <1>11, <2>2 DEF Untorn
  <2>4. QED
    BY <1>7, <2>1, <2>3
<1>12. QED
  BY <1>6, <1>9, <1>10, <1>11

\* A chunk that is read from a stream in order decrypts, if the frame it is of went out whole.
LEMMA ChunkDecrypts ==
  ASSUME NEW st \in Seq(Byte), NEW snd \in Seq(Sent), NEW r \in Nat, NEW c \in Nat \ {0},
         InOrder(st, snd, r, c), r <= Len(snd), Len(st) > 0,
         r < Len(snd) => snd[r + 1].whole /\ c <= Len(snd[r + 1].shape),
         NEW b, NEW m, Begins(b, m, st), r < Len(snd) => m = snd[r + 1].shape[c]
  PROVE  r < Len(snd) /\ b = ChunkOf(r + 1, snd[r + 1].shape, c)
<1>1. r < Len(snd)
  <2>1. SUFFICES ASSUME r = Len(snd) PROVE FALSE
    OBVIOUS
  <2>2. Due(st, 1, snd, r, c).frame = r + 1 /\ Due(st, 1, snd, r, c) = ByteAt(r + 1, c, 1)
    BY DEF Due, ByteAt
  <2>3. Clean(snd, r, r + 1)
    BY <2>1 DEF Clean
  <2>4. 1 \in 1..Len(st)
    OBVIOUS
  <2>5. Proper(st[1], snd) /\ st[1] = ByteAt(r + 1, c, 1)
    BY <2>2, <2>3, <2>4 DEF InOrder
  <2>6. st[1].frame = r + 1 /\ st[1].frame \in 1..Len(snd)
    BY <2>5 DEF Proper, ByteAt
  <2>7. QED
    BY <2>1, <2>6
<1>2. b \in Seq(Byte) /\ Len(b) = m /\ m \in 0..Len(st) /\ \A i \in 1..m : b[i] = st[i]
  BY DEF Begins
<1>3. \A i \in 1..m : st[i] = ByteAt(r + 1, c, i)
  <2>1. m <= Len(st) /\ m = snd[r + 1].shape[c] /\ snd[r + 1].whole /\ c <= Len(snd[r + 1].shape)
    BY <1>1, <1>2
  <2>2. QED
    BY <1>1, <2>1, ChunkIsNext
<1>4. PICK n, shape : n = r + 1 /\ shape = snd[r + 1].shape
  OBVIOUS
<1>5. n \in Nat /\ shape \in Seq(Nat \ {0}) /\ c \in 1..Len(shape) /\ m = shape[c]
  <2>1. r + 1 \in 1..Len(snd) /\ snd[r + 1] \in Sent
    BY <1>1
  <2>2. QED
    BY <1>1, <1>4, <2>1, ShapesAssumption DEF Sent
<1>6. PICK d : d = ChunkOf(n, shape, c)
  OBVIOUS
<1>7. ChunkIs(d, n, shape, c) /\ d \in Seq(Byte)
  BY <1>5, <1>6, ChunkBytes, ChunkSpells
<1>8. Len(d) = m /\ \A i \in 1..m : d[i] = ByteAt(n, c, i)
  BY <1>5, <1>7 DEF ChunkIs
<1>9. \A i \in 1..Len(b) : b[i] = d[i]
  BY <1>2, <1>3, <1>4, <1>8
<1>10. b = d
  BY <1>2, <1>7, <1>8, <1>9, SeqEqual
<1>11. QED
  BY <1>1, <1>4, <1>6, <1>10

\* The buffer is never for a chunk of another length.
LEMMA FilledIsPending ==
  ASSUME NEW s \in Sides, Decoder(s)
  PROVE  Filled(s) = pending[s]
  BY DEF Decoder, Filled

\* A step of recv changes its own side and takes bytes off its wire.
RecvStep(s) ==
  /\ \A t \in Sides : t # s =>
       /\ wire'[t] = wire[t] /\ decrypt'[t] = decrypt[t] /\ chunk'[t] = chunk[t]
       /\ pending_len'[t] = pending_len[t] /\ pending'[t] = pending[t]
       /\ read_timeout'[t] = read_timeout[t] /\ received'[t] = received[t]
  /\ wire[s] = << >> => wire'[s] = << >>
  /\ phase[s] = "open"
  /\ UNCHANGED <<phase, shut, sent, junk>>

LEMMA RecvStepKeeps ==
  ASSUME NoiseInv, phase["initiator"] = "open", NEW s \in Sides, RecvStep(s),
         TransportType', Flow(s)'
  PROVE  NoiseInv'
<1>1. TransportType /\ Phases /\ \A t \in Sides : Flow(t)
  BY DEF NoiseInv
<1>2. /\ wire[s] = << >> => wire'[s] = << >>
      /\ phase[s] = "open" /\ UNCHANGED <<phase, shut, sent, junk>>
  BY DEF RecvStep
<1>3. Phases'
  <2>1. wire["responder"] = << >> => wire'["responder"] = << >>
    BY <1>2 DEF RecvStep, Sides
  <2>2. \A t \in Sides : read_timeout'[t] = "short" => phase'[t] = "open"
    BY <1>1, <1>2 DEF RecvStep, Phases
  <2>3. QED
    BY <1>1, <1>2, <2>1, <2>2 DEF Phases
<1>4. ASSUME NEW t \in Sides, t # s PROVE Flow(t)'
  <2>1. /\ wire'[t] = wire[t] /\ decrypt'[t] = decrypt[t] /\ chunk'[t] = chunk[t]
        /\ pending_len'[t] = pending_len[t] /\ pending'[t] = pending[t]
        /\ received'[t] = received[t]
    BY <1>4 DEF RecvStep
  <2>2. Flowing(t)' => Flowing(t)
    BY <1>2, <2>1 DEF Flowing
  <2>3. QED
    BY <1>1, <1>2, <2>1, <2>2, FlowKept
<1>5. QED
  BY <1>3, <1>4 DEF NoiseInv

\* A recv begins, or gives up with the bytes it has: the stream is left alone.
LEMMA IdleRecvKeeps ==
  ASSUME NoiseInv, phase["initiator"] = "open", NEW s \in Sides,
         RecvBegins(s) \/ ReadTimesOut(s) \/ ReadEnds(s)
  PROVE  NoiseInv'
<1>1. TransportType /\ Phases /\ Flow(s)
  BY DEF NoiseInv
<1>2. Decoder(s) /\ Filled(s) = pending[s]
  BY <1>1, FilledIsPending DEF Flow
<1>3. /\ pending \in [Sides -> Seq(Byte)] /\ DOMAIN pending_len = Sides
      /\ read_timeout \in [Sides -> {"io", "short"}]
  BY <1>1 DEF TransportType
<1>4. UNCHANGED <<phase, wire, shut, decrypt, chunk, sent, received, junk>> /\ phase[s] = "open"
  BY <1>1 DEF RecvBegins, ReadTimesOut, ReadEnds, Phases
<1>5. pending' = pending
  <2>1. CASE RecvBegins(s)
    BY <2>1 DEF RecvBegins
  <2>2. CASE ~RecvBegins(s)
    <3>1. pending' = [pending EXCEPT ![s] = pending[s]]
      BY <1>2, <2>2 DEF ReadTimesOut, ReadEnds
    <3>2. QED
      BY <1>3, <3>1
  <2>3. QED
    BY <2>1, <2>2
<1>6. pending_len' = pending_len \/ pending_len' = [pending_len EXCEPT ![s] = Expected(s)]
  BY DEF RecvBegins, ReadTimesOut, ReadEnds
<1>7. \E r \in {"io", "short"} : read_timeout' = [read_timeout EXCEPT ![s] = r]
  BY DEF RecvBegins, ReadTimesOut, ReadEnds, Returns
<1>8. TransportType'
  <2>1. DOMAIN pending_len' = Sides
    BY <1>3, <1>6
  <2>2. read_timeout' \in [Sides -> {"io", "short"}]
    BY <1>3, <1>7
  <2>3. QED
    BY <1>1, <1>4, <1>5, <2>1, <2>2 DEF TransportType
<1>9. RecvStep(s)
  <2>1. \A t \in Sides : t # s => pending_len'[t] = pending_len[t]
    BY <1>3, <1>6
  <2>2. \A t \in Sides : t # s => read_timeout'[t] = read_timeout[t]
    BY <1>3, <1>7
  <2>3. QED
    BY <1>4, <1>5, <2>1, <2>2 DEF RecvStep
<1>10. Flow(s)'
  <2>1. pending'[s] # << >> => pending_len'[s] = pending_len[s]
    BY <1>2, <1>3, <1>5, <1>6 DEF Decoder
  <2>2. Flowing(s)' => Flowing(s)
    BY <1>4 DEF Flowing
  <2>3. QED
    BY <1>1, <1>4, <1>5, <2>1, <2>2, FlowKept
<1>11. QED
  BY <1>8, <1>9, <1>10, RecvStepKeeps

\* A read leaves b in the buffer and v on the wire, and that is the stream as it was.
Takes(s, b, v) ==
  /\ Moves(b, v, Stream(s))
  /\ wire' = [wire EXCEPT ![s] = v] /\ wire[s] # << >>
  /\ pending_len' = [pending_len EXCEPT ![s] = Expected(s)]
  /\ phase[s] = "open" /\ UNCHANGED <<phase, shut, sent, junk>>

LEMMA ReadTakes ==
  ASSUME NoiseInv, NEW s \in Sides, NEW n \in 1..Len(wire[s]), Read(s, n)
  PROVE  \E v : Takes(s, Buffer(s, n), v)
<1>1. TransportType /\ Phases /\ Flow(s)
  BY DEF NoiseInv
<1>2. PICK p, w : p = pending[s] /\ w = wire[s]
  OBVIOUS
<1>3. PICK b, v, st : /\ b = p \o SubSeq(w, 1, n) /\ v = SubSeq(w, n + 1, Len(w))
                      /\ st = p \o w
  OBVIOUS
<1>4. p \in Seq(Byte) /\ w \in Seq(Byte) /\ n \in 1..Len(w) /\ w # << >>
  BY <1>1, <1>2 DEF TransportType
<1>5. Buffer(s, n) = b /\ Stream(s) = st
  <2>1. Filled(s) = p
    BY <1>1, <1>2, FilledIsPending DEF Flow
  <2>2. QED
    BY <1>2, <1>3, <2>1 DEF Buffer, Stream
<1>6. Moves(b, v, st)
  BY <1>3, <1>4, ReadMoves
<1>7. /\ wire' = [wire EXCEPT ![s] = v]
      /\ pending_len' = [pending_len EXCEPT ![s] = Expected(s)]
      /\ UNCHANGED <<phase, shut, sent, junk>> /\ read_timeout[s] = "short"
  BY <1>2, <1>3 DEF Read
<1>8. phase[s] = "open"
  BY <1>1, <1>7 DEF Phases
<1>9. Takes(s, b, v)
  BY <1>2, <1>4, <1>5, <1>6, <1>7, <1>8 DEF Takes
<1>10. QED
  BY <1>5, <1>9

\* What else a read may change, at its own side.
Settles(s) ==
  /\ \E p \in Seq(Byte) : pending' = [pending EXCEPT ![s] = p]
  /\ chunk' = chunk \/ \E c \in Nat \ {0} : chunk' = [chunk EXCEPT ![s] = c]
  /\ received' = received \/ \E r \in Nat : received' = [received EXCEPT ![s] = r]
  /\ decrypt' = decrypt \/ decrypt' = [decrypt EXCEPT ![s] = FALSE]
  /\ read_timeout' = read_timeout \/ read_timeout' = [read_timeout EXCEPT ![s] = "io"]

LEMMA ReadKeeps ==
  ASSUME NoiseInv, phase["initiator"] = "open", NEW s \in Sides, NEW b, NEW v, Takes(s, b, v),
         Settles(s), Flow(s)'
  PROVE  NoiseInv'
<1>1. TransportType
  BY DEF NoiseInv
<1>2. /\ v \in Seq(Byte) /\ wire' = [wire EXCEPT ![s] = v] /\ wire[s] # << >>
      /\ pending_len' = [pending_len EXCEPT ![s] = Expected(s)]
      /\ phase[s] = "open" /\ UNCHANGED <<phase, shut, sent, junk>>
  BY DEF Takes, Moves
<1>3. /\ wire \in [Sides -> Seq(Byte)] /\ DOMAIN pending_len = Sides
      /\ pending \in [Sides -> Seq(Byte)] /\ chunk \in [Sides -> Nat \ {0}]
      /\ received \in [Sides -> Nat] /\ decrypt \in [Sides -> BOOLEAN]
      /\ read_timeout \in [Sides -> {"io", "short"}]
  BY <1>1 DEF TransportType
<1>4. /\ wire' \in [Sides -> Seq(Byte)] /\ \A t \in Sides : t # s => wire'[t] = wire[t]
  BY <1>2, <1>3
<1>5. /\ DOMAIN pending_len' = Sides
      /\ \A t \in Sides : t # s => pending_len'[t] = pending_len[t]
  BY <1>2, <1>3
<1>6. pending' \in [Sides -> Seq(Byte)] /\ \A t \in Sides : t # s => pending'[t] = pending[t]
  BY <1>3 DEF Settles
<1>7. chunk' \in [Sides -> Nat \ {0}] /\ \A t \in Sides : t # s => chunk'[t] = chunk[t]
  <2>1. CASE chunk' = chunk
    BY <1>3, <2>1
  <2>2. CASE \E c \in Nat \ {0} : chunk' = [chunk EXCEPT ![s] = c]
    BY <1>3, <2>2
  <2>3. QED
    BY <2>1, <2>2 DEF Settles
<1>8. received' \in [Sides -> Nat] /\ \A t \in Sides : t # s => received'[t] = received[t]
  <2>1. CASE received' = received
    BY <1>3, <2>1
  <2>2. CASE \E r \in Nat : received' = [received EXCEPT ![s] = r]
    BY <1>3, <2>2
  <2>3. QED
    BY <2>1, <2>2 DEF Settles
<1>9. decrypt' \in [Sides -> BOOLEAN] /\ \A t \in Sides : t # s => decrypt'[t] = decrypt[t]
  BY <1>3 DEF Settles
<1>10. /\ read_timeout' \in [Sides -> {"io", "short"}]
       /\ \A t \in Sides : t # s => read_timeout'[t] = read_timeout[t]
  BY <1>3 DEF Settles
<1>11. TransportType'
  BY <1>1, <1>2, <1>4, <1>5, <1>6, <1>7, <1>8, <1>9, <1>10 DEF TransportType
<1>12. RecvStep(s)
  BY <1>2, <1>4, <1>5, <1>6, <1>7, <1>8, <1>9, <1>10 DEF RecvStep
<1>13. QED
  BY <1>11, <1>12, RecvStepKeeps

\* The read ends before the chunk does.
LEMMA ReadsPartKeeps ==
  ASSUME NoiseInv, phase["initiator"] = "open", NEW s \in Sides, NEW n \in 1..Len(wire[s]),
         ReadsPart(s, n)
  PROVE  NoiseInv'
<1>1. TransportType /\ Flow(s) /\ Read(s, n)
  BY DEF NoiseInv, ReadsPart
<1>2. PICK b : b = Buffer(s, n)
  OBVIOUS
<1>3. PICK v : Takes(s, b, v)
  <2>1. \E v : Takes(s, Buffer(s, n), v)
    BY <1>1, ReadTakes
  <2>2. QED
    BY <1>2, <2>1
<1>4. /\ b \in Seq(Byte) /\ v \in Seq(Byte) /\ b \o v = Stream(s)
      /\ wire' = [wire EXCEPT ![s] = v]
      /\ pending_len' = [pending_len EXCEPT ![s] = Expected(s)]
      /\ UNCHANGED <<phase, shut, sent, junk>>
  BY <1>3 DEF Takes, Moves
<1>5. /\ pending' = [pending EXCEPT ![s] = b]
      /\ UNCHANGED <<decrypt, chunk, read_timeout, received>>
  BY <1>2 DEF ReadsPart
<1>6. Settles(s)
  BY <1>4, <1>5 DEF Settles
<1>7. pending'[s] = b /\ wire'[s] = v /\ pending_len'[s] = Expected(s)
  BY <1>1, <1>4, <1>5 DEF TransportType
<1>8. Flow(s)'
  <2>1. Stream(s)' = Stream(s)
    BY <1>4, <1>7 DEF Stream
  <2>2. Expected(s)' = Expected(s) /\ Arriving(s)' = Arriving(s)
    BY <1>4, <1>5 DEF Expected, Arriving
  <2>3. Decoder(s)'
    BY <1>1, <1>4, <1>5, <1>7, <2>2 DEF Flow, Decoder
  <2>4. Flowing(s)' <=> Flowing(s)
    BY <1>4, <1>5 DEF Flowing
  <2>5. QED
    BY <1>1, <1>4, <1>5, <2>1, <2>3, <2>4 DEF Flow
<1>9. QED
  BY <1>3, <1>6, <1>8, ReadKeeps

\* The buffer b is a whole chunk, and v the stream that is left.
TakesChunk(s, b, v) ==
  /\ Takes(s, b, v) /\ Stream(s)' = v /\ pending' = [pending EXCEPT ![s] = << >>]
  /\ pending'[s] = << >> /\ Untorn(v, sent[Other(s)]) /\ Len(b) = Expected(s)

LEMMA ReadsChunkTakes ==
  ASSUME NoiseInv, NEW s \in Sides, NEW n \in 1..Len(wire[s]), ReadsChunk(s, n)
  PROVE  \E v : TakesChunk(s, Buffer(s, n), v)
<1>1. TransportType /\ Flow(s) /\ Read(s, n)
  BY DEF NoiseInv, ReadsChunk
<1>2. PICK b, st : b = Buffer(s, n) /\ st = Stream(s)
  OBVIOUS
<1>3. PICK v : Takes(s, b, v)
  <2>1. \E v : Takes(s, Buffer(s, n), v)
    BY <1>1, ReadTakes
  <2>2. QED
    BY <1>2, <2>1
<1>4. /\ v \in Seq(Byte) /\ st \in Seq(Byte) /\ Rest(v, Len(b), st)
      /\ wire' = [wire EXCEPT ![s] = v]
  BY <1>2, <1>3 DEF Takes, Moves
<1>5. pending' = [pending EXCEPT ![s] = << >>] /\ Len(b) = Expected(s)
  BY <1>2 DEF ReadsChunk
<1>6. pending'[s] = << >> /\ wire'[s] = v
  BY <1>1, <1>4, <1>5 DEF TransportType
<1>7. Stream(s)' = v
  BY <1>4, <1>6 DEF Stream
<1>8. Untorn(v, sent[Other(s)])
  <2>1. Untorn(st, sent[Other(s)])
    BY <1>1, <1>2 DEF Flow
  <2>2. QED
    BY <1>4, <2>1, RestUntorn
<1>9. TakesChunk(s, b, v)
  BY <1>3, <1>5, <1>6, <1>7, <1>8 DEF TakesChunk
<1>10. QED
  BY <1>2, <1>9

\* The first m bytes of st are chunk c of the frame after the r-th, and v the rest of it.
ChunkOff(st, snd, shape, r, c, m, v) ==
  /\ st \in Seq(Byte) /\ snd \in Seq(Sent) /\ r \in Nat /\ c \in Nat \ {0} /\ r < Len(snd)
  /\ shape = snd[r + 1].shape /\ Rest(v, m, st) /\ m \in 1..Len(st)
  /\ c < Len(shape) => Due(st, m + 1, snd, r, c) = ByteAt(r + 1, c + 1, 1)
  /\ c = Len(shape) => Due(st, m + 1, snd, r, c) = ByteAt((r + 1) + 1, 1, 1)
  /\ c = Len(shape) => snd[r + 1].whole

LEMMA Decrypted ==
  ASSUME NoiseInv, NEW s \in Sides, NEW b, NEW v, TakesChunk(s, b, v), Decrypts(s, b),
         chunk[s] <= Len(Arriving(s).shape)
  PROVE  ChunkOff(Stream(s), sent[Other(s)], Arriving(s).shape, received[s], chunk[s], Len(b), v)
<1>1. PICK st, snd, shape : st = Stream(s) /\ snd = sent[Other(s)] /\ shape = Arriving(s).shape
  OBVIOUS
<1>2. PICK r, c, m : r = received[s] /\ c = chunk[s] /\ m = Len(b)
  OBVIOUS
<1>3. TransportType /\ Flow(s) /\ Other(s) \in Sides
  BY Others DEF NoiseInv
<1>4. snd \in Seq(Sent) /\ r \in Nat /\ c \in Nat \ {0} /\ c <= Len(shape)
  BY <1>3, <1>1, <1>2 DEF TransportType
<1>5. Untorn(st, snd)
  BY <1>3, <1>1 DEF Flow
<1>6. st \in Seq(Byte) /\ Begins(b, m, st) /\ Rest(v, m, st)
  BY <1>1, <1>2 DEF TakesChunk, Takes, Moves
<1>7. r < Len(snd) /\ shape = snd[r + 1].shape /\ b = ChunkOf(r + 1, shape, c)
  BY <1>1, <1>2 DEF Decrypts, Arriving
<1>8. /\ m \in 1..Len(st)
      /\ c < Len(shape) => Due(st, m + 1, snd, r, c) = ByteAt(r + 1, c + 1, 1)
      /\ c = Len(shape) => Due(st, m + 1, snd, r, c) = ByteAt((r + 1) + 1, 1, 1)
      /\ c = Len(shape) /\ Untorn(st, snd) => snd[r + 1].whole
  BY <1>4, <1>6, <1>7, ChunkTaken
<1>9. QED
  BY <1>1, <1>2, <1>4, <1>5, <1>6, <1>7, <1>8 DEF ChunkOff

\* The chunk decrypts and the frame goes on.
LEMMA DecryptsChunkKeeps ==
  ASSUME NoiseInv, phase["initiator"] = "open", NEW s \in Sides, NEW n \in 1..Len(wire[s]),
         DecryptsChunk(s, n)
  PROVE  NoiseInv'
<1>1. TransportType /\ Flow(s) /\ Other(s) \in Sides
  BY Others DEF NoiseInv
<1>2. /\ ReadsChunk(s, n) /\ Decrypts(s, Buffer(s, n)) /\ chunk[s] < Len(Arriving(s).shape)
      /\ chunk' = [chunk EXCEPT ![s] = chunk[s] + 1]
      /\ UNCHANGED <<decrypt, read_timeout, received>>
  BY DEF DecryptsChunk
<1>3. PICK b : b = Buffer(s, n)
  OBVIOUS
<1>4. PICK v : TakesChunk(s, b, v)
  <2>1. \E v : TakesChunk(s, Buffer(s, n), v)
    BY <1>2, ReadsChunkTakes
  <2>2. QED
    BY <1>3, <2>1
<1>5. PICK st, snd, shape : st = Stream(s) /\ snd = sent[Other(s)] /\ shape = Arriving(s).shape
  OBVIOUS
<1>6. PICK r, c, m : r = received[s] /\ c = chunk[s] /\ m = Len(b)
  OBVIOUS
<1>7. c \in Nat \ {0} /\ c < Len(shape) /\ Len(shape) \in Nat /\ chunk[s] <= Len(Arriving(s).shape)
  <2>1. received[s] < Len(sent[Other(s)])
    BY <1>2 DEF Decrypts
  <2>2. Arriving(s) \in Sent
    <3>1. sent[Other(s)] \in Seq(Sent) /\ received[s] \in Nat
      BY <1>1 DEF TransportType
    <3>2. received[s] + 1 \in 1..Len(sent[Other(s)])
      BY <2>1, <3>1
    <3>3. QED
      BY <3>1, <3>2 DEF Arriving
  <2>3. shape \in Seq(Nat \ {0})
    BY <1>5, <2>2, ShapesAssumption DEF Sent
  <2>4. c \in Nat \ {0} /\ Len(shape) \in Nat
    BY <1>1, <1>6, <2>3 DEF TransportType
  <2>5. c < Len(shape) /\ c = chunk[s] /\ Len(Arriving(s).shape) = Len(shape)
    BY <1>2, <1>5, <1>6
  <2>6. c <= Len(shape)
    BY <2>4, <2>5
  <2>7. QED
    BY <2>4, <2>5, <2>6
<1>8. ChunkOff(st, snd, shape, r, c, m, v)
  <2>1. ChunkOff(Stream(s), sent[Other(s)], Arriving(s).shape, received[s], chunk[s], Len(b), v)
    BY <1>2, <1>3, <1>4, <1>7, Decrypted
  <2>2. QED
    BY <1>5, <1>6, <2>1
<1>9. /\ st \in Seq(Byte) /\ snd \in Seq(Sent) /\ r \in Nat /\ r < Len(snd)
      /\ shape = snd[r + 1].shape /\ Rest(v, m, st)
      /\ Due(st, m + 1, snd, r, c) = ByteAt(r + 1, c + 1, 1)
  BY <1>7, <1>8 DEF ChunkOff
<1>10. /\ Takes(s, b, v) /\ Stream(s)' = v /\ pending' = [pending EXCEPT ![s] = << >>]
       /\ pending'[s] = << >> /\ Untorn(v, snd)
  BY <1>4, <1>5 DEF TakesChunk
<1>11. UNCHANGED <<phase, shut, sent, junk>>
  BY <1>10 DEF Takes
<1>12. chunk'[s] = c + 1 /\ received'[s] = r /\ sent'[Other(s)] = snd
  BY <1>1, <1>2, <1>5, <1>6, <1>11 DEF TransportType
<1>13. Settles(s)
  <2>1. c + 1 \in Nat \ {0} /\ << >> \in Seq(Byte)
    BY <1>7
  <2>2. QED
    BY <1>2, <1>6, <1>10, <2>1 DEF Settles
<1>14. Flow(s)'
  <2>1. Decoder(s)'
    <3>1. Arriving(s)'.shape = shape
      BY <1>9, <1>12 DEF Arriving
    <3>2. c + 1 <= Len(shape) /\ r <= Len(snd)
      BY <1>7, <1>9
    <3>3. QED
      BY <1>9, <1>10, <1>12, <3>1, <3>2 DEF Decoder
  <2>2. Flowing(s)' => Flowing(s)
    BY <1>2, <1>11 DEF Flowing
  <2>3. ASSUME Flowing(s)
        PROVE  /\ InOrder(v, snd, r, c + 1)
               /\ phase["responder"] = "open" => AllThere(v, snd, r, c + 1)
    <3>1. InOrder(st, snd, r, c) /\ (phase["responder"] = "open" => AllThere(st, snd, r, c))
      BY <1>1, <1>5, <1>6, <2>3 DEF Flow
    <3>2. InOrder(v, snd, r, c + 1) /\ (AllThere(st, snd, r, c) => AllThere(v, snd, r, c + 1))
      BY <1>9, <3>1, RestInOrder
    <3>3. QED
      BY <3>1, <3>2
  <2>4. QED
    BY <1>10, <1>11, <1>12, <2>1, <2>2, <2>3 DEF Flow
<1>15. QED
  BY <1>10, <1>13, <1>14, ReadKeeps

\* The last chunk decrypts: recv returns the frame, which has gone out whole.
LEMMA DecryptsFrameKeeps ==
  ASSUME NoiseInv, phase["initiator"] = "open", NEW s \in Sides, NEW n \in 1..Len(wire[s]),
         DecryptsFrame(s, n)
  PROVE  /\ NoiseInv' /\ UNCHANGED <<sent, junk, decrypt>> /\ decrypt[s]
         /\ received' = [received EXCEPT ![s] = received[s] + 1]
         /\ received[s] < Len(sent[Other(s)]) /\ sent[Other(s)][received[s] + 1].whole
<1>1. TransportType /\ Flow(s) /\ Other(s) \in Sides
  BY Others DEF NoiseInv
<1>2. /\ ReadsChunk(s, n) /\ Decrypts(s, Buffer(s, n)) /\ chunk[s] = Len(Arriving(s).shape)
      /\ chunk' = [chunk EXCEPT ![s] = 1] /\ decrypt[s]
      /\ received' = [received EXCEPT ![s] = received[s] + 1]
      /\ read_timeout' = [read_timeout EXCEPT ![s] = "io"] /\ UNCHANGED decrypt
  BY DEF DecryptsFrame, Returns
<1>3. PICK b : b = Buffer(s, n)
  OBVIOUS
<1>4. PICK v : TakesChunk(s, b, v)
  <2>1. \E v : TakesChunk(s, Buffer(s, n), v)
    BY <1>2, ReadsChunkTakes
  <2>2. QED
    BY <1>3, <2>1
<1>5. PICK st, snd, shape : st = Stream(s) /\ snd = sent[Other(s)] /\ shape = Arriving(s).shape
  OBVIOUS
<1>6. PICK r, c, m : r = received[s] /\ c = chunk[s] /\ m = Len(b)
  OBVIOUS
<1>7. c = Len(shape) /\ chunk[s] <= Len(Arriving(s).shape)
  BY <1>1, <1>2, <1>5, <1>6 DEF TransportType
<1>8. ChunkOff(st, snd, shape, r, c, m, v)
  <2>1. ChunkOff(Stream(s), sent[Other(s)], Arriving(s).shape, received[s], chunk[s], Len(b), v)
    BY <1>2, <1>3, <1>4, <1>7, Decrypted
  <2>2. QED
    BY <1>5, <1>6, <2>1
<1>9. /\ st \in Seq(Byte) /\ snd \in Seq(Sent) /\ r \in Nat /\ r < Len(snd)
      /\ Rest(v, m, st) /\ Due(st, m + 1, snd, r, c) = ByteAt((r + 1) + 1, 1, 1)
      /\ snd[r + 1].whole
  BY <1>7, <1>8 DEF ChunkOff
<1>10. /\ Takes(s, b, v) /\ Stream(s)' = v /\ pending' = [pending EXCEPT ![s] = << >>]
       /\ pending'[s] = << >> /\ Untorn(v, snd)
  BY <1>4, <1>5 DEF TakesChunk
<1>11. UNCHANGED <<phase, shut, sent, junk>>
  BY <1>10 DEF Takes
<1>12. chunk'[s] = 1 /\ received'[s] = r + 1 /\ sent'[Other(s)] = snd
  BY <1>1, <1>2, <1>5, <1>6, <1>11 DEF TransportType
<1>13. Settles(s)
  <2>1. r + 1 \in Nat /\ 1 \in Nat \ {0} /\ << >> \in Seq(Byte)
    BY <1>9
  <2>2. QED
    BY <1>2, <1>6, <1>10, <2>1 DEF Settles
<1>14. Flow(s)'
  <2>1. Decoder(s)'
    <3>1. r + 1 <= Len(snd)
      BY <1>9
    <3>2. QED
      BY <1>10, <1>12, <3>1 DEF Decoder
  <2>2. Flowing(s)' => Flowing(s)
    BY <1>2, <1>11 DEF Flowing
  <2>3. ASSUME Flowing(s)
        PROVE  /\ InOrder(v, snd, r + 1, 1)
               /\ phase["responder"] = "open" => AllThere(v, snd, r + 1, 1)
    <3>1. InOrder(st, snd, r, c) /\ (phase["responder"] = "open" => AllThere(st, snd, r, c))
      BY <1>1, <1>5, <1>6, <2>3 DEF Flow
    <3>2. PICK r2 \in Nat : r2 = r + 1
      BY <1>9
    <3>3. InOrder(v, snd, r2, 1) /\ (AllThere(st, snd, r, c) => AllThere(v, snd, r2, 1))
      <4>1. Due(st, m + 1, snd, r, c) = ByteAt(r2 + 1, 1, 1) /\ r2 = r + 1 /\ snd[r2].whole
        BY <1>9, <3>2
      <4>2. QED
        BY <1>9, <3>1, <4>1, RestInOrder
    <3>4. QED
      BY <3>1, <3>2, <3>3
  <2>4. QED
    BY <1>10, <1>11, <1>12, <2>1, <2>2, <2>3 DEF Flow
<1>15. NoiseInv'
  BY <1>10, <1>13, <1>14, ReadKeeps
<1>16. QED
  BY <1>2, <1>5, <1>6, <1>9, <1>11, <1>15

\* A header has the length that the first chunk of every frame has.
LEMMA HeaderIsFirst ==
  ASSUME NEW shape \in Shapes
  PROVE  shape[1] = HeaderLen /\ 1 <= Len(shape)
<1>1. PICK p : p = CHOOSE q \in Shapes : TRUE
  OBVIOUS
<1>2. p \in Shapes
  BY <1>1
<1>3. p[1] = shape[1] /\ Len(shape) > 0 /\ shape \in Seq(Nat \ {0})
  BY <1>2, ShapesAssumption
<1>4. QED
  BY <1>1, <1>3 DEF HeaderLen

\* The stream breaks: with nothing but frames on it, only at one that did not go out whole.
LEMMA DecryptFailsKeeps ==
  ASSUME NoiseInv, phase["initiator"] = "open", NEW s \in Sides, NEW n \in 1..Len(wire[s]),
         DecryptFails(s, n)
  PROVE  /\ NoiseInv' /\ UNCHANGED <<sent, junk, received>>
         /\ decrypt' = [decrypt EXCEPT ![s] = FALSE]
         /\ decrypt[s] /\ junk[s] = 0 =>
              received[s] < Len(sent[Other(s)]) /\ ~sent[Other(s)][received[s] + 1].whole
<1>1. TransportType /\ Flow(s) /\ Other(s) \in Sides
  BY Others DEF NoiseInv
<1>2. /\ ReadsChunk(s, n) /\ decrypt' = [decrypt EXCEPT ![s] = FALSE]
      /\ decrypt[s] => ~Decrypts(s, Buffer(s, n))
      /\ read_timeout' = [read_timeout EXCEPT ![s] = "io"] /\ UNCHANGED <<chunk, received>>
  BY DEF DecryptFails, Returns
<1>3. PICK b : b = Buffer(s, n)
  OBVIOUS
<1>4. PICK v : TakesChunk(s, b, v)
  <2>1. \E v : TakesChunk(s, Buffer(s, n), v)
    BY <1>2, ReadsChunkTakes
  <2>2. QED
    BY <1>3, <2>1
<1>5. PICK st, snd : st = Stream(s) /\ snd = sent[Other(s)]
  OBVIOUS
<1>6. PICK r, c, m : r = received[s] /\ c = chunk[s] /\ m = Len(b)
  OBVIOUS
<1>7. /\ Takes(s, b, v) /\ Stream(s)' = v /\ pending' = [pending EXCEPT ![s] = << >>]
      /\ pending'[s] = << >> /\ Untorn(v, snd) /\ m = Expected(s)
  BY <1>4, <1>5, <1>6 DEF TakesChunk
<1>8. /\ UNCHANGED <<phase, shut, sent, junk>> /\ phase[s] = "open"
      /\ st \in Seq(Byte) /\ Begins(b, m, st) /\ Rest(v, m, st)
  BY <1>5, <1>6, <1>7 DEF Takes, Moves
<1>9. /\ ~decrypt'[s] /\ snd \in Seq(Sent) /\ r \in Nat /\ c \in Nat \ {0}
  BY <1>1, <1>2, <1>5, <1>6 DEF TransportType
<1>10. r <= Len(snd) /\ (c > 1 => r < Len(snd) /\ c <= Len(snd[r + 1].shape))
  BY <1>1, <1>5, <1>6 DEF Flow, Decoder, Arriving
<1>11. NoiseInv'
  <2>1. Settles(s)
    <3>1. << >> \in Seq(Byte)
      OBVIOUS
    <3>2. QED
      BY <1>2, <1>7, <3>1 DEF Settles
  <2>2. Decoder(s)'
    <3>1. Arriving(s)' = Arriving(s)
      BY <1>2, <1>8 DEF Arriving
    <3>2. QED
      BY <1>1, <1>2, <1>7, <1>8, <3>1 DEF Flow, Decoder
  <2>3. Flow(s)'
    BY <1>5, <1>7, <1>8, <1>9, <2>2 DEF Flow, Flowing
  <2>4. QED
    BY <1>7, <2>1, <2>3, ReadKeeps
<1>12. ASSUME decrypt[s], junk[s] = 0
       PROVE  r < Len(snd) /\ ~snd[r + 1].whole
  <2>1. SUFFICES ASSUME r < Len(snd) => snd[r + 1].whole
                 PROVE  FALSE
    OBVIOUS
  <2>2. InOrder(st, snd, r, c)
    BY <1>1, <1>5, <1>6, <1>8, <1>12 DEF Flow, Flowing
  <2>3. r < Len(snd) => c <= Len(snd[r + 1].shape) /\ m = snd[r + 1].shape[c]
    <3>1. SUFFICES ASSUME r < Len(snd)
                   PROVE  c <= Len(snd[r + 1].shape) /\ m = snd[r + 1].shape[c]
      OBVIOUS
    <3>2. PICK shape : shape = snd[r + 1].shape
      OBVIOUS
    <3>3. shape \in Shapes /\ shape[1] = HeaderLen /\ 1 <= Len(shape)
      <4>1. snd[r + 1] \in Sent
        BY <1>9, <3>1
      <4>2. shape \in Shapes
        BY <3>2, <4>1 DEF Sent
      <4>3. QED
        BY <4>2, HeaderIsFirst
    <3>4. Expected(s) = IF c = 1 THEN HeaderLen ELSE shape[c]
      BY <1>5, <1>6, <3>2 DEF Expected, Arriving
    <3>5. CASE c = 1
      BY <1>7, <3>2, <3>3, <3>4, <3>5
    <3>6. CASE c # 1
      BY <1>7, <1>9, <1>10, <3>2, <3>4, <3>6
    <3>7. QED
      BY <3>5, <3>6
  <2>4. Len(st) > 0
    BY <1>8 DEF Rest
  <2>5. r < Len(snd) /\ b = ChunkOf(r + 1, snd[r + 1].shape, c)
    BY <1>8, <1>9, <1>10, <2>1, <2>2, <2>3, <2>4, ChunkDecrypts
  <2>6. Decrypts(s, Buffer(s, n))
    BY <1>3, <1>5, <1>6, <2>5 DEF Decrypts, Arriving
  <2>7. QED
    BY <1>2, <1>12, <2>6
<1>13. QED
  BY <1>2, <1>5, <1>6, <1>8, <1>11, <1>12

-----------------------------------------------------------------------------
(* The connection implements FrameChannel. *)

\* For every frame, whether it went out whole.
Marks(snd) == [n \in DOMAIN snd |-> snd[n].whole]

LEMMA OneMoreMark ==
  ASSUME NEW snd \in Seq(Sent), NEW shape \in Shapes, NEW whole \in BOOLEAN,
         NEW s2, s2 = Append(snd, [shape |-> shape, whole |-> whole])
  PROVE  Marks(s2) = Append(Marks(snd), whole)
<1>1. PICK n : n = Len(snd)
  OBVIOUS
<1>2. OneMore(s2, snd, n, shape, whole)
  BY <1>1, OneMoreSent
<1>3. /\ n \in Nat /\ s2 \in Seq(Sent) /\ Len(s2) = n + 1
      /\ \A j \in 1..n : s2[j] = snd[j]
      /\ s2[n + 1].whole = whole
  BY <1>2 DEF OneMore
<1>4. DOMAIN snd = 1..n /\ DOMAIN s2 = 1..(n + 1)
  BY <1>1, <1>3
<1>5. ASSUME NEW x \in Sent PROVE x.whole \in BOOLEAN
  BY DEF Sent
<1>6. Marks(snd) \in [1..n -> BOOLEAN] /\ Marks(s2) \in [1..(n + 1) -> BOOLEAN]
  <2>1. \A j \in 1..n : snd[j] \in Sent
    BY <1>1, <1>3
  <2>2. \A j \in 1..(n + 1) : s2[j] \in Sent
    BY <1>3, <1>4
  <2>3. QED
    BY <1>4, <1>5, <2>1, <2>2 DEF Marks
<1>7. PICK p : p = Marks(snd)
  OBVIOUS
<1>8. PICK q : q = Marks(s2)
  OBVIOUS
<1>9. p \in Seq(BOOLEAN) /\ Len(p) = n /\ q \in Seq(BOOLEAN) /\ Len(q) = n + 1
  <2>1. p \in [1..n -> BOOLEAN] /\ q \in [1..(n + 1) -> BOOLEAN]
    BY <1>6, <1>7, <1>8
  <2>2. p \in Seq(BOOLEAN) /\ Len(p) = n
    BY <1>3, <2>1, IsSeq
  <2>3. n + 1 \in Nat
    BY <1>3
  <2>4. q \in Seq(BOOLEAN) /\ Len(q) = n + 1
    BY <2>1, <2>3, IsSeq
  <2>5. QED
    BY <2>2, <2>4
<1>10. PICK a : a = Append(p, whole)
  OBVIOUS
<1>11. a \in Seq(BOOLEAN) /\ Len(a) = n + 1 /\ (\A j \in 1..n : a[j] = p[j]) /\ a[n + 1] = whole
  BY <1>9, <1>10
<1>12. ASSUME NEW j \in 1..(n + 1) PROVE q[j] = a[j]
  <2>1. q[j] = s2[j].whole
    BY <1>4, <1>8 DEF Marks
  <2>2. CASE j \in 1..n
    <3>1. p[j] = snd[j].whole
      BY <1>4, <1>7, <2>2 DEF Marks
    <3>2. QED
      BY <1>3, <1>11, <2>1, <2>2, <3>1
  <2>3. CASE j \notin 1..n
    <3>1. j = n + 1
      BY <1>3, <2>3
    <3>2. QED
      BY <1>3, <1>11, <2>1, <3>1
  <2>4. QED
    BY <2>2, <2>3
<1>13. q = a
  BY <1>9, <1>11, <1>12, SeqEqual
<1>14. QED
  BY <1>7, <1>8, <1>10, <1>13

\* The next frame for a side, in the terms of FrameChannel.
LEMMA NextFrame ==
  ASSUME TransportType, NEW s \in Sides, received[s] < Len(sent[Other(s)])
  PROVE  /\ received[s] < Len(Marks(sent[Other(s)]))
         /\ Marks(sent[Other(s)])[received[s] + 1] = sent[Other(s)][received[s] + 1].whole
         /\ sent[Other(s)][received[s] + 1].whole \in BOOLEAN
<1>1. PICK snd, r : snd = sent[Other(s)] /\ r = received[s]
  OBVIOUS
<1>2. snd \in Seq(Sent) /\ r \in Nat /\ r < Len(snd)
  BY <1>1, Others DEF TransportType
<1>3. PICK n : n = Len(snd)
  OBVIOUS
<1>4. n \in Nat /\ DOMAIN snd = 1..n /\ r + 1 \in 1..n /\ r < n /\ snd[r + 1] \in Sent
  BY <1>2, <1>3
<1>5. DOMAIN Marks(snd) = 1..n /\ Marks(snd)[r + 1] = snd[r + 1].whole
  BY <1>4 DEF Marks
<1>6. Marks(snd) \in [1..n -> BOOLEAN]
  <2>1. ASSUME NEW j \in 1..n PROVE snd[j].whole \in BOOLEAN
    <3>1. snd[j] \in Sent
      BY <1>2, <1>3
    <3>2. QED
      BY <3>1 DEF Sent
  <2>2. QED
    BY <1>4, <2>1 DEF Marks
<1>7. Len(Marks(snd)) = n
  BY <1>4, <1>6, IsSeq
<1>8. snd[r + 1].whole \in BOOLEAN
  BY <1>4 DEF Sent
<1>9. QED
  BY <1>1, <1>4, <1>5, <1>7, <1>8

ChannelStep == [Channel!Next]_(Channel!channel_vars)

LEMMA ChannelStutters ==
  ASSUME UNCHANGED <<sent, received, junk, decrypt>>
  PROVE  ChannelStep
  BY DEF ChannelStep, Channel!channel_vars

\* Another connection: HangsUp and connect.
LEMMA ChannelReconnects ==
  ASSUME FreshTransport
  PROVE  ChannelStep
<1>1. /\ sent' = [s \in Sides |-> << >>] /\ received' = [s \in Sides |-> 0]
      /\ junk' = [s \in Sides |-> 0] /\ decrypt' = [s \in Sides |-> TRUE]
  BY DEF FreshTransport, Both
<1>2. [s \in Sides |-> [n \in DOMAIN sent'[s] |-> sent'[s][n].whole]] = [s \in Sides |-> << >>]
  BY <1>1
<1>3. [s \in Sides |-> junk'[s] > 0] = [s \in Sides |-> FALSE]
  <2>1. \A s \in Sides : junk'[s] = 0
    BY <1>1
  <2>2. [s \in Sides |-> junk'[s] > 0] = [s \in Sides |-> 0 > 0]
    BY <2>1, Zenon
  <2>3. (0 > 0) = FALSE
    OBVIOUS
  <2>4. QED
    BY <2>2, <2>3
<1>4. [s \in Sides |-> ~decrypt'[s]] = [s \in Sides |-> FALSE]
  BY <1>1
<1>5. QED
  BY <1>1, <1>2, <1>3, <1>4 DEF ChannelStep, Channel!Next, Channel!Reconnect

\* A frame is posted, whole or not: send.
LEMMA ChannelPosts ==
  ASSUME TransportType, NEW s \in Sides, NEW shape \in Shapes, NEW whole \in BOOLEAN, NEW n,
         SendStep(s, shape, whole, n)
  PROVE  ChannelStep
<1>1. sent \in [Sides -> Seq(Sent)] /\ sent[s] \in Seq(Sent)
  BY DEF TransportType
<1>2. PICK s2 : s2 = Append(sent[s], [shape |-> shape, whole |-> whole])
  OBVIOUS
<1>3. sent' = [sent EXCEPT ![s] = s2] /\ UNCHANGED <<received, junk, decrypt>>
  BY <1>2 DEF SendStep, Encrypted
<1>4. Marks(s2) = Append(Marks(sent[s]), whole)
  BY <1>1, <1>2, OneMoreMark
<1>5. [t \in Sides |-> Marks(sent'[t])]
        = [[t \in Sides |-> Marks(sent[t])] EXCEPT ![s] = Append(Marks(sent[s]), whole)]
  BY <1>1, <1>3, <1>4
<1>6. Channel!Post(s)
  BY <1>3, <1>5 DEF Channel!Post, Marks
<1>7. QED
  BY <1>6 DEF ChannelStep, Channel!Next

\* Bytes that are no frame.
LEMMA ChannelSpoils ==
  ASSUME TransportType, SendsJunk
  PROVE  ChannelStep
<1>1. /\ junk \in [Sides -> Nat] /\ "initiator" \in Sides
      /\ junk' = [junk EXCEPT !["initiator"] = junk["initiator"] + 1]
      /\ UNCHANGED <<sent, received, decrypt>>
  BY DEF TransportType, SendsJunk, Sides
<1>2. junk'["initiator"] > 0 /\ \A t \in Sides : t # "initiator" => junk'[t] = junk[t]
  BY <1>1
<1>3. [t \in Sides |-> junk'[t] > 0] = [[t \in Sides |-> junk[t] > 0] EXCEPT !["initiator"] = TRUE]
  BY <1>2
<1>4. Channel!Spoil("initiator")
  BY <1>1, <1>3 DEF Channel!Spoil
<1>5. QED
  BY <1>1, <1>4 DEF ChannelStep, Channel!Next

\* The next frame arrives, which went out whole.
LEMMA ChannelArrives ==
  ASSUME TransportType, NEW s \in Sides, UNCHANGED <<sent, junk, decrypt>>, decrypt[s],
         received' = [received EXCEPT ![s] = received[s] + 1],
         received[s] < Len(sent[Other(s)]), sent[Other(s)][received[s] + 1].whole
  PROVE  ChannelStep
<1>1. Other(s) \in Sides /\ Channel!Other(s) = Other(s)
  BY Others DEF Other, Channel!Other
<1>2. /\ received[s] < Len(Marks(sent[Other(s)]))
      /\ Marks(sent[Other(s)])[received[s] + 1] = TRUE
  BY NextFrame
<1>3. Channel!NextIs(s, TRUE)
  BY <1>1, <1>2 DEF Channel!NextIs, Marks
<1>4. Channel!Arrive(s)
  BY <1>3 DEF Channel!Arrive
<1>5. QED
  BY <1>4 DEF ChannelStep, Channel!Next

\* The stream breaks, if it had not: something was on it that is no frame, or the next frame
\* did not go out whole.
LEMMA ChannelBreaks ==
  ASSUME TransportType, NEW s \in Sides, UNCHANGED <<sent, junk, received>>,
         decrypt' = [decrypt EXCEPT ![s] = FALSE],
         decrypt[s] /\ junk[s] = 0 =>
           received[s] < Len(sent[Other(s)]) /\ ~sent[Other(s)][received[s] + 1].whole
  PROVE  ChannelStep
<1>1. decrypt \in [Sides -> BOOLEAN] /\ junk[s] \in Nat
  BY DEF TransportType
<1>2. CASE ~decrypt[s]
  <2>1. decrypt' = decrypt
    BY <1>1, <1>2
  <2>2. QED
    BY <2>1, ChannelStutters
<1>3. CASE decrypt[s]
  <2>1. [t \in Sides |-> ~decrypt'[t]] = [[t \in Sides |-> ~decrypt[t]] EXCEPT ![s] = TRUE]
    BY <1>1
  <2>2. Other(s) \in Sides /\ Channel!Other(s) = Other(s)
    BY Others DEF Other, Channel!Other
  <2>3. junk[s] > 0 \/ Channel!NextIs(s, FALSE)
    <3>1. junk[s] = 0 \/ junk[s] > 0
      BY <1>1
    <3>2. ASSUME junk[s] = 0 PROVE Channel!NextIs(s, FALSE)
      <4>1. received[s] < Len(sent[Other(s)]) /\ ~sent[Other(s)][received[s] + 1].whole
        BY <1>3, <3>2
      <4>2. /\ received[s] < Len(Marks(sent[Other(s)]))
            /\ Marks(sent[Other(s)])[received[s] + 1] = sent[Other(s)][received[s] + 1].whole
            /\ sent[Other(s)][received[s] + 1].whole \in BOOLEAN
        BY <4>1, NextFrame
      <4>3. sent[Other(s)][received[s] + 1].whole = FALSE
        BY <4>1, <4>2
      <4>4. QED
        BY <2>2, <4>2, <4>3 DEF Channel!NextIs, Marks
    <3>3. QED
      BY <3>1, <3>2
  <2>4. Channel!Break(s)
    BY <2>1, <2>3 DEF Channel!Break
  <2>5. QED
    BY <2>4 DEF ChannelStep, Channel!Next
<1>4. QED
  BY <1>2, <1>3

\* Every step keeps the invariant and is one of FrameChannel's or none.
LEMMA NoiseNext ==
  ASSUME AnswerInv, NoiseInv, [Next]_vars
  PROVE  NoiseInv' /\ ChannelStep
<1>1. TransportType
  BY DEF NoiseInv
<1>2. NoiseStep \/ UNCHANGED noise_vars
  BY StepsOfTheConnection
<1>3. CASE UNCHANGED noise_vars
  <2>1. UNCHANGED <<phase, wire, shut, decrypt, chunk, pending_len, pending, read_timeout, sent,
                    received, junk>>
    BY <1>3 DEF noise_vars
  <2>2. NoiseInv'
    BY <2>1 DEF NoiseInv, TransportType, Phases, Fresh, Flow, Flowing, Stream, Decoder, Arriving,
                Expected
  <2>3. QED
    BY <2>1, <2>2, ChannelStutters
<1>4. CASE HangsUp \/ HandshakeBegins
  <2>1. FreshTransport
    BY <1>4 DEF HangsUp, HandshakeBegins
  <2>2. QED
    BY <1>4, <2>1, AnewKeeps, ChannelReconnects
<1>5. CASE Accepts
  <2>1. UNCHANGED <<sent, received, junk, decrypt>>
    BY <1>5 DEF Accepts
  <2>2. QED
    BY <1>5, <2>1, AcceptsKeeps, ChannelStutters
<1>6. CASE HandshakeEnds \/ HandshakeFails
  <2>1. UNCHANGED <<sent, received, junk, decrypt>>
    BY <1>6 DEF HandshakeEnds, HandshakeFails
  <2>2. QED
    BY <1>6, <2>1, HandshakeKeeps, ChannelStutters
<1>7. CASE ShutsDown
  <2>1. UNCHANGED <<sent, received, junk, decrypt>>
    BY <1>7 DEF ShutsDown
  <2>2. QED
    BY <1>7, <2>1, ShutsDownKeepsFlow, ChannelStutters
<1>8. CASE phase["initiator"] = "open" /\ SendsJunk
  BY <1>1, <1>8, JunkKeeps, ChannelSpoils
<1>9. ASSUME phase["initiator"] = "open", NEW s \in Sides, Talks(s)
      PROVE  NoiseInv' /\ ChannelStep
  <2>1. ASSUME NEW shape \in Shapes,
               \/ Send(s, shape)
               \/ \E n \in 0..Len(Frame(s, shape)) : SendTorn(s, shape, n)
        PROVE  NoiseInv' /\ ChannelStep
    <3>1. PICK whole \in BOOLEAN, n \in 0..Len(Frame(s, shape)) : SendStep(s, shape, whole, n)
      BY <1>1, <2>1, SendSteps
    <3>2. QED
      BY <1>1, <1>9, <3>1, SendKeeps, ChannelPosts
  <2>2. CASE RecvBegins(s) \/ ReadTimesOut(s) \/ ReadEnds(s)
    <3>1. UNCHANGED <<sent, received, junk, decrypt>>
      BY <2>2 DEF RecvBegins, ReadTimesOut, ReadEnds
    <3>2. QED
      BY <1>9, <2>2, <3>1, IdleRecvKeeps, ChannelStutters
  <2>3. ASSUME NEW n \in 1..Len(wire[s]), ReadsPart(s, n)
        PROVE  NoiseInv' /\ ChannelStep
    <3>1. UNCHANGED <<sent, received, junk, decrypt>>
      BY <2>3 DEF ReadsPart, Read
    <3>2. QED
      BY <1>9, <2>3, <3>1, ReadsPartKeeps, ChannelStutters
  <2>4. ASSUME NEW n \in 1..Len(wire[s]), DecryptsChunk(s, n)
        PROVE  NoiseInv' /\ ChannelStep
    <3>1. UNCHANGED <<sent, received, junk, decrypt>>
      BY <2>4 DEF DecryptsChunk, ReadsChunk, Read
    <3>2. QED
      BY <1>9, <2>4, <3>1, DecryptsChunkKeeps, ChannelStutters
  <2>5. ASSUME NEW n \in 1..Len(wire[s]), DecryptsFrame(s, n)
        PROVE  NoiseInv' /\ ChannelStep
    BY <1>1, <1>9, <2>5, DecryptsFrameKeeps, ChannelArrives
  <2>6. ASSUME NEW n \in 1..Len(wire[s]), DecryptFails(s, n)
        PROVE  NoiseInv' /\ ChannelStep
    BY <1>1, <1>9, <2>6, DecryptFailsKeeps, ChannelBreaks
  <2>7. QED
    BY <1>9, <2>1, <2>2, <2>3, <2>4, <2>5, <2>6 DEF Talks, Recv
<1>10. QED
  BY <1>2, <1>3, <1>4, <1>5, <1>6, <1>7, <1>8, <1>9 DEF NoiseStep

LEMMA ChannelInit == Init => Channel!Init
<1>1. SUFFICES ASSUME NoiseInit PROVE Channel!Init
  BY DEF Init
<1>2. /\ sent = [s \in Sides |-> << >>] /\ received = [s \in Sides |-> 0]
      /\ junk = [s \in Sides |-> 0] /\ decrypt = [s \in Sides |-> TRUE]
  BY <1>1 DEF NoiseInit, Both
<1>3. [s \in Sides |-> [n \in DOMAIN sent[s] |-> sent[s][n].whole]] = [s \in Sides |-> << >>]
  BY <1>2
<1>4. [s \in Sides |-> junk[s] > 0] = [s \in Sides |-> FALSE]
  <2>1. \A s \in Sides : junk[s] = 0
    BY <1>2
  <2>2. [s \in Sides |-> junk[s] > 0] = [s \in Sides |-> 0 > 0]
    BY <2>1, Zenon
  <2>3. (0 > 0) = FALSE
    OBVIOUS
  <2>4. QED
    BY <2>2, <2>3
<1>5. [s \in Sides |-> ~decrypt[s]] = [s \in Sides |-> FALSE]
  BY <1>2
<1>6. QED
  BY <1>2, <1>3, <1>4, <1>5 DEF Channel!Init

\* The connection implements FrameChannel, for any frames and however many are sent: a frame
\* that went out whole is received whole, in its turn and once, however its bytes are cut up
\* and however often recv gives up between two of them (noise.rs:119-150); decryption fails
\* only after a torn write or bytes that are no frame, and nothing is received after it.
THEOREM TransportImplementsChannel == Spec => ChannelSpec
<1>1. Init => AnswerInv /\ NoiseInv /\ Channel!Init
  BY AnswerInvInit, NoiseInvInit, ChannelInit
<1>2. AnswerInv /\ NoiseInv /\ [Next]_vars =>
        AnswerInv' /\ NoiseInv' /\ [Channel!Next]_(Channel!channel_vars)
  BY AnswerInvNext, NoiseNext DEF ChannelStep
<1>3. QED
  BY <1>1, <1>2, PTL DEF Spec, ChannelSpec, Channel!Spec
=============================================================================
