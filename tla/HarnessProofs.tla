---------------------------- MODULE HarnessProofs ---------------------------
(***************************************************************************)
(* Whole executions of any program against any deployment (Harness): what  *)
(* the runner records, what its blocks guard, what becomes of each frame,  *)
(* and what a verdict is worth, for every program, every deployment and    *)
(* every number of frames.                                                 *)
(*                                                                         *)
(* The runner starts once the program is compiled, so the compiler's       *)
(* invariant (CompilerProofs) is about actions that stay as they are, and  *)
(* the runner's is in parts, each resting on the ones before it.  A step   *)
(* is first brought down to one of eight kinds, by what it leaves alone.   *)
(***************************************************************************)
EXTENDS Harness, CompilerProofs

-----------------------------------------------------------------------------
(* Types. *)

SetupStates == {"Unsent", "Pending", "Established", "Rejected", "Unexpected"}
Responses   == {"Success", "Error", "Unexpected", "Silence"}
Failures    == {"TransportClosed", "TransportError", "TimedOut"}

\* The frames a server sends, and those a state or an outcome may hold.
Served == (UNION {Answers(id) : id \in Nat}) \cup OtherFrames
Held   == Served \cup {R!NoFrame}

Outcome ==
  [tag : {"Completed"} \cup Failures, frame : Held]
  \cup [tag : {"Skipped"}, connection : Nat] \cup [tag : {"Skipped"}, session : Nat]

StateOK(s) ==
  /\ DOMAIN s = {"setup", "answer", "events"}
  /\ s.setup \in SetupStates /\ s.events \in Seq(Served)

PeerFields == {"inbox", "closed", "poisoned", "torn", "wire", "served"}

PeerOK(p) ==
  /\ DOMAIN p = PeerFields
  /\ p.inbox \in Seq(Served) /\ p.served \in Seq(Served) /\ p.wire \in Seq(Nat)

\* What a connection's place in the tables must be.
TablesOK ==
  /\ DOMAIN states = DOMAIN peers /\ DOMAIN states = DOMAIN connection_roles
  /\ DOMAIN states \subseteq Nat /\ IsFiniteSet(DOMAIN states)
  /\ undrained \in Seq(DOMAIN states)
  /\ \A c \in DOMAIN states : StateOK(states[c]) /\ PeerOK(peers[c])
  /\ \A s \in DOMAIN session_results :
       session_results[s].response \in Responses /\ session_results[s].place \in Nat

\* Where the runner is.
PlaceOK ==
  /\ next \in 1..(Len(actions) + 1)
  /\ outcomes \in Seq(Outcome) /\ Len(outcomes) = next - 1
  /\ mode \in {"step", "await", "probe", "done"}
  /\ mode \in {"await", "probe"} => next \in DOMAIN actions
  /\ mode = "await" =>
       /\ actions[next].name = "AwaitSetupResponse"
       /\ actions[next].connection \in DOMAIN states
       /\ states[actions[next].connection].setup = "Pending"
  /\ mode = "probe" => actions[next].name = "Probe"
  /\ mode = "done" => next = Len(actions) + 1

RunTypes == TablesOK /\ PlaceOK

-----------------------------------------------------------------------------
(* The kinds of steps. *)

\* The frames of the connections stay as they are.
PeersQuiet ==
  /\ DOMAIN peers' = DOMAIN peers
  /\ \A c \in DOMAIN peers :
       /\ PeerOK(peers[c]')
       /\ peers[c]'.inbox = peers[c].inbox /\ peers[c]'.served = peers[c].served
       /\ peers[c]'.poisoned = peers[c].poisoned

Records(o) == o \in Outcome /\ outcomes' = outcomes \o <<o>> /\ next' = next + 1

\* The current action gets its outcome and nothing else happens.
RecordKind(o) ==
  /\ next \in DOMAIN actions /\ Records(o) /\ mode' = "step"
  /\ actions[next].name = "AwaitSetupResponse" => o.tag = "Skipped"
  /\ actions[next].name = "EnterOnSetupSuccess" =>
       o.tag = "Completed" /\ R!Established(actions[next].session)
  /\ actions[next].name = "ExitBlock" => o.tag = "Completed"
  /\ UNCHANGED <<actions, session_results, connection_roles, unsolicited, states, undrained>>
  /\ PeersQuiet

\* The current block is skipped, up to the action last.
SkipKind(last) ==
  /\ next \in DOMAIN actions /\ actions[next].name = "EnterOnSetupSuccess" /\ mode' = "step"
  /\ last = IF actions[next].end < Len(actions) THEN actions[next].end ELSE Len(actions)
  /\ last \in next..Len(actions)
  /\ outcomes' \in Seq(Outcome) /\ Len(outcomes') = last /\ next' = last + 1
  /\ \A k \in 1..(next - 1) : outcomes'[k] = outcomes[k]
  /\ \A k \in next..last : outcomes'[k].tag = "Skipped"
  /\ UNCHANGED <<actions, session_results, connection_roles, unsolicited, states, undrained>>
  /\ PeersQuiet

\* Connection c is opened.
ConnectKind(c) ==
  /\ next \in DOMAIN actions /\ actions[next].name = "Connect" /\ actions[next].connection = c
  /\ Records(R!Completed(R!NoFrame)) /\ mode' = "step"
  /\ c \in Nat
  /\ states' = R!Insert(states, c, R!NewState) /\ peers' = R!Insert(peers, c, R!NewPeer)
  /\ connection_roles' = R!Insert(connection_roles, c, actions[next].role)
  /\ UNCHANGED <<actions, session_results, unsolicited, undrained>>

\* The frames taken are moved from the inbox of connection c to its trace; a frame that does not
\* decrypt may be taken after them, and nothing is once one has been.
Takes(c, taken) ==
  /\ c \in DOMAIN states /\ taken \in Seq(Served)
  /\ DOMAIN states' = DOMAIN states /\ DOMAIN peers' = DOMAIN peers
  /\ \A d \in DOMAIN states : d # c => states'[d] = states[d] /\ peers'[d] = peers[d]
  /\ StateOK(states'[c]) /\ PeerOK(peers'[c])
  /\ states'[c].events = states[c].events \o taken
  /\ peers'[c].served = peers[c].served
  /\ peers[c].poisoned => taken = << >> /\ peers'[c].poisoned
  /\ ~peers[c].poisoned /\ peers'[c].poisoned =>
       /\ Len(taken) < Len(peers[c].inbox) /\ peers[c].inbox[Len(taken) + 1].type = "Garbage"
       /\ \A k \in 1..Len(taken) : taken[k] = peers[c].inbox[k]
  /\ ~peers'[c].poisoned => taken \o peers'[c].inbox = peers[c].inbox

\* A frame that settles nothing is received.
PumpKind(c, frame) ==
  /\ mode = "await" /\ actions[next].connection = c
  /\ Takes(c, <<frame>>) /\ ~R!Decodes(frame)
  /\ UNCHANGED <<actions, next, mode, outcomes, undrained, session_results, connection_roles,
                 unsolicited>>

\* The await ends with outcome o: a frame that was taken, or a failure.
AwaitKind(c, o, taken) ==
  /\ mode = "await" /\ actions[next].connection = c /\ mode' = "step"
  /\ Records(o) /\ Takes(c, taken) /\ o.tag # "Skipped"
  /\ IF o.tag = "Completed" THEN taken = <<o.frame>> /\ R!Decodes(o.frame) ELSE taken = << >>
  /\ session_results' = R!Insert(session_results, actions[next].session,
       [connection |-> c, first |-> actions[next].first_on_connection,
        response |-> R!Response(o),
        place |-> IF o.tag = "Completed" THEN Len(states[c].events) + 1 ELSE 0,
        by |-> o.frame.answers])
  /\ UNCHANGED <<actions, undrained, connection_roles, unsolicited>>

\* A probe receives from connection c.
DrainKind(c, taken) ==
  /\ mode = "probe" /\ Takes(c, taken)
  /\ unsolicited' = unsolicited \cup
       {<<c, k>> : k \in (Len(states[c].events) + 1)..(Len(states[c].events) + Len(taken))}
  /\ UNCHANGED <<actions, next, mode, outcomes, session_results, connection_roles>>

\* The server sends a frame.
ServeKind(c, frame) ==
  /\ c \in DOMAIN peers /\ frame \in Served
  /\ peers' = [peers EXCEPT ![c].inbox = Append(@, frame), ![c].served = Append(@, frame)]
  /\ UNCHANGED <<actions, next, mode, outcomes, undrained, session_results, connection_roles,
                 unsolicited, states>>

\* No outcome, and the traces stay as they are.
QuietKind ==
  /\ UNCHANGED <<actions, next, outcomes, session_results, connection_roles, unsolicited>>
  /\ DOMAIN states' = DOMAIN states
  /\ \A c \in DOMAIN states : states[c]'.events = states[c].events
  /\ PeersQuiet

\* An action at hand.
LEMMA HandAction ==
  ASSUME CompileTypes, PlaceOK, next \in DOMAIN actions
  PROVE  /\ actions[next] \in CompiledAction /\ next \in Nat /\ next >= 1 /\ next <= Len(actions)
         /\ Len(actions) \in Nat /\ next + 1 \in 1..(Len(actions) + 1)
         /\ DOMAIN actions = 1..Len(actions) /\ Len(outcomes) = next - 1
<1>1. DOMAIN actions = 1..Len(actions) /\ Len(actions) \in Nat
  BY LenProperties DEF CompileTypes
<1>2. next \in 1..Len(actions)
  BY <1>1
<1>3. actions[next] \in CompiledAction
  BY <1>2, ElementOfSeq DEF CompileTypes
<1>4. Len(outcomes) = next - 1
  BY DEF PlaceOK
<1>5. QED
  BY <1>1, <1>2, <1>3, <1>4

\* The three kinds of outcome are outcomes: completed,
LEMMA CompletedTyped ==
  /\ \A f \in Held : R!Completed(f) \in Outcome
  /\ \A f : R!Completed(f).tag = "Completed" /\ R!Completed(f).frame = f
  /\ R!NoFrame \in Held
<1>1. ASSUME NEW f \in Held PROVE R!Completed(f) \in Outcome
  BY DEF R!Completed, Outcome
<1>2. QED
  BY <1>1 DEF R!Completed, Held

\* failed,
LEMMA FailedTyped ==
  ASSUME NEW tag \in Failures
  PROVE  R!Failed(tag) \in Outcome /\ R!Failed(tag).tag = tag /\ tag \notin {"Completed", "Skipped"}
  BY CompletedTyped DEF R!Failed, Outcome, Failures

\* and skipped.
LEMMA SkippedTyped ==
  ASSUME NEW n \in Nat
  PROVE  /\ R!NotOpen(n) \in Outcome /\ R!NotOpen(n).tag = "Skipped"
         /\ R!NotEstablished(n) \in Outcome /\ R!NotEstablished(n).tag = "Skipped"
  BY DEF R!NotOpen, R!NotEstablished, Outcome

\* R!Record, as a concatenation.
LEMMA RecordIs ==
  ASSUME PlaceOK, NEW o \in Outcome, R!Record(o)
  PROVE  Records(o) /\ outcomes' \in Seq(Outcome) /\ Len(outcomes') = Len(outcomes) + 1
<1>1. outcomes \in Seq(Outcome) /\ outcomes' = Append(outcomes, o) /\ next' = next + 1
  BY DEF PlaceOK, R!Record
<1>2. QED
  BY <1>1, AppendIsConcat, AppendProperties DEF Records

\* The steps that record an outcome and change no table.
LEMMA OnlyRecordedSteps ==
  ASSUME CompileTypes, RunTypes, UNCHANGED actions,
         \/ R!EnterBlock \/ R!ExitBlock \/ R!ConnectFails \/ R!SendNotOpen \/ R!SendFails
         \/ R!AdvanceTime \/ R!AwaitNotOpen
  PROVE  \E o \in Outcome : RecordKind(o)
<1>1. /\ next \in DOMAIN actions /\ mode = "step"
      /\ UNCHANGED <<mode, undrained, session_results, connection_roles, unsolicited, states, peers>>
  BY DEF R!EnterBlock, R!ExitBlock, R!ConnectFails, R!SendNotOpen, R!SendFails, R!AdvanceTime,
    R!AwaitNotOpen, R!OnlyRecorded, R!server_vars, R!Doing
<1>2. PeersQuiet
  BY <1>1 DEF PeersQuiet, RunTypes, TablesOK
<1>3. PlaceOK
  BY DEF RunTypes
<1> DEFINE Right(o) == /\ actions[next].name = "AwaitSetupResponse" => o.tag = "Skipped"
                       /\ actions[next].name = "EnterOnSetupSuccess" =>
                            o.tag = "Completed" /\ R!Established(actions[next].session)
                       /\ actions[next].name = "ExitBlock" => o.tag = "Completed"
<1>4. \E o \in Outcome : R!Record(o) /\ Right(o)
  <2>1. CASE R!EnterBlock
    <3>1. /\ actions[next].name = "EnterOnSetupSuccess" /\ R!Established(actions[next].session)
          /\ R!Record(R!Completed(R!NoFrame))
      BY <2>1 DEF R!EnterBlock, R!Doing, R!Current
    <3>2. QED
      BY <3>1, CompletedTyped
  <2>2. CASE R!ExitBlock
    <3>1. actions[next].name = "ExitBlock" /\ R!Record(R!Completed(R!NoFrame))
      BY <2>2 DEF R!ExitBlock, R!Doing, R!Current
    <3>2. QED
      BY <3>1, CompletedTyped
  <2>3. CASE R!ConnectFails
    <3>1. actions[next].name = "Connect" /\ R!Record(R!Failed("TransportError"))
      BY <2>3 DEF R!ConnectFails, R!Doing, R!Current
    <3>2. QED
      BY <3>1, FailedTyped DEF Failures
  <2>4. CASE R!SendNotOpen
    <3>1. actions[next].name = "Send" /\ R!Record(R!NotOpen(actions[next].connection))
      BY <2>4 DEF R!SendNotOpen, R!Doing, R!Current
    <3>2. actions[next].connection \in Nat
      BY <1>1, <1>3, <3>1, HandAction DEF CompiledAction
    <3>3. QED
      BY <3>1, <3>2, SkippedTyped
  <2>5. CASE R!SendFails
    <3>1. /\ actions[next].name = "Send"
          /\ \E failure \in {"TransportClosed", "TransportError"} : R!Record(R!Failed(failure))
      BY <2>5 DEF R!SendFails, R!Doing, R!Current
    <3>2. QED
      BY <3>1, FailedTyped DEF Failures
  <2>6. CASE R!AdvanceTime
    <3>1. actions[next].name = "AdvanceTime" /\ R!Record(R!Completed(R!NoFrame))
      BY <2>6 DEF R!AdvanceTime, R!Doing, R!Current
    <3>2. QED
      BY <3>1, CompletedTyped
  <2>7. CASE R!AwaitNotOpen
    <3>1. actions[next].name = "AwaitSetupResponse" /\ R!Record(R!NotOpen(actions[next].connection))
      BY <2>7 DEF R!AwaitNotOpen, R!Doing, R!Current
    <3>2. actions[next].connection \in Nat
      BY <1>1, <1>3, <3>1, HandAction DEF CompiledAction
    <3>3. QED
      BY <3>1, <3>2, SkippedTyped
  <2>8. QED
    BY <2>1, <2>2, <2>3, <2>4, <2>5, <2>6, <2>7
<1>5. PICK o \in Outcome : R!Record(o) /\ Right(o)
  BY <1>4
<1>6. Records(o)
  BY <1>3, <1>5, RecordIs
<1>7. RecordKind(o)
  BY <1>1, <1>2, <1>5, <1>6 DEF RecordKind
<1>8. QED
  BY <1>7

\* A peer that keeps its frames.
LEMMA PeerChanged ==
  ASSUME TablesOK, NEW c \in DOMAIN peers, NEW p,
         PeerOK(p), p.inbox = peers[c].inbox, p.served = peers[c].served,
         p.poisoned = peers[c].poisoned, peers' = [peers EXCEPT ![c] = p]
  PROVE  PeersQuiet
  BY DEF TablesOK, PeersQuiet

\* Sending, its timeout and the end of a probe record an outcome and bind nothing.
LEMMA SendSteps ==
  ASSUME CompileTypes, RunTypes, UNCHANGED actions, R!Send \/ R!SendTimesOut \/ R!ProbeEnds
  PROVE  \E o \in Outcome : RecordKind(o)
<1>1. TablesOK /\ PlaceOK
  BY DEF RunTypes
<1>2. CASE R!ProbeEnds
  <2>1. /\ next \in DOMAIN actions /\ actions[next].name = "Probe" /\ mode' = "step"
        /\ R!Record(R!Completed(R!NoFrame))
        /\ UNCHANGED <<undrained, session_results, connection_roles, unsolicited, states, peers>>
    BY <1>1, <1>2 DEF R!ProbeEnds, R!server_vars, PlaceOK
  <2>2. Records(R!Completed(R!NoFrame)) /\ R!Completed(R!NoFrame) \in Outcome
    BY <1>1, <2>1, CompletedTyped, RecordIs
  <2>3. PeersQuiet
    BY <1>1, <2>1 DEF PeersQuiet, TablesOK
  <2>4. RecordKind(R!Completed(R!NoFrame))
    BY <2>1, <2>2, <2>3 DEF RecordKind
  <2>5. QED
    BY <2>2, <2>4
<1>3. CASE R!Send
  <2> DEFINE c == actions[next].connection
             p == [peers[c] EXCEPT !.wire = Append(@, next)]
  <2>1. /\ next \in DOMAIN actions /\ actions[next].name = "Send" /\ mode = "step" /\ mode' = "step"
        /\ c \in DOMAIN peers
        /\ R!Record(R!Completed(R!NoFrame))
        /\ peers' = peers \/ peers' = [peers EXCEPT ![c].wire = Append(@, next)]
        /\ UNCHANGED <<undrained, session_results, connection_roles, unsolicited, states>>
    BY <1>1, <1>3 DEF R!Send, R!Doing, R!Current, R!Open, TablesOK
  <2>2. Records(R!Completed(R!NoFrame)) /\ R!Completed(R!NoFrame) \in Outcome
    BY <1>1, <2>1, CompletedTyped, RecordIs
  <2>3. PeersQuiet
    <3>1. CASE peers' = peers
      BY <1>1, <3>1 DEF PeersQuiet, TablesOK
    <3>2. CASE peers' = [peers EXCEPT ![c].wire = Append(@, next)]
      <4>1. next \in Nat
        BY <1>1, <2>1, HandAction
      <4>2. PeerOK(peers[c]) /\ Append(peers[c].wire, next) \in Seq(Nat)
        BY <1>1, <2>1, <4>1, AppendProperties DEF TablesOK, PeerOK
      <4>3. PeerOK(p) /\ p.inbox = peers[c].inbox /\ p.served = peers[c].served
            /\ p.poisoned = peers[c].poisoned
        BY <4>2 DEF PeerOK, PeerFields
      <4>4. peers' = [peers EXCEPT ![c] = p]
        BY <3>2
      <4>5. QED
        BY <1>1, <2>1, <4>3, <4>4, PeerChanged
    <3>3. QED
      BY <2>1, <3>1, <3>2
  <2>4. RecordKind(R!Completed(R!NoFrame))
    BY <2>1, <2>2, <2>3 DEF RecordKind
  <2>5. QED
    BY <2>2, <2>4
<1>4. CASE R!SendTimesOut
  <2> DEFINE c == actions[next].connection
             p == [peers[c] EXCEPT !.torn = TRUE]
  <2>1. /\ next \in DOMAIN actions /\ actions[next].name = "Send" /\ mode = "step" /\ mode' = "step"
        /\ c \in DOMAIN peers
        /\ R!Record(R!Failed("TransportError"))
        /\ peers' = [peers EXCEPT ![c].torn = TRUE]
        /\ UNCHANGED <<undrained, session_results, connection_roles, unsolicited, states>>
    BY <1>1, <1>4 DEF R!SendTimesOut, R!Doing, R!Current, R!Open, TablesOK
  <2>2. Records(R!Failed("TransportError")) /\ R!Failed("TransportError") \in Outcome
    BY <1>1, <2>1, FailedTyped, RecordIs DEF Failures
  <2>3. PeersQuiet
    <3>1. PeerOK(p) /\ p.inbox = peers[c].inbox /\ p.served = peers[c].served
          /\ p.poisoned = peers[c].poisoned
      BY <1>1, <2>1 DEF TablesOK, PeerOK, PeerFields
    <3>2. peers' = [peers EXCEPT ![c] = p]
      BY <2>1
    <3>3. QED
      BY <1>1, <2>1, <3>1, <3>2, PeerChanged
  <2>4. RecordKind(R!Failed("TransportError"))
    BY <2>1, <2>2, <2>3 DEF RecordKind
  <2>5. QED
    BY <2>2, <2>4
<1>5. QED
  BY <1>2, <1>3, <1>4

\* Recording an outcome keeps the types.
LEMMA RecordKeepsTypes ==
  ASSUME CompileTypes, RunTypes, NEW o \in Outcome, RecordKind(o)
  PROVE  RunTypes'
<1>1. /\ next \in DOMAIN actions /\ outcomes' = outcomes \o <<o>> /\ next' = next + 1
      /\ mode' = "step" /\ PeersQuiet
      /\ UNCHANGED <<actions, session_results, connection_roles, unsolicited, states, undrained>>
  BY DEF RecordKind, Records
<1>2. TablesOK'
  BY <1>1 DEF RunTypes, TablesOK, PeersQuiet
<1>3. outcomes' \in Seq(Outcome) /\ Len(outcomes') = Len(outcomes) + 1
  BY <1>1, Pushed DEF RunTypes, PlaceOK
<1>4. PlaceOK'
  <2>1. next + 1 \in 1..(Len(actions) + 1) /\ Len(outcomes) + 1 = (next + 1) - 1
    BY <1>1, HandAction DEF RunTypes
  <2>2. QED
    BY <1>1, <1>3, <2>1 DEF PlaceOK
<1>5. QED
  BY <1>2, <1>4 DEF RunTypes

\* The steps that record nothing and touch no trace.
LEMMA QuietSteps ==
  ASSUME CompileTypes, RunTypes, UNCHANGED actions,
         \/ R!AwaitBegin \/ R!ProbeBegin \/ R!RunEnds
         \/ (\E c \in DOMAIN peers : ServerCloses(c)) \/ ServerDies
  PROVE  RunTypes' /\ QuietKind
<1>1. TablesOK /\ PlaceOK
  BY DEF RunTypes
<1>2. CASE R!AwaitBegin
  <2> DEFINE c == actions[next].connection
             s == [states[c] EXCEPT !.setup = "Pending"]
  <2>1. /\ next \in DOMAIN actions /\ actions[next].name = "AwaitSetupResponse"
        /\ c \in DOMAIN states /\ states' = [states EXCEPT ![c].setup = "Pending"] /\ mode' = "await"
        /\ UNCHANGED <<next, undrained, outcomes, session_results, connection_roles, unsolicited,
                       peers>>
    BY <1>2 DEF R!AwaitBegin, R!Doing, R!Current, R!Open, R!execution, R!server_vars
  <2>2. states' = [states EXCEPT ![c] = s]
    BY <2>1
  <2>3. StateOK(s) /\ s.events = states[c].events /\ s.setup = "Pending"
    BY <1>1, <2>1 DEF TablesOK, StateOK, SetupStates
  <2> HIDE DEF s
  <2>4. /\ DOMAIN states' = DOMAIN states /\ states'[c] = s
        /\ \A d \in DOMAIN states : StateOK(states'[d]) /\ states'[d].events = states[d].events
    BY <1>1, <2>1, <2>2, <2>3 DEF TablesOK
  <2>5. PeersQuiet
    BY <1>1, <2>1 DEF PeersQuiet, TablesOK
  <2>6. TablesOK'
    BY <1>1, <2>1, <2>4 DEF TablesOK
  <2>7. PlaceOK'
    BY <1>1, <2>1, <2>3, <2>4 DEF PlaceOK
  <2>8. QED
    BY <2>1, <2>4, <2>5, <2>6, <2>7 DEF RunTypes, QuietKind
<1>3. CASE R!ProbeBegin
  <2>1. /\ next \in DOMAIN actions /\ actions[next].name = "Probe" /\ mode' = "probe"
        /\ undrained' \in R!SetToSeqs(DOMAIN states)
        /\ UNCHANGED <<next, outcomes, session_results, connection_roles, unsolicited, states, peers>>
    BY <1>3 DEF R!ProbeBegin, R!Doing, R!Current, R!Open, R!execution, R!server_vars
  <2>2. PeersQuiet
    BY <1>1, <2>1 DEF PeersQuiet, TablesOK
  <2>3. undrained' \in Seq(DOMAIN states)
    <3>1. undrained' \in [1..R!Cardinality(DOMAIN states) -> DOMAIN states]
      BY <2>1, Zenon DEF R!SetToSeqs
    <3>2. R!Cardinality(DOMAIN states) = Cardinality(DOMAIN states)
      BY Zenon DEF R!Cardinality, Cardinality
    <3>3. Cardinality(DOMAIN states) \in Nat
      BY <1>1, FS_CardinalityType DEF TablesOK
    <3>4. QED
      BY <3>1, <3>2, <3>3, SeqDef
  <2>4. TablesOK' /\ PlaceOK'
    BY <1>1, <2>1, <2>3 DEF TablesOK, PlaceOK
  <2>5. QED
    BY <2>1, <2>2, <2>4 DEF RunTypes, QuietKind
<1>4. CASE R!RunEnds
  <2>1. /\ next = Len(actions) + 1 /\ mode' = "done"
        /\ UNCHANGED <<next, undrained, outcomes, session_results, connection_roles, unsolicited,
                       states, peers>>
    BY <1>4 DEF R!RunEnds, R!execution, R!server_vars
  <2>2. PeersQuiet
    BY <1>1, <2>1 DEF PeersQuiet, TablesOK
  <2>3. TablesOK' /\ PlaceOK'
    BY <1>1, <2>1 DEF TablesOK, PlaceOK
  <2>4. QED
    BY <2>1, <2>2, <2>3 DEF RunTypes, QuietKind
<1>5. ASSUME PeersQuiet,
             UNCHANGED <<next, mode, undrained, outcomes, session_results, connection_roles,
                         unsolicited, states>>
      PROVE  RunTypes' /\ QuietKind
  <2>1. TablesOK' /\ PlaceOK'
    BY <1>1, <1>5 DEF TablesOK, PlaceOK, PeersQuiet
  <2>2. QED
    BY <1>5, <2>1 DEF RunTypes, QuietKind
<1>6. ASSUME NEW c \in DOMAIN peers, ServerCloses(c) PROVE RunTypes' /\ QuietKind
  <2> DEFINE p == [peers[c] EXCEPT !.closed = TRUE]
  <2>1. /\ UNCHANGED <<next, mode, undrained, outcomes, session_results, connection_roles,
                       unsolicited, states>>
        /\ peers' = [peers EXCEPT ![c] = p]
    BY <1>6 DEF ServerCloses, run_vars
  <2>2. PeerOK(p) /\ p.inbox = peers[c].inbox /\ p.served = peers[c].served
        /\ p.poisoned = peers[c].poisoned
    BY <1>1 DEF TablesOK, PeerOK, PeerFields
  <2>3. PeersQuiet
    BY <1>1, <2>1, <2>2, PeerChanged
  <2>4. QED
    BY <1>5, <2>1, <2>3
<1>7. CASE ServerDies
  <2>1. /\ UNCHANGED <<next, mode, undrained, outcomes, session_results, connection_roles,
                       unsolicited, states>>
        /\ peers' = [c \in DOMAIN peers |-> [peers[c] EXCEPT !.closed = TRUE]]
    BY <1>7 DEF ServerDies, run_vars
  <2>2. PeersQuiet
    BY <1>1, <2>1 DEF PeersQuiet, TablesOK, PeerOK, PeerFields
  <2>3. QED
    BY <1>5, <2>1, <2>2
<1>8. QED
  BY <1>2, <1>3, <1>4, <1>6, <1>7

\* A sequence of n times the same.
LEMMA RepeatTyped ==
  ASSUME NEW S, NEW n \in Nat, NEW x \in S
  PROVE  /\ [k \in 1..n |-> x] \in Seq(S) /\ Len([k \in 1..n |-> x]) = n
         /\ \A k \in 1..n : [j \in 1..n |-> x][k] = x
  BY IsASeq, LenProperties

\* A block that is not entered is skipped to its end (runner.rs:137-152).
LEMMA SkipStep ==
  ASSUME CompileInv, RunTypes, UNCHANGED actions, R!SkipBlock
  PROVE  RunTypes' /\ \E last \in Nat : SkipKind(last)
<1>1. TablesOK /\ PlaceOK /\ CompileTypes
  BY DEF RunTypes, CompileInv
<1> DEFINE end == actions[next].end
           n == Len(actions)
           last == IF end < n THEN end ELSE n
           skipped == R!Skipped(last)
           tail == [k \in 1..(last - next + 1) |-> R!NotEstablished(actions[next].session)]
<1>2. /\ next \in DOMAIN actions /\ actions[next].name = "EnterOnSetupSuccess"
      /\ mode = "step" /\ mode' = "step"
      /\ outcomes' = outcomes \o tail /\ next' = last + 1
      /\ UNCHANGED <<session_results, connection_roles, unsolicited, states, undrained, peers>>
  BY DEF R!SkipBlock, R!Doing, R!Current, R!OnlyRecorded, R!server_vars, R!Skipped
<1>3. /\ next \in Nat /\ next >= 1 /\ next <= n /\ n \in Nat /\ DOMAIN actions = 1..n
      /\ Len(outcomes) = next - 1 /\ actions[next] \in CompiledAction
  BY <1>1, <1>2, HandAction
<1>4. end \in Nat /\ actions[next].session \in Nat
  BY <1>2, <1>3 DEF CompiledAction
<1>5. next < end
  <2>1. n < MaxActionId
    <3>1. n <= 2 * (at - 1) /\ 2 * Len(program) < MaxActionId /\ at \in 1..(Len(program) + 1)
      BY <1>1 DEF CompileTypes
    <3>2. Len(program) \in Nat /\ MaxActionId \in Nat
      BY <1>1, LenProperties DEF CompileTypes, MaxActionId
    <3>3. QED
      BY <1>3, <3>1, <3>2
  <2>2. next \in EntersOf(actions)
    BY <1>2 DEF EntersOf
  <2>3. QED
    BY <1>1, <2>1, <2>2, EndBounds DEF CompileInv, CompileTypes
<1>6. last \in next..n /\ last \in Nat /\ last - next + 1 \in Nat
  BY <1>3, <1>4, <1>5
<1> HIDE DEF last, n
<1> DEFINE m == last - next + 1
<1>7. tail \in Seq(Outcome) /\ Len(tail) = m /\ \A k \in 1..m : tail[k].tag = "Skipped"
  <2>1. /\ R!NotEstablished(actions[next].session) \in Outcome
        /\ R!NotEstablished(actions[next].session).tag = "Skipped"
    BY <1>4, SkippedTyped
  <2> HIDE DEF m
  <2>2. m \in Nat /\ tail = [k \in 1..m |-> R!NotEstablished(actions[next].session)]
    BY <1>6 DEF m
  <2> DEFINE x == R!NotEstablished(actions[next].session)
  <2> HIDE DEF x
  <2>3. tail = [k \in 1..m |-> x] /\ x \in Outcome /\ x.tag = "Skipped"
    BY <2>1, <2>2 DEF x
  <2> HIDE DEF tail
  <2>4. QED
    BY <2>2, <2>3, RepeatTyped
<1> HIDE DEF tail, m
<1>8. m = last - next + 1 /\ m \in Nat
  BY <1>6 DEF m
<1>9. /\ outcomes' \in Seq(Outcome) /\ Len(outcomes') = (next - 1) + m
      /\ \A k \in 1..(next - 1) : outcomes'[k] = outcomes[k]
      /\ \A k \in 1..((next - 1) + m) : k > next - 1 => outcomes'[k] = tail[k - (next - 1)]
  <2>1. outcomes \in Seq(Outcome)
    BY <1>1 DEF PlaceOK
  <2>2. QED
    BY <1>2, <1>3, <1>7, <1>8, <2>1, ConcatProperties
<1>10. (next - 1) + m = last
  BY <1>3, <1>6, <1>8
<1>11. ASSUME NEW k \in next..last PROVE outcomes'[k].tag = "Skipped"
  <2>1. k \in 1..((next - 1) + m) /\ k > next - 1 /\ k - (next - 1) \in 1..m
    BY <1>3, <1>6, <1>8, <1>10
  <2>2. QED
    BY <1>7, <1>9, <2>1
<1>12. PeersQuiet
  BY <1>1, <1>2 DEF PeersQuiet, TablesOK
<1>13. SkipKind(last)
  BY <1>2, <1>6, <1>9, <1>10, <1>11, <1>12 DEF SkipKind, last, n
<1>14. TablesOK'
  BY <1>1, <1>2 DEF TablesOK
<1>15. PlaceOK'
  <2>1. last + 1 \in 1..(Len(actions) + 1) /\ last = (last + 1) - 1
    BY <1>3, <1>6 DEF n
  <2>2. QED
    BY <1>2, <1>9, <1>10, <2>1 DEF PlaceOK
<1>16. QED
  BY <1>6, <1>13, <1>14, <1>15 DEF RunTypes

\* A connection that opens has an empty trace and a fresh peer.
LEMMA ConnectStep ==
  ASSUME CompileTypes, RunTypes, UNCHANGED actions, R!Connect
  PROVE  RunTypes' /\ \E c \in Nat : ConnectKind(c)
<1>1. TablesOK /\ PlaceOK
  BY DEF RunTypes
<1> DEFINE c == actions[next].connection
<1>2. /\ next \in DOMAIN actions /\ actions[next].name = "Connect" /\ mode = "step" /\ mode' = "step"
      /\ R!Record(R!Completed(R!NoFrame))
      /\ states' = R!Insert(states, c, R!NewState) /\ peers' = R!Insert(peers, c, R!NewPeer)
      /\ connection_roles' = R!Insert(connection_roles, c, actions[next].role)
      /\ UNCHANGED <<undrained, session_results, unsolicited>>
  BY DEF R!Connect, R!Doing, R!Current, R!RolesWith
<1>3. c \in Nat
  BY <1>1, <1>2, HandAction DEF CompiledAction
<1>4. /\ Records(R!Completed(R!NoFrame)) /\ outcomes' \in Seq(Outcome)
      /\ Len(outcomes') = Len(outcomes) + 1
  BY <1>1, <1>2, CompletedTyped, RecordIs
<1>5. StateOK(R!NewState) /\ PeerOK(R!NewPeer)
  BY DEF StateOK, PeerOK, PeerFields, R!NewState, R!NewPeer, SetupStates
<1> HIDE DEF c
<1>6. TablesOK'
  <2>1. DOMAIN states' = DOMAIN states \cup {c}
    BY <1>2 DEF R!Insert
  <2>2. IsFiniteSet(DOMAIN states')
    BY <1>1, <2>1, FS_AddElement DEF TablesOK
  <2>3. undrained \in Seq(DOMAIN states')
    BY <1>1, <2>1, SeqMonotonic DEF TablesOK
  <2>4. QED
    BY <1>1, <1>2, <1>3, <1>5, <2>2, <2>3 DEF TablesOK, R!Insert
<1>7. PlaceOK'
  <2>1. next + 1 \in 1..(Len(actions) + 1) /\ Len(outcomes) + 1 = (next + 1) - 1
    BY <1>1, <1>2, HandAction
  <2>2. next' = next + 1
    BY <1>4 DEF Records
  <2>3. QED
    BY <1>2, <1>4, <2>1, <2>2 DEF PlaceOK
<1>8. ConnectKind(c)
  BY <1>2, <1>3, <1>4 DEF ConnectKind, c
<1>9. QED
  BY <1>3, <1>6, <1>7, <1>8 DEF RunTypes

-----------------------------------------------------------------------------
(* Receiving. *)

\* What dispatching a frame does to a state: the frame is kept, and settles a setup that is
\* pending if it decodes.
LEMMA DispatchedIs ==
  ASSUME NEW state, StateOK(state), NEW f \in Served
  PROVE  /\ StateOK(R!Dispatched(state, f))
         /\ R!Dispatched(state, f).events = state.events \o <<f>>
         /\ state.setup = "Pending" =>
              IF R!Decodes(f)
                THEN R!Dispatched(state, f).setup # "Pending" /\ R!Dispatched(state, f).answer = f
                ELSE R!Dispatched(state, f).setup = "Pending"
<1>1. R!Settled(f) \in SetupStates /\ R!Settled(f) # "Pending"
  BY DEF R!Settled, SetupStates
<1>2. state.events \in Seq(Served)
  BY DEF StateOK
<1>3. Append(state.events, f) \in Seq(Served) /\ Append(state.events, f) = state.events \o <<f>>
  BY <1>2, AppendProperties, AppendIsConcat
<1>4. QED
  BY <1>1, <1>3 DEF R!Dispatched, StateOK

\* Taking frames off one connection keeps the tables well typed.
LEMMA TakesKeepsTables ==
  ASSUME TablesOK, NEW c, NEW taken, Takes(c, taken), undrained' \in Seq(DOMAIN states),
         connection_roles' = connection_roles,
         \A s \in DOMAIN session_results' :
           session_results'[s].response \in Responses /\ session_results'[s].place \in Nat
  PROVE  TablesOK'
  BY DEF TablesOK, Takes

\* A sequence is its head and its tail.
LEMMA HeadTailSplit ==
  ASSUME NEW S, NEW s \in Seq(S), s # << >>
  PROVE  /\ Head(s) \in S /\ Tail(s) \in Seq(S) /\ <<Head(s)>> \o Tail(s) = s
         /\ Head(s) = s[1] /\ Len(s) \in Nat /\ Len(s) >= 1
<1>1. Len(s) \in Nat /\ Len(s) >= 1
  BY EmptySeq, LenProperties
<1> DEFINE n == Len(s)
           t == Tail(s)
           h == Head(s)
<1>2. /\ h \in S /\ h = s[1] /\ t \in Seq(S) /\ Len(t) = n - 1
      /\ \A k \in 1..(n - 1) : t[k] = s[k + 1]
  <2>1. h = s[1] /\ t \in Seq(S) /\ Len(t) = n - 1 /\ \A k \in 1..Len(t) : t[k] = s[k + 1]
    BY HeadTailProperties
  <2>2. h \in S
    BY <1>1, <2>1, ElementOfSeq
  <2>3. QED
    BY <2>1, <2>2
<1> HIDE DEF n, t, h
<1>3. /\ <<h>> \in Seq(S) /\ Len(<<h>>) = 1 /\ <<h>>[1] = h /\ n \in Nat /\ n >= 1
  BY <1>1, <1>2 DEF n
<1>4. /\ <<h>> \o t \in Seq(S) /\ Len(<<h>> \o t) = 1 + (n - 1)
      /\ \A k \in 1..(1 + (n - 1)) : (<<h>> \o t)[k] = IF k <= 1 THEN <<h>>[k] ELSE t[k - 1]
  BY <1>2, <1>3, ConcatProperties
<1>5. ASSUME NEW k \in 1..n PROVE (<<h>> \o t)[k] = s[k]
  <2>1. CASE k = 1
    BY <1>2, <1>3, <1>4, <2>1
  <2>2. CASE k # 1
    <3>1. k - 1 \in 1..(n - 1) /\ (k - 1) + 1 = k /\ k \in 1..(1 + (n - 1)) /\ ~(k <= 1)
      BY <1>3, <2>2
    <3>2. QED
      BY <1>2, <1>4, <3>1
  <2>3. QED
    BY <2>1, <2>2
<1>6. Len(<<h>> \o t) = n
  BY <1>3, <1>4
<1>7. <<h>> \o t = s
  BY <1>4, <1>5, <1>6, SeqEqual DEF n
<1>8. QED
  BY <1>1, <1>2, <1>7 DEF h, t

\* An await that ends, with the frames its last receive took.
LEMMA AwaitEndsKind ==
  ASSUME CompileTypes, RunTypes, NEW o \in Outcome, NEW taken, NEW place \in Nat,
         mode = "await", o.tag # "Skipped",
         Takes(actions[next].connection, taken), R!AwaitEnds(o, place),
         IF o.tag = "Completed"
           THEN /\ taken = <<o.frame>> /\ R!Decodes(o.frame)
                /\ place = Len(states[actions[next].connection].events) + 1
           ELSE taken = << >> /\ place = 0,
         UNCHANGED <<actions, undrained, connection_roles, unsolicited>>
  PROVE  RunTypes' /\ AwaitKind(actions[next].connection, o, taken)
<1> DEFINE c == actions[next].connection
           new == [connection |-> c, first |-> actions[next].first_on_connection,
                   response |-> R!Response(o), place |-> place, by |-> o.frame.answers]
<1>1. TablesOK /\ PlaceOK /\ next \in DOMAIN actions
  BY DEF RunTypes, PlaceOK
<1>2. /\ session_results' = R!Insert(session_results, actions[next].session, new)
      /\ R!Record(o) /\ mode' = "step"
  BY DEF R!AwaitEnds, R!Current
<1>3. Records(o) /\ outcomes' \in Seq(Outcome) /\ Len(outcomes') = Len(outcomes) + 1
  BY <1>1, <1>2, RecordIs
<1>4. new.response \in Responses /\ new.place \in Nat
  BY DEF R!Response, Responses
<1>5. TablesOK'
  <2> HIDE DEF new
  <2>1. \A s \in DOMAIN session_results' :
          session_results'[s].response \in Responses /\ session_results'[s].place \in Nat
    BY <1>1, <1>2, <1>4 DEF TablesOK, R!Insert
  <2>2. undrained' \in Seq(DOMAIN states)
    BY <1>1 DEF TablesOK
  <2>3. QED
    BY <1>1, <2>1, <2>2, TakesKeepsTables
<1>6. PlaceOK'
  <2>1. next + 1 \in 1..(Len(actions) + 1) /\ Len(outcomes) + 1 = (next + 1) - 1
    BY <1>1, HandAction
  <2>2. next' = next + 1
    BY <1>3 DEF Records
  <2>3. QED
    BY <1>2, <1>3, <2>1, <2>2 DEF PlaceOK
<1>7. place = IF o.tag = "Completed" THEN Len(states[c].events) + 1 ELSE 0
  OBVIOUS
<1>8. AwaitKind(c, o, taken)
  BY <1>2, <1>3, <1>7 DEF AwaitKind
<1>9. QED
  BY <1>5, <1>6, <1>8 DEF RunTypes

\* Nothing is taken.
LEMMA TakesNothing ==
  ASSUME TablesOK, NEW c \in DOMAIN states, UNCHANGED <<states, peers>>
  PROVE  Takes(c, << >>)
<1>1. StateOK(states[c]) /\ PeerOK(peers[c])
  BY DEF TablesOK
<1>2. states[c].events \o << >> = states[c].events /\ << >> \o peers[c].inbox = peers[c].inbox
  BY <1>1, ConcatEmptySeq DEF StateOK, PeerOK
<1>3. << >> \in Seq(Served)
  OBVIOUS
<1>4. QED
  BY <1>1, <1>2, <1>3 DEF Takes, TablesOK

\* A receive takes the first frame of the inbox,
LEMMA ReceivesTakes ==
  ASSUME TablesOK, NEW c \in DOMAIN states, R!Receives(c)
  PROVE  LET frame == Head(peers[c].inbox)
         IN /\ frame \in Served /\ Takes(c, <<frame>>)
            /\ states'[c] = R!Dispatched(states[c], frame)
<1> DEFINE frame == Head(peers[c].inbox)
           state == R!Dispatched(states[c], frame)
           p == [peers[c] EXCEPT !.inbox = Tail(@)]
<1>1. /\ c \in DOMAIN peers /\ DOMAIN peers = DOMAIN states
      /\ StateOK(states[c]) /\ PeerOK(peers[c])
  BY DEF TablesOK
<1>2. /\ peers[c].inbox # << >> /\ ~peers[c].poisoned
      /\ peers' = [peers EXCEPT ![c].inbox = Tail(@)]
      /\ states' = [states EXCEPT ![c] = state]
  BY DEF R!Receives, R!Readable, R!Decrypts
<1>3. /\ frame \in Served /\ Tail(peers[c].inbox) \in Seq(Served)
      /\ <<frame>> \o Tail(peers[c].inbox) = peers[c].inbox
  BY <1>1, <1>2, HeadTailSplit DEF PeerOK
<1>4. PeerOK(p) /\ p.served = peers[c].served /\ p.inbox = Tail(peers[c].inbox) /\ ~p.poisoned
  BY <1>1, <1>2, <1>3 DEF PeerOK, PeerFields
<1>5. peers' = [peers EXCEPT ![c] = p]
  BY <1>2
<1>6. StateOK(state) /\ state.events = states[c].events \o <<frame>>
  BY <1>1, <1>3, DispatchedIs
<1>7. <<frame>> \in Seq(Served) /\ Len(<<frame>>) = 1
  BY <1>3
<1> HIDE DEF state, p, frame
<1>8. /\ DOMAIN peers' = DOMAIN peers /\ peers'[c] = p
      /\ \A d \in DOMAIN peers : d # c => peers'[d] = peers[d]
      /\ DOMAIN states' = DOMAIN states /\ states'[c] = state
      /\ \A d \in DOMAIN states : d # c => states'[d] = states[d]
  BY <1>1, <1>2, <1>5
<1>9. Takes(c, <<frame>>)
  BY <1>1, <1>2, <1>3, <1>4, <1>6, <1>7, <1>8 DEF Takes
<1>10. QED
  BY <1>3, <1>8, <1>9 DEF state, frame

\* and one that fails to decrypt takes none.
LEMMA ReceiveFailsTakes ==
  ASSUME TablesOK, NEW c \in DOMAIN states, R!ReceiveFails(c)
  PROVE  Takes(c, << >>)
<1> DEFINE p == [peers[c] EXCEPT !.inbox = Tail(@), !.poisoned = TRUE]
<1>1. /\ peers[c].inbox # << >>
      /\ Head(peers[c].inbox).type = "Garbage" \/ peers[c].poisoned
      /\ peers' = [peers EXCEPT ![c].inbox = Tail(@), ![c].poisoned = TRUE]
      /\ states' = states
  BY DEF R!ReceiveFails, R!Readable, R!Decrypts
<1>2. /\ StateOK(states[c]) /\ PeerOK(peers[c])
      /\ c \in DOMAIN peers /\ DOMAIN peers = DOMAIN states
  BY DEF TablesOK
<1>3. Tail(peers[c].inbox) \in Seq(Served) /\ Head(peers[c].inbox) = peers[c].inbox[1]
      /\ Len(peers[c].inbox) \in Nat /\ Len(peers[c].inbox) >= 1
  BY <1>1, <1>2, HeadTailSplit DEF PeerOK
<1>4. PeerOK(p) /\ p.served = peers[c].served /\ p.poisoned
  BY <1>2, <1>3 DEF PeerOK, PeerFields
<1>5. peers' = [peers EXCEPT ![c] = p]
  BY <1>1
<1> HIDE DEF p
<1>6. states[c].events \o << >> = states[c].events
  BY <1>2, ConcatEmptySeq DEF StateOK
<1>7. << >> \in Seq(Served) /\ Len(<< >>) = 0
  OBVIOUS
<1>8. 0 < Len(peers[c].inbox) /\ 0 + 1 = 1 /\ \A k \in 1..0 : FALSE
  BY <1>3
<1>9. /\ DOMAIN peers' = DOMAIN peers /\ peers'[c] = p
      /\ \A d \in DOMAIN peers : d # c => peers'[d] = peers[d]
  BY <1>2, <1>5
<1>10. QED
  BY <1>1, <1>2, <1>3, <1>4, <1>6, <1>7, <1>8, <1>9 DEF Takes

\* An await that fails binds its session to the failure, with no frame taken.
LEMMA PumpFailSteps ==
  ASSUME CompileTypes, RunTypes, UNCHANGED actions, R!PumpTimesOut \/ R!PumpClosed \/ R!PumpPoisoned
  PROVE  RunTypes' /\ \E o \in Outcome : AwaitKind(actions[next].connection, o, << >>)
<1> DEFINE c == actions[next].connection
<1>1. TablesOK /\ PlaceOK
  BY DEF RunTypes
<1>2. mode = "await" /\ c \in DOMAIN states /\ UNCHANGED <<undrained, connection_roles, unsolicited>>
  BY <1>1 DEF PlaceOK, R!PumpTimesOut, R!PumpClosed, R!PumpPoisoned
<1>3. \E tag \in Failures : R!AwaitEnds(R!Failed(tag), 0)
  BY DEF R!PumpTimesOut, R!PumpClosed, R!PumpPoisoned, Failures
<1>4. PICK tag \in Failures : R!AwaitEnds(R!Failed(tag), 0)
  BY <1>3
<1>5. Takes(c, << >>)
  <2>1. CASE R!PumpTimesOut \/ R!PumpClosed
    <3>1. UNCHANGED <<states, peers>>
      BY <2>1 DEF R!PumpTimesOut, R!PumpClosed, R!server_vars
    <3>2. QED
      BY <1>1, <1>2, <3>1, TakesNothing
  <2>2. CASE R!PumpPoisoned
    <3>1. R!ReceiveFails(c)
      BY <2>2 DEF R!PumpPoisoned, R!Current
    <3>2. QED
      BY <1>1, <1>2, <3>1, ReceiveFailsTakes
  <2>3. QED
    BY <2>1, <2>2
<1>6. R!Failed(tag) \in Outcome /\ R!Failed(tag).tag \notin {"Completed", "Skipped"}
  BY FailedTyped
<1>7. RunTypes' /\ AwaitKind(c, R!Failed(tag), << >>)
  BY <1>2, <1>4, <1>5, <1>6, AwaitEndsKind
<1>8. QED
  BY <1>6, <1>7

\* An await that receives a frame ends with it or goes on without it.
LEMMA PumpReceivesStep ==
  ASSUME CompileTypes, RunTypes, UNCHANGED actions, R!PumpReceives
  PROVE  /\ RunTypes'
         /\ \/ \E frame \in Served : PumpKind(actions[next].connection, frame)
            \/ \E o \in Outcome : \E taken : AwaitKind(actions[next].connection, o, taken)
<1> DEFINE c == actions[next].connection
           frame == Head(peers[c].inbox)
           state == R!Dispatched(states[c], frame)
<1>1. TablesOK /\ PlaceOK
  BY DEF RunTypes
<1>2. /\ mode = "await" /\ c \in DOMAIN states /\ next \in DOMAIN actions
      /\ states[c].setup = "Pending" /\ StateOK(states[c])
      /\ actions[next].name = "AwaitSetupResponse"
  BY <1>1 DEF PlaceOK, TablesOK, R!PumpReceives
<1>3. /\ R!Receives(c)
      /\ state.setup = "Pending" => UNCHANGED <<next, mode, outcomes, session_results>>
      /\ state.setup # "Pending" => R!AwaitEnds(R!Completed(state.answer), Len(state.events))
      /\ UNCHANGED <<undrained, connection_roles, unsolicited>>
  BY DEF R!PumpReceives, R!Current
<1>4. frame \in Served /\ Takes(c, <<frame>>) /\ states'[c] = state
  BY <1>1, <1>2, <1>3, ReceivesTakes
<1> HIDE DEF frame
<1>5. StateOK(state) /\ state.events = states[c].events \o <<frame>>
  BY <1>2, <1>4, DispatchedIs
<1>6. IF R!Decodes(frame) THEN state.setup # "Pending" /\ state.answer = frame
                          ELSE state.setup = "Pending"
  BY <1>2, <1>4, DispatchedIs
<1>7. Len(state.events) = Len(states[c].events) + 1 /\ Len(states[c].events) \in Nat
  BY <1>2, <1>4, <1>5, Pushed DEF StateOK
<1>8. DOMAIN states' = DOMAIN states /\ undrained' \in Seq(DOMAIN states)
  BY <1>1, <1>3, <1>4 DEF Takes, TablesOK
<1> HIDE DEF state
<1>9. CASE R!Decodes(frame)
  <2> DEFINE o == R!Completed(frame)
             place == Len(states[c].events) + 1
  <2>1. o \in Outcome /\ o.tag = "Completed" /\ o.frame = frame
    BY <1>4, CompletedTyped DEF Held
  <2>2. R!AwaitEnds(o, place) /\ place \in Nat
    BY <1>3, <1>6, <1>7, <1>9
  <2>3. place = Len(states[c].events) + 1
    OBVIOUS
  <2> HIDE DEF o, place
  <2>4. RunTypes' /\ AwaitKind(c, o, <<frame>>)
    BY <1>2, <1>3, <1>4, <1>9, <2>1, <2>2, <2>3, AwaitEndsKind
  <2>5. QED
    BY <2>1, <2>4
<1>10. CASE ~R!Decodes(frame)
  <2>1. UNCHANGED <<next, mode, outcomes, session_results>> /\ state.setup = "Pending"
    BY <1>3, <1>6, <1>10
  <2>2. PumpKind(c, frame)
    BY <1>2, <1>3, <1>4, <1>10, <2>1 DEF PumpKind
  <2>3. TablesOK'
    BY <1>1, <1>3, <1>4, <1>8, <2>1, TakesKeepsTables DEF TablesOK
  <2>4. PlaceOK'
    BY <1>1, <1>2, <1>4, <1>8, <2>1 DEF PlaceOK
  <2>5. QED
    BY <1>4, <2>2, <2>3, <2>4 DEF RunTypes
<1>11. QED
  BY <1>9, <1>10

\* A frame a probe receives, and a receive of its that fails.
LEMMA ProbeSteps ==
  ASSUME CompileTypes, RunTypes, UNCHANGED actions, R!ProbeReceives \/ R!ProbeFails
  PROVE  RunTypes' /\ \E c \in DOMAIN states : \E taken : DrainKind(c, taken)
<1> DEFINE c == Head(undrained)
           had == Len(states[c].events)
<1>1. TablesOK /\ PlaceOK
  BY DEF RunTypes
<1>2. mode = "probe" /\ undrained # << >> /\ UNCHANGED <<next, mode, outcomes, session_results,
                                                         connection_roles>>
  BY DEF R!ProbeReceives, R!ProbeFails, R!execution
<1>3. c \in DOMAIN states /\ Tail(undrained) \in Seq(DOMAIN states)
  BY <1>1, <1>2, HeadTailProperties DEF TablesOK
<1>4. undrained' \in Seq(DOMAIN states)
  BY <1>1, <1>3 DEF TablesOK, R!ProbeReceives, R!ProbeFails
<1>5. had \in Nat
  BY <1>1, <1>3, LenProperties DEF TablesOK, StateOK
<1>6. PICK taken : /\ Takes(c, taken)
                   /\ unsolicited' = unsolicited \cup {<<c, k>> : k \in (had + 1)..(had + Len(taken))}
  <2>1. CASE R!ProbeReceives
    <3> DEFINE frame == Head(peers[c].inbox)
    <3>1. R!Receives(c) /\ unsolicited' = unsolicited \cup {<<c, had + 1>>}
      BY <2>1 DEF R!ProbeReceives, R!Drained, R!Collected
    <3>2. Takes(c, <<frame>>)
      BY <1>1, <1>3, <3>1, ReceivesTakes
    <3>3. Len(<<frame>>) = 1 /\ (had + 1)..(had + 1) = {had + 1}
      BY <1>5
    <3> HIDE DEF had, frame
    <3>4. {<<c, k>> : k \in (had + 1)..(had + 1)} = {<<c, had + 1>>}
      BY <3>3
    <3>5. QED
      BY <3>1, <3>2, <3>3, <3>4 DEF had
  <2>2. CASE R!ProbeFails
    <3>1. unsolicited' = unsolicited
      BY <2>2 DEF R!ProbeFails, R!execution
    <3>2. Takes(c, << >>)
      <4>1. R!ReceiveFails(c) \/ UNCHANGED <<peers, states>>
        BY <2>2 DEF R!ProbeFails, R!Drained
      <4>2. QED
        BY <1>1, <1>3, <4>1, ReceiveFailsTakes, TakesNothing
    <3>3. Len(<< >>) = 0 /\ (had + 1)..(had + 0) = {}
      BY <1>5
    <3> HIDE DEF had
    <3>4. {<<c, k>> : k \in (had + 1)..(had + Len(<< >>))} = {}
      BY <3>3
    <3>5. QED
      BY <3>1, <3>2, <3>4 DEF had
  <2>3. QED
    BY <2>1, <2>2
<1>7. DrainKind(c, taken)
  BY <1>2, <1>6 DEF DrainKind
<1>8. TablesOK'
  BY <1>1, <1>2, <1>4, <1>6, TakesKeepsTables DEF TablesOK
<1>9. PlaceOK'
  BY <1>1, <1>2 DEF PlaceOK
<1>10. QED
  BY <1>3, <1>7, <1>8, <1>9 DEF RunTypes

\* What the server sends.
LEMMA SendableServed ==
  ASSUME TablesOK, CompileTypes, NEW c \in DOMAIN peers
  PROVE  Sendable(c) \subseteq Served /\ \A id \in Asked(c) : id \in Nat
<1>1. \A id \in Asked(c) : id \in Nat
  <2>1. peers[c].wire \in Seq(Nat)
    BY DEF TablesOK, PeerOK
  <2>2. \A k \in DOMAIN peers[c].wire : peers[c].wire[k] \in Nat
    BY <2>1, ElementOfSeq, LenProperties
  <2>3. QED
    BY <2>2 DEF Asked, Range
<1>2. QED
  BY <1>1 DEF Sendable, Served

\* A frame served waits in the inbox of its connection.
LEMMA ServeStep ==
  ASSUME RunTypes, UNCHANGED actions, NEW c \in DOMAIN peers, NEW frame \in Served,
         ServerSends(c, frame)
  PROVE  RunTypes' /\ ServeKind(c, frame)
<1> DEFINE p == [peers[c] EXCEPT !.inbox = Append(@, frame), !.served = Append(@, frame)]
<1>1. TablesOK /\ PlaceOK
  BY DEF RunTypes
<1>2. /\ peers' = [peers EXCEPT ![c].inbox = Append(@, frame), ![c].served = Append(@, frame)]
      /\ UNCHANGED <<next, mode, outcomes, undrained, session_results, connection_roles,
                     unsolicited, states>>
  BY DEF ServerSends, run_vars
<1>3. PeerOK(peers[c])
  BY <1>1 DEF TablesOK
<1>4. Append(peers[c].inbox, frame) \in Seq(Served) /\ Append(peers[c].served, frame) \in Seq(Served)
  BY <1>3, AppendProperties DEF PeerOK
<1>5. PeerOK(p)
  BY <1>3, <1>4 DEF PeerOK, PeerFields
<1>6. peers' = [peers EXCEPT ![c] = p]
  BY <1>2, <1>3 DEF PeerOK, PeerFields
<1> HIDE DEF p
<1>7. TablesOK'
  BY <1>1, <1>2, <1>5, <1>6 DEF TablesOK
<1>8. PlaceOK'
  BY <1>1, <1>2 DEF PlaceOK
<1>9. QED
  BY <1>2, <1>7, <1>8 DEF RunTypes, ServeKind

\* The frames a conforming server sends are frames a server sends.
LEMMA AnswerServed ==
  ASSUME TablesOK, CompileTypes, NEW c \in DOMAIN peers, NEW id \in Owes(c), NEW config, NEW spec,
         NEW f \in Permitted(config, spec)
  PROVE  Answer(f[1], IF f[1] = "Error" THEN NoSuccess ELSE f[2], id) \in Served
<1>1. id \in Asked(c)
  BY DEF Owes, Unanswered
<1>2. id \in Nat
  BY <1>1, SendableServed
<1>3. f[1] \in {"Error", "Success"} /\ f[2] \in Successes
  BY DEF Permitted
<1>4. Answer(f[1], IF f[1] = "Error" THEN NoSuccess ELSE f[2], id) \in Answers(id)
  BY <1>3 DEF Answers
<1>5. QED
  BY <1>2, <1>4 DEF Served

-----------------------------------------------------------------------------
(* Every step of a run is of one of the kinds. *)

RunKind ==
  \/ \E o \in Outcome : RecordKind(o)
  \/ \E last \in Nat : SkipKind(last)
  \/ \E c \in Nat : ConnectKind(c)
  \/ \E frame \in Served : PumpKind(actions[next].connection, frame)
  \/ \E o \in Outcome : \E taken : AwaitKind(actions[next].connection, o, taken)
  \/ \E c \in DOMAIN states : \E taken : DrainKind(c, taken)
  \/ \E c \in DOMAIN peers, frame \in Served : ServeKind(c, frame)
  \/ QuietKind

\* A step of the runner or of the server.
RunStep == \/ R!RunnerNext \/ R!PumpTimesOut \/ R!SendTimesOut
           \/ ServerNext \/ ConformingServerNext

\* Every step of the runner and of the server is of one of the kinds.
LEMMA RunStepKind ==
  ASSUME CompileInv, RunTypes, UNCHANGED actions, RunStep
  PROVE  RunTypes' /\ RunKind
<1>1. CompileTypes /\ TablesOK
  BY DEF CompileInv, RunTypes
<1>2. CASE \/ R!EnterBlock \/ R!ExitBlock \/ R!ConnectFails \/ R!SendNotOpen \/ R!SendFails
           \/ R!AdvanceTime \/ R!AwaitNotOpen
  BY <1>1, <1>2, OnlyRecordedSteps, RecordKeepsTypes DEF RunKind
<1>3. CASE R!Send \/ R!SendTimesOut \/ R!ProbeEnds
  BY <1>1, <1>3, SendSteps, RecordKeepsTypes DEF RunKind
<1>4. CASE R!SkipBlock
  BY <1>4, SkipStep DEF RunKind
<1>5. CASE R!Connect
  BY <1>1, <1>5, ConnectStep DEF RunKind
<1>6. CASE R!PumpTimesOut \/ R!PumpClosed \/ R!PumpPoisoned
  BY <1>1, <1>6, PumpFailSteps DEF RunKind
<1>7. CASE R!PumpReceives
  BY <1>1, <1>7, PumpReceivesStep DEF RunKind
<1>8. CASE R!ProbeReceives \/ R!ProbeFails
  BY <1>1, <1>8, ProbeSteps DEF RunKind
<1>9. CASE \/ R!AwaitBegin \/ R!ProbeBegin \/ R!RunEnds
           \/ (\E c \in DOMAIN peers : ServerCloses(c)) \/ ServerDies
  BY <1>1, <1>9, QuietSteps DEF RunKind
<1>10. ASSUME NEW c \in DOMAIN peers, NEW frame \in Sendable(c), ServerSends(c, frame)
       PROVE  RunTypes' /\ RunKind
  BY <1>1, <1>10, SendableServed, ServeStep DEF RunKind
<1>11. CASE ServerAnswers
  <2>1. PICK c \in DOMAIN peers : \E id \in Owes(c) :
          \E f \in Permitted(roles[connection_roles[c] + 1], actions[id].payload) :
            ServerSends(c, Answer(f[1], IF f[1] = "Error" THEN NoSuccess ELSE f[2], id))
    BY <1>11 DEF ServerAnswers
  <2>2. PICK id \in Owes(c) :
          \E f \in Permitted(roles[connection_roles[c] + 1], actions[id].payload) :
            ServerSends(c, Answer(f[1], IF f[1] = "Error" THEN NoSuccess ELSE f[2], id))
    BY <2>1
  <2>3. PICK f \in Permitted(roles[connection_roles[c] + 1], actions[id].payload) :
          ServerSends(c, Answer(f[1], IF f[1] = "Error" THEN NoSuccess ELSE f[2], id))
    BY <2>2
  <2> DEFINE frame == Answer(f[1], IF f[1] = "Error" THEN NoSuccess ELSE f[2], id)
  <2>4. frame \in Served /\ ServerSends(c, frame)
    BY <1>1, <2>3, AnswerServed
  <2> HIDE DEF frame
  <2>5. QED
    BY <2>4, ServeStep DEF RunKind
<1>12. CASE R!RunnerNext
  BY <1>2, <1>3, <1>4, <1>5, <1>6, <1>7, <1>8, <1>9, <1>12 DEF R!RunnerNext
<1>13. CASE ServerNext
  BY <1>9, <1>10, <1>13 DEF ServerNext
<1>14. CASE ConformingServerNext
  BY <1>9, <1>10, <1>11, <1>14 DEF ConformingServerNext
<1>15. QED
  BY <1>3, <1>6, <1>12, <1>13, <1>14 DEF RunStep

-----------------------------------------------------------------------------
(* Outcomes and sessions. *)

\* A session was bound by an await that was attempted, with what the await says and found.
SessionsBound ==
  \A s \in DOMAIN session_results : \E id \in DOMAIN outcomes :
    /\ actions[id].name = "AwaitSetupResponse" /\ actions[id].session = s
    /\ outcomes[id].tag # "Skipped"
    /\ session_results[s].connection = actions[id].connection
    /\ session_results[s].first = actions[id].first_on_connection
    /\ session_results[s].response = R!Response(outcomes[id])

\* An await that was attempted was so on an open connection, and has bound its session; the
\* frame it completed with is in the connection's trace.
AwaitsBound ==
  \A id \in DOMAIN outcomes :
    actions[id].name = "AwaitSetupResponse" /\ outcomes[id].tag # "Skipped" =>
      /\ actions[id].session \in DOMAIN session_results
      /\ actions[id].connection \in DOMAIN states
      /\ outcomes[id].tag = "Completed" =>
           \E k \in DOMAIN states[actions[id].connection].events :
             states[actions[id].connection].events[k] = outcomes[id].frame

\* The place of an answer that is a success is that of a success in the connection's trace.
PlacesBound ==
  \A s \in DOMAIN session_results : session_results[s].response = "Success" =>
    LET c == session_results[s].connection
    IN /\ c \in DOMAIN states /\ session_results[s].place \in DOMAIN states[c].events
       /\ states[c].events[session_results[s].place].type = "Success"

\* A connection was opened by a connect that is done.
OpenedBy ==
  \A c \in DOMAIN states : \E k \in DOMAIN outcomes :
    actions[k].name = "Connect" /\ actions[k].connection = c

Bound == SessionsBound /\ AwaitsBound /\ PlacesBound /\ OpenedBy

\* Outcomes, and the traces of the connections, are only added to.
OutcomesGrow ==
  \A k \in DOMAIN outcomes : k \in DOMAIN outcomes' /\ outcomes'[k] = outcomes[k]

TracesGrow ==
  \A c \in DOMAIN states : c \in DOMAIN states' /\
    \A k \in DOMAIN states[c].events :
      k \in DOMAIN states'[c].events /\ states'[c].events[k] = states[c].events[k]

\* There is an outcome for each action before the one to be run.
LEMMA OutcomesAre ==
  ASSUME PlaceOK
  PROVE  next \in Nat /\ next >= 1 /\ DOMAIN outcomes = 1..(next - 1) /\ outcomes \in Seq(Outcome)
  BY LenProperties DEF PlaceOK

\* What recording one outcome makes of the outcomes.
LEMMA RecordsAdd ==
  ASSUME PlaceOK, NEW o, Records(o)
  PROVE  /\ next \in Nat /\ next >= 1
         /\ DOMAIN outcomes = 1..(next - 1) /\ DOMAIN outcomes' = 1..next
         /\ \A k \in 1..(next - 1) : outcomes'[k] = outcomes[k]
         /\ outcomes'[next] = o
         /\ OutcomesGrow /\ \A k \in DOMAIN outcomes' : k \in DOMAIN outcomes \/ k = next
<1>1. /\ outcomes \in Seq(Outcome) /\ Len(outcomes) = next - 1 /\ next \in Nat /\ next >= 1
      /\ o \in Outcome /\ outcomes' = outcomes \o <<o>>
  BY OutcomesAre DEF PlaceOK, Records
<1> DEFINE new == outcomes \o <<o>>
           n == Len(outcomes)
<1>2. /\ DOMAIN outcomes = 1..n /\ n \in Nat /\ DOMAIN new = 1..(n + 1)
      /\ \A k \in 1..n : new[k] = outcomes[k]
      /\ new[n + 1] = o
  BY <1>1, Pushed
<1>3. outcomes' = new /\ n = next - 1
  BY <1>1
<1> HIDE DEF new, n
<1>4. /\ DOMAIN outcomes = 1..(next - 1) /\ DOMAIN outcomes' = 1..next
      /\ \A k \in 1..(next - 1) : outcomes'[k] = outcomes[k]
      /\ outcomes'[next] = o
  <2>1. n + 1 = next
    BY <1>1, <1>3
  <2>2. QED
    BY <1>2, <1>3, <2>1
<1>5. next \in Nat /\ next >= 1
  BY <1>1
<1>6. \A k \in 1..next : k \in 1..(next - 1) \/ k = next
  BY <1>5
<1>7. \A k \in 1..(next - 1) : k \in 1..next
  BY <1>5
<1>8. QED
  BY <1>1, <1>4, <1>6, <1>7 DEF OutcomesGrow

\* A trace with frames added.
LEMMA TraceAdded ==
  ASSUME NEW s \in Seq(Served), NEW t \in Seq(Served)
  PROVE  /\ s \o t \in Seq(Served) /\ Len(s) \in Nat /\ Len(t) \in Nat
         /\ DOMAIN s = 1..Len(s) /\ DOMAIN t = 1..Len(t)
         /\ Len(s \o t) = Len(s) + Len(t) /\ DOMAIN (s \o t) = 1..(Len(s) + Len(t))
         /\ \A k \in DOMAIN s : k \in DOMAIN (s \o t) /\ (s \o t)[k] = s[k]
         /\ \A k \in DOMAIN (s \o t) : k \in DOMAIN s \/ (k - Len(s) \in DOMAIN t
                                                          /\ (s \o t)[k] = t[k - Len(s)])
<1>1. /\ s \o t \in Seq(Served) /\ Len(s \o t) = Len(s) + Len(t)
      /\ \A k \in 1..Len(s) + Len(t) : (s \o t)[k] = IF k <= Len(s) THEN s[k] ELSE t[k - Len(s)]
  BY ConcatProperties
<1>2. Len(s) \in Nat /\ Len(t) \in Nat /\ DOMAIN s = 1..Len(s) /\ DOMAIN t = 1..Len(t)
      /\ DOMAIN (s \o t) = 1..(Len(s) + Len(t))
  BY <1>1, LenProperties
<1> DEFINE m == Len(s)
           n == Len(t)
           new == s \o t
<1> HIDE DEF m, n, new
<1>3. \A k \in 1..m : k \in 1..(m + n) /\ new[k] = s[k]
  BY <1>1, <1>2 DEF m, n, new
<1>4. \A k \in 1..(m + n) : k \in 1..m \/ (k - m \in 1..n /\ new[k] = t[k - m])
  BY <1>1, <1>2 DEF m, n, new
<1>5. QED
  BY <1>1, <1>2, <1>3, <1>4 DEF m, n, new

\* Taking frames adds to the trace of one connection.
LEMMA TakesGrows ==
  ASSUME TablesOK, NEW c, NEW taken, Takes(c, taken)
  PROVE  TracesGrow
<1>1. /\ c \in DOMAIN states /\ taken \in Seq(Served) /\ DOMAIN states' = DOMAIN states
      /\ \A d \in DOMAIN states : d # c => states'[d] = states[d]
      /\ states'[c].events = states[c].events \o taken
  BY DEF Takes
<1>2. states[c].events \in Seq(Served)
  BY <1>1 DEF TablesOK, StateOK
<1>3. \A k \in DOMAIN states[c].events :
        k \in DOMAIN states'[c].events /\ states'[c].events[k] = states[c].events[k]
  BY <1>1, <1>2, TraceAdded
<1>4. QED
  BY <1>1, <1>3 DEF TracesGrow

\* A connection is opened once, so it is not open yet when it is.
LEMMA ConnectIsFresh ==
  ASSUME CompileInv, RunTypes, OpenedBy, NEW c, ConnectKind(c)
  PROVE  c \notin DOMAIN states
<1>1. SUFFICES ASSUME c \in DOMAIN states PROVE FALSE
  OBVIOUS
<1>2. PICK k \in DOMAIN outcomes : actions[k].name = "Connect" /\ actions[k].connection = c
  BY <1>1 DEF OpenedBy
<1>3. /\ next \in DOMAIN actions /\ actions[next].name = "Connect"
      /\ actions[next].connection = c
  BY DEF ConnectKind
<1>4. PlaceOK /\ CompileTypes /\ ConnectsOnce(actions, connections)
  BY DEF RunTypes, CompileInv
<1>5. k \in 1..(next - 1) /\ next \in Nat /\ DOMAIN actions = 1..Len(actions) /\ next <= Len(actions)
      /\ Len(actions) \in Nat
  BY <1>3, <1>4, OutcomesAre, HandAction
<1>6. k \in DOMAIN actions /\ k # next
  BY <1>5
<1>7. QED
  BY <1>2, <1>3, <1>4, <1>6 DEF ConnectsOnce

\* A connection opened is a new one, so no trace is replaced.
LEMMA ConnectGrows ==
  ASSUME CompileInv, RunTypes, OpenedBy, NEW c, ConnectKind(c)
  PROVE  TracesGrow /\ DOMAIN states' = DOMAIN states \cup {c}
<1>1. c \notin DOMAIN states
  BY ConnectIsFresh
<1>2. states' = R!Insert(states, c, R!NewState)
  BY DEF ConnectKind
<1>3. \A d \in DOMAIN states : d \in DOMAIN states' /\ states'[d] = states[d]
  BY <1>1, <1>2 DEF R!Insert
<1>4. QED
  BY <1>2, <1>3 DEF TracesGrow, R!Insert

\* A step that ends no await.
EndsNoAwait ==
  /\ UNCHANGED <<actions, session_results>>
  /\ OutcomesGrow /\ TracesGrow
  /\ \A k \in DOMAIN outcomes' : k \in DOMAIN outcomes \/
       (actions[k].name = "AwaitSetupResponse" => outcomes'[k].tag = "Skipped")
  /\ \A c \in DOMAIN states' : c \in DOMAIN states \/
       (next \in DOMAIN outcomes' /\ actions[next].name = "Connect" /\ actions[next].connection = c)

\* A step ends an await and binds its session, or it binds nothing.
LEMMA StepsEndingNoAwait ==
  ASSUME CompileInv, RunTypes, OpenedBy, RunKind
  PROVE  EndsNoAwait \/ \E o \in Outcome : \E taken : AwaitKind(actions[next].connection, o, taken)
<1>1. TablesOK /\ PlaceOK
  BY DEF RunTypes
<1>2. ASSUME NEW o \in Outcome, RecordKind(o) PROVE EndsNoAwait
  <2>1. Records(o) /\ UNCHANGED <<actions, session_results, states>>
        /\ (actions[next].name = "AwaitSetupResponse" => o.tag = "Skipped")
    BY <1>2 DEF RecordKind
  <2>2. OutcomesGrow /\ \A k \in DOMAIN outcomes' : k \in DOMAIN outcomes \/ k = next
    BY <1>1, <2>1, RecordsAdd
  <2>3. outcomes'[next] = o
    BY <1>1, <2>1, RecordsAdd
  <2>4. TracesGrow
    BY <2>1 DEF TracesGrow
  <2>5. QED
    BY <2>1, <2>2, <2>3, <2>4 DEF EndsNoAwait
<1>3. ASSUME NEW last \in Nat, SkipKind(last) PROVE EndsNoAwait
  <2>1. /\ UNCHANGED <<actions, session_results, states>>
        /\ outcomes' \in Seq(Outcome) /\ Len(outcomes') = last /\ last \in next..Len(actions)
        /\ \A k \in 1..(next - 1) : outcomes'[k] = outcomes[k]
        /\ \A k \in next..last : outcomes'[k].tag = "Skipped"
    BY <1>3 DEF SkipKind
  <2>2. next \in Nat /\ next >= 1 /\ DOMAIN outcomes = 1..(next - 1) /\ DOMAIN outcomes' = 1..last
    BY <1>1, <2>1, OutcomesAre, LenProperties
  <2>3. \A k \in 1..last : k \in 1..(next - 1) \/ k \in next..last
    BY <2>2
  <2>4. \A k \in 1..(next - 1) : k \in 1..last
    BY <2>1, <2>2
  <2>5. OutcomesGrow
    BY <2>1, <2>2, <2>4 DEF OutcomesGrow
  <2>6. TracesGrow
    BY <2>1 DEF TracesGrow
  <2>7. QED
    BY <2>1, <2>2, <2>3, <2>5, <2>6 DEF EndsNoAwait
<1>4. ASSUME NEW c \in Nat, ConnectKind(c) PROVE EndsNoAwait
  <2>1. /\ Records(R!Completed(R!NoFrame)) /\ UNCHANGED <<actions, session_results>>
        /\ actions[next].name = "Connect" /\ actions[next].connection = c
    BY <1>4 DEF ConnectKind
  <2>2. /\ OutcomesGrow /\ \A k \in DOMAIN outcomes' : k \in DOMAIN outcomes \/ k = next
        /\ DOMAIN outcomes' = 1..next /\ next \in Nat /\ next >= 1
    BY <1>1, <2>1, RecordsAdd
  <2>3. next \in DOMAIN outcomes'
    BY <2>2
  <2>4. TracesGrow /\ DOMAIN states' = DOMAIN states \cup {c}
    BY <1>4, ConnectGrows
  <2>5. QED
    BY <2>1, <2>2, <2>3, <2>4 DEF EndsNoAwait
<1>5. ASSUME UNCHANGED <<actions, session_results, outcomes>>, TracesGrow, DOMAIN states' = DOMAIN states
      PROVE  EndsNoAwait
  BY <1>5 DEF EndsNoAwait, OutcomesGrow
<1>6. ASSUME NEW c, NEW taken, Takes(c, taken), UNCHANGED <<actions, session_results, outcomes>>
      PROVE  EndsNoAwait
  BY <1>1, <1>5, <1>6, TakesGrows DEF Takes
<1>7. ASSUME NEW c \in DOMAIN peers, NEW frame \in Served, ServeKind(c, frame) PROVE EndsNoAwait
  BY <1>5, <1>7 DEF ServeKind, TracesGrow
<1>8. ASSUME QuietKind PROVE EndsNoAwait
  BY <1>5, <1>8 DEF QuietKind, TracesGrow
<1>9. ASSUME NEW frame \in Served, PumpKind(actions[next].connection, frame) PROVE EndsNoAwait
  BY <1>6, <1>9 DEF PumpKind
<1>10. ASSUME NEW c \in DOMAIN states, NEW taken, DrainKind(c, taken) PROVE EndsNoAwait
  BY <1>6, <1>10 DEF DrainKind
<1>11. QED
  BY <1>2, <1>3, <1>4, <1>7, <1>8, <1>9, <1>10 DEF RunKind

\* A step that binds nothing keeps what is bound,
LEMMA BoundKept ==
  ASSUME RunTypes, Bound, EndsNoAwait
  PROVE  Bound'
<1>1. /\ UNCHANGED <<actions, session_results>>
      /\ \A k \in DOMAIN outcomes : k \in DOMAIN outcomes' /\ outcomes'[k] = outcomes[k]
      /\ \A k \in DOMAIN outcomes' : k \in DOMAIN outcomes \/
           (actions[k].name = "AwaitSetupResponse" => outcomes'[k].tag = "Skipped")
      /\ \A c \in DOMAIN states' : c \in DOMAIN states \/
           (next \in DOMAIN outcomes' /\ actions[next].name = "Connect"
            /\ actions[next].connection = c)
  BY DEF EndsNoAwait, OutcomesGrow
<1>2. SessionsBound'
  <2>1. SUFFICES ASSUME NEW s \in DOMAIN session_results
                 PROVE  \E id \in DOMAIN outcomes' :
                   /\ actions[id].name = "AwaitSetupResponse" /\ actions[id].session = s
                   /\ outcomes'[id].tag # "Skipped"
                   /\ session_results[s].connection = actions[id].connection
                   /\ session_results[s].first = actions[id].first_on_connection
                   /\ session_results[s].response = R!Response(outcomes'[id])
    BY <1>1 DEF SessionsBound, R!Response
  <2>2. PICK id \in DOMAIN outcomes :
                   /\ actions[id].name = "AwaitSetupResponse" /\ actions[id].session = s
                   /\ outcomes[id].tag # "Skipped"
                   /\ session_results[s].connection = actions[id].connection
                   /\ session_results[s].first = actions[id].first_on_connection
                   /\ session_results[s].response = R!Response(outcomes[id])
    BY DEF Bound, SessionsBound
  <2>3. id \in DOMAIN outcomes' /\ outcomes'[id] = outcomes[id]
    BY <1>1
  <2>4. QED
    BY <2>2, <2>3
<1>3. AwaitsBound'
  <2>1. SUFFICES ASSUME NEW id \in DOMAIN outcomes', actions[id].name = "AwaitSetupResponse",
                        outcomes'[id].tag # "Skipped"
                 PROVE  /\ actions[id].session \in DOMAIN session_results
                        /\ actions[id].connection \in DOMAIN states'
                        /\ outcomes'[id].tag = "Completed" =>
                             \E k \in DOMAIN states'[actions[id].connection].events :
                               states'[actions[id].connection].events[k] = outcomes'[id].frame
    BY <1>1 DEF AwaitsBound
  <2>2. id \in DOMAIN outcomes /\ outcomes'[id] = outcomes[id]
    BY <1>1, <2>1
  <2>3. /\ actions[id].session \in DOMAIN session_results
        /\ actions[id].connection \in DOMAIN states
        /\ outcomes[id].tag = "Completed" =>
             \E k \in DOMAIN states[actions[id].connection].events :
               states[actions[id].connection].events[k] = outcomes[id].frame
    BY <2>1, <2>2 DEF Bound, AwaitsBound
  <2>4. TracesGrow
    BY DEF EndsNoAwait
  <2>5. QED
    BY <2>2, <2>3, <2>4 DEF TracesGrow
<1>4. PlacesBound'
  <2>1. TracesGrow
    BY DEF EndsNoAwait
  <2>2. QED
    BY <1>1, <2>1 DEF Bound, PlacesBound, TracesGrow
<1>5. OpenedBy'
  BY <1>1 DEF Bound, OpenedBy
<1>6. QED
  BY <1>2, <1>3, <1>4, <1>5 DEF Bound

\* an await that ends binds its own session and no other,
LEMMA BoundByAwait ==
  ASSUME RunTypes, Bound, NEW o \in Outcome, NEW taken, NEW c, AwaitKind(c, o, taken)
  PROVE  Bound' /\ OutcomesGrow /\ TracesGrow
<1> DEFINE s0 == actions[next].session
           found == [connection |-> c, first |-> actions[next].first_on_connection,
                     response |-> R!Response(o),
                     place |-> IF o.tag = "Completed" THEN Len(states[c].events) + 1 ELSE 0,
                     by |-> o.frame.answers]
<1>1. TablesOK /\ PlaceOK
  BY DEF RunTypes
<1>2. /\ mode = "await" /\ actions[next].connection = c
      /\ Records(o) /\ Takes(c, taken) /\ o.tag # "Skipped"
      /\ IF o.tag = "Completed" THEN taken = <<o.frame>> /\ R!Decodes(o.frame) ELSE taken = << >>
      /\ session_results' = R!Insert(session_results, s0, found)
      /\ UNCHANGED actions
  BY DEF AwaitKind
<1>3. actions[next].name = "AwaitSetupResponse" /\ c \in DOMAIN states
  BY <1>1, <1>2 DEF PlaceOK
<1>4. /\ DOMAIN session_results' = DOMAIN session_results \cup {s0}
      /\ session_results'[s0] = found
      /\ \A s \in DOMAIN session_results : s # s0 => session_results'[s] = session_results[s]
  BY <1>2 DEF R!Insert
<1>5. found.connection = c /\ found.first = actions[next].first_on_connection
      /\ found.response = R!Response(o)
  OBVIOUS
<1> HIDE DEF s0, found
<1>6. /\ next \in DOMAIN outcomes' /\ outcomes'[next] = o
      /\ \A k \in DOMAIN outcomes' : k \in DOMAIN outcomes \/ k = next
      /\ OutcomesGrow
  <2>1. DOMAIN outcomes' = 1..next /\ next \in Nat /\ next >= 1
    BY <1>1, <1>2, RecordsAdd
  <2>2. QED
    BY <1>1, <1>2, <2>1, RecordsAdd
<1>7. TracesGrow /\ DOMAIN states' = DOMAIN states
  <2>1. Takes(c, taken)
    BY <1>2
  <2>2. DOMAIN states' = DOMAIN states
    BY <2>1 DEF Takes
  <2>3. QED
    BY <1>1, <2>1, <2>2, TakesGrows
<1>8. SessionsBound'
  <2>1. SUFFICES ASSUME NEW s \in DOMAIN session_results'
                 PROVE  \E id \in DOMAIN outcomes' :
                   /\ actions[id].name = "AwaitSetupResponse" /\ actions[id].session = s
                   /\ outcomes'[id].tag # "Skipped"
                   /\ session_results'[s].connection = actions[id].connection
                   /\ session_results'[s].first = actions[id].first_on_connection
                   /\ session_results'[s].response = R!Response(outcomes'[id])
    BY <1>2 DEF SessionsBound, R!Response
  <2>2. CASE s = s0
    BY <1>2, <1>3, <1>4, <1>5, <1>6, <2>2 DEF s0
  <2>3. CASE s # s0
    <3>1. s \in DOMAIN session_results /\ session_results'[s] = session_results[s]
      BY <1>4, <2>3
    <3>2. PICK id \in DOMAIN outcomes :
                   /\ actions[id].name = "AwaitSetupResponse" /\ actions[id].session = s
                   /\ outcomes[id].tag # "Skipped"
                   /\ session_results[s].connection = actions[id].connection
                   /\ session_results[s].first = actions[id].first_on_connection
                   /\ session_results[s].response = R!Response(outcomes[id])
      BY <3>1 DEF Bound, SessionsBound
    <3>3. id \in DOMAIN outcomes' /\ outcomes'[id] = outcomes[id]
      BY <1>6 DEF OutcomesGrow
    <3>4. QED
      BY <3>1, <3>2, <3>3
  <2>4. QED
    BY <2>2, <2>3
<1>9. ASSUME o.tag = "Completed"
       PROVE  LET place == Len(states[c].events) + 1
              IN place \in DOMAIN states'[c].events /\ states'[c].events[place] = o.frame
  <2>1. /\ states'[c].events = states[c].events \o taken /\ taken = <<o.frame>>
        /\ taken \in Seq(Served)
    BY <1>2, <1>9 DEF Takes
  <2>2. states[c].events \in Seq(Served) /\ o.frame \in Served
    BY <1>1, <1>3, <2>1 DEF TablesOK, StateOK
  <2>3. /\ DOMAIN (states[c].events \o <<o.frame>>) = 1..(Len(states[c].events) + 1)
        /\ (states[c].events \o <<o.frame>>)[Len(states[c].events) + 1] = o.frame
        /\ Len(states[c].events) \in Nat
    BY <2>2, Pushed
  <2>4. Len(states[c].events) + 1 \in DOMAIN states'[c].events
    BY <2>1, <2>3
  <2>5. QED
    BY <2>1, <2>3, <2>4
<1>10. AwaitsBound'
  <2>1. SUFFICES ASSUME NEW id \in DOMAIN outcomes', actions[id].name = "AwaitSetupResponse",
                        outcomes'[id].tag # "Skipped"
                 PROVE  /\ actions[id].session \in DOMAIN session_results'
                        /\ actions[id].connection \in DOMAIN states'
                        /\ outcomes'[id].tag = "Completed" =>
                             \E k \in DOMAIN states'[actions[id].connection].events :
                               states'[actions[id].connection].events[k] = outcomes'[id].frame
    BY <1>2 DEF AwaitsBound
  <2>2. CASE id \in DOMAIN outcomes
    <3>1. outcomes'[id] = outcomes[id]
      BY <1>6, <2>2 DEF OutcomesGrow
    <3>2. /\ actions[id].session \in DOMAIN session_results
          /\ actions[id].connection \in DOMAIN states
          /\ outcomes[id].tag = "Completed" =>
               \E k \in DOMAIN states[actions[id].connection].events :
                 states[actions[id].connection].events[k] = outcomes[id].frame
      BY <2>1, <2>2, <3>1 DEF Bound, AwaitsBound
    <3>3. QED
      BY <1>4, <1>7, <3>1, <3>2 DEF TracesGrow
  <2>3. CASE id = next
    <3>1. ASSUME o.tag = "Completed"
          PROVE  \E k \in DOMAIN states'[c].events : states'[c].events[k] = o.frame
      BY <1>9, <3>1
    <3>2. QED
      BY <1>2, <1>3, <1>4, <1>6, <1>7, <2>3, <3>1 DEF s0
  <2>4. QED
    BY <1>6, <2>2, <2>3
<1>11. PlacesBound'
  <2>1. SUFFICES ASSUME NEW s \in DOMAIN session_results', session_results'[s].response = "Success"
                 PROVE  LET d == session_results'[s].connection
                            place == session_results'[s].place
                        IN /\ d \in DOMAIN states' /\ place \in DOMAIN states'[d].events
                           /\ states'[d].events[place].type = "Success"
    BY DEF PlacesBound
  <2>2. CASE s = s0
    <3>1. R!Response(o) = "Success"
      BY <1>4, <1>5, <2>1, <2>2
    <3>2. o.tag = "Completed" /\ o.frame.type = "Success"
      BY <3>1 DEF R!Response
    <3>3. session_results'[s].place = Len(states[c].events) + 1
          /\ session_results'[s].connection = c
      BY <1>4, <1>5, <2>2, <3>2 DEF found
    <3>4. QED
      BY <1>3, <1>7, <1>9, <3>2, <3>3
  <2>3. CASE s # s0
    <3>1. s \in DOMAIN session_results /\ session_results'[s] = session_results[s]
      BY <1>4, <2>3
    <3>2. QED
      BY <1>7, <2>1, <3>1 DEF Bound, PlacesBound, TracesGrow
  <2>4. QED
    BY <2>2, <2>3
<1>12. OpenedBy'
  BY <1>2, <1>6, <1>7 DEF Bound, OpenedBy, OutcomesGrow
<1>13. QED
  BY <1>6, <1>7, <1>8, <1>10, <1>11, <1>12 DEF Bound

\* and so every step keeps it, and outcomes and traces only grow.
LEMMA BoundStep ==
  ASSUME CompileInv, RunTypes, Bound, RunKind
  PROVE  Bound' /\ OutcomesGrow /\ TracesGrow /\ UNCHANGED actions
<1>1. CASE EndsNoAwait
  BY <1>1, BoundKept DEF EndsNoAwait
<1>2. CASE \E o \in Outcome : \E taken : AwaitKind(actions[next].connection, o, taken)
  BY <1>2, BoundByAwait DEF AwaitKind
<1>3. QED
  BY <1>1, <1>2, StepsEndingNoAwait DEF Bound

-----------------------------------------------------------------------------
(* Blocks. *)

EstablishedIn(results, s) == s \in DOMAIN results /\ results[s].response = "Success"

\* Of the first n outcomes: those of a skipped block are skipped, all of it at once, and a block
\* that was entered was so on an established session and is not left by skipping.
Guarded(acts, outs, results, n) ==
  \A enter \in 1..n : acts[enter].name = "EnterOnSetupSuccess" =>
    /\ outs[enter].tag = "Skipped" =>
         /\ \A id \in enter..n : id <= acts[enter].end => outs[id].tag = "Skipped"
         /\ acts[enter].end <= n \/ n = Len(acts)
    /\ outs[enter].tag # "Skipped" =>
         /\ EstablishedIn(results, acts[enter].session)
         /\ acts[enter].end <= n => outs[acts[enter].end].tag # "Skipped"

\* The first n outcomes are the same, and those from a to b are skipped.
SameUpTo(n, outs, new) == \A k \in 1..n : new[k] = outs[k]
AllSkipped(a, b, outs) == \A k \in a..b : outs[k].tag = "Skipped"

\* Where a block ends.
LEMMA EndOf ==
  ASSUME NEW acts \in Seq(CompiledAction), Len(acts) < MaxActionId, ClosedBlocks(acts),
         NEW enter \in 1..Len(acts), acts[enter].name = "EnterOnSetupSuccess"
  PROVE  /\ enter \in EntersOf(acts) /\ acts[enter].end \in Nat
         /\ Len(acts) \in Nat /\ MaxActionId \in Nat
         /\ enter < acts[enter].end
         /\ acts[enter].end > Len(acts) => acts[enter].end = MaxActionId
         /\ acts[enter].end <= Len(acts) => acts[acts[enter].end].name = "ExitBlock"
<1>1. DOMAIN acts = 1..Len(acts) /\ Len(acts) \in Nat /\ MaxActionId \in Nat
  BY LenProperties DEF MaxActionId
<1>2. enter \in EntersOf(acts)
  BY <1>1 DEF EntersOf
<1>3. /\ enter < acts[enter].end
      /\ acts[enter].end = MaxActionId \/ acts[enter].end \in 1..Len(acts)
  BY <1>2, EndBounds
<1>4. acts[enter].end # MaxActionId => acts[acts[enter].end].name = "ExitBlock"
  BY <1>2 DEF ClosedBlocks, ExitsOf
<1>5. QED
  BY <1>1, <1>2, <1>3, <1>4

\* What is to be shown of an enter.
GuardedAt(acts, outs, results, n, enter) ==
  /\ outs[enter].tag = "Skipped" =>
       /\ \A id \in enter..n : id <= acts[enter].end => outs[id].tag = "Skipped"
       /\ acts[enter].end <= n \/ n = Len(acts)
  /\ outs[enter].tag # "Skipped" =>
       /\ EstablishedIn(results, acts[enter].session)
       /\ acts[enter].end <= n => outs[acts[enter].end].tag # "Skipped"

\* A block of the outcomes there were, when outcomes are added: its exit, if it is among them,
\* is not skipped.
LEMMA GuardedEarlier ==
  ASSUME NEW acts, NEW outs, NEW results, NEW n \in Nat, NEW new, NEW bound, NEW m \in Nat,
         NEW enter \in 1..n, NEW len \in Nat, len = Len(acts), n < len, n <= m,
         GuardedAt(acts, outs, results, n, enter), SameUpTo(n, outs, new),
         NEW end \in Nat, end = acts[enter].end, enter < end,
         \A s : EstablishedIn(results, s) => EstablishedIn(bound, s),
         outs[enter].tag # "Skipped" /\ end \in (n + 1)..m => new[end].tag # "Skipped"
  PROVE  GuardedAt(acts, new, bound, m, enter)
<1>1. new[enter] = outs[enter]
  BY DEF SameUpTo
<1>2. CASE outs[enter].tag = "Skipped"
  <2>1. end <= n
    BY <1>2 DEF GuardedAt
  <2>2. ASSUME NEW id \in enter..m, id <= end PROVE new[id].tag = "Skipped"
    <3>1. id \in enter..n /\ id \in 1..n
      BY <2>1, <2>2
    <3>2. outs[id].tag = "Skipped"
      BY <1>2, <2>2, <3>1 DEF GuardedAt
    <3>3. QED
      BY <3>1, <3>2 DEF SameUpTo
  <2>3. end <= m
    BY <2>1
  <2>4. QED
    BY <1>1, <1>2, <2>2, <2>3 DEF GuardedAt
<1>3. CASE outs[enter].tag # "Skipped"
  <2>1. EstablishedIn(bound, acts[enter].session)
    BY <1>3 DEF GuardedAt
  <2>2. ASSUME end <= m PROVE new[end].tag # "Skipped"
    <3>1. CASE end <= n
      <4>1. end \in 1..n
        BY <3>1
      <4>2. QED
        BY <1>3, <3>1, <4>1 DEF GuardedAt, SameUpTo
    <3>2. CASE ~(end <= n)
      <4>1. end \in (n + 1)..m
        BY <2>2, <3>2
      <4>2. QED
        BY <1>3, <4>1
    <3>3. QED
      BY <3>1, <3>2
  <2>3. QED
    BY <1>1, <1>3, <2>1, <2>2 DEF GuardedAt
<1>4. QED
  BY <1>2, <1>3

\* One more outcome.
LEMMA GuardedRecord ==
  ASSUME NEW acts \in Seq(CompiledAction), Len(acts) < MaxActionId, ClosedBlocks(acts),
         NEW n \in Nat, n + 1 <= Len(acts), NEW outs, NEW results, Guarded(acts, outs, results, n),
         NEW new, NEW bound, SameUpTo(n, outs, new),
         \A s : EstablishedIn(results, s) => EstablishedIn(bound, s),
         acts[n + 1].name = "EnterOnSetupSuccess" =>
           new[n + 1].tag # "Skipped" /\ EstablishedIn(bound, acts[n + 1].session),
         acts[n + 1].name = "ExitBlock" => new[n + 1].tag # "Skipped"
  PROVE  Guarded(acts, new, bound, n + 1)
<1>1. Len(acts) \in Nat
  BY LenProperties
<1>2. SUFFICES ASSUME NEW enter \in 1..(n + 1), acts[enter].name = "EnterOnSetupSuccess"
               PROVE  GuardedAt(acts, new, bound, n + 1, enter)
  BY DEF Guarded, GuardedAt
<1> DEFINE end == acts[enter].end
           len == Len(acts)
<1>3. enter \in 1..len
  BY <1>1
<1>4. /\ end \in Nat /\ enter < end /\ MaxActionId \in Nat
      /\ end > len => end = MaxActionId
      /\ end <= len => acts[end].name = "ExitBlock"
  BY <1>2, <1>3, EndOf
<1>5. n + 1 <= len /\ len < MaxActionId /\ len \in Nat
  BY <1>1
<1> HIDE DEF end, len
<1>6. CASE enter = n + 1
  <2>1. ~(end <= n + 1)
    BY <1>4, <1>6
  <2>2. QED
    BY <1>2, <1>6, <2>1 DEF GuardedAt, end
<1>7. CASE enter # n + 1
  <2>1. enter \in 1..n
    BY <1>7
  <2>2. GuardedAt(acts, outs, results, n, enter)
    BY <1>2, <2>1 DEF Guarded, GuardedAt
  <2>3. end \in (n + 1)..(n + 1) => new[end].tag # "Skipped"
    <3>1. end \in (n + 1)..(n + 1) => end = n + 1 /\ end <= len
      BY <1>4, <1>5
    <3>2. QED
      BY <1>4, <3>1
  <2>4. n < len /\ n <= n + 1 /\ n + 1 \in Nat
    BY <1>5
  <2>5. QED
    BY <1>4, <1>5, <2>1, <2>2, <2>3, <2>4, GuardedEarlier DEF end, len
<1>8. QED
  BY <1>6, <1>7

\* A block is skipped: the blocks in it end in it, and the one around it, if any, after it.
LEMMA GuardedSkip ==
  ASSUME NEW acts \in Seq(CompiledAction), Len(acts) < MaxActionId, ClosedBlocks(acts),
         NEW n \in Nat, n + 1 <= Len(acts), NEW outs, NEW results, Guarded(acts, outs, results, n),
         NEW new, SameUpTo(n, outs, new),
         acts[n + 1].name = "EnterOnSetupSuccess",
         NEW last \in Nat, last <= acts[n + 1].end, last <= Len(acts), n + 1 <= last,
         last = acts[n + 1].end \/ last = Len(acts),
         AllSkipped(n + 1, last, new)
  PROVE  Guarded(acts, new, results, last)
<1>1. Len(acts) \in Nat
  BY LenProperties
<1>2. SUFFICES ASSUME NEW enter \in 1..last, acts[enter].name = "EnterOnSetupSuccess"
               PROVE  GuardedAt(acts, new, results, last, enter)
  BY DEF Guarded, GuardedAt
<1> DEFINE end == acts[enter].end
           len == Len(acts)
           outer == acts[n + 1].end
<1>3. enter \in 1..len /\ n + 1 \in 1..len
  BY <1>1
<1>4. /\ end \in Nat /\ enter < end /\ MaxActionId \in Nat /\ enter \in EntersOf(acts)
      /\ end > len => end = MaxActionId
  BY <1>2, <1>3, EndOf
<1>5. /\ outer \in Nat /\ n + 1 < outer /\ n + 1 \in EntersOf(acts)
      /\ outer > len => outer = MaxActionId
  BY <1>2, <1>3, EndOf
<1>6. n + 1 <= len /\ len < MaxActionId /\ len \in Nat /\ last <= outer /\ last <= len /\ n + 1 <= last
      /\ (last = outer \/ last = len)
  BY <1>1
<1> HIDE DEF end, len, outer
<1>7. CASE enter \in 1..n
  <2>1. GuardedAt(acts, outs, results, n, enter)
    BY <1>2, <1>7 DEF Guarded, GuardedAt
  <2>2. end \notin (n + 1)..last
    <3>1. enter < n + 1
      BY <1>7
    <3>2. end < n + 1 \/ outer < end \/ end = MaxActionId
      BY <1>4, <1>5, <3>1 DEF ClosedBlocks, end, outer
    <3>3. QED
      BY <1>4, <1>5, <1>6, <3>2
  <2>3. n < len /\ n <= last
    BY <1>6
  <2>4. QED
    BY <1>4, <1>6, <1>7, <2>1, <2>2, <2>3, GuardedEarlier DEF end, len
<1>8. CASE enter \in (n + 1)..last
  <2>1. new[enter].tag = "Skipped" /\ \A id \in enter..last : new[id].tag = "Skipped"
    <3>1. \A id \in enter..last : id \in (n + 1)..last
      BY <1>8
    <3>2. QED
      BY <1>8, <3>1 DEF AllSkipped
  <2>2. end <= last \/ last = len
    <3>1. CASE enter = n + 1
      BY <1>6, <3>1 DEF end, outer
    <3>2. CASE n + 1 < enter
      <4>1. outer < enter \/ end < outer \/ outer = MaxActionId
        BY <1>4, <1>5, <3>2 DEF ClosedBlocks, end, outer
      <4>2. QED
        BY <1>4, <1>5, <1>6, <1>8, <4>1
    <3>3. QED
      BY <1>8, <3>1, <3>2
  <2>3. QED
    BY <2>1, <2>2 DEF GuardedAt, end, len
<1>9. QED
  BY <1>7, <1>8

Blocks == Guarded(actions, outcomes, session_results, next - 1)

\* An await has its session to itself, so the session is not bound yet when it ends.
LEMMA AwaitIsFresh ==
  ASSUME CompileInv, RunTypes, SessionsBound, mode = "await"
  PROVE  actions[next].session \notin DOMAIN session_results
<1>1. SUFFICES ASSUME actions[next].session \in DOMAIN session_results PROVE FALSE
  OBVIOUS
<1>2. PICK id \in DOMAIN outcomes :
        actions[id].name = "AwaitSetupResponse" /\ actions[id].session = actions[next].session
  BY <1>1 DEF SessionsBound
<1>3. PlaceOK /\ CompileTypes /\ AwaitsPaired(actions, metadata.session_setups)
  BY DEF RunTypes, CompileInv
<1>4. next \in DOMAIN actions /\ actions[next].name = "AwaitSetupResponse"
  BY <1>3 DEF PlaceOK
<1>5. id \in 1..(next - 1) /\ next \in Nat /\ DOMAIN actions = 1..Len(actions)
      /\ next <= Len(actions) /\ Len(actions) \in Nat
  BY <1>3, <1>4, OutcomesAre, HandAction
<1>6. id \in DOMAIN actions /\ id # next
  BY <1>5
<1>7. QED
  BY <1>2, <1>3, <1>4, <1>6 DEF AwaitsPaired, AwaitsOf

\* What a session was bound to stays.
LEMMA SessionsKept ==
  ASSUME CompileInv, RunTypes, Bound, RunKind
  PROVE  \A s \in DOMAIN session_results :
           s \in DOMAIN session_results' /\ session_results'[s] = session_results[s]
<1>1. CASE EndsNoAwait
  BY <1>1 DEF EndsNoAwait
<1>2. ASSUME NEW o \in Outcome, NEW taken, AwaitKind(actions[next].connection, o, taken)
      PROVE  \A s \in DOMAIN session_results :
               s \in DOMAIN session_results' /\ session_results'[s] = session_results[s]
  <2>1. actions[next].session \notin DOMAIN session_results
    BY <1>2, AwaitIsFresh DEF AwaitKind, Bound
  <2>2. PICK found : session_results' = R!Insert(session_results, actions[next].session, found)
    BY <1>2 DEF AwaitKind
  <2>3. QED
    BY <2>1, <2>2 DEF R!Insert
<1>3. QED
  BY <1>1, <1>2, StepsEndingNoAwait DEF Bound

\* Every step keeps skipped blocks whole and entered ones guarded.
LEMMA BlocksStep ==
  ASSUME CompileInv, RunTypes, Bound, Blocks, RunKind
  PROVE  Blocks'
<1> DEFINE n == next - 1
<1>1. PlaceOK /\ CompileTypes
  BY DEF RunTypes, CompileInv
<1>2. actions \in Seq(CompiledAction) /\ Len(actions) < MaxActionId /\ ClosedBlocks(actions)
  <2>1. /\ actions \in Seq(CompiledAction) /\ Len(actions) <= 2 * (at - 1)
        /\ at \in 1..(Len(program) + 1) /\ 2 * Len(program) < MaxActionId
        /\ program \in Seq(Instruction)
    BY <1>1 DEF CompileTypes
  <2>2. Len(actions) \in Nat /\ Len(program) \in Nat /\ MaxActionId \in Nat
    BY <2>1, LenProperties DEF MaxActionId
  <2>3. Len(actions) < MaxActionId
    BY <2>1, <2>2
  <2>4. QED
    BY <2>1, <2>3 DEF CompileInv
<1>3. next \in Nat /\ next >= 1 /\ DOMAIN outcomes = 1..(next - 1) /\ UNCHANGED actions
  BY <1>1, OutcomesAre, BoundStep
<1>4. n \in Nat /\ n + 1 = next
  BY <1>3
<1>5. \A s : EstablishedIn(session_results, s) => EstablishedIn(session_results', s)
  BY SessionsKept DEF EstablishedIn
<1>6. Guarded(actions, outcomes, session_results, n)
  BY DEF Blocks
<1>7. next \in DOMAIN actions => n + 1 <= Len(actions)
  BY <1>1, <1>4, HandAction
<1> HIDE DEF n
<1>8. ASSUME NEW o \in Outcome, Records(o), next \in DOMAIN actions,
             actions[next].name = "EnterOnSetupSuccess" =>
               o.tag # "Skipped" /\ EstablishedIn(session_results, actions[next].session),
             actions[next].name = "ExitBlock" => o.tag # "Skipped"
      PROVE  Blocks'
  <2>1. outcomes'[n + 1] = o /\ next' = n + 1 + 1
    BY <1>1, <1>4, <1>8, RecordsAdd DEF Records
  <2>2. SameUpTo(n, outcomes, outcomes')
    BY <1>1, <1>8, RecordsAdd DEF SameUpTo, n
  <2>3. actions[n + 1].name = "EnterOnSetupSuccess" =>
          /\ outcomes'[n + 1].tag # "Skipped"
          /\ EstablishedIn(session_results', actions[n + 1].session)
    BY <1>4, <1>5, <1>8, <2>1
  <2>4. actions[n + 1].name = "ExitBlock" => outcomes'[n + 1].tag # "Skipped"
    BY <1>4, <1>8, <2>1
  <2>5. Guarded(actions, outcomes', session_results', n + 1)
    BY <1>2, <1>4, <1>5, <1>6, <1>7, <1>8, <2>2, <2>3, <2>4, GuardedRecord
  <2>6. n + 1 = next' - 1
    BY <1>4, <2>1
  <2>7. QED
    BY <1>3, <2>5, <2>6 DEF Blocks, Guarded, EstablishedIn
<1>9. ASSUME NEW last \in Nat, SkipKind(last) PROVE Blocks'
  <2>1. /\ next \in DOMAIN actions /\ actions[next].name = "EnterOnSetupSuccess"
        /\ last = IF actions[next].end < Len(actions) THEN actions[next].end ELSE Len(actions)
        /\ last \in next..Len(actions) /\ next' = last + 1
        /\ \A k \in 1..(next - 1) : outcomes'[k] = outcomes[k]
        /\ \A k \in next..last : outcomes'[k].tag = "Skipped"
        /\ UNCHANGED session_results
    BY <1>9 DEF SkipKind
  <2>2. actions[next] \in CompiledAction /\ Len(actions) \in Nat
    BY <1>1, <2>1, HandAction
  <2>3. actions[next].end \in Nat
    BY <2>1, <2>2 DEF CompiledAction
  <2>4. last <= actions[n + 1].end /\ last <= Len(actions) /\ n + 1 <= last
        /\ (last = actions[n + 1].end \/ last = Len(actions))
    BY <1>4, <2>1, <2>2, <2>3
  <2>5. SameUpTo(n, outcomes, outcomes') /\ AllSkipped(n + 1, last, outcomes')
    BY <1>4, <2>1 DEF SameUpTo, AllSkipped, n
  <2>6. actions[n + 1].name = "EnterOnSetupSuccess"
    BY <1>4, <2>1
  <2>7. Guarded(actions, outcomes', session_results, last)
    BY <1>2, <1>4, <1>6, <1>7, <2>1, <2>4, <2>5, <2>6, GuardedSkip
  <2>8. last = next' - 1
    BY <2>1
  <2>9. QED
    BY <1>3, <2>1, <2>7, <2>8 DEF Blocks, Guarded, EstablishedIn
<1>10. ASSUME UNCHANGED <<actions, outcomes, session_results, next>> PROVE Blocks'
  BY <1>10 DEF Blocks, Guarded, EstablishedIn
<1>11. ASSUME NEW o \in Outcome, RecordKind(o) PROVE Blocks'
  <2>1. /\ next \in DOMAIN actions /\ Records(o)
        /\ actions[next].name = "EnterOnSetupSuccess" =>
             o.tag = "Completed" /\ R!Established(actions[next].session)
        /\ actions[next].name = "ExitBlock" => o.tag = "Completed"
    BY <1>11 DEF RecordKind
  <2>2. QED
    BY <1>8, <2>1 DEF R!Established, EstablishedIn
<1>12. ASSUME NEW c \in Nat, ConnectKind(c) PROVE Blocks'
  <2>1. R!Completed(R!NoFrame) \in Outcome
    BY CompletedTyped
  <2>2. next \in DOMAIN actions /\ actions[next].name = "Connect" /\ Records(R!Completed(R!NoFrame))
    BY <1>12 DEF ConnectKind
  <2>3. QED
    BY <1>8, <2>1, <2>2
<1>13. ASSUME NEW o \in Outcome, NEW taken, AwaitKind(actions[next].connection, o, taken)
       PROVE  Blocks'
  <2>1. mode = "await" /\ Records(o)
    BY <1>13 DEF AwaitKind
  <2>2. next \in DOMAIN actions /\ actions[next].name = "AwaitSetupResponse"
    BY <1>1, <2>1 DEF PlaceOK
  <2>3. QED
    BY <1>8, <2>1, <2>2
<1>14. ASSUME NEW frame \in Served, PumpKind(actions[next].connection, frame) PROVE Blocks'
  BY <1>10, <1>14 DEF PumpKind
<1>15. ASSUME NEW c \in DOMAIN states, NEW taken, DrainKind(c, taken) PROVE Blocks'
  BY <1>10, <1>15 DEF DrainKind
<1>16. ASSUME NEW c \in DOMAIN peers, NEW frame \in Served, ServeKind(c, frame) PROVE Blocks'
  BY <1>10, <1>16 DEF ServeKind
<1>17. CASE QuietKind
  BY <1>10, <1>17 DEF QuietKind
<1>18. QED
  BY <1>9, <1>11, <1>12, <1>13, <1>14, <1>15, <1>16, <1>17 DEF RunKind

\* What BlockGuarded says follows.
LEMMA BlocksMeans ==
  ASSUME CompileInv, RunTypes, Bound, Blocks
  PROVE  BlockGuarded
<1>1. SUFFICES ASSUME NEW enter \in DOMAIN outcomes, NEW id \in DOMAIN outcomes,
                      actions[enter].name = "EnterOnSetupSuccess",
                      id \in enter..actions[enter].end, outcomes[id].tag # "Skipped"
               PROVE  LET s == actions[enter].session
                          events == states[session_results[s].connection].events
                      IN /\ s \in DOMAIN session_results
                         /\ session_results[s].place \in DOMAIN events
                         /\ events[session_results[s].place].type = "Success"
                         /\ outcomes[enter].tag # "Skipped"
                         /\ actions[enter].end \in DOMAIN outcomes =>
                              outcomes[actions[enter].end].tag # "Skipped"
  BY DEF BlockGuarded, R!BlockGuarded
<1> DEFINE s == actions[enter].session
           n == next - 1
<1>2. n \in Nat /\ DOMAIN outcomes = 1..n
  BY OutcomesAre DEF RunTypes
<1>3. GuardedAt(actions, outcomes, session_results, n, enter)
  BY <1>1, <1>2 DEF Blocks, Guarded, GuardedAt
<1> HIDE DEF n
<1>4. actions[enter].end \in Nat
  <2>1. PlaceOK /\ CompileTypes
    BY DEF RunTypes, CompileInv
  <2>2. next \in 1..(Len(actions) + 1) /\ actions \in Seq(CompiledAction)
    BY <2>1 DEF PlaceOK, CompileTypes
  <2>3. enter \in 1..Len(actions)
    BY <1>2, <2>2, LenProperties DEF n
  <2>4. actions[enter] \in CompiledAction
    BY <2>2, <2>3, ElementOfSeq
  <2>5. QED
    BY <1>1, <2>4 DEF CompiledAction
<1>5. outcomes[enter].tag # "Skipped"
  <2>1. SUFFICES ASSUME outcomes[enter].tag = "Skipped" PROVE FALSE
    OBVIOUS
  <2>2. id \in enter..n /\ id <= actions[enter].end
    BY <1>1, <1>2, <1>4
  <2>3. QED
    BY <1>1, <1>3, <2>1, <2>2 DEF GuardedAt
<1>6. EstablishedIn(session_results, s)
      /\ (actions[enter].end <= n => outcomes[actions[enter].end].tag # "Skipped")
  BY <1>3, <1>5 DEF GuardedAt
<1>7. actions[enter].end \in DOMAIN outcomes => actions[enter].end <= n
  BY <1>2
<1>8. QED
  BY <1>5, <1>6, <1>7 DEF EstablishedIn, Bound, PlacesBound

\* What OneOutcomePerAction says follows.
LEMMA BoundMeans ==
  ASSUME RunTypes, Bound
  PROVE  OneOutcomePerAction
<1>1. R!RunnerTypeOK
  BY DEF RunTypes, TablesOK, PlaceOK, StateOK, R!RunnerTypeOK, R!Open, Responses, SetupStates
<1>2. R!OneOutcomePerAction
  BY DEF RunTypes, PlaceOK, Bound, SessionsBound, AwaitsBound, R!OneOutcomePerAction
<1>3. QED
  BY <1>1, <1>2 DEF OneOutcomePerAction

-----------------------------------------------------------------------------
(* Traces.  A connection's trace and its inbox are what the server sent,   *)
(* until a frame that does not decrypt; from then on the trace is cut      *)
(* there.                                                                  *)

Cut(events, served) ==
  /\ Len(events) < Len(served)
  /\ \A k \in 1..Len(events) : events[k] = served[k]
  /\ served[Len(events) + 1].type = "Garbage"

TraceAt(events, peer) ==
  /\ ~peer.poisoned => events \o peer.inbox = peer.served
  /\ peer.poisoned => Cut(events, peer.served)

Traced == \A c \in DOMAIN states : TraceAt(states[c].events, peers[c])

\* Joining traces and inboxes is associative.
LEMMA FramesAssociate ==
  ASSUME NEW s \in Seq(Served), NEW t \in Seq(Served), NEW u \in Seq(Served)
  PROVE  (s \o t) \o u = s \o (t \o u)
<1> DEFINE S == Served
<1>1. s \in Seq(S) /\ t \in Seq(S) /\ u \in Seq(S)
  OBVIOUS
<1> HIDE DEF S
<1>2. QED
  BY <1>1, ConcatAssociative

\* A frame that does not decrypt cuts the trace.
LEMMA CutHere ==
  ASSUME NEW events \in Seq(Served), NEW inbox \in Seq(Served), NEW taken \in Seq(Served),
         Len(taken) < Len(inbox), inbox[Len(taken) + 1].type = "Garbage",
         \A k \in 1..Len(taken) : taken[k] = inbox[k]
  PROVE  Cut(events \o taken, events \o inbox)
<1> DEFINE e == Len(events)
           t == Len(taken)
           i == Len(inbox)
           new == events \o taken
           all == events \o inbox
<1>1. e \in Nat /\ t \in Nat /\ i \in Nat /\ t < i
  BY LenProperties
<1>2. /\ Len(new) = e + t /\ Len(all) = e + i
      /\ \A k \in 1..(e + t) : new[k] = IF k <= e THEN events[k] ELSE taken[k - e]
      /\ \A k \in 1..(e + i) : all[k] = IF k <= e THEN events[k] ELSE inbox[k - e]
  BY ConcatProperties
<1>3. inbox[t + 1].type = "Garbage" /\ \A k \in 1..t : taken[k] = inbox[k]
  OBVIOUS
<1> HIDE DEF e, t, i, new, all
<1>4. Len(new) < Len(all)
  BY <1>1, <1>2
<1>5. ASSUME NEW k \in 1..Len(new) PROVE new[k] = all[k]
  <2>1. k \in 1..(e + t) /\ k \in 1..(e + i) /\ (k <= e \/ k - e \in 1..t)
    BY <1>1, <1>2
  <2>2. QED
    BY <1>2, <1>3, <2>1
<1>6. all[Len(new) + 1].type = "Garbage"
  <2>1. e + t + 1 \in 1..(e + i) /\ ~(e + t + 1 <= e) /\ (e + t + 1) - e = t + 1
    BY <1>1
  <2>2. QED
    BY <1>2, <1>3, <2>1
<1>7. QED
  BY <1>4, <1>5, <1>6 DEF Cut, new, all

\* What is sent after the cut changes nothing.
LEMMA CutKept ==
  ASSUME NEW events \in Seq(Served), NEW served \in Seq(Served), NEW frame \in Served,
         Cut(events, served)
  PROVE  Cut(events, Append(served, frame))
<1> DEFINE e == Len(events)
           n == Len(served)
           new == Append(served, frame)
<1>1. e \in Nat /\ n \in Nat /\ e < n
  BY LenProperties DEF Cut
<1>2. Len(new) = n + 1 /\ \A k \in 1..n : new[k] = served[k]
  BY AppendProperties
<1>3. (\A k \in 1..e : events[k] = served[k]) /\ served[e + 1].type = "Garbage"
  BY DEF Cut
<1> HIDE DEF e, n, new
<1>4. e < Len(new) /\ e + 1 \in 1..n /\ \A k \in 1..e : k \in 1..n
  BY <1>1, <1>2
<1>5. QED
  BY <1>2, <1>3, <1>4 DEF Cut, e, new

\* Frames move from the inbox to the trace.
LEMMA TraceTaken ==
  ASSUME RunTypes, Traced, NEW c, NEW taken, Takes(c, taken)
  PROVE  Traced'
<1>1. TablesOK
  BY DEF RunTypes
<1>2. /\ c \in DOMAIN states /\ taken \in Seq(Served)
      /\ DOMAIN states' = DOMAIN states
      /\ \A d \in DOMAIN states : d # c => states'[d] = states[d] /\ peers'[d] = peers[d]
      /\ states'[c].events = states[c].events \o taken
      /\ peers'[c].served = peers[c].served
      /\ peers[c].poisoned => taken = << >> /\ peers'[c].poisoned
      /\ ~peers[c].poisoned /\ peers'[c].poisoned =>
           /\ Len(taken) < Len(peers[c].inbox) /\ peers[c].inbox[Len(taken) + 1].type = "Garbage"
           /\ \A k \in 1..Len(taken) : taken[k] = peers[c].inbox[k]
      /\ ~peers'[c].poisoned => taken \o peers'[c].inbox = peers[c].inbox
      /\ PeerOK(peers'[c])
  BY DEF Takes
<1>3. /\ states[c].events \in Seq(Served) /\ peers[c].inbox \in Seq(Served)
      /\ peers[c].served \in Seq(Served) /\ peers'[c].inbox \in Seq(Served)
  BY <1>1, <1>2 DEF TablesOK, StateOK, PeerOK
<1>4. TraceAt(states[c].events, peers[c])
  BY <1>2 DEF Traced
<1>5. TraceAt(states'[c].events, peers'[c])
  <2>1. ASSUME ~peers'[c].poisoned
        PROVE  states'[c].events \o peers'[c].inbox = peers'[c].served
    <3>1. ~peers[c].poisoned /\ taken \o peers'[c].inbox = peers[c].inbox
      BY <1>2, <2>1
    <3>2. states[c].events \o peers[c].inbox = peers[c].served
      BY <1>4, <3>1 DEF TraceAt
    <3>3. (states[c].events \o taken) \o peers'[c].inbox
            = states[c].events \o (taken \o peers'[c].inbox)
      <4>1. /\ states[c].events \in Seq(Served) /\ taken \in Seq(Served)
            /\ peers'[c].inbox \in Seq(Served)
        BY <1>2, <1>3
      <4>2. QED
        BY <4>1, FramesAssociate
    <3>4. QED
      BY <1>2, <3>1, <3>2, <3>3
  <2>2. ASSUME peers'[c].poisoned, peers[c].poisoned
        PROVE  Cut(states'[c].events, peers'[c].served)
    <3>1. states'[c].events = states[c].events
      BY <1>2, <1>3, <2>2, ConcatEmptySeq
    <3>2. QED
      BY <1>2, <1>4, <2>2, <3>1 DEF TraceAt
  <2>3. ASSUME peers'[c].poisoned, ~peers[c].poisoned
        PROVE  Cut(states'[c].events, peers'[c].served)
    <3>1. states[c].events \o peers[c].inbox = peers[c].served
      BY <1>4, <2>3 DEF TraceAt
    <3>2. Cut(states[c].events \o taken, states[c].events \o peers[c].inbox)
      BY <1>2, <1>3, <2>3, CutHere
    <3>3. QED
      BY <1>2, <3>1, <3>2
  <2>4. QED
    BY <2>1, <2>2, <2>3 DEF TraceAt
<1>6. \A d \in DOMAIN states : TraceAt(states'[d].events, peers'[d])
  BY <1>2, <1>5 DEF Traced
<1>7. QED
  BY <1>2, <1>6 DEF Traced, TraceAt, Cut

\* A frame is sent.
LEMMA TraceServed ==
  ASSUME RunTypes, Traced, NEW c \in DOMAIN peers, NEW frame \in Served, ServeKind(c, frame)
  PROVE  Traced'
<1> DEFINE p == [peers[c] EXCEPT !.inbox = Append(@, frame), !.served = Append(@, frame)]
<1>1. TablesOK
  BY DEF RunTypes
<1>2. /\ peers' = [peers EXCEPT ![c].inbox = Append(@, frame), ![c].served = Append(@, frame)]
      /\ UNCHANGED states /\ c \in DOMAIN states
  BY <1>1 DEF ServeKind, TablesOK
<1>3. PeerOK(peers[c]) /\ states[c].events \in Seq(Served)
  BY <1>1, <1>2 DEF TablesOK, StateOK
<1>4. /\ p.inbox = Append(peers[c].inbox, frame) /\ p.served = Append(peers[c].served, frame)
      /\ p.poisoned = peers[c].poisoned /\ peers' = [peers EXCEPT ![c] = p]
  BY <1>2, <1>3 DEF PeerOK, PeerFields
<1>5. peers[c].inbox \in Seq(Served) /\ peers[c].served \in Seq(Served)
  BY <1>3 DEF PeerOK
<1> HIDE DEF p
<1>6. TraceAt(states[c].events, peers[c])
  BY <1>2 DEF Traced
<1>7. TraceAt(states[c].events, p)
  <2>1. ASSUME ~peers[c].poisoned
        PROVE  states[c].events \o Append(peers[c].inbox, frame) = Append(peers[c].served, frame)
    <3>1. states[c].events \o peers[c].inbox = peers[c].served
      BY <1>6, <2>1 DEF TraceAt
    <3>2. /\ Append(peers[c].inbox, frame) = peers[c].inbox \o <<frame>>
          /\ Append(peers[c].served, frame) = peers[c].served \o <<frame>>
      BY <1>5, AppendIsConcat
    <3>3. <<frame>> \in Seq(Served)
      OBVIOUS
    <3>4. (states[c].events \o peers[c].inbox) \o <<frame>>
            = states[c].events \o (peers[c].inbox \o <<frame>>)
      BY <1>3, <1>5, <3>3, FramesAssociate
    <3>5. QED
      BY <3>1, <3>2, <3>4
  <2>2. ASSUME peers[c].poisoned
        PROVE  Cut(states[c].events, Append(peers[c].served, frame))
    BY <1>3, <1>5, <1>6, <2>2, CutKept DEF TraceAt
  <2>3. QED
    BY <1>4, <2>1, <2>2 DEF TraceAt
<1>8. \A d \in DOMAIN states : TraceAt(states[d].events, peers'[d])
  BY <1>1, <1>4, <1>7 DEF Traced, TablesOK
<1>9. QED
  BY <1>2, <1>8 DEF Traced, TraceAt, Cut

\* The frames stay where they are.
LEMMA TraceStays ==
  ASSUME RunTypes, Traced, PeersQuiet, DOMAIN states' = DOMAIN states,
         \A c \in DOMAIN states : states'[c].events = states[c].events
  PROVE  Traced'
<1>1. \A c \in DOMAIN states :
        /\ peers'[c].inbox = peers[c].inbox /\ peers'[c].served = peers[c].served
        /\ peers'[c].poisoned = peers[c].poisoned
  BY DEF RunTypes, TablesOK, PeersQuiet
<1>2. ASSUME NEW c \in DOMAIN states PROVE TraceAt(states'[c].events, peers'[c])
  <2>1. TraceAt(states[c].events, peers[c])
    BY DEF Traced
  <2>2. states'[c].events = states[c].events
    OBVIOUS
  <2>3. QED
    BY <1>1, <2>1, <2>2 DEF TraceAt
<1>3. QED
  BY <1>2 DEF Traced, TraceAt, Cut

\* Every step keeps trace and inbox together what was served.
LEMMA TraceStep ==
  ASSUME CompileInv, RunTypes, Bound, Traced, RunKind
  PROVE  Traced'
<1>1. ASSUME NEW o \in Outcome, RecordKind(o) PROVE Traced'
  BY <1>1, TraceStays DEF RecordKind
<1>2. ASSUME NEW last \in Nat, SkipKind(last) PROVE Traced'
  BY <1>2, TraceStays DEF SkipKind
<1>3. ASSUME NEW c \in Nat, ConnectKind(c) PROVE Traced'
  <2>1. c \notin DOMAIN states
    BY <1>3, ConnectIsFresh DEF Bound
  <2>2. states' = R!Insert(states, c, R!NewState) /\ peers' = R!Insert(peers, c, R!NewPeer)
        /\ DOMAIN peers = DOMAIN states
    BY <1>3 DEF ConnectKind, RunTypes, TablesOK
  <2>3. DOMAIN states' = DOMAIN states \cup {c} /\ states'[c] = R!NewState /\ peers'[c] = R!NewPeer
    BY <2>2 DEF R!Insert
  <2>4. \A d \in DOMAIN states : states'[d] = states[d] /\ peers'[d] = peers[d]
    BY <2>1, <2>2 DEF R!Insert
  <2>5. TraceAt(R!NewState.events, R!NewPeer)
    <3>1. << >> \o << >> = << >>
      OBVIOUS
    <3>2. QED
      BY <3>1 DEF TraceAt, R!NewState, R!NewPeer
  <2>6. \A d \in DOMAIN states' : TraceAt(states'[d].events, peers'[d])
    BY <2>3, <2>4, <2>5 DEF Traced
  <2>7. QED
    BY <2>6 DEF Traced, TraceAt, Cut
<1>4. ASSUME NEW frame \in Served, PumpKind(actions[next].connection, frame) PROVE Traced'
  BY <1>4, TraceTaken DEF PumpKind
<1>5. ASSUME NEW o \in Outcome, NEW taken, AwaitKind(actions[next].connection, o, taken)
      PROVE  Traced'
  BY <1>5, TraceTaken DEF AwaitKind
<1>6. ASSUME NEW c \in DOMAIN states, NEW taken, DrainKind(c, taken) PROVE Traced'
  BY <1>6, TraceTaken DEF DrainKind
<1>7. ASSUME NEW c \in DOMAIN peers, NEW frame \in Served, ServeKind(c, frame) PROVE Traced'
  BY <1>7, TraceServed
<1>8. CASE QuietKind
  BY <1>8, TraceStays DEF QuietKind
<1>9. QED
  BY <1>1, <1>2, <1>3, <1>4, <1>5, <1>6, <1>7, <1>8 DEF RunKind

\* The first part of a sequence.
LEMMA FirstPart ==
  ASSUME NEW S, NEW s \in Seq(S), NEW m \in Nat, m <= Len(s)
  PROVE  /\ SubSeq(s, 1, m) \in Seq(S) /\ Len(SubSeq(s, 1, m)) = m
         /\ \A k \in 1..m : SubSeq(s, 1, m)[k] = s[k]
<1> DEFINE n == Len(s)
<1>1. n \in Nat /\ m <= n
  BY LenProperties
<1> HIDE DEF n
<1>2. /\ 1 \in 1..(n + 1) /\ m \in (1 - 1)..n /\ m - 1 + 1 = m /\ \A k \in 1..m : 1 + k - 1 = k
  BY <1>1
<1>3. SubSeq(s, 1, m) \in Seq(S) /\ Len(SubSeq(s, 1, m)) = m - 1 + 1
      /\ \A k \in 1..(m - 1 + 1) : SubSeq(s, 1, m)[k] = s[1 + k - 1]
  BY <1>2, SubSeqProperties DEF n
<1>4. QED
  BY <1>2, <1>3

\* A trace that is cut is a prefix of what was sent.
LEMMA CutIsPrefix ==
  ASSUME NEW events \in Seq(Served), NEW served \in Seq(Served), Cut(events, served)
  PROVE  R!IsPrefix(events, served)
<1> DEFINE e == Len(events)
           n == Len(served)
<1>1. e \in Nat /\ n \in Nat /\ e <= n /\ e <= e
  BY LenProperties DEF Cut
<1>2. \A k \in 1..e : events[k] = served[k]
  BY DEF Cut
<1>3. /\ SubSeq(served, 1, e) \in Seq(Served) /\ Len(SubSeq(served, 1, e)) = e
      /\ \A k \in 1..e : SubSeq(served, 1, e)[k] = served[k]
  <2> HIDE DEF e
  <2>1. QED
    BY <1>1, FirstPart DEF n
<1>4. /\ SubSeq(events, 1, e) \in Seq(Served) /\ Len(SubSeq(events, 1, e)) = e
      /\ \A k \in 1..e : SubSeq(events, 1, e)[k] = events[k]
  BY <1>1, FirstPart
<1>5. \A k \in 1..e : SubSeq(events, 1, e)[k] = SubSeq(served, 1, e)[k]
  BY <1>2, <1>3, <1>4
<1>6. SubSeq(events, 1, e) = SubSeq(served, 1, e)
  BY <1>3, <1>4, <1>5, SeqEqual
<1>7. QED
  BY <1>1, <1>6 DEF R!IsPrefix

\* What TraceComplete says follows.
LEMMA TraceMeans ==
  ASSUME RunTypes, Traced
  PROVE  R!TraceComplete
<1>1. ASSUME NEW c \in DOMAIN states, peers[c].poisoned
      PROVE  /\ R!IsPrefix(states[c].events, peers[c].served)
             /\ peers[c].served[Len(states[c].events) + 1].type = "Garbage"
  <2>1. Cut(states[c].events, peers[c].served)
    BY <1>1 DEF Traced, TraceAt
  <2>2. states[c].events \in Seq(Served) /\ peers[c].served \in Seq(Served)
    BY DEF RunTypes, TablesOK, StateOK, PeerOK
  <2>3. QED
    BY <2>1, <2>2, CutIsPrefix DEF Cut
<1>2. ASSUME NEW c \in DOMAIN states, ~peers[c].poisoned
      PROVE  states[c].events \o peers[c].inbox = peers[c].served
  BY <1>2 DEF Traced, TraceAt
<1>3. QED
  BY <1>1, <1>2 DEF R!TraceComplete, R!Open

-----------------------------------------------------------------------------
(* What became of the frames of the traces. *)

Answered(results, c, k) ==
  {s \in DOMAIN results : results[s].connection = c /\ results[s].place = k}

AccountedAt(results, probed, events, c, k) ==
  IF <<c, k>> \in probed THEN Answered(results, c, k) = {}
  ELSE \/ \E s \in Answered(results, c, k) : Answered(results, c, k) = {s}
       \/ Answered(results, c, k) = {} /\ ~R!Decodes(events[k])

\* Every frame is accounted for once, and no frame is before it has arrived.
Accounted ==
  /\ \A c, k : <<c, k>> \in unsolicited => c \in DOMAIN states /\ k \in DOMAIN states[c].events
  /\ \A s \in DOMAIN session_results :
       \/ session_results[s].place = 0
       \/ /\ session_results[s].connection \in DOMAIN states
          /\ session_results[s].place \in DOMAIN states[session_results[s].connection].events
  /\ \A c \in DOMAIN states : \A k \in DOMAIN states[c].events :
       AccountedAt(session_results, unsolicited, states[c].events, c, k)

\* What the runner's EventsAccounted says follows.
LEMMA AccountedMeans ==
  ASSUME Accounted
  PROVE  R!EventsAccounted
  BY DEF Accounted, AccountedAt, Answered, R!EventsAccounted, R!Open

\* A step that takes no frame.
LEMMA AccountedStays ==
  ASSUME Accounted, UNCHANGED <<session_results, unsolicited>>,
         DOMAIN states \subseteq DOMAIN states',
         \A c \in DOMAIN states : states'[c].events = states[c].events,
         \A c \in DOMAIN states' : c \in DOMAIN states \/ DOMAIN states'[c].events = {}
  PROVE  Accounted'
<1>1. \A c, k : <<c, k>> \in unsolicited => c \in DOMAIN states' /\ k \in DOMAIN states'[c].events
  BY DEF Accounted
<1>2. \A s \in DOMAIN session_results :
        \/ session_results[s].place = 0
        \/ /\ session_results[s].connection \in DOMAIN states'
           /\ session_results[s].place \in DOMAIN states'[session_results[s].connection].events
  BY DEF Accounted
<1>3. ASSUME NEW c \in DOMAIN states', NEW k \in DOMAIN states'[c].events
      PROVE  AccountedAt(session_results, unsolicited, states'[c].events, c, k)
  <2>1. c \in DOMAIN states /\ states'[c].events = states[c].events
    OBVIOUS
  <2>2. QED
    BY <2>1 DEF Accounted
<1>4. QED
  BY <1>1, <1>2, <1>3 DEF Accounted, AccountedAt, Answered, R!Decodes

\* The frames a step takes come right after those there were.
LEMMA TakenPlaces ==
  ASSUME TablesOK, NEW c, NEW taken, Takes(c, taken)
  PROVE  /\ Len(states[c].events) \in Nat /\ Len(taken) \in Nat
         /\ DOMAIN states[c].events = 1..Len(states[c].events)
         /\ DOMAIN states'[c].events = 1..(Len(states[c].events) + Len(taken))
         /\ \A k \in 1..Len(taken) : states'[c].events[Len(states[c].events) + k] = taken[k]
<1>1. states[c].events \in Seq(Served) /\ taken \in Seq(Served)
      /\ states'[c].events = states[c].events \o taken
  BY DEF Takes, TablesOK, StateOK
<1> DEFINE e == states[c].events
           n == Len(e)
           t == Len(taken)
           new == e \o taken
<1>2. n \in Nat /\ t \in Nat /\ DOMAIN e = 1..n
  BY <1>1, LenProperties
<1>3. /\ DOMAIN new = 1..(n + t)
      /\ \A k \in 1..(n + t) : new[k] = IF k <= n THEN e[k] ELSE taken[k - n]
  BY <1>1, ConcatProperties, LenProperties
<1> HIDE DEF n, t, new
<1>4. ASSUME NEW k \in 1..t PROVE new[n + k] = taken[k]
  <2>1. n + k \in 1..(n + t) /\ ~(n + k <= n) /\ (n + k) - n = k
    BY <1>2
  <2>2. QED
    BY <1>3, <2>1
<1>5. QED
  BY <1>1, <1>2, <1>3, <1>4 DEF n, t, new

\* A step that takes frames: what there was is accounted for as before, and the frames taken are
\* accounted for.
LEMMA AccountedTaken ==
  ASSUME RunTypes, Accounted, NEW c, NEW taken, Takes(c, taken),
         \A d, k : <<d, k>> \in unsolicited' =>
           \/ <<d, k>> \in unsolicited
           \/ d = c /\ k \in (Len(states[c].events) + 1)..(Len(states[c].events) + Len(taken)),
         unsolicited \subseteq unsolicited',
         \A d \in DOMAIN states : \A k \in DOMAIN states[d].events :
           Answered(session_results', d, k) = Answered(session_results, d, k),
         \A s \in DOMAIN session_results' :
           \/ session_results'[s].place = 0
           \/ /\ session_results'[s].connection \in DOMAIN states'
              /\ session_results'[s].place \in DOMAIN states'[session_results'[s].connection].events,
         \A k \in (Len(states[c].events) + 1)..(Len(states[c].events) + Len(taken)) :
           AccountedAt(session_results', unsolicited', states'[c].events, c, k)
  PROVE  Accounted'
<1> DEFINE n == Len(states[c].events)
           t == Len(taken)
<1>1. TablesOK
  BY DEF RunTypes
<1>2. n \in Nat /\ t \in Nat /\ DOMAIN states[c].events = 1..n /\ DOMAIN states'[c].events = 1..(n + t)
  BY <1>1, TakenPlaces
<1>3. TracesGrow
  BY <1>1, TakesGrows
<1>4. /\ c \in DOMAIN states /\ DOMAIN states' = DOMAIN states
      /\ \A d \in DOMAIN states : d # c => states'[d] = states[d]
  BY DEF Takes
<1>5. /\ \A d, k : <<d, k>> \in unsolicited' =>
           <<d, k>> \in unsolicited \/ (d = c /\ k \in (n + 1)..(n + t))
      /\ \A k \in (n + 1)..(n + t) :
           AccountedAt(session_results', unsolicited', states'[c].events, c, k)
  OBVIOUS
<1> HIDE DEF n, t
<1>6. /\ \A k \in (n + 1)..(n + t) : k \in 1..(n + t) /\ k \notin 1..n
      /\ \A k \in 1..(n + t) : k \in 1..n \/ k \in (n + 1)..(n + t)
  BY <1>2
<1>7. \A d, k : <<d, k>> \in unsolicited' => d \in DOMAIN states' /\ k \in DOMAIN states'[d].events
  BY <1>2, <1>3, <1>4, <1>5, <1>6 DEF Accounted, TracesGrow
<1>8. ASSUME NEW d \in DOMAIN states', NEW k \in DOMAIN states'[d].events
      PROVE  AccountedAt(session_results', unsolicited', states'[d].events, d, k)
  <2>1. CASE d = c /\ k \in (n + 1)..(n + t)
    BY <1>5, <2>1
  <2>2. CASE ~(d = c /\ k \in (n + 1)..(n + t))
    <3>1. d \in DOMAIN states /\ k \in DOMAIN states[d].events
      BY <1>2, <1>4, <1>6, <1>8, <2>2
    <3>2. states'[d].events[k] = states[d].events[k]
      BY <1>3, <3>1 DEF TracesGrow
    <3>3. Answered(session_results', d, k) = Answered(session_results, d, k)
      BY <3>1
    <3>4. <<d, k>> \in unsolicited' <=> <<d, k>> \in unsolicited
      BY <1>5, <2>2
    <3>5. AccountedAt(session_results, unsolicited, states[d].events, d, k)
      BY <3>1 DEF Accounted
    <3>6. QED
      BY <3>2, <3>3, <3>4, <3>5 DEF AccountedAt, R!Decodes
  <2>3. QED
    BY <2>1, <2>2
<1>9. QED
  BY <1>7, <1>8 DEF Accounted, AccountedAt, Answered, R!Decodes

\* No session is answered by a frame that has not arrived.
LEMMA NoneAnsweredYet ==
  ASSUME RunTypes, Accounted, NEW c \in DOMAIN states, NEW k \in Nat, k > Len(states[c].events)
  PROVE  Answered(session_results, c, k) = {} /\ <<c, k>> \notin unsolicited
<1>1. DOMAIN states[c].events = 1..Len(states[c].events) /\ Len(states[c].events) \in Nat
  BY LenProperties DEF RunTypes, TablesOK, StateOK
<1>2. k \notin DOMAIN states[c].events /\ k # 0
  BY <1>1
<1>3. <<c, k>> \notin unsolicited
  BY <1>2 DEF Accounted
<1>4. ASSUME NEW s \in Answered(session_results, c, k) PROVE FALSE
  <2>1. s \in DOMAIN session_results /\ session_results[s].connection = c
        /\ session_results[s].place = k
    BY <1>4 DEF Answered
  <2>2. QED
    BY <1>2, <2>1 DEF Accounted
<1>5. QED
  BY <1>3, <1>4

\* A frame that settles nothing is undecodable and accounted for as such,
LEMMA AccountedPump ==
  ASSUME RunTypes, Accounted, NEW c, NEW frame \in Served, PumpKind(c, frame)
  PROVE  Accounted'
<1> DEFINE n == Len(states[c].events)
<1>1. /\ Takes(c, <<frame>>) /\ ~R!Decodes(frame) /\ UNCHANGED <<session_results, unsolicited>>
  BY DEF PumpKind
<1>2. TablesOK /\ c \in DOMAIN states /\ DOMAIN states' = DOMAIN states
  BY <1>1 DEF RunTypes, Takes
<1>3. /\ n \in Nat /\ Len(<<frame>>) = 1 /\ <<frame>>[1] = frame
      /\ \A k \in 1..Len(<<frame>>) : states'[c].events[n + k] = <<frame>>[k]
  BY <1>1, <1>2, TakenPlaces
<1>4. states'[c].events[n + 1] = frame
  BY <1>3
<1>5. Answered(session_results, c, n + 1) = {} /\ <<c, n + 1>> \notin unsolicited
  BY <1>2, <1>3, NoneAnsweredYet
<1>6. AccountedAt(session_results', unsolicited', states'[c].events, c, n + 1)
  BY <1>1, <1>4, <1>5 DEF AccountedAt, R!Decodes
<1>7. \A k \in (n + 1)..(n + Len(<<frame>>)) : k = n + 1
  BY <1>3
<1>8. \A s \in DOMAIN session_results' :
        \/ session_results'[s].place = 0
        \/ /\ session_results'[s].connection \in DOMAIN states'
           /\ session_results'[s].place \in DOMAIN states'[session_results'[s].connection].events
  BY <1>1, <1>2, TakesGrows DEF Accounted, TracesGrow
<1> HIDE DEF n
<1>9. \A k \in (n + 1)..(n + Len(<<frame>>)) :
        AccountedAt(session_results', unsolicited', states'[c].events, c, k)
  BY <1>6, <1>7
<1>10. QED
  BY <1>1, <1>8, <1>9, AccountedTaken DEF n

\* frames that a probe drains are dispatched once,
LEMMA AccountedDrain ==
  ASSUME RunTypes, Accounted, NEW c, NEW taken, DrainKind(c, taken)
  PROVE  Accounted'
<1> DEFINE n == Len(states[c].events)
           t == Len(taken)
<1>1. /\ Takes(c, taken) /\ UNCHANGED session_results
      /\ unsolicited' = unsolicited \cup {<<c, k>> : k \in (n + 1)..(n + t)}
  BY DEF DrainKind
<1>2. TablesOK /\ c \in DOMAIN states /\ DOMAIN states' = DOMAIN states
  BY <1>1 DEF RunTypes, Takes
<1>3. n \in Nat /\ t \in Nat
  BY <1>1, <1>2, TakenPlaces
<1>4. \A s \in DOMAIN session_results' :
        \/ session_results'[s].place = 0
        \/ /\ session_results'[s].connection \in DOMAIN states'
           /\ session_results'[s].place \in DOMAIN states'[session_results'[s].connection].events
  BY <1>1, <1>2, TakesGrows DEF Accounted, TracesGrow
<1> HIDE DEF t
<1>5. ASSUME NEW k \in (n + 1)..(n + t)
      PROVE  AccountedAt(session_results', unsolicited', states'[c].events, c, k)
  <2>1. k \in Nat /\ k > n
    BY <1>3
  <2>2. Answered(session_results, c, k) = {}
    BY <1>2, <2>1, NoneAnsweredYet
  <2>3. QED
    BY <1>1, <2>2 DEF AccountedAt
<1> HIDE DEF n
<1>6. /\ \A d, k : <<d, k>> \in unsolicited' =>
           <<d, k>> \in unsolicited \/ (d = c /\ k \in (n + 1)..(n + t))
      /\ unsolicited \subseteq unsolicited'
  BY <1>1
<1>7. QED
  BY <1>1, <1>4, <1>5, <1>6, AccountedTaken DEF n, t

\* a frame that ends an await answers its session,
LEMMA AccountedAwait ==
  ASSUME CompileInv, RunTypes, Bound, Accounted, NEW c, NEW o, NEW taken, AwaitKind(c, o, taken)
  PROVE  Accounted'
<1> DEFINE n == Len(states[c].events)
           t == Len(taken)
           s0 == actions[next].session
           found == [connection |-> c, first |-> actions[next].first_on_connection,
                     response |-> R!Response(o),
                     place |-> IF o.tag = "Completed" THEN n + 1 ELSE 0,
                     by |-> o.frame.answers]
<1>1. /\ Takes(c, taken) /\ UNCHANGED unsolicited
      /\ IF o.tag = "Completed" THEN taken = <<o.frame>> ELSE taken = << >>
      /\ session_results' = R!Insert(session_results, s0, found)
  BY DEF AwaitKind
<1>2. TablesOK /\ c \in DOMAIN states /\ DOMAIN states' = DOMAIN states
  BY <1>1 DEF RunTypes, Takes
<1>3. s0 \notin DOMAIN session_results
  BY AwaitIsFresh DEF AwaitKind, Bound
<1>4. /\ n \in Nat /\ t \in Nat /\ DOMAIN states[c].events = 1..n
      /\ DOMAIN states'[c].events = 1..(n + t)
  BY <1>1, <1>2, TakenPlaces
<1>5. t = IF o.tag = "Completed" THEN 1 ELSE 0
  BY <1>1
<1>6. /\ DOMAIN session_results' = DOMAIN session_results \cup {s0}
      /\ session_results'[s0] = found
      /\ \A s \in DOMAIN session_results : session_results'[s] = session_results[s]
  BY <1>1, <1>3 DEF R!Insert
<1>7. found.connection = c /\ found.place = IF o.tag = "Completed" THEN n + 1 ELSE 0
  OBVIOUS
<1> HIDE DEF t, s0, found
<1>8. ASSUME NEW d \in DOMAIN states, NEW k \in DOMAIN states[d].events
      PROVE  Answered(session_results', d, k) = Answered(session_results, d, k)
  <2>1. ~(found.connection = d /\ found.place = k)
    BY <1>4, <1>7
  <2>2. QED
    BY <1>3, <1>6, <2>1 DEF Answered
<1>9. ASSUME NEW s \in DOMAIN session_results'
      PROVE  \/ session_results'[s].place = 0
             \/ /\ session_results'[s].connection \in DOMAIN states'
                /\ session_results'[s].place \in
                     DOMAIN states'[session_results'[s].connection].events
  <2>1. CASE s = s0
    <3>1. o.tag = "Completed" => n + 1 \in 1..(n + t)
      BY <1>4, <1>5
    <3>2. QED
      BY <1>2, <1>4, <1>6, <1>7, <2>1, <3>1
  <2>2. CASE s # s0
    <3>1. s \in DOMAIN session_results /\ session_results'[s] = session_results[s]
      BY <1>6, <2>2
    <3>2. QED
      BY <1>1, <1>2, <3>1, TakesGrows DEF Accounted, TracesGrow
  <2>3. QED
    BY <2>1, <2>2
<1> HIDE DEF n
<1>10. ASSUME NEW k \in (n + 1)..(n + t)
       PROVE  AccountedAt(session_results', unsolicited', states'[c].events, c, k)
  <2>1. k = n + 1 /\ o.tag = "Completed"
    BY <1>4, <1>5
  <2>2. Answered(session_results, c, n + 1) = {} /\ <<c, n + 1>> \notin unsolicited
    <3>1. n + 1 \in Nat /\ n + 1 > n
      BY <1>4
    <3>2. QED
      BY <1>2, <3>1, NoneAnsweredYet DEF n
  <2>3. Answered(session_results', c, n + 1) = {s0}
    <3>1. s0 \in Answered(session_results', c, n + 1)
      BY <1>6, <1>7, <2>1 DEF Answered
    <3>2. ASSUME NEW s \in Answered(session_results', c, n + 1) PROVE s = s0
      <4>1. SUFFICES ASSUME s # s0 PROVE FALSE
        OBVIOUS
      <4>2. s \in Answered(session_results, c, n + 1)
        BY <1>6, <3>2, <4>1 DEF Answered
      <4>3. QED
        BY <2>2, <4>2
    <3>3. QED
      BY <3>1, <3>2
  <2>4. QED
    BY <1>1, <2>1, <2>2, <2>3 DEF AccountedAt
<1>11. QED
  BY <1>1, <1>8, <1>9, <1>10, AccountedTaken DEF n, t

\* and so every step keeps events accounted for.
LEMMA AccountedStep ==
  ASSUME CompileInv, RunTypes, Bound, Accounted, RunKind
  PROVE  Accounted'
<1>1. ASSUME NEW o \in Outcome, RecordKind(o) PROVE Accounted'
  BY <1>1, AccountedStays DEF RecordKind
<1>2. ASSUME NEW last \in Nat, SkipKind(last) PROVE Accounted'
  BY <1>2, AccountedStays DEF SkipKind
<1>3. ASSUME NEW c \in Nat, ConnectKind(c) PROVE Accounted'
  <2>1. c \notin DOMAIN states
    BY <1>3, ConnectIsFresh DEF Bound
  <2>2. states' = R!Insert(states, c, R!NewState) /\ UNCHANGED <<session_results, unsolicited>>
    BY <1>3 DEF ConnectKind
  <2>3. /\ DOMAIN states' = DOMAIN states \cup {c} /\ states'[c] = R!NewState
        /\ \A d \in DOMAIN states : states'[d] = states[d]
    BY <2>1, <2>2 DEF R!Insert
  <2>4. DOMAIN R!NewState.events = {}
    BY DEF R!NewState
  <2>5. QED
    BY <2>2, <2>3, <2>4, AccountedStays
<1>4. ASSUME NEW frame \in Served, PumpKind(actions[next].connection, frame) PROVE Accounted'
  BY <1>4, AccountedPump
<1>5. ASSUME NEW o \in Outcome, NEW taken, AwaitKind(actions[next].connection, o, taken)
      PROVE  Accounted'
  BY <1>5, AccountedAwait
<1>6. ASSUME NEW c \in DOMAIN states, NEW taken, DrainKind(c, taken) PROVE Accounted'
  BY <1>6, AccountedDrain
<1>7. ASSUME NEW c \in DOMAIN peers, NEW frame \in Served, ServeKind(c, frame) PROVE Accounted'
  BY <1>7, AccountedStays DEF ServeKind
<1>8. CASE QuietKind
  BY <1>8, AccountedStays DEF QuietKind
<1>9. QED
  BY <1>1, <1>2, <1>3, <1>4, <1>5, <1>6, <1>7, <1>8 DEF RunKind

-----------------------------------------------------------------------------
(* The invariant of whole executions. *)

RunInv == RunTypes /\ Bound /\ Blocks /\ Traced /\ Accounted

\* The runner starts once the program is compiled.
Waits == compile_result # "compiled" => R!RunnerInit /\ verdict = "none"

HarnessInv == CompileInv /\ RunInv /\ Waits

\* A runner that has not begun.
LEMMA IdleRuns ==
  ASSUME CompileTypes, R!RunnerInit
  PROVE  RunInv
<1>1. /\ next = 1 /\ mode = "step" /\ undrained = << >> /\ outcomes = << >> /\ session_results = << >>
      /\ connection_roles = << >> /\ unsolicited = {} /\ states = << >> /\ peers = << >>
  BY DEF R!RunnerInit
<1>2. DOMAIN << >> = {} /\ Len(<< >>) = 0 /\ << >> \in Seq(Outcome)
  OBVIOUS
<1>3. Len(actions) \in Nat
  BY LenProperties DEF CompileTypes
<1>4. next \in 1..(Len(actions) + 1) /\ Len(outcomes) = next - 1 /\ next - 1 = 0
  BY <1>1, <1>2, <1>3
<1>5. RunTypes
  <2>1. IsFiniteSet({}) /\ << >> \in Seq({})
    BY FS_EmptySet
  <2>2. TablesOK
    BY <1>1, <1>2, <2>1 DEF TablesOK
  <2>3. PlaceOK
    BY <1>1, <1>2, <1>4 DEF PlaceOK
  <2>4. QED
    BY <2>2, <2>3 DEF RunTypes
<1>6. Bound
  BY <1>1, <1>2 DEF Bound, SessionsBound, AwaitsBound, PlacesBound, OpenedBy
<1>7. Blocks
  <2>1. \A k : k \notin 1..(next - 1)
    BY <1>4
  <2>2. QED
    BY <2>1 DEF Blocks, Guarded
<1>8. Traced /\ Accounted
  BY <1>1, <1>2 DEF Traced, Accounted
<1>9. QED
  BY <1>5, <1>6, <1>7, <1>8 DEF RunInv

\* The parts of the invariant about a run, together.
LEMMA RunInvStep ==
  ASSUME CompileInv, RunInv, UNCHANGED actions, RunStep
  PROVE  RunInv'
<1>1. RunTypes' /\ RunKind
  BY RunStepKind DEF RunInv
<1>2. Bound'
  BY <1>1, BoundStep DEF RunInv
<1>3. Blocks'
  BY <1>1, BlocksStep DEF RunInv
<1>4. Traced'
  BY <1>1, TraceStep DEF RunInv
<1>5. Accounted'
  BY <1>1, AccountedStep DEF RunInv
<1>6. QED
  BY <1>1, <1>2, <1>3, <1>4, <1>5 DEF RunInv

\* The steps of an execution: the compiler's, those of the run, and what only sets the verdict.
LEMMA HarnessSteps ==
  ASSUME HarnessNext
  PROVE  \/ Compile
         \/ Running /\ RunStep /\ UNCHANGED <<compiler_vars, environment, verdict>>
         \/ (Skip \/ Judge) /\ UNCHANGED <<compiler_vars, environment, runner_vars>>
<1>1. CASE Compile
  BY <1>1
<1>2. CASE Skip \/ Judge
  BY <1>2 DEF Skip, Judge
<1>3. CASE Run \/ TimeOut
  BY <1>3 DEF Run, TimeOut, RunStep
<1>4. ASSUME NEW c, NEW frame, ServerSends(c, frame)
      PROVE  Running /\ UNCHANGED <<compiler_vars, environment, verdict>>
  BY <1>4 DEF ServerSends
<1>5. ASSUME NEW c, ServerCloses(c)
      PROVE  Running /\ UNCHANGED <<compiler_vars, environment, verdict>>
  BY <1>5 DEF ServerCloses
<1>6. CASE ServerNext
  BY <1>4, <1>5, <1>6 DEF ServerNext, ServerDies, RunStep
<1>7. CASE ConformingServerNext
  BY <1>4, <1>5, <1>7 DEF ConformingServerNext, ServerAnswers, RunStep
<1>8. QED
  BY <1>1, <1>2, <1>3, <1>6, <1>7 DEF HarnessNext, ConformingTimeOut

\* A harness starts on any program of those given.
LEMMA HarnessInvInit ==
  ASSUME HarnessInit
  PROVE  HarnessInv
<1>1. PICK p \in Programs : CompilerInit(p)
  BY DEF HarnessInit
<1>2. p \in Seq(Instruction) /\ 2 * Len(p) < MaxActionId
  BY ProgramsAssumption
<1>3. CompileInv
  BY <1>1, <1>2, CompileInvInit
<1>4. CompileTypes
  BY <1>3 DEF CompileInv
<1>5. QED
  BY <1>3, <1>4, IdleRuns DEF HarnessInit, HarnessInv, Waits

\* A run that is left alone stays as it is.
LEMMA RunInvStays ==
  ASSUME RunInv, UNCHANGED <<actions, runner_vars>>
  PROVE  RunInv'
<1>1. UNCHANGED <<actions, next, mode, undrained, outcomes, session_results, connection_roles,
                  unsolicited, states, peers>>
  BY DEF runner_vars, run_vars
<1>2. RunTypes'
  BY <1>1 DEF RunInv, RunTypes, TablesOK, PlaceOK
<1>3. Bound'
  BY <1>1 DEF RunInv, Bound, SessionsBound, AwaitsBound, PlacesBound, OpenedBy, R!Response
<1>4. Blocks'
  BY <1>1 DEF RunInv, Blocks, Guarded, EstablishedIn
<1>5. Traced'
  BY <1>1 DEF RunInv, Traced, TraceAt, Cut
<1>6. Accounted'
  BY <1>1 DEF RunInv, Accounted, AccountedAt, Answered, R!Decodes
<1>7. QED
  BY <1>2, <1>3, <1>4, <1>5, <1>6 DEF RunInv

\* Compiling, running, judging: each keeps the invariant.
LEMMA HarnessInvStep ==
  ASSUME HarnessInv, [HarnessNext]_harness_vars
  PROVE  HarnessInv'
<1>1. CompileInv /\ RunInv /\ Waits
  BY DEF HarnessInv
<1>2. CASE Compile
  <2>1. compile_result = "compiling" /\ CompilerNext /\ UNCHANGED <<runner_vars, verdict>>
    BY <1>2 DEF Compile, CompilerNext
  <2>2. CompileInv' /\ CompileTypes'
    BY <1>1, <2>1, CompileInvStep DEF CompileInv
  <2>3. R!RunnerInit /\ verdict = "none"
    BY <1>1, <2>1 DEF Waits
  <2>4. R!RunnerInit' /\ verdict' = "none"
    BY <2>1, <2>3 DEF runner_vars, run_vars, R!RunnerInit
  <2>5. (CompileTypes /\ R!RunnerInit => RunInv)'
    BY IdleRuns, PTL
  <2>6. QED
    BY <2>2, <2>4, <2>5 DEF HarnessInv, Waits
<1>3. ASSUME Running, RunStep, UNCHANGED <<compiler_vars, environment, verdict>>
      PROVE  HarnessInv'
  <2>1. UNCHANGED <<actions, compile_result>> /\ compile_result = "compiled"
    BY <1>3 DEF compiler_vars, Running
  <2>2. RunInv'
    BY <1>1, <1>3, <2>1, RunInvStep
  <2>3. CompileInv'
    BY <1>1, <1>3, CompileInvStays
  <2>4. QED
    BY <2>1, <2>2, <2>3 DEF HarnessInv, Waits
<1>4. ASSUME Skip \/ Judge, UNCHANGED <<compiler_vars, environment, runner_vars>>
      PROVE  HarnessInv'
  <2>1. UNCHANGED <<actions, compile_result>> /\ compile_result = "compiled"
    BY <1>4 DEF compiler_vars, Skip, Judge, Running
  <2>2. RunInv' /\ CompileInv'
    BY <1>1, <1>4, <2>1, RunInvStays, CompileInvStays
  <2>3. QED
    BY <2>1, <2>2 DEF HarnessInv, Waits
<1>5. CASE UNCHANGED harness_vars
  <2>1. UNCHANGED <<compiler_vars, runner_vars, verdict>> /\ UNCHANGED <<actions, compile_result>>
    BY <1>5 DEF harness_vars, compiler_vars
  <2>2. RunInv' /\ CompileInv'
    BY <1>1, <2>1, RunInvStays, CompileInvStays
  <2>3. Waits'
    BY <1>1, <2>1 DEF Waits, R!RunnerInit, runner_vars, run_vars
  <2>4. QED
    BY <2>2, <2>3 DEF HarnessInv
<1>6. QED
  BY <1>2, <1>3, <1>4, <1>5, HarnessSteps

\* The compiler's invariant and the runner's hold together of every execution (compiler.rs,
\* runner.rs), and the runner is untouched until the program is compiled.
THEOREM HarnessInvariant == HarnessSpec => []HarnessInv
  BY HarnessInvInit, HarnessInvStep, PTL DEF HarnessSpec

\* Whatever the server does and whatever fails, the runner's state is well formed and it records
\* one outcome per action, in the actions' order; a session is bound by the await it belongs to,
\* unless the await was skipped, and by nothing else.
THEOREM OutcomesAreOnePerAction == HarnessSpec => []OneOutcomePerAction
<1>1. HarnessInv => OneOutcomePerAction
  BY BoundMeans DEF HarnessInv, RunInv
<1>2. QED
  BY <1>1, HarnessInvariant, PTL

\* Nothing in a block is attempted before a SetupConnection.Success arrived on the connection of
\* the block's session, and a block is skipped as a whole.
THEOREM BlocksAreGuarded == HarnessSpec => []BlockGuarded
<1>1. HarnessInv => BlockGuarded
  BY BlocksMeans DEF HarnessInv, RunInv
<1>2. QED
  BY <1>1, HarnessInvariant, PTL

\* The trace of a connection is what the server sent on it, in order, up to a frame that does
\* not decrypt; and every frame in it answered one session, was collected by a probe, or did not
\* decode, and only one of these.
THEOREM EventsAreAccounted == HarnessSpec => []EventsAccounted
<1>1. HarnessInv => EventsAccounted
  BY TraceMeans, AccountedMeans DEF HarnessInv, RunInv, EventsAccounted
<1>2. QED
  BY <1>1, HarnessInvariant, PTL

-----------------------------------------------------------------------------
(* Verdicts. *)

\* A verdict stands for the state it was reached in, and a connection for a role there is.
Judged ==
  /\ roles \in Deployments
  /\ verdict = "Ok" =>
       Evaluate(actions, metadata, roles, outcomes, connection_roles, alive) = "Ok"
  /\ \A c \in DOMAIN connection_roles : connection_roles[c] \in Nat /\ connection_roles[c] < Len(roles)

\* The roles of the connections change when one is opened.
LEMMA RolesChange ==
  ASSUME RunStep
  PROVE  R!Connect \/ UNCHANGED connection_roles
<1>1. CASE R!RunnerNext
  <2>1. CASE \/ R!SkipBlock \/ R!EnterBlock \/ R!ExitBlock \/ R!ConnectFails \/ R!SendNotOpen
             \/ R!SendFails \/ R!AdvanceTime \/ R!AwaitNotOpen
    BY <2>1 DEF R!SkipBlock, R!EnterBlock, R!ExitBlock, R!ConnectFails, R!SendNotOpen,
      R!SendFails, R!AdvanceTime, R!AwaitNotOpen, R!OnlyRecorded
  <2>2. CASE R!Send \/ R!AwaitBegin \/ R!PumpReceives \/ R!PumpPoisoned \/ R!PumpClosed
    BY <2>2 DEF R!Send, R!AwaitBegin, R!PumpReceives, R!PumpPoisoned, R!PumpClosed, R!execution
  <2>3. CASE R!ProbeBegin \/ R!ProbeReceives \/ R!ProbeFails \/ R!ProbeEnds \/ R!RunEnds
    BY <2>3 DEF R!ProbeBegin, R!ProbeReceives, R!ProbeFails, R!ProbeEnds, R!RunEnds, R!execution
  <2>4. QED
    BY <1>1, <2>1, <2>2, <2>3 DEF R!RunnerNext
<1>2. CASE R!PumpTimesOut \/ R!SendTimesOut
  <2>1. R!PumpTimesOut => UNCHANGED connection_roles
    BY DEF R!PumpTimesOut
  <2>2. R!SendTimesOut => UNCHANGED connection_roles
    BY Zenon DEF R!SendTimesOut
  <2>3. QED
    BY <1>2, <2>1, <2>2
<1>3. CASE ServerNext \/ ConformingServerNext
  BY <1>3, Zenon DEF ServerNext, ConformingServerNext, ServerAnswers, ServerSends, ServerCloses,
    ServerDies, run_vars
<1>4. QED
  BY <1>1, <1>2, <1>3 DEF RunStep

\* A verdict is reached once, in a state that does not change any more.
LEMMA JudgedStep ==
  ASSUME HarnessInv, Judged, [HarnessNext]_harness_vars
  PROVE  Judged'
<1>1. CASE Compile
  <2>1. /\ compile_result = "compiling"
        /\ UNCHANGED <<roles, connection_roles, verdict>>
    BY <1>1 DEF Compile, CompilerNext, environment, runner_vars, run_vars
  <2>2. verdict # "Ok"
    BY <2>1 DEF HarnessInv, Waits
  <2>3. QED
    BY <2>1, <2>2 DEF Judged
<1>2. ASSUME Running, RunStep, UNCHANGED <<compiler_vars, environment, verdict>>
      PROVE  Judged'
  <2>1. verdict' # "Ok" /\ UNCHANGED <<roles, actions>>
    BY <1>2 DEF Running, environment, compiler_vars
  <2>2. CASE UNCHANGED connection_roles
    BY <2>1, <2>2 DEF Judged
  <2>3. CASE R!Connect
    <3>1. /\ next \in DOMAIN actions /\ actions[next].name = "Connect"
          /\ actions[next].role < Len(roles)
          /\ connection_roles' =
               R!Insert(connection_roles, actions[next].connection, actions[next].role)
      BY <2>3 DEF R!Connect, R!Doing, R!Current, R!RolesWith
    <3>2. actions[next] \in CompiledAction
      BY <3>1, HandAction DEF HarnessInv, CompileInv, RunInv, RunTypes
    <3>3. actions[next].role \in Nat
      BY <3>1, <3>2 DEF CompiledAction
    <3>4. QED
      BY <2>1, <3>1, <3>3 DEF Judged, R!Insert
  <2>4. QED
    BY <1>2, <2>2, <2>3, RolesChange
<1>3. ASSUME Skip \/ Judge, UNCHANGED <<compiler_vars, environment, runner_vars>>
      PROVE  Judged'
  <2>1. UNCHANGED <<actions, metadata, roles, outcomes, connection_roles, alive>>
    BY <1>3 DEF compiler_vars, environment, runner_vars, run_vars
  <2>2. \/ verdict' = "Skip"
        \/ \E answered \in {FALSE, alive} :
             verdict' = Evaluate(actions, metadata, roles, outcomes, connection_roles, answered)
    BY <1>3 DEF Skip, Judge, Answering
  <2>3. Evaluate(actions, metadata, roles, outcomes, connection_roles, FALSE) # "Ok"
    BY DEF Evaluate, HarnessIntegrity
  <2>4. verdict' = "Ok" =>
          Evaluate(actions, metadata, roles, outcomes, connection_roles, alive) = "Ok"
    BY <2>2, <2>3
  <2>5. verdict' = "Ok" =>
          Evaluate(actions, metadata, roles, outcomes, connection_roles, alive)' = "Ok"
    BY <2>1, <2>4 DEF Evaluate, HarnessIntegrity, SetupConnectionConforms, Check, Owed,
      AcceptableSuccess
  <2>6. QED
    BY <2>1, <2>5 DEF Judged
<1>4. CASE UNCHANGED harness_vars
  <2>1. UNCHANGED <<actions, metadata, roles, outcomes, connection_roles, alive, verdict>>
    BY <1>4 DEF harness_vars, compiler_vars, environment, runner_vars, run_vars
  <2>2. Evaluate(actions, metadata, roles, outcomes, connection_roles, alive)'
          = Evaluate(actions, metadata, roles, outcomes, connection_roles, alive)
    BY <2>1 DEF Evaluate, HarnessIntegrity, SetupConnectionConforms, Check, Owed, AcceptableSuccess
  <2>3. QED
    BY <2>1, <2>2 DEF Judged
<1>5. QED
  BY <1>1, <1>2, <1>3, <1>4, HarnessSteps

\* What a SetupConnection.Success a server sends holds.
LEMMA SuccessFrame ==
  ASSUME NEW frame \in Served, frame.type = "Success"
  PROVE  [version |-> frame.version, fixed |-> frame.fixed] \in Successes /\ frame.version \in Nat
<1>1. frame \notin OtherFrames
  BY FramesAssumption DEF OtherFrames, Answer
<1>2. PICK id \in Nat : frame \in Answers(id)
  <2>1. frame \in UNION {Answers(id) : id \in Nat}
    BY <1>1 DEF Served
  <2>2. QED
    BY <2>1, Zenon
<1>3. frame # Answer("Error", NoSuccess, id)
  BY DEF Answer
<1>4. PICK s \in Successes : frame = Answer("Success", s, id)
  BY <1>2, <1>3 DEF Answers
<1>5. s \in [version : Nat, fixed : BOOLEAN]
  BY FramesAssumption
<1>6. frame.version = s.version /\ frame.fixed = s.fixed
  BY <1>4 DEF Answer
<1>7. s = [version |-> s.version, fixed |-> s.fixed] /\ s.version \in Nat
  BY <1>5
<1>8. QED
  BY <1>4, <1>6, <1>7

\* A success the oracle accepts is one the specification permits.
LEMMA AcceptableIsPermitted ==
  ASSUME NEW frame \in Served, frame.type = "Success",
         NEW config \in [protocol : Protocols, min_version : Nat, max_version : Nat],
         NEW spec \in Setup, AcceptableSuccess(config, spec, frame)
  PROVE  <<frame.type, [version |-> frame.version, fixed |-> frame.fixed]>>
           \in Permitted(config, spec)
<1> DEFINE s == [version |-> frame.version, fixed |-> frame.fixed]
<1>1. s \in Successes /\ frame.version \in Nat /\ s.version = frame.version /\ s.fixed = frame.fixed
  BY SuccessFrame
<1>2. config.min_version \in Nat /\ config.max_version \in Nat /\ spec.min_version \in Nat
      /\ spec.max_version \in Nat
  BY VersionsAssumption DEF Setup
<1>3. /\ spec.min_version <= frame.version /\ frame.version <= spec.max_version
      /\ config.min_version <= frame.version /\ frame.version <= config.max_version
      /\ config.protocol = spec.protocol
      /\ ~(spec.protocol = "Mining" /\ frame.fixed /\ "rolling" \in spec.flags)
  BY <1>1, <1>2 DEF AcceptableSuccess
<1> HIDE DEF s
<1>4. /\ s.version >= config.min_version /\ s.version <= config.max_version
      /\ s.version >= spec.min_version /\ s.version <= spec.max_version
  BY <1>1, <1>2, <1>3
<1>5. s.fixed => spec.protocol # "Mining" \/ "rolling" \notin spec.flags
  BY <1>1, <1>3
<1>6. <<"Success", s>> \in {"Error", "Success"} \X Successes /\ <<"Success", s>>[2] = s
  BY <1>1
<1>7. <<"Success", s>> \in Permitted(config, spec)
  BY <1>3, <1>4, <1>5, <1>6 DEF Permitted
<1>8. QED
  BY <1>7 DEF s

\* A frame of a trace was sent by the server.
LEMMA TraceWasServed ==
  ASSUME RunTypes, Traced, NEW c \in DOMAIN states, NEW k \in DOMAIN states[c].events
  PROVE  k \in DOMAIN peers[c].served /\ peers[c].served[k] = states[c].events[k]
         /\ states[c].events[k] \in Served
<1> DEFINE e == states[c].events
           n == Len(e)
           served == peers[c].served
           m == Len(served)
<1>1. /\ e \in Seq(Served) /\ served \in Seq(Served) /\ peers[c].inbox \in Seq(Served)
      /\ n \in Nat /\ m \in Nat /\ DOMAIN e = 1..n /\ DOMAIN served = 1..m
  BY LenProperties DEF RunTypes, TablesOK, StateOK, PeerOK
<1>2. e[k] \in Served
  BY <1>1, ElementOfSeq
<1>3. TraceAt(e, peers[c])
  BY DEF Traced
<1>4. CASE peers[c].poisoned
  <2>1. n < m /\ \A j \in 1..n : e[j] = served[j]
    BY <1>3, <1>4 DEF TraceAt, Cut
  <2> HIDE DEF n, m, e, served
  <2>2. k \in 1..n /\ k \in 1..m
    BY <1>1, <2>1 DEF e
  <2>3. QED
    BY <1>1, <1>2, <2>1, <2>2 DEF e, served
<1>5. CASE ~peers[c].poisoned
  <2>1. served = e \o peers[c].inbox
    BY <1>3, <1>5 DEF TraceAt
  <2>2. \A j \in DOMAIN e : j \in DOMAIN (e \o peers[c].inbox) /\ (e \o peers[c].inbox)[j] = e[j]
    <3> HIDE DEF e
    <3>1. QED
      BY <1>1, TraceAdded
  <2>3. QED
    BY <1>2, <2>1, <2>2
<1>6. QED
  BY <1>4, <1>5

\* What PassIsEarned says follows.
LEMMA JudgedMeans ==
  ASSUME HarnessInv, Judged
  PROVE  PassIsEarned
<1>1. SUFFICES ASSUME verdict = "Ok" PROVE
        /\ alive
        /\ \A id \in Awaits :
             LET c == actions[id].connection
             IN /\ actions[id].first_on_connection
                /\ id \notin DOMAIN metadata.violations
                /\ c \in R!Open
                /\ outcomes[id].tag # "Skipped"
                => \E k \in DOMAIN peers[c].served :
                     LET f == peers[c].served[k]
                     IN <<f.type, [version |-> f.version, fixed |-> f.fixed]>> \in
                          Permitted(roles[connection_roles[c] + 1], actions[id - 1].payload)
                        \/ f.type = "Error"
  BY DEF PassIsEarned
<1>2. /\ Len(outcomes) = Len(actions) /\ alive
      /\ SetupConnectionConforms(actions, metadata, roles, outcomes, connection_roles)
  BY <1>1 DEF Judged, Evaluate, HarnessIntegrity
<1>3. /\ CompileTypes /\ AwaitsPaired(actions, metadata.session_setups) /\ RunTypes /\ AwaitsBound
      /\ Traced
  BY DEF HarnessInv, CompileInv, RunInv, Bound
<1>4. SUFFICES ASSUME NEW id \in Awaits, actions[id].first_on_connection,
                      id \notin DOMAIN metadata.violations,
                      actions[id].connection \in DOMAIN states, outcomes[id].tag # "Skipped"
               PROVE  \E k \in DOMAIN peers[actions[id].connection].served :
                        LET f == peers[actions[id].connection].served[k]
                        IN <<f.type, [version |-> f.version, fixed |-> f.fixed]>> \in
                             Permitted(roles[connection_roles[actions[id].connection] + 1],
                                       actions[id - 1].payload)
                           \/ f.type = "Error"
  BY <1>2 DEF R!Open
<1> DEFINE c == actions[id].connection
           config == roles[connection_roles[c] + 1]
           spec == metadata.session_setups[actions[id].session]
<1>5. id \in DOMAIN actions /\ actions[id].name = "AwaitSetupResponse" /\ id \in AwaitsOf(actions)
  BY <1>4 DEF Awaits, AwaitsOf
<1>6. id \in DOMAIN outcomes
  BY <1>2, <1>3, <1>5, LenProperties DEF CompileTypes, RunTypes, PlaceOK
<1>7. spec = actions[id - 1].payload /\ spec \in Setup
  BY <1>3, <1>5 DEF AwaitsPaired
<1>8. c \in DOMAIN connection_roles
  BY <1>3, <1>4 DEF RunTypes, TablesOK
<1>9. connection_roles[c] < Len(roles) /\ connection_roles[c] \in Nat
  BY <1>8 DEF Judged
<1>10. config \in [protocol : Protocols, min_version : Nat, max_version : Nat]
  <2>1. roles \in Seq([protocol : Protocols, min_version : Nat, max_version : Nat])
    BY DeploymentsAssumption DEF Judged
  <2>2. connection_roles[c] + 1 \in 1..Len(roles)
    BY <1>9, <2>1, LenProperties
  <2>3. QED
    BY <2>1, <2>2, ElementOfSeq
<1>11. Check(config, spec, Owed(actions[id], id, metadata.violations), outcomes[id])
  BY <1>2, <1>5, <1>8 DEF SetupConnectionConforms
<1> DEFINE frame == outcomes[id].frame
<1>12. /\ outcomes[id].tag = "Completed"
       /\ \/ frame.type = "Error"
          \/ frame.type = "Success" /\ AcceptableSuccess(config, spec, frame)
  BY <1>4, <1>11 DEF Check, Owed
<1>13. PICK k \in DOMAIN states[c].events : states[c].events[k] = frame
  BY <1>3, <1>4, <1>5, <1>6, <1>12 DEF AwaitsBound
<1>14. k \in DOMAIN peers[c].served /\ peers[c].served[k] = frame /\ frame \in Served
  BY <1>3, <1>4, <1>13, TraceWasServed
<1> HIDE DEF frame, config, spec
<1>15. \/ frame.type = "Error"
       \/ <<frame.type, [version |-> frame.version, fixed |-> frame.fixed]>>
            \in Permitted(config, spec)
  BY <1>7, <1>10, <1>12, <1>14, AcceptableIsPermitted
<1>16. QED
  BY <1>7, <1>14, <1>15 DEF config, spec

\* A run that passes earned it: the deployment still serves, and every setup that was owed an
\* answer on a connection that opened got one on it that the specification permits.
THEOREM PassesAreEarned == HarnessSpec => []PassIsEarned
<1>1. HarnessInit => Judged
  BY DEF HarnessInit, Judged, R!RunnerInit
<1>2. HarnessInv /\ Judged /\ [HarnessNext]_harness_vars => Judged'
  BY JudgedStep
<1>3. HarnessInv /\ Judged => PassIsEarned
  BY JudgedMeans
<1>4. QED
  BY <1>1, <1>2, <1>3, HarnessInvariant, PTL DEF HarnessSpec

-----------------------------------------------------------------------------
(* What reaches the server. *)

\* Nothing reaches the server and it does nothing, no end of a connection is closed or torn, and
\* a connection that is opened is new.
FatesStay ==
  /\ \A c \in DOMAIN peers :
       /\ c \in DOMAIN peers'
       /\ peers'[c].wire = peers[c].wire /\ peers'[c].closed = peers[c].closed
       /\ peers'[c].torn = peers[c].torn /\ peers'[c].served = peers[c].served
  /\ \A c \in DOMAIN peers' : c \in DOMAIN peers \/ peers'[c] = R!NewPeer

\* A peer that keeps what reached it.
LEMMA FateKept ==
  ASSUME NEW c \in DOMAIN peers, NEW p, peers' = [peers EXCEPT ![c] = p],
         p.wire = peers[c].wire, p.closed = peers[c].closed, p.torn = peers[c].torn,
         p.served = peers[c].served
  PROVE  FatesStay
  BY DEF FatesStay

\* Of the runner's steps, only a send that gets out changes any of it.
LEMMA RunnerFates ==
  ASSUME CompileInv, RunTypes, OpenedBy, UNCHANGED actions, R!RunnerNext \/ R!PumpTimesOut
  PROVE  R!Send \/ FatesStay
<1>1. TablesOK /\ PlaceOK /\ CompileTypes
  BY DEF RunTypes, CompileInv
<1>2. ASSUME UNCHANGED peers PROVE FatesStay
  BY <1>2 DEF FatesStay
<1>3. CASE \/ R!SkipBlock \/ R!EnterBlock \/ R!ExitBlock \/ R!ConnectFails \/ R!SendNotOpen
           \/ R!SendFails \/ R!AdvanceTime \/ R!AwaitNotOpen \/ R!AwaitBegin \/ R!ProbeBegin
           \/ R!ProbeEnds \/ R!RunEnds \/ R!PumpTimesOut \/ R!PumpClosed
  BY <1>2, <1>3 DEF R!SkipBlock, R!EnterBlock, R!ExitBlock, R!ConnectFails, R!SendNotOpen,
    R!SendFails, R!AdvanceTime, R!AwaitNotOpen, R!AwaitBegin, R!ProbeBegin, R!ProbeEnds,
    R!RunEnds, R!PumpTimesOut, R!PumpClosed, R!OnlyRecorded, R!server_vars
<1>4. CASE R!Connect
  <2>1. PICK c \in Nat : ConnectKind(c)
    BY <1>1, <1>4, ConnectStep
  <2>2. c \notin DOMAIN peers /\ peers' = R!Insert(peers, c, R!NewPeer)
    BY <1>1, <2>1, ConnectIsFresh DEF ConnectKind, TablesOK
  <2>3. QED
    BY <2>2 DEF FatesStay, R!Insert
<1>5. ASSUME NEW c \in DOMAIN states, R!Receives(c) \/ R!ReceiveFails(c) PROVE FatesStay
  <2>1. c \in DOMAIN peers /\ PeerOK(peers[c])
    BY <1>1 DEF TablesOK
  <2>2. \/ peers' = [peers EXCEPT ![c] = [peers[c] EXCEPT !.inbox = Tail(@)]]
        \/ peers' = [peers EXCEPT ![c] = [peers[c] EXCEPT !.inbox = Tail(@), !.poisoned = TRUE]]
    BY <1>5, <2>1 DEF R!Receives, R!ReceiveFails, PeerOK, PeerFields
  <2>3. CASE peers' = [peers EXCEPT ![c] = [peers[c] EXCEPT !.inbox = Tail(@)]]
    BY <2>1, <2>3, FateKept DEF PeerOK, PeerFields
  <2>4. CASE peers' = [peers EXCEPT ![c] = [peers[c] EXCEPT !.inbox = Tail(@), !.poisoned = TRUE]]
    BY <2>1, <2>4, FateKept DEF PeerOK, PeerFields
  <2>5. QED
    BY <2>2, <2>3, <2>4
<1>6. CASE R!PumpReceives \/ R!PumpPoisoned
  <2>1. actions[next].connection \in DOMAIN states
    BY <1>1, <1>6 DEF R!PumpReceives, R!PumpPoisoned, PlaceOK
  <2>2. QED
    BY <1>5, <1>6, <2>1 DEF R!PumpReceives, R!PumpPoisoned, R!Current
<1>7. CASE R!ProbeReceives \/ R!ProbeFails
  <2>1. Head(undrained) \in DOMAIN states
    BY <1>1, <1>7, HeadTailProperties DEF R!ProbeReceives, R!ProbeFails, TablesOK
  <2>2. QED
    BY <1>2, <1>5, <1>7, <2>1 DEF R!ProbeReceives, R!ProbeFails, R!Drained
<1>8. QED
  BY <1>3, <1>4, <1>6, <1>7 DEF R!RunnerNext

\* The sends that reached the server on a connection: sends of the actions before the next one,
\* in the order of the actions.
WireOK(c, wire, n) ==
  /\ \A k \in DOMAIN wire : wire[k] \in 1..(n - 1) /\ IsSend(actions, c, wire[k])
  /\ \A j, k \in DOMAIN wire : j < k => wire[j] < wire[k]

Wired == \A c \in DOMAIN peers : WireOK(c, peers[c].wire, next)

\* How far a step takes the runner.
LEMMA NextGrows ==
  ASSUME CompileTypes, RunTypes, RunKind
  PROVE  next \in Nat /\ next' \in Nat /\ next <= next'
<1>1. PlaceOK /\ next \in Nat
  BY OutcomesAre DEF RunTypes
<1>2. ASSUME NEW o, Records(o) PROVE next' \in Nat /\ next <= next'
  BY <1>1, <1>2 DEF Records
<1>3. ASSUME NEW last \in Nat, SkipKind(last) PROVE next' \in Nat /\ next <= next'
  BY <1>1, <1>3 DEF SkipKind
<1>4. ASSUME next' = next PROVE next' \in Nat /\ next <= next'
  BY <1>1, <1>4
<1>5. ASSUME NEW o \in Outcome, RecordKind(o) PROVE next' \in Nat /\ next <= next'
  BY <1>2, <1>5 DEF RecordKind
<1>6. ASSUME NEW c \in Nat, ConnectKind(c) PROVE next' \in Nat /\ next <= next'
  BY <1>2, <1>6 DEF ConnectKind
<1>7. ASSUME NEW o \in Outcome, NEW taken, AwaitKind(actions[next].connection, o, taken)
      PROVE  next' \in Nat /\ next <= next'
  BY <1>2, <1>7 DEF AwaitKind
<1>8. ASSUME NEW frame \in Served, PumpKind(actions[next].connection, frame) PROVE next' = next
  BY <1>8 DEF PumpKind
<1>9. ASSUME NEW c \in DOMAIN states, NEW taken, DrainKind(c, taken) PROVE next' = next
  BY <1>9 DEF DrainKind
<1>10. ASSUME NEW c \in DOMAIN peers, NEW frame \in Served, ServeKind(c, frame) PROVE next' = next
  BY <1>10 DEF ServeKind
<1>11. CASE QuietKind
  BY <1>4, <1>11 DEF QuietKind
<1>12. QED
  BY <1>1, <1>3, <1>4, <1>5, <1>6, <1>7, <1>8, <1>9, <1>10, <1>11 DEF RunKind

\* What reached the server stays in order as the run goes on,
LEMMA WireLonger ==
  ASSUME NEW c, NEW wire \in Seq(Nat), NEW n \in Nat, NEW m \in Nat, n <= m, WireOK(c, wire, n)
  PROVE  WireOK(c, wire, m)
<1>1. \A x \in 1..(n - 1) : x \in 1..(m - 1)
  OBVIOUS
<1>2. QED
  BY <1>1 DEF WireOK

\* and a send that reaches it comes last.
LEMMA WireSent ==
  ASSUME NEW c, NEW wire \in Seq(Nat), NEW n \in Nat, n >= 1, WireOK(c, wire, n),
         IsSend(actions, c, n)
  PROVE  WireOK(c, Append(wire, n), n + 1)
<1> DEFINE new == wire \o <<n>>
           m == Len(wire)
<1>1. /\ DOMAIN wire = 1..m /\ m \in Nat /\ DOMAIN new = 1..(m + 1)
      /\ \A k \in 1..m : new[k] = wire[k]
      /\ new[m + 1] = n
  BY Pushed
<1>2. Append(wire, n) = new
  BY AppendIsConcat
<1>3. \A k \in 1..m : wire[k] \in 1..(n - 1) /\ IsSend(actions, c, wire[k])
  BY <1>1 DEF WireOK
<1>4. \A j, k \in 1..m : j < k => wire[j] < wire[k]
  BY <1>1 DEF WireOK
<1> HIDE DEF new, m
<1>5. \A k \in 1..(m + 1) : k \in 1..m \/ k = m + 1
  BY <1>1
<1>6. ASSUME NEW k \in 1..(m + 1) PROVE new[k] \in 1..((n + 1) - 1) /\ IsSend(actions, c, new[k])
  BY <1>1, <1>3, <1>5
<1>7. ASSUME NEW j \in 1..(m + 1), NEW k \in 1..(m + 1), j < k PROVE new[j] < new[k]
  <2>1. j \in 1..m
    BY <1>1, <1>7
  <2>2. CASE k = m + 1
    BY <1>1, <1>3, <2>1, <2>2
  <2>3. CASE k \in 1..m
    BY <1>1, <1>4, <1>7, <2>1, <2>3
  <2>4. QED
    BY <1>5, <2>2, <2>3
<1>8. QED
  BY <1>1, <1>2, <1>6, <1>7 DEF WireOK

\* What a send makes of its connection.
LEMMA SendWires ==
  ASSUME CompileTypes, RunTypes, R!Send
  PROVE  LET c == actions[next].connection
             p == [peers[c] EXCEPT !.wire = Append(@, next)]
         IN /\ c \in DOMAIN peers /\ next \in DOMAIN actions /\ IsSend(actions, c, next)
            /\ next' = next + 1
            /\ p.wire = Append(peers[c].wire, next) /\ p.closed = peers[c].closed
            /\ p.torn = peers[c].torn
            /\ peers' = IF peers[c].closed \/ peers[c].torn THEN peers
                        ELSE [peers EXCEPT ![c] = p]
<1> DEFINE c == actions[next].connection
           p == [peers[c] EXCEPT !.wire = Append(@, next)]
<1>1. c \in DOMAIN peers /\ next \in DOMAIN actions /\ actions[next].name = "Send"
  BY DEF R!Send, R!Doing, R!Current, R!Open, RunTypes, TablesOK
<1>2. PeerOK(peers[c])
  BY <1>1 DEF RunTypes, TablesOK
<1>3. p.wire = Append(peers[c].wire, next) /\ p.closed = peers[c].closed /\ p.torn = peers[c].torn
  BY <1>2 DEF PeerOK, PeerFields
<1>4. next' = next + 1 /\ peers' = IF peers[c].closed \/ peers[c].torn THEN peers
                                  ELSE [peers EXCEPT ![c] = p]
  BY DEF R!Send, R!Record, R!Current
<1>5. QED
  BY <1>1, <1>3, <1>4 DEF IsSend

\* How the other end stands changes, not what reached it.
LEMMA StandingSteps ==
  ASSUME RunTypes, R!SendTimesOut \/ ServerNext \/ ConformingServerNext
  PROVE  DOMAIN peers' = DOMAIN peers /\ \A c \in DOMAIN peers : peers'[c].wire = peers[c].wire
<1>1. \A c \in DOMAIN peers : PeerOK(peers[c])
  BY DEF RunTypes, TablesOK
<1>2. CASE R!SendTimesOut
  <2>1. peers' = [peers EXCEPT ![actions[next].connection].torn = TRUE]
        /\ actions[next].connection \in DOMAIN peers
    BY <1>2 DEF R!SendTimesOut, R!Current, R!Open, RunTypes, TablesOK
  <2>2. QED
    BY <1>1, <2>1 DEF PeerOK, PeerFields
<1>3. CASE ServerDies
  BY <1>1, <1>3 DEF ServerDies, PeerOK, PeerFields
<1>4. ASSUME NEW c \in DOMAIN peers, ServerCloses(c)
      PROVE  DOMAIN peers' = DOMAIN peers /\ \A d \in DOMAIN peers : peers'[d].wire = peers[d].wire
  BY <1>1, <1>4 DEF ServerCloses, PeerOK, PeerFields
<1>5. ASSUME NEW c \in DOMAIN peers, NEW frame, ServerSends(c, frame)
      PROVE  DOMAIN peers' = DOMAIN peers /\ \A d \in DOMAIN peers : peers'[d].wire = peers[d].wire
  BY <1>1, <1>5 DEF ServerSends, PeerOK, PeerFields
<1>6. QED
  BY <1>2, <1>3, <1>4, <1>5 DEF ServerNext, ConformingServerNext, ServerAnswers

\* Every step keeps what reached the server to the sends of the actions done.
LEMMA WiredStep ==
  ASSUME CompileInv, RunTypes, OpenedBy, Wired, UNCHANGED actions, RunStep
  PROVE  Wired'
<1>1. CompileTypes /\ RunKind /\ \A c \in DOMAIN peers : peers[c].wire \in Seq(Nat)
  BY RunStepKind DEF CompileInv, RunTypes, TablesOK, PeerOK
<1>2. next \in Nat /\ next >= 1 /\ next' \in Nat /\ next <= next'
  BY <1>1, NextGrows, OutcomesAre DEF RunTypes
<1>3. \A c \in DOMAIN peers : WireOK(c, peers[c].wire, next')
  BY <1>1, <1>2, WireLonger DEF Wired
<1>4. ASSUME \A c \in DOMAIN peers' : WireOK(c, peers'[c].wire, next') PROVE Wired'
  BY <1>4 DEF Wired, WireOK, IsSend
<1>5. CASE FatesStay
  <2>1. ASSUME NEW c \in DOMAIN peers', c \notin DOMAIN peers PROVE WireOK(c, peers'[c].wire, next')
    <3>1. peers'[c].wire = << >>
      BY <1>5, <2>1 DEF FatesStay, R!NewPeer
    <3>2. DOMAIN << >> = {}
      OBVIOUS
    <3>3. QED
      BY <3>1, <3>2 DEF WireOK
  <2>2. ASSUME NEW c \in DOMAIN peers PROVE WireOK(c, peers'[c].wire, next')
    BY <1>3, <1>5 DEF FatesStay
  <2>3. QED
    BY <1>4, <2>1, <2>2
<1>6. CASE R!Send
  <2> DEFINE c == actions[next].connection
             p == [peers[c] EXCEPT !.wire = Append(@, next)]
  <2>1. /\ c \in DOMAIN peers /\ IsSend(actions, c, next) /\ next' = next + 1
        /\ p.wire = Append(peers[c].wire, next)
        /\ peers' = IF peers[c].closed \/ peers[c].torn THEN peers ELSE [peers EXCEPT ![c] = p]
    BY <1>1, <1>6, SendWires
  <2>2. WireOK(c, p.wire, next')
    BY <1>1, <1>2, <2>1, WireSent DEF Wired
  <2> HIDE DEF p
  <2>3. \A d \in DOMAIN peers' : WireOK(d, peers'[d].wire, next')
    BY <1>3, <2>1, <2>2
  <2>4. QED
    BY <1>4, <2>3
<1>7. CASE R!SendTimesOut \/ ServerNext \/ ConformingServerNext
  <2>1. DOMAIN peers' = DOMAIN peers /\ \A c \in DOMAIN peers : peers'[c].wire = peers[c].wire
    BY <1>7, StandingSteps
  <2>2. QED
    BY <1>3, <1>4, <2>1
<1>8. QED
  BY <1>5, <1>6, <1>7, RunnerFates DEF RunStep

\* The await of a session is one, and its send comes right before it.
LEMMA SendOfIs ==
  ASSUME CompileInv, NEW id \in AwaitsOf(actions)
  PROVE  SendOf(actions[id].session) = id - 1
<1>1. id \in Awaits /\ Awaits = AwaitsOf(actions)
  BY DEF Awaits, AwaitsOf
<1>2. \A a \in Awaits : actions[a].session = actions[id].session => a = id
  BY <1>1 DEF CompileInv, AwaitsPaired
<1>3. (CHOOSE a \in Awaits : actions[a].session = actions[id].session) = id
  BY <1>1, <1>2
<1>4. QED
  BY <1>3 DEF SendOf

\* The first of an increasing sequence is not greater than any other.
LEMMA HeadIsLeast ==
  ASSUME NEW c, NEW wire \in Seq(Nat), NEW n, WireOK(c, wire, n), NEW k \in DOMAIN wire
  PROVE  /\ 1 \in DOMAIN wire /\ wire # << >> /\ Head(wire) = wire[1] /\ wire[1] <= wire[k]
         /\ wire[1] \in Nat /\ wire[1] >= 1 /\ IsSend(actions, c, wire[1])
<1>1. DOMAIN wire = 1..Len(wire) /\ Len(wire) \in Nat
  BY LenProperties
<1>2. 1 \in DOMAIN wire /\ (k = 1 \/ 1 < k) /\ wire # << >>
  BY <1>1
<1>3. wire[1] \in Nat /\ wire[k] \in Nat
  BY <1>1, <1>2, ElementOfSeq
<1>4. wire[1] <= wire[k]
  BY <1>2, <1>3 DEF WireOK
<1>5. Head(wire) = wire[1]
  BY <1>2, HeadTailSplit
<1>6. wire[1] >= 1 /\ IsSend(actions, c, wire[1])
  BY <1>2 DEF WireOK
<1>7. QED
  BY <1>2, <1>3, <1>4, <1>5, <1>6

\* The send that the compiler says is the first on its connection.
LEMMA FirstSend ==
  ASSUME CompileInv, NEW id \in AwaitsOf(actions), actions[id].first_on_connection,
         NEW k \in Nat, k >= 1, k < id, IsSend(actions, actions[id].connection, k)
  PROVE  k = id - 1
<1>1. {j \in 1..(id - 1) : IsSend(actions, actions[id].connection, j)} = {id - 1}
  BY DEF CompileInv, OwedOf
<1>2. id \in Nat
  BY LenProperties DEF AwaitsOf, CompileInv, CompileTypes
<1>3. k \in 1..(id - 1)
  BY <1>2
<1>4. QED
  BY <1>1, <1>3

\* So a setup that is owed an answer was the first frame on its connection.
LEMMA WiredMeans ==
  ASSUME CompileInv, RunInv, Wired
  PROVE  OwedReallyFirst
<1>1. SUFFICES ASSUME NEW s \in DOMAIN session_results, session_results[s].first,
                      SendOf(s) \in Range(peers[session_results[s].connection].wire)
               PROVE  Head(peers[session_results[s].connection].wire) = SendOf(s)
  BY DEF OwedReallyFirst
<1>2. PICK id \in DOMAIN outcomes :
        /\ actions[id].name = "AwaitSetupResponse" /\ actions[id].session = s
        /\ outcomes[id].tag # "Skipped"
        /\ session_results[s].connection = actions[id].connection
        /\ session_results[s].first = actions[id].first_on_connection
  BY DEF RunInv, Bound, SessionsBound
<1> DEFINE c == actions[id].connection
           wire == peers[c].wire
<1>3. id \in AwaitsOf(actions)
  <2>1. PlaceOK /\ CompileTypes
    BY DEF RunInv, RunTypes, CompileInv
  <2>2. DOMAIN outcomes = 1..(next - 1) /\ next \in 1..(Len(actions) + 1) /\ next \in Nat
    BY <2>1, OutcomesAre DEF PlaceOK
  <2>3. DOMAIN actions = 1..Len(actions) /\ Len(actions) \in Nat
    BY <2>1, LenProperties DEF CompileTypes
  <2>4. id \in DOMAIN actions
    BY <2>2, <2>3
  <2>5. QED
    BY <1>2, <2>4 DEF AwaitsOf
<1>4. c \in DOMAIN peers
  BY <1>2 DEF RunInv, Bound, AwaitsBound, RunTypes, TablesOK
<1>5. wire \in Seq(Nat) /\ WireOK(c, wire, next)
  BY <1>4 DEF RunInv, RunTypes, TablesOK, PeerOK, Wired
<1>6. SendOf(s) = id - 1 /\ id \in Nat
  <2>1. id \in Nat
    BY <1>3, LenProperties DEF AwaitsOf, CompileInv, CompileTypes
  <2>2. QED
    BY <1>2, <1>3, <2>1, SendOfIs
<1>7. PICK k \in DOMAIN wire : wire[k] = id - 1
  BY <1>1, <1>2, <1>6 DEF Range
<1> HIDE DEF wire
<1>8. /\ Head(wire) = wire[1] /\ wire[1] <= wire[k] /\ wire[1] \in Nat /\ wire[1] >= 1
      /\ IsSend(actions, c, wire[1])
  BY <1>5, HeadIsLeast
<1>9. wire[1] < id
  BY <1>6, <1>7, <1>8
<1>10. wire[1] = id - 1
  BY <1>1, <1>2, <1>3, <1>8, <1>9, FirstSend
<1>11. QED
  BY <1>2, <1>6, <1>8, <1>10 DEF wire

-----------------------------------------------------------------------------
(* A server that keeps to the protocol. *)

\* What such a server may answer, on connection c, to the setup sent by action id.
Permits(c, frame, id) ==
  \E f \in Permitted(roles[connection_roles[c] + 1], actions[id].payload) :
    frame = Answer(f[1], IF f[1] = "Error" THEN NoSuccess ELSE f[2], id)

\* Where it stands on connection c: it spoke of nothing before it was spoken to, and a setup
\* that reached it first was the first thing it answered, before it closed.
KeepsTo(c, p) ==
  /\ ~p.torn
  /\ p.wire = << >> => ~p.closed /\ p.served = << >>
  /\ p.wire # << >> /\ IsSetup(Head(p.wire)) =>
       \/ p.served = << >> /\ ~p.closed
       \/ p.served # << >> /\ Permits(c, p.served[1], Head(p.wire))

Keeping == \A c \in DOMAIN peers : KeepsTo(c, peers[c])

\* The steps of a run against such a server.
ConformingStep ==
  \/ R!RunnerNext
  \/ mode = "await" /\ Owes(actions[next].connection) = {} /\ R!PumpTimesOut
  \/ ConformingServerNext

\* Keeping to the protocol is a matter of the server's end alone,
LEMMA KeepsSame ==
  ASSUME NEW c, NEW p, NEW q, KeepsTo(c, p), q.wire = p.wire, q.closed = p.closed,
         q.torn = p.torn, q.served = p.served
  PROVE  KeepsTo(c, q)
  BY DEF KeepsTo

\* A connection's role is settled when it is opened.
LEMMA RolesKept ==
  ASSUME CompileInv, RunTypes, OpenedBy, UNCHANGED actions, RunStep
  PROVE  \A c \in DOMAIN peers : connection_roles'[c] = connection_roles[c]
<1>1. CASE R!Connect
  <2>1. PICK c \in Nat : ConnectKind(c)
    BY <1>1, ConnectStep DEF CompileInv, RunTypes
  <2>2. c \notin DOMAIN peers
    BY <2>1, ConnectIsFresh DEF RunTypes, TablesOK
  <2>3. connection_roles' = R!Insert(connection_roles, c, actions[next].role)
        /\ DOMAIN connection_roles = DOMAIN peers
    BY <2>1 DEF ConnectKind, RunTypes, TablesOK
  <2>4. QED
    BY <2>2, <2>3 DEF R!Insert
<1>2. QED
  BY <1>1, RolesChange

\* connection by connection.
LEMMA KeepsNow ==
  ASSUME UNCHANGED <<actions, roles>>,
         \A c \in DOMAIN peers : connection_roles'[c] = connection_roles[c],
         \A c \in DOMAIN peers' :
           (c \in DOMAIN peers /\ KeepsTo(c, peers'[c])) \/ peers'[c] = R!NewPeer
  PROVE  Keeping'
<1>1. SUFFICES ASSUME NEW c \in DOMAIN peers' PROVE KeepsTo(c, peers[c])'
  BY DEF Keeping
<1>2. CASE c \in DOMAIN peers /\ KeepsTo(c, peers'[c])
  <2>1. connection_roles'[c] = connection_roles[c] /\ roles' = roles /\ actions' = actions
    BY <1>2
  <2>2. QED
    BY <1>2, <2>1 DEF KeepsTo, Permits, IsSetup
<1>3. CASE peers'[c] = R!NewPeer
  BY <1>3 DEF KeepsTo, R!NewPeer
<1>4. QED
  BY <1>2, <1>3

\* A server that owes nothing on a connection that a setup opened has answered it.
LEMMA OwesNothing ==
  ASSUME NEW c \in DOMAIN peers, PeerOK(peers[c]), peers[c].wire # << >>,
         IsSetup(Head(peers[c].wire)), Owes(c) = {}
  PROVE  peers[c].served # << >>
<1> DEFINE wire == peers[c].wire
<1>1. wire \in Seq(Nat) /\ wire # << >>
  BY DEF PeerOK
<1>2. Head(wire) \in Range(wire)
  <2>1. DOMAIN wire = 1..Len(wire) /\ Len(wire) \in Nat /\ Len(wire) # 0 /\ Head(wire) = wire[1]
    BY <1>1, HeadTailSplit, LenProperties, EmptySeq
  <2>2. QED
    BY <2>1 DEF Range
<1>3. Head(wire) \in Asked(c)
  BY <1>2 DEF Asked
<1>4. Head(wire) \notin Unanswered(c)
  BY <1>1 DEF Owes
<1>5. PICK k \in DOMAIN peers[c].served : peers[c].served[k].answers = Head(wire)
  BY <1>3, <1>4 DEF Unanswered
<1>6. DOMAIN << >> = {}
  OBVIOUS
<1>7. QED
  BY <1>5, <1>6

\* What is put after a sequence leaves its first element where it is.
LEMMA FirstStays ==
  ASSUME NEW S, NEW s \in Seq(S), NEW e \in S, s # << >>
  PROVE  Append(s, e) # << >> /\ Append(s, e)[1] = s[1] /\ Head(Append(s, e)) = Head(s)
<1>1. Len(s) \in Nat /\ Len(s) >= 1 /\ Head(s) = s[1]
  BY HeadTailSplit
<1>2. Append(s, e) \in Seq(S) /\ Len(Append(s, e)) = Len(s) + 1 /\ Append(s, e)[1] = s[1]
  BY <1>1, AppendProperties
<1>3. Append(s, e) # << >>
  BY <1>1, <1>2, EmptySeq
<1>4. QED
  BY <1>1, <1>2, <1>3, HeadTailSplit

\* The only element of a sequence.
LEMMA FirstOfAll ==
  ASSUME NEW S, NEW e \in S
  PROVE  Append(<< >>, e) # << >> /\ Append(<< >>, e)[1] = e /\ Head(Append(<< >>, e)) = e
<1>1. << >> \in Seq(S) /\ Len(<< >>) = 0
  BY EmptySeq
<1>2. Append(<< >>, e) \in Seq(S) /\ Len(Append(<< >>, e)) = 1 /\ Append(<< >>, e)[1] = e
  BY <1>1, AppendProperties
<1>3. Append(<< >>, e) # << >>
  BY <1>1, <1>2
<1>4. QED
  BY <1>2, <1>3, HeadTailSplit

\* A message that gets out.
LEMMA KeepsWhenSent ==
  ASSUME NEW c, NEW p, PeerOK(p), KeepsTo(c, p), NEW n \in Nat, ~p.closed,
         NEW q, q.wire = Append(p.wire, n), q.closed = p.closed, q.torn = p.torn,
         q.served = p.served
  PROVE  KeepsTo(c, q)
<1>1. p.wire \in Seq(Nat)
  BY DEF PeerOK
<1>2. CASE p.wire = << >>
  <2>1. q.wire # << >>
    BY <1>2, FirstOfAll
  <2>2. QED
    BY <1>2, <2>1 DEF KeepsTo
<1>3. CASE p.wire # << >>
  <2>1. q.wire # << >> /\ Head(q.wire) = Head(p.wire)
    BY <1>1, <1>3, FirstStays
  <2>2. QED
    BY <1>3, <2>1 DEF KeepsTo
<1>4. QED
  BY <1>2, <1>3

\* The answer that is owed is given.
LEMMA KeepsWhenAnswered ==
  ASSUME NEW c \in DOMAIN peers, PeerOK(peers[c]), KeepsTo(c, peers[c]), NEW id \in Owes(c),
         NEW frame \in Served, Permits(c, frame, id),
         NEW q, q.wire = peers[c].wire, q.torn = peers[c].torn,
         q.served = Append(peers[c].served, frame)
  PROVE  KeepsTo(c, q)
<1>1. peers[c].wire # << >> /\ id = Head(peers[c].wire) /\ id \in Unanswered(c)
  BY DEF Owes
<1>2. IsSetup(id) /\ \A k \in DOMAIN peers[c].served : peers[c].served[k].answers # id
  BY <1>1 DEF Unanswered, Asked
<1>3. peers[c].served = << >>
  <2>1. SUFFICES ASSUME peers[c].served # << >> PROVE FALSE
    OBVIOUS
  <2>2. Permits(c, peers[c].served[1], id)
    BY <1>1, <1>2, <2>1 DEF KeepsTo
  <2>3. peers[c].served[1].answers = id
    BY <2>2 DEF Permits, Answer
  <2>4. 1 \in DOMAIN peers[c].served
    BY <2>1, HeadTailSplit, LenProperties DEF PeerOK
  <2>5. QED
    BY <1>2, <2>3, <2>4
<1>4. q.served # << >> /\ q.served[1] = frame
  BY <1>3, FirstOfAll
<1>5. QED
  BY <1>1, <1>4 DEF KeepsTo

\* To a client that is owed nothing the server may say anything, or close.
LEMMA KeepsWhenOwingNothing ==
  ASSUME NEW c \in DOMAIN peers, PeerOK(peers[c]), KeepsTo(c, peers[c]), peers[c].wire # << >>,
         Owes(c) = {}, NEW q, q.wire = peers[c].wire, q.torn = peers[c].torn,
         q.served = peers[c].served \/ \E frame \in Served : q.served = Append(peers[c].served, frame)
  PROVE  KeepsTo(c, q)
<1>1. CASE ~IsSetup(Head(peers[c].wire))
  BY <1>1 DEF KeepsTo
<1>2. CASE IsSetup(Head(peers[c].wire))
  <2>1. peers[c].served # << >> /\ peers[c].served \in Seq(Served)
    BY <1>2, OwesNothing DEF PeerOK
  <2>2. q.served # << >> /\ q.served[1] = peers[c].served[1]
    BY <2>1, FirstStays
  <2>3. QED
    BY <1>2, <2>1, <2>2 DEF KeepsTo
<1>3. QED
  BY <1>1, <1>2

\* What one end of a connection becomes, the others being left alone.
LEMMA KeepsOne ==
  ASSUME Keeping, UNCHANGED <<actions, roles>>,
         \A d \in DOMAIN peers : connection_roles'[d] = connection_roles[d],
         NEW c \in DOMAIN peers, NEW q, peers' = [peers EXCEPT ![c] = q], KeepsTo(c, q)
  PROVE  Keeping'
<1>1. \A d \in DOMAIN peers' : d \in DOMAIN peers /\ KeepsTo(d, peers'[d])
  <2>1. ASSUME NEW d \in DOMAIN peers' PROVE d \in DOMAIN peers /\ KeepsTo(d, peers'[d])
    <3>1. d \in DOMAIN peers
      OBVIOUS
    <3>2. CASE d = c
      BY <3>2
    <3>3. CASE d # c
      BY <3>1, <3>3 DEF Keeping
    <3>4. QED
      BY <3>1, <3>2, <3>3
  <2>2. QED
    BY <2>1
<1>2. QED
  BY <1>1, KeepsNow

\* A server that keeps to the protocol goes on doing so, whatever the runner does.
LEMMA KeepingStep ==
  ASSUME CompileInv, RunTypes, OpenedBy, Keeping, UNCHANGED <<actions, roles>>, ConformingStep
  PROVE  Keeping'
<1>1. TablesOK /\ CompileTypes /\ RunStep
  BY DEF RunTypes, CompileInv, ConformingStep, RunStep
<1>2. \A c \in DOMAIN peers : connection_roles'[c] = connection_roles[c]
  BY <1>1, RolesKept
<1>3. \A c \in DOMAIN peers : PeerOK(peers[c]) /\ KeepsTo(c, peers[c])
  BY <1>1 DEF TablesOK, Keeping
<1>4. CASE FatesStay
  <2>1. ASSUME NEW c \in DOMAIN peers', peers'[c] # R!NewPeer
        PROVE  c \in DOMAIN peers /\ KeepsTo(c, peers'[c])
    <3>1. /\ c \in DOMAIN peers
          /\ peers'[c].wire = peers[c].wire /\ peers'[c].closed = peers[c].closed
          /\ peers'[c].torn = peers[c].torn /\ peers'[c].served = peers[c].served
      BY <1>4, <2>1 DEF FatesStay
    <3>2. QED
      BY <1>3, <3>1, KeepsSame
  <2>2. QED
    BY <1>2, <2>1, KeepsNow
<1>5. CASE R!Send
  <2> DEFINE c == actions[next].connection
             p == [peers[c] EXCEPT !.wire = Append(@, next)]
  <2>1. /\ c \in DOMAIN peers /\ next \in DOMAIN actions
        /\ p.wire = Append(peers[c].wire, next) /\ p.closed = peers[c].closed
        /\ p.torn = peers[c].torn
        /\ peers' = IF peers[c].closed \/ peers[c].torn THEN peers ELSE [peers EXCEPT ![c] = p]
    BY <1>1, <1>5, SendWires
  <2>2. next \in Nat /\ p.served = peers[c].served
    BY <1>3, <2>1, OutcomesAre DEF PeerOK, PeerFields, RunTypes
  <2> HIDE DEF p
  <2>3. CASE peers' = peers
    BY <1>2, <1>3, <2>3, KeepsNow
  <2>4. CASE ~peers[c].closed /\ peers' = [peers EXCEPT ![c] = p]
    <3>1. KeepsTo(c, p)
      BY <1>3, <2>1, <2>2, <2>4, KeepsWhenSent
    <3>2. QED
      BY <1>2, <2>1, <2>4, <3>1, KeepsOne
  <2>5. QED
    BY <2>1, <2>3, <2>4
<1>6. ASSUME NEW c \in DOMAIN peers, NEW frame \in Served, ServerSends(c, frame),
             \/ \E id \in Owes(c) : Permits(c, frame, id)
             \/ peers[c].wire # << >> /\ Owes(c) = {}
      PROVE  Keeping'
  <2> DEFINE q == [peers[c] EXCEPT !.inbox = Append(@, frame), !.served = Append(@, frame)]
  <2>1. peers' = [peers EXCEPT ![c] = q]
    BY <1>3, <1>6 DEF ServerSends, PeerOK, PeerFields
  <2>2. q.wire = peers[c].wire /\ q.torn = peers[c].torn
        /\ q.served = Append(peers[c].served, frame)
    BY <1>3, <1>6 DEF PeerOK, PeerFields
  <2> HIDE DEF q
  <2>3. KeepsTo(c, q)
    BY <1>3, <1>6, <2>2, KeepsWhenAnswered, KeepsWhenOwingNothing
  <2>4. QED
    BY <1>2, <1>6, <2>1, <2>3, KeepsOne
<1>7. ASSUME NEW c \in DOMAIN peers, ServerCloses(c), peers[c].wire # << >>, Owes(c) = {}
      PROVE  Keeping'
  <2> DEFINE q == [peers[c] EXCEPT !.closed = TRUE]
  <2>1. peers' = [peers EXCEPT ![c] = q]
    BY <1>3, <1>7 DEF ServerCloses, PeerOK, PeerFields
  <2>2. q.wire = peers[c].wire /\ q.torn = peers[c].torn /\ q.served = peers[c].served
    BY <1>3, <1>7 DEF PeerOK, PeerFields
  <2> HIDE DEF q
  <2>3. KeepsTo(c, q)
    BY <1>3, <1>7, <2>2, KeepsWhenOwingNothing
  <2>4. QED
    BY <1>2, <1>7, <2>1, <2>3, KeepsOne
<1>8. CASE ServerAnswers
  <2>0. PICK c \in DOMAIN peers : \E id \in Owes(c) :
          \E f \in Permitted(roles[connection_roles[c] + 1], actions[id].payload) :
            ServerSends(c, Answer(f[1], IF f[1] = "Error" THEN NoSuccess ELSE f[2], id))
    BY <1>8 DEF ServerAnswers
  <2>1. PICK id \in Owes(c) :
          \E f \in Permitted(roles[connection_roles[c] + 1], actions[id].payload) :
            ServerSends(c, Answer(f[1], IF f[1] = "Error" THEN NoSuccess ELSE f[2], id))
    BY <2>0
  <2>2. PICK f \in Permitted(roles[connection_roles[c] + 1], actions[id].payload) :
          ServerSends(c, Answer(f[1], IF f[1] = "Error" THEN NoSuccess ELSE f[2], id))
    BY <2>1
  <2> DEFINE frame == Answer(f[1], IF f[1] = "Error" THEN NoSuccess ELSE f[2], id)
  <2>3. frame \in Served /\ Permits(c, frame, id)
    BY <1>1, AnswerServed DEF Permits
  <2> HIDE DEF frame
  <2>4. ServerSends(c, frame)
    BY <2>2 DEF frame
  <2>5. QED
    BY <1>6, <2>3, <2>4
<1>9. ASSUME NEW c \in DOMAIN peers, peers[c].wire # << >>, Owes(c) = {},
             (\E frame \in Sendable(c) : ServerSends(c, frame)) \/ ServerCloses(c)
      PROVE  Keeping'
  <2>1. Sendable(c) \subseteq Served
    BY <1>1, SendableServed
  <2>2. QED
    BY <1>6, <1>7, <1>9, <2>1
<1>10. CASE ConformingServerNext
  BY <1>8, <1>9, <1>10 DEF ConformingServerNext
<1>11. QED
  BY <1>4, <1>5, <1>10, RunnerFates DEF ConformingStep

\* The await of an answer that is owed, on a connection that is open.
OwedAt(id) ==
  /\ id \in AwaitsOf(actions) /\ actions[id].first_on_connection
  /\ actions[id].connection \in DOMAIN states

\* When the runner is at such an await, what reached the server first is the setup, and nothing
\* has been received on the connection.
AtOwed ==
  OwedAt(next) =>
    LET c == actions[next].connection
    IN /\ peers[c].wire # << >> /\ Head(peers[c].wire) = next - 1
       /\ states[c].events = << >>
       /\ mode = "await" => ~pumped

\* The message before an await is a setup.
LEMMA SendsSetup ==
  ASSUME CompileInv, NEW id \in AwaitsOf(actions)
  PROVE  /\ id - 1 \in DOMAIN actions /\ IsSend(actions, actions[id].connection, id - 1)
         /\ IsSetup(id - 1)
<1>1. /\ id - 1 \in DOMAIN actions /\ IsSend(actions, actions[id].connection, id - 1)
      /\ actions[id - 1].payload \in Setup
  BY DEF CompileInv, AwaitsPaired
<1>2. actions[id - 1].payload # RawBytes
  <2>1. DOMAIN RawBytes = {"raw"}
    BY DEF RawBytes
  <2>2. "protocol" \in DOMAIN actions[id - 1].payload
    BY <1>1 DEF Setup
  <2>3. QED
    BY <2>1, <2>2
<1>3. QED
  BY <1>1, <1>2 DEF IsSetup, IsSend

\* An answer the specification permits is one the runner takes for the answer.
LEMMA PermittedSettles ==
  ASSUME NEW c, NEW frame, NEW id, Permits(c, frame, id)
  PROVE  R!Decodes(frame) /\ frame.type # "Garbage" /\ frame.type \in {"Error", "Success"}
<1>1. PICK f \in Permitted(roles[connection_roles[c] + 1], actions[id].payload) :
        frame = Answer(f[1], IF f[1] = "Error" THEN NoSuccess ELSE f[2], id)
  BY DEF Permits
<1>2. f[1] \in {"Error", "Success"}
  BY DEF Permitted
<1>3. frame.type = f[1]
  BY <1>1 DEF Answer
<1>4. QED
  BY <1>2, <1>3 DEF R!Decodes

\* What the runner finds there: the answer, or a server that has it still to give.
LEMMA OwedFrames ==
  ASSUME CompileInv, RunTypes, Traced, Keeping, AtOwed, OwedAt(next)
  PROVE  LET c == actions[next].connection
         IN /\ c \in DOMAIN peers /\ ~peers[c].poisoned
            /\ peers[c].inbox # << >> => Permits(c, Head(peers[c].inbox), next - 1)
            /\ peers[c].inbox = << >> => ~peers[c].closed /\ Owes(c) # {}
<1> DEFINE c == actions[next].connection
<1>1. c \in DOMAIN states /\ c \in DOMAIN peers /\ PeerOK(peers[c]) /\ KeepsTo(c, peers[c])
      /\ TraceAt(<< >>, peers[c])
  BY DEF OwedAt, RunTypes, TablesOK, Keeping, Traced, AtOwed
<1>2. peers[c].wire # << >> /\ Head(peers[c].wire) = next - 1 /\ IsSetup(Head(peers[c].wire))
  BY SendsSetup DEF AtOwed, OwedAt
<1>3. \/ peers[c].served = << >> /\ ~peers[c].closed
      \/ peers[c].served # << >> /\ Permits(c, peers[c].served[1], next - 1)
  BY <1>1, <1>2 DEF KeepsTo
<1>4. ~peers[c].poisoned
  <2>1. SUFFICES ASSUME peers[c].poisoned PROVE FALSE
    OBVIOUS
  <2>2. Len(<< >>) < Len(peers[c].served) /\ peers[c].served[Len(<< >>) + 1].type = "Garbage"
    BY <1>1, <2>1 DEF TraceAt, Cut
  <2>3. Len(<< >>) = 0 /\ 0 + 1 = 1
    OBVIOUS
  <2>4. peers[c].served # << >> /\ peers[c].served[1].type = "Garbage"
    BY <2>2, <2>3
  <2>5. QED
    BY <1>3, <2>4, PermittedSettles
<1>5. peers[c].inbox = peers[c].served
  <2>1. << >> \o peers[c].inbox = peers[c].served
    BY <1>1, <1>4 DEF TraceAt
  <2>2. peers[c].inbox \in Seq(Served)
    BY <1>1 DEF PeerOK
  <2>3. QED
    BY <2>1, <2>2, ConcatEmptySeq
<1>6. ASSUME peers[c].inbox # << >> PROVE Permits(c, Head(peers[c].inbox), next - 1)
  <2>1. Head(peers[c].inbox) = peers[c].served[1]
    BY <1>1, <1>5, <1>6, HeadTailSplit DEF PeerOK
  <2>2. QED
    BY <1>3, <1>5, <1>6, <2>1
<1>7. ASSUME peers[c].inbox = << >> PROVE ~peers[c].closed /\ Owes(c) # {}
  BY <1>1, <1>2, <1>3, <1>5, <1>7, OwesNothing
<1>8. QED
  BY <1>1, <1>4, <1>6, <1>7

\* Such an await ends with the answer, and with nothing else.
LEMMA OwedAwaitEnds ==
  ASSUME CompileInv, RunTypes, Traced, Keeping, AtOwed, OwedAt(next), mode = "await",
         ConformingStep
  PROVE  \/ ConformingServerNext
         \/ /\ mode' = "step" /\ next' = next + 1
            /\ \E frame : /\ Permits(actions[next].connection, frame, next - 1)
                          /\ outcomes' = Append(outcomes, R!Completed(frame))
<1> DEFINE c == actions[next].connection
<1>1. /\ c \in DOMAIN peers /\ ~peers[c].poisoned
      /\ peers[c].inbox # << >> => Permits(c, Head(peers[c].inbox), next - 1)
      /\ peers[c].inbox = << >> => ~peers[c].closed /\ Owes(c) # {}
      /\ ~pumped
  BY OwedFrames DEF AtOwed
<1>2. CASE R!PumpReceives
  <2> DEFINE frame == Head(peers[c].inbox)
             state == R!Dispatched(states[c], frame)
  <2>1. Permits(c, frame, next - 1) /\ R!Decodes(frame)
    BY <1>1, <1>2, PermittedSettles DEF R!PumpReceives, R!Receives, R!Readable, R!Current
  <2>2. c \in DOMAIN states /\ states[c].setup = "Pending" /\ StateOK(states[c]) /\ TablesOK
    BY DEF OwedAt, RunTypes, TablesOK, PlaceOK
  <2>3. state.setup # "Pending" /\ state.answer = frame
    <3>1. frame \in Served
      BY <1>2, <2>2, ReceivesTakes DEF R!PumpReceives, R!Current
    <3>2. QED
      BY <2>1, <2>2, <3>1, DispatchedIs
  <2>4. state.setup # "Pending" => R!AwaitEnds(R!Completed(state.answer), Len(state.events))
    BY <1>2 DEF R!PumpReceives, R!Current
  <2> HIDE DEF state, frame
  <2>5. R!AwaitEnds(R!Completed(frame), Len(state.events))
    BY <2>3, <2>4
  <2>6. mode' = "step" /\ next' = next + 1 /\ outcomes' = Append(outcomes, R!Completed(frame))
    BY <2>5 DEF R!AwaitEnds, R!Record
  <2>7. QED
    BY <2>1, <2>6
<1>3. ~R!PumpPoisoned
  <2>1. SUFFICES ASSUME R!PumpPoisoned PROVE FALSE
    OBVIOUS
  <2>2. peers[c].inbox # << >> /\ Head(peers[c].inbox).type = "Garbage"
    BY <1>1, <2>1 DEF R!PumpPoisoned, R!ReceiveFails, R!Decrypts, R!Readable, R!Current
  <2>3. QED
    BY <1>1, <2>2, PermittedSettles
<1>4. ~R!PumpClosed
  BY <1>1 DEF R!PumpClosed, R!Readable, R!Current
<1>5. ~(Owes(c) = {} /\ R!PumpTimesOut)
  BY <1>1 DEF R!PumpTimesOut, R!Expired, R!Silent, R!Readable, R!Current
<1>6. R!RunnerNext => R!PumpReceives \/ R!PumpPoisoned \/ R!PumpClosed
  BY DEF R!RunnerNext, R!SkipBlock, R!EnterBlock, R!ExitBlock, R!ConnectFails, R!Connect,
    R!SendNotOpen, R!Send, R!SendFails, R!AdvanceTime, R!AwaitNotOpen, R!AwaitBegin, R!ProbeBegin,
    R!ProbeReceives, R!ProbeFails, R!ProbeEnds, R!RunEnds, R!Doing
<1>7. QED
  BY <1>2, <1>3, <1>4, <1>5, <1>6 DEF ConformingStep

\* The steps that leave the runner where it is leave it at the same await.
LEMMA AtOwedStays ==
  ASSUME CompileInv, RunInv, Keeping, AtOwed, UNCHANGED actions, ConformingStep, next' = next
  PROVE  AtOwed'
<1>1. SUFFICES ASSUME OwedAt(next)'
               PROVE  LET c == actions[next].connection
                      IN /\ peers'[c].wire # << >> /\ Head(peers'[c].wire) = next - 1
                         /\ states'[c].events = << >>
                         /\ mode' = "await" => ~pumped'
  BY DEF AtOwed
<1> DEFINE c == actions[next].connection
<1>2. next \in AwaitsOf(actions) /\ actions[next].first_on_connection /\ c \in DOMAIN states'
  BY <1>1 DEF OwedAt, AwaitsOf
<1>3. /\ TablesOK /\ PlaceOK /\ CompileTypes /\ RunTypes /\ Traced
      /\ actions[next].name = "AwaitSetupResponse" /\ next \in DOMAIN actions
  BY <1>2 DEF RunInv, RunTypes, CompileInv, AwaitsOf
<1>4. next # next + 1 /\ next # Len(actions) + 1
  BY <1>3, HandAction
<1>5. mode = "await" \/ mode = "step"
  BY <1>3, <1>4 DEF PlaceOK
<1>6. R!AwaitBegin \/ ConformingServerNext
  <2>1. CASE mode = "await"
    <3>1. OwedAt(next)
      BY <1>2, <1>3, <2>1 DEF OwedAt, PlaceOK
    <3>2. QED
      BY <1>3, <1>4, <2>1, <3>1, OwedAwaitEnds
  <2>2. CASE mode = "step"
    <3>1. ~R!AwaitNotOpen
      BY <1>4 DEF R!AwaitNotOpen, R!Record
    <3>2. R!RunnerNext => R!AwaitNotOpen \/ R!AwaitBegin
      BY <1>3, <1>4, <2>2 DEF R!RunnerNext, R!SkipBlock, R!EnterBlock, R!ExitBlock, R!ConnectFails,
        R!Connect, R!SendNotOpen, R!Send, R!SendFails, R!AdvanceTime, R!PumpReceives,
        R!PumpPoisoned, R!PumpClosed, R!ProbeBegin, R!ProbeReceives, R!ProbeFails, R!ProbeEnds, R!RunEnds,
        R!Doing, R!Current
    <3>3. QED
      BY <2>2, <3>1, <3>2 DEF ConformingStep
  <2>3. QED
    BY <1>5, <2>1, <2>2
<1>7. CASE R!AwaitBegin
  <2>1. /\ states' = [states EXCEPT ![c].setup = "Pending"] /\ c \in DOMAIN states
        /\ pumped' = FALSE /\ UNCHANGED peers
    BY <1>7 DEF R!AwaitBegin, R!Current, R!Open, R!server_vars
  <2>2. OwedAt(next)
    BY <1>2, <2>1 DEF OwedAt
  <2>3. states'[c].events = states[c].events
    BY <1>3, <2>1 DEF TablesOK, StateOK
  <2>4. QED
    BY <2>1, <2>2, <2>3 DEF AtOwed
<1>8. CASE ConformingServerNext
  <2>1. UNCHANGED <<mode, pumped, states>>
    BY <1>8 DEF ConformingServerNext, ServerAnswers, ServerSends, ServerCloses, run_vars
  <2>2. OwedAt(next)
    BY <1>2, <2>1 DEF OwedAt
  <2>3. c \in DOMAIN peers /\ peers'[c].wire = peers[c].wire
    <3>1. c \in DOMAIN peers
      BY <1>3, <2>2 DEF OwedAt, TablesOK
    <3>2. \A d \in DOMAIN peers : peers'[d].wire = peers[d].wire
      BY <1>3, <1>8, StandingSteps
    <3>3. QED
      BY <3>1, <3>2
  <2>4. /\ peers[c].wire # << >> /\ Head(peers[c].wire) = next - 1
        /\ states[c].events = << >> /\ (mode = "await" => ~pumped)
    BY <2>2 DEF AtOwed
  <2>5. QED
    BY <2>1, <2>3, <2>4, Zenon
<1>9. QED
  BY <1>6, <1>7, <1>8

\* The runner comes to an await from the send before it.
LEMMA ReachesAwait ==
  ASSUME CompileInv, RunInv, UNCHANGED actions, ConformingStep, next' # next,
         next' \in AwaitsOf(actions)
  PROVE  /\ next' = next + 1 /\ next \in Nat /\ next >= 1 /\ mode = "step"
         /\ IsSend(actions, actions[next'].connection, next)
         /\ R!SendNotOpen \/ R!Send \/ R!SendFails
<1>1. /\ TablesOK /\ PlaceOK /\ CompileTypes /\ RunTypes /\ RunStep
      /\ DOMAIN actions = 1..Len(actions) /\ Len(actions) \in Nat
  BY LenProperties DEF RunInv, RunTypes, CompileInv, CompileTypes, ConformingStep, RunStep
<1>2. RunKind /\ next \in Nat /\ next >= 1
  BY <1>1, RunStepKind, OutcomesAre
<1>3. /\ next' - 1 \in DOMAIN actions /\ next' \in DOMAIN actions
      /\ IsSend(actions, actions[next'].connection, next' - 1)
  BY SendsSetup DEF AwaitsOf
<1>4. next' = next + 1
  <2>1. ASSUME NEW last \in Nat, SkipKind(last) PROVE FALSE
    <3>1. /\ next' = last + 1 /\ next \in EntersOf(actions)
          /\ last = IF actions[next].end < Len(actions) THEN actions[next].end ELSE Len(actions)
      BY <2>1 DEF SkipKind, EntersOf
    <3>2. last < Len(actions) /\ last = actions[next].end /\ actions[last].name = "Send"
      BY <1>1, <1>3, <3>1 DEF IsSend
    <3>3. actions[last].name = "ExitBlock"
      <4>0. Len(actions) < MaxActionId
        <5>1. /\ Len(actions) <= 2 * (at - 1) /\ 2 * Len(program) < MaxActionId
              /\ at \in 1..(Len(program) + 1) /\ Len(program) \in Nat /\ MaxActionId \in Nat
          <6>1. /\ Len(actions) <= 2 * (at - 1) /\ 2 * Len(program) < MaxActionId
                /\ at \in 1..(Len(program) + 1) /\ program \in Seq(Instruction)
            BY <1>1 DEF CompileTypes
          <6>2. MaxActionId \in Nat
            BY DEF MaxActionId
          <6>3. QED
            BY <6>1, <6>2, LenProperties
        <5>2. QED
          BY <1>1, <5>1
      <4>1. /\ actions \in Seq(CompiledAction) /\ Len(actions) < MaxActionId /\ ClosedBlocks(actions)
            /\ next \in 1..Len(actions) /\ actions[next].name = "EnterOnSetupSuccess"
        BY <1>1, <3>1, <4>0 DEF CompileInv, CompileTypes, EntersOf
      <4>2. last <= Len(actions)
        BY <1>1, <3>2
      <4>3. QED
        BY <3>2, <4>1, <4>2, EndOf
    <3>4. QED
      BY <3>2, <3>3
  <2>2. ASSUME NEW o, Records(o) PROVE next' = next + 1
    BY <2>2 DEF Records
  <2>3. QED
    BY <1>2, <2>1, <2>2 DEF RunKind, RecordKind, ConnectKind, AwaitKind, PumpKind, DrainKind,
      ServeKind, QuietKind
<1>5. next' - 1 = next /\ next \in DOMAIN actions /\ actions[next].name = "Send"
  BY <1>2, <1>3, <1>4 DEF IsSend
<1>6. mode = "step"
  BY <1>1, <1>5 DEF PlaceOK
<1>7. R!SendNotOpen \/ R!Send \/ R!SendFails
  <2>1. ~ConformingServerNext
    <3>1. ConformingServerNext => next' = next
      BY DEF ConformingServerNext, ServerAnswers, ServerSends, ServerCloses, run_vars
    <3>2. QED
      BY <3>1
  <2>2. R!RunnerNext => R!SendNotOpen \/ R!Send \/ R!SendFails
    <3>1. next # Len(actions) + 1
      BY <1>1, <1>5
    <3>2. QED
      BY <1>5, <1>6, <3>1 DEF R!RunnerNext, R!SkipBlock, R!EnterBlock, R!ExitBlock,
        R!ConnectFails, R!Connect, R!AdvanceTime, R!AwaitNotOpen, R!AwaitBegin, R!PumpReceives,
        R!PumpPoisoned, R!PumpClosed, R!ProbeBegin, R!ProbeReceives, R!ProbeFails, R!ProbeEnds, R!RunEnds,
        R!Doing, R!Current
  <2>3. QED
    BY <1>6, <2>1, <2>2 DEF ConformingStep
<1>8. QED
  BY <1>2, <1>3, <1>4, <1>5, <1>6, <1>7

\* The runner arrives at the await of an owed answer with nothing received.
LEMMA AtOwedReached ==
  ASSUME CompileInv, RunInv, Wired, Keeping, UNCHANGED actions, ConformingStep, next' # next
  PROVE  AtOwed'
<1>1. SUFFICES ASSUME OwedAt(next)'
               PROVE  LET c == actions[next'].connection
                      IN /\ peers'[c].wire # << >> /\ Head(peers'[c].wire) = next' - 1
                         /\ states'[c].events = << >>
                         /\ mode' = "await" => ~pumped'
  BY DEF AtOwed
<1> DEFINE c == actions[next'].connection
<1>2. next' \in AwaitsOf(actions) /\ actions[next'].first_on_connection /\ c \in DOMAIN states'
  BY <1>1 DEF OwedAt, AwaitsOf
<1>3. /\ next' = next + 1 /\ next \in Nat /\ next >= 1 /\ mode = "step"
      /\ IsSend(actions, c, next)
      /\ R!SendNotOpen \/ R!Send \/ R!SendFails
  BY <1>2, ReachesAwait
<1>4. UNCHANGED <<mode, states>> /\ actions[next].connection = c
  BY <1>3 DEF R!SendNotOpen, R!Send, R!SendFails, R!OnlyRecorded, IsSend
<1>5. c \in DOMAIN states /\ c \in DOMAIN peers /\ PeerOK(peers[c]) /\ StateOK(states[c])
  BY <1>2, <1>4 DEF RunInv, RunTypes, TablesOK
<1>6. peers[c].wire = << >>
  <2> DEFINE wire == peers[c].wire
  <2>1. SUFFICES ASSUME wire # << >> PROVE FALSE
    OBVIOUS
  <2>2. wire \in Seq(Nat) /\ WireOK(c, wire, next) /\ 1 \in DOMAIN wire
    BY <1>5, <2>1, HeadTailSplit, LenProperties DEF PeerOK, Wired
  <2>3. wire[1] \in 1..(next - 1) /\ IsSend(actions, c, wire[1])
    BY <2>2 DEF WireOK
  <2>4. wire[1] \in Nat /\ wire[1] >= 1 /\ wire[1] < next' /\ wire[1] # next' - 1
    BY <1>3, <2>3
  <2> HIDE DEF wire
  <2>5. QED
    BY <1>2, <2>3, <2>4, FirstSend
<1>7. ~peers[c].closed /\ ~peers[c].torn /\ peers[c].served = << >>
  BY <1>5, <1>6 DEF Keeping, KeepsTo
<1>8. R!Send
  BY <1>3, <1>4, <1>5, <1>7 DEF R!SendNotOpen, R!SendFails, R!Open, R!Current
<1>9. peers'[c].wire # << >> /\ Head(peers'[c].wire) = next
  <2> DEFINE p == [peers[c] EXCEPT !.wire = Append(@, next)]
  <2>1. p.wire = Append(peers[c].wire, next) /\ peers' = [peers EXCEPT ![c] = p]
    BY <1>4, <1>7, <1>8, SendWires DEF CompileInv, RunInv
  <2> HIDE DEF p
  <2>2. peers'[c].wire = Append(<< >>, next)
    BY <1>5, <1>6, <2>1
  <2>3. QED
    BY <1>3, <2>2, FirstOfAll
<1>10. states[c].events = << >>
  <2> DEFINE e == states[c].events
  <2>1. e \in Seq(Served) /\ peers[c].inbox \in Seq(Served) /\ TraceAt(e, peers[c])
    BY <1>5 DEF StateOK, PeerOK, RunInv, Traced
  <2>2. ~peers[c].poisoned
    <3>1. peers[c].poisoned => Len(e) < Len(<< >>)
      BY <1>7, <2>1 DEF TraceAt, Cut
    <3>2. Len(<< >>) = 0 /\ Len(e) \in Nat
      BY <2>1, LenProperties
    <3>3. QED
      BY <3>1, <3>2
  <2>3. e \o peers[c].inbox = << >>
    BY <1>7, <2>1, <2>2 DEF TraceAt
  <2>4. QED
    <3> HIDE DEF e
    <3>1. Len(e \o peers[c].inbox) = Len(e) + Len(peers[c].inbox) /\ Len(e) \in Nat
          /\ Len(peers[c].inbox) \in Nat /\ Len(<< >>) = 0
      BY <2>1, ConcatProperties, LenProperties
    <3>2. Len(e) = 0
      BY <2>3, <3>1
    <3>3. e = << >>
      BY <2>1, <3>2, EmptySeq
    <3>4. QED
      BY <3>3 DEF e
<1>11. QED
  BY <1>3, <1>4, <1>9, <1>10

\* Every await of an owed answer that was attempted has got one that the specification permits.
OwedAnswered ==
  \A id \in DOMAIN outcomes :
    id \in AwaitsOf(actions) /\ actions[id].first_on_connection /\ outcomes[id].tag # "Skipped"
    => /\ outcomes[id].tag = "Completed"
       /\ Permits(actions[id].connection, outcomes[id].frame, id - 1)

\* What the await of an owed answer gets is an answer that is permitted.
LEMMA OwedAnsweredStep ==
  ASSUME CompileInv, RunInv, Keeping, AtOwed, OwedAnswered, UNCHANGED <<actions, roles>>,
         ConformingStep
  PROVE  OwedAnswered'
<1>1. /\ TablesOK /\ PlaceOK /\ CompileTypes /\ RunTypes /\ RunStep /\ OpenedBy /\ AwaitsBound
      /\ Traced
  BY DEF RunInv, RunTypes, Bound, CompileInv, ConformingStep, RunStep
<1>2. RunKind /\ \A c \in DOMAIN peers : connection_roles'[c] = connection_roles[c]
  BY <1>1, RunStepKind, RolesKept
<1>3. ASSUME NEW id \in DOMAIN outcomes', outcomes'[id].tag # "Skipped",
             id \in AwaitsOf(actions), actions[id].first_on_connection
      PROVE  /\ outcomes'[id].tag = "Completed"
             /\ Permits(actions[id].connection, outcomes'[id].frame, id - 1)
             /\ actions[id].connection \in DOMAIN peers
  <2>1. ASSUME id \in DOMAIN outcomes, outcomes'[id] = outcomes[id]
        PROVE  /\ outcomes'[id].tag = "Completed"
               /\ Permits(actions[id].connection, outcomes'[id].frame, id - 1)
               /\ actions[id].connection \in DOMAIN peers
    BY <1>1, <1>3, <2>1 DEF OwedAnswered, AwaitsBound, AwaitsOf, TablesOK
  <2>2. CASE EndsNoAwait
    BY <1>3, <2>1, <2>2 DEF EndsNoAwait, OutcomesGrow, AwaitsOf
  <2>3. ASSUME NEW o \in Outcome, NEW taken, AwaitKind(actions[next].connection, o, taken)
        PROVE  /\ outcomes'[id].tag = "Completed"
               /\ Permits(actions[id].connection, outcomes'[id].frame, id - 1)
               /\ actions[id].connection \in DOMAIN peers
    <3>1. mode = "await" /\ Records(o)
      BY <2>3 DEF AwaitKind
    <3>2. /\ next \in Nat /\ next >= 1 /\ DOMAIN outcomes = 1..(next - 1)
          /\ DOMAIN outcomes' = 1..next /\ \A k \in 1..(next - 1) : outcomes'[k] = outcomes[k]
      BY <1>1, <3>1, RecordsAdd
    <3>3. CASE id # next
      BY <2>1, <3>2, <3>3
    <3>4. CASE id = next
      <4>1. OwedAt(next) /\ actions[next].connection \in DOMAIN peers
        BY <1>1, <1>3, <3>1, <3>4 DEF OwedAt, PlaceOK, TablesOK
      <4>2. next' # next
        BY <3>1, <3>2 DEF Records
      <4>3. ~ConformingServerNext
        <5>1. ConformingServerNext => next' = next
          BY DEF ConformingServerNext, ServerAnswers, ServerSends, ServerCloses, run_vars
        <5>2. QED
          BY <4>2, <5>1
      <4>4. PICK frame : /\ Permits(actions[next].connection, frame, next - 1)
                         /\ outcomes' = Append(outcomes, R!Completed(frame))
        BY <1>1, <3>1, <4>1, <4>3, OwedAwaitEnds
      <4>5. outcomes'[next] = R!Completed(frame)
        <5>1. outcomes \in Seq(Outcome) /\ Len(outcomes) + 1 = next
          BY <1>1, <3>2 DEF PlaceOK
        <5>2. QED
          BY <4>4, <5>1
      <4>6. R!Completed(frame).tag = "Completed" /\ R!Completed(frame).frame = frame
        BY DEF R!Completed
      <4>7. QED
        BY <3>4, <4>1, <4>4, <4>5, <4>6
    <3>5. QED
      BY <3>3, <3>4
  <2>4. QED
    BY <1>1, <1>2, <2>2, <2>3, StepsEndingNoAwait
<1>4. SUFFICES ASSUME NEW id \in DOMAIN outcomes', outcomes'[id].tag # "Skipped",
                      id \in AwaitsOf(actions), actions[id].first_on_connection
               PROVE  /\ outcomes'[id].tag = "Completed"
                      /\ Permits(actions[id].connection, outcomes[id].frame, id - 1)'
  BY DEF OwedAnswered, AwaitsOf
<1>5. /\ outcomes'[id].tag = "Completed"
      /\ Permits(actions[id].connection, outcomes'[id].frame, id - 1)
      /\ actions[id].connection \in DOMAIN peers
  BY <1>3, <1>4
<1>6. connection_roles'[actions[id].connection] = connection_roles[actions[id].connection]
  BY <1>2, <1>5
<1>7. QED
  BY <1>5, <1>6 DEF Permits

\* What the specification permits is an answer to a setup.
LEMMA PermittedIs ==
  ASSUME NEW config, NEW spec, NEW f \in Permitted(config, spec)
  PROVE  f[1] \in {"Error", "Success"} /\ f[2] \in Successes
  BY DEF Permitted

\* What the specification permits, the oracle accepts.
LEMMA PermittedIsAcceptable ==
  ASSUME NEW config \in [protocol : Protocols, min_version : Nat, max_version : Nat],
         NEW spec \in Setup, NEW f \in Permitted(config, spec), NEW id, NEW frame,
         frame = Answer(f[1], IF f[1] = "Error" THEN NoSuccess ELSE f[2], id)
  PROVE  \/ frame.type = "Error"
         \/ frame.type = "Success" /\ AcceptableSuccess(config, spec, frame)
<1>0. frame.type = f[1]
  BY DEF Answer
<1>1. f[1] \in {"Error", "Success"} /\ f[2] \in Successes /\ frame.type = f[1]
  BY <1>0, PermittedIs
<1>2. ASSUME f[1] = "Success" PROVE AcceptableSuccess(config, spec, frame)
  <2>1. frame.version = f[2].version /\ frame.fixed = f[2].fixed
    BY <1>2 DEF Answer
  <2>2. f[2].version \in Nat
    BY <1>1, FramesAssumption
  <2>3. config.min_version \in Nat /\ config.max_version \in Nat /\ spec.min_version \in Nat
        /\ spec.max_version \in Nat
    BY VersionsAssumption DEF Setup
  <2>4. /\ config.protocol = spec.protocol
        /\ f[2].version >= config.min_version /\ f[2].version <= config.max_version
        /\ f[2].version >= spec.min_version /\ f[2].version <= spec.max_version
        /\ f[2].fixed => spec.protocol # "Mining" \/ "rolling" \notin spec.flags
    BY <1>2 DEF Permitted
  <2>5. /\ frame.version \in spec.min_version..spec.max_version
        /\ frame.version \in config.min_version..config.max_version
    BY <2>1, <2>2, <2>3, <2>4
  <2>6. QED
    BY <2>1, <2>4, <2>5 DEF AcceptableSuccess
<1>3. f[1] = "Error" \/ f[1] = "Success"
  BY <1>1
<1>4. CASE f[1] = "Error"
  BY <1>0, <1>4
<1>5. CASE f[1] = "Success"
  BY <1>0, <1>2, <1>5
<1>6. QED
  BY <1>3, <1>4, <1>5

\* A run that is judged is one to the end, and nothing in it speaks against the server.
LEMMA ConformingPasses ==
  ASSUME HarnessInv, Judged, OwedAnswered, alive, mode = "done"
  PROVE  Evaluate(actions, metadata, roles, outcomes, connection_roles, alive) = "Ok"
<1>1. /\ CompileTypes /\ AwaitsPaired(actions, metadata.session_setups) /\ RunTypes /\ PlaceOK
  BY DEF HarnessInv, CompileInv, RunInv, RunTypes
<1>2. Len(outcomes) = Len(actions) /\ DOMAIN outcomes = DOMAIN actions
  <2>1. next = Len(actions) + 1 /\ Len(outcomes) = next - 1 /\ Len(actions) \in Nat
        /\ DOMAIN actions = 1..Len(actions) /\ DOMAIN outcomes = 1..(next - 1)
    BY <1>1, OutcomesAre, LenProperties DEF PlaceOK, CompileTypes
  <2>2. QED
    BY <2>1
<1>3. ASSUME NEW id \in AwaitsOf(actions), actions[id].connection \in DOMAIN connection_roles
      PROVE  LET await == actions[id]
             IN /\ await.session \in DOMAIN metadata.session_setups
                /\ connection_roles[await.connection] < Len(roles)
                /\ Check(roles[connection_roles[await.connection] + 1],
                         metadata.session_setups[await.session],
                         Owed(await, id, metadata.violations),
                         outcomes[id])
  <2> DEFINE c == actions[id].connection
             config == roles[connection_roles[c] + 1]
             spec == metadata.session_setups[actions[id].session]
  <2>1. /\ actions[id].session \in DOMAIN metadata.session_setups
        /\ spec = actions[id - 1].payload /\ spec \in Setup
    BY <1>1 DEF AwaitsPaired
  <2>2. connection_roles[c] < Len(roles) /\ connection_roles[c] \in Nat
    BY <1>3 DEF Judged
  <2>3. config \in [protocol : Protocols, min_version : Nat, max_version : Nat]
    <3>1. roles \in Seq([protocol : Protocols, min_version : Nat, max_version : Nat])
      BY DeploymentsAssumption DEF Judged
    <3>2. connection_roles[c] + 1 \in 1..Len(roles)
      BY <2>2, <3>1, LenProperties
    <3>3. QED
      BY <3>1, <3>2, ElementOfSeq
  <2> DEFINE frame == outcomes[id].frame
  <2>4. CASE actions[id].first_on_connection /\ outcomes[id].tag # "Skipped"
    <3>1. id \in DOMAIN outcomes
      BY <1>2 DEF AwaitsOf
    <3>2. outcomes[id].tag = "Completed" /\ Permits(c, frame, id - 1)
      BY <2>4, <3>1 DEF OwedAnswered
    <3>3. PICK f \in Permitted(config, spec) :
            frame = Answer(f[1], IF f[1] = "Error" THEN NoSuccess ELSE f[2], id - 1)
      BY <2>1, <3>2 DEF Permits
    <3> HIDE DEF config, spec, frame
    <3>4. \/ frame.type = "Error"
          \/ frame.type = "Success" /\ AcceptableSuccess(config, spec, frame)
      BY <2>1, <2>3, <3>3, PermittedIsAcceptable
    <3>5. QED
      BY <2>1, <2>2, <3>2, <3>4 DEF Check, config, spec, frame
  <2>5. CASE ~(actions[id].first_on_connection /\ outcomes[id].tag # "Skipped")
    BY <2>1, <2>2, <2>5 DEF Check, Owed
  <2>6. QED
    BY <2>4, <2>5
<1>4. SetupConnectionConforms(actions, metadata, roles, outcomes, connection_roles)
  BY <1>3 DEF SetupConnectionConforms, AwaitsOf
<1>5. QED
  BY <1>2, <1>4 DEF Evaluate, HarnessIntegrity

\* A run against a server that keeps to the protocol.
Conforming ==
  server = "conforming" =>
    /\ alive /\ Keeping /\ AtOwed /\ OwedAnswered
    /\ verdict \in {"none", "Ok", "Skip"}

\* What a harness next to a conforming server may do.
LEMMA ConformingSteps ==
  ASSUME HarnessNext, server = "conforming"
  PROVE  \/ Compile
         \/ Running /\ ConformingStep /\ UNCHANGED <<compiler_vars, environment, verdict>>
         \/ (Skip \/ Judge) /\ UNCHANGED <<compiler_vars, environment, runner_vars>>
<1>1. CASE Compile
  BY <1>1
<1>2. CASE Skip \/ Judge
  BY <1>2 DEF Skip, Judge
<1>3. CASE Run
  BY <1>3 DEF Run, ConformingStep
<1>4. CASE ConformingTimeOut
  BY <1>4 DEF ConformingTimeOut, TimeOut, ConformingStep, R!SendTimesOut, R!Doing
<1>5. ASSUME NEW c, NEW frame, ServerSends(c, frame)
      PROVE  Running /\ UNCHANGED <<compiler_vars, environment, verdict>>
  BY <1>5 DEF ServerSends
<1>6. ASSUME NEW c, ServerCloses(c)
      PROVE  Running /\ UNCHANGED <<compiler_vars, environment, verdict>>
  BY <1>6 DEF ServerCloses
<1>7. CASE ConformingServerNext
  BY <1>5, <1>6, <1>7 DEF ConformingServerNext, ServerAnswers, ConformingStep
<1>8. QED
  BY <1>1, <1>2, <1>3, <1>4, <1>7 DEF HarnessNext

\* A conforming server does not die.
LEMMA AliveStays ==
  ASSUME ConformingStep
  PROVE  alive' = alive
<1>1. CASE R!RunnerNext \/ R!PumpTimesOut
  BY <1>1 DEF R!RunnerNext, R!SkipBlock, R!EnterBlock, R!ExitBlock, R!ConnectFails, R!Connect,
    R!SendNotOpen, R!Send, R!SendFails, R!AdvanceTime, R!AwaitNotOpen, R!AwaitBegin,
    R!PumpReceives, R!PumpPoisoned, R!PumpClosed, R!ProbeBegin, R!ProbeReceives, R!ProbeFails, R!ProbeEnds,
    R!RunEnds, R!OnlyRecorded, R!PumpTimesOut, R!server_vars
<1>2. CASE ConformingServerNext
  BY <1>2 DEF ConformingServerNext, ServerAnswers, ServerSends, ServerCloses
<1>3. QED
  BY <1>1, <1>2 DEF ConformingStep

\* Nothing of it is said of the program while it is compiled, and nothing changes once judged.
LEMMA ConformingStays ==
  ASSUME alive, Keeping, AtOwed, OwedAnswered, UNCHANGED <<roles, runner_vars>>,
         actions' = actions \/ R!RunnerInit
  PROVE  alive' /\ Keeping' /\ AtOwed' /\ OwedAnswered'
<1>1. UNCHANGED <<roles, next, mode, pumped, outcomes, connection_roles, states, peers, alive>>
  BY DEF runner_vars, run_vars
<1>2. CASE actions' = actions
  <2>1. Keeping'
    BY <1>1, <1>2 DEF Keeping, KeepsTo, Permits, IsSetup
  <2>2. AtOwed'
    BY <1>1, <1>2 DEF AtOwed, OwedAt, AwaitsOf
  <2>3. OwedAnswered'
    BY <1>1, <1>2 DEF OwedAnswered, AwaitsOf, Permits
  <2>4. QED
    BY <1>1, <2>1, <2>2, <2>3
<1>3. CASE R!RunnerInit
  <2>1. DOMAIN peers' = {} /\ DOMAIN states' = {} /\ DOMAIN outcomes' = {}
    BY <1>1, <1>3 DEF R!RunnerInit
  <2>2. QED
    BY <1>1, <2>1 DEF Keeping, AtOwed, OwedAt, OwedAnswered
<1>4. QED
  BY <1>2, <1>3

\* The three parts about a conforming server, together.
LEMMA ConformingStepKeeps ==
  ASSUME HarnessInv, Judged, Wired, Conforming, [HarnessNext]_harness_vars
  PROVE  Conforming'
<1>1. SUFFICES ASSUME server' = "conforming"
               PROVE  alive' /\ Keeping' /\ AtOwed' /\ OwedAnswered'
                      /\ verdict' \in {"none", "Ok", "Skip"}
  BY DEF Conforming
<1>2. server' = server
  BY HarnessSteps DEF Compile, environment, harness_vars
<1>3. /\ server = "conforming" /\ alive /\ Keeping /\ AtOwed /\ OwedAnswered
      /\ verdict \in {"none", "Ok", "Skip"}
  BY <1>1, <1>2 DEF Conforming
<1>4. CASE Compile
  <2>1. compile_result = "compiling" /\ UNCHANGED <<roles, runner_vars, verdict>>
    BY <1>4 DEF Compile, CompilerNext, environment
  <2>2. R!RunnerInit
    BY <2>1 DEF HarnessInv, Waits
  <2>3. QED
    BY <1>3, <2>1, <2>2, ConformingStays
<1>5. ASSUME Running, ConformingStep, UNCHANGED <<compiler_vars, environment, verdict>>
      PROVE  alive' /\ Keeping' /\ AtOwed' /\ OwedAnswered' /\ verdict' \in {"none", "Ok", "Skip"}
  <2>1. UNCHANGED <<actions, roles, verdict>>
    BY <1>5 DEF compiler_vars, environment
  <2>2. CompileInv /\ RunInv /\ RunTypes /\ OpenedBy
    BY DEF HarnessInv, RunInv, Bound
  <2>3. alive' /\ verdict' \in {"none", "Ok", "Skip"}
    BY <1>3, <1>5, <2>1, AliveStays
  <2>4. Keeping'
    BY <1>3, <1>5, <2>1, <2>2, KeepingStep
  <2>5. AtOwed'
    BY <1>3, <1>5, <2>1, <2>2, AtOwedStays, AtOwedReached
  <2>6. OwedAnswered'
    BY <1>3, <1>5, <2>1, <2>2, OwedAnsweredStep
  <2>7. QED
    BY <2>3, <2>4, <2>5, <2>6
<1>6. ASSUME Skip \/ Judge, UNCHANGED <<compiler_vars, environment, runner_vars>>
      PROVE  alive' /\ Keeping' /\ AtOwed' /\ OwedAnswered' /\ verdict' \in {"none", "Ok", "Skip"}
  <2>1. UNCHANGED <<actions, roles, runner_vars>>
    BY <1>6 DEF compiler_vars, environment
  <2>2. CASE Skip
    BY <1>3, <2>1, <2>2, ConformingStays DEF Skip
  <2>3. CASE Judge
    <3>1. verdict' = Evaluate(actions, metadata, roles, outcomes, connection_roles, alive)
          /\ mode = "done"
      BY <1>3, <2>3 DEF Judge, Answering
    <3>2. verdict' = "Ok"
      BY <1>3, <3>1, ConformingPasses
    <3>3. QED
      BY <1>3, <2>1, <3>2, ConformingStays
  <2>4. QED
    BY <1>6, <2>2, <2>3
<1>7. CASE UNCHANGED harness_vars
  <2>1. UNCHANGED <<actions, roles, runner_vars, verdict>>
    BY <1>7 DEF harness_vars, compiler_vars, environment
  <2>2. QED
    BY <1>3, <2>1, ConformingStays
<1>8. QED
  BY <1>3, <1>4, <1>5, <1>6, <1>7, ConformingSteps

\* Wired is kept by every step of the harness.
LEMMA WiredStays ==
  ASSUME HarnessInv, Wired, [HarnessNext]_harness_vars
  PROVE  Wired'
<1>1. CASE Compile
  <2>1. compile_result = "compiling" /\ UNCHANGED peers
    BY <1>1 DEF Compile, CompilerNext, runner_vars
  <2>2. DOMAIN peers' = {}
    BY <2>1 DEF HarnessInv, Waits, R!RunnerInit
  <2>3. QED
    BY <2>2 DEF Wired
<1>2. ASSUME Running, RunStep, UNCHANGED <<compiler_vars, environment, verdict>>
      PROVE  Wired'
  BY <1>2, WiredStep DEF compiler_vars, HarnessInv, RunInv, Bound
<1>3. ASSUME UNCHANGED <<compiler_vars, runner_vars>> PROVE Wired'
  <2>1. UNCHANGED <<actions, peers, next>>
    BY <1>3 DEF compiler_vars, runner_vars, run_vars
  <2>2. QED
    BY <2>1 DEF Wired, WireOK, IsSend
<1>4. QED
  BY <1>1, <1>2, <1>3, HarnessSteps DEF harness_vars

\* No false alarm: a deployment that keeps to the protocol is never reported, whatever program it
\* is given and whatever of it is skipped, and any deployment is held only to the answers it
\* owed, a setup that the compiler calls the first on its connection being the first that got
\* there.
THEOREM NoFalseAlarm == HarnessSpec => []NoFalseFail
<1>1. HarnessInit => Judged /\ Wired /\ Conforming
  <2>1. ASSUME HarnessInit PROVE Judged
    BY <2>1 DEF HarnessInit, Judged, R!RunnerInit
  <2>2. ASSUME HarnessInit
        PROVE  DOMAIN peers = {} /\ DOMAIN states = {} /\ DOMAIN outcomes = {} /\ alive
               /\ verdict = "none"
    BY <2>2 DEF HarnessInit, R!RunnerInit
  <2>3. QED
    BY <2>1, <2>2 DEF Wired, Conforming, Keeping, AtOwed, OwedAt, OwedAnswered
<1>2. HarnessInv /\ Judged /\ [HarnessNext]_harness_vars => Judged'
  BY JudgedStep
<1>3. HarnessInv /\ Wired /\ [HarnessNext]_harness_vars => Wired'
  BY WiredStays
<1>4. HarnessInv /\ Judged /\ Wired /\ Conforming /\ [HarnessNext]_harness_vars => Conforming'
  BY ConformingStepKeeps
<1>5. HarnessInv /\ Wired /\ Conforming => NoFalseFail
  BY WiredMeans DEF HarnessInv, Conforming, NoFalseFail
<1>6. QED
  BY <1>1, <1>2, <1>3, <1>4, <1>5, HarnessInvariant, PTL DEF HarnessSpec
=============================================================================
