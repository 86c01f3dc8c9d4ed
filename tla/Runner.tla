------------------------------- MODULE Runner -------------------------------
(***************************************************************************)
(* The runner (crates/stratamoto/src/runner.rs) and the dispatcher each    *)
(* connection's frames go through (events.rs), against a server that may   *)
(* send, close or die at any moment.                                       *)
(*                                                                         *)
(* One runner step is one action of the compiled program, except that an   *)
(* await and a probe receive frame by frame, so that the server's steps    *)
(* fall in between.  Real time is abstracted to the deadline of an await   *)
(* passing or not; a probe has none, and ends when nothing is readable.    *)
(* A frame is what the dispatcher makes of it; answers is a history field, *)
(* the send action of the SetupConnection the server meant it for, 0 for   *)
(* none.                                                                   *)
(***************************************************************************)
EXTENDS Naturals, Sequences, Maps, SequencesExt

CONSTANTS
  FrameTypes,   \* what the server may send besides answers to a setup
  Successes,    \* the contents a SetupConnection.Success may have
  MaxFrames     \* bound on the frames the server sends in a run

VARIABLES
  actions,           \* the compiled program being run
  roles,             \* the configuration of each role of the deployment
  next,              \* the action to carry out next
  mode,              \* "step", "await", "probe" or "done"
  pumped,            \* an await has received a frame and is still waiting
  undrained,         \* the connections a probe has yet to drain, in the order it does
  outcomes,          \* execution.outcomes
  session_results,   \* execution.sessions
  connection_roles,  \* execution.connection_roles
  unsolicited,       \* execution.unsolicited, as places in the connections' traces
  states,            \* the state of each open connection, as the dispatcher keeps it
  peers,             \* the server's end of each open connection
  alive              \* whether the server is serving

execution == <<outcomes, session_results, connection_roles, unsolicited>>
run_vars  == <<next, mode, pumped, undrained, execution, states>>
server_vars == <<peers, alive>>

Open == DOMAIN states

RunnerInit ==
  /\ next = 1
  /\ mode = "step"
  /\ pumped = FALSE
  /\ undrained = << >>
  /\ outcomes = << >>
  /\ session_results = << >>
  /\ connection_roles = << >>
  /\ unsolicited = {}
  /\ states = << >>
  /\ peers = << >>
  /\ alive = TRUE

-----------------------------------------------------------------------------
(* Outcomes. *)

NoFrame == [type |-> "None", version |-> 0, fixed |-> FALSE, answers |-> 0]

Completed(frame)    == [tag |-> "Completed", frame |-> frame]
Failed(tag)         == [tag |-> tag, frame |-> NoFrame]
NotOpen(c)          == [tag |-> "Skipped", connection |-> c]
NotEstablished(s)   == [tag |-> "Skipped", session |-> s]

Record(outcome) ==
  /\ outcomes' = Append(outcomes, outcome)
  /\ next' = next + 1

\* What an action changes that only says what became of it.
OnlyRecorded ==
  UNCHANGED <<mode, pumped, undrained, session_results, connection_roles, unsolicited, states,
              server_vars>>

Current == actions[next]
Doing(name) == mode = "step" /\ next \in DOMAIN actions /\ Current.name = name

-----------------------------------------------------------------------------
(* The dispatcher (events.rs). *)

Decodes(frame) == frame.type \notin {"Unknown", "Malformed"}

\* apply: what a frame that decodes makes of a pending setup.
Settled(frame) ==
  CASE frame.type = "Success" -> "Established"
    [] frame.type = "Error"   -> "Rejected"
    [] OTHER                  -> "Unexpected"

\* Mutant: a frame that does not decode is not kept.
DispatchedIfDecodes(state, frame) ==
  LET settles == state.setup = "Pending" /\ Decodes(frame)
  IN [setup  |-> IF settles THEN Settled(frame) ELSE state.setup,
      answer |-> IF settles THEN frame ELSE state.answer,
      events |-> IF Decodes(frame) THEN Append(state.events, frame) ELSE state.events]

\* dispatch: a frame that decodes settles a setup that is pending, none changes one that is
\* not, and every frame is kept.  answer is the frame that settled the setup, whose contents
\* the source keeps in the state itself.
Dispatched(state, frame) ==
  LET settles == state.setup = "Pending" /\ Decodes(frame)
  IN [setup  |-> IF settles THEN Settled(frame) ELSE state.setup,
      answer |-> IF settles THEN frame ELSE state.answer,
      events |-> Append(state.events, frame)]

NewState == [setup |-> "Unsent", answer |-> NoFrame, events |-> << >>]

\* What the server keeps of a connection: the frames on their way to the client, whether it has
\* closed, whether the client can still decrypt and the server still read, and as history the
\* sends that reached it and the frames it sent.
NewPeer ==
  [inbox |-> << >>, closed |-> FALSE, poisoned |-> FALSE, torn |-> FALSE,
   wire |-> << >>, served |-> << >>]

-----------------------------------------------------------------------------
(* Blocks. *)

\* Mutant: any answer will do.
EstablishedOnAnswer(s) == s \in DOMAIN session_results

\* established: whether the server agreed to the session's setup.
Established(s) ==
  s \in DOMAIN session_results /\ session_results[s].response = "Success"

\* Mutant: the exit is left out of what is skipped, though the loop goes on after it.
SkippedButExit(last) == [k \in 1..(last - next) |-> NotEstablished(Current.session)]

\* The outcomes of a skipped block, one per action up to its exit.
Skipped(last) == [k \in 1..(last - next + 1) |-> NotEstablished(Current.session)]

\* The whole block is skipped, its exit included.
SkipBlock ==
  LET last == IF Current.end < Len(actions) THEN Current.end ELSE Len(actions)
  IN /\ Doing("EnterOnSetupSuccess")
     /\ ~Established(Current.session)
     /\ outcomes' = outcomes \o Skipped(last)
     /\ next' = last + 1
     /\ OnlyRecorded

EnterBlock ==
  /\ Doing("EnterOnSetupSuccess")
  /\ Established(Current.session)
  /\ Record(Completed(NoFrame))
  /\ OnlyRecorded

ExitBlock ==
  /\ Doing("ExitBlock")
  /\ Record(Completed(NoFrame))
  /\ OnlyRecorded

-----------------------------------------------------------------------------
(* Connect, send, advance time. *)

\* deployment.connect: no such role, or the role could not be reached within the budget,
\* which may happen to one that is serving.
ConnectFails ==
  /\ Doing("Connect")
  /\ Record(Failed("TransportError"))
  /\ OnlyRecorded

\* Mutant: which role the connection was opened to is not recorded.
RolesUnrecorded(c, role) == connection_roles

RolesWith(c, role) == Insert(connection_roles, c, role)

Connect ==
  LET c == Current.connection
  IN /\ Doing("Connect")
     /\ alive
     /\ Current.role < Len(roles)
     /\ states' = Insert(states, c, NewState)
     /\ peers' = Insert(peers, c, NewPeer)
     /\ connection_roles' = RolesWith(c, Current.role)
     /\ Record(Completed(NoFrame))
     /\ UNCHANGED <<mode, pumped, undrained, session_results, unsolicited, alive>>

SendNotOpen ==
  /\ Doing("Send")
  /\ Current.connection \notin Open
  /\ Record(NotOpen(Current.connection))
  /\ OnlyRecorded

\* The frame goes out; a server that has closed, or was left with part of an earlier frame,
\* never sees it.
Send ==
  LET c == Current.connection
  IN /\ Doing("Send")
     /\ c \in Open
     /\ peers' = IF peers[c].closed \/ peers[c].torn THEN peers
                 ELSE [peers EXCEPT ![c].wire = Append(@, next)]
     /\ Record(Completed(NoFrame))
     /\ UNCHANGED <<mode, pumped, undrained, session_results, connection_roles, unsolicited,
                    states, alive>>

\* The peer is known to have closed.
SendFails ==
  /\ Doing("Send")
  /\ Current.connection \in Open
  /\ peers[Current.connection].closed
  /\ \E failure \in {"TransportClosed", "TransportError"} : Record(Failed(failure))
  /\ OnlyRecorded

\* The server has stopped reading and the write runs into its timeout part way through the
\* frame: the stream is torn there.
SendTimesOut ==
  LET c == Current.connection
  IN /\ Doing("Send")
     /\ c \in Open
     /\ ~peers[c].closed
     /\ peers' = [peers EXCEPT ![c].torn = TRUE]
     /\ Record(Failed("TransportError"))
     /\ UNCHANGED <<mode, pumped, undrained, session_results, connection_roles, unsolicited,
                    states, alive>>

AdvanceTime ==
  /\ Doing("AdvanceTime")
  /\ Record(Completed(NoFrame))
  /\ OnlyRecorded

-----------------------------------------------------------------------------
(* AwaitSetupResponse and the pump behind it. *)

AwaitNotOpen ==
  /\ Doing("AwaitSetupResponse")
  /\ Current.connection \notin Open
  /\ Record(NotOpen(Current.connection))
  /\ OnlyRecorded

AwaitBegin ==
  /\ Doing("AwaitSetupResponse")
  /\ Current.connection \in Open
  /\ states' = [states EXCEPT ![Current.connection].setup = "Pending"]
  /\ mode' = "await"
  /\ pumped' = FALSE
  /\ UNCHANGED <<next, undrained, execution, server_vars>>

\* What the outcome of an await amounts to.
Response(outcome) ==
  IF outcome.tag # "Completed" THEN "Silence"
  ELSE IF outcome.frame.type \in {"Success", "Error"} THEN outcome.frame.type ELSE "Unexpected"

\* The await ends: its outcome, and the session with the response the outcome amounts to.
\* place and by are history: where the answer is in the connection's trace, and the send it
\* was meant for.
AwaitEnds(outcome, place) ==
  /\ session_results' = Insert(session_results, Current.session,
       [connection |-> Current.connection,
        first      |-> Current.first_on_connection,
        response   |-> Response(outcome),
        place      |-> place,
        by         |-> outcome.frame.answers])
  /\ Record(outcome)
  /\ mode' = "step"
  /\ pumped' = FALSE

Readable(c) == peers[c].inbox # << >>

\* Whether the frame to be read decrypts: none does after one that did not.
Decrypts(c) == ~peers[c].poisoned /\ Head(peers[c].inbox).type # "Garbage"

\* recv of a frame, and its dispatch.
Receives(c) ==
  /\ Readable(c) /\ Decrypts(c)
  /\ peers' = [peers EXCEPT ![c].inbox = Tail(@)]
  /\ states' = [states EXCEPT ![c] = Dispatched(@, Head(peers[c].inbox))]

\* recv of a frame that does not decrypt.
ReceiveFails(c) ==
  /\ Readable(c) /\ ~Decrypts(c)
  /\ peers' = [peers EXCEPT ![c].inbox = Tail(@), ![c].poisoned = TRUE]
  /\ UNCHANGED states

\* A frame arrives and is dispatched; the await ends when the setup is no longer pending.
PumpReceives ==
  LET c     == Current.connection
      state == Dispatched(states[c], Head(peers[c].inbox))
  IN /\ mode = "await"
     /\ Receives(c)
     /\ IF state.setup = "Pending"
          THEN pumped' = TRUE /\ UNCHANGED <<next, mode, outcomes, session_results>>
          ELSE AwaitEnds(Completed(state.answer), Len(state.events))
     /\ UNCHANGED <<undrained, connection_roles, unsolicited, alive>>

PumpPoisoned ==
  /\ mode = "await"
  /\ ReceiveFails(Current.connection)
  /\ AwaitEnds(Failed("TransportError"), 0)
  /\ UNCHANGED <<undrained, connection_roles, unsolicited, alive>>

Silent(c) == ~Readable(c) /\ ~peers[c].closed

\* Mutant: the deadline is lost once a frame has arrived.
ExpiredIfSilent == ~pumped /\ Silent(Current.connection)

\* The deadline passes: nothing to read, or a frame was read that settled nothing and the
\* deadline is found past before the next is.
Expired == pumped \/ Silent(Current.connection)

PumpTimesOut ==
  /\ mode = "await"
  /\ Expired
  /\ AwaitEnds(Failed("TimedOut"), 0)
  /\ UNCHANGED <<undrained, connection_roles, unsolicited, states, server_vars>>

PumpClosed ==
  /\ mode = "await"
  /\ ~Readable(Current.connection)
  /\ peers[Current.connection].closed
  /\ AwaitEnds(Failed("TransportClosed"), 0)
  /\ UNCHANGED <<undrained, connection_roles, unsolicited, states, server_vars>>

-----------------------------------------------------------------------------
(* Probe: every open connection is drained, in the order of a HashMap.     *)

ProbeBegin ==
  /\ Doing("Probe")
  /\ mode' = "probe"
  /\ undrained' \in SetToSeqs(Open)
  /\ UNCHANGED <<next, pumped, execution, states, server_vars>>

\* Mutant: what was collected before is replaced.
CollectedAnew(places) == places

Collected(places) == unsolicited \cup places

\* The connection being drained.
Drained == Head(undrained)

\* A frame is dispatched and the drain goes on: for as long as frames keep coming, so does it.
ProbeReceives ==
  /\ mode = "probe" /\ undrained # << >>
  /\ Receives(Drained)
  /\ unsolicited' = Collected({<<Drained, Len(states[Drained].events) + 1>>})
  /\ UNCHANGED <<next, mode, pumped, undrained, outcomes, session_results, connection_roles, alive>>

\* The receive that fails ends the drain of the connection.
ProbeFails ==
  /\ mode = "probe" /\ undrained # << >>
  /\ \/ ReceiveFails(Drained)
     \/ ~Readable(Drained) /\ UNCHANGED <<peers, states>>
  /\ undrained' = Tail(undrained)
  /\ UNCHANGED <<next, mode, pumped, execution, alive>>

ProbeEnds ==
  /\ mode = "probe" /\ undrained = << >>
  /\ mode' = "step"
  /\ Record(Completed(NoFrame))
  /\ UNCHANGED <<pumped, undrained, session_results, connection_roles, unsolicited, states,
                 server_vars>>

RunEnds ==
  /\ mode = "step"
  /\ next = Len(actions) + 1
  /\ mode' = "done"
  /\ UNCHANGED <<next, pumped, undrained, execution, states, server_vars>>

\* What the runner does without waiting on anything but the server's next frame.
RunnerNext ==
  \/ SkipBlock \/ EnterBlock \/ ExitBlock
  \/ ConnectFails \/ Connect
  \/ SendNotOpen \/ Send \/ SendFails
  \/ AdvanceTime
  \/ AwaitNotOpen \/ AwaitBegin \/ PumpReceives \/ PumpPoisoned \/ PumpClosed
  \/ ProbeBegin \/ ProbeReceives \/ ProbeFails \/ ProbeEnds
  \/ RunEnds

-----------------------------------------------------------------------------
(* Properties. *)

RunnerTypeOK ==
  /\ next \in 1..(Len(actions) + 1)
  /\ mode \in {"step", "await", "probe", "done"}
  /\ DOMAIN states = DOMAIN peers /\ DOMAIN states = DOMAIN connection_roles
  /\ undrained \in Seq(Open)
  /\ \A c \in Open : states[c].setup \in
       {"Unsent", "Pending", "Established", "Rejected", "Unexpected"}
  /\ \A s \in DOMAIN session_results :
       session_results[s].response \in {"Success", "Error", "Unexpected", "Silence"}

\* One outcome per action, in the action's order, whatever fails and whatever is skipped
\* (runner.rs:78-82): the outcomes recorded are those of the actions before the next one, an
\* await has bound its session by the time it has an outcome unless it was skipped, and no
\* other action binds one.
OneOutcomePerAction ==
  /\ Len(outcomes) = next - 1
  /\ \A s \in DOMAIN session_results : \E id \in DOMAIN outcomes :
       /\ actions[id].name = "AwaitSetupResponse"
       /\ actions[id].session = s
       /\ outcomes[id].tag # "Skipped"
  /\ \A id \in DOMAIN outcomes :
       actions[id].name = "AwaitSetupResponse" /\ outcomes[id].tag # "Skipped"
         => actions[id].session \in DOMAIN session_results

\* What is in a block runs only once the server agreed to its session (runner.rs:144-156):
\* an action inside a block that was attempted means the block's session has for its answer a
\* SetupConnection.Success in the trace of its connection, and the exit of the block runs or is
\* skipped with its enter.
BlockGuarded ==
  \A enter, id \in DOMAIN outcomes :
    /\ actions[enter].name = "EnterOnSetupSuccess"
    /\ id \in enter..actions[enter].end
    /\ outcomes[id].tag # "Skipped"
    => LET s == actions[enter].session
           events == states[session_results[s].connection].events
       IN /\ s \in DOMAIN session_results
          /\ session_results[s].place \in DOMAIN events
          /\ events[session_results[s].place].type = "Success"
          /\ outcomes[enter].tag # "Skipped"
          /\ actions[enter].end \in DOMAIN outcomes => outcomes[actions[enter].end].tag # "Skipped"

\* The trace of a connection is what the server sent on it, in the order it sent it, with
\* nothing lost or seen twice between awaits and probes, up to the first frame that does not
\* decrypt (events.rs:77-83, noise.rs:138-147).
TraceComplete ==
  \A c \in Open :
    IF peers[c].poisoned
      THEN /\ IsPrefix(states[c].events, peers[c].served)
           /\ peers[c].served[Len(states[c].events) + 1].type = "Garbage"
      ELSE states[c].events \o peers[c].inbox = peers[c].served

\* Every frame of a trace is accounted for once: it answered one session, or a probe collected
\* it as unsolicited, or it arrived during an await and did not decode (runner.rs:108-110,
\* 308-383).
EventsAccounted ==
  \A c \in Open : \A k \in DOMAIN states[c].events :
    LET answered == {s \in DOMAIN session_results :
                       session_results[s].connection = c /\ session_results[s].place = k}
    IN IF <<c, k>> \in unsolicited THEN answered = {}
       ELSE \/ \E s \in answered : answered = {s}
            \/ answered = {} /\ ~Decodes(states[c].events[k])
=============================================================================
