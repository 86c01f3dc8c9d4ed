------------------------------ MODULE Harness -------------------------------
(***************************************************************************)
(* One execution of a scenario (crates/stratamoto-scenarios/src/           *)
(* setup_connection.rs and pool_setup_connection.rs): a program the        *)
(* builder accepts is compiled, run against the deployment, and judged.    *)
(* The server is part of the environment: one of kind "any" does whatever  *)
(* a peer can do to a client, a "conforming" one keeps to the protocol.    *)
(***************************************************************************)
EXTENDS Compiler, Oracles

CONSTANTS
  Programs,      \* the validated programs a run may be given
  Deployments,   \* the sequences of role configurations a run may face
  FrameTypes,    \* what the server may send besides answers to a setup
  Successes,     \* the contents a SetupConnection.Success may have
  Servers,       \* the kinds of server a run may face
  MaxFrames      \* bound on the frames a server of each kind sends in a run

\* What a run is given and faces.  The mutators and generators stop at 4096 instructions, far
\* below what would exhaust the action identifiers, and an answer to a setup is no other frame.
ASSUME ProgramsAssumption ==
  Programs \subseteq Seq(Instruction) /\ \A p \in Programs : 2 * Len(p) < MaxActionId
ASSUME DeploymentsAssumption ==
  Deployments \subseteq Seq([protocol : Protocols, min_version : Nat, max_version : Nat])
ASSUME FramesAssumption ==
  /\ FrameTypes \cap {"Success", "Error", "None"} = {}
  /\ Successes \subseteq [version : Nat, fixed : BOOLEAN]

VARIABLES
  roles, next, mode, pumped, undrained, outcomes, session_results, connection_roles,
  unsolicited, states, peers, alive,
  server,        \* the kind of server the run faces
  verdict        \* ScenarioResult, "none" until the run is judged

R == INSTANCE Runner

run_vars     == <<next, mode, pumped, undrained, outcomes, session_results,
                  connection_roles, unsolicited, states>>
runner_vars  == <<run_vars, peers, alive>>
environment  == <<roles, server>>
harness_vars == <<compiler_vars, environment, runner_vars, verdict>>

\* decode and from_program: what reaches the scenario is a statically valid program.
HarnessInit ==
  /\ \E p \in Programs : CompilerInit(p)
  /\ roles \in Deployments
  /\ server \in Servers
  /\ R!RunnerInit
  /\ verdict = "none"

Compile == CompilerNext /\ UNCHANGED <<environment, runner_vars, verdict>>

Running == compile_result = "compiled" /\ verdict = "none" /\ NumRoles <= Len(roles)

\* execute: a program for more roles than the deployment has is not run.
Skip ==
  /\ compile_result = "compiled" /\ verdict = "none"
  /\ NumRoles > Len(roles)
  /\ verdict' = "Skip"
  /\ UNCHANGED <<compiler_vars, environment, runner_vars>>

\* Whether the frame of action id is a SetupConnection.
IsSetup(id) == actions[id].name = "Send" /\ actions[id].payload # RawBytes

Run == Running /\ R!RunnerNext /\ UNCHANGED <<compiler_vars, environment, verdict>>

TimeOut ==
  Running /\ (R!PumpTimesOut \/ R!SendTimesOut) /\ UNCHANGED <<compiler_vars, environment, verdict>>

\* is_alive is a connection made within a budget: one to a server that is gone fails, one to a
\* server that keeps to the protocol is in time, one to any other may be or not.
Answering == IF server = "conforming" THEN {alive} ELSE {FALSE, alive}

Judge ==
  /\ Running
  /\ mode = "done"
  /\ \E answered \in Answering :
       verdict' = Evaluate(actions, metadata, roles, outcomes, connection_roles, answered)
  /\ UNCHANGED <<compiler_vars, environment, runner_vars>>

-----------------------------------------------------------------------------
(* The server. *)

Answer(type, success, id) ==
  [type |-> type, version |-> success.version, fixed |-> success.fixed, answers |-> id]

NoSuccess == [version |-> 0, fixed |-> FALSE]

\* The answers that may be given to the setup sent by action id.
Answers(id) ==
  {Answer("Error", NoSuccess, id)} \cup {Answer("Success", s, id) : s \in Successes}

OtherFrames == {Answer(type, NoSuccess, 0) : type \in FrameTypes}

\* The setups that reached the server on connection c, and those it has not answered.
Asked(c) == {id \in Range(peers[c].wire) : IsSetup(id)}

Unanswered(c) ==
  {id \in Asked(c) : \A k \in DOMAIN peers[c].served : peers[c].served[k].answers # id}

\* The frames a server may send on connection c: an answer to any setup it has seen, late or
\* again, or a frame that answers nothing.
Sendable(c) == (UNION {Answers(id) : id \in Asked(c)}) \cup OtherFrames

FramesServed == MapThenSumSet(LAMBDA c : Len(peers[c].served), DOMAIN peers)

ServerSends(c, frame) ==
  /\ Running /\ mode # "done"
  /\ alive
  /\ ~peers[c].closed
  /\ FramesServed < MaxFrames[server]
  /\ peers' = [peers EXCEPT ![c].inbox = Append(@, frame), ![c].served = Append(@, frame)]
  /\ UNCHANGED <<compiler_vars, environment, run_vars, alive, verdict>>

ServerCloses(c) ==
  /\ Running /\ mode # "done"
  /\ ~peers[c].closed
  /\ peers' = [peers EXCEPT ![c].closed = TRUE]
  /\ UNCHANGED <<compiler_vars, environment, run_vars, alive, verdict>>

\* Every connection of a server that dies is closed by its system.
ServerDies ==
  /\ Running
  /\ alive
  /\ alive' = FALSE
  /\ peers' = [c \in DOMAIN peers |-> [peers[c] EXCEPT !.closed = TRUE]]
  /\ UNCHANGED <<compiler_vars, environment, run_vars, verdict>>

\* What a server that owes nobody anything may do.
ServerNext ==
  \/ \E c \in DOMAIN peers : \E frame \in Sendable(c) : ServerSends(c, frame)
  \/ \E c \in DOMAIN peers : ServerCloses(c)
  \/ ServerDies

-----------------------------------------------------------------------------
(* A server that keeps to the protocol. *)

\* The setup on connection c that the server owes an answer: the first message on it.
Owes(c) ==
  IF peers[c].wire = << >> THEN {}
  ELSE {Head(peers[c].wire)} \cap Unanswered(c)

\* What the specification lets a role answer: an error, or a success with a version both
\* sides have, for a subprotocol it serves, that does not fix what the client must roll.
Permitted(config, spec) ==
  {f \in {"Error", "Success"} \X Successes :
     f[1] = "Error" \/ /\ config.protocol = spec.protocol
                       /\ f[2].version >= config.min_version /\ f[2].version <= config.max_version
                       /\ f[2].version >= spec.min_version /\ f[2].version <= spec.max_version
                       /\ f[2].fixed => spec.protocol # "Mining" \/ "rolling" \notin spec.flags}

ServerAnswers ==
  \E c \in DOMAIN peers : \E id \in Owes(c) :
    \E f \in Permitted(roles[connection_roles[c] + 1], actions[id].payload) :
      ServerSends(c, Answer(f[1], IF f[1] = "Error" THEN NoSuccess ELSE f[2], id))

\* It speaks first on no connection and leaves no owed answer for later; to a client that
\* broke the protocol, or whose setup it has answered, it may say anything or nothing.
ConformingServerNext ==
  \/ ServerAnswers
  \/ \E c \in DOMAIN peers :
       /\ peers[c].wire # << >> /\ Owes(c) = {}
       /\ (\E frame \in Sendable(c) : ServerSends(c, frame)) \/ ServerCloses(c)

\* An owed answer arrives before the deadline, and what is sent is read.
ConformingTimeOut == mode = "await" /\ Owes(actions[next].connection) = {} /\ TimeOut

-----------------------------------------------------------------------------

HarnessNext ==
  \/ Compile \/ Skip \/ Run \/ Judge
  \/ server = "any" /\ (TimeOut \/ ServerNext)
  \/ server = "conforming" /\ (ConformingTimeOut \/ ConformingServerNext)

HarnessSpec == HarnessInit /\ [][HarnessNext]_harness_vars

\* The compiler and the runner are one thread that never stops of itself, and clocks move: a
\* wait with a deadline ends.  Nothing is assumed of the server.
FairSpec ==
  /\ HarnessSpec
  /\ WF_harness_vars(Compile \/ Skip \/ Judge)
  /\ WF_harness_vars(Run)
  /\ WF_harness_vars(server = "any" /\ TimeOut)

-----------------------------------------------------------------------------
(* Properties. *)

\* The runner's state is well formed and it records one outcome per action, in order
\* (Runner.tla, RunnerTypeOK and OneOutcomePerAction).
OneOutcomePerAction == R!RunnerTypeOK /\ R!OneOutcomePerAction

\* What is in a block runs only after a success on its session's connection (Runner.tla,
\* BlockGuarded).
BlockGuarded == R!BlockGuarded

\* A connection's trace is what the server sent on it, and every frame in it is an answer,
\* unsolicited or undecodable, and only one of them (Runner.tla, TraceComplete and
\* EventsAccounted).
EventsAccounted == R!TraceComplete /\ R!EventsAccounted

\* The send action of a session's setup precedes its await.
SendOf(s) == (CHOOSE id \in Awaits : actions[id].session = s) - 1

\* The compiler decides from the text of the program that a setup is the first message on its
\* connection (compiler.rs:320); when it says so and the frame got out, no message reached the
\* server before it, whatever was skipped or failed in the run.
OwedReallyFirst ==
  \A s \in DOMAIN session_results :
    LET wire == peers[session_results[s].connection].wire
    IN session_results[s].first /\ SendOf(s) \in Range(wire) => Head(wire) = SendOf(s)

\* A deployment that keeps to the protocol is never reported, whatever the program does to it
\* (oracle.rs:120-123, setup_connection.rs:57-84), and any deployment is held only to answers
\* it really owed.
NoFalseFail == OwedReallyFirst /\ (server = "conforming" => verdict \in {"none", "Ok", "Skip"})

\* A run that passes earned it: the deployment still serves, and every setup that was owed an
\* answer on a connection that opened got, on that connection, an error or a success within
\* what the client proposed and the role supports.
PassIsEarned ==
  verdict = "Ok" =>
    /\ alive
    /\ \A id \in Awaits :
         LET c == actions[id].connection
         IN /\ actions[id].first_on_connection
            /\ id \notin DOMAIN metadata.violations
            /\ c \in R!Open
            /\ outcomes[id].tag # "Skipped"
            => \E k \in DOMAIN peers[c].served :
                 LET f == peers[c].served[k]
                 IN <<f.type, [version |-> f.version, fixed |-> f.fixed]>> \in
                      Permitted(roles[connection_roles[c] + 1], actions[id - 1].payload)
                    \/ f.type = "Error"

\* Every run ends in a verdict, against a server that may do anything or nothing but does not
\* send forever (runner.rs:134-180: a program has no loops, and every wait has a deadline but
\* the drain of a probe, runner.rs:375, which goes on while frames come in; MaxFrames is where
\* the server stops).
RunsToAVerdict ==
  server = "any" => <>(verdict # "none" \/ compile_result \in CompilerErrors)

\* compiler.rs:83, "Await the answer to the last request and bind it to a session": an answer
\* that was meant for a setup is bound to that setup's session.
AnswerBoundToItsSetup ==
  \A s \in DOMAIN session_results : session_results[s].by \in {0, SendOf(s)}
=============================================================================
