------------------------------ MODULE Lowering ------------------------------
(***************************************************************************)
(* The builder and the compiler composed: instructions are appended after  *)
(* a prefix the builder is replayed through (from_prefix, which is how a   *)
(* mutator extends a program), finalize hands the program out, and the     *)
(* program is compiled.  A program nobody has validated, such as a decoded *)
(* corpus entry before it is checked, may be given to the compiler too.    *)
(***************************************************************************)
EXTENDS ProgramBuilder, Compiler

CONSTANTS
  Prefix,   \* the instructions the builder is first replayed through
  Decoded   \* programs that reach the compiler without a builder

\* The mutators and generators stop at 4096 instructions (MAX_INSTRUCTIONS), and an instruction
\* becomes two actions at most.
Short(p) == 2 * Len(p) < MaxActionId

ASSUME PrefixAssumption  == Prefix \in Seq(Instruction)
ASSUME DecodedAssumption == Decoded \subseteq Seq(Instruction) /\ \A p \in Decoded : Short(p)
ASSUME LengthAssumption  == 2 * MaxInstructions < MaxActionId

lowering_vars == <<vars, compiler_vars>>

BuilderInit == Init /\ CompilerInit(<< >>)

\* unchecked_new: the instructions are taken as they are and no builder sees them.
DecodedInit ==
  \E p \in Decoded :
    /\ instructions = p /\ result = "unchecked"
    /\ CompilerInit(p)
    /\ active_scopes = << >> /\ active_scopes_set = {} /\ scope_counter = 0
    /\ variables = << >> /\ defined_at = << >> /\ closed_at = << >> /\ popped = FALSE

LoweringInit == BuilderInit \/ DecodedInit

\* from_prefix offers the instructions of the prefix in order; then the caller appends what
\* it likes and may finalize, which hands the program out.
Offered ==
  IF Len(instructions) < Len(Prefix) THEN {Prefix[Len(instructions) + 1]} ELSE Instructions

Build ==
  /\ result = "open"
  /\ \/ \E i \in Offered : AppendInstruction(i)
     \/ Len(instructions) >= Len(Prefix) /\ Finalize
  /\ program' = IF result' = "finalized" THEN instructions ELSE program
  /\ UNCHANGED <<at, values, actions, connections, sessions, sent, raw_framed, blocks,
                 metadata, compile_result>>

Compile ==
  /\ result \in {"finalized", "unchecked"}
  /\ CompilerNext
  /\ UNCHANGED vars

LoweringNext == Build \/ Compile

LoweringSpec == LoweringInit /\ [][LoweringNext]_lowering_vars

-----------------------------------------------------------------------------
(* Properties. *)

\* The kind of value the compiler keeps for a variable of each type.
KindOf(type) ==
  IF type[1] \in {"MutSetupConnection", "ConstSetupConnection"}
    THEN "SetupConnection" ELSE type[1]

\* The compiler numbers values by pushing, the builder numbers variables by pushing, and
\* nothing but the order of the pushes keeps value i the value of variable i: for every
\* variable compiled so far the value is of the kind the type says, and a finished message
\* carries the protocol its type was checked for (compiler.rs:242-385 against
\* builder.rs:173-205).
ValuesMirrorVariables ==
  result = "finalized" =>
  /\ compile_result = "compiled" => Len(values) = Len(variables)
  /\ \A v \in DOMAIN values :
       /\ v \in DOMAIN variables
       /\ values[v].kind = KindOf(variables[v].var)
       /\ variables[v].var[1] = "ConstSetupConnection" =>
            values[v].spec.protocol = variables[v].var[2]

\* A program the builder handed out compiles: the errors that mean "the program was not
\* validated" (compiler.rs:130-140) are not reachable through it, and what is left is a
\* string too long to encode.
ValidatedCompiles ==
  result = "finalized" => compile_result \in {"compiling", "compiled", "StringTooLong"}

\* Blocks are nested, those of an unbalanced program as far as it was compiled (Compiler.tla,
\* BlocksNest), and a program the builder handed out compiles to one with no block left without
\* an exit, so a skipped block always ends inside it (runner.rs:148 clamps the end all the
\* same).
BlocksClosed ==
  /\ BlocksNest
  /\ result = "finalized" /\ compile_result = "compiled" =>
       \A id \in Enters : actions[id].end \in DOMAIN actions

\* Action a does what instruction i says, to what the values of its inputs stand for.
CarriesOut(a, i) ==
  LET name     == i.operation.name
      given(k) == values[i.inputs[k]]
  IN \/ name = "Connect" /\ a.name = "Connect" /\ a.role = given(1).role
     \/ /\ name = "SendRawFrame" /\ a.name = "Send" /\ a.payload = RawBytes
        /\ a.connection = given(1).connection
     \/ /\ name = "SendSetupConnection" /\ a.name = "Send"
        /\ a.connection = given(1).connection /\ a.payload = given(2).spec
     \/ /\ name = "SendSetupConnection" /\ a.name = "AwaitSetupResponse"
        /\ a.connection = given(1).connection /\ a.protocol = i.operation.protocol
     \/ /\ name = "BeginOnSetupSuccess" /\ a.name = "EnterOnSetupSuccess"
        /\ a.session = given(1).session
     \/ name = "EndOnSetupSuccess" /\ a.name = "ExitBlock"
     \/ name \in {"AdvanceTime", "Probe"} /\ a.name = name

Connects == {id \in DOMAIN actions : actions[id].name = "Connect"}

\* What a report reads in the metadata is what happened (compiler.rs:113-127, oracle.rs:166):
\* every action does what the instruction it is attributed to says, with the role, connection,
\* message or attempt that instruction was given, whatever has been compiled since; a session
\* and a connection are named by the variable which that very instruction defined and which
\* still holds them; and a session's recorded setup is the message sent for it, right before
\* the wait, and of the protocol the wait is for.  Each session noted has its wait, each
\* connection noted its connect, and nothing is sent on a connection that does not exist.
NamesItsSource ==
  LET source == metadata.action_instructions
  IN /\ \A id \in DOMAIN actions : CarriesOut(actions[id], program[source[id]])
     /\ \A id \in Awaits :
          LET s == actions[id].session
              v == metadata.session_variables[s]
          IN /\ values[v] = [kind |-> "SetupAttempt", session |-> s,
                             connection |-> actions[id].connection]
             /\ defined_at[v] = source[id] /\ source[id - 1] = source[id]
             /\ metadata.session_setups[s] = actions[id - 1].payload
             /\ metadata.session_setups[s].protocol = actions[id].protocol
     /\ \A id \in Connects :
          LET c == actions[id].connection
              v == metadata.connection_variables[c]
          IN /\ values[v] = [kind |-> "Connection", connection |-> c]
             /\ defined_at[v] = source[id]
     /\ DOMAIN metadata.session_variables = {actions[id].session : id \in Awaits}
     /\ DOMAIN metadata.connection_variables = {actions[id].connection : id \in Connects}
     /\ \A c \in sent : c < connections

\* What the oracles are told of a program is true of it: an answer is owed exactly to a setup
\* that is the first message on its connection, whatever the program (Compiler.tla,
\* OwedIffFirstInProgram), and what a report names is what happened, in a program the builder
\* handed out (NamesItsSource).
MetadataIsTrue ==
  /\ CompilerTypeOK /\ OwedIffFirstInProgram
  /\ result = "finalized" => NamesItsSource
=============================================================================
