------------------------------ MODULE Compiler ------------------------------
(***************************************************************************)
(* The compiler (crates/stratamoto-ir/src/compiler.rs): one pass over a    *)
(* program that keeps a value per variable and lowers each instruction to  *)
(* the actions that carry it out, noting where the client departs from     *)
(* the protocol.                                                           *)
(*                                                                         *)
(* Roles, connections and sessions are numbered from 0 as in the source;   *)
(* instructions, variables and actions are positions in a sequence and     *)
(* start at 1.  Payloads are abstract: a SetupConnection is the            *)
(* specification it encodes, a raw frame is RawBytes.                      *)
(***************************************************************************)
EXTENDS IR, Maps, SequencesExt

ASSUME DefaultsAssumption == "Mining" \in Protocols /\ 2 \in Versions

VARIABLES
  program,              \* the instructions being compiled
  at,                   \* the instruction to compile next
  values,               \* the value of each variable defined so far
  actions,              \* the actions emitted
  connections,          \* connections numbered so far
  sessions,             \* sessions numbered so far
  sent,                 \* connections something has already been sent on
  raw_framed,           \* connections a raw frame has been put on
  blocks,               \* the enter actions of the open conditional blocks
  metadata,             \* CompiledMetadata
  compile_result        \* "compiling", "compiled" or the CompilerError

counters == <<connections, sessions, sent, raw_framed>>
compiler_vars == <<program, at, values, actions, counters, blocks, metadata, compile_result>>

CompilerErrors == {"MissingValue", "UnexpectedValue", "StringTooLong", "UnbalancedBlock"}

MaxActionId == 65535             \* ActionId::MAX, the end of a block not closed yet
RawBytes    == [raw |-> TRUE]    \* the payload of a raw frame

\* SetupConnectionSpec::default.  long_host: the endpoint host is longer than 255 bytes;
\* long_device: one of the four device strings is.
DefaultSetup ==
  [protocol |-> "Mining", min_version |-> 2, max_version |-> 2, flags |-> {},
   long_host |-> FALSE, long_device |-> FALSE]

CompilerInit(p) ==
  /\ program = p
  /\ at = 1
  /\ values = << >>
  /\ actions = << >>
  /\ connections = NumConnections
  /\ sessions = 0
  /\ sent = 0..(NumConnections - 1)
  /\ raw_framed = {}
  /\ blocks = << >>
  /\ metadata = [action_instructions |-> << >>, session_variables |-> << >>,
                 connection_variables |-> << >>, session_setups |-> << >>,
                 violations |-> << >>]
  /\ compile_result = "compiling"

-----------------------------------------------------------------------------
(* Reading inputs. *)

\* The accessor each input of an operation is read with.
Accessors(op) ==
  CASE op.name = "Connect"                 -> <<"Role">>
    [] op.name = "SetVersions"             -> <<"SetupConnection", "Version", "Version">>
    [] op.name = "SetFlags"                -> <<"SetupConnection", "Flags">>
    [] op.name = "SetEndpoint"             -> <<"SetupConnection", "Str", "Port">>
    [] op.name = "SetDeviceInfo"           -> <<"SetupConnection", "Str", "Str", "Str", "Str">>
    [] op.name = "EndBuildSetupConnection" -> <<"SetupConnection">>
    [] op.name = "SendSetupConnection"     -> <<"Connection", "SetupConnection">>
    [] op.name = "BeginOnSetupSuccess"     -> <<"SetupAttempt">>
    [] op.name = "SendRawFrame"            -> <<"Connection", "Bytes">>
    [] op.name = "AdvanceTime"             -> <<"Duration">>
    [] OTHER                               -> << >>

\* The setters read the message they change last, every other operation reads in order.
ReadOrder(op) ==
  IF op.name \in {"SetVersions", "SetFlags", "SetEndpoint", "SetDeviceInfo"}
    THEN [k \in DOMAIN Accessors(op) |-> IF k = Len(Accessors(op)) THEN 1 ELSE k + 1]
    ELSE [k \in DOMAIN Accessors(op) |-> k]

\* Mutant: the value pushed last is out of reach.
MissingLast(i, k) == i.inputs[k] \notin 1..Len(values) - 1

\* An input that names no value.  Every instruction has the inputs its operation takes: one with
\* fewer, which only a program nobody validated can have, has the source panic on the index.
Missing(i, k) == i.inputs[k] \notin DOMAIN values
Unexpected(i, k) == ~Missing(i, k) /\ values[i.inputs[k]].kind # Accessors(i.operation)[k]
Unreadable(i, k) == Missing(i, k) \/ Unexpected(i, k)

Readable(i) == \A k \in DOMAIN Accessors(i.operation) : ~Unreadable(i, k)

Input(i, k) == values[i.inputs[k]]

-----------------------------------------------------------------------------
(* Writing actions and values. *)

Instr == program[at]
Doing(name) == at \in DOMAIN program /\ Instr.operation.name = name

\* push_action
Push(as) ==
  /\ actions' = actions \o as
  /\ at' = at + 1

\* Mutant: an instruction is noted once, however many actions it became.
NotedOnce(as) == [metadata EXCEPT !.action_instructions = Append(@, at)]

Noted(as) == [metadata EXCEPT !.action_instructions = @ \o [k \in DOMAIN as |-> at]]

Fails(error) ==
  /\ compile_result' = error
  /\ UNCHANGED <<program, at, values, actions, counters, blocks, metadata>>

\* An input that cannot be read as the operation needs it: the first one read is reported.
CompileUnreadable ==
  /\ at \in DOMAIN program
  /\ ~Readable(Instr)
  /\ LET order == ReadOrder(Instr.operation)
         first == CHOOSE k \in DOMAIN order :
                    /\ Unreadable(Instr, order[k])
                    /\ \A j \in 1..(k - 1) : ~Unreadable(Instr, order[j])
     IN Fails(IF Missing(Instr, order[first]) THEN "MissingValue" ELSE "UnexpectedValue")

\* Mutant: only the outputs are counted.
NopValuesOuterOnly(op) == [k \in 1..op.outputs |-> [kind |-> "Nop"]]

\* A Nop defines its inner outputs as well, which are numbered after its outputs.
NopValues(op) == [k \in 1..(op.outputs + op.inner_outputs) |-> [kind |-> "Nop"]]

\* Operations that only define values.
LoadedValues(op) ==
  CASE op.name = "Nop"            -> NopValues(op)
    [] op.name = "LoadRole"       -> <<[kind |-> "Role", role |-> op.index]>>
    [] op.name = "LoadConnection" -> <<[kind |-> "Connection", connection |-> op.index]>>
    [] op.name = "LoadVersion"    -> <<[kind |-> "Version", version |-> op.version]>>
    [] op.name = "LoadFlags"      -> <<[kind |-> "Flags", flags |-> op.flags]>>
    [] op.name = "LoadStr"        -> <<[kind |-> "Str", long |-> op.long]>>
    [] op.name = "LoadPort"       -> <<[kind |-> "Port"]>>
    [] op.name = "LoadBytes"      -> <<[kind |-> "Bytes"]>>
    [] op.name = "LoadDuration"   -> <<[kind |-> "Duration"]>>
    [] op.name = "BeginBuildSetupConnection" ->
         <<[kind |-> "SetupConnection", spec |-> DefaultSetup]>>

CompileLoad ==
  /\ at \in DOMAIN program
  /\ Instr.operation.name \in {"Nop", "LoadRole", "LoadConnection", "LoadVersion",
                               "LoadFlags", "LoadPort", "LoadStr", "LoadBytes",
                               "LoadDuration", "BeginBuildSetupConnection"}
  /\ values' = values \o LoadedValues(Instr.operation)
  /\ at' = at + 1
  /\ UNCHANGED <<program, actions, counters, blocks, metadata, compile_result>>

CompileConnect ==
  LET connect == <<[name |-> "Connect", connection |-> connections,
                    role |-> Input(Instr, 1).role]>>
  IN /\ Doing("Connect") /\ Readable(Instr)
     /\ connections' = connections + 1
     /\ values' = Append(values, [kind |-> "Connection", connection |-> connections])
     /\ metadata' = [Noted(connect) EXCEPT
                       !.connection_variables = Insert(@, connections, Len(values) + 1)]
     /\ Push(connect)
     /\ UNCHANGED <<program, sessions, sent, raw_framed, blocks, compile_result>>

\* What a setter makes of the message it is given.
Edited(i, spec) ==
  LET name == i.operation.name
  IN CASE name = "SetVersions"   -> [spec EXCEPT !.min_version = Input(i, 2).version,
                                                 !.max_version = Input(i, 3).version]
       [] name = "SetFlags"      -> [spec EXCEPT !.flags = Input(i, 2).flags]
       [] name = "SetEndpoint"   -> [spec EXCEPT !.long_host = Input(i, 2).long]
       [] name = "SetDeviceInfo" -> [spec EXCEPT !.long_device =
                                                    \E k \in 2..5 : Input(i, k).long]

CompileSet ==
  /\ at \in DOMAIN program
  /\ Instr.operation.name \in {"SetVersions", "SetFlags", "SetEndpoint", "SetDeviceInfo"}
  /\ Readable(Instr)
  /\ values' = [values EXCEPT ![Instr.inputs[1]].spec = Edited(Instr, @)]
  /\ at' = at + 1
  /\ UNCHANGED <<program, actions, counters, blocks, metadata, compile_result>>

\* Mutant: the finished message keeps the default protocol.
StampedWithDefault(spec, p) == spec

Stamped(spec, p) == [spec EXCEPT !.protocol = p]

CompileEndBuild ==
  /\ Doing("EndBuildSetupConnection") /\ Readable(Instr)
  /\ values' = Append(values, [kind |-> "SetupConnection",
                               spec |-> Stamped(Input(Instr, 1).spec,
                                                Instr.operation.protocol)])
  /\ at' = at + 1
  /\ UNCHANGED <<program, actions, counters, blocks, metadata, compile_result>>

-----------------------------------------------------------------------------
(* SendSetupConnection: the frame and the wait for its answer. *)

\* encode_setup_connection and str0_255
TooLong(spec) == spec.long_host \/ spec.long_device

CompileSendTooLong ==
  /\ Doing("SendSetupConnection") /\ Readable(Instr)
  /\ TooLong(Input(Instr, 2).spec)
  /\ Fails("StringTooLong")

\* Mutant: a raw frame is forgotten, so the setup after it counts as the first message.
FirstOnConnectionButRaw(c) == c \notin sent \/ c \in raw_framed

FirstOnConnection(c) == c \notin sent

SetupViolations(c) ==
  (IF FirstOnConnection(c) THEN {} ELSE {"SetupNotFirst"})
    \cup (IF c \in raw_framed THEN {"RawFrameBefore"} ELSE {})

CompileSendSetup ==
  LET c     == Input(Instr, 1).connection
      spec  == Input(Instr, 2).spec
      send  == [name |-> "Send", connection |-> c, payload |-> spec]
      await == [name |-> "AwaitSetupResponse", connection |-> c, session |-> sessions,
                protocol |-> Instr.operation.protocol,
                first_on_connection |-> FirstOnConnection(c)]
      noted == Noted(<<send, await>>)
  IN /\ Doing("SendSetupConnection") /\ Readable(Instr)
     /\ ~TooLong(spec)
     /\ sent' = sent \cup {c}
     /\ sessions' = sessions + 1
     /\ values' = Append(values, [kind |-> "SetupAttempt", session |-> sessions,
                                  connection |-> c])
     /\ metadata' = [noted EXCEPT
          !.session_variables = Insert(@, sessions, Len(values) + 1),
          !.session_setups    = Insert(@, sessions, spec),
          !.violations        = IF SetupViolations(c) = {} THEN @
                                ELSE Insert(@, Len(actions) + 2, SetupViolations(c))]
     /\ Push(<<send, await>>)
     /\ UNCHANGED <<program, connections, raw_framed, blocks, compile_result>>

-----------------------------------------------------------------------------
(* Conditional blocks. *)

CompileBeginOnSuccess ==
  LET enter == <<[name |-> "EnterOnSetupSuccess", session |-> Input(Instr, 1).session,
                  end |-> MaxActionId]>>
  IN /\ Doing("BeginOnSetupSuccess") /\ Readable(Instr)
     /\ Push(enter)
     /\ metadata' = Noted(enter)
     /\ blocks' = Append(blocks, Len(actions) + 1)
     /\ values' = Append(values, [kind |-> "Session"])
     /\ UNCHANGED <<program, counters, compile_result>>

\* Mutant: the exit patches the outermost open block.
EnterToPatchOutermost == Head(blocks)

EnterToPatch == Last(blocks)

CompileEndOnSuccess ==
  LET exit == [name |-> "ExitBlock"]
  IN /\ Doing("EndOnSetupSuccess")
     /\ blocks # << >>
     /\ actions' = Append([actions EXCEPT ![EnterToPatch].end = Len(actions) + 1], exit)
     /\ at' = at + 1
     /\ metadata' = Noted(<<exit>>)
     /\ blocks' = Front(blocks)
     /\ UNCHANGED <<program, values, counters, compile_result>>

CompileUnbalanced ==
  /\ Doing("EndOnSetupSuccess")
  /\ blocks = << >>
  /\ Fails("UnbalancedBlock")

-----------------------------------------------------------------------------
(* The rest. *)

CompileSendRaw ==
  LET c    == Input(Instr, 1).connection
      send == <<[name |-> "Send", connection |-> c, payload |-> RawBytes]>>
  IN /\ Doing("SendRawFrame") /\ Readable(Instr)
     /\ sent' = sent \cup {c}
     /\ raw_framed' = raw_framed \cup {c}
     /\ Push(send)
     /\ metadata' = Noted(send)
     /\ UNCHANGED <<program, values, connections, sessions, blocks, compile_result>>

CompileStep(name) ==
  /\ Doing(name) /\ Readable(Instr)
  /\ Push(<<[name |-> name]>>)
  /\ metadata' = Noted(<<[name |-> name]>>)
  /\ UNCHANGED <<program, values, counters, blocks, compile_result>>

CompileDone ==
  /\ at = Len(program) + 1
  /\ compile_result' = "compiled"
  /\ UNCHANGED <<program, at, values, actions, counters, blocks, metadata>>

CompilerNext ==
  /\ compile_result = "compiling"
  /\ \/ CompileUnreadable
     \/ CompileLoad
     \/ CompileConnect
     \/ CompileSet
     \/ CompileEndBuild
     \/ CompileSendTooLong
     \/ CompileSendSetup
     \/ CompileBeginOnSuccess
     \/ CompileEndOnSuccess
     \/ CompileUnbalanced
     \/ CompileSendRaw
     \/ CompileStep("AdvanceTime")
     \/ CompileStep("Probe")
     \/ CompileDone

-----------------------------------------------------------------------------
(* Properties. *)

Kinds == {"Nop", "Role", "Connection", "SetupAttempt", "Session", "Version", "Flags", "Port",
          "Str", "Bytes", "Duration", "SetupConnection"}

CompilerTypeOK ==
  /\ at \in 1..(Len(program) + 1)
  /\ \A v \in DOMAIN values : values[v].kind \in Kinds
  /\ raw_framed \subseteq sent
  /\ DOMAIN metadata.session_setups = 0..(sessions - 1)
  /\ Len(metadata.action_instructions) = Len(actions)
  /\ compile_result \in {"compiling", "compiled"} \cup CompilerErrors

Awaits == {id \in DOMAIN actions : actions[id].name = "AwaitSetupResponse"}
Enters == {id \in DOMAIN actions : actions[id].name = "EnterOnSetupSuccess"}
Exits  == {id \in DOMAIN actions : actions[id].name = "ExitBlock"}

\* The sends on connection c among the actions before id.
SendsBefore(c, id) ==
  {k \in 1..(id - 1) : actions[k].name = "Send" /\ actions[k].connection = c}

\* An answer is owed (first_on_connection, and no violation noted: oracle.rs:122) exactly to
\* a setup whose frame is the only one the actions put on its connection up to there, on a
\* connection the program itself opened (compiler.rs:201-204, 320 and 354-361).
OwedIffFirstInProgram ==
  \A id \in Awaits :
    LET c     == actions[id].connection
        first == c >= NumConnections /\ SendsBefore(c, id) = {id - 1}
    IN /\ actions[id].first_on_connection <=> first
       /\ id \in DOMAIN metadata.violations <=> ~first

\* Every block is closed by an exit of its own, after it, and two blocks are nested or
\* apart: what skipping from an enter to its end skips is whole blocks (compiler.rs:364-385).
BlocksNest ==
  /\ {id \in Enters : actions[id].end = MaxActionId} = {blocks[d] : d \in DOMAIN blocks}
  /\ \A id \in Enters : actions[id].end # MaxActionId =>
        actions[id].end \in Exits /\ id < actions[id].end
  /\ \A a, b \in Enters : a < b => actions[a].end < b \/ actions[b].end < actions[a].end
                                  \/ actions[a].end = MaxActionId
  /\ \A e \in Exits : \E id \in Enters : actions[id].end = e
=============================================================================
