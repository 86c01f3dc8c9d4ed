--------------------------- MODULE CompilerProofs ---------------------------
(***************************************************************************)
(* What the compiler does to any program, validated or not (Compiler): the *)
(* blocks of what it emits nest, and an answer is owed exactly where the   *)
(* program sends its first message.  The lemmas are about one step of the  *)
(* compiler; Harness and Lowering, which run it, have the theorems.        *)
(*                                                                         *)
(* A program has fewer than half of ActionId::MAX instructions, since each *)
(* becomes two actions at most: the mutators stop at 4096.                 *)
(***************************************************************************)
EXTENDS Compiler, SequenceTheorems, FiniteSetTheorems, TLAPS

-----------------------------------------------------------------------------
(* Sequences that grow at the end. *)

\* A sequence with one more element, by its positions.
LEMMA Pushed ==
  ASSUME NEW S, NEW s \in Seq(S), NEW x \in S
  PROVE  /\ s \o <<x>> \in Seq(S) /\ Len(s) \in Nat /\ Len(s \o <<x>>) = Len(s) + 1
         /\ DOMAIN s = 1..Len(s) /\ DOMAIN (s \o <<x>>) = 1..(Len(s) + 1)
         /\ \A k \in 1..Len(s) : (s \o <<x>>)[k] = s[k]
         /\ (s \o <<x>>)[Len(s) + 1] = x
<1>1. <<x>> \in Seq(S) /\ Len(<<x>>) = 1 /\ <<x>>[1] = x
  OBVIOUS
<1>2. QED
  BY <1>1, ConcatProperties, LenProperties

\* And with two.
LEMMA PushedTwo ==
  ASSUME NEW S, NEW s \in Seq(S), NEW x \in S, NEW y \in S
  PROVE  /\ s \o <<x, y>> \in Seq(S) /\ Len(s) \in Nat /\ Len(s \o <<x, y>>) = Len(s) + 2
         /\ DOMAIN s = 1..Len(s) /\ DOMAIN (s \o <<x, y>>) = 1..(Len(s) + 2)
         /\ \A k \in 1..Len(s) : (s \o <<x, y>>)[k] = s[k]
         /\ (s \o <<x, y>>)[Len(s) + 1] = x /\ (s \o <<x, y>>)[Len(s) + 2] = y
<1>1. <<x, y>> \in Seq(S) /\ Len(<<x, y>>) = 2 /\ <<x, y>>[1] = x /\ <<x, y>>[2] = y
  OBVIOUS
<1>2. QED
  BY <1>1, ConcatProperties, LenProperties

\* The last of a sequence, and what is left without it.
LEMMA Popped ==
  ASSUME NEW S, NEW s \in Seq(S), s # << >>
  PROVE  /\ Len(s) \in Nat /\ Len(s) >= 1 /\ DOMAIN s = 1..Len(s) /\ Last(s) = s[Len(s)]
         /\ Front(s) \in Seq(S) /\ Len(Front(s)) = Len(s) - 1
         /\ DOMAIN Front(s) = 1..(Len(s) - 1)
         /\ \A k \in 1..(Len(s) - 1) : Front(s)[k] = s[k]
<1>1. Len(s) \in Nat /\ Len(s) >= 1 /\ DOMAIN s = 1..Len(s)
  BY EmptySeq, LenProperties
<1> DEFINE n == Len(s) - 1
<1>2. n \in Nat /\ 1 \in 1..(Len(s) + 1) /\ n \in (1 - 1)..Len(s) /\ n - 1 + 1 = n
  BY <1>1
<1>3. /\ SubSeq(s, 1, n) \in Seq(S) /\ Len(SubSeq(s, 1, n)) = n
      /\ \A k \in 1..n : SubSeq(s, 1, n)[k] = s[1 + k - 1]
  <2> HIDE DEF n
  <2>1. QED
    BY <1>2, SubSeqProperties
<1>4. \A k \in 1..n : 1 + k - 1 = k
  BY <1>2
<1>5. Front(s) = SubSeq(s, 1, n)
  BY DEF Front
<1>6. QED
  BY <1>1, <1>3, <1>4, <1>5, LenProperties DEF Last

-----------------------------------------------------------------------------
(* Types. *)

Setup ==
  [protocol : Protocols, min_version : Versions, max_version : Versions,
   flags : SUBSET Flags, long_host : BOOLEAN, long_device : BOOLEAN]

Value ==
  [kind : {"Nop", "Port", "Bytes", "Duration", "Session"}]
  \cup [kind : {"Role"}, role : Nat]
  \cup [kind : {"Connection"}, connection : Nat]
  \cup [kind : {"Version"}, version : Versions]
  \cup [kind : {"Flags"}, flags : SUBSET Flags]
  \cup [kind : {"Str"}, long : BOOLEAN]
  \cup [kind : {"SetupConnection"}, spec : Setup]
  \cup [kind : {"SetupAttempt"}, session : Nat, connection : Nat]

CompiledAction ==
  [name : {"Connect"}, connection : Nat, role : Nat]
  \cup [name : {"Send"}, connection : Nat, payload : Setup \cup {RawBytes}]
  \cup [name : {"AwaitSetupResponse"}, connection : Nat, session : Nat, protocol : Protocols,
        first_on_connection : BOOLEAN]
  \cup [name : {"EnterOnSetupSuccess"}, session : Nat, end : Nat]
  \cup [name : {"ExitBlock", "AdvanceTime", "Probe"}]

Fields == {"action_instructions", "session_variables", "connection_variables",
           "session_setups", "violations"}

CompileTypes ==
  /\ program \in Seq(Instruction) /\ 2 * Len(program) < MaxActionId
  /\ at \in 1..(Len(program) + 1)
  /\ values \in Seq(Value)
  /\ actions \in Seq(CompiledAction) /\ Len(actions) <= 2 * (at - 1)
  /\ connections \in Nat /\ sessions \in Nat
  /\ sent \subseteq Nat /\ raw_framed \subseteq sent
  /\ blocks \in Seq(Nat)
  /\ DOMAIN metadata = Fields
  /\ metadata.action_instructions \in Seq(Nat)
  /\ Len(metadata.action_instructions) = Len(actions)
  /\ DOMAIN metadata.session_setups = 0..(sessions - 1)
  /\ compile_result \in {"compiling", "compiled"} \cup CompilerErrors

\* SetupConnectionSpec::default is a message of the model.
LEMMA DefaultIsASetup == DefaultSetup \in Setup
  BY DefaultsAssumption DEF DefaultSetup, Setup

\* What a value of each kind holds.
LEMMA ValueHolds ==
  ASSUME NEW x \in Value
  PROVE  /\ x.kind \in Kinds
         /\ x.kind = "Role" => x.role \in Nat
         /\ x.kind = "Connection" => x.connection \in Nat
         /\ x.kind = "Version" => x.version \in Versions
         /\ x.kind = "Flags" => x.flags \in SUBSET Flags
         /\ x.kind = "Str" => x.long \in BOOLEAN
         /\ x.kind = "SetupConnection" =>
              x.spec \in Setup /\ x = [kind |-> "SetupConnection", spec |-> x.spec]
         /\ x.kind = "SetupAttempt" => x.session \in Nat /\ x.connection \in Nat
  BY DEF Value, Kinds

\* An input that can be read is a value of the kind it is read as.
LEMMA InputHolds ==
  ASSUME CompileTypes, NEW i \in Instruction, Readable(i),
         NEW k \in DOMAIN Accessors(i.operation)
  PROVE  /\ i.inputs[k] \in DOMAIN values /\ i.inputs[k] \in Nat /\ Input(i, k) \in Value
         /\ Input(i, k).kind = Accessors(i.operation)[k]
<1>1. i.inputs[k] \in DOMAIN values /\ Input(i, k).kind = Accessors(i.operation)[k]
  BY DEF Readable, Unreadable, Missing, Unexpected, Input
<1>2. DOMAIN values = 1..Len(values) /\ Len(values) \in Nat
  BY LenProperties DEF CompileTypes
<1>3. Input(i, k) \in Value
  BY <1>1, <1>2, ElementOfSeq DEF CompileTypes, Input
<1>4. QED
  BY <1>1, <1>2, <1>3

\* What the instruction at hand is.
LEMMA AtHand ==
  ASSUME CompileTypes, at \in DOMAIN program
  PROVE  /\ Instr \in Instruction /\ Instr.operation \in Operation
         /\ at \in Nat /\ at >= 1 /\ at <= Len(program) /\ Len(program) \in Nat
         /\ at + 1 \in 1..(Len(program) + 1)
         /\ Len(actions) \in Nat /\ Len(actions) + 2 <= 2 * ((at + 1) - 1)
         /\ Len(actions) + 2 < MaxActionId
<1>1. DOMAIN program = 1..Len(program) /\ Len(program) \in Nat /\ Len(actions) \in Nat
  BY LenProperties DEF CompileTypes
<1>2. Instr \in Instruction
  BY <1>1, ElementOfSeq DEF CompileTypes, Instr
<1>3. at \in 1..Len(program)
  BY <1>1
<1>4. Instr.operation \in Operation
  BY <1>2 DEF Instruction
<1>5. Len(actions) <= 2 * (at - 1) /\ 2 * Len(program) < MaxActionId /\ MaxActionId \in Nat
  BY DEF CompileTypes, MaxActionId
<1>6. QED
  BY <1>1, <1>2, <1>3, <1>4, <1>5

\* The compiler starts well typed on every program that is not too long.
LEMMA CompileTypesInit ==
  ASSUME NEW p \in Seq(Instruction), 2 * Len(p) < MaxActionId, CompilerInit(p)
  PROVE  CompileTypes
<1>1. Len(p) \in Nat /\ 1 \in 1..(Len(p) + 1)
  BY LenProperties
<1>2. << >> \in Seq(Value) /\ << >> \in Seq(CompiledAction) /\ << >> \in Seq(Nat) /\ Len(<< >>) = 0
  OBVIOUS
<1>3. 0..(NumConnections - 1) \subseteq Nat /\ DOMAIN << >> = 0..(0 - 1)
  BY ContextAssumption
<1>4. QED
  BY <1>1, <1>2, <1>3, ContextAssumption DEF CompilerInit, CompileTypes, Fields

-----------------------------------------------------------------------------
(* The values. *)

\* Operations that only define values define well-typed ones (compiler.rs:242-290).
LEMMA LoadedTyped ==
  ASSUME NEW op \in Operation,
         op.name \in {"Nop", "LoadRole", "LoadConnection", "LoadVersion", "LoadFlags", "LoadPort",
                      "LoadStr", "LoadBytes", "LoadDuration", "BeginBuildSetupConnection"}
  PROVE  LoadedValues(op) \in Seq(Value)
<1>1. CASE op.name = "Nop"
  <2>1. op.outputs \in Nat /\ op.inner_outputs \in Nat
    BY <1>1 DEF Operation
  <2>2. LoadedValues(op) = [k \in 1..(op.outputs + op.inner_outputs) |-> [kind |-> "Nop"]]
    BY <1>1 DEF LoadedValues, NopValues
  <2>3. [kind |-> "Nop"] \in Value /\ op.outputs + op.inner_outputs \in Nat
    BY <2>1 DEF Value
  <2>4. QED
    BY <2>2, <2>3, IsASeq
<1>2. CASE op.name \in {"LoadRole", "LoadConnection"}
  <2>1. op.index \in Nat
    BY <1>2 DEF Operation
  <2>2. /\ [kind |-> "Role", role |-> op.index] \in Value
        /\ [kind |-> "Connection", connection |-> op.index] \in Value
    BY <2>1 DEF Value
  <2>3. QED
    BY <1>2, <2>2 DEF LoadedValues
<1>3. CASE op.name \in {"LoadVersion", "LoadFlags", "LoadStr"}
  <2>1. /\ op.name = "LoadVersion" => op.version \in Versions
        /\ op.name = "LoadFlags" => op.flags \in SUBSET Flags
        /\ op.name = "LoadStr" => op.long \in BOOLEAN
    BY <1>3 DEF Operation
  <2>2. /\ op.name = "LoadVersion" => [kind |-> "Version", version |-> op.version] \in Value
        /\ op.name = "LoadFlags" => [kind |-> "Flags", flags |-> op.flags] \in Value
        /\ op.name = "LoadStr" => [kind |-> "Str", long |-> op.long] \in Value
    BY <2>1 DEF Value
  <2>3. QED
    BY <1>3, <2>2 DEF LoadedValues
<1>4. CASE op.name \in {"LoadPort", "LoadBytes", "LoadDuration", "BeginBuildSetupConnection"}
  <2>1. /\ [kind |-> "Port"] \in Value /\ [kind |-> "Bytes"] \in Value
        /\ [kind |-> "Duration"] \in Value
        /\ [kind |-> "SetupConnection", spec |-> DefaultSetup] \in Value
    BY DefaultIsASetup DEF Value
  <2>2. QED
    BY <1>4, <2>1 DEF LoadedValues
<1>5. QED
  BY <1>1, <1>2, <1>3, <1>4

\* A setter makes a setup of a setup.
LEMMA EditedTyped ==
  ASSUME CompileTypes, NEW i \in Instruction, Readable(i),
         i.operation.name \in {"SetVersions", "SetFlags", "SetEndpoint", "SetDeviceInfo"}
  PROVE  /\ i.inputs[1] \in DOMAIN values /\ Input(i, 1) \in Value
         /\ Input(i, 1).kind = "SetupConnection"
         /\ \A spec \in Setup : Edited(i, spec) \in Setup /\ Edited(i, spec).protocol = spec.protocol
<1>1. 1 \in DOMAIN Accessors(i.operation) /\ Accessors(i.operation)[1] = "SetupConnection"
  <2>1. CASE i.operation.name = "SetVersions"
    BY <2>1 DEF Accessors
  <2>2. CASE i.operation.name = "SetFlags"
    BY <2>2 DEF Accessors
  <2>3. CASE i.operation.name = "SetEndpoint"
    BY <2>3 DEF Accessors
  <2>4. CASE i.operation.name = "SetDeviceInfo"
    BY <2>4 DEF Accessors
  <2>5. QED
    BY <2>1, <2>2, <2>3, <2>4
<1>2. SUFFICES ASSUME NEW spec \in Setup
               PROVE  Edited(i, spec) \in Setup /\ Edited(i, spec).protocol = spec.protocol
  BY <1>1, InputHolds
<1>3. CASE i.operation.name = "SetVersions"
  <2>1. /\ 2 \in DOMAIN Accessors(i.operation) /\ Accessors(i.operation)[2] = "Version"
        /\ 3 \in DOMAIN Accessors(i.operation) /\ Accessors(i.operation)[3] = "Version"
    BY <1>3 DEF Accessors
  <2>2. Input(i, 2).version \in Versions /\ Input(i, 3).version \in Versions
    BY <2>1, InputHolds, ValueHolds
  <2>3. QED
    BY <1>3, <2>2 DEF Edited, Setup
<1>4. CASE i.operation.name = "SetFlags"
  <2>1. 2 \in DOMAIN Accessors(i.operation) /\ Accessors(i.operation)[2] = "Flags"
    BY <1>4 DEF Accessors
  <2>2. Input(i, 2).flags \in SUBSET Flags
    BY <2>1, InputHolds, ValueHolds
  <2>3. QED
    BY <1>4, <2>2 DEF Edited, Setup
<1>5. CASE i.operation.name = "SetEndpoint"
  <2>1. 2 \in DOMAIN Accessors(i.operation) /\ Accessors(i.operation)[2] = "Str"
    BY <1>5 DEF Accessors
  <2>2. Input(i, 2).long \in BOOLEAN
    BY <2>1, InputHolds, ValueHolds
  <2>3. QED
    BY <1>5, <2>2 DEF Edited, Setup
<1>6. CASE i.operation.name = "SetDeviceInfo"
  <2> DEFINE long == \E k \in 2..5 : Input(i, k).long
  <2>1. long \in BOOLEAN
    OBVIOUS
  <2>2. Edited(i, spec) = [spec EXCEPT !.long_device = long]
    BY <1>6 DEF Edited
  <2> HIDE DEF long
  <2>3. QED
    BY <2>1, <2>2 DEF Setup
<1>7. QED
  BY <1>3, <1>4, <1>5, <1>6

-----------------------------------------------------------------------------
(* Every step keeps the types.  The steps are of six kinds, by what they   *)
(* add to the actions.                                                     *)

\* Nothing is emitted.
Emits0 == UNCHANGED <<program, actions, counters, blocks, metadata>>

\* A step emits the actions and notes them; the rest of the metadata is given by its fields.
Emits(emitted) ==
  /\ program' = program /\ at \in DOMAIN program /\ at' = at + 1
  /\ actions' = actions \o emitted
  /\ DOMAIN metadata' = Fields
  /\ metadata'.action_instructions = metadata.action_instructions \o [k \in DOMAIN emitted |-> at]
  /\ compile_result' = compile_result

\* The instruction an action comes from, noted once per action.
LEMMA Copies ==
  ASSUME NEW n \in Nat, NEW x \in Nat
  PROVE  [k \in 1..n |-> x] \in Seq(Nat) /\ Len([k \in 1..n |-> x]) = n
  BY IsASeq, LenProperties

\* What push_action leaves well typed: an instruction becomes two actions at most.
LEMMA EmitsKeeps ==
  ASSUME CompileTypes, NEW emitted \in Seq(CompiledAction), Len(emitted) <= 2, Emits(emitted)
  PROVE  /\ program' \in Seq(Instruction) /\ 2 * Len(program') < MaxActionId
         /\ at' \in 1..(Len(program') + 1)
         /\ actions' \in Seq(CompiledAction) /\ Len(actions') <= 2 * (at' - 1)
         /\ metadata'.action_instructions \in Seq(Nat)
         /\ Len(metadata'.action_instructions) = Len(actions')
<1> DEFINE noted == [k \in DOMAIN emitted |-> at]
           n == Len(emitted)
           m == Len(actions)
           notes == metadata.action_instructions
<1>1. DOMAIN emitted = 1..n /\ n \in Nat /\ n <= 2 /\ at \in Nat
  BY AtHand, LenProperties DEF Emits
<1>2. noted \in Seq(Nat) /\ Len(noted) = n
  BY <1>1, Copies
<1>3. /\ actions' \in Seq(CompiledAction) /\ Len(actions') = m + n /\ m \in Nat
  BY ConcatProperties, LenProperties DEF Emits, CompileTypes
<1>4. metadata'.action_instructions = notes \o noted
  BY DEF Emits
<1>5. notes \in Seq(Nat) /\ Len(notes) = m
  BY DEF CompileTypes
<1> HIDE DEF noted, n, m, notes
<1>6. notes \o noted \in Seq(Nat) /\ Len(notes \o noted) = m + n
  BY <1>2, <1>5, ConcatProperties
<1>7. /\ at + 1 \in 1..(Len(program) + 1) /\ m + 2 <= 2 * ((at + 1) - 1)
      /\ program' = program /\ at' = at + 1
  BY AtHand DEF Emits, m
<1>8. m + n <= 2 * ((at + 1) - 1)
  BY <1>1, <1>3, <1>7
<1>9. QED
  BY <1>3, <1>4, <1>6, <1>7, <1>8 DEF CompileTypes

\* The steps of the compiler one by one: each keeps the types, and says what it emitted.
LEMMA LoadTypes == ASSUME CompileTypes, CompileLoad PROVE CompileTypes'
<1>1. LoadedValues(Instr.operation) \in Seq(Value)
  BY AtHand, LoadedTyped DEF CompileLoad
<1>2. values' \in Seq(Value)
  BY <1>1, ConcatProperties DEF CompileLoad, CompileTypes
<1>3. at' \in 1..(Len(program) + 1) /\ Len(actions) <= 2 * (at' - 1)
  BY AtHand DEF CompileLoad
<1>4. QED
  BY <1>2, <1>3 DEF CompileLoad, CompileTypes, counters

LEMMA SetTypes == ASSUME CompileTypes, CompileSet PROVE CompileTypes'
<1> DEFINE v == Instr.inputs[1]
           spec == Edited(Instr, values[v].spec)
<1>1. /\ v \in DOMAIN values /\ values[v] \in Value /\ values[v].kind = "SetupConnection"
      /\ values[v].spec \in Setup /\ spec \in Setup
      /\ values[v] = [kind |-> "SetupConnection", spec |-> values[v].spec]
  BY AtHand, EditedTyped, ValueHolds DEF CompileSet, Input
<1>2. values' = [values EXCEPT ![v].spec = spec]
  BY DEF CompileSet
<1> HIDE DEF v, spec
<1>3. [values[v] EXCEPT !.spec = spec] \in Value
  BY <1>1 DEF Value
<1>4. values' = [values EXCEPT ![v] = [values[v] EXCEPT !.spec = spec]]
  BY <1>2
<1>5. values' \in Seq(Value)
  BY <1>1, <1>3, <1>4, ExceptSeq DEF CompileTypes
<1>6. at' \in 1..(Len(program) + 1) /\ Len(actions) <= 2 * (at' - 1)
  BY AtHand DEF CompileSet
<1>7. QED
  BY <1>5, <1>6 DEF CompileSet, CompileTypes, counters

LEMMA EndBuildTypes == ASSUME CompileTypes, CompileEndBuild PROVE CompileTypes'
<1> DEFINE new == [kind |-> "SetupConnection",
                   spec |-> Stamped(Input(Instr, 1).spec, Instr.operation.protocol)]
<1>1. at \in DOMAIN program /\ Instr.operation.name = "EndBuildSetupConnection" /\ Readable(Instr)
  BY DEF CompileEndBuild, Doing
<1>2. 1 \in DOMAIN Accessors(Instr.operation) /\ Accessors(Instr.operation)[1] = "SetupConnection"
  BY <1>1 DEF Accessors
<1>3. Input(Instr, 1).spec \in Setup
  BY <1>1, <1>2, AtHand, InputHolds, ValueHolds
<1>4. Instr.operation.protocol \in Protocols
  BY <1>1, AtHand DEF Operation
<1>5. new \in Value
  <2>1. Stamped(Input(Instr, 1).spec, Instr.operation.protocol) \in Setup
    BY <1>3, <1>4 DEF Stamped, Setup
  <2>2. QED
    BY <2>1 DEF Value
<1>6. values' = Append(values, new)
  BY DEF CompileEndBuild
<1> HIDE DEF new
<1>7. values' \in Seq(Value)
  BY <1>5, <1>6, AppendProperties DEF CompileTypes
<1>8. at' \in 1..(Len(program) + 1) /\ Len(actions) <= 2 * (at' - 1)
  BY <1>1, AtHand DEF CompileEndBuild
<1>9. QED
  BY <1>7, <1>8 DEF CompileEndBuild, CompileTypes, counters

\* The steps that fail, and the last one.
LEMMA FailTypes ==
  ASSUME CompileTypes,
         CompileUnreadable \/ CompileSendTooLong \/ CompileUnbalanced \/ CompileDone
  PROVE  CompileTypes' /\ Emits0 /\ UNCHANGED values
  BY DEF CompileUnreadable, CompileSendTooLong, CompileUnbalanced, CompileDone, Fails,
    CompileTypes, CompilerErrors, Emits0, counters

\* A connect is numbered by the connections so far, and emits one action.
LEMMA ConnectTypes ==
  ASSUME CompileTypes, CompileConnect
  PROVE  /\ CompileTypes'
         /\ \E connect \in CompiledAction :
              /\ connect.name = "Connect" /\ connect.connection = connections
              /\ Emits(<<connect>>)
         /\ connections' = connections + 1 /\ UNCHANGED <<sessions, sent, raw_framed, blocks>>
         /\ metadata'.session_setups = metadata.session_setups
         /\ metadata'.violations = metadata.violations
<1> DEFINE connect == [name |-> "Connect", connection |-> connections,
                       role |-> Input(Instr, 1).role]
           new == [kind |-> "Connection", connection |-> connections]
<1>1. at \in DOMAIN program /\ Instr.operation.name = "Connect" /\ Readable(Instr)
  BY DEF CompileConnect, Doing
<1>2. 1 \in DOMAIN Accessors(Instr.operation) /\ Accessors(Instr.operation)[1] = "Role"
  BY <1>1 DEF Accessors
<1>3. Input(Instr, 1).role \in Nat
  BY <1>1, <1>2, AtHand, InputHolds, ValueHolds
<1>4. connect \in CompiledAction /\ new \in Value
  BY <1>3 DEF CompiledAction, Value, CompileTypes
<1>5. /\ Emits(<<connect>>) /\ metadata'.session_setups = metadata.session_setups
      /\ metadata'.violations = metadata.violations
  BY <1>1 DEF CompileConnect, Push, Noted, Emits, CompileTypes, Fields
<1>6. /\ values' = Append(values, new) /\ connections' = connections + 1
      /\ UNCHANGED <<sessions, sent, raw_framed, blocks>>
  BY DEF CompileConnect
<1> HIDE DEF connect, new
<1>7. <<connect>> \in Seq(CompiledAction) /\ Len(<<connect>>) <= 2
  BY <1>4
<1>8. values' \in Seq(Value)
  BY <1>4, <1>6, AppendProperties DEF CompileTypes
<1>9. CompileTypes'
  <2>1. connections' \in Nat
    BY <1>6 DEF CompileTypes, Insert
  <2>2. QED
    BY <1>5, <1>6, <1>7, <1>8, <2>1, EmitsKeeps DEF CompileTypes, Emits
<1>10. connect.name = "Connect" /\ connect.connection = connections
  BY DEF connect
<1>11. QED
  BY <1>4, <1>5, <1>6, <1>9, <1>10

\* Advancing time and probing emit an action of that name and define nothing.
LEMMA StepTypes ==
  ASSUME CompileTypes, CompileStep("AdvanceTime") \/ CompileStep("Probe")
  PROVE  /\ CompileTypes'
         /\ \E step \in CompiledAction : step.name \in {"AdvanceTime", "Probe"} /\ Emits(<<step>>)
         /\ UNCHANGED <<values, counters, blocks>>
         /\ metadata'.session_setups = metadata.session_setups
         /\ metadata'.violations = metadata.violations
<1> PICK name \in {"AdvanceTime", "Probe"} : CompileStep(name)
  OBVIOUS
<1> DEFINE step == [name |-> name]
<1>1. /\ Emits(<<step>>) /\ metadata'.session_setups = metadata.session_setups
      /\ metadata'.violations = metadata.violations
      /\ UNCHANGED <<values, counters, blocks>>
  BY DEF CompileStep, Push, Noted, Emits, CompileTypes, Fields, Doing
<1>2. step \in CompiledAction /\ step.name = name
  BY DEF CompiledAction
<1> HIDE DEF step
<1>3. <<step>> \in Seq(CompiledAction) /\ Len(<<step>>) <= 2
  BY <1>2
<1>4. CompileTypes'
  BY <1>1, <1>3, EmitsKeeps DEF CompileTypes, Emits, counters
<1>5. QED
  BY <1>1, <1>2, <1>4

\* A setup emits its send and the await of its answer, on one connection.
LEMMA SendSetupTypes ==
  ASSUME CompileTypes, CompileSendSetup
  PROVE  /\ CompileTypes'
         /\ \E c \in Nat, spec \in Setup, send \in CompiledAction, await \in CompiledAction :
              /\ send.name = "Send" /\ send.connection = c /\ send.payload = spec
              /\ await.name = "AwaitSetupResponse" /\ await.connection = c
              /\ await.session = sessions
              /\ await.first_on_connection = FirstOnConnection(c)
              /\ Emits(<<send, await>>)
              /\ sent' = sent \cup {c} /\ raw_framed' = raw_framed
              /\ connections' = connections /\ sessions' = sessions + 1 /\ blocks' = blocks
              /\ metadata'.session_setups = Insert(metadata.session_setups, sessions, spec)
              /\ metadata'.violations =
                   IF SetupViolations(c) = {} THEN metadata.violations
                   ELSE Insert(metadata.violations, Len(actions) + 2, SetupViolations(c))
<1> DEFINE c == Input(Instr, 1).connection
           spec == Input(Instr, 2).spec
           send == [name |-> "Send", connection |-> c, payload |-> spec]
           await == [name |-> "AwaitSetupResponse", connection |-> c, session |-> sessions,
                     protocol |-> Instr.operation.protocol,
                     first_on_connection |-> FirstOnConnection(c)]
           new == [kind |-> "SetupAttempt", session |-> sessions, connection |-> c]
<1>1. at \in DOMAIN program /\ Instr.operation.name = "SendSetupConnection" /\ Readable(Instr)
  BY DEF CompileSendSetup, Doing
<1>2. /\ 1 \in DOMAIN Accessors(Instr.operation) /\ Accessors(Instr.operation)[1] = "Connection"
      /\ 2 \in DOMAIN Accessors(Instr.operation)
      /\ Accessors(Instr.operation)[2] = "SetupConnection"
  BY <1>1 DEF Accessors
<1>3. c \in Nat /\ spec \in Setup
  BY <1>1, <1>2, AtHand, InputHolds, ValueHolds
<1>4. Instr.operation.protocol \in Protocols /\ sessions \in Nat
  BY <1>1, AtHand DEF Operation, CompileTypes
<1>5. Emits(<<send, await>>)
  BY <1>1 DEF CompileSendSetup, Push, Noted, Emits, CompileTypes, Fields
<1>6. /\ metadata'.session_setups = Insert(metadata.session_setups, sessions, spec)
      /\ metadata'.violations =
           IF SetupViolations(c) = {} THEN metadata.violations
           ELSE Insert(metadata.violations, Len(actions) + 2, SetupViolations(c))
  BY DEF CompileSendSetup, Noted, CompileTypes, Fields
<1>7. /\ sent' = sent \cup {c} /\ raw_framed' = raw_framed
      /\ connections' = connections /\ sessions' = sessions + 1 /\ blocks' = blocks
      /\ values' = Append(values, new)
  BY DEF CompileSendSetup
<1>8. FirstOnConnection(c) \in BOOLEAN
  BY DEF FirstOnConnection
<1> HIDE DEF c, spec
<1>9. new \in Value
  BY <1>3, <1>4 DEF Value
<1>10. send \in CompiledAction
  BY <1>3 DEF CompiledAction
<1>11. await \in CompiledAction
  <2> DEFINE first == FirstOnConnection(c)
  <2> HIDE DEF first
  <2>1. [name |-> "AwaitSetupResponse", connection |-> c, session |-> sessions,
         protocol |-> Instr.operation.protocol, first_on_connection |-> first] \in CompiledAction
    BY <1>3, <1>4, <1>8 DEF CompiledAction, first
  <2>2. QED
    BY <2>1 DEF first
<1>12. /\ send.name = "Send" /\ send.connection = c /\ send.payload = spec
       /\ await.name = "AwaitSetupResponse" /\ await.connection = c
       /\ await.session = sessions
       /\ await.first_on_connection = FirstOnConnection(c)
  OBVIOUS
<1> HIDE DEF send, await, new
<1>13. <<send, await>> \in Seq(CompiledAction) /\ Len(<<send, await>>) <= 2
  BY <1>10, <1>11
<1>14. values' \in Seq(Value)
  BY <1>7, <1>9, AppendProperties DEF CompileTypes
<1>15. DOMAIN metadata'.session_setups = 0..(sessions' - 1) /\ sessions' \in Nat
  <2>1. DOMAIN metadata'.session_setups = {sessions} \cup 0..(sessions - 1)
    BY <1>6 DEF CompileTypes, Insert
  <2>2. QED
    BY <1>4, <1>7, <2>1
<1>16. sent' \subseteq Nat /\ raw_framed' \subseteq sent'
  BY <1>3, <1>7 DEF CompileTypes
<1>17. CompileTypes'
  BY <1>5, <1>7, <1>13, <1>14, <1>15, <1>16, EmitsKeeps DEF CompileTypes, Emits
<1>18. QED
  BY <1>3, <1>5, <1>6, <1>7, <1>10, <1>11, <1>12, <1>17

\* A raw frame is a send, and marks its connection as used and as raw.
LEMMA SendRawTypes ==
  ASSUME CompileTypes, CompileSendRaw
  PROVE  /\ CompileTypes'
         /\ \E c \in Nat, send \in CompiledAction :
              /\ send.name = "Send" /\ send.connection = c /\ send.payload = RawBytes
              /\ Emits(<<send>>)
              /\ sent' = sent \cup {c} /\ raw_framed' = raw_framed \cup {c}
              /\ connections' = connections /\ sessions' = sessions /\ blocks' = blocks
              /\ metadata'.session_setups = metadata.session_setups
              /\ metadata'.violations = metadata.violations
<1> DEFINE c == Input(Instr, 1).connection
           send == [name |-> "Send", connection |-> c, payload |-> RawBytes]
<1>1. at \in DOMAIN program /\ Instr.operation.name = "SendRawFrame" /\ Readable(Instr)
  BY DEF CompileSendRaw, Doing
<1>2. 1 \in DOMAIN Accessors(Instr.operation) /\ Accessors(Instr.operation)[1] = "Connection"
  BY <1>1 DEF Accessors
<1>3. c \in Nat
  BY <1>1, <1>2, AtHand, InputHolds, ValueHolds
<1>4. /\ Emits(<<send>>)
      /\ metadata'.session_setups = metadata.session_setups
      /\ metadata'.violations = metadata.violations
  BY <1>1 DEF CompileSendRaw, Push, Noted, Emits, CompileTypes, Fields
<1>5. /\ sent' = sent \cup {c} /\ raw_framed' = raw_framed \cup {c}
      /\ connections' = connections /\ sessions' = sessions /\ blocks' = blocks
      /\ values' = values
  BY DEF CompileSendRaw
<1> HIDE DEF c
<1>6. send \in CompiledAction
  BY <1>3 DEF CompiledAction
<1>7. send.name = "Send" /\ send.connection = c /\ send.payload = RawBytes
  OBVIOUS
<1> HIDE DEF send
<1>8. <<send>> \in Seq(CompiledAction) /\ Len(<<send>>) <= 2
  BY <1>6
<1>9. sent' \subseteq Nat /\ raw_framed' \subseteq sent'
  BY <1>3, <1>5 DEF CompileTypes
<1>10. CompileTypes'
  BY <1>4, <1>5, <1>8, <1>9, EmitsKeeps DEF CompileTypes, Emits
<1>11. QED
  BY <1>3, <1>4, <1>5, <1>6, <1>7, <1>10

\* The beginning of a block emits an enter whose end is still open.
LEMMA BeginTypes ==
  ASSUME CompileTypes, CompileBeginOnSuccess
  PROVE  /\ CompileTypes'
         /\ \E enter \in CompiledAction :
              /\ enter.name = "EnterOnSetupSuccess" /\ enter.end = MaxActionId
              /\ Emits(<<enter>>)
              /\ UNCHANGED counters /\ blocks' = blocks \o <<Len(actions) + 1>>
              /\ metadata'.session_setups = metadata.session_setups
              /\ metadata'.violations = metadata.violations
<1> DEFINE enter == [name |-> "EnterOnSetupSuccess", session |-> Input(Instr, 1).session,
                     end |-> MaxActionId]
           new == [kind |-> "Session"]
           n == Len(actions) + 1
<1>1. at \in DOMAIN program /\ Instr.operation.name = "BeginOnSetupSuccess" /\ Readable(Instr)
  BY DEF CompileBeginOnSuccess, Doing
<1>2. 1 \in DOMAIN Accessors(Instr.operation) /\ Accessors(Instr.operation)[1] = "SetupAttempt"
  BY <1>1 DEF Accessors
<1>3. Input(Instr, 1).session \in Nat
  BY <1>1, <1>2, AtHand, InputHolds, ValueHolds
<1>4. /\ Emits(<<enter>>)
      /\ metadata'.session_setups = metadata.session_setups
      /\ metadata'.violations = metadata.violations
  BY <1>1 DEF CompileBeginOnSuccess, Push, Noted, Emits, CompileTypes, Fields
<1>5. UNCHANGED counters /\ blocks' = Append(blocks, n) /\ values' = Append(values, new)
  BY DEF CompileBeginOnSuccess
<1>6. enter \in CompiledAction /\ new \in Value
  BY <1>3 DEF CompiledAction, Value, MaxActionId
<1>7. enter.name = "EnterOnSetupSuccess" /\ enter.end = MaxActionId
  OBVIOUS
<1>8. n \in Nat
  BY <1>1, AtHand
<1> HIDE DEF enter, new, n
<1>9. blocks' \in Seq(Nat) /\ blocks' = blocks \o <<n>>
  BY <1>5, <1>8, AppendIsConcat, AppendProperties DEF CompileTypes
<1>10. values' \in Seq(Value)
  BY <1>5, <1>6, AppendProperties DEF CompileTypes
<1>11. <<enter>> \in Seq(CompiledAction) /\ Len(<<enter>>) <= 2
  BY <1>6
<1>12. CompileTypes'
  BY <1>4, <1>5, <1>9, <1>10, <1>11, EmitsKeeps DEF CompileTypes, Emits, counters
<1>13. QED
  BY <1>4, <1>5, <1>6, <1>7, <1>9, <1>12 DEF n

-----------------------------------------------------------------------------
(* Blocks.  What BlocksNest says, of a sequence of actions and the enters  *)
(* of its open blocks, with what makes it inductive: the open blocks are   *)
(* in the order they were opened, so the last is the innermost.            *)

EntersOf(acts) == {id \in DOMAIN acts : acts[id].name = "EnterOnSetupSuccess"}
ExitsOf(acts)  == {id \in DOMAIN acts : acts[id].name = "ExitBlock"}

OpenBlocks(acts, blks) ==
  /\ \A d \in DOMAIN blks : blks[d] \in EntersOf(acts) /\ acts[blks[d]].end = MaxActionId
  /\ \A id \in EntersOf(acts) :
       acts[id].end = MaxActionId => \E d \in DOMAIN blks : blks[d] = id
  /\ \A d, e \in DOMAIN blks : d < e => blks[d] < blks[e]

ClosedBlocks(acts) ==
  /\ \A id \in EntersOf(acts) : acts[id].end # MaxActionId =>
        acts[id].end \in ExitsOf(acts) /\ id < acts[id].end
  /\ \A a, b \in EntersOf(acts) : a < b => acts[a].end < b \/ acts[b].end < acts[a].end
                                          \/ acts[a].end = MaxActionId
  /\ \A e \in ExitsOf(acts) : \E id \in EntersOf(acts) : acts[id].end = e

\* The two parts of the invariant about blocks are what BlocksNest says.
LEMMA NestMeansBlocksNest ==
  ASSUME OpenBlocks(actions, blocks), ClosedBlocks(actions)
  PROVE  BlocksNest
<1>1. Enters = EntersOf(actions) /\ Exits = ExitsOf(actions)
  BY DEF Enters, Exits, EntersOf, ExitsOf
<1>2. {id \in Enters : actions[id].end = MaxActionId} = {blocks[d] : d \in DOMAIN blocks}
  BY <1>1 DEF OpenBlocks
<1>3. QED
  BY <1>1, <1>2 DEF ClosedBlocks, BlocksNest

\* An action that neither opens nor closes a block leaves the blocks as they are.
LEMMA PlainKeepsNest ==
  ASSUME NEW acts \in Seq(CompiledAction), NEW blks, NEW x \in CompiledAction,
         x.name \notin {"EnterOnSetupSuccess", "ExitBlock"},
         OpenBlocks(acts, blks), ClosedBlocks(acts)
  PROVE  OpenBlocks(acts \o <<x>>, blks) /\ ClosedBlocks(acts \o <<x>>)
<1> DEFINE new == acts \o <<x>>
           n == Len(acts)
<1>1. /\ DOMAIN acts = 1..n /\ n \in Nat /\ DOMAIN new = 1..(n + 1)
      /\ \A k \in 1..n : new[k] = acts[k]
      /\ new[n + 1] = x
  BY Pushed
<1> HIDE DEF new, n
<1>2. \A k \in 1..(n + 1) : k \in 1..n \/ k = n + 1
  BY <1>1
<1>3. \A k \in 1..n : k \in 1..(n + 1)
  BY <1>1
<1>4. EntersOf(new) = EntersOf(acts) /\ ExitsOf(new) = ExitsOf(acts)
  BY <1>1, <1>2, <1>3 DEF EntersOf, ExitsOf
<1>5. \A id \in EntersOf(acts) : new[id] = acts[id]
  BY <1>1 DEF EntersOf
<1>6. OpenBlocks(new, blks)
  BY <1>4, <1>5 DEF OpenBlocks
<1>7. ClosedBlocks(new)
  BY <1>4, <1>5 DEF ClosedBlocks
<1>8. QED
  BY <1>6, <1>7 DEF new

\* The end a closed block has.
LEMMA EndBounds ==
  ASSUME NEW acts \in Seq(CompiledAction), Len(acts) < MaxActionId, ClosedBlocks(acts),
         NEW id \in EntersOf(acts)
  PROVE  /\ id \in 1..Len(acts) /\ Len(acts) \in Nat /\ id < acts[id].end
         /\ acts[id].end = MaxActionId \/ acts[id].end \in 1..Len(acts)
<1>1. DOMAIN acts = 1..Len(acts) /\ Len(acts) \in Nat
  BY LenProperties
<1>2. id \in 1..Len(acts)
  BY <1>1 DEF EntersOf
<1>3. CASE acts[id].end = MaxActionId
  <2>1. id < MaxActionId
    BY <1>1, <1>2 DEF MaxActionId
  <2>2. QED
    BY <1>1, <1>2, <1>3, <2>1
<1>4. CASE acts[id].end # MaxActionId
  BY <1>1, <1>2, <1>4 DEF ClosedBlocks, ExitsOf
<1>5. QED
  BY <1>3, <1>4

\* A block is opened inside the ones open.
LEMMA EnterKeepsNest ==
  ASSUME NEW acts \in Seq(CompiledAction), NEW blks \in Seq(Nat), NEW x \in CompiledAction,
         x.name = "EnterOnSetupSuccess", x.end = MaxActionId, Len(acts) < MaxActionId,
         OpenBlocks(acts, blks), ClosedBlocks(acts)
  PROVE  OpenBlocks(acts \o <<x>>, blks \o <<Len(acts) + 1>>) /\ ClosedBlocks(acts \o <<x>>)
<1> DEFINE new == acts \o <<x>>
           n == Len(acts)
           stack == blks \o <<n + 1>>
           m == Len(blks)
<1>1. /\ DOMAIN acts = 1..n /\ n \in Nat /\ DOMAIN new = 1..(n + 1)
      /\ \A k \in 1..n : new[k] = acts[k]
      /\ new[n + 1] = x
  BY Pushed
<1>2. /\ DOMAIN blks = 1..m /\ m \in Nat /\ DOMAIN stack = 1..(m + 1)
      /\ \A k \in 1..m : stack[k] = blks[k]
      /\ stack[m + 1] = n + 1
  <2>1. n + 1 \in Nat
    BY <1>1
  <2> HIDE DEF n
  <2>2. QED
    BY <2>1, Pushed
<1>3. \A id \in EntersOf(acts) :
        /\ id \in 1..n /\ id < n + 1 /\ id < acts[id].end
        /\ acts[id].end = MaxActionId \/ acts[id].end \in 1..n
  <2>1. \A id \in EntersOf(acts) :
          /\ id \in 1..n /\ id < acts[id].end
          /\ acts[id].end = MaxActionId \/ acts[id].end \in 1..n
    BY EndBounds
  <2> HIDE DEF n
  <2>2. QED
    BY <1>1, <2>1
<1> HIDE DEF new, n, stack, m
<1>4. /\ \A k \in 1..(n + 1) : k \in 1..n \/ k = n + 1
      /\ \A k \in 1..n : k \in 1..(n + 1) /\ k < n + 1
      /\ n + 1 \in 1..(n + 1)
      /\ \A k \in 1..(m + 1) : k \in 1..m \/ k = m + 1
      /\ \A k \in 1..m : k \in 1..(m + 1) /\ k < m + 1
      /\ m + 1 \in 1..(m + 1)
  BY <1>1, <1>2
<1>5. EntersOf(new) = EntersOf(acts) \cup {n + 1} /\ ExitsOf(new) = ExitsOf(acts)
  BY <1>1, <1>4 DEF EntersOf, ExitsOf
<1>6. \A id \in EntersOf(acts) : new[id] = acts[id]
  BY <1>1 DEF EntersOf
<1>7. OpenBlocks(new, stack)
  <2>1. \A d \in DOMAIN stack : stack[d] \in EntersOf(new) /\ new[stack[d]].end = MaxActionId
    <3>1. ASSUME NEW d \in 1..m
          PROVE  stack[d] \in EntersOf(new) /\ new[stack[d]].end = MaxActionId
      <4>1. stack[d] = blks[d] /\ d \in DOMAIN blks
        BY <1>2, <3>1
      <4>2. blks[d] \in EntersOf(acts) /\ acts[blks[d]].end = MaxActionId
        BY <4>1 DEF OpenBlocks
      <4>3. QED
        BY <1>5, <1>6, <4>1, <4>2
    <3>2. stack[m + 1] \in EntersOf(new) /\ new[stack[m + 1]].end = MaxActionId
      BY <1>1, <1>2, <1>5
    <3>3. QED
      BY <1>2, <1>4, <3>1, <3>2
  <2>2. ASSUME NEW id \in EntersOf(new), new[id].end = MaxActionId
        PROVE  \E d \in DOMAIN stack : stack[d] = id
    <3>1. CASE id = n + 1
      BY <1>2, <1>4, <3>1
    <3>2. CASE id \in EntersOf(acts)
      <4>1. PICK d \in DOMAIN blks : blks[d] = id
        BY <1>6, <2>2, <3>2 DEF OpenBlocks
      <4>2. QED
        BY <1>2, <1>4, <4>1
    <3>3. QED
      BY <1>5, <3>1, <3>2
  <2>3. ASSUME NEW d \in DOMAIN stack, NEW e \in DOMAIN stack, d < e
        PROVE  stack[d] < stack[e]
    <3>1. d \in 1..m
      BY <1>2, <2>3
    <3>2. CASE e \in 1..m
      BY <1>2, <2>3, <3>1, <3>2 DEF OpenBlocks
    <3>3. CASE e = m + 1
      <4>1. blks[d] \in EntersOf(acts)
        BY <1>2, <3>1 DEF OpenBlocks
      <4>2. QED
        BY <1>2, <1>3, <3>1, <3>3, <4>1
    <3>4. QED
      BY <1>2, <1>4, <3>2, <3>3
  <2>4. QED
    BY <2>1, <2>2, <2>3 DEF OpenBlocks
<1>8. ClosedBlocks(new)
  <2>1. \A id \in EntersOf(new) : new[id].end # MaxActionId =>
          new[id].end \in ExitsOf(new) /\ id < new[id].end
    BY <1>1, <1>5, <1>6 DEF ClosedBlocks
  <2>2. ASSUME NEW a \in EntersOf(new), NEW b \in EntersOf(new), a < b
        PROVE  new[a].end < b \/ new[b].end < new[a].end \/ new[a].end = MaxActionId
    <3>1. CASE a = n + 1
      BY <1>1, <3>1
    <3>2. CASE a \in EntersOf(acts) /\ b = n + 1
      <4>1. new[a].end = MaxActionId \/ new[a].end \in 1..n
        BY <1>3, <1>6, <3>2
      <4>2. QED
        BY <1>4, <3>2, <4>1
    <3>3. CASE a \in EntersOf(acts) /\ b \in EntersOf(acts)
      BY <1>6, <2>2, <3>3 DEF ClosedBlocks
    <3>4. QED
      BY <1>5, <3>1, <3>2, <3>3
  <2>3. \A e \in ExitsOf(new) : \E id \in EntersOf(new) : new[id].end = e
    BY <1>5, <1>6 DEF ClosedBlocks
  <2>4. QED
    BY <2>1, <2>2, <2>3 DEF ClosedBlocks
<1>9. QED
  BY <1>7, <1>8 DEF new, stack, n

\* The innermost open block is closed.
LEMMA ExitKeepsNest ==
  ASSUME NEW acts \in Seq(CompiledAction), NEW blks \in Seq(Nat), NEW x \in CompiledAction,
         x.name = "ExitBlock", blks # << >>, Len(acts) + 1 < MaxActionId,
         OpenBlocks(acts, blks), ClosedBlocks(acts)
  PROVE  LET patched == [acts EXCEPT ![Last(blks)].end = Len(acts) + 1]
         IN /\ patched \in Seq(CompiledAction) /\ Len(patched) = Len(acts)
            /\ \A k \in DOMAIN acts : k # Last(blks) => patched[k] = acts[k]
            /\ Last(blks) \in EntersOf(acts)
            /\ patched[Last(blks)].name = "EnterOnSetupSuccess"
            /\ OpenBlocks(patched \o <<x>>, Front(blks))
            /\ ClosedBlocks(patched \o <<x>>)
<1> DEFINE n == Len(acts)
           m == Len(blks)
           last == Last(blks)
           rest == Front(blks)
           closed == [acts[last] EXCEPT !.end = n + 1]
           patched == [acts EXCEPT ![last] = closed]
           new == patched \o <<x>>
<1>1. /\ m \in Nat /\ m >= 1 /\ DOMAIN blks = 1..m /\ last = blks[m] /\ rest \in Seq(Nat)
      /\ DOMAIN rest = 1..(m - 1) /\ \A k \in 1..(m - 1) : rest[k] = blks[k]
  BY Popped
<1>2. n \in Nat /\ DOMAIN acts = 1..n /\ n + 1 < MaxActionId /\ MaxActionId \in Nat
  BY LenProperties DEF MaxActionId
<1>3. ASSUME NEW id \in EntersOf(acts)
      PROVE  /\ id \in 1..n /\ id < acts[id].end
             /\ acts[id].end = MaxActionId \/ acts[id].end \in 1..n
  <2>1. Len(acts) < MaxActionId
    BY <1>2
  <2>2. QED
    BY <2>1, EndBounds
<1> HIDE DEF n, m, last, rest
<1>4. last \in EntersOf(acts) /\ acts[last].end = MaxActionId
  <2>1. m \in DOMAIN blks
    BY <1>1
  <2>2. QED
    BY <1>1, <2>1 DEF OpenBlocks
<1>5. last \in 1..n /\ acts[last] \in CompiledAction /\ acts[last].name = "EnterOnSetupSuccess"
  BY <1>2, <1>4, ElementOfSeq DEF EntersOf, n
<1>6. /\ closed \in CompiledAction /\ closed.name = "EnterOnSetupSuccess" /\ closed.end = n + 1
  <2>1. n + 1 \in Nat
    BY <1>2
  <2>2. QED
    BY <1>5, <2>1 DEF CompiledAction
<1> HIDE DEF closed
<1>7. /\ patched \in Seq(CompiledAction) /\ Len(patched) = n /\ DOMAIN patched = 1..n
      /\ patched[last] = closed
      /\ \A k \in 1..n : k # last => patched[k] = acts[k]
  BY <1>2, <1>5, <1>6, ExceptSeq, LenProperties DEF n
<1>8. [acts EXCEPT ![last].end = n + 1] = patched
  BY <1>2, <1>5 DEF closed
<1> HIDE DEF patched
<1>9. /\ DOMAIN new = 1..(n + 1) /\ \A k \in 1..n : new[k] = patched[k]
      /\ new[n + 1] = x
  BY <1>7, Pushed
<1> HIDE DEF new
<1>10. /\ \A k \in 1..(n + 1) : k \in 1..n \/ k = n + 1
       /\ \A k \in 1..n : k \in 1..(n + 1) /\ k < n + 1 /\ k # n + 1
       /\ n + 1 \in 1..(n + 1) /\ n + 1 # MaxActionId
       /\ \A k \in 1..(m - 1) : k \in 1..m /\ k < m
       /\ \A k \in 1..m : k = m \/ k \in 1..(m - 1)
  BY <1>1, <1>2
<1>11. ASSUME NEW k \in 1..n, k # last PROVE new[k] = acts[k]
  BY <1>7, <1>9, <1>11
<1>12. new[last].name = "EnterOnSetupSuccess" /\ new[last].end = n + 1
  BY <1>5, <1>6, <1>7, <1>9
<1>13. EntersOf(new) = EntersOf(acts)
  <2>1. ASSUME NEW k \in EntersOf(new) PROVE k \in EntersOf(acts)
    <3>1. k \in 1..n
      BY <1>9, <1>10 DEF EntersOf
    <3>2. QED
      BY <1>2, <1>4, <1>11, <3>1 DEF EntersOf
  <2>2. ASSUME NEW k \in EntersOf(acts) PROVE k \in EntersOf(new)
    <3>1. k \in 1..n /\ acts[k].name = "EnterOnSetupSuccess"
      BY <1>2 DEF EntersOf
    <3>2. new[k].name = "EnterOnSetupSuccess"
      BY <1>11, <1>12, <3>1
    <3>3. QED
      BY <1>9, <1>10, <3>1, <3>2 DEF EntersOf
  <2>3. QED
    BY <2>1, <2>2
<1>14. ExitsOf(new) = ExitsOf(acts) \cup {n + 1}
  <2>1. ASSUME NEW k \in ExitsOf(new) PROVE k \in ExitsOf(acts) \cup {n + 1}
    <3>1. CASE k \in 1..n
      <4>1. k # last
        BY <1>12 DEF ExitsOf
      <4>2. QED
        BY <1>2, <1>11, <3>1, <4>1 DEF ExitsOf
    <3>2. QED
      BY <1>9, <1>10, <3>1 DEF ExitsOf
  <2>2. ASSUME NEW k \in ExitsOf(acts) PROVE k \in ExitsOf(new)
    <3>1. k \in 1..n /\ acts[k].name = "ExitBlock"
      BY <1>2 DEF ExitsOf
    <3>2. k # last
      BY <1>5, <3>1
    <3>3. QED
      BY <1>9, <1>10, <1>11, <3>1, <3>2 DEF ExitsOf
  <2>3. n + 1 \in ExitsOf(new)
    BY <1>9, <1>10 DEF ExitsOf
  <2>4. QED
    BY <2>1, <2>2, <2>3
<1>15. OpenBlocks(new, rest)
  <2>1. ASSUME NEW d \in DOMAIN rest
        PROVE  rest[d] \in EntersOf(new) /\ new[rest[d]].end = MaxActionId
    <3>1. d \in 1..m /\ m \in 1..m /\ d < m /\ rest[d] = blks[d]
      BY <1>1, <1>10
    <3>2. blks[d] < blks[m] /\ blks[d] \in EntersOf(acts) /\ acts[blks[d]].end = MaxActionId
      BY <1>1, <3>1 DEF OpenBlocks
    <3>3. blks[d] # last /\ blks[d] \in 1..n
      BY <1>1, <1>3, <1>4, <3>2
    <3>4. QED
      BY <1>11, <1>13, <3>1, <3>2, <3>3
  <2>2. ASSUME NEW id \in EntersOf(new), new[id].end = MaxActionId
        PROVE  \E d \in DOMAIN rest : rest[d] = id
    <3>1. id # last
      BY <1>10, <1>12, <2>2
    <3>2. id \in 1..n /\ id \in EntersOf(acts)
      BY <1>3, <1>13
    <3>3. PICK d \in DOMAIN blks : blks[d] = id
      BY <1>11, <2>2, <3>1, <3>2 DEF OpenBlocks
    <3>4. QED
      BY <1>1, <1>10, <3>1, <3>3
  <2>3. ASSUME NEW d \in DOMAIN rest, NEW e \in DOMAIN rest, d < e
        PROVE  rest[d] < rest[e]
    BY <1>1, <1>10, <2>3 DEF OpenBlocks
  <2>4. QED
    BY <2>1, <2>2, <2>3 DEF OpenBlocks
<1>16. ClosedBlocks(new)
  <2>1. ASSUME NEW id \in EntersOf(new), new[id].end # MaxActionId
        PROVE  new[id].end \in ExitsOf(new) /\ id < new[id].end
    <3>1. CASE id = last
      BY <1>5, <1>10, <1>12, <1>14, <3>1
    <3>2. CASE id # last
      <4>1. id \in 1..n /\ id \in EntersOf(acts) /\ new[id] = acts[id]
        BY <1>3, <1>11, <1>13, <3>2
      <4>2. QED
        BY <1>14, <2>1, <4>1 DEF ClosedBlocks
    <3>3. QED
      BY <3>1, <3>2
  <2>2. ASSUME NEW a \in EntersOf(new), NEW b \in EntersOf(new), a < b
        PROVE  new[a].end < b \/ new[b].end < new[a].end \/ new[a].end = MaxActionId
    <3>1. a \in EntersOf(acts) /\ b \in EntersOf(acts) /\ a \in 1..n /\ b \in 1..n
      BY <1>3, <1>13
    <3>2. CASE a = last
      <4>1. b # last /\ new[b] = acts[b]
        BY <1>11, <2>2, <3>1, <3>2
      <4>2. acts[b].end # MaxActionId
        <5>1. SUFFICES ASSUME acts[b].end = MaxActionId PROVE FALSE
          OBVIOUS
        <5>2. PICK d \in DOMAIN blks : blks[d] = b
          BY <3>1, <5>1 DEF OpenBlocks
        <5>3. d \in 1..m /\ m \in 1..m /\ d # m
          BY <1>1, <4>1, <5>2
        <5>4. blks[d] < blks[m]
          BY <1>1, <1>10, <5>3 DEF OpenBlocks
        <5>5. QED
          BY <1>1, <2>2, <3>1, <3>2, <5>2, <5>4
      <4>3. acts[b].end \in 1..n
        BY <1>3, <3>1, <4>2
      <4>4. QED
        BY <1>10, <1>12, <3>2, <4>1, <4>3
    <3>3. CASE b = last
      <4>1. a # last /\ new[a] = acts[a]
        BY <1>11, <2>2, <3>1, <3>3
      <4>2. CASE acts[a].end = MaxActionId
        BY <4>1, <4>2
      <4>3. CASE acts[a].end \in 1..n
        <5>1. acts[a].end < b \/ MaxActionId < acts[a].end
          BY <1>2, <1>4, <2>2, <3>1, <3>3, <4>3 DEF ClosedBlocks
        <5>2. QED
          BY <1>2, <4>1, <4>3, <5>1
      <4>4. QED
        BY <1>3, <3>1, <4>2, <4>3
    <3>4. CASE a # last /\ b # last
      <4>1. new[a] = acts[a] /\ new[b] = acts[b]
        BY <1>11, <3>1, <3>4
      <4>2. QED
        BY <2>2, <3>1, <4>1 DEF ClosedBlocks
    <3>5. QED
      BY <3>2, <3>3, <3>4
  <2>3. ASSUME NEW e \in ExitsOf(new)
        PROVE  \E id \in EntersOf(new) : new[id].end = e
    <3>1. CASE e = n + 1
      BY <1>4, <1>12, <1>13, <3>1
    <3>2. CASE e \in ExitsOf(acts)
      <4>1. PICK id \in EntersOf(acts) : acts[id].end = e
        BY <3>2 DEF ClosedBlocks
      <4>2. e \in 1..n /\ e # MaxActionId
        BY <1>2, <3>2 DEF ExitsOf
      <4>3. id # last /\ id \in 1..n
        BY <1>3, <1>4, <4>1, <4>2
      <4>4. QED
        BY <1>11, <1>13, <4>1, <4>3
    <3>3. QED
      BY <1>14, <3>1, <3>2
  <2>4. QED
    BY <2>1, <2>2, <2>3 DEF ClosedBlocks
<1>17. QED
  BY <1>2, <1>4, <1>6, <1>7, <1>8, <1>15, <1>16 DEF n, last, rest, new

-----------------------------------------------------------------------------
(* Sends, awaits and connections. *)

AwaitsOf(acts) == {id \in DOMAIN acts : acts[id].name = "AwaitSetupResponse"}
IsSend(acts, c, k) == acts[k].name = "Send" /\ acts[k].connection = c

\* What sent stands for.
SentOf(acts, been) ==
  \A c \in Nat : c \in been <=> c < NumConnections \/ \E k \in DOMAIN acts : IsSend(acts, c, k)

\* OwedIffFirstInProgram, and no violation is noted against an action that is still to come.
OwedOf(acts, violations) ==
  /\ DOMAIN violations \subseteq DOMAIN acts
  /\ \A id \in AwaitsOf(acts) :
       LET c     == acts[id].connection
           first == c >= NumConnections /\ {k \in 1..(id - 1) : IsSend(acts, c, k)} = {id - 1}
       IN /\ acts[id].first_on_connection <=> first
          /\ id \in DOMAIN violations <=> ~first

\* An await comes right after the send of its session's setup, and has its session to itself.
AwaitsPaired(acts, setups) ==
  /\ \A id \in AwaitsOf(acts) :
       /\ id - 1 \in DOMAIN acts /\ IsSend(acts, acts[id].connection, id - 1)
       /\ acts[id].session \in DOMAIN setups
       /\ acts[id - 1].payload = setups[acts[id].session]
       /\ setups[acts[id].session] \in Setup
  /\ \A a, b \in AwaitsOf(acts) : acts[a].session = acts[b].session => a = b

\* A connection is opened once.
ConnectsOnce(acts, count) ==
  /\ \A id \in DOMAIN acts : acts[id].name = "Connect" => acts[id].connection < count
  /\ \A a, b \in DOMAIN acts :
       /\ acts[a].name = "Connect" /\ acts[b].name = "Connect"
       /\ acts[a].connection = acts[b].connection
       => a = b

\* An action is added, and of those before it only enters have changed.
Grown(acts, new) ==
  /\ acts \in Seq(CompiledAction) /\ new \in Seq(CompiledAction) /\ Len(new) = Len(acts) + 1
  /\ \A k \in DOMAIN acts : /\ new[k].name = acts[k].name
                            /\ acts[k].name # "EnterOnSetupSuccess" => new[k] = acts[k]

\* Actions that grew by one keep their positions and their sends.
LEMMA GrownAt ==
  ASSUME NEW acts, NEW new, Grown(acts, new)
  PROVE  /\ Len(acts) \in Nat /\ DOMAIN acts = 1..Len(acts) /\ DOMAIN new = 1..(Len(acts) + 1)
         /\ \A k \in DOMAIN new : k \in DOMAIN acts \/ k = Len(acts) + 1
         /\ \A k \in DOMAIN acts : k \in DOMAIN new /\ k # Len(acts) + 1
         /\ Len(acts) + 1 \in DOMAIN new
         /\ \A c : \A k \in DOMAIN acts : IsSend(new, c, k) <=> IsSend(acts, c, k)
<1> DEFINE n == Len(acts)
<1>1. n \in Nat /\ DOMAIN acts = 1..n /\ DOMAIN new = 1..(n + 1)
  BY LenProperties DEF Grown
<1> HIDE DEF n
<1>2. /\ \A k \in 1..(n + 1) : k \in 1..n \/ k = n + 1
      /\ \A k \in 1..n : k \in 1..(n + 1) /\ k # n + 1
      /\ n + 1 \in 1..(n + 1)
  BY <1>1
<1>3. \A c : \A k \in DOMAIN acts : IsSend(new, c, k) <=> IsSend(acts, c, k)
  BY DEF Grown, IsSend
<1>4. QED
  BY <1>1, <1>2, <1>3 DEF n

\* Anything but an await leaves what is known of the awaits as it is.
LEMMA GrownKeepsAwaits ==
  ASSUME NEW acts, NEW new, Grown(acts, new), NEW violations, NEW setups,
         new[Len(acts) + 1].name # "AwaitSetupResponse",
         OwedOf(acts, violations), AwaitsPaired(acts, setups)
  PROVE  OwedOf(new, violations) /\ AwaitsPaired(new, setups)
<1> DEFINE n == Len(acts)
<1>1. /\ n \in Nat /\ DOMAIN acts = 1..n /\ DOMAIN new = 1..(n + 1)
      /\ \A k \in DOMAIN new : k \in DOMAIN acts \/ k = n + 1
      /\ \A k \in DOMAIN acts : k \in DOMAIN new /\ k # n + 1
      /\ \A c : \A k \in DOMAIN acts : IsSend(new, c, k) <=> IsSend(acts, c, k)
  BY GrownAt
<1>2. new[n + 1].name # "AwaitSetupResponse"
  OBVIOUS
<1> HIDE DEF n
<1>3. AwaitsOf(new) = AwaitsOf(acts)
  BY <1>1, <1>2 DEF AwaitsOf, Grown
<1>4. \A id \in AwaitsOf(acts) : id \in 1..n /\ new[id] = acts[id]
  BY <1>1 DEF AwaitsOf, Grown
<1>5. \A id \in 1..n : \A k \in 1..(id - 1) : k \in DOMAIN acts
  BY <1>1
<1>6. ASSUME NEW id \in AwaitsOf(acts), NEW c
      PROVE  {k \in 1..(id - 1) : IsSend(new, c, k)} = {k \in 1..(id - 1) : IsSend(acts, c, k)}
  BY <1>1, <1>4, <1>5
<1>7. OwedOf(new, violations)
  <2>1. DOMAIN violations \subseteq DOMAIN new
    BY <1>1 DEF OwedOf
  <2>2. QED
    BY <1>3, <1>4, <1>6, <2>1 DEF OwedOf
<1>8. AwaitsPaired(new, setups)
  <2>1. ASSUME NEW id \in AwaitsOf(acts)
        PROVE  /\ id - 1 \in DOMAIN new /\ IsSend(new, new[id].connection, id - 1)
               /\ new[id - 1] = acts[id - 1]
    <3>1. id - 1 \in DOMAIN acts /\ IsSend(acts, acts[id].connection, id - 1)
      BY DEF AwaitsPaired
    <3>2. acts[id - 1].name = "Send"
      BY <3>1 DEF IsSend
    <3>3. QED
      BY <1>1, <1>4, <3>1, <3>2 DEF Grown
  <2>2. QED
    BY <1>3, <1>4, <2>1 DEF AwaitsPaired
<1>9. QED
  BY <1>7, <1>8

\* A connection that has been sent on, and one that has been opened.
LEMMA GrownKeepsSent ==
  ASSUME NEW acts, NEW new, Grown(acts, new), NEW been \in SUBSET Nat, NEW more \in SUBSET Nat,
         \A c \in Nat : c \in more <=> c \in been \/ IsSend(new, c, Len(acts) + 1),
         SentOf(acts, been)
  PROVE  SentOf(new, more)
<1> DEFINE n == Len(acts)
<1>1. /\ \A k \in DOMAIN new : k \in DOMAIN acts \/ k = n + 1
      /\ \A k \in DOMAIN acts : k \in DOMAIN new /\ k # n + 1
      /\ n + 1 \in DOMAIN new
      /\ \A c : \A k \in DOMAIN acts : IsSend(new, c, k) <=> IsSend(acts, c, k)
  BY GrownAt
<1>2. \A c \in Nat : c \in more <=> c \in been \/ IsSend(new, c, n + 1)
  OBVIOUS
<1> HIDE DEF n
<1>3. ASSUME NEW c \in Nat
      PROVE  (\E k \in DOMAIN new : IsSend(new, c, k))
               <=> (\E k \in DOMAIN acts : IsSend(acts, c, k)) \/ IsSend(new, c, n + 1)
  BY <1>1
<1>4. QED
  BY <1>2, <1>3 DEF SentOf

\* An action more keeps connections apart, a connect by its new number.
LEMMA GrownKeepsConnects ==
  ASSUME NEW acts, NEW new, Grown(acts, new), NEW count \in Nat, NEW more \in Nat,
         IF new[Len(acts) + 1].name = "Connect"
           THEN new[Len(acts) + 1].connection = count /\ more = count + 1
           ELSE more = count,
         ConnectsOnce(acts, count)
  PROVE  ConnectsOnce(new, more)
<1> DEFINE n == Len(acts)
<1>1. /\ \A k \in DOMAIN new : k \in DOMAIN acts \/ k = n + 1
      /\ \A k \in DOMAIN acts : k \in DOMAIN new /\ k # n + 1
      /\ n + 1 \in DOMAIN new
  BY GrownAt
<1>2. /\ new[n + 1].name = "Connect" => new[n + 1].connection = count /\ more = count + 1
      /\ new[n + 1].name # "Connect" => more = count
  OBVIOUS
<1> HIDE DEF n
<1>3. ASSUME NEW k \in DOMAIN acts, new[k].name = "Connect"
      PROVE  /\ new[k] = acts[k] /\ acts[k].connection \in Nat
             /\ acts[k].connection < count /\ acts[k].connection < more
  <2>1. new[k] = acts[k]
    BY <1>3 DEF Grown
  <2>2. acts[k] \in CompiledAction
    BY ElementOfSeq, LenProperties DEF Grown
  <2>3. acts[k].connection \in Nat /\ acts[k].connection < count
    BY <1>3, <2>1, <2>2 DEF CompiledAction, ConnectsOnce
  <2>4. more \in {count, count + 1}
    BY <1>2
  <2>5. QED
    BY <2>1, <2>3, <2>4
<1>4. ASSUME NEW k \in DOMAIN new, new[k].name = "Connect" PROVE new[k].connection < more
  BY <1>1, <1>2, <1>3, <1>4
<1>5. ASSUME NEW a \in DOMAIN new, NEW b \in DOMAIN new, new[a].name = "Connect",
             new[b].name = "Connect", new[a].connection = new[b].connection
      PROVE  a = b
  <2>1. CASE a \in DOMAIN acts /\ b \in DOMAIN acts
    BY <1>3, <1>5, <2>1 DEF ConnectsOnce
  <2>2. CASE a = n + 1 /\ b \in DOMAIN acts
    BY <1>2, <1>3, <1>5, <2>2
  <2>3. CASE b = n + 1 /\ a \in DOMAIN acts
    BY <1>2, <1>3, <1>5, <2>3
  <2>4. QED
    BY <1>1, <2>1, <2>2, <2>3
<1>6. QED
  BY <1>4, <1>5 DEF ConnectsOnce

\* An await is added right after the send of its setup, and what is noted against it.
AwaitAdded(acts, new, c, s, spec, violations, noted) ==
  /\ Len(acts) >= 1 /\ IsSend(acts, c, Len(acts)) /\ acts[Len(acts)].payload = spec
  /\ new[Len(acts) + 1].name = "AwaitSetupResponse"
  /\ new[Len(acts) + 1].connection = c /\ new[Len(acts) + 1].session = s
  /\ new[Len(acts) + 1].first_on_connection <=>
       c >= NumConnections /\ \A k \in 1..(Len(acts) - 1) : ~IsSend(acts, c, k)
  /\ DOMAIN noted = IF new[Len(acts) + 1].first_on_connection THEN DOMAIN violations
                    ELSE DOMAIN violations \cup {Len(acts) + 1}

\* The await of a new session is paired with its send, and owes an answer as it should.
LEMMA AwaitAdds ==
  ASSUME NEW acts, NEW new, Grown(acts, new), NEW c \in Nat, NEW s \in Nat, NEW spec \in Setup,
         NEW violations, NEW noted, NEW setups, DOMAIN setups = 0..(s - 1),
         AwaitAdded(acts, new, c, s, spec, violations, noted),
         OwedOf(acts, violations), AwaitsPaired(acts, setups)
  PROVE  OwedOf(new, noted) /\ AwaitsPaired(new, Insert(setups, s, spec))
<1> DEFINE n == Len(acts)
           into == Insert(setups, s, spec)
           owed == new[n + 1].first_on_connection
<1>1. /\ n \in Nat /\ DOMAIN acts = 1..n /\ DOMAIN new = 1..(n + 1)
      /\ \A k \in DOMAIN new : k \in DOMAIN acts \/ k = n + 1
      /\ \A k \in DOMAIN acts : k \in DOMAIN new /\ k # n + 1
      /\ n + 1 \in DOMAIN new
      /\ \A d : \A k \in DOMAIN acts : IsSend(new, d, k) <=> IsSend(acts, d, k)
  BY GrownAt
<1>2. /\ n >= 1 /\ IsSend(acts, c, n) /\ acts[n].payload = spec
      /\ new[n + 1].name = "AwaitSetupResponse" /\ new[n + 1].connection = c
      /\ new[n + 1].session = s
      /\ owed <=> c >= NumConnections /\ \A k \in 1..(n - 1) : ~IsSend(acts, c, k)
      /\ DOMAIN noted = IF owed THEN DOMAIN violations ELSE DOMAIN violations \cup {n + 1}
  BY DEF AwaitAdded
<1>3. /\ \A k \in DOMAIN setups : k # s /\ into[k] = setups[k]
      /\ DOMAIN into = DOMAIN setups \cup {s} /\ into[s] = spec
  BY DEF Insert
<1> HIDE DEF n, into, owed
<1>4. AwaitsOf(new) = AwaitsOf(acts) \cup {n + 1} /\ n + 1 \notin AwaitsOf(acts)
  BY <1>1, <1>2 DEF AwaitsOf, Grown
<1>5. \A id \in AwaitsOf(acts) : id \in 1..n /\ new[id] = acts[id]
  BY <1>1 DEF AwaitsOf, Grown
<1>6. \A id \in 1..n : \A k \in 1..(id - 1) : k \in DOMAIN acts
  BY <1>1
<1>7. ASSUME NEW id \in AwaitsOf(acts), NEW d
      PROVE  {k \in 1..(id - 1) : IsSend(new, d, k)} = {k \in 1..(id - 1) : IsSend(acts, d, k)}
  BY <1>1, <1>5, <1>6
<1>8. {k \in 1..((n + 1) - 1) : IsSend(new, c, k)} = {(n + 1) - 1}
        <=> \A k \in 1..(n - 1) : ~IsSend(acts, c, k)
  <2>1. (n + 1) - 1 = n /\ n \in 1..n /\ \A k \in 1..n : k = n \/ k \in 1..(n - 1)
    BY <1>1, <1>2
  <2>2. \A k \in 1..(n - 1) : k \in 1..n /\ k # n
    BY <1>1
  <2>3. \A k \in 1..n : IsSend(new, c, k) <=> IsSend(acts, c, k)
    BY <1>1
  <2>4. QED
    BY <1>2, <2>1, <2>2, <2>3
<1>9. OwedOf(new, noted)
  <2>1. DOMAIN noted \subseteq DOMAIN new
    BY <1>1, <1>2 DEF OwedOf
  <2>2. ASSUME NEW id \in AwaitsOf(acts)
        PROVE  id \in DOMAIN noted <=> id \in DOMAIN violations
    BY <1>2, <1>4
  <2>3. n + 1 \in DOMAIN noted <=> ~owed
    <3>1. n + 1 \notin DOMAIN violations
      BY <1>1 DEF OwedOf
    <3>2. QED
      BY <1>2, <3>1
  <2>4. ASSUME NEW id \in AwaitsOf(new)
        PROVE  LET d     == new[id].connection
                   first == /\ d >= NumConnections
                            /\ {k \in 1..(id - 1) : IsSend(new, d, k)} = {id - 1}
               IN /\ new[id].first_on_connection <=> first
                  /\ id \in DOMAIN noted <=> ~first
    <3>1. CASE id \in AwaitsOf(acts)
      <4> DEFINE d == acts[id].connection
                 before == {k \in 1..(id - 1) : IsSend(acts, d, k)}
      <4>1. /\ new[id] = acts[id] /\ {k \in 1..(id - 1) : IsSend(new, d, k)} = before
            /\ id \in DOMAIN noted <=> id \in DOMAIN violations
        BY <1>5, <1>7, <2>2, <3>1
      <4>2. /\ acts[id].first_on_connection <=> d >= NumConnections /\ before = {id - 1}
            /\ id \in DOMAIN violations <=> ~(d >= NumConnections /\ before = {id - 1})
        BY <3>1 DEF OwedOf
      <4>3. QED
        BY <4>1, <4>2
    <3>2. CASE id = n + 1
      BY <1>2, <1>8, <2>3, <3>2 DEF owed
    <3>3. QED
      BY <1>4, <3>1, <3>2
  <2>5. QED
    BY <2>1, <2>4 DEF OwedOf
<1>10. AwaitsPaired(new, into)
  <2>1. ASSUME NEW id \in AwaitsOf(acts)
        PROVE  /\ id - 1 \in DOMAIN new /\ IsSend(new, new[id].connection, id - 1)
               /\ new[id].session \in DOMAIN setups /\ new[id].session # s
               /\ new[id].session \in DOMAIN into
               /\ new[id - 1].payload = into[new[id].session]
               /\ into[new[id].session] \in Setup
    <3>1. /\ id - 1 \in DOMAIN acts /\ IsSend(acts, acts[id].connection, id - 1)
          /\ acts[id].session \in DOMAIN setups
          /\ acts[id - 1].payload = setups[acts[id].session]
          /\ setups[acts[id].session] \in Setup
      BY DEF AwaitsPaired
    <3>2. new[id - 1] = acts[id - 1]
      BY <3>1 DEF IsSend, Grown
    <3>3. QED
      BY <1>1, <1>3, <1>5, <3>1, <3>2
  <2>2. /\ (n + 1) - 1 \in DOMAIN new /\ IsSend(new, new[n + 1].connection, (n + 1) - 1)
        /\ new[n + 1].session = s /\ s \in DOMAIN into
        /\ new[(n + 1) - 1].payload = into[s] /\ into[s] \in Setup
    <3>1. (n + 1) - 1 = n /\ n \in DOMAIN acts
      BY <1>1, <1>2
    <3>2. new[n] = acts[n]
      BY <1>2, <3>1 DEF IsSend, Grown
    <3>3. QED
      BY <1>1, <1>2, <1>3, <3>1, <3>2
  <2>3. ASSUME NEW a \in AwaitsOf(new), NEW b \in AwaitsOf(new), new[a].session = new[b].session
        PROVE  a = b
    BY <1>4, <1>5, <2>1, <2>2, <2>3 DEF AwaitsPaired
  <2>4. QED
    BY <1>4, <2>1, <2>2, <2>3 DEF AwaitsPaired
<1>11. QED
  BY <1>9, <1>10 DEF into

-----------------------------------------------------------------------------
(* The invariant of the compiler, and its steps. *)

CompileInv ==
  /\ CompileTypes
  /\ OpenBlocks(actions, blocks) /\ ClosedBlocks(actions)
  /\ SentOf(actions, sent)
  /\ OwedOf(actions, metadata.violations)
  /\ AwaitsPaired(actions, metadata.session_setups)
  /\ ConnectsOnce(actions, connections)

\* Nothing emitted, nothing to relate: the invariant holds of every program at the start.
LEMMA CompileInvInit ==
  ASSUME NEW p \in Seq(Instruction), 2 * Len(p) < MaxActionId, CompilerInit(p)
  PROVE  CompileInv
<1>1. CompileTypes
  BY CompileTypesInit
<1>2. /\ actions = << >> /\ blocks = << >> /\ sent = 0..(NumConnections - 1)
      /\ metadata.violations = << >>
  BY DEF CompilerInit
<1>3. DOMAIN << >> = {}
  OBVIOUS
<1>4. EntersOf(actions) = {} /\ ExitsOf(actions) = {} /\ AwaitsOf(actions) = {}
  BY <1>2, <1>3 DEF EntersOf, ExitsOf, AwaitsOf
<1>5. OpenBlocks(actions, blocks) /\ ClosedBlocks(actions)
  BY <1>2, <1>3, <1>4 DEF OpenBlocks, ClosedBlocks
<1>6. SentOf(actions, sent)
  BY <1>2, <1>3, ContextAssumption DEF SentOf
<1>7. OwedOf(actions, metadata.violations) /\ AwaitsPaired(actions, metadata.session_setups)
  BY <1>2, <1>3, <1>4 DEF OwedOf, AwaitsPaired
<1>8. ConnectsOnce(actions, connections)
  BY <1>2, <1>3 DEF ConnectsOnce
<1>9. QED
  BY <1>1, <1>5, <1>6, <1>7, <1>8 DEF CompileInv

\* Pushing an action grows the actions by it.
LEMMA PushGrows ==
  ASSUME NEW acts \in Seq(CompiledAction), NEW x \in CompiledAction
  PROVE  Grown(acts, acts \o <<x>>) /\ (acts \o <<x>>)[Len(acts) + 1] = x
  BY Pushed DEF Grown

\* A step that emits nothing.
LEMMA SilentStep ==
  ASSUME CompileInv, CompileTypes', Emits0
  PROVE  CompileInv'
<1>1. actions' = actions /\ blocks' = blocks /\ sent' = sent /\ metadata' = metadata
      /\ connections' = connections
  BY DEF Emits0, counters
<1>2. QED
  BY <1>1 DEF CompileInv

\* One action that is neither an await nor part of a block.
LEMMA PlainStep ==
  ASSUME CompileInv, CompileTypes', NEW x \in CompiledAction, Emits(<<x>>),
         x.name \notin {"EnterOnSetupSuccess", "ExitBlock", "AwaitSetupResponse"},
         blocks' = blocks,
         metadata'.session_setups = metadata.session_setups,
         metadata'.violations = metadata.violations,
         \A c \in Nat : c \in sent' <=> c \in sent \/ (x.name = "Send" /\ x.connection = c),
         IF x.name = "Connect" THEN x.connection = connections /\ connections' = connections + 1
                               ELSE connections' = connections
  PROVE  CompileInv'
<1> DEFINE new == actions \o <<x>>
<1>1. actions' = new /\ actions \in Seq(CompiledAction)
  BY DEF Emits, CompileInv, CompileTypes
<1>2. Grown(actions, new) /\ new[Len(actions) + 1] = x
  BY <1>1, PushGrows
<1>3. sent \in SUBSET Nat /\ sent' \in SUBSET Nat /\ connections \in Nat /\ connections' \in Nat
  BY DEF CompileInv, CompileTypes
<1>4. OpenBlocks(new, blocks) /\ ClosedBlocks(new)
  BY <1>1, PlainKeepsNest DEF CompileInv
<1> HIDE DEF new
<1>5. OwedOf(new, metadata.violations) /\ AwaitsPaired(new, metadata.session_setups)
  BY <1>2, GrownKeepsAwaits DEF CompileInv
<1>6. SentOf(new, sent')
  <2>1. \A c \in Nat : c \in sent' <=> c \in sent \/ IsSend(new, c, Len(actions) + 1)
    BY <1>2 DEF IsSend
  <2>2. QED
    BY <1>2, <1>3, <2>1, GrownKeepsSent DEF CompileInv
<1>7. ConnectsOnce(new, connections')
  BY <1>2, <1>3, GrownKeepsConnects DEF CompileInv
<1>8. QED
  BY <1>1, <1>4, <1>5, <1>6, <1>7 DEF CompileInv

\* A block entered is the innermost one open.
LEMMA BeginStep ==
  ASSUME CompileInv, CompileBeginOnSuccess
  PROVE  CompileInv'
<1>1. CompileTypes /\ at \in DOMAIN program
  BY DEF CompileInv, CompileBeginOnSuccess, Doing
<1>2. PICK x \in CompiledAction :
        /\ x.name = "EnterOnSetupSuccess" /\ x.end = MaxActionId
        /\ Emits(<<x>>)
        /\ UNCHANGED counters /\ blocks' = blocks \o <<Len(actions) + 1>>
        /\ metadata'.session_setups = metadata.session_setups
        /\ metadata'.violations = metadata.violations
  BY <1>1, BeginTypes
<1>3. CompileTypes'
  BY <1>1, BeginTypes
<1> DEFINE new == actions \o <<x>>
           stack == blocks \o <<Len(actions) + 1>>
<1>4. /\ actions' = new /\ actions \in Seq(CompiledAction) /\ blocks \in Seq(Nat)
      /\ blocks' = stack
  BY <1>2 DEF Emits, CompileInv, CompileTypes
<1>5. Grown(actions, new) /\ new[Len(actions) + 1] = x
  BY <1>4, PushGrows
<1>6. sent \in SUBSET Nat /\ sent' = sent /\ connections \in Nat /\ connections' = connections
  BY <1>2 DEF CompileInv, CompileTypes, counters
<1>7. Len(actions) < MaxActionId
  <2>1. Len(actions) \in Nat /\ Len(actions) + 2 < MaxActionId /\ MaxActionId \in Nat
    BY <1>1, AtHand DEF MaxActionId
  <2>2. QED
    BY <2>1
<1>8. OpenBlocks(new, stack) /\ ClosedBlocks(new)
  BY <1>2, <1>4, <1>7, EnterKeepsNest DEF CompileInv
<1> HIDE DEF new, stack
<1>9. OwedOf(new, metadata.violations) /\ AwaitsPaired(new, metadata.session_setups)
  BY <1>2, <1>5, GrownKeepsAwaits DEF CompileInv
<1>10. SentOf(new, sent')
  <2>1. \A c \in Nat : c \in sent <=> c \in sent \/ IsSend(new, c, Len(actions) + 1)
    BY <1>2, <1>5 DEF IsSend
  <2>2. QED
    BY <1>5, <1>6, <2>1, GrownKeepsSent DEF CompileInv
<1>11. ConnectsOnce(new, connections')
  BY <1>2, <1>5, <1>6, GrownKeepsConnects DEF CompileInv
<1>12. QED
  BY <1>2, <1>3, <1>4, <1>8, <1>9, <1>10, <1>11 DEF CompileInv

\* The exit closes the innermost block open, and no other.
LEMMA EndStep ==
  ASSUME CompileInv, CompileEndOnSuccess
  PROVE  CompileInv'
<1> DEFINE exit == [name |-> "ExitBlock"]
           last == Last(blocks)
           patched == [actions EXCEPT ![last].end = Len(actions) + 1]
           new == patched \o <<exit>>
           n == Len(actions)
           notes == metadata.action_instructions
           noted == [k \in DOMAIN <<exit>> |-> at]
<1>1. /\ CompileTypes /\ at \in DOMAIN program /\ blocks # << >> /\ at' = at + 1
      /\ actions' = Append(patched, exit) /\ blocks' = Front(blocks)
      /\ metadata' = [metadata EXCEPT !.action_instructions = notes \o noted]
      /\ UNCHANGED <<program, values, counters, compile_result>>
  BY DEF CompileInv, CompileEndOnSuccess, Doing, EnterToPatch, Noted
<1>2. /\ actions \in Seq(CompiledAction) /\ blocks \in Seq(Nat) /\ DOMAIN metadata = Fields
      /\ notes \in Seq(Nat) /\ Len(notes) = n
      /\ OpenBlocks(actions, blocks) /\ ClosedBlocks(actions)
  BY <1>1 DEF CompileInv, CompileTypes
<1>3. /\ n \in Nat /\ n + 2 < MaxActionId /\ n + 2 <= 2 * ((at + 1) - 1)
      /\ at + 1 \in 1..(Len(program) + 1) /\ at \in Nat
  BY <1>1, AtHand
<1>4. exit \in CompiledAction /\ exit.name = "ExitBlock"
  BY DEF CompiledAction
<1> HIDE DEF exit
<1>5. n + 1 < MaxActionId
  BY <1>3 DEF MaxActionId
<1>6. /\ patched \in Seq(CompiledAction) /\ Len(patched) = n
      /\ \A k \in DOMAIN actions : k # last => patched[k] = actions[k]
      /\ last \in EntersOf(actions) /\ patched[last].name = "EnterOnSetupSuccess"
      /\ OpenBlocks(new, Front(blocks)) /\ ClosedBlocks(new)
  <2>1. Len(actions) + 1 < MaxActionId
    BY <1>5
  <2> HIDE DEF n, notes
  <2>2. LET pat == [actions EXCEPT ![Last(blocks)].end = Len(actions) + 1]
        IN /\ pat \in Seq(CompiledAction) /\ Len(pat) = Len(actions)
           /\ \A k \in DOMAIN actions : k # Last(blocks) => pat[k] = actions[k]
           /\ Last(blocks) \in EntersOf(actions)
           /\ pat[Last(blocks)].name = "EnterOnSetupSuccess"
           /\ OpenBlocks(pat \o <<exit>>, Front(blocks)) /\ ClosedBlocks(pat \o <<exit>>)
    BY <1>1, <1>2, <1>4, <2>1, ExitKeepsNest
  <2>3. QED
    BY <2>2 DEF n
<1> HIDE DEF patched, n, last, notes
<1>7. actions' = new
  BY <1>1, <1>4, <1>6, AppendIsConcat
<1>8. /\ new \in Seq(CompiledAction) /\ Len(new) = n + 1 /\ new[n + 1] = exit
      /\ \A k \in 1..n : new[k] = patched[k]
  BY <1>4, <1>6, Pushed
<1> HIDE DEF new
<1>9. Grown(actions, new)
  <2>1. DOMAIN actions = 1..n /\ n = Len(actions)
    BY <1>2, LenProperties DEF n
  <2>2. actions[last].name = "EnterOnSetupSuccess"
    BY <1>6 DEF EntersOf
  <2>3. \A k \in DOMAIN actions : /\ new[k].name = actions[k].name
                                  /\ actions[k].name # "EnterOnSetupSuccess" => new[k] = actions[k]
    BY <1>6, <1>8, <2>1, <2>2
  <2>4. QED
    BY <1>2, <1>8, <2>1, <2>3 DEF Grown
<1>10. /\ metadata'.action_instructions = notes \o noted /\ DOMAIN metadata' = Fields
       /\ metadata'.session_setups = metadata.session_setups
       /\ metadata'.violations = metadata.violations
  BY <1>1, <1>2 DEF Fields
<1>11. notes \o noted \in Seq(Nat) /\ Len(notes \o noted) = n + 1
  <2>1. noted = [k \in 1..1 |-> at]
    OBVIOUS
  <2>2. noted \in Seq(Nat) /\ Len(noted) = 1
    BY <1>3, <2>1, Copies
  <2> HIDE DEF noted
  <2>3. notes \in Seq(Nat) /\ Len(notes) = n
    BY <1>2
  <2>4. notes \o noted \in Seq(Nat) /\ Len(notes \o noted) = Len(notes) + Len(noted)
    BY <2>2, <2>3, ConcatProperties
  <2>5. QED
    BY <2>2, <2>3, <2>4
<1>12. Front(blocks) \in Seq(Nat)
  BY <1>1, <1>2, Popped
<1>13. CompileTypes'
  <2>1. n + 1 <= 2 * ((at + 1) - 1)
    BY <1>3
  <2>2. QED
    BY <1>1, <1>3, <1>7, <1>8, <1>10, <1>11, <1>12, <2>1 DEF CompileTypes, counters
<1>14. new[Len(actions) + 1] = exit
  BY <1>8 DEF n
<1>15. sent \in SUBSET Nat /\ sent' = sent /\ connections \in Nat /\ connections' = connections
  BY <1>1 DEF CompileTypes, counters
<1>16. OwedOf(new, metadata.violations) /\ AwaitsPaired(new, metadata.session_setups)
  BY <1>4, <1>9, <1>14, GrownKeepsAwaits DEF CompileInv
<1>17. SentOf(new, sent)
  <2>1. \A c \in Nat : c \in sent <=> c \in sent \/ IsSend(new, c, Len(actions) + 1)
    BY <1>4, <1>14 DEF IsSend
  <2>2. QED
    BY <1>9, <1>15, <2>1, GrownKeepsSent DEF CompileInv
<1>18. ConnectsOnce(new, connections)
  BY <1>4, <1>9, <1>14, <1>15, GrownKeepsConnects DEF CompileInv
<1>19. QED
  BY <1>1, <1>6, <1>7, <1>10, <1>13, <1>15, <1>16, <1>17, <1>18 DEF CompileInv

\* Two actions pushed at once are pushed one after the other.
LEMMA TwoByOne ==
  ASSUME NEW acts \in Seq(CompiledAction), NEW x \in CompiledAction, NEW y \in CompiledAction
  PROVE  acts \o <<x, y>> = (acts \o <<x>>) \o <<y>>
<1> DEFINE n == Len(acts)
           mid == acts \o <<x>>
           one == mid \o <<y>>
           two == acts \o <<x, y>>
<1>1. /\ n \in Nat /\ mid \in Seq(CompiledAction) /\ Len(mid) = n + 1
      /\ \A k \in 1..n : mid[k] = acts[k]
      /\ mid[n + 1] = x
  BY Pushed
<1>2. /\ one \in Seq(CompiledAction) /\ Len(one) = (n + 1) + 1
      /\ \A k \in 1..(n + 1) : one[k] = mid[k]
      /\ one[(n + 1) + 1] = y
  <2>1. /\ one \in Seq(CompiledAction) /\ Len(one) = Len(mid) + 1
        /\ \A k \in 1..Len(mid) : one[k] = mid[k]
        /\ one[Len(mid) + 1] = y
    <3> HIDE DEF mid, n
    <3>1. mid \in Seq(CompiledAction)
      BY <1>1
    <3>2. QED
      BY <3>1, Pushed
  <2> HIDE DEF mid, n, one
  <2>2. QED
    BY <1>1, <2>1
<1>3. /\ two \in Seq(CompiledAction) /\ Len(two) = n + 2
      /\ \A k \in 1..n : two[k] = acts[k]
      /\ two[n + 1] = x /\ two[n + 2] = y
  BY PushedTwo
<1> HIDE DEF n, mid, one, two
<1>4. n + 2 = (n + 1) + 1 /\ \A k \in 1..(n + 2) : k \in 1..n \/ k = n + 1 \/ k = n + 2
  BY <1>1
<1>5. \A k \in 1..n : k \in 1..(n + 1)
  BY <1>1
<1>6. n + 1 \in 1..(n + 1)
  BY <1>1
<1>7. \A k \in 1..(n + 2) : one[k] = two[k]
  BY <1>1, <1>2, <1>3, <1>4, <1>5, <1>6
<1>8. one = two
  BY <1>2, <1>3, <1>4, <1>7, SeqEqual
<1>9. QED
  BY <1>8 DEF one, two, mid

\* A setup keeps the invariant, its send first and then its await.
LEMMA SendSetupStep ==
  ASSUME CompileInv, CompileSendSetup
  PROVE  CompileInv'
<1>1. CompileTypes /\ at \in DOMAIN program
  BY DEF CompileInv, CompileSendSetup, Doing
<1>2. CompileTypes'
  BY <1>1, SendSetupTypes
<1>3. PICK c \in Nat, spec \in Setup, send \in CompiledAction, await \in CompiledAction :
        /\ send.name = "Send" /\ send.connection = c /\ send.payload = spec
        /\ await.name = "AwaitSetupResponse" /\ await.connection = c
        /\ await.session = sessions
        /\ await.first_on_connection = FirstOnConnection(c)
        /\ Emits(<<send, await>>)
        /\ sent' = sent \cup {c} /\ raw_framed' = raw_framed
        /\ connections' = connections /\ sessions' = sessions + 1 /\ blocks' = blocks
        /\ metadata'.session_setups = Insert(metadata.session_setups, sessions, spec)
        /\ metadata'.violations =
             IF SetupViolations(c) = {} THEN metadata.violations
             ELSE Insert(metadata.violations, Len(actions) + 2, SetupViolations(c))
  BY <1>1, SendSetupTypes
<1> DEFINE n == Len(actions)
           mid == actions \o <<send>>
           new == mid \o <<await>>
<1>4. /\ actions \in Seq(CompiledAction) /\ sent \in SUBSET Nat /\ connections \in Nat
      /\ sessions \in Nat /\ DOMAIN metadata.session_setups = 0..(sessions - 1)
      /\ raw_framed \subseteq sent
  BY <1>1 DEF CompileTypes
<1>5. actions' = new
  BY <1>3, <1>4, TwoByOne DEF Emits
<1>6. /\ Grown(actions, mid) /\ mid[n + 1] = send /\ mid \in Seq(CompiledAction)
      /\ Len(mid) = n + 1 /\ n \in Nat /\ DOMAIN actions = 1..n
      /\ OpenBlocks(mid, blocks) /\ ClosedBlocks(mid)
  BY <1>3, <1>4, PushGrows, Pushed, PlainKeepsNest DEF CompileInv
<1>7. n = Len(actions)
  OBVIOUS
<1> HIDE DEF mid, n
<1>8. /\ Grown(mid, new) /\ new[Len(mid) + 1] = await
      /\ OpenBlocks(new, blocks) /\ ClosedBlocks(new)
  BY <1>3, <1>6, PushGrows, PlainKeepsNest
<1> HIDE DEF new
<1>9. /\ OwedOf(mid, metadata.violations) /\ AwaitsPaired(mid, metadata.session_setups)
      /\ SentOf(mid, sent') /\ ConnectsOnce(mid, connections)
  <2>1. mid[Len(actions) + 1] = send
    BY <1>6, <1>7
  <2>2. \A d \in Nat : d \in sent' <=> d \in sent \/ IsSend(mid, d, Len(actions) + 1)
    BY <1>3, <2>1 DEF IsSend
  <2>3. sent' \in SUBSET Nat
    BY <1>2 DEF CompileTypes
  <2>4. OwedOf(mid, metadata.violations) /\ AwaitsPaired(mid, metadata.session_setups)
    BY <1>3, <1>6, <2>1, GrownKeepsAwaits DEF CompileInv
  <2>5. SentOf(mid, sent')
    BY <1>4, <1>6, <2>2, <2>3, GrownKeepsSent DEF CompileInv
  <2>6. ConnectsOnce(mid, connections)
    BY <1>3, <1>4, <1>6, <2>1, GrownKeepsConnects DEF CompileInv
  <2>7. QED
    BY <2>4, <2>5, <2>6
<1>10. SentOf(new, sent') /\ ConnectsOnce(new, connections)
  <2>1. sent' \in SUBSET Nat /\ \A d \in Nat : d \in sent' <=> d \in sent' \/ IsSend(new, d, Len(mid) + 1)
    BY <1>2, <1>3, <1>8 DEF IsSend, CompileTypes
  <2>2. SentOf(new, sent')
    BY <1>8, <1>9, <2>1, GrownKeepsSent
  <2>3. ConnectsOnce(new, connections)
    BY <1>3, <1>4, <1>8, <1>9, GrownKeepsConnects
  <2>4. QED
    BY <2>2, <2>3
<1>11. OwedOf(new, metadata'.violations) /\ AwaitsPaired(new, metadata'.session_setups)
  <2> DEFINE m == Len(mid)
             noted == metadata'.violations
             first == await.first_on_connection
  <2>1. m \in Nat /\ m >= 1 /\ m = n + 1 /\ m + 1 = n + 2 /\ m - 1 = n
    BY <1>6
  <2>2. IsSend(mid, c, m) /\ mid[m].payload = spec
    BY <1>3, <1>6, <2>1 DEF IsSend
  <2>3. \A k \in 1..n : IsSend(mid, c, k) <=> IsSend(actions, c, k)
    BY <1>6, GrownAt
  <2>4. first <=> c >= NumConnections /\ \A k \in 1..(m - 1) : ~IsSend(mid, c, k)
    <3>1. first <=> c \notin sent
      BY <1>3 DEF FirstOnConnection
    <3>2. c \in sent <=> c < NumConnections \/ \E k \in 1..n : IsSend(actions, c, k)
      BY <1>6 DEF CompileInv, SentOf
    <3>3. c < NumConnections <=> ~(c >= NumConnections)
      BY ContextAssumption
    <3>4. QED
      BY <2>1, <2>3, <3>1, <3>2, <3>3
  <2>5. DOMAIN noted = IF first THEN DOMAIN metadata.violations
                       ELSE DOMAIN metadata.violations \cup {m + 1}
    <3>1. SetupViolations(c) = {} <=> first
      BY <1>3, <1>4 DEF SetupViolations, FirstOnConnection
    <3>2. Len(actions) + 2 = m + 1
      BY <1>7, <2>1
    <3>3. QED
      BY <1>3, <3>1, <3>2 DEF Insert
  <2>6. /\ new[m + 1].name = "AwaitSetupResponse" /\ new[m + 1].connection = c
        /\ new[m + 1].session = sessions /\ new[m + 1].first_on_connection = first
    BY <1>3, <1>8
  <2>7. new[m + 1].first_on_connection <=>
          c >= NumConnections /\ \A k \in 1..(m - 1) : ~IsSend(mid, c, k)
    BY <2>4, <2>6
  <2>8. DOMAIN noted = IF new[m + 1].first_on_connection THEN DOMAIN metadata.violations
                       ELSE DOMAIN metadata.violations \cup {m + 1}
    BY <2>5, <2>6
  <2>9. OwedOf(new, noted) /\ AwaitsPaired(new, Insert(metadata.session_setups, sessions, spec))
    <3> DEFINE violations == metadata.violations
               setups == metadata.session_setups
    <3>1. /\ Grown(mid, new) /\ DOMAIN setups = 0..(sessions - 1) /\ sessions \in Nat
          /\ OwedOf(mid, violations) /\ AwaitsPaired(mid, setups)
      BY <1>4, <1>8, <1>9
    <3>2. DOMAIN noted = IF new[m + 1].first_on_connection THEN DOMAIN violations
                         ELSE DOMAIN violations \cup {m + 1}
      BY <2>8
    <3>3. AwaitAdded(mid, new, c, sessions, spec, violations, noted)
      BY <2>1, <2>2, <2>6, <2>7, <3>2 DEF AwaitAdded
    <3> HIDE DEF noted, violations, setups
    <3>4. OwedOf(new, noted) /\ AwaitsPaired(new, Insert(setups, sessions, spec))
      BY <3>1, <3>3, AwaitAdds
    <3>5. QED
      BY <3>4 DEF setups
  <2>10. QED
    BY <1>3, <2>9 DEF noted
<1>12. QED
  BY <1>2, <1>3, <1>5, <1>8, <1>10, <1>11 DEF CompileInv

\* The compiler keeps its invariant.
LEMMA CompileInvStep ==
  ASSUME CompileInv, CompilerNext
  PROVE  CompileInv'
<1>1. CompileTypes
  BY DEF CompileInv
<1>2. CASE CompileUnreadable \/ CompileSendTooLong \/ CompileUnbalanced \/ CompileDone
  BY <1>1, <1>2, FailTypes, SilentStep
<1>3. CASE CompileLoad
  BY <1>1, <1>3, LoadTypes, SilentStep DEF Emits0, CompileLoad, counters
<1>4. CASE CompileSet
  BY <1>1, <1>4, SetTypes, SilentStep DEF Emits0, CompileSet, counters
<1>5. CASE CompileEndBuild
  BY <1>1, <1>5, EndBuildTypes, SilentStep DEF Emits0, CompileEndBuild, counters
<1>6. CASE CompileConnect
  <2>1. CompileTypes' /\ connections' = connections + 1 /\ sent' = sent /\ blocks' = blocks
        /\ metadata'.session_setups = metadata.session_setups
        /\ metadata'.violations = metadata.violations
    BY <1>1, <1>6, ConnectTypes
  <2>2. PICK x \in CompiledAction :
          x.name = "Connect" /\ x.connection = connections /\ Emits(<<x>>)
    BY <1>1, <1>6, ConnectTypes
  <2>3. QED
    BY <2>1, <2>2, PlainStep
<1>7. CASE CompileSendSetup
  BY <1>7, SendSetupStep
<1>8. CASE CompileBeginOnSuccess
  BY <1>8, BeginStep
<1>9. CASE CompileEndOnSuccess
  BY <1>9, EndStep
<1>10. CASE CompileSendRaw
  <2>1. CompileTypes'
    BY <1>1, <1>10, SendRawTypes
  <2>2. PICK c \in Nat, x \in CompiledAction :
          /\ x.name = "Send" /\ x.connection = c /\ x.payload = RawBytes
          /\ Emits(<<x>>)
          /\ sent' = sent \cup {c} /\ raw_framed' = raw_framed \cup {c}
          /\ connections' = connections /\ sessions' = sessions /\ blocks' = blocks
          /\ metadata'.session_setups = metadata.session_setups
          /\ metadata'.violations = metadata.violations
    BY <1>1, <1>10, SendRawTypes
  <2>3. \A d \in Nat : d \in sent' <=> d \in sent \/ (x.name = "Send" /\ x.connection = d)
    BY <2>2
  <2>4. QED
    BY <2>1, <2>2, <2>3, PlainStep
<1>11. CASE CompileStep("AdvanceTime") \/ CompileStep("Probe")
  <2>1. /\ CompileTypes' /\ UNCHANGED <<values, counters, blocks>>
        /\ metadata'.session_setups = metadata.session_setups
        /\ metadata'.violations = metadata.violations
    BY <1>1, <1>11, StepTypes
  <2>2. PICK x \in CompiledAction : x.name \in {"AdvanceTime", "Probe"} /\ Emits(<<x>>)
    BY <1>1, <1>11, StepTypes
  <2>3. sent' = sent /\ connections' = connections /\ blocks' = blocks
    BY <2>1 DEF counters
  <2>4. QED
    BY <2>1, <2>2, <2>3, PlainStep
<1>12. QED
  BY <1>2, <1>3, <1>4, <1>5, <1>6, <1>7, <1>8, <1>9, <1>10, <1>11 DEF CompilerNext

\* A compiler left alone stays as it is.
LEMMA CompileInvStays ==
  ASSUME CompileInv, UNCHANGED compiler_vars
  PROVE  CompileInv'
<1>1. UNCHANGED <<program, at, values, actions, connections, sessions, sent, raw_framed, blocks,
                  metadata, compile_result>>
  BY DEF compiler_vars, counters
<1>2. CompileTypes'
  BY <1>1 DEF CompileInv, CompileTypes
<1>3. (OpenBlocks(actions, blocks) /\ ClosedBlocks(actions))'
  BY <1>1 DEF CompileInv, OpenBlocks, ClosedBlocks, EntersOf, ExitsOf
<1>4. (SentOf(actions, sent) /\ OwedOf(actions, metadata.violations))'
  BY <1>1 DEF CompileInv, SentOf, OwedOf, AwaitsOf, IsSend
<1>5. (AwaitsPaired(actions, metadata.session_setups) /\ ConnectsOnce(actions, connections))'
  BY <1>1 DEF CompileInv, AwaitsPaired, ConnectsOnce, AwaitsOf, IsSend
<1>6. QED
  BY <1>2, <1>3, <1>4, <1>5 DEF CompileInv

\* What Lowering checks of any program, validated or not.
LEMMA CompileInvMeans ==
  ASSUME CompileInv
  PROVE  BlocksNest /\ CompilerTypeOK /\ OwedIffFirstInProgram
<1>1. BlocksNest
  BY NestMeansBlocksNest DEF CompileInv
<1>2. CompilerTypeOK
  <2>1. \A v \in DOMAIN values : values[v].kind \in Kinds
    <3>1. \A v \in DOMAIN values : values[v] \in Value
      BY ElementOfSeq, LenProperties DEF CompileInv, CompileTypes
    <3>2. QED
      BY <3>1, ValueHolds
  <2>2. QED
    BY <2>1 DEF CompileInv, CompileTypes, CompilerTypeOK
<1>3. OwedIffFirstInProgram
  BY DEF CompileInv, OwedOf, OwedIffFirstInProgram, Awaits, AwaitsOf, SendsBefore, IsSend
<1>4. QED
  BY <1>1, <1>2, <1>3
=============================================================================
