--------------------------------- MODULE IR ---------------------------------
(***************************************************************************)
(* The operations of the intermediate representation, the variables they   *)
(* consume and produce, and the block structure they impose                *)
(* (crates/stratamoto-ir/src/operation.rs, variable.rs, instruction.rs).   *)
(*                                                                         *)
(* A variable's type is a tuple, <<"Role">> or <<"Session", p>>.  Data no  *)
(* property tells apart (ports, payload bytes, durations, the header of a  *)
(* raw frame) is not carried; a string carries only whether it is longer   *)
(* than the 255 bytes a STR0_255 field holds, and a flags word only the    *)
(* set of bits that matter.                                                *)
(***************************************************************************)
EXTENDS Naturals, Sequences

CONSTANTS
  Protocols,   \* the subprotocols a SetupConnection may name
  Versions,    \* the version numbers a program may load
  Flags,       \* the bits of a flags word the model tells apart
  NumRoles,       \* context.num_roles: the roles of the deployment
  NumConnections  \* context.num_connections: connections that exist before a program runs

ASSUME VersionsAssumption == Versions \subseteq Nat
ASSUME ContextAssumption  == NumRoles \in Nat /\ NumConnections \in Nat

-----------------------------------------------------------------------------
(* Variable types. *)

SetupAttempt(p)         == <<"SetupAttempt", p>>
Session(p)              == <<"Session", p>>
ConstSetupConnection(p) == <<"ConstSetupConnection", p>>

Variable ==
  {<<"Nop">>, <<"Role">>, <<"Connection">>, <<"Version">>, <<"Flags">>, <<"Port">>,
   <<"Str">>, <<"Bytes">>, <<"Duration">>, <<"MutSetupConnection">>}
  \cup ({"SetupAttempt", "Session", "ConstSetupConnection"} \X Protocols)

-----------------------------------------------------------------------------
(* Operations. *)

Nop(outputs, inner) == [name |-> "Nop", outputs |-> outputs, inner_outputs |-> inner]
LoadRole(i)         == [name |-> "LoadRole", index |-> i]
LoadConnection(i)   == [name |-> "LoadConnection", index |-> i]
LoadVersion(v)      == [name |-> "LoadVersion", version |-> v]
LoadFlags(f)        == [name |-> "LoadFlags", flags |-> f]
LoadStr(long)       == [name |-> "LoadStr", long |-> long]
Plain(name)         == [name |-> name]
WithProtocol(name, p) == [name |-> name, protocol |-> p]

Operation ==
  [name : {"Nop"}, outputs : Nat, inner_outputs : Nat]
  \cup [name : {"LoadRole", "LoadConnection"}, index : Nat]
  \cup [name : {"LoadVersion"}, version : Versions]
  \cup [name : {"LoadFlags"}, flags : SUBSET Flags]
  \cup [name : {"LoadStr"}, long : BOOLEAN]
  \cup [name : {"LoadPort", "LoadBytes", "LoadDuration", "Connect",
                "BeginBuildSetupConnection", "SetVersions", "SetFlags", "SetEndpoint",
                "SetDeviceInfo", "EndOnSetupSuccess", "SendRawFrame", "AdvanceTime",
                "Probe"}]
  \cup [name : {"EndBuildSetupConnection", "SendSetupConnection", "BeginOnSetupSuccess"},
        protocol : Protocols]

Instruction == [inputs : Seq(Nat), operation : Operation]

IsNop(op) == op.name = "Nop"

IsBlockBegin(op) == op.name \in {"BeginBuildSetupConnection", "BeginOnSetupSuccess"}

IsBlockEnd(op) == op.name \in {"EndBuildSetupConnection", "EndOnSetupSuccess"}

\* Whether the block that begin opens is the one that end closes.
IsMatchingBlockBegin(end, begin) ==
  <<end.name, begin.name>> \in
     {<<"EndBuildSetupConnection", "BeginBuildSetupConnection">>,
      <<"EndOnSetupSuccess", "BeginOnSetupSuccess">>}

\* The variables an operation defines in the scope it is written in.
OutputVariables(op) ==
  CASE op.name = "Nop"            -> [i \in 1..op.outputs |-> <<"Nop">>]
    [] op.name = "LoadRole"       -> <<<<"Role">>>>
    [] op.name = "LoadConnection" -> <<<<"Connection">>>>
    [] op.name = "LoadVersion"    -> <<<<"Version">>>>
    [] op.name = "LoadFlags"      -> <<<<"Flags">>>>
    [] op.name = "LoadPort"       -> <<<<"Port">>>>
    [] op.name = "LoadStr"        -> <<<<"Str">>>>
    [] op.name = "LoadBytes"      -> <<<<"Bytes">>>>
    [] op.name = "LoadDuration"   -> <<<<"Duration">>>>
    [] op.name = "Connect"        -> <<<<"Connection">>>>
    [] op.name = "EndBuildSetupConnection" -> <<ConstSetupConnection(op.protocol)>>
    [] op.name = "SendSetupConnection"     -> <<SetupAttempt(op.protocol)>>
    [] OTHER                      -> << >>

\* The variables a block beginning defines inside the scope it opens.
InnerOutputVariables(op) ==
  CASE op.name = "Nop"                       -> [i \in 1..op.inner_outputs |-> <<"Nop">>]
    [] op.name = "BeginBuildSetupConnection" -> <<<<"MutSetupConnection">>>>
    [] op.name = "BeginOnSetupSuccess"       -> <<Session(op.protocol)>>
    [] OTHER                                 -> << >>

\* The variables an operation consumes, in order.
InputVariables(op) ==
  CASE op.name = "Connect"         -> <<<<"Role">>>>
    [] op.name = "SetVersions"     -> <<<<"MutSetupConnection">>, <<"Version">>, <<"Version">>>>
    [] op.name = "SetFlags"        -> <<<<"MutSetupConnection">>, <<"Flags">>>>
    [] op.name = "SetEndpoint"     -> <<<<"MutSetupConnection">>, <<"Str">>, <<"Port">>>>
    [] op.name = "SetDeviceInfo"   -> <<<<"MutSetupConnection">>, <<"Str">>, <<"Str">>,
                                        <<"Str">>, <<"Str">>>>
    [] op.name = "EndBuildSetupConnection" -> <<<<"MutSetupConnection">>>>
    [] op.name = "SendSetupConnection"     -> <<<<"Connection">>, ConstSetupConnection(op.protocol)>>
    [] op.name = "BeginOnSetupSuccess"     -> <<SetupAttempt(op.protocol)>>
    [] op.name = "SendRawFrame"    -> <<<<"Connection">>, <<"Bytes">>>>
    [] op.name = "AdvanceTime"     -> <<<<"Duration">>>>
    [] OTHER                       -> << >>

=============================================================================
