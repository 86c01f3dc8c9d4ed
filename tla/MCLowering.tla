----------------------------- MODULE MCLowering -----------------------------
(***************************************************************************)
(* Builder and compiler on every program that extends a common opening by  *)
(* up to MaxInstructions - Len(Prefix) instructions, over two subprotocols;*)
(* and the compiler alone on every sequence of up to MaxSteps instructions *)
(* after a longer opening, from a menu that has inputs of the wrong kind,  *)
(* inputs nothing defines and ends of blocks that never began.             *)
(***************************************************************************)
EXTENDS Lowering

CONSTANTS
  MaxVariable,   \* bound on the variables an instruction names
  MaxSteps       \* bound on the unvalidated instructions

MCProtocols == {"Mining", "JobDeclaration"}
MCVersions  == {2}
MCFlags     == {"rolling"}

Do(op, inputs) == [inputs |-> inputs, operation |-> op]

\* v1 a role, v2 a connection, v3 flags, v4 a message under construction.
MCPrefix ==
  <<Do(LoadRole(0), << >>), Do(Plain("Connect"), <<1>>), Do(LoadFlags({"rolling"}), << >>),
    Do(Plain("BeginBuildSetupConnection"), << >>)>>

Index == 1..MaxVariable

MCInstructions ==
  {Do(Plain("SetFlags"), <<m, 3>>) : m \in Index}
  \cup {Do(WithProtocol("EndBuildSetupConnection", p), <<m>>) : p \in MCProtocols, m \in Index}
  \cup {Do(WithProtocol("SendSetupConnection", p), <<c, m>>) :
          p \in MCProtocols, c \in {1, 2}, m \in Index}
  \cup {Do(WithProtocol("BeginOnSetupSuccess", p), <<v>>) : p \in MCProtocols, v \in Index}
  \cup {Do(Plain("EndOnSetupSuccess"), << >>), Do(Nop(1, 1), << >>)}
  \cup {Do(Plain("Connect"), <<1>>), Do(Plain("BeginBuildSetupConnection"), << >>)}

Mining(name) == WithProtocol(name, "Mining")

\* v1 the existing connection, v2 a role, v3 a connection, v4 bytes, v5 a string, v6 the
\* message under construction, v7 the finished message, v8 a duration.
Opening ==
  <<Do(LoadConnection(0), << >>), Do(LoadRole(0), << >>), Do(Plain("Connect"), <<2>>),
    Do(Plain("LoadBytes"), << >>), Do(LoadStr(TRUE), << >>),
    Do(Plain("BeginBuildSetupConnection"), << >>), Do(Mining("EndBuildSetupConnection"), <<6>>),
    Do(Plain("LoadDuration"), << >>)>>

Menu ==
  {Do(Mining("SendSetupConnection"), <<c, m>>) : c \in {1, 3}, m \in {6, 7}}
  \cup {Do(Plain("SendRawFrame"), <<3, b>>) : b \in {4, 5}}
  \cup {Do(Mining("BeginOnSetupSuccess"), <<v>>) : v \in {3, 9, 10}}
  \cup {Do(Plain("EndOnSetupSuccess"), << >>), Do(Plain("Probe"), << >>),
        Do(Plain("AdvanceTime"), <<8>>), Do(Plain("SetDeviceInfo"), <<6, 5, 5, 5, 5>>)}

MCDecoded == {Opening \o s : s \in BoundedSeq(Menu, MaxSteps)}
=============================================================================
