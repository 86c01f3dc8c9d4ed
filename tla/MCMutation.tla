----------------------------- MODULE MCMutation -----------------------------
(***************************************************************************)
(* A corpus of an empty program, a setup that a frame is sent behind, a    *)
(* message set from two pairs of values of the same type, and an entry     *)
(* that was never scheduled.                                               *)
(***************************************************************************)
EXTENDS Mutation

MCProtocols    == {"Mining"}
MCVersions     == {2, 3}
MCFlags        == {"rolling", "undefined"}
MCDefinedFlags == [p \in MCProtocols |-> {"rolling"}]
MCShapes       == {{}, {"endpoint", "device"}}

P(name) == WithProtocol(name, "Mining")

Build(m) ==
  <<Instr(Plain("BeginBuildSetupConnection"), << >>), Instr(P("EndBuildSetupConnection"), <<m>>)>>

Guarded ==
  <<Instr(LoadRole(0), << >>), Instr(Plain("Connect"), <<1>>)>> \o Build(3)
    \o <<Instr(P("SendSetupConnection"), <<2, 4>>), Instr(P("BeginOnSetupSuccess"), <<5>>),
         Instr(Plain("LoadBytes"), << >>), Instr(Plain("SendRawFrame"), <<2, 7>>),
         Instr(Plain("EndOnSetupSuccess"), << >>)>>

SetsVersions ==
  <<Instr(LoadVersion(2), << >>), Instr(LoadVersion(3), << >>),
    Instr(Plain("BeginBuildSetupConnection"), << >>), Instr(Plain("SetVersions"), <<3, 1, 2>>),
    Instr(P("EndBuildSetupConnection"), <<3>>)>>

Waits == <<Instr(Plain("LoadDuration"), << >>), Instr(Plain("AdvanceTime"), <<1>>)>>

MCCorpus ==
  <<[program |-> << >>, scheduled |-> TRUE], [program |-> Guarded, scheduled |-> TRUE],
    [program |-> SetsVersions, scheduled |-> TRUE], [program |-> Waits, scheduled |-> FALSE]>>
=============================================================================
