---------------------------- MODULE MCMinimizers ----------------------------
(***************************************************************************)
(* Short entries: a block with nothing outside it depending on it, nested  *)
(* and adjacent blocks, values some of which are used, and a nop.          *)
(***************************************************************************)
EXTENDS Minimizers

MCProtocols == {"Mining"}
MCVersions  == {2}
MCFlags     == {"rolling"}

Do(op, inputs) == [inputs |-> inputs, operation |-> op]
P(name)        == WithProtocol(name, "Mining")

Build(m) ==
  <<Do(Plain("BeginBuildSetupConnection"), << >>), Do(P("EndBuildSetupConnection"), <<m>>)>>

Probe == <<Do(Plain("Probe"), << >>)>>

\* Two messages built, the second sent.
Sends ==
  <<Do(LoadRole(0), << >>)>> \o Build(2) \o Build(4)
    \o <<Do(Plain("Connect"), <<1>>), Do(P("SendSetupConnection"), <<6, 5>>)>>

\* A frame sent only once a setup succeeded, and a value nothing uses.
Guarded ==
  <<Do(LoadRole(0), << >>), Do(Plain("Connect"), <<1>>)>> \o Build(3)
    \o <<Do(P("SendSetupConnection"), <<2, 4>>), Do(Plain("LoadBytes"), << >>),
         Do(P("BeginOnSetupSuccess"), <<5>>), Do(Plain("SendRawFrame"), <<2, 6>>),
         Do(Plain("EndOnSetupSuccess"), << >>)>>

\* A block that sets what it builds, with a nop before it.
SetsFlags ==
  <<Do(Nop(1, 0), << >>), Do(LoadFlags({"rolling"}), << >>),
    Do(Plain("BeginBuildSetupConnection"), << >>), Do(Plain("SetFlags"), <<3, 2>>),
    Do(P("EndBuildSetupConnection"), <<3>>)>>

Waits == <<Do(Plain("LoadDuration"), << >>), Do(Plain("AdvanceTime"), <<1>>)>> \o Probe

MCEntries == {Sends, Guarded, SetsFlags, Waits, Probe \o Probe}

\* Entries short enough for liveness, which takes TLC much longer per state.
MCShortEntries == {SetsFlags, Waits, Probe \o Probe}
=============================================================================
