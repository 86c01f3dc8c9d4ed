------------------------------ MODULE MCHarness -----------------------------
(***************************************************************************)
(* Whole executions of short programs put together from fragments: open a  *)
(* connection, set one up, put a raw frame on it, do either only once the  *)
(* last setup succeeded, probe, wait.                                      *)
(***************************************************************************)
EXTENDS Harness, StaticValidity

MCProtocols == {"Mining", "JobDeclaration"}
MCVersions  == {2, 3}
MCFlags     == {"rolling"}

Do(op, inputs) == [inputs |-> inputs, operation |-> op]
P(name)        == WithProtocol(name, "Mining")

\* v1 a role, v2 bytes, v3 a duration, v4 and v5 versions, v6 flags, v7 the message under
\* construction, v8 the finished message, v9 the first connection.
Opening ==
  <<Do(LoadRole(0), << >>), Do(Plain("LoadBytes"), << >>), Do(Plain("LoadDuration"), << >>),
    Do(LoadVersion(2), << >>), Do(LoadVersion(3), << >>), Do(LoadFlags({"rolling"}), << >>),
    Do(Plain("BeginBuildSetupConnection"), << >>), Do(Plain("SetVersions"), <<7, 4, 5>>),
    Do(Plain("SetFlags"), <<7, 6>>), Do(P("EndBuildSetupConnection"), <<7>>),
    Do(Plain("Connect"), <<1>>)>>

\* What a fragment appends to p: the program so far, its variables, its latest connection and
\* its latest setup that is in scope.
Extended(p, fragment) ==
  LET setup == Do(P("SendSetupConnection"), <<p.connection, 8>>)
      raw   == Do(Plain("SendRawFrame"), <<p.connection, 2>>)
      block(body) == <<Do(P("BeginOnSetupSuccess"), <<p.attempt>>), body,
                       Do(Plain("EndOnSetupSuccess"), << >>)>>
      adding(instrs, n) == [p EXCEPT !.text = @ \o instrs, !.variables = @ + n]
  IN CASE fragment = "connect" -> [adding(<<Do(Plain("Connect"), <<1>>)>>, 1) EXCEPT
                                     !.connection = p.variables + 1]
       [] fragment = "setup"   -> [adding(<<setup>>, 1) EXCEPT !.attempt = p.variables + 1]
       [] fragment = "raw"     -> adding(<<raw>>, 0)
       [] fragment = "probe"   -> adding(<<Do(Plain("Probe"), << >>)>>, 0)
       [] fragment = "wait"    -> adding(<<Do(Plain("AdvanceTime"), <<3>>)>>, 0)
       [] fragment = "guarded_setup" -> adding(block(setup), 2)
       [] fragment = "guarded_raw"   -> adding(block(raw), 1)

\* A conforming exchange; second setups, on the same connection and on another; a setup after
\* a raw frame; blocks that run or are skipped around what later actions depend on; probes
\* before, between and after.
Scripts ==
  {<<"setup", "probe">>,
   <<"probe", "setup", "wait", "probe">>,
   <<"raw", "setup", "setup">>,
   <<"setup", "guarded_setup", "probe">>,
   <<"setup", "guarded_raw", "setup">>,
   <<"setup", "connect", "guarded_raw", "setup">>,
   <<"setup", "connect", "setup", "probe">>}

MCPrograms ==
  {FoldLeft(Extended, [text |-> Opening, variables |-> 9, connection |-> 9, attempt |-> 0],
            fragments).text : fragments \in Scripts}

\* What reaches the scenario has passed is_statically_valid.
ASSUME ProgramsAreValid ==
  \A p \in MCPrograms : ValidProgram(p, NumRoles, NumConnections)

MCDeployments ==
  {<<[protocol |-> p, min_version |-> 2, max_version |-> 2]>> : p \in MCProtocols} \cup {<< >>}

MCMaxFrames == [any |-> 2, conforming |-> 3]

MCSuccesses ==
  {[version |-> 2, fixed |-> FALSE], [version |-> 2, fixed |-> TRUE],
   [version |-> 3, fixed |-> FALSE]}
=============================================================================
