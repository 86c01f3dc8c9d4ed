-------------------------- MODULE BuilderReference --------------------------
(***************************************************************************)
(* The builder held against two other accounts of the same program: what   *)
(* its text makes valid (StaticValidity), and the builder from_prefix      *)
(* replays from it (Replay).                                               *)
(***************************************************************************)
EXTENDS ProgramBuilder, StaticValidity, Replay

\* The builder accepts exactly what the text of the program makes valid: an instruction is
\* accepted if and only if the program with it appended is a valid prefix, and finalize hands
\* out a program if and only if it is valid with every block closed (builder.rs:121-217 and
\* 261-273), whatever was refused before; a builder that refused a block end for the block it
\* would have closed excepted (builder.rs:156).
AcceptsExactlyValid ==
  ~popped =>
    /\ \A i \in Instructions :
         Accepts(i) <=> ValidInstruction(Append(instructions, i), Len(instructions) + 1,
                                         NumRoles, NumConnections)
    /\ result = "finalized" => ValidProgram(instructions, NumRoles, NumConnections)
    /\ result = "UnfinishedBlock" => ~ValidProgram(instructions, NumRoles, NumConnections)

\* from_prefix rebuilds the state the program is in (builder.rs:59-72, "Rebuild the state a
\* program is in after the given instructions"): replaying what a builder has accepted gives
\* that builder, its scopes open, its variables numbered and scoped alike, so that what append
\* refused, and the caller went on after, has left no trace; and a program it hands out is what
\* validation then accepts.  One refusal does leave a trace: of a block end for the block it
\* would have closed, whose scope is popped before the blocks are compared (builder.rs:156).
FromPrefixRebuilds ==
  LET b == FromPrefix(instructions)
  IN ~popped =>
     /\ b.accepted
     /\ b.scopes = active_scopes
     /\ b.counter = scope_counter
     /\ b.variables = variables
     /\ result \in {"finalized", "UnfinishedBlock"} =>
          (Validates(instructions) <=> result = "finalized")
=============================================================================
