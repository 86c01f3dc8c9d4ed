--------------------------- MODULE ProgramBuilder ---------------------------
(***************************************************************************)
(* The program builder (crates/stratamoto-ir/src/builder.rs): it takes     *)
(* instructions one at a time, keeps the stack of open scopes and the      *)
(* variables each scope defined, rejects an instruction whose inputs are   *)
(* not defined, not in scope or of the wrong type, and hands the finished  *)
(* program out in finalize.                                                *)
(*                                                                         *)
(* Indices start at 1 where the source's start at 0.  A scope's context    *)
(* (InstructionContext) is a function of the operation at its begin and is *)
(* not kept.  defined_at, closed_at and popped are history variables, with *)
(* no counterpart in the code: they record which instruction defined each  *)
(* variable, which one closed each scope, and whether a block end that was *)
(* not accepted has taken a scope off the stack.                           *)
(***************************************************************************)
EXTENDS IR, SequencesExt

CONSTANTS
  Instructions,     \* the instructions a caller may try to append
  MaxInstructions   \* bound on the length of a program

ASSUME InstructionsAssumption == Instructions \subseteq Instruction
ASSUME BoundAssumption        == MaxInstructions \in Nat

VARIABLES
  active_scopes,      \* the open scopes, the global one first
  active_scopes_set,  \* their ids
  scope_counter,      \* the last scope id given out
  variables,          \* the variables defined, each with the scope it belongs to
  instructions,       \* the instructions accepted
  result,             \* "open", or what the last call made of the builder
  defined_at,         \* history: the instruction that defined each variable
  closed_at,          \* history: the instruction that closed each scope, 0 while it is open
  popped              \* history: a block end not accepted has exited a scope

history == <<defined_at, closed_at, popped>>
vars == <<active_scopes, active_scopes_set, scope_counter, variables, instructions,
          result, history>>

None == 0   \* the begin of the global scope
Dead == 0   \* the scope of a nop's variables, which is never active

Errors == {"InvalidNumberOfInputs", "VariableNotDefined", "InvalidVariableType",
           "RoleNotFound", "ConnectionNotFound", "InvalidBlockEnd", "UnfinishedBlock"}

\* Mutant: new does not enter the global scope.
InitWithoutGlobalScope ==
  /\ scope_counter = 0
  /\ active_scopes = << >>
  /\ active_scopes_set = {}
  /\ variables = << >>
  /\ instructions = << >>
  /\ result = "open"
  /\ defined_at = << >>
  /\ closed_at = << >>
  /\ popped = FALSE

\* new: one open scope, the global one.
Init ==
  /\ scope_counter = 1
  /\ active_scopes = <<[begin |-> None, id |-> 1]>>
  /\ active_scopes_set = {1}
  /\ variables = << >>
  /\ instructions = << >>
  /\ result = "open"
  /\ defined_at = << >>
  /\ closed_at = <<0>>
  /\ popped = FALSE

-----------------------------------------------------------------------------
(* The checks append makes, in the order it makes them. *)

CountOK(i) == Len(i.inputs) = Len(InputVariables(i.operation))

\* Mutant: a variable stays usable after its scope has closed.
InScopeWhateverScope(v) == v \in DOMAIN variables

\* get_variable: an index names a variable when it is defined and its scope is open.
InScope(v) == v \in DOMAIN variables /\ variables[v].scope_id \in active_scopes_set

InputsInScope(i) == \A k \in DOMAIN i.inputs : InScope(i.inputs[k])

\* check_input_types
TypesOK(i) ==
  \A k \in DOMAIN i.inputs : variables[i.inputs[k]].var = InputVariables(i.operation)[k]

RoleOK(i) == i.operation.name = "LoadRole" => i.operation.index < NumRoles

ConnectionOK(i) == i.operation.name = "LoadConnection" => i.operation.index < NumConnections

InputsOK(i) == CountOK(i) /\ InputsInScope(i) /\ TypesOK(i) /\ RoleOK(i) /\ ConnectionOK(i)

\* The operation that opened the innermost scope, when it is not the global one.
Opener == instructions[Last(active_scopes).begin].operation

\* Mutant: any block end closes any block.
BlockEndOKWithoutMatch(i) == IsBlockEnd(i.operation) => Last(active_scopes).begin # None

\* The check that comes after the scope has been exited.
BlockEndOK(i) ==
  IsBlockEnd(i.operation) =>
    /\ Last(active_scopes).begin # None
    /\ IsMatchingBlockBegin(i.operation, Opener)

Accepts(i) == InputsOK(i) /\ BlockEndOK(i)

-----------------------------------------------------------------------------
(* append *)

Fail(error) ==
  /\ result' = error
  /\ UNCHANGED <<active_scopes, active_scopes_set, scope_counter, variables, instructions,
                 history>>

\* The early returns that leave the builder as it was.
AppendRejected(i) ==
  \/ ~CountOK(i) /\ Fail("InvalidNumberOfInputs")
  \/ CountOK(i) /\ ~InputsInScope(i) /\ Fail("VariableNotDefined")
  \/ CountOK(i) /\ InputsInScope(i) /\ ~TypesOK(i) /\ Fail("InvalidVariableType")
  \/ CountOK(i) /\ InputsInScope(i) /\ TypesOK(i) /\ ~RoleOK(i) /\ Fail("RoleNotFound")
  \/ CountOK(i) /\ InputsInScope(i) /\ TypesOK(i) /\ ~ConnectionOK(i)
       /\ Fail("ConnectionNotFound")

\* exit_scope: the innermost scope is popped, and is active no more.
ExitedScopes == Front(active_scopes)

\* Mutant: the popped scope stays in the set of active ones.
ExitedIdsKept == active_scopes_set

ExitedIds == active_scopes_set \ {Last(active_scopes).id}

\* A block end that does not match: the scope is exited before the check, so the error
\* returns with the innermost scope gone.
AppendBlockMismatch(i) ==
  /\ InputsOK(i)
  /\ IsBlockEnd(i.operation)
  /\ Last(active_scopes).begin # None
  /\ ~IsMatchingBlockBegin(i.operation, Opener)
  /\ active_scopes' = ExitedScopes
  /\ active_scopes_set' = ExitedIds
  /\ result' = "InvalidBlockEnd"
  /\ popped' = TRUE
  /\ UNCHANGED <<scope_counter, variables, instructions, defined_at, closed_at>>

\* A block end with only the global scope open: it is exited, and then its absent begin is
\* unwrapped.
AppendPanic(i) ==
  /\ InputsOK(i)
  /\ IsBlockEnd(i.operation)
  /\ Last(active_scopes).begin = None
  /\ active_scopes' = ExitedScopes
  /\ active_scopes_set' = ExitedIds
  /\ result' = "panicked"
  /\ popped' = TRUE
  /\ UNCHANGED <<scope_counter, variables, instructions, defined_at, closed_at>>

\* An accepted instruction: a block end leaves its scope, outputs belong to the scope then
\* current, a block beginning enters a new one, and inner outputs belong to that.
AppendAccepted(i) ==
  LET op       == i.operation
      at       == Len(instructions) + 1
      exits    == IsBlockEnd(op)
      enters   == IsBlockBegin(op)
      scopes   == IF exits THEN ExitedScopes ELSE active_scopes
      ids      == IF exits THEN ExitedIds ELSE active_scopes_set
      entered  == scope_counter + 1
      outer    == IF IsNop(op) THEN Dead ELSE Last(scopes).id
      inner    == IF IsNop(op) THEN Dead
                  ELSE IF enters THEN entered ELSE scope_counter
      outputs  == [k \in DOMAIN OutputVariables(op) |->
                     [var |-> OutputVariables(op)[k], scope_id |-> outer]]
      inners   == [k \in DOMAIN InnerOutputVariables(op) |->
                     [var |-> InnerOutputVariables(op)[k], scope_id |-> inner]]
  IN /\ Len(instructions) < MaxInstructions
     /\ Accepts(i)
     /\ active_scopes' = IF enters THEN Append(scopes, [begin |-> at, id |-> entered])
                                   ELSE scopes
     /\ active_scopes_set' = IF enters THEN ids \cup {entered} ELSE ids
     /\ scope_counter' = IF enters THEN entered ELSE scope_counter
     /\ variables' = variables \o (outputs \o inners)
     /\ instructions' = Append(instructions, i)
     /\ result' = "open"
     /\ defined_at' = defined_at \o [k \in 1..(Len(outputs) + Len(inners)) |-> at]
     /\ closed_at' = IF exits THEN [closed_at EXCEPT ![Last(active_scopes).id] = at]
                     ELSE IF enters THEN Append(closed_at, 0) ELSE closed_at
     /\ UNCHANGED popped

\* Mutant: finalize does not look for an open block.
FinalizeUnchecked ==
  /\ result' = "finalized"
  /\ UNCHANGED <<active_scopes, active_scopes_set, scope_counter, variables, instructions,
                 history>>

\* finalize: refused while the innermost scope is a block's.
Finalize ==
  /\ result' = IF active_scopes # << >> /\ Last(active_scopes).begin # None
                 THEN "UnfinishedBlock" ELSE "finalized"
  /\ UNCHANGED <<active_scopes, active_scopes_set, scope_counter, variables, instructions,
                 history>>

AppendInstruction(i) ==
  \/ AppendRejected(i)
  \/ AppendBlockMismatch(i)
  \/ AppendPanic(i)
  \/ AppendAccepted(i)

AppendCall == \E i \in Instructions : AppendInstruction(i)

-----------------------------------------------------------------------------
(* Every caller in the repository propagates an error of append and drops  *)
(* the builder with it; finalize consumes the builder.                     *)

Next == result = "open" /\ (AppendCall \/ Finalize)

Spec == Init /\ [][Next]_vars

\* A caller that keeps using the builder after append refused an instruction, which its
\* signature (&mut self) allows.
ReuseNext == result \notin {"finalized", "UnfinishedBlock", "panicked"}
               /\ (AppendCall \/ Finalize)

ReuseSpec == Init /\ [][ReuseNext]_vars

-----------------------------------------------------------------------------
(* Properties. *)

Scope == [begin : Nat, id : Nat \ {0}]

TypeOK ==
  /\ active_scopes \in Seq(Scope)
  /\ active_scopes_set \in SUBSET Nat
  /\ scope_counter \in Nat \ {0}
  /\ variables \in Seq([var : Variable, scope_id : Nat])
  /\ instructions \in Seq(Instruction)
  /\ result \in {"open", "finalized", "panicked"} \cup Errors
  /\ defined_at \in Seq(Nat)
  /\ closed_at \in Seq(Nat)
  /\ popped \in BOOLEAN

\* Single assignment, typed and scoped, for every instruction the builder has accepted and
\* however long ago: each input names a variable that an earlier instruction defined, of the
\* type the operation consumes, in a scope that no earlier instruction had closed.  The
\* checks that should secure it ran when the instruction was appended (builder.rs:125-143);
\* what must hold is that nothing appended since, no scope entered or exited, no variable
\* added, makes it false.
StaticallyValid ==
  \A k \in DOMAIN instructions : \A j \in DOMAIN instructions[k].inputs :
    LET v == instructions[k].inputs[j]
    IN /\ v \in DOMAIN variables
       /\ defined_at[v] < k
       /\ variables[v].var = InputVariables(instructions[k].operation)[j]
       /\ variables[v].scope_id \in DOMAIN closed_at
       /\ closed_at[variables[v].scope_id] \notin 1..(k - 1)

\* What leaves finalize has no block left open: every scope ever entered, the global one
\* excepted, was closed by an accepted block end (builder.rs:28-29, "Every program that
\* leaves ProgramBuilder::finalize is statically valid"), whatever append has refused on the
\* way.  The one exception is a builder that refused a block end for the block it would have
\* closed: that block's scope is gone from the stack (builder.rs:156), and finalize does not
\* see the block.
FinalizedIsClosed ==
  result = "finalized" /\ ~popped => \A s \in 2..scope_counter : closed_at[s] # 0

\* The set of active scopes, which decides what is in scope, and the stack of them, which
\* decides what a block end closes, never come apart, after refused appends either: the set
\* holds exactly the scopes on the stack, which are exactly the scopes not closed yet, the
\* builder that refused a block end for its block excepted (builder.rs:156).
ScopesAgree ==
  ~popped =>
    /\ active_scopes_set = {active_scopes[d].id : d \in DOMAIN active_scopes}
    /\ active_scopes_set = {s \in DOMAIN closed_at : closed_at[s] = 0}
=============================================================================
