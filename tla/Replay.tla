------------------------------- MODULE Replay -------------------------------
(***************************************************************************)
(* from_prefix (crates/stratamoto-ir/src/builder.rs): the builder as a     *)
(* function of the instructions it is replayed through, which is how a     *)
(* mutator asks what is in scope at the point it rewrites.  That it is the *)
(* builder ProgramBuilder describes step by step is checked there.         *)
(***************************************************************************)
EXTENDS IR, SequencesExt

\* A builder: accepted tells whether every instruction so far was.
NewBuilder ==
  [accepted |-> TRUE, scopes |-> <<[begin |-> 0, id |-> 1]>>, counter |-> 1,
   variables |-> << >>]

ActiveIds(b) == {b.scopes[d].id : d \in DOMAIN b.scopes}

\* get_variable
VisibleTo(b, v) == v \in DOMAIN b.variables /\ b.variables[v].scope_id \in ActiveIds(b)

\* get_random_variable: the variables it draws from.
VisibleOfType(b, type) == {v \in DOMAIN b.variables : VisibleTo(b, v) /\ b.variables[v].var = type}

\* Whether the builder that went through the first k - 1 instructions of p accepts the k-th.
\* A block end with no block open, on which append panics, is not accepted.
Appendable(b, p, k) ==
  LET op == p[k].operation
      in == p[k].inputs
  IN /\ Len(in) = Len(InputVariables(op))
     /\ \A j \in DOMAIN in :
          VisibleTo(b, in[j]) /\ b.variables[in[j]].var = InputVariables(op)[j]
     /\ op.name = "LoadRole" => op.index < NumRoles
     /\ op.name = "LoadConnection" => op.index < NumConnections
     /\ IsBlockEnd(op) => /\ Last(b.scopes).begin # 0
                          /\ IsMatchingBlockBegin(op, p[Last(b.scopes).begin].operation)

Scoped(types, id) == [n \in DOMAIN types |-> [var |-> types[n], scope_id |-> id]]

\* Mutant: what a block defines inside itself is left in the scope around it.
AppendedInnerOutside(b, p, k) ==
  LET op      == p[k].operation
      scopes  == IF IsBlockEnd(op) THEN Front(b.scopes) ELSE b.scopes
      counter == IF IsBlockBegin(op) THEN b.counter + 1 ELSE b.counter
      outer   == IF IsNop(op) THEN 0 ELSE Last(scopes).id
  IN [b EXCEPT !.scopes    = IF IsBlockBegin(op)
                               THEN Append(scopes, [begin |-> k, id |-> counter]) ELSE scopes,
               !.counter   = counter,
               !.variables = @ \o Scoped(OutputVariables(op), outer)
                               \o Scoped(InnerOutputVariables(op), outer)]

\* The builder with the k-th instruction of p appended.
Appended(b, p, k) ==
  LET op      == p[k].operation
      scopes  == IF IsBlockEnd(op) THEN Front(b.scopes) ELSE b.scopes
      counter == IF IsBlockBegin(op) THEN b.counter + 1 ELSE b.counter
      outer   == IF IsNop(op) THEN 0 ELSE Last(scopes).id
      inner   == IF IsNop(op) THEN 0 ELSE counter
  IN [b EXCEPT !.scopes    = IF IsBlockBegin(op)
                               THEN Append(scopes, [begin |-> k, id |-> counter]) ELSE scopes,
               !.counter   = counter,
               !.variables = @ \o Scoped(OutputVariables(op), outer)
                               \o Scoped(InnerOutputVariables(op), inner)]

\* The builder after it was offered the k-th instruction of p: the first refusal is the last call.
Stepped(b, p, k) ==
  IF ~b.accepted THEN b
  ELSE IF Appendable(b, p, k) THEN Appended(b, p, k)
  ELSE [b EXCEPT !.accepted = FALSE]

\* The builder after each prefix of p.
Builders(p) ==
  LET after[k \in 0..Len(p)] ==
        IF k = 0 THEN NewBuilder ELSE Stepped(after[k - 1], p, k)
  IN after

FromPrefix(p) == Builders(p)[Len(p)]

\* is_statically_valid: every instruction is accepted and finalize finds no block open.
\* (q is there for TLC to evaluate p once only.)
Validates(p) ==
  \E q \in {p} : LET b == FromPrefix(q) IN b.accepted /\ Last(b.scopes).begin = 0
=============================================================================
