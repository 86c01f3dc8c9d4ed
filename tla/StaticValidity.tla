--------------------------- MODULE StaticValidity ---------------------------
(***************************************************************************)
(* What it means for a program to be statically valid, defined on the text *)
(* of the program alone: blocks are matched by counting, and a variable is *)
(* visible where its block is still open.  No scope ids, no stack.  The    *)
(* builder is checked against it.                                          *)
(***************************************************************************)
EXTENDS IR, Integers, FiniteSetsExt

\* How many blocks are open after the first k instructions of p.
Depth(p, k) ==
  Cardinality({j \in 1..k : IsBlockBegin(p[j].operation)})
    - Cardinality({j \in 1..k : IsBlockEnd(p[j].operation)})

\* Whether the block begun at b is still open after the first k instructions.
StillOpen(p, b, k) == \A j \in b..k : Depth(p, j) >= Depth(p, b)

\* The innermost block open after the first k instructions, 0 for none.
Enclosing(p, k) ==
  LET open == {b \in 1..k : IsBlockBegin(p[b].operation) /\ StillOpen(p, b, k)}
  IN IF open = {} THEN 0 ELSE Max(open)

Defines(op) == Len(OutputVariables(op)) + Len(InnerOutputVariables(op))

\* The variables the instructions before the k-th define, each as its definer and which of the
\* definer's variables it is.
SlotsBefore(p, k) == UNION {{j} \X (1..Defines(p[j].operation)) : j \in 1..(k - 1)}

DefinedBefore(p, k) == Cardinality(SlotsBefore(p, k))

\* The instruction that defines variable v.
DefinerOf(p, v) ==
  CHOOSE d \in 1..Len(p) : v \in (DefinedBefore(p, d) + 1)..DefinedBefore(p, d + 1)

\* Whether v is one of the variables a block beginning defines inside its block.
IsInner(p, v) ==
  LET d == DefinerOf(p, v)
  IN v > DefinedBefore(p, d) + Len(OutputVariables(p[d].operation))

TypeOf(p, v) ==
  LET d == DefinerOf(p, v)
      n == v - DefinedBefore(p, d)
  IN (OutputVariables(p[d].operation) \o InnerOutputVariables(p[d].operation))[n]

\* The block v can be used in, 0 for the whole program.
HomeOf(p, v) ==
  LET d == DefinerOf(p, v)
  IN IF IsInner(p, v) THEN d
     ELSE IF IsBlockBegin(p[d].operation) THEN Enclosing(p, d - 1) ELSE Enclosing(p, d)

Visible(p, v, k) ==
  /\ v \in 1..DefinedBefore(p, k)
  /\ ~IsNop(p[DefinerOf(p, v)].operation)
  /\ HomeOf(p, v) # 0 => StillOpen(p, HomeOf(p, v), k - 1)

ValidInstruction(p, k, roles, connections) ==
  LET op == p[k].operation
      in == p[k].inputs
  IN /\ Len(in) = Len(InputVariables(op))
     /\ \A j \in DOMAIN in : Visible(p, in[j], k) /\ TypeOf(p, in[j]) = InputVariables(op)[j]
     /\ op.name = "LoadRole" => op.index < roles
     /\ op.name = "LoadConnection" => op.index < connections
     /\ IsBlockEnd(op) => /\ Enclosing(p, k - 1) # 0
                          /\ IsMatchingBlockBegin(op, p[Enclosing(p, k - 1)].operation)

ValidPrefix(p, roles, connections) ==
  \A k \in DOMAIN p : ValidInstruction(p, k, roles, connections)

ValidProgram(p, roles, connections) ==
  ValidPrefix(p, roles, connections) /\ Depth(p, Len(p)) = 0
=============================================================================
