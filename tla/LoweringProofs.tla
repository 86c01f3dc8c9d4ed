--------------------------- MODULE LoweringProofs ---------------------------
(***************************************************************************)
(* The builder, and what it hands out compiled (Lowering), for every set   *)
(* of instructions offered and programs of any length.                     *)
(*                                                                         *)
(* The builder alone.  ReuseInv holds of every builder, one whose caller   *)
(* went on after an error included, and is enough for the validity of what *)
(* has been accepted.  Inv adds what holds until a block end is refused for*)
(* the block it would have closed, which pops a scope all the same: the    *)
(* stack of scopes and the scopes not closed agree, so that finalize sees  *)
(* every open block.  With ReplayProofs, the builder is the one from_prefix*)
(* makes of its program, and accepts exactly the instructions that keep    *)
(* the program valid.  A caller that stops at the first error never uses a *)
(* builder with a scope popped so.                                         *)
(*                                                                         *)
(* What the builder hands out, compiled (Lowering): every value is that of *)
(* its variable, nothing but a string too long fails, blocks are closed    *)
(* and the metadata names its source.                                      *)
(*                                                                         *)
(* The builder's half follows the histories: Laid says which variables an  *)
(* accepted instruction defined, Guarding which scope a session belongs to *)
(* and which instruction closed it.  The compiler's half follows the       *)
(* compiler through the program: what it has defined are the variables of  *)
(* the instructions behind it (Mirrored), and the blocks it has open are   *)
(* the sessions whose scope is closed by an instruction still to come.     *)
(***************************************************************************)
EXTENDS Lowering, BuilderReference, ReplayProofs, CompilerProofs

Defined == [var : Variable, scope_id : Nat]

\* The histories keep step with the code's state and speak of instructions accepted.
HistoryOK ==
  /\ Len(defined_at) = Len(variables)
  /\ Len(closed_at) = scope_counter
  /\ \A v \in DOMAIN variables : defined_at[v] <= Len(instructions)
  /\ \A s \in DOMAIN closed_at : closed_at[s] <= Len(instructions)

\* What is active has not been closed.
ActiveAreOpen == \A s \in active_scopes_set : s \in 1..scope_counter /\ closed_at[s] = 0

\* The global scope is at the bottom of the stack.
GlobalFirst == result # "panicked" => active_scopes # << >> /\ active_scopes[1].begin = None

ReuseInv == TypeOK /\ HistoryOK /\ ActiveAreOpen /\ GlobalFirst /\ StaticallyValid

-----------------------------------------------------------------------------
(* What an accepted instruction does, case by case. *)

\* Tagging the elements of a sequence of variables with a scope.
LEMMA Tagged ==
  ASSUME NEW vs \in Seq(Variable), NEW id \in Nat
  PROVE  /\ [k \in DOMAIN vs |-> [var |-> vs[k], scope_id |-> id]] \in Seq(Defined)
         /\ Len([k \in DOMAIN vs |-> [var |-> vs[k], scope_id |-> id]]) = Len(vs)
<1>1. Len(vs) \in Nat /\ DOMAIN vs = 1..Len(vs)
  BY LenProperties
<1>2. \A k \in 1..Len(vs) : [var |-> vs[k], scope_id |-> id] \in Defined
  BY ElementOfSeq DEF Defined
<1>3. QED
  BY <1>1, <1>2, IsASeq

\* The variables an operation defines, in the order they are numbered.
DefinedTypes(op) == OutputVariables(op) \o InnerOutputVariables(op)

\* The variables an accepted instruction adds, all defined by it, and those of a block in the
\* scope it opens (builder.rs:173-205).
LEMMA AcceptedDefines ==
  ASSUME TypeOK, GlobalFirst, result # "panicked",
         NEW i \in Instruction, AppendAccepted(i)
  PROVE  \E added \in Seq(Defined) :
           /\ variables' = variables \o added
           /\ defined_at' = defined_at \o [k \in 1..Len(added) |-> Len(instructions) + 1]
           /\ Len(added) = Len(DefinedTypes(i.operation))
           /\ \A j \in 1..Len(added) : added[j].var = DefinedTypes(i.operation)[j]
           /\ IsBlockBegin(i.operation) =>
                \A j \in 1..Len(added) : added[j].scope_id = scope_counter + 1
<1> DEFINE op      == i.operation
           scopes  == IF IsBlockEnd(op) THEN ExitedScopes ELSE active_scopes
           outer   == IF IsNop(op) THEN Dead ELSE Last(scopes).id
           inner   == IF IsNop(op) THEN Dead
                      ELSE IF IsBlockBegin(op) THEN scope_counter + 1 ELSE scope_counter
           outputs == [k \in DOMAIN OutputVariables(op) |->
                         [var |-> OutputVariables(op)[k], scope_id |-> outer]]
           inners  == [k \in DOMAIN InnerOutputVariables(op) |->
                         [var |-> InnerOutputVariables(op)[k], scope_id |-> inner]]
<1>1. op \in Operation
  BY DEF Instruction
<1>2. scopes \in Seq(Scope) /\ scopes # << >>
  <2>1. active_scopes \in Seq(Scope) /\ active_scopes # << >> /\ active_scopes[1].begin = None
    BY DEF TypeOK, GlobalFirst
  <2>2. CASE IsBlockEnd(op)
    <3>1. Last(active_scopes).begin # None
      BY <2>2 DEF AppendAccepted, Accepts, BlockEndOK
    <3>2. Len(active_scopes) \in Nat /\ Len(active_scopes) # 1 /\ Len(active_scopes) # 0
      BY <2>1, <3>1 DEF Last
    <3>3. Front(active_scopes) \in Seq(Scope) /\ Len(Front(active_scopes)) = Len(active_scopes) - 1
      BY <2>1, FrontProperties
    <3>4. QED
      BY <2>2, <3>2, <3>3 DEF ExitedScopes
  <2>3. CASE ~IsBlockEnd(op)
    BY <2>1, <2>3
  <2>4. QED
    BY <2>2, <2>3
<1>3. outer \in Nat /\ inner \in Nat
  <2>1. Last(scopes) \in Scope
    BY <1>2 DEF Last
  <2>2. QED
    BY <2>1 DEF Scope, Dead, TypeOK
<1>4. outputs \in Seq(Defined) /\ Len(outputs) = Len(OutputVariables(op))
  <2>1. OutputVariables(op) \in Seq(Variable)
    BY <1>1, OutputsTyped
  <2> HIDE DEF outer
  <2>2. QED
    BY <1>3, <2>1, Tagged
<1>5. inners \in Seq(Defined) /\ Len(inners) = Len(InnerOutputVariables(op))
  <2>1. InnerOutputVariables(op) \in Seq(Variable)
    BY <1>1, OutputsTyped
  <2> HIDE DEF inner
  <2>2. QED
    BY <1>3, <2>1, Tagged
<1>6. /\ variables' = variables \o (outputs \o inners)
      /\ defined_at' = defined_at \o
           [k \in 1..(Len(outputs) + Len(inners)) |-> Len(instructions) + 1]
  BY DEF AppendAccepted
<1> DEFINE outs == OutputVariables(op)
           ins  == InnerOutputVariables(op)
<1>7. /\ outs \in Seq(Variable) /\ ins \in Seq(Variable)
      /\ DOMAIN outs = 1..Len(outs) /\ DOMAIN ins = 1..Len(ins)
  BY <1>1, OutputsTyped, LenProperties
<1>8. \A k \in 1..Len(outs) : outputs[k].var = outs[k]
  BY <1>7
<1>9. \A k \in 1..Len(ins) : inners[k].var = ins[k] /\ inners[k].scope_id = inner
  BY <1>7
<1>10. IsBlockBegin(op) => Len(outs) = 0 /\ inner = scope_counter + 1
  BY DEF IsBlockBegin, IsNop, OutputVariables
<1> DEFINE added == outputs \o inners
           types == outs \o ins
<1> HIDE DEF outputs, inners, outs, ins, inner
<1>11. /\ added \in Seq(Defined) /\ Len(added) = Len(outputs) + Len(inners)
       /\ \A j \in 1..(Len(outputs) + Len(inners)) :
            added[j] = IF j <= Len(outputs) THEN outputs[j] ELSE inners[j - Len(outputs)]
  BY <1>4, <1>5, ConcatProperties
<1>12. /\ Len(types) = Len(outs) + Len(ins) /\ Len(outs) \in Nat /\ Len(ins) \in Nat
       /\ \A j \in 1..(Len(outs) + Len(ins)) :
            types[j] = IF j <= Len(outs) THEN outs[j] ELSE ins[j - Len(outs)]
  BY <1>7, ConcatProperties
<1>13. Len(outputs) = Len(outs) /\ Len(inners) = Len(ins)
  BY <1>4, <1>5 DEF outs, ins
<1>14. types = DefinedTypes(op)
  BY DEF DefinedTypes, outs, ins
<1> HIDE DEF added, types
<1>15. ASSUME NEW j \in 1..Len(added)
       PROVE  added[j].var = types[j] /\ (IsBlockBegin(op) => added[j].scope_id = scope_counter + 1)
  <2>1. j \in Nat /\ 1 <= j /\ j <= Len(outs) + Len(ins)
    BY <1>11, <1>12, <1>13
  <2>2. CASE j <= Len(outs)
    BY <1>8, <1>10, <1>11, <1>12, <1>13, <2>1, <2>2
  <2>3. CASE ~(j <= Len(outs))
    <3>1. j - Len(outs) \in 1..Len(ins)
      BY <1>12, <2>1, <2>3
    <3>2. added[j] = inners[j - Len(outs)] /\ types[j] = ins[j - Len(outs)]
      BY <1>11, <1>12, <1>13, <2>1, <2>3
    <3>3. QED
      BY <1>9, <1>10, <3>1, <3>2
  <2>4. QED
    BY <2>2, <2>3
<1>16. /\ variables' = variables \o added
       /\ defined_at' = defined_at \o [k \in 1..Len(added) |-> Len(instructions) + 1]
  BY <1>6, <1>11 DEF added
<1>17. QED
  BY <1>11, <1>12, <1>13, <1>14, <1>15, <1>16

\* What an accepted instruction does to the scopes (builder.rs:155-190).
LEMMA AcceptedScopes ==
  ASSUME NEW i, AppendAccepted(i)
  PROVE  \/ /\ IsBlockEnd(i.operation)
            /\ Last(active_scopes).begin # None /\ IsMatchingBlockBegin(i.operation, Opener)
            /\ active_scopes' = Front(active_scopes)
            /\ active_scopes_set' = active_scopes_set \ {Last(active_scopes).id}
            /\ scope_counter' = scope_counter
            /\ closed_at' = [closed_at EXCEPT ![Last(active_scopes).id] = Len(instructions) + 1]
         \/ /\ IsBlockBegin(i.operation)
            /\ active_scopes' = Append(active_scopes, [begin |-> Len(instructions) + 1,
                                                       id |-> scope_counter + 1])
            /\ active_scopes_set' = active_scopes_set \cup {scope_counter + 1}
            /\ scope_counter' = scope_counter + 1
            /\ closed_at' = Append(closed_at, 0)
         \/ /\ ~IsBlockEnd(i.operation) /\ ~IsBlockBegin(i.operation)
            /\ UNCHANGED <<active_scopes, active_scopes_set, scope_counter, closed_at>>
<1>1. ~(IsBlockEnd(i.operation) /\ IsBlockBegin(i.operation))
  BY DEF IsBlockEnd, IsBlockBegin
<1>2. CASE IsBlockEnd(i.operation)
  BY <1>1, <1>2 DEF AppendAccepted, ExitedScopes, ExitedIds, Accepts, BlockEndOK
<1>3. CASE IsBlockBegin(i.operation)
  BY <1>1, <1>3 DEF AppendAccepted
<1>4. CASE ~IsBlockEnd(i.operation) /\ ~IsBlockBegin(i.operation)
  BY <1>4 DEF AppendAccepted
<1>5. QED
  BY <1>2, <1>3, <1>4

-----------------------------------------------------------------------------
(* ReuseInv is inductive. *)

\* A new builder (builder.rs:43-54) satisfies the invariant: nothing accepted, one scope open.
LEMMA ReuseInvInit == Init => ReuseInv
<1> SUFFICES ASSUME Init PROVE ReuseInv
  OBVIOUS
<1>1. TypeOK
  <2>1. popped \in BOOLEAN
    BY Zenon DEF Init
  <2>2. /\ active_scopes \in Seq(Scope) /\ active_scopes_set \in SUBSET Nat
        /\ scope_counter \in Nat \ {0}
        /\ variables \in Seq([var : Variable, scope_id : Nat]) /\ instructions \in Seq(Instruction)
        /\ result \in {"open", "finalized", "panicked"} \cup Errors
        /\ defined_at \in Seq(Nat) /\ closed_at \in Seq(Nat)
    BY DEF Init, Scope, None
  <2>3. QED
    BY <2>1, <2>2 DEF TypeOK
<1>2. HistoryOK /\ ActiveAreOpen
  BY DEF Init, HistoryOK, ActiveAreOpen
<1>3. GlobalFirst /\ StaticallyValid
  BY DEF Init, GlobalFirst, StaticallyValid
<1>4. QED
  BY <1>1, <1>2, <1>3 DEF ReuseInv

\* An error or finalize leaves everything but the result alone.
LEMMA OnlyResultChanges ==
  ASSUME ReuseInv, result # "panicked",
         result' \in ({"finalized"} \cup Errors),
         UNCHANGED <<active_scopes, active_scopes_set, scope_counter, variables, instructions,
                     history>>
  PROVE  ReuseInv'
<1>1. TypeOK'
  BY DEF ReuseInv, TypeOK, history
<1>2. HistoryOK' /\ ActiveAreOpen' /\ GlobalFirst'
  BY DEF ReuseInv, HistoryOK, ActiveAreOpen, GlobalFirst, history
<1>3. StaticallyValid'
  BY DEF ReuseInv, StaticallyValid, history
<1>4. QED
  BY <1>1, <1>2, <1>3 DEF ReuseInv

\* The early returns of append (builder.rs:125-153) leave the builder as it was.
LEMMA RejectedKeepsInv ==
  ASSUME ReuseInv, result # "panicked", NEW i, AppendRejected(i)
  PROVE  ReuseInv'
<1>1. /\ result' \in Errors
      /\ UNCHANGED <<active_scopes, active_scopes_set, scope_counter, variables, instructions,
                     history>>
  BY DEF AppendRejected, Fail, Errors
<1>2. QED
  BY <1>1, OnlyResultChanges

\* finalize (builder.rs:261-273) only reads the builder.
LEMMA FinalizeKeepsInv ==
  ASSUME ReuseInv, result # "panicked", Finalize
  PROVE  ReuseInv'
<1>1. /\ result' \in ({"finalized"} \cup Errors)
      /\ UNCHANGED <<active_scopes, active_scopes_set, scope_counter, variables, instructions,
                     history>>
  BY DEF Finalize, Errors
<1>2. QED
  BY <1>1, OnlyResultChanges

\* The scope is exited and the instruction is not taken.
LEMMA PoppedKeepsInv ==
  ASSUME ReuseInv, active_scopes # << >>,
         active_scopes' = ExitedScopes, active_scopes_set' = ExitedIds, popped' = TRUE,
         UNCHANGED <<scope_counter, variables, instructions, defined_at, closed_at>>,
         \/ result' = "panicked"
         \/ result' = "InvalidBlockEnd" /\ active_scopes[1].begin = None
              /\ Last(active_scopes).begin # None
  PROVE  ReuseInv'
<1>1. /\ active_scopes \in Seq(Scope) /\ Len(active_scopes) \in Nat
      /\ Front(active_scopes) \in Seq(Scope)
      /\ Len(Front(active_scopes)) = Len(active_scopes) - 1
      /\ \A k \in 1..(Len(active_scopes) - 1) : Front(active_scopes)[k] = active_scopes[k]
  BY FrontProperties DEF ReuseInv, TypeOK
<1>2. TypeOK'
  BY <1>1 DEF ReuseInv, TypeOK, ExitedScopes, ExitedIds, Errors
<1>3. HistoryOK' /\ ActiveAreOpen'
  BY DEF ReuseInv, HistoryOK, ActiveAreOpen, ExitedIds
<1>4. GlobalFirst'
  <2>1. CASE result' = "panicked"
    BY <2>1 DEF GlobalFirst
  <2>2. CASE active_scopes[1].begin = None /\ Last(active_scopes).begin # None
    <3>1. Len(active_scopes) # 1 /\ Len(active_scopes) # 0
      BY <1>1, <2>2 DEF Last
    <3>2. Front(active_scopes) # << >> /\ Front(active_scopes)[1] = active_scopes[1]
      BY <1>1, <3>1
    <3>3. QED
      BY <2>2, <3>2 DEF GlobalFirst, ExitedScopes
  <2>3. QED
    BY <2>1, <2>2
<1>5. StaticallyValid'
  BY DEF ReuseInv, StaticallyValid
<1>6. QED
  BY <1>2, <1>3, <1>4, <1>5 DEF ReuseInv

\* Appending a sequence all of whose elements are x.
LEMMA StampedAt ==
  ASSUME NEW s \in Seq(Nat), NEW x \in Nat, NEW t \in Seq(Nat),
         \A k \in 1..Len(t) : t[k] = x
  PROVE  /\ s \o t \in Seq(Nat)
         /\ Len(s \o t) = Len(s) + Len(t)
         /\ \A v \in 1..(Len(s) + Len(t)) : (s \o t)[v] = IF v <= Len(s) THEN s[v] ELSE x
<1>1. /\ s \o t \in Seq(Nat)
      /\ Len(s \o t) = Len(s) + Len(t)
      /\ \A v \in 1..(Len(s) + Len(t)) :
           (s \o t)[v] = IF v <= Len(s) THEN s[v] ELSE t[v - Len(s)]
  BY ConcatProperties
<1>2. Len(s) \in Nat /\ Len(t) \in Nat
  BY LenProperties
<1>3. \A v \in 1..(Len(s) + Len(t)) : ~(v <= Len(s)) => v - Len(s) \in 1..Len(t)
  BY <1>2
<1>4. QED
  BY <1>1, <1>3

\* The sequences of the state and the ranges of their elements.
LEMMA Ranges ==
  ASSUME ReuseInv
  PROVE  /\ Len(instructions) \in Nat
         /\ Len(variables) \in Nat /\ DOMAIN variables = 1..Len(variables)
         /\ variables \in Seq(Defined)
         /\ defined_at \in Seq(Nat) /\ Len(defined_at) = Len(variables)
         /\ \A v \in 1..Len(variables) :
              defined_at[v] \in Nat /\ defined_at[v] <= Len(instructions)
         /\ scope_counter \in Nat \ {0} /\ DOMAIN closed_at = 1..scope_counter
         /\ closed_at \in [1..scope_counter -> Nat]
         /\ closed_at \in Seq(Nat) /\ Len(closed_at) = scope_counter
         /\ \A s \in 1..scope_counter :
              closed_at[s] \in Nat /\ closed_at[s] <= Len(instructions)
<1>1. /\ variables \in Seq(Defined) /\ defined_at \in Seq(Nat) /\ closed_at \in Seq(Nat)
      /\ instructions \in Seq(Instruction) /\ scope_counter \in Nat \ {0}
      /\ Len(defined_at) = Len(variables) /\ Len(closed_at) = scope_counter
  BY DEF ReuseInv, TypeOK, HistoryOK, Defined
<1>2. /\ Len(instructions) \in Nat
      /\ Len(variables) \in Nat /\ DOMAIN variables = 1..Len(variables)
      /\ DOMAIN closed_at = 1..scope_counter /\ closed_at \in [1..scope_counter -> Nat]
      /\ defined_at \in [1..Len(variables) -> Nat]
  BY <1>1, LenProperties
<1>3. \A v \in 1..Len(variables) :
        defined_at[v] \in Nat /\ defined_at[v] <= Len(instructions)
  BY <1>2 DEF ReuseInv, HistoryOK
<1>4. \A s \in 1..scope_counter :
        closed_at[s] \in Nat /\ closed_at[s] <= Len(instructions)
  BY <1>2 DEF ReuseInv, HistoryOK
<1>5. QED
  BY <1>1, <1>2, <1>3, <1>4

\* An accepted instruction.  What it consumes is in scope, so its scope is not closed yet;
\* what it closes is closed at the instruction itself, later than anything accepted before.
LEMMA AcceptedKeepsInv ==
  ASSUME ReuseInv, result # "panicked", NEW i \in Instruction, AppendAccepted(i)
  PROVE  ReuseInv'
<1> DEFINE now == Len(instructions) + 1
<1>1. PICK added \in Seq(Defined) :
        /\ variables' = variables \o added
        /\ defined_at' = defined_at \o [k \in 1..Len(added) |-> now]
  BY AcceptedDefines DEF ReuseInv
<1>2. /\ instructions' = Append(instructions, i)
      /\ result' = "open"
      /\ Accepts(i)
  BY DEF AppendAccepted
<1>3. now \in Nat /\ instructions \in Seq(Instruction)
  BY DEF ReuseInv, TypeOK
<1>4. /\ instructions' \in Seq(Instruction)
      /\ Len(instructions') = now
      /\ instructions'[now] = i
      /\ \A k \in 1..Len(instructions) : instructions'[k] = instructions[k]
  BY <1>2, <1>3, AppendProperties
<1>5. Len(added) \in Nat
  BY LenProperties
<1>6. /\ variables' \in Seq(Defined)
      /\ Len(variables') = Len(variables) + Len(added)
      /\ \A v \in 1..Len(variables) : variables'[v] = variables[v]
  <2>1. variables \in Seq(Defined) /\ Len(variables) \in Nat
    BY DEF ReuseInv, TypeOK, Defined
  <2>2. QED
    BY <1>1, <1>5, <2>1, ConcatProperties
<1>7. /\ defined_at' \in Seq(Nat)
      /\ Len(defined_at') = Len(variables')
      /\ \A v \in 1..Len(variables) : defined_at'[v] = defined_at[v]
      /\ \A v \in 1..Len(variables') : defined_at'[v] <= now
  <2>1. /\ defined_at \in Seq(Nat) /\ Len(defined_at) = Len(variables)
        /\ Len(variables) \in Nat
        /\ \A v \in 1..Len(variables) : defined_at[v] \in Nat /\ defined_at[v] < now
    BY Ranges
  <2> HIDE DEF now
  <2>2. /\ defined_at' \in Seq(Nat)
        /\ Len(defined_at') = Len(defined_at) + Len(added)
        /\ \A v \in 1..(Len(defined_at) + Len(added)) :
             defined_at'[v] = IF v <= Len(defined_at) THEN defined_at[v] ELSE now
    <3> DEFINE t == [k \in 1..Len(added) |-> now]
    <3>1. t \in Seq(Nat) /\ Len(t) = Len(added) /\ \A k \in 1..Len(t) : t[k] = now
      BY <1>3, <1>5, IsASeq
    <3>2. defined_at' = defined_at \o t
      BY <1>1 DEF now
    <3> HIDE DEF t
    <3>3. /\ defined_at \o t \in Seq(Nat)
          /\ Len(defined_at \o t) = Len(defined_at) + Len(t)
          /\ \A v \in 1..(Len(defined_at) + Len(t)) :
               (defined_at \o t)[v] = IF v <= Len(defined_at) THEN defined_at[v] ELSE now
      BY <1>3, <2>1, <3>1, StampedAt
    <3>4. QED
      BY <3>1, <3>2, <3>3
  <2>3. Len(variables') = Len(variables) + Len(added)
    BY <1>6
  <2>4. \A v \in 1..Len(variables) : v \in 1..(Len(variables) + Len(added)) /\ v <= Len(variables)
    BY <1>5, <2>1
  <2>5. \A v \in 1..Len(variables) : defined_at'[v] = defined_at[v]
    BY <2>1, <2>2, <2>4
  <2>6. \A v \in 1..(Len(variables) + Len(added)) : defined_at'[v] <= now
    <3> SUFFICES ASSUME NEW v \in 1..(Len(variables) + Len(added)) PROVE defined_at'[v] <= now
      OBVIOUS
    <3>1. CASE v <= Len(variables)
      BY <1>3, <1>5, <2>1, <2>2, <3>1, SMTT(30)
    <3>2. CASE ~(v <= Len(variables))
      BY <1>3, <1>5, <2>1, <2>2, <3>2
    <3>3. QED
      BY <3>1, <3>2
  <2>7. QED
    BY <2>1, <2>2, <2>3, <2>5, <2>6
<1>8. /\ active_scopes' \in Seq(Scope)
      /\ active_scopes' # << >>
      /\ active_scopes'[1].begin = None
      /\ scope_counter' \in Nat \ {0}
      /\ active_scopes_set' \in SUBSET Nat
      /\ closed_at' \in Seq(Nat)
      /\ Len(closed_at') = scope_counter'
      /\ \A s \in active_scopes_set' : s \in 1..scope_counter' /\ closed_at'[s] = 0
      /\ \A s \in 1..scope_counter' : closed_at'[s] <= now
      /\ \A s \in 1..scope_counter : s \in 1..scope_counter' /\ closed_at'[s] \in {closed_at[s], now}
  <2>1. /\ active_scopes \in Seq(Scope) /\ active_scopes # << >>
        /\ active_scopes[1].begin = None
        /\ Len(active_scopes) \in Nat /\ Len(active_scopes) # 0
    BY DEF ReuseInv, TypeOK, GlobalFirst
  <2>2. /\ scope_counter \in Nat \ {0}
        /\ active_scopes_set \in SUBSET Nat
        /\ closed_at \in Seq(Nat) /\ Len(closed_at) = scope_counter
        /\ \A s \in active_scopes_set : s \in 1..scope_counter /\ closed_at[s] = 0
        /\ \A s \in 1..scope_counter : closed_at[s] \in Nat /\ closed_at[s] <= Len(instructions)
    BY Ranges DEF ReuseInv, TypeOK, ActiveAreOpen
  <2>3. CASE /\ Last(active_scopes).begin # None
             /\ active_scopes' = Front(active_scopes)
             /\ active_scopes_set' = active_scopes_set \ {Last(active_scopes).id}
             /\ scope_counter' = scope_counter
             /\ closed_at' = [closed_at EXCEPT ![Last(active_scopes).id] = now]
    <3>1. Len(active_scopes) > 1
      BY <2>1, <2>3 DEF Last
    <3>2. /\ active_scopes' \in Seq(Scope)
          /\ active_scopes' # << >>
          /\ active_scopes'[1].begin = None
      BY <2>1, <2>3, <3>1, FrontProperties
    <3>3. /\ closed_at' \in [1..scope_counter -> Nat]
          /\ \A s \in 1..scope_counter :
               closed_at'[s] = IF s = Last(active_scopes).id THEN now ELSE closed_at[s]
      BY <1>3, <2>3, Ranges
    <3>4. closed_at' \in Seq(Nat) /\ Len(closed_at') = scope_counter'
      BY <2>2, <2>3, <3>3, SeqDef
    <3>5. /\ \A s \in active_scopes_set' : s \in 1..scope_counter' /\ closed_at'[s] = 0
          /\ active_scopes_set' \in SUBSET Nat
      BY <2>2, <2>3, <3>3
    <3>6. \A s \in 1..scope_counter :
            closed_at'[s] <= now /\ closed_at'[s] \in {closed_at[s], now}
      BY <1>3, <2>2, <3>3
    <3>7. QED
      BY <2>2, <2>3, <3>2, <3>4, <3>5, <3>6
  <2>4. CASE /\ active_scopes' = Append(active_scopes, [begin |-> now, id |-> scope_counter + 1])
             /\ active_scopes_set' = active_scopes_set \cup {scope_counter + 1}
             /\ scope_counter' = scope_counter + 1
             /\ closed_at' = Append(closed_at, 0)
    <3>1. [begin |-> now, id |-> scope_counter + 1] \in Scope
      BY <1>3, <2>2 DEF Scope
    <3>2. /\ active_scopes' \in Seq(Scope)
          /\ active_scopes' # << >>
          /\ active_scopes'[1].begin = None
      BY <2>1, <2>4, <3>1, AppendProperties
    <3>3. /\ closed_at' \in Seq(Nat)
          /\ Len(closed_at') = scope_counter + 1
          /\ closed_at'[scope_counter + 1] = 0
          /\ \A s \in 1..scope_counter : closed_at'[s] = closed_at[s]
      BY <2>2, <2>4, AppendProperties
    <3>4. scope_counter' \in Nat \ {0} /\ active_scopes_set' \in SUBSET Nat
      BY <2>2, <2>4
    <3>5. \A s \in active_scopes_set' : s \in 1..scope_counter' /\ closed_at'[s] = 0
      <4> SUFFICES ASSUME NEW s \in active_scopes_set'
                   PROVE  s \in 1..scope_counter' /\ closed_at'[s] = 0
        OBVIOUS
      <4>1. CASE s = scope_counter + 1
        BY <2>2, <2>4, <3>3, <4>1
      <4>2. CASE s \in active_scopes_set
        BY <2>2, <2>4, <3>3, <4>2
      <4>3. QED
        BY <2>4, <4>1, <4>2
    <3>6. \A s \in 1..scope_counter : s \in 1..scope_counter' /\ closed_at'[s] \in {closed_at[s], now}
      BY <2>2, <2>4, <3>3
    <3>7. \A s \in 1..scope_counter' : closed_at'[s] <= now
      BY <1>3, <2>2, <2>4, <3>3
    <3>8. QED
      BY <2>4, <3>2, <3>3, <3>4, <3>5, <3>6, <3>7
  <2>5. CASE UNCHANGED <<active_scopes, active_scopes_set, scope_counter, closed_at>>
    BY <1>3, <2>1, <2>2, <2>5
  <2>6. QED
    BY <2>3, <2>4, <2>5, AcceptedScopes
<1>9. TypeOK'
  <2>1. popped' \in BOOLEAN
    BY DEF AppendAccepted, ReuseInv, TypeOK
  <2>2. QED
    BY <1>2, <1>4, <1>6, <1>7, <1>8, <2>1, Zenon DEF TypeOK, Defined
<1>10. HistoryOK' /\ ActiveAreOpen' /\ GlobalFirst'
  BY <1>4, <1>6, <1>7, <1>8 DEF HistoryOK, ActiveAreOpen, GlobalFirst
<1>11. StaticallyValid'
  <2> SUFFICES ASSUME NEW k \in 1..now, NEW j \in DOMAIN instructions'[k].inputs
               PROVE  LET v == instructions'[k].inputs[j]
                      IN /\ v \in 1..Len(variables')
                         /\ defined_at'[v] < k
                         /\ variables'[v].var = InputVariables(instructions'[k].operation)[j]
                         /\ variables'[v].scope_id \in 1..scope_counter'
                         /\ closed_at'[variables'[v].scope_id] \notin 1..(k - 1)
    BY <1>4, <1>6, <1>8 DEF StaticallyValid
  <2> DEFINE v == instructions'[k].inputs[j]
  <2>1. /\ Len(variables) \in Nat /\ scope_counter \in Nat
        /\ \A u \in 1..Len(variables) : u \in 1..Len(variables')
        /\ DOMAIN variables = 1..Len(variables)
        /\ DOMAIN closed_at = 1..scope_counter
    BY <1>5, <1>6 DEF ReuseInv, TypeOK, HistoryOK
  <2>2. /\ v \in 1..Len(variables)
        /\ defined_at[v] < k
        /\ variables[v].var = InputVariables(instructions'[k].operation)[j]
        /\ variables[v].scope_id \in 1..scope_counter
        /\ closed_at[variables[v].scope_id] \notin 1..(k - 1)
    <3>1. CASE k \in 1..Len(instructions)
      <4>1. k \in DOMAIN instructions /\ instructions'[k] = instructions[k]
        BY <1>3, <1>4, <3>1
      <4>2. QED
        BY <2>1, <4>1 DEF ReuseInv, StaticallyValid
    <3>2. CASE k = now
      <4>1. instructions'[k] = i
        BY <1>4, <3>2
      <4>2. /\ v \in DOMAIN variables
            /\ variables[v].scope_id \in active_scopes_set
            /\ variables[v].var = InputVariables(i.operation)[j]
        BY <1>2, <4>1 DEF Accepts, InputsOK, InputsInScope, InScope, TypesOK
      <4>3. defined_at[v] <= Len(instructions) /\ defined_at[v] \in Nat
        BY <2>1, <4>2, Ranges
      <4>4. /\ variables[v].scope_id \in 1..scope_counter
            /\ closed_at[variables[v].scope_id] = 0
        BY <4>2 DEF ReuseInv, ActiveAreOpen
      <4>5. QED
        BY <1>3, <2>1, <3>2, <4>1, <4>2, <4>3, <4>4
    <3>3. QED
      BY <1>3, <3>1, <3>2
  <2> HIDE DEF v
  <2>3. variables'[v] = variables[v] /\ defined_at'[v] = defined_at[v]
    BY <1>6, <1>7, <2>2
  <2>4. closed_at'[variables[v].scope_id] \in {closed_at[variables[v].scope_id], now}
        /\ variables[v].scope_id \in 1..scope_counter'
    BY <1>8, <2>2
  <2>5. now \notin 1..(k - 1)
    BY <1>3
  <2>6. QED
    BY <2>1, <2>2, <2>3, <2>4, <2>5 DEF v
<1>12. QED
  BY <1>9, <1>10, <1>11 DEF ReuseInv

\* Whatever append makes of an instruction (builder.rs:121-217), the invariant survives it.
LEMMA AppendKeepsInv ==
  ASSUME ReuseInv, result # "panicked", NEW i \in Instruction, AppendInstruction(i)
  PROVE  ReuseInv'
<1>1. active_scopes # << >> /\ active_scopes[1].begin = None
  BY DEF ReuseInv, GlobalFirst
<1>2. CASE AppendRejected(i)
  BY <1>2, RejectedKeepsInv
<1>3. CASE AppendBlockMismatch(i)
  BY <1>1, <1>3, PoppedKeepsInv DEF AppendBlockMismatch
<1>4. CASE AppendPanic(i)
  BY <1>1, <1>4, PoppedKeepsInv DEF AppendPanic
<1>5. CASE AppendAccepted(i)
  BY <1>5, AcceptedKeepsInv
<1>6. QED
  BY <1>2, <1>3, <1>4, <1>5 DEF AppendInstruction

\* Every call a builder still accepts keeps the invariant, after a refusal too.
LEMMA ReuseInvStep == ReuseInv /\ [ReuseNext]_vars => ReuseInv'
<1> SUFFICES ASSUME ReuseInv, [ReuseNext]_vars PROVE ReuseInv'
  OBVIOUS
<1>1. CASE UNCHANGED vars
  BY <1>1 DEF vars, history, ReuseInv, TypeOK, HistoryOK, ActiveAreOpen, GlobalFirst,
              StaticallyValid
<1>2. CASE ReuseNext
  <2>1. result # "panicked"
    BY <1>2 DEF ReuseNext
  <2>2. CASE AppendCall
    <3>1. PICK i \in Instruction : AppendInstruction(i)
      BY <2>2, InstructionsAssumption DEF AppendCall
    <3>2. QED
      BY <2>1, <3>1, AppendKeepsInv
  <2>3. CASE Finalize
    BY <2>1, <2>3, FinalizeKeepsInv
  <2>4. QED
    BY <1>2, <2>2, <2>3 DEF ReuseNext
<1>3. QED
  BY <1>1, <1>2

\* Of every builder, one still used after append refused an instruction (builder.rs:121-217)
\* included: its state is well formed, what is active has not been closed, the global scope is
\* at the bottom of the stack and what was accepted is valid.
THEOREM ReuseInvariant == ReuseSpec => []ReuseInv
<1>1. QED
  BY ReuseInvInit, ReuseInvStep, PTL DEF ReuseSpec

\* The builder's state is well formed (builder.rs:30-39), after a refusal too.
THEOREM BuilderTypeOK == ReuseSpec => []TypeOK
<1>1. ReuseInv => TypeOK
  BY DEF ReuseInv
<1>2. QED
  BY <1>1, ReuseInvariant, PTL

\* Whatever is appended, by whomever, every instruction the builder has accepted consumes
\* variables that were defined before it, of the right type and in scopes not closed before it
\* (builder.rs:125-143): also when the caller goes on using a builder that refused an
\* instruction.
THEOREM AcceptedStaysValid == ReuseSpec => []StaticallyValid
<1>1. ReuseInv => StaticallyValid
  BY DEF ReuseInv
<1>2. QED
  BY <1>1, ReuseInvariant, PTL

-----------------------------------------------------------------------------
(* The stack, the set of active scopes and the scopes not closed agree. *)

\* No scope is on the stack twice, the ids on it have been given out, only the global scope
\* has no begin, and a finished builder has only that scope left.
StackOK ==
  ~popped =>
    /\ active_scopes[1].id = 1
    /\ \A d \in 1..Len(active_scopes) : active_scopes[d].id <= scope_counter
    /\ \A d, e \in 1..Len(active_scopes) : active_scopes[d].id = active_scopes[e].id => d = e
    /\ \A d \in 1..Len(active_scopes) : active_scopes[d].begin = None => d = 1
    /\ result = "finalized" => Len(active_scopes) = 1

Inv == ReuseInv /\ StackOK /\ ScopesAgree

\* A new builder has one scope, on the stack and not closed (builder.rs:43-54).
LEMMA InvInit == Init => Inv
<1> SUFFICES ASSUME Init PROVE Inv
  OBVIOUS
<1>1. StackOK
  BY DEF Init, StackOK
<1>2. ScopesAgree
  <2>1. /\ active_scopes = <<[begin |-> None, id |-> 1]>>
        /\ active_scopes_set = {1} /\ closed_at = <<0>>
    BY DEF Init
  <2>2. DOMAIN active_scopes = {1} /\ active_scopes[1].id = 1
    BY <2>1
  <2>3. DOMAIN closed_at = {1} /\ closed_at[1] = 0
    BY <2>1
  <2>4. QED
    BY <2>1, <2>2, <2>3 DEF ScopesAgree
<1>3. QED
  BY <1>1, <1>2, ReuseInvInit DEF Inv

\* What is known of the scopes of a builder none was popped from.
LEMMA ScopeFacts ==
  ASSUME Inv, ~popped, result # "panicked"
  PROVE  /\ active_scopes \in Seq(Scope) /\ active_scopes # << >>
         /\ Len(active_scopes) \in Nat /\ Len(active_scopes) >= 1
         /\ DOMAIN active_scopes = 1..Len(active_scopes)
         /\ \A d \in 1..Len(active_scopes) : active_scopes[d].id \in 1..scope_counter
         /\ \A s : s \in active_scopes_set <=>
              \E d \in 1..Len(active_scopes) : s = active_scopes[d].id
         /\ \A s : s \in active_scopes_set <=> s \in 1..scope_counter /\ closed_at[s] = 0
<1>1. /\ active_scopes \in Seq(Scope) /\ active_scopes # << >>
      /\ Len(active_scopes) \in Nat /\ DOMAIN active_scopes = 1..Len(active_scopes)
  BY LenProperties DEF Inv, ReuseInv, TypeOK, GlobalFirst
<1>2. Len(active_scopes) >= 1
  BY <1>1, EmptySeq
<1>3. \A d \in 1..Len(active_scopes) :
        active_scopes[d].id \in Nat \ {0} /\ active_scopes[d].id <= scope_counter
  <2>1. \A d \in 1..Len(active_scopes) : active_scopes[d] \in Scope
    BY <1>1, ElementOfSeq
  <2>2. \A d \in 1..Len(active_scopes) : active_scopes[d].id <= scope_counter
    BY DEF Inv, StackOK
  <2>3. QED
    BY <2>1, <2>2 DEF Scope
<1>4. \A d \in 1..Len(active_scopes) : active_scopes[d].id \in 1..scope_counter
  BY <1>3, Ranges DEF Inv
<1>5. /\ active_scopes_set = {active_scopes[d].id : d \in 1..Len(active_scopes)}
      /\ active_scopes_set = {s \in 1..scope_counter : closed_at[s] = 0}
  BY <1>1, Ranges DEF Inv, ScopesAgree
<1>6. QED
  BY <1>1, <1>2, <1>4, <1>5

\* An accepted block end takes the innermost scope off the stack and out of the set, and closes
\* it.
LEMMA ExitKeepsScopes ==
  ASSUME Inv, ~popped, result # "panicked", ReuseInv', result' = "open",
         Last(active_scopes).begin # None,
         active_scopes' = Front(active_scopes),
         active_scopes_set' = active_scopes_set \ {Last(active_scopes).id},
         scope_counter' = scope_counter,
         closed_at' = [closed_at EXCEPT ![Last(active_scopes).id] = Len(instructions) + 1]
  PROVE  StackOK' /\ ScopesAgree'
<1> DEFINE n == Len(active_scopes)
<1>1. /\ n \in Nat /\ n >= 1
      /\ Len(active_scopes') = n - 1
      /\ \A d \in 1..(n - 1) : active_scopes'[d] = active_scopes[d]
  BY ScopeFacts, FrontProperties
<1>2. n - 1 >= 1
  <2>1. active_scopes'# << >> /\ active_scopes' \in Seq(Scope)
    BY DEF ReuseInv, GlobalFirst, TypeOK
  <2>2. QED
    BY <1>1, <2>1, EmptySeq
<1>3. /\ active_scopes[1].id = 1
      /\ \A d \in 1..n : active_scopes[d].id <= scope_counter
      /\ \A d, e \in 1..n : active_scopes[d].id = active_scopes[e].id => d = e
      /\ \A d \in 1..n : active_scopes[d].begin = None => d = 1
  BY DEF Inv, StackOK
<1> DEFINE x == active_scopes[n].id
<1>4. x = Last(active_scopes).id /\ x \in 1..scope_counter
  BY <1>1, ScopeFacts DEF Last
<1>5. \A s \in 1..scope_counter :
        closed_at'[s] = IF s = x THEN Len(instructions) + 1 ELSE closed_at[s]
  BY <1>4, Ranges DEF Inv
<1>6. Len(instructions) + 1 # 0
  BY Ranges DEF Inv
<1>7. \A d \in 1..(n - 1) : d \in 1..n /\ d # n
  BY <1>1
<1>8. \A s : s \in active_scopes_set' <=>
               \E d \in 1..Len(active_scopes') : s = active_scopes'[d].id
  <2>1. \A d \in 1..(n - 1) : active_scopes[d].id # x
    BY <1>1, <1>3, <1>7, SMTT(30)
  <2>2. \A d \in 1..n : d \in 1..(n - 1) \/ d = n
    BY <1>1
  <2>3. \A s : s \in active_scopes_set <=> \E d \in 1..n : s = active_scopes[d].id
    BY ScopeFacts
  <2> HIDE DEF n
  <2>4. QED
    BY <1>1, <1>4, <1>7, <2>1, <2>2, <2>3
<1>9. \A s : s \in active_scopes_set' <=> s \in 1..scope_counter' /\ closed_at'[s] = 0
  BY <1>4, <1>5, <1>6, ScopeFacts
<1>10. /\ active_scopes' \in Seq(Scope) /\ closed_at' \in Seq(Nat)
       /\ Len(closed_at') = scope_counter'
  BY DEF ReuseInv, TypeOK, HistoryOK
<1>11. ScopesAgree'
  <2>1. DOMAIN active_scopes' = 1..Len(active_scopes') /\ DOMAIN closed_at' = 1..scope_counter'
    BY <1>10, LenProperties
  <2>2. active_scopes_set' = {active_scopes'[d].id : d \in DOMAIN active_scopes'}
    BY <1>8, <2>1
  <2>3. active_scopes_set' = {s \in DOMAIN closed_at' : closed_at'[s] = 0}
    BY <1>9, <2>1
  <2>4. QED
    BY <2>2, <2>3 DEF ScopesAgree
<1>12. StackOK'
  BY <1>1, <1>2, <1>3, <1>7, SMTT(30) DEF StackOK
<1>13. QED
  BY <1>11, <1>12

\* A block beginning pushes a scope with an id of its own.
LEMMA EnterKeepsScopes ==
  ASSUME Inv, ~popped, result # "panicked", ReuseInv', result' = "open",
         active_scopes' = Append(active_scopes, [begin |-> Len(instructions) + 1,
                                                 id |-> scope_counter + 1]),
         active_scopes_set' = active_scopes_set \cup {scope_counter + 1},
         scope_counter' = scope_counter + 1,
         closed_at' = Append(closed_at, 0)
  PROVE  StackOK' /\ ScopesAgree'
<1> DEFINE n   == Len(active_scopes)
           new == [begin |-> Len(instructions) + 1, id |-> scope_counter + 1]
<1>1. new \in Scope /\ new.begin # None /\ new.id = scope_counter + 1
  BY Ranges DEF Inv, Scope, None
<1> HIDE DEF new
<1>2. /\ n \in Nat /\ n >= 1
      /\ Len(active_scopes') = n + 1
      /\ \A d \in 1..n : active_scopes'[d] = active_scopes[d]
      /\ active_scopes'[n + 1] = new
  <2>1. /\ active_scopes \in Seq(Scope) /\ n \in Nat /\ n >= 1
        /\ active_scopes' = Append(active_scopes, new)
    BY ScopeFacts DEF new
  <2>2. QED
    BY <1>1, <2>1, AppendProperties
<1>3. /\ active_scopes[1].id = 1
      /\ \A d, e \in 1..n : active_scopes[d].id = active_scopes[e].id => d = e
      /\ \A d \in 1..n : active_scopes[d].begin = None => d = 1
      /\ \A d \in 1..n : active_scopes[d].id \in 1..scope_counter
  BY ScopeFacts DEF Inv, StackOK
<1>4. /\ scope_counter \in Nat \ {0}
      /\ Len(closed_at') = scope_counter + 1
      /\ closed_at'[scope_counter + 1] = 0
      /\ \A s \in 1..scope_counter : closed_at'[s] = closed_at[s]
  BY Ranges, AppendProperties, SMTT(30) DEF Inv
<1>5. /\ \A d \in 1..(n + 1) : d \in 1..n \/ d = n + 1
      /\ \A d \in 1..n : d \in 1..(n + 1)
      /\ n + 1 \in 1..(n + 1)
  BY <1>2
<1>6. \A s : s \in 1..(scope_counter + 1) <=> s \in 1..scope_counter \/ s = scope_counter + 1
  BY <1>4
<1> HIDE DEF n
<1>7. \A s : s \in active_scopes_set' <=>
               \E d \in 1..Len(active_scopes') : s = active_scopes'[d].id
  <2>1. \A s : s \in active_scopes_set <=> \E d \in 1..n : s = active_scopes[d].id
    BY ScopeFacts DEF n
  <2>2. QED
    BY <1>1, <1>2, <1>5, <2>1
<1>8. \A s : s \in active_scopes_set' <=> s \in 1..scope_counter' /\ closed_at'[s] = 0
  <2>1. \A s : s \in active_scopes_set <=> s \in 1..scope_counter /\ closed_at[s] = 0
    BY ScopeFacts
  <2>2. QED
    BY <1>4, <1>6, <2>1
<1>9. ScopesAgree'
  <2>1. DOMAIN active_scopes' = 1..Len(active_scopes') /\ DOMAIN closed_at' = 1..scope_counter'
    BY LenProperties DEF ReuseInv, TypeOK, HistoryOK
  <2>2. active_scopes_set' = {active_scopes'[d].id : d \in DOMAIN active_scopes'}
    BY <1>7, <2>1
  <2>3. active_scopes_set' = {s \in DOMAIN closed_at' : closed_at'[s] = 0}
    BY <1>8, <2>1
  <2>4. QED
    BY <2>2, <2>3 DEF ScopesAgree
<1>10. StackOK'
  <2>1. \A d \in 1..(n + 1) : active_scopes'[d].id <= scope_counter + 1
    BY <1>1, <1>2, <1>3, <1>4, <1>5
  <2>2. \A d, e \in 1..(n + 1) : active_scopes'[d].id = active_scopes'[e].id => d = e
    <3>1. \A d \in 1..n : active_scopes[d].id # scope_counter + 1
      BY <1>3, <1>4
    <3>2. QED
      BY <1>1, <1>2, <1>3, <1>5, <3>1
  <2>3. \A d \in 1..(n + 1) : active_scopes'[d].begin = None => d = 1
    BY <1>1, <1>2, <1>3, <1>5
  <2>4. active_scopes'[1].id = 1
    BY <1>2, <1>3
  <2>5. QED
    BY <1>2, <2>1, <2>2, <2>3, <2>4 DEF StackOK
<1>11. QED
  BY <1>9, <1>10

\* An append, refused or not, keeps the stack and the open scopes in step, or pops a scope for a
\* block end it does not accept.
LEMMA AppendKeepsStack ==
  ASSUME Inv, result # "panicked", NEW i \in Instruction, AppendInstruction(i)
  PROVE  Inv'
<1>1. ReuseInv'
  BY AppendKeepsInv DEF Inv
<1>2. CASE AppendRejected(i)
  <2>1. /\ result' \in Errors
        /\ UNCHANGED <<active_scopes, active_scopes_set, scope_counter, closed_at, popped>>
    BY <1>2 DEF AppendRejected, Fail, Errors, history
  <2>2. QED
    BY <1>1, <2>1 DEF Inv, StackOK, ScopesAgree, Errors
<1>3. CASE AppendBlockMismatch(i) \/ AppendPanic(i)
  BY <1>1, <1>3 DEF Inv, StackOK, ScopesAgree, AppendBlockMismatch, AppendPanic
<1>4. CASE AppendAccepted(i)
  <2>1. result' = "open" /\ popped' = popped
    BY <1>4 DEF AppendAccepted
  <2>2. CASE popped
    BY <1>1, <2>1, <2>2 DEF Inv, StackOK, ScopesAgree
  <2>3. CASE UNCHANGED <<active_scopes, active_scopes_set, scope_counter, closed_at>>
    BY <1>1, <2>1, <2>3 DEF Inv, StackOK, ScopesAgree
  <2>4. QED
    BY <1>1, <1>4, <2>1, <2>2, <2>3, AcceptedScopes, ExitKeepsScopes, EnterKeepsScopes DEF Inv
<1>5. QED
  BY <1>2, <1>3, <1>4 DEF AppendInstruction

\* finalize succeeds with the global scope alone on the stack.
LEMMA FinalizeKeepsStack ==
  ASSUME Inv, result # "panicked", Finalize
  PROVE  Inv'
<1>1. ReuseInv'
  BY FinalizeKeepsInv DEF Inv
<1>2. UNCHANGED <<active_scopes, active_scopes_set, scope_counter, closed_at, popped>>
  BY DEF Finalize, history
<1>3. CASE result' = "finalized" /\ ~popped
  <2>1. Last(active_scopes).begin = None
    BY <1>3, ScopeFacts DEF Finalize
  <2>2. Len(active_scopes) \in 1..Len(active_scopes)
    BY <1>3, ScopeFacts
  <2>3. Len(active_scopes) = 1
    BY <1>3, <2>1, <2>2 DEF Inv, StackOK, Last
  <2>4. QED
    BY <1>1, <1>2, <2>3 DEF Inv, StackOK, ScopesAgree
<1>4. CASE result' = "UnfinishedBlock" \/ popped
  BY <1>1, <1>2, <1>4 DEF Inv, StackOK, ScopesAgree
<1>5. QED
  BY <1>3, <1>4 DEF Finalize

\* Every call a builder still accepts keeps the stack and the open scopes in step, or pops a
\* scope for a block end it does not accept.
LEMMA InvStep == Inv /\ [ReuseNext]_vars => Inv'
<1> SUFFICES ASSUME Inv, [ReuseNext]_vars PROVE Inv'
  OBVIOUS
<1>1. CASE UNCHANGED vars
  <2>1. ReuseInv'
    BY <1>1, ReuseInvStep DEF Inv
  <2>2. QED
    BY <1>1, <2>1 DEF vars, history, Inv, StackOK, ScopesAgree
<1>2. ASSUME NEW i \in Instructions, result # "panicked", AppendInstruction(i) PROVE Inv'
  BY <1>2, AppendKeepsStack, InstructionsAssumption
<1>3. QED
  BY <1>1, <1>2, FinalizeKeepsStack DEF ReuseNext, AppendCall

\* Of every builder, whatever it has refused: unless a block end it did not accept has popped a
\* scope (builder.rs:156), the scopes on the stack are exactly those entered and not closed, each
\* on it once (builder.rs:90-107, 155-190).
THEOREM Invariant == ReuseSpec => []Inv
<1>1. QED
  BY InvInit, InvStep, PTL DEF ReuseSpec

\* The set of active scopes, the stack and the scopes not closed never come apart, unless a block
\* end was refused for its block (builder.rs:90-107, 156).
THEOREM BuilderScopesAgree == ReuseSpec => []ScopesAgree
<1>1. Inv => ScopesAgree
  BY DEF Inv
<1>2. QED
  BY <1>1, Invariant, PTL

LEMMA InvCloses == Inv => FinalizedIsClosed
<1> SUFFICES ASSUME Inv, result = "finalized", ~popped, NEW s \in 2..scope_counter
             PROVE  closed_at[s] # 0
  BY DEF FinalizedIsClosed
<1>1. Len(active_scopes) = 1 /\ active_scopes[1].id = 1
  BY DEF Inv, StackOK
<1>2. DOMAIN active_scopes = 1..1 /\ DOMAIN closed_at = 1..scope_counter
      /\ scope_counter \in Nat
  BY <1>1, LenProperties, Ranges DEF Inv, ReuseInv, TypeOK
<1>3. active_scopes_set = {1}
  BY <1>1, <1>2 DEF Inv, ScopesAgree
<1>4. s \in DOMAIN closed_at /\ s # 1
  BY <1>2
<1>5. QED
  BY <1>3, <1>4 DEF Inv, ScopesAgree

\* finalize looks at the innermost scope alone (builder.rs:261-273), and that is enough: a
\* program it hands out has every block closed, unless a block end was refused for its block.
THEOREM BuilderFinalizedIsClosed == ReuseSpec => []FinalizedIsClosed
  BY InvCloses, Invariant, PTL

-----------------------------------------------------------------------------
(* The builder, its replay and the text of the program agree. *)

\* The state of a builder as from_prefix would hand it out.
Held ==
  [accepted |-> TRUE, scopes |-> active_scopes, counter |-> scope_counter,
   variables |-> variables]

\* Replaying what has been accepted gives the builder, and what finalize answered is what the
\* innermost scope tells.
Rebuilt ==
  ~popped =>
    /\ FromPrefix(instructions) = Held
    /\ result = "finalized" => Last(active_scopes).begin = None
    /\ result = "UnfinishedBlock" => Last(active_scopes).begin # None

\* The builder is the one replayed through the first n instructions of q.
HeldAfter(q, n) == Builders(q)[n] = Held

\* What append is about to decide, the replay decides alike, and the text of the program with
\* the instruction at its end (builder.rs:121-170).
LEMMA AcceptsAlike ==
  ASSUME Inv, Rebuilt, ~popped, NEW i \in Instruction,
         NEW q, q = Append(instructions, i), NEW n, n = Len(instructions)
  PROVE  /\ q \in Seq(Instruction) /\ Len(q) = n + 1 /\ q[n + 1] = i /\ n \in Nat
         /\ HeldAfter(q, n) /\ Reads(Held, q, n)
         /\ Accepts(i) <=> Appendable(Held, q, n + 1)
         /\ Accepts(i) <=> ValidInstruction(q, n + 1, NumRoles, NumConnections)
<1>1. instructions \in Seq(Instruction) /\ n \in Nat
  BY LenProperties DEF Inv, ReuseInv, TypeOK
<1>2. /\ q \in Seq(Instruction) /\ Len(q) = n + 1 /\ q[n + 1] = i
      /\ \A j \in 1..n : q[j] = instructions[j]
  BY <1>1, AppendProperties
<1>3. /\ n \in 0..n /\ n <= n + 1 /\ n \in 0..(n + 1) /\ n + 1 \in 1..(n + 1)
      /\ (n + 1) - 1 = n
  BY <1>1
<1>4. Builders(instructions)[n] = Held
  BY DEF Rebuilt, FromPrefix
<1>5. Builders(q)[n] = Held
  BY <1>1, <1>2, <1>3, <1>4, BuildersAgree
<1>6. Reads(Held, q, n)
  <2>1. Replayed(q, n)
    BY <1>2, <1>3, ReplayedAlways
  <2>2. Held.accepted
    BY DEF Held
  <2>3. QED
    BY <1>5, <2>1, <2>2 DEF Replayed
<1>7. Accepts(i) <=> Appendable(Held, q, n + 1)
  <2>1. /\ Held.scopes = active_scopes /\ Held.variables = variables
        /\ ActiveIds(Held) = active_scopes_set
    BY DEF Held, ActiveIds, Inv, ScopesAgree
  <2>2. \A v : VisibleTo(Held, v) <=> InScope(v)
    BY <2>1 DEF VisibleTo, InScope
  <2> DEFINE t == Last(active_scopes).begin
  <2>3. t # 0 => q[t] = instructions[t]
    <3> DEFINE m == Len(active_scopes)
    <3>1. WellFormed(Held, n)
      BY <1>6 DEF Reads
    <3>2. /\ m \in Nat /\ m >= 1 /\ Last(active_scopes) = active_scopes[m]
          /\ \A d \in 1..m : active_scopes[d].begin \in Nat /\ active_scopes[d].begin <= n
      BY <1>1, <2>1, <3>1, StackFacts DEF WellFormed
    <3>3. m \in 1..m
      <4> HIDE DEF m
      <4>1. QED
        BY <3>2
    <3>4. t \in Nat /\ t <= n
      BY <3>2, <3>3
    <3> HIDE DEF t
    <3>5. t # 0 => t \in 1..n
      BY <1>1, <3>4
    <3>6. QED
      BY <1>2, <3>5
  <2>4. BlockEndOK(i) <=> (IsBlockEnd(i.operation) =>
                             /\ t # 0
                             /\ IsMatchingBlockBegin(i.operation, q[t].operation))
    BY <2>3 DEF BlockEndOK, None, Opener
  <2>5. (\A j \in DOMAIN i.inputs :
           /\ VisibleTo(Held, i.inputs[j])
           /\ Held.variables[i.inputs[j]].var = InputVariables(i.operation)[j])
          <=> InputsInScope(i) /\ TypesOK(i)
    BY <2>1, <2>2 DEF InputsInScope, TypesOK
  <2>6. Appendable(Held, q, n + 1) <=>
          /\ CountOK(i) /\ InputsInScope(i) /\ TypesOK(i) /\ RoleOK(i) /\ ConnectionOK(i)
          /\ BlockEndOK(i)
    <3> HIDE DEF t
    <3>1. Last(Held.scopes).begin = t
      BY <2>1 DEF t
    <3>2. Appendable(Held, q, n + 1) <=>
            /\ CountOK(i)
            /\ \A j \in DOMAIN i.inputs :
                 /\ VisibleTo(Held, i.inputs[j])
                 /\ Held.variables[i.inputs[j]].var = InputVariables(i.operation)[j]
            /\ RoleOK(i) /\ ConnectionOK(i)
            /\ IsBlockEnd(i.operation) =>
                 /\ t # 0
                 /\ IsMatchingBlockBegin(i.operation, q[t].operation)
      BY <1>2, <3>1 DEF Appendable, CountOK, RoleOK, ConnectionOK
    <3>3. QED
      BY <2>4, <2>5, <3>2
  <2>7. QED
    BY <2>6 DEF Accepts, InputsOK
<1>8. Appendable(Held, q, n + 1) <=> ValidInstruction(q, n + 1, NumRoles, NumConnections)
  BY <1>2, <1>3, <1>6, AppendsValid
<1>9. QED
  BY <1>1, <1>2, <1>5, <1>6, <1>7, <1>8 DEF HeldAfter

\* An accepted instruction leaves the builder that the replay, one instruction on, is.
LEMMA AcceptedKeepsRebuilt ==
  ASSUME Inv, Rebuilt, ~popped, result # "panicked", NEW i \in Instruction, AppendAccepted(i)
  PROVE  Rebuilt'
<1>q. PICK q : q = Append(instructions, i)
  OBVIOUS
<1>n. PICK n : n = Len(instructions)
  OBVIOUS
<1> DEFINE A  == Appended(Held, q, n + 1)
           op == i.operation
<1>1. /\ q \in Seq(Instruction) /\ Len(q) = n + 1 /\ q[n + 1] = i /\ n \in Nat
      /\ HeldAfter(q, n) /\ Reads(Held, q, n)
      /\ Accepts(i) <=> Appendable(Held, q, n + 1)
  BY <1>q, <1>n, AcceptsAlike
<1>2. Accepts(i) /\ instructions' = q /\ result' = "open"
  BY <1>q DEF AppendAccepted
<1>3. FromPrefix(q) = A
  <2>1. Replays(Builders(q), q, n + 1)
    <3>1. Len(q) = n + 1 /\ n + 1 \in Nat
      BY <1>1
    <3>2. Replays(Builders(q), q, Len(q))
      BY <3>1, BuildersReplay
    <3>3. QED
      BY <3>1, <3>2
  <2>2. n + 1 \in 0..(n + 1) /\ n + 1 # 0 /\ (n + 1) - 1 = n
    BY <1>1
  <2>3. Builders(q)[n + 1] = Stepped(Builders(q)[(n + 1) - 1], q, n + 1)
    <3>1. QED
      BY <2>1, <2>2 DEF Replays
  <2>4. Builders(q)[n + 1] = Stepped(Held, q, n + 1)
    BY <1>1, <2>2, <2>3 DEF HeldAfter
  <2>5. Held.accepted /\ Appendable(Held, q, n + 1)
    BY <1>1, <1>2 DEF Held
  <2>6. Stepped(Held, q, n + 1) = A
    BY <2>5 DEF Stepped
  <2>7. QED
    BY <1>1, <2>4, <2>6 DEF FromPrefix
<1> DEFINE below == IF IsBlockEnd(op) THEN Front(active_scopes) ELSE active_scopes
           count == IF IsBlockBegin(op) THEN scope_counter + 1 ELSE scope_counter
           outer == IF IsNop(op) THEN 0 ELSE Last(below).id
           inner == IF IsNop(op) THEN 0 ELSE count
           X == Scoped(OutputVariables(op), outer)
           Y == Scoped(InnerOutputVariables(op), inner)
<1>4. A = [accepted |-> TRUE,
           scopes |-> IF IsBlockBegin(op) THEN Append(below, [begin |-> n + 1, id |-> count])
                      ELSE below,
           counter |-> count,
           variables |-> (variables \o X) \o Y]
  <2>1. q[n + 1] = i
    BY <1>1
  <2>2. /\ Held.scopes = active_scopes /\ Held.counter = scope_counter
        /\ Held.variables = variables
    BY DEF Held
  <2> HIDE DEF op
  <2>3. A = [Held EXCEPT !.scopes = IF IsBlockBegin(op)
                                      THEN Append(below, [begin |-> n + 1, id |-> count])
                                      ELSE below,
                         !.counter = count,
                         !.variables = (@ \o X) \o Y]
    BY <2>1, <2>2, Zenon DEF Appended, op
  <2> HIDE DEF A, X, Y, below, count
  <2>4. QED
    BY <2>2, <2>3 DEF Held
<1>5. /\ active_scopes' = IF IsBlockBegin(op) THEN Append(below, [begin |-> n + 1, id |-> count])
                          ELSE below
      /\ scope_counter' = count
      /\ variables' = variables \o (X \o Y)
  BY <1>n DEF AppendAccepted, ExitedScopes, Dead, Scoped
<1>6. variables' = (variables \o X) \o Y
  <2>1. variables \in Seq(ScopedVariable) /\ (variables \o X) \o Y \in Seq(ScopedVariable)
    <3>1. WellFormed(Held, n)
      BY <1>1 DEF Reads
    <3>2. (n + 1) - 1 = n /\ n + 1 \in Nat \ {0}
      BY <1>1
    <3>3. WellFormed(Held, (n + 1) - 1) /\ Appendable(Held, q, n + 1) /\ q[n + 1].operation \in Operation
      BY <1>1, <1>2, <3>1, <3>2 DEF Instruction
    <3>4. VariablesAdded(Held, A, q[n + 1].operation)
      <4> HIDE DEF A
      <4>1. QED
        BY <3>2, <3>3, AppendedVariables DEF A
    <3>5. A.variables \in Seq(ScopedVariable)
      BY <3>4 DEF VariablesAdded
    <3>6. Held.variables \in Seq(ScopedVariable)
      BY <1>1, <3>1, StackFacts
    <3>7. A.variables = (variables \o X) \o Y
      <4> HIDE DEF A, X, Y, below, count
      <4>1. QED
        BY <1>4
    <3>8. QED
      BY <3>5, <3>6, <3>7 DEF Held
  <2>2. X \in Seq(ScopedVariable) /\ Y \in Seq(ScopedVariable)
    <3>1. OutputVariables(op) \in Seq(Variable) /\ InnerOutputVariables(op) \in Seq(Variable)
      BY OutputsTyped DEF Instruction
    <3>2. inner \in Nat
      BY DEF Inv, ReuseInv, TypeOK
    <3>3. Y \in Seq(ScopedVariable)
      <4> HIDE DEF inner, op
      <4>1. QED
        BY <3>1, <3>2, ScopedProperties
    <3>4. outer \in Nat
      <4>1. below \in Seq(Scope) /\ below # << >>
        <5>1. /\ active_scopes \in Seq(Scope) /\ active_scopes # << >>
          BY DEF Inv, ReuseInv, TypeOK, GlobalFirst
        <5>2. CASE ~IsBlockEnd(op)
          BY <5>1, <5>2
        <5>3. CASE IsBlockEnd(op)
          <6>1. Last(active_scopes).begin # None
            BY <1>2, <5>3 DEF Accepts, BlockEndOK
          <6>2. active_scopes[1].begin = None
            BY DEF Inv, ReuseInv, GlobalFirst
          <6>3. Len(active_scopes) # 1 /\ Len(active_scopes) \in Nat
            BY <5>1, <6>1, <6>2, LenProperties DEF Last
          <6>4. /\ Front(active_scopes) \in Seq(Scope)
                /\ Len(Front(active_scopes)) = Len(active_scopes) - 1
            BY <5>1, FrontProperties
          <6>5. Len(Front(active_scopes)) # 0
            BY <6>3, <6>4
          <6>6. QED
            BY <5>3, <6>4, <6>5
        <5>4. QED
          BY <5>2, <5>3
      <4> HIDE DEF below
      <4>2. below[Len(below)] \in Scope
        <5>1. Len(below) \in Nat /\ Len(below) # 0
          BY <4>1, EmptySeq, LenProperties
        <5>2. Len(below) \in 1..Len(below)
          <6> DEFINE m == Len(below)
          <6>1. m \in Nat /\ m # 0
            BY <5>1
          <6> HIDE DEF m
          <6>2. m \in 1..m
            BY <6>1
          <6>3. QED
            BY <6>2 DEF m
        <5>3. QED
          BY <4>1, <5>2, ElementOfSeq
      <4>3. Last(below).id \in Nat
        BY <4>2 DEF Last, Scope
      <4>4. QED
        BY <4>3
    <3>5. X \in Seq(ScopedVariable)
      <4> HIDE DEF outer, op
      <4>1. QED
        BY <3>1, <3>4, ScopedProperties
    <3>6. QED
      BY <3>3, <3>5
  <2> HIDE DEF X, Y
  <2>3. variables \o (X \o Y) = (variables \o X) \o Y
    BY <2>1, <2>2, ConcatAssociative
  <2>4. QED
    BY <1>5, <2>3
<1>7. A = Held'
  <2> HIDE DEF A, X, Y, below, count
  <2>1. QED
    BY <1>4, <1>5, <1>6 DEF Held
<1>8. QED
  BY <1>2, <1>3, <1>7 DEF Rebuilt

LEMMA RebuiltInit == Init => Rebuilt
<1> SUFFICES ASSUME Init PROVE Rebuilt
  OBVIOUS
<1>1. /\ instructions = << >> /\ result = "open" /\ ~popped /\ Held = NewBuilder
      /\ Len(instructions) = 0 /\ instructions \in Seq(Instruction)
  BY DEF Init, Held, NewBuilder, None
<1>2. Replays(Builders(instructions), instructions, 0)
  BY <1>1, BuildersReplay
<1>3. Builders(instructions)[0] = NewBuilder
  BY <1>2 DEF Replays
<1>4. QED
  BY <1>1, <1>3 DEF Rebuilt, FromPrefix

\* An append that is not accepted leaves the builder alone, or pops a scope of it.
LEMMA RejectedKeepsRebuilt ==
  ASSUME Rebuilt, NEW i, AppendRejected(i) \/ AppendBlockMismatch(i) \/ AppendPanic(i)
  PROVE  Rebuilt'
<1>1. CASE AppendRejected(i)
  <2>1. /\ result' \notin {"finalized", "UnfinishedBlock"}
        /\ Held' = Held /\ instructions' = instructions /\ popped' = popped
    BY <1>1 DEF AppendRejected, Fail, Held, history
  <2>2. QED
    BY <2>1 DEF Rebuilt
<1>2. CASE AppendBlockMismatch(i) \/ AppendPanic(i)
  BY <1>2 DEF AppendBlockMismatch, AppendPanic, Rebuilt
<1>3. QED
  BY <1>1, <1>2

LEMMA RebuiltStep == Inv /\ Rebuilt /\ [ReuseNext]_vars => Rebuilt'
<1> SUFFICES ASSUME Inv, Rebuilt, [ReuseNext]_vars PROVE Rebuilt'
  OBVIOUS
<1>1. CASE UNCHANGED vars
  BY <1>1 DEF vars, history, Rebuilt, Held
<1>2. ASSUME result # "panicked", NEW i \in Instructions, AppendInstruction(i) PROVE Rebuilt'
  <2>1. i \in Instruction
    BY InstructionsAssumption
  <2>2. CASE AppendAccepted(i)
    <3>1. popped' = popped
      BY <2>2 DEF AppendAccepted
    <3>2. QED
      BY <1>2, <2>1, <2>2, <3>1, AcceptedKeepsRebuilt DEF Rebuilt
  <2>3. QED
    BY <1>2, <2>2, RejectedKeepsRebuilt DEF AppendInstruction
<1>3. CASE result # "panicked" /\ Finalize
  <2>1. active_scopes # << >>
    BY <1>3 DEF Inv, ReuseInv, GlobalFirst
  <2>2. /\ Held' = Held /\ instructions' = instructions /\ active_scopes' = active_scopes
        /\ popped' = popped
    BY <1>3 DEF Finalize, Held, history
  <2>3. /\ result' = "finalized" => Last(active_scopes).begin = None
        /\ result' = "UnfinishedBlock" => Last(active_scopes).begin # None
    BY <1>3, <2>1 DEF Finalize
  <2>4. QED
    BY <2>2, <2>3 DEF Rebuilt
<1>4. QED
  BY <1>1, <1>2, <1>3 DEF ReuseNext, AppendCall

\* Whatever a caller appends, replaying what the builder has accepted rebuilds it.
LEMMA RebuiltAlways == ReuseSpec => [](Inv /\ Rebuilt)
  BY InvInit, InvStep, RebuiltInit, RebuiltStep, PTL DEF ReuseSpec

\* A builder that finalize answered is validated alike.
LEMMA AnswerIsValidity ==
  ASSUME Inv, Rebuilt, ~popped, result \in {"finalized", "UnfinishedBlock"}
  PROVE  /\ Validates(instructions) <=> result = "finalized"
         /\ Validates(instructions) <=> ValidProgram(instructions, NumRoles, NumConnections)
<1>1. FromPrefix(instructions) = Held /\ Held.accepted = TRUE /\ Held.scopes = active_scopes
  BY DEF Rebuilt, Held
<1>2. Validates(instructions) <=> Last(active_scopes).begin = 0
  BY <1>1 DEF Validates
<1>3. instructions \in Seq(Instruction)
  BY DEF Inv, ReuseInv, TypeOK
<1>4. QED
  BY <1>2, <1>3, ValidatesExactlyValid DEF Rebuilt, None

\* from_prefix rebuilds the builder (builder.rs:59-72) whatever was appended and refused before,
\* unless what was refused is a block end for the block it would have closed, which pops that
\* block's scope (builder.rs:156); and validation accepts exactly what finalize handed out.
THEOREM BuilderFromPrefixRebuilds == ReuseSpec => []FromPrefixRebuilds
<1>1. Inv /\ Rebuilt => FromPrefixRebuilds
  <2> SUFFICES ASSUME Inv, Rebuilt PROVE FromPrefixRebuilds
    OBVIOUS
  <2>1. ASSUME ~popped
        PROVE  LET b == FromPrefix(instructions)
               IN /\ b.accepted /\ b.scopes = active_scopes /\ b.counter = scope_counter
                  /\ b.variables = variables
    BY <2>1 DEF Rebuilt, Held
  <2>2. QED
    BY <2>1, AnswerIsValidity, Zenon DEF FromPrefixRebuilds
<1>2. QED
  BY <1>1, RebuiltAlways, PTL

\* The builder, with its scope ids and its stack, accepts an instruction exactly where the text of
\* the program makes it valid, and finalize hands out exactly the programs whose text is valid
\* (builder.rs:121-217 and 261-273), whatever was refused before but a block end for its block.
THEOREM BuilderAcceptsExactlyValid == ReuseSpec => []AcceptsExactlyValid
<1>1. Inv /\ Rebuilt => AcceptsExactlyValid
  <2> SUFFICES ASSUME Inv, Rebuilt PROVE AcceptsExactlyValid
    OBVIOUS
  <2>1. ASSUME ~popped, NEW i \in Instructions
        PROVE  Accepts(i) <=> ValidInstruction(Append(instructions, i), Len(instructions) + 1,
                                               NumRoles, NumConnections)
    <3>1. i \in Instruction
      BY InstructionsAssumption
    <3>2. QED
      BY <2>1, <3>1, AcceptsAlike
  <2>2. QED
    BY <2>1, AnswerIsValidity DEF AcceptsExactlyValid
<1>2. QED
  BY <1>1, RebuiltAlways, PTL

\* A caller that stops at the first error, as all callers in the repository do, never uses or
\* finalizes a builder with a scope popped, so that for it the exception does not arise
\* (builder.rs:155-168).
THEOREM StoppersSeeIntact ==
  Spec => [](result \in {"open", "finalized", "UnfinishedBlock"} => ~popped)
<1> DEFINE Intact == result \in {"open", "finalized", "UnfinishedBlock"} => ~popped
<1>1. Init => Intact
  BY DEF Init
<1>2. Intact /\ [Next]_vars => Intact'
  <2> SUFFICES ASSUME Intact, [Next]_vars PROVE Intact'
    OBVIOUS
  <2>1. CASE UNCHANGED vars
    BY <2>1 DEF vars, history
  <2>2. ASSUME result = "open", NEW i, AppendRejected(i) PROVE Intact'
    BY <2>2 DEF AppendRejected, Fail, history
  <2>3. ASSUME result = "open", NEW i, AppendInstruction(i) PROVE Intact'
    BY <2>2, <2>3 DEF AppendInstruction, AppendBlockMismatch, AppendPanic, AppendAccepted
  <2>4. CASE result = "open" /\ Finalize
    BY <2>4 DEF Finalize, history
  <2>5. QED
    BY <2>1, <2>3, <2>4 DEF Next, AppendCall
<1>3. QED
  BY <1>1, <1>2, PTL DEF Spec

-----------------------------------------------------------------------------
(* What the builder lays out. *)

\* The caller has not stopped.
InUse == result \in {"open", "finalized"}

\* Instruction k defined the variables that follow the first b.
LaidAt(k, b) ==
  LET types == DefinedTypes(instructions[k].operation)
  IN /\ b + Len(types) <= Len(variables)
     /\ \A v \in 1..Len(variables) : /\ defined_at[v] < k <=> v <= b
                                     /\ defined_at[v] < k + 1 <=> v <= b + Len(types)
     /\ \A j \in 1..Len(types) : variables[b + j].var = types[j]

Laid == \A k \in 1..Len(instructions) : \E b \in 0..Len(variables) : LaidAt(k, b)

\* What was checked of every instruction besides its inputs.
Counted ==
  \A k \in 1..Len(instructions) : CountOK(instructions[k]) /\ ConnectionOK(instructions[k])

NameAt(k) == instructions[k].operation.name

\* The sessions that conditional blocks define, each inside its own block.
Sessions == {v \in 1..Len(variables) : variables[v].var[1] = "Session"}
BlockOf(v) == variables[v].scope_id

\* A session has a scope of its own, which a conditional block's end closes, and such an end
\* closes one; an instruction closes one scope at most.
Guarding ==
  /\ \A v \in Sessions : BlockOf(v) \in 2..scope_counter
  /\ \A v, w \in Sessions : BlockOf(v) = BlockOf(w) => v = w
  /\ \A v \in Sessions : closed_at[BlockOf(v)] # 0 =>
       /\ NameAt(closed_at[BlockOf(v)]) = "EndOnSetupSuccess"
       /\ defined_at[v] < closed_at[BlockOf(v)]
  /\ \A k \in 1..Len(instructions) : NameAt(k) = "EndOnSetupSuccess" =>
       \E v \in Sessions : closed_at[BlockOf(v)] = k
  /\ \A s, t \in 1..scope_counter : closed_at[s] = closed_at[t] /\ closed_at[s] # 0 => s = t

\* A scope on the stack was begun by an accepted instruction, and has a session exactly if that
\* was the beginning of a conditional block.
Begun ==
  \A d \in 1..Len(active_scopes) :
    LET scope == active_scopes[d]
    IN scope.begin # None =>
         /\ scope.begin \in 1..Len(instructions)
         /\ NameAt(scope.begin) = "BeginOnSetupSuccess" <=>
              \E v \in Sessions : BlockOf(v) = scope.id

\* No variable comes before the first instruction.
Later == \A v \in 1..Len(variables) : defined_at[v] # 0

BuiltInv ==
  /\ Inv /\ Len(instructions) <= MaxInstructions
  /\ InUse => ~popped /\ Laid /\ Later /\ Counted /\ Guarding /\ Begun

-----------------------------------------------------------------------------
(* What the compiler makes of it. *)

\* A value is one a variable of the type may have.
Fits(value, type) ==
  /\ value.kind = KindOf(type)
  /\ type[1] = "ConstSetupConnection" => value.spec.protocol = type[2]

\* The values are those of the variables the instructions behind the compiler defined.
Mirrored ==
  /\ Len(values) <= Len(variables)
  /\ \A v \in 1..Len(variables) : defined_at[v] < at <=> v <= Len(values)
  /\ \A v \in 1..Len(values) : Fits(values[v], variables[v].var)

\* The sessions whose block the compiler is in.
OpenSessions ==
  {v \in Sessions : v <= Len(values) /\ closed_at[BlockOf(v)] >= at}

BlocksCounted == Len(blocks) = Cardinality(OpenSessions)

\* What the metadata and the actions name is there and is what they say.  A value of kind
\* connection is of one that exists,
SentNamed == \A c \in sent : c < connections

ConnectionsNamed ==
  \A v \in 1..Len(values) : values[v].kind = "Connection" => values[v].connection < connections

\* every action does what its instruction says (CarriesOut, for the values held then),
CarriesWith(vals, a, i) ==
  LET name == i.operation.name
  IN \/ name = "Connect" /\ a.name = "Connect" /\ a.role = vals[i.inputs[1]].role
     \/ /\ name = "SendRawFrame" /\ a.name = "Send" /\ a.payload = RawBytes
        /\ a.connection = vals[i.inputs[1]].connection
     \/ /\ name = "SendSetupConnection" /\ a.name = "Send"
        /\ a.connection = vals[i.inputs[1]].connection /\ a.payload = vals[i.inputs[2]].spec
     \/ /\ name = "SendSetupConnection" /\ a.name = "AwaitSetupResponse"
        /\ a.connection = vals[i.inputs[1]].connection /\ a.protocol = i.operation.protocol
     \/ /\ name = "BeginOnSetupSuccess" /\ a.name = "EnterOnSetupSuccess"
        /\ a.session = vals[i.inputs[1]].session
     \/ name = "EndOnSetupSuccess" /\ a.name = "ExitBlock"
     \/ name \in {"AdvanceTime", "Probe"} /\ a.name = name

Notes == metadata.action_instructions

Carried ==
  \A id \in DOMAIN actions :
    Notes[id] \in 1..(at - 1) /\ CarriesWith(values, actions[id], program[Notes[id]])

\* a session is the variable of its wait, which its send comes right before,
AttemptNamed(id) ==
  LET s == actions[id].session
      v == metadata.session_variables[s]
  IN /\ v \in 1..Len(values)
     /\ values[v] = [kind |-> "SetupAttempt", session |-> s, connection |-> actions[id].connection]
     /\ defined_at[v] = Notes[id] /\ Notes[id - 1] = Notes[id]
     /\ metadata.session_setups[s].protocol = actions[id].protocol

SessionsNamed ==
  /\ DOMAIN metadata.session_variables = 0..(sessions - 1)
  /\ \A id \in AwaitsOf(actions) : AttemptNamed(id)
  /\ \A s \in 0..(sessions - 1) : \E id \in AwaitsOf(actions) : actions[id].session = s

\* and a connection the variable of its connect.
ConnectsOf(acts) == {id \in DOMAIN acts : acts[id].name = "Connect"}

OpeningNamed(id) ==
  LET c == actions[id].connection
      v == metadata.connection_variables[c]
  IN /\ c \in DOMAIN metadata.connection_variables /\ v \in 1..Len(values)
     /\ values[v] = [kind |-> "Connection", connection |-> c] /\ defined_at[v] = Notes[id]

ConnectsNamed ==
  /\ \A id \in ConnectsOf(actions) : OpeningNamed(id)
  /\ \A c \in DOMAIN metadata.connection_variables :
       \E id \in ConnectsOf(actions) : actions[id].connection = c

Named == SentNamed /\ ConnectionsNamed /\ Carried /\ SessionsNamed /\ ConnectsNamed

Lowered ==
  /\ program = instructions /\ compile_result \in {"compiling", "compiled", "StringTooLong"}
  /\ compile_result = "compiled" => at = Len(program) + 1
  /\ Mirrored /\ BlocksCounted /\ Named

LoweringInv ==
  /\ CompileInv
  /\ result # "unchecked" => BuiltInv
  /\ result \notin {"finalized", "unchecked"} => CompilerInit(<< >>)
  /\ result = "finalized" => Lowered

-----------------------------------------------------------------------------
(* The builder's half is inductive. *)

\* A session is defined by the beginning of a conditional block, and by nothing else
\* (operation.rs:104-148).
LEMMA SessionsDefined ==
  ASSUME NEW op \in Operation
  PROVE  /\ DefinedTypes(op) \in Seq(Variable) /\ Len(DefinedTypes(op)) \in Nat
         /\ op.name = "BeginOnSetupSuccess" => Len(DefinedTypes(op)) = 1 /\ DefinedTypes(op)[1][1] = "Session"
         /\ op.name # "BeginOnSetupSuccess" =>
              \A j \in 1..Len(DefinedTypes(op)) : DefinedTypes(op)[j][1] # "Session"
<1> DEFINE outs == OutputVariables(op)
           ins  == InnerOutputVariables(op)
<1>1. outs \in Seq(Variable) /\ ins \in Seq(Variable)
  BY OutputsTyped
<1>2. \A j \in 1..Len(outs) : outs[j][1] # "Session"
  BY DEF OutputVariables, Operation, ConstSetupConnection, SetupAttempt
<1>3. op.name = "BeginOnSetupSuccess" => Len(outs) = 0 /\ Len(ins) = 1 /\ ins[1][1] = "Session"
  BY DEF OutputVariables, InnerOutputVariables, Session
<1>4. op.name # "BeginOnSetupSuccess" => \A j \in 1..Len(ins) : ins[j][1] # "Session"
  BY DEF InnerOutputVariables, Operation
<1> HIDE DEF outs, ins
<1>5. /\ DefinedTypes(op) \in Seq(Variable) /\ Len(DefinedTypes(op)) = Len(outs) + Len(ins)
      /\ Len(outs) \in Nat /\ Len(ins) \in Nat
      /\ \A j \in 1..(Len(outs) + Len(ins)) :
           DefinedTypes(op)[j] = IF j <= Len(outs) THEN outs[j] ELSE ins[j - Len(outs)]
  BY <1>1, ConcatProperties, LenProperties DEF DefinedTypes, outs, ins
<1>6. ASSUME op.name # "BeginOnSetupSuccess", NEW j \in 1..Len(DefinedTypes(op))
      PROVE  DefinedTypes(op)[j][1] # "Session"
  <2>1. CASE j <= Len(outs)
    BY <1>2, <1>5, <2>1
  <2>2. CASE ~(j <= Len(outs))
    <3>1. j - Len(outs) \in 1..Len(ins) /\ DefinedTypes(op)[j] = ins[j - Len(outs)]
      BY <1>5, <2>2
    <3>2. QED
      BY <1>4, <1>6, <3>1
  <2>3. QED
    BY <2>1, <2>2
<1>7. QED
  BY <1>3, <1>5, <1>6

\* What an accepted instruction adds to the program and to the variables.
Adds(i) ==
  LET n     == Len(instructions)
      m     == Len(variables)
      types == DefinedTypes(i.operation)
  IN /\ n \in Nat /\ m \in Nat /\ Len(types) \in Nat /\ i \in Instruction
     /\ Len(instructions') = n + 1 /\ instructions'[n + 1] = i
     /\ \A k \in 1..n : instructions'[k] = instructions[k]
     /\ Len(variables') = m + Len(types)
     /\ \A v \in 1..m : /\ variables'[v] = variables[v] /\ defined_at'[v] = defined_at[v]
                        /\ defined_at[v] \in Nat /\ defined_at[v] <= n
     /\ \A v \in (m + 1)..(m + Len(types)) :
          /\ defined_at'[v] = n + 1 /\ variables'[v].var = types[v - m]
          /\ IsBlockBegin(i.operation) => variables'[v].scope_id = scope_counter + 1

\* An accepted instruction defines what its operation says, after all there is.
LEMMA AcceptedAdds ==
  ASSUME BuiltInv, result = "open", NEW i \in Instruction, AppendAccepted(i)
  PROVE  Adds(i)
<1> DEFINE n == Len(instructions)
           m == Len(variables)
           types == DefinedTypes(i.operation)
<1>1. /\ ReuseInv /\ TypeOK /\ GlobalFirst
  BY DEF BuiltInv, Inv, ReuseInv
<1>2. PICK added \in Seq(Defined) :
        /\ variables' = variables \o added
        /\ defined_at' = defined_at \o [k \in 1..Len(added) |-> n + 1]
        /\ Len(added) = Len(types)
        /\ \A j \in 1..Len(added) : added[j].var = types[j]
        /\ IsBlockBegin(i.operation) => \A j \in 1..Len(added) : added[j].scope_id = scope_counter + 1
  BY <1>1, AcceptedDefines
<1>3. /\ n \in Nat /\ m \in Nat /\ variables \in Seq(Defined) /\ defined_at \in Seq(Nat)
      /\ Len(defined_at) = m /\ \A v \in 1..m : defined_at[v] \in Nat /\ defined_at[v] <= n
  BY <1>1, Ranges
<1>4. instructions \in Seq(Instruction) /\ instructions' = Append(instructions, i)
  BY <1>1 DEF TypeOK, AppendAccepted
<1>5. /\ Len(instructions') = n + 1 /\ instructions'[n + 1] = i
      /\ \A k \in 1..n : instructions'[k] = instructions[k]
  BY <1>3, <1>4, AppendProperties
<1>6. Len(added) \in Nat
  BY LenProperties
<1>7. /\ Len(variables') = m + Len(added)
      /\ \A v \in 1..(m + Len(added)) :
           variables'[v] = IF v <= m THEN variables[v] ELSE added[v - m]
  <2> DEFINE grown == variables \o added
  <2>1. /\ Len(grown) = Len(variables) + Len(added)
        /\ \A v \in 1..(Len(variables) + Len(added)) :
             grown[v] = IF v <= Len(variables) THEN variables[v] ELSE added[v - Len(variables)]
    BY <1>3, ConcatProperties
  <2>2. variables' = grown
    BY <1>2
  <2> HIDE DEF grown
  <2>3. QED
    BY <2>1, <2>2
<1> DEFINE stamps == [k \in 1..Len(added) |-> n + 1]
<1>8. stamps \in Seq(Nat) /\ Len(stamps) = Len(added) /\ \A k \in 1..Len(stamps) : stamps[k] = n + 1
  BY <1>3, <1>6, IsASeq, LenProperties
<1>9. \A v \in 1..(m + Len(added)) : defined_at'[v] = IF v <= m THEN defined_at[v] ELSE n + 1
  <2> HIDE DEF stamps
  <2>1. defined_at' = defined_at \o stamps
    BY <1>2 DEF stamps
  <2>2. QED
    BY <1>3, <1>8, <2>1, StampedAt
<1> HIDE DEF n, m, types
<1>10. ASSUME NEW v \in 1..m
       PROVE  variables'[v] = variables[v] /\ defined_at'[v] = defined_at[v]
  <2>1. v \in 1..(m + Len(added)) /\ v <= m
    <3>1. m \in Nat /\ Len(added) \in Nat
      BY <1>3, <1>6
    <3>2. QED
      BY <3>1
  <2>2. variables'[v] = variables[v]
    BY <1>7, <2>1
  <2>3. defined_at'[v] = defined_at[v]
    BY <1>9, <2>1
  <2>4. QED
    BY <2>2, <2>3
<1>11. ASSUME NEW v \in (m + 1)..(m + Len(types))
       PROVE  /\ defined_at'[v] = n + 1 /\ variables'[v].var = types[v - m]
              /\ IsBlockBegin(i.operation) => variables'[v].scope_id = scope_counter + 1
  <2>1. v \in 1..(m + Len(added)) /\ ~(v <= m) /\ v - m \in 1..Len(added)
    BY <1>2, <1>3, <1>6
  <2>2. variables'[v] = added[v - m] /\ defined_at'[v] = n + 1
    BY <1>7, <1>9, <2>1
  <2>3. QED
    BY <1>2, <2>1, <2>2
<1>12. QED
  BY <1>2, <1>3, <1>5, <1>6, <1>7, <1>10, <1>11 DEF Adds, n, m, types

\* What was laid out stays where it is, and the new instruction defines what comes after it.
LEMMA AddsKeepsLaid ==
  ASSUME NEW i, Adds(i), Laid, instructions \in Seq(Instruction)
  PROVE  Laid'
<1> DEFINE n == Len(instructions)
           m == Len(variables)
           types == DefinedTypes(i.operation)
<1>1. /\ n \in Nat /\ m \in Nat /\ Len(types) \in Nat
      /\ Len(instructions') = n + 1 /\ instructions'[n + 1] = i
      /\ \A k \in 1..n : instructions'[k] = instructions[k]
      /\ Len(variables') = m + Len(types)
  BY DEF Adds
<1>2. ASSUME NEW v \in 1..(m + Len(types))
      PROVE  /\ v <= m => /\ variables'[v] = variables[v] /\ defined_at'[v] = defined_at[v]
                          /\ defined_at[v] \in Nat /\ defined_at[v] <= n
             /\ ~(v <= m) => defined_at'[v] = n + 1 /\ variables'[v].var = types[v - m]
  <2>1. CASE v <= m
    <3>1. v \in 1..m
      BY <1>1, <2>1
    <3>2. QED
      BY <2>1, <3>1 DEF Adds
  <2>2. CASE ~(v <= m)
    <3>1. v \in (m + 1)..(m + Len(types))
      BY <1>1, <2>2
    <3>2. QED
      BY <2>2, <3>1 DEF Adds
  <2>3. QED
    BY <2>1, <2>2
<1> SUFFICES ASSUME NEW k \in 1..(n + 1)
             PROVE  \E b \in 0..Len(variables') : LaidAt(k, b)'
  BY <1>1 DEF Laid
<1> HIDE DEF n, m
<1>3. CASE k \in 1..n
  <2> DEFINE old == DefinedTypes(instructions[k].operation)
  <2>1. PICK b \in 0..m : LaidAt(k, b)
    BY <1>3 DEF Laid, n, m
  <2>2. /\ b + Len(old) <= m
        /\ \A v \in 1..m : /\ defined_at[v] < k <=> v <= b
                           /\ defined_at[v] < k + 1 <=> v <= b + Len(old)
        /\ \A j \in 1..Len(old) : variables[b + j].var = old[j]
    BY <2>1 DEF LaidAt, m
  <2>3. old = DefinedTypes(instructions'[k].operation) /\ Len(old) \in Nat
    <3>1. instructions'[k] = instructions[k]
      BY <1>1, <1>3
    <3>2. k \in 1..Len(instructions)
      BY <1>3 DEF n
    <3>3. instructions[k] \in Instruction
      BY <3>2, ElementOfSeq
    <3>4. instructions[k].operation \in Operation
      BY <3>3 DEF Instruction
    <3>5. QED
      BY <3>1, <3>4, SessionsDefined
  <2> HIDE DEF old, types
  <2>4. ASSUME NEW v \in 1..(m + Len(types))
        PROVE  /\ defined_at'[v] < k <=> v <= b
               /\ defined_at'[v] < k + 1 <=> v <= b + Len(old)
    <3>1. CASE v <= m
      <4>1. v \in 1..m /\ defined_at'[v] = defined_at[v]
        BY <1>1, <1>2, <3>1
      <4>2. QED
        BY <2>2, <4>1
    <3>2. CASE ~(v <= m)
      <4>1. defined_at'[v] = n + 1
        BY <1>2, <3>2
      <4>2. n + 1 > k /\ ~(n + 1 < k) /\ ~(n + 1 < k + 1)
        <5>1. n \in Nat
          BY <1>1
        <5>2. QED
          BY <1>3, <5>1
      <4>3. ~(v <= b) /\ ~(v <= b + Len(old))
        <5>1. m \in Nat /\ Len(old) \in Nat /\ b + Len(old) <= m
          BY <1>1, <2>2, <2>3
        <5>2. QED
          BY <3>2, <5>1
      <4>4. QED
        BY <4>1, <4>2, <4>3
    <3>3. QED
      BY <3>1, <3>2
  <2>5. ASSUME NEW j \in 1..Len(old)
        PROVE  variables'[b + j].var = old[j]
    <3>1. b + j \in 1..(m + Len(types)) /\ b + j <= m
      BY <1>1, <2>2, <2>3
    <3>2. QED
      BY <1>2, <2>2, <3>1
  <2>6. b + Len(old) <= m + Len(types) /\ b \in 0..(m + Len(types))
    BY <1>1, <2>2, <2>3
  <2>7. LaidAt(k, b)'
    BY <1>1, <2>3, <2>4, <2>5, <2>6 DEF LaidAt
  <2>8. QED
    BY <1>1, <2>6, <2>7
<1>4. CASE k = n + 1
  <2>1. DefinedTypes(instructions'[k].operation) = types
    BY <1>1, <1>4
  <2> HIDE DEF types
  <2>2. ASSUME NEW v \in 1..(m + Len(types))
        PROVE  /\ defined_at'[v] < k <=> v <= m
               /\ defined_at'[v] < k + 1 <=> v <= m + Len(types)
    <3>1. CASE v <= m
      BY <1>1, <1>2, <1>4, <3>1
    <3>2. CASE ~(v <= m)
      BY <1>1, <1>2, <1>4, <3>2
    <3>3. QED
      BY <3>1, <3>2
  <2>3. ASSUME NEW j \in 1..Len(types)
        PROVE  variables'[m + j].var = types[j]
    <3>1. m + j \in 1..(m + Len(types)) /\ ~(m + j <= m) /\ (m + j) - m = j
      BY <1>1
    <3>2. QED
      BY <1>2, <3>1
  <2>4. m \in 0..(m + Len(types)) /\ m + Len(types) <= m + Len(types)
    BY <1>1
  <2>5. PICK b \in 0..(m + Len(types)) : b = m
    BY <2>4
  <2>6. LaidAt(k, b)'
    BY <1>1, <2>1, <2>2, <2>3, <2>4, <2>5 DEF LaidAt
  <2>7. QED
    BY <1>1, <2>6
<1>5. QED
  BY <1>1, <1>3, <1>4

\* The sessions there are after an instruction has been accepted.
LEMMA AddsSessions ==
  ASSUME NEW i, Adds(i)
  PROVE  /\ \A v \in Sessions : /\ v \in Sessions' /\ variables'[v] = variables[v]
                                /\ defined_at'[v] = defined_at[v]
                                /\ defined_at[v] \in Nat /\ defined_at[v] <= Len(instructions)
         /\ i.operation.name # "BeginOnSetupSuccess" => Sessions' = Sessions
         /\ i.operation.name = "BeginOnSetupSuccess" =>
              /\ Sessions' = Sessions \cup {Len(variables) + 1}
              /\ variables'[Len(variables) + 1].scope_id = scope_counter + 1
<1> DEFINE n == Len(instructions)
           m == Len(variables)
           types == DefinedTypes(i.operation)
<1>1. /\ n \in Nat /\ m \in Nat /\ Len(types) \in Nat /\ i \in Instruction
      /\ Len(variables') = m + Len(types)
      /\ \A v \in 1..m : /\ variables'[v] = variables[v] /\ defined_at'[v] = defined_at[v]
                         /\ defined_at[v] \in Nat /\ defined_at[v] <= n
      /\ \A v \in (m + 1)..(m + Len(types)) :
          /\ defined_at'[v] = n + 1 /\ variables'[v].var = types[v - m]
          /\ IsBlockBegin(i.operation) => variables'[v].scope_id = scope_counter + 1
  BY DEF Adds
<1>2. i.operation \in Operation
  BY <1>1 DEF Instruction
<1>3. /\ i.operation.name = "BeginOnSetupSuccess" => Len(types) = 1 /\ types[1][1] = "Session"
      /\ i.operation.name # "BeginOnSetupSuccess" =>
           \A j \in 1..Len(types) : types[j][1] # "Session"
  BY <1>2, SessionsDefined
<1>4. \A v : v \in Sessions <=> v \in 1..m /\ variables[v].var[1] = "Session"
  BY DEF Sessions
<1>5. \A v : v \in Sessions' <=> v \in 1..(m + Len(types)) /\ variables'[v].var[1] = "Session"
  BY <1>1 DEF Sessions
<1> HIDE DEF m, types
<1>6. ASSUME NEW v \in 1..(m + Len(types)), v \notin 1..m
      PROVE  /\ v \in (m + 1)..(m + Len(types)) /\ v - m \in 1..Len(types)
             /\ variables'[v].var = types[v - m]
  <2>1. v \in (m + 1)..(m + Len(types)) /\ v - m \in 1..Len(types)
    BY <1>1, <1>6
  <2>2. QED
    BY <1>1, <2>1
<1>7. \A v \in 1..m : v \in 1..(m + Len(types))
  BY <1>1
<1>8. ASSUME NEW v \in Sessions
      PROVE  /\ v \in Sessions' /\ variables'[v] = variables[v]
             /\ defined_at'[v] = defined_at[v]
             /\ defined_at[v] \in Nat /\ defined_at[v] <= n
  BY <1>1, <1>4, <1>5, <1>7
<1>9. CASE i.operation.name # "BeginOnSetupSuccess"
  <2>1. ASSUME NEW v \in Sessions' PROVE v \in Sessions
    <3>1. v \in 1..(m + Len(types)) /\ variables'[v].var[1] = "Session"
      BY <1>5
    <3>2. v \in 1..m
      BY <1>3, <1>6, <1>9, <3>1
    <3>3. QED
      BY <1>1, <1>4, <3>1, <3>2
  <2>2. Sessions' = Sessions
    BY <1>8, <2>1
  <2>3. QED
    BY <1>8, <1>9, <2>2 DEF n
<1>10. CASE i.operation.name = "BeginOnSetupSuccess"
  <2>1. /\ m + 1 \in 1..(m + Len(types)) /\ m + 1 \notin 1..m /\ (m + 1) - m = 1
        /\ \A v \in 1..(m + Len(types)) : v \in 1..m \/ v = m + 1
    <3>1. Len(types) = 1 /\ m \in Nat
      BY <1>1, <1>3, <1>10
    <3>2. QED
      BY <3>1
  <2>2. variables'[m + 1].var[1] = "Session" /\ variables'[m + 1].scope_id = scope_counter + 1
    <3>1. IsBlockBegin(i.operation)
      BY <1>10 DEF IsBlockBegin
    <3>2. m + 1 \in (m + 1)..(m + Len(types)) /\ variables'[m + 1].var = types[1]
      BY <1>6, <2>1
    <3>3. QED
      BY <1>1, <1>3, <1>10, <3>1, <3>2
  <2>3. ASSUME NEW v \in Sessions' PROVE v \in Sessions \cup {m + 1}
    <3>1. v \in 1..(m + Len(types)) /\ variables'[v].var[1] = "Session"
      BY <1>5
    <3>2. CASE v \in 1..m
      <4>1. variables'[v] = variables[v]
        BY <1>1, <3>2
      <4>2. QED
        BY <1>4, <3>1, <3>2, <4>1
    <3>3. QED
      BY <2>1, <3>1, <3>2
  <2>4. m + 1 \in Sessions'
    BY <1>5, <2>1, <2>2
  <2>5. Sessions' = Sessions \cup {m + 1}
    BY <1>8, <2>3, <2>4
  <2>6. QED
    BY <1>8, <1>10, <2>2, <2>5 DEF n, m
<1>11. QED
  BY <1>9, <1>10

\* What is known of the scopes and of what closed them.
ScopesKnown ==
  /\ scope_counter \in Nat \ {0} /\ Len(instructions) \in Nat
  /\ DOMAIN closed_at = 1..scope_counter /\ Len(closed_at) = scope_counter
  /\ closed_at \in Seq(Nat)
  /\ \A s \in 1..scope_counter : closed_at[s] \in Nat /\ closed_at[s] <= Len(instructions)
  /\ active_scopes \in Seq(Scope) /\ Len(active_scopes) \in Nat /\ Len(active_scopes) >= 1
  /\ Last(active_scopes) = active_scopes[Len(active_scopes)]
  /\ \A d \in 1..Len(active_scopes) :
       /\ active_scopes[d].id \in 1..scope_counter /\ closed_at[active_scopes[d].id] = 0
       /\ active_scopes[d].begin \in Nat

\* What the builder's own invariant says of scopes, in the form used here.
LEMMA BuiltScopes ==
  ASSUME BuiltInv, result = "open"
  PROVE  ScopesKnown
<1>1. Inv /\ ReuseInv /\ ~popped
  BY DEF BuiltInv, Inv, InUse
<1>2. /\ active_scopes \in Seq(Scope) /\ active_scopes # << >>
      /\ Len(active_scopes) \in Nat /\ Len(active_scopes) >= 1
      /\ \A d \in 1..Len(active_scopes) : active_scopes[d].id \in 1..scope_counter
      /\ \A s : s \in active_scopes_set <=>
              \E d \in 1..Len(active_scopes) : s = active_scopes[d].id
      /\ \A s : s \in active_scopes_set <=> s \in 1..scope_counter /\ closed_at[s] = 0
  BY <1>1, ScopeFacts
<1>3. /\ scope_counter \in Nat \ {0} /\ Len(instructions) \in Nat
      /\ DOMAIN closed_at = 1..scope_counter /\ Len(closed_at) = scope_counter
      /\ closed_at \in Seq(Nat)
      /\ \A s \in 1..scope_counter : closed_at[s] \in Nat /\ closed_at[s] <= Len(instructions)
  BY <1>1, Ranges
<1>4. \A d \in 1..Len(active_scopes) :
        closed_at[active_scopes[d].id] = 0 /\ active_scopes[d].begin \in Nat
  <2>1. \A d \in 1..Len(active_scopes) : active_scopes[d] \in Scope
    BY <1>2, ElementOfSeq
  <2>2. QED
    BY <1>2, <2>1 DEF Scope
<1>5. Last(active_scopes) = active_scopes[Len(active_scopes)]
  BY DEF Last
<1>6. QED
  BY <1>2, <1>3, <1>4, <1>5 DEF ScopesKnown

\* A block end closes the innermost scope, which has a session exactly if it is the end of a
\* conditional block (builder.rs:155-170).
LEMMA ExitKeepsGuarding ==
  ASSUME NEW i, Adds(i), Guarding, Begun, ScopesKnown, IsBlockEnd(i.operation),
         Last(active_scopes).begin # None, IsMatchingBlockBegin(i.operation, Opener),
         active_scopes' = Front(active_scopes), scope_counter' = scope_counter,
         closed_at' = [closed_at EXCEPT ![Last(active_scopes).id] = Len(instructions) + 1]
  PROVE  Guarding' /\ Begun'
<1> DEFINE n == Len(instructions)
           x == Last(active_scopes).id
           b == Last(active_scopes).begin
<1>1. /\ n \in Nat /\ Len(instructions') = n + 1 /\ instructions'[n + 1] = i
      /\ \A k \in 1..n : instructions'[k] = instructions[k]
  BY DEF Adds
<1>2. /\ i.operation.name # "BeginOnSetupSuccess" /\ b \in 1..n
      /\ i.operation.name = "EndOnSetupSuccess" <=> \E v \in Sessions : BlockOf(v) = x
  <2>1. Len(active_scopes) \in 1..Len(active_scopes)
    BY DEF ScopesKnown
  <2>2. b \in 1..n /\ (NameAt(b) = "BeginOnSetupSuccess" <=> \E v \in Sessions : BlockOf(v) = x)
    BY <2>1 DEF Begun, ScopesKnown
  <2>3. Opener.name = NameAt(b)
    BY DEF Opener, NameAt
  <2>4. QED
    BY <2>2, <2>3 DEF IsMatchingBlockBegin, IsBlockEnd
<1>3. Sessions' = Sessions
  BY <1>2, AddsSessions
<1>4. ASSUME NEW v \in Sessions
      PROVE  /\ BlockOf(v)' = BlockOf(v) /\ BlockOf(v) \in 2..scope_counter
             /\ BlockOf(v) \in 1..scope_counter
             /\ defined_at'[v] = defined_at[v] /\ defined_at[v] \in Nat /\ defined_at[v] <= n
  <2>1. BlockOf(v) \in 2..scope_counter
    BY DEF Guarding
  <2>2. BlockOf(v) \in 1..scope_counter
    BY <2>1 DEF ScopesKnown
  <2>3. QED
    BY <2>1, <2>2, AddsSessions DEF BlockOf
<1>5. /\ x \in 1..scope_counter /\ closed_at[x] = 0
      /\ \A s \in 1..scope_counter :
           /\ closed_at'[s] = IF s = x THEN n + 1 ELSE closed_at[s]
           /\ closed_at[s] \in Nat /\ closed_at[s] <= n
  BY DEF ScopesKnown
<1>6. \A k \in 1..n : instructions'[k].operation.name = NameAt(k)
  BY <1>1 DEF NameAt
<1>7. /\ \A v \in Sessions : closed_at[BlockOf(v)] # 0 =>
           /\ closed_at[BlockOf(v)] \in 1..n
           /\ NameAt(closed_at[BlockOf(v)]) = "EndOnSetupSuccess"
           /\ defined_at[v] < closed_at[BlockOf(v)]
      /\ \A k \in 1..n : NameAt(k) = "EndOnSetupSuccess" =>
           \E v \in Sessions : closed_at[BlockOf(v)] = k
      /\ \A v, w \in Sessions : BlockOf(v) = BlockOf(w) => v = w
      /\ \A s, t \in 1..scope_counter : closed_at[s] = closed_at[t] /\ closed_at[s] # 0 => s = t
  <2>1. \A v \in Sessions : closed_at[BlockOf(v)] # 0 => closed_at[BlockOf(v)] \in 1..n
    BY <1>1, <1>4, <1>5
  <2>2. QED
    BY <2>1 DEF Guarding
<1>8. ASSUME NEW v \in Sessions, closed_at'[BlockOf(v)] # 0
      PROVE  /\ instructions'[closed_at'[BlockOf(v)]].operation.name = "EndOnSetupSuccess"
             /\ defined_at[v] < closed_at'[BlockOf(v)]
  <2>1. CASE BlockOf(v) = x
    <3>1. closed_at'[BlockOf(v)] = n + 1
      BY <1>5, <2>1
    <3>2. i.operation.name = "EndOnSetupSuccess"
      BY <1>2, <2>1
    <3>3. QED
      BY <1>1, <1>4, <3>1, <3>2
  <2>2. CASE BlockOf(v) # x
    <3>1. closed_at'[BlockOf(v)] = closed_at[BlockOf(v)]
      BY <1>4, <1>5, <2>2
    <3>2. QED
      BY <1>6, <1>7, <1>8, <3>1
  <2>3. QED
    BY <2>1, <2>2
<1>9. ASSUME NEW k \in 1..(n + 1), instructions'[k].operation.name = "EndOnSetupSuccess"
      PROVE  \E v \in Sessions : closed_at'[BlockOf(v)] = k
  <2>1. CASE k \in 1..n
    <3>1. PICK v \in Sessions : closed_at[BlockOf(v)] = k
      BY <1>6, <1>7, <1>9, <2>1
    <3>2. BlockOf(v) # x
      BY <1>5, <2>1, <3>1
    <3>3. closed_at'[BlockOf(v)] = k
      BY <1>4, <1>5, <3>1, <3>2
    <3>4. QED
      BY <3>3
  <2>2. CASE k = n + 1
    <3>1. PICK v \in Sessions : BlockOf(v) = x
      BY <1>1, <1>2, <1>9, <2>2
    <3>2. QED
      BY <1>5, <2>2, <3>1
  <2>3. QED
    BY <1>1, <2>1, <2>2
<1>10. ASSUME NEW s \in 1..scope_counter, NEW t \in 1..scope_counter,
              closed_at'[s] = closed_at'[t], closed_at'[s] # 0
       PROVE  s = t
  <2>1. CASE s = x \/ t = x
    BY <1>1, <1>5, <1>10, <2>1
  <2>2. CASE s # x /\ t # x
    BY <1>5, <1>7, <1>10, <2>2
  <2>3. QED
    BY <2>1, <2>2
<1> HIDE DEF n, x, b
<1>11. Guarding'
  <2>1. \A v \in Sessions : BlockOf(v)' = BlockOf(v)
    BY <1>4
  <2>2. \A k \in Nat : NameAt(k)' = instructions'[k].operation.name
    BY DEF NameAt
  <2>3. \A v \in Sessions : closed_at'[BlockOf(v)] # 0 => closed_at'[BlockOf(v)] \in Nat
    BY <1>1, <1>4, <1>5
  <2>4. /\ (\A v \in Sessions : BlockOf(v) \in 2..scope_counter)'
        /\ (\A v, w \in Sessions : BlockOf(v) = BlockOf(w) => v = w)'
    BY <1>3, <1>4, <1>7, <2>1
  <2>5. (\A v \in Sessions : closed_at[BlockOf(v)] # 0 =>
           /\ NameAt(closed_at[BlockOf(v)]) = "EndOnSetupSuccess"
           /\ defined_at[v] < closed_at[BlockOf(v)])'
    BY <1>3, <1>4, <1>8, <2>1 DEF NameAt
  <2>6. (\A k \in 1..Len(instructions) : NameAt(k) = "EndOnSetupSuccess" =>
           \E v \in Sessions : closed_at[BlockOf(v)] = k)'
    BY <1>1, <1>3, <1>9, <2>1 DEF NameAt
  <2>7. (\A s, t \in 1..scope_counter : closed_at[s] = closed_at[t] /\ closed_at[s] # 0 => s = t)'
    BY <1>10
  <2>8. QED
    BY <2>4, <2>5, <2>6, <2>7 DEF Guarding
<1>12. Begun'
  <2>1. /\ Len(active_scopes') = Len(active_scopes) - 1 /\ Len(active_scopes) \in Nat
        /\ \A d \in 1..(Len(active_scopes) - 1) :
             active_scopes'[d] = active_scopes[d] /\ d \in 1..Len(active_scopes)
    <3>1. active_scopes # << >>
      BY EmptySeq DEF ScopesKnown
    <3>2. QED
      BY <3>1, FrontProperties DEF ScopesKnown
  <2>2. ASSUME NEW d \in 1..Len(active_scopes'), active_scopes'[d].begin # None
        PROVE  /\ active_scopes'[d].begin \in 1..(n + 1)
               /\ instructions'[active_scopes'[d].begin].operation.name = "BeginOnSetupSuccess" <=>
                    \E v \in Sessions : BlockOf(v) = active_scopes'[d].id
    <3>1. /\ active_scopes[d].begin \in 1..n
          /\ NameAt(active_scopes[d].begin) = "BeginOnSetupSuccess" <=>
               \E v \in Sessions : BlockOf(v) = active_scopes[d].id
      BY <2>1, <2>2 DEF Begun, n
    <3>2. QED
      BY <1>1, <1>6, <2>1, <3>1
  <2>3. QED
    BY <1>1, <1>3, <1>4, <2>2 DEF Begun, NameAt
<1>13. QED
  BY <1>11, <1>12

\* A block's beginning opens a scope of its own, with a session exactly if it is a conditional
\* block's; any other instruction leaves the scopes alone (builder.rs:172-205).
LEMMA EnterKeepsGuarding ==
  ASSUME NEW i, Adds(i), Guarding, Begun, ScopesKnown, ~IsBlockEnd(i.operation),
         \/ /\ IsBlockBegin(i.operation)
            /\ active_scopes' = Append(active_scopes, [begin |-> Len(instructions) + 1,
                                                       id |-> scope_counter + 1])
            /\ scope_counter' = scope_counter + 1
            /\ closed_at' = Append(closed_at, 0)
         \/ /\ ~IsBlockBegin(i.operation)
            /\ UNCHANGED <<active_scopes, scope_counter, closed_at>>
  PROVE  Guarding' /\ Begun'
<1> DEFINE n == Len(instructions)
           m == Len(variables)
           c == scope_counter
           begins == IsBlockBegin(i.operation)
           guards == i.operation.name = "BeginOnSetupSuccess"
<1>1. /\ n \in Nat /\ Len(instructions') = n + 1 /\ instructions'[n + 1] = i
      /\ \A k \in 1..n : instructions'[k] = instructions[k]
  BY DEF Adds
<1>2. /\ i.operation.name # "EndOnSetupSuccess"
      /\ guards => begins
  BY DEF IsBlockEnd, IsBlockBegin
<1>3. /\ c \in Nat \ {0} /\ c' = IF begins THEN c + 1 ELSE c
      /\ \A s \in 1..c : closed_at'[s] = closed_at[s] /\ closed_at[s] \in Nat /\ closed_at[s] <= n
      /\ begins => closed_at'[c + 1] = 0
  <2>1. /\ c \in Nat \ {0} /\ closed_at \in Seq(Nat) /\ Len(closed_at) = c
        /\ \A s \in 1..c : closed_at[s] \in Nat /\ closed_at[s] <= n
    BY DEF ScopesKnown
  <2>2. /\ \A s \in 1..c : Append(closed_at, 0)[s] = closed_at[s]
        /\ Append(closed_at, 0)[c + 1] = 0
    BY <2>1, AppendProperties
  <2>3. QED
    BY <2>1, <2>2
<1>4. \A s \in 1..c' : s \in 1..c \/ (begins /\ s = c + 1)
  BY <1>3
<1>5. ASSUME NEW v \in Sessions
      PROVE  /\ variables'[v].scope_id = BlockOf(v) /\ BlockOf(v) \in 2..c
             /\ BlockOf(v) \in 1..c /\ BlockOf(v) # c + 1
             /\ defined_at'[v] = defined_at[v]
  <2>1. BlockOf(v) \in 2..c
    BY DEF Guarding
  <2>2. BlockOf(v) \in 1..c /\ BlockOf(v) # c + 1
    BY <1>3, <2>1
  <2>3. QED
    BY <2>1, <2>2, AddsSessions DEF BlockOf
<1>6. /\ ~guards => Sessions' = Sessions
      /\ guards => Sessions' = Sessions \cup {m + 1} /\ variables'[m + 1].scope_id = c + 1
  BY AddsSessions
<1>7. \A k \in 1..n : instructions'[k].operation.name = NameAt(k)
  BY <1>1 DEF NameAt
<1>8. /\ \A v \in Sessions : closed_at[BlockOf(v)] # 0 =>
           /\ closed_at[BlockOf(v)] \in 1..n
           /\ NameAt(closed_at[BlockOf(v)]) = "EndOnSetupSuccess"
           /\ defined_at[v] < closed_at[BlockOf(v)]
      /\ \A k \in 1..n : NameAt(k) = "EndOnSetupSuccess" =>
           \E v \in Sessions : closed_at[BlockOf(v)] = k
      /\ \A v, w \in Sessions : BlockOf(v) = BlockOf(w) => v = w
      /\ \A s, t \in 1..c : closed_at[s] = closed_at[t] /\ closed_at[s] # 0 => s = t
  <2>1. \A v \in Sessions : closed_at[BlockOf(v)] # 0 => closed_at[BlockOf(v)] \in 1..n
    BY <1>1, <1>3, <1>5
  <2>2. QED
    BY <2>1 DEF Guarding
<1>9. \A v \in Sessions' : v \in Sessions \/ (guards /\ v = m + 1 /\ variables'[v].scope_id = c + 1)
  BY <1>6
<1>10. Guarding'
  <2> HIDE DEF guards, begins, c, m, n
  <2>1. ASSUME NEW v \in Sessions'
        PROVE  variables'[v].scope_id \in 2..c'
    <3>1. CASE v \in Sessions
      BY <1>3, <1>5, <3>1
    <3>2. CASE guards /\ variables'[v].scope_id = c + 1
      BY <1>2, <1>3, <3>2
    <3>3. QED
      BY <1>9, <3>1, <3>2
  <2>2. ASSUME NEW v \in Sessions', NEW w \in Sessions',
               variables'[v].scope_id = variables'[w].scope_id
        PROVE  v = w
    BY <1>5, <1>8, <1>9, <2>2
  <2>3. ASSUME NEW v \in Sessions', closed_at'[variables'[v].scope_id] # 0
        PROVE  /\ instructions'[closed_at'[variables'[v].scope_id]].operation.name
                    = "EndOnSetupSuccess"
               /\ defined_at'[v] < closed_at'[variables'[v].scope_id]
    <3>1. v \in Sessions
      BY <1>2, <1>3, <1>9, <2>3
    <3>2. closed_at'[variables'[v].scope_id] = closed_at[BlockOf(v)]
      BY <1>3, <1>5, <3>1
    <3>3. QED
      BY <1>5, <1>7, <1>8, <2>3, <3>1, <3>2
  <2>4. ASSUME NEW k \in 1..(n + 1), instructions'[k].operation.name = "EndOnSetupSuccess"
        PROVE  \E v \in Sessions' : closed_at'[variables'[v].scope_id] = k
    <3>1. k \in 1..n
      BY <1>1, <1>2, <2>4
    <3>2. PICK v \in Sessions : closed_at[BlockOf(v)] = k
      BY <1>7, <1>8, <2>4, <3>1
    <3>3. v \in Sessions'
      BY AddsSessions
    <3>4. closed_at'[variables'[v].scope_id] = k
      BY <1>3, <1>5, <3>2
    <3>5. QED
      BY <3>3, <3>4
  <2>5. ASSUME NEW s \in 1..c', NEW t \in 1..c', closed_at'[s] = closed_at'[t], closed_at'[s] # 0
        PROVE  s = t
    <3>1. s \in 1..c /\ t \in 1..c
      BY <1>3, <1>4, <2>5
    <3>2. QED
      BY <1>3, <1>8, <2>5, <3>1
  <2>6. QED
    BY <1>1, <2>1, <2>2, <2>3, <2>4, <2>5 DEF Guarding, BlockOf, NameAt, c
<1>11. Begun'
  <2> DEFINE new == [begin |-> n + 1, id |-> c + 1]
             l == Len(active_scopes)
  <2>1. /\ l \in Nat /\ active_scopes \in Seq(Scope)
        /\ \A d \in 1..l : active_scopes[d].id \in 1..c
    BY DEF ScopesKnown
  <2>2. ASSUME NEW d \in 1..Len(active_scopes')
        PROVE  \/ d \in 1..l /\ active_scopes'[d] = active_scopes[d]
               \/ begins /\ active_scopes'[d] = new
    <3>1. CASE begins
      <4>1. new \in Scope
        BY <1>1, <1>3 DEF Scope
      <4>2. /\ Len(active_scopes') = l + 1 /\ active_scopes'[l + 1] = new
            /\ \A e \in 1..l : active_scopes'[e] = active_scopes[e]
        <5>1. active_scopes' = Append(active_scopes, new)
          BY <3>1
        <5> HIDE DEF new
        <5>2. QED
          BY <2>1, <4>1, <5>1, AppendProperties
      <4>3. QED
        BY <2>1, <3>1, <4>2
    <3>2. CASE ~begins
      BY <3>2
    <3>3. QED
      BY <3>1, <3>2
  <2>3. new.begin = n + 1 /\ new.id = c + 1
    OBVIOUS
  <2>4. ASSUME NEW d \in 1..Len(active_scopes'), active_scopes'[d].begin # None
        PROVE  /\ active_scopes'[d].begin \in 1..(n + 1)
               /\ instructions'[active_scopes'[d].begin].operation.name = "BeginOnSetupSuccess" <=>
                    \E v \in Sessions' : variables'[v].scope_id = active_scopes'[d].id
    <3> HIDE DEF new, begins, guards
    <3>1. CASE d \in 1..l /\ active_scopes'[d] = active_scopes[d]
      <4>1. /\ active_scopes[d].begin \in 1..n
            /\ NameAt(active_scopes[d].begin) = "BeginOnSetupSuccess" <=>
                 \E v \in Sessions : BlockOf(v) = active_scopes[d].id
        BY <2>4, <3>1 DEF Begun
      <4>2. active_scopes[d].id \in 1..c /\ active_scopes[d].id # c + 1
        BY <1>3, <2>1, <3>1
      <4>3. (\E v \in Sessions' : variables'[v].scope_id = active_scopes[d].id)
              <=> \E v \in Sessions : BlockOf(v) = active_scopes[d].id
        <5>1. \A v \in Sessions : v \in Sessions' /\ variables'[v].scope_id = BlockOf(v)
          BY <1>5, AddsSessions
        <5>2. \A v \in Sessions' : v \in Sessions \/ variables'[v].scope_id = c + 1
          BY <1>9
        <5>3. QED
          BY <4>2, <5>1, <5>2
      <4>4. QED
        BY <1>1, <1>7, <3>1, <4>1, <4>3
    <3>2. CASE begins /\ active_scopes'[d] = new
      <4>1. active_scopes'[d].begin = n + 1 /\ active_scopes'[d].id = c + 1
        BY <2>3, <3>2
      <4>2. guards <=> \E v \in Sessions' : variables'[v].scope_id = c + 1
        <5>1. ASSUME guards PROVE \E v \in Sessions' : variables'[v].scope_id = c + 1
          BY <1>6, <5>1
        <5>2. ASSUME ~guards, NEW v \in Sessions' PROVE variables'[v].scope_id # c + 1
          BY <1>5, <1>6, <5>2
        <5>3. QED
          BY <5>1, <5>2
      <4>3. instructions'[n + 1].operation.name = "BeginOnSetupSuccess" <=> guards
        BY <1>1 DEF guards
      <4>4. n + 1 \in 1..(n + 1)
        BY <1>1
      <4>5. QED
        BY <4>1, <4>2, <4>3, <4>4
    <3>3. QED
      BY <2>2, <3>1, <3>2
  <2>5. QED
    BY <1>1, <2>4 DEF Begun, BlockOf, NameAt
<1>12. QED
  BY <1>10, <1>11

\* Every instruction a builder accepts keeps what is known of it.
LEMMA AppendKeepsBuilt ==
  ASSUME BuiltInv, result = "open", NEW i \in Instruction, AppendInstruction(i)
  PROVE  BuiltInv' /\ result' # "unchecked" /\ result' # "finalized"
<1>1. Inv'
  BY AppendKeepsStack DEF BuiltInv
<1>2. CASE AppendRejected(i) \/ AppendBlockMismatch(i) \/ AppendPanic(i)
  <2>1. result' \in Errors \cup {"panicked"} /\ instructions' = instructions
    BY <1>2 DEF AppendRejected, Fail, AppendBlockMismatch, AppendPanic, Errors
  <2>2. QED
    BY <1>1, <2>1 DEF BuiltInv, InUse, Errors
<1>3. CASE AppendAccepted(i)
  <2>1. Adds(i) /\ ScopesKnown /\ Laid /\ Later /\ Counted /\ Guarding /\ Begun
    BY <1>3, AcceptedAdds, BuiltScopes DEF BuiltInv, InUse
  <2>2. /\ result' = "open" /\ CountOK(i) /\ ConnectionOK(i) /\ ~popped'
        /\ Len(instructions) < MaxInstructions
    BY <1>3 DEF AppendAccepted, Accepts, InputsOK, BuiltInv, InUse
  <2>3. Laid'
    <3>1. instructions \in Seq(Instruction)
      BY DEF BuiltInv, Inv, ReuseInv, TypeOK
    <3>2. QED
      BY <2>1, <3>1, AddsKeepsLaid
  <2>4. /\ Len(instructions) \in Nat /\ Len(instructions') = Len(instructions) + 1
        /\ instructions'[Len(instructions) + 1] = i
        /\ \A k \in 1..Len(instructions) : instructions'[k] = instructions[k]
    BY <2>1 DEF Adds
  <2>5. Counted'
    <3>1. ASSUME NEW k \in 1..(Len(instructions) + 1)
          PROVE  CountOK(instructions'[k]) /\ ConnectionOK(instructions'[k])
      <4>1. CASE k \in 1..Len(instructions)
        BY <2>1, <2>4, <4>1 DEF Counted
      <4>2. CASE k = Len(instructions) + 1
        BY <2>2, <2>4, <4>2
      <4>3. QED
        BY <2>4, <4>1, <4>2
    <3>2. QED
      BY <2>4, <3>1 DEF Counted, CountOK, ConnectionOK
  <2>6. Guarding' /\ Begun'
    <3>1. ~(IsBlockEnd(i.operation) /\ IsBlockBegin(i.operation))
      BY DEF IsBlockEnd, IsBlockBegin
    <3>2. CASE IsBlockEnd(i.operation)
      BY <1>3, <2>1, <3>1, <3>2, AcceptedScopes, ExitKeepsGuarding
    <3>3. CASE ~IsBlockEnd(i.operation)
      BY <1>3, <2>1, <3>3, AcceptedScopes, EnterKeepsGuarding
    <3>4. QED
      BY <3>2, <3>3
  <2>7. Len(instructions') <= MaxInstructions
    BY <2>2, <2>4, BoundAssumption
  <2>8. Later'
    <3>1. ASSUME NEW v \in 1..Len(variables') PROVE defined_at'[v] # 0
      <4>1. /\ Len(variables) \in Nat /\ Len(DefinedTypes(i.operation)) \in Nat
            /\ Len(variables') = Len(variables) + Len(DefinedTypes(i.operation))
        BY <2>1 DEF Adds
      <4>2. CASE v \in 1..Len(variables)
        BY <2>1, <4>2 DEF Adds, Later
      <4>3. CASE v \in (Len(variables) + 1)..(Len(variables) + Len(DefinedTypes(i.operation)))
        BY <2>1, <2>4, <4>3 DEF Adds
      <4>4. QED
        BY <4>1, <4>2, <4>3
    <3>2. QED
      BY <3>1 DEF Later
  <2>9. QED
    BY <1>1, <2>2, <2>3, <2>5, <2>6, <2>7, <2>8 DEF BuiltInv
<1>4. QED
  BY <1>2, <1>3 DEF AppendInstruction

\* finalize changes nothing but what it answers, and so does a builder left alone.
LEMMA BuiltStays ==
  ASSUME BuiltInv, Inv', InUse' => InUse,
         UNCHANGED <<active_scopes, scope_counter, variables, instructions, history>>
  PROVE  BuiltInv'
<1>1. UNCHANGED <<active_scopes, scope_counter, variables, instructions, defined_at, closed_at,
                  popped>>
  BY DEF history
<1>2. Sessions' = Sessions
  BY <1>1 DEF Sessions
<1>3. ASSUME InUse PROVE Laid' /\ Later' /\ Counted'
  BY <1>1, <1>3 DEF BuiltInv, Laid, LaidAt, Later, Counted, CountOK, ConnectionOK
<1>4. ASSUME InUse PROVE Guarding' /\ Begun'
  BY <1>1, <1>2, <1>4 DEF BuiltInv, Guarding, Begun, BlockOf, NameAt
<1>5. QED
  BY <1>1, <1>3, <1>4 DEF BuiltInv

\* finalize changes what it answers and nothing else.
LEMMA FinalizeKeepsBuilt ==
  ASSUME BuiltInv, result = "open", Finalize
  PROVE  BuiltInv' /\ result' # "unchecked"
<1>1. Inv'
  BY FinalizeKeepsStack DEF BuiltInv
<1>2. QED
  BY <1>1, BuiltStays DEF Finalize, InUse

\* A new builder has accepted nothing.
LEMMA BuiltInit ==
  ASSUME Init
  PROVE  BuiltInv
<1>1. /\ instructions = << >> /\ variables = << >> /\ closed_at = <<0>> /\ scope_counter = 1
      /\ active_scopes = <<[begin |-> None, id |-> 1]>>
  BY DEF Init
<1>2. Len(instructions) = 0 /\ Len(variables) = 0 /\ Len(active_scopes) = 1
  BY <1>1
<1>3. active_scopes[1].begin = None /\ 1..0 = {} /\ 1..1 = {1}
  BY <1>1
<1>4. Sessions = {}
  BY <1>2 DEF Sessions
<1>5. ~popped /\ Laid /\ Later /\ Counted /\ Begun
  BY <1>2, <1>3 DEF Init, Laid, Later, Counted, Begun
<1>6. Guarding
  <2>1. \A k \in 1..Len(instructions) : FALSE
    BY <1>2, <1>3
  <2>2. \A s, t \in 1..scope_counter : s = t
    <3>1. 1..scope_counter = {1}
      BY <1>1, <1>3
    <3>2. QED
      BY <3>1
  <2>3. QED
    BY <1>4, <2>1, <2>2 DEF Guarding
<1>7. QED
  BY <1>2, <1>5, <1>6, InvInit, BoundAssumption DEF BuiltInv

-----------------------------------------------------------------------------
(* The compiler reads what the builder checked. *)

\* An input is read as the kind of value that the type the builder asks for stands for
\* (compiler.rs:242-385 against operation.rs:151-190).
LEMMA AccessorsMatch ==
  ASSUME NEW op \in Operation
  PROVE  /\ DOMAIN Accessors(op) = 1..Len(InputVariables(op))
         /\ \A k \in 1..Len(InputVariables(op)) :
              Accessors(op)[k] = KindOf(InputVariables(op)[k])
<1> USE DEF Accessors, InputVariables, KindOf
<1>1. CASE op.name = "Connect"
  BY <1>1
<1>2. CASE op.name = "SetVersions"
  BY <1>2
<1>3. CASE op.name = "SetFlags"
  BY <1>3
<1>4. CASE op.name = "SetEndpoint"
  BY <1>4
<1>5. CASE op.name = "SetDeviceInfo"
  BY <1>5
<1>6. CASE op.name = "EndBuildSetupConnection"
  BY <1>6
<1>7. CASE op.name = "SendSetupConnection"
  BY <1>7 DEF ConstSetupConnection
<1>8. CASE op.name = "BeginOnSetupSuccess"
  BY <1>8 DEF SetupAttempt
<1>9. CASE op.name = "SendRawFrame"
  BY <1>9
<1>10. CASE op.name = "AdvanceTime"
  BY <1>10
<1>11. CASE op.name \notin {"Connect", "SetVersions", "SetFlags", "SetEndpoint", "SetDeviceInfo",
                            "EndBuildSetupConnection", "SendSetupConnection",
                            "BeginOnSetupSuccess", "SendRawFrame", "AdvanceTime"}
  BY <1>11
<1>12. QED
  BY <1>1, <1>2, <1>3, <1>4, <1>5, <1>6, <1>7, <1>8, <1>9, <1>10, <1>11, Zenon

\* What is known of a program the builder has handed out.
HandedOut ==
  /\ BuiltInv /\ result = "finalized" /\ program = instructions
  /\ CompileTypes /\ Mirrored

\* The ranges of what is kept of a program handed out.
LEMMA HandedOutMeans ==
  ASSUME HandedOut
  PROVE  /\ Laid /\ Counted /\ Guarding
         /\ program \in Seq(Instruction) /\ Len(program) \in Nat /\ DOMAIN program = 1..Len(program)
         /\ values \in Seq(Value) /\ Len(values) \in Nat /\ DOMAIN values = 1..Len(values)
         /\ Len(variables) \in Nat /\ DOMAIN variables = 1..Len(variables)
         /\ \A v \in 1..Len(variables) : defined_at[v] \in Nat /\ defined_at[v] <= Len(instructions)
         /\ scope_counter \in Nat \ {0}
         /\ \A s \in 1..scope_counter : closed_at[s] \in Nat /\ closed_at[s] <= Len(instructions)
         /\ \A s \in 2..scope_counter : closed_at[s] # 0
         /\ at \in Nat /\ at >= 1
<1>1. ~popped /\ Laid /\ Counted /\ Guarding /\ Inv
  BY DEF HandedOut, BuiltInv, InUse
<1>2. ReuseInv
  BY <1>1 DEF Inv
<1>3. FinalizedIsClosed
  BY <1>1, InvCloses
<1>4. CompileTypes
  BY DEF HandedOut
<1>5. /\ program \in Seq(Instruction) /\ Len(program) \in Nat /\ DOMAIN program = 1..Len(program)
      /\ values \in Seq(Value) /\ Len(values) \in Nat /\ DOMAIN values = 1..Len(values)
  BY <1>4, LenProperties DEF CompileTypes
<1>6. at \in 1..(Len(program) + 1)
  BY <1>4 DEF CompileTypes
<1>7. at \in Nat /\ at >= 1
  BY <1>5, <1>6
<1>8. QED
  BY <1>1, <1>2, <1>3, <1>5, <1>7, Ranges DEF FinalizedIsClosed, HandedOut

\* Every input of an accepted instruction has a value when the compiler comes to it, and one
\* its type allows (builder.rs:125-143).
LEMMA HandReads ==
  ASSUME HandedOut, at \in DOMAIN program
  PROVE  /\ Readable(Instr)
         /\ \A k \in DOMAIN Accessors(Instr.operation) :
              /\ Instr.inputs[k] \in 1..Len(values)
              /\ Fits(Input(Instr, k), InputVariables(Instr.operation)[k])
<1> DEFINE op == Instr.operation
<1>1. /\ Counted /\ DOMAIN program = 1..Len(program) /\ DOMAIN values = 1..Len(values)
      /\ Len(values) \in Nat /\ Len(variables) \in Nat /\ DOMAIN variables = 1..Len(variables)
      /\ program = instructions /\ Mirrored /\ CompileTypes
  BY HandedOutMeans DEF HandedOut
<1>2. Instr \in Instruction /\ op \in Operation
  BY <1>1, AtHand
<1>3. Len(Instr.inputs) = Len(InputVariables(op))
  BY <1>1 DEF Counted, CountOK, Instr
<1>4. DOMAIN Instr.inputs = 1..Len(Instr.inputs) /\ Instr.inputs \in Seq(Nat)
  <2>1. Instr.inputs \in Seq(Nat)
    BY <1>2 DEF Instruction
  <2>2. QED
    BY <2>1, LenProperties
<1>5. /\ DOMAIN Accessors(op) = DOMAIN Instr.inputs
      /\ \A k \in DOMAIN Accessors(op) : Accessors(op)[k] = KindOf(InputVariables(op)[k])
  BY <1>2, <1>3, <1>4, AccessorsMatch
<1> HIDE DEF op
<1>6. ASSUME NEW k \in DOMAIN Accessors(op)
      PROVE  /\ Instr.inputs[k] \in 1..Len(values)
             /\ Fits(Input(Instr, k), InputVariables(op)[k])
             /\ Input(Instr, k).kind = Accessors(op)[k]
  <2> DEFINE v == Instr.inputs[k]
  <2>1. /\ v \in DOMAIN variables /\ defined_at[v] < at
        /\ variables[v].var = InputVariables(op)[k]
    <3>1. StaticallyValid
      BY DEF HandedOut, BuiltInv, Inv, ReuseInv
    <3>2. at \in DOMAIN instructions /\ Instr = instructions[at]
      BY <1>1 DEF Instr
    <3>3. k \in DOMAIN instructions[at].inputs
      BY <1>5, <3>2
    <3>4. QED
      BY <3>1, <3>2, <3>3 DEF StaticallyValid, op
  <2> HIDE DEF v
  <2>2. v \in 1..Len(values)
    BY <1>1, <2>1 DEF Mirrored
  <2>3. Fits(values[v], InputVariables(op)[k])
    BY <1>1, <2>1, <2>2 DEF Mirrored
  <2>4. Input(Instr, k) = values[v]
    BY DEF Input, v
  <2>5. Input(Instr, k).kind = Accessors(op)[k]
    BY <1>5, <2>3, <2>4 DEF Fits
  <2>6. QED
    BY <2>2, <2>3, <2>4, <2>5 DEF v
<1>7. Readable(Instr)
  BY <1>1, <1>6 DEF Readable, Unreadable, Missing, Unexpected, Input, op
<1>8. QED
  BY <1>6, <1>7 DEF op

-----------------------------------------------------------------------------
(* The values follow the variables. *)

\* What was read is still there: a setter changes a message that is being built, and nothing of
\* it but what it sets.
ValuesKept ==
  /\ Len(values) <= Len(values')
  /\ \A v \in 1..Len(values) :
       /\ values'[v].kind = values[v].kind
       /\ values[v].kind = "SetupConnection" => values'[v].spec.protocol = values[v].spec.protocol
       /\ values[v].kind # "SetupConnection" => values'[v] = values[v]
       /\ variables[v].var[1] # "MutSetupConnection" => values'[v] = values[v]

\* An instruction is compiled, and its variables are given values.
Follows ==
  LET types == DefinedTypes(Instr.operation)
  IN /\ at \in DOMAIN program /\ at' = at + 1 /\ program' = program
     /\ ValuesKept
     /\ Len(values') = Len(values) + Len(types)
     /\ \A j \in 1..Len(types) : Fits(values'[Len(values) + j], types[j])

\* The variables that follow those behind the compiler are those of the instruction at hand.
LEMMA HandLaid ==
  ASSUME HandedOut, at \in DOMAIN program
  PROVE  LaidAt(at, Len(values))
<1>1. /\ Laid /\ DOMAIN program = 1..Len(program) /\ program = instructions /\ Mirrored
      /\ Len(values) \in Nat /\ Len(variables) \in Nat
  BY HandedOutMeans DEF HandedOut
<1>2. PICK b \in 0..Len(variables) : LaidAt(at, b)
  BY <1>1 DEF Laid
<1>3. \A v \in 1..Len(variables) : v <= b <=> v <= Len(values)
  BY <1>1, <1>2 DEF LaidAt, Mirrored
<1>4. Len(values) <= Len(variables)
  BY <1>1 DEF Mirrored
<1>5. b = Len(values)
  <2>1. ~(b < Len(values))
    <3>1. SUFFICES ASSUME b < Len(values) PROVE FALSE
      OBVIOUS
    <3>2. Len(values) \in 1..Len(variables)
      BY <1>1, <1>4, <3>1
    <3>3. QED
      BY <1>1, <1>3, <3>1, <3>2
  <2>2. ~(b > Len(values))
    <3>1. SUFFICES ASSUME b > Len(values) PROVE FALSE
      OBVIOUS
    <3>2. b \in 1..Len(variables)
      BY <1>1, <3>1
    <3>3. QED
      BY <1>1, <1>3, <3>1, <3>2
  <2>3. QED
    BY <1>1, <2>1, <2>2
<1>6. QED
  BY <1>2, <1>5

\* The instruction at hand is one the builder accepted.
LEMMA HandTypes ==
  ASSUME HandedOut, at \in DOMAIN program
  PROVE  /\ Instr = instructions[at] /\ Instr.operation \in Operation
         /\ Len(DefinedTypes(Instr.operation)) \in Nat
  BY AtHand, SessionsDefined DEF HandedOut, Instr

\* The one variable an instruction defines is the next to be given a value.
LEMMA HandDefines ==
  ASSUME HandedOut, at \in DOMAIN program, NEW type, DefinedTypes(Instr.operation) = <<type>>
  PROVE  defined_at[Len(values) + 1] = at
<1>1. /\ Len(values) \in Nat /\ Len(variables) \in Nat /\ at \in Nat
      /\ \A v \in 1..Len(variables) : defined_at[v] \in Nat
  BY HandedOutMeans
<1>2. LaidAt(at, Len(values)) /\ Instr = instructions[at] /\ Len(<<type>>) = 1
  BY HandLaid, HandTypes
<1>3. /\ Len(values) + 1 <= Len(variables)
      /\ \A v \in 1..Len(variables) : /\ defined_at[v] < at <=> v <= Len(values)
                                      /\ defined_at[v] < at + 1 <=> v <= Len(values) + 1
  BY <1>2 DEF LaidAt
<1>4. Len(values) + 1 \in 1..Len(variables) /\ ~(Len(values) + 1 <= Len(values))
  BY <1>1, <1>3
<1>5. QED
  BY <1>1, <1>3, <1>4

\* The values stay those of the variables behind the compiler, one instruction further.
LEMMA FollowsMirrors ==
  ASSUME HandedOut, Follows, UNCHANGED vars
  PROVE  Mirrored'
<1> DEFINE types == DefinedTypes(Instr.operation)
           n == Len(values)
           m == Len(variables)
           t == Len(types)
<1>1. /\ n \in Nat /\ m \in Nat /\ at \in Nat /\ Mirrored
  BY HandedOutMeans DEF HandedOut
<1>2. /\ at' = at + 1 /\ ValuesKept /\ Len(values') = n + t
      /\ \A j \in 1..t : Fits(values'[n + j], types[j])
  BY DEF Follows
<1>3. t \in Nat /\ Instr = instructions[at]
  BY HandTypes DEF Follows
<1>4. /\ n + t <= m
      /\ \A v \in 1..m : defined_at[v] < at + 1 <=> v <= n + t
      /\ \A j \in 1..t : variables[n + j].var = types[j]
  BY <1>3, HandLaid DEF LaidAt, Follows
<1>5. variables' = variables /\ defined_at' = defined_at
  BY DEF vars, history
<1> HIDE DEF types, n, m, t
<1>6. ASSUME NEW v \in 1..(n + t)
      PROVE  Fits(values'[v], variables[v].var)
  <2>1. CASE v \in 1..n
    <3>1. Fits(values[v], variables[v].var)
      BY <1>1, <2>1 DEF Mirrored, n
    <3>2. /\ values'[v].kind = values[v].kind
          /\ values[v].kind = "SetupConnection" =>
               values'[v].spec.protocol = values[v].spec.protocol
      BY <1>2, <2>1 DEF ValuesKept, n
    <3>3. QED
      BY <3>1, <3>2 DEF Fits, KindOf
  <2>2. CASE v \notin 1..n
    <3>1. v - n \in 1..t /\ n + (v - n) = v
      BY <1>1, <1>3, <2>2
    <3>2. QED
      BY <1>2, <1>4, <3>1
  <2>3. QED
    BY <2>1, <2>2
<1>7. QED
  BY <1>2, <1>4, <1>5, <1>6 DEF Mirrored, n, m

\* Setters, sends, ends of blocks and steps define no variable.
LEMMA DefinesNothing ==
  ASSUME NEW op, op.name \in {"SetVersions", "SetFlags", "SetEndpoint", "SetDeviceInfo",
                              "EndOnSetupSuccess", "SendRawFrame", "AdvanceTime", "Probe"}
  PROVE  DefinedTypes(op) = << >> /\ Len(DefinedTypes(op)) = 0
  BY DEF DefinedTypes, OutputVariables, InnerOutputVariables

\* The variable an operation defines, when it defines one.
LEMMA DefinesOne ==
  ASSUME NEW op
  PROVE  /\ op.name = "Connect" => DefinedTypes(op) = <<<<"Connection">>>>
         /\ op.name = "EndBuildSetupConnection" =>
              DefinedTypes(op) = <<ConstSetupConnection(op.protocol)>>
         /\ op.name = "SendSetupConnection" => DefinedTypes(op) = <<SetupAttempt(op.protocol)>>
         /\ op.name = "BeginOnSetupSuccess" => DefinedTypes(op) = <<Session(op.protocol)>>
         /\ op.name = "BeginBuildSetupConnection" => DefinedTypes(op) = <<<<"MutSetupConnection">>>>
         /\ op.name = "LoadRole" => DefinedTypes(op) = <<<<"Role">>>>
         /\ op.name = "LoadConnection" => DefinedTypes(op) = <<<<"Connection">>>>
         /\ op.name = "LoadVersion" => DefinedTypes(op) = <<<<"Version">>>>
         /\ op.name = "LoadFlags" => DefinedTypes(op) = <<<<"Flags">>>>
         /\ op.name = "LoadPort" => DefinedTypes(op) = <<<<"Port">>>>
         /\ op.name = "LoadStr" => DefinedTypes(op) = <<<<"Str">>>>
         /\ op.name = "LoadBytes" => DefinedTypes(op) = <<<<"Bytes">>>>
         /\ op.name = "LoadDuration" => DefinedTypes(op) = <<<<"Duration">>>>
<1>1. /\ \A x : <<x>> \o << >> = <<x>>
      /\ \A x : << >> \o <<x>> = <<x>>
  OBVIOUS
<1>2. QED
  BY <1>1 DEF DefinedTypes, OutputVariables, InnerOutputVariables

\* The operations that only define values define one for each variable, of its type
\* (compiler.rs:246-275 against operation.rs:104-148).
LEMMA LoadedFits ==
  ASSUME NEW op \in Operation,
         op.name \in {"Nop", "LoadRole", "LoadConnection", "LoadVersion", "LoadFlags", "LoadPort",
                      "LoadStr", "LoadBytes", "LoadDuration", "BeginBuildSetupConnection"}
  PROVE  /\ Len(LoadedValues(op)) = Len(DefinedTypes(op))
         /\ \A j \in 1..Len(DefinedTypes(op)) : Fits(LoadedValues(op)[j], DefinedTypes(op)[j])
<1>1. CASE op.name = "Nop"
  <2> DEFINE a == op.outputs
             b == op.inner_outputs
             outs == [k \in 1..a |-> <<"Nop">>]
             ins == [k \in 1..b |-> <<"Nop">>]
             loaded == [k \in 1..(a + b) |-> [kind |-> "Nop"]]
  <2>1. a \in Nat /\ b \in Nat
    BY <1>1 DEF Operation
  <2>2. LoadedValues(op) = loaded
    BY <1>1 DEF LoadedValues, NopValues
  <2>3. DefinedTypes(op) = outs \o ins
    BY <1>1 DEF DefinedTypes, OutputVariables, InnerOutputVariables
  <2> HIDE DEF a, b
  <2>4. outs \in Seq({<<"Nop">>}) /\ ins \in Seq({<<"Nop">>}) /\ Len(outs) = a /\ Len(ins) = b
    BY <2>1, IsASeq, LenProperties
  <2>5. Len(loaded) = a + b /\ \A j \in 1..(a + b) : loaded[j] = [kind |-> "Nop"]
    <3>1. [kind |-> "Nop"] \in {[kind |-> "Nop"]} /\ a + b \in Nat
      BY <2>1
    <3>2. loaded \in Seq({[kind |-> "Nop"]})
      BY <3>1, IsASeq
    <3>3. QED
      BY <3>1, <3>2, LenProperties
  <2> HIDE DEF outs, ins, loaded
  <2>6. outs \o ins \in Seq({<<"Nop">>}) /\ Len(outs \o ins) = a + b
    BY <2>4, ConcatProperties
  <2>7. \A j \in 1..(a + b) : (outs \o ins)[j] = <<"Nop">>
    BY <2>6, ElementOfSeq
  <2>8. QED
    BY <2>2, <2>3, <2>5, <2>6, <2>7 DEF Fits, KindOf
<1>2. CASE op.name = "LoadRole"
  BY <1>2, DefinesOne DEF LoadedValues, Fits, KindOf
<1>3. CASE op.name = "LoadConnection"
  BY <1>3, DefinesOne DEF LoadedValues, Fits, KindOf
<1>4. CASE op.name = "LoadVersion"
  BY <1>4, DefinesOne DEF LoadedValues, Fits, KindOf
<1>5. CASE op.name = "LoadFlags"
  BY <1>5, DefinesOne DEF LoadedValues, Fits, KindOf
<1>6. CASE op.name = "LoadStr"
  BY <1>6, DefinesOne DEF LoadedValues, Fits, KindOf
<1>7. CASE op.name = "LoadPort"
  BY <1>7, DefinesOne DEF LoadedValues, Fits, KindOf
<1>8. CASE op.name = "LoadBytes"
  BY <1>8, DefinesOne DEF LoadedValues, Fits, KindOf
<1>9. CASE op.name = "LoadDuration"
  BY <1>9, DefinesOne DEF LoadedValues, Fits, KindOf
<1>10. CASE op.name = "BeginBuildSetupConnection"
  BY <1>10, DefinesOne DEF LoadedValues, Fits, KindOf
<1>11. QED
  BY <1>1, <1>2, <1>3, <1>4, <1>5, <1>6, <1>7, <1>8, <1>9, <1>10

\* A step that pushes a value for each of its variables.
LEMMA PushFollows ==
  ASSUME CompileTypes, at \in DOMAIN program, at' = at + 1, program' = program,
         NEW pushed \in Seq(Value), values' = values \o pushed,
         Len(pushed) = Len(DefinedTypes(Instr.operation)),
         \A j \in 1..Len(pushed) : Fits(pushed[j], DefinedTypes(Instr.operation)[j])
  PROVE  Follows /\ \A v \in 1..Len(values) : values'[v] = values[v]
<1> DEFINE n == Len(values)
           t == Len(pushed)
<1>1. n \in Nat /\ t \in Nat /\ values \in Seq(Value)
  BY LenProperties DEF CompileTypes
<1>2. /\ Len(values') = n + t
      /\ \A v \in 1..(n + t) : values'[v] = IF v <= n THEN values[v] ELSE pushed[v - n]
  <2> DEFINE grown == values \o pushed
  <2>1. /\ Len(grown) = Len(values) + Len(pushed)
        /\ \A v \in 1..(Len(values) + Len(pushed)) :
             grown[v] = IF v <= Len(values) THEN values[v] ELSE pushed[v - Len(values)]
    BY <1>1, ConcatProperties
  <2>2. values' = grown
    OBVIOUS
  <2> HIDE DEF grown
  <2>3. QED
    BY <2>1, <2>2
<1>3. n = Len(values) /\ t = Len(pushed)
  OBVIOUS
<1> HIDE DEF n, t
<1>4. \A v \in 1..n : values'[v] = values[v]
  BY <1>1, <1>2
<1>5. ASSUME NEW j \in 1..t PROVE values'[n + j] = pushed[j]
  <2>1. n + j \in 1..(n + t) /\ ~(n + j <= n) /\ (n + j) - n = j
    BY <1>1
  <2>2. QED
    BY <1>2, <2>1
<1>6. n <= n + t
  BY <1>1
<1>7. ValuesKept
  BY <1>2, <1>3, <1>4, <1>6 DEF ValuesKept
<1>8. QED
  BY <1>2, <1>3, <1>4, <1>5, <1>7 DEF Follows

\* A step that pushes the value of the one variable its operation defines.
LEMMA AppendFollows ==
  ASSUME CompileTypes, at \in DOMAIN program, at' = at + 1, program' = program,
         NEW x \in Value, values' = Append(values, x),
         NEW type, DefinedTypes(Instr.operation) = <<type>>, Fits(x, type)
  PROVE  /\ Follows /\ \A v \in 1..Len(values) : values'[v] = values[v]
         /\ Len(values') = Len(values) + 1 /\ values'[Len(values) + 1] = x
<1>1. values \in Seq(Value)
  BY DEF CompileTypes
<1>2. <<x>> \in Seq(Value) /\ Len(<<x>>) = 1 /\ <<x>>[1] = x
  OBVIOUS
<1>3. values' = values \o <<x>>
  BY <1>1, AppendIsConcat
<1>4. Len(<<type>>) = 1 /\ <<type>>[1] = type
  OBVIOUS
<1>5. \A j \in 1..1 : j = 1
  OBVIOUS
<1>6. Follows /\ \A v \in 1..Len(values) : values'[v] = values[v]
  BY <1>2, <1>3, <1>4, <1>5, PushFollows
<1>7. QED
  BY <1>1, <1>6, AppendProperties

\* A step that defines nothing and leaves the values alone.
LEMMA StillFollows ==
  ASSUME CompileTypes, at \in DOMAIN program, at' = at + 1, program' = program, values' = values,
         DefinedTypes(Instr.operation) = << >>
  PROVE  Follows
<1>1. Len(values) \in Nat /\ Len(DefinedTypes(Instr.operation)) = 0
  BY LenProperties DEF CompileTypes
<1>2. QED
  BY <1>1 DEF Follows, ValuesKept

-----------------------------------------------------------------------------
(* What is named stays there. *)

\* What a step emits comes after what was emitted, and is noted with the instruction.
LEMMA Emitted ==
  ASSUME CompileTypes, NEW emitted \in Seq(CompiledAction), Emits(emitted)
  PROVE  LET n     == Len(actions)
             notes == metadata.action_instructions
         IN /\ n \in Nat /\ DOMAIN actions = 1..n /\ Len(emitted) \in Nat
            /\ DOMAIN actions' = 1..(n + Len(emitted))
            /\ \A k \in 1..n : actions'[k] = actions[k]
                               /\ metadata'.action_instructions[k] = notes[k]
            /\ \A j \in 1..Len(emitted) : /\ actions'[n + j] = emitted[j]
                                          /\ metadata'.action_instructions[n + j] = at
<1> DEFINE n == Len(actions)
           m == Len(emitted)
           notes == metadata.action_instructions
           noted == [k \in DOMAIN emitted |-> at]
<1>1. /\ n \in Nat /\ m \in Nat /\ DOMAIN actions = 1..n /\ DOMAIN emitted = 1..m
      /\ actions \in Seq(CompiledAction) /\ notes \in Seq(Nat) /\ Len(notes) = n
  BY LenProperties DEF CompileTypes
<1>2. at \in Nat
  BY AtHand DEF Emits
<1>3. noted \in Seq(Nat) /\ Len(noted) = m /\ \A j \in 1..m : noted[j] = at
  BY <1>1, <1>2, Copies
<1>4. actions' = actions \o emitted /\ metadata'.action_instructions = notes \o noted
  BY DEF Emits
<1>5. /\ actions' \in Seq(CompiledAction) /\ Len(actions') = n + m
      /\ \A k \in 1..(n + m) : actions'[k] = IF k <= n THEN actions[k] ELSE emitted[k - n]
  BY <1>1, <1>4, ConcatProperties
<1>6. DOMAIN actions' = 1..(n + m)
  BY <1>5, LenProperties
<1>7. \A k \in 1..(n + m) :
        metadata'.action_instructions[k] = IF k <= n THEN notes[k] ELSE noted[k - n]
  <2> HIDE DEF noted, notes
  <2>1. QED
    BY <1>1, <1>3, <1>4, ConcatProperties
<1> HIDE DEF n, m, notes, noted
<1>8. ASSUME NEW k \in 1..n
      PROVE  actions'[k] = actions[k] /\ metadata'.action_instructions[k] = notes[k]
  BY <1>1, <1>5, <1>7
<1>9. ASSUME NEW j \in 1..m
      PROVE  actions'[n + j] = emitted[j] /\ metadata'.action_instructions[n + j] = at
  <2>1. n + j \in 1..(n + m) /\ ~(n + j <= n) /\ (n + j) - n = j
    BY <1>1
  <2>2. QED
    BY <1>3, <1>5, <1>7, <2>1
<1>10. QED
  BY <1>1, <1>6, <1>8, <1>9 DEF n, m, notes

\* Of the actions there were, only the end of a block entered may change; and each still has
\* its instruction.
ActionsKept ==
  \A id \in DOMAIN actions :
    /\ id \in DOMAIN actions' /\ Notes'[id] = Notes[id]
    /\ actions'[id].name = actions[id].name
    /\ IF actions[id].name = "EnterOnSetupSuccess"
         THEN actions'[id].session = actions[id].session
         ELSE actions'[id] = actions[id]

\* The actions a step emits, which do what the instruction at hand says.
Fresh == DOMAIN actions' \ DOMAIN actions

FreshCarried ==
  \A id \in Fresh : Notes'[id] = at /\ CarriesWith(values, actions'[id], program[at])

NoneFresh(name) == \A id \in Fresh : actions'[id].name # name

\* Nothing is said of sessions and connections that was not said before.
SessionsSame ==
  /\ sessions' = sessions
  /\ metadata'.session_variables = metadata.session_variables
  /\ metadata'.session_setups = metadata.session_setups

NothingNamed ==
  SessionsSame /\ metadata'.connection_variables = metadata.connection_variables

\* An action emitted leaves those before it alone, and is noted with the instruction at hand.
LEMMA PlainKeeps ==
  ASSUME CompileTypes, NEW x \in CompiledAction, Emits(<<x>>),
         CarriesWith(values, x, program[at])
  PROVE  /\ ActionsKept /\ FreshCarried /\ Len(actions) \in Nat /\ Fresh = {Len(actions) + 1}
         /\ actions'[Len(actions) + 1] = x /\ Notes'[Len(actions) + 1] = at
         /\ \A name : x.name # name => NoneFresh(name)
<1> DEFINE n == Len(actions)
<1>1. <<x>> \in Seq(CompiledAction) /\ Len(<<x>>) = 1 /\ <<x>>[1] = x
  OBVIOUS
<1>2. /\ n \in Nat /\ DOMAIN actions = 1..n /\ DOMAIN actions' = 1..(n + 1)
      /\ \A k \in 1..n : actions'[k] = actions[k] /\ Notes'[k] = Notes[k]
      /\ actions'[n + 1] = x /\ Notes'[n + 1] = at
  <2>1. 1 \in 1..1
    OBVIOUS
  <2>2. QED
    BY <1>1, <2>1, Emitted DEF Notes
<1> HIDE DEF n
<1>3. 1..(n + 1) = 1..n \cup {n + 1} /\ n + 1 \notin 1..n
  BY <1>2
<1>4. Fresh = {n + 1}
  BY <1>2, <1>3 DEF Fresh
<1>5. ActionsKept
  BY <1>2, <1>3 DEF ActionsKept
<1>6. FreshCarried
  BY <1>2, <1>4 DEF FreshCarried
<1>7. \A name : x.name # name => NoneFresh(name)
  BY <1>2, <1>4 DEF NoneFresh
<1>8. QED
  BY <1>2, <1>4, <1>5, <1>6, <1>7 DEF n

\* So does a step that emits nothing.
LEMMA SilentKeeps ==
  ASSUME UNCHANGED <<actions, counters, metadata>>
  PROVE  /\ ActionsKept /\ FreshCarried /\ NothingNamed
         /\ NoneFresh("AwaitSetupResponse") /\ NoneFresh("Connect")
  BY DEF ActionsKept, Fresh, FreshCarried, NoneFresh, Notes, NothingNamed, SessionsSame, counters

\* What an instruction at hand or behind the compiler reads is there, and of the type it asks for.
LEMMA ReadsTyped ==
  ASSUME HandedOut, NEW k \in DOMAIN program, k <= at,
         NEW j \in 1..Len(InputVariables(program[k].operation))
  PROVE  /\ program[k].inputs[j] \in 1..Len(values)
         /\ variables[program[k].inputs[j]].var = InputVariables(program[k].operation)[j]
         /\ Fits(values[program[k].inputs[j]], InputVariables(program[k].operation)[j])
<1> DEFINE v == program[k].inputs[j]
<1>1. /\ Counted /\ DOMAIN program = 1..Len(program) /\ Len(program) \in Nat
      /\ Len(values) \in Nat /\ Len(variables) \in Nat /\ DOMAIN variables = 1..Len(variables)
      /\ program = instructions /\ Mirrored /\ program \in Seq(Instruction) /\ at \in Nat
      /\ \A w \in 1..Len(variables) : defined_at[w] \in Nat
  BY HandedOutMeans DEF HandedOut
<1>2. Len(program[k].inputs) = Len(InputVariables(program[k].operation))
  BY <1>1 DEF Counted, CountOK
<1>3. DOMAIN program[k].inputs = 1..Len(program[k].inputs)
  <2>1. program[k] \in Instruction
    BY <1>1, ElementOfSeq
  <2>2. program[k].inputs \in Seq(Nat)
    BY <2>1 DEF Instruction
  <2>3. QED
    BY <2>2, LenProperties
<1>4. StaticallyValid
  BY DEF HandedOut, BuiltInv, Inv, ReuseInv
<1>5. /\ v \in DOMAIN variables /\ defined_at[v] < k
      /\ variables[v].var = InputVariables(program[k].operation)[j]
  BY <1>1, <1>2, <1>3, <1>4 DEF StaticallyValid
<1> HIDE DEF v
<1>6. defined_at[v] \in Nat /\ k \in Nat
  BY <1>1, <1>5
<1>7. defined_at[v] < at
  BY <1>1, <1>5, <1>6
<1>8. v <= Len(values) /\ v \in 1..Len(variables)
  BY <1>1, <1>5, <1>7 DEF Mirrored
<1>9. v \in 1..Len(values)
  BY <1>1, <1>8
<1>10. Fits(values[v], InputVariables(program[k].operation)[j])
  BY <1>1, <1>5, <1>9 DEF Mirrored
<1>11. QED
  BY <1>5, <1>9, <1>10 DEF v

\* The values there were are still there, and those that are no messages are the same.
LEMMA ValuesGrow ==
  ASSUME HandedOut, Follows
  PROVE  /\ Len(values) \in Nat /\ Len(values') \in Nat /\ Len(values) <= Len(values')
         /\ \A v \in 1..Len(values) :
              v \in 1..Len(values') /\ (values[v].kind # "SetupConnection" => values'[v] = values[v])
<1>1. Len(values) \in Nat /\ Len(DefinedTypes(Instr.operation)) \in Nat
  BY HandedOutMeans, HandTypes DEF Follows
<1>2. Len(values') = Len(values) + Len(DefinedTypes(Instr.operation)) /\ ValuesKept
  BY DEF Follows
<1>3. Len(values') \in Nat /\ Len(values) <= Len(values')
  BY <1>1, <1>2
<1>4. \A v \in 1..Len(values) : v \in 1..Len(values')
  BY <1>1, <1>3
<1>5. QED
  BY <1>1, <1>2, <1>3, <1>4 DEF ValuesKept

\* An action still does what its instruction says: a message is finished when it is sent, and
\* no setter changes one.
LEMMA CarriesStays ==
  ASSUME HandedOut, Follows, NEW k \in DOMAIN program, k <= at, NEW a, NEW b,
         CarriesWith(values, a, program[k]), b.name = a.name,
         IF a.name = "EnterOnSetupSuccess" THEN b.session = a.session ELSE b = a
  PROVE  CarriesWith(values', b, program[k])
<1> DEFINE i == program[k]
           ins == InputVariables(i.operation)
<1>1. ValuesKept
  BY DEF Follows
<1>2. ASSUME NEW j \in 1..Len(ins), ins[j][1] # "MutSetupConnection"
      PROVE  values'[i.inputs[j]] = values[i.inputs[j]]
  BY <1>1, <1>2, ReadsTyped DEF ValuesKept
<1>3. CASE i.operation.name \in {"Connect", "SendRawFrame", "BeginOnSetupSuccess"}
  <2>1. 1 \in 1..Len(ins) /\ ins[1][1] # "MutSetupConnection"
    <3>1. CASE i.operation.name = "Connect"
      BY <3>1 DEF InputVariables
    <3>2. CASE i.operation.name = "SendRawFrame"
      BY <3>2 DEF InputVariables
    <3>3. CASE i.operation.name = "BeginOnSetupSuccess"
      BY <3>3 DEF InputVariables, SetupAttempt
    <3>4. QED
      BY <1>3, <3>1, <3>2, <3>3
  <2>2. values'[i.inputs[1]] = values[i.inputs[1]]
    BY <1>2, <2>1
  <2> HIDE DEF ins, i
  <2>3. QED
    BY <1>3, <2>2 DEF CarriesWith, i
<1>4. CASE i.operation.name = "SendSetupConnection"
  <2>1. /\ 1 \in 1..Len(ins) /\ ins[1][1] # "MutSetupConnection"
        /\ 2 \in 1..Len(ins) /\ ins[2][1] # "MutSetupConnection"
    BY <1>4 DEF InputVariables, ConstSetupConnection
  <2>2. values'[i.inputs[1]] = values[i.inputs[1]] /\ values'[i.inputs[2]] = values[i.inputs[2]]
    BY <1>2, <2>1
  <2> HIDE DEF ins
  <2>3. QED
    BY <1>4, <2>2 DEF CarriesWith
<1>5. CASE i.operation.name \in {"EndOnSetupSuccess", "AdvanceTime", "Probe"}
  BY <1>5 DEF CarriesWith
<1>6. QED
  BY <1>3, <1>4, <1>5 DEF CarriesWith

\* What every action does stays what its instruction says, and is so of the ones emitted.
LEMMA CarriedStays ==
  ASSUME HandedOut, CompileTypes', Follows, Carried, ActionsKept, FreshCarried
  PROVE  Carried'
<1>1. /\ at \in DOMAIN program /\ at' = at + 1 /\ program' = program /\ at \in Nat
      /\ DOMAIN program = 1..Len(program) /\ Len(program) \in Nat
  BY HandedOutMeans DEF Follows
<1>2. ASSUME NEW id \in DOMAIN actions'
      PROVE  Notes'[id] \in 1..at /\ CarriesWith(values', actions'[id], program[Notes'[id]])
  <2>1. CASE id \in DOMAIN actions
    <3>1. Notes[id] \in 1..(at - 1) /\ CarriesWith(values, actions[id], program[Notes[id]])
      BY <2>1 DEF Carried
    <3>2. Notes[id] \in DOMAIN program /\ Notes[id] <= at /\ Notes[id] \in 1..at
      BY <1>1, <3>1
    <3>3. CarriesWith(values', actions'[id], program[Notes[id]])
      BY <2>1, <3>1, <3>2, CarriesStays DEF ActionsKept
    <3>4. QED
      BY <2>1, <3>2, <3>3 DEF ActionsKept
  <2>2. CASE id \notin DOMAIN actions
    <3>1. Notes'[id] = at /\ CarriesWith(values, actions'[id], program[at])
      BY <2>2 DEF FreshCarried, Fresh
    <3>2. CarriesWith(values', actions'[id], program[at])
      BY <1>1, <3>1, CarriesStays
    <3>3. at \in 1..at
      BY <1>1
    <3>4. QED
      BY <3>1, <3>2, <3>3
  <2>3. QED
    BY <2>1, <2>2
<1>3. at' - 1 = at
  BY <1>1
<1>4. QED
  BY <1>1, <1>2, <1>3 DEF Carried

\* A session named stays named, when what is added is no wait,
LEMMA AttemptStays ==
  ASSUME HandedOut, Follows, UNCHANGED vars, ActionsKept, NEW id \in AwaitsOf(actions),
         AttemptNamed(id), id - 1 \in DOMAIN actions,
         LET s == actions[id].session
         IN /\ metadata'.session_variables[s] = metadata.session_variables[s]
            /\ metadata'.session_setups[s] = metadata.session_setups[s]
  PROVE  id \in AwaitsOf(actions') /\ actions'[id] = actions[id] /\ AttemptNamed(id)'
<1> DEFINE s == actions[id].session
           v == metadata.session_variables[s]
<1>1. /\ id \in DOMAIN actions' /\ actions'[id] = actions[id] /\ Notes'[id] = Notes[id]
      /\ Notes'[id - 1] = Notes[id - 1] /\ actions[id].name = "AwaitSetupResponse"
  BY DEF AwaitsOf, ActionsKept
<1>2. /\ v \in 1..Len(values) /\ defined_at[v] = Notes[id] /\ Notes[id - 1] = Notes[id]
      /\ values[v] = [kind |-> "SetupAttempt", session |-> s, connection |-> actions[id].connection]
      /\ metadata.session_setups[s].protocol = actions[id].protocol
  BY DEF AttemptNamed
<1>3. /\ metadata'.session_variables[s] = v /\ metadata'.session_setups[s] = metadata.session_setups[s]
      /\ defined_at' = defined_at
  BY DEF vars, history
<1> HIDE DEF s, v
<1>4. v \in 1..Len(values') /\ values'[v] = values[v]
  <2>1. values[v].kind # "SetupConnection"
    BY <1>2
  <2>2. QED
    BY <1>2, <2>1, ValuesGrow
<1>5. actions'[id].session = s
  BY <1>1 DEF s
<1>6. AttemptNamed(id)'
  BY <1>1, <1>2, <1>3, <1>4, <1>5 DEF AttemptNamed
<1>7. QED
  BY <1>1, <1>6 DEF AwaitsOf

\* A program handed out is being compiled, and the builder is gone.
Handling == HandedOut /\ CompileInv /\ CompileTypes' /\ Named /\ UNCHANGED vars

LEMMA SessionsNamedStays ==
  ASSUME Handling, Follows, SessionsNamed, SessionsSame, ActionsKept,
         NoneFresh("AwaitSetupResponse")
  PROVE  SessionsNamed'
<1>1. HandedOut /\ UNCHANGED vars /\ AwaitsPaired(actions, metadata.session_setups)
  BY DEF Handling, CompileInv
<1>2. ASSUME NEW id \in AwaitsOf(actions)
      PROVE  id \in AwaitsOf(actions') /\ actions'[id] = actions[id] /\ AttemptNamed(id)'
  <2>1. AttemptNamed(id) /\ id - 1 \in DOMAIN actions
    BY <1>1 DEF SessionsNamed, AwaitsPaired
  <2>2. QED
    BY <1>1, <2>1, AttemptStays DEF SessionsSame
<1>3. ASSUME NEW id \in AwaitsOf(actions') PROVE id \in AwaitsOf(actions)
  <2>1. id \in DOMAIN actions
    BY DEF AwaitsOf, NoneFresh, Fresh
  <2>2. QED
    BY <2>1 DEF AwaitsOf, ActionsKept
<1>4. ASSUME NEW s \in 0..(sessions - 1)
      PROVE  \E id \in AwaitsOf(actions') : actions'[id].session = s
  <2>1. PICK id \in AwaitsOf(actions) : actions[id].session = s
    BY DEF SessionsNamed
  <2>2. QED
    BY <1>2, <2>1
<1>5. QED
  BY <1>2, <1>3, <1>4 DEF SessionsNamed, SessionsSame

\* and a connection, when what is added is no connect.
LEMMA OpeningStays ==
  ASSUME HandedOut, Follows, UNCHANGED vars, ActionsKept, NEW id \in ConnectsOf(actions),
         OpeningNamed(id),
         LET c == actions[id].connection
         IN /\ c \in DOMAIN metadata'.connection_variables
            /\ metadata'.connection_variables[c] = metadata.connection_variables[c]
  PROVE  id \in ConnectsOf(actions') /\ actions'[id] = actions[id] /\ OpeningNamed(id)'
<1> DEFINE c == actions[id].connection
           v == metadata.connection_variables[c]
<1>1. /\ id \in DOMAIN actions' /\ actions'[id] = actions[id] /\ Notes'[id] = Notes[id]
      /\ actions[id].name = "Connect"
  BY DEF ConnectsOf, ActionsKept
<1>2. /\ v \in 1..Len(values) /\ defined_at[v] = Notes[id]
      /\ values[v] = [kind |-> "Connection", connection |-> c]
  BY DEF OpeningNamed
<1>3. /\ metadata'.connection_variables[c] = v /\ c \in DOMAIN metadata'.connection_variables
      /\ defined_at' = defined_at
  BY DEF vars, history
<1> HIDE DEF c, v
<1>4. v \in 1..Len(values') /\ values'[v] = values[v]
  <2>1. values[v].kind # "SetupConnection"
    BY <1>2
  <2>2. QED
    BY <1>2, <2>1, ValuesGrow
<1>5. actions'[id].connection = c
  BY <1>1 DEF c
<1>6. OpeningNamed(id)'
  BY <1>1, <1>2, <1>3, <1>4, <1>5 DEF OpeningNamed
<1>7. QED
  BY <1>1, <1>6 DEF ConnectsOf

LEMMA ConnectsNamedStay ==
  ASSUME HandedOut, UNCHANGED vars, Follows, ConnectsNamed, ActionsKept, NoneFresh("Connect"),
         metadata'.connection_variables = metadata.connection_variables
  PROVE  ConnectsNamed'
<1>1. ASSUME NEW id \in ConnectsOf(actions)
      PROVE  id \in ConnectsOf(actions') /\ actions'[id] = actions[id] /\ OpeningNamed(id)'
  <2>1. OpeningNamed(id)
    BY DEF ConnectsNamed
  <2>2. actions[id].connection \in DOMAIN metadata.connection_variables
    BY <2>1 DEF OpeningNamed
  <2>3. QED
    BY <2>1, <2>2, OpeningStays
<1>2. ASSUME NEW id \in ConnectsOf(actions') PROVE id \in ConnectsOf(actions)
  <2>1. id \in DOMAIN actions
    BY DEF ConnectsOf, NoneFresh, Fresh
  <2>2. QED
    BY <2>1 DEF ConnectsOf, ActionsKept
<1>3. ASSUME NEW c \in DOMAIN metadata.connection_variables
      PROVE  \E id \in ConnectsOf(actions') : actions'[id].connection = c
  <2>1. PICK id \in ConnectsOf(actions) : actions[id].connection = c
    BY DEF ConnectsNamed
  <2>2. QED
    BY <1>1, <2>1
<1>4. QED
  BY <1>1, <1>2, <1>3 DEF ConnectsNamed

\* The values of kind connection are of those there are, and so is a value added.
LEMMA ConnectionsNamedStay ==
  ASSUME HandedOut, Follows, ConnectionsNamed, connections' \in Nat, connections <= connections',
         \A v \in (Len(values) + 1)..Len(values') :
           values'[v].kind = "Connection" => values'[v].connection < connections'
  PROVE  ConnectionsNamed'
<1>1. /\ Len(values) \in Nat /\ Len(values) <= Len(values') /\ Len(values') \in Nat
      /\ values \in Seq(Value) /\ connections \in Nat
  BY ValuesGrow DEF HandedOut, CompileTypes
<1>2. ASSUME NEW v \in 1..Len(values'), values'[v].kind = "Connection"
      PROVE  values'[v].connection < connections'
  <2>1. CASE v \in 1..Len(values)
    <3>1. values[v].kind = "Connection"
      BY <1>2, <2>1 DEF Follows, ValuesKept
    <3>2. values[v] \in Value /\ values'[v] = values[v]
      BY <1>1, <2>1, <3>1, ElementOfSeq, ValuesGrow
    <3>3. values[v].connection \in Nat /\ values[v].connection < connections
      BY <2>1, <3>1, <3>2, ValueHolds DEF ConnectionsNamed
    <3>4. QED
      BY <1>1, <3>2, <3>3
  <2>2. CASE v \notin 1..Len(values)
    <3>1. v \in (Len(values) + 1)..Len(values')
      BY <1>1, <2>2
    <3>2. QED
      BY <1>2, <3>1
  <2>3. QED
    BY <2>1, <2>2
<1>3. QED
  BY <1>2 DEF ConnectionsNamed

-----------------------------------------------------------------------------
(* The steps of the compiler, one kind at a time. *)

\* A step that names nothing new.
LEMMA StillNamed ==
  ASSUME Handling, Follows, ActionsKept, FreshCarried, NoneFresh("AwaitSetupResponse"),
         NoneFresh("Connect"), NothingNamed, connections' = connections,
         \A c \in sent' : c < connections,
         \A v \in (Len(values) + 1)..Len(values') :
           values'[v].kind = "Connection" => values'[v].connection < connections
  PROVE  Named'
<1>1. HandedOut /\ Named /\ CompileTypes' /\ connections' \in Nat /\ connections <= connections'
  <2>1. HandedOut /\ Named /\ CompileTypes'
    BY DEF Handling
  <2>2. connections \in Nat
    BY <2>1 DEF HandedOut, CompileTypes
  <2>3. QED
    BY <2>1, <2>2
<1>2. SentNamed'
  BY DEF SentNamed
<1>3. ConnectionsNamed'
  BY <1>1, ConnectionsNamedStay DEF Named
<1>4. SessionsNamed'
  BY <1>1, SessionsNamedStays DEF Named, NothingNamed
<1>5. ConnectsNamed'
  BY <1>1, ConnectsNamedStay DEF Named, NothingNamed, Handling
<1>6. Carried'
  BY <1>1, CarriedStays DEF Named
<1>7. QED
  BY <1>2, <1>3, <1>4, <1>5, <1>6 DEF Named

\* The steps of the compiler on a program handed out, one by one: each defines the values of
\* its variables, keeps the names true and opens or closes a block or none.
LEMMA LoadFollows ==
  ASSUME Handling, CompileLoad
  PROVE  Follows /\ Named' /\ blocks' = blocks
<1> DEFINE op == Instr.operation
           loaded == LoadedValues(op)
<1>1. /\ at \in DOMAIN program /\ at' = at + 1 /\ program' = program /\ values' = values \o loaded
      /\ op.name \in {"Nop", "LoadRole", "LoadConnection", "LoadVersion", "LoadFlags", "LoadPort",
                      "LoadStr", "LoadBytes", "LoadDuration", "BeginBuildSetupConnection"}
      /\ UNCHANGED <<actions, counters, blocks, metadata>>
  BY DEF CompileLoad
<1>2. CompileTypes /\ HandedOut
  BY DEF Handling, HandedOut
<1>3. op \in Operation /\ Instr = instructions[at]
  BY <1>1, <1>2, HandTypes
<1>4. loaded \in Seq(Value)
  BY <1>1, <1>3, LoadedTyped
<1>5. /\ Len(loaded) = Len(DefinedTypes(op))
      /\ \A j \in 1..Len(DefinedTypes(op)) : Fits(loaded[j], DefinedTypes(op)[j])
  BY <1>1, <1>3, LoadedFits
<1>6. ASSUME NEW j \in 1..Len(loaded), loaded[j].kind = "Connection"
      PROVE  loaded[j].connection < connections
  <2>1. op.name = "LoadConnection"
    <3>1. SUFFICES ASSUME op.name # "LoadConnection" PROVE loaded[j].kind # "Connection"
      BY <1>6
    <3>2. DefinedTypes(op)[j][1] # "Connection"
      <4>1. CASE op.name = "Nop"
        <5>1. loaded[j] = [kind |-> "Nop"]
          <6>1. op.outputs \in Nat /\ op.inner_outputs \in Nat
            BY <1>3, <4>1 DEF Operation
          <6>2. loaded = [k \in 1..(op.outputs + op.inner_outputs) |-> [kind |-> "Nop"]]
            BY <4>1 DEF LoadedValues, NopValues
          <6>3. DOMAIN loaded = 1..Len(loaded)
            BY <1>4, LenProperties
          <6>4. QED
            BY <6>2, <6>3
        <5>2. loaded[j].kind = KindOf(DefinedTypes(op)[j])
          BY <1>5 DEF Fits
        <5>3. QED
          BY <5>1, <5>2 DEF KindOf
      <4>2. CASE op.name # "Nop"
        BY <1>1, <1>5, <3>1, <4>2, DefinesOne
      <4>3. QED
        BY <4>1, <4>2
    <3>3. loaded[j].kind = KindOf(DefinedTypes(op)[j])
      BY <1>5 DEF Fits
    <3>4. QED
      BY <3>2, <3>3 DEF KindOf
  <2>2. loaded = <<[kind |-> "Connection", connection |-> op.index]>>
    BY <2>1 DEF LoadedValues
  <2>3. j = 1 /\ loaded[j].connection = op.index
    BY <2>2
  <2>4. op.index \in Nat /\ op.index < NumConnections
    <3>1. Counted /\ DOMAIN program = 1..Len(program) /\ program = instructions
      BY <1>2, HandedOutMeans DEF HandedOut
    <3>2. ConnectionOK(Instr)
      BY <1>1, <1>3, <3>1 DEF Counted
    <3>3. QED
      BY <1>3, <2>1, <3>2 DEF ConnectionOK, Operation
  <2>5. op.index \in sent
    BY <2>4 DEF Handling, CompileInv, SentOf
  <2>6. QED
    BY <2>3, <2>5 DEF Handling, Named, SentNamed
<1> HIDE DEF loaded
<1>7. Follows /\ \A v \in 1..Len(values) : values'[v] = values[v]
  BY <1>1, <1>2, <1>4, <1>5, PushFollows
<1>8. ASSUME NEW v \in (Len(values) + 1)..Len(values'), values'[v].kind = "Connection"
      PROVE  values'[v].connection < connections
  <2>1. /\ Len(values) \in Nat /\ Len(loaded) \in Nat /\ values \in Seq(Value)
    BY <1>2, <1>4, LenProperties DEF CompileTypes
  <2>2. /\ Len(values') = Len(values) + Len(loaded)
        /\ \A w \in 1..(Len(values) + Len(loaded)) :
             values'[w] = IF w <= Len(values) THEN values[w] ELSE loaded[w - Len(values)]
    BY <1>1, <1>4, <2>1, ConcatProperties
  <2>3. /\ v \in 1..(Len(values) + Len(loaded)) /\ ~(v <= Len(values))
        /\ v - Len(values) \in 1..Len(loaded)
    BY <2>1, <2>2
  <2>4. values'[v] = loaded[v - Len(values)]
    BY <2>2, <2>3
  <2>5. QED
    BY <1>6, <1>8, <2>3, <2>4
<1>9. sent' = sent /\ connections' = connections
  BY <1>1 DEF counters
<1>10. /\ ActionsKept /\ FreshCarried /\ NothingNamed
       /\ NoneFresh("AwaitSetupResponse") /\ NoneFresh("Connect")
  BY <1>1, SilentKeeps
<1>11. QED
  BY <1>1, <1>7, <1>8, <1>9, <1>10, StillNamed DEF Handling, Named, SentNamed

LEMMA SetFollows ==
  ASSUME Handling, CompileSet
  PROVE  Follows /\ Named' /\ blocks' = blocks
<1> DEFINE v == Instr.inputs[1]
           spec == Edited(Instr, values[v].spec)
<1>1. /\ at \in DOMAIN program /\ at' = at + 1 /\ program' = program
      /\ Instr.operation.name \in {"SetVersions", "SetFlags", "SetEndpoint", "SetDeviceInfo"}
      /\ Readable(Instr) /\ values' = [values EXCEPT ![v].spec = spec]
      /\ UNCHANGED <<actions, counters, blocks, metadata>>
  BY DEF CompileSet
<1>2. CompileTypes /\ HandedOut
  BY DEF Handling, HandedOut
<1>3. Instr \in Instruction
  BY <1>1, <1>2, AtHand
<1>4. /\ v \in DOMAIN values /\ values[v] \in Value /\ values[v].kind = "SetupConnection"
      /\ \A s \in Setup : Edited(Instr, s) \in Setup /\ Edited(Instr, s).protocol = s.protocol
  BY <1>1, <1>2, <1>3, EditedTyped DEF Input
<1>5. /\ values[v].spec \in Setup
      /\ values[v] = [kind |-> "SetupConnection", spec |-> values[v].spec]
  BY <1>4, ValueHolds
<1>6. spec.protocol = values[v].spec.protocol
  BY <1>4, <1>5
<1>7. Len(values) \in Nat /\ DOMAIN values = 1..Len(values) /\ values \in Seq(Value)
  BY <1>2, LenProperties DEF CompileTypes
<1> HIDE DEF v, spec
<1>8. /\ values'[v].kind = "SetupConnection" /\ values'[v].spec = spec
      /\ \A w \in DOMAIN values : w # v => values'[w] = values[w]
      /\ DOMAIN values' = DOMAIN values
  BY <1>1, <1>4, <1>5
<1>9. Len(values') = Len(values)
  <2>1. values' \in Seq(Value)
    BY DEF Handling, CompileTypes
  <2>2. DOMAIN values' = 1..Len(values') /\ Len(values') \in Nat
    BY <2>1, LenProperties
  <2>3. QED
    BY <1>7, <1>8, <2>2
<1>10. ValuesKept
  <2>1. ASSUME NEW w \in 1..Len(values)
        PROVE  /\ values'[w].kind = values[w].kind
               /\ values[w].kind = "SetupConnection" =>
                    values'[w].spec.protocol = values[w].spec.protocol
               /\ values[w].kind # "SetupConnection" => values'[w] = values[w]
               /\ variables[w].var[1] # "MutSetupConnection" => values'[w] = values[w]
    <3>1. CASE w = v
      <4>1. variables[v].var[1] = "MutSetupConnection"
        <5>1. /\ 1 \in 1..Len(InputVariables(Instr.operation))
              /\ InputVariables(Instr.operation)[1][1] = "MutSetupConnection"
          <6>1. CASE Instr.operation.name = "SetVersions"
            BY <6>1 DEF InputVariables
          <6>2. CASE Instr.operation.name = "SetFlags"
            BY <6>2 DEF InputVariables
          <6>3. CASE Instr.operation.name = "SetEndpoint"
            BY <6>3 DEF InputVariables
          <6>4. CASE Instr.operation.name = "SetDeviceInfo"
            BY <6>4 DEF InputVariables
          <6>5. QED
            BY <1>1, <6>1, <6>2, <6>3, <6>4
        <5>2. at <= at
          BY <1>2, HandedOutMeans
        <5>3. QED
          BY <1>1, <1>2, <5>1, <5>2, ReadsTyped DEF v, Instr
      <4>2. QED
        BY <1>4, <1>6, <1>8, <3>1, <4>1
    <3>2. CASE w # v
      BY <1>7, <1>8, <3>2
    <3>3. QED
      BY <3>1, <3>2
  <2>2. QED
    BY <1>7, <1>9, <2>1 DEF ValuesKept
<1>11. Len(DefinedTypes(Instr.operation)) = 0
  BY <1>1, DefinesNothing
<1>12. Follows
  BY <1>1, <1>7, <1>9, <1>10, <1>11 DEF Follows
<1>13. (Len(values) + 1)..Len(values') = {}
  BY <1>7, <1>9
<1>14. sent' = sent /\ connections' = connections
  BY <1>1 DEF counters
<1>15. /\ ActionsKept /\ FreshCarried /\ NothingNamed
       /\ NoneFresh("AwaitSetupResponse") /\ NoneFresh("Connect")
  BY <1>1, SilentKeeps
<1>16. QED
  BY <1>1, <1>12, <1>13, <1>14, <1>15, StillNamed DEF Handling, Named, SentNamed

LEMMA EndBuildFollows ==
  ASSUME Handling, CompileEndBuild
  PROVE  Follows /\ Named' /\ blocks' = blocks
<1> DEFINE op == Instr.operation
           new == [kind |-> "SetupConnection", spec |-> Stamped(Input(Instr, 1).spec, op.protocol)]
<1>1. /\ at \in DOMAIN program /\ at' = at + 1 /\ program' = program
      /\ op.name = "EndBuildSetupConnection" /\ Readable(Instr) /\ values' = Append(values, new)
      /\ UNCHANGED <<actions, counters, blocks, metadata>>
  BY DEF CompileEndBuild, Doing
<1>2. CompileTypes /\ HandedOut
  BY DEF Handling, HandedOut
<1>3. Instr \in Instruction /\ op \in Operation
  BY <1>1, <1>2, AtHand
<1>4. Input(Instr, 1).spec \in Setup
  <2>1. 1 \in DOMAIN Accessors(op) /\ Accessors(op)[1] = "SetupConnection"
    BY <1>1 DEF Accessors
  <2>2. QED
    BY <1>1, <1>2, <1>3, <2>1, InputHolds, ValueHolds
<1>5. op.protocol \in Protocols
  BY <1>1, <1>3 DEF Operation
<1>6. new \in Value /\ new.kind = "SetupConnection" /\ new.spec.protocol = op.protocol
  <2>1. /\ Stamped(Input(Instr, 1).spec, op.protocol) \in Setup
        /\ Stamped(Input(Instr, 1).spec, op.protocol).protocol = op.protocol
    BY <1>4, <1>5 DEF Stamped, Setup
  <2>2. QED
    BY <2>1 DEF Value
<1>7. DefinedTypes(op) = <<ConstSetupConnection(op.protocol)>>
  BY <1>1, DefinesOne
<1>8. Fits(new, ConstSetupConnection(op.protocol))
  BY <1>6 DEF Fits, KindOf, ConstSetupConnection
<1> HIDE DEF new
<1>9. /\ Follows /\ Len(values') = Len(values) + 1 /\ values'[Len(values) + 1] = new
  BY <1>1, <1>2, <1>6, <1>7, <1>8, AppendFollows
<1>10. \A v \in (Len(values) + 1)..Len(values') : values'[v].kind # "Connection"
  <2>1. Len(values) \in Nat
    BY <1>2, LenProperties DEF CompileTypes
  <2>2. \A v \in (Len(values) + 1)..Len(values') : v = Len(values) + 1
    BY <1>9, <2>1
  <2>3. QED
    BY <1>6, <1>9, <2>2
<1>11. sent' = sent /\ connections' = connections
  BY <1>1 DEF counters
<1>12. /\ ActionsKept /\ FreshCarried /\ NothingNamed
       /\ NoneFresh("AwaitSetupResponse") /\ NoneFresh("Connect")
  BY <1>1, SilentKeeps
<1>13. QED
  <2>1. \A c \in sent' : c < connections
    BY <1>11 DEF Handling, Named, SentNamed
  <2>2. Named'
    BY <1>9, <1>10, <1>11, <1>12, <2>1, StillNamed
  <2>3. QED
    BY <1>1, <1>9, <2>2

\* A step that emits, and leaves the values alone.
LEMMA StepFollows ==
  ASSUME Handling, CompileStep("AdvanceTime") \/ CompileStep("Probe")
  PROVE  Follows /\ Named' /\ blocks' = blocks
<1>1. PICK name \in {"AdvanceTime", "Probe"} : CompileStep(name)
  OBVIOUS
<1> DEFINE step == [name |-> name]
<1>2. /\ at \in DOMAIN program /\ at' = at + 1 /\ program' = program /\ values' = values
      /\ Instr.operation.name = name /\ UNCHANGED counters /\ blocks' = blocks
  BY <1>1 DEF CompileStep, Doing, Push
<1>3. CompileTypes /\ HandedOut
  BY DEF Handling, HandedOut
<1>4. NothingNamed
  BY <1>1, <1>3 DEF CompileStep, Noted, CompileTypes, Fields, NothingNamed, SessionsSame, counters
<1>5. Emits(<<step>>)
  BY <1>1, <1>3 DEF CompileStep, Push, Noted, Emits, CompileTypes, Fields, Doing
<1>6. step \in CompiledAction /\ step.name \in {"AdvanceTime", "Probe"}
  BY DEF CompiledAction
<1>7. CarriesWith(values, step, program[at])
  BY <1>2 DEF CarriesWith, Instr
<1> HIDE DEF step
<1>8. /\ ActionsKept /\ FreshCarried
      /\ NoneFresh("AwaitSetupResponse") /\ NoneFresh("Connect")
  BY <1>3, <1>5, <1>6, <1>7, PlainKeeps
<1>9. Follows
  <2>1. DefinedTypes(Instr.operation) = << >>
    BY <1>2, DefinesNothing
  <2>2. QED
    BY <1>2, <1>3, <2>1, StillFollows
<1>10. (Len(values) + 1)..Len(values') = {}
  <2>1. Len(values) \in Nat
    BY <1>3, LenProperties DEF CompileTypes
  <2>2. QED
    BY <1>2, <2>1
<1>11. sent' = sent /\ connections' = connections
  BY <1>2 DEF counters
<1>12. QED
  BY <1>2, <1>4, <1>8, <1>9, <1>10, <1>11, StillNamed DEF Handling, Named, SentNamed

\* The connection an instruction is given exists.
LEMMA HandConnection ==
  ASSUME Handling, at \in DOMAIN program,
         Instr.operation.name \in {"SendSetupConnection", "SendRawFrame"}
  PROVE  Input(Instr, 1).connection < connections
<1>1. 1 \in DOMAIN Accessors(Instr.operation) /\ Accessors(Instr.operation)[1] = "Connection"
  <2>1. CASE Instr.operation.name = "SendSetupConnection"
    BY <2>1 DEF Accessors
  <2>2. CASE Instr.operation.name = "SendRawFrame"
    BY <2>2 DEF Accessors
  <2>3. QED
    BY <2>1, <2>2
<1>2. CompileTypes /\ HandedOut
  BY DEF Handling, HandedOut
<1>3. Instr \in Instruction /\ Readable(Instr)
  BY <1>2, AtHand, HandReads
<1>4. Instr.inputs[1] \in DOMAIN values /\ Input(Instr, 1).kind = "Connection"
  BY <1>1, <1>2, <1>3, InputHolds
<1>5. DOMAIN values = 1..Len(values)
  BY <1>2, LenProperties DEF CompileTypes
<1>6. QED
  BY <1>4, <1>5 DEF Handling, Named, ConnectionsNamed, Input

LEMMA SendRawFollows ==
  ASSUME Handling, CompileSendRaw
  PROVE  Follows /\ Named' /\ blocks' = blocks
<1>1. /\ at \in DOMAIN program /\ at' = at + 1 /\ program' = program /\ values' = values
      /\ Instr.operation.name = "SendRawFrame" /\ connections' = connections /\ blocks' = blocks
      /\ sent' = sent \cup {Input(Instr, 1).connection}
  BY DEF CompileSendRaw, Doing, Push
<1>2. CompileTypes /\ HandedOut
  BY DEF Handling, HandedOut
<1>3. NothingNamed
  BY <1>2 DEF CompileSendRaw, Noted, CompileTypes, Fields, NothingNamed, SessionsSame
<1> DEFINE c == Input(Instr, 1).connection
           send == [name |-> "Send", connection |-> c, payload |-> RawBytes]
<1>4. Emits(<<send>>)
  BY <1>1, <1>2 DEF CompileSendRaw, Push, Noted, Emits, CompileTypes, Fields
<1>5. /\ ActionsKept /\ FreshCarried
      /\ NoneFresh("AwaitSetupResponse") /\ NoneFresh("Connect")
  <2>1. 1 \in DOMAIN Accessors(Instr.operation) /\ Accessors(Instr.operation)[1] = "Connection"
    BY <1>1 DEF Accessors
  <2>2. c \in Nat
    BY <1>1, <1>2, <2>1, AtHand, HandReads, InputHolds, ValueHolds
  <2>3. CarriesWith(values, send, program[at])
    BY <1>1 DEF CarriesWith, Instr, Input
  <2> HIDE DEF c
  <2>4. send \in CompiledAction /\ send.name = "Send"
    BY <2>2 DEF CompiledAction
  <2> HIDE DEF send
  <2>5. QED
    BY <1>2, <1>4, <2>3, <2>4, PlainKeeps
<1> HIDE DEF send, c
<1>6. Follows
  <2>1. DefinedTypes(Instr.operation) = << >>
    BY <1>1, DefinesNothing
  <2>2. QED
    BY <1>1, <1>2, <2>1, StillFollows
<1>7. (Len(values) + 1)..Len(values') = {}
  <2>1. Len(values) \in Nat
    BY <1>2, LenProperties DEF CompileTypes
  <2>2. QED
    BY <1>1, <2>1
<1>8. \A d \in sent' : d < connections
  BY <1>1, HandConnection DEF Handling, Named, SentNamed
<1>9. QED
  BY <1>1, <1>3, <1>5, <1>6, <1>7, <1>8, StillNamed

LEMMA ConnectFollows ==
  ASSUME Handling, CompileConnect
  PROVE  Follows /\ Named' /\ blocks' = blocks
<1> DEFINE new == [kind |-> "Connection", connection |-> connections]
           n == Len(values)
<1>1. /\ at \in DOMAIN program /\ at' = at + 1 /\ program' = program
      /\ Instr.operation.name = "Connect" /\ values' = Append(values, new)
      /\ connections' = connections + 1
      /\ sessions' = sessions /\ sent' = sent /\ blocks' = blocks
  BY DEF CompileConnect, Doing, Push
<1>2. CompileTypes /\ HandedOut /\ Named
  BY DEF Handling, HandedOut
<1>3. /\ connections \in Nat /\ sent \subseteq Nat /\ values \in Seq(Value) /\ n \in Nat
      /\ values' \in Seq(Value)
  BY <1>2, LenProperties DEF CompileTypes, Handling
<1>4. /\ metadata'.session_variables = metadata.session_variables
      /\ metadata'.session_setups = metadata.session_setups
      /\ metadata'.connection_variables = Insert(metadata.connection_variables, connections, n + 1)
  BY <1>2 DEF CompileConnect, Noted, CompileTypes, Fields
<1> DEFINE x == [name |-> "Connect", connection |-> connections, role |-> Input(Instr, 1).role]
           l == Len(actions)
<1>5. Emits(<<x>>)
  BY <1>1, <1>2 DEF CompileConnect, Push, Noted, Emits, CompileTypes, Fields
<1>6. /\ ActionsKept /\ FreshCarried /\ NoneFresh("AwaitSetupResponse")
      /\ Fresh = {l + 1} /\ actions'[l + 1] = x /\ Notes'[l + 1] = at
      /\ x.name = "Connect" /\ x.connection = connections
  <2>1. 1 \in DOMAIN Accessors(Instr.operation) /\ Accessors(Instr.operation)[1] = "Role"
    BY <1>1 DEF Accessors
  <2>2. Input(Instr, 1).role \in Nat
    BY <1>1, <1>2, <2>1, AtHand, HandReads, InputHolds, ValueHolds
  <2>3. CarriesWith(values, x, program[at])
    BY <1>1 DEF CarriesWith, Instr, Input
  <2>4. x \in CompiledAction /\ x.name = "Connect" /\ x.connection = connections
    BY <1>3, <2>2 DEF CompiledAction
  <2> HIDE DEF x
  <2>5. QED
    BY <1>2, <1>5, <2>3, <2>4, PlainKeeps
<1> HIDE DEF x
<1>7. new \in Value /\ new.kind = "Connection" /\ new.connection = connections
  BY <1>3 DEF Value
<1>8. Fits(new, <<"Connection">>)
  BY <1>7 DEF Fits, KindOf
<1>9. DefinedTypes(Instr.operation) = <<<<"Connection">>>>
  BY <1>1, DefinesOne
<1>10. new = [kind |-> "Connection", connection |-> connections]
  OBVIOUS
<1> HIDE DEF new
<1>11. /\ Follows /\ Len(values') = n + 1 /\ values'[n + 1] = new
       /\ \A v \in 1..n : values'[v] = values[v]
  BY <1>1, <1>2, <1>7, <1>8, <1>9, AppendFollows
<1>12. ValuesKept
  BY <1>11 DEF Follows
<1>13. SentNamed'
  <2>1. ASSUME NEW c \in sent PROVE c < connections + 1
    <3>1. c < connections /\ c \in Nat
      BY <1>2, <1>3 DEF Named, SentNamed
    <3>2. QED
      BY <1>3, <3>1
  <2>2. QED
    BY <1>1, <2>1 DEF SentNamed
<1>14. Carried' /\ SessionsNamed'
  <2>1. SessionsSame
    BY <1>1, <1>4 DEF SessionsSame
  <2>2. QED
    BY <1>2, <1>6, <1>11, <2>1, CarriedStays, SessionsNamedStays DEF Named, Handling
<1>15. ConnectionsNamed'
  <2>1. ASSUME NEW v \in (n + 1)..(n + 1)
        PROVE  values'[v].kind = "Connection" => values'[v].connection < connections + 1
    <3>1. v = n + 1
      BY <1>3
    <3> HIDE DEF n
    <3>2. QED
      BY <1>3, <1>7, <1>11, <3>1
  <2>2. connections' \in Nat /\ connections <= connections'
    BY <1>1, <1>3
  <2>3. QED
    BY <1>1, <1>2, <1>11, <2>1, <2>2, ConnectionsNamedStay DEF Named
<1>16. defined_at[n + 1] = at /\ defined_at' = defined_at /\ n + 1 \in 1..(n + 1)
  BY <1>1, <1>2, <1>3, <1>9, HandDefines DEF Handling, vars, history
<1> DEFINE known == metadata.connection_variables
<1>17. /\ DOMAIN metadata'.connection_variables = DOMAIN known \cup {connections}
       /\ \A c \in DOMAIN known \cup {connections} :
            metadata'.connection_variables[c] = IF c = connections THEN n + 1 ELSE known[c]
  BY <1>4 DEF Insert
<1> HIDE DEF n, l
<1>18. l + 1 \in ConnectsOf(actions') /\ actions'[l + 1].connection = connections
  BY <1>6 DEF ConnectsOf, Fresh
<1>19. ASSUME NEW id, id = l + 1 PROVE OpeningNamed(id)'
  <2>1. n + 1 \in 1..Len(values')
    BY <1>11, <1>16
  <2>2. /\ actions'[id].connection = connections /\ Notes'[id] = at
        /\ connections \in DOMAIN metadata'.connection_variables
        /\ metadata'.connection_variables[connections] = n + 1
    BY <1>6, <1>17, <1>18, <1>19
  <2>3. values'[n + 1] = [kind |-> "Connection", connection |-> connections]
    BY <1>10, <1>11
  <2> HIDE DEF known
  <2>4. QED
    BY <1>16, <2>1, <2>2, <2>3 DEF OpeningNamed
<1>20. ASSUME NEW id \in ConnectsOf(actions)
       PROVE  id \in ConnectsOf(actions') /\ actions'[id] = actions[id] /\ OpeningNamed(id)'
  <2>1. actions[id].connection < connections
    BY DEF Handling, CompileInv, ConnectsOnce, ConnectsOf
  <2>2. actions[id].connection # connections
    BY <1>3, <2>1
  <2>3. OpeningNamed(id) /\ actions[id].connection \in DOMAIN known
    BY <1>2 DEF Named, ConnectsNamed, OpeningNamed
  <2>4. QED
    BY <1>2, <1>6, <1>11, <1>17, <2>2, <2>3, OpeningStays DEF Handling
<1>21. ConnectsNamed'
  <2>1. ASSUME NEW id \in ConnectsOf(actions') PROVE id \in ConnectsOf(actions) \/ id = l + 1
    <3>1. id \in DOMAIN actions \/ id \in Fresh
      BY DEF ConnectsOf, Fresh
    <3>2. QED
      BY <1>6, <3>1 DEF ConnectsOf, ActionsKept
  <2>2. ASSUME NEW c \in DOMAIN known \cup {connections}
        PROVE  \E id \in ConnectsOf(actions') : actions'[id].connection = c
    <3>1. CASE c = connections
      BY <1>18, <3>1
    <3>2. CASE c # connections
      <4>1. PICK id \in ConnectsOf(actions) : actions[id].connection = c
        BY <1>2, <3>2 DEF Named, ConnectsNamed
      <4>2. QED
        BY <1>20, <4>1
    <3>3. QED
      BY <3>1, <3>2
  <2>3. ASSUME NEW id \in ConnectsOf(actions') PROVE OpeningNamed(id)'
    BY <1>19, <1>20, <2>1
  <2>4. DOMAIN metadata'.connection_variables = DOMAIN known \cup {connections}
    BY <1>17
  <2> HIDE DEF known
  <2>5. QED
    BY <2>2, <2>3, <2>4 DEF ConnectsNamed
<1>22. QED
  BY <1>1, <1>11, <1>13, <1>14, <1>15, <1>21 DEF Named

\* A setup's attempt is the variable the compiler comes to next, of the protocol of the message
\* (compiler.rs:305-362).
LEMMA SendSetupFollows ==
  ASSUME Handling, CompileSendSetup
  PROVE  Follows /\ Named' /\ blocks' = blocks
<1> DEFINE op == Instr.operation
           c == Input(Instr, 1).connection
           spec == Input(Instr, 2).spec
           new == [kind |-> "SetupAttempt", session |-> sessions, connection |-> c]
           n == Len(values)
           send == [name |-> "Send", connection |-> c, payload |-> spec]
           await == [name |-> "AwaitSetupResponse", connection |-> c, session |-> sessions,
                     protocol |-> op.protocol, first_on_connection |-> FirstOnConnection(c)]
<1>1. /\ at \in DOMAIN program /\ at' = at + 1 /\ program' = program
      /\ op.name = "SendSetupConnection" /\ Readable(Instr) /\ values' = Append(values, new)
      /\ connections' = connections /\ sessions' = sessions + 1 /\ sent' = sent \cup {c}
      /\ blocks' = blocks
  BY DEF CompileSendSetup, Doing, Push
<1>2. CompileTypes /\ HandedOut /\ Named
  BY DEF Handling, HandedOut
<1>3. Instr \in Instruction /\ op \in Operation
  BY <1>1, <1>2, AtHand
<1>4. /\ 1 \in DOMAIN Accessors(op) /\ Accessors(op)[1] = "Connection"
      /\ 2 \in DOMAIN Accessors(op) /\ Accessors(op)[2] = "SetupConnection"
  BY <1>1 DEF Accessors
<1>5. c \in Nat /\ spec \in Setup
  BY <1>1, <1>2, <1>3, <1>4, InputHolds, ValueHolds
<1>6. spec.protocol = op.protocol /\ op.protocol \in Protocols
  <2>1. Fits(Input(Instr, 2), InputVariables(op)[2])
    BY <1>1, <1>2, <1>4, HandReads
  <2>2. InputVariables(op)[2] = ConstSetupConnection(op.protocol)
    BY <1>1 DEF InputVariables
  <2>3. QED
    BY <1>1, <1>3, <2>1, <2>2 DEF Fits, ConstSetupConnection, Operation
<1>7. c < connections
  BY <1>1, HandConnection
<1>8. /\ sessions \in Nat /\ connections \in Nat /\ values \in Seq(Value) /\ n \in Nat
      /\ values' \in Seq(Value) /\ DOMAIN metadata.session_setups = 0..(sessions - 1)
  BY <1>2, LenProperties DEF CompileTypes, Handling
<1>9. /\ metadata'.connection_variables = metadata.connection_variables
      /\ metadata'.session_variables = Insert(metadata.session_variables, sessions, n + 1)
      /\ metadata'.session_setups = Insert(metadata.session_setups, sessions, spec)
  BY <1>2 DEF CompileSendSetup, Noted, CompileTypes, Fields
<1>10. Emits(<<send, await>>)
  BY <1>1, <1>2 DEF CompileSendSetup, Push, Noted, Emits, CompileTypes, Fields
<1>11. send \in CompiledAction /\ await \in CompiledAction
  <2>1. FirstOnConnection(c) \in BOOLEAN
    BY DEF FirstOnConnection
  <2> DEFINE first == FirstOnConnection(c)
  <2> HIDE DEF c, spec, op, first
  <2>2. send \in CompiledAction
    BY <1>5 DEF CompiledAction
  <2>3. [name |-> "AwaitSetupResponse", connection |-> c, session |-> sessions,
         protocol |-> op.protocol, first_on_connection |-> first] \in CompiledAction
    BY <1>5, <1>6, <1>8, <2>1 DEF CompiledAction, first
  <2>4. QED
    BY <2>2, <2>3 DEF first
<1>12. /\ send.name = "Send" /\ await.name = "AwaitSetupResponse"
       /\ await.session = sessions /\ await.protocol = op.protocol /\ await.connection = c
       /\ new.kind = "SetupAttempt"
       /\ CarriesWith(values, send, program[at]) /\ CarriesWith(values, await, program[at])
  BY <1>1 DEF CarriesWith, Instr, Input
<1>13. new \in Value /\ Fits(new, SetupAttempt(op.protocol))
  <2> HIDE DEF c
  <2>1. QED
    BY <1>5, <1>8 DEF Value, Fits, KindOf, SetupAttempt
<1>14. DefinedTypes(op) = <<SetupAttempt(op.protocol)>>
  BY <1>1, DefinesOne
<1> HIDE DEF new, c, spec, send, await
<1>15. /\ Follows /\ Len(values') = n + 1 /\ values'[n + 1] = new
       /\ \A v \in 1..n : values'[v] = values[v]
  BY <1>1, <1>2, <1>13, <1>14, AppendFollows
<1>16. defined_at[n + 1] = at /\ defined_at' = defined_at /\ n + 1 \in 1..(n + 1)
  BY <1>1, <1>2, <1>8, <1>14, HandDefines DEF Handling, vars, history
<1> DEFINE l == Len(actions)
<1>17. /\ l \in Nat /\ DOMAIN actions = 1..l /\ DOMAIN actions' = 1..(l + 2)
       /\ \A k \in 1..l : actions'[k] = actions[k] /\ Notes'[k] = Notes[k]
       /\ actions'[l + 1] = send /\ actions'[l + 2] = await
       /\ Notes'[l + 1] = at /\ Notes'[l + 2] = at
  <2>1. /\ <<send, await>> \in Seq(CompiledAction) /\ Len(<<send, await>>) = 2
        /\ <<send, await>>[1] = send /\ <<send, await>>[2] = await /\ 1 \in 1..2 /\ 2 \in 1..2
    BY <1>11
  <2>2. QED
    BY <1>2, <1>10, <2>1, Emitted DEF Notes
<1> HIDE DEF l, n, op
<1>18. /\ Fresh = {l + 1, l + 2} /\ (l + 2) - 1 = l + 1
       /\ \A k \in 1..l : k \in 1..(l + 2) /\ k # l + 1 /\ k # l + 2
  <2>1. /\ 1..(l + 2) = 1..l \cup {l + 1, l + 2} /\ l + 1 \notin 1..l /\ l + 2 \notin 1..l
        /\ (l + 2) - 1 = l + 1
    BY <1>17
  <2>2. QED
    BY <1>17, <2>1 DEF Fresh
<1>19. ActionsKept /\ FreshCarried /\ NoneFresh("Connect")
  <2>1. ActionsKept
    BY <1>17, <1>18 DEF ActionsKept
  <2>2. FreshCarried
    BY <1>12, <1>17, <1>18 DEF FreshCarried
  <2>3. NoneFresh("Connect")
    BY <1>12, <1>17, <1>18 DEF NoneFresh
  <2>4. QED
    BY <2>1, <2>2, <2>3
<1>20. SentNamed' /\ Carried' /\ ConnectsNamed'
  <2>1. SentNamed'
    BY <1>1, <1>2, <1>7 DEF Named, SentNamed
  <2>2. QED
    BY <1>2, <1>9, <1>15, <1>19, <2>1, CarriedStays, ConnectsNamedStay DEF Named, Handling
<1>21. ConnectionsNamed'
  <2>1. connections <= connections' /\ connections' \in Nat
    BY <1>1, <1>8
  <2>2. ASSUME NEW v \in (Len(values) + 1)..Len(values') PROVE values'[v].kind # "Connection"
    <3>1. v = n + 1
      BY <1>8, <1>15 DEF n
    <3>2. QED
      BY <1>12, <1>15, <3>1
  <2>3. QED
    BY <1>2, <1>15, <2>1, <2>2, ConnectionsNamedStay DEF Named
<1> DEFINE held == metadata.session_variables
           setups == metadata.session_setups
<1>22. /\ DOMAIN held = 0..(sessions - 1) /\ DOMAIN setups = 0..(sessions - 1)
       /\ sessions \notin 0..(sessions - 1)
       /\ 0..((sessions + 1) - 1) = 0..(sessions - 1) \cup {sessions}
  BY <1>2, <1>8 DEF Named, SessionsNamed
<1>23. /\ DOMAIN metadata'.session_variables = 0..(sessions - 1) \cup {sessions}
       /\ \A s \in 0..(sessions - 1) \cup {sessions} :
            /\ metadata'.session_variables[s] = IF s = sessions THEN n + 1 ELSE held[s]
            /\ metadata'.session_setups[s] = IF s = sessions THEN spec ELSE setups[s]
  BY <1>9, <1>22 DEF Insert
<1> HIDE DEF held, setups
<1>24. l + 2 \in AwaitsOf(actions') /\ actions'[l + 2].session = sessions
  BY <1>12, <1>17, <1>18 DEF AwaitsOf, Fresh
<1>25. ASSUME NEW id, id = l + 2 PROVE AttemptNamed(id)'
  <2>1. n + 1 \in 1..Len(values')
    BY <1>15, <1>16
  <2>2. metadata'.session_variables[sessions] = n + 1 /\ metadata'.session_setups[sessions] = spec
    BY <1>23
  <2>3. values'[n + 1] = [kind |-> "SetupAttempt", session |-> sessions, connection |-> c]
    BY <1>15 DEF new
  <2>4. /\ actions'[id].session = sessions /\ actions'[id].connection = c
        /\ actions'[id].protocol = op.protocol
        /\ Notes'[id] = at /\ Notes'[id - 1] = at
    BY <1>12, <1>17, <1>18, <1>25
  <2>5. QED
    BY <1>6, <1>16, <2>1, <2>2, <2>3, <2>4 DEF AttemptNamed
<1>26. ASSUME NEW id \in AwaitsOf(actions)
       PROVE  id \in AwaitsOf(actions') /\ actions'[id] = actions[id] /\ AttemptNamed(id)'
  <2>1. id - 1 \in DOMAIN actions /\ actions[id].session \in 0..(sessions - 1)
    BY <1>22 DEF Handling, CompileInv, AwaitsPaired, setups
  <2>2. AttemptNamed(id)
    BY <1>2 DEF Named, SessionsNamed
  <2>3. LET s == actions[id].session
        IN /\ metadata'.session_variables[s] = metadata.session_variables[s]
           /\ metadata'.session_setups[s] = metadata.session_setups[s]
    BY <1>22, <1>23, <2>1 DEF held, setups
  <2>4. QED
    BY <1>2, <1>15, <1>19, <2>1, <2>2, <2>3, AttemptStays DEF Handling
<1>27. SessionsNamed'
  <2>1. ASSUME NEW id \in AwaitsOf(actions') PROVE id \in AwaitsOf(actions) \/ id = l + 2
    <3>1. id \in DOMAIN actions \/ id \in {l + 1, l + 2}
      BY <1>18 DEF AwaitsOf, Fresh
    <3>2. id # l + 1
      BY <1>12, <1>17 DEF AwaitsOf
    <3>3. QED
      BY <1>19, <3>1, <3>2 DEF AwaitsOf, ActionsKept
  <2>2. ASSUME NEW s \in 0..(sessions - 1) \cup {sessions}
        PROVE  \E id \in AwaitsOf(actions') : actions'[id].session = s
    <3>1. CASE s = sessions
      BY <1>24, <3>1
    <3>2. CASE s # sessions
      <4>1. PICK id \in AwaitsOf(actions) : actions[id].session = s
        BY <1>2, <3>2 DEF Named, SessionsNamed
      <4>2. QED
        BY <1>26, <4>1
    <3>3. QED
      BY <3>1, <3>2
  <2>3. ASSUME NEW id \in AwaitsOf(actions') PROVE AttemptNamed(id)'
    BY <1>25, <1>26, <2>1
  <2>4. DOMAIN metadata'.session_variables = 0..(sessions' - 1)
        /\ 0..(sessions' - 1) = 0..(sessions - 1) \cup {sessions}
    BY <1>1, <1>22, <1>23
  <2>5. QED
    BY <2>2, <2>3, <2>4 DEF SessionsNamed
<1>28. QED
  BY <1>1, <1>15, <1>20, <1>21, <1>27 DEF Named

\* The block entered is that of the attempt the instruction is given (compiler.rs:364-374).
LEMMA BeginFollows ==
  ASSUME Handling, CompileBeginOnSuccess
  PROVE  Follows /\ Named' /\ Len(blocks') = Len(blocks) + 1
<1> DEFINE op == Instr.operation
           new == [kind |-> "Session"]
           enter == [name |-> "EnterOnSetupSuccess", session |-> Input(Instr, 1).session,
                     end |-> MaxActionId]
           n == Len(values)
           v == Instr.inputs[1]
<1>1. /\ at \in DOMAIN program /\ at' = at + 1 /\ program' = program
      /\ op.name = "BeginOnSetupSuccess" /\ Readable(Instr) /\ values' = Append(values, new)
      /\ UNCHANGED counters /\ blocks' = Append(blocks, Len(actions) + 1)
  BY DEF CompileBeginOnSuccess, Doing, Push
<1>2. CompileTypes /\ HandedOut /\ Named
  BY DEF Handling, HandedOut
<1>3. Instr \in Instruction /\ op \in Operation
  BY <1>1, <1>2, AtHand
<1>4. 1 \in DOMAIN Accessors(op) /\ Accessors(op)[1] = "SetupAttempt"
  BY <1>1 DEF Accessors
<1>5. /\ Input(Instr, 1).session \in Nat /\ values[v].kind = "SetupAttempt"
      /\ values[v] = Input(Instr, 1) /\ v \in DOMAIN values
  BY <1>1, <1>2, <1>3, <1>4, InputHolds, ValueHolds DEF Input
<1>6. /\ n \in Nat /\ values \in Seq(Value) /\ values' \in Seq(Value) /\ DOMAIN values = 1..n
      /\ connections \in Nat /\ blocks \in Seq(Nat) /\ Len(actions) \in Nat
  BY <1>2, LenProperties DEF CompileTypes, Handling
<1>7. NothingNamed
  BY <1>1, <1>2
  DEF CompileBeginOnSuccess, Noted, CompileTypes, Fields, NothingNamed, SessionsSame, counters
<1>8. Emits(<<enter>>)
  BY <1>1, <1>2 DEF CompileBeginOnSuccess, Push, Noted, Emits, CompileTypes, Fields
<1>9. enter \in CompiledAction /\ enter.name = "EnterOnSetupSuccess"
      /\ CarriesWith(values, enter, program[at])
  BY <1>1, <1>5 DEF CompiledAction, MaxActionId, CarriesWith, Instr, Input
<1>10. new \in Value /\ new.kind = "Session" /\ Fits(new, Session(op.protocol))
  BY DEF Value, Fits, KindOf, Session
<1>11. DefinedTypes(op) = <<Session(op.protocol)>>
  BY <1>1, DefinesOne
<1> HIDE DEF new, enter, op
<1>12. /\ Follows /\ Len(values') = n + 1 /\ values'[n + 1] = new
       /\ \A w \in 1..n : values'[w] = values[w]
  BY <1>1, <1>2, <1>10, <1>11, AppendFollows DEF op
<1>13. /\ ActionsKept /\ FreshCarried
       /\ NoneFresh("AwaitSetupResponse") /\ NoneFresh("Connect")
  BY <1>2, <1>8, <1>9, PlainKeeps
<1>14. Len(blocks') = Len(blocks) + 1
  <2>1. Len(actions) + 1 \in Nat
    BY <1>6
  <2>2. QED
    BY <1>1, <1>6, <2>1, AppendProperties
<1>15. Named'
  <2>1. ASSUME NEW w \in (Len(values) + 1)..Len(values') PROVE values'[w].kind # "Connection"
    <3>1. w = n + 1
      BY <1>6, <1>12
    <3> HIDE DEF n
    <3>2. QED
      BY <1>10, <1>12, <3>1
  <2>2. connections' = connections /\ \A c \in sent' : c < connections
    BY <1>1, <1>2 DEF Named, SentNamed, counters
  <2>3. QED
    BY <1>7, <1>12, <1>13, <2>1, <2>2, StillNamed
<1>16. QED
  BY <1>12, <1>14, <1>15

\* The end of a block patches its enter, and changes nothing it is named by.
LEMMA EndFollows ==
  ASSUME Handling, CompileEndOnSuccess
  PROVE  Follows /\ Named' /\ Len(blocks') = Len(blocks) - 1
<1> DEFINE exit == [name |-> "ExitBlock"]
           last == Last(blocks)
           l == Len(actions)
           patched == [actions EXCEPT ![last].end = l + 1]
           notes == metadata.action_instructions
<1>1. /\ at \in DOMAIN program /\ at' = at + 1 /\ program' = program /\ values' = values
      /\ Instr.operation.name = "EndOnSetupSuccess" /\ blocks # << >> /\ blocks' = Front(blocks)
      /\ UNCHANGED counters /\ actions' = Append(patched, exit)
  BY DEF CompileEndOnSuccess, Doing, EnterToPatch
<1>2. CompileTypes /\ HandedOut /\ Named
  BY DEF Handling, HandedOut
<1>3. /\ Len(values) \in Nat /\ blocks \in Seq(Nat) /\ actions \in Seq(CompiledAction)
      /\ l \in Nat /\ DOMAIN actions = 1..l /\ notes \in Seq(Nat) /\ Len(notes) = l
  BY <1>2, LenProperties DEF CompileTypes
<1>4. NothingNamed
  BY <1>1, <1>2
  DEF CompileEndOnSuccess, Noted, CompileTypes, Fields, NothingNamed, SessionsSame, counters
<1>5. /\ metadata'.action_instructions[l + 1] = at
      /\ \A k \in 1..l : metadata'.action_instructions[k] = notes[k]
  <2> DEFINE noted == [k \in DOMAIN <<exit>> |-> at]
  <2>1. metadata'.action_instructions = notes \o noted
    BY <1>2 DEF CompileEndOnSuccess, Noted, CompileTypes, Fields
  <2>2. noted \in Seq(Nat) /\ Len(noted) = 1 /\ noted[1] = at
    <3>1. at \in Nat
      BY <1>1, <1>2, AtHand
    <3>2. DOMAIN <<exit>> = 1..1
      OBVIOUS
    <3>3. 1 \in 1..1
      OBVIOUS
    <3>4. QED
      BY <3>1, <3>2, <3>3, Copies
  <2> HIDE DEF noted, notes, l
  <2>3. /\ \A k \in 1..l : k \in 1..(l + 1) /\ k <= l
        /\ l + 1 \in 1..(l + 1) /\ ~(l + 1 <= l) /\ (l + 1) - l = 1
    BY <1>3
  <2>4. \A k \in 1..(l + 1) : (notes \o noted)[k] = IF k <= l THEN notes[k] ELSE noted[k - l]
    <3>1. \A k \in 1..(Len(notes) + Len(noted)) :
            (notes \o noted)[k] = IF k <= Len(notes) THEN notes[k] ELSE noted[k - Len(notes)]
      BY <1>3, <2>2, ConcatProperties
    <3>2. Len(notes) = l /\ Len(noted) = 1
      BY <1>3, <2>2
    <3>3. QED
      BY <3>1, <3>2
  <2>5. QED
    BY <2>1, <2>2, <2>3, <2>4
<1>6. /\ patched \in Seq(CompiledAction) /\ Len(patched) = l
      /\ \A k \in 1..l : k # last => patched[k] = actions[k]
      /\ last \in EntersOf(actions)
  <2>1. exit \in CompiledAction /\ exit.name = "ExitBlock"
    BY DEF CompiledAction
  <2>2. OpenBlocks(actions, blocks) /\ ClosedBlocks(actions)
    BY DEF Handling, CompileInv
  <2>3. Len(actions) + 1 < MaxActionId
    <3>1. l + 2 < MaxActionId
      BY <1>1, <1>2, AtHand
    <3>2. QED
      BY <1>3, <3>1 DEF MaxActionId
  <2>4. actions \in Seq(CompiledAction) /\ blocks \in Seq(Nat) /\ blocks # << >>
    BY <1>1, <1>3
  <2> HIDE DEF exit
  <2>5. LET pat == [actions EXCEPT ![Last(blocks)].end = Len(actions) + 1]
        IN /\ pat \in Seq(CompiledAction) /\ Len(pat) = Len(actions)
           /\ \A k \in DOMAIN actions : k # Last(blocks) => pat[k] = actions[k]
           /\ Last(blocks) \in EntersOf(actions)
    BY <2>1, <2>2, <2>3, <2>4, ExitKeepsNest
  <2>6. QED
    BY <1>3, <2>5
<1>7. patched[last].session = actions[last].session
  <2>1. last \in DOMAIN actions /\ actions[last] \in CompiledAction
        /\ actions[last].name = "EnterOnSetupSuccess"
    BY <1>3, <1>6, ElementOfSeq DEF EntersOf
  <2>2. patched[last] = [actions[last] EXCEPT !.end = l + 1]
    BY <2>1
  <2> HIDE DEF patched, last, l
  <2>3. QED
    BY <2>1, <2>2 DEF CompiledAction
<1>8. exit \in CompiledAction /\ exit.name = "ExitBlock"
  BY DEF CompiledAction
<1> HIDE DEF exit, patched, last
<1>9. /\ Len(actions') = l + 1 /\ actions'[l + 1] = exit
      /\ \A k \in 1..l : actions'[k] = patched[k]
  BY <1>1, <1>6, <1>8, AppendProperties
<1>10. actions' \in Seq(CompiledAction)
  BY DEF Handling, CompileTypes
<1>11. DOMAIN actions' = 1..(l + 1)
  BY <1>9, <1>10, LenProperties
<1> HIDE DEF l, notes
<1>12. \A k \in 1..(l + 1) : k \in 1..l \/ k = l + 1
  BY <1>3 DEF l
<1>13. actions[last].name = "EnterOnSetupSuccess"
  BY <1>6 DEF EntersOf
<1>14. patched[last].name = "EnterOnSetupSuccess"
  BY <1>3, <1>6, <1>13 DEF patched, EntersOf, CompiledAction
<1>15. ActionsKept
  <2>1. ASSUME NEW id \in 1..l
        PROVE  /\ id \in DOMAIN actions' /\ Notes'[id] = Notes[id]
               /\ actions'[id].name = actions[id].name
               /\ IF actions[id].name = "EnterOnSetupSuccess"
                    THEN actions'[id].session = actions[id].session
                    ELSE actions'[id] = actions[id]
    <3>1. id \in 1..(l + 1) /\ actions'[id] = patched[id]
      BY <1>3, <1>9 DEF l
    <3>2. Notes'[id] = Notes[id]
      BY <1>5 DEF Notes, notes
    <3>3. CASE id = last
      BY <1>7, <1>11, <1>13, <1>14, <3>1, <3>2, <3>3
    <3>4. CASE id # last
      BY <1>6, <1>11, <3>1, <3>2, <3>4
    <3>5. QED
      BY <3>3, <3>4
  <2>2. QED
    BY <1>3, <2>1 DEF ActionsKept
<1>16. /\ FreshCarried /\ NoneFresh("AwaitSetupResponse") /\ NoneFresh("Connect")
  <2>1. \A id \in Fresh : id = l + 1
    BY <1>3, <1>11, <1>12 DEF Fresh
  <2>2. CarriesWith(values, exit, program[at])
    BY <1>1, <1>8 DEF CarriesWith, Instr
  <2>3. FreshCarried
    BY <1>5, <1>9, <2>1, <2>2 DEF FreshCarried, Notes
  <2>4. QED
    BY <1>8, <1>9, <2>1, <2>3 DEF NoneFresh
<1>17. Follows
  <2>1. DefinedTypes(Instr.operation) = << >>
    BY <1>1, DefinesNothing
  <2>2. QED
    BY <1>1, <1>2, <2>1, StillFollows
<1>18. Named'
  <2>1. (Len(values) + 1)..Len(values') = {}
    BY <1>1, <1>3
  <2>2. connections' = connections /\ sent' = sent
    BY <1>1 DEF counters
  <2>3. \A c \in sent' : c < connections
    BY <1>2, <2>2 DEF Named, SentNamed
  <2>4. QED
    BY <1>4, <1>15, <1>16, <1>17, <2>1, <2>2, <2>3, StillNamed
<1>19. Len(blocks') = Len(blocks) - 1
  BY <1>1, <1>3, Popped
<1>20. QED
  BY <1>17, <1>18, <1>19

-----------------------------------------------------------------------------
(* The open blocks are those of the sessions the compiler is among. *)

\* Every session's block is closed by an end of its own, after the session.
LEMMA SessionCloses ==
  ASSUME HandedOut
  PROVE  /\ \A v \in Sessions :
              /\ v \in 1..Len(variables) /\ closed_at[BlockOf(v)] \in 1..Len(instructions)
              /\ NameAt(closed_at[BlockOf(v)]) = "EndOnSetupSuccess"
              /\ defined_at[v] \in Nat /\ defined_at[v] < closed_at[BlockOf(v)]
         /\ \A v, w \in Sessions : closed_at[BlockOf(v)] = closed_at[BlockOf(w)] => v = w
<1>1. /\ Guarding /\ scope_counter \in Nat \ {0} /\ Len(instructions) \in Nat
      /\ \A s \in 1..scope_counter : closed_at[s] \in Nat /\ closed_at[s] <= Len(instructions)
      /\ \A s \in 2..scope_counter : closed_at[s] # 0
      /\ \A v \in 1..Len(variables) : defined_at[v] \in Nat
  BY HandedOutMeans DEF HandedOut
<1>2. \A s \in 2..scope_counter : s \in 1..scope_counter
  BY <1>1
<1>3. ASSUME NEW v \in Sessions
      PROVE  /\ v \in 1..Len(variables) /\ closed_at[BlockOf(v)] \in 1..Len(instructions)
             /\ NameAt(closed_at[BlockOf(v)]) = "EndOnSetupSuccess"
             /\ defined_at[v] \in Nat /\ defined_at[v] < closed_at[BlockOf(v)]
             /\ BlockOf(v) \in 1..scope_counter
  <2>1. BlockOf(v) \in 2..scope_counter /\ v \in 1..Len(variables)
    BY <1>1 DEF Guarding, Sessions
  <2>2. /\ closed_at[BlockOf(v)] \in Nat /\ closed_at[BlockOf(v)] <= Len(instructions)
        /\ closed_at[BlockOf(v)] # 0 /\ BlockOf(v) \in 1..scope_counter
    BY <1>1, <1>2, <2>1
  <2>3. QED
    BY <1>1, <2>1, <2>2 DEF Guarding
<1>4. ASSUME NEW v \in Sessions, NEW w \in Sessions,
             closed_at[BlockOf(v)] = closed_at[BlockOf(w)]
      PROVE  v = w
  <2>1. closed_at[BlockOf(v)] # 0
    BY <1>1, <1>3
  <2>2. BlockOf(v) = BlockOf(w)
    BY <1>1, <1>3, <1>4, <2>1 DEF Guarding
  <2>3. QED
    BY <1>1, <2>2 DEF Guarding
<1>5. QED
  BY <1>3, <1>4

\* The open sessions can be counted.
LEMMA OpenFinite ==
  ASSUME HandedOut
  PROVE  IsFiniteSet(OpenSessions) /\ Cardinality(OpenSessions) \in Nat
<1>1. Len(variables) \in Nat
  BY HandedOutMeans
<1>2. OpenSessions \subseteq 1..Len(variables)
  BY DEF OpenSessions, Sessions
<1>3. IsFiniteSet(1..Len(variables))
  BY <1>1, FS_Interval
<1>4. QED
  BY <1>2, <1>3, FS_Subset, FS_CardinalityType

\* The end of a conditional block ends one the compiler is in.
LEMMA HandEnds ==
  ASSUME HandedOut, at \in DOMAIN program, Instr.operation.name = "EndOnSetupSuccess"
  PROVE  \E w \in OpenSessions : closed_at[BlockOf(w)] = at
<1>1. /\ Guarding /\ DOMAIN program = 1..Len(program) /\ program = instructions /\ Mirrored
      /\ at \in Nat
  BY HandedOutMeans DEF HandedOut
<1>2. NameAt(at) = "EndOnSetupSuccess"
  BY <1>1 DEF NameAt, Instr
<1>3. PICK w \in Sessions : closed_at[BlockOf(w)] = at
  BY <1>1, <1>2 DEF Guarding
<1>4. defined_at[w] < at /\ w \in 1..Len(variables)
  BY <1>3, SessionCloses
<1>5. w <= Len(values)
  BY <1>1, <1>4 DEF Mirrored
<1>6. QED
  BY <1>1, <1>3, <1>5 DEF OpenSessions

\* A session that is behind the compiler once the instruction is compiled was behind it before,
\* unless the instruction is the beginning that defines it.
LEMMA NextSessions ==
  ASSUME HandedOut, Follows
  PROVE  \A v \in Sessions : v <= Len(values') <=>
           \/ v <= Len(values)
           \/ Instr.operation.name = "BeginOnSetupSuccess" /\ v = Len(values) + 1
<1> DEFINE op == Instr.operation
           types == DefinedTypes(op)
           n == Len(values)
<1>1. /\ n \in Nat /\ at \in DOMAIN program /\ Len(values') = n + Len(types)
  BY HandedOutMeans DEF Follows
<1>2. Instr = instructions[at] /\ op \in Operation /\ Len(types) \in Nat /\ LaidAt(at, n)
  BY <1>1, HandTypes, HandLaid
<1>3. \A j \in 1..Len(types) : variables[n + j].var = types[j]
  BY <1>2 DEF LaidAt
<1>4. /\ op.name = "BeginOnSetupSuccess" => Len(types) = 1
      /\ op.name # "BeginOnSetupSuccess" => \A j \in 1..Len(types) : types[j][1] # "Session"
  BY <1>2, SessionsDefined
<1> SUFFICES ASSUME NEW v \in Sessions
             PROVE  v <= n + Len(types) <=>
                      v <= n \/ (op.name = "BeginOnSetupSuccess" /\ v = n + 1)
  BY <1>1
<1>5. v \in Nat /\ variables[v].var[1] = "Session"
  <2>1. v \in 1..Len(variables) /\ variables[v].var[1] = "Session" /\ Len(variables) \in Nat
    BY HandedOutMeans DEF Sessions
  <2>2. QED
    BY <2>1
<1> HIDE DEF n, types
<1>6. CASE op.name = "BeginOnSetupSuccess"
  <2>1. Len(types) = 1
    BY <1>4, <1>6
  <2>2. QED
    BY <1>1, <1>5, <1>6, <2>1 DEF n
<1>7. CASE op.name # "BeginOnSetupSuccess"
  <2>1. ASSUME v <= n + Len(types), ~(v <= n) PROVE FALSE
    <3>1. v - n \in 1..Len(types) /\ n + (v - n) = v
      BY <1>1, <1>2, <1>5, <2>1 DEF n
    <3>2. variables[v].var = types[v - n]
      BY <1>3, <3>1
    <3>3. QED
      BY <1>4, <1>5, <1>7, <3>1, <3>2
  <2>2. v <= n => v <= n + Len(types)
    BY <1>1, <1>2, <1>5 DEF n
  <2>3. QED
    BY <1>7, <2>1, <2>2
<1>8. QED
  BY <1>6, <1>7

\* What an instruction makes of the open blocks (builder.rs:155-205 against compiler.rs:364-385).
LEMMA NextOpen ==
  ASSUME HandedOut, Follows, UNCHANGED vars
  PROVE  LET name == Instr.operation.name
         IN /\ name \notin {"BeginOnSetupSuccess", "EndOnSetupSuccess"} =>
                 OpenSessions' = OpenSessions
            /\ name = "BeginOnSetupSuccess" =>
                 /\ OpenSessions' = OpenSessions \cup {Len(values) + 1}
                 /\ Len(values) + 1 \notin OpenSessions
            /\ name = "EndOnSetupSuccess" =>
                 \E w \in OpenSessions : OpenSessions' = OpenSessions \ {w}
<1> DEFINE name == Instr.operation.name
           n == Len(values)
           closer(v) == closed_at[BlockOf(v)]
<1>1. /\ n \in Nat /\ at \in Nat /\ at \in DOMAIN program /\ at' = at + 1 /\ Mirrored
      /\ DOMAIN program = 1..Len(program) /\ program = instructions /\ Len(instructions) \in Nat
  BY HandedOutMeans DEF Follows, HandedOut
<1>2. name = NameAt(at)
  BY <1>1 DEF NameAt, Instr
<1>3. ASSUME NEW v \in Sessions
      PROVE  /\ closer(v) \in Nat
             /\ closer(v) = at => name = "EndOnSetupSuccess"
             /\ closer(v) >= at + 1 <=> closer(v) >= at /\ closer(v) # at
  <2>1. closer(v) \in 1..Len(instructions) /\ NameAt(closer(v)) = "EndOnSetupSuccess"
    BY SessionCloses
  <2> HIDE DEF closer
  <2>2. closer(v) \in Nat
    BY <1>1, <2>1
  <2>3. closer(v) = at => name = "EndOnSetupSuccess"
    BY <1>2, <2>1
  <2>4. QED
    BY <1>1, <2>2, <2>3
<1>4. OpenSessions = {v \in Sessions : v <= n /\ closer(v) >= at}
  BY DEF OpenSessions
<1>5. OpenSessions' = {v \in Sessions : v <= Len(values') /\ closer(v) >= at + 1}
  <2>1. Sessions' = Sessions
    BY DEF Sessions, vars
  <2>2. \A v : BlockOf(v)' = BlockOf(v)
    BY DEF BlockOf, vars
  <2>3. closed_at' = closed_at
    BY DEF vars, history
  <2>4. QED
    BY <1>1, <2>1, <2>2, <2>3 DEF OpenSessions
<1>6. \A v \in Sessions : v <= Len(values') <=>
        v <= n \/ (name = "BeginOnSetupSuccess" /\ v = n + 1)
  BY NextSessions
<1>7. \A v \in Sessions : v \in Nat
  <2>1. \A v \in Sessions : v \in 1..Len(variables)
    BY DEF Sessions
  <2>2. Len(variables) \in Nat
    BY HandedOutMeans
  <2>3. QED
    BY <2>1, <2>2
<1>8. \A v, w \in Sessions : closer(v) = closer(w) => v = w
  BY SessionCloses
<1>9. name = "BeginOnSetupSuccess" => n + 1 \in Sessions /\ closer(n + 1) >= at + 1
  <2> SUFFICES ASSUME name = "BeginOnSetupSuccess"
               PROVE  n + 1 \in Sessions /\ closer(n + 1) >= at + 1
    OBVIOUS
  <2>1. LaidAt(at, n) /\ Instr = instructions[at] /\ Instr.operation \in Operation
    BY <1>1, HandLaid, HandTypes
  <2>2. /\ Len(DefinedTypes(Instr.operation)) = 1 /\ DefinedTypes(Instr.operation)[1][1] = "Session"
    BY <2>1, SessionsDefined
  <2>3. n + 1 <= Len(variables) /\ variables[n + 1].var[1] = "Session"
    <3>1. 1 \in 1..1
      OBVIOUS
    <3>2. QED
      BY <2>1, <2>2, <3>1 DEF LaidAt
  <2>4. n + 1 \in 1..Len(variables) /\ ~(n + 1 <= n)
    <3>1. Len(variables) \in Nat
      BY HandedOutMeans
    <3>2. QED
      BY <1>1, <2>3, <3>1
  <2>5. n + 1 \in Sessions
    BY <2>3, <2>4 DEF Sessions
  <2>6. defined_at[n + 1] \in Nat /\ defined_at[n + 1] < closer(n + 1) /\ closer(n + 1) \in Nat
    BY <1>3, <2>5, SessionCloses
  <2>7. ~(defined_at[n + 1] < at)
    BY <1>1, <2>4 DEF Mirrored
  <2> HIDE DEF closer
  <2>8. QED
    BY <1>1, <2>5, <2>6, <2>7
<1>10. name = "EndOnSetupSuccess" => \E w \in OpenSessions : closer(w) = at
  BY <1>1, HandEnds
<1> HIDE DEF name, n, closer
<1>11. CASE name \notin {"BeginOnSetupSuccess", "EndOnSetupSuccess"}
  <2>1. ASSUME NEW v \in Sessions
        PROVE  v <= Len(values') /\ closer(v) >= at + 1 <=> v <= n /\ closer(v) >= at
    BY <1>3, <1>6, <1>11
  <2>2. OpenSessions' = OpenSessions
    BY <1>4, <1>5, <2>1
  <2>3. QED
    BY <1>11, <2>2 DEF name
<1>12. CASE name = "BeginOnSetupSuccess"
  <2>1. n + 1 \notin OpenSessions
    BY <1>1, <1>4 DEF n
  <2>2. ASSUME NEW v \in Sessions
        PROVE  v <= Len(values') /\ closer(v) >= at + 1 <=>
                 (v <= n /\ closer(v) >= at) \/ v = n + 1
    BY <1>3, <1>6, <1>9, <1>12
  <2>3. OpenSessions' = OpenSessions \cup {n + 1}
    BY <1>4, <1>5, <1>9, <1>12, <2>2
  <2>4. QED
    BY <1>12, <2>1, <2>3 DEF name, n
<1>13. CASE name = "EndOnSetupSuccess"
  <2>1. PICK w \in OpenSessions : closer(w) = at
    BY <1>10, <1>13
  <2>2. OpenSessions' = OpenSessions \ {w}
    BY <1>3, <1>4, <1>5, <1>6, <1>8, <1>13, <2>1
  <2>3. QED
    BY <1>13, <2>2 DEF name
<1>14. QED
  BY <1>11, <1>12, <1>13 DEF name

\* Blocks and open sessions are counted up and down together.
LEMMA FollowsCounts ==
  ASSUME HandedOut, Follows, UNCHANGED vars, BlocksCounted,
         LET name == Instr.operation.name
         IN /\ name \notin {"BeginOnSetupSuccess", "EndOnSetupSuccess"} => blocks' = blocks
            /\ name = "BeginOnSetupSuccess" => Len(blocks') = Len(blocks) + 1
            /\ name = "EndOnSetupSuccess" => Len(blocks') = Len(blocks) - 1
  PROVE  BlocksCounted'
<1> DEFINE name == Instr.operation.name
<1>1. IsFiniteSet(OpenSessions)
  BY OpenFinite
<1>2. CASE name \notin {"BeginOnSetupSuccess", "EndOnSetupSuccess"}
  BY <1>2, NextOpen DEF BlocksCounted
<1>3. CASE name = "BeginOnSetupSuccess"
  <2>1. /\ OpenSessions' = OpenSessions \cup {Len(values) + 1}
        /\ Len(values) + 1 \notin OpenSessions
    BY <1>3, NextOpen
  <2>2. Cardinality(OpenSessions') = Cardinality(OpenSessions) + 1
    BY <1>1, <2>1, FS_AddElement
  <2>3. QED
    BY <1>3, <2>2 DEF BlocksCounted
<1>4. CASE name = "EndOnSetupSuccess"
  <2>1. PICK w \in OpenSessions : OpenSessions' = OpenSessions \ {w}
    BY <1>4, NextOpen
  <2>2. Cardinality(OpenSessions') = Cardinality(OpenSessions) - 1
    BY <1>1, <2>1, FS_RemoveElement
  <2>3. QED
    BY <1>4, <2>2 DEF BlocksCounted
<1>5. QED
  BY <1>2, <1>3, <1>4

-----------------------------------------------------------------------------
(* Every step of the compiler keeps what it says of a program handed out. *)

\* An instruction that was compiled (every case but the errors and the end).
LEMMA FollowsLowered ==
  ASSUME Handling, Lowered, Follows, Named', compile_result' = compile_result,
         compile_result = "compiling",
         LET name == Instr.operation.name
         IN /\ name \notin {"BeginOnSetupSuccess", "EndOnSetupSuccess"} => blocks' = blocks
            /\ name = "BeginOnSetupSuccess" => Len(blocks') = Len(blocks) + 1
            /\ name = "EndOnSetupSuccess" => Len(blocks') = Len(blocks) - 1
  PROVE  Lowered'
<1>1. HandedOut /\ UNCHANGED vars
  BY DEF Handling
<1>2. Mirrored'
  BY <1>1, FollowsMirrors
<1>3. BlocksCounted'
  BY <1>1, FollowsCounts DEF Lowered
<1>4. program' = instructions'
  BY <1>1 DEF Follows, Lowered, vars
<1>5. QED
  BY <1>2, <1>3, <1>4 DEF Lowered

\* A step that says at most how compiling ended.
LEMMA EndedLowered ==
  ASSUME Lowered, UNCHANGED vars,
         compile_result' \in {"compiling", "compiled", "StringTooLong"},
         compile_result' = "compiled" => at = Len(program) + 1,
         UNCHANGED <<program, at, values, actions, counters, blocks, metadata>>
  PROVE  Lowered'
<1>1. /\ UNCHANGED <<program, at, values, actions, connections, sessions, sent, blocks, metadata>>
      /\ UNCHANGED <<variables, instructions, defined_at, closed_at>>
  BY DEF counters, vars, history
<1>2. Mirrored'
  BY <1>1 DEF Lowered, Mirrored, Fits, KindOf
<1>3. Sessions' = Sessions /\ \A v : BlockOf(v)' = BlockOf(v)
  BY <1>1 DEF Sessions, BlockOf
<1>4. OpenSessions' = OpenSessions
  BY <1>1, <1>3 DEF OpenSessions
<1>5. BlocksCounted'
  BY <1>1, <1>4 DEF Lowered, BlocksCounted
<1>6. Named'
  <2>1. SentNamed' /\ ConnectionsNamed' /\ Carried'
    BY <1>1 DEF Lowered, Named, SentNamed, ConnectionsNamed, Carried, Notes
  <2>2. SessionsNamed'
    BY <1>1 DEF Lowered, Named, SessionsNamed, AttemptNamed, AwaitsOf, Notes
  <2>3. ConnectsNamed'
    BY <1>1 DEF Lowered, Named, ConnectsNamed, OpeningNamed, ConnectsOf, Notes
  <2>4. QED
    BY <2>1, <2>2, <2>3 DEF Named
<1>7. QED
  BY <1>1, <1>2, <1>5, <1>6 DEF Lowered

\* No step of the compiler on a program handed out fails but by a string too long, and each
\* keeps what is known of it: an unreadable input and an unbalanced end are not reached.
LEMMA LoweredStep ==
  ASSUME BuiltInv, result = "finalized", CompileInv, Lowered, CompilerNext, UNCHANGED vars
  PROVE  Lowered'
<1>1. CompileInv'
  BY CompileInvStep
<1>2. HandedOut
  BY DEF HandedOut, Lowered, CompileInv
<1>3. Handling
  BY <1>1, <1>2 DEF Handling, Lowered, CompileInv
<1>4. compile_result = "compiling" /\ BlocksCounted
  BY DEF CompilerNext, Lowered
<1>5. CASE CompileUnreadable
  BY <1>2, <1>5, HandReads DEF CompileUnreadable
<1>6. CASE CompileUnbalanced
  <2>1. blocks = << >> /\ at \in DOMAIN program /\ Instr.operation.name = "EndOnSetupSuccess"
    BY <1>6 DEF CompileUnbalanced, Doing
  <2>2. Len(blocks) = 0
    BY <2>1
  <2>3. PICK w \in OpenSessions : TRUE
    BY <1>2, <2>1, HandEnds
  <2>4. IsFiniteSet(OpenSessions) /\ Cardinality(OpenSessions) = 0
    BY <1>2, <1>4, <2>2, OpenFinite DEF BlocksCounted
  <2>5. QED
    BY <2>3, <2>4, FS_EmptySet
<1>7. CASE CompileSendTooLong
  BY <1>7, EndedLowered DEF CompileSendTooLong, Fails
<1>8. CASE CompileDone
  BY <1>8, EndedLowered DEF CompileDone
<1>9. CASE CompileLoad
  BY <1>3, <1>4, <1>9, LoadFollows, FollowsLowered DEF CompileLoad
<1>10. CASE CompileSet
  BY <1>3, <1>4, <1>10, SetFollows, FollowsLowered DEF CompileSet
<1>11. CASE CompileEndBuild
  BY <1>3, <1>4, <1>11, EndBuildFollows, FollowsLowered DEF CompileEndBuild, Doing
<1>12. CASE CompileConnect
  BY <1>3, <1>4, <1>12, ConnectFollows, FollowsLowered DEF CompileConnect, Doing
<1>13. CASE CompileSendSetup
  BY <1>3, <1>4, <1>13, SendSetupFollows, FollowsLowered DEF CompileSendSetup, Doing
<1>14. CASE CompileSendRaw
  BY <1>3, <1>4, <1>14, SendRawFollows, FollowsLowered DEF CompileSendRaw, Doing
<1>15. CASE CompileStep("AdvanceTime") \/ CompileStep("Probe")
  <2>1. /\ compile_result' = compile_result
        /\ Instr.operation.name \in {"AdvanceTime", "Probe"}
    BY <1>15 DEF CompileStep, Doing
  <2>2. Follows /\ Named' /\ blocks' = blocks
    BY <1>3, <1>15, StepFollows
  <2>3. QED
    BY <1>3, <1>4, <2>1, <2>2, FollowsLowered
<1>16. CASE CompileBeginOnSuccess
  BY <1>3, <1>4, <1>16, BeginFollows, FollowsLowered DEF CompileBeginOnSuccess, Doing
<1>17. CASE CompileEndOnSuccess
  BY <1>3, <1>4, <1>17, EndFollows, FollowsLowered DEF CompileEndOnSuccess, Doing
<1>18. QED
  BY <1>5, <1>6, <1>7, <1>8, <1>9, <1>10, <1>11, <1>12, <1>13, <1>14, <1>15, <1>16, <1>17
  DEF CompilerNext

-----------------------------------------------------------------------------
(* Init, the builder's steps and the whole. *)

\* finalize hands the program out to a compiler that has done nothing yet.
LEMMA HandedOutLowered ==
  ASSUME BuiltInv, result = "open", CompileInv, CompilerInit(<< >>), Finalize,
         result' = "finalized", program' = instructions,
         UNCHANGED <<at, values, actions, connections, sessions, sent, raw_framed, blocks,
                     metadata, compile_result>>
  PROVE  CompileInv' /\ Lowered'
<1>1. /\ Laid /\ Later /\ ReuseInv /\ instructions \in Seq(Instruction)
      /\ Len(instructions) \in Nat /\ Len(instructions) <= MaxInstructions
  BY Ranges DEF BuiltInv, InUse, Inv, ReuseInv, TypeOK
<1>2. 2 * Len(instructions) < MaxActionId
  <2>1. MaxInstructions \in Nat /\ 2 * MaxInstructions < MaxActionId /\ MaxActionId \in Nat
    BY BoundAssumption, LengthAssumption DEF MaxActionId
  <2>2. QED
    BY <1>1, <2>1
<1>3. /\ at = 1 /\ values = << >> /\ actions = << >> /\ blocks = << >> /\ sessions = 0
      /\ connections = NumConnections /\ sent = 0..(NumConnections - 1)
      /\ metadata = [action_instructions |-> << >>, session_variables |-> << >>,
                     connection_variables |-> << >>, session_setups |-> << >>,
                     violations |-> << >>]
      /\ compile_result = "compiling"
  BY DEF CompilerInit
<1>4. CompileInv'
  <2>1. CompileTypes'
    <3>1. 1 \in 1..(Len(instructions) + 1)
      BY <1>1
    <3>2. QED
      BY <1>1, <1>2, <1>3, <3>1 DEF CompileInv, CompileTypes
  <2>2. (OpenBlocks(actions, blocks) /\ ClosedBlocks(actions))'
    BY DEF CompileInv, OpenBlocks, ClosedBlocks, EntersOf, ExitsOf
  <2>3. (SentOf(actions, sent) /\ OwedOf(actions, metadata.violations))'
    BY DEF CompileInv, SentOf, OwedOf, AwaitsOf, IsSend
  <2>4. (AwaitsPaired(actions, metadata.session_setups) /\ ConnectsOnce(actions, connections))'
    BY DEF CompileInv, AwaitsPaired, ConnectsOnce, AwaitsOf, IsSend
  <2>5. QED
    BY <2>1, <2>2, <2>3, <2>4 DEF CompileInv
<1>5. UNCHANGED <<variables, instructions, defined_at, closed_at>>
  BY DEF Finalize, history
<1>6. /\ values' = << >> /\ Len(values') = 0 /\ at' = 1 /\ Len(variables) \in Nat
      /\ \A v \in 1..Len(variables) : defined_at[v] \in Nat /\ defined_at[v] # 0
  BY <1>1, <1>3, Ranges DEF Later
<1>7. Mirrored'
  <2>1. ASSUME NEW v \in 1..Len(variables) PROVE ~(defined_at[v] < 1) /\ ~(v <= 0)
    BY <1>6
  <2>2. 1..0 = {}
    OBVIOUS
  <2>3. QED
    BY <1>5, <1>6, <2>1, <2>2 DEF Mirrored
<1>8. BlocksCounted'
  <2>1. Sessions' = Sessions /\ \A v \in Sessions : v \in 1..Len(variables)
    BY <1>5 DEF Sessions
  <2>2. \A v \in Sessions : ~(v <= 0)
    BY <1>6, <2>1
  <2>3. OpenSessions' = {}
    BY <1>6, <2>1, <2>2 DEF OpenSessions
  <2>4. QED
    BY <1>3, <2>3, FS_EmptySet DEF BlocksCounted
<1>9. Named'
  <2>1. DOMAIN << >> = {} /\ 0..(0 - 1) = {} /\ 1..0 = {}
    OBVIOUS
  <2>2. SentNamed'
    BY <1>3, ContextAssumption DEF SentNamed
  <2>3. ConnectionsNamed'
    BY <1>3, <1>6, <2>1 DEF ConnectionsNamed
  <2>4. DOMAIN actions' = {} /\ AwaitsOf(actions)' = {} /\ ConnectsOf(actions)' = {}
    BY <1>3, <2>1 DEF AwaitsOf, ConnectsOf
  <2>5. SessionsNamed'
    BY <1>3, <2>1, <2>4 DEF SessionsNamed
  <2>6. ConnectsNamed' /\ Carried'
    BY <1>3, <2>1, <2>4 DEF ConnectsNamed, Carried
  <2>7. QED
    BY <2>2, <2>3, <2>5, <2>6 DEF Named
<1>10. QED
  BY <1>3, <1>4, <1>5, <1>7, <1>8, <1>9 DEF Lowered

\* A new builder, or a decoded program and no builder.
LEMMA LoweringInvInit == LoweringInit => LoweringInv
<1>1. ASSUME BuilderInit PROVE LoweringInv
  <2>1. << >> \in Seq(Instruction) /\ Len(<< >>) = 0 /\ 2 * 0 < MaxActionId
    BY DEF MaxActionId
  <2>2. BuiltInv /\ result = "open"
    BY <1>1, BuiltInit DEF BuilderInit, Init
  <2>3. CompileInv
    BY <1>1, <2>1, CompileInvInit DEF BuilderInit
  <2>4. QED
    BY <1>1, <2>2, <2>3 DEF BuilderInit, LoweringInv
<1>2. ASSUME DecodedInit PROVE LoweringInv
  <2>1. PICK p \in Decoded : CompilerInit(p)
    BY <1>2 DEF DecodedInit
  <2>2. p \in Seq(Instruction) /\ 2 * Len(p) < MaxActionId
    BY DecodedAssumption DEF Short
  <2>3. CompileInv /\ result = "unchecked"
    BY <1>2, <2>1, <2>2, CompileInvInit DEF DecodedInit
  <2>4. QED
    BY <2>3 DEF LoweringInv
<1>3. QED
  BY <1>1, <1>2 DEF LoweringInit

\* Appending, from the prefix or not, and handing out.
LEMMA BuildKeeps ==
  ASSUME LoweringInv, Build
  PROVE  LoweringInv'
<1>1. BuiltInv /\ result = "open" /\ CompilerInit(<< >>) /\ CompileInv
  BY DEF LoweringInv, Build
<1>2. /\ program' = IF result' = "finalized" THEN instructions ELSE program
      /\ UNCHANGED <<at, values, actions, connections, sessions, sent, raw_framed, blocks,
                     metadata, compile_result>>
  BY DEF Build
<1>3. ASSUME result' # "finalized", program' = program
      PROVE  CompileInv' /\ CompilerInit(<< >>)'
  <2>1. UNCHANGED compiler_vars
    BY <1>2, <1>3 DEF compiler_vars, counters
  <2>2. QED
    BY <1>1, <1>2, <1>3, <2>1, CompileInvStays DEF CompilerInit
<1>4. CASE \E i \in Offered : AppendInstruction(i)
  <2>1. PICK i \in Offered : AppendInstruction(i)
    BY <1>4
  <2>2. i \in Instruction
    <3>1. CASE Len(instructions) < Len(Prefix)
      <4>1. Len(instructions) \in Nat
        BY <1>1, Ranges DEF BuiltInv, Inv
      <4>2. Len(Prefix) \in Nat /\ \A k \in 1..Len(Prefix) : Prefix[k] \in Instruction
        BY PrefixAssumption, ElementOfSeq, LenProperties
      <4>3. QED
        BY <2>1, <3>1, <4>1, <4>2 DEF Offered
    <3>2. CASE ~(Len(instructions) < Len(Prefix))
      BY <2>1, <3>2, InstructionsAssumption DEF Offered
    <3>3. QED
      BY <3>1, <3>2
  <2>3. BuiltInv' /\ result' # "unchecked" /\ result' # "finalized"
    BY <1>1, <2>1, <2>2, AppendKeepsBuilt
  <2>4. QED
    BY <1>2, <1>3, <2>3 DEF LoweringInv
<1>5. CASE Finalize
  <2>1. BuiltInv' /\ result' # "unchecked"
    BY <1>1, <1>5, FinalizeKeepsBuilt
  <2>2. CASE result' = "finalized"
    <3>1. CompileInv' /\ Lowered'
      BY <1>1, <1>2, <1>5, <2>2, HandedOutLowered
    <3>2. QED
      BY <2>1, <2>2, <3>1 DEF LoweringInv
  <2>3. CASE result' # "finalized"
    BY <1>2, <1>3, <2>1, <2>3 DEF LoweringInv
  <2>4. QED
    BY <2>2, <2>3
<1>6. QED
  BY <1>4, <1>5 DEF Build

\* Compiling, of what was handed out and of what nobody validated.
LEMMA CompileKeeps ==
  ASSUME LoweringInv, Compile
  PROVE  LoweringInv'
<1>1. CompileInv /\ CompilerNext /\ UNCHANGED vars /\ result \in {"finalized", "unchecked"}
  BY DEF LoweringInv, Compile
<1>2. CompileInv' /\ result' = result
  BY <1>1, CompileInvStep DEF vars
<1>3. CASE result = "unchecked"
  BY <1>2, <1>3 DEF LoweringInv
<1>4. CASE result = "finalized"
  <2>1. BuiltInv /\ Lowered
    BY <1>4 DEF LoweringInv
  <2>2. Lowered'
    BY <1>1, <1>4, <2>1, LoweredStep
  <2>3. BuiltInv'
    <3>1. Inv'
      BY <1>1, <2>1, InvStep DEF BuiltInv
    <3>2. QED
      BY <1>1, <2>1, <3>1, BuiltStays DEF vars, InUse
  <2>4. QED
    BY <1>2, <1>4, <2>2, <2>3 DEF LoweringInv
<1>5. QED
  BY <1>1, <1>3, <1>4

\* And a step of neither.
LEMMA LoweringInvStays ==
  ASSUME LoweringInv, UNCHANGED lowering_vars
  PROVE  LoweringInv'
<1>1. UNCHANGED vars /\ UNCHANGED compiler_vars /\ result' = result
  BY DEF lowering_vars, vars
<1>2. CompileInv'
  BY <1>1, CompileInvStays DEF LoweringInv
<1>3. ASSUME result # "unchecked" PROVE BuiltInv'
  <2>1. BuiltInv
    BY <1>3 DEF LoweringInv
  <2>2. Inv'
    BY <1>1, <2>1, InvStep DEF BuiltInv
  <2>3. QED
    BY <1>1, <2>1, <2>2, BuiltStays DEF vars, InUse
<1>4. ASSUME result \notin {"finalized", "unchecked"} PROVE CompilerInit(<< >>)'
  BY <1>1, <1>4 DEF LoweringInv, CompilerInit, compiler_vars, counters
<1>5. ASSUME result = "finalized" PROVE Lowered'
  <2>1. Lowered
    BY <1>5 DEF LoweringInv
  <2>2. QED
    BY <1>1, <2>1, EndedLowered DEF Lowered, compiler_vars
<1>6. QED
  BY <1>1, <1>2, <1>3, <1>4, <1>5 DEF LoweringInv

-----------------------------------------------------------------------------
(* The theorems. *)

\* What is known of the builder and of the compiler it hands programs to holds of every
\* reachable state, whatever the prefix, the instructions offered and the programs decoded.
THEOREM LoweringInvariant == LoweringSpec => []LoweringInv
<1>1. LoweringInv /\ [LoweringNext]_lowering_vars => LoweringInv'
  BY BuildKeeps, CompileKeeps, LoweringInvStays DEF LoweringNext
<1>2. QED
  BY <1>1, LoweringInvInit, PTL DEF LoweringSpec

\* The value at an index is that of the variable with the same index, of the kind and the
\* protocol its type says, although the builder and the compiler each count for themselves
\* (builder.rs:173-205 against compiler.rs:242-385).
THEOREM ValuesAreOfVariables == LoweringSpec => []ValuesMirrorVariables
<1>1. LoweringInv => ValuesMirrorVariables
  <2> SUFFICES ASSUME LoweringInv, result = "finalized"
               PROVE  /\ compile_result = "compiled" => Len(values) = Len(variables)
                      /\ \A v \in DOMAIN values :
                           /\ v \in DOMAIN variables
                           /\ values[v].kind = KindOf(variables[v].var)
                           /\ variables[v].var[1] = "ConstSetupConnection" =>
                                values[v].spec.protocol = variables[v].var[2]
    BY DEF ValuesMirrorVariables
  <2>1. Lowered /\ BuiltInv /\ CompileInv
    BY DEF LoweringInv
  <2>2. HandedOut /\ Mirrored
    BY <2>1 DEF HandedOut, Lowered, CompileInv
  <2>3. /\ DOMAIN values = 1..Len(values) /\ DOMAIN variables = 1..Len(variables)
        /\ Len(values) \in Nat /\ Len(variables) \in Nat /\ Len(program) \in Nat
        /\ \A v \in 1..Len(variables) : defined_at[v] \in Nat /\ defined_at[v] <= Len(program)
    BY <2>2, HandedOutMeans DEF HandedOut
  <2>4. Len(values) <= Len(variables)
    BY <2>2 DEF Mirrored
  <2>5. ASSUME compile_result = "compiled" PROVE Len(values) = Len(variables)
    <3>1. at = Len(program) + 1
      BY <2>1, <2>5 DEF Lowered
    <3>2. CASE Len(variables) = 0
      BY <2>3, <2>4, <3>2
    <3>3. CASE Len(variables) # 0
      <4>1. Len(variables) \in 1..Len(variables)
        BY <2>3, <3>3
      <4>2. defined_at[Len(variables)] < at
        <5>1. defined_at[Len(variables)] \in Nat /\ defined_at[Len(variables)] <= Len(program)
          BY <2>3, <4>1
        <5>2. QED
          BY <2>3, <3>1, <5>1
      <4>3. Len(variables) <= Len(values)
        BY <2>2, <4>1, <4>2 DEF Mirrored
      <4>4. \A m, n \in Nat : m <= n /\ n <= m => m = n
        OBVIOUS
      <4>5. QED
        BY <2>3, <2>4, <4>3, <4>4
    <3>4. QED
      BY <3>2, <3>3
  <2>6. ASSUME NEW v \in DOMAIN values
        PROVE  v \in DOMAIN variables /\ Fits(values[v], variables[v].var)
    BY <2>2, <2>3, <2>4 DEF Mirrored
  <2>7. QED
    BY <2>5, <2>6 DEF Fits
<1>2. QED
  BY <1>1, LoweringInvariant, PTL

\* A program the builder handed out never meets an error of the compiler but a string too
\* long: inputs are there and of the kind the accessors ask for, block ends find a block open
\* (compiler.rs:130-140).
THEOREM ValidProgramsCompile == LoweringSpec => []ValidatedCompiles
<1>1. LoweringInv => ValidatedCompiles
  BY DEF LoweringInv, Lowered, ValidatedCompiles
<1>2. QED
  BY <1>1, LoweringInvariant, PTL

\* Blocks are nested in whatever is compiled, and in a program the builder handed out each of
\* them has its exit when compiling is done (compiler.rs:364-385).
THEOREM BlocksAreClosed == LoweringSpec => []BlocksClosed
<1>1. LoweringInv => BlocksClosed
  <2> SUFFICES ASSUME LoweringInv PROVE BlocksClosed
    OBVIOUS
  <2>1. BlocksNest
    BY CompileInvMeans DEF LoweringInv
  <2>2. ASSUME result = "finalized", compile_result = "compiled", NEW id \in Enters
        PROVE  actions[id].end \in DOMAIN actions
    <3>1. Lowered /\ BuiltInv /\ CompileInv
      BY <2>2 DEF LoweringInv
    <3>2. HandedOut
      BY <2>2, <3>1 DEF HandedOut, Lowered, CompileInv
    <3>3. at = Len(program) + 1 /\ BlocksCounted /\ program = instructions
      BY <2>2, <3>1 DEF Lowered
    <3>4. Len(instructions) \in Nat
      BY <3>2, <3>3, HandedOutMeans
    <3>5. ASSUME NEW v \in Sessions PROVE ~(closed_at[BlockOf(v)] >= at)
      <4>1. closed_at[BlockOf(v)] \in 1..Len(instructions)
        BY <3>2, SessionCloses
      <4>2. QED
        BY <3>3, <3>4, <4>1
    <3>6. OpenSessions = {}
      BY <3>5 DEF OpenSessions
    <3>7. Len(blocks) = 0
      BY <3>3, <3>6, FS_EmptySet DEF BlocksCounted
    <3>8. DOMAIN blocks = {}
      <4>1. blocks \in Seq(Nat)
        BY <3>1 DEF CompileInv, CompileTypes
      <4>2. DOMAIN blocks = 1..0
        BY <3>7, <4>1, LenProperties
      <4>3. QED
        BY <4>2
    <3>9. actions[id].end # MaxActionId
      BY <2>1, <3>8 DEF BlocksNest
    <3>10. actions[id].end \in Exits
      BY <2>1, <3>9 DEF BlocksNest
    <3>11. QED
      BY <3>10 DEF Exits
  <2>3. QED
    BY <2>1, <2>2 DEF BlocksClosed
<1>2. QED
  BY <1>1, LoweringInvariant, PTL

\* What the oracles and the reports are told of a program is true of it: an answer is owed
\* exactly to the first message on a connection, whatever the program; and in a program the
\* builder handed out every action does what the instruction it is attributed to says, to what
\* that instruction was given, and every session and connection is named by the variable that
\* its own instruction defined, a session with the message that was sent for it
\* (compiler.rs:113-127).
THEOREM MetadataNamesItsSource == LoweringSpec => []MetadataIsTrue
<1>1. LoweringInv => MetadataIsTrue
  <2> SUFFICES ASSUME LoweringInv PROVE MetadataIsTrue
    OBVIOUS
  <2>1. CompilerTypeOK /\ OwedIffFirstInProgram
    BY CompileInvMeans DEF LoweringInv
  <2>2. ASSUME result = "finalized" PROVE NamesItsSource
    <3> DEFINE source == metadata.action_instructions
    <3>1. Named /\ CompileInv
      BY <2>2 DEF LoweringInv, Lowered
    <3>2. \A c \in sent : c < connections
      BY <3>1 DEF Named, SentNamed
    <3>3. \A id \in DOMAIN actions : CarriesOut(actions[id], program[source[id]])
      BY <3>1 DEF Named, Carried, CarriesWith, CarriesOut, Notes
    <3>4. /\ DOMAIN metadata.session_setups = 0..(sessions - 1)
          /\ DOMAIN metadata.session_variables = 0..(sessions - 1)
      BY <3>1 DEF CompileInv, CompileTypes, Named, SessionsNamed
    <3>5. ASSUME NEW id \in Awaits
          PROVE  LET s == actions[id].session
                     v == metadata.session_variables[s]
                 IN /\ values[v] = [kind |-> "SetupAttempt", session |-> s,
                                    connection |-> actions[id].connection]
                    /\ defined_at[v] = source[id] /\ source[id - 1] = source[id]
                    /\ metadata.session_setups[s] = actions[id - 1].payload
                    /\ metadata.session_setups[s].protocol = actions[id].protocol
      <4>1. id \in AwaitsOf(actions)
        BY DEF Awaits, AwaitsOf
      <4>2. AttemptNamed(id)
        BY <3>1, <4>1 DEF Named, SessionsNamed
      <4>3. actions[id - 1].payload = metadata.session_setups[actions[id].session]
        BY <3>1, <4>1 DEF CompileInv, AwaitsPaired
      <4>4. QED
        BY <4>2, <4>3 DEF AttemptNamed, Notes
    <3>6. ASSUME NEW id \in Connects
          PROVE  LET c == actions[id].connection
                     v == metadata.connection_variables[c]
                 IN /\ values[v] = [kind |-> "Connection", connection |-> c]
                    /\ defined_at[v] = source[id]
      BY <3>1 DEF Named, ConnectsNamed, OpeningNamed, Connects, ConnectsOf, Notes
    <3>7. DOMAIN metadata.session_variables = {actions[id].session : id \in Awaits}
      <4>1. \A id \in Awaits : actions[id].session \in DOMAIN metadata.session_variables
        BY <3>1, <3>4 DEF CompileInv, AwaitsPaired, Awaits, AwaitsOf
      <4>2. \A s \in DOMAIN metadata.session_variables :
              \E id \in Awaits : actions[id].session = s
        BY <3>1 DEF Named, SessionsNamed, Awaits, AwaitsOf
      <4>3. QED
        BY <4>1, <4>2, Zenon
    <3>8. DOMAIN metadata.connection_variables = {actions[id].connection : id \in Connects}
      <4>1. \A id \in Connects : actions[id].connection \in DOMAIN metadata.connection_variables
        BY <3>1 DEF Named, ConnectsNamed, OpeningNamed, Connects, ConnectsOf
      <4>2. \A c \in DOMAIN metadata.connection_variables :
              \E id \in Connects : actions[id].connection = c
        BY <3>1 DEF Named, ConnectsNamed, Connects, ConnectsOf
      <4>3. QED
        BY <4>1, <4>2, Zenon
    <3>9. QED
      BY <3>2, <3>3, <3>5, <3>6, <3>7, <3>8 DEF NamesItsSource
  <2>3. QED
    BY <2>1, <2>2 DEF MetadataIsTrue
<1>2. QED
  BY <1>1, LoweringInvariant, PTL
=============================================================================
