----------------------------- MODULE ReplayProofs -----------------------------
(***************************************************************************)
(* A replay of a program (from_prefix, Program::validate) against the text *)
(* of the program (StaticValidity), for programs of any length.            *)
(*                                                                         *)
(* Builders and DefinedBefore are recursive functions and a cardinality of *)
(* sets of positions: facts about them are proved by induction on the      *)
(* number of instructions, in the form of sets of natural numbers closed   *)
(* under successor (Induction).  The invariant of the induction, Reads,    *)
(* says that the builder after k instructions holds the variables defined  *)
(* by the first k, each in the scope of the block that encloses it, and    *)
(* the blocks the text leaves open.                                        *)
(***************************************************************************)
EXTENDS StaticValidity, Replay, SequenceTheorems, FiniteSetTheorems, FunctionTheorems,
        WellFoundedInduction, TLAPS

Less == {ss \in Nat \X Nat : ss[1] < ss[2]}

\* A set of natural numbers that is not empty has a least element.
LEMMA Least ==
  ASSUME NEW T, T \subseteq Nat, T # {}
  PROVE  \E x \in T : \A y \in T : x <= y
<1>1. Less = OpToRel(<, Nat)
  BY Zenon DEF OpToRel, Less
<1>2. IsWellFoundedOn(Less, Nat)
  BY <1>1, NatLessThanWellFounded, Zenon
<1>3. PICK x \in T : \A y \in T : ~(<<y, x>> \in Less)
  BY <1>2, WFMin
<1>4. ASSUME NEW y \in T PROVE x <= y
  <2>1. x \in Nat /\ y \in Nat
    OBVIOUS
  <2>2. ~(y < x)
    <3>1. SUFFICES ASSUME y < x PROVE FALSE
      OBVIOUS
    <3>2. <<y, x>> \in Less
      BY <2>1, <3>1 DEF Less
    <3>3. QED
      BY <1>3, <3>2
  <2>3. QED
    BY <2>1, <2>2
<1>5. QED
  BY <1>4

\* Induction, for a set of natural numbers.
LEMMA Induction ==
  ASSUME NEW S, 0 \in S, \A n \in Nat : n \in S => n + 1 \in S
  PROVE  Nat \subseteq S
<1> DEFINE T == {n \in Nat : n \notin S}
<1> SUFFICES ASSUME T # {} PROVE FALSE
  OBVIOUS
<1>1. PICK x \in T : \A y \in T : x <= y
  BY Least
<1>2. x \in Nat /\ x \notin S /\ x # 0
  OBVIOUS
<1>3. x - 1 \in Nat /\ x - 1 + 1 = x /\ ~(x <= x - 1)
  BY <1>2
<1>4. x - 1 \notin S
  BY <1>2, <1>3
<1>5. x - 1 \in T
  BY <1>3, <1>4
<1>6. QED
  BY <1>1, <1>3, <1>5

-----------------------------------------------------------------------------
(* The recursion of Builders is well founded. *)

\* f is the builder after each of the first n prefixes of p.
Replays(f, p, n) ==
  /\ DOMAIN f = 0..n
  /\ f = [k \in 0..n |-> IF k = 0 THEN NewBuilder ELSE Stepped(f[k - 1], p, k)]

LEMMA ReplaysExist ==
  ASSUME NEW p, NEW n \in Nat
  PROVE  \E f : Replays(f, p, n)
<1> DEFINE S == {m \in Nat : \E f : Replays(f, p, m)}
<1>1. 0 \in S
  <2> DEFINE f == [k \in 0..0 |-> NewBuilder]
  <2>1. f = [k \in 0..0 |-> IF k = 0 THEN NewBuilder ELSE Stepped(f[k - 1], p, k)]
    OBVIOUS
  <2> HIDE DEF f
  <2>2. DOMAIN f = 0..0
    BY DEF f
  <2>3. QED
    BY <2>1, <2>2 DEF Replays
<1>2. ASSUME NEW m \in Nat, m \in S PROVE m + 1 \in S
  <2>1. PICK f : Replays(f, p, m)
    BY <1>2
  <2> DEFINE g == [k \in 0..(m + 1) |-> IF k = m + 1 THEN Stepped(f[m], p, m + 1) ELSE f[k]]
  <2>2. ASSUME NEW k \in 0..(m + 1)
        PROVE  g[k] = IF k = 0 THEN NewBuilder ELSE Stepped(g[k - 1], p, k)
    <3>1. CASE k = 0
      BY <2>1, <3>1 DEF Replays
    <3>2. CASE k \in 1..m
      <4>1. f[k] = Stepped(f[k - 1], p, k)
        BY <2>1, <3>2 DEF Replays
      <4>2. k # m + 1 /\ k - 1 \in 0..(m + 1) /\ k - 1 # m + 1 /\ k # 0
        BY <3>2
      <4>3. g[k] = f[k] /\ g[k - 1] = f[k - 1]
        BY <4>2
      <4>4. QED
        BY <4>1, <4>2, <4>3
    <3>3. CASE k = m + 1
      <4>1. g[k] = Stepped(f[m], p, k) /\ k # 0 /\ k - 1 = m /\ m \in 0..(m + 1) /\ m # m + 1
        BY <3>3
      <4>2. g[m] = f[m]
        BY <4>1
      <4> HIDE DEF g
      <4>3. QED
        BY <4>1, <4>2
    <3>4. QED
      BY <3>1, <3>2, <3>3
  <2>3. DOMAIN g = 0..(m + 1) /\ g = [k \in 0..(m + 1) |-> g[k]]
    OBVIOUS
  <2> HIDE DEF g
  <2>4. Replays(g, p, m + 1)
    BY <2>2, <2>3 DEF Replays
  <2>5. QED
    BY <2>4
<1> HIDE DEF S
<1>3. n \in S
  BY <1>1, <1>2, Induction
<1>4. QED
  BY <1>3 DEF S

\* Builders is the function its recursion describes.
LEMMA BuildersReplay ==
  ASSUME NEW p, Len(p) \in Nat
  PROVE  Replays(Builders(p), p, Len(p))
<1>1. PICK f : Replays(f, p, Len(p))
  BY ReplaysExist
<1>2. f = [k \in 0..Len(p) |-> IF k = 0 THEN NewBuilder ELSE Stepped(f[k - 1], p, k)]
  BY <1>1 DEF Replays
<1>3. Builders(p) = [k \in 0..Len(p) |->
                       IF k = 0 THEN NewBuilder ELSE Stepped(Builders(p)[k - 1], p, k)]
  BY <1>2, Zenon DEF Builders
<1>4. DOMAIN Builders(p) = 0..Len(p)
  BY <1>3
<1>5. QED
  BY <1>3, <1>4 DEF Replays

-----------------------------------------------------------------------------
(* What operations define. *)

\* Every operation defines variables (operation.rs:104-148).
LEMMA OutputsTyped ==
  ASSUME NEW op \in Operation
  PROVE  /\ OutputVariables(op) \in Seq(Variable)
         /\ InnerOutputVariables(op) \in Seq(Variable)
<1>1. CASE op.name = "Nop"
  <2>1. op.outputs \in Nat /\ op.inner_outputs \in Nat
    BY <1>1 DEF Operation
  <2>2. <<"Nop">> \in Variable
    BY DEF Variable
  <2>3. OutputVariables(op) = [i \in 1..op.outputs |-> <<"Nop">>]
    BY <1>1 DEF OutputVariables
  <2>4. InnerOutputVariables(op) = [i \in 1..op.inner_outputs |-> <<"Nop">>]
    BY <1>1 DEF InnerOutputVariables
  <2>5. [i \in 1..op.outputs |-> <<"Nop">>] \in Seq(Variable)
    BY <2>1, <2>2, IsASeq
  <2>6. [i \in 1..op.inner_outputs |-> <<"Nop">>] \in Seq(Variable)
    BY <2>1, <2>2, IsASeq
  <2>7. QED
    BY <2>3, <2>4, <2>5, <2>6
<1>2. CASE op.name \in {"EndBuildSetupConnection", "SendSetupConnection",
                        "BeginOnSetupSuccess"}
  <2>1. op.protocol \in Protocols
    BY <1>2 DEF Operation
  <2>2. /\ ConstSetupConnection(op.protocol) \in Variable
        /\ SetupAttempt(op.protocol) \in Variable
        /\ Session(op.protocol) \in Variable
    BY <2>1 DEF Variable, ConstSetupConnection, SetupAttempt, Session
  <2>3. QED
    BY <1>2, <2>2 DEF OutputVariables, InnerOutputVariables
<1>3. CASE op.name \notin {"Nop", "EndBuildSetupConnection", "SendSetupConnection",
                           "BeginOnSetupSuccess"}
  <2> DEFINE Simple == {<<"Role">>, <<"Connection">>, <<"Version">>, <<"Flags">>, <<"Port">>,
                        <<"Str">>, <<"Bytes">>, <<"Duration">>, <<"MutSetupConnection">>}
  <2>1. Simple \subseteq Variable
    BY DEF Variable
  <2>2. OutputVariables(op) = << >> \/ \E x \in Simple : OutputVariables(op) = <<x>>
    BY <1>3, Zenon DEF OutputVariables
  <2>3. InnerOutputVariables(op) = << >> \/ \E x \in Simple : InnerOutputVariables(op) = <<x>>
    BY <1>3, Zenon DEF InnerOutputVariables
  <2> HIDE DEF Simple
  <2>4. << >> \in Seq(Variable) /\ \A x \in Simple : <<x>> \in Seq(Variable)
    BY <2>1
  <2>5. QED
    BY <2>2, <2>3, <2>4
<1>4. QED
  BY <1>1, <1>2, <1>3

\* An operation defines so many variables.
LEMMA DefinesIsNatural ==
  ASSUME NEW op \in Operation
  PROVE  /\ Defines(op) \in Nat
         /\ Len(OutputVariables(op)) \in Nat /\ Len(InnerOutputVariables(op)) \in Nat
  BY OutputsTyped, LenProperties DEF Defines

-----------------------------------------------------------------------------
(* The variables of a program. *)

\* The operations of a program.
LEMMA ProgramFacts ==
  ASSUME NEW p \in Seq(Instruction)
  PROVE  /\ Len(p) \in Nat /\ DOMAIN p = 1..Len(p)
         /\ \A k \in 1..Len(p) : /\ p[k] \in Instruction /\ p[k].operation \in Operation
                                 /\ p[k].inputs \in Seq(Nat)
<1>1. Len(p) \in Nat /\ DOMAIN p = 1..Len(p)
  BY LenProperties
<1>2. ASSUME NEW k \in 1..Len(p)
      PROVE  p[k] \in Instruction /\ p[k].operation \in Operation /\ p[k].inputs \in Seq(Nat)
  <2>1. p[k] \in Instruction
    BY ElementOfSeq
  <2>2. QED
    BY <2>1 DEF Instruction
<1>3. QED
  BY <1>1, <1>2

\* A definer's variables.
LEMMA SlotsOfOne ==
  ASSUME NEW k, NEW d \in Nat
  PROVE  IsFiniteSet({k} \X (1..d)) /\ Cardinality({k} \X (1..d)) = d
<1> DEFINE f == [n \in 1..d |-> <<k, n>>]
<1>1. f \in Bijection(1..d, {k} \X (1..d))
  BY Fun_IsBij
<1>2. ExistsBijection(1..d, {k} \X (1..d))
  BY <1>1 DEF ExistsBijection
<1>3. IsFiniteSet(1..d) /\ Cardinality(1..d) = d
  BY FS_Interval
<1>4. QED
  BY <1>2, <1>3, FS_Bijection

LEMMA SlotsStep ==
  ASSUME NEW p, NEW k \in Nat, k >= 1
  PROVE  /\ SlotsBefore(p, k + 1) = SlotsBefore(p, k) \cup ({k} \X (1..Defines(p[k].operation)))
         /\ SlotsBefore(p, k) \cap ({k} \X (1..Defines(p[k].operation))) = {}
<1>1. 1..(k + 1 - 1) = (1..(k - 1)) \cup {k} /\ k \notin 1..(k - 1)
  OBVIOUS
<1>2. \A m : SlotsBefore(p, m) = UNION {{j} \X (1..Defines(p[j].operation)) : j \in 1..(m - 1)}
  BY DEF SlotsBefore
<1>3. \A x : x \in SlotsBefore(p, k + 1) <=>
               \E j \in 1..(k + 1 - 1) : x \in {j} \X (1..Defines(p[j].operation))
  BY <1>2
<1>4. \A x : x \in SlotsBefore(p, k) <=>
               \E j \in 1..(k - 1) : x \in {j} \X (1..Defines(p[j].operation))
  BY <1>2
<1>5. SlotsBefore(p, k + 1) = SlotsBefore(p, k) \cup ({k} \X (1..Defines(p[k].operation)))
  BY <1>1, <1>3, <1>4
<1>6. ASSUME NEW x \in SlotsBefore(p, k), x \in {k} \X (1..Defines(p[k].operation)) PROVE FALSE
  <2>1. PICK j \in 1..(k - 1) : x \in {j} \X (1..Defines(p[j].operation))
    BY <1>4, <1>6
  <2>2. x[1] = j /\ x[1] = k
    BY <1>6, <2>1
  <2>3. QED
    BY <1>1, <2>2
<1>7. QED
  BY <1>5, <1>6

\* Variables are counted instruction by instruction.
LEMMA SlotsFinite ==
  ASSUME NEW p \in Seq(Instruction), NEW k \in 1..(Len(p) + 1)
  PROVE  IsFiniteSet(SlotsBefore(p, k)) /\ DefinedBefore(p, k) \in Nat
<1>1. Len(p) \in Nat
  BY ProgramFacts
<1> DEFINE S == {n \in Nat : n <= Len(p) => IsFiniteSet(SlotsBefore(p, n + 1))}
<1>2. 0 \in S
  <2>1. SlotsBefore(p, 0 + 1) = {}
    BY DEF SlotsBefore
  <2>2. QED
    BY <2>1, FS_EmptySet
<1>3. ASSUME NEW n \in Nat, n \in S PROVE n + 1 \in S
  <2> SUFFICES ASSUME n + 1 <= Len(p) PROVE IsFiniteSet(SlotsBefore(p, n + 1 + 1))
    OBVIOUS
  <2>1. IsFiniteSet(SlotsBefore(p, n + 1)) /\ n + 1 \in 1..Len(p) /\ n + 1 \in Nat /\ n + 1 >= 1
    BY <1>1, <1>3
  <2> DEFINE m == n + 1
  <2> HIDE DEF m
  <2>2. IsFiniteSet({m} \X (1..Defines(p[m].operation)))
    BY <2>1, ProgramFacts, DefinesIsNatural, SlotsOfOne DEF m
  <2>3. SlotsBefore(p, m + 1) = SlotsBefore(p, m) \cup ({m} \X (1..Defines(p[m].operation)))
    BY <2>1, SlotsStep DEF m
  <2>4. IsFiniteSet(SlotsBefore(p, m))
    BY <2>1 DEF m
  <2>5. IsFiniteSet(SlotsBefore(p, m + 1))
    <3> DEFINE A == SlotsBefore(p, m)
               B == {m} \X (1..Defines(p[m].operation))
    <3> HIDE DEF A, B
    <3>1. IsFiniteSet(A) /\ IsFiniteSet(B)
      BY <2>2, <2>4 DEF A, B
    <3>2. IsFiniteSet(A \cup B)
      BY <3>1, FS_Union
    <3>3. QED
      BY <2>3, <3>2 DEF A, B
  <2>6. QED
    BY <2>5 DEF m
<1> HIDE DEF S
<1>4. k - 1 \in S /\ k - 1 <= Len(p) /\ k - 1 + 1 = k
  BY <1>1, <1>2, <1>3, Induction
<1>5. IsFiniteSet(SlotsBefore(p, k))
  BY <1>4 DEF S
<1>6. QED
  BY <1>5, FS_CardinalityType DEF DefinedBefore

LEMMA DefinedSteps ==
  ASSUME NEW p \in Seq(Instruction)
  PROVE  /\ DefinedBefore(p, 1) = 0
         /\ \A k \in 1..Len(p) :
              DefinedBefore(p, k + 1) = DefinedBefore(p, k) + Defines(p[k].operation)
<1>1. SlotsBefore(p, 1) = {}
  BY DEF SlotsBefore
<1>2. ASSUME NEW k \in 1..Len(p)
      PROVE  DefinedBefore(p, k + 1) = DefinedBefore(p, k) + Defines(p[k].operation)
  <2>1. k \in Nat /\ k >= 1 /\ k \in 1..(Len(p) + 1)
    BY ProgramFacts
  <2> DEFINE S == SlotsBefore(p, k)
             T == {k} \X (1..Defines(p[k].operation))
  <2>2. IsFiniteSet(S) /\ Cardinality(S) \in Nat
    BY <2>1, SlotsFinite DEF DefinedBefore
  <2>3. IsFiniteSet(T) /\ Cardinality(T) = Defines(p[k].operation) /\ Cardinality(T) \in Nat
    <3>1. Defines(p[k].operation) \in Nat
      BY ProgramFacts, DefinesIsNatural
    <3>2. QED
      BY <3>1, SlotsOfOne
  <2>4. SlotsBefore(p, k + 1) = S \cup T /\ S \cap T = {}
    BY <2>1, SlotsStep
  <2> HIDE DEF S, T
  <2>5. Cardinality(S \cup T) = Cardinality(S) + Cardinality(T)
    <3>1. Cardinality(S \cup T) = Cardinality(S) + Cardinality(T) - Cardinality(S \cap T)
      BY <2>2, <2>3, FS_Union
    <3>2. Cardinality(S \cap T) = 0
      BY <2>4, FS_EmptySet
    <3>3. QED
      BY <2>2, <2>3, <3>1, <3>2
  <2>6. QED
    BY <2>3, <2>4, <2>5 DEF DefinedBefore, S
<1>3. QED
  BY <1>1, <1>2, FS_EmptySet DEF DefinedBefore

LEMMA DefinedGrows ==
  ASSUME NEW p \in Seq(Instruction), NEW k \in 1..(Len(p) + 1), NEW j \in 1..k
  PROVE  DefinedBefore(p, j) <= DefinedBefore(p, k)
<1>1. SlotsBefore(p, j) \subseteq SlotsBefore(p, k)
  <2>1. 1..(j - 1) \subseteq 1..(k - 1)
    BY ProgramFacts
  <2>2. QED
    BY <2>1 DEF SlotsBefore
<1>2. QED
  BY <1>1, SlotsFinite, FS_Subset DEF DefinedBefore

\* A variable has one definer.
LEMMA DefinerIs ==
  ASSUME NEW p \in Seq(Instruction), NEW d \in 1..Len(p), NEW v,
         v \in (DefinedBefore(p, d) + 1)..DefinedBefore(p, d + 1)
  PROVE  DefinerOf(p, v) = d
<1>1. Len(p) \in Nat
  BY ProgramFacts
<1>2. \A j \in 1..(Len(p) + 1) : DefinedBefore(p, j) \in Nat
  BY SlotsFinite
<1>3. ASSUME NEW e \in 1..Len(p), v \in (DefinedBefore(p, e) + 1)..DefinedBefore(p, e + 1)
      PROVE  e = d
  <2>1. /\ e \in 1..(Len(p) + 1) /\ e + 1 \in 1..(Len(p) + 1)
        /\ d \in 1..(Len(p) + 1) /\ d + 1 \in 1..(Len(p) + 1)
    BY <1>1
  <2>2. CASE e < d
    <3>1. DefinedBefore(p, e + 1) <= DefinedBefore(p, d)
      <4>1. e + 1 \in 1..d
        BY <2>2
      <4>2. QED
        BY <2>1, <4>1, DefinedGrows
    <3>2. QED
      BY <1>2, <1>3, <2>1, <3>1
  <2>3. CASE d < e
    <3>1. DefinedBefore(p, d + 1) <= DefinedBefore(p, e)
      <4>1. d + 1 \in 1..e
        BY <2>3
      <4>2. QED
        BY <2>1, <4>1, DefinedGrows
    <3>2. QED
      BY <1>2, <1>3, <2>1, <3>1
  <2>4. QED
    BY <1>1, <2>2, <2>3
<1>4. QED
  BY <1>3 DEF DefinerOf

LEMMA DefinerExists ==
  ASSUME NEW p \in Seq(Instruction), NEW k \in 1..(Len(p) + 1), NEW v \in 1..DefinedBefore(p, k)
  PROVE  /\ DefinerOf(p, v) \in 1..(k - 1)
         /\ v \in (DefinedBefore(p, DefinerOf(p, v)) + 1)..DefinedBefore(p, DefinerOf(p, v) + 1)
<1>1. Len(p) \in Nat
  BY ProgramFacts
<1>2. \A j \in 1..(Len(p) + 1) : DefinedBefore(p, j) \in Nat
  BY SlotsFinite
<1> DEFINE T == {j \in 1..k : v <= DefinedBefore(p, j)}
<1>3. T \subseteq Nat /\ k \in T
  BY <1>1, <1>2
<1>4. PICK e \in T : \A y \in T : e <= y
  BY <1>3, Least
<1>5. e # 1
  BY <1>2, DefinedSteps
<1>6. e - 1 \in 1..(k - 1) /\ e - 1 \in 1..k /\ e - 1 \in 1..(Len(p) + 1) /\ ~(e <= e - 1)
      /\ e - 1 + 1 = e /\ e - 1 \in 1..Len(p)
  BY <1>1, <1>5
<1>7. ~(v <= DefinedBefore(p, e - 1))
  BY <1>4, <1>6
<1>8. v \in (DefinedBefore(p, e - 1) + 1)..DefinedBefore(p, e - 1 + 1)
  BY <1>2, <1>6, <1>7
<1>9. DefinerOf(p, v) = e - 1
  BY <1>6, <1>8, DefinerIs
<1>10. QED
  BY <1>6, <1>8, <1>9

-----------------------------------------------------------------------------
(* The blocks of a program. *)

\* How many of the first k numbers are in T.
Count(T, k) == Cardinality({j \in 1..k : j \in T})

LEMMA CountSteps ==
  ASSUME NEW T
  PROVE  /\ Count(T, 0) = 0
         /\ \A k \in Nat : Count(T, k) \in Nat
         /\ \A k \in Nat : Count(T, k + 1) = IF k + 1 \in T THEN Count(T, k) + 1 ELSE Count(T, k)
<1>1. {j \in 1..0 : j \in T} = {}
  OBVIOUS
<1>2. ASSUME NEW k \in Nat PROVE IsFiniteSet({j \in 1..k : j \in T})
  <2>1. IsFiniteSet(1..k)
    BY FS_Interval
  <2>2. QED
    BY <2>1, FS_Subset
<1>3. ASSUME NEW k \in Nat
      PROVE  Count(T, k + 1) = IF k + 1 \in T THEN Count(T, k) + 1 ELSE Count(T, k)
  <2> DEFINE S == {j \in 1..k : j \in T}
  <2>1. CASE k + 1 \in T
    <3>1. {j \in 1..(k + 1) : j \in T} = S \cup {k + 1} /\ k + 1 \notin S
      BY <2>1
    <3> HIDE DEF S
    <3>2. Cardinality(S \cup {k + 1}) = Cardinality(S) + 1
      BY <1>2, <3>1, FS_AddElement DEF S
    <3>3. QED
      BY <2>1, <3>1, <3>2 DEF Count, S
  <2>2. CASE k + 1 \notin T
    <3>1. {j \in 1..(k + 1) : j \in T} = S
      BY <2>2
    <3>2. QED
      BY <2>2, <3>1 DEF Count
  <2>3. QED
    BY <2>1, <2>2
<1>4. QED
  BY <1>1, <1>2, <1>3, FS_EmptySet, FS_CardinalityType DEF Count

Begins(p) == {j \in Nat : IsBlockBegin(p[j].operation)}
Ends(p)   == {j \in Nat : IsBlockEnd(p[j].operation)}

LEMMA DepthSteps ==
  ASSUME NEW p
  PROVE  /\ Depth(p, 0) = 0
         /\ \A k \in Nat : Depth(p, k) \in Int
         /\ \A k \in Nat :
              Depth(p, k + 1) = CASE IsBlockBegin(p[k + 1].operation) -> Depth(p, k) + 1
                                  [] IsBlockEnd(p[k + 1].operation)   -> Depth(p, k) - 1
                                  [] OTHER                            -> Depth(p, k)
<1>1. ASSUME NEW k \in Nat PROVE Depth(p, k) = Count(Begins(p), k) - Count(Ends(p), k)
  <2>1. /\ {j \in 1..k : IsBlockBegin(p[j].operation)} = {j \in 1..k : j \in Begins(p)}
        /\ {j \in 1..k : IsBlockEnd(p[j].operation)} = {j \in 1..k : j \in Ends(p)}
    BY DEF Begins, Ends
  <2>2. QED
    BY <2>1 DEF Depth, Count
<1>2. ASSUME NEW k \in Nat
      PROVE  Depth(p, k + 1) = CASE IsBlockBegin(p[k + 1].operation) -> Depth(p, k) + 1
                                 [] IsBlockEnd(p[k + 1].operation)   -> Depth(p, k) - 1
                                 [] OTHER                            -> Depth(p, k)
  <2>1. /\ Depth(p, k) = Count(Begins(p), k) - Count(Ends(p), k)
        /\ Depth(p, k + 1) = Count(Begins(p), k + 1) - Count(Ends(p), k + 1)
    BY <1>1
  <2>2. ~(IsBlockBegin(p[k + 1].operation) /\ IsBlockEnd(p[k + 1].operation))
    BY DEF IsBlockBegin, IsBlockEnd
  <2>3. /\ k + 1 \in Begins(p) <=> IsBlockBegin(p[k + 1].operation)
        /\ k + 1 \in Ends(p) <=> IsBlockEnd(p[k + 1].operation)
    BY DEF Begins, Ends
  <2>4. /\ Count(Begins(p), k) \in Nat /\ Count(Ends(p), k) \in Nat
        /\ Count(Begins(p), k + 1) = IF k + 1 \in Begins(p) THEN Count(Begins(p), k) + 1
                                     ELSE Count(Begins(p), k)
        /\ Count(Ends(p), k + 1) = IF k + 1 \in Ends(p) THEN Count(Ends(p), k) + 1
                                   ELSE Count(Ends(p), k)
    BY CountSteps
  <2>5. CASE IsBlockBegin(p[k + 1].operation)
    BY <2>1, <2>2, <2>3, <2>4, <2>5
  <2>6. CASE IsBlockEnd(p[k + 1].operation)
    BY <2>1, <2>2, <2>3, <2>4, <2>6
  <2>7. CASE ~IsBlockBegin(p[k + 1].operation) /\ ~IsBlockEnd(p[k + 1].operation)
    BY <2>1, <2>2, <2>3, <2>4, <2>7
  <2>8. QED
    BY <2>5, <2>6, <2>7
<1>3. Depth(p, 0) = 0 /\ \A k \in Nat : Depth(p, k) \in Int
  BY <1>1, CountSteps
<1>4. QED
  BY <1>2, <1>3

LEMMA StillOpenSteps ==
  ASSUME NEW p, NEW b \in Nat
  PROVE  /\ StillOpen(p, b, b)
         /\ \A k \in Nat : k + 1 >= b =>
              (StillOpen(p, b, k + 1) <=> StillOpen(p, b, k) /\ Depth(p, k + 1) >= Depth(p, b))
<1>1. Depth(p, b) \in Int
  BY DepthSteps
<1>a. b..b = {b}
  OBVIOUS
<1>2. ASSUME NEW k \in Nat, k + 1 >= b PROVE b..(k + 1) = (b..k) \cup {k + 1}
  BY <1>2
<1>3. QED
  BY <1>1, <1>a, <1>2 DEF StillOpen

\* And Max, of a set that is bounded.
LEMMA MaxIs ==
  ASSUME NEW T, T \subseteq Nat, NEW m \in T, \A y \in T : y <= m
  PROVE  Max(T) = m
<1>1. \A y \in T : m >= y
  OBVIOUS
<1>2. \A x \in T : (\A y \in T : x >= y) => x = m
  OBVIOUS
<1>3. QED
  BY <1>1, <1>2, Zenon DEF Max

-----------------------------------------------------------------------------
(* A replayed builder. *)

OpenScope      == [begin : Nat, id : Nat \ {0}]
ScopedVariable == [var : Variable, scope_id : Nat]

Builder ==
  [accepted : BOOLEAN, scopes : Seq(OpenScope), counter : Nat \ {0},
   variables : Seq(ScopedVariable)]

\* The stack of a builder that has gone through k instructions: the global scope at the bottom,
\* each scope begun later than the ones below it, and numbered higher.
WellFormed(b, k) ==
  /\ b \in Builder
  /\ Len(b.scopes) >= 1
  /\ b.scopes[1] = [begin |-> 0, id |-> 1]
  /\ \A d \in 1..Len(b.scopes) : b.scopes[d].begin <= k /\ b.scopes[d].id <= b.counter
  /\ \A d, e \in 1..Len(b.scopes) :
       d < e => b.scopes[d].begin < b.scopes[e].begin /\ b.scopes[d].id < b.scopes[e].id

\* Front drops the last element.
LEMMA FrontProperties ==
  ASSUME NEW S, NEW s \in Seq(S), s # << >>
  PROVE  /\ Front(s) \in Seq(S)
         /\ Len(Front(s)) = Len(s) - 1
         /\ \A k \in 1..(Len(s) - 1) : Front(s)[k] = s[k]
<1>1. Len(s) \in Nat /\ Len(s) > 0
  BY EmptySeq, LenProperties
<1>2. \A k \in 1..(Len(s) - 1) : s[k] \in S
  BY <1>1, ElementOfSeq
<1> DEFINE n == Len(s) - 1
<1>3. n \in Nat /\ 1 \in Int
  BY <1>1
<1>4. /\ SubSeq(s, 1, n) \in Seq(S)
      /\ Len(SubSeq(s, 1, n)) = IF 1 <= n THEN n - 1 + 1 ELSE 0
      /\ \A k \in 1..(n - 1 + 1) : SubSeq(s, 1, n)[k] = s[1 + k - 1]
  <2> HIDE DEF n
  <2>1. QED
    BY <1>2, <1>3, SubSeqProperties DEF n
<1>5. /\ Len(SubSeq(s, 1, n)) = n
      /\ \A k \in 1..n : SubSeq(s, 1, n)[k] = s[k]
  <2> HIDE DEF n
  <2>1. n - 1 + 1 = n /\ \A k \in 1..n : 1 + k - 1 = k
    BY <1>3
  <2>2. QED
    BY <1>3, <1>4, <2>1
<1>6. QED
  BY <1>4, <1>5 DEF Front

\* Scoped tags every variable with the scope.
LEMMA ScopedProperties ==
  ASSUME NEW types \in Seq(Variable), NEW id \in Nat
  PROVE  /\ Scoped(types, id) \in Seq(ScopedVariable)
         /\ Len(Scoped(types, id)) = Len(types)
         /\ \A n \in 1..Len(types) : Scoped(types, id)[n] = [var |-> types[n], scope_id |-> id]
<1>1. Len(types) \in Nat /\ DOMAIN types = 1..Len(types)
  BY LenProperties
<1>2. \A n \in 1..Len(types) : [var |-> types[n], scope_id |-> id] \in ScopedVariable
  BY ElementOfSeq DEF ScopedVariable
<1>3. Scoped(types, id) = [n \in 1..Len(types) |-> [var |-> types[n], scope_id |-> id]]
  BY <1>1 DEF Scoped
<1>4. [n \in 1..Len(types) |-> [var |-> types[n], scope_id |-> id]] \in Seq(ScopedVariable)
  BY <1>1, <1>2, IsASeq
<1>5. QED
  BY <1>1, <1>3, <1>4

\* What is known of a well formed builder.
LEMMA StackFacts ==
  ASSUME NEW k \in Nat, NEW b, WellFormed(b, k)
  PROVE  /\ b.scopes \in Seq(OpenScope) /\ b.scopes # << >> /\ Len(b.scopes) \in Nat
         /\ DOMAIN b.scopes = 1..Len(b.scopes)
         /\ \A d \in 1..Len(b.scopes) :
              /\ b.scopes[d] \in OpenScope
              /\ b.scopes[d].begin \in Nat /\ b.scopes[d].id \in Nat \ {0}
         /\ Last(b.scopes) = b.scopes[Len(b.scopes)]
         /\ Last(b.scopes).begin = 0 <=> Len(b.scopes) = 1
         /\ b.counter \in Nat \ {0}
         /\ b.variables \in Seq(ScopedVariable) /\ Len(b.variables) \in Nat
         /\ DOMAIN b.variables = 1..Len(b.variables)
<1>1. /\ b.scopes \in Seq(OpenScope) /\ b.counter \in Nat \ {0}
      /\ b.variables \in Seq(ScopedVariable)
  BY DEF WellFormed, Builder
<1>2. /\ Len(b.scopes) \in Nat /\ DOMAIN b.scopes = 1..Len(b.scopes)
      /\ Len(b.variables) \in Nat /\ DOMAIN b.variables = 1..Len(b.variables)
  BY <1>1, LenProperties
<1>3. Len(b.scopes) >= 1
  BY DEF WellFormed
<1>4. b.scopes # << >>
  BY <1>3
<1>5. ASSUME NEW d \in 1..Len(b.scopes)
      PROVE  b.scopes[d] \in OpenScope /\ b.scopes[d].begin \in Nat /\ b.scopes[d].id \in Nat \ {0}
  <2>1. b.scopes[d] \in OpenScope
    BY <1>1, ElementOfSeq
  <2>2. QED
    BY <2>1 DEF OpenScope
<1>6. Last(b.scopes) = b.scopes[Len(b.scopes)]
  BY DEF Last
<1>7. b.scopes[Len(b.scopes)].begin = 0 <=> Len(b.scopes) = 1
  <2>1. b.scopes[1].begin = 0
    BY DEF WellFormed
  <2>2. ASSUME Len(b.scopes) # 1 PROVE b.scopes[Len(b.scopes)].begin # 0
    <3>1. 1 \in 1..Len(b.scopes) /\ Len(b.scopes) \in 1..Len(b.scopes) /\ 1 < Len(b.scopes)
      <4> DEFINE n == Len(b.scopes)
      <4>1. n \in Nat /\ n >= 1 /\ n # 1
        BY <1>2, <1>3, <2>2
      <4> HIDE DEF n
      <4>2. 1 \in 1..n /\ n \in 1..n /\ 1 < n
        BY <4>1
      <4>3. QED
        BY <4>2 DEF n
    <3>2. b.scopes[1].begin < b.scopes[Len(b.scopes)].begin
      BY <3>1 DEF WellFormed
    <3>3. b.scopes[Len(b.scopes)].begin \in Nat
      BY <1>5, <3>1
    <3>4. QED
      BY <2>1, <3>2, <3>3
  <2>3. QED
    BY <2>1, <2>2
<1>8. QED
  BY <1>1, <1>2, <1>4, <1>5, <1>6, <1>7

\* What an accepted instruction does to the scopes (builder.rs:155-190): A is the builder b after
\* a block end, a block beginning at k, or another operation.
ScopeLeft(b, A, op) ==
  /\ IsBlockEnd(op) /\ ~IsBlockBegin(op)
  /\ Len(b.scopes) >= 2
  /\ Len(A.scopes) = Len(b.scopes) - 1
  /\ \A d \in 1..(Len(b.scopes) - 1) : A.scopes[d] = b.scopes[d]
  /\ A.counter = b.counter

ScopeEntered(b, A, op, k) ==
  /\ IsBlockBegin(op) /\ ~IsBlockEnd(op)
  /\ Len(A.scopes) = Len(b.scopes) + 1
  /\ \A d \in 1..Len(b.scopes) : A.scopes[d] = b.scopes[d]
  /\ A.scopes[Len(b.scopes) + 1] = [begin |-> k, id |-> b.counter + 1]
  /\ A.counter = b.counter + 1

ScopesKept(b, A, op) ==
  /\ ~IsBlockEnd(op) /\ ~IsBlockBegin(op)
  /\ A.scopes = b.scopes
  /\ A.counter = b.counter

LEMMA AppendedScopes ==
  ASSUME NEW k \in Nat \ {0}, NEW p, NEW b, WellFormed(b, k - 1), Appendable(b, p, k),
         NEW A, A = Appended(b, p, k)
  PROVE  /\ A.accepted = b.accepted
         /\ A.scopes \in Seq(OpenScope)
         /\ \/ ScopeLeft(b, A, p[k].operation)
            \/ ScopeEntered(b, A, p[k].operation, k)
            \/ ScopesKept(b, A, p[k].operation)
<1> DEFINE n  == Len(b.scopes)
           op == p[k].operation
<1>1. k - 1 \in Nat
  OBVIOUS
<1>2. /\ b.scopes \in Seq(OpenScope) /\ b.scopes # << >> /\ n \in Nat /\ n >= 1
      /\ b.counter \in Nat \ {0}
  BY <1>1, StackFacts DEF WellFormed
<1>3. b \in Builder
  BY DEF WellFormed
<1>4. ~(IsBlockEnd(op) /\ IsBlockBegin(op))
  BY DEF IsBlockEnd, IsBlockBegin
<1>5. /\ A.accepted = b.accepted
      /\ A.scopes = IF IsBlockBegin(op)
                      THEN Append(IF IsBlockEnd(op) THEN Front(b.scopes) ELSE b.scopes,
                                  [begin |-> k,
                                   id |-> IF IsBlockBegin(op) THEN b.counter + 1 ELSE b.counter])
                      ELSE IF IsBlockEnd(op) THEN Front(b.scopes) ELSE b.scopes
      /\ A.counter = IF IsBlockBegin(op) THEN b.counter + 1 ELSE b.counter
  BY <1>3 DEF Appended, Builder
<1>6. CASE IsBlockEnd(op)
  <2>1. A.scopes = Front(b.scopes) /\ A.counter = b.counter
    BY <1>4, <1>5, <1>6
  <2>2. Last(b.scopes).begin # 0
    BY <1>6 DEF Appendable
  <2>3. n # 1
    BY <1>1, <2>2, StackFacts
  <2>4. /\ Front(b.scopes) \in Seq(OpenScope) /\ Len(Front(b.scopes)) = n - 1
        /\ \A d \in 1..(n - 1) : Front(b.scopes)[d] = b.scopes[d]
    BY <1>2, FrontProperties
  <2> HIDE DEF n
  <2>5. n >= 2
    BY <1>2, <2>3
  <2>6. ScopeLeft(b, A, op)
    BY <1>4, <1>6, <2>1, <2>4, <2>5 DEF n, ScopeLeft
  <2>7. QED
    BY <1>5, <2>1, <2>4, <2>6
<1>7. CASE IsBlockBegin(op)
  <2> DEFINE s == [begin |-> k, id |-> b.counter + 1]
  <2>1. A.scopes = Append(b.scopes, s) /\ A.counter = b.counter + 1
    BY <1>4, <1>5, <1>7
  <2>2. s \in OpenScope
    BY <1>2 DEF OpenScope
  <2> HIDE DEF s
  <2>3. /\ Append(b.scopes, s) \in Seq(OpenScope) /\ Len(Append(b.scopes, s)) = n + 1
        /\ \A d \in 1..n : Append(b.scopes, s)[d] = b.scopes[d]
        /\ Append(b.scopes, s)[n + 1] = s
    BY <1>2, <2>2, AppendProperties
  <2>4. ScopeEntered(b, A, op, k)
    BY <1>4, <1>7, <2>1, <2>3 DEF s, ScopeEntered
  <2>5. QED
    BY <1>5, <2>1, <2>3, <2>4
<1>8. CASE ~IsBlockEnd(op) /\ ~IsBlockBegin(op)
  <2>1. A.scopes = b.scopes /\ A.counter = b.counter
    BY <1>5, <1>8
  <2>2. QED
    BY <1>2, <1>5, <1>8, <2>1 DEF ScopesKept
<1>9. QED
  BY <1>6, <1>7, <1>8

\* The variables it adds, those of a nop in no scope, those a block defines inside itself in the
\* scope it opens and all others in the scope that is then current (builder.rs:173-205).
VariablesAdded(b, A, op) ==
  LET m    == Len(b.variables)
      outs == OutputVariables(op)
      ins  == InnerOutputVariables(op)
  IN /\ A.variables \in Seq(ScopedVariable)
     /\ Len(A.variables) = m + Defines(op)
     /\ \A v \in 1..m : A.variables[v] = b.variables[v]
     /\ \A n \in 1..Defines(op) :
          A.variables[m + n] = [var |-> (outs \o ins)[n],
                                scope_id |-> IF IsNop(op) THEN 0 ELSE Last(A.scopes).id]

LEMMA AppendedVariables ==
  ASSUME NEW k \in Nat \ {0}, NEW p, p[k].operation \in Operation,
         NEW b, WellFormed(b, k - 1), Appendable(b, p, k),
         NEW A, A = Appended(b, p, k)
  PROVE  VariablesAdded(b, A, p[k].operation)
<1> DEFINE m     == Len(b.variables)
           op    == p[k].operation
           outs  == OutputVariables(op)
           ins   == InnerOutputVariables(op)
           below == IF IsBlockEnd(op) THEN Front(b.scopes) ELSE b.scopes
           outer == IF IsNop(op) THEN 0 ELSE Last(below).id
           inner == IF IsNop(op) THEN 0
                    ELSE IF IsBlockBegin(op) THEN b.counter + 1 ELSE b.counter
<1>1. b \in Builder /\ k - 1 \in Nat
  BY DEF WellFormed
<1>2. A.variables = (b.variables \o Scoped(outs, outer)) \o Scoped(ins, inner)
  BY <1>1 DEF Appended, Builder
<1>3. /\ outs \in Seq(Variable) /\ ins \in Seq(Variable)
      /\ Len(outs) \in Nat /\ Len(ins) \in Nat /\ Defines(op) = Len(outs) + Len(ins)
  BY OutputsTyped, LenProperties DEF Defines
<1>4. b.counter \in Nat \ {0} /\ b.variables \in Seq(ScopedVariable) /\ m \in Nat
  BY <1>1, StackFacts
<1>5. ~IsBlockBegin(op) => below = A.scopes
  BY <1>1 DEF Appended, Builder
<1>6. IsBlockBegin(op) => outs = << >> /\ ~IsNop(op) /\ ~IsBlockEnd(op)
  BY DEF IsBlockBegin, IsBlockEnd, OutputVariables, IsNop
<1>7. ~IsBlockBegin(op) /\ ~IsNop(op) => ins = << >>
  BY DEF IsBlockBegin, InnerOutputVariables, IsNop
<1>8. A.scopes \in Seq(OpenScope) /\ Len(A.scopes) \in Nat \ {0}
  <2> DEFINE n == Len(b.scopes)
             a == Len(A.scopes)
  <2>1. /\ A.scopes \in Seq(OpenScope)
        /\ \/ a = n - 1 /\ n >= 2
           \/ a = n + 1
           \/ A.scopes = b.scopes
    <3>1. /\ A.scopes \in Seq(OpenScope)
          /\ ScopeLeft(b, A, op) \/ ScopeEntered(b, A, op, k) \/ ScopesKept(b, A, op)
      BY AppendedScopes
    <3> HIDE DEF op
    <3>2. QED
      BY <3>1 DEF ScopeLeft, ScopeEntered, ScopesKept
  <2>2. n \in Nat /\ n >= 1
    BY <1>1, StackFacts DEF WellFormed
  <2>3. A.scopes = b.scopes => a = n
    OBVIOUS
  <2> HIDE DEF n, a
  <2>4. a \in Nat \ {0}
    BY <2>1, <2>2, <2>3
  <2>5. QED
    BY <2>1, <2>4 DEF a
<1>9. Last(A.scopes).id \in Nat
  <2>1. A.scopes[Len(A.scopes)] \in OpenScope
    BY <1>8, ElementOfSeq
  <2>2. QED
    BY <2>1 DEF Last, OpenScope
<1>10. ASSUME IsBlockBegin(op) PROVE Last(A.scopes).id = b.counter + 1
  <2>1. /\ Len(A.scopes) = Len(b.scopes) + 1
        /\ A.scopes[Len(b.scopes) + 1] = [begin |-> k, id |-> b.counter + 1]
    BY <1>10, AppendedScopes DEF ScopeLeft, ScopeEntered, ScopesKept
  <2>2. Last(A.scopes) = [begin |-> k, id |-> b.counter + 1]
    BY <2>1, Zenon DEF Last
  <2>3. QED
    BY <2>2
<1>11. outer \in Nat \/ Len(outs) = 0
  BY <1>5, <1>6, <1>9
<1>12. inner \in Nat
  BY <1>4
<1> DEFINE id == IF IsNop(op) THEN 0 ELSE Last(A.scopes).id
<1>13. Len(outs) # 0 => outer = id
  BY <1>3, <1>5, <1>6
<1>14. Len(ins) # 0 => inner = id
  BY <1>3, <1>7, <1>10
<1> DEFINE X == Scoped(outs, outer)
           Y == Scoped(ins, inner)
<1>15. /\ Y \in Seq(ScopedVariable) /\ Len(Y) = Len(ins)
       /\ \A n \in 1..Len(ins) : Y[n] = [var |-> ins[n], scope_id |-> id]
  <2>1. /\ Y \in Seq(ScopedVariable) /\ Len(Y) = Len(ins)
        /\ \A n \in 1..Len(ins) : Y[n] = [var |-> ins[n], scope_id |-> inner]
    <3> HIDE DEF inner, ins
    <3>1. QED
      BY <1>3, <1>12, ScopedProperties
  <2> HIDE DEF Y, inner, id, ins
  <2>2. QED
    BY <1>3, <1>14, <2>1
<1>16. /\ X \in Seq(ScopedVariable) /\ Len(X) = Len(outs)
       /\ \A n \in 1..Len(outs) : X[n] = [var |-> outs[n], scope_id |-> id]
  <2>1. CASE outer \in Nat
    <3>1. /\ X \in Seq(ScopedVariable) /\ Len(X) = Len(outs)
          /\ \A n \in 1..Len(outs) : X[n] = [var |-> outs[n], scope_id |-> outer]
      <4> HIDE DEF outer, outs
      <4>1. QED
        BY <1>3, <2>1, ScopedProperties
    <3> HIDE DEF X, outer, id, outs
    <3>2. QED
      BY <1>3, <1>13, <3>1
  <2>2. CASE Len(outs) = 0
    <3>1. outs = << >>
      BY <1>3, <2>2
    <3> HIDE DEF outs
    <3>2. X = << >>
      BY <3>1 DEF Scoped
    <3> HIDE DEF X
    <3>3. QED
      BY <2>2, <3>2
  <2>3. QED
    BY <1>11, <2>1, <2>2
<1>17. A.variables = (b.variables \o X) \o Y
  BY <1>2
<1> DEFINE lo == Len(outs)
           li == Len(ins)
<1>a. m \in Nat /\ lo \in Nat /\ li \in Nat /\ Defines(op) = lo + li
  BY <1>3, <1>4
<1> HIDE DEF X, Y, outs, ins, id, outer, inner, m, lo, li
<1>18. /\ b.variables \o X \in Seq(ScopedVariable) /\ Len(b.variables \o X) = m + lo
       /\ \A v \in 1..(m + lo) :
            (b.variables \o X)[v] = IF v <= m THEN b.variables[v] ELSE X[v - m]
  <2>1. X \in Seq(ScopedVariable) /\ Len(X) = lo
    BY <1>16 DEF lo
  <2>2. QED
    BY <1>4, <2>1, ConcatProperties DEF m
<1>19. /\ A.variables \in Seq(ScopedVariable) /\ Len(A.variables) = m + lo + li
       /\ \A v \in 1..(m + lo + li) :
            A.variables[v] = IF v <= m + lo THEN (b.variables \o X)[v] ELSE Y[v - (m + lo)]
  <2>1. Y \in Seq(ScopedVariable) /\ Len(Y) = li
    BY <1>15 DEF li
  <2> DEFINE Z == b.variables \o X
  <2>2. Z \in Seq(ScopedVariable) /\ Len(Z) = m + lo
    BY <1>18
  <2>3. A.variables = Z \o Y
    BY <1>17
  <2> HIDE DEF Z
  <2>4. /\ Z \o Y \in Seq(ScopedVariable) /\ Len(Z \o Y) = m + lo + li
        /\ \A v \in 1..(m + lo + li) : (Z \o Y)[v] = IF v <= m + lo THEN Z[v] ELSE Y[v - (m + lo)]
    <3>1. /\ Z \o Y \in Seq(ScopedVariable) /\ Len(Z \o Y) = Len(Z) + Len(Y)
          /\ \A v \in 1..(Len(Z) + Len(Y)) :
               (Z \o Y)[v] = IF v <= Len(Z) THEN Z[v] ELSE Y[v - Len(Z)]
      BY <2>1, <2>2, ConcatProperties
    <3>2. QED
      BY <2>1, <2>2, <3>1
  <2>5. QED
    BY <2>3, <2>4 DEF Z
<1>20. \A n \in 1..(lo + li) : (outs \o ins)[n] = IF n <= lo THEN outs[n] ELSE ins[n - lo]
  BY <1>3, ConcatProperties DEF outs, ins, lo, li
<1>21. ASSUME NEW v \in 1..m PROVE A.variables[v] = b.variables[v]
  <2>1. v \in 1..(m + lo + li) /\ v <= m + lo /\ v \in 1..(m + lo) /\ v <= m
    BY <1>a
  <2>2. QED
    BY <1>18, <1>19, <2>1
<1>22. ASSUME NEW n \in 1..(lo + li)
       PROVE  A.variables[m + n] = [var |-> (outs \o ins)[n], scope_id |-> id]
  <2>1. /\ m + n \in 1..(m + lo + li) /\ ~(m + n <= m)
        /\ (m + n) - m = n /\ (m + n) - (m + lo) = n - lo
        /\ (m + n <= m + lo <=> n <= lo)
    BY <1>a
  <2>2. CASE n <= lo
    <3>1. n \in 1..lo /\ m + n \in 1..(m + lo)
      BY <1>a, <2>2
    <3>2. A.variables[m + n] = X[n] /\ (outs \o ins)[n] = outs[n]
      <4>1. A.variables[m + n] = (b.variables \o X)[m + n]
        BY <1>19, <2>1, <2>2
      <4>2. (b.variables \o X)[m + n] = X[(m + n) - m]
        <5>1. \A v \in 1..(m + lo) : ~(v <= m) => (b.variables \o X)[v] = X[v - m]
          BY <1>18
        <5>2. m + n \in 1..(m + lo) /\ ~(m + n <= m)
          BY <2>1, <3>1
        <5>3. QED
          BY <5>1, <5>2, Zenon
      <4>3. X[(m + n) - m] = X[n]
        BY <2>1
      <4>4. (outs \o ins)[n] = outs[n]
        BY <1>20, <2>2
      <4>5. QED
        BY <4>1, <4>2, <4>3, <4>4
    <3>3. QED
      BY <1>16, <3>1, <3>2 DEF lo
  <2>3. CASE ~(n <= lo)
    <3>1. n - lo \in 1..li
      BY <1>a, <2>3
    <3>2. A.variables[m + n] = Y[n - lo] /\ (outs \o ins)[n] = ins[n - lo]
      <4>1. A.variables[m + n] = Y[(m + n) - (m + lo)]
        <5>1. \A v \in 1..(m + lo + li) : ~(v <= m + lo) => A.variables[v] = Y[v - (m + lo)]
          BY <1>19
        <5>2. m + n \in 1..(m + lo + li) /\ ~(m + n <= m + lo)
          BY <2>1, <2>3
        <5>3. QED
          BY <5>1, <5>2, Zenon
      <4>2. Y[(m + n) - (m + lo)] = Y[n - lo]
        BY <2>1
      <4>3. (outs \o ins)[n] = ins[n - lo]
        BY <1>20, <2>3
      <4>4. QED
        BY <4>1, <4>2, <4>3
    <3>3. QED
      BY <1>15, <3>1, <3>2 DEF li
  <2>4. QED
    BY <2>2, <2>3
<1>23. Len(A.variables) = m + Defines(op)
  BY <1>a, <1>19
<1>24. \A n \in 1..Defines(op) :
         A.variables[m + n] = [var |-> (outs \o ins)[n], scope_id |-> id]
  BY <1>a, <1>22
<1>25. QED
  BY <1>19, <1>21, <1>23, <1>24 DEF VariablesAdded, m, outs, ins, id

\* The stack keeps its shape.
LEMMA AppendedWellFormed ==
  ASSUME NEW k \in Nat \ {0}, NEW p, p[k].operation \in Operation,
         NEW b, WellFormed(b, k - 1), Appendable(b, p, k),
         NEW A, A = Appended(b, p, k)
  PROVE  WellFormed(A, k)
<1> DEFINE op == p[k].operation
           n  == Len(b.scopes)
           B(d) == b.scopes[d].begin
           I(d) == b.scopes[d].id
<1>1. k - 1 \in Nat
  OBVIOUS
<1>2. /\ A.accepted = b.accepted /\ A.scopes \in Seq(OpenScope)
      /\ ScopeLeft(b, A, op) \/ ScopeEntered(b, A, op, k) \/ ScopesKept(b, A, op)
  BY AppendedScopes
<1>3. A.variables \in Seq(ScopedVariable)
  BY AppendedVariables DEF VariablesAdded
<1>4. b \in Builder /\ b.counter \in Nat \ {0} /\ n \in Nat /\ n >= 1
  BY <1>1, StackFacts DEF WellFormed
<1>5. A.counter \in Nat \ {0}
  <2> HIDE DEF op
  <2>1. QED
    BY <1>2, <1>4 DEF ScopeLeft, ScopeEntered, ScopesKept
<1>6. A \in Builder
  <2>1. A = [accepted |-> A.accepted, scopes |-> A.scopes, counter |-> A.counter,
             variables |-> A.variables]
    BY <1>4 DEF Appended, Builder
  <2>2. A.accepted \in BOOLEAN
    BY <1>2, <1>4 DEF Builder
  <2>3. QED
    BY <1>2, <1>3, <1>5, <2>1, <2>2 DEF Builder
<1>7. /\ b.scopes[1] = [begin |-> 0, id |-> 1]
      /\ \A d \in 1..n : /\ B(d) \in Nat /\ I(d) \in Nat
                         /\ B(d) <= k - 1 /\ I(d) <= b.counter
      /\ \A d, e \in 1..n : d < e => B(d) < B(e) /\ I(d) < I(e)
  BY <1>1, StackFacts DEF WellFormed
<1>8. CASE ScopeLeft(b, A, op)
  <2>1. /\ Len(A.scopes) = n - 1 /\ n >= 2 /\ A.counter = b.counter
        /\ \A d \in 1..(n - 1) : A.scopes[d] = b.scopes[d]
    BY <1>8 DEF ScopeLeft
  <2> HIDE DEF n, op
  <2>2. 1 \in 1..(n - 1) /\ 1..(n - 1) \subseteq 1..n /\ n - 1 >= 1
    BY <1>4, <2>1
  <2>3. \A d \in 1..(n - 1) : A.scopes[d].begin <= k /\ A.scopes[d].id <= A.counter
    BY <1>7, <2>1, <2>2
  <2>4. ASSUME NEW d \in 1..(n - 1), NEW e \in 1..(n - 1), d < e
        PROVE  A.scopes[d].begin < A.scopes[e].begin /\ A.scopes[d].id < A.scopes[e].id
    BY <1>7, <2>1, <2>2, <2>4
  <2>5. QED
    BY <1>6, <1>7, <2>1, <2>2, <2>3, <2>4 DEF WellFormed
<1>9. CASE ScopeEntered(b, A, op, k)
  <2>1. /\ Len(A.scopes) = n + 1 /\ A.counter = b.counter + 1
        /\ \A d \in 1..n : A.scopes[d] = b.scopes[d]
        /\ A.scopes[n + 1] = [begin |-> k, id |-> b.counter + 1]
    BY <1>9 DEF ScopeEntered
  <2> HIDE DEF n, op
  <2>2. 1 \in 1..n /\ 1..(n + 1) = (1..n) \cup {n + 1} /\ n + 1 >= 1
    BY <1>4
  <2>a. A.scopes[n + 1].begin = k /\ A.scopes[n + 1].id = b.counter + 1
    BY <2>1
  <2>3. ASSUME NEW d \in 1..n
        PROVE  /\ A.scopes[d].begin <= k /\ A.scopes[d].id <= A.counter
               /\ A.scopes[d].begin < A.scopes[n + 1].begin
               /\ A.scopes[d].id < A.scopes[n + 1].id
    <3>1. A.scopes[d].begin = B(d) /\ A.scopes[d].id = I(d)
      BY <2>1
    <3> HIDE DEF B, I
    <3>2. QED
      BY <1>4, <1>7, <2>1, <2>a, <3>1
  <2>4. ASSUME NEW d \in 1..(n + 1)
        PROVE  A.scopes[d].begin <= k /\ A.scopes[d].id <= A.counter
    BY <1>4, <2>1, <2>2, <2>3
  <2>5. ASSUME NEW d \in 1..(n + 1), NEW e \in 1..(n + 1), d < e
        PROVE  A.scopes[d].begin < A.scopes[e].begin /\ A.scopes[d].id < A.scopes[e].id
    <3>1. d \in 1..n
      BY <1>4, <2>5
    <3>2. CASE e \in 1..n
      BY <1>7, <2>1, <2>5, <3>1, <3>2
    <3>3. CASE e = n + 1
      BY <2>3, <3>1, <3>3
    <3>4. QED
      BY <2>2, <3>2, <3>3
  <2>6. QED
    BY <1>6, <1>7, <2>1, <2>2, <2>4, <2>5 DEF WellFormed
<1>10. CASE ScopesKept(b, A, op)
  <2>1. A.scopes = b.scopes /\ A.counter = b.counter
    BY <1>10 DEF ScopesKept
  <2>2. \A d \in 1..n : b.scopes[d].begin <= k
    BY <1>7
  <2>3. QED
    BY <1>6, <2>1, <2>2 DEF WellFormed
<1>11. QED
  BY <1>2, <1>8, <1>9, <1>10

-----------------------------------------------------------------------------
(* The builder after k instructions, held against the text of p. *)

\* Its stack is the blocks of p that are still open, the d-th at depth d - 1.
TextScopes(b, p, k) ==
  /\ Depth(p, k) = Len(b.scopes) - 1
  /\ \A d \in 2..Len(b.scopes) :
       LET x == b.scopes[d].begin
       IN /\ x \in 1..k /\ IsBlockBegin(p[x].operation)
          /\ Depth(p, x) = d - 1 /\ StillOpen(p, x, k)
  /\ \A x \in 1..k : IsBlockBegin(p[x].operation) /\ StillOpen(p, x, k) =>
                       \E d \in 2..Len(b.scopes) : b.scopes[d].begin = x

\* The innermost open block is the top of the stack.
LEMMA EnclosingIs ==
  ASSUME NEW k \in Nat, NEW p, NEW b, WellFormed(b, k), TextScopes(b, p, k)
  PROVE  Enclosing(p, k) = Last(b.scopes).begin
<1> DEFINE n    == Len(b.scopes)
           open == {x \in 1..k : IsBlockBegin(p[x].operation) /\ StillOpen(p, x, k)}
<1>1. n \in Nat /\ n >= 1 /\ Last(b.scopes) = b.scopes[n]
  BY StackFacts DEF WellFormed
<1>2. b.scopes[1].begin = 0
  BY DEF WellFormed
<1>3. open = {b.scopes[d].begin : d \in 2..n}
  BY DEF TextScopes
<1>4. Enclosing(p, k) = IF open = {} THEN 0 ELSE Max(open)
  BY DEF Enclosing
<1>5. \A d \in 1..n : b.scopes[d].begin \in Nat
  BY StackFacts
<1>6. \A d, e \in 1..n : d < e => b.scopes[d].begin < b.scopes[e].begin
  BY DEF WellFormed
<1> HIDE DEF n, open
<1>7. CASE n = 1
  <2>1. 2..n = {}
    BY <1>7
  <2>2. open = {}
    BY <1>3, <2>1
  <2>3. QED
    BY <1>1, <1>2, <1>4, <1>7, <2>2
<1>8. CASE n # 1
  <2> DEFINE t == b.scopes[n].begin
  <2>1. n \in 2..n /\ 2..n \subseteq 1..n
    BY <1>1, <1>8
  <2>2. t \in open
    BY <1>3, <2>1
  <2>3. ASSUME NEW y \in open PROVE y \in Nat /\ y <= t
    <3>1. PICK d \in 2..n : y = b.scopes[d].begin
      BY <1>3
    <3>2. d \in 1..n /\ n \in 1..n /\ (d = n \/ d < n)
      BY <1>1, <2>1
    <3>3. y \in Nat /\ t \in Nat
      BY <1>5, <3>1, <3>2
    <3>4. d < n => y < t
      BY <1>6, <3>1, <3>2
    <3>5. QED
      BY <3>1, <3>2, <3>3, <3>4
  <2> HIDE DEF t
  <2>4. open \subseteq Nat
    BY <2>3
  <2>5. Max(open) = t
    BY <2>2, <2>3, <2>4, MaxIs
  <2>6. QED
    BY <1>1, <1>4, <2>2, <2>5 DEF t
<1>9. QED
  BY <1>7, <1>8

\* Depths and open blocks, over one instruction.
LEMMA TextStep ==
  ASSUME NEW p, NEW k \in Nat \ {0}
  PROVE  /\ Depth(p, k) \in Int /\ Depth(p, k - 1) \in Int
         /\ IsBlockBegin(p[k].operation) => Depth(p, k) = Depth(p, k - 1) + 1
         /\ IsBlockEnd(p[k].operation) => Depth(p, k) = Depth(p, k - 1) - 1
         /\ ~IsBlockBegin(p[k].operation) /\ ~IsBlockEnd(p[k].operation) =>
              Depth(p, k) = Depth(p, k - 1)
         /\ StillOpen(p, k, k)
         /\ \A x \in 1..(k - 1) : Depth(p, x) \in Int
         /\ \A x \in 1..(k - 1) :
              StillOpen(p, x, k) <=> StillOpen(p, x, k - 1) /\ Depth(p, k) >= Depth(p, x)
<1>1. k - 1 \in Nat /\ k - 1 + 1 = k
  OBVIOUS
<1>2. ~(IsBlockBegin(p[k].operation) /\ IsBlockEnd(p[k].operation))
  BY DEF IsBlockBegin, IsBlockEnd
<1>3. Depth(p, k) = CASE IsBlockBegin(p[k].operation) -> Depth(p, k - 1) + 1
                      [] IsBlockEnd(p[k].operation)   -> Depth(p, k - 1) - 1
                      [] OTHER                        -> Depth(p, k - 1)
  <2> DEFINE j == k - 1
  <2>1. j \in Nat /\ j + 1 = k
    OBVIOUS
  <2> HIDE DEF j
  <2>2. Depth(p, j + 1) = CASE IsBlockBegin(p[j + 1].operation) -> Depth(p, j) + 1
                            [] IsBlockEnd(p[j + 1].operation)   -> Depth(p, j) - 1
                            [] OTHER                            -> Depth(p, j)
    BY <2>1, DepthSteps
  <2>3. Depth(p, k) = CASE IsBlockBegin(p[k].operation) -> Depth(p, j) + 1
                        [] IsBlockEnd(p[k].operation)   -> Depth(p, j) - 1
                        [] OTHER                        -> Depth(p, j)
    BY <2>1, <2>2, Zenon
  <2>4. QED
    BY <2>3 DEF j
<1>4. \A j \in Nat : Depth(p, j) \in Int
  BY DepthSteps
<1>5. StillOpen(p, k, k)
  BY StillOpenSteps
<1>6. ASSUME NEW x \in 1..(k - 1)
      PROVE  StillOpen(p, x, k) <=> StillOpen(p, x, k - 1) /\ Depth(p, k) >= Depth(p, x)
  <2> DEFINE j == k - 1
  <2>1. x \in Nat /\ j \in Nat /\ j + 1 = k /\ j + 1 >= x
    OBVIOUS
  <2> HIDE DEF j
  <2>2. StillOpen(p, x, j + 1) <=> StillOpen(p, x, j) /\ Depth(p, j + 1) >= Depth(p, x)
    BY <2>1, StillOpenSteps
  <2>3. QED
    BY <2>1, <2>2 DEF j
<1>7. ASSUME NEW x \in 1..(k - 1) PROVE Depth(p, x) \in Int
  BY <1>4
<1>8. QED
  BY <1>1, <1>2, <1>3, <1>4, <1>5, <1>6, <1>7

\* An accepted instruction keeps the stack and the text together.
LEMMA TextScopesKept ==
  ASSUME NEW k \in Nat \ {0}, NEW p, NEW b, WellFormed(b, k - 1), Appendable(b, p, k),
         TextScopes(b, p, k - 1), NEW A, A = Appended(b, p, k)
  PROVE  TextScopes(A, p, k)
<1> DEFINE op   == p[k].operation
           n    == Len(b.scopes)
           B(d) == b.scopes[d].begin
           Open(x, j) == StillOpen(p, x, j)
           D(x) == Depth(p, x)
<1>1. k - 1 \in Nat
  OBVIOUS
<1>2. ScopeLeft(b, A, op) \/ ScopeEntered(b, A, op, k) \/ ScopesKept(b, A, op)
  BY AppendedScopes
<1>3. n \in Nat /\ n >= 1
  BY <1>1, StackFacts DEF WellFormed
<1>4. /\ D(k - 1) = n - 1
      /\ \A d \in 2..n : /\ B(d) \in 1..(k - 1) /\ IsBlockBegin(p[B(d)].operation)
                         /\ D(B(d)) = d - 1 /\ Open(B(d), k - 1)
      /\ \A x \in 1..(k - 1) : IsBlockBegin(p[x].operation) /\ Open(x, k - 1) =>
                                 \E d \in 2..n : B(d) = x
  BY DEF TextScopes
<1>5. /\ D(k) \in Int
      /\ IsBlockBegin(op) => D(k) = D(k - 1) + 1
      /\ IsBlockEnd(op) => D(k) = D(k - 1) - 1
      /\ ~IsBlockBegin(op) /\ ~IsBlockEnd(op) => D(k) = D(k - 1)
      /\ Open(k, k)
      /\ \A x \in 1..(k - 1) : Open(x, k) <=> Open(x, k - 1) /\ D(k) >= D(x)
  BY TextStep
<1>6. 1..(k - 1) \subseteq 1..k /\ 1..k = 1..(k - 1) \cup {k}
  OBVIOUS
<1>7. CASE ScopeLeft(b, A, op)
  <2>1. /\ IsBlockEnd(op) /\ ~IsBlockBegin(op)
        /\ Len(A.scopes) = n - 1 /\ n >= 2
        /\ \A d \in 1..(n - 1) : A.scopes[d] = b.scopes[d]
    BY <1>7 DEF ScopeLeft
  <2> HIDE DEF n, D, Open, B
  <2>2. D(k) = n - 2
    BY <1>3, <1>4, <1>5, <2>1
  <2>3. ASSUME NEW d \in 2..(n - 1)
        PROVE  /\ A.scopes[d].begin = B(d) /\ B(d) \in 1..k /\ IsBlockBegin(p[B(d)].operation)
               /\ D(B(d)) = d - 1 /\ Open(B(d), k)
    <3>1. d \in 2..n /\ d \in 1..(n - 1) /\ n - 2 >= d - 1
      BY <1>3, <2>1
    <3>2. A.scopes[d].begin = B(d)
      BY <2>1, <3>1 DEF B
    <3>3. /\ B(d) \in 1..(k - 1) /\ IsBlockBegin(p[B(d)].operation)
          /\ D(B(d)) = d - 1 /\ Open(B(d), k - 1)
      BY <1>4, <3>1
    <3>4. D(k) >= D(B(d))
      BY <2>2, <3>1, <3>3
    <3>5. Open(B(d), k)
      BY <1>5, <3>3, <3>4
    <3>6. QED
      BY <1>6, <3>2, <3>3, <3>5
  <2>4. ASSUME NEW x \in 1..k, IsBlockBegin(p[x].operation), Open(x, k)
        PROVE  \E d \in 2..(n - 1) : A.scopes[d].begin = x
    <3>1. x \in 1..(k - 1)
      BY <1>6, <2>1, <2>4
    <3>2. Open(x, k - 1) /\ D(k) >= D(x)
      BY <1>5, <2>4, <3>1
    <3>3. PICK d \in 2..n : B(d) = x
      BY <1>4, <2>4, <3>1, <3>2
    <3>4. D(x) = d - 1
      BY <1>4, <3>3
    <3>5. d \in 2..(n - 1)
      BY <1>3, <2>2, <3>2, <3>4
    <3>6. QED
      BY <2>3, <3>3, <3>5
  <2>5. D(k) = n - 1 - 1
    BY <1>3, <2>2
  <2>6. QED
    BY <2>1, <2>3, <2>4, <2>5 DEF TextScopes, D, Open, B
<1>8. CASE ScopeEntered(b, A, op, k)
  <2>1. /\ IsBlockBegin(op)
        /\ Len(A.scopes) = n + 1
        /\ \A d \in 1..n : A.scopes[d] = b.scopes[d]
        /\ A.scopes[n + 1].begin = k
    BY <1>8 DEF ScopeEntered
  <2> HIDE DEF n, D, Open, B
  <2>2. D(k) = n
    BY <1>3, <1>4, <1>5, <2>1
  <2>3. ASSUME NEW d \in 2..n
        PROVE  /\ A.scopes[d].begin = B(d) /\ B(d) \in 1..k /\ IsBlockBegin(p[B(d)].operation)
               /\ D(B(d)) = d - 1 /\ Open(B(d), k)
    <3>1. d \in 1..n /\ n >= d - 1
      BY <1>3
    <3>2. A.scopes[d].begin = B(d)
      BY <2>1, <3>1 DEF B
    <3>3. /\ B(d) \in 1..(k - 1) /\ IsBlockBegin(p[B(d)].operation)
          /\ D(B(d)) = d - 1 /\ Open(B(d), k - 1)
      BY <1>4
    <3>4. D(k) >= D(B(d))
      BY <2>2, <3>1, <3>3
    <3>5. Open(B(d), k)
      BY <1>5, <3>3, <3>4
    <3>6. QED
      BY <1>6, <3>2, <3>3, <3>5
  <2>4. 2..(n + 1) = 2..n \cup {n + 1} /\ (n + 1) - 1 = n
    BY <1>3
  <2>5. ASSUME NEW d \in 2..(n + 1)
        PROVE  LET x == A.scopes[d].begin
               IN /\ x \in 1..k /\ IsBlockBegin(p[x].operation)
                  /\ D(x) = d - 1 /\ Open(x, k)
    <3>1. CASE d \in 2..n
      BY <2>3, <3>1
    <3>2. CASE d = n + 1
      <4>1. k \in 1..k /\ A.scopes[d].begin = k /\ d - 1 = n
        BY <2>1, <2>4, <3>2
      <4>2. QED
        BY <1>5, <2>1, <2>2, <4>1
    <3>3. QED
      BY <2>4, <3>1, <3>2
  <2>6. ASSUME NEW x \in 1..k, IsBlockBegin(p[x].operation), Open(x, k)
        PROVE  \E d \in 2..(n + 1) : A.scopes[d].begin = x
    <3>1. CASE x = k
      <4>1. n + 1 \in 2..(n + 1)
        BY <1>3
      <4>2. QED
        BY <2>1, <3>1, <4>1
    <3>2. CASE x \in 1..(k - 1)
      <4>1. Open(x, k - 1)
        BY <1>5, <2>6, <3>2
      <4>2. PICK d \in 2..n : B(d) = x
        BY <1>4, <2>6, <3>2, <4>1
      <4>3. QED
        BY <2>3, <2>4, <4>2
    <3>3. QED
      BY <1>6, <3>1, <3>2
  <2>7. QED
    BY <2>1, <2>2, <2>4, <2>5, <2>6 DEF TextScopes, D, Open
<1>9. CASE ScopesKept(b, A, op)
  <2>1. ~IsBlockBegin(op) /\ ~IsBlockEnd(op) /\ A.scopes = b.scopes
    BY <1>9 DEF ScopesKept
  <2> HIDE DEF n, D, Open, B
  <2>2. D(k) = n - 1
    BY <1>4, <1>5, <2>1
  <2>3. ASSUME NEW d \in 2..n
        PROVE  /\ B(d) \in 1..k /\ IsBlockBegin(p[B(d)].operation)
               /\ D(B(d)) = d - 1 /\ Open(B(d), k)
    <3>1. n - 1 >= d - 1
      BY <1>3
    <3>2. /\ B(d) \in 1..(k - 1) /\ IsBlockBegin(p[B(d)].operation)
          /\ D(B(d)) = d - 1 /\ Open(B(d), k - 1)
      BY <1>4
    <3>3. D(k) >= D(B(d))
      BY <2>2, <3>1, <3>2
    <3>4. QED
      BY <1>5, <1>6, <3>2, <3>3
  <2>4. ASSUME NEW x \in 1..k, IsBlockBegin(p[x].operation), Open(x, k)
        PROVE  \E d \in 2..n : B(d) = x
    <3>1. x \in 1..(k - 1)
      BY <1>6, <2>1, <2>4
    <3>2. QED
      BY <1>4, <1>5, <2>4, <3>1
  <2>5. QED
    BY <2>1, <2>2, <2>3, <2>4 DEF TextScopes, n, D, Open, B
<1>10. QED
  BY <1>2, <1>7, <1>8, <1>9

\* Its variables are those the first k instructions define, each of the type the text gives it,
\* and in the scope of the block the text gives it; a variable whose scope is not active any more
\* belongs to a block that has ended.
TextVariable(b, p, k, v) ==
  /\ b.variables[v].var = TypeOf(p, v)
  /\ b.variables[v].scope_id <= b.counter
  /\ b.variables[v].scope_id = 0 <=> IsNop(p[DefinerOf(p, v)].operation)
  /\ \A d \in 1..Len(b.scopes) :
       b.variables[v].scope_id = b.scopes[d].id => HomeOf(p, v) = b.scopes[d].begin
  /\ b.variables[v].scope_id \notin ActiveIds(b) \cup {0} =>
       HomeOf(p, v) \in 1..k /\ ~StillOpen(p, HomeOf(p, v), k)

TextVariables(b, p, k) ==
  /\ Len(b.variables) = DefinedBefore(p, k + 1)
  /\ \A v \in 1..Len(b.variables) : TextVariable(b, p, k, v)

\* A variable defined earlier stays where it is, or its block ends.
LEMMA OldVariableKept ==
  ASSUME NEW k \in Nat \ {0}, NEW p, p[k].operation \in Operation,
         NEW b, WellFormed(b, k - 1), Appendable(b, p, k),
         TextScopes(b, p, k - 1), NEW A, A = Appended(b, p, k),
         NEW v \in 1..Len(b.variables), TextVariable(b, p, k - 1, v)
  PROVE  TextVariable(A, p, k, v)
<1> DEFINE op == p[k].operation
           n  == Len(b.scopes)
           s  == b.variables[v].scope_id
           h  == HomeOf(p, v)
<1>1. k - 1 \in Nat
  OBVIOUS
<1>2. ScopeLeft(b, A, op) \/ ScopeEntered(b, A, op, k) \/ ScopesKept(b, A, op)
  BY AppendedScopes
<1>3. n \in Nat /\ n >= 1 /\ b.counter \in Nat
  BY <1>1, StackFacts DEF WellFormed
<1>4. A.variables[v] = b.variables[v]
  <2>1. VariablesAdded(b, A, op)
    BY AppendedVariables
  <2>2. QED
    BY <2>1 DEF VariablesAdded
<1>5. s \in Nat
  <2>1. b.variables \in Seq(ScopedVariable)
    BY <1>1, StackFacts
  <2>2. b.variables[v] \in ScopedVariable
    BY <2>1, ElementOfSeq
  <2>3. QED
    BY <2>2 DEF ScopedVariable
<1>6. /\ b.variables[v].var = TypeOf(p, v)
      /\ s <= b.counter
      /\ s = 0 <=> IsNop(p[DefinerOf(p, v)].operation)
      /\ \A d \in 1..n : s = b.scopes[d].id => h = b.scopes[d].begin
      /\ s \notin ActiveIds(b) \cup {0} => h \in 1..(k - 1) /\ ~StillOpen(p, h, k - 1)
  BY DEF TextVariable
<1>7. ActiveIds(b) = {b.scopes[d].id : d \in 1..n}
  BY <1>1, StackFacts DEF ActiveIds
<1>8. ActiveIds(A) = {A.scopes[d].id : d \in 1..Len(A.scopes)}
  <2>1. A.scopes \in Seq(OpenScope)
    BY AppendedScopes
  <2>2. DOMAIN A.scopes = 1..Len(A.scopes)
    BY <2>1, LenProperties
  <2>3. QED
    BY <2>2 DEF ActiveIds
<1>9. ASSUME h \in 1..(k - 1) /\ ~StillOpen(p, h, k - 1)
      PROVE  h \in 1..k /\ ~StillOpen(p, h, k)
  <2>1. h \in 1..k
    BY <1>9
  <2>2. StillOpen(p, h, k) => StillOpen(p, h, k - 1)
    BY <1>9, TextStep
  <2>3. QED
    BY <1>9, <2>1, <2>2
<1>10. CASE ScopeLeft(b, A, op)
  <2>1. /\ IsBlockEnd(op) /\ ~IsBlockBegin(op)
        /\ Len(A.scopes) = n - 1 /\ n >= 2 /\ A.counter = b.counter
        /\ \A d \in 1..(n - 1) : A.scopes[d] = b.scopes[d]
    BY <1>10 DEF ScopeLeft
  <2>2. ASSUME s = b.scopes[n].id PROVE h \in 1..k /\ ~StillOpen(p, h, k)
    <3> DEFINE x == b.scopes[n].begin
    <3>1. h = x
      <4>1. n \in 1..n
        <5> HIDE DEF n
        <5>1. QED
          BY <1>3
      <4>2. QED
        BY <1>6, <2>2, <4>1
    <3>2. x \in 1..(k - 1) /\ Depth(p, x) = n - 1 /\ Depth(p, k - 1) = n - 1
      <4>1. n \in 2..n
        <5> HIDE DEF n
        <5>1. QED
          BY <1>3, <2>1
      <4>2. QED
        BY <4>1 DEF TextScopes
    <3> HIDE DEF n, x, h
    <3>3. Depth(p, k) = Depth(p, k - 1) - 1
      BY <2>1, TextStep
    <3>4. ~(Depth(p, k) >= Depth(p, x))
      BY <1>3, <3>2, <3>3
    <3>5. StillOpen(p, x, k) => Depth(p, k) >= Depth(p, x)
      BY <3>2, TextStep
    <3>6. QED
      BY <3>1, <3>2, <3>4, <3>5
  <2> HIDE DEF n, s, h, op
  <2>3. 1..n = 1..(n - 1) \cup {n}
    BY <1>3
  <2>4. ASSUME s \notin ActiveIds(A) \cup {0} PROVE h \in 1..k /\ ~StillOpen(p, h, k)
    <3>1. CASE s \in ActiveIds(b)
      <4>1. PICK d \in 1..n : s = b.scopes[d].id
        BY <1>7, <3>1
      <4>2. d \notin 1..(n - 1)
        BY <1>8, <2>1, <2>4, <4>1
      <4>3. QED
        BY <2>2, <2>3, <4>1, <4>2
    <3>2. CASE s \notin ActiveIds(b)
      BY <1>6, <1>9, <2>4, <3>2
    <3>3. QED
      BY <3>1, <3>2
  <2>5. \A d \in 1..(n - 1) : s = A.scopes[d].id => h = A.scopes[d].begin
    BY <1>6, <2>1, <2>3
  <2>6. QED
    BY <1>4, <1>6, <2>1, <2>4, <2>5 DEF TextVariable, s, h
<1>11. CASE ScopeEntered(b, A, op, k)
  <2>1. /\ Len(A.scopes) = n + 1 /\ A.counter = b.counter + 1
        /\ \A d \in 1..n : A.scopes[d] = b.scopes[d]
        /\ A.scopes[n + 1].id = b.counter + 1
    BY <1>11 DEF ScopeEntered
  <2> HIDE DEF n, s, h, op
  <2>2. 1..(n + 1) = 1..n \cup {n + 1}
    BY <1>3
  <2>3. ASSUME s \notin ActiveIds(A) \cup {0} PROVE h \in 1..k /\ ~StillOpen(p, h, k)
    <3>1. s \notin ActiveIds(b)
      BY <1>7, <1>8, <2>1, <2>2, <2>3
    <3>2. QED
      BY <1>6, <1>9, <2>3, <3>1
  <2>4. s <= A.counter /\ s # b.counter + 1
    BY <1>3, <1>5, <1>6, <2>1
  <2>5. \A d \in 1..(n + 1) : s = A.scopes[d].id => h = A.scopes[d].begin
    BY <1>6, <2>1, <2>2, <2>4
  <2>6. QED
    BY <1>4, <1>6, <2>1, <2>3, <2>4, <2>5 DEF TextVariable, s, h
<1>12. CASE ScopesKept(b, A, op)
  <2>1. A.scopes = b.scopes /\ A.counter = b.counter
    BY <1>12 DEF ScopesKept
  <2>2. ActiveIds(A) = ActiveIds(b)
    BY <2>1 DEF ActiveIds
  <2> HIDE DEF n, s, h, op
  <2>3. s \notin ActiveIds(A) \cup {0} => h \in 1..k /\ ~StillOpen(p, h, k)
    BY <1>6, <1>9, <2>2
  <2>4. QED
    BY <1>4, <1>6, <2>1, <2>3 DEF TextVariable, n, s, h
<1>13. QED
  BY <1>2, <1>10, <1>11, <1>12

\* Blocks define inside themselves only, and what is no block nothing inside itself.
LEMMA BlockOutputs ==
  ASSUME NEW op
  PROVE  /\ IsBlockBegin(op) => OutputVariables(op) = << >> /\ ~IsNop(op)
         /\ ~IsBlockBegin(op) /\ ~IsNop(op) => InnerOutputVariables(op) = << >>
  BY DEF IsBlockBegin, OutputVariables, InnerOutputVariables, IsNop

\* A new variable belongs to the scope the text gives it.
LEMMA NewVariable ==
  ASSUME NEW p \in Seq(Instruction), NEW k \in 1..Len(p),
         NEW b, WellFormed(b, k - 1), Appendable(b, p, k),
         TextScopes(b, p, k - 1), Len(b.variables) = DefinedBefore(p, k),
         NEW A, A = Appended(b, p, k),
         NEW n \in 1..Defines(p[k].operation),
         NEW v, v = Len(b.variables) + n
  PROVE  TextVariable(A, p, k, v)
<1> DEFINE op   == p[k].operation
           outs == OutputVariables(op)
           ins  == InnerOutputVariables(op)
           m    == Len(b.variables)
           a    == Len(A.scopes)
<1>1. /\ k \in Nat \ {0} /\ k - 1 \in Nat /\ k \in Nat /\ op \in Operation
      /\ k \in 1..(Len(p) + 1) /\ k + 1 \in 1..(Len(p) + 1)
  BY ProgramFacts
<1>2. /\ m \in Nat /\ Defines(op) \in Nat /\ Len(outs) \in Nat
      /\ Defines(op) = Len(outs) + Len(ins) /\ Len(ins) \in Nat
  BY <1>1, StackFacts, DefinesIsNatural DEF Defines
<1>3. A.variables[v] = [var |-> (outs \o ins)[n],
                        scope_id |-> IF IsNop(op) THEN 0 ELSE Last(A.scopes).id]
  <2>1. VariablesAdded(b, A, op)
    BY <1>1, AppendedVariables
  <2>2. QED
    BY <2>1 DEF VariablesAdded
<1>4. DefinedBefore(p, k + 1) = m + Defines(op)
  BY DefinedSteps
<1>5. DefinerOf(p, v) = k
  <2>1. v \in (DefinedBefore(p, k) + 1)..DefinedBefore(p, k + 1)
    <3> HIDE DEF m, op
    <3>1. n \in 1..Defines(op) /\ v = m + n /\ DefinedBefore(p, k) = m
      BY DEF m, op
    <3>2. QED
      BY <1>2, <1>4, <3>1
  <2>2. QED
    BY <2>1, DefinerIs
<1>6. v - m = n
  <2> HIDE DEF m, op
  <2>1. n \in 1..Defines(op) /\ v = m + n
    BY DEF m, op
  <2>2. QED
    BY <1>2, <2>1
<1>7. TypeOf(p, v) = (outs \o ins)[n]
  BY <1>5, <1>6 DEF TypeOf
<1>8. WellFormed(A, k) /\ TextScopes(A, p, k)
  BY <1>1, AppendedWellFormed, TextScopesKept
<1>9. /\ a \in Nat /\ a >= 1 /\ Last(A.scopes) = A.scopes[a]
      /\ \A d \in 1..a : A.scopes[d].id \in Nat \ {0} /\ A.scopes[d].id <= A.counter
      /\ \A d \in 1..a : d < a => A.scopes[d].id < A.scopes[a].id
      /\ DOMAIN A.scopes = 1..a /\ A.counter \in Nat
  <2>1. /\ a \in Nat /\ Last(A.scopes) = A.scopes[a]
        /\ \A d \in 1..a : A.scopes[d].id \in Nat \ {0}
        /\ DOMAIN A.scopes = 1..a /\ A.counter \in Nat
    BY <1>1, <1>8, StackFacts
  <2>2. /\ a >= 1 /\ \A d \in 1..a : A.scopes[d].id <= A.counter
        /\ \A d, e \in 1..a : d < e => A.scopes[d].id < A.scopes[e].id
    BY <1>8 DEF WellFormed
  <2> HIDE DEF a
  <2>3. a \in 1..a
    BY <2>1, <2>2
  <2>4. QED
    BY <2>1, <2>2, <2>3
<1>10. a \in 1..a
  <2> HIDE DEF a
  <2>1. QED
    BY <1>9
<1>11. CASE IsNop(op)
  <2>1. A.variables[v].scope_id = 0 /\ A.variables[v].var = TypeOf(p, v)
    <3>1. A.variables[v] = [var |-> TypeOf(p, v), scope_id |-> 0]
      BY <1>3, <1>7, <1>11, Zenon
    <3>2. QED
      BY <3>1
  <2>2. IsNop(p[DefinerOf(p, v)].operation)
    BY <1>5, <1>11
  <2>3. \A d \in 1..a : A.scopes[d].id # 0
    BY <1>9
  <2>4. 0 <= A.counter
    BY <1>9
  <2>5. QED
    BY <2>1, <2>2, <2>3, <2>4 DEF TextVariable
<1>12. CASE ~IsNop(op)
  <2> DEFINE s == A.scopes[a].id
  <2>1. A.variables[v].scope_id = s /\ A.variables[v].var = TypeOf(p, v)
    <3>1. A.variables[v] = [var |-> TypeOf(p, v), scope_id |-> s]
      BY <1>3, <1>7, <1>9, <1>12, Zenon
    <3> HIDE DEF s
    <3>2. QED
      BY <3>1
  <2>2. ~IsNop(p[DefinerOf(p, v)].operation)
    BY <1>5, <1>12
  <2>3. s # 0 /\ s <= A.counter /\ s \in ActiveIds(A)
    BY <1>9, <1>10 DEF ActiveIds
  <2>4. HomeOf(p, v) = A.scopes[a].begin
    <3>1. IsInner(p, v) <=> v > m + Len(outs)
      BY <1>5 DEF IsInner
    <3>2. CASE IsBlockBegin(op)
      <4>1. Len(outs) = 0
        BY <3>2, BlockOutputs
      <4>2. IsInner(p, v)
        <5> HIDE DEF m, op, outs
        <5>1. n \in 1..Defines(op) /\ v = m + n
          BY DEF m, op
        <5>2. v > m + Len(outs)
          BY <1>2, <4>1, <5>1
        <5>3. QED
          BY <3>1, <5>2
      <4>3. HomeOf(p, v) = k
        BY <1>5, <4>2 DEF HomeOf
      <4>4. A.scopes[a].begin = k
        <5>1. ScopeLeft(b, A, op) \/ ScopeEntered(b, A, op, k) \/ ScopesKept(b, A, op)
          BY <1>1, AppendedScopes
        <5>2. a = Len(b.scopes) + 1 /\ A.scopes[Len(b.scopes) + 1].begin = k
          BY <3>2, <5>1 DEF ScopeLeft, ScopeEntered, ScopesKept
        <5> HIDE DEF a
        <5>3. QED
          BY <5>2
      <4>5. QED
        BY <4>3, <4>4
    <3>3. CASE ~IsBlockBegin(op)
      <4>1. Len(ins) = 0
        BY <1>12, <3>3, BlockOutputs
      <4>2. ~IsInner(p, v)
        <5> HIDE DEF m, op, outs, ins
        <5>1. n \in 1..Defines(op) /\ v = m + n
          BY DEF m, op
        <5>2. ~(v > m + Len(outs))
          BY <1>2, <4>1, <5>1
        <5>3. QED
          BY <3>1, <5>2
      <4>3. HomeOf(p, v) = Enclosing(p, k)
        BY <1>5, <3>3, <4>2 DEF HomeOf
      <4>4. QED
        BY <1>1, <1>8, <1>9, <4>3, EnclosingIs
    <3>4. QED
      BY <3>2, <3>3
  <2>5. ASSUME NEW d \in 1..a, s = A.scopes[d].id PROVE d = a
    <3>1. d < a \/ d = a
      <4> HIDE DEF a
      <4>1. QED
        BY <1>9
    <3> HIDE DEF a
    <3>2. A.scopes[d].id \in Nat /\ (d < a => A.scopes[d].id < s)
      BY <1>9
    <3>3. ~(d < a)
      BY <2>5, <3>2
    <3>4. QED
      BY <3>1, <3>3
  <2>6. QED
    BY <2>1, <2>2, <2>3, <2>4, <2>5 DEF TextVariable
<1>13. QED
  BY <1>11, <1>12

\* The builder is the one the text of the first k instructions describes.
Reads(b, p, k) == WellFormed(b, k) /\ TextScopes(b, p, k) /\ TextVariables(b, p, k)

LEMMA ReadsKept ==
  ASSUME NEW p \in Seq(Instruction), NEW k \in 1..Len(p),
         NEW b, Reads(b, p, k - 1), Appendable(b, p, k)
  PROVE  Reads(Appended(b, p, k), p, k)
<1> DEFINE A  == Appended(b, p, k)
           m  == Len(b.variables)
           op == p[k].operation
<1>1. k \in Nat \ {0} /\ op \in Operation /\ k - 1 \in Nat /\ k - 1 + 1 = k
  BY ProgramFacts
<1>2. WellFormed(b, k - 1) /\ TextScopes(b, p, k - 1) /\ TextVariables(b, p, k - 1)
  BY DEF Reads
<1>3. m = DefinedBefore(p, k) /\ \A v \in 1..m : TextVariable(b, p, k - 1, v)
  BY <1>1, <1>2 DEF TextVariables
<1> HIDE DEF A
<1>4. WellFormed(A, k) /\ TextScopes(A, p, k)
  BY <1>1, <1>2, AppendedWellFormed, TextScopesKept DEF A
<1>5. VariablesAdded(b, A, op)
  BY <1>1, <1>2, AppendedVariables DEF A
<1>6. Len(A.variables) = m + Defines(op)
  BY <1>5 DEF VariablesAdded
<1>7. DefinedBefore(p, k + 1) = m + Defines(op)
  BY <1>3, DefinedSteps
<1>8. ASSUME NEW v \in 1..m PROVE TextVariable(A, p, k, v)
  BY <1>1, <1>2, <1>3, OldVariableKept DEF A
<1>9. ASSUME NEW n \in 1..Defines(op) PROVE TextVariable(A, p, k, m + n)
  BY <1>2, <1>3, NewVariable DEF A
<1>10. m \in Nat /\ Defines(op) \in Nat
  BY <1>1, <1>2, StackFacts, DefinesIsNatural
<1>11. ASSUME NEW v \in 1..(m + Defines(op)) PROVE TextVariable(A, p, k, v)
  <2> HIDE DEF m, op
  <2>1. CASE v <= m
    <3>1. v \in 1..m
      BY <1>10, <2>1
    <3>2. QED
      BY <1>8, <3>1
  <2>2. CASE ~(v <= m)
    <3>1. v - m \in 1..Defines(op) /\ m + (v - m) = v
      BY <1>10, <2>2
    <3>2. TextVariable(A, p, k, m + (v - m))
      BY <1>9, <3>1
    <3>3. QED
      BY <3>1, <3>2
  <2>3. QED
    BY <2>1, <2>2
<1>12. TextVariables(A, p, k)
  BY <1>6, <1>7, <1>11 DEF TextVariables
<1>13. QED
  BY <1>4, <1>12 DEF Reads, A

\* The builder sees a variable where the text makes it visible.
LEMMA SeesVisible ==
  ASSUME NEW p \in Seq(Instruction), NEW k \in 1..Len(p), NEW b, Reads(b, p, k - 1), NEW v \in Nat
  PROVE  /\ VisibleTo(b, v) <=> Visible(p, v, k)
         /\ VisibleTo(b, v) => b.variables[v].var = TypeOf(p, v)
<1> DEFINE m == Len(b.variables)
           n == Len(b.scopes)
           s == b.variables[v].scope_id
           h == HomeOf(p, v)
<1>1. k \in Nat \ {0} /\ k - 1 \in Nat /\ k - 1 + 1 = k
  BY ProgramFacts
<1>2. WellFormed(b, k - 1) /\ TextScopes(b, p, k - 1) /\ TextVariables(b, p, k - 1)
  BY DEF Reads
<1>3. m = DefinedBefore(p, k) /\ \A w \in 1..m : TextVariable(b, p, k - 1, w)
  BY <1>1, <1>2 DEF TextVariables
<1>4. DOMAIN b.variables = 1..m /\ DOMAIN b.scopes = 1..n /\ n \in Nat
  BY <1>1, <1>2, StackFacts
<1>5. VisibleTo(b, v) <=> v \in 1..m /\ s \in ActiveIds(b)
  BY <1>4 DEF VisibleTo
<1>6. Visible(p, v, k) <=> /\ v \in 1..m
                           /\ ~IsNop(p[DefinerOf(p, v)].operation)
                           /\ h # 0 => StillOpen(p, h, k - 1)
  BY <1>3 DEF Visible
<1>7. CASE v \in 1..m
  <2>1. /\ b.variables[v].var = TypeOf(p, v)
        /\ s = 0 <=> IsNop(p[DefinerOf(p, v)].operation)
        /\ \A d \in 1..n : s = b.scopes[d].id => h = b.scopes[d].begin
        /\ s \notin ActiveIds(b) \cup {0} => h \in 1..(k - 1) /\ ~StillOpen(p, h, k - 1)
    BY <1>3, <1>7 DEF TextVariable
  <2>2. ASSUME s \in ActiveIds(b)
        PROVE  s # 0 /\ (h # 0 => StillOpen(p, h, k - 1))
    <3>1. PICK d \in 1..n : s = b.scopes[d].id
      BY <1>4, <2>2 DEF ActiveIds
    <3>2. s # 0
      BY <1>1, <1>2, <3>1, StackFacts
    <3>3. h = b.scopes[d].begin
      BY <2>1, <3>1
    <3>4. ASSUME h # 0 PROVE StillOpen(p, h, k - 1)
      <4>1. b.scopes[1].begin = 0
        BY <1>2 DEF WellFormed
      <4>2. d # 1
        BY <3>3, <3>4, <4>1
      <4>3. d \in 2..n
        <5> HIDE DEF n
        <5>1. QED
          BY <1>4, <4>2
      <4>4. QED
        BY <1>2, <3>3, <4>3 DEF TextScopes
    <3>5. QED
      BY <3>2, <3>4
  <2>3. ASSUME s # 0, h # 0 => StillOpen(p, h, k - 1) PROVE s \in ActiveIds(b)
    <3>1. h \in 1..(k - 1) => h # 0
      BY <1>1
    <3>2. QED
      BY <2>1, <2>3, <3>1
  <2>4. QED
    BY <1>5, <1>6, <1>7, <2>1, <2>2, <2>3
<1>8. CASE v \notin 1..m
  BY <1>5, <1>6, <1>8
<1>9. QED
  BY <1>7, <1>8

\* And accepts an instruction where the text makes it valid (builder.rs:121-170).
LEMMA AppendsValid ==
  ASSUME NEW p \in Seq(Instruction), NEW k \in 1..Len(p), NEW b, Reads(b, p, k - 1)
  PROVE  Appendable(b, p, k) <=> ValidInstruction(p, k, NumRoles, NumConnections)
<1> DEFINE op == p[k].operation
           in == p[k].inputs
<1>1. /\ k - 1 \in Nat /\ in \in Seq(Nat)
      /\ \A j \in DOMAIN in : in[j] \in Nat
  BY ProgramFacts, LenProperties, ElementOfSeq
<1>2. ASSUME NEW j \in DOMAIN in
      PROVE  (VisibleTo(b, in[j]) /\ b.variables[in[j]].var = InputVariables(op)[j])
               <=> (Visible(p, in[j], k) /\ TypeOf(p, in[j]) = InputVariables(op)[j])
  <2>1. in[j] \in Nat
    BY <1>1
  <2>2. /\ VisibleTo(b, in[j]) <=> Visible(p, in[j], k)
        /\ VisibleTo(b, in[j]) => b.variables[in[j]].var = TypeOf(p, in[j])
    BY <2>1, SeesVisible
  <2>3. QED
    BY <2>2
<1>3. Enclosing(p, k - 1) = Last(b.scopes).begin
  BY <1>1, EnclosingIs DEF Reads
<1>4. (\A j \in DOMAIN in : VisibleTo(b, in[j]) /\ b.variables[in[j]].var = InputVariables(op)[j])
        <=> (\A j \in DOMAIN in : Visible(p, in[j], k) /\ TypeOf(p, in[j]) = InputVariables(op)[j])
  BY <1>2
<1>5. QED
  BY <1>3, <1>4, Zenon DEF Appendable, ValidInstruction

\* The new builder reads the empty text.
LEMMA NewBuilderReads ==
  ASSUME NEW p \in Seq(Instruction)
  PROVE  Reads(NewBuilder, p, 0)
<1>1. NewBuilder.scopes = <<[begin |-> 0, id |-> 1]>> /\ NewBuilder.counter = 1
      /\ NewBuilder.variables = << >> /\ NewBuilder.accepted = TRUE
  BY DEF NewBuilder
<1>2. [begin |-> 0, id |-> 1] \in OpenScope
  BY DEF OpenScope
<1>3. /\ Len(NewBuilder.scopes) = 1 /\ NewBuilder.scopes[1] = [begin |-> 0, id |-> 1]
      /\ NewBuilder.scopes \in Seq(OpenScope)
  BY <1>1, <1>2
<1>4. << >> \in Seq(ScopedVariable) /\ Len(NewBuilder.variables) = 0
  BY <1>1
<1>5. NewBuilder \in Builder
  BY <1>1, <1>3, <1>4 DEF NewBuilder, Builder
<1>6. WellFormed(NewBuilder, 0)
  <2>1. 1..1 = {1} /\ \A d \in 1..1 : d = 1
    OBVIOUS
  <2>2. /\ NewBuilder.scopes[1].begin = 0 /\ NewBuilder.scopes[1].id = 1
    BY <1>3
  <2>3. QED
    BY <1>1, <1>3, <1>5, <2>1, <2>2 DEF WellFormed
<1>7. TextScopes(NewBuilder, p, 0)
  <2>1. Depth(p, 0) = 0
    BY DepthSteps
  <2>2. 2..1 = {} /\ 1..0 = {}
    OBVIOUS
  <2>3. QED
    BY <1>3, <2>1, <2>2 DEF TextScopes
<1>8. TextVariables(NewBuilder, p, 0)
  <2>1. DefinedBefore(p, 0 + 1) = 0
    BY DefinedSteps
  <2>2. 1..0 = {}
    OBVIOUS
  <2>3. QED
    BY <1>4, <2>1, <2>2 DEF TextVariables
<1>9. QED
  BY <1>6, <1>7, <1>8 DEF Reads

\* The builder after the first k instructions of p has accepted them exactly when the text makes
\* each of them valid, and is then the builder the text describes.
Replayed(p, k) ==
  /\ Builders(p)[k].accepted <=> \A j \in 1..k : ValidInstruction(p, j, NumRoles, NumConnections)
  /\ Builders(p)[k].accepted => Reads(Builders(p)[k], p, k)

LEMMA ReplayedAlways ==
  ASSUME NEW p \in Seq(Instruction), NEW k \in 0..Len(p)
  PROVE  Replayed(p, k)
<1> DEFINE S == {j \in Nat : j <= Len(p) => Replayed(p, j)}
           B(j) == Builders(p)[j]
<1>1. Len(p) \in Nat
  BY ProgramFacts
<1>2. Replays(Builders(p), p, Len(p))
  BY <1>1, BuildersReplay
<1>3. B(0) = NewBuilder
  BY <1>1, <1>2 DEF Replays
<1>4. 0 \in S
  <2>1. Reads(NewBuilder, p, 0) /\ NewBuilder.accepted
    BY NewBuilderReads DEF NewBuilder
  <2>2. 1..0 = {}
    OBVIOUS
  <2>3. QED
    BY <1>3, <2>1, <2>2 DEF Replayed
<1>5. ASSUME NEW i \in Nat, i \in S PROVE i + 1 \in S
  <2> SUFFICES ASSUME i + 1 <= Len(p) PROVE Replayed(p, i + 1)
    OBVIOUS
  <2> DEFINE j == i + 1
             V(x) == ValidInstruction(p, x, NumRoles, NumConnections)
  <2>1. j \in 1..Len(p) /\ j - 1 = i /\ 1..j = 1..i \cup {j} /\ i <= Len(p) /\ j \in 0..Len(p)
        /\ j # 0
    BY <1>1
  <2>2. Replayed(p, i)
    BY <1>5, <2>1
  <2> HIDE DEF j
  <2>3. B(j) = Stepped(B(i), p, j)
    BY <1>2, <2>1 DEF Replays
  <2>4. CASE ~B(i).accepted
    <3>1. B(j) = B(i)
      BY <2>3, <2>4 DEF Stepped
    <3>2. QED
      BY <2>1, <2>2, <2>4, <3>1 DEF Replayed, j
  <2>5. CASE B(i).accepted
    <3>1. Reads(B(i), p, j - 1)
      BY <2>1, <2>2, <2>5 DEF Replayed
    <3>2. Appendable(B(i), p, j) <=> V(j)
      BY <2>1, <3>1, AppendsValid
    <3>3. B(i) \in Builder
      BY <3>1 DEF Reads, WellFormed
    <3>4. \A x \in 1..i : V(x)
      BY <2>2, <2>5 DEF Replayed
    <3>5. CASE Appendable(B(i), p, j)
      <4>1. B(j) = Appended(B(i), p, j)
        BY <2>3, <2>5, <3>5 DEF Stepped
      <4>2. Reads(B(j), p, j)
        BY <2>1, <3>1, <3>5, <4>1, ReadsKept
      <4>3. B(j).accepted
        <5>1. Appended(B(i), p, j).accepted = B(i).accepted
          BY <3>3 DEF Appended, Builder
        <5>2. QED
          BY <2>5, <4>1, <5>1
      <4>4. \A x \in 1..j : V(x)
        BY <2>1, <3>2, <3>4, <3>5
      <4>5. QED
        BY <4>2, <4>3, <4>4 DEF Replayed, j
    <3>6. CASE ~Appendable(B(i), p, j)
      <4>1. B(j) = [B(i) EXCEPT !.accepted = FALSE]
        BY <2>3, <2>5, <3>6 DEF Stepped
      <4>2. ~B(j).accepted
        <5>1. [B(i) EXCEPT !.accepted = FALSE].accepted = FALSE
          BY <3>3 DEF Builder
        <5>2. QED
          BY <4>1, <5>1
      <4>3. ~V(j) /\ j \in 1..j
        BY <2>1, <3>2, <3>6
      <4>4. QED
        BY <4>2, <4>3 DEF Replayed, j
    <3>7. QED
      BY <3>5, <3>6
  <2>6. QED
    BY <2>4, <2>5 DEF j
<1> HIDE DEF S
<1>6. k \in S /\ k <= Len(p)
  BY <1>1, <1>4, <1>5, Induction
<1>7. QED
  BY <1>6 DEF S

\* Validation by replaying a program accepts exactly the programs whose text is valid: every
\* instruction valid where it stands and every block closed (builder.rs:59-72 and 261-273; "Every
\* program that leaves ProgramBuilder::finalize is statically valid").
THEOREM ValidatesExactlyValid ==
  ASSUME NEW p \in Seq(Instruction)
  PROVE  Validates(p) <=> ValidProgram(p, NumRoles, NumConnections)
<1> DEFINE b == FromPrefix(p)
<1>1. Len(p) \in Nat /\ DOMAIN p = 1..Len(p) /\ Len(p) \in 0..Len(p)
  BY ProgramFacts
<1>2. /\ b.accepted <=> ValidPrefix(p, NumRoles, NumConnections)
      /\ b.accepted => Reads(b, p, Len(p))
  BY <1>1, ReplayedAlways DEF Replayed, FromPrefix, ValidPrefix
<1>3. Validates(p) <=> b.accepted /\ Last(b.scopes).begin = 0
  BY DEF Validates
<1> HIDE DEF b
<1>4. ASSUME b.accepted PROVE Last(b.scopes).begin = 0 <=> Depth(p, Len(p)) = 0
  <2>1. WellFormed(b, Len(p)) /\ TextScopes(b, p, Len(p))
    BY <1>2, <1>4 DEF Reads
  <2>2. Last(b.scopes).begin = 0 <=> Len(b.scopes) = 1
    BY <1>1, <2>1, StackFacts
  <2>3. Len(b.scopes) \in Nat /\ Depth(p, Len(p)) = Len(b.scopes) - 1
    BY <1>1, <2>1, StackFacts DEF TextScopes
  <2>4. QED
    BY <2>2, <2>3
<1>5. QED
  BY <1>2, <1>3, <1>4 DEF ValidProgram

\* A step of the replay looks at the instructions up to the k-th only.
LEMMA SteppedAgree ==
  ASSUME NEW p, NEW q, NEW k \in Nat \ {0}, NEW b, b.accepted => WellFormed(b, k - 1),
         \A j \in 1..k : p[j] = q[j]
  PROVE  Stepped(b, p, k) = Stepped(b, q, k)
<1>1. k \in 1..k /\ p[k] = q[k] /\ k - 1 \in Nat
  OBVIOUS
<1>2. Appended(b, p, k) = Appended(b, q, k)
  BY <1>1 DEF Appended
<1>3. ASSUME b.accepted PROVE Appendable(b, p, k) <=> Appendable(b, q, k)
  <2> DEFINE t == Last(b.scopes).begin
  <2>1. t \in Nat /\ t <= k - 1
    <3> DEFINE n == Len(b.scopes)
    <3>1. WellFormed(b, k - 1)
      BY <1>3
    <3>2. n \in Nat /\ n >= 1 /\ Last(b.scopes) = b.scopes[n]
      BY <1>1, <3>1, StackFacts DEF WellFormed
    <3>3. n \in 1..n
      <4> HIDE DEF n
      <4>1. QED
        BY <3>2
    <3>4. b.scopes[n].begin \in Nat /\ b.scopes[n].begin <= k - 1
      BY <1>1, <3>1, <3>3, StackFacts DEF WellFormed
    <3>5. QED
      BY <3>2, <3>4
  <2> HIDE DEF t
  <2>2. t # 0 => p[t] = q[t]
    <3>1. t # 0 => t \in 1..k
      BY <2>1
    <3>2. QED
      BY <3>1
  <2>3. QED
    BY <1>1, <2>2 DEF Appendable, t
<1>4. QED
  BY <1>2, <1>3 DEF Stepped

\* The builders of a program are those of the longer ones it begins.
LEMMA BuildersAgree ==
  ASSUME NEW p \in Seq(Instruction), NEW q \in Seq(Instruction), Len(p) <= Len(q),
         \A j \in 1..Len(p) : p[j] = q[j], NEW k \in 0..Len(p)
  PROVE  Builders(p)[k] = Builders(q)[k]
<1> DEFINE S == {j \in Nat : j <= Len(p) => Builders(p)[j] = Builders(q)[j]}
<1>1. Len(p) \in Nat /\ Len(q) \in Nat
  BY ProgramFacts
<1>2. Replays(Builders(p), p, Len(p)) /\ Replays(Builders(q), q, Len(q))
  BY <1>1, BuildersReplay
<1>3. 0 \in S
  BY <1>1, <1>2 DEF Replays
<1>4. ASSUME NEW i \in Nat, i \in S PROVE i + 1 \in S
  <2> SUFFICES ASSUME i + 1 <= Len(p) PROVE Builders(p)[i + 1] = Builders(q)[i + 1]
    OBVIOUS
  <2> DEFINE j == i + 1
  <2>1. /\ j \in Nat \ {0} /\ j - 1 = i /\ i <= Len(p) /\ j \in 0..Len(p) /\ j \in 0..Len(q)
        /\ i \in 0..Len(p) /\ 1..j \subseteq 1..Len(p)
    BY <1>1
  <2>2. Builders(p)[i] = Builders(q)[i]
    BY <1>4, <2>1
  <2> HIDE DEF j
  <2>3. /\ Builders(p)[j] = Stepped(Builders(p)[j - 1], p, j)
        /\ Builders(q)[j] = Stepped(Builders(q)[j - 1], q, j)
    BY <1>2, <2>1 DEF Replays
  <2>4. Builders(p)[i].accepted => WellFormed(Builders(p)[i], j - 1)
    BY <2>1, ReplayedAlways DEF Replayed, Reads
  <2>5. Stepped(Builders(p)[i], p, j) = Stepped(Builders(p)[i], q, j)
    BY <2>1, <2>4, SteppedAgree
  <2>6. QED
    BY <2>1, <2>2, <2>3, <2>5 DEF j
<1> HIDE DEF S
<1>5. k \in S /\ k <= Len(p)
  BY <1>1, <1>3, <1>4, Induction
<1>6. QED
  BY <1>5 DEF S
=============================================================================
