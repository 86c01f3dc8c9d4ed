----------------------------- MODULE Minimizers -----------------------------
(***************************************************************************)
(* The minimizers of the IR (crates/stratamoto-ir/src/minimizers) and the  *)
(* stages that drive them over a corpus entry                              *)
(* (crates/stratamoto-libafl/src/stages/mod.rs, instance.rs): cutting,     *)
(* removing blocks and nopping, round after round for as long as one of    *)
(* them still makes the entry smaller.                                     *)
(*                                                                         *)
(* Running a candidate is one step with three outcomes: it still shows     *)
(* what the entry is kept for, it does not, or it could not be run.        *)
(* Indices start at 1 where the source's start at 0.                       *)
(***************************************************************************)
EXTENDS StaticValidity, Replay

CONSTANTS
  Entries,                 \* the programs a corpus entry may hold
  MaxConsecutiveFailures   \* max_consecutive_failures of every stage

\* What is in the corpus was generated or mutated by builders, or loaded and validated.
ASSUME EntriesAssumption == Entries \subseteq Seq(Instruction) /\ \A p \in Entries : Validates(p)
ASSUME MaxConsecutiveFailuresAssumption == MaxConsecutiveFailures \in Nat

VARIABLES
  entry,                 \* the program of the current testcase
  scheduled,             \* whether the testcase has been scheduled before
  keep_minimizing,       \* successful stages of this round
  stage,                 \* the stage that runs, or that runs next
  pc,                    \* "while", "begin", "loop", "attempt", or "done" with the entry
  consecutive_failures,  \* per stage, over all the entries it has seen
  minimizer,             \* the stage's minimizer
  current_ir,            \* the last candidate the stage kept
  success,               \* whether it kept any
  executed,              \* history: the candidates run for this entry
  gave_up                \* history: a stage stopped before its minimizer was exhausted

vars == <<entry, scheduled, keep_minimizing, stage, pc, consecutive_failures, minimizer,
          current_ir, success, executed, gave_up>>

Stages == <<"cutting", "block", "nopping">>

-----------------------------------------------------------------------------
(* Programs: is_statically_valid, without, remove_nops, nop. *)

\* A builder rebuilt from the program accepts every instruction and finalizes.
IsStaticallyValid(p) == Validates(p)

\* Mutant: the variables a block defines inside itself are not counted.
RenumberedByOutputs(p, remove, v) ==
  1 + Cardinality({w \in 1..(v - 1) : DefinerOf(p, w) \notin remove /\ ~IsInner(p, w)})

\* The index a variable has once the instructions in remove are gone; that of a dropped
\* variable is whatever takes its place.
Renumbered(p, remove, v) ==
  1 + Cardinality({w \in 1..(v - 1) : DefinerOf(p, w) \notin remove})

Without(p, remove) ==
  LET kept    == DOMAIN p \ remove
      from(n) == CHOOSE k \in kept : Cardinality({j \in kept : j <= k}) = n
  IN [n \in 1..Cardinality(kept) |->
        [p[from(n)] EXCEPT !.inputs = [j \in DOMAIN @ |-> Renumbered(p, remove, @[j])]]]

RemoveNops(p) == Without(p, {k \in DOMAIN p : IsNop(p[k].operation)})

IsNoppable(i) == ~IsBlockBegin(i.operation) /\ ~IsBlockEnd(i.operation)

Nopped(i) ==
  [inputs |-> << >>,
   operation |-> Nop(Len(OutputVariables(i.operation)), Len(InnerOutputVariables(i.operation)))]

-----------------------------------------------------------------------------
(* The minimizers: the program so far, the candidate last proposed, and    *)
(* where to go on, an index for block and nopping and the length of the    *)
(* next cut for cutting.                                                   *)

New(s, p) ==
  [program |-> p, candidate |-> << >>, next |-> 1,
   length |-> IF s = "cutting" THEN Len(p) \div 2 ELSE 0]

Cut(p, n) == Without(p, (Len(p) - n + 1)..Len(p))

\* matching_end: where the block begun at b ends, 0 when it does not.
MatchingEnd(p, b) ==
  LET ends == {e \in b..Len(p) : IsBlockEnd(p[e].operation) /\ Depth(p, e) = Depth(p, b - 1)}
  IN IF ends = {} THEN 0 ELSE Min(ends)

BlockRemoved(p, b) == Without(p, b..MatchingEnd(p, b))

Removable(p, b) ==
  /\ IsBlockBegin(p[b].operation)
  /\ MatchingEnd(p, b) # 0
  /\ IsStaticallyValid(BlockRemoved(p, b))

NoppedAt(p, k) == [p EXCEPT ![k] = Nopped(@)]

\* Mutant: nopping takes a nop for an instruction to remove.
CanBeNoppedAgain(p, k) == IsNoppable(p[k]) /\ IsStaticallyValid(NoppedAt(p, k))

CanBeNopped(p, k) ==
  /\ IsNoppable(p[k])
  /\ ~IsNop(p[k].operation)
  /\ IsStaticallyValid(NoppedAt(p, k))

\* The lengths a cut goes through when every one is refused.
Halvings(n) == {m \in 1..n : \E i \in 0..n : m = n \div 2^i}

\* The positions next() stops at: where it has a candidate that is statically valid.
Positions(s, m) ==
  CASE s = "cutting" -> {n \in Halvings(m.length) : IsStaticallyValid(Cut(m.program, n))}
    [] s = "block"   -> {b \in m.next..Len(m.program) : Removable(m.program, b)}
    [] s = "nopping" -> {k \in m.next..Len(m.program) : CanBeNopped(m.program, k)}

\* The minimizer after a next() that returned a candidate.
Proposed(s, m) ==
  CASE s = "cutting" -> LET n == Max(Positions(s, m))
                        IN [m EXCEPT !.length = n, !.candidate = <<Cut(m.program, n)>>]
    [] s = "block"   -> LET b == Min(Positions(s, m))
                        IN [m EXCEPT !.next = b, !.candidate = <<BlockRemoved(m.program, b)>>]
    [] s = "nopping" -> LET k == Min(Positions(s, m))
                        IN [m EXCEPT !.next = k, !.candidate = <<NoppedAt(m.program, k)>>]

\* Mutant: a cut that was kept leaves the length of the next one alone.
SucceededSameLength(s, m) ==
  [m EXCEPT !.program = m.candidate[1], !.candidate = << >>,
            !.next = IF s = "block" THEN 1 ELSE @]

\* success(): the candidate becomes the program.
Succeeded(s, m) ==
  [m EXCEPT !.program = m.candidate[1], !.candidate = << >>,
            !.next = IF s = "block" THEN 1 ELSE @,
            !.length = IF s = "cutting" THEN Min({@, Len(m.candidate[1]) \div 2}) ELSE @]

\* failure(): the candidate is dropped and the search goes on.
Failed(s, m) ==
  [m EXCEPT !.candidate = << >>,
            !.next = IF s = "cutting" THEN @ ELSE @ + 1,
            !.length = IF s = "cutting" THEN @ \div 2 ELSE @]

-----------------------------------------------------------------------------
(* The stages of instance.rs: a WhileStage around the three minimizers. *)

\* The fuzzer takes up an entry; the first stage makes sure of one round at least.
FirstRound(p, before) ==
  /\ entry' = p
  /\ scheduled' = before
  /\ keep_minimizing' = 1
  /\ stage' = 1
  /\ pc' = "while"
  /\ minimizer' = New("cutting", p)
  /\ current_ir' = p
  /\ success' = FALSE
  /\ executed' = {}
  /\ gave_up' = FALSE

Init ==
  /\ entry \in Entries
  /\ scheduled \in BOOLEAN
  /\ keep_minimizing = 1
  /\ stage = 1
  /\ pc = "while"
  /\ consecutive_failures = [s \in DOMAIN Stages |-> 0]
  /\ minimizer = New("cutting", entry)
  /\ current_ir = entry
  /\ success = FALSE
  /\ executed = {}
  /\ gave_up = FALSE

\* The entry done with, the fuzzer schedules another one, or one it has had before.
TakeEntry ==
  /\ pc = "done"
  /\ \E p \in Entries, before \in BOOLEAN : FirstRound(p, before)
  /\ UNCHANGED consecutive_failures

\* The condition of the WhileStage holds: the counter is reset and the stages run.
Round ==
  /\ pc = "while"
  /\ keep_minimizing > 0
  /\ keep_minimizing' = 0
  /\ stage' = 1
  /\ pc' = "begin"
  /\ UNCHANGED <<entry, scheduled, consecutive_failures, minimizer, current_ir, success,
                 executed, gave_up>>

RoundsEnd ==
  /\ pc = "while"
  /\ keep_minimizing = 0
  /\ pc' = "done"
  /\ UNCHANGED <<entry, scheduled, keep_minimizing, stage, consecutive_failures, minimizer,
                 current_ir, success, executed, gave_up>>

\* What follows a stage: the next one, or the condition of the WhileStage.
Advanced ==
  IF stage < Len(Stages) THEN pc' = "begin" /\ stage' = stage + 1
                         ELSE pc' = "while" /\ stage' = stage

-----------------------------------------------------------------------------
(* IrMinimizerStage::perform. *)

\* An entry that was scheduled before has been minimized already.
PerformSkips ==
  /\ pc = "begin"
  /\ scheduled
  /\ Advanced
  /\ UNCHANGED <<entry, scheduled, keep_minimizing, consecutive_failures, minimizer,
                 current_ir, success, executed, gave_up>>

PerformBegins ==
  /\ pc = "begin"
  /\ ~scheduled
  /\ pc' = "loop"
  /\ current_ir' = entry
  /\ success' = FALSE
  /\ minimizer' = New(Stages[stage], entry)
  /\ UNCHANGED <<entry, scheduled, keep_minimizing, stage, consecutive_failures, executed,
                 gave_up>>

Candidates == Positions(Stages[stage], minimizer)

\* next() returns a candidate and the stage goes on to run it.
Propose ==
  /\ pc = "loop"
  /\ Candidates # {}
  /\ consecutive_failures[stage] <= MaxConsecutiveFailures
  /\ minimizer' = Proposed(Stages[stage], minimizer)
  /\ pc' = "attempt"
  /\ UNCHANGED <<entry, scheduled, keep_minimizing, stage, consecutive_failures, current_ir,
                 success, executed, gave_up>>

Attempt == minimizer.candidate[1]

\* Mutant: what the stage will write is not updated when a candidate is kept.
RetainedElsewhere ==
  /\ pc = "attempt"
  /\ IsStaticallyValid(Attempt)
  /\ pc' = "loop"
  /\ success' = TRUE
  /\ minimizer' = Succeeded(Stages[stage], minimizer)
  /\ consecutive_failures' = [consecutive_failures EXCEPT ![stage] = 0]
  /\ executed' = executed \cup {Attempt}
  /\ UNCHANGED <<entry, scheduled, keep_minimizing, stage, current_ir, gave_up>>

\* The candidate shows all the novelties, or still fails: it is kept.
Retained ==
  /\ pc = "attempt"
  /\ IsStaticallyValid(Attempt)
  /\ pc' = "loop"
  /\ success' = TRUE
  /\ current_ir' = Attempt
  /\ minimizer' = Succeeded(Stages[stage], minimizer)
  /\ consecutive_failures' = [consecutive_failures EXCEPT ![stage] = 0]
  /\ executed' = executed \cup {Attempt}
  /\ UNCHANGED <<entry, scheduled, keep_minimizing, stage, gave_up>>

\* It does not, or is not even statically valid and is not run.
Lost ==
  /\ pc = "attempt"
  /\ pc' = "loop"
  /\ minimizer' = Failed(Stages[stage], minimizer)
  /\ consecutive_failures' = [consecutive_failures EXCEPT ![stage] = @ + 1]
  /\ executed' = IF IsStaticallyValid(Attempt) THEN executed \cup {Attempt} ELSE executed
  /\ UNCHANGED <<entry, scheduled, keep_minimizing, stage, current_ir, success, gave_up>>

\* execute_input returned an error: the minimizer hears of neither outcome.
ExecutionErrs ==
  /\ pc = "attempt"
  /\ IsStaticallyValid(Attempt)
  /\ pc' = "loop"
  /\ UNCHANGED <<entry, scheduled, keep_minimizing, stage, consecutive_failures, minimizer,
                 current_ir, success, executed, gave_up>>

\* Mutant: a stage that made the entry smaller does not ask for another round.
PerformEndsQuietly ==
  /\ entry' = IF success THEN RemoveNops(current_ir) ELSE entry
  /\ UNCHANGED keep_minimizing

\* The end of perform: a smaller program replaces the entry, and another round is due.
PerformEnds ==
  /\ entry' = IF success THEN RemoveNops(current_ir) ELSE entry
  /\ keep_minimizing' = IF success THEN keep_minimizing + 1 ELSE keep_minimizing

\* next() returned None.
Exhausted ==
  /\ pc = "loop"
  /\ Candidates = {}
  /\ PerformEnds
  /\ Advanced
  /\ UNCHANGED <<scheduled, consecutive_failures, minimizer, current_ir, success, executed,
                 gave_up>>

\* The stage has failed too often in a row, on this entry and those before it.
GiveUp ==
  /\ pc = "loop"
  /\ Candidates # {}
  /\ consecutive_failures[stage] > MaxConsecutiveFailures
  /\ gave_up' = TRUE
  /\ PerformEnds
  /\ Advanced
  /\ UNCHANGED <<scheduled, consecutive_failures, minimizer, current_ir, success, executed>>

-----------------------------------------------------------------------------

Perform ==
  \/ PerformSkips \/ PerformBegins \/ Propose \/ Retained \/ Lost \/ ExecutionErrs
  \/ Exhausted \/ GiveUp

Next == TakeEntry \/ Round \/ RoundsEnd \/ Perform

Spec == Init /\ [][Next]_vars

\* The stages run in one thread that never waits for anything but the executor.
FairSpec == Spec /\ WF_vars(Round \/ RoundsEnd \/ Perform)

-----------------------------------------------------------------------------
(* Properties. *)

\* Where the instruction at k is among those of p that are not nops.
Rank(p, k) == Cardinality({j \in 1..k : ~IsNop(p[j].operation)})

\* What a program does, whatever its variables are numbered: its operations in order, each input
\* traced to the instruction that defines it, nops left out.
Meaning(p) ==
  LET source(v) == <<Rank(p, DefinerOf(p, v)), v - DefinedBefore(p, DefinerOf(p, v))>>
  IN {<<Rank(p, k), p[k].operation, [j \in DOMAIN p[k].inputs |-> source(p[k].inputs[j])]>> :
        k \in {k \in DOMAIN p : ~IsNop(p[k].operation)}}

\* The program the stage will write is the one its minimizer goes on from, and one that was run
\* and kept (stages/mod.rs:126-149).
KeptInHand ==
  /\ pc \in {"loop", "attempt"} => current_ir = minimizer.program
  /\ success => current_ir \in executed

\* A corpus entry stays a statically valid program however the stages have reduced it, the
\* nops gone and the inputs renumbered: remove_nops runs after the last is_statically_valid
\* (stages/mod.rs:147), so nothing checks what is written.  The entry a stage writes does what
\* the last candidate that was run and kept does, and that candidate is the one the minimizer
\* goes on from (stages/mod.rs:126-149, lib.rs:60-108).
WrittenIsWhatWasKept ==
  /\ IsStaticallyValid(entry)
  /\ KeptInHand
  /\ ~scheduled /\ pc \in {"begin", "while", "done"} /\ success =>
       Meaning(entry) = Meaning(current_ir)

\* The cut never asks for more instructions than the program has, so `total - self.length`
\* (cutting.rs:47) does not underflow after a kept candidate made the program shorter.
CutFits == minimizer.length <= Len(minimizer.program)

\* What the minimizers could still take out of p in one step.
Reductions(p) ==
  {BlockRemoved(p, b) : b \in {b \in DOMAIN p : Removable(p, b)}}
  \cup {NoppedAt(p, k) : k \in {k \in DOMAIN p : CanBeNopped(p, k)}}

\* The rounds go on until there is nothing left to try: when they end with no stage having
\* given up, every block and every instruction that could be taken out of the entry as it
\* is now was taken out and run (instance.rs:378-405).
MinimalWhenDone ==
  pc = "done" /\ ~scheduled /\ ~gave_up => Reductions(entry) \subseteq executed

\* The fuzzer gets past minimizing an entry (instance.rs:378-405): no run of kept candidates,
\* no sequence of rounds goes on for ever.  The one exception is an executor that never stops
\* failing: the loop has no bound on that, and proposes the same candidate again
\* (stages/mod.rs:120-122).
MinimizingEnds ==
  <>[][~ExecutionErrs]_vars => ((pc = "while") ~> (pc = "done"))

\* The comment at instance.rs:374, "Always try minimizing for at least one pass": an entry
\* scheduled for the first time that has something to take out has a candidate run.
TriedAtLeastOnce ==
  pc = "done" /\ ~scheduled /\ Reductions(entry) # {} => executed # {}
=============================================================================
