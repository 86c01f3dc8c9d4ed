-------------------------- MODULE FuzzStagesProofs --------------------------
(***************************************************************************)
(* Proofs about the stages of a fuzzing client, for any inputs, coverage   *)
(* map, number of runs and length of the queue.                            *)
(*                                                                         *)
(* FlagsInv says how the flag, the timeout and the stage go together, from *)
(* which follows what may be filed.  QueueInv is NoTimeoutLost, inductive  *)
(* with FlagsInv, since an input leaves the stage's copy only in a run     *)
(* that is not captured.  CoverInv counts: the indices covered are those   *)
(* the history holds, and a check begins only when there are some.         *)
(***************************************************************************)
EXTENDS FuzzStages, FiniteSetTheorems, SequenceTheorems, TLAPS

\* How the stage, the flag and the timeout go together.
FlagsInv ==
  /\ pc = "verifying" => ~ignore_hangs /\ timeout = "multiple" /\ capture = FALSE
  /\ pc \notin {"verifying", "ended"} => capture = TRUE /\ timeout = "original"
  /\ ignore_hangs => triggered = FALSE

Covered == {x \in Indices : history_map[x] # Untouched}

\* What is covered, and when a check may run.
CoverInv ==
  /\ CoveredInSync /\ DisabledAreUnstable
  /\ corpus # {} => num_covered # 0
  /\ pc \notin {"load", "ended"} => corpus # {}
  /\ pc \notin {"measure", "ended"} => check = NoCheck
  /\ pc = "measure" => check.filled # 0

FuzzInv == FuzzTypeOK /\ FlagsInv /\ HangsAreVerified /\ NoTimeoutLost /\ CoverInv

-----------------------------------------------------------------------------
(* The evaluation of an input. *)

\* The feedbacks, and what is filed.
LEMMA EvaluateFiles ==
  ASSUME FuzzTypeOK, FlagsInv, HangsAreVerified, NEW input \in Inputs, Evaluate(input),
         pc # "ended", UNCHANGED <<ignore_hangs, capture, timeout, pc>>
  PROVE  /\ triggered' \in BOOLEAN /\ (ignore_hangs => triggered' = FALSE)
         /\ finding' = << >> \/ finding'[1] \in Findings
         /\ HangsAreVerified'
<1>1. PICK m \in Maps, exit_kind \in ExitKinds :
        /\ IsInteresting(input, exit_kind)
        /\ \/ /\ IsObjective(exit_kind)
              /\ \E output \in Outputs :
                   finding' = <<[exit_kind |-> exit_kind, timeout |-> timeout,
                                 output |-> output, filed |-> FiledUnder(output)]>>
           \/ UNCHANGED finding
  BY DEF Evaluate
<1>2. exit_kind \in {"ok", "crash", "timeout"}
  BY DEF ExitKinds
<1>3. /\ triggered' \in BOOLEAN
      /\ ignore_hangs => triggered' = FALSE
      /\ exit_kind = "timeout" /\ triggered' => timeout = "multiple"
  BY <1>1, <1>2 DEF IsInteresting, FlagsInv, FuzzTypeOK
<1>4. CASE UNCHANGED finding
  BY <1>3, <1>4 DEF HangsAreVerified, IgnoredHangsAreNotFiled, FuzzTypeOK
<1>5. ASSUME NEW output \in Outputs, IsObjective(exit_kind),
             finding' = <<[exit_kind |-> exit_kind, timeout |-> timeout, output |-> output,
                           filed |-> FiledUnder(output)]>>
      PROVE  finding'[1] \in Findings /\ HangsAreVerified'
  <2>1. finding'[1] = [exit_kind |-> exit_kind, timeout |-> timeout, output |-> output,
                       filed |-> FiledUnder(output)]
    BY <1>5
  <2>2. exit_kind = "crash" \/ (triggered' /\ ~ignore_hangs)
    BY <1>5 DEF IsObjective
  <2>3. exit_kind # "ok"
    BY <1>1, <1>2, <2>2 DEF IsInteresting
  <2>4. CauseOf(output) \in {"none", "other", "oracle", "infrastructure"}
    BY <1>5 DEF CauseOf, Outputs
  <2>5. /\ FiledUnder(output) \in {"none", "other", "oracle", "infrastructure", "timeout"}
        /\ ~triggered' => FiledUnder(output) # "timeout"
    BY <1>3, <2>4 DEF FiledUnder
  <2>6. timeout \in {"original", "multiple"}
    BY DEF FuzzTypeOK
  <2>7. finding'[1] \in Findings
    BY <1>2, <1>5, <2>1, <2>3, <2>5, <2>6 DEF Findings, ExitKinds
  <2>8. /\ finding'[1].exit_kind = exit_kind /\ finding'[1].timeout = timeout
        /\ finding'[1].filed = FiledUnder(output)
    BY <2>1
  <2>9. exit_kind = "timeout" => timeout = "multiple"
    BY <1>3, <2>2
  <2>10. ignore_hangs => exit_kind = "crash" /\ FiledUnder(output) # "timeout"
    BY <1>3, <2>2, <2>5
  <2>11. HangsAreVerified'
    BY <2>8, <2>9, <2>10 DEF HangsAreVerified, IgnoredHangsAreNotFiled
  <2>12. QED
    BY <2>7, <2>11
<1>6. QED
  BY <1>1, <1>3, <1>4, <1>5

\* The queue: an input is owed when its timeout was captured, and then it is queued.
LEMMA EvaluateQueues ==
  ASSUME FuzzTypeOK, NEW input \in Inputs, Evaluate(input)
  PROVE  /\ timeouts_to_verify' \in Seq(Inputs) /\ Len(timeouts_to_verify') <= MaxQueue
         /\ owed' \subseteq Inputs
         /\ ~capture => owed' = owed \ {input}
         /\ owed \subseteq {timeouts_to_verify[n] : n \in DOMAIN timeouts_to_verify} =>
              owed' \subseteq {timeouts_to_verify'[n] : n \in DOMAIN timeouts_to_verify'}
<1>1. PICK exit_kind \in ExitKinds :
        /\ IsInteresting(input, exit_kind)
        /\ owed' = IF exit_kind = "timeout" /\ capture THEN owed \cup {input} ELSE owed \ {input}
  BY DEF Evaluate
<1>2. /\ timeouts_to_verify \in Seq(Inputs) /\ Len(timeouts_to_verify) <= MaxQueue
      /\ owed \subseteq Inputs
  BY DEF FuzzTypeOK
<1>3. CASE exit_kind = "timeout" /\ capture
  <2>1. /\ timeouts_to_verify' = Append(timeouts_to_verify, input)
        /\ Len(timeouts_to_verify) < MaxQueue
    BY <1>1, <1>3 DEF IsInteresting
  <2>2. /\ timeouts_to_verify' \in Seq(Inputs)
        /\ Len(timeouts_to_verify') = Len(timeouts_to_verify) + 1
        /\ \A n \in 1..Len(timeouts_to_verify) : timeouts_to_verify'[n] = timeouts_to_verify[n]
        /\ timeouts_to_verify'[Len(timeouts_to_verify) + 1] = input
    BY <1>2, <2>1, AppendProperties
  <2>3. /\ DOMAIN timeouts_to_verify = 1..Len(timeouts_to_verify)
        /\ DOMAIN timeouts_to_verify' = 1..(Len(timeouts_to_verify) + 1)
        /\ Len(timeouts_to_verify) \in Nat
    BY <1>2, <2>2, LenProperties
  <2>4. Len(timeouts_to_verify') <= MaxQueue
    BY <2>1, <2>2, <2>3, BoundsAssumption
  <2>5. owed' = owed \cup {input}
    BY <1>1, <1>3
  <2>6. ASSUME owed \subseteq {timeouts_to_verify[n] : n \in DOMAIN timeouts_to_verify}
        PROVE  owed' \subseteq {timeouts_to_verify'[n] : n \in DOMAIN timeouts_to_verify'}
    <3>1. input \in {timeouts_to_verify'[n] : n \in DOMAIN timeouts_to_verify'}
      BY <2>2, <2>3
    <3>2. {timeouts_to_verify[n] : n \in DOMAIN timeouts_to_verify}
            \subseteq {timeouts_to_verify'[n] : n \in DOMAIN timeouts_to_verify'}
      BY <2>2, <2>3
    <3>3. QED
      BY <2>5, <2>6, <3>1, <3>2
  <2>7. QED
    BY <1>2, <1>3, <2>2, <2>4, <2>5, <2>6
<1>4. CASE ~(exit_kind = "timeout" /\ capture)
  <2>1. owed' = owed \ {input} /\ UNCHANGED timeouts_to_verify
    BY <1>1, <1>4 DEF IsInteresting
  <2>2. QED
    BY <1>2, <2>1
<1>5. QED
  BY <1>3, <1>4

-----------------------------------------------------------------------------
(* Coverage. *)

\* The higher of two counts.
LEMMA MaxOfTwo ==
  ASSUME NEW a \in Nat, NEW b \in Nat
  PROVE  Max({a, b}) = IF a >= b THEN a ELSE b
<1>1. \E x \in {a, b} : \A y \in {a, b} : x >= y
  OBVIOUS
<1>2. Max({a, b}) \in {a, b} /\ \A y \in {a, b} : Max({a, b}) >= y
  BY <1>1 DEF Max
<1>3. QED
  BY <1>2

\* New indices are counted once.
LEMMA CountGrows ==
  ASSUME NEW old \in SUBSET Indices, NEW new \in SUBSET Indices
  PROVE  /\ Cardinality(old \cup new) = Cardinality(old) + Cardinality(new \ old)
         /\ Cardinality(old) \in Nat /\ Cardinality(new \ old) \in Nat
         /\ Cardinality(old \cup new) \in 0..Cardinality(Indices)
         /\ Cardinality(old) = 0 <=> old = {}
<1>1. IsFiniteSet(Indices)
  BY InputsAssumption
<1>2. IsFiniteSet(old) /\ IsFiniteSet(new \ old)
  BY <1>1, FS_Subset
<1>3. Cardinality(old \cup (new \ old))
        = Cardinality(old) + Cardinality(new \ old) - Cardinality(old \cap (new \ old))
  BY <1>2, FS_Union
<1>4. old \cup (new \ old) = old \cup new /\ old \cap (new \ old) = {}
  OBVIOUS
<1>5. Cardinality(old) \in Nat /\ Cardinality(new \ old) \in Nat
  BY <1>2, FS_CardinalityType
<1>6. old \cup new \in SUBSET Indices
  OBVIOUS
<1>7. /\ Cardinality(old \cup new) <= Cardinality(Indices)
      /\ Cardinality(old \cup new) \in Nat /\ Cardinality(Indices) \in Nat
  BY <1>1, <1>6, FS_Subset, FS_CardinalityType
<1>8. Cardinality(old \cap (new \ old)) = 0
  BY <1>4, FS_EmptySet
<1>9. Cardinality(old \cup new) = Cardinality(old) + Cardinality(new \ old)
  <2>1. Cardinality(old \cup (new \ old)) = Cardinality(old) + Cardinality(new \ old)
    BY <1>3, <1>5, <1>8
  <2>2. Cardinality(old \cup (new \ old)) = Cardinality(old \cup new)
    BY <1>4, Zenon
  <2>3. QED
    BY <2>1, <2>2
<1>10. Cardinality(old) = 0 <=> old = {}
  BY <1>2, FS_EmptySet
<1>11. QED
  BY <1>5, <1>7, <1>9, <1>10

\* The coverage that an evaluation leaves.
LEMMA EvaluateCovers ==
  ASSUME FuzzTypeOK, CoverInv, NEW input \in Inputs, Evaluate(input)
  PROVE  /\ corpus' \subseteq Inputs /\ corpus \subseteq corpus'
         /\ history_map' \in [Indices -> {Untouched, Hit, MaxValue}]
         /\ num_covered' \in 0..Cardinality(Indices)
         /\ CoveredInSync'
         /\ \A x \in Indices : history_map'[x] = MaxValue <=> history_map[x] = MaxValue
         /\ corpus' # {} => num_covered' # 0
<1>1. PICK m \in Maps :
        \/ (\E x \in Indices : m[x] > history_map[x]) /\ AddToCorpus(input, m)
        \/ UNCHANGED client
  BY DEF Evaluate
<1>2. CASE UNCHANGED client
  BY <1>2 DEF client, FuzzTypeOK, CoverInv, CoveredInSync
<1>3. ASSUME NEW y \in Indices, m[y] > history_map[y], AddToCorpus(input, m)
      PROVE  /\ corpus' \subseteq Inputs /\ corpus \subseteq corpus'
             /\ history_map' \in [Indices -> {Untouched, Hit, MaxValue}]
             /\ num_covered' \in 0..Cardinality(Indices)
             /\ CoveredInSync'
             /\ \A x \in Indices : history_map'[x] = MaxValue <=> history_map[x] = MaxValue
             /\ corpus' # {} => num_covered' # 0
  <2> DEFINE new == {x \in Indices : m[x] # Untouched}
  <2>1. /\ history_map \in [Indices -> {0, 1, 2}] /\ m \in [Indices -> {0, 1}]
        /\ corpus \subseteq Inputs /\ num_covered = Cardinality(Covered)
    BY DEF FuzzTypeOK, Maps, Untouched, Hit, MaxValue, CoverInv, CoveredInSync, Covered
  <2>2. /\ corpus' = corpus \cup {input}
        /\ history_map' = [x \in Indices |-> Max({history_map[x], m[x]})]
        /\ num_covered' = num_covered
             + Cardinality({x \in Indices : history_map[x] = Untouched /\ m[x] # Untouched})
    BY <1>3 DEF AddToCorpus
  <2>3. \A x \in Indices : history_map'[x] = IF history_map[x] >= m[x] THEN history_map[x] ELSE m[x]
    <3>1. ASSUME NEW x \in Indices
          PROVE  history_map'[x] = IF history_map[x] >= m[x] THEN history_map[x] ELSE m[x]
      <4>1. history_map[x] \in Nat /\ m[x] \in Nat
        BY <2>1, <3>1
      <4>2. QED
        BY <2>2, <4>1, MaxOfTwo
    <3>2. QED
      BY <3>1
  <2>4. history_map' \in [Indices -> {0, 1, 2}]
    BY <2>1, <2>2, <2>3
  <2>5. \A x \in Indices : history_map'[x] = 2 <=> history_map[x] = 2
    BY <2>1, <2>3
  <2>6. Covered' = Covered \cup new
    BY <2>1, <2>3 DEF Covered, Untouched
  <2>7. {x \in Indices : history_map[x] = Untouched /\ m[x] # Untouched} = new \ Covered
    BY DEF Covered
  <2>8. y \in new \ Covered
    BY <1>3, <2>1 DEF Covered, Untouched
  <2>9. Covered \in SUBSET Indices /\ new \in SUBSET Indices
    BY DEF Covered
  <2> HIDE DEF new
  <2>10. num_covered' = Cardinality(Covered') /\ num_covered' \in 0..Cardinality(Indices)
    <3>1. /\ Cardinality(Covered \cup new) = Cardinality(Covered) + Cardinality(new \ Covered)
          /\ Cardinality(Covered \cup new) \in 0..Cardinality(Indices)
      BY <2>9, CountGrows
    <3>2. num_covered' = Cardinality(Covered) + Cardinality(new \ Covered)
      BY <2>1, <2>2, <2>7
    <3>3. QED
      BY <2>6, <3>1, <3>2
  <2>11. Covered' # {} /\ Covered' \in SUBSET Indices
    BY <2>6, <2>8, <2>9
  <2>12. num_covered' # 0
    BY <2>10, <2>11, CountGrows
  <2>13. QED
    BY <2>1, <2>2, <2>4, <2>5, <2>10, <2>12
       DEF Untouched, Hit, MaxValue, CoveredInSync, Covered
<1>4. QED
  BY <1>1, <1>2, <1>3

-----------------------------------------------------------------------------
(* The invariant. *)

LEMMA NoCheckTyped ==
  NoCheck \in [first : Maps, filled : Nat, iter : Nat, i : Nat, unstable_entries : SUBSET Indices]
  BY DEF NoCheck, Maps, Untouched, Hit

LEMMA FuzzInvInit == Init => FuzzInv
<1> SUFFICES ASSUME Init
             PROVE  FuzzInv
  OBVIOUS
<1>1. Cardinality({}) = 0 /\ Cardinality(Indices) \in Nat
  BY InputsAssumption, FS_EmptySet, FS_CardinalityType
<1>2. current \in Inputs
  BY InputsAssumption DEF Init
<1>3. FuzzTypeOK
  <2>1. history_map \in [Indices -> {Untouched, Hit, MaxValue}]
    BY DEF Init
  <2>2. num_covered \in 0..Cardinality(Indices)
    BY <1>1 DEF Init
  <2>3. /\ timeouts_to_verify \in Seq(Inputs) /\ Len(timeouts_to_verify) <= MaxQueue
        /\ timeouts \in Seq(Inputs)
    BY EmptySeq, BoundsAssumption DEF Init
  <2>4. evaluated \in 0..MaxEvaluations
    BY BoundsAssumption DEF Init
  <2>5. QED
    BY <1>2, <2>1, <2>2, <2>3, <2>4, NoCheckTyped DEF Init, FuzzTypeOK
<1>4. CoveredInSync
  <2>1. {x \in Indices : history_map[x] # Untouched} = {}
    BY DEF Init
  <2>2. QED
    BY <1>1, <2>1 DEF Init, CoveredInSync
<1>5. CoverInv
  BY <1>4 DEF Init, CoverInv, DisabledAreUnstable, NoCheck, Untouched, MaxValue
<1>6. FlagsInv /\ HangsAreVerified /\ NoTimeoutLost
  BY DEF Init, FlagsInv, HangsAreVerified, IgnoredHangsAreNotFiled, NoTimeoutLost
<1>7. QED
  BY <1>3, <1>5, <1>6 DEF FuzzInv

\* An input evaluated while timeouts are captured.
LEMMA CapturedKeeps ==
  ASSUME FuzzInv, pc \in {"load", "mutate"}, NEW input \in Inputs, Evaluate(input),
         evaluated < MaxEvaluations, evaluated' = evaluated + 1,
         UNCHANGED <<ignore_hangs, capture, timeout, timeouts, seen, unstable, pc, current, check>>
  PROVE  FuzzInv'
<1> USE DEF FuzzInv
<1>1. /\ triggered' \in BOOLEAN /\ (ignore_hangs => triggered' = FALSE)
      /\ finding' = << >> \/ finding'[1] \in Findings
      /\ HangsAreVerified'
  BY EvaluateFiles
<1>2. /\ timeouts_to_verify' \in Seq(Inputs) /\ Len(timeouts_to_verify') <= MaxQueue
      /\ owed' \subseteq Inputs
      /\ owed \subseteq {timeouts_to_verify[n] : n \in DOMAIN timeouts_to_verify} =>
           owed' \subseteq {timeouts_to_verify'[n] : n \in DOMAIN timeouts_to_verify'}
  BY EvaluateQueues
<1>3. /\ corpus' \subseteq Inputs /\ corpus \subseteq corpus'
      /\ history_map' \in [Indices -> {Untouched, Hit, MaxValue}]
      /\ num_covered' \in 0..Cardinality(Indices)
      /\ CoveredInSync'
      /\ \A x \in Indices : history_map'[x] = MaxValue <=> history_map[x] = MaxValue
      /\ corpus' # {} => num_covered' # 0
  BY EvaluateCovers
<1>4. evaluated' \in 0..MaxEvaluations
  BY BoundsAssumption DEF FuzzTypeOK
<1>5. FuzzTypeOK'
  BY <1>1, <1>2, <1>3, <1>4 DEF FuzzTypeOK
<1>6. FlagsInv'
  BY <1>1 DEF FlagsInv
<1>7. NoTimeoutLost'
  BY <1>2 DEF NoTimeoutLost, ToLookAt
<1>8. {x \in Indices : history_map'[x] = MaxValue} = {x \in Indices : history_map[x] = MaxValue}
  BY <1>3
<1>9. DisabledAreUnstable'
  BY <1>8 DEF CoverInv, DisabledAreUnstable
<1>10. CoverInv'
  BY <1>3, <1>9 DEF CoverInv
<1>11. QED
  BY <1>1, <1>5, <1>6, <1>7, <1>10

\* An input looked at again.
LEMMA VerifiedKeeps ==
  ASSUME FuzzInv, VerifyNext
  PROVE  FuzzInv'
<1> USE DEF FuzzInv
<1>0. /\ pc = "verifying" /\ timeouts # << >> /\ timeouts' = Tail(timeouts)
      /\ Evaluate(Head(timeouts)) /\ capture = FALSE
      /\ UNCHANGED <<ignore_hangs, capture, timeout, seen, unstable, pc, current, check, evaluated>>
  BY DEF VerifyNext, FlagsInv
<1>1. /\ Head(timeouts) \in Inputs /\ timeouts' \in Seq(Inputs)
      /\ timeouts \in Seq(Inputs) /\ Len(timeouts') = Len(timeouts) - 1
      /\ \A n \in 1..Len(timeouts') : timeouts'[n] = timeouts[n + 1]
  BY <1>0, HeadTailProperties DEF FuzzTypeOK
<1>2. /\ triggered' \in BOOLEAN /\ (ignore_hangs => triggered' = FALSE)
      /\ finding' = << >> \/ finding'[1] \in Findings
      /\ HangsAreVerified'
  BY <1>0, <1>1, EvaluateFiles
<1>3. /\ timeouts_to_verify' \in Seq(Inputs) /\ Len(timeouts_to_verify') <= MaxQueue
      /\ owed' \subseteq Inputs /\ owed' = owed \ {Head(timeouts)}
  BY <1>0, <1>1, EvaluateQueues
<1>4. /\ corpus' \subseteq Inputs /\ corpus \subseteq corpus'
      /\ history_map' \in [Indices -> {Untouched, Hit, MaxValue}]
      /\ num_covered' \in 0..Cardinality(Indices)
      /\ CoveredInSync'
      /\ \A x \in Indices : history_map'[x] = MaxValue <=> history_map[x] = MaxValue
      /\ corpus' # {} => num_covered' # 0
  BY <1>0, <1>1, EvaluateCovers
<1>5. FuzzTypeOK'
  BY <1>0, <1>1, <1>2, <1>3, <1>4 DEF FuzzTypeOK
<1>6. FlagsInv'
  BY <1>0, <1>2 DEF FlagsInv
<1>7. NoTimeoutLost'
  <2>1. owed \subseteq {timeouts[n] : n \in DOMAIN timeouts}
    BY <1>0 DEF NoTimeoutLost, ToLookAt
  <2>2. /\ DOMAIN timeouts = 1..Len(timeouts) /\ DOMAIN timeouts' = 1..Len(timeouts')
        /\ Len(timeouts) \in Nat /\ Len(timeouts') \in Nat
    BY <1>1, LenProperties
  <2>3. Head(timeouts) = timeouts[1]
    BY <1>0, <1>1
  <2>4. ASSUME NEW o \in owed'
        PROVE  o \in {timeouts'[n] : n \in DOMAIN timeouts'}
    <3>1. PICK n \in 1..Len(timeouts) : o = timeouts[n]
      BY <1>3, <2>1, <2>2, <2>4
    <3>2. n # 1
      BY <1>3, <2>3, <2>4, <3>1
    <3>3. n - 1 \in 1..Len(timeouts') /\ (n - 1) + 1 = n
      BY <1>1, <2>2, <3>1, <3>2
    <3>4. timeouts'[n - 1] = o
      BY <1>1, <3>1, <3>3
    <3>5. QED
      BY <2>2, <3>3, <3>4
  <2>5. QED
    BY <1>0, <2>4 DEF NoTimeoutLost, ToLookAt
<1>8. {x \in Indices : history_map'[x] = MaxValue} = {x \in Indices : history_map[x] = MaxValue}
  BY <1>4
<1>9. DisabledAreUnstable'
  BY <1>0, <1>8 DEF CoverInv, DisabledAreUnstable
<1>10. CoverInv'
  BY <1>0, <1>4, <1>9 DEF CoverInv
<1>11. QED
  BY <1>2, <1>5, <1>6, <1>7, <1>10

\* What one more run changes of a check.
LEMMA CheckTyped ==
  ASSUME NEW c \in [first : Maps, filled : Nat, iter : Nat, i : Nat,
                    unstable_entries : SUBSET Indices],
         NEW found \in SUBSET Indices, NEW iter \in Nat
  PROVE  LET after == [c EXCEPT !.i = c.i + 1, !.unstable_entries = found, !.iter = iter]
         IN /\ after \in [first : Maps, filled : Nat, iter : Nat, i : Nat,
                          unstable_entries : SUBSET Indices]
            /\ after.filled = c.filled /\ after.unstable_entries = found
<1>1. c.i + 1 \in Nat
  OBVIOUS
<1>2. QED
  BY <1>1

\* One run of a stability check.
LEMMA MeasureKeeps ==
  ASSUME FuzzInv, Measure
  PROVE  FuzzInv'
<1> USE DEF FuzzInv
<1>1. PICK m \in Maps, exit_kind \in ExitKinds :
        LET flaky == IF exit_kind = "timeout" THEN {}
                     ELSE {x \in Indices : check.first[x] # m[x] /\ history_map[x] # MaxValue}
            found == check.unstable_entries \cup flaky
        IN /\ num_covered' = num_covered + NewlyCovered(flaky)
           /\ history_map' = [x \in Indices |-> IF x \in flaky THEN MaxValue ELSE history_map[x]]
           /\ check' = [check EXCEPT !.i = @ + 1, !.unstable_entries = found,
                                     !.iter = IF exit_kind = "timeout" THEN @
                                              ELSE MoreRuns(@, found)]
  BY DEF Measure
<1> DEFINE flaky == IF exit_kind = "timeout" THEN {}
                    ELSE {x \in Indices : check.first[x] # m[x] /\ history_map[x] # MaxValue}
           found == check.unstable_entries \cup flaky
<1>2. /\ num_covered' = num_covered + NewlyCovered(flaky)
      /\ history_map' = [x \in Indices |-> IF x \in flaky THEN MaxValue ELSE history_map[x]]
      /\ check' = [check EXCEPT !.i = @ + 1, !.unstable_entries = found,
                                !.iter = IF exit_kind = "timeout" THEN @
                                         ELSE MoreRuns(@, found)]
  BY <1>1
<1>3. flaky \in SUBSET Indices
  OBVIOUS
<1> HIDE DEF flaky
<1>4. /\ pc = "measure"
      /\ UNCHANGED <<ignore_hangs, corpus, queues, seen, unstable, pc, current, evaluated>>
  BY DEF Measure
<1>5. /\ check \in [first : Maps, filled : Nat, iter : Nat, i : Nat,
                    unstable_entries : SUBSET Indices]
      /\ history_map \in [Indices -> {0, 1, 2}]
      /\ num_covered = Cardinality(Covered)
      /\ {x \in Indices : history_map[x] = MaxValue} = unstable \cup check.unstable_entries
      /\ check.filled # 0 /\ corpus # {} /\ num_covered # 0
  BY <1>4 DEF FuzzTypeOK, Untouched, Hit, MaxValue, CoverInv, CoveredInSync, Covered,
              DisabledAreUnstable
<1>6. MoreRuns(check.iter, found) \in Nat
  BY <1>5 DEF MoreRuns
<1>7. /\ check' \in [first : Maps, filled : Nat, iter : Nat, i : Nat,
                     unstable_entries : SUBSET Indices]
      /\ check'.filled = check.filled
      /\ check'.unstable_entries = check.unstable_entries \cup flaky
  <2> DEFINE iter == IF exit_kind = "timeout" THEN check.iter ELSE MoreRuns(check.iter, found)
  <2>1. found \in SUBSET Indices /\ found = check.unstable_entries \cup flaky
    BY <1>3, <1>5
  <2>2. iter \in Nat
    BY <1>5, <1>6
  <2>3. check' = [check EXCEPT !.i = check.i + 1, !.unstable_entries = found, !.iter = iter]
    BY <1>2, <1>5
  <2> HIDE DEF found, iter
  <2>4. QED
    BY <1>5, <2>1, <2>2, <2>3, CheckTyped
<1>8. history_map' \in [Indices -> {0, 1, 2}]
  BY <1>2, <1>5 DEF MaxValue
<1>9. Covered' = Covered \cup flaky
  BY <1>2, <1>3, <1>5 DEF Covered, Untouched, MaxValue
<1>10. {x \in flaky : history_map[x] = Untouched} = flaky \ Covered
  BY <1>3 DEF Covered
<1>11. num_covered' = Cardinality(Covered') /\ num_covered' \in 0..Cardinality(Indices)
  <2>1. Covered \in SUBSET Indices
    BY DEF Covered
  <2>2. /\ Cardinality(Covered \cup flaky) = Cardinality(Covered) + Cardinality(flaky \ Covered)
        /\ Cardinality(Covered \cup flaky) \in 0..Cardinality(Indices)
    BY <1>3, <2>1, CountGrows
  <2>3. num_covered' = Cardinality(Covered) + Cardinality(flaky \ Covered)
    BY <1>2, <1>5, <1>10 DEF NewlyCovered
  <2>4. QED
    BY <1>9, <2>2, <2>3
<1>12. num_covered' # 0
  <2>1. Covered \in SUBSET Indices /\ Covered' \in SUBSET Indices /\ Covered # {}
    BY <1>5, FS_EmptySet DEF Covered
  <2>2. Covered' # {}
    BY <1>9, <2>1
  <2>3. QED
    BY <1>11, <2>1, <2>2, CountGrows
<1>13. FuzzTypeOK'
  BY <1>4, <1>7, <1>8, <1>11 DEF FuzzTypeOK, queues, Untouched, Hit, MaxValue
<1>14. {x \in Indices : history_map'[x] = MaxValue}
         = {x \in Indices : history_map[x] = MaxValue} \cup flaky
  BY <1>2, <1>3
<1>15. CoverInv'
  BY <1>4, <1>5, <1>7, <1>11, <1>12, <1>14 DEF CoverInv, CoveredInSync, Covered,
                                              DisabledAreUnstable
<1>16. FlagsInv' /\ HangsAreVerified' /\ NoTimeoutLost'
  BY <1>4 DEF queues, FlagsInv, HangsAreVerified, IgnoredHangsAreNotFiled, NoTimeoutLost, ToLookAt
<1>17. QED
  BY <1>13, <1>15, <1>16

LEMMA FuzzInvNext == FuzzInv /\ [Next]_vars => FuzzInv'
<1> SUFFICES ASSUME FuzzInv, [Next]_vars
             PROVE  FuzzInv'
  OBVIOUS
<1>1. CASE LoadInput \/ MutateAndEvaluate
  BY <1>1, CapturedKeeps DEF LoadInput, MutateAndEvaluate
<1>2. CASE VerifyNext
  BY <1>2, VerifiedKeeps
<1>3. CASE Measure
  BY <1>3, MeasureKeeps
<1> USE DEF FuzzInv
<1>4. CASE LoadDone \/ FuzzOne \/ StabilitySkip \/ MutateDone \/ VerifySkip \/ Fail
  <2>1. /\ UNCHANGED <<ignore_hangs, client, queues, seen, unstable, check>>
        /\ current' \in Inputs /\ evaluated' \in 0..MaxEvaluations
        /\ pc # "verifying" \/ pc' = "ended"
        /\ pc' \in {"next", "stability", "mutate", "verify", "ended"}
        /\ pc # "ended" /\ (pc = "measure" => pc' = "ended")
        /\ pc = "load" /\ pc' # "ended" => corpus # {}
    BY <1>4, BoundsAssumption
       DEF LoadDone, FuzzOne, StabilitySkip, MutateDone, VerifySkip, Fail, FuzzTypeOK
  <2>2. FuzzTypeOK'
    BY <2>1 DEF FuzzTypeOK, client, queues
  <2>3. FlagsInv' /\ HangsAreVerified'
    BY <2>1 DEF FlagsInv, HangsAreVerified, IgnoredHangsAreNotFiled, queues
  <2>4. NoTimeoutLost'
    BY <2>1 DEF NoTimeoutLost, ToLookAt, queues
  <2>5. CoverInv'
    BY <2>1 DEF CoverInv, CoveredInSync, DisabledAreUnstable, client, queues
  <2>6. QED
    BY <2>2, <2>3, <2>4, <2>5
<1>5. CASE StabilityBegin
  <2>1. PICK m \in Maps : check' = FirstRun(m)
    BY <1>5 DEF StabilityBegin
  <2>2. /\ pc = "stability" /\ pc' = "measure"
        /\ UNCHANGED <<ignore_hangs, client, queues, seen, unstable, current, evaluated>>
    BY <1>5 DEF StabilityBegin
  <2>3. num_covered \in Nat
    BY InputsAssumption, FS_CardinalityType DEF FuzzTypeOK
  <2>4. /\ check' \in [first : Maps, filled : Nat, iter : Nat, i : Nat,
                       unstable_entries : SUBSET Indices]
        /\ check'.filled = num_covered /\ check'.unstable_entries = {}
    BY <2>1, <2>3, StageMaxAssumption DEF FirstRun
  <2>5. FuzzTypeOK'
    BY <2>2, <2>4 DEF FuzzTypeOK, client, queues
  <2>6. FlagsInv' /\ HangsAreVerified' /\ NoTimeoutLost'
    BY <2>2 DEF FlagsInv, HangsAreVerified, IgnoredHangsAreNotFiled, NoTimeoutLost, ToLookAt,
                queues
  <2>7. check.unstable_entries = {}
    BY <2>2 DEF CoverInv, NoCheck
  <2>8. CoverInv'
    BY <2>2, <2>4, <2>7 DEF CoverInv, CoveredInSync, DisabledAreUnstable, client
  <2>9. QED
    BY <2>5, <2>6, <2>8
<1>6. CASE StabilityDone
  <2>1. /\ pc = "measure" /\ pc' = "mutate" /\ check' = NoCheck /\ evaluated' = 0
        /\ unstable' = unstable \cup check.unstable_entries
        /\ seen' = seen \cup {current}
        /\ UNCHANGED <<ignore_hangs, client, queues, current>>
    BY <1>6 DEF StabilityDone, Merged
  <2>2. check.unstable_entries \subseteq Indices
    BY DEF FuzzTypeOK
  <2>3. FuzzTypeOK'
    BY <2>1, <2>2, NoCheckTyped, BoundsAssumption DEF FuzzTypeOK, client, queues
  <2>4. FlagsInv' /\ HangsAreVerified' /\ NoTimeoutLost'
    BY <2>1 DEF FlagsInv, HangsAreVerified, IgnoredHangsAreNotFiled, NoTimeoutLost, ToLookAt,
                queues
  <2>5. check'.unstable_entries = {}
    BY <2>1 DEF NoCheck
  <2>6. CoverInv'
    BY <2>1, <2>5 DEF CoverInv, CoveredInSync, DisabledAreUnstable, client
  <2>7. QED
    BY <2>3, <2>4, <2>6
<1>7. CASE VerifyBegin \/ VerifyDone \/ Restart
  <2>1. UNCHANGED <<ignore_hangs, client, finding, owed, unstable, current, check, evaluated>>
    BY <1>7 DEF VerifyBegin, VerifyDone, Restart
  <2>2. FuzzTypeOK' /\ FlagsInv'
    <3>1. CASE VerifyBegin
      <4>1. FuzzTypeOK'
        BY <2>1, <3>1 DEF VerifyBegin, FuzzTypeOK, client
      <4>2. FlagsInv'
        BY <2>1, <3>1 DEF VerifyBegin, FlagsInv
      <4>3. QED
        BY <4>1, <4>2
    <3>2. CASE VerifyDone
      <4>1. timeouts_to_verify' \in Seq(Inputs) /\ Len(timeouts_to_verify') <= MaxQueue
        BY <3>2, EmptySeq, BoundsAssumption DEF VerifyDone
      <4>2. QED
        BY <2>1, <3>2, <4>1 DEF VerifyDone, FuzzTypeOK, FlagsInv, client
    <3>3. CASE Restart
      BY <2>1, <3>3 DEF Restart, FuzzTypeOK, FlagsInv, client
    <3>4. QED
      BY <1>7, <3>1, <3>2, <3>3
  <2>3. HangsAreVerified'
    BY <2>1 DEF HangsAreVerified, IgnoredHangsAreNotFiled
  <2>4. NoTimeoutLost'
    <3>1. CASE VerifyBegin
      BY <2>1, <3>1 DEF VerifyBegin, NoTimeoutLost, ToLookAt
    <3>2. CASE VerifyDone
      <4>1. owed = {}
        BY <3>2 DEF VerifyDone, NoTimeoutLost, ToLookAt
      <4>2. QED
        BY <2>1, <4>1 DEF NoTimeoutLost
    <3>3. CASE Restart
      BY <2>1, <3>3 DEF Restart, NoTimeoutLost, ToLookAt
    <3>4. QED
      BY <1>7, <3>1, <3>2, <3>3
  <2>5. CoverInv'
    BY <1>7, <2>1 DEF VerifyBegin, VerifyDone, Restart, CoverInv, CoveredInSync,
                      DisabledAreUnstable, client
  <2>6. QED
    BY <2>2, <2>3, <2>4, <2>5
<1>8. CASE UNCHANGED vars
  <2>1. FuzzTypeOK' /\ FlagsInv'
    BY <1>8 DEF vars, client, queues, FuzzTypeOK, FlagsInv
  <2>2. HangsAreVerified' /\ NoTimeoutLost'
    BY <1>8 DEF vars, queues, HangsAreVerified, IgnoredHangsAreNotFiled, NoTimeoutLost, ToLookAt
  <2>3. CoverInv'
    BY <1>8 DEF vars, client, queues, CoverInv, CoveredInSync, DisabledAreUnstable
  <2>4. QED
    BY <2>1, <2>2, <2>3
<1>9. QED
  BY <1>1, <1>2, <1>3, <1>4, <1>5, <1>6, <1>7, <1>8 DEF Next

LEMMA FuzzInvHolds == Spec => []FuzzInv
  BY FuzzInvInit, FuzzInvNext, PTL DEF Spec

\* A timeout is filed only after a run with the multiple of the timeout, and none is when hangs
\* are ignored, through every entry, round and restart (verify_timeouts.rs:16-17, options.rs:28).
THEOREM HangsFiledAreVerified == Spec => []HangsAreVerified
<1>1. FuzzInv => HangsAreVerified
  BY DEF FuzzInv
<1>2. QED
  BY <1>1, FuzzInvHolds, PTL

\* An input whose timeout was captured is queued until it has run a second time: emptying the
\* queue the stage took a copy of loses none (verify_timeouts.rs:90, 102-103).
THEOREM NoTimeoutIsLost == Spec => []NoTimeoutLost
<1>1. FuzzInv => NoTimeoutLost
  BY DEF FuzzInv
<1>2. QED
  BY <1>1, FuzzInvHolds, PTL

\* The count of covered indices, the unstable indices and the filled count stay in step with the
\* history, whichever of LibAFL and the stability check reaches an index first
\* (stability_check.rs:194-230).
THEOREM CoverageStaysInStep == Spec => []CoverageInStep
<1>1. FuzzInv => CoverageInStep
  BY DEF FuzzInv, CoverInv, CoverageInStep, FilledCountNotZero
<1>2. QED
  BY <1>1, FuzzInvHolds, PTL
=============================================================================
