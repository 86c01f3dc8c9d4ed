----------------------------- MODULE FuzzStages -----------------------------
(***************************************************************************)
(* What a fuzzing client does with its corpus, but for minimizing it       *)
(* (crates/stratamoto-libafl/src/instance.rs): loading it, then for every  *)
(* entry the stability check, the mutational stage, and the second look at *)
(* inputs that timed out (stages/stability_check.rs,                       *)
(* stages/verify_timeouts.rs), and the filing of findings (feedbacks.rs).  *)
(* The stages share the coverage history, the executor's timeout, the      *)
(* queue of timeouts and the flag that tells whether to fill it.           *)
(*                                                                         *)
(* A run of the target is one step: any map, any exit kind.  Taking up the *)
(* entries, the mutational stage and the evaluation of an input are        *)
(* LibAFL's.                                                               *)
(***************************************************************************)
EXTENDS Integers, Sequences, FiniteSets, FiniteSetsExt

CONSTANTS
  Inputs,          \* the inputs
  Indices,         \* the indices of the coverage map
  StageMax,        \* stage_max: the runs of a stability check
  CalStageMax,     \* CAL_STAGE_MAX: what more runs are added up to
  MaxEvaluations,  \* bound on the inputs one mutational stage evaluates
  MaxQueue         \* bound on the queue of timeouts

ASSUME StageMaxAssumption == StageMax \in Nat /\ CalStageMax \in Nat
ASSUME InputsAssumption   == Inputs # {} /\ IsFiniteSet(Indices)
ASSUME BoundsAssumption   == MaxEvaluations \in Nat /\ MaxQueue \in Nat

VARIABLES
  ignore_hangs,        \* options.ignore_hangs
  corpus,              \* the inputs in the corpus
  history_map,         \* MapFeedbackMetadata: the highest count seen at every index,
  num_covered,         \*   and num_covered_map_indexes
  timeouts_to_verify,  \* TimeoutsToVerify
  capture,             \* the flag the capture feedback and the verify stage share
  triggered,           \* CaptureTimeoutFeedback.triggered
  timeout,             \* the executor's: "original" or "multiple"
  seen,                \* StabilityCheckStage.seen
  unstable,            \* UnstableEntriesMetadata.unstable_entries
  pc,                  \* the stage, "load" before the first, "next" between entries, or "ended"
  current,             \* the corpus entry
  check,               \* the locals of the stability check
  timeouts,            \* the verify stage's copy of the queue
  evaluated,           \* inputs evaluated in the load or the mutational stage under way
  finding,             \* history: the last finding stored: how its run ended, under which
                       \*   timeout, what it reported, and the prefix it is filed under
  owed                 \* history: inputs whose timeout was captured and not looked at again

client == <<history_map, num_covered, corpus>>
queues == <<timeouts_to_verify, capture, triggered, timeout, timeouts, finding, owed>>
vars   == <<ignore_hangs, client, queues, seen, unstable, pc, current, check, evaluated>>

\* A map entry is untouched, hit, or, in the history, flagged as flaky.
Untouched == 0
Hit       == 1
MaxValue  == 2
Maps      == [Indices -> {Untouched, Hit}]
ExitKinds == {"ok", "crash", "timeout"}

NoCheck == [first |-> [x \in Indices |-> Untouched], filled |-> 0, iter |-> 0, i |-> 0,
            unstable_entries |-> {}]

\* What is printed by a run that may be stored: nothing of note, an oracle's report, one whose
\* name is not an oracle's, and the report of a run that could not be completed.
Outputs == {"quiet", "oracle", "nameless", "infrastructure"}

\* A state from scratch.
Init ==
  /\ ignore_hangs \in BOOLEAN
  /\ corpus = {} /\ current = CHOOSE input \in Inputs : TRUE
  /\ history_map = [x \in Indices |-> Untouched] /\ num_covered = 0
  /\ timeouts_to_verify = << >> /\ timeouts = << >>
  /\ capture = TRUE /\ triggered = FALSE /\ timeout = "original"
  /\ seen = {} /\ unstable = {}
  /\ pc = "load"
  /\ check = NoCheck
  /\ evaluated = 0
  /\ finding = << >>
  /\ owed = {}

-----------------------------------------------------------------------------
(* The stability check. *)

\* fuzz_one takes up an entry of the corpus.
FuzzOne ==
  /\ pc = "next"
  /\ current' \in corpus
  /\ pc' = "stability"
  /\ UNCHANGED <<ignore_hangs, client, queues, seen, unstable, check, evaluated>>

\* An entry already checked, or one that cannot be loaded.
StabilitySkip ==
  /\ pc = "stability"
  /\ pc' = "mutate"
  /\ evaluated' = 0
  /\ UNCHANGED <<ignore_hangs, client, queues, seen, unstable, current, check>>

\* Mutant: the filled entries are those of this one run.
FirstRunFilledOnce(m) ==
  [first |-> m, filled |-> Cardinality({x \in Indices : m[x] # Untouched}), iter |-> StageMax,
   i |-> 1, unstable_entries |-> {}]

\* The first run's map is what the others are compared with.
FirstRun(m) ==
  [first |-> m, filled |-> num_covered, iter |-> StageMax, i |-> 1, unstable_entries |-> {}]

StabilityBegin ==
  /\ pc = "stability"
  /\ current \notin seen
  /\ \E m \in Maps : check' = FirstRun(m)
  /\ pc' = "measure"
  /\ UNCHANGED <<ignore_hangs, client, queues, seen, unstable, current, evaluated>>

\* Mutant: an index flagged before it was ever covered is not counted as covered.
NewlyCoveredNone(flaky) == 0

\* Mutant: an index covered before is counted once more.
NewlyCoveredAll(flaky) == Cardinality(flaky)

\* The flaky indices that nothing covered before.
NewlyCovered(flaky) == Cardinality({x \in flaky : history_map[x] = Untouched})

MoreRuns(iter, unstable_entries) ==
  IF unstable_entries # {} /\ iter < CalStageMax THEN iter + 2 ELSE iter

\* One more run: the indices where it differs from the first are flagged, unless it timed out.
Measure ==
  /\ pc = "measure" /\ check.i < check.iter
  /\ \E m \in Maps, exit_kind \in ExitKinds :
       LET flaky == IF exit_kind = "timeout" THEN {}
                    ELSE {x \in Indices : check.first[x] # m[x] /\ history_map[x] # MaxValue}
           found == check.unstable_entries \cup flaky
       IN /\ num_covered' = num_covered + NewlyCovered(flaky)
          /\ history_map' = [x \in Indices |-> IF x \in flaky THEN MaxValue ELSE history_map[x]]
          /\ check' = [check EXCEPT !.i = @ + 1, !.unstable_entries = found,
                                    !.iter = IF exit_kind = "timeout" THEN @
                                             ELSE MoreRuns(@, found)]
  /\ UNCHANGED <<ignore_hangs, corpus, queues, seen, unstable, pc, current, evaluated>>

\* Mutant: the entries found now take the place of those found before.
MergedLast(old, found) == found

\* What is found now joins what other entries showed.
Merged(old, found) == old \cup found

\* The entries found go to the metadata, and the ratio is reported after an assertion that the
\* filled count is not 0, which is FilledCountNotZero.
StabilityDone ==
  /\ pc = "measure" /\ check.i >= check.iter
  /\ unstable' = IF check.unstable_entries = {} THEN unstable
                 ELSE Merged(unstable, check.unstable_entries)
  /\ seen' = seen \cup {current}
  /\ check' = NoCheck
  /\ evaluated' = 0
  /\ pc' = "mutate"
  /\ UNCHANGED <<ignore_hangs, client, queues, current>>

-----------------------------------------------------------------------------
(* The evaluation of an input, and its feedbacks. *)

\* The capture feedback is asked only when the crash feedback did not settle the objective.
IsInteresting(input, exit_kind) ==
  IF exit_kind = "crash" THEN UNCHANGED <<triggered, timeouts_to_verify>>
  ELSE IF capture /\ exit_kind = "timeout"
    THEN /\ triggered' = FALSE
         /\ Len(timeouts_to_verify) < MaxQueue
         /\ timeouts_to_verify' = Append(timeouts_to_verify, input)
    ELSE /\ triggered' = (exit_kind = "timeout")
         /\ UNCHANGED timeouts_to_verify

\* The objective, apart from the coverage new among the findings, which it also asks for.
IsObjective(exit_kind) == exit_kind = "crash" \/ (triggered' /\ ~ignore_hangs)

\* cause_of: the oracle's name stands for itself.
CauseOf(output) ==
  CASE output = "quiet"          -> "none"
    [] output = "nameless"       -> "other"
    [] output = "oracle"         -> "oracle"
    [] output = "infrastructure" -> "infrastructure"

\* append_metadata of both feedbacks, which a combined feedback calls in their order whatever
\* is_interesting of either said: the later prefix is the one that stays.
FiledUnder(output) == IF triggered' THEN "timeout" ELSE CauseOf(output)

\* The input joins the corpus and the history takes in what its run covered.
AddToCorpus(input, m) ==
  /\ corpus' = corpus \cup {input}
  /\ history_map' = [x \in Indices |-> Max({history_map[x], m[x]})]
  /\ num_covered' =
       num_covered + Cardinality({x \in Indices : history_map[x] = Untouched /\ m[x] # Untouched})

\* The input is run; what covers something new joins the corpus, and a finding may or may not.
Evaluate(input) ==
  \E m \in Maps, exit_kind \in ExitKinds :
    /\ IsInteresting(input, exit_kind)
    /\ owed' = IF exit_kind = "timeout" /\ capture THEN owed \cup {input} ELSE owed \ {input}
    /\ \/ /\ IsObjective(exit_kind)
          /\ \E output \in Outputs :
               finding' = <<[exit_kind |-> exit_kind, timeout |-> timeout, output |-> output,
                             filed |-> FiledUnder(output)]>>
       \/ UNCHANGED finding
    /\ LET novel == \E x \in Indices : m[x] > history_map[x]
       IN \/ novel /\ AddToCorpus(input, m)
          \/ (~novel \/ IsObjective(exit_kind)) /\ UNCHANGED client

\* fuzz: an input of the input directory is evaluated.
LoadInput ==
  /\ pc = "load" /\ evaluated < MaxEvaluations
  /\ evaluated' = evaluated + 1
  /\ \E input \in Inputs : Evaluate(input)
  /\ UNCHANGED <<ignore_hangs, capture, timeout, timeouts, seen, unstable, pc, current, check>>

\* fuzz: the corpus is loaded; without an entry the client ends, which is Fail.
LoadDone ==
  /\ pc = "load" /\ corpus # {}
  /\ pc' = "next"
  /\ UNCHANGED <<ignore_hangs, client, queues, seen, unstable, current, check, evaluated>>

\* The mutational stage evaluates an input made from the entry.
MutateAndEvaluate ==
  /\ pc = "mutate" /\ evaluated < MaxEvaluations
  /\ evaluated' = evaluated + 1
  /\ \E input \in Inputs : Evaluate(input)
  /\ UNCHANGED <<ignore_hangs, capture, timeout, timeouts, seen, unstable, pc, current, check>>

MutateDone ==
  /\ pc = "mutate"
  /\ pc' = "verify"
  /\ UNCHANGED <<ignore_hangs, client, queues, seen, unstable, current, check, evaluated>>

-----------------------------------------------------------------------------
(* The second look at the timeouts. *)

VerifySkip ==
  /\ pc = "verify"
  /\ ignore_hangs \/ timeouts_to_verify = << >>
  /\ pc' = "next"
  /\ UNCHANGED <<ignore_hangs, client, queues, seen, unstable, current, check, evaluated>>

\* Mutant: timeouts are still captured while they are verified.
VerifyBeginCapturing ==
  /\ pc = "verify" /\ ~ignore_hangs /\ timeouts_to_verify # << >>
  /\ timeouts' = timeouts_to_verify
  /\ timeout' = "multiple"
  /\ pc' = "verifying"
  /\ UNCHANGED <<ignore_hangs, client, timeouts_to_verify, capture, triggered, finding, owed,
                 seen, unstable, current, check, evaluated>>

\* Mutant: hangs that are ignored are verified too.
VerifyBeginAlways ==
  /\ pc = "verify" /\ timeouts_to_verify # << >>
  /\ timeouts' = timeouts_to_verify
  /\ timeout' = "multiple"
  /\ capture' = FALSE
  /\ pc' = "verifying"
  /\ UNCHANGED <<ignore_hangs, client, timeouts_to_verify, triggered, finding, owed, seen,
                 unstable, current, check, evaluated>>

VerifyBegin ==
  /\ pc = "verify" /\ ~ignore_hangs /\ timeouts_to_verify # << >>
  /\ timeouts' = timeouts_to_verify
  /\ timeout' = "multiple"
  /\ capture' = FALSE
  /\ pc' = "verifying"
  /\ UNCHANGED <<ignore_hangs, client, timeouts_to_verify, triggered, finding, owed, seen,
                 unstable, current, check, evaluated>>

VerifyNext ==
  /\ pc = "verifying" /\ timeouts # << >>
  /\ timeouts' = Tail(timeouts)
  /\ Evaluate(Head(timeouts))
  /\ UNCHANGED <<ignore_hangs, capture, timeout, seen, unstable, pc, current, check, evaluated>>

\* Mutant: capturing is not turned on again.
VerifyDoneNotCapturing ==
  /\ pc = "verifying" /\ timeouts = << >>
  /\ timeout' = "original"
  /\ timeouts_to_verify' = << >>
  /\ pc' = "next"
  /\ UNCHANGED <<ignore_hangs, client, capture, triggered, timeouts, finding, owed, seen,
                 unstable, current, check, evaluated>>

\* Mutant: the queue is left as it was.
VerifyDoneQueueLeft ==
  /\ pc = "verifying" /\ timeouts = << >>
  /\ timeout' = "original"
  /\ capture' = TRUE
  /\ pc' = "next"
  /\ UNCHANGED <<ignore_hangs, client, timeouts_to_verify, triggered, timeouts, finding, owed,
                 seen, unstable, current, check, evaluated>>

VerifyDone ==
  /\ pc = "verifying" /\ timeouts = << >>
  /\ timeout' = "original"
  /\ capture' = TRUE
  /\ timeouts_to_verify' = << >>
  /\ pc' = "next"
  /\ UNCHANGED <<ignore_hangs, client, triggered, timeouts, finding, owed, seen, unstable,
                 current, check, evaluated>>

-----------------------------------------------------------------------------

\* An error of the executor or of the manager leaves the stage, and the client ends.
Fail ==
  /\ pc \in {"load", "stability", "measure", "mutate", "verifying"}
  /\ pc' = "ended"
  /\ UNCHANGED <<ignore_hangs, client, queues, seen, unstable, current, check, evaluated>>

\* After its iterations a client stores its state and starts over from it.
Restart ==
  /\ pc = "next"
  /\ capture' = TRUE /\ triggered' = FALSE /\ timeout' = "original"
  /\ seen' = {}
  /\ UNCHANGED <<ignore_hangs, client, timeouts_to_verify, timeouts, finding, owed, unstable, pc,
                 current, check, evaluated>>

Next ==
  \/ LoadInput \/ LoadDone
  \/ FuzzOne \/ StabilitySkip \/ StabilityBegin \/ Measure \/ StabilityDone
  \/ MutateAndEvaluate \/ MutateDone
  \/ VerifySkip \/ VerifyBegin \/ VerifyNext \/ VerifyDone
  \/ Fail \/ Restart

Spec == Init /\ [][Next]_vars

\* The stages of an entry run one after the other, and every run of the target ends, by the
\* executor's timeout if not before.
FairSpec == Spec /\ WF_vars(Next) /\ WF_vars(FuzzOne)

-----------------------------------------------------------------------------
(* Properties. *)

Findings == [exit_kind : ExitKinds \ {"ok"}, timeout : {"original", "multiple"},
             output : Outputs, filed : {"none", "other", "oracle", "infrastructure", "timeout"}]

\* Every variable holds a value of its kind.
FuzzTypeOK ==
  /\ ignore_hangs \in BOOLEAN /\ capture \in BOOLEAN /\ triggered \in BOOLEAN
  /\ corpus \subseteq Inputs /\ seen \subseteq Inputs /\ owed \subseteq Inputs
  /\ current \in Inputs
  /\ history_map \in [Indices -> {Untouched, Hit, MaxValue}]
  /\ num_covered \in 0..Cardinality(Indices)
  /\ timeouts_to_verify \in Seq(Inputs) /\ Len(timeouts_to_verify) <= MaxQueue
  /\ timeouts \in Seq(Inputs)
  /\ timeout \in {"original", "multiple"}
  /\ unstable \subseteq Indices
  /\ finding = << >> \/ finding[1] \in Findings
  /\ pc \in {"load", "next", "stability", "measure", "mutate", "verify", "verifying", "ended"}
  /\ check \in [first : Maps, filled : Nat, iter : Nat, i : Nat,
                unstable_entries : SUBSET Indices]
  /\ evaluated \in 0..MaxEvaluations

\* The count of what is covered, and the history it is counted from.
CoveredInSync == num_covered = Cardinality({x \in Indices : history_map[x] # Untouched})

\* The indices disabled in the history are those the metadata, and the check under way, hold as
\* unstable, over all the entries and restarts of a client (stability_check.rs:194-200,
\* 214-220): the stability reported counts every index it took away from the feedback.
DisabledAreUnstable ==
  pc # "ended" =>
    {x \in Indices : history_map[x] = MaxValue} = unstable \cup check.unstable_entries

\* stability_check.rs:230, "The map's filled count must never be 0": nothing is found unstable
\* while nothing is covered, even when the first run of the check covers nothing.
FilledCountNotZero ==
  pc = "measure" /\ check.unstable_entries # {} => check.filled # 0

\* stability_check.rs:195-196, "we need to make sure the `num_covered_map_indexes` is kept in
\* sync": the count and the history, updated by LibAFL when an input joins the corpus and by
\* the stability check when it flags an index, agree whichever of the two reaches an index
\* first, and so do the unstable indices and the filled count the stage derives from them.
CoverageInStep == FuzzTypeOK /\ CoveredInSync /\ DisabledAreUnstable /\ FilledCountNotZero

\* options.rs:28, "Don't report hangs as bugs": with that option nothing is ever filed as a
\* timeout, though timeouts are captured and queued all the same and the stage that verifies
\* them shares their flag (instance.rs:202, 220-223).
IgnoredHangsAreNotFiled ==
  ignore_hangs /\ finding # << >> =>
    finding[1].exit_kind = "crash" /\ finding[1].filed # "timeout"

\* verify_timeouts.rs:16-17: a timeout becomes a finding only after a run with the multiple of
\* the timeout, so that a slow run is not filed as a hang, through every round and restart, and
\* with the option to ignore hangs none does.
HangsAreVerified ==
  /\ finding # << >> /\ finding[1].exit_kind = "timeout" => finding[1].timeout = "multiple"
  /\ IgnoredHangsAreNotFiled

\* feedbacks.rs:141-144, "Files a finding by what reported it", an oracle's by its name: a
\* crash is filed under the cause it reported.  The code does not have this: triggered, left
\* by a timeout just verified, files the crash after it as a timeout.
FiledByItsCause ==
  finding # << >> /\ finding[1].exit_kind = "crash" =>
    finding[1].filed = CauseOf(finding[1].output)

\* The inputs still to be looked at: those queued, less those the stage has been through.
ToLookAt == IF pc = "verifying" THEN timeouts ELSE timeouts_to_verify

\* No timeout captured is lost when the stage empties the queue it took a copy of
\* (verify_timeouts.rs:90, 102-103): the input is queued until it has run a second time.
NoTimeoutLost ==
  pc # "ended" => owed \subseteq {ToLookAt[n] : n \in DOMAIN ToLookAt}

\* Timeouts do not pile up: what is queued is verified by the end of the round, and the queue
\* emptied, unless hangs are ignored, when nothing empties it, or the client ends.
QueueIsEmptied ==
  (timeouts_to_verify # << >> /\ ~ignore_hangs)
    ~> (timeouts_to_verify = << >> \/ pc = "ended")
=============================================================================
