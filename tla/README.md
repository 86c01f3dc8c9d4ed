# A verification of stratamoto

stratamoto tests implementations of the Stratum V2 protocol. A fuzzer keeps a corpus of
*programs* in an intermediate representation; a builder checks a program, a compiler lowers it
to actions, a runner carries the actions out against a server over encrypted connections, and
oracles judge what came back. Beside them stand the deployment that brings a pool up, and a
simulation runtime on which nodes run in virtual time. This directory holds TLA+ models of these
parts, the TLC runs that check them, and TLAPS proofs about all of them: every safety property a
passing run checks is also a theorem, for every value of the constants; liveness is checked with
TLC alone.

`PROJECT.json` lists the runs, the definitions with the source lines they model, the hazards the
properties are aimed at, the mutants that show each property can fail, and the theorems.

## The system

| Component | State | Operations | Interacts with |
|---|---|---|---|
| IR (`stratamoto-ir`: operation, variable, instruction) | none | what each operation consumes, defines, opens, closes | everything below |
| Program builder (`builder.rs`) | stack and set of open scopes, variables with their scope, instructions | `new`, `from_prefix`, `append`, `finalize` | mutators and generators append through it; validation replays a program through it |
| Compiler (`compiler.rs`) | values by variable, actions, connections sent on, open blocks, metadata | one arm per operation | takes what the builder hands out; its metadata is read by the oracles |
| Runner (`runner.rs`) | next action, open connections, sessions, outcomes | one arm per action, `pump` | calls the deployment and the transport; the server acts at the same time |
| Dispatcher (`events.rs`) | per connection: where the setup stands, the trace of events | `dispatch`, `observe`, `apply` | called by the runner for every frame |
| Transport (`noise.rs`) | socket, cipher states, a partly read chunk | `connect`, `accept`, `send`, `recv` | the server; what it promises is the channel the runner relies on |
| Oracles (`oracle.rs`), scenarios | none | three oracles, `evaluate`, `execute` | read the program's metadata and the execution |
| Deployment (`stratamoto-targets`) | pool and node processes, directory, port, deadlines of a dial and of the start | `start`, `dial`, `connect`, `is_alive`, `is_running`, `kill_pool`, drop | opens transports; the pool process acts at the same time |
| Minimizers and their stages (`minimizers/`, `stages/mod.rs`, `instance.rs`) | program, candidate and position of the minimizer; failures of the stage | `next`, `success`, `failure`, `perform` | rewrite corpus entries |
| Stability check, verification of timeouts, feedbacks (`stages/`, `feedbacks.rs`) | queue of timeouts and the flag that fills it, history of the coverage map, unstable entries | `perform`, `is_interesting`, `append_metadata` | LibAFL's state, executor and mutational stage |
| Mutators, generators (`mutators/`, `generators/`, `stratamoto-libafl/mutators.rs`) | none | rewire an input, rewrite an operation, splice an entry, insert a fragment | ask a builder rebuilt from a prefix what is in scope; renumber variables |
| Simulation runtime (`stratamoto-dst`) | ready queue, lives of nodes, timers, virtual clock, endpoints and cut links, files | `block_on`, `spawn`, `kill`, `sleep`, `timeout`, `advance`, `send`, `recv`, `connect`, `disconnect`, `open`, `create`, `read_at`, `write_all_at`, `set_len` | futures run under it; timers wake tasks and deliver messages |
| CLI, macros, Nyx glue | files | set-up and I/O | |

What is hard here: the builder, the compiler, the minimizers and the mutators each number variables
by counting and have to agree; a block's scope, its conditional skip and its exit are tracked in three
different places; the server sends, stalls, closes and dies at any point of a run, so answers
arrive late, twice, on the wrong await or not at all; whether an answer was owed is decided
before the run and used after it; the minimizers rewrite a program after it was last checked; a
pool exits while it is dialled, and every step of the way up may fail with processes already there;
a frame arrives in pieces over several calls that each gave up; and in the simulation a task is
woken by a timer, a message, a handed on notification or the end of another task, in any order,
while its node is killed and started again.

What makes each part correct:

* builder: accepts exactly the valid programs, and what it has accepted stays valid;
* compiler: every validated program compiles, and its metadata is true of the run;
* runner: one outcome per action, blocks run only after a success, no frame lost or used twice,
  every run ends if the server stops sending;
* oracles: a conforming server is never reported, and a passing run was earned;
* minimizers: what is written is valid, does what was run, cannot be reduced further, and the
  search ends;
* mutators and generators: a candidate is valid, what was not mutated keeps its meaning, and a
  setup made to break one rule breaks that rule alone;
* stages: the coverage history and what is derived from it stay in step; a timeout is filed only
  once verified, and none is lost;
* transport: a frame that went out whole arrives whole, in its turn and once, however it is cut up;
* deployment: a start ends, whichever way leaves nothing behind, and success rests on an answer;
* simulation: time does not go back, no wake and no message is lost, the deadlock panic is never
  wrong, a file holds what was written, and the network delivers as its abstract form does.

## Modules

| Module | Models | Notes |
|---|---|---|
| `Maps` | the maps of the standard library | `Insert` alone; the sets and sequences are TLA+'s |
| `IR` | operations, variables, instructions | data no property tells apart is dropped: ports, bytes, durations, names. A string is "too long for STR0_255" or not |
| `StaticValidity` | the reference definition of validity | on the text alone: blocks matched by counting, no scope ids, no stack |
| `ProgramBuilder` | `builder.rs` | `AppendRejected` has the early returns in order; `AppendBlockMismatch` is the one that leaves the scope popped, `AppendPanic` the unwrap of the global scope's begin. `defined_at`, `closed_at` and `popped` (that action or `AppendBlockMismatch` has happened) are history |
| `Compiler` | `compiler.rs` | one action per arm; a failed compilation keeps nothing, as `compile` consumes the compiler |
| `Lowering` | builder and compiler composed | builder replayed through a prefix, extended, finalized, compiled; or a decoded program nobody validated, compiled |
| `Runner` | `runner.rs`, `events.rs`, the effects of `noise.rs` | an await takes frame by frame, and so does each drain of a probe, so that the server's steps fall in between; `Dispatched` is the dispatcher |
| `Oracles` | `oracle.rs`, `evaluate` | pure operators |
| `Harness` | a scenario: compile, run, judge, next to a server | the server is the environment: `server` says whether it may do anything or keeps to the protocol. `is_alive`, a dial with a budget, fails on a server that is gone; on one that serves it may fail too, unless the server keeps to the protocol, which is assumed to answer a dial in time (`Answering`) |
| `Minimizers` | `minimizers/`, `Program::without`, `remove_nops`, `IrMinimizerStage`, the stages in `instance.rs` | running a candidate is one step: kept, lost or not run |
| `Replay` | `from_prefix`, `get_random_variable`, `is_statically_valid` | the builder as a function of a program; compared with `ProgramBuilder` by the run `builder` |
| `BuilderReference` | | the builder held against `StaticValidity` and `Replay`: the two properties that compare them |
| `Mutation` | `InputMutator`, `OperationMutator`, `ConcatMutator`, the three generators, and the LibAFL mutators around them | every random draw is a choice; `last` is history: the candidate made and the program it was made of |
| `FuzzStages` | loading the corpus, `StabilityCheckStage`, `VerifyTimeoutsStage`, `CaptureTimeoutFeedback`, `CrashCauseFeedback`, the objective of `instance.rs` | a run of the target is one step, any map and any exit kind; taking up entries, the mutational stage and the evaluation of an input are LibAFL's and external; `finding` and `owed` are history |
| `FrameChannel` | | abstract: what a pair of transports promises |
| `NoiseTransport` | `noise.rs`: handshake, `send`, `recv`, `read_frame` | both ends of one connection, byte by byte; a byte is named by its frame and chunk, the socket and the codec are external; refines `FrameChannel` |
| `PoolDeployment` | `pool.rs`, `node.rs` | composes `NoiseTransport` with the start, the dials, the uses and the drop of a deployment; the pool process is external |
| `SimTime` | `time/mod.rs`, `time/timer.rs`, `time/instant.rs` | `advance` fires callback by callback, so that what they wake falls in between |
| `SimTasks` | `task.rs` | an info per life of a node, tasks and the queue, `block_on` step by step |
| `SimNetwork` | `net/network.rs`, `net/mod.rs` | endpoints, cut links, loss, delivery by timer, and the listeners of a channel, which are async_channel's and external |
| `SimFs` | `fs.rs` | files by node and path; `image` is history |
| `DelayNetwork` | | abstract: what the simulated network promises |
| `Simulation` | `lib.rs`, `context.rs` | composes the four with tasks of any behaviour; refines `DelayNetwork` |
| `ReplayProofs` | | proofs about `Replay` and `StaticValidity` |
| `CompilerProofs` | | the invariant of `Compiler` |
| `LoweringProofs` | | proofs about `ProgramBuilder`, `BuilderReference` and `Lowering`, on `ReplayProofs` and `CompilerProofs` |
| `HarnessProofs` | | proofs about `Harness`, on `CompilerProofs` |
| `RewritingProofs` | | proofs about what rewrites programs, `Mutation` and `Minimizers`, on `ReplayProofs` |
| `FuzzStagesProofs`, `PoolDeploymentProofs`, `SimulationProofs` | | proofs about the module each is named after |
| `MC*` | | instances for TLC |

Correspondence of the state. Names are the source's where TLA+ allows. In `Runner`, `peers` is the
server's end: `inbox` what it sent and nobody has read, `served` all it ever sent, `wire` the send
actions that reached it, `closed`, `poisoned` (the client's decryption state is gone) and `torn`
(a write timed out part way through a frame). `place` and `by` of a session and `answers` of a
frame are history: which event of the trace answered it and which setup the server meant. In
`Minimizers`, `pc` is where the stage is, `executed` and `gave_up` are history. Indices start at 1
where the source's start at 0, except roles, connections and sessions. In `Simulation`, a task is its
`info` (the life of the node it belongs to), its state (scheduled, running, idle, done, dropped, as
async_task has it) and what it waits for; a future between two waits is any sequence of calls. `sent`
and `cut` are history. In `PoolDeployment`, `pc` is where the harness is, a deadline is a flag that
becomes true, and `answered` is history. `sent` of a transport also says which frames went out
whole, which is history, as are `received` and `junk`.

Constants and their assumptions: a program's context (`NumRoles`, `NumConnections`) is fixed for a
run; `Versions` are naturals; the default message's protocol and version are among those modelled.
Programs are sequences of instructions, and those that are executed have fewer than half as many as
there are action identifiers (`ProgramsAssumption`, and in `Lowering` `DecodedAssumption` for the
programs nobody built and `LengthAssumption` for those the builder hands out): an instruction
becomes two actions at most, and the mutators and generators stop at 4096. The prefix a builder is
replayed through is a sequence of instructions (`PrefixAssumption`). The entries that are minimized
and those that are mutated are valid programs (`EntriesAssumption` in `Minimizers`,
`CorpusAssumption` in `Mutation`): the mutators drop a candidate that is not (`mutators.rs:34`), the
minimizers check each they run (`stages/mod.rs:112`), and a loaded file is run only if it validates
(`setup_connection.rs:38`). A file forced into the corpus by hand that does not is outside the
theorems. A frame has a header of a fixed length and chunks that are not empty (`ShapesAssumption`
in `NoiseTransport`). The versions of a deployment and of an answer are naturals, and what a server
may send besides answers is neither of the two answers to a setup (`FramesAssumption`).

## What is checked

Passing runs:

| Run | Shows |
|---|---|
| `builder` | All programs of up to `MaxInstructions` instructions from a vocabulary in which every check of `append` can fail, with a caller that goes on after a refusal (`ReuseSpec`). `StaticallyValid`: what was accepted stays valid, whatever was refused. `AcceptsExactlyValid`: the builder accepts an instruction if and only if the extended text is valid, and `finalize` hands out exactly the closed programs. `FromPrefixRebuilds`: replaying what was accepted gives the builder back. `ScopesAgree`, `FinalizedIsClosed`. The last four except a builder that refused a block end for the block it would have closed, see below. |
| `lowering` | What the builder hands out, and programs nobody validated, so that each of the compiler's errors occurs. `ValuesMirrorVariables`: value *i* is the value of variable *i*. `ValidatedCompiles`: only a too long string can fail a validated program. `BlocksClosed`: the ends patched into blocks nest, and a compiled program has none open. `MetadataIsTrue`: an answer is owed exactly to first messages; and every action does what the instruction it is attributed to says, to the role, connection, message or attempt that instruction was given (`CarriesOut`), a session and a connection are named by the variable their own instruction defined and that still holds them, and a session's setup is the message sent for it. |
| `harness` | Seven programs (a plain setup, second setups on the same and on another connection, a raw frame first, blocks run or skipped around later setups, probes in between) against two deployments and one too small, and two kinds of server. `OneOutcomePerAction`, `BlockGuarded`, `EventsAccounted` (the trace is what was sent, and each frame is used once), `PassIsEarned`, `NoFalseFail` (a server that keeps to the protocol is not reported, whatever the program, and any server is held only to what it owed), `RunsToAVerdict` (once the server has stopped sending). |
| `minimizers` | `WrittenIsWhatWasKept` (valid, and the same operations and dataflow as the last candidate that was run and kept), `CutFits`, `MinimalWhenDone` (every block and every instruction that could still be taken out was tried). |
| `minimizers_live` | `MinimizingEnds`. |
| `mutation` | Two mutations stacked on each entry of a corpus. `CandidatesAreValid`: only its length can make a candidate unacceptable, and the check of validity in `acceptable` never refuses one. `DataflowKept`: after an insertion or a splice every input still names the variable it named, which validation alone would not notice. `ViolatesExactlyOne`: read off the candidate, a generated setup breaks exactly the rule it was made to break, wherever it was inserted. |
| `fuzz_stages` | The corpus loaded, then the stages of an entry in turn, entry after entry, with restarts and errors. `CoverageInStep` (count, history, unstable indices, and the assertion of the stability check), `HangsAreVerified`, `NoTimeoutLost`, `QueueIsEmptied`. |
| `deployment` | From the start to the drop, with a pool that binds, accepts, talks, sends junk and dies when it likes. `NothingLeftBehind`: no process is left or unreaped whichever step failed, and the pool never runs without its node. `SuccessWasAnswered`: start, connection and a yes of `is_alive` rest on a handshake answered in the very attempt that succeeded. `ChannelSpec`: the transport implements `FrameChannel`, through timeouts between any two bytes, torn writes and reconnections. `StartEnds`. |
| `simulation` | Six kinds of behaviour. `NothingOverslept`: a task that waits until a time is never idle after it, whatever woke it before. `NoMessageStranded`: when nothing can run, nobody waits for a message that is there, even if it first woke a task of a killed node. `DeadlockIsReal`, `OneLifeAtATime`. `FilesHoldWhatWasWritten`: a file holds what was written to it, also for the life that comes after the one that wrote. `ClockNeverGoesBack`, `BlockOnComesToAnEnd`. `NetworkSpec`: the network implements `DelayNetwork`. |

Runs that end in a violation, each against a sentence of the repository (see `findings`):

| Run | The code, against the sentence |
|---|---|
| `answer_bound_to_its_setup` | A late answer to an earlier setup is bound to a later session. Only setups to which nothing is owed are affected, which is why `NoFalseFail` holds. |
| `minimizers_tried` | A stage that failed too often in a row never runs a candidate again, on any later entry. |
| `filed` | `triggered` of the capture feedback survives from a verified timeout into a run that crashes, because the crash settles the objective first; the crash is then filed as a timeout, over the cause it reported. |

Met while modelling, without a run of their own:

* A refused block end leaves the builder changed: its scope is popped before the blocks are compared
  (`builder.rs:156`), and `append` takes `&mut self`. What the builder then accepts is no longer what
  the text makes valid, and it is not what `from_prefix` rebuilds. Every caller in the repository drops
  the builder at the first error (`StoppersSeeIntact`), so no program is lost by it.
* A probe drains a connection until a `recv` fails (`runner.rs:375`), with no deadline of its own: a
  server that keeps sending holds the run there. `RunsToAVerdict` is about servers that stop.
* A block end with no block open exits the global scope and panics (`builder.rs:156-157`) where a
  refusal was meant; it is the action `AppendPanic`. Nothing the mutators make gets there.
* A setup that was first on the wire is recorded as not first when an earlier send sat in a block
  that was skipped (`compiler.rs:320`). The error is on the safe side: `OwedReallyFirst` and
  `NoFalseFail` hold.
* With `--ignore-hangs` timeouts are still queued and no stage empties the queue.
* `connect` of the simulated network goes by way of `unclog`, which inserts the address
  (`network.rs:100-102`): nothing is ever reconnected, and connecting a node that was never cut off
  cuts it off. `DelayNetwork` says it this way.
* `set_len` does not look at `can_write`; an access past the end of a file panics (`fs.rs:135`,
  `FileOverrun`); killing a node leaves its endpoint, what is in it, and its files.
* The timeout of `recv` is the socket's, one per read (`noise.rs:129`), where `transport.rs:18` has it
  for the call; a peer that hands over one byte at a time outlasts it, and a handshake `IO_TIMEOUT`.
* A dial "waits only briefly" (`pool.rs:37`), but each of its attempts may take `IO_TIMEOUT`.
* The port of the pool is reserved and released before the pool binds it (`pool.rs:117`); the error
  of a start names a log in a directory that the drop removes (`pool.rs:163`); and the directory stays
  if its configuration, its log or the process cannot be made, since there is no `Pool` to drop yet.

### Bounds

* `MaxInstructions` (builder 6; lowering 9 with its prefix) and, in the builder run, inputs up to
  variable 4 (`MaxVariable`; 134 951 states, the refusals included): enough for two nested or adjacent
  blocks, a use after a block closed, and every error after an accepted prefix. The proofs remove
  the bound for the builder, and those of the harness, the minimizers and the mutators.
* `MaxFrames` (2 for any server, 3 for a conforming one): frames the server sends in one run. Two are
  enough for a late answer and the next one, three add a stray frame. It is a bound on the server,
  so a conforming one that has used up its frames leaves an owed answer outstanding and the run
  stops there; those states are the bound's, not the program's. That is why deadlock is not
  checked in this run and why `RunsToAVerdict` is stated for any server, which may also be silent.
  It is also what ends a drain, which in the source ends when no frame comes within a millisecond: a
  server that never stops is outside `RunsToAVerdict`.
  The builder and lowering runs end as well, when the program is finalized or compiled.
* `MaxSteps` (4): instructions of a program nobody validated, after its opening.
* `MaxConsecutiveFailures` (4, 2 and 1 for the source's 200): large enough that entries are
  minimized without a stage giving up, small enough that stages do give up.
* Entries of up to nine instructions, each with something to cut, to nop, or a block to remove;
  the liveness run uses the short ones.
* Mutation: `MaxStacked` 2, a corpus with an empty program, two entries with blocks and one never
  scheduled; `MaxInstructions` 15 (4096 in the source) so that some candidates are too long and are
  dropped, some second ones as well. The versions are the current one and the next, the flags one
  defined and one undefined bit, the optional fields of a setup all set or none.
* Fuzz stages: two inputs, two map indices, `MaxEvaluations` 2 and `MaxQueue` 2, enough for two
  timeouts to be verified one after the other and for an index to be reached first by either side.
  `StageMax` 2 and `CalStageMax` 4 make the check extend itself; the source passes 8 for both, and
  then it never does. A client may end on an error, so deadlock is not checked; neither is it in
  the mutation run, where every behaviour ends at `MaxStacked`.
* Deployment: one connection at a time, one frame from the harness and two from the pool, of a header
  of two bytes and one or two more chunks, one of them as long as the header, so that a buffer kept
  for the wrong chunk would not be told by its length; `MaxJunk` 1. Attempts, dials and uses are not
  bounded. The run ends when the deployment is down.
* Simulation: a behaviour has a budget of each kind of call, and there is one for each question: a node
  killed while it waits and started again; tasks of a killed node that are awaited; messages that
  overtake each other over two `block_on`s; links cut and connected; files that one task creates, writes,
  reads and resizes; and a file written by a task of a node that is killed, then read, opened or made
  again by one of the node's next life, or written by both. Offsets 0 and 2, before and past the end.
  Two addresses, latencies 1 and 2, durations 0 and 1, so that a timeout falls before, with and after a
  message. A behaviour ends when its budget does or with a panic. The proofs remove these bounds for what they state.

No symmetry is used: protocols, versions and flags are told apart by the oracles.

### Fairness

* `Harness!FairSpec`: weak fairness of the compiler and judge, of the runner's steps and of a
  timeout. They are one thread that blocks only with a deadline, and clocks move; the drain of a probe
  has none, and takes a step for each frame that comes. Nothing is assumed of the server but
  `MaxFrames`.
* `Minimizers!FairSpec`: weak fairness of the stages, which are one thread. Nothing is assumed of
  the executor: `MinimizingEnds` says that minimizing ends unless candidates fail to run for ever,
  since the loop proposes the same candidate again when `execute_input` returns an error
  (`stages/mod.rs:120-122`) and has no bound on that.
* `PoolDeployment!FairSpec`: weak fairness of the steps of the start and of a dial, and of the two
  deadlines: one thread whose calls all have timeouts, and a clock. Nothing is assumed of the pool.
* `Simulation!FairSpec`: weak fairness of the polls and of the executor's loop, which are one thread; that a
  task gives way is the assumption `block_on` itself makes, and the calls it makes before it does are
  bounded by the budget.
* `FuzzStages!FairSpec`: weak fairness of the stages, one thread whose runs of the target end by the
  executor's timeout, and of taking up the next entry, so that a client is not restarted for ever
  between two entries.

Liveness is checked with TLC only; TLAPS proves safety.

## What is proved

`LoweringProofs`, its first part, for every set of instructions offered, programs of any length and any
context, from the assumptions on the constants named in `IR` and `ProgramBuilder`:

* `BuilderTypeOK` and `AcceptedStaysValid`: what was accepted stays valid, whatever was refused in
  between, which is the part of the builder's promise that its reuse does not break;
* `BuilderScopesAgree`, `BuilderFinalizedIsClosed`, `BuilderAcceptsExactlyValid` (`append` and
  `finalize` accept exactly what the text makes valid) and `BuilderFromPrefixRebuilds` (`from_prefix`
  makes of the program so far the builder it came from): for callers that go on after a refusal,
  unless a block end was refused for the block it would have closed (`popped`);
* `StoppersSeeIntact`: a caller that stops at the first error never uses or finalizes a builder
  with a scope popped so, and every caller in the repository is one.

The argument has two inductive invariants. `StaticallyValid` speaks of instructions accepted long
ago; to carry it over a step one needs that the histories only grow and name accepted
instructions (`HistoryOK`), that an active scope has not been closed (`ActiveAreOpen`), so that an
input found in scope today was in scope by the text, and that the stack is never empty while the
builder can be used (`GlobalFirst`). With the type invariant that is `ReuseInv`, inductive for
every caller. `ScopesAgree` and `FinalizedIsClosed` need more: that no scope is on the stack twice,
that only the global one has no begin and that it is at the bottom (`StackOK`), so that popping
the stack, removing the id and closing the scope remain one and the same thing; and then an
innermost scope without a begin means the stack holds nothing else, and so every scope ever
entered is closed. That is `Inv`, inductive for every caller as well: its two additions are stated
for builders none was popped from, and no step but the refused block end pops without closing. Both were
checked with TLC before they were proved. `OutputsTyped`, `Tagged`, `AcceptedDefines` and
`AcceptedScopes` are the lemmas about what one accepted instruction adds.

The last two rest on `ReplayProofs`, which is about `FromPrefix`, the builder as a function of a program:

* `ValidatesExactlyValid`: for programs of any length, validating a program by replaying it accepts
  exactly the programs that are valid by their text.

The replay is a recursive function over the length of the prefix. Its induction is over a set of
naturals, those at which the claim holds, since an induction rule with an operator for parameter is
out of the prover's reach. What is carried is `Reads`: the builder is well formed (`WellFormed`), its
stack of scopes is that of the block begins which, by counting begins and ends, are still open
(`TextScopes`), and its variables are those the instructions define, in their order and with the block
they stand in (`TextVariables`). The two accounts of "open" meet in the depth of a program: a begin is open
at *k* exactly if the depth has not fallen below its own since. A builder in use is then the replay of
what it accepted (with `Inv`), whatever was refused in between but a block end for its block.

`PoolDeploymentProofs`, for any frames and any number of dials and attempts:

* `NothingIsLeftBehind`, from `StageInv`, which says for every place the harness may be which
  processes there are and whether the directory is;
* `SuccessRestsOnAnAnswer`, from `AnswerInv`: bytes of the pool are on a connection, and a handshake
  has completed, only after the pool answered in the attempt under way (`answered` is reset when an
  attempt connects). That is what a reply left over from an earlier attempt would break;
* `TransportImplementsChannel`, the refinement of `FrameChannel`: initial states map to initial states, and
  every step of the deployment, of either end and of the socket to a step or a stutter.

The refinement needs `NoiseInv`: the types, which phases of the two ends go together (`Phases`), and for each
direction `Flow`. That says that a partly read chunk is a beginning of the one expected (`Decoder`), that
only the last frame may have gone out in part (`Untorn`), that the bytes kept and the bytes on the socket
are, one after the other, those due next by the frames sent and what was received (`InOrder`), and that
while both ends are up none of those due is missing (`AllThere`). `Due` computes which byte comes next from the
frame, the chunk and the position, so that no frame has to be flattened into its bytes. A frame is
handed over when its last byte is taken, and by `InOrder` that is the frame the channel has at the
head.

`SimulationProofs`, for any number of nodes, tasks, messages, files and calls (the budget may be
anything):

* `SimulationTypeOK`, `ANodeLivesOnce`;
* `ClockMonotonic` and `NoTaskOversleeps`, from `TimersAhead` (no timer is behind the clock or behind the
  time being fired) and `Sleepers` (an idle task that waits until a time has its timer, since each
  poll before the deadline adds one, whatever used up the last wake);
* `NetworkImplementsDelayNetwork`: initial states map to initial states and every step to a step or a
  stutter, from `LetterInv`, which ties every delivery under way to one message and to a time that
  its latency allows, and what is clogged to what was cut.

`FuzzStagesProofs`, for any inputs, any finite coverage map, any number of runs and length of queue:

* `HangsFiledAreVerified`, from `FlagsInv` (how the flag, the executor's timeout and the stage go
  together);
* `NoTimeoutIsLost`, inductive with `FlagsInv`;
* `CoverageStaysInStep`, from `CoverInv`, which adds that a corpus that is not empty has covered something and
  that a check runs only then; it is a count of finite sets.

`CompilerProofs` and `HarnessProofs`, for every program, every deployment, any number of frames and
a server of either kind; `MaxFrames` may be anything:

* `OutcomesAreOnePerAction`, `BlocksAreGuarded`, `EventsAreAccounted`: what the runner records, whom a
  block depends on, and what became of each frame of a trace;
* `PassesAreEarned`: a run that passes was answered where an answer was owed, by what the role's
  configuration allows;
* `NoFalseAlarm`: a server that keeps to the protocol is never reported, and any other is held only
  to what it owed.

`CompilerProofs` has the invariant of the compiler, `CompileInv`, over programs nobody need have validated:
the types of what it keeps and emits; `OpenBlocks` and `ClosedBlocks`, that the blocks open are entered
in order and those closed end at an exit of their own and lie within one another or apart; `SentOf`
and `OwedOf`, that a setup owes an answer exactly if its send is the only one up to there on a
connection the program opened; `AwaitsPaired`, that an await comes right after the send of its setup,
on the same connection, and has its session to itself; `ConnectsOnce`, that a connection is opened once.
The runner starts when the compiler is done, so `HarnessInv` has these as facts about actions that no
longer change.

`LoweringProofs`, its second part, for every prefix, every set of instructions and every set of decoded programs:

* `ValuesAreOfVariables`, `ValidProgramsCompile`, `BlocksAreClosed` and `MetadataNamesItsSource`, the four
  invariants of the run `lowering`.

The builder and the compiler never meet: the one keeps variables and scopes, the other values and
blocks, and only the order of the instructions ties them. The invariant `LoweringInv` therefore says
two things. Of the builder (`BuiltInv`, with `Inv` above): which variables instruction
*k* defined (`Laid`, through the history `defined_at`), what was checked of it (`Counted`), and that each
session of a conditional block has a scope to itself, closed by an end of its own, and every such end
closes one (`Guarding`, with `Begun` for the blocks still open). Of the compiler (`Lowered`, with `CompileInv`
from `CompilerProofs`): its values are those of the variables defined by the instructions behind it
(`Mirrored`), as many blocks are open as sessions whose scope closes at an instruction to come
(`BlocksCounted`), and the metadata names what is there (`Named`): every action does what its
instruction says, for the values held now (`Carried`), since no value changes once an action was made
of it and the only one edited in place is a setup still being built; the wait of each session stands
right after its send and with the variable their instruction defined (`AttemptNamed`), the connect of
each connection with its own (`OpeningNamed`). An instruction is readable because it was
`StaticallyValid` when it was accepted and its inputs are mirrored; an end finds a block open because the
session whose scope it closes is among those counted; and at the end of the program nothing is
counted, because `finalize` saw every scope closed.

`HarnessProofs` first brings every step of the runner and of the server down to one of eight kinds
(`RunKind`), by what it leaves alone: an outcome recorded, a block skipped, a connection opened, a frame
received that settles nothing, an await ended, a step of a drain, a frame served, nothing of the
kind. The invariant then is in parts, each resting on those before it:

* `Bound`: a session was bound by an await that was attempted, with what the await found, and an await
  attempted has bound its session; that is what "established" means in terms of outcomes.
* `Blocks`: among the outcomes so far, a skipped block is skipped whole, and a block that was entered
  was so on an established session and is left by its exit. A skip moves over a whole block at
  once, which is why the compiler's nesting is needed.
* `Traced`: the trace of a connection followed by its inbox is all the server sent on it, until a frame
  does not decrypt; from then on the trace is cut there.
* `Accounted`: each event of a trace was found by a probe, or answered one session, or decodes to
  nothing, and only one of these.
* `Judged`: a verdict stands for the state it was reached in; nothing the oracles look at changes
  afterwards.
* `Wired`: what reached the server on a connection are sends of the actions done, on that connection, in their
  order. Only with it is what the server saw what the compiler counted.
* `Conforming`, for a server that keeps to the protocol: it said nothing before it was spoken to and
  answered a setup that came first with something permitted, before it closed (`Keeping`); when the
  runner is at the await of an owed answer, that setup came first and nothing has been received yet
  (`AtOwed`); so what such an await got is permitted (`OwedAnswered`). `AtOwed` is why a late answer, which
  the run `answer_bound_to_its_setup` shows can be bound to another setup, is never bound to one that
  is owed an answer.

`RewritingProofs` is about what makes a program of another, for corpora and entries of any length:

* `MutatorsMakeValidPrograms` (`CandidatesAreValid`) and `MutatorsKeepDataflow` (`DataflowKept`), however many mutations are
  stacked;
* `SetupsViolateExactlyOne` (`ViolatesExactlyOne`), for whatever was drawn and wherever it was inserted;
* `CutsFit` and `RoundsLeaveNothingUntried` (`MinimalWhenDone`), for any number of rounds and any judgement of a
  candidate;
* `StagesWriteWhatWasRun` (`WrittenIsWhatWasKept`): what is written is valid, although nothing checks it after
  `remove_nops`, and does what the last candidate that was run and kept does.

All of them use one notion, `Within(q, r, f)`: the *k*-th instruction of *q* is at *f[k]* in *r*, and what lies
between two of them is closed in itself. Blocks then match alike, a scope open in the one is open
in the other, and of two programs of which one is within the other, with inputs that name the same
outputs of the same instructions (`Same`, `Rewired`), the validity of an instruction carries over. For the mutators *r* is
the candidate (`Insertion`, `Placed`): the input is within it, around what was inserted, and the
inserted code is itself valid where it stands, because it closes every block it opens (`Net`) and reads
what the builder rebuilt from the prefix has in scope, or what it defined itself. The inductive
invariant is `MutInv`: the input is valid, and the last candidate valid and true to what it was
made of. For the minimizers *r* is the program before: `RemoveNops` puts the new one within it
(`Cleaned`), the new number of a variable being the count of the variables kept before it, which keeps
their order. A candidate is valid when it is kept, since it was run, and `WriteInv` says that the entry
is valid and at the end of a stage is what `RemoveNops` makes of the candidate kept. `MinInv` ties the position
of a stage to what it has tried: the blocks and instructions behind it, for the program in hand,
also across the rounds in which nothing was kept. `Without` takes the greatest of a set of positions
and halves a length, whose existence and bounds are by well-founded induction.

`ViolatesExactlyOne` reads a setup out of the candidate's text: the instructions that fill in the
message, found through the variables they name. The proof shows that the setup stands there as
it was generated, numbered from what is defined before it (`PartAt`, `SetupAt`), and that whatever names
its message or its connection comes after what defines them (`UsersComeLater`), so that nothing of
the program around it, before or after, is taken for a part of it. What is left is the
setup alone, and each of the violations to choose from, with whatever versions, flags and optional
fields were drawn, breaks its own rule and no other (`BreaksThatOne`).

About the wakes and the files of the simulation, `SimulationProofs` has further:

* `NothingStranded` and `DeadlockPanicIsRight`, from `WakeInv`: the queue holds exactly the tasks that are
  scheduled, each once (`QueueOK`); an idle task that receives listens, on one channel and once
  (`IdleOK`, `ListenersOK`); a listener that was notified belongs to a task that has yet to run
  (`NotifiedOK`); and a channel with a message and a listener has a notified one (`NoneLost`), which is what
  a listener that is dropped or satisfied has to hand on;
* `FilesKeepWhatWasWritten`, from `FileInv`, which compares a file with the history of its writes.

The other assumptions are those named in the modules: the latencies, durations, offsets and bounds are
naturals, there is an input, the indices are finitely many.

Only model-checked is liveness, which takes fairness and `ENABLED`: `RunsToAVerdict`, `MinimizingEnds`, `QueueIsEmptied`,
`BlockOnComesToAnEnd` and `StartEnds`. The three runs that end in a violation show what does not hold.

## What is not modelled

Formatting and display, logging, the exact bytes of messages (encoding fails only on a string that
is too long), the panic on an instruction of an unvalidated program that has fewer inputs than its
operation takes (the instructions offered have all), cryptography (a chunk decrypts if it is the one that comes next), durations of real
time, the text of the configurations, the command line tool, the macros, Nyx. `header_issues` of a
connection is written and never read. `HarnessError` is never constructed, so the integrity
oracle's second check has nothing to find. The ratio the stability check reports and the counts
the feedbacks fire are not carried.

Of the simulation: `add_timer` called with a deadline that has passed, which its signature allows and
which would set the clock back (`time/mod.rs:42, 100`; its callers, `sleep_until` and `send`, never do);
cancelling a task by dropping its handle, and what a random number generator
draws, every draw being a choice. Only a main task awaits another. Of the fuzzer's instance: the
options, the forced loading of a static corpus, the pruning of disabled entries, the path that runs
or minimizes a single input, and the wiring of LibAFL's own parts. Of a scenario: dumping its
context and its exit code.

`GeneratorMutator`, `ConcatMutator` on its own input and `ConnectionChoice::Any` are used by tests
only. How often a mutator is drawn does not matter: every draw is possible.

## Plan

1. (done) IR, builder, compiler, their composition; runner, oracles and harness; minimizers;
   mutators; the stages of the fuzzer; the builder's proofs.
2. (done) Simulation runtime with its abstract network; transport with its abstract channel; deployment;
   loading and filing; the proofs about them.
3. (done) Proofs about the compiler and the harness, the minimizers, and the wakes and files of the
   simulation.
4. (done) Proofs about `Lowering`, from an invariant that follows the compiler through the program with
   the builder's histories.
5. (done) Proofs about replay and validation, the transport as an implementation of its channel,
   the mutators and generators, and what the minimizers write.
6. Abstract specification of a test run (each setup owed an answer gets one, or the run fails),
   with the harness shown to implement it.
