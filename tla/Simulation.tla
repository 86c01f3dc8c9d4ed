----------------------------- MODULE Simulation -----------------------------
(***************************************************************************)
(* The simulation runtime put together (crates/stratamoto-dst/src/lib.rs   *)
(* and context.rs): tasks of any behaviour run on the executor, sleep,     *)
(* send, receive, wait with a timeout, use files, and kill and start       *)
(* nodes.  Between two waits a task calls what it likes, and so does the   *)
(* harness between two block_ons.                                          *)
(*                                                                         *)
(* A budget bounds how often a behaviour does each kind of thing; there is *)
(* one behaviour for every budget of Budgets.                              *)
(***************************************************************************)
EXTENDS SimNetwork, SimFs

CONSTANTS
  Durations,   \* how long a task sleeps or waits
  Offsets,     \* offsets into files, and the lengths they are set to
  Budgets      \* bounds on block_on, spawn, stale spawn, send, kill, link, wait,
               \* join, take and file

ASSUME DurationsAssumption == Durations \subseteq Nat
ASSUME OffsetsAssumption == Offsets \subseteq Nat

VARIABLE budget

vars == <<time_vars, task_vars, net_vars, fs_vars, budget>>

Init ==
  /\ TimeInit /\ TasksInit /\ NetworkInit /\ FsInit
  /\ budget \in Budgets

\* One of the behaviour's calls of a kind.
Spend(kind) == budget[kind] > 0 /\ budget' = [budget EXCEPT ![kind] = @ - 1]

\* The poll of a task that waits for nothing, or the code before a block_on.
Polling == pc = "poll" /\ tasks[running].wait = NoWait
Calling == Polling \/ (pc = "outside" /\ budget.block_on > 0)

\* The address of the code that calls: of the task's node, or any a handle was made for.
Here == IF pc = "poll" THEN {AddrOf(running)} ELSE endpoints

Waiting(kind) == pc = "poll" /\ tasks[running].wait.kind = kind

-----------------------------------------------------------------------------
(* Calls. *)

\* local_handle(a).spawn: the handle also makes the node's endpoint.
Spawn(a) ==
  /\ Calling /\ Spend("spawn")
  /\ LocalInfo(a)
  /\ SpawnUnder(info'[a])
  /\ Get(a)
  /\ UNCHANGED <<time_vars, main, running, pc, clogged, lossy, inbox, listening, notified, sent,
                 cut, fs_vars>>

\* spawn through a handle made before its node was killed.
SpawnStale(i) ==
  /\ Calling /\ Spend("stale")
  /\ infos[i].killed
  /\ SpawnUnder(i)
  /\ UNCHANGED <<time_vars, infos, info, main, running, pc, net_vars, fs_vars>>

\* task::spawn, which asks for the handle of the address the task runs under: after its own
\* node was killed, that is a new one.
SpawnHere ==
  /\ Polling /\ Spend("spawn")
  /\ LocalInfo(AddrOf(running))
  /\ SpawnUnder(info'[AddrOf(running)])
  /\ UNCHANGED <<time_vars, main, running, pc, net_vars, fs_vars>>

\* Handle::kill: the tasks only, not the endpoint and not the files.
KillNode(a) ==
  /\ Calling /\ Spend("kill")
  /\ Kill(a)
  /\ UNCHANGED <<time_vars, net_vars, fs_vars>>

SendTo(dst) ==
  /\ Polling /\ Spend("send")
  /\ Send(AddrOf(running), dst)
  /\ UNCHANGED fs_vars

ChangeLink ==
  /\ Calling /\ Spend("link")
  /\ (\E a \in Addrs : Connect(a) \/ Disconnect(a)) \/ SetPacketLossRate
  /\ UNCHANGED <<time_vars, task_vars, fs_vars>>

Take ==
  /\ Calling /\ Spend("take")
  /\ \E a \in Here : TryRecv(a)
  /\ UNCHANGED <<time_vars, task_vars, fs_vars>>

UseFiles ==
  /\ Polling /\ Spend("file")
  /\ \/ \E a \in Here, path \in Paths : Open(a, path) \/ Create(a, path)
     \/ \E file \in handles, offset \in Offsets :
          \/ \E size \in Offsets : ReadAt(file, size, offset)
          \/ \E buf \in Buffers : WriteAllAt(file, buf, offset)
          \/ WriteDenied(file)
          \/ SetLen(file, offset)
  /\ UNCHANGED <<time_vars, task_vars, net_vars>>

\* The panic goes through the executor to the caller of block_on.
FileOverrun ==
  /\ Polling /\ Spend("file")
  /\ \E file \in handles, offset \in Offsets :
       \/ \E size \in Offsets : Overruns(file, size, offset)
       \/ file.can_write /\ \E buf \in Buffers : Overruns(file, Len(buf), offset)
  /\ pc' = "panicked"
  /\ UNCHANGED <<time_vars, queue, infos, info, tasks, main, running, net_vars, fs_vars>>

-----------------------------------------------------------------------------
(* Waits.  A wait begins by setting what the task waits for; the steps       *)
(* after it are the polls of that future.                                    *)

WaitFor(wait) == tasks' = [tasks EXCEPT ![running].wait = wait]

BeginWait ==
  /\ Polling /\ Spend("wait")
  /\ \/ \E d \in Durations : WaitFor([kind |-> "sleep", deadline |-> After(d), on |-> None])
     \/ \E deadline \in {Never} \cup {After(d) : d \in Durations} :
          WaitFor([kind |-> "recv", deadline |-> deadline, on |-> AddrOf(running)])
  /\ endpoints' = endpoints \cup {a \in {AddrOf(running)} : tasks'[running].wait.kind = "recv"}
  /\ UNCHANGED <<time_vars, queue, infos, info, main, running, pc, clogged, lossy, inbox,
                 listening, notified, sent, cut, fs_vars>>

BeginJoin ==
  /\ Polling /\ Spend("join")
  /\ running = main
  /\ \E t \in DOMAIN tasks \ {main} :
       WaitFor([kind |-> "join", deadline |-> Never, on |-> t])
  /\ UNCHANGED <<time_vars, queue, infos, info, main, running, pc, net_vars, fs_vars>>

Past(deadline) == deadline # Never /\ clock >= deadline

\* The wait is over; the poll goes on, and whom the listener it drops hands on to is woken.
WaitEnds(woken) ==
  /\ tasks' = Scheduled([tasks EXCEPT ![running].wait = NoWait], woken)
  /\ queue' = Enqueued(queue, woken)
  /\ UNCHANGED <<time_vars, infos, info, main, running, pc, budget, fs_vars>>

\* Mutant: the waker is not handed to the timer again.
PendingNoTimer(deadline) == UNCHANGED timer

\* sleep_until adds a timer at every poll before the deadline.
PendingTimer(deadline) ==
  timer' = IF deadline = Never THEN timer
           ELSE timer \cup {Event(deadline, <<"wake", running>>)}

\* The poll returns Pending.
Pends ==
  /\ PendingTimer(tasks[running].wait.deadline)
  /\ tasks' = [tasks EXCEPT ![running].state = "idle"]
  /\ running' = None
  /\ pc' = "ready"
  /\ UNCHANGED <<clock, firing, queue, infos, info, main, budget, fs_vars>>

SleepEnds ==
  /\ Waiting("sleep") /\ Past(tasks[running].wait.deadline)
  /\ WaitEnds(None)
  /\ UNCHANGED net_vars

SleepPends ==
  /\ Waiting("sleep") /\ ~Past(tasks[running].wait.deadline)
  /\ Pends
  /\ UNCHANGED net_vars

\* recv, or the receiving half of a timeout.
RecvEnds ==
  /\ Waiting("recv")
  /\ LET a == tasks[running].wait.on
     IN /\ inbox[a] # << >>
        /\ inbox' = [inbox EXCEPT ![a] = Tail(@)]
        /\ DropListener(a, running)
        /\ WaitEnds(Successor(a, running))
  /\ UNCHANGED <<endpoints, clogged, lossy, sent, cut>>

\* The timeout elapsed; select! takes either half when both are ready.
RecvElapses ==
  /\ Waiting("recv") /\ Past(tasks[running].wait.deadline)
  /\ LET a == tasks[running].wait.on
     IN DropListener(a, running) /\ WaitEnds(Successor(a, running))
  /\ UNCHANGED <<endpoints, clogged, lossy, inbox, sent, cut>>

RecvPends ==
  /\ Waiting("recv") /\ ~Past(tasks[running].wait.deadline)
  /\ LET a == tasks[running].wait.on
     IN inbox[a] = << >> /\ Listen(a, running)
  /\ Pends
  /\ UNCHANGED <<endpoints, clogged, lossy, inbox, sent, cut>>

JoinEnds ==
  /\ Waiting("join") /\ tasks[tasks[running].wait.on].state = "done"
  /\ WaitEnds(None)
  /\ UNCHANGED net_vars

\* Awaiting a task that was dropped panics.
JoinPanics ==
  /\ Waiting("join") /\ tasks[tasks[running].wait.on].state = "dropped"
  /\ pc' = "panicked"
  /\ UNCHANGED <<time_vars, queue, infos, info, tasks, main, running, net_vars, fs_vars, budget>>

JoinPends ==
  /\ Waiting("join") /\ tasks[tasks[running].wait.on].state \notin {"done", "dropped"}
  /\ Pends
  /\ UNCHANGED net_vars

\* The future is Ready: the task that awaits this one is woken.
Finish ==
  /\ Polling
  /\ tasks' = Scheduled([tasks EXCEPT ![running].state = "done"], Joiner(running))
  /\ queue' = Enqueued(queue, Joiner(running))
  /\ running' = None
  /\ pc' = "ready"
  /\ UNCHANGED <<time_vars, infos, info, main, net_vars, fs_vars, budget>>

-----------------------------------------------------------------------------
(* The executor. *)

BlockOn ==
  /\ Spend("block_on")
  /\ BlockOnBegins
  /\ UNCHANGED <<time_vars, net_vars, fs_vars>>

\* Mutant: the runnable of a killed node is kept instead of dropped.
SkipKilledKeeps ==
  /\ pc = "ready" /\ queue # << >>
  /\ Killed(Head(queue))
  /\ tasks' = [tasks EXCEPT ![Head(queue)].state = "dropped"]
  /\ queue' = Tail(queue)
  /\ UNCHANGED <<time_vars, infos, info, main, running, pc, net_vars, fs_vars, budget>>

\* The runnable of a killed node is dropped, and its future with it.
SkipKilled ==
  /\ pc = "ready" /\ queue # << >>
  /\ Killed(Head(queue))
  /\ LET t == Head(queue)
         a == tasks[t].wait.on
         next == IF tasks[t].wait.kind = "recv" THEN Successor(a, t) ELSE None
     IN /\ tasks' = Scheduled(Scheduled([tasks EXCEPT ![t].state = "dropped"], next), Joiner(t))
        /\ queue' = Enqueued(Enqueued(Tail(queue), next), Joiner(t))
        /\ IF tasks[t].wait.kind = "recv" THEN DropListener(a, t)
           ELSE UNCHANGED <<listening, notified>>
  /\ UNCHANGED <<time_vars, infos, info, main, running, pc, endpoints, clogged, lossy, inbox,
                 sent, cut, fs_vars, budget>>

Run == RunNext /\ UNCHANGED <<time_vars, net_vars, fs_vars, budget>>

Return == BlockOnEnds /\ UNCHANGED <<time_vars, net_vars, fs_vars, budget>>

Deadlock == BlockOnPanics /\ UNCHANGED <<time_vars, net_vars, fs_vars, budget>>

Advance ==
  /\ BlockOnAdvances
  /\ AdvanceBegins
  /\ UNCHANGED <<net_vars, fs_vars, budget>>

Fire ==
  /\ pc = "advance"
  /\ \E e \in timer :
       /\ FireEvent(e)
       /\ IF e.callback[1] = "deliver" THEN Deliver(e.callback[2])
          ELSE /\ Wake(e.callback[2])
               /\ UNCHANGED <<infos, info, main, running, pc, net_vars>>
  /\ UNCHANGED <<fs_vars, budget>>

SetClock ==
  /\ pc = "advance"
  /\ AdvanceEnds
  /\ pc' = "ready"
  /\ UNCHANGED <<queue, infos, info, tasks, main, running, net_vars, fs_vars, budget>>

Calls ==
  \/ \E a \in Addrs : Spawn(a) \/ KillNode(a) \/ SendTo(a)
  \/ \E i \in DOMAIN infos : SpawnStale(i)
  \/ SpawnHere \/ ChangeLink \/ Take \/ UseFiles \/ FileOverrun

Polls ==
  \/ BeginWait \/ BeginJoin \/ SleepEnds \/ SleepPends \/ RecvEnds \/ RecvElapses \/ RecvPends
  \/ JoinEnds \/ JoinPanics \/ JoinPends \/ Finish

Executes == Run \/ SkipKilled \/ Return \/ Deadlock \/ Advance \/ Fire \/ SetClock

Next == BlockOn \/ Calls \/ Polls \/ Executes

Spec == Init /\ [][Next]_vars

\* block_on is a loop of one thread, and a poll of a task ends.
FairSpec == Spec /\ WF_vars(Polls \/ Executes)

-----------------------------------------------------------------------------
(* Properties. *)

States == {"scheduled", "running", "idle", "done", "dropped"}
Waits  == [kind : {"none", "sleep", "recv", "join"}, deadline : Nat \cup {Never},
           on : Addrs \cup Nat]

\* Every variable holds a value of its kind.
SimTypeOK ==
  /\ clock \in Nat /\ firing \in Nat \cup {Idle}
  /\ \A e \in timer : e.deadline \in Nat
  /\ info \in [Addrs -> 0..Len(infos)]
  /\ infos \in Seq([addr : Addrs, killed : BOOLEAN])
  /\ tasks \in Seq([info : 1..Len(infos), state : States, wait : Waits])
  /\ main \in 0..Len(tasks) /\ running \in 0..Len(tasks)
  /\ pc \in {"outside", "ready", "poll", "advance", "panicked"}
  /\ IF running = None THEN pc # "poll" ELSE pc \in {"poll", "panicked"}

\* instant.rs:3, "A measurement of a monotonically non decreasing clock": advance sets the
\* clock to whatever timer comes first (time/mod.rs:38-47), so no timer may ever be behind it.
ClockNeverGoesBack == [][clock' >= clock]_vars

\* A task that waits until a time is idle only before that time: the wake that its timer gives
\* is never lost to a wake it got before, a listener it dropped or a poll that came too soon
\* (time/mod.rs:73-84), and time does not jump over it (README, "a `timeout` never fires early
\* and a test never waits").
NothingOverslept ==
  \A t \in DOMAIN tasks :
    tasks[t].state = "idle" /\ tasks[t].wait.deadline # Never =>
      IF firing = Idle THEN clock < tasks[t].wait.deadline
      ELSE firing <= tasks[t].wait.deadline

\* When the executor has nothing left to run, no task, of whatever life of a node, is left
\* waiting for a message its endpoint already holds: a message that wakes a task of a killed
\* node, which is dropped and not run (task.rs:142-144), still reaches the one that took over.
NoMessageStranded ==
  queue = << >> /\ pc \in {"outside", "ready", "advance"} =>
    \A t \in DOMAIN tasks :
      tasks[t].state = "idle" /\ tasks[t].wait.kind = "recv" => inbox[tasks[t].wait.on] = << >>

\* The panic "no events, the task will block forever" (task.rs:135-136) is never wrong: nothing
\* is under way, and what the main task waits for has not happened and cannot.
DeadlockIsReal ==
  pc = "panicked" /\ running = None =>
    /\ timer = {} /\ queue = << >>
    /\ tasks[main].state = "idle"
    /\ \/ tasks[main].wait.kind = "recv" /\ inbox[tasks[main].wait.on] = << >>
       \/ tasks[main].wait.kind = "join"
          /\ tasks[tasks[main].wait.on].state \notin {"done", "dropped"}
    /\ \A t \in DOMAIN tasks : tasks[t].state \in {"idle", "done", "dropped"}

\* A node has one life at a time: of the infos made for its address, all are killed but the
\* one a new handle is given (task.rs:55-77), so that a kill reaches every task started through
\* whatever handle before it.  A block_on has an info of its own, which nothing can kill.
OneLifeAtATime ==
  \A i \in DOMAIN infos :
    infos[i].addr # MainAddr /\ ~infos[i].killed => info[infos[i].addr] = i

\* A read returns the bytes between its offset and the end of the file or of the buffer.
ReadsSeeTheImage ==
  read.tag = "read" =>
    /\ Len(read.bytes) = Lesser(read.size, Len(image[read.inode]) - read.offset)
    /\ \A n \in DOMAIN read.bytes : read.bytes[n] = image[read.inode][read.offset + n]

\* The bytes of a file are the last ones put at each offset, by writes that overwrite a part
\* and extend the rest in two steps (fs.rs:155-160), through the deaths of its node, and they
\* are what a read returns (fs.rs:133-137), whoever wrote them.
FilesHoldWhatWasWritten == data = image /\ ReadsSeeTheImage

\* What the network promises to those who use it: DelayNetwork, with the time a callback is
\* fired for as the time it happens at.
Net == INSTANCE DelayNetwork WITH
  now     <- IF firing = Idle THEN clock ELSE firing,
  letters <- sent,
  flight  <- {e.callback[2] : e \in {e \in timer : e.callback[1] = "deliver"}},
  box     <- inbox,
  known   <- endpoints,
  severed <- cut

\* A message is lost only when it is sent, for a reason the abstract network names, and arrives
\* once, within its latency.  connect reconnects nothing (network.rs:100-102): after connect or
\* disconnect was called for either end, nothing sent between the two arrives, ever.
NetworkSpec == Net!Spec

\* block_on comes to an end, by returning or by a panic, if every task polled gives way: time
\* moves on past every sleeper, and a task that is woken for nothing does not keep it from
\* moving (task.rs:131-137).
BlockOnComesToAnEnd == (pc # "outside") ~> (pc \in {"outside", "panicked"})
=============================================================================
