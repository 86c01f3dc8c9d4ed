------------------------------ MODULE SimTasks ------------------------------
(***************************************************************************)
(* The executor (crates/stratamoto-dst/src/task.rs): tasks bound to the    *)
(* node they belong to, one queue of those that can run, and block_on,     *)
(* which runs the queue empty, returns if its own task is done, and moves  *)
(* the clock otherwise.                                                    *)
(*                                                                         *)
(* A TaskInfo is one life of a node: kill takes it out of the map, and the *)
(* next handle for the address starts a new one.  Tasks and infos are      *)
(* numbered in the order they are made.  What a task is waiting for is     *)
(* kept with it; async_task, which holds the future, is external.          *)
(***************************************************************************)
EXTENDS SimTime, Sequences

CONSTANTS
  Addrs,      \* the addresses of nodes
  MainAddr    \* 0.0.0.0:0, which the task of block_on runs under

ASSUME AddrsAssumption == MainAddr \in Addrs

VARIABLES
  queue,      \* Executor.queue: the runnables, by their task
  infos,      \* every TaskInfo made: its address and whether it was killed
  info,       \* TaskHandle.info: the address's TaskInfo, None if it has none
  tasks,      \* every task: its info, its state, what it waits for
  main,       \* the task of the block_on under way or the last one
  running,    \* the task being polled, or None
  pc          \* "outside" block_on, "ready", "poll", "advance", or "panicked"

task_vars == <<queue, infos, info, tasks, main, running, pc>>

None == 0

\* The wait of a task that waits for nothing.
NoWait == [kind |-> "none", deadline |-> Never, on |-> None]

NewTask(i) == [info |-> i, state |-> "scheduled", wait |-> NoWait]

TasksInit ==
  /\ queue = << >> /\ infos = << >> /\ tasks = << >>
  /\ info = [a \in Addrs |-> None]
  /\ main = None /\ running = None /\ pc = "outside"

AddrOf(t) == infos[tasks[t].info].addr
Killed(t) == infos[tasks[t].info].killed

\* Waking schedules a task that is neither scheduled nor finished, and is lost on any other.
Scheduled(ts, t) ==
  IF t # None /\ ts[t].state = "idle" THEN [ts EXCEPT ![t].state = "scheduled"] ELSE ts

Enqueued(q, t) == IF t # None /\ tasks[t].state = "idle" THEN Append(q, t) ELSE q

Wake(t) == queue' = Enqueued(queue, t) /\ tasks' = Scheduled(tasks, t)

\* The task that awaits the end of task t: only a main task does, so that no task that may be
\* dropped holds another.
Joiner(t) ==
  IF main # None /\ tasks[main].wait = [kind |-> "join", deadline |-> Never, on |-> t]
    THEN main ELSE None

-----------------------------------------------------------------------------
(* Handles. *)

\* Mutant: a TaskInfo that is missing is not made.
LocalInfoNotMade(a) == UNCHANGED <<infos, info>>

\* Mutant: every handle has a TaskInfo of its own.
LocalInfoFresh(a) ==
  /\ infos' = Append(infos, [addr |-> a, killed |-> FALSE])
  /\ info' = [info EXCEPT ![a] = Len(infos) + 1]

\* local_handle: the address's TaskInfo, made if there is none.
LocalInfo(a) ==
  IF info[a] # None THEN UNCHANGED <<infos, info>>
  ELSE /\ infos' = Append(infos, [addr |-> a, killed |-> FALSE])
       /\ info' = [info EXCEPT ![a] = Len(infos) + 1]

\* spawn: the task is scheduled at once, under the info its handle was made with.
SpawnUnder(i) ==
  /\ tasks' = Append(tasks, NewTask(i))
  /\ queue' = Append(queue, Len(tasks) + 1)

\* kill: the info leaves the map; handles that have it keep it.
Kill(a) ==
  /\ info' = [info EXCEPT ![a] = None]
  /\ infos' = IF info[a] = None THEN infos ELSE [infos EXCEPT ![info[a]].killed = TRUE]
  /\ UNCHANGED <<queue, tasks, main, running, pc>>

-----------------------------------------------------------------------------
(* block_on. *)

\* The main task has an info of its own, which is in no map and cannot be killed.
BlockOnBegins ==
  /\ pc = "outside"
  /\ infos' = Append(infos, [addr |-> MainAddr, killed |-> FALSE])
  /\ SpawnUnder(Len(infos) + 1)
  /\ main' = Len(tasks) + 1
  /\ pc' = "ready"
  /\ UNCHANGED <<info, running>>

\* run_all_ready: the next runnable is polled.
RunNext ==
  /\ pc = "ready" /\ queue # << >>
  /\ ~Killed(Head(queue))
  /\ queue' = Tail(queue)
  /\ running' = Head(queue)
  /\ tasks' = [tasks EXCEPT ![Head(queue)].state = "running"]
  /\ pc' = "poll"
  /\ UNCHANGED <<infos, info, main>>

\* The queue is empty: block_on returns if its task is done,
BlockOnEnds ==
  /\ pc = "ready" /\ queue = << >>
  /\ tasks[main].state = "done"
  /\ pc' = "outside"
  /\ UNCHANGED <<queue, infos, info, tasks, main, running>>

\* moves the clock if there is an event, and
BlockOnAdvances ==
  /\ pc = "ready" /\ queue = << >>
  /\ tasks[main].state # "done"
  /\ timer # {}
  /\ pc' = "advance"
  /\ UNCHANGED <<queue, infos, info, tasks, main, running>>

\* Mutant: the events are looked for before the main task is.
BlockOnPanicsFirst ==
  /\ pc = "ready" /\ queue = << >>
  /\ timer = {}
  /\ pc' = "panicked"
  /\ UNCHANGED <<queue, infos, info, tasks, main, running>>

\* panics if there is none.
BlockOnPanics ==
  /\ pc = "ready" /\ queue = << >>
  /\ tasks[main].state # "done"
  /\ timer = {}
  /\ pc' = "panicked"
  /\ UNCHANGED <<queue, infos, info, tasks, main, running>>
=============================================================================
