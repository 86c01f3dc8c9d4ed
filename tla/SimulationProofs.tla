-------------------------- MODULE SimulationProofs --------------------------
(***************************************************************************)
(* Proofs about the simulation runtime, for any number of nodes, tasks,    *)
(* messages and calls.                                                     *)
(*                                                                         *)
(* TypeInv is the type invariant with what the steps need: what is queued, *)
(* listens or is named by a timer is there.  TimersAhead says that no      *)
(* timer is behind the clock, nor behind the time being fired, which is    *)
(* why the clock only moves on.  Sleepers says that an idle task that      *)
(* waits until a time has its timer, whatever else woke it before.         *)
(*                                                                         *)
(* And that it loses no wake: WakeInv says that the queue holds the tasks  *)
(* that are scheduled, each once; that an idle task that receives listens; *)
(* and that a channel with a message and a listener has notified a task    *)
(* that has yet to run, which is what a dropped or satisfied listener      *)
(* hands on.                                                               *)
(***************************************************************************)
EXTENDS Simulation, SequenceTheorems, TLAPS

\* The waits that are possible with n tasks.
GoodWaits(n) ==
  {w \in Waits : /\ w.kind = "none" => w.deadline = Never
                 /\ w.kind = "recv" => w.on \in Addrs
                 /\ w.kind = "join" => w.deadline = Never /\ w.on \in 1..n}

\* The tasks that are possible with m infos and n tasks.
Task(m, n) == [info : 1..m, state : States, wait : GoodWaits(n)]

Callbacks(m, n) == ({"deliver"} \X (1..m)) \cup ({"wake"} \X (1..n))

TimeOK ==
  /\ clock \in Nat /\ firing \in Nat \cup {Idle}
  /\ timer \subseteq [deadline : Nat, callback : Callbacks(Len(sent), Len(tasks))]

NodesOK ==
  /\ infos \in Seq([addr : Addrs, killed : BOOLEAN])
  /\ info \in [Addrs -> 0..Len(infos)]

TasksOK == tasks \in Seq(Task(Len(infos), Len(tasks)))

RunOK ==
  /\ queue \in Seq(1..Len(tasks))
  /\ main \in 0..Len(tasks) /\ running \in 0..Len(tasks)
  /\ pc \in {"outside", "ready", "poll", "advance", "panicked"}
  /\ IF running = None THEN pc # "poll" ELSE pc \in {"poll", "panicked"}
  /\ pc # "outside" => main # None
  /\ pc = "poll" => tasks[running].state = "running"

NetOK ==
  /\ sent \in Seq([src : Addrs, dst : Addrs, at : Nat])
  /\ listening \in [Addrs -> Seq(1..Len(tasks))]

TypeInv == TimeOK /\ NodesOK /\ TasksOK /\ RunOK /\ NetOK

\* No timer is behind the clock, nor behind the time that is being fired.
TimersAhead ==
  /\ \A e \in timer : clock <= e.deadline
  /\ firing # Idle <=> pc = "advance"
  /\ firing # Idle => clock <= firing /\ \A e \in timer : firing <= e.deadline

Sleeping(t) == tasks[t].state = "idle" /\ tasks[t].wait.deadline # Never

Sleepers == \A t \in DOMAIN tasks : Sleeping(t) => Event(tasks[t].wait.deadline, <<"wake", t>>) \in timer

SimInv == TypeInv /\ TimersAhead /\ Sleepers /\ NothingOverslept /\ OneLifeAtATime

-----------------------------------------------------------------------------
(* Tasks. *)

\* More infos and more tasks keep the tasks there are.
LEMMA TasksGrow ==
  ASSUME NEW m \in Nat, NEW n \in Nat, NEW mm \in Nat, NEW nn \in Nat, m <= mm, n <= nn
  PROVE  /\ Task(m, n) \subseteq Task(mm, nn)
         /\ Seq(Task(m, n)) \subseteq Seq(Task(mm, nn))
<1>1. GoodWaits(n) \subseteq GoodWaits(nn)
  BY DEF GoodWaits
<1>2. Task(m, n) \subseteq Task(mm, nn)
  BY <1>1 DEF Task
<1>3. QED
  BY <1>2, SeqMonotonic

WithState(ts, t, s) == [ts EXCEPT ![t].state = s]
WithWait(ts, t, w)  == [ts EXCEPT ![t].wait = w]

\* A task that changes its state.
LEMMA StateSet ==
  ASSUME NEW m \in Nat, NEW n \in Nat, NEW ts \in Seq(Task(m, n)), NEW t \in 1..Len(ts),
         NEW s \in States
  PROVE  LET r == WithState(ts, t, s)
         IN /\ r \in Seq(Task(m, n)) /\ Len(r) = Len(ts) /\ DOMAIN r = DOMAIN ts
            /\ \A u \in DOMAIN ts : /\ r[u].wait = ts[u].wait /\ r[u].info = ts[u].info
                                    /\ r[u].state = IF u = t THEN s ELSE ts[u].state
<1>1. ts[t] \in Task(m, n) /\ DOMAIN ts = 1..Len(ts)
  BY ElementOfSeq, LenProperties
<1>2. [ts[t] EXCEPT !.state = s] \in Task(m, n)
  BY <1>1 DEF Task
<1>3. [ts EXCEPT ![t].state = s] = [ts EXCEPT ![t] = [ts[t] EXCEPT !.state = s]]
  BY <1>1
<1>4. /\ [ts EXCEPT ![t].state = s] \in Seq(Task(m, n))
      /\ Len([ts EXCEPT ![t].state = s]) = Len(ts)
  BY <1>2, <1>3, ExceptSeq
<1>5. ASSUME NEW u \in DOMAIN ts
      PROVE  /\ [ts EXCEPT ![t].state = s][u].wait = ts[u].wait
             /\ [ts EXCEPT ![t].state = s][u].info = ts[u].info
             /\ [ts EXCEPT ![t].state = s][u].state = IF u = t THEN s ELSE ts[u].state
  <2>1. ts[u] \in Task(m, n)
    BY <1>1, <1>5, ElementOfSeq
  <2>2. QED
    BY <1>1, <2>1 DEF Task
<1>6. QED
  BY <1>1, <1>4, <1>5 DEF WithState

\* A task that changes what it waits for.
LEMMA WaitSet ==
  ASSUME NEW m \in Nat, NEW n \in Nat, NEW ts \in Seq(Task(m, n)), NEW t \in 1..Len(ts),
         NEW w \in GoodWaits(n)
  PROVE  LET r == WithWait(ts, t, w)
         IN /\ r \in Seq(Task(m, n)) /\ Len(r) = Len(ts) /\ DOMAIN r = DOMAIN ts
            /\ \A u \in DOMAIN ts : /\ r[u].state = ts[u].state /\ r[u].info = ts[u].info
                                    /\ r[u].wait = IF u = t THEN w ELSE ts[u].wait
<1>1. ts[t] \in Task(m, n) /\ DOMAIN ts = 1..Len(ts)
  BY ElementOfSeq, LenProperties
<1>2. [ts[t] EXCEPT !.wait = w] \in Task(m, n)
  BY <1>1 DEF Task
<1>3. [ts EXCEPT ![t].wait = w] = [ts EXCEPT ![t] = [ts[t] EXCEPT !.wait = w]]
  BY <1>1
<1>4. /\ [ts EXCEPT ![t].wait = w] \in Seq(Task(m, n))
      /\ Len([ts EXCEPT ![t].wait = w]) = Len(ts)
  BY <1>2, <1>3, ExceptSeq
<1>5. ASSUME NEW u \in DOMAIN ts
      PROVE  /\ [ts EXCEPT ![t].wait = w][u].state = ts[u].state
             /\ [ts EXCEPT ![t].wait = w][u].info = ts[u].info
             /\ [ts EXCEPT ![t].wait = w][u].wait = IF u = t THEN w ELSE ts[u].wait
  <2>1. ts[u] \in Task(m, n)
    BY <1>1, <1>5, ElementOfSeq
  <2>2. QED
    BY <1>1, <2>1 DEF Task
<1>6. QED
  BY <1>1, <1>4, <1>5 DEF WithWait

\* Waking a task leaves it not idle, and what every task waits for alone.
LEMMA ScheduledProps ==
  ASSUME NEW m \in Nat, NEW n \in Nat, NEW ts \in Seq(Task(m, n)), NEW t \in 0..Len(ts)
  PROVE  LET r == Scheduled(ts, t)
         IN /\ r \in Seq(Task(m, n)) /\ Len(r) = Len(ts) /\ DOMAIN r = DOMAIN ts
            /\ \A u \in DOMAIN ts :
                 /\ r[u].wait = ts[u].wait /\ r[u].info = ts[u].info
                 /\ r[u].state = IF u = t /\ ts[u].state = "idle" THEN "scheduled"
                                ELSE ts[u].state
                 /\ r[u].state = "idle" => ts[u].state = "idle" /\ u # t
                 /\ ts[u].state # "idle" => r[u].state = ts[u].state
<1>1. "scheduled" \in States /\ DOMAIN ts = 1..Len(ts)
  BY LenProperties DEF States
<1>2. CASE t # None /\ ts[t].state = "idle"
  <2>1. t \in 1..Len(ts) /\ Scheduled(ts, t) = WithState(ts, t, "scheduled")
    BY <1>2 DEF Scheduled, None, WithState
  <2>2. QED
    BY <1>1, <1>2, <2>1, StateSet
<1>3. CASE ~(t # None /\ ts[t].state = "idle")
  <2>1. Scheduled(ts, t) = ts
    BY <1>3 DEF Scheduled
  <2>2. QED
    BY <1>1, <1>3, <2>1 DEF None
<1>4. QED
  BY <1>2, <1>3

\* The queue holds tasks.
LEMMA EnqueuedProps ==
  ASSUME NEW n \in Nat, NEW q \in Seq(1..n), NEW t \in 0..n
  PROVE  Enqueued(q, t) \in Seq(1..n)
<1>1. t # None => t \in 1..n
  BY DEF None
<1>2. QED
  BY <1>1, AppendProperties DEF Enqueued

-----------------------------------------------------------------------------
(* Listeners. *)

\* Removing a task from a list of tasks.
LEMMA WithoutProps ==
  ASSUME NEW n \in Nat, NEW s \in Seq(1..n), NEW t
  PROVE  Without(s, t) \in Seq(1..n)
<1>1. CASE \E i \in DOMAIN s : s[i] = t
  <2>1. PICK i \in DOMAIN s : Without(s, t) = SubSeq(s, 1, i - 1) \o SubSeq(s, i + 1, Len(s))
    BY <1>1 DEF Without
  <2>2. DOMAIN s = 1..Len(s) /\ Len(s) \in Nat /\ \A j \in 1..Len(s) : s[j] \in 1..n
    BY LenProperties, ElementOfSeq
  <2>3. \A j \in 1..(i - 1) : s[j] \in 1..n
    BY <2>2
  <2>4. \A j \in (i + 1)..Len(s) : s[j] \in 1..n
    BY <2>2
  <2>5. SubSeq(s, 1, i - 1) \in Seq(1..n)
    BY <2>2, <2>3, SubSeqProperties
  <2>6. SubSeq(s, i + 1, Len(s)) \in Seq(1..n)
    BY <2>2, <2>4, SubSeqProperties
  <2>7. QED
    BY <2>1, <2>5, <2>6, ConcatProperties
<1>2. CASE ~\E i \in DOMAIN s : s[i] = t
  BY <1>2 DEF Without
<1>3. QED
  BY <1>1, <1>2

\* Only tasks listen, and the one to wake is a task or none.
LEMMA ListenerProps ==
  ASSUME NetOK, NEW a \in Addrs, NEW t, Len(tasks) \in Nat
  PROVE  /\ First(listening[a]) \in 0..Len(tasks)
         /\ Successor(a, t) \in 0..Len(tasks)
         /\ \A n : Notify(a, listening[a], n) => listening' \in [Addrs -> Seq(1..Len(tasks))]
         /\ DropListener(a, t) => listening' \in [Addrs -> Seq(1..Len(tasks))]
         /\ Listen(a, t) /\ t \in 1..Len(tasks) =>
              listening' \in [Addrs -> Seq(1..Len(tasks))]
<1>1. listening[a] \in Seq(1..Len(tasks))
  BY DEF NetOK
<1>2. First(listening[a]) \in 0..Len(tasks)
  BY <1>1, HeadTailProperties DEF First, None
<1>3. ASSUME NEW n, Notify(a, listening[a], n)
      PROVE  listening' \in [Addrs -> Seq(1..Len(tasks))]
  <2>1. CASE listening[a] = << >>
    BY <1>1, <1>3, <2>1 DEF Notify, NetOK
  <2>2. CASE listening[a] # << >>
    <3>1. Tail(listening[a]) \in Seq(1..Len(tasks))
      BY <1>1, <2>2, HeadTailProperties
    <3>2. QED
      BY <1>3, <2>2, <3>1 DEF Notify, NetOK
  <2>3. QED
    BY <2>1, <2>2
<1>4. Without(listening[a], t) \in Seq(1..Len(tasks))
  BY <1>1, WithoutProps
<1>5. DropListener(a, t) => listening' \in [Addrs -> Seq(1..Len(tasks))]
  BY <1>3, <1>4 DEF DropListener, NetOK
<1>6. ASSUME Listen(a, t), t \in 1..Len(tasks)
      PROVE  listening' \in [Addrs -> Seq(1..Len(tasks))]
  <2>1. Append(Without(listening[a], t), t) \in Seq(1..Len(tasks))
    BY <1>4, <1>6, AppendProperties
  <2>2. QED
    BY <1>6, <2>1 DEF Listen, NetOK
<1>7. QED
  BY <1>2, <1>3, <1>5, <1>6 DEF Successor, None

\* With more tasks, what listens is still a task.
LEMMA ListeningGrows ==
  ASSUME NEW m \in Nat, NEW n \in Nat, m <= n
  PROVE  /\ Seq(1..m) \subseteq Seq(1..n)
         /\ [Addrs -> Seq(1..m)] \subseteq [Addrs -> Seq(1..n)]
<1>1. 1..m \subseteq 1..n
  OBVIOUS
<1>2. Seq(1..m) \subseteq Seq(1..n)
  BY <1>1, SeqMonotonic
<1>3. QED
  BY <1>2

-----------------------------------------------------------------------------
(* Steps in general. *)

\* No task becomes a sleeper.
Quiet ==
  \A u \in DOMAIN tasks' :
    tasks'[u].state = "idle" /\ tasks'[u].wait.deadline # Never =>
      /\ u \in DOMAIN tasks /\ tasks[u].state = "idle"
      /\ tasks'[u].wait = tasks[u].wait

\* A step that wakes nobody, moves no time and drops no timer keeps sleepers to their timers.
LEMMA SleepersKept ==
  ASSUME Sleepers, NothingOverslept, Quiet, timer \subseteq timer', UNCHANGED <<clock, firing>>
  PROVE  Sleepers' /\ NothingOverslept'
  BY DEF Sleepers, Sleeping, NothingOverslept, Quiet, Event

\* A task that is polled is there, runs, and has an address.
LEMMA PollFacts ==
  ASSUME SimInv, pc = "poll"
  PROVE  /\ running \in 1..Len(tasks) /\ running # None /\ running \in DOMAIN tasks
         /\ tasks[running] \in Task(Len(infos), Len(tasks))
         /\ tasks[running].wait \in GoodWaits(Len(tasks))
         /\ tasks[running].state = "running"
         /\ AddrOf(running) \in Addrs
         /\ firing = Idle
<1>1. running \in 1..Len(tasks) /\ running # None /\ tasks[running].state = "running"
  BY DEF SimInv, TypeInv, RunOK, None
<1>2. tasks[running] \in Task(Len(infos), Len(tasks)) /\ running \in DOMAIN tasks
  BY <1>1, ElementOfSeq, LenProperties DEF SimInv, TypeInv, TasksOK
<1>3. infos[tasks[running].info] \in [addr : Addrs, killed : BOOLEAN]
  BY <1>2, ElementOfSeq DEF SimInv, TypeInv, NodesOK, Task
<1>4. QED
  BY <1>1, <1>2, <1>3 DEF AddrOf, Task, SimInv, TimersAhead

\* The ranges of tasks and lives.
LEMMA Lengths ==
  ASSUME SimInv
  PROVE  /\ Len(tasks) \in Nat /\ Len(infos) \in Nat /\ Len(sent) \in Nat
         /\ DOMAIN tasks = 1..Len(tasks) /\ DOMAIN infos = 1..Len(infos)
         /\ \A t \in 1..Len(tasks) : tasks[t] \in Task(Len(infos), Len(tasks))
  BY LenProperties, ElementOfSeq DEF SimInv, TypeInv, NodesOK, TasksOK, NetOK

\* A step that leaves the time, the nodes and the number of tasks alone.
LEMMA Settled ==
  ASSUME SimInv,
         UNCHANGED <<clock, timer, firing, infos, info, sent>>,
         tasks' \in Seq(Task(Len(infos), Len(tasks))), Len(tasks') = Len(tasks),
         Quiet, RunOK',
         pc = "advance" <=> pc' = "advance",
         listening' \in [Addrs -> Seq(1..Len(tasks))]
  PROVE  SimInv'
<1>1. TimeOK' /\ NodesOK' /\ TasksOK' /\ NetOK'
  BY DEF SimInv, TypeInv, TimeOK, NodesOK, TasksOK, NetOK
<1>2. TimersAhead'
  BY DEF SimInv, TimersAhead
<1>3. Sleepers' /\ NothingOverslept'
  BY SleepersKept DEF SimInv
<1>4. OneLifeAtATime'
  BY DEF SimInv, OneLifeAtATime
<1>5. QED
  BY <1>1, <1>2, <1>3, <1>4 DEF SimInv, TypeInv

\* A step that leaves the tasks alone too.
LEMMA Idles ==
  ASSUME SimInv,
         UNCHANGED <<clock, timer, firing, infos, info, sent, tasks, listening>>,
         RunOK', pc = "advance" <=> pc' = "advance"
  PROVE  SimInv'
<1>1. Quiet
  BY Lengths DEF Quiet
<1>2. QED
  BY <1>1, Settled DEF SimInv, TypeInv, TasksOK, NetOK

\* The end of a wait.
LEMMA WaitEndsKeeps ==
  ASSUME SimInv, pc = "poll", NEW woken \in 0..Len(tasks), WaitEnds(woken),
         sent' = sent, listening' \in [Addrs -> Seq(1..Len(tasks))]
  PROVE  SimInv'
<1> DEFINE ts == WithWait(tasks, running, NoWait)
<1>1. /\ running \in 1..Len(tasks) /\ running \in DOMAIN tasks
      /\ tasks[running].state = "running"
  BY PollFacts
<1>2. NoWait \in GoodWaits(Len(tasks))
  BY DEF NoWait, GoodWaits, Waits, Never, None
<1>3. Len(tasks) \in Nat /\ Len(infos) \in Nat /\ tasks \in Seq(Task(Len(infos), Len(tasks)))
  BY Lengths DEF SimInv, TypeInv, TasksOK
<1>4. /\ ts \in Seq(Task(Len(infos), Len(tasks))) /\ Len(ts) = Len(tasks)
      /\ DOMAIN ts = DOMAIN tasks
      /\ \A u \in DOMAIN tasks : /\ ts[u].state = tasks[u].state
                                 /\ ts[u].wait = IF u = running THEN NoWait ELSE tasks[u].wait
  BY <1>1, <1>2, <1>3, WaitSet
<1> HIDE DEF ts
<1>5. tasks' = Scheduled(ts, woken)
  BY DEF WaitEnds, ts, WithWait
<1>6. /\ tasks' \in Seq(Task(Len(infos), Len(tasks))) /\ Len(tasks') = Len(tasks)
      /\ DOMAIN tasks' = DOMAIN tasks
      /\ \A u \in DOMAIN tasks :
           /\ tasks'[u].wait = ts[u].wait
           /\ tasks'[u].state = "idle" => ts[u].state = "idle" /\ u # woken
           /\ ts[u].state # "idle" => tasks'[u].state = ts[u].state
  BY <1>3, <1>4, <1>5, ScheduledProps
<1>7. Quiet
  BY <1>1, <1>4, <1>6 DEF Quiet, NoWait
<1>8. queue' \in Seq(1..Len(tasks))
  BY <1>3, EnqueuedProps DEF WaitEnds, SimInv, TypeInv, RunOK
<1>9. tasks'[running].state = "running"
  BY <1>1, <1>4, <1>6
<1>10. RunOK'
  BY <1>6, <1>8, <1>9 DEF WaitEnds, SimInv, TypeInv, RunOK
<1>11. QED
  BY <1>6, <1>7, <1>10, Settled DEF WaitEnds, time_vars

\* A poll that returns Pending, of a wait that is not over.
LEMMA PendsKeeps ==
  ASSUME SimInv, pc = "poll", Pends, ~Past(tasks[running].wait.deadline),
         sent' = sent, listening' \in [Addrs -> Seq(1..Len(tasks))]
  PROVE  SimInv'
<1> DEFINE d == tasks[running].wait.deadline
<1>1. /\ running \in 1..Len(tasks) /\ running \in DOMAIN tasks
      /\ tasks[running].wait \in GoodWaits(Len(tasks))
      /\ firing = Idle
  BY PollFacts
<1>2. /\ Len(tasks) \in Nat /\ Len(infos) \in Nat
      /\ tasks \in Seq(Task(Len(infos), Len(tasks)))
      /\ DOMAIN tasks = 1..Len(tasks)
  BY Lengths DEF SimInv, TypeInv, TasksOK
<1>3. /\ tasks' \in Seq(Task(Len(infos), Len(tasks))) /\ Len(tasks') = Len(tasks)
      /\ DOMAIN tasks' = DOMAIN tasks
      /\ \A u \in DOMAIN tasks :
           /\ tasks'[u].wait = tasks[u].wait
           /\ tasks'[u].state = IF u = running THEN "idle" ELSE tasks[u].state
  <2>1. tasks' = WithState(tasks, running, "idle") /\ "idle" \in States
    BY DEF Pends, WithState, States
  <2>2. QED
    BY <1>1, <1>2, <2>1, StateSet
<1>4. d \in Nat \cup {Never}
  BY <1>1 DEF GoodWaits, Waits
<1>5. d # Never => clock < d /\ d \in Nat
  BY <1>4 DEF Past, SimInv, TypeInv, TimeOK
<1>6. timer' = IF d = Never THEN timer ELSE timer \cup {Event(d, <<"wake", running>>)}
  BY DEF Pends, PendingTimer
<1>7. TimeOK'
  <2>1. <<"wake", running>> \in Callbacks(Len(sent), Len(tasks))
    BY <1>1 DEF Callbacks
  <2>2. d # Never => Event(d, <<"wake", running>>) \in
                       [deadline : Nat, callback : Callbacks(Len(sent), Len(tasks))]
    BY <1>5, <2>1 DEF Event
  <2>3. timer' \subseteq [deadline : Nat, callback : Callbacks(Len(sent), Len(tasks))]
    BY <1>6, <2>2 DEF SimInv, TypeInv, TimeOK
  <2>4. QED
    BY <1>3, <2>3 DEF Pends, SimInv, TypeInv, TimeOK
<1>8. TimersAhead'
  <2>1. clock' = clock /\ firing' = Idle /\ pc' = "ready" /\ clock \in Nat
    BY <1>1 DEF Pends, SimInv, TypeInv, TimeOK
  <2>2. \A e \in timer : clock <= e.deadline
    BY DEF SimInv, TimersAhead
  <2>3. Event(d, <<"wake", running>>).deadline = d
    BY DEF Event
  <2>4. \A e \in timer' : clock <= e.deadline
    BY <1>5, <1>6, <2>1, <2>2, <2>3
  <2>5. QED
    BY <2>1, <2>4 DEF TimersAhead
<1>9. Sleepers' /\ NothingOverslept'
  <2>1. ASSUME NEW u \in DOMAIN tasks', Sleeping(u)'
        PROVE  /\ Event(tasks'[u].wait.deadline, <<"wake", u>>) \in timer'
               /\ clock' < tasks'[u].wait.deadline
    <3>1. CASE u = running
      <4>1. tasks'[u].wait.deadline = d /\ d # Never /\ clock' = clock
        BY <1>1, <1>3, <2>1, <3>1 DEF Sleeping, Pends
      <4>2. QED
        BY <1>5, <1>6, <3>1, <4>1
    <3>2. CASE u # running
      BY <1>1, <1>3, <1>6, <2>1, <3>2 DEF Sleeping, Sleepers, NothingOverslept, SimInv, Pends
    <3>3. QED
      BY <3>1, <3>2
  <2>2. firing' = Idle
    BY <1>1 DEF Pends
  <2>3. QED
    BY <2>1, <2>2 DEF Sleepers, Sleeping, NothingOverslept
<1>10. RunOK'
  BY <1>3 DEF Pends, SimInv, TypeInv, RunOK, None
<1>11. NodesOK' /\ TasksOK' /\ NetOK' /\ OneLifeAtATime'
  BY <1>3 DEF Pends, SimInv, TypeInv, NodesOK, TasksOK, NetOK, OneLifeAtATime
<1>12. QED
  BY <1>7, <1>8, <1>9, <1>10, <1>11 DEF SimInv, TypeInv

\* A handle's TaskInfo, the one that was there or a new one.
LEMMA LocalInfoKeeps ==
  ASSUME SimInv, NEW a \in Addrs, LocalInfo(a)
  PROVE  /\ NodesOK' /\ OneLifeAtATime'
         /\ Len(infos') \in Nat /\ Len(infos) <= Len(infos')
         /\ info'[a] \in 1..Len(infos')
<1>1. /\ infos \in Seq([addr : Addrs, killed : BOOLEAN]) /\ info \in [Addrs -> 0..Len(infos)]
      /\ Len(infos) \in Nat /\ DOMAIN infos = 1..Len(infos)
  BY Lengths DEF SimInv, TypeInv, NodesOK
<1>2. CASE info[a] # None
  BY <1>1, <1>2 DEF LocalInfo, SimInv, TypeInv, NodesOK, OneLifeAtATime, None
<1>3. CASE info[a] = None
  <2>1. /\ infos' = Append(infos, [addr |-> a, killed |-> FALSE])
        /\ info' = [info EXCEPT ![a] = Len(infos) + 1]
    BY <1>3 DEF LocalInfo
  <2>2. /\ infos' \in Seq([addr : Addrs, killed : BOOLEAN])
        /\ Len(infos') = Len(infos) + 1
        /\ \A i \in 1..Len(infos) : infos'[i] = infos[i]
        /\ infos'[Len(infos) + 1] = [addr |-> a, killed |-> FALSE]
    BY <1>1, <2>1, AppendProperties
  <2>3. DOMAIN infos' = 1..(Len(infos) + 1)
    BY <2>2, LenProperties
  <2>4. NodesOK'
    BY <1>1, <2>1, <2>2 DEF NodesOK
  <2>5. OneLifeAtATime'
    <3>1. ASSUME NEW i \in DOMAIN infos', infos'[i].addr # MainAddr, ~infos'[i].killed
          PROVE  info'[infos'[i].addr] = i
      <4>1. CASE i = Len(infos) + 1
        BY <1>1, <2>1, <2>2, <4>1
      <4>2. CASE i \in 1..Len(infos)
        <5>1. info[infos[i].addr] = i /\ infos'[i] = infos[i] /\ infos[i].addr \in Addrs
          <6>1. infos[i] \in [addr : Addrs, killed : BOOLEAN] /\ infos'[i] = infos[i]
            BY <1>1, <2>2, <4>2, ElementOfSeq
          <6>2. QED
            BY <1>1, <3>1, <4>2, <6>1 DEF SimInv, OneLifeAtATime
        <5>2. infos[i].addr # a
          BY <1>3, <4>2, <5>1 DEF None
        <5>3. QED
          BY <1>1, <2>1, <5>1, <5>2
      <4>3. QED
        BY <1>1, <2>3, <3>1, <4>1, <4>2
    <3>2. QED
      BY <3>1 DEF OneLifeAtATime
  <2>6. QED
    BY <1>1, <2>1, <2>2, <2>4, <2>5
<1>4. QED
  BY <1>2, <1>3

\* A task is started.
LEMMA SpawnKeeps ==
  ASSUME SimInv, NodesOK', OneLifeAtATime',
         Len(infos') \in Nat, Len(infos) <= Len(infos'),
         NEW i \in 1..Len(infos'), SpawnUnder(i),
         UNCHANGED <<clock, timer, firing, sent, listening, running>>,
         \/ UNCHANGED <<main, pc>>
         \/ main' = Len(tasks) + 1 /\ pc = "outside" /\ pc' = "ready"
  PROVE  SimInv'
<1>1. /\ Len(tasks) \in Nat /\ Len(infos) \in Nat /\ DOMAIN tasks = 1..Len(tasks)
      /\ tasks \in Seq(Task(Len(infos), Len(tasks)))
  BY Lengths DEF SimInv, TypeInv, TasksOK
<1>2. tasks \in Seq(Task(Len(infos'), Len(tasks) + 1))
  BY <1>1, TasksGrow
<1>3. NewTask(i) \in Task(Len(infos'), Len(tasks) + 1)
  BY <1>1 DEF NewTask, Task, States, GoodWaits, Waits, NoWait, Never, None
<1>4. /\ tasks' \in Seq(Task(Len(infos'), Len(tasks) + 1)) /\ Len(tasks') = Len(tasks) + 1
      /\ \A t \in 1..Len(tasks) : tasks'[t] = tasks[t]
      /\ tasks'[Len(tasks) + 1] = NewTask(i)
  BY <1>2, <1>3, AppendProperties DEF SpawnUnder
<1>5. DOMAIN tasks' = 1..(Len(tasks) + 1)
  BY <1>4, LenProperties
<1>6. queue' \in Seq(1..(Len(tasks) + 1))
  <2>1. queue \in Seq(1..(Len(tasks) + 1))
    BY <1>1, ListeningGrows DEF SimInv, TypeInv, RunOK
  <2>2. QED
    BY <1>1, <2>1, AppendProperties DEF SpawnUnder
<1>7. RunOK'
  BY <1>1, <1>4, <1>6 DEF SimInv, TypeInv, RunOK, None
<1>8. NetOK'
  BY <1>1, <1>4, ListeningGrows DEF SimInv, TypeInv, NetOK
<1>9. TimeOK'
  <2>1. Callbacks(Len(sent), Len(tasks)) \subseteq Callbacks(Len(sent), Len(tasks) + 1)
    BY <1>1 DEF Callbacks
  <2>2. QED
    BY <1>4, <2>1 DEF SimInv, TypeInv, TimeOK
<1>10. Quiet
  BY <1>1, <1>4, <1>5 DEF Quiet, NewTask
<1>11. Sleepers' /\ NothingOverslept'
  BY <1>10, SleepersKept DEF SimInv
<1>12. TimersAhead' /\ TasksOK'
  BY <1>4 DEF SimInv, TimersAhead, TasksOK
<1>13. QED
  BY <1>7, <1>8, <1>9, <1>11, <1>12 DEF SimInv, TypeInv

-----------------------------------------------------------------------------
(* The invariant. *)

LEMMA SimInvInit == Init => SimInv
<1> SUFFICES ASSUME Init
             PROVE  SimInv
  OBVIOUS
<1>1. TypeInv
  BY EmptySeq DEF Init, TimeInit, TasksInit, NetworkInit, TypeInv, TimeOK, NodesOK, TasksOK,
                  RunOK, NetOK, None, Idle
<1>2. TimersAhead
  BY DEF Init, TimeInit, TasksInit, TimersAhead
<1>3. DOMAIN tasks = {} /\ DOMAIN infos = {}
  BY DEF Init, TasksInit
<1>4. QED
  BY <1>1, <1>2, <1>3 DEF SimInv, Sleepers, NothingOverslept, OneLifeAtATime

LEMMA CallsKeep == SimInv /\ (BlockOn \/ Calls) => SimInv'
<1> SUFFICES ASSUME SimInv, BlockOn \/ Calls
             PROVE  SimInv'
  OBVIOUS
<1>0. ASSUME Calling
      PROVE  pc # "advance"
  BY <1>0 DEF Calling, Polling
<1>1. CASE BlockOn
  <2>1. /\ infos' = Append(infos, [addr |-> MainAddr, killed |-> FALSE])
        /\ SpawnUnder(Len(infos) + 1) /\ main' = Len(tasks) + 1
        /\ pc = "outside" /\ pc' = "ready"
        /\ UNCHANGED <<clock, timer, firing, sent, listening, running, info>>
    BY <1>1 DEF BlockOn, BlockOnBegins, time_vars, net_vars
  <2>2. /\ infos \in Seq([addr : Addrs, killed : BOOLEAN]) /\ Len(infos) \in Nat
        /\ info \in [Addrs -> 0..Len(infos)] /\ DOMAIN infos = 1..Len(infos)
        /\ [addr |-> MainAddr, killed |-> FALSE] \in [addr : Addrs, killed : BOOLEAN]
    BY Lengths, AddrsAssumption DEF SimInv, TypeInv, NodesOK
  <2>3. /\ infos' \in Seq([addr : Addrs, killed : BOOLEAN]) /\ Len(infos') = Len(infos) + 1
        /\ \A i \in 1..Len(infos) : infos'[i] = infos[i]
        /\ infos'[Len(infos) + 1].addr = MainAddr
    BY <2>1, <2>2, AppendProperties
  <2>4. DOMAIN infos' = 1..(Len(infos) + 1)
    BY <2>3, LenProperties
  <2>5. NodesOK'
    BY <2>1, <2>2, <2>3 DEF NodesOK
  <2>6. OneLifeAtATime'
    BY <2>1, <2>2, <2>3, <2>4 DEF SimInv, OneLifeAtATime
  <2>7. QED
    BY <2>1, <2>2, <2>3, <2>5, <2>6, SpawnKeeps
<1>2. ASSUME NEW a \in Addrs, Spawn(a)
      PROVE  SimInv'
  <2>1. /\ LocalInfo(a) /\ SpawnUnder(info'[a])
        /\ UNCHANGED <<clock, timer, firing, sent, listening, running, main, pc>>
    BY <1>2 DEF Spawn, time_vars
  <2>2. QED
    BY <2>1, LocalInfoKeeps, SpawnKeeps
<1>3. ASSUME NEW i \in DOMAIN infos, SpawnStale(i)
      PROVE  SimInv'
  <2>1. /\ SpawnUnder(i) /\ i \in 1..Len(infos) /\ Len(infos) \in Nat
        /\ UNCHANGED <<infos, info, clock, timer, firing, sent, listening, running, main, pc>>
    BY <1>3, Lengths DEF SpawnStale, time_vars, net_vars
  <2>2. NodesOK' /\ OneLifeAtATime'
    BY <2>1 DEF SimInv, TypeInv, NodesOK, OneLifeAtATime
  <2>3. QED
    BY <2>1, <2>2, SpawnKeeps
<1>4. CASE SpawnHere
  <2>1. /\ LocalInfo(AddrOf(running)) /\ SpawnUnder(info'[AddrOf(running)])
        /\ UNCHANGED <<clock, timer, firing, sent, listening, running, main, pc>>
        /\ pc = "poll"
    BY <1>4 DEF SpawnHere, Polling, time_vars, net_vars
  <2>2. AddrOf(running) \in Addrs
    BY <2>1, PollFacts
  <2>3. QED
    BY <2>1, <2>2, LocalInfoKeeps, SpawnKeeps
<1>5. ASSUME NEW a \in Addrs, KillNode(a)
      PROVE  SimInv'
  <2>1. /\ info' = [info EXCEPT ![a] = None]
        /\ infos' = IF info[a] = None THEN infos ELSE [infos EXCEPT ![info[a]].killed = TRUE]
        /\ UNCHANGED <<clock, timer, firing, sent, listening, queue, tasks, main, running, pc>>
    BY <1>5 DEF KillNode, Kill, time_vars, net_vars
  <2>2. /\ infos \in Seq([addr : Addrs, killed : BOOLEAN]) /\ Len(infos) \in Nat
        /\ info \in [Addrs -> 0..Len(infos)] /\ DOMAIN infos = 1..Len(infos)
    BY Lengths DEF SimInv, TypeInv, NodesOK
  <2>3. /\ infos' \in Seq([addr : Addrs, killed : BOOLEAN]) /\ Len(infos') = Len(infos)
        /\ DOMAIN infos' = DOMAIN infos
        /\ \A i \in DOMAIN infos : /\ infos'[i].addr = infos[i].addr
                                   /\ ~infos'[i].killed => ~infos[i].killed /\ i # info[a]
    <3>1. CASE info[a] = None
      BY <2>1, <2>2, <3>1 DEF None
    <3>2. CASE info[a] # None
      <4>1. info[a] \in 1..Len(infos)
        BY <2>2, <3>2 DEF None
      <4>2. infos[info[a]] \in [addr : Addrs, killed : BOOLEAN]
        BY <2>2, <4>1, ElementOfSeq
      <4>3. [infos[info[a]] EXCEPT !.killed = TRUE] \in [addr : Addrs, killed : BOOLEAN]
        BY <4>2
      <4>4. infos' = [infos EXCEPT ![info[a]] = [infos[info[a]] EXCEPT !.killed = TRUE]]
        BY <2>1, <2>2, <3>2, <4>1
      <4>5. /\ infos' \in Seq([addr : Addrs, killed : BOOLEAN]) /\ Len(infos') = Len(infos)
            /\ \A i \in 1..Len(infos) :
                 infos'[i] = IF i = info[a] THEN [infos[info[a]] EXCEPT !.killed = TRUE]
                             ELSE infos[i]
        BY <2>2, <4>1, <4>3, <4>4, ExceptSeq
      <4>6. DOMAIN infos' = 1..Len(infos)
        BY <4>5, LenProperties
      <4>7. \A i \in 1..Len(infos) : infos[i] \in [addr : Addrs, killed : BOOLEAN]
        BY <2>2, ElementOfSeq
      <4>8. QED
        BY <2>2, <4>2, <4>5, <4>6, <4>7
    <3>3. QED
      BY <3>1, <3>2
  <2>4. NodesOK'
    BY <2>1, <2>2, <2>3 DEF NodesOK, None
  <2>5. OneLifeAtATime'
    <3>1. ASSUME NEW i \in DOMAIN infos', infos'[i].addr # MainAddr, ~infos'[i].killed
          PROVE  info'[infos'[i].addr] = i
      <4>1. infos[i].addr # MainAddr /\ ~infos[i].killed /\ i # info[a] /\ i \in DOMAIN infos
        BY <2>3, <3>1
      <4>2. info[infos[i].addr] = i
        BY <4>1 DEF SimInv, OneLifeAtATime
      <4>3. infos[i].addr # a
        BY <4>1, <4>2
      <4>4. QED
        BY <2>1, <2>2, <2>3, <4>1, <4>2, <4>3
    <3>2. QED
      BY <3>1 DEF OneLifeAtATime
  <2>6. TimeOK' /\ TasksOK' /\ RunOK' /\ NetOK' /\ TimersAhead'
    BY <2>1, <2>3 DEF SimInv, TypeInv, TimeOK, TasksOK, RunOK, NetOK, TimersAhead
  <2>7. Sleepers' /\ NothingOverslept'
    BY <2>1 DEF SimInv, Sleepers, Sleeping, NothingOverslept
  <2>8. QED
    BY <2>4, <2>5, <2>6, <2>7 DEF SimInv, TypeInv
<1>6. ASSUME NEW dst \in Addrs, SendTo(dst)
      PROVE  SimInv'
  <2>1. /\ pc = "poll" /\ Send(AddrOf(running), dst)
        /\ UNCHANGED <<clock, firing, listening, task_vars>>
    BY <1>6 DEF SendTo, Polling, Send
  <2>2. AddrOf(running) \in Addrs /\ firing = Idle /\ clock \in Nat /\ Len(sent) \in Nat
    BY <2>1, PollFacts, Lengths DEF SimInv, TypeInv, TimeOK
  <2>3. sent' = Append(sent, Message(AddrOf(running), dst))
    BY <2>1 DEF Send
  <2>4. /\ sent' \in Seq([src : Addrs, dst : Addrs, at : Nat]) /\ Len(sent') = Len(sent) + 1
    <3>1. Message(AddrOf(running), dst) \in [src : Addrs, dst : Addrs, at : Nat]
      BY <2>2 DEF Message
    <3>2. QED
      BY <2>3, <3>1, AppendProperties DEF SimInv, TypeInv, NetOK
  <2>5. /\ timer \subseteq timer'
        /\ \A e \in timer' \ timer : \E l \in Latencies :
             e = Event(clock + l, <<"deliver", Len(sent) + 1>>)
    BY <2>1 DEF Send, After
  <2>6. \A e \in timer' \ timer : /\ e \in [deadline : Nat,
                                            callback : Callbacks(Len(sent) + 1, Len(tasks))]
                                  /\ clock <= e.deadline
    BY <2>2, <2>5, LatenciesAssumption DEF Event, Callbacks
  <2>7. TimeOK'
    <3>1. Callbacks(Len(sent), Len(tasks)) \subseteq Callbacks(Len(sent) + 1, Len(tasks))
      BY <2>2 DEF Callbacks
    <3>2. QED
      BY <2>1, <2>4, <2>5, <2>6, <3>1 DEF SimInv, TypeInv, TimeOK, task_vars
  <2>8. TimersAhead'
    BY <2>1, <2>2, <2>5, <2>6 DEF SimInv, TimersAhead, task_vars
  <2>9. Sleepers' /\ NothingOverslept'
    BY <2>1, <2>5 DEF SimInv, Sleepers, Sleeping, NothingOverslept, task_vars
  <2>10. NodesOK' /\ TasksOK' /\ RunOK' /\ NetOK' /\ OneLifeAtATime'
    BY <2>1, <2>4 DEF SimInv, TypeInv, NodesOK, TasksOK, RunOK, NetOK, OneLifeAtATime, task_vars
  <2>11. QED
    BY <2>7, <2>8, <2>9, <2>10 DEF SimInv, TypeInv
<1>7. CASE ChangeLink \/ Take
  <2>1. UNCHANGED <<time_vars, task_vars, sent, listening>>
    BY <1>7 DEF ChangeLink, Take, Connect, Disconnect, SetPacketLossRate, TryRecv
  <2>2. RunOK'
    BY <2>1 DEF SimInv, TypeInv, RunOK, task_vars
  <2>3. QED
    BY <2>1, <2>2, Idles DEF time_vars, task_vars
<1>8. CASE UseFiles \/ FileOverrun
  <2>1. /\ UNCHANGED <<time_vars, queue, infos, info, tasks, main, running, net_vars>>
        /\ pc' \in {pc, "panicked"} /\ pc = "poll"
    BY <1>8 DEF UseFiles, FileOverrun, Polling, task_vars
  <2>2. RunOK'
    BY <2>1 DEF SimInv, TypeInv, RunOK
  <2>3. QED
    BY <2>1, <2>2, Idles DEF time_vars, net_vars
<1>9. QED
  BY <1>1, <1>2, <1>3, <1>4, <1>5, <1>6, <1>7, <1>8 DEF Calls

LEMMA PollsKeep == SimInv /\ Polls => SimInv'
<1> SUFFICES ASSUME SimInv, Polls
             PROVE  SimInv'
  OBVIOUS
<1>1. /\ pc = "poll" /\ running \in 1..Len(tasks) /\ running \in DOMAIN tasks
      /\ tasks[running].wait \in GoodWaits(Len(tasks)) /\ tasks[running].state = "running"
      /\ AddrOf(running) \in Addrs /\ firing = Idle
  <2>1. pc = "poll"
    BY DEF Polls, BeginWait, BeginJoin, SleepEnds, SleepPends, RecvEnds, RecvElapses, RecvPends,
           JoinEnds, JoinPanics, JoinPends, Finish, Polling, Waiting
  <2>2. QED
    BY <2>1, PollFacts
<1>2. /\ Len(tasks) \in Nat /\ Len(infos) \in Nat /\ DOMAIN tasks = 1..Len(tasks)
      /\ tasks \in Seq(Task(Len(infos), Len(tasks))) /\ clock \in Nat
  BY Lengths DEF SimInv, TypeInv, TasksOK, TimeOK
<1>3. listening \in [Addrs -> Seq(1..Len(tasks))] /\ NetOK
  BY DEF SimInv, TypeInv, NetOK
<1>4. 0 \in 0..Len(tasks) /\ None = 0
  BY <1>2 DEF None
<1>5. tasks[running].wait.kind = "recv" => tasks[running].wait.on \in Addrs
  BY <1>1 DEF GoodWaits
<1>6. CASE BeginWait \/ BeginJoin
  <2>1. PICK w \in GoodWaits(Len(tasks)) : tasks' = WithWait(tasks, running, w)
    <3>1. CASE BeginWait
      <4>1. \A d \in Durations : After(d) \in Nat
        BY <1>2, DurationsAssumption DEF After
      <4>2. \A d \in Durations :
              [kind |-> "sleep", deadline |-> After(d), on |-> None] \in GoodWaits(Len(tasks))
        BY <4>1 DEF GoodWaits, Waits, None
      <4>3. \A deadline \in {Never} \cup {After(d) : d \in Durations} :
              [kind |-> "recv", deadline |-> deadline, on |-> AddrOf(running)]
                \in GoodWaits(Len(tasks))
        BY <1>1, <4>1 DEF GoodWaits, Waits
      <4>4. QED
        BY <3>1, <4>2, <4>3 DEF BeginWait, WaitFor, WithWait
    <3>2. CASE BeginJoin
      <4>1. \A t \in DOMAIN tasks :
              [kind |-> "join", deadline |-> Never, on |-> t] \in GoodWaits(Len(tasks))
        BY <1>2 DEF GoodWaits, Waits
      <4>2. QED
        BY <3>2, <4>1 DEF BeginJoin, WaitFor, WithWait
    <3>3. QED
      BY <1>6, <3>1, <3>2
  <2>2. /\ tasks' \in Seq(Task(Len(infos), Len(tasks))) /\ Len(tasks') = Len(tasks)
        /\ DOMAIN tasks' = DOMAIN tasks
        /\ \A u \in DOMAIN tasks : /\ tasks'[u].state = tasks[u].state
                                   /\ tasks'[u].wait = IF u = running THEN w ELSE tasks[u].wait
    BY <1>1, <1>2, <2>1, WaitSet
  <2>3. UNCHANGED <<clock, timer, firing, infos, info, sent, listening, queue, main, running, pc>>
    BY <1>6 DEF BeginWait, BeginJoin, time_vars, net_vars
  <2>4. Quiet
    BY <1>1, <2>2 DEF Quiet
  <2>5. RunOK'
    BY <1>1, <2>2, <2>3 DEF SimInv, TypeInv, RunOK
  <2>6. QED
    BY <1>3, <2>2, <2>3, <2>4, <2>5, Settled
<1>7. CASE SleepEnds \/ JoinEnds
  BY <1>1, <1>3, <1>4, <1>7, WaitEndsKeeps DEF SleepEnds, JoinEnds, net_vars
<1>8. CASE RecvEnds \/ RecvElapses
  <2>1. /\ tasks[running].wait.on \in Addrs /\ sent' = sent
        /\ DropListener(tasks[running].wait.on, running)
        /\ WaitEnds(Successor(tasks[running].wait.on, running))
    BY <1>5, <1>8 DEF RecvEnds, RecvElapses, Waiting
  <2>2. QED
    BY <1>1, <1>2, <1>3, <2>1, ListenerProps, WaitEndsKeeps
<1>9. CASE SleepPends
  BY <1>1, <1>3, <1>9, PendsKeeps DEF SleepPends, net_vars
<1>10. CASE RecvPends
  <2>1. /\ tasks[running].wait.on \in Addrs /\ sent' = sent
        /\ Listen(tasks[running].wait.on, running) /\ Pends
        /\ ~Past(tasks[running].wait.deadline)
    BY <1>5, <1>10 DEF RecvPends, Waiting
  <2>2. QED
    BY <1>1, <1>2, <1>3, <2>1, ListenerProps, PendsKeeps
<1>11. CASE JoinPends
  <2>1. tasks[running].wait.deadline = Never
    BY <1>1, <1>11 DEF JoinPends, Waiting, GoodWaits
  <2>2. QED
    BY <1>1, <1>3, <1>11, <2>1, PendsKeeps DEF JoinPends, Past, net_vars
<1>12. CASE JoinPanics
  <2>1. /\ UNCHANGED <<clock, timer, firing, infos, info, sent, tasks, listening>>
        /\ UNCHANGED <<queue, main, running>> /\ pc' = "panicked"
    BY <1>12 DEF JoinPanics, time_vars, net_vars
  <2>2. RunOK'
    BY <1>1, <2>1 DEF SimInv, TypeInv, RunOK
  <2>3. QED
    BY <1>1, <2>1, <2>2, Idles
<1>13. CASE Finish
  <2>1. Joiner(running) \in 0..Len(tasks)
    BY <1>4 DEF Joiner, SimInv, TypeInv, RunOK
  <2>2. /\ tasks' = Scheduled(WithState(tasks, running, "done"), Joiner(running))
        /\ queue' = Enqueued(queue, Joiner(running))
        /\ running' = None /\ pc' = "ready"
        /\ UNCHANGED <<clock, timer, firing, infos, info, main, sent, listening>>
    BY <1>13 DEF Finish, WithState, time_vars, net_vars
  <2> DEFINE ts == WithState(tasks, running, "done")
  <2>3. "done" \in States
    BY DEF States
  <2>4. /\ ts \in Seq(Task(Len(infos), Len(tasks))) /\ Len(ts) = Len(tasks)
        /\ DOMAIN ts = DOMAIN tasks
        /\ \A u \in DOMAIN tasks :
             /\ ts[u].wait = tasks[u].wait
             /\ ts[u].state = IF u = running THEN "done" ELSE tasks[u].state
    BY <1>1, <1>2, <2>3, StateSet
  <2> HIDE DEF ts
  <2>5. /\ tasks' \in Seq(Task(Len(infos), Len(tasks))) /\ Len(tasks') = Len(tasks)
        /\ DOMAIN tasks' = DOMAIN tasks
        /\ \A u \in DOMAIN tasks : /\ tasks'[u].wait = ts[u].wait
                                   /\ tasks'[u].state = "idle" => ts[u].state = "idle"
    BY <1>2, <2>1, <2>2, <2>4, ScheduledProps DEF ts
  <2>6. Quiet
    BY <2>4, <2>5 DEF Quiet
  <2>7. queue' \in Seq(1..Len(tasks))
    BY <1>2, <2>1, <2>2, EnqueuedProps DEF SimInv, TypeInv, RunOK
  <2>8. RunOK'
    BY <1>1, <1>4, <2>2, <2>5, <2>7 DEF SimInv, TypeInv, RunOK
  <2>9. QED
    BY <1>1, <1>3, <2>2, <2>5, <2>6, <2>8, Settled
<1>14. QED
  BY <1>6, <1>7, <1>8, <1>9, <1>10, <1>11, <1>12, <1>13 DEF Polls

LEMMA ExecutesKeep == SimInv /\ Executes => SimInv'
<1> SUFFICES ASSUME SimInv, Executes
             PROVE  SimInv'
  OBVIOUS
<1>1. /\ Len(tasks) \in Nat /\ Len(infos) \in Nat /\ DOMAIN tasks = 1..Len(tasks)
      /\ tasks \in Seq(Task(Len(infos), Len(tasks))) /\ queue \in Seq(1..Len(tasks))
      /\ \A t \in 1..Len(tasks) : tasks[t] \in Task(Len(infos), Len(tasks))
  BY Lengths DEF SimInv, TypeInv, TasksOK, RunOK
<1>2. listening \in [Addrs -> Seq(1..Len(tasks))] /\ NetOK
  BY DEF SimInv, TypeInv, NetOK
<1>3. None = 0 /\ None \in 0..Len(tasks)
  BY <1>1 DEF None
<1>4. queue # << >> => Head(queue) \in 1..Len(tasks) /\ Tail(queue) \in Seq(1..Len(tasks))
  BY <1>1, HeadTailProperties
<1>5. CASE Run
  <2>1. /\ queue # << >> /\ queue' = Tail(queue) /\ running' = Head(queue)
        /\ tasks' = WithState(tasks, Head(queue), "running")
        /\ pc = "ready" /\ pc' = "poll"
        /\ UNCHANGED <<clock, timer, firing, infos, info, main, sent, listening>>
    BY <1>5 DEF Run, RunNext, WithState, time_vars, net_vars
  <2>2. "running" \in States
    BY DEF States
  <2>3. /\ tasks' \in Seq(Task(Len(infos), Len(tasks))) /\ Len(tasks') = Len(tasks)
        /\ DOMAIN tasks' = DOMAIN tasks
        /\ \A u \in DOMAIN tasks :
             /\ tasks'[u].wait = tasks[u].wait
             /\ tasks'[u].state = IF u = Head(queue) THEN "running" ELSE tasks[u].state
    BY <1>1, <1>4, <2>1, <2>2, StateSet
  <2>4. Quiet
    BY <2>3 DEF Quiet
  <2>5. RunOK'
    BY <1>1, <1>4, <1>3, <2>1, <2>3 DEF SimInv, TypeInv, RunOK
  <2>6. QED
    BY <1>2, <2>1, <2>3, <2>4, <2>5, Settled
<1>6. CASE SkipKilled
  <2> DEFINE t    == Head(queue)
             a    == tasks[t].wait.on
             next == IF tasks[t].wait.kind = "recv" THEN Successor(a, t) ELSE None
             ts   == WithState(tasks, t, "dropped")
  <2>1. /\ queue # << >> /\ pc = "ready"
        /\ tasks' = Scheduled(Scheduled(ts, next), Joiner(t))
        /\ queue' = Enqueued(Enqueued(Tail(queue), next), Joiner(t))
        /\ IF tasks[t].wait.kind = "recv" THEN DropListener(a, t)
           ELSE UNCHANGED <<listening, notified>>
        /\ UNCHANGED <<clock, timer, firing, infos, info, main, running, pc, sent>>
    BY <1>6 DEF SkipKilled, WithState, time_vars
  <2>2. t \in 1..Len(tasks) /\ (tasks[t].wait.kind = "recv" => a \in Addrs)
    BY <1>1, <1>4, <2>1 DEF Task, GoodWaits
  <2>3. next \in 0..Len(tasks) /\ Joiner(t) \in 0..Len(tasks)
    BY <1>1, <1>2, <1>3, <2>2, ListenerProps DEF Joiner, SimInv, TypeInv, RunOK
  <2>4. listening' \in [Addrs -> Seq(1..Len(tasks))]
    BY <1>1, <1>2, <2>1, <2>2, ListenerProps
  <2>5. "dropped" \in States
    BY DEF States
  <2> HIDE DEF t, a, next
  <2>6. /\ ts \in Seq(Task(Len(infos), Len(tasks))) /\ Len(ts) = Len(tasks)
        /\ DOMAIN ts = DOMAIN tasks
        /\ \A u \in DOMAIN tasks :
             /\ ts[u].wait = tasks[u].wait
             /\ ts[u].state = IF u = t THEN "dropped" ELSE tasks[u].state
    BY <1>1, <2>2, <2>5, StateSet
  <2> HIDE DEF ts
  <2> DEFINE tt == Scheduled(ts, next)
  <2>7. /\ tt \in Seq(Task(Len(infos), Len(tasks))) /\ Len(tt) = Len(tasks)
        /\ DOMAIN tt = DOMAIN tasks
        /\ \A u \in DOMAIN tasks : /\ tt[u].wait = ts[u].wait
                                   /\ tt[u].state = "idle" => ts[u].state = "idle"
    BY <1>1, <2>3, <2>6, ScheduledProps
  <2>8. tasks' = Scheduled(tt, Joiner(t))
    BY <2>1
  <2> HIDE DEF tt
  <2>9. /\ tasks' \in Seq(Task(Len(infos), Len(tasks))) /\ Len(tasks') = Len(tasks)
        /\ DOMAIN tasks' = DOMAIN tasks
        /\ \A u \in DOMAIN tasks : /\ tasks'[u].wait = tt[u].wait
                                   /\ tasks'[u].state = "idle" => tt[u].state = "idle"
    BY <1>1, <2>3, <2>7, <2>8, ScheduledProps
  <2>10. Quiet
    BY <2>6, <2>7, <2>9 DEF Quiet
  <2>11. queue' \in Seq(1..Len(tasks))
    BY <1>1, <1>4, <2>1, <2>3, EnqueuedProps
  <2>12. RunOK'
    BY <2>1, <2>9, <2>11 DEF SimInv, TypeInv, RunOK
  <2>13. QED
    BY <2>1, <2>4, <2>9, <2>10, <2>12, Settled
<1>7. CASE Return \/ Deadlock
  <2>1. /\ UNCHANGED <<clock, timer, firing, infos, info, sent, tasks, listening>>
        /\ UNCHANGED <<queue, main, running>>
        /\ pc = "ready" /\ pc' \in {"outside", "panicked"}
    BY <1>7 DEF Return, Deadlock, BlockOnEnds, BlockOnPanics, time_vars, net_vars
  <2>2. RunOK'
    BY <2>1 DEF SimInv, TypeInv, RunOK
  <2>3. QED
    BY <2>1, <2>2, Idles
<1>8. CASE Advance
  <2>1. /\ UNCHANGED <<clock, timer, queue, infos, info, tasks, main, running, sent, listening>>
        /\ pc = "ready" /\ pc' = "advance"
    BY <1>8 DEF Advance, BlockOnAdvances, AdvanceBegins, net_vars
  <2>2. PICK e \in timer : /\ \A other \in timer : e.deadline <= other.deadline
                           /\ firing' = e.deadline
    BY <1>8 DEF Advance, AdvanceBegins
  <2>3. firing' \in Nat /\ firing' # Idle /\ clock <= firing'
    BY <2>2 DEF SimInv, TypeInv, TimeOK, TimersAhead, Idle
  <2>4. TypeInv'
    BY <2>1, <2>3 DEF SimInv, TypeInv, TimeOK, NodesOK, TasksOK, RunOK, NetOK
  <2>5. TimersAhead'
    BY <2>1, <2>2, <2>3 DEF SimInv, TimersAhead
  <2>6. Sleepers' /\ OneLifeAtATime'
    BY <2>1 DEF SimInv, Sleepers, Sleeping, OneLifeAtATime
  <2>7. NothingOverslept'
    <3>1. ASSUME NEW t \in DOMAIN tasks, Sleeping(t)
          PROVE  firing' <= tasks[t].wait.deadline
      <4>1. Event(tasks[t].wait.deadline, <<"wake", t>>) \in timer
        BY <3>1 DEF SimInv, Sleepers
      <4>2. QED
        BY <2>2, <4>1 DEF Event
    <3>2. QED
      BY <2>1, <2>3, <3>1 DEF NothingOverslept, Sleeping
  <2>8. QED
    BY <2>4, <2>5, <2>6, <2>7 DEF SimInv
<1>9. CASE Fire
  <2>1. PICK e \in timer :
          /\ timer' = timer \ {e}
          /\ UNCHANGED <<clock, firing, infos, info, main, running, pc, sent>>
          /\ \/ /\ e.callback[1] = "deliver"
                /\ Notify(sent[e.callback[2]].dst, listening[sent[e.callback[2]].dst], notified)
                /\ Wake(First(listening[sent[e.callback[2]].dst]))
             \/ /\ e.callback[1] # "deliver"
                /\ Wake(e.callback[2])
                /\ UNCHANGED listening
    BY <1>9 DEF Fire, FireEvent, Deliver, net_vars
  <2>2. e.callback \in Callbacks(Len(sent), Len(tasks))
    BY <2>1 DEF SimInv, TypeInv, TimeOK
  <2>3. PICK t \in 0..Len(tasks) :
          /\ Wake(t)
          /\ e.callback = <<"wake", e.callback[2]>> => t = e.callback[2]
          /\ listening' \in [Addrs -> Seq(1..Len(tasks))]
    <3>1. CASE e.callback[1] = "deliver"
      <4>1. e.callback[2] \in 1..Len(sent) /\ e.callback # <<"wake", e.callback[2]>>
        BY <2>2, <3>1 DEF Callbacks
      <4>2. sent[e.callback[2]].dst \in Addrs
        <5>1. sent[e.callback[2]] \in [src : Addrs, dst : Addrs, at : Nat]
          BY <4>1, ElementOfSeq DEF SimInv, TypeInv, NetOK
        <5>2. QED
          BY <5>1
      <4>3. First(listening[sent[e.callback[2]].dst]) \in 0..Len(tasks)
        BY <1>1, <1>2, <4>2, ListenerProps
      <4>4. listening' \in [Addrs -> Seq(1..Len(tasks))]
        BY <1>1, <1>2, <2>1, <3>1, <4>2, ListenerProps
      <4>5. QED
        BY <2>1, <3>1, <4>1, <4>3, <4>4
    <3>2. CASE e.callback[1] # "deliver"
      <4>1. e.callback[2] \in 1..Len(tasks)
        BY <2>2, <3>2 DEF Callbacks
      <4>2. e.callback[2] \in 0..Len(tasks)
        BY <1>1, <4>1
      <4>3. QED
        BY <1>2, <2>1, <3>2, <4>2
    <3>3. QED
      BY <3>1, <3>2
  <2>4. /\ tasks' \in Seq(Task(Len(infos), Len(tasks))) /\ Len(tasks') = Len(tasks)
        /\ DOMAIN tasks' = DOMAIN tasks
        /\ \A u \in DOMAIN tasks :
             /\ tasks'[u].wait = tasks[u].wait
             /\ tasks'[u].state = "idle" => tasks[u].state = "idle" /\ u # t
             /\ tasks[u].state # "idle" => tasks'[u].state = tasks[u].state
    BY <1>1, <2>3, ScheduledProps DEF Wake
  <2>5. queue' \in Seq(1..Len(tasks))
    BY <1>1, <2>3, EnqueuedProps DEF Wake
  <2>6. pc = "advance"
    BY <1>9 DEF Fire
  <2>7. TypeInv'
    BY <2>1, <2>3, <2>4, <2>5, <2>6
       DEF SimInv, TypeInv, TimeOK, NodesOK, TasksOK, RunOK, NetOK
  <2>8. TimersAhead' /\ OneLifeAtATime'
    BY <2>1 DEF SimInv, TimersAhead, OneLifeAtATime
  <2>9. Sleepers'
    <3>1. ASSUME NEW u \in DOMAIN tasks', Sleeping(u)'
          PROVE  Event(tasks'[u].wait.deadline, <<"wake", u>>) \in timer'
      <4>1. /\ Event(tasks[u].wait.deadline, <<"wake", u>>) \in timer /\ u # t
            /\ tasks'[u].wait = tasks[u].wait
        BY <2>4, <3>1 DEF SimInv, Sleepers, Sleeping
      <4>2. Event(tasks[u].wait.deadline, <<"wake", u>>) # e
        BY <2>3, <4>1 DEF Event
      <4>3. QED
        BY <2>1, <4>1, <4>2
    <3>2. QED
      BY <3>1 DEF Sleepers
  <2>10. NothingOverslept'
    BY <2>1, <2>4 DEF SimInv, NothingOverslept
  <2>11. QED
    BY <2>7, <2>8, <2>9, <2>10 DEF SimInv
<1>10. CASE SetClock
  <2>1. /\ clock' = firing /\ firing' = Idle /\ firing # Idle /\ timer' = timer
        /\ pc = "advance" /\ pc' = "ready" /\ Due = {}
        /\ UNCHANGED <<queue, infos, info, tasks, main, running, sent, listening>>
    BY <1>10 DEF SetClock, AdvanceEnds, net_vars
  <2>2. firing \in Nat
    BY <2>1 DEF SimInv, TypeInv, TimeOK
  <2>3. \A e \in timer : firing < e.deadline
    BY <2>1, <2>2 DEF Due, SimInv, TypeInv, TimeOK
  <2>4. TypeInv'
    BY <2>1, <2>2 DEF SimInv, TypeInv, TimeOK, NodesOK, TasksOK, RunOK, NetOK
  <2>5. TimersAhead'
    BY <2>1, <2>2, <2>3 DEF SimInv, TypeInv, TimeOK, TimersAhead
  <2>6. Sleepers' /\ OneLifeAtATime'
    BY <2>1 DEF SimInv, Sleepers, Sleeping, OneLifeAtATime
  <2>7. NothingOverslept'
    <3>1. ASSUME NEW t \in DOMAIN tasks, Sleeping(t)
          PROVE  firing < tasks[t].wait.deadline
      <4>1. Event(tasks[t].wait.deadline, <<"wake", t>>) \in timer
        BY <3>1 DEF SimInv, Sleepers
      <4>2. QED
        BY <2>3, <4>1 DEF Event
    <3>2. QED
      BY <2>1, <3>1 DEF NothingOverslept, Sleeping
  <2>8. QED
    BY <2>4, <2>5, <2>6, <2>7 DEF SimInv
<1>11. QED
  BY <1>5, <1>6, <1>7, <1>8, <1>9, <1>10 DEF Executes

LEMMA SimInvNext == SimInv /\ [Next]_vars => SimInv'
<1> SUFFICES ASSUME SimInv, [Next]_vars
             PROVE  SimInv'
  OBVIOUS
<1>1. CASE UNCHANGED vars
  <2>1. UNCHANGED <<time_vars, task_vars, sent, listening>>
    BY <1>1 DEF vars, net_vars
  <2>2. RunOK'
    BY <2>1 DEF SimInv, TypeInv, RunOK, task_vars
  <2>3. QED
    BY <2>1, <2>2, Idles DEF time_vars, task_vars
<1>2. QED
  BY <1>1, CallsKeep, PollsKeep, ExecutesKeep DEF Next

LEMMA SimInvHolds == Spec => []SimInv
  BY SimInvInit, SimInvNext, PTL DEF Spec

\* The runtime's state stays well formed: what a queue, a timer or a listener names is there.
THEOREM SimulationTypeOK == Spec => []SimTypeOK
<1>1. SimInv => SimTypeOK
  <2>1. SUFFICES ASSUME SimInv
                 PROVE  SimTypeOK
    OBVIOUS
  <2>2. Task(Len(infos), Len(tasks)) \subseteq
          [info : 1..Len(infos), state : States, wait : Waits]
    BY DEF Task, GoodWaits
  <2>3. tasks \in Seq([info : 1..Len(infos), state : States, wait : Waits])
    BY <2>1, <2>2, SeqMonotonic DEF SimInv, TypeInv, TasksOK
  <2>4. QED
    BY <2>1, <2>3 DEF SimInv, TypeInv, TimeOK, NodesOK, RunOK, SimTypeOK
<1>2. QED
  BY <1>1, SimInvHolds, PTL

\* Simulated time never goes back (instant.rs:3), however timers are added between the moves of
\* the clock: time/mod.rs:38-47 sets it to the earliest timer, and none is ever behind it.
THEOREM ClockMonotonic == Spec => ClockNeverGoesBack
<1>1. SimInv /\ [Next]_vars => [clock' >= clock]_vars
  <2>1. SUFFICES ASSUME SimInv, Next
                 PROVE  clock' >= clock
    BY DEF vars
  <2>2. clock \in Nat
    BY <2>1 DEF SimInv, TypeInv, TimeOK
  <2>3. CASE SetClock
    BY <2>1, <2>2, <2>3 DEF SetClock, AdvanceEnds, SimInv, TypeInv, TimeOK, TimersAhead
  <2>4. CASE BlockOn \/ Calls
    <3>1. clock' = clock
      BY <2>4 DEF BlockOn, Calls, Spawn, SpawnStale, SpawnHere, KillNode, SendTo, Send,
                  ChangeLink, Take, UseFiles, FileOverrun, time_vars
    <3>2. QED
      BY <2>2, <3>1
  <2>5. CASE Polls
    <3>1. clock' = clock
      BY <2>5 DEF Polls, BeginWait, BeginJoin, SleepEnds, SleepPends, RecvEnds, RecvElapses,
                  RecvPends, JoinEnds, JoinPanics, JoinPends, Finish, WaitEnds, Pends, time_vars
    <3>2. QED
      BY <2>2, <3>1
  <2>6. CASE Executes /\ ~SetClock
    <3>1. clock' = clock
      BY <2>6 DEF Executes, Run, SkipKilled, Return, Deadlock, Advance, AdvanceBegins, Fire,
                  FireEvent, time_vars
    <3>2. QED
      BY <2>2, <3>1
  <2>7. QED
    BY <2>1, <2>3, <2>4, <2>5, <2>6 DEF Next
<1>2. QED
  BY <1>1, SimInvHolds, PTL DEF Spec, ClockNeverGoesBack

\* No task that waits until a time sleeps past it, whatever woke it before (time/mod.rs:73-84).
THEOREM NoTaskOversleeps == Spec => []NothingOverslept
<1>1. SimInv => NothingOverslept
  BY DEF SimInv
<1>2. QED
  BY <1>1, SimInvHolds, PTL

\* A node has one life at a time, so that a kill reaches every task started through whatever
\* handle before it (task.rs:55-77).
THEOREM ANodeLivesOnce == Spec => []OneLifeAtATime
<1>1. SimInv => OneLifeAtATime
  BY DEF SimInv
<1>2. QED
  BY <1>1, SimInvHolds, PTL

-----------------------------------------------------------------------------
(* The network implements DelayNetwork. *)

Delivers(e) == e.callback[1] = "deliver"

Now    == IF firing = Idle THEN clock ELSE firing
Flight == {e.callback[2] : e \in {e \in timer : e.callback[1] = "deliver"}}

\* Every timer that delivers is the only one of its message and set within its latency, and an
\* address that was cut off stays clogged.
LetterInv ==
  /\ clogged = cut /\ lossy \in BOOLEAN /\ endpoints \subseteq Addrs
  /\ \A e \in timer : Delivers(e) => e.deadline - sent[e.callback[2]].at \in Latencies
  /\ \A e, f \in timer : Delivers(e) /\ Delivers(f) /\ e.callback[2] = f.callback[2] => e = f

NetStep == LetterInv' /\ [Net!Next]_(Net!abstract_vars)

\* What of the runtime the abstract network sees.
seen == <<clock, firing, sent, inbox, endpoints, lossy, cut, clogged>>

\* A step of which the network sees nothing.
LEMMA NetStutters ==
  ASSUME LetterInv, UNCHANGED seen,
         \A e : Delivers(e) => (e \in timer' <=> e \in timer)
  PROVE  NetStep
<1>1. Flight' = Flight
  BY DEF Flight, Delivers
<1>2. LetterInv'
  BY DEF LetterInv, seen
<1>3. QED
  BY <1>1, <1>2 DEF NetStep, seen, Flight, Net!abstract_vars

\* A step that leaves the messages alone.
LEMMA NetChanges ==
  ASSUME LetterInv, UNCHANGED <<clock, timer, firing, sent, inbox>>,
         endpoints \subseteq endpoints', cut \subseteq cut', lossy' \in BOOLEAN,
         clogged' = cut', endpoints' \subseteq Addrs
  PROVE  NetStep
<1>1. LetterInv'
  BY DEF LetterInv
<1>2. Net!Change
  BY DEF Net!Change
<1>3. QED
  BY <1>1, <1>2 DEF NetStep, Net!Next

\* A message is taken from an endpoint.
LEMMA NetTakes ==
  ASSUME LetterInv, NEW a \in Addrs, inbox[a] # << >>,
         inbox' = [inbox EXCEPT ![a] = Tail(@)],
         UNCHANGED <<clock, timer, firing, sent, endpoints, lossy, cut, clogged>>
  PROVE  NetStep
<1>1. LetterInv'
  BY DEF LetterInv
<1>2. Net!Take
  BY DEF Net!Take
<1>3. QED
  BY <1>1, <1>2 DEF NetStep, Net!Next

\* A message is sent, and dropped or given a timer.
LEMMA NetPosts ==
  ASSUME SimInv, LetterInv, NEW dst \in Addrs, SendTo(dst)
  PROVE  NetStep
<1> DEFINE src == AddrOf(running)
           id  == Len(sent) + 1
<1>1. /\ pc = "poll" /\ Send(src, dst) /\ UNCHANGED <<clock, firing, clogged, lossy, inbox, cut>>
      /\ endpoints' = endpoints \cup {src}
      /\ sent' = Append(sent, Message(src, dst))
  BY DEF SendTo, Polling, Send, Get
<1>2. src \in Addrs /\ firing = Idle /\ clock \in Nat /\ Len(sent) \in Nat
  BY <1>1, PollFacts, Lengths DEF SimInv, TypeInv, TimeOK
<1>3. /\ \A m \in 1..Len(sent) : sent'[m] = sent[m]
      /\ sent'[id] = [src |-> src, dst |-> dst, at |-> clock]
  <2>1. Message(src, dst) \in [src : Addrs, dst : Addrs, at : Nat]
    BY <1>2 DEF Message
  <2>2. QED
    BY <1>1, <2>1, AppendProperties DEF SimInv, TypeInv, NetOK, Message
<1>4. \A e \in timer : Delivers(e) => e.callback[2] \in 1..Len(sent)
  BY DEF SimInv, TypeInv, TimeOK, Callbacks, Delivers
<1>5. Drops(src, dst) <=> dst \notin endpoints' \/ {src, dst} \cap cut # {}
  BY <1>1 DEF Drops, LetterInv
<1> HIDE DEF src
<1>6. CASE UNCHANGED timer /\ (Drops(src, dst) \/ lossy)
  <2>1. LetterInv'
    BY <1>1, <1>2, <1>3, <1>4, <1>6 DEF LetterInv
  <2>2. Flight' = Flight
    BY <1>6 DEF Flight
  <2>3. Net!Post
    BY <1>1, <1>2, <1>5, <1>6, <2>2 DEF Net!Post, Flight, Message
  <2>4. QED
    BY <2>1, <2>3 DEF NetStep, Net!Next
<1>7. ASSUME NEW l \in Latencies, ~Drops(src, dst),
             timer' = timer \cup {Event(clock + l, <<"deliver", id>>)}
      PROVE  NetStep
  <2> DEFINE new == Event(clock + l, <<"deliver", id>>)
  <2>1. new.deadline - clock = l /\ new.callback[2] = id /\ Delivers(new)
    BY <1>2, LatenciesAssumption DEF Event, Delivers
  <2> HIDE DEF new
  <2>2. timer' = timer \cup {new}
    BY <1>7 DEF new
  <2>3. \A e \in timer : Delivers(e) => e.callback[2] # id
    BY <1>2, <1>4
  <2>4. LetterInv'
    <3>1. ASSUME NEW e \in timer', Delivers(e)
          PROVE  e.deadline - sent'[e.callback[2]].at \in Latencies
      BY <1>3, <1>4, <1>7, <2>1, <2>2, <3>1 DEF LetterInv
    <3>2. ASSUME NEW e \in timer', NEW f \in timer', Delivers(e), Delivers(f),
                 e.callback[2] = f.callback[2]
          PROVE  e = f
      BY <2>1, <2>2, <2>3, <3>2 DEF LetterInv
    <3>3. QED
      BY <1>1, <1>2, <3>1, <3>2 DEF LetterInv, Delivers
  <2>5. Flight' = Flight \cup {id}
    BY <2>1, <2>2 DEF Flight, Delivers
  <2>6. Net!Post
    BY <1>1, <1>2, <1>5, <1>7, <2>5 DEF Net!Post, Flight, Message
  <2>7. QED
    BY <2>4, <2>6 DEF NetStep, Net!Next
<1>8. QED
  BY <1>1, <1>6, <1>7 DEF Send, After

\* The clock is about to move.
LEMMA NetTicks ==
  ASSUME SimInv, LetterInv, Advance
  PROVE  NetStep
<1>1. PICK e \in timer : /\ \A other \in timer : e.deadline <= other.deadline
                         /\ firing' = e.deadline
  BY DEF Advance, AdvanceBegins
<1>2. /\ UNCHANGED <<clock, timer, sent, inbox, endpoints, lossy, cut, clogged>>
      /\ firing = Idle /\ clock \in Nat /\ firing' \in Nat /\ firing' # Idle /\ clock <= firing'
  BY <1>1 DEF Advance, BlockOnAdvances, AdvanceBegins, net_vars, SimInv, TypeInv, TimeOK,
              TimersAhead, Idle
<1>3. LetterInv' /\ Flight' = Flight
  BY <1>2 DEF LetterInv, Flight
<1>4. CASE firing' = clock
  BY <1>2, <1>3, <1>4 DEF NetStep, Net!abstract_vars, Flight
<1>5. CASE firing' # clock
  <2>1. \A m \in Flight : \E l \in Latencies : sent[m].at + l >= firing'
    <3>1. SUFFICES ASSUME NEW f \in timer, Delivers(f)
                   PROVE  \E l \in Latencies : sent[f.callback[2]].at + l >= firing'
      BY DEF Flight, Delivers
    <3>2. f.callback[2] \in 1..Len(sent) /\ f.deadline \in Nat
      BY <3>1 DEF SimInv, TypeInv, TimeOK, Callbacks, Delivers
    <3>3. sent[f.callback[2]] \in [src : Addrs, dst : Addrs, at : Nat]
      BY <3>2, ElementOfSeq DEF SimInv, TypeInv, NetOK
    <3>4. f.deadline - sent[f.callback[2]].at \in Latencies /\ e.deadline <= f.deadline
      BY <1>1, <3>1 DEF LetterInv
    <3>5. sent[f.callback[2]].at + (f.deadline - sent[f.callback[2]].at) >= firing'
      BY <1>1, <1>2, <3>2, <3>3, <3>4
    <3>6. QED
      BY <3>4, <3>5
  <2>2. Net!Tick
    BY <1>2, <1>3, <1>5, <2>1 DEF Net!Tick, Flight
  <2>3. QED
    BY <1>3, <2>2 DEF NetStep, Net!Next
<1>6. QED
  BY <1>4, <1>5

\* A timer hands its message over, at the time it was set for.
LEMMA NetArrives ==
  ASSUME SimInv, LetterInv, Fire
  PROVE  NetStep
<1>1. PICK e \in timer :
        /\ timer' = timer \ {e} /\ e.deadline <= firing
        /\ UNCHANGED <<clock, firing, sent, endpoints, lossy, cut, clogged>>
        /\ IF Delivers(e)
             THEN inbox' = [inbox EXCEPT ![sent[e.callback[2]].dst] = Append(@, e.callback[2])]
             ELSE UNCHANGED inbox
  BY DEF Fire, FireEvent, Due, Deliver, Delivers, net_vars
<1>2. CASE ~Delivers(e)
  BY <1>1, <1>2, NetStutters DEF seen
<1>3. CASE Delivers(e)
  <2> DEFINE m == e.callback[2]
  <2>1. firing # Idle /\ firing = e.deadline
    BY <1>1 DEF Fire, SimInv, TypeInv, TimeOK, TimersAhead
  <2>2. LetterInv'
    BY <1>1 DEF LetterInv
  <2>3. Flight' = Flight \ {m}
    <3>1. \A x : x \in Flight' => x \in Flight \ {m}
      BY <1>1, <1>3 DEF Flight, LetterInv, Delivers
    <3>2. \A x : x \in Flight \ {m} => x \in Flight'
      BY <1>1, <1>3 DEF Flight, Delivers
    <3>3. QED
      BY <3>1, <3>2
  <2>4. m \in Flight /\ Now - sent[m].at \in Latencies
    BY <1>1, <1>3, <2>1 DEF Flight, Delivers, LetterInv, Now
  <2>5. Net!Arrive
    BY <1>1, <1>3, <2>1, <2>3, <2>4 DEF Net!Arrive, Flight, Now
  <2>6. QED
    BY <2>2, <2>5 DEF NetStep, Net!Next
<1>4. QED
  BY <1>2, <1>3

\* A poll that returns Pending sets a timer that wakes.
LEMMA NetIgnoresWakers ==
  ASSUME SimInv, LetterInv, Pends, UNCHANGED <<sent, inbox, endpoints, lossy, cut, clogged>>
  PROVE  NetStep
<1>1. ~Delivers(Event(tasks[running].wait.deadline, <<"wake", running>>))
  BY DEF Delivers, Event
<1>2. \A f : Delivers(f) => (f \in timer' <=> f \in timer)
  BY <1>1 DEF Pends, PendingTimer
<1>3. QED
  BY <1>2, NetStutters DEF Pends, seen

\* Initial states map to initial states of the abstract network.
LEMMA NetInit == Init => LetterInv /\ Net!Init
<1>1. Init => LetterInv
  BY DEF Init, TimeInit, NetworkInit, LetterInv
<1>2. Init => Net!Init
  <2>1. timer = {} => Flight = {}
    BY DEF Flight
  <2>2. QED
    BY <2>1 DEF Init, TimeInit, NetworkInit, Net!Init, Flight, Idle
<1>3. QED
  BY <1>1, <1>2

\* Every step is a step of the abstract network or one it does not see.
LEMMA NetNext == SimInv /\ LetterInv /\ [Next]_vars => NetStep
<1> SUFFICES ASSUME SimInv, LetterInv, [Next]_vars
             PROVE  NetStep
  OBVIOUS
<1>1. ASSUME UNCHANGED <<seen, timer>>
      PROVE  NetStep
  BY <1>1, NetStutters
<1>2. CASE BlockOn
  BY <1>1, <1>2 DEF BlockOn, seen, time_vars, net_vars
<1>3. CASE Calls
  <2>1. ASSUME NEW a \in Addrs, Spawn(a)
        PROVE  NetStep
    BY <2>1, NetChanges DEF Spawn, Get, LetterInv, time_vars
  <2>2. ASSUME NEW a \in Addrs, KillNode(a)
        PROVE  NetStep
    BY <2>2, <1>1 DEF KillNode, seen, time_vars, net_vars
  <2>3. CASE \E i \in DOMAIN infos : SpawnStale(i)
    BY <2>3, <1>1 DEF SpawnStale, seen, time_vars, net_vars
  <2>4. CASE SpawnHere \/ UseFiles \/ FileOverrun
    BY <2>4, <1>1 DEF SpawnHere, UseFiles, FileOverrun, seen, time_vars, net_vars
  <2>5. CASE ChangeLink
    BY <2>5, NetChanges DEF ChangeLink, Connect, Disconnect, SetPacketLossRate, LetterInv,
                            time_vars
  <2>6. CASE Take
    <3>1. PICK a \in Here : TryRecv(a) /\ UNCHANGED time_vars
      BY <2>6 DEF Take
    <3>2. a \in Addrs
      BY <3>1, PollFacts DEF Here, LetterInv
    <3>3. QED
      BY <3>1, <3>2, NetTakes DEF TryRecv, time_vars
  <2>7. QED
    BY <1>3, <2>1, <2>2, <2>3, <2>4, <2>5, <2>6, NetPosts DEF Calls
<1>4. CASE Polls
  <2>1. CASE BeginWait
    <3>1. AddrOf(running) \in Addrs
      BY <2>1, PollFacts DEF BeginWait, Polling
    <3>2. endpoints \subseteq endpoints' /\ endpoints' \subseteq Addrs
      BY <2>1, <3>1 DEF BeginWait, LetterInv
    <3>3. QED
      BY <2>1, <3>2, NetChanges DEF BeginWait, LetterInv, time_vars
  <2>2. CASE BeginJoin \/ JoinPanics \/ Finish
    BY <2>2, <1>1 DEF BeginJoin, JoinPanics, Finish, seen, time_vars, net_vars
  <2>3. CASE SleepEnds \/ JoinEnds \/ RecvElapses
    BY <2>3, <1>1 DEF SleepEnds, JoinEnds, RecvElapses, WaitEnds, seen, time_vars, net_vars
  <2>4. CASE RecvEnds
    <3>1. tasks[running].wait.on \in Addrs
      BY <2>4, PollFacts DEF RecvEnds, Waiting, GoodWaits
    <3>2. QED
      BY <2>4, <3>1, NetTakes DEF RecvEnds, WaitEnds, time_vars, LetterInv
  <2>5. CASE SleepPends \/ JoinPends \/ RecvPends
    BY <2>5, NetIgnoresWakers DEF SleepPends, JoinPends, RecvPends, net_vars
  <2>6. QED
    BY <1>4, <2>1, <2>2, <2>3, <2>4, <2>5 DEF Polls
<1>5. CASE Executes
  <2>1. CASE Run \/ SkipKilled \/ Return \/ Deadlock
    BY <2>1, <1>1 DEF Run, SkipKilled, Return, Deadlock, seen, time_vars, net_vars
  <2>2. CASE SetClock
    <3>1. /\ clock' = firing /\ firing # Idle /\ firing' = Idle
          /\ UNCHANGED <<timer, sent, inbox, endpoints, lossy, cut, clogged>>
      BY <2>2 DEF SetClock, AdvanceEnds, net_vars
    <3>2. LetterInv' /\ Flight' = Flight
      BY <3>1 DEF LetterInv, Flight
    <3>3. QED
      BY <3>1, <3>2 DEF NetStep, Net!abstract_vars, Flight
  <2>3. QED
    BY <1>5, <2>1, <2>2, NetTicks, NetArrives DEF Executes
<1>6. CASE UNCHANGED vars
  BY <1>1, <1>6 DEF vars, seen, time_vars, net_vars
<1>7. QED
  BY <1>2, <1>3, <1>4, <1>5, <1>6 DEF Next

\* The simulated network implements the abstract one: a message is lost only when it is sent and
\* for a reason DelayNetwork names, arrives once and within its latency, and nothing arrives
\* between ends connect or disconnect was called for (network.rs:57-111), whatever tasks do,
\* whichever are killed and however time moves.
THEOREM NetworkImplementsDelayNetwork == Spec => NetworkSpec
<1>1. Init => SimInv /\ LetterInv /\ Net!Init
  BY SimInvInit, NetInit
<1>2. SimInv /\ LetterInv /\ [Next]_vars =>
        SimInv' /\ LetterInv' /\ [Net!Next]_(Net!abstract_vars)
  BY SimInvNext, NetNext DEF NetStep
<1>3. QED
  BY <1>1, <1>2, PTL DEF Spec, NetworkSpec, Net!Spec

-----------------------------------------------------------------------------
(* No wake is lost: no message is left with an endpoint somebody waits on, *)
(* and the panic of block_on is right.  And files hold what was written.   *)

Members(s)  == {s[i] : i \in DOMAIN s}
Distinct(s) == \A i, j \in DOMAIN s : s[i] = s[j] => i = j

-----------------------------------------------------------------------------
(* Sequences of tasks. *)

\* A task that is queued once more is in the queue once,
LEMMA MembersAppended ==
  ASSUME NEW S, NEW s \in Seq(S), NEW t \in S, Distinct(s), t \notin Members(s)
  PROVE  Members(Append(s, t)) = Members(s) \cup {t} /\ Distinct(Append(s, t))
<1>1. /\ DOMAIN s = 1..Len(s) /\ Len(s) \in Nat
      /\ DOMAIN Append(s, t) = 1..(Len(s) + 1)
      /\ \A i \in 1..Len(s) : Append(s, t)[i] = s[i]
      /\ Append(s, t)[Len(s) + 1] = t
  BY AppendProperties, LenProperties
<1>2. Members(Append(s, t)) = Members(s) \cup {t}
  <2>1. ASSUME NEW x \in Members(Append(s, t))
        PROVE  x \in Members(s) \cup {t}
    BY <1>1, <2>1 DEF Members
  <2>2. ASSUME NEW x \in Members(s)
        PROVE  x \in Members(Append(s, t))
    BY <1>1, <2>2 DEF Members
  <2>3. t \in Members(Append(s, t))
    BY <1>1 DEF Members
  <2>4. QED
    BY <2>1, <2>2, <2>3
<1>3. Distinct(Append(s, t))
  BY <1>1 DEF Distinct, Members
<1>4. QED
  BY <1>2, <1>3

LEMMA Appending ==
  ASSUME NEW S, NEW s \in Seq(S), NEW e
  PROVE  /\ Len(Append(s, e)) = Len(s) + 1
         /\ \A i \in 1..Len(s) : Append(s, e)[i] = s[i]
         /\ Append(s, e)[Len(s) + 1] = e
<1>1. s \in Seq(S \cup {e})
  BY SeqMonotonic
<1>2. QED
  BY <1>1, AppendProperties

\* and one that is taken off is not in it.
LEMMA MembersOfTail ==
  ASSUME NEW S, NEW s \in Seq(S), s # << >>, Distinct(s)
  PROVE  /\ Head(s) \in Members(s) /\ Members(Tail(s)) = Members(s) \ {Head(s)}
         /\ Distinct(Tail(s))
<1>1. /\ DOMAIN s = 1..Len(s) /\ Len(s) \in Nat /\ Len(s) > 0 /\ Head(s) = s[1]
      /\ DOMAIN Tail(s) = 1..(Len(s) - 1)
      /\ \A i \in 1..(Len(s) - 1) : Tail(s)[i] = s[i + 1]
  BY HeadTailProperties, LenProperties, EmptySeq
<1>2. Head(s) \in Members(s)
  BY <1>1 DEF Members
<1>3. ASSUME NEW x \in Members(Tail(s))
      PROVE  x \in Members(s) \ {Head(s)}
  <2>1. PICK i \in 1..(Len(s) - 1) : x = s[i + 1]
    BY <1>1, <1>3 DEF Members
  <2>2. i + 1 \in DOMAIN s /\ 1 \in DOMAIN s /\ i + 1 # 1
    BY <1>1, <2>1
  <2>3. QED
    BY <1>1, <2>1, <2>2 DEF Members, Distinct
<1>4. ASSUME NEW x \in Members(s), x # Head(s)
      PROVE  x \in Members(Tail(s))
  <2>1. PICK i \in 1..Len(s) : x = s[i]
    BY <1>1, <1>4 DEF Members
  <2>2. i - 1 \in 1..(Len(s) - 1) /\ Tail(s)[i - 1] = s[i]
    BY <1>1, <1>4, <2>1
  <2>3. QED
    BY <1>1, <2>1, <2>2 DEF Members
<1>5. Distinct(Tail(s))
  <2>1. SUFFICES ASSUME NEW i \in 1..(Len(s) - 1), NEW j \in 1..(Len(s) - 1), s[i + 1] = s[j + 1]
                 PROVE  i = j
    BY <1>1 DEF Distinct
  <2>2. i + 1 \in DOMAIN s /\ j + 1 \in DOMAIN s
    BY <1>1
  <2>3. i + 1 = j + 1
    BY <2>1, <2>2 DEF Distinct
  <2>4. QED
    BY <2>3
<1>6. QED
  BY <1>2, <1>3, <1>4, <1>5

LEMMA SubSeqToEnd ==
  ASSUME NEW S, NEW s \in Seq(S), NEW m \in 1..(Len(s) + 1)
  PROVE  /\ SubSeq(s, m, Len(s)) \in Seq(S)
         /\ Len(SubSeq(s, m, Len(s))) = Len(s) + 1 - m
         /\ \A j \in 1..(Len(s) + 1 - m) : SubSeq(s, m, Len(s))[j] = s[m + j - 1]
<1>1. Len(s) \in Nat /\ m \in Nat /\ \A j \in m..Len(s) : s[j] \in S
  BY LenProperties, ElementOfSeq
<1>2. /\ SubSeq(s, m, Len(s)) \in Seq(S)
      /\ Len(SubSeq(s, m, Len(s))) = IF m <= Len(s) THEN Len(s) - m + 1 ELSE 0
      /\ \A j \in 1..(Len(s) - m + 1) : SubSeq(s, m, Len(s))[j] = s[m + j - 1]
  BY <1>1, SubSeqProperties
<1>3. QED
  BY <1>1, <1>2

LEMMA MembersWithout ==
  ASSUME NEW n \in Nat, NEW s \in Seq(1..n), NEW t, Distinct(s)
  PROVE  Members(Without(s, t)) = Members(s) \ {t} /\ Distinct(Without(s, t))
<1>1. CASE t \notin Members(s)
  BY <1>1 DEF Without, Members
<1>2. CASE t \in Members(s)
  <2>1. PICK i \in DOMAIN s :
          s[i] = t /\ Without(s, t) = SubSeq(s, 1, i - 1) \o SubSeq(s, i + 1, Len(s))
    BY <1>2 DEF Without, Members
  <2> DEFINE w == Without(s, t)
  <2>2. DOMAIN s = 1..Len(s) /\ Len(s) \in Nat /\ \A j \in 1..Len(s) : s[j] \in 1..n
    BY LenProperties, ElementOfSeq
  <2>3. /\ SubSeq(s, 1, i - 1) \in Seq(1..n) /\ Len(SubSeq(s, 1, i - 1)) = i - 1
        /\ \A j \in 1..(i - 1) : SubSeq(s, 1, i - 1)[j] = s[j]
    BY <2>2, SubSeqProperties
  <2>4. /\ SubSeq(s, i + 1, Len(s)) \in Seq(1..n) /\ Len(SubSeq(s, i + 1, Len(s))) = Len(s) - i
        /\ \A j \in 1..(Len(s) - i) : SubSeq(s, i + 1, Len(s))[j] = s[i + j]
    <3>1. i + 1 \in 1..(Len(s) + 1)
      BY <2>2
    <3>2. /\ SubSeq(s, i + 1, Len(s)) \in Seq(1..n)
          /\ Len(SubSeq(s, i + 1, Len(s))) = Len(s) + 1 - (i + 1)
          /\ \A j \in 1..(Len(s) + 1 - (i + 1)) :
               SubSeq(s, i + 1, Len(s))[j] = s[(i + 1) + j - 1]
      BY <3>1, SubSeqToEnd
    <3>3. i \in 1..Len(s) /\ Len(s) + 1 - (i + 1) = Len(s) - i
      BY <2>2
    <3>4. \A j \in 1..(Len(s) - i) : (i + 1) + j - 1 = i + j
      BY <3>3
    <3>5. QED
      BY <2>2, <3>2, <3>3, <3>4
  <2>5. /\ w \in Seq(1..n) /\ Len(w) = Len(s) - 1
        /\ \A j \in 1..(Len(s) - 1) : w[j] = IF j < i THEN s[j] ELSE s[j + 1]
    <3>1. /\ w \in Seq(1..n) /\ Len(w) = Len(s) - 1
          /\ \A j \in 1..Len(w) : w[j] = IF j <= i - 1 THEN SubSeq(s, 1, i - 1)[j]
                                          ELSE SubSeq(s, i + 1, Len(s))[j - (i - 1)]
      <4>1. (i - 1) + (Len(s) - i) = Len(s) - 1
        BY <2>2
      <4> DEFINE l == SubSeq(s, 1, i - 1)
                 r == SubSeq(s, i + 1, Len(s))
      <4>2. l \in Seq(1..n) /\ r \in Seq(1..n) /\ Len(l) = i - 1 /\ Len(r) = Len(s) - i /\ w = l \o r
        BY <2>1, <2>3, <2>4
      <4> HIDE DEF l, r, w
      <4>3. /\ w \in Seq(1..n) /\ Len(w) = Len(l) + Len(r)
            /\ \A j \in 1..(Len(l) + Len(r)) : w[j] = IF j <= Len(l) THEN l[j] ELSE r[j - Len(l)]
        BY <4>2, ConcatProperties
      <4>4. QED
        BY <4>1, <4>2, <4>3 DEF l, r
    <3>2. ASSUME NEW j \in 1..(Len(s) - 1)
          PROVE  w[j] = IF j < i THEN s[j] ELSE s[j + 1]
      <4>1. CASE j < i
        BY <2>2, <2>3, <3>1, <3>2, <4>1
      <4>2. CASE ~(j < i)
        <5>1. j - (i - 1) \in 1..(Len(s) - i) /\ i + (j - (i - 1)) = j + 1
          BY <2>2, <3>2, <4>2
        <5>2. SubSeq(s, i + 1, Len(s))[j - (i - 1)] = s[i + (j - (i - 1))]
          BY <2>4, <5>1
        <5>3. ~(j <= i - 1) /\ j \in 1..Len(w)
          BY <2>2, <3>1, <3>2, <4>2
        <5>4. QED
          BY <3>1, <4>2, <5>1, <5>2, <5>3
      <4>3. QED
        BY <4>1, <4>2
    <3>3. QED
      BY <3>1, <3>2
  <2>6. DOMAIN w = 1..(Len(s) - 1)
    BY <2>5, LenProperties
  <2> HIDE DEF w
  <2>7. ASSUME NEW x \in Members(w)
        PROVE  x \in Members(s) \ {t}
    <3>1. PICK j \in 1..(Len(s) - 1) : x = w[j]
      BY <2>6, <2>7 DEF Members
    <3>2. PICK k \in DOMAIN s : k # i /\ x = s[k]
      <4>1. CASE j < i
        <5>1. j \in DOMAIN s /\ j # i
          BY <2>2, <4>1
        <5>2. QED
          BY <2>5, <3>1, <4>1, <5>1
      <4>2. CASE ~(j < i)
        <5>1. j + 1 \in DOMAIN s /\ j + 1 # i
          BY <2>2, <4>2
        <5>2. QED
          BY <2>5, <3>1, <4>2, <5>1
      <4>3. QED
        BY <4>1, <4>2
    <3>3. QED
      BY <2>1, <3>2 DEF Members, Distinct
  <2>8. ASSUME NEW x \in Members(s), x # t
        PROVE  x \in Members(w)
    <3>1. PICK k \in DOMAIN s : x = s[k] /\ k # i
      BY <2>1, <2>8 DEF Members
    <3>2. PICK j \in 1..(Len(s) - 1) : w[j] = s[k]
      <4>1. CASE k < i
        <5>1. k \in 1..(Len(s) - 1)
          BY <2>2, <4>1
        <5>2. QED
          BY <2>5, <4>1, <5>1
      <4>2. CASE k > i
        <5>1. k - 1 \in 1..(Len(s) - 1) /\ ~(k - 1 < i) /\ k - 1 + 1 = k
          BY <2>2, <3>1, <4>2
        <5>2. QED
          BY <2>5, <5>1
      <4>3. QED
        BY <2>2, <3>1, <4>1, <4>2
    <3>3. QED
      BY <2>6, <3>1, <3>2 DEF Members
  <2>9. Distinct(w)
    <3>1. SUFFICES ASSUME NEW j \in 1..(Len(s) - 1), NEW k \in 1..(Len(s) - 1), w[j] = w[k]
                   PROVE  j = k
      BY <2>6 DEF Distinct
    <3> DEFINE at(m) == IF m < i THEN m ELSE m + 1
    <3>2. at(j) \in DOMAIN s /\ at(k) \in DOMAIN s /\ w[j] = s[at(j)] /\ w[k] = s[at(k)]
      <4>1. ASSUME NEW m \in 1..(Len(s) - 1)
            PROVE  at(m) \in DOMAIN s /\ w[m] = s[at(m)]
        <5>1. at(m) \in DOMAIN s
          BY <2>2, <4>1
        <5>2. QED
          BY <2>5, <4>1, <5>1
      <4>2. QED
        BY <4>1
    <3>3. at(j) = at(k)
      BY <3>1, <3>2 DEF Distinct
    <3>4. QED
      BY <2>2, <3>3
  <2>10. QED
    BY <2>7, <2>8, <2>9 DEF w
<1>3. QED
  BY <1>1, <1>2

LEMMA MembersEmpty ==
  ASSUME NEW S, NEW s \in Seq(S)
  PROVE  (s = << >> <=> Members(s) = {}) /\ Members(s) \subseteq S
<1>1. DOMAIN s = 1..Len(s) /\ Len(s) \in Nat /\ \A i \in 1..Len(s) : s[i] \in S
  BY LenProperties, ElementOfSeq
<1>2. s = << >> <=> Len(s) = 0
  BY EmptySeq
<1>3. Len(s) # 0 => s[1] \in Members(s)
  BY <1>1 DEF Members
<1>4. Len(s) = 0 => Members(s) = {}
  BY <1>1 DEF Members
<1>5. Members(s) \subseteq S
  BY <1>1 DEF Members
<1>6. QED
  BY <1>2, <1>3, <1>4, <1>5

-----------------------------------------------------------------------------
(* The invariant. *)

In(state) == {t \in DOMAIN tasks : tasks[t].state = state}

Receives(t) == tasks[t].wait.kind = "recv"

\* The queue holds the tasks that are scheduled, once each; one task at most runs.
QueueOK ==
  /\ Distinct(queue) /\ Members(queue) = In("scheduled")
  /\ In("running") = {running} \ {None}

\* A task listens on the channel it receives from, once, and not once it was notified.
ListenersOK ==
  \A a \in Addrs :
    /\ Distinct(listening[a])
    /\ \A t \in Members(listening[a]) :
         /\ Receives(t) /\ tasks[t].wait.on = a /\ t \notin notified
         /\ tasks[t].state \in {"idle", "scheduled", "running"}

\* A task that was notified has yet to be polled, or is being polled.
NotifiedOK ==
  \A t \in notified : t \in DOMAIN tasks /\ Receives(t) /\ tasks[t].state \in {"scheduled", "running"}

\* An idle task waits for something, and listens if that is a message.
IdleOK ==
  \A t \in In("idle") :
    /\ tasks[t].wait.kind # "none"
    /\ Receives(t) => t \in Members(listening[tasks[t].wait.on])

SleepOK == \A t \in DOMAIN tasks : tasks[t].wait.kind = "sleep" => tasks[t].wait.deadline # Never

\* A message that somebody listens for has notified a task.
NoneLost ==
  /\ inbox \in [Addrs -> Seq(Nat)]
  /\ \A a \in Addrs : inbox[a] # << >> /\ listening[a] # << >> =>
                        \E t \in notified : tasks[t].wait.on = a

Finished(t) == tasks[t].state \in {"done", "dropped"}

\* The main task cannot be killed, and does not wait for a task that has ended.
MainOK ==
  main # None =>
    /\ ~Killed(main) /\ \A a \in Addrs : info[a] # tasks[main].info
    /\ tasks[main].state # "dropped"
    /\ tasks[main].state = "idle" /\ tasks[main].wait.kind = "join" => ~Finished(tasks[main].wait.on)

EndOK ==
  pc = "panicked" /\ running = None => timer = {} /\ queue = << >> /\ tasks[main].state # "done"

WakeInv ==
  /\ QueueOK /\ ListenersOK /\ NotifiedOK /\ IdleOK /\ SleepOK /\ NoneLost /\ MainOK /\ EndOK

\* The part of it about channels.
ChannelInv == ListenersOK /\ NotifiedOK /\ IdleOK /\ NoneLost

-----------------------------------------------------------------------------
(* Queues and listeners. *)

LEMMA MembersEnqueued ==
  ASSUME NEW n \in Nat, NEW q \in Seq(1..n), Distinct(q), NEW t \in 0..n,
         t # None /\ tasks[t].state = "idle" => t \notin Members(q)
  PROVE  /\ Members(Enqueued(q, t)) =
              Members(q) \cup {u \in {t} : u # None /\ tasks[u].state = "idle"}
         /\ Distinct(Enqueued(q, t))
<1>1. CASE t # None /\ tasks[t].state = "idle"
  <2>1. t \in 1..n /\ Enqueued(q, t) = Append(q, t)
    BY <1>1 DEF Enqueued, None
  <2>2. QED
    BY <1>1, <2>1, MembersAppended
<1>2. CASE ~(t # None /\ tasks[t].state = "idle")
  BY <1>2 DEF Enqueued
<1>3. QED
  BY <1>1, <1>2

\* What a notification does to the listeners.
LEMMA NotifyEffect ==
  ASSUME NetOK, Len(tasks) \in Nat, ListenersOK, NEW a \in Addrs, NEW n,
         Notify(a, listening[a], n)
  PROVE  LET woken == First(listening[a])
         IN /\ listening' \in [Addrs -> Seq(1..Len(tasks))]
            /\ notified' = n \cup ({woken} \ {None})
            /\ Members(listening'[a]) = Members(listening[a]) \ {woken}
            /\ Distinct(listening'[a])
            /\ \A b \in Addrs : b # a => listening'[b] = listening[b]
            /\ woken # None => woken \in Members(listening[a])
            /\ woken = None => listening[a] = << >> /\ listening'[a] = << >>
<1>1. listening[a] \in Seq(1..Len(tasks)) /\ Distinct(listening[a])
  BY DEF NetOK, ListenersOK
<1>2. CASE listening[a] = << >>
  <2>1. First(listening[a]) = None /\ listening' = [listening EXCEPT ![a] = listening[a]]
    BY <1>2 DEF First, Notify
  <2>2. listening' = listening
    BY <2>1 DEF NetOK
  <2>3. Members(listening[a]) = {}
    BY <1>1, <1>2, MembersEmpty
  <2>4. QED
    BY <1>1, <1>2, <2>1, <2>2, <2>3 DEF Notify, NetOK
<1>3. CASE listening[a] # << >>
  <2>1. /\ First(listening[a]) = Head(listening[a]) /\ Head(listening[a]) \in 1..Len(tasks)
        /\ Tail(listening[a]) \in Seq(1..Len(tasks))
    BY <1>1, <1>3, HeadTailProperties DEF First
  <2>2. /\ Head(listening[a]) \in Members(listening[a])
        /\ Members(Tail(listening[a])) = Members(listening[a]) \ {Head(listening[a])}
        /\ Distinct(Tail(listening[a]))
    BY <1>1, <1>3, MembersOfTail
  <2>3. listening' = [listening EXCEPT ![a] = Tail(listening[a])]
    BY <1>3 DEF Notify
  <2>4. notified' = n \cup {Head(listening[a])}
    BY <1>3 DEF Notify
  <2>5. QED
    BY <2>1, <2>2, <2>3, <2>4 DEF NetOK, None
<1>4. QED
  BY <1>2, <1>3

\* What the drop of a listener does to the others.
LEMMA DropEffect ==
  ASSUME NetOK, Len(tasks) \in Nat, ListenersOK, NEW a \in Addrs, NEW t \in 1..Len(tasks),
         DropListener(a, t)
  PROVE  LET woken == Successor(a, t)
         IN /\ listening' \in [Addrs -> Seq(1..Len(tasks))]
            /\ notified' = (notified \ {t}) \cup ({woken} \ {None})
            /\ Members(listening'[a]) = Members(listening[a]) \ {woken, t}
            /\ Distinct(listening'[a])
            /\ \A b \in Addrs : b # a => listening'[b] = listening[b]
            /\ woken # None => woken \in Members(listening[a]) /\ woken # t
            /\ t \in notified /\ woken = None => listening'[a] = << >>
<1>1. listening[a] \in Seq(1..Len(tasks)) /\ Distinct(listening[a])
  BY DEF NetOK, ListenersOK
<1>2. CASE t \in notified
  <2>1. Notify(a, listening[a], notified \ {t}) /\ Successor(a, t) = First(listening[a])
    BY <1>2 DEF DropListener, Successor
  <2>2. t \notin Members(listening[a])
    BY <1>2 DEF ListenersOK
  <2> DEFINE woken == First(listening[a])
  <2>3. /\ listening' \in [Addrs -> Seq(1..Len(tasks))]
        /\ notified' = (notified \ {t}) \cup ({woken} \ {None})
        /\ Members(listening'[a]) = Members(listening[a]) \ {woken}
        /\ Distinct(listening'[a])
        /\ \A b \in Addrs : b # a => listening'[b] = listening[b]
        /\ woken # None => woken \in Members(listening[a])
        /\ woken = None => listening'[a] = << >>
    BY <2>1, NotifyEffect
  <2>4. Members(listening[a]) \ {woken} = Members(listening[a]) \ {woken, t}
    BY <2>2
  <2> HIDE DEF woken
  <2>5. Successor(a, t) = woken
    BY <2>1 DEF woken
  <2>6. QED
    BY <2>2, <2>3, <2>4, <2>5
<1>3. CASE t \notin notified
  <2>1. /\ listening' = [listening EXCEPT ![a] = Without(listening[a], t)]
        /\ notified' = notified /\ Successor(a, t) = None
    BY <1>3 DEF DropListener, Successor
  <2>2. /\ Members(Without(listening[a], t)) = Members(listening[a]) \ {t}
        /\ Distinct(Without(listening[a], t)) /\ Without(listening[a], t) \in Seq(1..Len(tasks))
    BY <1>1, MembersWithout, WithoutProps
  <2>3. None \notin Members(listening[a])
    BY <1>1, MembersEmpty DEF None
  <2>4. QED
    BY <1>3, <2>1, <2>2, <2>3 DEF NetOK
<1>4. QED
  BY <1>2, <1>3

\* A task other than those a step polls or drops: it is as it was, or woken.
Wakes(u) ==
  /\ tasks'[u].wait = tasks[u].wait
  /\ \/ tasks'[u].state = tasks[u].state
     \/ tasks[u].state = "idle" /\ tasks'[u].state = "scheduled"

Shrinks ==
  inbox' \in [Addrs -> Seq(Nat)] /\ \A b \in Addrs : inbox'[b] # << >> => inbox[b] # << >>

\* The task that stops receiving passes on what it was notified of.
LEMMA DropKeeps ==
  ASSUME NetOK, Len(tasks) \in Nat, DOMAIN tasks = 1..Len(tasks), ChannelInv,
         NEW a \in Addrs, NEW t \in 1..Len(tasks), Receives(t), tasks[t].wait.on = a,
         DropListener(a, t), DOMAIN tasks' = DOMAIN tasks,
         \A u \in DOMAIN tasks : u # t => Wakes(u),
         tasks'[t].state # "idle",
         Successor(a, t) # None => tasks'[Successor(a, t)].state # "idle",
         \A u \in DOMAIN tasks : Receives(u) => tasks[u].wait.on \in Addrs,
         Shrinks
  PROVE  ChannelInv'
<1> DEFINE woken == Successor(a, t)
<1>1. /\ notified' = (notified \ {t}) \cup ({woken} \ {None})
      /\ Members(listening'[a]) = Members(listening[a]) \ {woken, t}
      /\ Distinct(listening'[a])
      /\ \A b \in Addrs : b # a => listening'[b] = listening[b]
      /\ woken # None => woken \in Members(listening[a]) /\ woken # t
      /\ t \in notified /\ woken = None => listening'[a] = << >>
      /\ listening' \in [Addrs -> Seq(1..Len(tasks))]
  BY DropEffect DEF ChannelInv
<1>2. woken # None => tasks'[woken].state # "idle"
  OBVIOUS
<1> HIDE DEF woken
<1>3. \A b \in Addrs : Members(listening[b]) \subseteq 1..Len(tasks)
  BY MembersEmpty DEF NetOK
<1>4. \A b \in Addrs : \A u \in Members(listening[b]) :
        Receives(u) /\ tasks[u].wait.on = b /\ u \notin notified
  BY DEF ChannelInv, ListenersOK
<1>5. \A b \in Addrs : Members(listening'[b]) \subseteq Members(listening[b]) \ {woken, t}
  <2>1. ASSUME NEW b \in Addrs, NEW u \in Members(listening'[b])
        PROVE  u \in Members(listening[b]) /\ u # woken /\ u # t
    <3>1. CASE b = a
      BY <1>1, <2>1, <3>1
    <3>2. CASE b # a
      <4>1. u \in Members(listening[b]) /\ tasks[u].wait.on = b /\ u # None
        BY <1>1, <1>3, <1>4, <2>1, <3>2 DEF None
      <4>2. woken # None => tasks[woken].wait.on = a
        BY <1>1, <1>4
      <4>3. QED
        BY <3>2, <4>1, <4>2
    <3>3. QED
      BY <3>1, <3>2
  <2>2. QED
    BY <2>1
<1>6. ListenersOK'
  <2>1. ASSUME NEW b \in Addrs, NEW u \in Members(listening'[b])
        PROVE  /\ Receives(u)' /\ tasks'[u].wait.on = b /\ u \notin notified'
               /\ tasks'[u].state \in {"idle", "scheduled", "running"}
    <3>1. u \in Members(listening[b]) /\ u # t /\ u # woken /\ u \in DOMAIN tasks
      BY <1>3, <1>5, <2>1
    <3>2. Wakes(u)
      BY <3>1
    <3>3. QED
      BY <1>1, <3>1, <3>2 DEF ChannelInv, ListenersOK, Receives, Wakes
  <2>2. \A b \in Addrs : Distinct(listening'[b])
    BY <1>1 DEF ChannelInv, ListenersOK
  <2>3. QED
    BY <2>1, <2>2 DEF ListenersOK
<1>7. NotifiedOK'
  <2>1. ASSUME NEW u \in notified'
        PROVE  u \in DOMAIN tasks' /\ Receives(u)' /\ tasks'[u].state \in {"scheduled", "running"}
    <3>1. CASE u \in notified \ {t}
      <4>1. u \in DOMAIN tasks /\ Receives(u) /\ tasks[u].state \in {"scheduled", "running"} /\ u # t
        BY <3>1 DEF ChannelInv, NotifiedOK
      <4>2. QED
        BY <4>1 DEF Wakes, Receives
    <3>2. CASE u = woken /\ woken # None
      <4>1. /\ u \in DOMAIN tasks /\ Receives(u) /\ u # t
            /\ tasks[u].state \in {"idle", "scheduled", "running"}
        BY <1>1, <1>3, <3>2 DEF ChannelInv, ListenersOK
      <4>2. Wakes(u) /\ tasks'[u].state # "idle"
        BY <1>2, <3>2, <4>1
      <4>3. QED
        BY <4>1, <4>2 DEF Wakes, Receives
    <3>3. QED
      BY <1>1, <2>1, <3>1, <3>2
  <2>2. QED
    BY <2>1 DEF NotifiedOK
<1>8. IdleOK'
  <2>1. ASSUME NEW u \in DOMAIN tasks, tasks'[u].state = "idle"
        PROVE  /\ tasks'[u].wait.kind # "none"
               /\ Receives(u)' => u \in Members(listening'[tasks'[u].wait.on])
    <3>1. u # t /\ Wakes(u) /\ (u = woken => woken = None)
      BY <1>2, <2>1
    <3>2. tasks[u].state = "idle" /\ tasks'[u].wait = tasks[u].wait
      BY <2>1, <3>1 DEF Wakes
    <3>3. tasks[u].wait.kind # "none" /\ (Receives(u) => u \in Members(listening[tasks[u].wait.on]))
      BY <3>2 DEF ChannelInv, IdleOK, In
    <3>4. ASSUME Receives(u)
          PROVE  u \in Members(listening'[tasks[u].wait.on])
      <4>1. tasks[u].wait.on \in Addrs /\ u # woken
        BY <3>1, <3>4 DEF None
      <4>2. QED
        BY <1>1, <3>1, <3>3, <3>4, <4>1
    <3>5. QED
      BY <3>2, <3>3, <3>4 DEF Receives
  <2>2. QED
    BY <2>1 DEF IdleOK, In
<1>9. NoneLost'
  <2>1. ASSUME NEW b \in Addrs, inbox'[b] # << >>, listening'[b] # << >>
        PROVE  \E u \in notified' : tasks'[u].wait.on = b
    <3>1. ASSUME NEW u \in notified, u # t, tasks[u].wait.on = b
          PROVE  u \in notified' /\ tasks'[u].wait.on = b
      BY <1>1, <3>1 DEF ChannelInv, NotifiedOK, Wakes
    <3>2. inbox[b] # << >> /\ listening[b] # << >>
      <4>1. listening[b] \in Seq(1..Len(tasks)) /\ listening'[b] \in Seq(1..Len(tasks))
        BY <1>1 DEF NetOK
      <4>2. Members(listening'[b]) # {}
        BY <2>1, <4>1, MembersEmpty
      <4>3. Members(listening[b]) # {}
        BY <1>5, <4>2
      <4>4. listening[b] # << >>
        BY <4>1, <4>3, MembersEmpty
      <4>5. QED
        BY <2>1, <4>4 DEF Shrinks
    <3>3. PICK u \in notified : tasks[u].wait.on = b
      BY <3>2 DEF ChannelInv, NoneLost
    <3>4. CASE b # a
      BY <3>1, <3>3, <3>4
    <3>5. CASE b = a /\ t \notin notified
      BY <3>1, <3>3, <3>5
    <3>6. CASE b = a /\ t \in notified
      <4>1. woken # None
        BY <1>1, <2>1, <3>6
      <4>2. woken \in notified' /\ woken \in DOMAIN tasks /\ woken # t /\ tasks[woken].wait.on = a
        BY <1>1, <1>3, <1>4, <4>1
      <4>3. QED
        BY <3>6, <4>2 DEF Wakes
    <3>7. QED
      BY <3>4, <3>5, <3>6
  <2>2. QED
    BY <2>1 DEF NoneLost, Shrinks
<1>10. QED
  BY <1>6, <1>7, <1>8, <1>9 DEF ChannelInv

\* A task whose change no channel sees: it did not receive and does not become idle unheard.
Unheard(u) ==
  ~Receives(u) /\ (tasks'[u].state = "idle" => tasks'[u].wait.kind \in {"sleep", "join"})

Starts(u) ==
  tasks'[u].wait = tasks[u].wait /\ tasks[u].state = "scheduled" /\ tasks'[u].state = "running"

\* A step that leaves the listeners alone.
LEMMA ListensStill ==
  ASSUME NetOK, Len(tasks) \in Nat, DOMAIN tasks = 1..Len(tasks), ChannelInv,
         UNCHANGED <<listening, notified>>, Shrinks, DOMAIN tasks' = DOMAIN tasks,
         \A u \in DOMAIN tasks : Wakes(u) \/ Unheard(u) \/ Starts(u)
  PROVE  ChannelInv'
<1>1. \A b \in Addrs : Members(listening[b]) \subseteq DOMAIN tasks
  BY MembersEmpty DEF NetOK
<1>2. ListenersOK'
  <2>1. ASSUME NEW b \in Addrs, NEW u \in Members(listening[b])
        PROVE  /\ Receives(u)' /\ tasks'[u].wait.on = b /\ u \notin notified'
               /\ tasks'[u].state \in {"idle", "scheduled", "running"}
    <3>1. /\ u \in DOMAIN tasks /\ Receives(u) /\ tasks[u].wait.on = b /\ u \notin notified
          /\ tasks[u].state \in {"idle", "scheduled", "running"}
      BY <1>1, <2>1 DEF ChannelInv, ListenersOK
    <3>2. QED
      BY <3>1 DEF Wakes, Unheard, Starts, Receives
  <2>2. QED
    BY <2>1 DEF ChannelInv, ListenersOK
<1>3. NotifiedOK'
  BY DEF ChannelInv, NotifiedOK, Wakes, Unheard, Starts, Receives
<1>4. IdleOK'
  <2>1. ASSUME NEW u \in DOMAIN tasks, tasks'[u].state = "idle"
        PROVE  /\ tasks'[u].wait.kind # "none"
               /\ Receives(u)' => u \in Members(listening[tasks'[u].wait.on])
    <3>1. CASE Wakes(u)
      BY <2>1, <3>1 DEF Wakes, ChannelInv, IdleOK, In, Receives
    <3>2. CASE Unheard(u)
      BY <2>1, <3>2 DEF Unheard, Receives
    <3>3. QED
      BY <2>1, <3>1, <3>2 DEF Starts
  <2>2. QED
    BY <2>1 DEF IdleOK, In
<1>5. NoneLost'
  <2>1. ASSUME NEW b \in Addrs, inbox'[b] # << >>, listening[b] # << >>
        PROVE  \E u \in notified : tasks'[u].wait.on = b
    <3>1. PICK u \in notified : tasks[u].wait.on = b
      BY <2>1 DEF ChannelInv, NoneLost, Shrinks
    <3>2. u \in DOMAIN tasks /\ Receives(u)
      BY DEF ChannelInv, NotifiedOK
    <3>3. QED
      BY <3>1, <3>2 DEF Wakes, Unheard, Starts
  <2>2. QED
    BY <2>1 DEF NoneLost, Shrinks
<1>6. QED
  BY <1>2, <1>3, <1>4, <1>5 DEF ChannelInv

\* A task that finds its channel empty listens.
LEMMA ListenKeeps ==
  ASSUME NetOK, Len(tasks) \in Nat, DOMAIN tasks = 1..Len(tasks), ChannelInv,
         NEW a \in Addrs, NEW t \in 1..Len(tasks), Receives(t), tasks[t].wait.on = a,
         inbox[a] = << >>, Listen(a, t), inbox' = inbox, DOMAIN tasks' = DOMAIN tasks,
         \A u \in DOMAIN tasks : /\ tasks'[u].wait = tasks[u].wait
                                 /\ tasks'[u].state = IF u = t THEN "idle" ELSE tasks[u].state
  PROVE  ChannelInv'
<1> DEFINE rest == Without(listening[a], t)
<1>1. listening[a] \in Seq(1..Len(tasks)) /\ Distinct(listening[a])
  BY DEF NetOK, ChannelInv, ListenersOK
<1>2. /\ Members(rest) = Members(listening[a]) \ {t} /\ Distinct(rest)
      /\ rest \in Seq(1..Len(tasks))
  BY <1>1, MembersWithout, WithoutProps
<1>3. listening' = [listening EXCEPT ![a] = Append(rest, t)] /\ notified' = notified \ {t}
  BY DEF Listen
<1> HIDE DEF rest
<1>4. Members(Append(rest, t)) = Members(listening[a]) \cup {t} /\ Distinct(Append(rest, t))
  <2>1. t \notin Members(rest)
    BY <1>2
  <2>2. Members(Append(rest, t)) = Members(rest) \cup {t} /\ Distinct(Append(rest, t))
    BY <1>2, <2>1, MembersAppended
  <2>3. QED
    BY <1>2, <2>2
<1>5. /\ Members(listening'[a]) = Members(listening[a]) \cup {t} /\ Distinct(listening'[a])
      /\ \A b \in Addrs : b # a => listening'[b] = listening[b]
  BY <1>3, <1>4 DEF NetOK
<1>6. \A b \in Addrs : Members(listening[b]) \subseteq DOMAIN tasks
  BY MembersEmpty DEF NetOK
<1>7. ListenersOK'
  <2>1. ASSUME NEW b \in Addrs, NEW u \in Members(listening'[b])
        PROVE  /\ Receives(u)' /\ tasks'[u].wait.on = b /\ u \notin notified'
               /\ tasks'[u].state \in {"idle", "scheduled", "running"}
    <3>1. CASE u = t
      <4>1. b = a
        <5>1. SUFFICES ASSUME b # a
                       PROVE  FALSE
          OBVIOUS
        <5>2. t \in Members(listening[b])
          BY <1>5, <2>1, <3>1, <5>1
        <5>3. QED
          BY <5>1, <5>2 DEF ChannelInv, ListenersOK
      <4>2. QED
        BY <1>3, <3>1, <4>1 DEF Receives
    <3>2. CASE u # t
      <4>1. u \in Members(listening[b]) /\ u \in DOMAIN tasks
        BY <1>5, <1>6, <2>1, <3>2
      <4>2. QED
        BY <1>3, <3>2, <4>1 DEF ChannelInv, ListenersOK, Receives
    <3>3. QED
      BY <3>1, <3>2
  <2>2. \A b \in Addrs : Distinct(listening'[b])
    BY <1>5 DEF ChannelInv, ListenersOK
  <2>3. QED
    BY <2>1, <2>2 DEF ListenersOK
<1>8. NotifiedOK'
  BY <1>3 DEF ChannelInv, NotifiedOK, Receives
<1>9. IdleOK'
  <2>1. ASSUME NEW u \in DOMAIN tasks, tasks'[u].state = "idle"
        PROVE  /\ tasks'[u].wait.kind # "none"
               /\ Receives(u)' => u \in Members(listening'[tasks'[u].wait.on])
    <3>1. CASE u = t
      BY <1>5, <3>1 DEF Receives
    <3>2. CASE u # t
      <4>1. tasks[u].state = "idle" /\ tasks'[u].wait = tasks[u].wait
        BY <2>1, <3>2
      <4>2. /\ tasks[u].wait.kind # "none"
            /\ Receives(u) => u \in Members(listening[tasks[u].wait.on])
        BY <4>1 DEF ChannelInv, IdleOK, In
      <4>3. ASSUME Receives(u)
            PROVE  u \in Members(listening'[tasks[u].wait.on])
        <5>1. CASE tasks[u].wait.on = a
          BY <1>5, <4>2, <4>3, <5>1
        <5>2. CASE tasks[u].wait.on # a
          BY <1>3, <4>2, <4>3, <5>2 DEF NetOK
        <5>3. QED
          BY <5>1, <5>2
      <4>4. QED
        BY <4>1, <4>2, <4>3 DEF Receives
    <3>3. QED
      BY <3>1, <3>2
  <2>2. QED
    BY <2>1 DEF IdleOK, In
<1>10. NoneLost'
  <2>1. ASSUME NEW b \in Addrs, inbox[b] # << >>, listening'[b] # << >>
        PROVE  \E u \in notified' : tasks'[u].wait.on = b
    <3>1. b # a /\ listening'[b] = listening[b]
      BY <1>5, <2>1
    <3>2. PICK u \in notified : tasks[u].wait.on = b
      BY <2>1, <3>1 DEF ChannelInv, NoneLost
    <3>3. u # t /\ u \in DOMAIN tasks
      BY <3>1, <3>2 DEF ChannelInv, NotifiedOK
    <3>4. QED
      BY <1>3, <3>2, <3>3
  <2>2. QED
    BY <2>1 DEF ChannelInv, NoneLost
<1>11. QED
  BY <1>7, <1>8, <1>9, <1>10 DEF ChannelInv

\* A message that arrives notifies the task that has listened longest.
LEMMA DeliverKeeps ==
  ASSUME NetOK, Len(tasks) \in Nat, DOMAIN tasks = 1..Len(tasks), ChannelInv,
         NEW a \in Addrs, NEW m \in Nat, inbox' = [inbox EXCEPT ![a] = Append(@, m)],
         Notify(a, listening[a], notified), DOMAIN tasks' = DOMAIN tasks,
         \A u \in DOMAIN tasks : Wakes(u),
         First(listening[a]) # None => tasks'[First(listening[a])].state # "idle",
         \A u \in DOMAIN tasks : Receives(u) => tasks[u].wait.on \in Addrs
  PROVE  ChannelInv'
<1> DEFINE woken == First(listening[a])
<1>1. /\ notified' = notified \cup ({woken} \ {None})
      /\ Members(listening'[a]) = Members(listening[a]) \ {woken}
      /\ Distinct(listening'[a])
      /\ \A b \in Addrs : b # a => listening'[b] = listening[b]
      /\ woken # None => woken \in Members(listening[a])
      /\ woken = None => listening[a] = << >> /\ listening'[a] = << >>
  BY NotifyEffect DEF ChannelInv
<1>2. woken # None => tasks'[woken].state # "idle"
  OBVIOUS
<1> HIDE DEF woken
<1>3. \A b \in Addrs : Members(listening[b]) \subseteq DOMAIN tasks
  BY MembersEmpty DEF NetOK
<1>4. \A b \in Addrs : \A u \in Members(listening[b]) :
        Receives(u) /\ tasks[u].wait.on = b /\ u \notin notified
  BY DEF ChannelInv, ListenersOK
<1>5. woken # None =>
        woken \in DOMAIN tasks /\ tasks'[woken].wait = tasks[woken].wait /\ tasks[woken].wait.on = a
  BY <1>1, <1>3, <1>4 DEF Wakes
<1>6. ListenersOK'
  <2>1. ASSUME NEW b \in Addrs, NEW u \in Members(listening'[b])
        PROVE  /\ Receives(u)' /\ tasks'[u].wait.on = b /\ u \notin notified'
               /\ tasks'[u].state \in {"idle", "scheduled", "running"}
    <3>1. u \in Members(listening[b]) /\ u \in DOMAIN tasks
      BY <1>1, <1>3, <2>1
    <3>2. u # woken \/ woken = None
      BY <1>1, <1>4, <1>5, <2>1, <3>1
    <3>3. QED
      BY <1>1, <3>1, <3>2 DEF ChannelInv, ListenersOK, Receives, Wakes
  <2>2. \A b \in Addrs : Distinct(listening'[b])
    BY <1>1 DEF ChannelInv, ListenersOK
  <2>3. QED
    BY <2>1, <2>2 DEF ListenersOK
<1>7. NotifiedOK'
  <2>1. ASSUME NEW u \in notified'
        PROVE  u \in DOMAIN tasks' /\ Receives(u)' /\ tasks'[u].state \in {"scheduled", "running"}
    <3>1. CASE u \in notified
      BY <3>1 DEF ChannelInv, NotifiedOK, Wakes, Receives
    <3>2. CASE u = woken /\ woken # None
      <4>1. u \in DOMAIN tasks /\ Receives(u) /\ tasks[u].state \in {"idle", "scheduled", "running"}
        BY <1>1, <1>3, <3>2 DEF ChannelInv, ListenersOK
      <4>2. QED
        BY <1>2, <3>2, <4>1 DEF Wakes, Receives
    <3>3. QED
      BY <1>1, <2>1, <3>1, <3>2
  <2>2. QED
    BY <2>1 DEF NotifiedOK
<1>8. IdleOK'
  <2>1. ASSUME NEW u \in DOMAIN tasks, tasks'[u].state = "idle"
        PROVE  /\ tasks'[u].wait.kind # "none"
               /\ Receives(u)' => u \in Members(listening'[tasks'[u].wait.on])
    <3>1. tasks[u].state = "idle" /\ tasks'[u].wait = tasks[u].wait /\ (u = woken => woken = None)
      BY <1>2, <2>1 DEF Wakes
    <3>2. tasks[u].wait.kind # "none" /\ (Receives(u) => u \in Members(listening[tasks[u].wait.on]))
      BY <3>1 DEF ChannelInv, IdleOK, In
    <3>3. ASSUME Receives(u)
          PROVE  u \in Members(listening'[tasks[u].wait.on])
      <4>1. tasks[u].wait.on \in Addrs /\ u # woken
        BY <3>1, <3>3 DEF None
      <4>2. QED
        BY <1>1, <3>2, <3>3, <4>1
    <3>4. QED
      BY <3>1, <3>2, <3>3 DEF Receives
  <2>2. QED
    BY <2>1 DEF IdleOK, In
<1>9. NoneLost'
  <2>1. inbox' \in [Addrs -> Seq(Nat)] /\ \A b \in Addrs : b # a => inbox'[b] = inbox[b]
    <3>1. inbox \in [Addrs -> Seq(Nat)]
      BY DEF ChannelInv, NoneLost
    <3>2. Append(inbox[a], m) \in Seq(Nat)
      BY <3>1, AppendProperties
    <3>3. QED
      BY <3>1, <3>2
  <2>2. ASSUME NEW b \in Addrs, inbox'[b] # << >>, listening'[b] # << >>
        PROVE  \E u \in notified' : tasks'[u].wait.on = b
    <3>1. CASE b = a
      <4>1. woken # None
        BY <1>1, <2>2, <3>1
      <4>2. QED
        BY <1>1, <1>5, <3>1, <4>1
    <3>2. CASE b # a
      <4>1. PICK u \in notified : tasks[u].wait.on = b
        BY <1>1, <2>1, <2>2, <3>2 DEF ChannelInv, NoneLost
      <4>2. u \in DOMAIN tasks
        BY DEF ChannelInv, NotifiedOK
      <4>3. QED
        BY <1>1, <4>1, <4>2 DEF Wakes
    <3>3. QED
      BY <3>1, <3>2
  <2>3. QED
    BY <2>1, <2>2 DEF NoneLost
<1>10. QED
  BY <1>6, <1>7, <1>8, <1>9 DEF ChannelInv

-----------------------------------------------------------------------------
(* What the steps do to the tasks. *)

SameTasks == DOMAIN tasks' = DOMAIN tasks /\ \A u \in DOMAIN tasks : tasks'[u].info = tasks[u].info

\* The ranges of tasks, queue and waits.
LEMMA TaskFacts ==
  ASSUME SimInv
  PROVE  /\ Len(tasks) \in Nat /\ DOMAIN tasks = 1..Len(tasks) /\ NetOK
         /\ Len(infos) \in Nat /\ tasks \in Seq(Task(Len(infos), Len(tasks)))
         /\ queue \in Seq(1..Len(tasks))
         /\ \A u \in DOMAIN tasks : Receives(u) => tasks[u].wait.on \in Addrs
         /\ \A u \in DOMAIN tasks : tasks[u].wait.kind = "join" =>
              /\ tasks[u].wait.on \in DOMAIN tasks
              /\ tasks[u].wait = [kind |-> "join", deadline |-> Never, on |-> tasks[u].wait.on]
<1>1. /\ Len(tasks) \in Nat /\ DOMAIN tasks = 1..Len(tasks) /\ NetOK
      /\ Len(infos) \in Nat /\ tasks \in Seq(Task(Len(infos), Len(tasks)))
      /\ queue \in Seq(1..Len(tasks))
      /\ \A t \in 1..Len(tasks) : tasks[t] \in Task(Len(infos), Len(tasks))
  BY Lengths DEF SimInv, TypeInv, TasksOK, RunOK
<1>2. ASSUME NEW u \in DOMAIN tasks
      PROVE  /\ Receives(u) => tasks[u].wait.on \in Addrs
             /\ tasks[u].wait.kind = "join" =>
                  /\ tasks[u].wait.on \in DOMAIN tasks
                  /\ tasks[u].wait = [kind |-> "join", deadline |-> Never, on |-> tasks[u].wait.on]
  <2>1. tasks[u].wait \in GoodWaits(Len(tasks))
    BY <1>1, <1>2 DEF Task
  <2>2. QED
    BY <1>1, <2>1 DEF GoodWaits, Waits, Receives
<1>3. QED
  BY <1>1, <1>2

\* What the end of a wait does to the tasks.
LEMMA WaitEndsEffect ==
  ASSUME SimInv, pc = "poll", NEW woken \in 0..Len(tasks), WaitEnds(woken)
  PROVE  /\ SameTasks
         /\ \A u \in DOMAIN tasks :
              /\ tasks'[u].wait = IF u = running THEN NoWait ELSE tasks[u].wait
              /\ tasks'[u].state = IF u = woken /\ tasks[u].state = "idle" THEN "scheduled"
                                   ELSE tasks[u].state
<1> DEFINE ts == WithWait(tasks, running, NoWait)
<1>1. running \in 1..Len(tasks)
  BY PollFacts
<1>2. NoWait \in GoodWaits(Len(tasks))
  BY DEF NoWait, GoodWaits, Waits, Never, None
<1>3. /\ ts \in Seq(Task(Len(infos), Len(tasks))) /\ Len(ts) = Len(tasks)
      /\ DOMAIN ts = DOMAIN tasks
      /\ \A u \in DOMAIN tasks : /\ ts[u].state = tasks[u].state /\ ts[u].info = tasks[u].info
                                 /\ ts[u].wait = IF u = running THEN NoWait ELSE tasks[u].wait
  <2>1. tasks \in Seq(Task(Len(infos), Len(tasks))) /\ Len(tasks) \in Nat /\ Len(infos) \in Nat
    BY TaskFacts
  <2>2. QED
    BY <1>1, <1>2, <2>1, WaitSet
<1> HIDE DEF ts
<1>4. tasks' = Scheduled(ts, woken)
  BY DEF WaitEnds, ts, WithWait
<1>5. DOMAIN tasks' = DOMAIN ts /\ \A u \in DOMAIN ts :
        /\ tasks'[u].wait = ts[u].wait /\ tasks'[u].info = ts[u].info
        /\ tasks'[u].state = IF u = woken /\ ts[u].state = "idle" THEN "scheduled" ELSE ts[u].state
  BY <1>3, <1>4, TaskFacts, ScheduledProps
<1>6. QED
  BY <1>3, <1>5 DEF SameTasks

\* What a change of state does to the tasks,
LEMMA StateEffect ==
  ASSUME SimInv, NEW t \in 1..Len(tasks), NEW s \in States,
         tasks' = [tasks EXCEPT ![t].state = s]
  PROVE  /\ SameTasks
         /\ \A u \in DOMAIN tasks : /\ tasks'[u].wait = tasks[u].wait
                                    /\ tasks'[u].state = IF u = t THEN s ELSE tasks[u].state
  BY TaskFacts, StateSet DEF WithState, SameTasks

Ends(t, s, next, joiner) ==
  tasks' = Scheduled(Scheduled([tasks EXCEPT ![t].state = s], next), joiner)

\* A task ends and up to two others are woken.
LEMMA EndEffect ==
  ASSUME SimInv, NEW t \in 1..Len(tasks), NEW s \in {"done", "dropped"},
         NEW next \in 0..Len(tasks), NEW joiner \in 0..Len(tasks),
         Ends(t, s, next, joiner)
  PROVE  /\ SameTasks
         /\ \A u \in DOMAIN tasks :
              /\ tasks'[u].wait = tasks[u].wait
              /\ tasks'[u].state = IF u = t THEN s
                                   ELSE IF u \in {next, joiner} /\ tasks[u].state = "idle"
                                     THEN "scheduled" ELSE tasks[u].state
<1> DEFINE ts == WithState(tasks, t, s)
           tt == Scheduled(ts, next)
<1>0. Len(tasks) \in Nat /\ Len(infos) \in Nat
  BY TaskFacts
<1>1. s \in States /\ s # "idle"
  BY DEF States
<1>2. /\ ts \in Seq(Task(Len(infos), Len(tasks))) /\ Len(ts) = Len(tasks)
      /\ DOMAIN ts = DOMAIN tasks
      /\ \A u \in DOMAIN tasks : /\ ts[u].wait = tasks[u].wait /\ ts[u].info = tasks[u].info
                                 /\ ts[u].state = IF u = t THEN s ELSE tasks[u].state
  <2>1. tasks \in Seq(Task(Len(infos), Len(tasks)))
    BY TaskFacts
  <2>2. QED
    BY <1>0, <1>1, <2>1, StateSet
<1>3. tasks' = Scheduled(tt, joiner)
  BY DEF Ends, WithState
<1> HIDE DEF ts
<1>4. /\ tt \in Seq(Task(Len(infos), Len(tasks))) /\ Len(tt) = Len(tasks)
      /\ DOMAIN tt = DOMAIN ts
      /\ \A u \in DOMAIN ts :
           /\ tt[u].wait = ts[u].wait /\ tt[u].info = ts[u].info
           /\ tt[u].state = IF u = next /\ ts[u].state = "idle" THEN "scheduled" ELSE ts[u].state
  <2>1. next \in 0..Len(ts) /\ ts \in Seq(Task(Len(infos), Len(tasks))) /\ Len(ts) = Len(tasks)
    BY <1>2
  <2>2. QED
    BY <1>0, <2>1, ScheduledProps
<1> HIDE DEF tt
<1>5. DOMAIN tasks' = DOMAIN tt /\ \A u \in DOMAIN tt :
        /\ tasks'[u].wait = tt[u].wait /\ tasks'[u].info = tt[u].info
        /\ tasks'[u].state = IF u = joiner /\ tt[u].state = "idle" THEN "scheduled" ELSE tt[u].state
  <2>1. joiner \in 0..Len(tt) /\ tt \in Seq(Task(Len(infos), Len(tasks)))
    BY <1>4
  <2>2. DOMAIN Scheduled(tt, joiner) = DOMAIN tt /\ \A u \in DOMAIN tt :
          /\ Scheduled(tt, joiner)[u].wait = tt[u].wait
          /\ Scheduled(tt, joiner)[u].info = tt[u].info
          /\ Scheduled(tt, joiner)[u].state =
               IF u = joiner /\ tt[u].state = "idle" THEN "scheduled" ELSE tt[u].state
    BY <1>0, <2>1, ScheduledProps
  <2>3. QED
    BY <1>3, <2>2
<1>6. ASSUME NEW u \in DOMAIN tasks
      PROVE  tasks'[u].state = IF u = t THEN s
                               ELSE IF u \in {next, joiner} /\ tasks[u].state = "idle"
                                 THEN "scheduled" ELSE tasks[u].state
  BY <1>1, <1>2, <1>4, <1>5, <1>6
<1>7. QED
  BY <1>2, <1>4, <1>5, <1>6 DEF SameTasks

\* what a wake does,
LEMMA WakeEffect ==
  ASSUME SimInv, NEW t \in 0..Len(tasks), Wake(t)
  PROVE  /\ SameTasks
         /\ \A u \in DOMAIN tasks :
              /\ tasks'[u].wait = tasks[u].wait
              /\ tasks'[u].state = IF u = t /\ tasks[u].state = "idle" THEN "scheduled"
                                   ELSE tasks[u].state
  BY TaskFacts, ScheduledProps DEF Wake, SameTasks

-----------------------------------------------------------------------------
(* The invariant, step by step. *)

\* A step that wakes up to one task.
LEMMA QueueWakes ==
  ASSUME SimInv, QueueOK, SameTasks, NEW woken \in 0..Len(tasks),
         queue' = Enqueued(queue, woken), running' = running,
         \A u \in DOMAIN tasks :
           tasks'[u].state = IF u = woken /\ tasks[u].state = "idle" THEN "scheduled"
                             ELSE tasks[u].state
  PROVE  QueueOK'
<1>1. Len(tasks) \in Nat /\ queue \in Seq(1..Len(tasks)) /\ DOMAIN tasks = 1..Len(tasks)
  BY TaskFacts
<1>2. woken # None /\ tasks[woken].state = "idle" => woken \in DOMAIN tasks /\ woken \notin Members(queue)
  BY <1>1 DEF QueueOK, In, None
<1>3. /\ Members(queue') = Members(queue) \cup {u \in {woken} : u # None /\ tasks[u].state = "idle"}
      /\ Distinct(queue')
  BY <1>1, <1>2, MembersEnqueued DEF QueueOK
<1>4. In("scheduled")' = In("scheduled") \cup {u \in {woken} : u # None /\ tasks[u].state = "idle"}
  <2>1. ASSUME NEW u \in In("scheduled")'
        PROVE  u \in In("scheduled") \/ (u = woken /\ u # None /\ tasks[u].state = "idle")
    BY <1>1, <2>1 DEF In, SameTasks, None
  <2>2. ASSUME NEW u, u \in In("scheduled") \/ (u = woken /\ u # None /\ tasks[u].state = "idle")
        PROVE  u \in In("scheduled")'
    BY <1>1, <1>2, <2>2 DEF In, SameTasks
  <2>3. QED
    BY <2>1, <2>2
<1>5. In("running")' = In("running")
  BY DEF In, SameTasks
<1>6. QED
  BY <1>3, <1>4, <1>5 DEF QueueOK

\* A step that leaves the infos alone.
LEMMA MainStays ==
  ASSUME SimInv, MainOK, UNCHANGED <<main, infos, info>>, SameTasks,
         main # None => tasks'[main].state # "dropped",
         main # None /\ tasks'[main].state = "idle" /\ tasks'[main].wait.kind = "join" =>
           /\ tasks'[main].wait = tasks[main].wait
           /\ tasks'[tasks[main].wait.on].state \notin {"done", "dropped"}
  PROVE  MainOK'
<1>1. main # None => main \in DOMAIN tasks
  BY TaskFacts DEF SimInv, TypeInv, RunOK, None
<1>2. main # None => tasks'[main].info = tasks[main].info /\ (Killed(main)' <=> Killed(main))
  BY <1>1 DEF SameTasks, Killed
<1>3. QED
  BY <1>1, <1>2 DEF MainOK, Finished

\* A wait that ends hands on what woke it.
LEMMA WaitEndsWakes ==
  ASSUME SimInv, WakeInv, pc = "poll", NEW woken \in 0..Len(tasks), WaitEnds(woken)
  PROVE  QueueOK' /\ SleepOK' /\ MainOK' /\ EndOK'
<1>1. /\ SameTasks
      /\ \A u \in DOMAIN tasks :
           /\ tasks'[u].wait = IF u = running THEN NoWait ELSE tasks[u].wait
           /\ tasks'[u].state = IF u = woken /\ tasks[u].state = "idle" THEN "scheduled"
                                ELSE tasks[u].state
  BY WaitEndsEffect
<1>2. /\ UNCHANGED <<timer, infos, info, main, running, pc>> /\ queue' = Enqueued(queue, woken)
      /\ running \in DOMAIN tasks /\ running # None /\ tasks[running].state = "running"
  BY PollFacts DEF WaitEnds, time_vars
<1>3. QueueOK'
  BY <1>1, <1>2, QueueWakes DEF WakeInv
<1>4. SleepOK'
  BY <1>1 DEF WakeInv, SleepOK, SameTasks, NoWait
<1>5. MainOK'
  <2>1. main # None => main \in DOMAIN tasks
    BY TaskFacts DEF SimInv, TypeInv, RunOK, None
  <2>2. main # None => tasks'[main].state # "dropped"
    BY <1>1, <2>1 DEF WakeInv, MainOK
  <2>3. ASSUME main # None, tasks'[main].state = "idle", tasks'[main].wait.kind = "join"
        PROVE  /\ tasks'[main].wait = tasks[main].wait
               /\ tasks'[tasks[main].wait.on].state \notin {"done", "dropped"}
    <3>1. tasks[main].state = "idle" /\ main # running /\ tasks'[main].wait = tasks[main].wait
      BY <1>1, <1>2, <2>1, <2>3
    <3>2. tasks[main].wait.on \in DOMAIN tasks /\ ~Finished(tasks[main].wait.on)
      BY <2>1, <2>3, <3>1, TaskFacts DEF WakeInv, MainOK
    <3>3. QED
      BY <1>1, <3>1, <3>2 DEF Finished
  <2>4. QED
    BY <1>1, <1>2, <2>2, <2>3, MainStays DEF WakeInv
<1>6. QED
  BY <1>2, <1>3, <1>4, <1>5 DEF EndOK

\* A task that goes on waiting does so idle, and off the queue.
LEMMA PendsWakes ==
  ASSUME SimInv, WakeInv, pc = "poll", Pends,
         tasks[running].wait.kind = "join" => ~Finished(tasks[running].wait.on)
  PROVE  /\ QueueOK' /\ SleepOK' /\ MainOK' /\ EndOK' /\ SameTasks
         /\ \A u \in DOMAIN tasks : /\ tasks'[u].wait = tasks[u].wait
                                    /\ tasks'[u].state = IF u = running THEN "idle" ELSE tasks[u].state
<1>1. /\ UNCHANGED <<infos, info, main, queue>> /\ running' = None /\ pc' = "ready"
      /\ running \in 1..Len(tasks) /\ running # None /\ tasks[running].state = "running"
      /\ tasks' = [tasks EXCEPT ![running].state = "idle"]
  BY PollFacts DEF Pends
<1>2. "idle" \in States
  BY DEF States
<1>3. /\ SameTasks
      /\ \A u \in DOMAIN tasks : /\ tasks'[u].wait = tasks[u].wait
                                 /\ tasks'[u].state = IF u = running THEN "idle" ELSE tasks[u].state
  BY <1>1, <1>2, StateEffect
<1>4. QueueOK'
  <2>1. In("scheduled")' = In("scheduled")
    BY <1>1, <1>3 DEF In, SameTasks
  <2>2. In("running")' = {}
    BY <1>1, <1>3 DEF In, SameTasks, WakeInv, QueueOK
  <2>3. QED
    BY <1>1, <2>1, <2>2 DEF WakeInv, QueueOK
<1>5. SleepOK'
  BY <1>3 DEF WakeInv, SleepOK, SameTasks
<1>6. MainOK'
  <2>1. main # None => main \in DOMAIN tasks
    BY TaskFacts DEF SimInv, TypeInv, RunOK, None
  <2>2. main # None => tasks'[main].state # "dropped"
    BY <1>3, <2>1 DEF WakeInv, MainOK
  <2>3. ASSUME main # None, tasks'[main].state = "idle", tasks'[main].wait.kind = "join"
        PROVE  /\ tasks'[main].wait = tasks[main].wait
               /\ tasks'[tasks[main].wait.on].state \notin {"done", "dropped"}
    <3>1. tasks'[main].wait = tasks[main].wait /\ tasks[main].wait.on \in DOMAIN tasks
      BY <1>3, <2>1, <2>3, TaskFacts
    <3>2. ~Finished(tasks[main].wait.on)
      BY <1>3, <2>1, <2>3, <3>1 DEF WakeInv, MainOK
    <3>3. QED
      BY <1>3, <3>1, <3>2 DEF Finished
  <2>4. QED
    BY <1>1, <1>3, <2>2, <2>3, MainStays DEF WakeInv
<1>7. QED
  BY <1>1, <1>3, <1>4, <1>5, <1>6 DEF EndOK

\* A task ends, as a poll or the queue has it, and wakes whoever awaits it.
LEMMA EndWakes ==
  ASSUME SimInv, WakeInv, NEW t \in 1..Len(tasks), NEW s \in {"done", "dropped"},
         NEW next \in 0..Len(tasks), NEW q \in Seq(1..Len(tasks)),
         Ends(t, s, next, Joiner(t)),
         queue' = Enqueued(Enqueued(q, next), Joiner(t)),
         Distinct(q), Members(q) = In("scheduled") \ {t},
         In("running") \ {t} = {}, running' = None, pc' = "ready",
         next # None => Receives(next),
         s = "dropped" => t # main, tasks[t].state # "idle",
         UNCHANGED <<infos, info, main>>
  PROVE  /\ QueueOK' /\ SleepOK' /\ MainOK' /\ EndOK' /\ SameTasks
         /\ tasks'[t].state = s /\ \A u \in DOMAIN tasks : u # t => Wakes(u)
         /\ next # None => tasks'[next].state # "idle"
         /\ \A u \in DOMAIN tasks : tasks'[u].wait = tasks[u].wait
<1> DEFINE joiner == Joiner(t)
<1>1. /\ Len(tasks) \in Nat /\ DOMAIN tasks = 1..Len(tasks)
      /\ main # None => main \in DOMAIN tasks
  BY TaskFacts DEF SimInv, TypeInv, RunOK, None
<1>2. joiner \in 0..Len(tasks)
  BY <1>1 DEF Joiner, None
<1>3. /\ SameTasks
      /\ \A u \in DOMAIN tasks :
           /\ tasks'[u].wait = tasks[u].wait
           /\ tasks'[u].state = IF u = t THEN s
                                ELSE IF u \in {next, joiner} /\ tasks[u].state = "idle"
                                  THEN "scheduled" ELSE tasks[u].state
  <2>1. Ends(t, s, next, joiner)
    OBVIOUS
  <2> HIDE DEF joiner
  <2>2. QED
    BY <1>2, <2>1, EndEffect
<1>4. joiner # None => joiner = main /\ tasks[joiner].wait.kind = "join" /\ main # None
  BY DEF Joiner, None
<1>5. next # None => next \in DOMAIN tasks
  BY <1>1 DEF None
<1>6. next # None => next # joiner
  BY <1>4, <1>5 DEF Receives
<1> HIDE DEF joiner
<1>7. SUFFICES QueueOK' /\ MainOK'
  <2>1. SleepOK'
    BY <1>3 DEF WakeInv, SleepOK, SameTasks
  <2>2. EndOK'
    BY DEF EndOK
  <2>3. \A u \in DOMAIN tasks : u # t => Wakes(u)
    BY <1>3 DEF Wakes
  <2>4. next # None => tasks'[next].state # "idle"
    BY <1>3, <1>5
  <2>5. QED
    BY <1>1, <1>3, <2>1, <2>2, <2>3, <2>4
<1>8. QueueOK'
  <2> DEFINE Woken(u) == {v \in {u} : v # None /\ tasks[v].state = "idle"}
             q2 == Enqueued(q, next)
  <2>1. next # None /\ tasks[next].state = "idle" => next \notin Members(q)
    BY DEF In
  <2>2. Members(q2) = Members(q) \cup Woken(next) /\ Distinct(q2) /\ q2 \in Seq(1..Len(tasks))
    <3>1. Members(q2) = Members(q) \cup Woken(next) /\ Distinct(q2)
      BY <1>1, <2>1, MembersEnqueued
    <3>2. q2 \in Seq(1..Len(tasks))
      BY <1>1, EnqueuedProps
    <3>3. QED
      BY <3>1, <3>2
  <2>3. joiner # None /\ tasks[joiner].state = "idle" => joiner \notin Members(q2)
    BY <1>6, <2>2 DEF In
  <2>4. queue' = Enqueued(q2, joiner)
    BY DEF joiner
  <2> HIDE DEF q2
  <2>5. Members(queue') = Members(q2) \cup Woken(joiner) /\ Distinct(queue')
    <3>1. q2 \in Seq(1..Len(tasks)) /\ Distinct(q2)
      BY <2>2
    <3>2. Members(Enqueued(q2, joiner)) = Members(q2) \cup Woken(joiner) /\ Distinct(Enqueued(q2, joiner))
      BY <1>1, <1>2, <2>3, <3>1, MembersEnqueued
    <3>3. QED
      BY <2>4, <3>2
  <2>6. In("scheduled")' = (In("scheduled") \ {t}) \cup Woken(next) \cup Woken(joiner)
    <3>1. ASSUME NEW u \in In("scheduled")'
          PROVE  u \in (In("scheduled") \ {t}) \cup Woken(next) \cup Woken(joiner)
      <4>1. u \in DOMAIN tasks /\ u # None /\ tasks'[u].state = "scheduled"
        BY <1>1, <1>3, <3>1 DEF In, SameTasks, None
      <4>2. u # t
        BY <1>3, <4>1
      <4>3. QED
        BY <1>3, <4>1, <4>2 DEF In
    <3>2. ASSUME NEW u \in (In("scheduled") \ {t}) \cup Woken(next) \cup Woken(joiner)
          PROVE  u \in In("scheduled")'
      <4>1. u \in DOMAIN tasks /\ u # t
        BY <1>1, <1>4, <1>5, <3>2 DEF In
      <4>2. QED
        BY <1>3, <3>2, <4>1 DEF In, SameTasks
    <3>3. QED
      BY <3>1, <3>2
  <2>7. In("running")' = {}
    <3>1. ASSUME NEW u \in In("running")'
          PROVE  FALSE
      <4>1. u \in DOMAIN tasks /\ tasks'[u].state = "running"
        BY <1>3, <3>1 DEF In, SameTasks
      <4>2. u # t /\ tasks[u].state = "running"
        BY <1>3, <4>1
      <4>3. QED
        BY <4>1, <4>2 DEF In
    <3>2. QED
      BY <3>1
  <2>8. QED
    BY <2>2, <2>5, <2>6, <2>7 DEF QueueOK
<1>9. MainOK'
  <2>1. main # None => tasks'[main].state # "dropped"
    BY <1>1, <1>3 DEF WakeInv, MainOK
  <2>2. ASSUME main # None, tasks'[main].state = "idle", tasks'[main].wait.kind = "join"
        PROVE  /\ tasks'[main].wait = tasks[main].wait
               /\ tasks'[tasks[main].wait.on].state \notin {"done", "dropped"}
    <3>1. /\ tasks[main].state = "idle" /\ main # t /\ main # joiner
          /\ tasks'[main].wait = tasks[main].wait
      BY <1>1, <1>3, <2>2
    <3>2. /\ tasks[main].wait.on \in DOMAIN tasks /\ ~Finished(tasks[main].wait.on)
          /\ tasks[main].wait = [kind |-> "join", deadline |-> Never, on |-> tasks[main].wait.on]
      BY <1>1, <2>2, <3>1, TaskFacts DEF WakeInv, MainOK
    <3>3. tasks[main].wait.on # t
      BY <2>2, <3>1, <3>2 DEF joiner, Joiner
    <3>4. QED
      BY <1>3, <3>1, <3>2, <3>3 DEF Finished
  <2>3. QED
    BY <1>3, <2>1, <2>2, MainStays DEF WakeInv
<1>10. QED
  BY <1>8, <1>9

LEMMA PollsWake == SimInv /\ WakeInv /\ Polls => WakeInv'
<1> SUFFICES ASSUME SimInv, WakeInv, Polls
             PROVE  WakeInv'
  OBVIOUS
<1>1. /\ pc = "poll" /\ running \in 1..Len(tasks) /\ running \in DOMAIN tasks /\ running # None
      /\ tasks[running].state = "running" /\ AddrOf(running) \in Addrs
  <2>1. pc = "poll"
    BY DEF Polls, BeginWait, BeginJoin, SleepEnds, SleepPends, RecvEnds, RecvElapses, RecvPends,
           JoinEnds, JoinPanics, JoinPends, Finish, Polling, Waiting
  <2>2. QED
    BY <2>1, PollFacts
<1>2. /\ Len(tasks) \in Nat /\ DOMAIN tasks = 1..Len(tasks) /\ NetOK /\ None \in 0..Len(tasks)
      /\ \A u \in DOMAIN tasks : Receives(u) => tasks[u].wait.on \in Addrs
  BY TaskFacts DEF None
<1>3. inbox \in [Addrs -> Seq(Nat)] /\ ChannelInv
  BY DEF WakeInv, ChannelInv, NoneLost
<1>4. inbox' = inbox => Shrinks
  BY <1>3 DEF Shrinks
<1>5. CASE BeginWait \/ BeginJoin
  <2>1. /\ UNCHANGED <<infos, info, main, running, queue, pc, timer, inbox, listening, notified>>
        /\ tasks[running].wait = NoWait
    BY <1>5 DEF BeginWait, BeginJoin, Polling, time_vars, net_vars
  <2>2. PICK w \in GoodWaits(Len(tasks)) :
          /\ tasks' = WithWait(tasks, running, w)
          /\ w.kind = "sleep" => w.deadline # Never
    <3>1. CASE BeginWait
      <4>1. \A d \in Durations : After(d) \in Nat
        BY DurationsAssumption DEF After, SimInv, TypeInv, TimeOK
      <4>2. \A d \in Durations :
              [kind |-> "sleep", deadline |-> After(d), on |-> None] \in GoodWaits(Len(tasks))
        BY <4>1 DEF GoodWaits, Waits, None
      <4>3. \A deadline \in {Never} \cup {After(d) : d \in Durations} :
              [kind |-> "recv", deadline |-> deadline, on |-> AddrOf(running)]
                \in GoodWaits(Len(tasks))
        BY <1>1, <4>1 DEF GoodWaits, Waits
      <4>4. CASE \E d \in Durations : WaitFor([kind |-> "sleep", deadline |-> After(d), on |-> None])
        <5>1. PICK d \in Durations :
                tasks' = WithWait(tasks, running, [kind |-> "sleep", deadline |-> After(d), on |-> None])
          BY <4>4 DEF WaitFor, WithWait
        <5>2. After(d) # Never
          BY <4>1 DEF Never
        <5>3. QED
          BY <4>2, <5>1, <5>2
      <4>5. CASE \E deadline \in {Never} \cup {After(d) : d \in Durations} :
                   WaitFor([kind |-> "recv", deadline |-> deadline, on |-> AddrOf(running)])
        BY <4>3, <4>5 DEF WaitFor, WithWait
      <4>6. QED
        BY <3>1, <4>4, <4>5 DEF BeginWait
    <3>2. CASE BeginJoin
      <4>1. \A t \in DOMAIN tasks :
              [kind |-> "join", deadline |-> Never, on |-> t] \in GoodWaits(Len(tasks))
        BY <1>2 DEF GoodWaits, Waits
      <4>2. QED
        BY <3>2, <4>1 DEF BeginJoin, WaitFor, WithWait
    <3>3. QED
      BY <1>5, <3>1, <3>2
  <2>3. /\ SameTasks
        /\ \A u \in DOMAIN tasks : /\ tasks'[u].state = tasks[u].state
                                   /\ tasks'[u].wait = IF u = running THEN w ELSE tasks[u].wait
    BY <1>1, <2>2, TaskFacts, WaitSet DEF SameTasks
  <2>4. ChannelInv'
    <3>1. \A u \in DOMAIN tasks : Wakes(u) \/ Unheard(u)
      BY <1>1, <2>1, <2>3 DEF Wakes, Unheard, Receives, NoWait
    <3>2. QED
      BY <1>2, <1>3, <1>4, <2>1, <2>3, <3>1, ListensStill DEF SameTasks
  <2>5. QueueOK'
    <3>1. In("scheduled")' = In("scheduled") /\ In("running")' = In("running")
      BY <2>3 DEF In, SameTasks
    <3>2. QED
      BY <2>1, <3>1 DEF WakeInv, QueueOK
  <2>6. SleepOK'
    BY <2>2, <2>3 DEF WakeInv, SleepOK, SameTasks
  <2>7. MainOK'
    <3>1. main # None => main \in DOMAIN tasks
      BY <1>2 DEF SimInv, TypeInv, RunOK, None
    <3>2. main # None => tasks'[main].state # "dropped"
      BY <2>3, <3>1 DEF WakeInv, MainOK
    <3>3. ASSUME main # None, tasks'[main].state = "idle", tasks'[main].wait.kind = "join"
          PROVE  /\ tasks'[main].wait = tasks[main].wait
                 /\ tasks'[tasks[main].wait.on].state \notin {"done", "dropped"}
      <4>1. tasks[main].state = "idle" /\ main # running /\ tasks'[main].wait = tasks[main].wait
        BY <1>1, <2>3, <3>1, <3>3
      <4>2. tasks[main].wait.on \in DOMAIN tasks /\ ~Finished(tasks[main].wait.on)
        BY <3>1, <3>3, <4>1, TaskFacts DEF WakeInv, MainOK
      <4>3. QED
        BY <2>3, <4>1, <4>2 DEF Finished
    <3>4. QED
      BY <2>1, <2>3, <3>2, <3>3, MainStays DEF WakeInv
  <2>8. QED
    BY <1>1, <2>1, <2>4, <2>5, <2>6, <2>7 DEF WakeInv, ChannelInv, EndOK
<1>6. CASE SleepEnds \/ JoinEnds
  <2>1. /\ WaitEnds(None) /\ UNCHANGED <<inbox, listening, notified>> /\ ~Receives(running)
    BY <1>6 DEF SleepEnds, JoinEnds, Waiting, Receives, net_vars
  <2>2. /\ SameTasks
        /\ \A u \in DOMAIN tasks :
             /\ tasks'[u].wait = IF u = running THEN NoWait ELSE tasks[u].wait
             /\ tasks'[u].state = IF u = None /\ tasks[u].state = "idle" THEN "scheduled"
                                  ELSE tasks[u].state
    BY <1>1, <1>2, <2>1, WaitEndsEffect
  <2>3. \A u \in DOMAIN tasks : Wakes(u) \/ Unheard(u)
    BY <1>1, <1>2, <2>1, <2>2 DEF Wakes, Unheard, None
  <2>4. ChannelInv'
    BY <1>2, <1>3, <1>4, <2>1, <2>2, <2>3, ListensStill DEF SameTasks
  <2>5. QED
    BY <1>1, <1>2, <2>1, <2>4, WaitEndsWakes DEF WakeInv, ChannelInv
<1>7. CASE RecvEnds \/ RecvElapses
  <2> DEFINE a == tasks[running].wait.on
             woken == Successor(a, running)
  <2>1. DropListener(a, running) /\ WaitEnds(woken) /\ Receives(running) /\ a \in Addrs
    BY <1>1, <1>2, <1>7 DEF RecvEnds, RecvElapses, Waiting, Receives
  <2>2. Shrinks
    <3>1. CASE RecvElapses
      BY <1>4, <3>1 DEF RecvElapses
    <3>2. CASE RecvEnds
      <4>1. inbox[a] # << >> /\ inbox' = [inbox EXCEPT ![a] = Tail(inbox[a])]
        BY <3>2 DEF RecvEnds
      <4>2. Tail(inbox[a]) \in Seq(Nat)
        BY <1>3, <2>1, <4>1, HeadTailProperties
      <4>3. QED
        BY <1>3, <2>1, <4>1, <4>2 DEF Shrinks
    <3>3. QED
      BY <1>7, <3>1, <3>2
  <2>3. woken \in 0..Len(tasks)
    BY <1>2, <2>1, ListenerProps
  <2>4. woken # None => woken # running
    BY <1>1, <1>2, <1>3, <2>1, DropEffect DEF ChannelInv
  <2> HIDE DEF a
  <2>5. /\ SameTasks
        /\ \A u \in DOMAIN tasks :
             /\ tasks'[u].wait = IF u = running THEN NoWait ELSE tasks[u].wait
             /\ tasks'[u].state = IF u = woken /\ tasks[u].state = "idle" THEN "scheduled"
                                  ELSE tasks[u].state
    BY <1>1, <2>1, <2>3, WaitEndsEffect
  <2>6. /\ \A u \in DOMAIN tasks : u # running => Wakes(u)
        /\ tasks'[running].state # "idle"
        /\ woken # None => tasks'[woken].state # "idle"
    BY <1>1, <1>2, <2>3, <2>5 DEF Wakes, None
  <2>7. ChannelInv'
    BY <1>1, <1>2, <1>3, <2>1, <2>2, <2>5, <2>6, DropKeeps DEF a, SameTasks
  <2>8. QED
    BY <1>1, <2>1, <2>3, <2>7, WaitEndsWakes DEF WakeInv, ChannelInv
<1>8. CASE SleepPends \/ JoinPends
  <2>1. /\ Pends /\ UNCHANGED <<inbox, listening, notified>>
        /\ tasks[running].wait.kind \in {"sleep", "join"}
        /\ tasks[running].wait.kind = "join" => ~Finished(tasks[running].wait.on)
    BY <1>8 DEF SleepPends, JoinPends, Waiting, Finished, net_vars
  <2>2. /\ QueueOK' /\ SleepOK' /\ MainOK' /\ EndOK' /\ SameTasks
        /\ \A u \in DOMAIN tasks : /\ tasks'[u].wait = tasks[u].wait
                                   /\ tasks'[u].state = IF u = running THEN "idle" ELSE tasks[u].state
    BY <1>1, <2>1, PendsWakes
  <2>3. \A u \in DOMAIN tasks : Wakes(u) \/ Unheard(u)
    BY <2>1, <2>2 DEF Wakes, Unheard, Receives
  <2>4. ChannelInv'
    BY <1>2, <1>3, <1>4, <2>1, <2>2, <2>3, ListensStill DEF SameTasks
  <2>5. QED
    BY <2>2, <2>4 DEF WakeInv, ChannelInv
<1>9. CASE RecvPends
  <2> DEFINE a == tasks[running].wait.on
  <2>1. Pends /\ Receives(running) /\ a \in Addrs /\ Listen(a, running) /\ inbox[a] = << >> /\ inbox' = inbox
    BY <1>1, <1>2, <1>9 DEF RecvPends, Waiting, Receives
  <2>2. /\ QueueOK' /\ SleepOK' /\ MainOK' /\ EndOK' /\ SameTasks
        /\ \A u \in DOMAIN tasks : /\ tasks'[u].wait = tasks[u].wait
                                   /\ tasks'[u].state = IF u = running THEN "idle" ELSE tasks[u].state
    BY <1>1, <2>1, PendsWakes DEF Receives
  <2>3. ChannelInv'
    BY <1>1, <1>2, <1>3, <2>1, <2>2, ListenKeeps DEF SameTasks
  <2>4. QED
    BY <2>2, <2>3 DEF WakeInv, ChannelInv
<1>10. CASE JoinPanics
  <2>1. UNCHANGED <<infos, info, main, running, queue, tasks, timer, inbox, listening, notified>>
    BY <1>10 DEF JoinPanics, time_vars, net_vars
  <2>2. QED
    BY <1>1, <2>1 DEF WakeInv, QueueOK, In, ListenersOK, NotifiedOK, IdleOK, SleepOK, NoneLost,
                      MainOK, Killed, Finished, EndOK, Receives
<1>11. CASE Finish
  <2>1. /\ tasks' = Scheduled([tasks EXCEPT ![running].state = "done"], Joiner(running))
        /\ queue' = Enqueued(queue, Joiner(running)) /\ running' = None /\ pc' = "ready"
        /\ UNCHANGED <<infos, info, main, inbox, listening, notified>>
        /\ ~Receives(running)
    BY <1>11 DEF Finish, Polling, NoWait, Receives, net_vars
  <2>2. Ends(running, "done", None, Joiner(running)) /\ \A x : Enqueued(x, None) = x
    BY <2>1 DEF Ends, Scheduled, Enqueued
  <2>3. Distinct(queue) /\ Members(queue) = In("scheduled") \ {running}
    BY <1>1 DEF WakeInv, QueueOK, In
  <2>4. In("running") \ {running} = {} /\ queue \in Seq(1..Len(tasks))
    BY TaskFacts DEF WakeInv, QueueOK
  <2>5. /\ QueueOK' /\ SleepOK' /\ MainOK' /\ EndOK' /\ SameTasks
        /\ tasks'[running].state = "done" /\ \A u \in DOMAIN tasks : u # running => Wakes(u)
    BY <1>1, <1>2, <2>1, <2>2, <2>3, <2>4, EndWakes
  <2>6. \A u \in DOMAIN tasks : Wakes(u) \/ Unheard(u)
    BY <2>1, <2>5 DEF Unheard
  <2>7. ChannelInv'
    BY <1>2, <1>3, <1>4, <2>1, <2>5, <2>6, ListensStill DEF SameTasks
  <2>8. QED
    BY <2>5, <2>7 DEF WakeInv, ChannelInv
<1>12. QED
  BY <1>5, <1>6, <1>7, <1>8, <1>9, <1>10, <1>11 DEF Polls

\* A step that leaves the tasks and the channels alone.
LEMMA WakesIdle ==
  ASSUME SimInv, WakeInv, UNCHANGED <<tasks, queue, running, main, info, infos, listening, notified>>,
         Shrinks, EndOK'
  PROVE  WakeInv'
<1>1. /\ Len(tasks) \in Nat /\ DOMAIN tasks = 1..Len(tasks) /\ NetOK
  BY TaskFacts
<1>2. \A u \in DOMAIN tasks : Wakes(u)
  BY DEF Wakes
<1>3. ChannelInv'
  BY <1>1, <1>2, ListensStill DEF WakeInv, ChannelInv
<1>4. QueueOK' /\ SleepOK' /\ MainOK'
  BY DEF WakeInv, QueueOK, In, SleepOK, MainOK, Killed, Finished
<1>5. QED
  BY <1>3, <1>4 DEF WakeInv, ChannelInv

LEMMA ExecutesWake == SimInv /\ WakeInv /\ Executes => WakeInv'
<1> SUFFICES ASSUME SimInv, WakeInv, Executes
             PROVE  WakeInv'
  OBVIOUS
<1>1. /\ Len(tasks) \in Nat /\ DOMAIN tasks = 1..Len(tasks) /\ NetOK /\ None \in 0..Len(tasks)
      /\ queue \in Seq(1..Len(tasks))
      /\ \A u \in DOMAIN tasks : Receives(u) => tasks[u].wait.on \in Addrs
  BY TaskFacts DEF None
<1>2. inbox \in [Addrs -> Seq(Nat)] /\ ChannelInv
  BY DEF WakeInv, ChannelInv, NoneLost
<1>3. inbox' = inbox => Shrinks
  BY <1>2 DEF Shrinks
<1>4. queue # << >> => /\ Head(queue) \in 1..Len(tasks) /\ Tail(queue) \in Seq(1..Len(tasks))
                       /\ tasks[Head(queue)].state = "scheduled"
                       /\ Members(Tail(queue)) = In("scheduled") \ {Head(queue)}
                       /\ Distinct(Tail(queue))
  BY <1>1, HeadTailProperties, MembersOfTail DEF WakeInv, QueueOK, In
<1>5. main # None => main \in DOMAIN tasks
  BY <1>1 DEF SimInv, TypeInv, RunOK, None
<1>6. CASE Run
  <2> DEFINE t == Head(queue)
  <2>1. /\ queue # << >> /\ queue' = Tail(queue) /\ running' = t
        /\ tasks' = [tasks EXCEPT ![t].state = "running"] /\ pc = "ready" /\ pc' = "poll"
        /\ UNCHANGED <<infos, info, main, inbox, listening, notified>>
    BY <1>6 DEF Run, RunNext, net_vars
  <2>2. "running" \in States /\ running = None
    BY <2>1 DEF States, SimInv, TypeInv, RunOK
  <2>3. /\ SameTasks
        /\ \A u \in DOMAIN tasks : /\ tasks'[u].wait = tasks[u].wait
                                   /\ tasks'[u].state = IF u = t THEN "running" ELSE tasks[u].state
    BY <1>4, <2>1, <2>2, StateEffect
  <2>4. ChannelInv'
    <3>1. \A u \in DOMAIN tasks : Wakes(u) \/ Starts(u)
      BY <1>4, <2>1, <2>3 DEF Wakes, Starts
    <3>2. QED
      BY <1>1, <1>2, <1>3, <2>1, <2>3, <3>1, ListensStill DEF SameTasks
  <2> HIDE DEF t
  <2>5. t \in DOMAIN tasks /\ t # None
    BY <1>1, <1>4, <2>1 DEF t, None
  <2>6. QueueOK'
    <3>1. In("scheduled")' = In("scheduled") \ {t}
      BY <2>3 DEF In, SameTasks
    <3>2. In("running")' = {t}
      BY <2>2, <2>3, <2>5 DEF In, SameTasks, WakeInv, QueueOK
    <3>3. QED
      BY <1>4, <2>1, <2>5, <3>1, <3>2 DEF QueueOK, t
  <2>7. SleepOK'
    BY <2>3 DEF WakeInv, SleepOK, SameTasks
  <2>8. MainOK'
    <3>1. main # None => tasks'[main].state # "dropped"
      BY <1>5, <2>3 DEF WakeInv, MainOK
    <3>2. ASSUME main # None, tasks'[main].state = "idle", tasks'[main].wait.kind = "join"
          PROVE  /\ tasks'[main].wait = tasks[main].wait
                 /\ tasks'[tasks[main].wait.on].state \notin {"done", "dropped"}
      <4>1. tasks[main].state = "idle" /\ tasks'[main].wait = tasks[main].wait
        BY <1>5, <2>3, <3>2
      <4>2. tasks[main].wait.on \in DOMAIN tasks /\ ~Finished(tasks[main].wait.on)
        BY <1>5, <3>2, <4>1, TaskFacts DEF WakeInv, MainOK
      <4>3. QED
        BY <2>3, <4>1, <4>2 DEF Finished
    <3>3. QED
      BY <2>1, <2>3, <3>1, <3>2, MainStays DEF WakeInv
  <2>9. QED
    BY <2>1, <2>4, <2>6, <2>7, <2>8 DEF WakeInv, ChannelInv, EndOK
<1>7. CASE SkipKilled
  <2> DEFINE t    == Head(queue)
             a    == tasks[t].wait.on
             next == IF tasks[t].wait.kind = "recv" THEN Successor(a, t) ELSE None
  <2>1. /\ queue # << >> /\ pc = "ready" /\ Killed(t)
        /\ Ends(t, "dropped", next, Joiner(t))
        /\ queue' = Enqueued(Enqueued(Tail(queue), next), Joiner(t))
        /\ IF tasks[t].wait.kind = "recv" THEN DropListener(a, t)
           ELSE UNCHANGED <<listening, notified>>
        /\ UNCHANGED <<infos, info, main, running, pc, inbox>>
    BY <1>7 DEF SkipKilled, Ends
  <2>2. /\ t \in 1..Len(tasks) /\ t \in DOMAIN tasks /\ tasks[t].state = "scheduled"
        /\ running = None
        /\ Receives(t) => a \in Addrs
    BY <1>1, <1>4, <2>1 DEF SimInv, TypeInv, RunOK
  <2>3. t # main
    BY <1>1, <2>1, <2>2 DEF WakeInv, MainOK, None
  <2>4. In("running") \ {t} = {} /\ running' = None /\ pc' = "ready"
    BY <2>1, <2>2 DEF WakeInv, QueueOK
  <2>5. next \in 0..Len(tasks) /\ (next # None => Receives(next))
    <3>1. CASE Receives(t)
      <4>1. next = Successor(a, t) /\ DropListener(a, t) /\ a \in Addrs
        BY <2>1, <2>2, <3>1 DEF Receives
      <4>2. next \in 0..Len(tasks)
        BY <1>1, <4>1, ListenerProps
      <4>3. next # None => next \in Members(listening[a])
        BY <1>1, <1>2, <2>2, <4>1, DropEffect DEF ChannelInv
      <4>4. QED
        BY <1>2, <4>1, <4>2, <4>3 DEF ChannelInv, ListenersOK
    <3>2. CASE ~Receives(t)
      BY <1>1, <3>2 DEF Receives
    <3>3. QED
      BY <3>1, <3>2
  <2>6. /\ Tail(queue) \in Seq(1..Len(tasks)) /\ Distinct(Tail(queue))
        /\ Members(Tail(queue)) = In("scheduled") \ {t}
    BY <1>4, <2>1
  <2> HIDE DEF t, next
  <2>7. /\ QueueOK' /\ SleepOK' /\ MainOK' /\ EndOK' /\ SameTasks
        /\ tasks'[t].state = "dropped" /\ \A u \in DOMAIN tasks : u # t => Wakes(u)
        /\ next # None => tasks'[next].state # "idle"
    BY <2>1, <2>2, <2>3, <2>4, <2>5, <2>6, EndWakes
  <2>8. ChannelInv'
    <3>1. CASE Receives(t)
      <4>1. next = Successor(a, t) /\ DropListener(a, t) /\ a \in Addrs
        BY <2>1, <2>2, <3>1 DEF Receives, next
      <4>2. QED
        BY <1>1, <1>2, <1>3, <2>1, <2>2, <2>7, <3>1, <4>1, DropKeeps DEF SameTasks
    <3>2. CASE ~Receives(t)
      <4>1. \A u \in DOMAIN tasks : Wakes(u) \/ Unheard(u)
        BY <2>7, <3>2 DEF Unheard
      <4>2. QED
        BY <1>1, <1>2, <1>3, <2>1, <2>7, <3>2, <4>1, ListensStill DEF SameTasks, Receives
    <3>3. QED
      BY <3>1, <3>2
  <2>9. QED
    BY <2>7, <2>8 DEF WakeInv, ChannelInv
<1>8. CASE Return \/ Deadlock \/ Advance \/ SetClock
  <2>1. /\ UNCHANGED <<tasks, queue, running, main, info, infos, listening, notified, inbox>>
        /\ pc' = "panicked" => timer' = {} /\ queue' = << >> /\ tasks'[main'].state # "done"
    BY <1>8 DEF Return, Deadlock, Advance, SetClock, BlockOnEnds, BlockOnPanics, BlockOnAdvances,
                net_vars, time_vars
  <2>2. EndOK'
    BY <2>1 DEF EndOK
  <2>3. QED
    BY <1>3, <2>1, <2>2, WakesIdle
<1>9. CASE Fire
  <2>1. pc = "advance" /\ pc' = "advance" /\ UNCHANGED <<infos, info, main, running>>
    BY <1>9 DEF Fire, Deliver
  <2>2. PICK e \in timer :
          \/ e.callback[1] = "deliver" /\ Deliver(e.callback[2])
          \/ /\ e.callback[1] # "deliver"
             /\ Wake(e.callback[2]) /\ UNCHANGED <<inbox, listening, notified>>
    BY <1>9 DEF Fire, net_vars
  <2>3. e.callback \in Callbacks(Len(sent), Len(tasks))
    BY DEF SimInv, TypeInv, TimeOK
  <2>4. ASSUME NEW t \in 0..Len(tasks), Wake(t), ChannelInv'
        PROVE  WakeInv'
    <3>1. /\ SameTasks
          /\ \A u \in DOMAIN tasks :
               /\ tasks'[u].wait = tasks[u].wait
               /\ tasks'[u].state = IF u = t /\ tasks[u].state = "idle" THEN "scheduled"
                                    ELSE tasks[u].state
      BY <2>4, WakeEffect
    <3>2. QueueOK'
      BY <2>1, <2>4, <3>1, QueueWakes DEF WakeInv, Wake
    <3>3. SleepOK'
      BY <3>1 DEF WakeInv, SleepOK, SameTasks
    <3>4. MainOK'
      <4>1. main # None => tasks'[main].state # "dropped"
        BY <1>5, <3>1 DEF WakeInv, MainOK
      <4>2. ASSUME main # None, tasks'[main].state = "idle", tasks'[main].wait.kind = "join"
            PROVE  /\ tasks'[main].wait = tasks[main].wait
                   /\ tasks'[tasks[main].wait.on].state \notin {"done", "dropped"}
        <5>1. tasks[main].state = "idle" /\ tasks'[main].wait = tasks[main].wait
          BY <1>5, <3>1, <4>2
        <5>2. tasks[main].wait.on \in DOMAIN tasks /\ ~Finished(tasks[main].wait.on)
          BY <1>5, <4>2, <5>1, TaskFacts DEF WakeInv, MainOK
        <5>3. QED
          BY <3>1, <5>1, <5>2 DEF Finished
      <4>3. QED
        BY <2>1, <3>1, <4>1, <4>2, MainStays DEF WakeInv
    <3>5. QED
      BY <2>1, <2>4, <3>2, <3>3, <3>4 DEF WakeInv, ChannelInv, EndOK
  <2>5. CASE e.callback[1] = "deliver"
    <3> DEFINE m == e.callback[2]
               a == sent[m].dst
               woken == First(listening[a])
    <3>1. /\ inbox' = [inbox EXCEPT ![a] = Append(@, m)]
          /\ Notify(a, listening[a], notified) /\ Wake(woken)
      BY <2>2, <2>5 DEF Deliver
    <3>2. m \in 1..Len(sent) /\ Len(sent) \in Nat
      BY <2>3, <2>5, Lengths DEF Callbacks
    <3>3. m \in Nat
      BY <3>2
    <3>4. a \in Addrs
      <4>1. sent[m] \in [src : Addrs, dst : Addrs, at : Nat]
        BY <3>2, ElementOfSeq DEF SimInv, TypeInv, NetOK
      <4>2. QED
        BY <4>1
    <3>5. woken \in 0..Len(tasks)
      BY <1>1, <3>4, ListenerProps
    <3> HIDE DEF m, a
    <3>6. /\ SameTasks
          /\ \A u \in DOMAIN tasks :
               /\ tasks'[u].wait = tasks[u].wait
               /\ tasks'[u].state = IF u = woken /\ tasks[u].state = "idle" THEN "scheduled"
                                    ELSE tasks[u].state
      BY <3>1, <3>5, WakeEffect
    <3>7. /\ \A u \in DOMAIN tasks : Wakes(u)
          /\ woken # None => tasks'[woken].state # "idle"
      BY <1>1, <3>5, <3>6 DEF Wakes, None
    <3>8. ChannelInv'
      BY <1>1, <1>2, <3>1, <3>3, <3>4, <3>6, <3>7, DeliverKeeps DEF SameTasks
    <3>9. QED
      BY <2>4, <3>1, <3>5, <3>8
  <2>6. CASE e.callback[1] # "deliver"
    <3>1. e.callback[2] \in 0..Len(tasks)
      BY <1>1, <2>3, <2>6 DEF Callbacks
    <3>2. Wake(e.callback[2]) /\ UNCHANGED <<inbox, listening, notified>>
      BY <2>2, <2>6
    <3>3. /\ SameTasks
          /\ \A u \in DOMAIN tasks :
               /\ tasks'[u].wait = tasks[u].wait
               /\ tasks'[u].state = IF u = e.callback[2] /\ tasks[u].state = "idle" THEN "scheduled"
                                    ELSE tasks[u].state
      BY <3>1, <3>2, WakeEffect
    <3>4. \A u \in DOMAIN tasks : Wakes(u)
      BY <3>3 DEF Wakes
    <3>5. ChannelInv'
      BY <1>1, <1>2, <1>3, <3>2, <3>3, <3>4, ListensStill DEF SameTasks
    <3>6. QED
      BY <2>4, <3>1, <3>2, <3>5
  <2>7. QED
    BY <2>5, <2>6
<1>10. QED
  BY <1>6, <1>7, <1>8, <1>9 DEF Executes

\* A task is started.
LEMMA SpawnWakes ==
  ASSUME SimInv, WakeInv, NEW i, SpawnUnder(i), SimInv',
         UNCHANGED <<listening, notified, inbox, running>>, EndOK', MainOK'
  PROVE  WakeInv'
<1> DEFINE n == Len(tasks) + 1
<1>1. /\ Len(tasks) \in Nat /\ DOMAIN tasks = 1..Len(tasks) /\ NetOK
      /\ queue \in Seq(1..Len(tasks)) /\ DOMAIN tasks' = 1..Len(tasks')
  BY TaskFacts
<1>2. tasks' = Append(tasks, NewTask(i)) /\ queue' = Append(queue, n)
  BY DEF SpawnUnder
<1>3. Len(tasks') = n /\ (\A u \in 1..Len(tasks) : tasks'[u] = tasks[u]) /\ tasks'[n] = NewTask(i)
  BY <1>2, TaskFacts, Appending
<1>4. DOMAIN tasks' = DOMAIN tasks \cup {n} /\ n \notin DOMAIN tasks /\ n # None
  BY <1>1, <1>3 DEF None
<1>5. QueueOK'
  <2>1. queue \in Seq(1..n) /\ n \in 1..n
    BY <1>1, ListeningGrows
  <2>2. n \notin Members(queue)
    BY <1>4 DEF WakeInv, QueueOK, In
  <2>3. Members(queue') = Members(queue) \cup {n} /\ Distinct(queue')
    BY <1>2, <2>1, <2>2, MembersAppended DEF WakeInv, QueueOK
  <2>4. In("scheduled")' = In("scheduled") \cup {n}
    BY <1>1, <1>3, <1>4 DEF In, NewTask
  <2>5. In("running")' = In("running")
    BY <1>1, <1>3, <1>4 DEF In, NewTask
  <2>6. QED
    BY <2>3, <2>4, <2>5 DEF WakeInv, QueueOK
<1>6. \A b \in Addrs : Members(listening[b]) \subseteq 1..Len(tasks)
  BY <1>1, MembersEmpty DEF NetOK
<1>7. ListenersOK'
  BY <1>3, <1>6 DEF WakeInv, ListenersOK, Receives
<1>8. NotifiedOK'
  BY <1>1, <1>3, <1>4 DEF WakeInv, NotifiedOK, Receives
<1>9. IdleOK'
  BY <1>1, <1>3, <1>4 DEF WakeInv, IdleOK, Receives, In, NewTask
<1>10. SleepOK'
  BY <1>1, <1>3, <1>4 DEF WakeInv, SleepOK, NewTask, NoWait
<1>11. NoneLost'
  BY <1>1, <1>3 DEF WakeInv, NoneLost, NotifiedOK
<1>12. QED
  BY <1>5, <1>7, <1>8, <1>9, <1>10, <1>11 DEF WakeInv

\* The main task's info is not among those a handle is given.
LEMMA MainKept ==
  ASSUME SimInv, WakeInv, NEW i, SpawnUnder(i), main' = main,
         Len(infos) <= Len(infos'), \A j \in 1..Len(infos) : infos'[j] = infos[j],
         \A a \in Addrs : info'[a] = info[a] \/ info'[a] = Len(infos) + 1
  PROVE  MainOK'
<1>1. /\ Len(tasks) \in Nat /\ DOMAIN tasks = 1..Len(tasks) /\ Len(infos) \in Nat
      /\ tasks \in Seq(Task(Len(infos), Len(tasks)))
  BY TaskFacts
<1>2. \A u \in 1..Len(tasks) : tasks'[u] = tasks[u] /\ tasks[u].info \in 1..Len(infos)
  <2>1. \A u \in 1..Len(tasks) : tasks[u] \in Task(Len(infos), Len(tasks))
    BY <1>1, ElementOfSeq
  <2>2. \A u \in 1..Len(tasks) : tasks'[u] = tasks[u]
    BY <1>1, Appending DEF SpawnUnder
  <2>3. QED
    BY <2>1, <2>2 DEF Task
<1>3. main # None => main \in 1..Len(tasks)
  BY <1>1 DEF SimInv, TypeInv, RunOK, None
<1>4. ASSUME main # None
      PROVE  /\ ~Killed(main)' /\ \A a \in Addrs : info'[a] # tasks'[main].info
             /\ tasks'[main].state # "dropped"
    BY <1>1, <1>2, <1>3, <1>4 DEF WakeInv, MainOK, Killed
<1>5. ASSUME main # None, tasks'[main].state = "idle", tasks'[main].wait.kind = "join"
      PROVE  tasks'[tasks'[main].wait.on].state \notin {"done", "dropped"}
  <2>1. tasks'[main] = tasks[main] /\ tasks[main].wait.on \in DOMAIN tasks
    BY <1>2, <1>3, <1>5, TaskFacts
  <2>2. QED
    BY <1>1, <1>2, <1>5, <2>1 DEF WakeInv, MainOK, Finished
<1>6. QED
  BY <1>4, <1>5 DEF MainOK, Finished

LEMMA CallsWake == SimInv /\ WakeInv /\ SimInv' /\ (BlockOn \/ Calls) => WakeInv'
<1> SUFFICES ASSUME SimInv, WakeInv, SimInv', BlockOn \/ Calls
             PROVE  WakeInv'
  OBVIOUS
<1>1. /\ Len(tasks) \in Nat /\ DOMAIN tasks = 1..Len(tasks) /\ Len(infos) \in Nat
      /\ infos \in Seq([addr : Addrs, killed : BOOLEAN]) /\ info \in [Addrs -> 0..Len(infos)]
      /\ tasks \in Seq(Task(Len(infos), Len(tasks)))
  BY TaskFacts DEF SimInv, TypeInv, NodesOK
<1>2. inbox \in [Addrs -> Seq(Nat)]
  BY DEF WakeInv, NoneLost
<1>3. inbox' = inbox => Shrinks
  BY <1>2 DEF Shrinks
<1>4. ASSUME Calling \/ pc = "outside", pc' = pc, running' = running
      PROVE  EndOK'
  BY <1>4 DEF EndOK, Calling, Polling
<1>5. CASE BlockOn
  <2>1. /\ infos' = Append(infos, [addr |-> MainAddr, killed |-> FALSE])
        /\ SpawnUnder(Len(infos) + 1) /\ main' = Len(tasks) + 1 /\ pc' = "ready"
        /\ UNCHANGED <<listening, notified, inbox, running, info>>
    BY <1>5 DEF BlockOn, BlockOnBegins, net_vars
  <2>2. /\ tasks'[main'] = NewTask(Len(infos) + 1)
        /\ infos'[Len(infos) + 1] = [addr |-> MainAddr, killed |-> FALSE]
    BY <1>1, <2>1, Appending DEF SpawnUnder
  <2>3. \A a \in Addrs : info'[a] # Len(infos) + 1
    BY <1>1, <2>1
  <2>4. MainOK' /\ EndOK'
    BY <2>1, <2>2, <2>3 DEF MainOK, EndOK, Killed, NewTask
  <2>5. QED
    BY <2>1, <2>4, SpawnWakes
<1>6. ASSUME NEW a \in Addrs, NEW i, LocalInfo(a), SpawnUnder(i), Calling,
             UNCHANGED <<listening, notified, inbox, running, main, pc>>
      PROVE  WakeInv'
  <2>1. /\ Len(infos) <= Len(infos') /\ \A j \in 1..Len(infos) : infos'[j] = infos[j]
        /\ \A b \in Addrs : info'[b] = info[b] \/ info'[b] = Len(infos) + 1
    <3>1. CASE info[a] # None
      BY <1>1, <1>6, <3>1 DEF LocalInfo
    <3>2. CASE info[a] = None
      <4>1. /\ infos' = Append(infos, [addr |-> a, killed |-> FALSE])
            /\ info' = [info EXCEPT ![a] = Len(infos) + 1]
        BY <1>6, <3>2 DEF LocalInfo
      <4>2. Len(infos') = Len(infos) + 1 /\ \A j \in 1..Len(infos) : infos'[j] = infos[j]
        BY <1>1, <4>1, Appending
      <4>3. QED
        BY <1>1, <4>1, <4>2
    <3>3. QED
      BY <3>1, <3>2
  <2>2. MainOK'
    BY <1>6, <2>1, MainKept
  <2>3. QED
    BY <1>4, <1>6, <2>2, SpawnWakes
<1>7. ASSUME NEW a \in Addrs, Spawn(a)
      PROVE  WakeInv'
  BY <1>6, <1>7 DEF Spawn
<1>8. CASE SpawnHere
  <2>1. AddrOf(running) \in Addrs /\ Calling
    BY <1>8, PollFacts DEF SpawnHere, Polling, Calling
  <2>2. QED
    BY <1>6, <1>8, <2>1 DEF SpawnHere, net_vars
<1>9. ASSUME NEW i \in DOMAIN infos, SpawnStale(i)
      PROVE  WakeInv'
  <2>1. /\ UNCHANGED <<infos, info, main, running, pc, listening, notified, inbox>>
        /\ SpawnUnder(i) /\ Calling
    BY <1>9 DEF SpawnStale, net_vars
  <2>2. MainOK'
    BY <1>1, <2>1, MainKept
  <2>3. QED
    BY <1>4, <2>1, <2>2, SpawnWakes
<1>10. ASSUME NEW a \in Addrs, KillNode(a)
       PROVE  WakeInv'
  <2>1. /\ info' = [info EXCEPT ![a] = None]
        /\ infos' = IF info[a] = None THEN infos ELSE [infos EXCEPT ![info[a]].killed = TRUE]
        /\ UNCHANGED <<queue, tasks, main, running, pc, listening, notified, inbox>> /\ Calling
    BY <1>10 DEF KillNode, Kill, net_vars
  <2>2. EndOK'
    BY <1>4, <2>1
  <2>3. MainOK'
    <3>1. SUFFICES ASSUME main # None
                   PROVE  ~Killed(main)' /\ \A b \in Addrs : info'[b] # tasks[main].info
      BY <2>1 DEF WakeInv, MainOK, Finished
    <3>2. main \in 1..Len(tasks)
      BY <1>1, <3>1 DEF SimInv, TypeInv, RunOK, None
    <3>3. tasks[main].info \in 1..Len(infos) /\ DOMAIN infos = 1..Len(infos)
      <4>1. tasks[main] \in Task(Len(infos), Len(tasks))
        BY <1>1, <3>2, ElementOfSeq
      <4>2. QED
        BY <1>1, <4>1, LenProperties DEF Task
    <3>4. ~infos[tasks[main].info].killed /\ \A b \in Addrs : info[b] # tasks[main].info
      BY <3>1 DEF WakeInv, MainOK, Killed
    <3>5. infos'[tasks[main].info] = infos[tasks[main].info]
      BY <2>1, <3>3, <3>4
    <3>6. \A b \in Addrs : info'[b] # tasks[main].info
      BY <1>1, <2>1, <3>3, <3>4 DEF None
    <3>7. QED
      BY <2>1, <3>4, <3>5, <3>6 DEF Killed
  <2>4. QED
    BY <2>1, <2>2, <2>3 DEF WakeInv, QueueOK, In, ListenersOK, NotifiedOK, IdleOK, SleepOK, NoneLost,
                            Receives
<1>11. ASSUME NEW dst \in Addrs, SendTo(dst)
       PROVE  WakeInv'
  <2>1. /\ UNCHANGED <<tasks, queue, running, main, info, infos, listening, notified, inbox, pc>>
        /\ Calling
    BY <1>11 DEF SendTo, Send, Calling, task_vars
  <2>2. QED
    BY <1>3, <1>4, <2>1, WakesIdle
<1>12. CASE ChangeLink
  <2>1. /\ UNCHANGED <<tasks, queue, running, main, info, infos, listening, notified, inbox, pc>>
        /\ Calling
    BY <1>12 DEF ChangeLink, Connect, Disconnect, SetPacketLossRate, task_vars
  <2>2. QED
    BY <1>3, <1>4, <2>1, WakesIdle
<1>13. CASE Take
  <2>1. /\ UNCHANGED <<tasks, queue, running, main, info, infos, listening, notified, pc>>
        /\ Calling
        /\ \E a \in Here : inbox[a] # << >> /\ inbox' = [inbox EXCEPT ![a] = Tail(@)]
    BY <1>13 DEF Take, TryRecv, task_vars
  <2>2. PICK a \in Here : inbox[a] # << >> /\ inbox' = [inbox EXCEPT ![a] = Tail(@)]
    BY <2>1
  <2>3. Shrinks
    <3>1. CASE a \in Addrs
      <4>1. Tail(inbox[a]) \in Seq(Nat)
        BY <1>2, <2>2, <3>1, HeadTailProperties
      <4>2. QED
        BY <1>2, <2>2, <3>1, <4>1 DEF Shrinks
    <3>2. CASE a \notin Addrs
      BY <1>2, <2>2, <3>2 DEF Shrinks
    <3>3. QED
      BY <3>1, <3>2
  <2>4. QED
    BY <1>4, <2>1, <2>3, WakesIdle
<1>14. CASE UseFiles \/ FileOverrun
  <2>1. /\ UNCHANGED <<tasks, queue, running, main, info, infos, listening, notified, inbox>>
        /\ pc = "poll"
    BY <1>14 DEF UseFiles, FileOverrun, Polling, task_vars, net_vars
  <2>2. EndOK'
    BY <2>1 DEF EndOK, SimInv, TypeInv, RunOK
  <2>3. QED
    BY <1>3, <2>1, <2>2, WakesIdle
<1>15. QED
  BY <1>5, <1>7, <1>8, <1>9, <1>10, <1>11, <1>12, <1>13, <1>14 DEF Calls

LEMMA WakeInvInit == Init => WakeInv
<1> SUFFICES ASSUME Init
             PROVE  WakeInv
  OBVIOUS
<1>1. /\ tasks = << >> /\ queue = << >> /\ running = None /\ main = None /\ pc = "outside"
      /\ notified = {} /\ DOMAIN tasks = {} /\ DOMAIN queue = {}
      /\ inbox = [a \in Addrs |-> << >>] /\ listening = [a \in Addrs |-> << >>]
  BY DEF Init, TasksInit, NetworkInit
<1>2. QueueOK
  BY <1>1 DEF QueueOK, In, Distinct, Members
<1>3. ListenersOK
  BY <1>1 DEF ListenersOK, Distinct, Members
<1>4. << >> \in Seq(Nat)
  BY EmptySeq
<1>5. NoneLost
  BY <1>1, <1>4 DEF NoneLost
<1>6. QED
  BY <1>1, <1>2, <1>3, <1>5 DEF WakeInv, NotifiedOK, IdleOK, In, SleepOK, MainOK, EndOK

LEMMA WakeInvNext == SimInv /\ WakeInv /\ [Next]_vars => WakeInv'
<1> SUFFICES ASSUME SimInv, WakeInv, [Next]_vars
             PROVE  WakeInv'
  OBVIOUS
<1>1. SimInv'
  BY SimInvNext
<1>2. CASE UNCHANGED vars
  BY <1>2 DEF vars, time_vars, task_vars, net_vars, WakeInv, QueueOK, In, ListenersOK, NotifiedOK,
              IdleOK, SleepOK, NoneLost, MainOK, Killed, Finished, EndOK, Receives
<1>3. QED
  BY <1>1, <1>2, CallsWake, PollsWake, ExecutesWake DEF Next

LEMMA WakeInvHolds == Spec => [](SimInv /\ WakeInv)
<1>1. Init => SimInv /\ WakeInv
  BY SimInvInit, WakeInvInit
<1>2. SimInv /\ WakeInv /\ [Next]_vars => SimInv' /\ WakeInv'
  BY SimInvNext, WakeInvNext
<1>3. QED
  BY <1>1, <1>2, PTL DEF Spec

\* With nothing queued and nothing running, no task that was notified is left.
LEMMA QuietMeansHeard ==
  ASSUME SimInv, WakeInv, queue = << >>, running = None
  PROVE  /\ \A t \in DOMAIN tasks : tasks[t].state \in {"idle", "done", "dropped"}
         /\ \A t \in DOMAIN tasks :
              tasks[t].state = "idle" /\ Receives(t) => inbox[tasks[t].wait.on] = << >>
<1>1. In("scheduled") = {} /\ In("running") = {}
  BY TaskFacts, MembersEmpty DEF WakeInv, QueueOK
<1>2. \A t \in DOMAIN tasks : tasks[t].state \in States
  BY Lengths DEF Task
<1>3. notified = {}
  BY <1>1 DEF WakeInv, NotifiedOK, In
<1>4. ASSUME NEW t \in DOMAIN tasks, tasks[t].state = "idle", Receives(t)
      PROVE  inbox[tasks[t].wait.on] = << >>
  <2>1. tasks[t].wait.on \in Addrs /\ t \in Members(listening[tasks[t].wait.on])
    BY <1>4, TaskFacts DEF WakeInv, IdleOK, In
  <2>2. listening[tasks[t].wait.on] # << >>
    BY <2>1 DEF Members
  <2>3. QED
    BY <1>3, <2>1, <2>2 DEF WakeInv, NoneLost
<1>5. QED
  BY <1>1, <1>2, <1>4 DEF In, States

\* No message is left in an endpoint a task waits on when the executor has nothing left to run:
\* a notification given to a task of a killed node, or to one whose timeout elapsed, is handed on
\* (task.rs:142-144, network.rs:73-88), whatever the number of nodes, tasks and messages.
THEOREM NothingStranded == Spec => []NoMessageStranded
<1>1. SimInv /\ WakeInv => NoMessageStranded
  <2> SUFFICES ASSUME SimInv, WakeInv, queue = << >>, pc \in {"outside", "ready", "advance"},
                      NEW t \in DOMAIN tasks, tasks[t].state = "idle", tasks[t].wait.kind = "recv"
               PROVE  inbox[tasks[t].wait.on] = << >>
    BY DEF NoMessageStranded
  <2>1. running = None
    BY DEF SimInv, TypeInv, RunOK
  <2>2. QED
    BY <2>1, QuietMeansHeard DEF Receives
<1>2. QED
  BY <1>1, WakeInvHolds, PTL

\* The panic "no events, the task will block forever" (task.rs:135-136) is never wrong: no timer,
\* no runnable, no message and no task that could end is left to wake the main task.
THEOREM DeadlockPanicIsRight == Spec => []DeadlockIsReal
<1>1. SimInv /\ WakeInv => DeadlockIsReal
  <2> SUFFICES ASSUME SimInv, WakeInv, pc = "panicked", running = None
               PROVE  /\ timer = {} /\ queue = << >>
                      /\ tasks[main].state = "idle"
                      /\ \/ tasks[main].wait.kind = "recv" /\ inbox[tasks[main].wait.on] = << >>
                         \/ tasks[main].wait.kind = "join"
                            /\ tasks[tasks[main].wait.on].state \notin {"done", "dropped"}
                      /\ \A t \in DOMAIN tasks : tasks[t].state \in {"idle", "done", "dropped"}
    BY DEF DeadlockIsReal
  <2>1. timer = {} /\ queue = << >> /\ tasks[main].state # "done"
    BY DEF WakeInv, EndOK
  <2>2. main # None /\ main \in DOMAIN tasks
    BY TaskFacts DEF SimInv, TypeInv, RunOK, None
  <2>3. /\ \A t \in DOMAIN tasks : tasks[t].state \in {"idle", "done", "dropped"}
        /\ \A t \in DOMAIN tasks :
             tasks[t].state = "idle" /\ Receives(t) => inbox[tasks[t].wait.on] = << >>
    BY <2>1, QuietMeansHeard
  <2>4. tasks[main].state = "idle"
    BY <2>1, <2>2, <2>3 DEF WakeInv, MainOK
  <2>5. tasks[main].wait.kind \in {"none", "sleep", "recv", "join"}
    BY <2>2, Lengths DEF Task, GoodWaits, Waits
  <2>6. tasks[main].wait.kind # "none"
    BY <2>2, <2>4 DEF WakeInv, IdleOK, In
  <2>7. tasks[main].wait.kind # "sleep"
    <3>1. tasks[main].wait.deadline = Never
      BY <2>1, <2>2, <2>4 DEF SimInv, Sleepers, Sleeping
    <3>2. QED
      BY <2>2, <3>1 DEF WakeInv, SleepOK
  <2>8. CASE tasks[main].wait.kind = "recv"
    BY <2>1, <2>2, <2>3, <2>4, <2>8 DEF Receives
  <2>9. CASE tasks[main].wait.kind = "join"
    BY <2>1, <2>2, <2>3, <2>4, <2>9 DEF WakeInv, MainOK, Finished
  <2>10. QED
    BY <2>5, <2>6, <2>7, <2>8, <2>9
<1>2. QED
  BY <1>1, WakeInvHolds, PTL

-----------------------------------------------------------------------------
(* Files. *)

\* The two histories of a file agree, and a handle's file is there.
FileInv ==
  /\ data = image
  /\ \A f \in DOMAIN data : data[f] \in Seq(Nat)
  /\ \A h \in handles : h.inode \in DOMAIN data
  /\ ReadsSeeTheImage

\* The bytes of a file before a position, and those after it.
LEMMA Prefix ==
  ASSUME NEW s \in Seq(Nat), NEW n \in 0..Len(s)
  PROVE  /\ SubSeq(s, 1, n) \in Seq(Nat) /\ Len(SubSeq(s, 1, n)) = n
         /\ \A j \in 1..n : SubSeq(s, 1, n)[j] = s[j]
<1>1. Len(s) \in Nat /\ n \in Nat /\ \A j \in 1..n : s[j] \in Nat
  BY LenProperties, ElementOfSeq
<1>2. QED
  BY <1>1, SubSeqProperties

LEMMA Suffix ==
  ASSUME NEW s \in Seq(Nat), NEW k \in 0..Len(s)
  PROVE  /\ SubSeq(s, k + 1, Len(s)) \in Seq(Nat) /\ Len(SubSeq(s, k + 1, Len(s))) = Len(s) - k
         /\ \A j \in 1..(Len(s) - k) : SubSeq(s, k + 1, Len(s))[j] = s[k + j]
<1>1. Len(s) \in Nat /\ k \in Nat /\ k + 1 \in 1..(Len(s) + 1)
  BY LenProperties
<1>2. /\ SubSeq(s, k + 1, Len(s)) \in Seq(Nat)
      /\ Len(SubSeq(s, k + 1, Len(s))) = Len(s) + 1 - (k + 1)
      /\ \A j \in 1..(Len(s) + 1 - (k + 1)) : SubSeq(s, k + 1, Len(s))[j] = s[(k + 1) + j - 1]
  BY <1>1, SubSeqToEnd
<1>3. Len(s) + 1 - (k + 1) = Len(s) - k
  BY <1>1
<1>4. \A j \in 1..(Len(s) - k) : (k + 1) + j - 1 = k + j
  BY <1>1
<1>5. QED
  BY <1>1, <1>2, <1>3, <1>4

\* Sequences put together, element by element.
LEMMA Joined ==
  ASSUME NEW s \in Seq(Nat), NEW t \in Seq(Nat)
  PROVE  /\ s \o t \in Seq(Nat) /\ Len(s) \in Nat /\ Len(t) \in Nat
         /\ Len(s \o t) = Len(s) + Len(t)
         /\ \A i \in 1..(Len(s) + Len(t)) :
              (s \o t)[i] = IF i <= Len(s) THEN s[i] ELSE t[i - Len(s)]
  BY ConcatProperties, LenProperties

\* Overwriting the part that fits and extending by the rest puts the whole buffer at its offset.
LEMMA OverwritingImprints ==
  ASSUME NEW bytes \in Seq(Nat), NEW buf \in Seq(Nat), NEW offset \in Nat,
         ~(End(Len(bytes), Len(buf), offset) < offset)
  PROVE  /\ Overwritten(bytes, buf, offset) = Imprinted(bytes, buf, offset)
         /\ Overwritten(bytes, buf, offset) \in Seq(Nat)
<1> DEFINE end == End(Len(bytes), Len(buf), offset)
           len == end - offset
           A == SubSeq(bytes, 1, offset)
           B == SubSeq(buf, 1, len)
           C == SubSeq(bytes, end + 1, Len(bytes))
           D == SubSeq(buf, len + 1, Len(buf))
           size == IF Len(bytes) > offset + Len(buf) THEN Len(bytes) ELSE offset + Len(buf)
<1>1. Len(bytes) \in Nat /\ Len(buf) \in Nat
  BY LenProperties
<1>2. /\ end \in 0..Len(bytes) /\ offset \in 0..Len(bytes) /\ len \in 0..Len(buf)
      /\ offset <= end /\ end = offset + len
      /\ end = IF Len(bytes) < offset + Len(buf) THEN Len(bytes) ELSE offset + Len(buf)
  BY <1>1 DEF End, Lesser
<1>3. Overwritten(bytes, buf, offset) = A \o B \o C \o D
  BY DEF Overwritten
<1> HIDE DEF end, len
<1>4. /\ A \in Seq(Nat) /\ Len(A) = offset /\ \A j \in 1..offset : A[j] = bytes[j]
  BY <1>2, Prefix
<1>5. /\ B \in Seq(Nat) /\ Len(B) = len /\ \A j \in 1..len : B[j] = buf[j]
  BY <1>2, Prefix
<1>6. /\ C \in Seq(Nat) /\ Len(C) = Len(bytes) - end
      /\ \A j \in 1..(Len(bytes) - end) : C[j] = bytes[end + j]
  BY <1>2, Suffix
<1>7. /\ D \in Seq(Nat) /\ Len(D) = Len(buf) - len
      /\ \A j \in 1..(Len(buf) - len) : D[j] = buf[len + j]
  BY <1>2, Suffix
<1> HIDE DEF A, B, C, D
<1>8. size \in Nat /\ size = Len(bytes) + (Len(buf) - len) /\ Len(bytes) <= size
  <2>1. CASE Len(bytes) < offset + Len(buf)
    <3>1. end = Len(bytes) /\ len = Len(bytes) - offset /\ size = offset + Len(buf)
      BY <1>1, <1>2, <2>1
    <3>2. QED
      BY <1>1, <1>2, <2>1, <3>1
  <2>2. CASE ~(Len(bytes) < offset + Len(buf))
    <3>1. end = offset + Len(buf) /\ len = Len(buf) /\ size = Len(bytes)
      BY <1>1, <1>2, <2>2
    <3>2. QED
      BY <1>1, <1>2, <2>2, <3>1
  <2>3. QED
    BY <2>1, <2>2
<1> HIDE DEF size
<1> DEFINE E == A \o B
           F == E \o C
           W == F \o D
<1>9. /\ E \in Seq(Nat) /\ Len(E) = end
      /\ \A i \in 1..end : E[i] = IF i <= offset THEN A[i] ELSE B[i - offset]
  <2>1. /\ E \in Seq(Nat) /\ Len(E) = Len(A) + Len(B)
        /\ \A i \in 1..(Len(A) + Len(B)) : E[i] = IF i <= Len(A) THEN A[i] ELSE B[i - Len(A)]
    BY <1>4, <1>5, Joined
  <2>2. QED
    BY <1>2, <1>4, <1>5, <2>1
<1> HIDE DEF E
<1>10. /\ F \in Seq(Nat) /\ Len(F) = Len(bytes)
       /\ \A i \in 1..Len(bytes) : F[i] = IF i <= end THEN E[i] ELSE C[i - end]
  <2>1. end + (Len(bytes) - end) = Len(bytes)
    BY <1>1, <1>2
  <2>2. /\ F \in Seq(Nat) /\ Len(F) = Len(E) + Len(C)
        /\ \A i \in 1..(Len(E) + Len(C)) : F[i] = IF i <= Len(E) THEN E[i] ELSE C[i - Len(E)]
    BY <1>6, <1>9, Joined
  <2>3. QED
    BY <1>6, <1>9, <2>1, <2>2
<1> HIDE DEF F
<1>11. /\ W \in Seq(Nat) /\ Len(W) = size
       /\ \A i \in 1..size : W[i] = IF i <= Len(bytes) THEN F[i] ELSE D[i - Len(bytes)]
  <2>1. /\ W \in Seq(Nat) /\ Len(W) = Len(F) + Len(D)
        /\ \A i \in 1..(Len(F) + Len(D)) : W[i] = IF i <= Len(F) THEN F[i] ELSE D[i - Len(F)]
    BY <1>7, <1>10, Joined
  <2>2. QED
    BY <1>7, <1>8, <1>10, <2>1
<1> HIDE DEF W
<1>12. ASSUME NEW i \in 1..size
       PROVE  W[i] = IF i > offset /\ i <= offset + Len(buf) THEN buf[i - offset] ELSE bytes[i]
  <2>1. i \in Nat /\ i >= 1 /\ i <= size
    BY <1>8, <1>12
  <2>2. CASE i <= offset
    <3>1. i \in 1..offset /\ i \in 1..end /\ i \in 1..Len(bytes) /\ i <= end /\ i <= Len(bytes)
      BY <1>1, <1>2, <2>1, <2>2
    <3>2. W[i] = F[i] /\ F[i] = E[i] /\ E[i] = A[i] /\ A[i] = bytes[i]
      BY <1>4, <1>9, <1>10, <1>11, <1>12, <2>2, <3>1
    <3>3. QED
      BY <2>1, <2>2, <3>2
  <2>3. CASE i > offset /\ i <= end
    <3>1. /\ i \in 1..end /\ i \in 1..Len(bytes) /\ i <= Len(bytes) /\ ~(i <= offset)
          /\ i - offset \in 1..len /\ i <= offset + Len(buf)
      BY <1>1, <1>2, <2>1, <2>3
    <3>2. W[i] = F[i] /\ F[i] = E[i] /\ E[i] = B[i - offset] /\ B[i - offset] = buf[i - offset]
      BY <1>5, <1>9, <1>10, <1>11, <1>12, <2>3, <3>1
    <3>3. QED
      BY <2>3, <3>1, <3>2
  <2>4. CASE i > end /\ i <= Len(bytes)
    <3>1. /\ i \in 1..Len(bytes) /\ ~(i <= end) /\ i - end \in 1..(Len(bytes) - end)
          /\ ~(i <= offset + Len(buf)) /\ end + (i - end) = i
      BY <1>1, <1>2, <2>1, <2>4
    <3>2. W[i] = F[i] /\ F[i] = C[i - end] /\ C[i - end] = bytes[end + (i - end)]
      BY <1>6, <1>10, <1>11, <1>12, <2>4, <3>1
    <3>3. QED
      BY <3>1, <3>2
  <2>5. CASE i > Len(bytes)
    <3>1. /\ ~(i <= Len(bytes)) /\ i - Len(bytes) \in 1..(Len(buf) - len)
          /\ i > offset /\ i <= offset + Len(buf) /\ len + (i - Len(bytes)) = i - offset
      <4>1. Len(bytes) < offset + Len(buf)
        <5>1. CASE ~(Len(bytes) < offset + Len(buf))
          BY <1>1, <1>2, <1>8, <2>1, <2>5, <5>1
        <5>2. QED
          BY <5>1
      <4>2. end = Len(bytes) /\ len = Len(bytes) - offset
        BY <1>1, <1>2, <4>1
      <4>3. QED
        BY <1>1, <1>2, <1>8, <2>1, <2>5, <4>1, <4>2
    <3>2. W[i] = D[i - Len(bytes)] /\ D[i - Len(bytes)] = buf[len + (i - Len(bytes))]
      BY <1>7, <1>11, <1>12, <3>1
    <3>3. QED
      BY <3>1, <3>2
  <2>6. QED
    BY <1>1, <1>2, <2>1, <2>2, <2>3, <2>4, <2>5
<1>13. W = [n \in 1..size |-> IF n > offset /\ n <= offset + Len(buf) THEN buf[n - offset] ELSE bytes[n]]
  <2>1. DOMAIN W = 1..size /\ W = [n \in DOMAIN W |-> W[n]]
    BY <1>11, LenProperties
  <2>2. QED
    BY <1>12, <2>1
<1>14. QED
  BY <1>3, <1>11, <1>13 DEF E, F, W, size, Imprinted

\* What lies between an offset and an end of a sequence.
LEMMA Slice ==
  ASSUME NEW s \in Seq(Nat), NEW k \in Nat, NEW n \in 0..Len(s), k <= n
  PROVE  /\ SubSeq(s, k + 1, n) \in Seq(Nat) /\ Len(SubSeq(s, k + 1, n)) = n - k
         /\ DOMAIN SubSeq(s, k + 1, n) = 1..(n - k)
         /\ \A j \in 1..(n - k) : SubSeq(s, k + 1, n)[j] = s[k + j]
<1>1. Len(s) \in Nat /\ n \in Nat /\ n <= Len(s)
  BY LenProperties
<1>2. k + 1 \in 1..(Len(s) + 1) /\ n \in ((k + 1) - 1)..Len(s) /\ n - (k + 1) + 1 = n - k
  BY <1>1
<1>3. /\ SubSeq(s, k + 1, n) \in Seq(Nat) /\ Len(SubSeq(s, k + 1, n)) = n - k
      /\ \A j \in 1..(n - k) : SubSeq(s, k + 1, n)[j] = s[(k + 1) + j - 1]
  BY <1>2, SubSeqProperties
<1>4. \A j \in 1..(n - k) : (k + 1) + j - 1 = k + j
  BY <1>1
<1>5. QED
  BY <1>3, <1>4, LenProperties

LEMMA FileInvInit == Init => FileInv
  BY DEF Init, FsInit, FileInv, ReadsSeeTheImage

\* One file given new contents in both histories.
LEMMA Rewritten ==
  ASSUME FileInv, NEW f \in DOMAIN data, NEW bytes \in Seq(Nat),
         data' = [data EXCEPT ![f] = bytes], image' = [image EXCEPT ![f] = bytes],
         handles' = handles, read'.tag # "read"
  PROVE  FileInv'
  BY DEF FileInv, ReadsSeeTheImage

LEMMA FileInvNext == FileInv /\ [Next]_vars => FileInv'
<1> SUFFICES ASSUME FileInv, [Next]_vars PROVE FileInv'
  OBVIOUS
<1> USE BuffersAssumption, OffsetsAssumption
<1>1. CASE UNCHANGED fs_vars
  BY <1>1 DEF fs_vars, FileInv, ReadsSeeTheImage
<1>2. ASSUME NEW a, NEW path, Open(a, path)
      PROVE  FileInv'
  <2>1. data' = data /\ image' = image /\ read'.tag # "read"
    <3>1. read' = [tag |-> "opened"] \/ read' = [tag |-> "NotFound"]
      BY <1>2 DEF Open
    <3>2. read'.tag \in {"opened", "NotFound"}
      BY <3>1
    <3>3. QED
      BY <1>2, <3>2 DEF Open
  <2>2. ASSUME NEW h \in handles' PROVE h \in handles \/ h.inode \in DOMAIN data
    BY <1>2, <2>2 DEF Open, File
  <2>3. QED
    BY <2>1, <2>2 DEF FileInv, ReadsSeeTheImage
<1>3. ASSUME NEW a, NEW path, Create(a, path)
      PROVE  FileInv'
  <2>1. /\ data' = image' /\ read'.tag # "read"
        /\ handles' = handles \cup {File(a, path, TRUE)}
    BY <1>3 DEF Create, FileInv
  <2>2. << >> \in Seq(Nat)
    BY EmptySeq
  <2>3. /\ DOMAIN data' = DOMAIN data \cup {<<a, path>>}
        /\ \A f \in DOMAIN data' : data'[f] \in Seq(Nat)
    <3>1. CASE <<a, path>> \in DOMAIN data
      BY <1>3, <3>1 DEF Create, FileInv
    <3>2. CASE <<a, path>> \notin DOMAIN data
      BY <1>3, <2>2, <3>2 DEF Create, With, FileInv
    <3>3. QED
      BY <3>1, <3>2
  <2>4. QED
    BY <2>1, <2>3 DEF File, FileInv, ReadsSeeTheImage
<1>4. ASSUME NEW file \in handles, NEW offset \in Offsets, NEW size \in Offsets,
             ReadAt(file, size, offset)
      PROVE  FileInv'
  <2> DEFINE bytes == data[file.inode]
             end == End(Len(bytes), size, offset)
             slice == SubSeq(bytes, offset + 1, end)
  <2>1. bytes \in Seq(Nat) /\ file.inode \in DOMAIN data
    BY DEF FileInv
  <2>2. Len(bytes) \in Nat /\ offset \in Nat /\ size \in Nat
    BY <2>1, LenProperties
  <2>3. ~(end < offset)
    BY <1>4 DEF ReadAt, PastEnd
  <2>4. /\ end \in 0..Len(bytes) /\ offset <= end
        /\ end - offset = Lesser(size, Len(bytes) - offset)
    <3>1. CASE Len(bytes) < offset + size
      <4>1. end = Len(bytes)
        BY <3>1 DEF End, Lesser
      <4>2. Lesser(size, Len(bytes) - offset) = Len(bytes) - offset
        BY <2>2, <3>1 DEF Lesser
      <4>3. QED
        BY <2>2, <2>3, <4>1, <4>2
    <3>2. CASE ~(Len(bytes) < offset + size)
      <4>1. end = offset + size
        BY <3>2 DEF End, Lesser
      <4>2. Lesser(size, Len(bytes) - offset) = size
        BY <2>2, <3>2 DEF Lesser
      <4>3. QED
        BY <2>2, <2>3, <3>2, <4>1, <4>2
    <3>3. QED
      BY <3>1, <3>2
  <2>5. /\ read' = [tag |-> "read", inode |-> file.inode, offset |-> offset, size |-> size,
                    bytes |-> slice]
        /\ UNCHANGED <<data, handles, image>>
    BY <1>4 DEF ReadAt
  <2> HIDE DEF end
  <2>6. /\ Len(slice) = end - offset /\ DOMAIN slice = 1..(end - offset)
        /\ \A n \in 1..(end - offset) : slice[n] = bytes[offset + n]
    BY <2>1, <2>2, <2>4, Slice
  <2> HIDE DEF slice
  <2>7. image'[file.inode] = bytes
    BY <2>5 DEF FileInv
  <2>8. ReadsSeeTheImage'
    BY <2>4, <2>5, <2>6, <2>7 DEF ReadsSeeTheImage
  <2>9. QED
    BY <2>5, <2>8 DEF FileInv
<1>5. ASSUME NEW file \in handles, NEW offset \in Offsets, NEW buf \in Buffers,
             WriteAllAt(file, buf, offset)
      PROVE  FileInv'
  <2> DEFINE f == file.inode
             bytes == Overwritten(data[f], buf, offset)
  <2>1. data[f] \in Seq(Nat) /\ f \in DOMAIN data /\ buf \in Seq(Nat) /\ offset \in Nat
    BY DEF FileInv
  <2>2. ~(End(Len(data[f]), Len(buf), offset) < offset)
    BY <1>5 DEF WriteAllAt, PastEnd
  <2>3. bytes = Imprinted(image[f], buf, offset) /\ bytes \in Seq(Nat)
    BY <2>1, <2>2, OverwritingImprints DEF FileInv
  <2>4. /\ data' = [data EXCEPT ![f] = bytes] /\ image' = [image EXCEPT ![f] = bytes]
        /\ handles' = handles /\ read'.tag # "read"
    BY <1>5, <2>3 DEF WriteAllAt
  <2> HIDE DEF bytes, f
  <2>5. QED
    BY <2>1, <2>3, <2>4, Rewritten
<1>6. ASSUME NEW file \in handles, WriteDenied(file)
      PROVE  FileInv'
  BY <1>6 DEF WriteDenied, FileInv, ReadsSeeTheImage
<1>7. ASSUME NEW file \in handles, NEW size \in Offsets, SetLen(file, size)
      PROVE  FileInv'
  <2> DEFINE f == file.inode
             bytes == [n \in 1..size |-> IF n <= Len(data[f]) THEN data[f][n] ELSE 0]
  <2>1. data[f] \in Seq(Nat) /\ f \in DOMAIN data /\ size \in Nat /\ data = image
    BY DEF FileInv
  <2>2. \A n \in 1..size : bytes[n] \in Nat
    <3>1. Len(data[f]) \in Nat
      BY <2>1, LenProperties
    <3>2. ASSUME NEW n \in 1..size PROVE bytes[n] \in Nat
      <4>1. CASE n <= Len(data[f])
        BY <2>1, <3>1, <4>1, ElementOfSeq
      <4>2. CASE ~(n <= Len(data[f]))
        BY <4>2
      <4>3. QED
        BY <4>1, <4>2
    <3>3. QED
      BY <3>2
  <2>3. bytes \in Seq(Nat)
    BY <2>1, <2>2, IsASeq
  <2>4. /\ data' = [data EXCEPT ![f] = bytes] /\ image' = [image EXCEPT ![f] = bytes]
        /\ handles' = handles /\ read'.tag # "read"
    BY <1>7, <2>1 DEF SetLen
  <2> HIDE DEF bytes, f
  <2>5. QED
    BY <2>1, <2>3, <2>4, Rewritten
<1>8. CASE UseFiles
  BY <1>2, <1>3, <1>4, <1>5, <1>6, <1>7, <1>8 DEF UseFiles
<1>9. CASE UNCHANGED vars
  BY <1>1, <1>9 DEF vars
<1>10. CASE BlockOn \/ Executes
  BY <1>1, <1>10 DEF BlockOn, Executes, Run, SkipKilled, Return, Deadlock, Advance, Fire, SetClock
<1>11. CASE Polls
  BY <1>1, <1>11 DEF Polls, BeginWait, BeginJoin, SleepEnds, SleepPends, RecvEnds, RecvElapses,
    RecvPends, JoinEnds, JoinPanics, JoinPends, Finish, WaitEnds, Pends
<1>12. CASE Calls /\ ~UseFiles
  BY <1>1, <1>12 DEF Calls, Spawn, KillNode, SendTo, SpawnStale, SpawnHere, ChangeLink, Take,
    FileOverrun
<1>13. QED
  BY <1>8, <1>9, <1>10, <1>11, <1>12 DEF Next

\* The bytes of a file are the last ones put at each offset, and what a read returns, for every
\* sequence of opens, creates, reads, writes, resizes and kills (fs.rs:55-165).
THEOREM FilesKeepWhatWasWritten == Spec => []FilesHoldWhatWasWritten
<1>1. FileInv => FilesHoldWhatWasWritten
  BY DEF FileInv, FilesHoldWhatWasWritten
<1>2. QED
  BY <1>1, FileInvInit, FileInvNext, PTL DEF Spec
=============================================================================
