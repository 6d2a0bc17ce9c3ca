------------------------------ MODULE ThreadPool -------------------------------
(* cpr's thread pool: one client thread, which starts, pauses, stops, waits    *)
(* for and submits to it, and the workers, which come and go with the load.    *)
(* A step is what happens under one lock, or what one atomic access separates  *)
(* from the next.  Waiting for a task has a timeout and tests its condition    *)
(* again, so a worker there goes on when the condition holds or the queue is   *)
(* empty, and who was notified makes no difference.  status_wait_mutex is held *)
(* across steps by Stop only, task_mutex by a worker that leaves.              *)
EXTENDS Integers, Sequences, SequencesExt, FiniteSets

CONSTANTS MaxWorkers,     \* bound: thread objects there is room for
          MaxTasks,       \* bound: tasks submitted; they are numbered from 1
          MaxThreads,     \* max_thread_num
          Width           \* a size_t holds 0..Width - 1

ASSUME PoolAssumption ==
    /\ MaxWorkers \in Nat /\ MaxTasks \in Nat /\ Width \in Nat
    /\ MaxThreads \in 1..Width - 2

Workers == 1..MaxWorkers
None == 0

VARIABLES
    status, min_thread_num, cur_thread_num, idle_thread_num, tasks,
    threads,       \* the ThreadData listed: whose, marked STOP, joined by Stop?
    worker,        \* where each worker is; "none" has no entry in the list
    initialRun,
    task,          \* the task a worker runs
    client,        \* where the client is
    creating,      \* the threads it still has to create in this call
    created,       \* the thread it has just created
    after,         \* where it goes when they are created
    read,          \* of Wait: the counter it has read, and the value
    submitted,     \* tasks submitted so far
    done,          \* history: the tasks that have been run to their end,
    late           \*   and who has taken one since the pool was paused

counters   == <<cur_thread_num, idle_thread_num>>
workerVars == <<worker, initialRun, task, done, late>>
clientVars == <<client, creating, created, after, read, submitted>>
poolVars   == <<status, min_thread_num, counters, tasks, threads, workerVars, clientVars>>

PoolInit ==
    /\ status = "STOP" /\ min_thread_num \in 0..MaxThreads
    /\ cur_thread_num = 0 /\ idle_thread_num = 0
    /\ tasks = <<>> /\ threads = {}
    /\ worker = [w \in Workers |-> "none"]
    /\ initialRun = [w \in Workers |-> TRUE] /\ task = [w \in Workers |-> None]
    /\ client = "idle" /\ creating = 0 /\ created = None /\ after = "idle"
    /\ read = <<"cur", 0>> /\ submitted = 0 /\ done = {} /\ late = {}

Goto(w, place) == worker' = [worker EXCEPT ![w] = place]
Plus(n)  == (n + 1) % Width
Minus(n) == (n + Width - 1) % Width

TaskMutexFree == \A w \in Workers : worker[w] \notin {"leaving", "delisting"}

-------------------------------------------------------------------------------
(* The client: Start, Submit, Pause, Resume, Stop and Wait.                    *)

(* As async::startup sets it, before it starts the pool.                       *)
SetMinThreadNum(n) ==
    /\ client = "idle" /\ status = "STOP" /\ min_thread_num' = n
    /\ UNCHANGED <<status, counters, tasks, threads, workerVars, clientVars>>

Clamp(n) == IF n < min_thread_num THEN min_thread_num
            ELSE IF n > MaxThreads THEN MaxThreads ELSE n

Starts(n, next) ==
    /\ status = "STOP" /\ status' = "RUNNING"
    /\ creating' = Clamp(n) /\ client' = "create" /\ after' = next

Start(n) ==
    /\ client = "idle" /\ Starts(n, "idle")
    /\ UNCHANGED <<min_thread_num, counters, tasks, threads, workerVars, created, read,
                   submitted>>

Submit ==
    /\ client = "idle" /\ submitted < MaxTasks
    /\ \/ Starts(0, "grow")
       \/ status # "STOP" /\ client' = "grow" /\ UNCHANGED <<status, creating, after>>
    /\ UNCHANGED <<min_thread_num, counters, tasks, threads, workerVars, created, read,
                   submitted>>

SubmitGrows ==
    /\ client = "grow"
    /\ IF idle_thread_num <= 0 /\ cur_thread_num < MaxThreads
       THEN creating' = 1 /\ client' = "create" /\ after' = "push"
       ELSE client' = "push" /\ UNCHANGED <<creating, after>>
    /\ UNCHANGED <<status, min_thread_num, counters, tasks, threads, workerVars, created,
                   read, submitted>>

SubmitPushes ==
    /\ client = "push" /\ TaskMutexFree
    /\ submitted' = submitted + 1 /\ tasks' = Append(tasks, submitted')
    /\ client' = "idle"
    /\ UNCHANGED <<status, min_thread_num, counters, threads, workerVars, creating, created,
                   after, read>>

(* The new thread runs before AddThread has counted and listed it.             *)
CreateThread ==
    /\ client = "create"
    /\ \/ /\ creating = 0 /\ client' = after
          /\ UNCHANGED <<worker, initialRun, creating, created>>
       \/ /\ creating > 0 /\ cur_thread_num >= MaxThreads
          /\ creating' = creating - 1
          /\ UNCHANGED <<worker, initialRun, client, created>>
       \/ /\ creating > 0 /\ cur_thread_num < MaxThreads
          /\ \E w \in Workers :
                /\ worker[w] = "none" /\ \A v \in 1..w - 1 : worker[v] # "none"
                /\ Goto(w, "loop") /\ initialRun' = [initialRun EXCEPT ![w] = TRUE]
                /\ created' = w
          /\ creating' = creating - 1 /\ client' = "add"
    /\ UNCHANGED <<status, min_thread_num, counters, tasks, threads, task, done, late,
                   after, read, submitted>>

AddThread ==
    /\ client = "add" /\ \A w \in Workers : worker[w] # "delisting"
    /\ cur_thread_num' = Plus(cur_thread_num)
    /\ threads' = threads \union {[id |-> created, stopped |-> FALSE, joined |-> FALSE]}
    /\ client' = "create" /\ created' = None
    /\ UNCHANGED <<status, min_thread_num, idle_thread_num, tasks, workerVars, creating,
                   after, read, submitted>>

Pause ==
    /\ client = "idle" /\ status = "RUNNING" /\ status' = "PAUSE" /\ late' = {}
    /\ UNCHANGED <<min_thread_num, counters, tasks, threads, worker, initialRun, task, done,
                   clientVars>>

Resume ==
    /\ client = "idle" /\ status = "PAUSE" /\ status' = "RUNNING" /\ late' = {}
    /\ UNCHANGED <<min_thread_num, counters, tasks, threads, worker, initialRun, task, done,
                   clientVars>>

(* Stop holds status_wait_mutex until it has joined every thread of the list.  *)
Stop ==
    /\ client = "idle" /\ status # "STOP" /\ status' = "STOP" /\ client' = "join"
    /\ UNCHANGED <<min_thread_num, counters, tasks, threads, workerVars, creating, created,
                   after, read, submitted>>

(* It walks along the list (whose order is left out) without thread_mutex, and *)
(* joins the thread of each entry.                                             *)
StopJoins ==
    /\ client = "join"
    /\ \E e \in threads :
          /\ ~e.joined /\ worker[e.id] = "ended"
          /\ threads' = (threads \ {e}) \union {[e EXCEPT !.joined = TRUE]}
    /\ UNCHANGED <<status, min_thread_num, counters, tasks, workerVars, clientVars>>

SomeJoined == \E e \in threads : e.joined               \* slip
Joined == \A e \in threads : e.joined

StopEnds ==
    /\ client = "join" /\ Joined
    /\ threads' = {} /\ cur_thread_num' = 0 /\ idle_thread_num' = 0
    /\ worker' = [w \in Workers |-> IF worker[w] = "ended" THEN "none" ELSE worker[w]]
    /\ client' = "idle"
    /\ UNCHANGED <<status, min_thread_num, tasks, initialRun, task, done, late, creating,
                   created, after, read, submitted>>

(* Meanwhile a worker that leaves may join the same thread and erase the entry *)
(* under Stop: that is undefined.  Either all goes on, which DelThread's step  *)
(* stands for, or the program ends.                                            *)
ListRaces ==
    /\ client = "join" /\ \E w \in Workers : worker[w] = "delisting"
    /\ \E e \in threads : e.stopped /\ ~e.joined
    /\ client' = "crashed"
    /\ UNCHANGED <<status, min_thread_num, counters, tasks, threads, workerVars, creating,
                   created, after, read, submitted>>

WaitBegins ==
    /\ client = "idle" /\ client' = "test"
    /\ UNCHANGED <<status, min_thread_num, counters, tasks, threads, workerVars, creating,
                   created, after, read, submitted>>

(* Wait's condition takes no lock; which counter is read first is not defined. *)
WaitTests ==
    /\ client = "test"
    /\ \/ status = "STOP" /\ client' = "idle" /\ UNCHANGED read
       \/ /\ status # "STOP" /\ tasks = <<>> /\ client' = "compare"
          /\ read' \in {<<"cur", cur_thread_num>>, <<"idle", idle_thread_num>>}
    /\ UNCHANGED <<status, min_thread_num, counters, tasks, threads, workerVars, creating,
                   created, after, submitted>>

WaitCompares ==
    /\ client = "compare"
    /\ client' = IF read[2] = IF read[1] = "cur" THEN idle_thread_num ELSE cur_thread_num
                 THEN "idle" ELSE "test"
    /\ UNCHANGED <<status, min_thread_num, counters, tasks, threads, workerVars, creating,
                   created, after, read, submitted>>

-------------------------------------------------------------------------------
(* A worker's loop.                                                            *)

LoopTest(w) ==
    /\ worker[w] = "loop"
    /\ Goto(w, IF status = "STOP" THEN "ended" ELSE "gate")
    /\ UNCHANGED <<status, min_thread_num, counters, tasks, threads, initialRun, task, done,
                   late, clientVars>>

OnlyPaused(w) == client # "join" /\ status = "PAUSE"    \* slip: when to wait, not to go on
GateOpen(w) == client # "join" /\ status # "PAUSE"

Gate(w) ==
    /\ worker[w] = "gate" /\ GateOpen(w)
    /\ Goto(w, "wait")
    /\ UNCHANGED <<status, min_thread_num, counters, tasks, threads, initialRun, task, done,
                   late, clientVars>>

MayLeave == cur_thread_num > min_thread_num

(* wait_for has ended: stopped, timed out with an empty queue, or with a task. *)
Wake(w) ==
    /\ worker[w] = "wait" /\ TaskMutexFree
    /\ \/ /\ status = "STOP" /\ Goto(w, "ended")
          /\ UNCHANGED <<idle_thread_num, tasks, task, late>>
       \/ /\ status # "STOP" /\ tasks = <<>>
          /\ Goto(w, IF MayLeave THEN "leaving" ELSE "loop")
          /\ UNCHANGED <<idle_thread_num, tasks, task, late>>
       \/ /\ status # "STOP" /\ tasks # <<>>
          /\ idle_thread_num' = IF initialRun[w] THEN idle_thread_num ELSE Minus(idle_thread_num)
          /\ task' = [task EXCEPT ![w] = Head(tasks)] /\ tasks' = Tail(tasks)
          /\ Goto(w, "run") /\ late' = IF status = "PAUSE" THEN late \union {w} ELSE late
    /\ UNCHANGED <<status, min_thread_num, cur_thread_num, threads, initialRun, done,
                   clientVars>>

Finish(w) ==
    /\ worker[w] = "run"
    /\ done' = done \union {task[w]} /\ task' = [task EXCEPT ![w] = None]
    /\ idle_thread_num' = Plus(idle_thread_num)
    /\ initialRun' = [initialRun EXCEPT ![w] = FALSE]
    /\ Goto(w, "loop")
    /\ UNCHANGED <<status, min_thread_num, cur_thread_num, tasks, threads, late,
                   clientVars>>

(* DelThread, with task_mutex still held: it counts the thread out, joins and  *)
(* takes off the list those that left before, but not whom Stop has joined,    *)
(* and marks its own entry.                                                    *)
DelThreadCounts(w) ==
    /\ worker[w] = "leaving"
    /\ cur_thread_num' = Minus(cur_thread_num)
    /\ Goto(w, "delisting")
    /\ UNCHANGED <<status, min_thread_num, idle_thread_num, tasks, threads, initialRun,
                   task, done, late, clientVars>>

DelThread(w) ==
    LET gone == {e \in threads : e.stopped /\ ~e.joined}
        left == {e.id : e \in gone}
    IN  /\ worker[w] = "delisting" /\ \A v \in left : worker[v] = "ended"
        /\ idle_thread_num' = Minus(idle_thread_num)
        /\ threads' = {[e EXCEPT !.stopped = @ \/ e.id = w] : e \in threads \ gone}
        /\ worker' = [v \in Workers |-> IF v \in left THEN "none"
                                        ELSE IF v = w THEN "ended" ELSE worker[v]]
        /\ UNCHANGED <<status, min_thread_num, cur_thread_num, tasks, initialRun, task,
                       done, late, clientVars>>

WorkerStep(w) ==
    /\ client # "crashed"
    /\ LoopTest(w) \/ Gate(w) \/ Wake(w) \/ Finish(w) \/ DelThreadCounts(w) \/ DelThread(w)

Calls == \/ Submit \/ Pause \/ Resume \/ Stop \/ WaitBegins
         \/ \E n \in {0, MaxThreads} : Start(n)
         \/ \E n \in 0..MaxThreads : SetMinThreadNum(n)

(* The rest of a call that has begun.                                          *)
ClientGoesOn == \/ SubmitGrows \/ SubmitPushes \/ CreateThread \/ AddThread
                \/ StopJoins \/ StopEnds \/ ListRaces \/ WaitTests \/ WaitCompares

PoolNext == Calls \/ ClientGoesOn \/ \E w \in Workers : WorkerStep(w)

PoolSpec == PoolInit /\ [][PoolNext]_poolVars

(* The operating system runs every thread, and a task comes to its end.        *)
PoolFairSpec ==
    /\ PoolSpec
    /\ WF_poolVars(ClientGoesOn) /\ \A w \in Workers : WF_poolVars(WorkerStep(w))

-------------------------------------------------------------------------------
Serving == {w \in Workers : worker[w] \in {"loop", "gate", "wait", "run"}}
Starting == client \in {"create", "add"} /\ after # "push"

(* Workers that time out together do not leave the pool with fewer than the    *)
(* minimum: each decides and counts itself out under task_mutex (97-100, 138).  *)
StaysManned ==
    status # "STOP" /\ ~Starting => Cardinality(Serving) >= min_thread_num

(* When Stop has returned no worker is left, so that none of the tasks still   *)
(* queued is run behind the back of who stopped the pool.                      *)
NothingRunsAfterStop ==
    status = "STOP" /\ client \notin {"join", "crashed"} => Serving = {}

(* Tasks are taken in the order of their submission, each by one worker and    *)
(* once, and none is lost: what is not queued is running or done               *)
(* (lines 91-114, threadpool.h:84-92).                                         *)
Running == {w \in Workers : worker[w] = "run"}
Taken   == submitted - Len(tasks)
TakenInOrderOnce ==
    /\ \A i \in 1..Len(tasks) : tasks[i] = Taken + i
    /\ done \union {task[w] : w \in Running} = 1..Taken
    /\ \A w \in Running : task[w] \notin done /\ \A v \in Running : task[v] = task[w] => v = w

(* With that the pool implements the queue of TaskQueue, however workers come  *)
(* and go and whatever a stop finds in the queue.                              *)
Promise == INSTANCE TaskQueue WITH submitted <- submitted, taken <- Taken, done <- done
ImplementsQueue == Promise!Spec

(* A task in the queue is run, unless the pool pauses or stops, as long as one *)
(* worker has to stay.  With a minimum of 0 the last worker may leave between  *)
(* Submit's test and its push, and the task then lies in a pool without any;   *)
(* and one that leaves without ever having had a task wraps the count of idle  *)
(* threads (line 139), so that no later Submit creates another (h:81).         *)
Deserted == min_thread_num = 0 /\ Serving = {}

TasksAreRun ==
    \A t \in 1..MaxTasks :
        (\E i \in 1..Len(tasks) : tasks[i] = t) ~>
            (t \in done \/ status # "RUNNING" \/ Deserted)

(* Of the tasks queued when the pool is paused a worker that was already       *)
(* waiting for one takes it, but none takes two: it comes to the gate first    *)
(* (lines 85-88).                                                              *)
PauseHolds ==
    [][\A w \in Workers : status = "PAUSE" /\ task'[w] # task[w] /\ task'[w] # None
           => w \notin late]_poolVars

(* Stop comes back. It joins while it holds status_wait_mutex, which a worker   *)
(* that has just found the pool running takes at the gate (lines 31-45, 86).   *)
StopReturns == client = "join" ~> client # "join"

(* What the pool's test says of Wait, "Wait for the thread pool to finish its  *)
(* work": when it returns from a running pool every task submitted is done.    *)
WaitMeansDone ==
    [][client = "compare" /\ client' = "idle" => done = 1..submitted]_poolVars
===============================================================================
