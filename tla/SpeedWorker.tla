------------------------------ MODULE SpeedWorker ------------------------------
(* The velocity path of the io_reeman node: /cmd/vel samples reach             *)
(* callbackCmdVel, which queues them under cmd_mutex_; speedCommandWorker, a   *)
(* thread of its own, takes the newest, throttles, and blocks in an HTTP POST. *)
(*                                                                             *)
(* A command is its rank among the samples published on /cmd/vel (1, 2, ...);  *)
(* 0 stands for "none".  Time is steady_clock, in ticks.                       *)
EXTENDS Integers, Sequences

CONSTANTS MinInterval,   \* min_request_period_speed_ms, in ticks
          MaxCmd,        \* bound: how many samples are published on /cmd/vel
          MaxTime        \* bound: how far the clock runs

ASSUME SpeedWorkerAssumption ==
    MinInterval \in Nat /\ MaxCmd \in Nat /\ MaxTime \in Nat

VARIABLES
    published,           \* samples published on /cmd/vel so far
    channel,             \* the reader's KEEP_LAST 1 history: a sample or 0
    callback,            \* the sample callbackCmdVel is handling, or 0
    locked,              \* does the worker hold cmd_mutex_?
    cmd_queue_,
    pc,                  \* where the worker thread is
    cmd, now,            \* the worker's locals
    last_speed_post_,
    last_post_status,    \* what /reeman/last_post_status last said, -1 before
    worker_running_,
    ok,                  \* rclcpp::ok()
    main,                \* "spin", then "join" (in ~IOReeman), then "exit"
    time,
    wire,                \* POSTs the base has neither applied nor lost
    applied,             \* commands the base applied, in order
    unconfirmed,         \* has a POST ended without a good answer?
    posted,              \* history: the commands POSTed, in order
    sampled              \* history: the clock sample each POST went out under

input   == <<published, channel, callback>>
queue   == <<locked, cmd_queue_>>
local   == <<cmd, now>>
outcome == <<last_speed_post_, last_post_status>>
life    == <<worker_running_, ok, main>>
base    == <<wire, applied, unconfirmed>>
history == <<posted, sampled>>
vars    == <<input, queue, pc, local, outcome, life, time, base, history>>

Init ==
    /\ published = 0 /\ channel = 0 /\ callback = 0
    /\ locked = FALSE /\ cmd_queue_ = <<>>
    /\ pc = "check" /\ cmd = 0 /\ now = 0
    /\ last_speed_post_ = -MinInterval /\ last_post_status = -1
    /\ worker_running_ = TRUE /\ ok = TRUE /\ main = "spin"
    /\ time = 0
    /\ wire = {} /\ applied = <<>> /\ unconfirmed = FALSE
    /\ posted = <<>> /\ sampled = <<>>

-------------------------------------------------------------------------------
(* The publisher, and the executor thread that runs callbackCmdVel.            *)

(* A sample the callback has not taken yet is overwritten: depth is 1.         *)
Publish ==
    /\ published < MaxCmd
    /\ published' = published + 1
    /\ channel' = published + 1
    /\ UNCHANGED <<callback, queue, pc, local, outcome, life, time, base, history>>

CallbackStart ==
    /\ ok /\ callback = 0 /\ channel # 0
    /\ callback' = channel
    /\ channel' = 0
    /\ UNCHANGED <<published, queue, pc, local, outcome, life, time, base, history>>

LockAlwaysFree == TRUE          \* slip: no lock_guard in the callback
CallbackMayPush == ~locked

callbackCmdVel ==
    /\ callback # 0
    /\ CallbackMayPush
    /\ cmd_queue_' = Append(cmd_queue_, callback)
    /\ callback' = 0
    /\ UNCHANGED <<published, channel, locked, pc, local, outcome, life, time,
                   base, history>>

-------------------------------------------------------------------------------
(* speedCommandWorker.                                                         *)

LoopForever == TRUE             \* slip: the loop condition is left out
LoopCondition == worker_running_ /\ ok

(* The end of the 10 ms sleep, and the loop condition.                         *)
WorkerCheck ==
    /\ pc = "check"
    /\ pc' = IF LoopCondition THEN "lock" ELSE "done"
    /\ UNCHANGED <<input, queue, local, outcome, life, time, base, history>>

WorkerLock ==
    /\ pc = "lock"
    /\ locked' = (cmd_queue_ # <<>>)
    /\ pc' = IF cmd_queue_ # <<>> THEN "drain" ELSE "check"
    /\ UNCHANGED <<input, cmd_queue_, local, outcome, life, time, base, history>>

WorkerDrain ==
    /\ pc = "drain"
    /\ IF Len(cmd_queue_) > 1
       THEN cmd_queue_' = Tail(cmd_queue_) /\ UNCHANGED pc
       ELSE pc' = "take" /\ UNCHANGED cmd_queue_
    /\ UNCHANGED <<input, locked, local, outcome, life, time, base, history>>

NotSwapped == cmd_queue_        \* slip: the command taken stays queued
Swapped == <<>>

(* front(), the swap with an empty queue, and the end of the locked block.     *)
WorkerTake ==
    /\ pc = "take"
    /\ cmd' = Head(cmd_queue_)
    /\ cmd_queue_' = Swapped
    /\ locked' = FALSE
    /\ pc' = "sample"
    /\ UNCHANGED <<input, now, outcome, life, time, base, history>>

(* The throttle: a command that comes too soon is dropped, not kept.           *)
WorkerSample ==
    /\ pc = "sample"
    /\ now' = time
    /\ pc' = IF time - last_speed_post_ >= MinInterval THEN "post" ELSE "check"
    /\ UNCHANGED <<input, queue, cmd, outcome, life, time, base, history>>

PostDoesNotWait == "check"      \* slip: the request is sent asynchronously
AfterRequest == "answer"

(* sendSpeed: the request goes out ...                                         *)
WorkerPost ==
    /\ pc = "post"
    /\ wire' = wire \union {cmd}
    /\ posted' = Append(posted, cmd)
    /\ sampled' = Append(sampled, now)
    /\ pc' = AfterRequest
    /\ UNCHANGED <<input, queue, local, outcome, life, time, applied, unconfirmed>>

NextPostFrom(good) == now + MinInterval          \* slip: stores when the next may go
LastPostIfGood(good) == IF good THEN now ELSE last_speed_post_  \* slip: as named
LastPost(good) == now

(* ... and a good answer, an error or the 3 s timeout comes back.  Only a good *)
(* answer tells that the base has applied the command.                         *)
WorkerAnswer ==
    /\ pc = "answer"
    /\ \E good \in BOOLEAN :
          /\ good => \E i \in 1..Len(applied) : applied[i] = cmd
          /\ last_speed_post_' = LastPost(good)
          /\ last_post_status' = IF good THEN 1 ELSE 0
          /\ unconfirmed' = (unconfirmed \/ ~good)
    /\ pc' = "check"
    /\ UNCHANGED <<input, queue, local, life, time, wire, applied, history>>

-------------------------------------------------------------------------------
(* The base, the clock, and the end of the process.                            *)

(* A request on its way is applied, or lost, at any time: also after the POST  *)
(* that carried it has timed out.                                              *)
BaseApply ==
    /\ \E c \in wire : wire' = wire \ {c} /\ applied' = Append(applied, c)
    /\ UNCHANGED <<input, queue, pc, local, outcome, life, time, unconfirmed, history>>

BaseLose ==
    /\ \E c \in wire : wire' = wire \ {c}
    /\ UNCHANGED <<input, queue, pc, local, outcome, life, time, applied,
                   unconfirmed, history>>

Tick ==
    /\ time < MaxTime
    /\ time' = time + 1
    /\ UNCHANGED <<input, queue, pc, local, outcome, life, base, history>>

(* SIGINT: rclcpp's handler shuts the context down.                            *)
Signal ==
    /\ ok
    /\ ok' = FALSE
    /\ UNCHANGED <<input, queue, pc, local, outcome, worker_running_, main, time,
                   base, history>>

(* spin() returns once its callbacks have, main() drops the node: ~IOReeman.   *)
DestructorStart ==
    /\ main = "spin" /\ ~ok /\ callback = 0
    /\ main' = "join"
    /\ worker_running_' = FALSE
    /\ UNCHANGED <<input, queue, pc, local, outcome, ok, time, base, history>>

Detached == TRUE                \* slip: the worker is not joined
Joined == pc = "done"

DestructorJoin ==
    /\ main = "join"
    /\ Joined
    /\ main' = "exit"
    /\ UNCHANGED <<input, queue, pc, local, outcome, worker_running_, ok, time,
                   base, history>>

Exited == main = "exit" /\ UNCHANGED vars

-------------------------------------------------------------------------------
Executor == CallbackStart \/ callbackCmdVel

speedCommandWorker ==
    \/ WorkerCheck \/ WorkerLock \/ WorkerDrain \/ WorkerTake
    \/ WorkerSample \/ WorkerPost \/ WorkerAnswer

Destructor == DestructorStart \/ DestructorJoin

Next == \/ Publish \/ Executor \/ speedCommandWorker \/ BaseApply \/ BaseLose
        \/ Tick \/ Signal \/ Destructor \/ Exited

Spec == Init /\ [][Next]_vars

(* Threads are scheduled, and a POST ends: it has a 3 s timeout.  A callback   *)
(* that waits for the mutex gets it, in the end, in one of the moments it is   *)
(* free.  The clock, the publisher, the base and SIGINT owe nothing.           *)
FairSpec ==
    /\ Spec
    /\ WF_vars(speedCommandWorker) /\ WF_vars(CallbackStart)
    /\ SF_vars(callbackCmdVel) /\ WF_vars(Destructor)

-------------------------------------------------------------------------------
(* Properties.                                                                 *)

Cmds == 1..MaxCmd

TypeOK ==
    /\ published \in 0..MaxCmd
    /\ channel \in {0} \union Cmds /\ callback \in {0} \union Cmds
    /\ locked \in BOOLEAN /\ cmd_queue_ \in Seq(Cmds)
    /\ pc \in {"check", "lock", "drain", "take", "sample", "post", "answer", "done"}
    /\ cmd \in {0} \union Cmds /\ now \in 0..MaxTime
    /\ last_speed_post_ \in (-MinInterval)..MaxTime
    /\ last_post_status \in {-1, 0, 1}
    /\ worker_running_ \in BOOLEAN /\ ok \in BOOLEAN
    /\ main \in {"spin", "join", "exit"}
    /\ time \in 0..MaxTime
    /\ wire \subseteq Cmds /\ applied \in Seq(Cmds) /\ unconfirmed \in BOOLEAN
    /\ posted \in Seq(Cmds) /\ sampled \in Seq(0..MaxTime)

Increasing(s) == \A i, j \in 1..Len(s) : i < j => s[i] < s[j]

(* However callbacks, overwritten samples and the worker interleave, the       *)
(* worker never POSTs a command twice, nor one older than it has POSTed        *)
(* (io_reeman.cpp:233-243, 251).                                               *)
PostedInOrder == Increasing(posted)

(* When the worker empties the queue it throws away nothing newer than the     *)
(* command it keeps: no callback can get in between its last pop() and its     *)
(* swap (io_reeman.cpp:181-182, 233-243).                                      *)
TakesTheNewest == pc = "take" => Len(cmd_queue_) = 1

(* Two POSTs are never made on clock samples closer than the configured        *)
(* period, however the first one ended (io_reeman.cpp:248-252).                *)
Throttled == \A i \in 1..(Len(sampled) - 1) :
                 sampled[i + 1] - sampled[i] >= MinInterval

(* As long as no POST has timed out or failed, the base applies the commands   *)
(* in the order they were published: the worker waits for each answer          *)
(* (io_reeman.cpp:251).                                                        *)
AppliedInOrder == ~unconfirmed => Increasing(applied)

(* Once ~IOReeman has returned, nothing is POSTed from a destroyed node        *)
(* (io_reeman.cpp:168-174).                                                    *)
QuietAfterExit == [][main = "exit" => UNCHANGED <<wire, posted>> \/ BaseApply \/ BaseLose]_vars

(* A queued command is taken unless the node is going down                     *)
(* (io_reeman.cpp:227-243).                                                    *)
QueueDrains == (cmd_queue_ # <<>>) ~> (cmd_queue_ = <<>> \/ ~ok)

(* After SIGINT the node always gets out of its destructor, even with a POST   *)
(* in flight (io_reeman.cpp:168-174, 227).                                     *)
ExitsAfterSignal == ~ok ~> main = "exit"

(* What the comment at io_reeman.cpp:86 says of the worker, "/cmd/vel -> POST  *)
(* /cmd/speed": when publishers fall silent, the last command published (the   *)
(* one the robot should be left with) is POSTed, unless the node goes down.    *)
LastCommandPosted ==
    published = MaxCmd ~> (~ok \/ \E i \in 1..Len(posted) : posted[i] = MaxCmd)

(* The velocity path is a lossy channel that keeps order.                      *)
Channel == INSTANCE LossyChannel WITH sent <- published, delivered <- posted

ImplementsChannel == Channel!Spec
===============================================================================
