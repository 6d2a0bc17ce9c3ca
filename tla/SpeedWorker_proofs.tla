-------------------------- MODULE SpeedWorker_proofs --------------------------
(* Proofs about SpeedWorker, for every MinInterval, MaxCmd and MaxTime.        *)
EXTENDS SpeedWorker, SequenceTheorems, TLAPS

(* The mutex is held exactly while the worker drains and takes; it then finds  *)
(* a command, and after draining finds just one.  From then on it has one.     *)
LockInv ==
    /\ locked <=> pc \in {"drain", "take"}
    /\ pc \in {"sample", "post", "answer"} => cmd # 0
    /\ pc = "drain" => Len(cmd_queue_) > 0
    /\ pc = "take" => Len(cmd_queue_) = 1

(* Commands are older the further they got: POSTed, held by the worker, in the *)
(* queue, held by the callback, in the reader's history.                       *)
AgeInv ==
    /\ Increasing(posted) /\ Increasing(cmd_queue_)
    /\ \A i \in 1..Len(posted) :
          posted[i] <= cmd /\ (pc \in {"sample", "post"} => posted[i] < cmd)
    /\ \A i \in 1..Len(cmd_queue_) : cmd < cmd_queue_[i]
    /\ cmd <= published /\ callback <= published /\ channel <= published
    /\ \A i \in 1..Len(cmd_queue_) : cmd_queue_[i] <= published
    /\ callback # 0 => /\ cmd < callback
                       /\ \A i \in 1..Len(cmd_queue_) : cmd_queue_[i] < callback
    /\ channel # 0 => /\ cmd < channel /\ callback < channel
                      /\ \A i \in 1..Len(cmd_queue_) : cmd_queue_[i] < channel

(* last_speed_post_ is the clock sample of the last POST, except while that    *)
(* POST is in flight, when it still is that of the one before.                 *)
ThrottleInv ==
    /\ Throttled
    /\ pc = "post" => now - last_speed_post_ >= MinInterval
    /\ sampled # <<>> => IF pc = "answer" THEN now = sampled[Len(sampled)]
                         ELSE last_speed_post_ = sampled[Len(sampled)]

(* Until a POST fails, the only request that can be on its way is the one the  *)
(* worker waits for.                                                           *)
WireInv ==
    ~unconfirmed =>
        /\ Increasing(applied)
        /\ wire \subseteq {cmd} /\ (wire # {} => pc = "answer")
        /\ \A i \in 1..Len(applied) :
              /\ applied[i] <= cmd
              /\ pc \in {"sample", "post"} \/ wire # {} => applied[i] < cmd

ExitInv == main = "exit" => pc = "done"

IInv == TypeOK /\ LockInv /\ AgeInv /\ ThrottleInv /\ WireInv /\ ExitInv

-------------------------------------------------------------------------------
(* An increasing sequence stays one when a larger element is appended.         *)
LEMMA AppendIncreasing ==
    ASSUME NEW s \in Seq(Int), NEW e \in Int, Increasing(s),
           \A i \in 1..Len(s) : s[i] < e
    PROVE  Increasing(Append(s, e))
<1>1. /\ Len(Append(s, e)) = Len(s) + 1 /\ Append(s, e)[Len(s) + 1] = e
      /\ \A i \in 1..Len(s) : Append(s, e)[i] = s[i]
  BY AppendProperties
<1> QED
  BY <1>1 DEF Increasing

(* So does one whose head is taken off.                                        *)
LEMMA TailIncreasing ==
    ASSUME NEW s \in Seq(Int), s # <<>>, Increasing(s)
    PROVE  Increasing(Tail(s))
<1>1. /\ Len(Tail(s)) = Len(s) - 1
      /\ \A i \in 1..Len(Tail(s)) : Tail(s)[i] = s[i + 1]
  BY HeadTailProperties
<1> QED
  BY <1>1 DEF Increasing

(* Variables keep their types in every reachable state.                        *)
LEMMA TypeStep == TypeOK /\ LockInv /\ [Next]_vars => TypeOK'
<1> SUFFICES ASSUME TypeOK, LockInv, [Next]_vars PROVE TypeOK'
  OBVIOUS
<1> USE SpeedWorkerAssumption
<1>1. cmd_queue_ \in Seq(Cmds) /\ posted \in Seq(Cmds) /\ applied \in Seq(Cmds)
  BY DEF TypeOK
<1>2. CASE Publish
  BY <1>2 DEF TypeOK, Cmds, Publish, queue, local, outcome, life, base, history
<1>3. CASE CallbackStart
  BY <1>3 DEF TypeOK, Cmds, CallbackStart, queue, local, outcome, life, base, history
<1>4. CASE callbackCmdVel
  BY <1>4 DEF TypeOK, Cmds, callbackCmdVel, local, outcome, life, base, history
<1>5. CASE WorkerCheck
  BY <1>5 DEF TypeOK, Cmds, WorkerCheck, input, queue, local, outcome, life, base, history
<1>6. CASE WorkerLock
  BY <1>6 DEF TypeOK, Cmds, WorkerLock, input, local, outcome, life, base, history
<1>7. CASE WorkerDrain
  <2>1. Len(cmd_queue_) > 1 => cmd_queue_ # <<>>
    OBVIOUS
  <2>2. cmd_queue_' \in Seq(Cmds)
    BY <1>1, <1>7, <2>1, HeadTailProperties DEF WorkerDrain
  <2>3. pc' \in {"drain", "take"} /\ UNCHANGED <<input, locked, local, outcome,
                                                life, time, base, history>>
    BY <1>7 DEF WorkerDrain
  <2> QED
    BY <2>2, <2>3 DEF TypeOK, Cmds, input, local, outcome, life, base, history
<1>8. CASE WorkerTake
  <2>1. Len(cmd_queue_) = 1
    BY <1>8 DEF WorkerTake, LockInv
  <2>2. cmd' \in Cmds /\ cmd_queue_' \in Seq(Cmds)
    <3>1. 1 \in 1..Len(cmd_queue_)
      BY <2>1
    <3>2. cmd_queue_[1] \in Cmds
      BY <1>1, <3>1, ElementOfSeq
    <3>3. cmd' = cmd_queue_[1] /\ cmd_queue_' = <<>>
      BY <1>1, <1>8 DEF WorkerTake, Swapped
    <3> QED
      BY <3>2, <3>3, EmptySeq
  <2>3. locked' \in BOOLEAN /\ pc' = "sample"
        /\ UNCHANGED <<input, now, outcome, life, time, base, history>>
    BY <1>8 DEF WorkerTake
  <2> QED
    BY <2>2, <2>3 DEF TypeOK, Cmds, input, outcome, life, base, history
<1>9. CASE WorkerSample
  BY <1>9 DEF TypeOK, Cmds, WorkerSample, input, queue, outcome, life, base, history
<1>10. CASE WorkerPost
  <2>1. cmd \in Cmds
    BY <1>10 DEF TypeOK, Cmds, WorkerPost, LockInv
  <2>2. posted' \in Seq(Cmds) /\ sampled' \in Seq(0..MaxTime)
    BY <1>10, <2>1, AppendProperties DEF TypeOK, Cmds, WorkerPost
  <2> QED
    BY <1>10, <2>1, <2>2 DEF TypeOK, Cmds, WorkerPost, AfterRequest, input, queue, local, outcome, life
<1>11. CASE WorkerAnswer
  BY <1>11 DEF TypeOK, Cmds, WorkerAnswer, LastPost, input, queue, local, life, history
<1>12. CASE BaseApply
  <2>1. wire' \subseteq Cmds /\ applied' \in Seq(Cmds)
    BY <1>12, AppendProperties DEF TypeOK, Cmds, BaseApply
  <2> QED
    BY <1>12, <2>1 DEF TypeOK, Cmds, BaseApply, input, queue, local, outcome, life, history
<1>13. CASE BaseLose
  BY <1>13 DEF TypeOK, Cmds, BaseLose, input, queue, local, outcome, life, history
<1>14. CASE Tick
  BY <1>14 DEF TypeOK, Cmds, Tick, input, queue, local, outcome, life, base, history
<1>15. CASE Signal
  BY <1>15, ZenonT(60) DEF TypeOK, Cmds, Signal, input, queue, local, outcome, base, history
<1>16. CASE Destructor
  BY <1>16 DEF TypeOK, Cmds, Destructor, DestructorStart, DestructorJoin,
     input, queue, local, outcome, base, history
<1>17. CASE UNCHANGED vars
  BY <1>17 DEF TypeOK, Cmds, vars, input, queue, local, outcome, life, base, history
<1> QED
  BY <1>2, <1>3, <1>4, <1>5, <1>6, <1>7, <1>8, <1>9, <1>10, <1>11, <1>12,
     <1>13, <1>14, <1>15, <1>16, <1>17
     DEF Next, Executor, speedCommandWorker, Exited

(* Commands never overtake one another.                                        *)
LEMMA AgeStep == TypeOK /\ LockInv /\ AgeInv /\ [Next]_vars => AgeInv'
<1> SUFFICES ASSUME TypeOK, LockInv, AgeInv, [Next]_vars PROVE AgeInv'
  OBVIOUS
<1>1. /\ cmd \in Nat /\ callback \in Nat /\ channel \in Nat /\ published \in Nat
      /\ cmd_queue_ \in Seq(Int) /\ posted \in Seq(Int)
  BY SpeedWorkerAssumption DEF TypeOK, Cmds
<1>2. /\ \A i \in 1..Len(cmd_queue_) : cmd_queue_[i] \in Int
      /\ \A i \in 1..Len(posted) : posted[i] \in Int
      /\ Len(cmd_queue_) \in Nat /\ Len(posted) \in Nat
  BY <1>1
<1>3. CASE Publish
  BY <1>1, <1>3 DEF AgeInv, Publish, queue, local, history
<1>4. CASE CallbackStart
  BY <1>1, <1>4 DEF AgeInv, CallbackStart, queue, local, history
<1>5. CASE callbackCmdVel
  <2> DEFINE q == Append(cmd_queue_, callback)
  <2>1. /\ Len(q) = Len(cmd_queue_) + 1 /\ q[Len(cmd_queue_) + 1] = callback
        /\ \A i \in 1..Len(cmd_queue_) : q[i] = cmd_queue_[i]
    BY <1>1, AppendProperties
  <2>2. Increasing(q)
    BY <1>1, <1>5, AppendIncreasing DEF AgeInv, callbackCmdVel
  <2>3. /\ cmd_queue_' = q /\ callback' = 0 /\ callback # 0
        /\ UNCHANGED <<published, channel, pc, cmd, posted>>
    BY <1>5 DEF callbackCmdVel, local, history
  <2> HIDE DEF q
  <2>4. \A i \in 1..Len(q) : i = Len(cmd_queue_) + 1 \/ i \in 1..Len(cmd_queue_)
    BY <1>2, <2>1
  <2>5. \A i \in 1..Len(q) :
           q[i] = callback \/ (i \in 1..Len(cmd_queue_) /\ q[i] = cmd_queue_[i])
    BY <2>1, <2>4
  <2>6. \A i \in 1..Len(q) : cmd < q[i] /\ q[i] <= published
                            /\ (channel # 0 => q[i] < channel)
    BY <1>1, <1>2, <2>3, <2>5 DEF AgeInv
  <2> QED
    BY <1>1, <2>2, <2>3, <2>6 DEF AgeInv
<1>6. CASE WorkerDrain
  <2> DEFINE q == Tail(cmd_queue_)
  <2>1. Len(cmd_queue_) > 1 => cmd_queue_' = q /\ cmd_queue_ # <<>>
    BY <1>6 DEF WorkerDrain
  <2>2. CASE Len(cmd_queue_) > 1
    <3>1. /\ Len(q) = Len(cmd_queue_) - 1
          /\ \A i \in 1..Len(q) : q[i] = cmd_queue_[i + 1]
      BY <1>1, <2>1, <2>2, HeadTailProperties
    <3>2. \A i \in 1..Len(q) : i + 1 \in 1..Len(cmd_queue_)
      BY <1>2, <3>1
    <3>3. Increasing(q)
      BY <1>1, <2>1, <2>2, TailIncreasing DEF AgeInv
    <3>4. UNCHANGED <<published, channel, callback, pc, cmd, posted>>
      BY <1>6, <2>2 DEF WorkerDrain, input, local, history
    <3> HIDE DEF q
    <3>5. \A i \in 1..Len(q) : /\ cmd < q[i] /\ q[i] <= published
                               /\ callback # 0 => q[i] < callback
                               /\ channel # 0 => q[i] < channel
      BY <1>1, <3>1, <3>2 DEF AgeInv
    <3> QED
      BY <1>1, <2>1, <2>2, <3>3, <3>4, <3>5 DEF AgeInv
  <2>3. CASE ~(Len(cmd_queue_) > 1)
    BY <1>6, <2>3 DEF AgeInv, WorkerDrain, input, local, history
  <2> QED
    BY <2>2, <2>3
<1>7. CASE WorkerTake
  <2>1. Len(cmd_queue_) = 1
    BY <1>7 DEF WorkerTake, LockInv
  <2>2. cmd_queue_ # <<>>
    BY <2>1
  <2>3. /\ cmd' = cmd_queue_[1] /\ cmd_queue_' = <<>> /\ pc' = "sample"
        /\ UNCHANGED <<published, channel, callback, posted>>
        /\ 1 \in 1..Len(cmd_queue_)
    BY <1>1, <1>7, <2>2, EmptySeq DEF WorkerTake, Swapped, input, history
  <2>4. Increasing(cmd_queue_')
    BY <2>3 DEF Increasing
  <2>5. /\ cmd < cmd' /\ cmd' <= published
        /\ callback # 0 => cmd' < callback
        /\ channel # 0 => cmd' < channel
        /\ \A i \in 1..Len(posted) : posted[i] < cmd'
    BY <1>1, <1>2, <2>3 DEF AgeInv
  <2>6. Len(cmd_queue_') = 0
    BY <2>3
  <2> QED
    BY <1>1, <1>2, <2>3, <2>4, <2>5, <2>6 DEF AgeInv
<1>8. CASE WorkerPost
  <2> DEFINE p == Append(posted, cmd)
  <2>1. /\ Len(p) = Len(posted) + 1 /\ p[Len(posted) + 1] = cmd
        /\ \A i \in 1..Len(posted) : p[i] = posted[i]
    BY <1>1, AppendProperties
  <2>2. cmd \in Int /\ \A i \in 1..Len(posted) : posted[i] < cmd
    BY <1>1, <1>8 DEF AgeInv, WorkerPost
  <2>3. Increasing(p)
    BY <1>1, <2>2, AppendIncreasing DEF AgeInv
  <2>4. /\ posted' = p /\ pc' = "answer"
        /\ UNCHANGED <<published, channel, callback, cmd_queue_, cmd>>
    BY <1>8 DEF WorkerPost, AfterRequest, input, queue, local
  <2> HIDE DEF p
  <2>5. \A i \in 1..Len(p) : i = Len(posted) + 1 \/ i \in 1..Len(posted)
    BY <1>2, <2>1
  <2>6. \A i \in 1..Len(p) : p[i] <= cmd
    BY <1>2, <2>1, <2>2, <2>5
  <2> QED
    BY <1>1, <2>3, <2>4, <2>6 DEF AgeInv
<1>9. CASE WorkerSample
  BY <1>9 DEF AgeInv, WorkerSample, input, queue, history
<1>10. CASE WorkerCheck \/ WorkerLock \/ WorkerAnswer
  BY <1>10 DEF AgeInv, WorkerCheck, WorkerLock, WorkerAnswer, input, queue,
     local, history
<1>11. CASE BaseApply \/ BaseLose \/ Tick \/ Signal \/ Destructor \/ UNCHANGED vars
  BY <1>11 DEF AgeInv, BaseApply, BaseLose, Tick, Signal, Destructor,
     DestructorStart, DestructorJoin, vars, input, queue, local, history
<1> QED
  BY <1>3, <1>4, <1>5, <1>6, <1>7, <1>8, <1>9, <1>10, <1>11
     DEF Next, Executor, speedCommandWorker, Exited

(* Only the worker holds the mutex, and no callback gets in while it does.     *)
LEMMA LockStep == TypeOK /\ LockInv /\ [Next]_vars => LockInv'
<1> SUFFICES ASSUME TypeOK, LockInv, [Next]_vars PROVE LockInv'
  OBVIOUS
<1>1. cmd_queue_ \in Seq(Cmds) /\ Len(cmd_queue_) \in Nat
  BY DEF TypeOK
<1>2. CASE callbackCmdVel
  <2>1. pc \notin {"drain", "take"} /\ UNCHANGED <<locked, pc, cmd>>
    BY <1>2 DEF callbackCmdVel, CallbackMayPush, LockInv, local
  <2> QED
    BY <2>1 DEF LockInv
<1>3. CASE WorkerLock
  <2>1. cmd_queue_ # <<>> => Len(cmd_queue_) > 0
    BY <1>1, EmptySeq
  <2> QED
    BY <1>3, <2>1 DEF WorkerLock, LockInv, local
<1>4. CASE WorkerDrain
  <2>1. CASE Len(cmd_queue_) > 1
    <3>1. cmd_queue_ # <<>>
      BY <2>1
    <3>2. Len(Tail(cmd_queue_)) = Len(cmd_queue_) - 1
      BY <1>1, <3>1, HeadTailProperties
    <3>3. pc' = "drain" /\ Len(cmd_queue_') > 0 /\ locked' = locked /\ cmd' = cmd
      BY <1>1, <1>4, <2>1, <3>2 DEF WorkerDrain, local
    <3> QED
      BY <1>4, <3>3 DEF WorkerDrain, LockInv
  <2>2. CASE ~(Len(cmd_queue_) > 1)
    <3>1. Len(cmd_queue_) = 1
      BY <1>1, <1>4, <2>2 DEF WorkerDrain, LockInv
    <3>2. pc' = "take" /\ Len(cmd_queue_') = 1 /\ locked' = locked /\ cmd' = cmd
      BY <1>4, <2>2, <3>1 DEF WorkerDrain, local
    <3> QED
      BY <1>4, <3>2 DEF WorkerDrain, LockInv
  <2> QED
    BY <2>1, <2>2
<1>5. CASE WorkerTake
  <2>1. Len(cmd_queue_) = 1
    BY <1>5 DEF WorkerTake, LockInv
  <2>2. cmd' \in Cmds
    BY <1>1, <1>5, <2>1 DEF WorkerTake
  <2>3. cmd' # 0
    BY <2>2 DEF Cmds
  <2> QED
    BY <1>5, <2>3 DEF WorkerTake, LockInv
<1>6. CASE WorkerCheck \/ WorkerSample \/ WorkerPost \/ WorkerAnswer
  BY <1>6 DEF WorkerCheck, WorkerSample, WorkerPost, AfterRequest, WorkerAnswer,
     LockInv, queue, local
<1>7. CASE Publish \/ CallbackStart \/ BaseApply \/ BaseLose \/ Tick \/ Signal
           \/ Destructor \/ UNCHANGED vars
  BY <1>7 DEF Publish, CallbackStart, BaseApply, BaseLose, Tick, Signal, Destructor,
     DestructorStart, DestructorJoin, vars, LockInv, queue, local
<1> QED
  BY <1>2, <1>3, <1>4, <1>5, <1>6, <1>7 DEF Next, Executor, speedCommandWorker, Exited

(* Nothing the others do moves the throttle; the worker POSTs only under a     *)
(* sample far enough from the last one, and then remembers that sample.        *)
LEMMA ThrottleStep == TypeOK /\ ThrottleInv /\ [Next]_vars => ThrottleInv'
<1> SUFFICES ASSUME TypeOK, ThrottleInv, [Next]_vars PROVE ThrottleInv'
  OBVIOUS
<1>1. /\ sampled \in Seq(Int) /\ now \in Int /\ time \in Int
      /\ last_speed_post_ \in Int /\ MinInterval \in Nat
  BY SpeedWorkerAssumption DEF TypeOK
<1>2. CASE WorkerPost
  <2> DEFINE n == Len(sampled)
             s == Append(sampled, now)
  <2>1. /\ n \in Nat /\ Len(s) = n + 1 /\ s[n + 1] = now /\ s # <<>>
        /\ \A i \in 1..n : s[i] = sampled[i]
    BY <1>1, AppendProperties
  <2>2. n >= 1 => now - s[n] >= MinInterval
    BY <1>1, <1>2, <2>1 DEF WorkerPost, ThrottleInv
  <2>3. sampled' = s /\ pc' = "answer" /\ now' = now
    BY <1>2 DEF WorkerPost, AfterRequest, local
  <2>4. \A i \in 1..(n - 1) : s[i + 1] - s[i] >= MinInterval
    BY <2>1 DEF ThrottleInv, Throttled
  <2> HIDE DEF n, s
  <2>5. Throttled'
    BY <2>1, <2>2, <2>3, <2>4 DEF Throttled
  <2> QED
    BY <2>1, <2>3, <2>5 DEF ThrottleInv
<1>3. CASE WorkerAnswer
  BY <1>3 DEF WorkerAnswer, LastPost, ThrottleInv, Throttled, history, local
<1>4. CASE WorkerSample
  BY <1>1, <1>4 DEF WorkerSample, ThrottleInv, Throttled, history, outcome
<1>5. CASE WorkerCheck \/ WorkerLock \/ WorkerDrain \/ WorkerTake
  BY <1>5 DEF WorkerCheck, WorkerLock, WorkerDrain, WorkerTake, ThrottleInv,
     Throttled, history, outcome, local
<1>6. CASE Publish \/ Executor \/ BaseApply \/ BaseLose \/ Tick \/ Signal
           \/ Destructor \/ UNCHANGED vars
  BY <1>6 DEF Publish, Executor, CallbackStart, callbackCmdVel, BaseApply, BaseLose,
     Tick, Signal, Destructor, DestructorStart, DestructorJoin, vars, ThrottleInv,
     Throttled, history, outcome, local
<1> QED
  BY <1>2, <1>3, <1>4, <1>5, <1>6 DEF Next, speedCommandWorker, Exited

(* ~IOReeman returns only when the worker has left its loop, for good.         *)
LEMMA ExitStep == ExitInv /\ [Next]_vars => ExitInv'
  BY DEF ExitInv, Next, Publish, Executor, CallbackStart, callbackCmdVel,
     speedCommandWorker, WorkerCheck, WorkerLock, WorkerDrain, WorkerTake,
     WorkerSample, WorkerPost, WorkerAnswer, BaseApply, BaseLose, Tick, Signal,
     Destructor, DestructorStart, DestructorJoin, Joined, Exited, vars, life

(* Until a POST fails, the base has at most the one request it is being asked. *)
LEMMA WireStep == TypeOK /\ LockInv /\ AgeInv /\ WireInv /\ [Next]_vars => WireInv'
<1> SUFFICES ASSUME TypeOK, LockInv, AgeInv, WireInv, [Next]_vars PROVE WireInv'
  OBVIOUS
<1>1. /\ cmd \in Nat /\ applied \in Seq(Int) /\ Len(applied) \in Nat
      /\ \A i \in 1..Len(applied) : applied[i] \in Int
  BY SpeedWorkerAssumption DEF TypeOK, Cmds
<1>2. CASE WorkerTake
  <2>1. cmd < cmd' /\ cmd' \in Int
    <3>1. Len(cmd_queue_) = 1
      BY <1>2 DEF WorkerTake, LockInv
    <3> QED
      BY <1>2, <3>1, SpeedWorkerAssumption DEF WorkerTake, AgeInv, TypeOK, Cmds
  <2>2. UNCHANGED <<applied, wire, unconfirmed>> /\ pc = "take" /\ pc' = "sample"
    BY <1>2 DEF WorkerTake, base
  <2>3. ASSUME ~unconfirmed PROVE wire = {} /\ \A i \in 1..Len(applied) : applied[i] < cmd'
    BY <1>1, <2>1, <2>2, <2>3 DEF WireInv
  <2> QED
    BY <1>1, <2>1, <2>2, <2>3 DEF WireInv
<1>3. CASE WorkerPost
  BY <1>1, <1>3 DEF WorkerPost, AfterRequest, WireInv, local
<1>4. CASE WorkerAnswer
  <2> SUFFICES ASSUME ~unconfirmed' PROVE /\ Increasing(applied) /\ wire = {}
                                          /\ \A i \in 1..Len(applied) : applied[i] <= cmd
    BY <1>4 DEF WorkerAnswer, WireInv, local
  <2>1. ~unconfirmed /\ \E i \in 1..Len(applied) : applied[i] = cmd
    BY <1>4 DEF WorkerAnswer
  <2> QED
    BY <1>1, <2>1 DEF WireInv
<1>5. CASE BaseApply
  <2>1. PICK c \in wire : wire' = wire \ {c} /\ applied' = Append(applied, c)
    BY <1>5 DEF BaseApply
  <2>2. UNCHANGED <<cmd, pc, unconfirmed>>
    BY <1>5 DEF BaseApply, local
  <2> SUFFICES ASSUME ~unconfirmed PROVE WireInv'
    BY <2>2 DEF WireInv
  <2>3. /\ c = cmd /\ wire' = {} /\ pc = "answer" /\ Increasing(applied)
        /\ \A i \in 1..Len(applied) : applied[i] < cmd
    BY <2>1 DEF WireInv
  <2>4. Increasing(applied')
    BY <1>1, <2>1, <2>3, AppendIncreasing
  <2>5. \A i \in 1..Len(applied') : applied'[i] <= cmd
    <3>1. /\ Len(applied') = Len(applied) + 1 /\ applied'[Len(applied) + 1] = cmd
          /\ \A i \in 1..Len(applied) : applied'[i] = applied[i]
      BY <1>1, <2>1, <2>3, AppendProperties
    <3> QED
      BY <1>1, <2>3, <3>1
  <2> QED
    BY <2>2, <2>3, <2>4, <2>5 DEF WireInv
<1>6. CASE BaseLose
  BY <1>6 DEF BaseLose, WireInv, local
<1>7. CASE WorkerCheck \/ WorkerLock \/ WorkerDrain \/ WorkerSample
  BY <1>7 DEF WorkerCheck, WorkerLock, WorkerDrain, WorkerSample, WireInv, local, base
<1>8. CASE Publish \/ Executor \/ Tick \/ Signal \/ Destructor \/ UNCHANGED vars
  BY <1>8 DEF Publish, Executor, CallbackStart, callbackCmdVel, Tick, Signal,
     Destructor, DestructorStart, DestructorJoin, vars, WireInv, local, base
<1> QED
  BY <1>2, <1>3, <1>4, <1>5, <1>6, <1>7, <1>8 DEF Next, speedCommandWorker, Exited

LEMMA InitInv == Init => IInv
<1> SUFFICES ASSUME Init PROVE IInv
  OBVIOUS
<1>1. TypeOK
  <2>1. /\ locked \in BOOLEAN /\ worker_running_ \in BOOLEAN /\ ok \in BOOLEAN
        /\ unconfirmed \in BOOLEAN /\ main = "spin" /\ pc = "check"
    BY DEF Init
  <2>2. /\ cmd_queue_ \in Seq(Cmds) /\ applied \in Seq(Cmds) /\ posted \in Seq(Cmds)
        /\ sampled \in Seq(0..MaxTime) /\ wire \subseteq Cmds
    BY EmptySeq DEF Init
  <2>3. /\ published = 0 /\ channel = 0 /\ callback = 0 /\ cmd = 0 /\ now = 0
        /\ time = 0 /\ last_speed_post_ = -MinInterval /\ last_post_status = -1
    BY DEF Init
  <2> QED
    BY <2>1, <2>2, <2>3, SpeedWorkerAssumption DEF TypeOK
<1>2. LockInv /\ ExitInv
  BY DEF Init, LockInv, ExitInv
<1>3. ThrottleInv
  BY DEF Init, ThrottleInv, Throttled
<1>4. Len(posted) = 0 /\ Len(cmd_queue_) = 0 /\ Len(applied) = 0
  BY DEF Init
<1>5. AgeInv
  BY <1>4 DEF Init, AgeInv, Increasing
<1>6. WireInv
  BY <1>4 DEF Init, WireInv, Increasing
<1> QED
  BY <1>1, <1>2, <1>5, <1>6, <1>3 DEF IInv

(* The inductive invariant.                                                    *)
THEOREM Invariance == Spec => []IInv
<1>1. IInv /\ [Next]_vars => IInv'
  BY TypeStep, LockStep, AgeStep, ThrottleStep, WireStep, ExitStep DEF IInv
<1> QED
  BY InitInv, <1>1, PTL DEF Spec

(* Every variable stays within its type (io_reeman.cpp:88-92).                 *)
THEOREM TypeCorrect == Spec => []TypeOK
<1>1. IInv => TypeOK
  BY DEF IInv
<1> QED
  BY Invariance, <1>1, PTL

(* The worker never POSTs a command twice, nor an older one after a newer one, *)
(* for any number of commands and any throttle (io_reeman.cpp:233-251).        *)
THEOREM NeverReordered == Spec => []PostedInOrder
<1>1. IInv => PostedInOrder
  BY DEF IInv, AgeInv, PostedInOrder
<1> QED
  BY Invariance, <1>1, PTL

(* The mutex keeps callbacks out between the worker's last pop() and its swap, *)
(* so that the swap never discards a newer command (io_reeman.cpp:181-243).    *)
THEOREM NothingNewerDiscarded == Spec => []TakesTheNewest
<1>1. IInv => TakesTheNewest
  BY DEF IInv, LockInv, TakesTheNewest
<1> QED
  BY Invariance, <1>1, PTL

(* POSTs are made on clock samples at least MinInterval apart, whatever the    *)
(* outcome of the one before (io_reeman.cpp:248-252).                          *)
THEOREM RateLimited == Spec => []Throttled
<1>1. IInv => Throttled
  BY DEF IInv, ThrottleInv
<1> QED
  BY Invariance, <1>1, PTL

(* While no POST has failed, the base applies commands in the order they were  *)
(* published (io_reeman.cpp:251).                                              *)
THEOREM BaseInOrder == Spec => []AppliedInOrder
<1>1. IInv => AppliedInOrder
  BY DEF IInv, WireInv, AppliedInOrder
<1> QED
  BY Invariance, <1>1, PTL

(* No request leaves the process once ~IOReeman has returned                   *)
(* (io_reeman.cpp:168-174).                                                    *)
THEOREM QuietAfterDestructor == Spec => QuietAfterExit
<1>1. IInv /\ [Next]_vars =>
        [main = "exit" => UNCHANGED <<wire, posted>> \/ BaseApply \/ BaseLose]_vars
  BY DEF IInv, ExitInv, Next, Publish, Executor, CallbackStart, callbackCmdVel,
     speedCommandWorker, WorkerCheck, WorkerLock, WorkerDrain, WorkerTake,
     WorkerSample, WorkerPost, WorkerAnswer, Tick, Signal, Destructor,
     DestructorStart, DestructorJoin, Exited, vars, base, history
<1> QED
  BY Invariance, <1>1, PTL DEF Spec, QuietAfterExit

-------------------------------------------------------------------------------
(* The velocity path implements the lossy, order-keeping channel.              *)
THEOREM Refinement == Spec => ImplementsChannel
<1>1. Init => Channel!Init
  BY DEF Init, Channel!Init
<1>2. IInv /\ [Next]_vars => [Channel!Next]_(Channel!vars)
  <2> SUFFICES ASSUME IInv, [Next]_vars PROVE [Channel!Next]_(Channel!vars)
    OBVIOUS
  <2>1. CASE Publish
    BY <2>1 DEF Publish, history, Channel!Next, Channel!Send
  <2>2. CASE WorkerPost
    <3>1. cmd \in 1..published
      BY <2>2, SpeedWorkerAssumption
         DEF WorkerPost, IInv, LockInv, AgeInv, TypeOK, Cmds
    <3>2. \A i \in 1..Len(posted) : posted[i] < cmd
      BY <2>2 DEF WorkerPost, IInv, AgeInv
    <3>3. posted' = Append(posted, cmd) /\ published' = published
      BY <2>2 DEF WorkerPost, input
    <3> QED
      BY <3>1, <3>2, <3>3 DEF Channel!Next, Channel!Deliver
  <2>3. CASE UNCHANGED <<published, posted>>
    BY <2>3 DEF Channel!vars
  <2>4. CASE \/ Executor \/ WorkerCheck \/ WorkerLock \/ WorkerDrain \/ WorkerTake
             \/ WorkerSample \/ WorkerAnswer \/ BaseApply \/ BaseLose \/ Tick
             \/ Signal \/ Destructor \/ UNCHANGED vars
    BY <2>3, <2>4 DEF Executor, CallbackStart, callbackCmdVel, WorkerCheck, WorkerLock,
       WorkerDrain, WorkerTake, WorkerSample, WorkerAnswer, BaseApply, BaseLose, Tick,
       Signal, Destructor, DestructorStart, DestructorJoin, vars, input, history
  <2> QED
    BY <2>1, <2>2, <2>4 DEF Next, speedCommandWorker, Exited
<1> QED
  BY Invariance, <1>1, <1>2, PTL DEF Spec, ImplementsChannel, Channel!Spec
===============================================================================
