------------------------------- MODULE Cpr_proofs ------------------------------
(* Theorems about cpr, for any limits of the pool and any number of sessions.  *)
EXTENDS Cpr, SequenceTheorems, FiniteSetTheorems, TLAPS

-------------------------------------------------------------------------------
(* The thread pool.                                                            *)

Places == {"none", "loop", "gate", "wait", "run", "leaving", "delisting", "ended"}

ListEntries == [id : Workers, stopped : BOOLEAN, joined : BOOLEAN]

PoolTypes ==
    /\ worker \in [Workers -> Places]
    /\ threads \subseteq ListEntries
    /\ client = "add" => created \in Workers
    /\ after \in {"idle", "grow", "push"}
    /\ min_thread_num \in 0..MaxThreads

(* Stop joins the threads of the list, so every one that is there must be on   *)
(* it: only the one the client has just created is not yet.                    *)
AllListed ==
    \A w \in Workers : worker[w] # "none" =>
        (\E e \in threads : e.id = w) \/ (client = "add" /\ created = w)

(* And nothing creates threads in a pool that is stopped.                      *)
NoneWhenStopped ==
    /\ client \in {"create", "add", "grow", "push"} => status # "STOP"
    /\ status = "STOP" /\ client \notin {"join", "crashed"} => \A w \in Workers : worker[w] = "none"

(* An entry is that of one thread, which has ended when Stop has joined it; a  *)
(* thread that is joined and erased is of no entry.                            *)
ListIsTrue ==
    /\ \A e \in threads : worker[e.id] # "none" /\ (e.joined => worker[e.id] = "ended")
    /\ \A e, f \in threads : e.id = f.id => e = f
    /\ client = "add" => worker[created] # "none" /\ \A e \in threads : e.id # created

PoolInv == PoolTypes /\ AllListed /\ NoneWhenStopped /\ ListIsTrue

LEMMA PoolInitially == PoolInit => PoolInv
    BY DEF PoolInit, PoolInv, PoolTypes, AllListed, NoneWhenStopped, ListIsTrue, Places

(* The calls, and the steps of the client that leave the list and the workers  *)
(* alone.                                                                      *)
LEMMA CallsKeepPool ==
    ASSUME PoolInv,
           Calls \/ SubmitGrows \/ SubmitPushes \/ WaitTests \/ WaitCompares \/ ListRaces
    PROVE  PoolInv'
<1> USE DEF Calls, Start, Starts, Submit, Pause, Resume, Stop, WaitBegins, SetMinThreadNum,
            SubmitGrows, SubmitPushes, WaitTests, WaitCompares, ListRaces, clientVars
<1>1. UNCHANGED <<worker, threads>>
    BY DEF workerVars
<1>2. client # "add" /\ client' # "add" /\ after' \in {"idle", "grow", "push"}
    BY DEF PoolInv, PoolTypes
<1>3. /\ client' \in {"create", "add", "grow", "push"} => status' # "STOP"
      /\ status' = "STOP" /\ client' \notin {"join", "crashed"}
            => status = "STOP" /\ client \notin {"join", "crashed"}
    BY DEF PoolInv, NoneWhenStopped
<1>4. min_thread_num' \in 0..MaxThreads
    BY DEF PoolInv, PoolTypes
<1> QED
    BY <1>1, <1>2, <1>3, <1>4 DEF PoolInv, PoolTypes, AllListed, NoneWhenStopped, ListIsTrue

LEMMA CreateKeepsPool ==
    ASSUME PoolInv, CreateThread
    PROVE  PoolInv'
<1>1. /\ client = "create" /\ status # "STOP"
      /\ UNCHANGED <<status, min_thread_num, threads, after>>
    BY DEF CreateThread, PoolInv, NoneWhenStopped
<1>2. CASE client' # "add"
  <2>1. worker' = worker /\ client' \in {"create", after}
    BY <1>1, <1>2 DEF CreateThread
  <2> QED
    BY <1>1, <1>2, <2>1 DEF PoolInv, PoolTypes, AllListed, NoneWhenStopped, ListIsTrue
<1>3. CASE client' = "add"
  <2>1. PICK w \in Workers :
            worker[w] = "none" /\ worker' = [worker EXCEPT ![w] = "loop"] /\ created' = w
    BY <1>1, <1>3 DEF CreateThread, Goto, PoolInv, PoolTypes
  <2>2. ListIsTrue'
    BY <1>1, <1>3, <2>1 DEF PoolInv, PoolTypes, ListEntries, ListIsTrue
  <2> QED
    BY <1>1, <1>3, <2>1, <2>2 DEF PoolInv, PoolTypes, AllListed, NoneWhenStopped, Places
<1> QED
    BY <1>2, <1>3

LEMMA AddKeepsPool ==
    ASSUME PoolInv, AddThread
    PROVE  PoolInv'
<1> DEFINE new == [id |-> created, stopped |-> FALSE, joined |-> FALSE]
<1>1. /\ client = "add" /\ client' = "create" /\ threads' = threads \union {new}
      /\ UNCHANGED <<worker, status, min_thread_num, after>>
    BY DEF AddThread, workerVars
<1>2. new \in ListEntries /\ new.id = created /\ ~new.joined
    BY <1>1 DEF PoolInv, PoolTypes, ListEntries
<1> HIDE DEF new
<1>3. PoolTypes'
    BY <1>1, <1>2 DEF PoolInv, PoolTypes
<1>4. AllListed'
  <2>1. new \in threads' /\ \A e \in threads : e \in threads'
    BY <1>1
  <2> QED
    BY <1>1, <1>2, <2>1 DEF PoolInv, AllListed
<1>5. ListIsTrue'
    BY <1>1, <1>2 DEF PoolInv, ListIsTrue
<1> QED
    BY <1>1, <1>3, <1>4, <1>5 DEF PoolInv, NoneWhenStopped

LEMMA JoinKeepsPool ==
    ASSUME PoolInv, StopJoins
    PROVE  PoolInv'
<1>1. /\ client = "join" /\ UNCHANGED <<worker, status, min_thread_num, client, after>>
    BY DEF StopJoins, workerVars, clientVars
<1>2. PICK e \in threads :
          /\ worker[e.id] = "ended"
          /\ threads' = (threads \ {e}) \union {[e EXCEPT !.joined = TRUE]}
    BY DEF StopJoins
<1> DEFINE f == [e EXCEPT !.joined = TRUE]
<1>3. f \in ListEntries /\ f.id = e.id /\ threads' = (threads \ {e}) \union {f}
    BY <1>2 DEF PoolInv, PoolTypes, ListEntries
<1> HIDE DEF f
<1>4. AllListed'
  <2>1. ASSUME NEW g \in threads PROVE \E h \in threads' : h.id = g.id
    BY <1>3
  <2> QED
    BY <1>1, <2>1 DEF PoolInv, AllListed
<1>5. ListIsTrue'
    BY <1>1, <1>2, <1>3 DEF PoolInv, ListIsTrue
<1> QED
    BY <1>1, <1>3, <1>4, <1>5 DEF PoolInv, PoolTypes, NoneWhenStopped

(* When Stop has joined every entry every worker has ended.                    *)
LEMMA AllEnded ==
    ASSUME PoolInv, StopEnds
    PROVE  worker' = [w \in Workers |-> "none"]
<1>1. \A w \in Workers : worker[w] \in {"none", "ended"}
    BY DEF StopEnds, Joined, PoolInv, AllListed, ListIsTrue
<1> QED
    BY <1>1 DEF StopEnds

LEMMA StopKeepsPool ==
    ASSUME PoolInv, StopEnds
    PROVE  PoolInv'
BY AllEnded
DEF StopEnds, PoolInv, PoolTypes, AllListed, NoneWhenStopped, ListIsTrue, Places

LEMMA DelistKeepsPool ==
    ASSUME PoolInv, NEW w \in Workers, DelThread(w)
    PROVE  PoolInv'
<1> DEFINE gone    == {e \in threads : e.stopped /\ ~e.joined}
           left    == {e.id : e \in gone}
           kept(e) == [e EXCEPT !.stopped = @ \/ e.id = w]
<1>1. /\ worker[w] = "delisting" /\ \A v \in left : worker[v] = "ended"
      /\ threads' = {kept(e) : e \in threads \ gone}
      /\ worker' = [v \in Workers |-> IF v \in left THEN "none"
                                      ELSE IF v = w THEN "ended" ELSE worker[v]]
      /\ UNCHANGED <<status, min_thread_num, client, created, after>>
    BY DEF DelThread, clientVars
<1>2. ASSUME NEW e \in threads
      PROVE  kept(e) \in ListEntries /\ kept(e).id = e.id /\ kept(e).joined = e.joined
    BY DEF PoolInv, PoolTypes, ListEntries
<1>3. \A e \in threads : e.id \in left => e \in gone
    BY DEF PoolInv, ListIsTrue
<1> HIDE DEF gone, left, kept
<1>4. threads' \subseteq ListEntries
    BY <1>1, <1>2
<1>5. ASSUME NEW v \in Workers, worker'[v] # "none"
      PROVE  (\E e \in threads' : e.id = v) \/ (client' = "add" /\ created' = v)
  <2>1. v \notin left /\ worker[v] # "none"
    BY <1>1, <1>5
  <2>2. ASSUME NEW e \in threads, e.id = v PROVE \E f \in threads' : f.id = v
    <3>1. e \notin gone
      BY <2>1, <2>2 DEF left
    <3> QED
      BY <1>1, <1>2, <2>2, <3>1
  <2> QED
    BY <1>1, <2>1, <2>2 DEF PoolInv, AllListed
<1>6. worker' \in [Workers -> Places]
    BY <1>1 DEF PoolInv, PoolTypes, Places
<1>7. ~(status = "STOP" /\ client \notin {"join", "crashed"})
    BY <1>1 DEF PoolInv, NoneWhenStopped
<1>8. ListIsTrue'
  <2>1. ASSUME NEW e \in threads, e \notin gone
        PROVE  worker'[e.id] # "none" /\ (e.joined => worker'[e.id] = "ended")
    <3>1. e.id \in Workers /\ e.id \notin left /\ worker[e.id] # "none"
      BY <1>3, <2>1 DEF PoolInv, PoolTypes, ListEntries, ListIsTrue
    <3>2. e.joined => worker[e.id] = "ended"
      BY DEF PoolInv, ListIsTrue
    <3> QED
      BY <1>1, <3>1, <3>2
  <2>2. ASSUME client = "add"
        PROVE  worker'[created] # "none" /\ \A e \in threads : e.id # created
    <3>1. created \in Workers /\ worker[created] # "none" /\ \A e \in threads : e.id # created
      BY <2>2 DEF PoolInv, PoolTypes, ListIsTrue
    <3>2. created \notin left
      BY <3>1 DEF left, gone
    <3> QED
      BY <1>1, <3>1, <3>2
  <2>3. \A e, f \in threads : e.id = f.id => e = f
    BY DEF PoolInv, ListIsTrue
  <2> QED
    BY <1>1, <1>2, <2>1, <2>2, <2>3 DEF ListIsTrue
<1> QED
    BY <1>1, <1>4, <1>5, <1>6, <1>7, <1>8 DEF PoolInv, PoolTypes, AllListed, NoneWhenStopped

LEMMA WorkerKeepsPool ==
    ASSUME PoolInv, NEW w \in Workers, WorkerStep(w)
    PROVE  PoolInv'
<1>1. CASE DelThread(w)
    BY <1>1, DelistKeepsPool
<1>2. CASE LoopTest(w) \/ Gate(w) \/ Wake(w) \/ Finish(w) \/ DelThreadCounts(w)
  <2>1. /\ worker[w] \notin {"none", "ended"}
        /\ \E place \in Places \ {"none"} : worker' = [worker EXCEPT ![w] = place]
        /\ UNCHANGED <<status, min_thread_num, threads, client, created, after>>
    BY <1>2 DEF LoopTest, Gate, Wake, Finish, DelThreadCounts, Goto, clientVars, Places
  <2>2. ListIsTrue'
    BY <2>1 DEF PoolInv, PoolTypes, ListEntries, ListIsTrue
  <2> QED
    BY <2>1, <2>2 DEF PoolInv, PoolTypes, AllListed, NoneWhenStopped, Places
<1> QED
    BY <1>1, <1>2 DEF WorkerStep

LEMMA PoolStepKeeps == PoolInv /\ [Next]_vars => PoolInv'
<1> SUFFICES ASSUME PoolInv, [Next]_vars PROVE PoolInv'
    OBVIOUS
<1>1. CASE UNCHANGED poolVars
    BY <1>1 DEF poolVars, workerVars, clientVars, PoolInv, PoolTypes, AllListed, NoneWhenStopped,
       ListIsTrue
<1>2. CASE Calls
    BY <1>2, CallsKeepPool
<1>3. CASE ClientGoesOn
    BY <1>3, CallsKeepPool, CreateKeepsPool, AddKeepsPool, JoinKeepsPool, StopKeepsPool
       DEF ClientGoesOn
<1>4. CASE \E w \in Workers : WorkerStep(w)
    BY <1>4, WorkerKeepsPool
<1> QED
    BY <1>1, <1>2, <1>3, <1>4 DEF Next, PoolStep, vars

(* No worker is left, and none will be, when Stop has returned                 *)
(* (threadpool.cpp:31-50, 78-132).                                             *)
THEOREM StopIsFinal == Spec => []NothingRunsAfterStop
<1>1. Init => PoolInv
    BY PoolInitially DEF Init
<1>2. PoolInv => NothingRunsAfterStop
    BY DEF PoolInv, NoneWhenStopped, NothingRunsAfterStop, Serving
<1> QED
    BY <1>1, PoolStepKeeps, <1>2, PTL DEF Spec

-------------------------------------------------------------------------------
(* The pool keeps its minimum of workers.                                      *)

(* The count is the number of workers whose loop has not ended, the one that   *)
(* is about to be counted included, and even if that one has left already.     *)
InLoop   == {w \in Workers : worker[w] \in {"loop", "gate", "wait", "run", "leaving"}}
Adding   == IF client = "add" THEN 1 ELSE 0

PoolNumbers == cur_thread_num \in Nat /\ creating \in Nat

CountIsTrue == status # "STOP" => cur_thread_num + Adding = Cardinality(InLoop)

(* It never passes the maximum, so that it does not wrap.                      *)
CountIsBounded ==
    /\ cur_thread_num <= MaxThreads
    /\ client = "add" => cur_thread_num < MaxThreads
    /\ status = "STOP" /\ client \notin {"join", "crashed"} => cur_thread_num = 0

(* Who leaves has seen more workers than the minimum, and no other can leave   *)
(* before it has counted itself out.                                           *)
OneLeaves ==
    /\ \A w \in Workers : worker[w] = "leaving" => cur_thread_num > min_thread_num
    /\ \A v, w \in Workers : {worker[v], worker[w]} \subseteq {"leaving", "delisting"} => v = w

(* The workers of a pool that is being started are there or still to come.     *)
EnoughToCome ==
    status # "STOP" =>
        \/ cur_thread_num >= min_thread_num
        \/ Starting /\ cur_thread_num + creating + Adding >= min_thread_num

JoinsWhenStopped == client \in {"join", "crashed"} => status = "STOP"

MannedInv ==
    PoolNumbers /\ JoinsWhenStopped /\ CountIsTrue /\ CountIsBounded /\ OneLeaves /\ EnoughToCome

(* Nobody who has taken a task in the pause waits for another one.             *)
PauseInv ==
    /\ DOMAIN task = Workers /\ late \subseteq Workers
    /\ status = "PAUSE" => \A w \in late : worker[w] # "wait"

LEMMA InLoopIsFinite == IsFiniteSet(InLoop) /\ Cardinality(InLoop) \in Nat
<1>1. IsFiniteSet(Workers)
    BY FS_Interval, PoolAssumption DEF Workers
<1>2. InLoop \in SUBSET Workers
    BY DEF InLoop
<1> QED
    BY <1>1, <1>2, FS_Subset, FS_CardinalityType

LEMMA ManningBegins == PoolInit => MannedInv /\ PauseInv
    BY PoolAssumption, FS_EmptySet DEF PoolInit, MannedInv, PoolNumbers, JoinsWhenStopped, CountIsTrue, CountIsBounded,
       OneLeaves, EnoughToCome, PauseInv, InLoop, Adding, Starting

(* A pool that is started has no worker, and enough of them to create.         *)
LEMMA StartKeepsManning ==
    ASSUME PoolInv, MannedInv, NEW n \in {0, MaxThreads}, NEW next \in {"idle", "grow"},
           client = "idle", Starts(n, next), UNCHANGED <<min_thread_num, counters, worker>>
    PROVE  MannedInv'
<1>1. /\ status = "STOP" /\ status' = "RUNNING" /\ client' = "create" /\ after' = next
      /\ creating' = Clamp(n) /\ cur_thread_num' = cur_thread_num /\ worker' = worker
    BY DEF Starts, counters
<1>2. Clamp(n) \in Nat /\ Clamp(n) >= min_thread_num /\ min_thread_num' = min_thread_num
    BY PoolAssumption DEF Clamp, PoolInv, PoolTypes
<1>3. cur_thread_num = 0 /\ InLoop = {}
    BY <1>1 DEF MannedInv, CountIsBounded, PoolInv, NoneWhenStopped, InLoop
<1>4. Cardinality(InLoop') = 0 /\ Adding' = 0 /\ Starting'
    BY <1>1, <1>3, FS_EmptySet DEF InLoop, Adding, Starting
<1>5. CountIsTrue'
    BY <1>1, <1>3, <1>4 DEF CountIsTrue
<1>6. EnoughToCome' /\ PoolNumbers'
    BY <1>1, <1>2, <1>3, <1>4, PoolAssumption DEF EnoughToCome, PoolNumbers
<1> QED
    BY <1>1, <1>3, <1>5, <1>6, PoolAssumption DEF MannedInv, CountIsBounded, OneLeaves, JoinsWhenStopped

(* The other calls, and the steps of the client that leave the workers alone.  *)
LEMMA CallsKeepManning ==
    ASSUME PoolInv, MannedInv,
           Calls \/ SubmitGrows \/ SubmitPushes \/ WaitTests \/ WaitCompares \/ ListRaces
    PROVE  MannedInv'
<1>1. CASE \E n \in {0, MaxThreads} : Start(n)
    BY <1>1, StartKeepsManning DEF Start, workerVars
<1>2. CASE Submit /\ Starts(0, "grow")
    BY <1>2, StartKeepsManning DEF Submit, workerVars
<1>3. CASE \/ (Submit /\ ~Starts(0, "grow")) \/ Pause \/ Resume \/ Stop \/ WaitBegins
           \/ SubmitGrows \/ SubmitPushes \/ WaitTests \/ WaitCompares \/ ListRaces
  <2>1. /\ UNCHANGED <<worker, cur_thread_num, min_thread_num>>
        /\ client # "add" /\ client' # "add" /\ ~Starting
        /\ status' # "STOP" => status # "STOP"
        /\ status' = "STOP" /\ client' \notin {"join", "crashed"}
              => status = "STOP" /\ client \notin {"join", "crashed"}
        /\ creating' \in {creating, 1} /\ JoinsWhenStopped'
    BY <1>3 DEF Submit, Pause, Resume, Stop, WaitBegins, SubmitGrows, SubmitPushes, WaitTests,
       WaitCompares, ListRaces, workerVars, clientVars, counters, Starting, PoolInv, NoneWhenStopped,
       MannedInv, JoinsWhenStopped
  <2>2. InLoop' = InLoop /\ Adding = 0 /\ Adding' = 0
    BY <2>1 DEF InLoop, Adding
  <2>3. CountIsTrue' /\ PoolNumbers'
    BY <2>1, <2>2 DEF MannedInv, CountIsTrue, PoolNumbers
  <2>4. CountIsBounded' /\ OneLeaves'
    BY <2>1 DEF MannedInv, CountIsBounded, OneLeaves
  <2>5. EnoughToCome'
    BY <2>1, <2>2 DEF MannedInv, EnoughToCome
  <2> QED
    BY <2>1, <2>3, <2>4, <2>5 DEF MannedInv
<1>4. CASE \E n \in 0..MaxThreads : SetMinThreadNum(n)
  <2>1. /\ client = "idle" /\ status = "STOP"
        /\ UNCHANGED <<status, client, worker, cur_thread_num, creating>>
    BY <1>4 DEF SetMinThreadNum, counters, workerVars, clientVars
  <2>2. \A w \in Workers : worker[w] = "none"
    BY <2>1 DEF PoolInv, NoneWhenStopped
  <2> QED
    BY <2>1, <2>2 DEF MannedInv, PoolNumbers, JoinsWhenStopped, CountIsTrue, CountIsBounded,
       OneLeaves, EnoughToCome
<1> QED
    BY <1>1, <1>2, <1>3, <1>4 DEF Calls

LEMMA CreateKeepsManning ==
    ASSUME PoolInv, MannedInv, CreateThread
    PROVE  MannedInv'
<1>1. /\ client = "create" /\ status # "STOP" /\ status' = status /\ after' = after
      /\ UNCHANGED <<cur_thread_num, min_thread_num>> /\ min_thread_num \in 0..MaxThreads
      /\ Adding = 0 /\ after \in {"idle", "grow", "push"}
    BY DEF CreateThread, PoolInv, PoolTypes, NoneWhenStopped, counters, Adding
<1>2. CASE creating = 0 /\ client' = after /\ UNCHANGED <<worker, creating>>
  <2>1. cur_thread_num >= min_thread_num /\ Adding' = 0 /\ InLoop' = InLoop
    BY <1>1, <1>2, PoolAssumption DEF MannedInv, EnoughToCome, PoolNumbers, Adding, InLoop
  <2> QED
    BY <1>1, <1>2, <2>1
       DEF MannedInv, PoolNumbers, JoinsWhenStopped, CountIsTrue, CountIsBounded, OneLeaves,
           EnoughToCome
<1>3. CASE /\ creating > 0 /\ cur_thread_num >= MaxThreads
           /\ creating' = creating - 1 /\ UNCHANGED <<worker, client>>
  <2>1. cur_thread_num >= min_thread_num /\ Adding' = 0 /\ InLoop' = InLoop
    BY <1>1, <1>3, PoolAssumption DEF MannedInv, PoolNumbers, Adding, InLoop
  <2> QED
    BY <1>1, <1>3, <2>1
       DEF MannedInv, PoolNumbers, JoinsWhenStopped, CountIsTrue, CountIsBounded, OneLeaves,
           EnoughToCome
<1>4. ASSUME NEW w \in Workers, creating > 0, cur_thread_num < MaxThreads, worker[w] = "none",
             worker' = [worker EXCEPT ![w] = "loop"], creating' = creating - 1, client' = "add"
      PROVE  MannedInv'
  <2>1. InLoop' = InLoop \cup {w} /\ w \notin InLoop /\ Adding' = 1
    BY <1>4 DEF InLoop, Adding, PoolInv, PoolTypes
  <2>2. Cardinality(InLoop') = Cardinality(InLoop) + 1
    BY <2>1, InLoopIsFinite, FS_AddElement
  <2>3. CountIsTrue' /\ PoolNumbers' /\ CountIsBounded'
    BY <1>1, <1>4, <2>1, <2>2, InLoopIsFinite
       DEF MannedInv, CountIsTrue, PoolNumbers, CountIsBounded
  <2>4. OneLeaves'
    BY <1>1, <1>4 DEF MannedInv, OneLeaves, PoolInv, PoolTypes
  <2>5. EnoughToCome'
    BY <1>1, <1>4, <2>1, PoolAssumption DEF MannedInv, EnoughToCome, PoolNumbers, Starting
  <2> QED
    BY <1>4, <2>3, <2>4, <2>5 DEF MannedInv, JoinsWhenStopped
<1> QED
    BY <1>2, <1>3, <1>4 DEF CreateThread, Goto

LEMMA AddKeepsManning ==
    ASSUME PoolInv, MannedInv, AddThread
    PROVE  MannedInv'
<1>1. /\ client = "add" /\ client' = "create" /\ status # "STOP"
      /\ cur_thread_num' = Plus(cur_thread_num) /\ UNCHANGED <<worker, status, min_thread_num, creating, after>>
    BY DEF AddThread, workerVars, PoolInv, NoneWhenStopped
<1>2. /\ cur_thread_num \in Nat /\ cur_thread_num < MaxThreads /\ MaxThreads \in Nat
      /\ Width \in Nat /\ MaxThreads <= Width - 2 /\ min_thread_num \in Nat
    BY <1>1, PoolAssumption DEF MannedInv, PoolNumbers, CountIsBounded, PoolInv, PoolTypes
<1>3. cur_thread_num' = cur_thread_num + 1
    BY <1>1, <1>2 DEF Plus
<1>4. InLoop' = InLoop /\ Adding = 1 /\ Adding' = 0
    BY <1>1 DEF InLoop, Adding
<1>5. CountIsTrue' /\ PoolNumbers' /\ CountIsBounded'
    BY <1>1, <1>2, <1>3, <1>4 DEF MannedInv, CountIsTrue, PoolNumbers, CountIsBounded
<1>6. OneLeaves'
    BY <1>1, <1>2, <1>3 DEF MannedInv, OneLeaves
<1>7. EnoughToCome'
    BY <1>1, <1>2, <1>3, <1>4 DEF MannedInv, EnoughToCome, PoolNumbers, Starting
<1> QED
    BY <1>1, <1>5, <1>6, <1>7 DEF MannedInv, JoinsWhenStopped

LEMMA JoinKeepsManning ==
    ASSUME MannedInv, StopJoins
    PROVE  MannedInv'
BY DEF StopJoins, counters, workerVars, clientVars, MannedInv, PoolNumbers, JoinsWhenStopped,
   CountIsTrue, CountIsBounded, OneLeaves, EnoughToCome, InLoop, Adding, Starting

LEMMA StopKeepsManning ==
    ASSUME PoolInv, MannedInv, StopEnds
    PROVE  MannedInv'
<1>1. worker' = [w \in Workers |-> "none"]
    BY AllEnded
<1>2. client' = "idle" /\ cur_thread_num' = 0 /\ creating' = creating
    BY DEF StopEnds
<1>3. status' = "STOP"
    BY DEF StopEnds, MannedInv, JoinsWhenStopped
<1>4. PoolNumbers' /\ JoinsWhenStopped' /\ CountIsTrue' /\ EnoughToCome' /\ CountIsBounded'
    BY <1>2, <1>3, PoolAssumption
       DEF MannedInv, PoolNumbers, JoinsWhenStopped, CountIsTrue, CountIsBounded, EnoughToCome
<1>5. OneLeaves'
    BY <1>1 DEF OneLeaves
<1> QED
    BY <1>4, <1>5 DEF MannedInv

(* A worker's steps that do not leave the pool.                                *)
LEMMA StayKeepsManning ==
    ASSUME PoolInv, MannedInv, NEW w \in Workers,
           LoopTest(w) \/ Gate(w) \/ Wake(w) \/ Finish(w)
    PROVE  MannedInv'
<1>1. UNCHANGED <<status, min_thread_num, cur_thread_num, client, creating, after>>
    BY DEF LoopTest, Gate, Wake, Finish, counters, clientVars
<1>2. PICK place \in {"loop", "gate", "wait", "run", "leaving", "ended"} :
        /\ worker' = [worker EXCEPT ![w] = place]
        /\ worker[w] \in {"loop", "gate", "wait", "run"}
        /\ place = "ended" => status = "STOP"
        /\ place = "leaving" => TaskMutexFree /\ cur_thread_num > min_thread_num
    BY DEF LoopTest, Gate, Wake, Finish, Goto, MayLeave
<1>3. CountIsTrue'
  <2>1. CASE place = "ended"
    BY <1>1, <1>2, <2>1 DEF CountIsTrue
  <2>2. CASE place # "ended"
    <3>1. InLoop' = InLoop
      BY <1>2, <2>2 DEF InLoop, PoolInv, PoolTypes
    <3> QED
      BY <1>1, <3>1 DEF MannedInv, CountIsTrue, Adding
  <2> QED
    BY <2>1, <2>2
<1>4. OneLeaves'
  <2>1. ASSUME NEW v \in Workers, v # w PROVE worker'[v] = worker[v]
    BY <1>2, <2>1 DEF PoolInv, PoolTypes
  <2>2. worker'[w] = place /\ place # "delisting"
    BY <1>2 DEF PoolInv, PoolTypes
  <2>3. ASSUME NEW v \in Workers, worker'[v] = "leaving" PROVE (cur_thread_num > min_thread_num)'
    BY <1>1, <1>2, <2>1, <2>2, <2>3 DEF MannedInv, OneLeaves
  <2>4. ASSUME NEW v \in Workers, NEW u \in Workers, v # u,
               {worker'[v], worker'[u]} \subseteq {"leaving", "delisting"}
        PROVE  FALSE
    <3>1. CASE v # w /\ u # w
      BY <2>1, <2>4, <3>1 DEF MannedInv, OneLeaves
    <3>2. CASE v = w \/ u = w
      BY <1>2, <2>1, <2>2, <2>4, <3>2 DEF TaskMutexFree
    <3> QED
      BY <3>1, <3>2
  <2> QED
    BY <2>3, <2>4 DEF OneLeaves
<1> QED
    BY <1>1, <1>3, <1>4
       DEF MannedInv, PoolNumbers, JoinsWhenStopped, CountIsBounded, EnoughToCome, Starting, Adding

LEMMA MinusOne ==
    ASSUME NEW n \in Nat, NEW w \in Nat, 0 < n, n < w
    PROVE  (n + w - 1) % w = n - 1
    OBVIOUS

(* Who leaves counts itself out while the count is above the minimum.          *)
LEMMA CountOutKeepsManning ==
    ASSUME PoolInv, MannedInv, NEW w \in Workers, DelThreadCounts(w)
    PROVE  MannedInv'
<1>1. /\ worker[w] = "leaving" /\ worker' = [worker EXCEPT ![w] = "delisting"]
      /\ cur_thread_num' = Minus(cur_thread_num)
      /\ UNCHANGED <<status, min_thread_num, client, creating, after>>
    BY DEF DelThreadCounts, Goto, clientVars
<1>2. /\ cur_thread_num \in Nat /\ cur_thread_num > min_thread_num /\ cur_thread_num <= MaxThreads
      /\ MaxThreads \in Nat /\ Width \in Nat /\ MaxThreads <= Width - 2
      /\ min_thread_num \in Nat
    BY <1>1, PoolAssumption
       DEF MannedInv, PoolNumbers, CountIsBounded, OneLeaves, PoolInv, PoolTypes
<1>3. cur_thread_num' = cur_thread_num - 1
    BY <1>1, <1>2, MinusOne DEF Minus
<1>4. InLoop' = InLoop \ {w} /\ w \in InLoop /\ Adding' = Adding
    BY <1>1 DEF InLoop, Adding, PoolInv, PoolTypes
<1>5. Cardinality(InLoop') = Cardinality(InLoop) - 1
    BY <1>4, InLoopIsFinite, FS_RemoveElement
<1>6. CountIsTrue'
    BY <1>1, <1>2, <1>3, <1>4, <1>5, InLoopIsFinite DEF MannedInv, CountIsTrue, Adding
<1>7. \A v \in Workers : worker'[v] = IF v = w THEN "delisting" ELSE worker[v]
    BY <1>1 DEF PoolInv, PoolTypes
<1>8. \A v \in Workers : worker[v] \in {"leaving", "delisting"} => v = w
    BY <1>1 DEF MannedInv, OneLeaves
<1>9. OneLeaves'
    BY <1>7, <1>8 DEF OneLeaves
<1>10. CountIsBounded'
    BY <1>1, <1>2, <1>3 DEF MannedInv, CountIsBounded
<1>11. PoolNumbers' /\ EnoughToCome' /\ JoinsWhenStopped'
    BY <1>1, <1>2, <1>3 DEF MannedInv, PoolNumbers, EnoughToCome, JoinsWhenStopped
<1> QED
    BY <1>6, <1>9, <1>10, <1>11 DEF MannedInv

LEMMA DelistKeepsManning ==
    ASSUME PoolInv, MannedInv, NEW w \in Workers, DelThread(w)
    PROVE  MannedInv'
<1> DEFINE gone == {e \in threads : e.stopped /\ ~e.joined}
           left == {e.id : e \in gone}
<1>1. /\ worker[w] = "delisting" /\ \A v \in left : worker[v] = "ended"
      /\ worker' = [v \in Workers |-> IF v \in left THEN "none"
                                      ELSE IF v = w THEN "ended" ELSE worker[v]]
      /\ UNCHANGED <<status, min_thread_num, cur_thread_num, client, creating, after>>
    BY DEF DelThread, clientVars
<1>2. ASSUME NEW v \in Workers
      PROVE  \/ worker'[v] = worker[v]
             \/ worker'[v] \in {"none", "ended"} /\ worker[v] \in {"delisting", "ended"}
    BY <1>1
<1>3. InLoop' = InLoop
    BY <1>2 DEF InLoop
<1>4. OneLeaves'
  <2>1. \A v \in Workers : worker'[v] \in {"leaving", "delisting"} => worker[v] = worker'[v]
    BY <1>2
  <2> QED
    BY <1>1, <2>1 DEF MannedInv, OneLeaves
<1> QED
    BY <1>1, <1>3, <1>4
       DEF MannedInv, PoolNumbers, JoinsWhenStopped, CountIsTrue, CountIsBounded, EnoughToCome,
           Starting, Adding

LEMMA ManningStepKeeps == PoolInv /\ MannedInv /\ [Next]_vars => MannedInv'
<1> SUFFICES ASSUME PoolInv, MannedInv, [Next]_vars PROVE MannedInv'
    OBVIOUS
<1>1. CASE UNCHANGED poolVars
    BY <1>1 DEF poolVars, workerVars, clientVars, counters, MannedInv, PoolNumbers,
       JoinsWhenStopped, CountIsTrue, CountIsBounded, OneLeaves, EnoughToCome, InLoop, Adding,
       Starting
<1>2. CASE Calls
    BY <1>2, CallsKeepManning
<1>3. CASE ClientGoesOn
    BY <1>3, CallsKeepManning, CreateKeepsManning, AddKeepsManning, JoinKeepsManning,
       StopKeepsManning DEF ClientGoesOn
<1>4. CASE \E w \in Workers : WorkerStep(w)
    BY <1>4, StayKeepsManning, CountOutKeepsManning, DelistKeepsManning DEF WorkerStep
<1> QED
    BY <1>1, <1>2, <1>3, <1>4 DEF Next, PoolStep, vars

LEMMA MannedWhenCounted == PoolInv /\ MannedInv => StaysManned
<1> SUFFICES ASSUME PoolInv, MannedInv, status # "STOP", ~Starting
             PROVE  Cardinality(Serving) >= min_thread_num
    BY DEF StaysManned
<1>1. /\ cur_thread_num \in Nat /\ min_thread_num \in Nat /\ cur_thread_num >= min_thread_num
      /\ Cardinality(InLoop) >= cur_thread_num
    BY PoolAssumption, InLoopIsFinite
       DEF MannedInv, PoolNumbers, CountIsTrue, EnoughToCome, Adding, PoolInv, PoolTypes
<1>2. CASE \A w \in Workers : worker[w] # "leaving"
  <2>1. Serving = InLoop
    BY <1>2 DEF Serving, InLoop
  <2> QED
    BY <1>1, <2>1, InLoopIsFinite
<1>3. ASSUME NEW w \in Workers, worker[w] = "leaving"
      PROVE  Cardinality(Serving) >= min_thread_num
  <2>1. cur_thread_num > min_thread_num /\ \A v \in Workers : worker[v] = "leaving" => v = w
    BY <1>3 DEF MannedInv, OneLeaves
  <2>2. Serving = InLoop \ {w} /\ w \in InLoop
    BY <1>3, <2>1 DEF Serving, InLoop
  <2>3. Cardinality(Serving) = Cardinality(InLoop) - 1
    BY <2>2, InLoopIsFinite, FS_RemoveElement
  <2> QED
    BY <1>1, <2>1, <2>3, InLoopIsFinite
<1> QED
    BY <1>2, <1>3

(* Workers that time out together do not leave the pool with fewer than the    *)
(* minimum, whatever the limits and the number of threads                      *)
(* (threadpool.cpp:91-103, 121-139).                                           *)
THEOREM MinimumIsKept == Spec => []StaysManned
<1>1. Init => PoolInv /\ MannedInv
    BY PoolInitially, ManningBegins DEF Init
<1> QED
    BY <1>1, PoolStepKeeps, ManningStepKeeps, MannedWhenCounted, PTL DEF Spec

-------------------------------------------------------------------------------
(* The pause.                                                                  *)

LEMMA PauseStepKeeps == PoolInv /\ PauseInv /\ [Next]_vars => PauseInv'
<1> SUFFICES ASSUME PoolInv, PauseInv, [Next]_vars PROVE PauseInv'
    OBVIOUS
<1>1. CASE UNCHANGED poolVars
    BY <1>1 DEF poolVars, workerVars, PauseInv
<1>2. CASE Calls
    BY <1>2 DEF Calls, Start, Starts, Submit, Pause, Resume, Stop, WaitBegins, SetMinThreadNum,
       workerVars, PauseInv
<1>3. CASE ClientGoesOn
  <2>1. CASE SubmitGrows \/ SubmitPushes \/ AddThread \/ StopJoins \/ ListRaces
              \/ WaitTests \/ WaitCompares
    BY <2>1 DEF SubmitGrows, SubmitPushes, AddThread, StopJoins, ListRaces, WaitTests,
       WaitCompares, workerVars, PauseInv
  <2>2. CASE CreateThread \/ StopEnds
    <3>1. /\ UNCHANGED <<status, late, task>>
          /\ \A w \in Workers : worker'[w] = "wait" => worker[w] = "wait"
      BY <2>2 DEF CreateThread, StopEnds, Goto, PoolInv, PoolTypes
    <3> QED
      BY <3>1 DEF PauseInv
  <2> QED
    BY <1>3, <2>1, <2>2 DEF ClientGoesOn
<1>4. ASSUME NEW w \in Workers, WorkerStep(w) PROVE PauseInv'
  <2>1. CASE Gate(w)
    BY <2>1 DEF Gate, GateOpen, PauseInv
  <2>2. CASE LoopTest(w) \/ Wake(w) \/ Finish(w) \/ DelThreadCounts(w)
    <3>1. /\ status' = status /\ late' \subseteq late \cup {w} /\ DOMAIN task' = Workers
          /\ \E place \in Places \ {"wait"} : worker' = [worker EXCEPT ![w] = place]
      BY <2>2 DEF LoopTest, Wake, Finish, DelThreadCounts, Goto, Places, PauseInv
    <3>2. \A v \in Workers : worker'[v] = "wait" => v # w /\ worker[v] = "wait"
      BY <3>1 DEF PoolInv, PoolTypes
    <3> QED
      BY <3>1, <3>2 DEF PauseInv
  <2>3. CASE DelThread(w)
    BY <2>3 DEF DelThread, PauseInv
  <2> QED
    BY <1>4, <2>1, <2>2, <2>3 DEF WorkerStep
<1> QED
    BY <1>1, <1>2, <1>3, <1>4 DEF Next, PoolStep, vars

(* While the pool pauses no worker takes a second task (threadpool.cpp:52-57,  *)
(* 85-88).                                                                     *)
THEOREM PauseIsKept == Spec => PauseHolds
<1> DEFINE TakesOne == \A w \in Workers :
                status = "PAUSE" /\ task'[w] # task[w] /\ task'[w] # None => w \notin late
<1>1. Init => PoolInv /\ PauseInv
    BY PoolInitially, ManningBegins DEF Init
<1>2. PoolInv /\ PauseInv /\ [Next]_vars => [TakesOne]_poolVars
  <2> SUFFICES ASSUME PoolInv, PauseInv, [Next]_vars, NEW w \in Workers,
                      status = "PAUSE", task'[w] # task[w], task'[w] # None
               PROVE  w \notin late
    OBVIOUS
  <2>1. \E v \in Workers : Wake(v) \/ Finish(v)
    BY DEF Next, PoolStep, vars, poolVars, Calls, ClientGoesOn, WorkerStep, Start, Starts, Submit,
       Pause, Resume, Stop, WaitBegins, SubmitGrows, SubmitPushes, CreateThread, AddThread,
       StopJoins, StopEnds, ListRaces, WaitTests, WaitCompares, LoopTest, Gate, DelThreadCounts,
       DelThread, SetMinThreadNum, workerVars, clientVars
  <2>2. PICK v \in Workers : Wake(v) \/ Finish(v)
    BY <2>1
  <2>3. w = v
    BY <2>2 DEF Wake, Finish, PauseInv
  <2>4. worker[v] = "wait"
    BY <2>2, <2>3 DEF Wake, Finish, PauseInv
  <2> QED
    BY <2>3, <2>4 DEF PauseInv
<1> QED
    BY <1>1, PoolStepKeeps, PauseStepKeeps, <1>2, PTL DEF Spec, PauseHolds

-------------------------------------------------------------------------------
(* The tasks.                                                                  *)

TaskTypes ==
    /\ tasks \in Seq(Nat) /\ submitted \in Nat /\ Len(tasks) <= submitted
    /\ DOMAIN task = Workers

TakenInv == TaskTypes /\ TakenInOrderOnce

(* Whatever neither submits, takes nor ends a task leaves the invariant alone. *)
LEMMA OthersKeepTaken ==
    ASSUME TakenInv, UNCHANGED <<tasks, submitted, task, done>>, Running' = Running
    PROVE  TakenInv'
    BY DEF TakenInv, TaskTypes, TakenInOrderOnce, Taken

LEMMA SubmitKeepsTaken ==
    ASSUME TakenInv, SubmitPushes
    PROVE  TakenInv'
<1>1. /\ tasks \in Seq(Nat) /\ submitted \in Nat /\ submitted' = submitted + 1
      /\ tasks' = Append(tasks, submitted + 1) /\ UNCHANGED <<task, done>> /\ Running' = Running
    BY DEF TakenInv, TaskTypes, SubmitPushes, workerVars, Running
<1>2. /\ tasks' \in Seq(Nat) /\ Len(tasks') = Len(tasks) + 1
      /\ \A i \in 1..Len(tasks') : tasks'[i] = IF i <= Len(tasks) THEN tasks[i] ELSE submitted + 1
    BY <1>1
<1>3. Taken' = Taken
    BY <1>1, <1>2 DEF Taken
<1>4. \A i \in 1..Len(tasks') : tasks'[i] = Taken + i
    BY <1>1, <1>2 DEF TakenInv, TakenInOrderOnce, Taken
<1>5. TaskTypes'
    BY <1>1, <1>2 DEF TakenInv, TaskTypes
<1> QED
    BY <1>1, <1>3, <1>4, <1>5 DEF TakenInv, TakenInOrderOnce

(* A worker takes the first task of the queue, which is the next one.          *)
LEMMA TakeKeepsTaken ==
    ASSUME PoolInv, TakenInv, NEW w \in Workers, worker[w] = "wait", Goto(w, "run"), tasks # <<>>,
           task' = [task EXCEPT ![w] = Head(tasks)], tasks' = Tail(tasks),
           UNCHANGED <<submitted, done>>
    PROVE  TakenInv'
<1>1. tasks \in Seq(Nat) /\ submitted \in Nat /\ Len(tasks) \in 1..submitted /\ DOMAIN task = Workers
    BY DEF TakenInv, TaskTypes
<1>2. /\ tasks' \in Seq(Nat) /\ Len(tasks') = Len(tasks) - 1
      /\ \A i \in 1..Len(tasks') : tasks'[i] = tasks[i + 1]
    BY <1>1
<1>3. Taken \in Nat /\ Taken' = Taken + 1 /\ Head(tasks) = Taken + 1
  <2>1. Taken \in Nat /\ Taken' = Taken + 1
    BY <1>1, <1>2 DEF Taken
  <2>2. \A i \in 1..Len(tasks) : tasks[i] = Taken + i
    BY DEF TakenInv, TakenInOrderOnce
  <2>3. Head(tasks) = tasks[1] /\ 1 \in 1..Len(tasks)
    BY <1>1
  <2> QED
    BY <2>1, <2>2, <2>3
<1>4. TaskTypes'
    BY <1>1, <1>2 DEF TaskTypes
<1>5. \A i \in 1..Len(tasks') : tasks'[i] = Taken' + i
  <2>1. \A i \in 1..Len(tasks) : tasks[i] = Taken + i
    BY DEF TakenInv, TakenInOrderOnce
  <2>2. \A i \in 1..Len(tasks') : i + 1 \in 1..Len(tasks) /\ tasks'[i] = tasks[i + 1]
    BY <1>1, <1>2
  <2>3. \A i \in 1..Len(tasks') : tasks'[i] = Taken + (i + 1)
    BY <2>1, <2>2
  <2> QED
    BY <1>2, <1>3, <2>3
<1>6. Running' = Running \union {w} /\ w \notin Running
    BY DEF Running, Goto, PoolInv, PoolTypes
<1>7. task'[w] = Taken + 1 /\ \A v \in Running : task'[v] = task[v]
    BY <1>1, <1>3, <1>6 DEF Running
<1>8. done \union {task[v] : v \in Running} = 1..Taken
    BY DEF TakenInv, TakenInOrderOnce
<1>9. done' \union {task'[v] : v \in Running'} = 1..Taken'
  <2>1. {task'[v] : v \in Running'} = {task[v] : v \in Running} \union {Taken + 1}
    BY <1>6, <1>7
  <2>2. 1..Taken' = (1..Taken) \union {Taken + 1}
    BY <1>3
  <2> QED
    BY <1>8, <2>1, <2>2
<1>10. Taken + 1 \notin done /\ \A v \in Running : task[v] # Taken + 1
  <2>1. Taken + 1 \notin 1..Taken
    BY <1>3
  <2> QED
    BY <1>8, <2>1
<1>11. \A u \in Running' : task'[u] \notin done' /\ \A v \in Running' : task'[v] = task'[u] => v = u
    BY <1>6, <1>7, <1>10 DEF TakenInv, TakenInOrderOnce
<1> QED
    BY <1>4, <1>5, <1>9, <1>11 DEF TakenInv, TakenInOrderOnce

LEMMA FinishKeepsTaken ==
    ASSUME PoolInv, TakenInv, NEW w \in Workers, Finish(w)
    PROVE  TakenInv'
<1>1. /\ UNCHANGED <<tasks, submitted>> /\ done' = done \union {task[w]}
      /\ task' = [task EXCEPT ![w] = None] /\ DOMAIN task = Workers
    BY DEF Finish, clientVars, TakenInv, TaskTypes
<1>2. w \in Running /\ Running' = Running \ {w}
    BY DEF Finish, Goto, Running, PoolInv, PoolTypes
<1>3. \A v \in Running' : task'[v] = task[v]
    BY <1>1, <1>2 DEF Running
<1>4. done' \union {task'[v] : v \in Running'} = done \union {task[v] : v \in Running}
    BY <1>1, <1>2, <1>3
<1>5. \A u \in Running' : task'[u] \notin done' /\ \A v \in Running' : task'[v] = task'[u] => v = u
    BY <1>1, <1>2, <1>3 DEF TakenInv, TakenInOrderOnce
<1>6. TaskTypes' /\ Taken' = Taken
    BY <1>1 DEF TakenInv, TaskTypes, Taken
<1> QED
    BY <1>1, <1>4, <1>5, <1>6 DEF TakenInv, TakenInOrderOnce

LEMMA WorkerKeepsTaken ==
    ASSUME PoolInv, TakenInv, NEW w \in Workers, WorkerStep(w)
    PROVE  TakenInv'
<1>1. CASE LoopTest(w) \/ Gate(w) \/ DelThreadCounts(w)
  <2>1. /\ UNCHANGED <<tasks, submitted, task, done>> /\ worker[w] # "run"
        /\ \E place \in Places \ {"run"} : worker' = [worker EXCEPT ![w] = place]
    BY <1>1 DEF LoopTest, Gate, DelThreadCounts, Goto, Places, clientVars
  <2>2. Running' = Running
    BY <2>1 DEF Running, PoolInv, PoolTypes
  <2> QED
    BY <2>1, <2>2, OthersKeepTaken
<1>2. CASE DelThread(w)
  <2>1. UNCHANGED <<tasks, submitted, task, done>>
    BY <1>2 DEF DelThread, clientVars
  <2>2. Running' = Running
    BY <1>2 DEF DelThread, Running, PoolInv, PoolTypes
  <2> QED
    BY <2>1, <2>2, OthersKeepTaken
<1>3. CASE Wake(w)
  <2>1. worker[w] = "wait" /\ UNCHANGED <<submitted, done>>
    BY <1>3 DEF Wake, clientVars
  <2>2. CASE UNCHANGED <<tasks, task>> /\ \E place \in {"ended", "leaving", "loop"} : Goto(w, place)
    <3>1. Running' = Running
      BY <2>1, <2>2 DEF Running, Goto, PoolInv, PoolTypes
    <3> QED
      BY <2>1, <2>2, <3>1, OthersKeepTaken
  <2>3. CASE /\ tasks # <<>> /\ Goto(w, "run") /\ task' = [task EXCEPT ![w] = Head(tasks)]
             /\ tasks' = Tail(tasks)
    BY <2>1, <2>3, TakeKeepsTaken
  <2> QED
    BY <1>3, <2>2, <2>3 DEF Wake
<1> QED
    BY <1>1, <1>2, <1>3, FinishKeepsTaken DEF WorkerStep

LEMMA ClientKeepsTaken ==
    ASSUME PoolInv, TakenInv, Calls \/ ClientGoesOn
    PROVE  TakenInv'
<1>1. CASE Calls \/ SubmitGrows \/ AddThread \/ StopJoins \/ ListRaces \/ WaitTests \/ WaitCompares
  <2>1. UNCHANGED <<tasks, submitted, task, done, worker>>
    BY <1>1 DEF Calls, Start, Starts, Submit, Pause, Resume, Stop, WaitBegins, SubmitGrows,
       SetMinThreadNum, AddThread, StopJoins, ListRaces, WaitTests, WaitCompares, workerVars,
       clientVars
  <2> QED
    BY <2>1, OthersKeepTaken DEF Running
<1>2. CASE CreateThread \/ StopEnds
  <2>1. UNCHANGED <<tasks, submitted, task, done>>
    BY <1>2 DEF CreateThread, StopEnds
  <2>2. Running' = Running
    BY <1>2 DEF CreateThread, StopEnds, Goto, Running, PoolInv, PoolTypes
  <2> QED
    BY <2>1, <2>2, OthersKeepTaken
<1> QED
    BY <1>1, <1>2, SubmitKeepsTaken DEF ClientGoesOn

LEMMA NothingTaken == PoolInit => Taken = 0
<1> SUFFICES ASSUME PoolInit PROVE Taken = 0
    OBVIOUS
<1>1. submitted = 0 /\ Len(tasks) = 0
    BY DEF PoolInit
<1> QED
    BY <1>1 DEF Taken

LEMMA TakenInitially == PoolInit => TakenInv
<1> SUFFICES ASSUME PoolInit PROVE TakenInv
    OBVIOUS
<1>1. /\ tasks = <<>> /\ submitted = 0 /\ done = {} /\ DOMAIN task = Workers
      /\ Running = {}
    BY DEF PoolInit, Running
<1>2. Len(tasks) = 0 /\ tasks \in Seq(Nat)
    BY <1>1
<1>3. Taken = 0
    BY NothingTaken
<1>4. 1..Taken = {}
    BY <1>3
<1> QED
    BY <1>1, <1>2, <1>3, <1>4 DEF TakenInv, TaskTypes, TakenInOrderOnce

LEMMA TakenStepKeeps == PoolInv /\ TakenInv /\ [Next]_vars => TakenInv'
<1> SUFFICES ASSUME PoolInv, TakenInv, [Next]_vars PROVE TakenInv'
    OBVIOUS
<1>1. CASE UNCHANGED poolVars
    BY <1>1, OthersKeepTaken DEF poolVars, workerVars, clientVars, Running
<1> QED
    BY <1>1, ClientKeepsTaken, WorkerKeepsTaken DEF Next, PoolStep, vars

(* The tasks are taken in the order of their submission, each by one worker    *)
(* and once, for any number of tasks, of workers and of starts and stops: what *)
(* a stop leaves in the queue is taken after the next start                    *)
(* (threadpool.cpp:91-114, threadpool.h:84-92).                                *)
THEOREM TasksAreTakenOnce == Spec => []TakenInOrderOnce
<1>1. Init => PoolInv /\ TakenInv
    BY PoolInitially, TakenInitially DEF Init
<1> QED
    BY <1>1, PoolStepKeeps, TakenStepKeeps, PTL DEF Spec, TakenInv

(* What the steps of the pool are to its promise.                              *)
LEMMA WorkerServesQueue ==
    ASSUME PoolInv, TakenInv, NEW w \in Workers, WorkerStep(w)
    PROVE  [Promise!Next]_(Promise!vars)
<1>1. CASE UNCHANGED <<tasks, submitted, done>>
    BY <1>1 DEF Promise!vars, Taken
<1>2. CASE /\ worker[w] = "wait" /\ tasks # <<>> /\ tasks' = Tail(tasks)
           /\ UNCHANGED <<submitted, done>>
  <2>1. Len(tasks) \in Nat \ {0} /\ Len(tasks') = Len(tasks) - 1 /\ submitted \in Nat
    BY <1>2 DEF TakenInv, TaskTypes
  <2>2. Taken < submitted /\ Taken' = Taken + 1
    BY <1>2, <2>1 DEF Taken
  <2>3. Promise!Take
    BY <1>2, <2>2 DEF Promise!Take
  <2> QED
    BY <2>3 DEF Promise!Next
<1>3. CASE Finish(w)
  <2>1. /\ w \in Running /\ done' = done \union {task[w]}
        /\ UNCHANGED <<submitted, tasks>>
    BY <1>3 DEF Finish, Running, clientVars
  <2>2. task[w] \in (1..Taken) \ done /\ Taken' = Taken
    BY <2>1 DEF TakenInv, TakenInOrderOnce, Taken
  <2>3. Promise!End
    BY <2>1, <2>2 DEF Promise!End
  <2> QED
    BY <2>3 DEF Promise!Next
<1>4. CASE ~Finish(w)
    BY <1>1, <1>2, <1>4 DEF WorkerStep, LoopTest, Gate, Wake, DelThreadCounts, DelThread, clientVars
<1> QED
    BY <1>3, <1>4

LEMMA ClientServesQueue ==
    ASSUME TakenInv, Calls \/ ClientGoesOn
    PROVE  [Promise!Next]_(Promise!vars)
<1>1. CASE SubmitPushes
  <2>1. /\ Len(tasks') = Len(tasks) + 1 /\ submitted' = submitted + 1 /\ done' = done
        /\ Len(tasks) \in Nat /\ submitted \in Nat
    BY <1>1 DEF SubmitPushes, workerVars, TakenInv, TaskTypes
  <2>2. Taken' = Taken
    BY <2>1 DEF Taken
  <2>3. Promise!Submit
    BY <2>1, <2>2 DEF Promise!Submit
  <2> QED
    BY <2>3 DEF Promise!Next
<1>2. CASE ~SubmitPushes
  <2>1. UNCHANGED <<tasks, submitted, done>>
    BY <1>2 DEF Calls, Start, Starts, Submit, Pause, Resume, Stop, WaitBegins, ClientGoesOn,
       SetMinThreadNum, SubmitGrows, CreateThread, AddThread, StopJoins, StopEnds, ListRaces,
       WaitTests, WaitCompares, workerVars, clientVars
  <2> QED
    BY <2>1 DEF Promise!vars, Taken
<1> QED
    BY <1>1, <1>2

(* The pool implements the queue of TaskQueue, for any limits and any number   *)
(* of tasks, workers, pauses and stops (threadpool.cpp:91-114,                 *)
(* threadpool.h:84-92).                                                        *)
THEOREM QueueImplemented == Spec => ImplementsQueue
<1>1. Init => PoolInv /\ TakenInv /\ Promise!Init
    BY PoolInitially, TakenInitially, NothingTaken DEF Init, PoolInit, Promise!Init
<1>2. PoolInv /\ TakenInv /\ [Next]_vars => [Promise!Next]_(Promise!vars)
  <2> SUFFICES ASSUME PoolInv, TakenInv, [Next]_vars PROVE [Promise!Next]_(Promise!vars)
    OBVIOUS
  <2>1. CASE UNCHANGED poolVars
    BY <2>1 DEF poolVars, workerVars, clientVars, Promise!vars, Taken
  <2> QED
    BY <2>1, ClientServesQueue, WorkerServesQueue DEF Next, PoolStep, vars
<1> QED
    BY <1>1, <1>2, PoolStepKeeps, TakenStepKeeps, PTL DEF Spec, ImplementsQueue, Promise!Spec

-------------------------------------------------------------------------------
(* The session's handle.                                                       *)

Contents == {Unset, "body", "multipart"}
Names    == {Unset, "GET", "POST", "PUT"} \union Verbs
Datas    == {Unset, "body", "empty"}
Handles  == [method : {"GET", "HEAD", "POST", "MIME"}, nobody : BOOLEAN, custom : Names,
             fields : Datas, size : {Unset, "body", "read"}, mime : BOOLEAN]
Asked    == [verb : {Unset, "DOWNLOAD"} \union Verbs, meddled : BOOLEAN]

(* Where what lies on a handle may come from.                                  *)
Explained(h) ==
    /\ h.fields = "body" \/ h.size = "body" => content = "body" \/ covered
    /\ h.size = "read" => readcb
    /\ h.method = "MIME" /\ h.mime => content # Unset

(* The handle carries the method verb: under its own name or by what libcurl   *)
(* makes of the options, and stays so when a content is put on it once more.   *)
Named(verb, h) ==
    verb \in Verbs =>
        \/ h.custom = verb
        \/ h.custom = Unset /\ verb = "HEAD" /\ h.nobody
        \/ /\ h.custom = Unset /\ verb = "GET" /\ ~h.nobody
           /\ h.method \notin {"POST", "MIME"} /\ content # "body"
        \/ h.custom = Unset /\ verb = "POST" /\ ~h.nobody /\ h.method \in {"POST", "MIME"}
        \/ content = "multipart" /\ verb \in {"GET", "HEAD"}

(* The method has set right what it needs when there is no content.            *)
Clean(verb, h) ==
    content = Unset =>
        /\ verb \in {"GET", "HEAD"} => h.method # "POST"
        /\ verb = "POST" => (h.fields = Unset <=> readcb)
        /\ verb = "PUT" /\ readcb => h.fields = Unset

Ready(verb, h) == Named(verb, h) /\ Clean(verb, h)

(* An interceptor that has not meddled hands on a handle that is ready; methods *)
(* that go by their name keep it in any case.                                  *)
ByName == Verbs \ {"GET", "HEAD", "POST"}
Fits(call, h) ==
    /\ call.verb \in ByName => h.custom = call.verb
    /\ ~call.meddled => Ready(call.verb, h)

(* The content has been put on the handle.                                     *)
Laden(h) ==
    /\ content = "body" => h.method = "POST" /\ h.fields = "body" /\ h.size = "body"
    /\ content = "multipart" => h.method = "MIME" /\ h.mime

HandleTypes ==
    content \in Contents /\ handle \in Handles /\ asked \in Asked
    /\ readcb \in BOOLEAN /\ covered \in BOOLEAN
ReadyInside == chain # <<>> => Fits(asked, handle)
HandleInv   == HandleTypes /\ Explained(handle) /\ ReadyInside /\ SendsWhatWasAsked

(* What the options do to the fields of the handle.                            *)
LEMMA CustomSets ==
    ASSUME NEW h \in Handles, NEW name \in Names
    PROVE  LET g == CUSTOM(h, name)
           IN  /\ g \in Handles /\ g.custom = name
               /\ g.method = h.method /\ g.nobody = h.nobody /\ g.fields = h.fields
               /\ Explained(h) => Explained(g)
BY DEF Handles, CUSTOM, Explained

LEMMA PostfieldsSets ==
    ASSUME NEW h \in Handles, NEW data \in Datas
    PROVE  LET g == POSTFIELDS(h, data)
           IN  /\ g \in Handles /\ g.method = "POST" /\ g.fields = data
               /\ g.nobody = h.nobody /\ g.custom = h.custom /\ g.size = h.size
               /\ Explained(h) /\ data # "body" => Explained(g)
BY DEF Handles, POSTFIELDS, Explained

LEMMA SizeSets ==
    ASSUME NEW h \in Handles, NEW n \in {Unset, "body", "read"}
    PROVE  LET g == POSTFIELDSIZE(h, n)
           IN  /\ g \in Handles /\ g.size = n
               /\ g.method = h.method /\ g.nobody = h.nobody /\ g.custom = h.custom
               /\ g.fields = h.fields /\ g.mime = h.mime
BY DEF Handles, POSTFIELDSIZE

LEMMA MimepostSets ==
    ASSUME NEW h \in Handles
    PROVE  LET g == MIMEPOST(h)
           IN  /\ g \in Handles /\ g.method = "MIME" /\ ~g.nobody /\ g.mime
               /\ g.custom = h.custom
               /\ Explained(h) /\ content # Unset => Explained(g)
BY DEF Handles, MIMEPOST, Explained

LEMMA HttpgetSets ==
    ASSUME NEW h \in Handles
    PROVE  LET g == HTTPGET(h)
           IN  /\ g \in Handles /\ g.method = "GET" /\ ~g.nobody /\ g.custom = h.custom
               /\ Explained(h) => Explained(g)
BY DEF Handles, HTTPGET, Explained

LEMMA NobodySets ==
    ASSUME NEW h \in Handles, NEW on \in BOOLEAN
    PROVE  LET g == NOBODY(h, on)
           IN  /\ g \in Handles /\ g.nobody = on /\ g.custom = h.custom
               /\ on => g.method = "HEAD"
               /\ Explained(h) => Explained(g)
BY DEF Handles, NOBODY, Explained

(* What prepareCommon does to each option.                                     *)
LEMMA CommonSets ==
    ASSUME NEW h \in Handles, content \in Contents, Explained(h)
    PROVE  LET g == prepareCommon(h)
           IN  /\ g \in Handles /\ g.custom = h.custom /\ Explained(g) /\ Laden(g)
               /\ content # "multipart" => g.nobody = h.nobody
               /\ content = "multipart" => ~g.nobody
               /\ content = Unset => g = h
<1> DEFINE g == prepareCommon(h)
<1>1. CASE content = "body"
  <2> DEFINE f == POSTFIELDSIZE(h, "body")
  <2>1. g = POSTFIELDS(f, "body")
    BY <1>1 DEF prepareCommon, prepareBodyPayloadOrMultipart
  <2>2. f \in Handles /\ f.size = "body" /\ f.nobody = h.nobody /\ f.custom = h.custom
    BY SizeSets
  <2> HIDE DEF f, g
  <2>3. /\ g \in Handles /\ g.method = "POST" /\ g.fields = "body" /\ g.size = "body"
        /\ g.nobody = h.nobody /\ g.custom = h.custom
    BY <2>1, <2>2, PostfieldsSets DEF Datas
  <2>4. Explained(g)
    BY <1>1, <2>3 DEF Explained
  <2> QED
    BY <1>1, <2>3, <2>4 DEF g, Laden, Unset
<1>2. CASE content = "multipart"
  <2>1. g = MIMEPOST(h)
    BY <1>2 DEF prepareCommon, prepareBodyPayloadOrMultipart
  <2> HIDE DEF g
  <2> QED
    BY <1>2, <2>1, MimepostSets DEF g, Laden, Unset
<1>3. CASE content = Unset
  BY <1>3 DEF prepareCommon, prepareBodyPayloadOrMultipart, Laden, Unset
<1> QED
  BY <1>1, <1>2, <1>3 DEF Contents

LEMMA CommonStaysReady ==
    ASSUME NEW h \in Handles, content \in Contents, Explained(h), NEW verb, Ready(verb, h)
    PROVE  Ready(verb, prepareCommon(h))
<1> DEFINE g == prepareCommon(h)
<1>1. /\ g \in Handles /\ g.custom = h.custom /\ Laden(g)
      /\ content # "multipart" => g.nobody = h.nobody
      /\ content = "multipart" => ~g.nobody
      /\ content = Unset => g = h
  BY CommonSets
<1> HIDE DEF g
<1>2. Named(verb, g)
  BY <1>1 DEF Ready, Named, Contents, Unset, Laden
<1>3. Clean(verb, g)
  BY <1>1 DEF Ready, Clean
<1> QED
  BY <1>2, <1>3 DEF Ready, g

(* What a method's own preparation has to bring about, whatever is on the      *)
(* handle.                                                                     *)
Prepared(verb, g) ==
    /\ g \in Handles /\ Explained(g) /\ Laden(g) /\ Ready(verb, g)
    /\ verb \in ByName => g.custom = verb

LEMMA GetReady ==
    ASSUME NEW h \in Handles, content \in Contents, Explained(h), "GET" \in Verbs
    PROVE  Prepared("GET", Prepare("GET", h))
<1> DEFINE off == NOBODY(h, FALSE)
           g   == PrepareGet(h)
<1>1. off \in Handles /\ ~off.nobody /\ Explained(off)
  BY NobodySets
<1>2. Prepare("GET", h) = prepareCommon(g)
  BY DEF Prepare
<1>3. CASE content = "body"
  <2>1. g = CUSTOM(off, "GET")
    BY <1>3 DEF PrepareGet, hasBodyOrPayload
  <2>2. g \in Handles /\ g.custom = "GET" /\ Explained(g)
    <3> HIDE DEF off
    <3> QED
      BY <1>1, <2>1, CustomSets DEF Names
  <2> HIDE DEF g
  <2>3. Ready("GET", g)
    BY <1>3, <2>2 DEF Ready, Named, Clean, Unset
  <2> QED
    BY <1>2, <2>2, <2>3, CommonSets, CommonStaysReady DEF Prepared, ByName
<1>4. CASE content # "body"
  <2>1. g = HTTPGET(CUSTOM(off, Unset))
    BY <1>4 DEF PrepareGet, hasBodyOrPayload
  <2>2. g \in Handles /\ g.custom = Unset /\ g.method = "GET" /\ ~g.nobody /\ Explained(g)
    <3> DEFINE f == CUSTOM(off, Unset)
    <3>1. f \in Handles /\ f.custom = Unset /\ Explained(f)
      <4> HIDE DEF off
      <4> QED
        BY <1>1, CustomSets DEF Names
    <3>2. g = HTTPGET(f)
      BY <2>1
    <3> HIDE DEF f, g
    <3> QED
      BY <3>1, <3>2, HttpgetSets
  <2> HIDE DEF g
  <2>3. Ready("GET", g)
    BY <1>4, <2>2 DEF Ready, Named, Clean, Unset
  <2> QED
    BY <1>2, <2>2, <2>3, CommonSets, CommonStaysReady DEF Prepared, ByName
<1> QED
  BY <1>3, <1>4

LEMMA HeadReady ==
    ASSUME NEW h \in Handles, content \in Contents, Explained(h), "HEAD" \in Verbs
    PROVE  Prepared("HEAD", Prepare("HEAD", h))
<1> DEFINE on == NOBODY(h, TRUE)
           g  == CUSTOM(on, Unset)
<1>1. on \in Handles /\ on.nobody /\ on.method = "HEAD" /\ Explained(on)
  BY NobodySets
<1>2. Prepare("HEAD", h) = prepareCommon(g)
  BY DEF Prepare
<1>3. g \in Handles /\ g.nobody /\ g.custom = Unset /\ g.method = "HEAD" /\ Explained(g)
  <2> HIDE DEF on
  <2> QED
    BY <1>1, CustomSets DEF Names
<1> HIDE DEF g
<1>4. Ready("HEAD", g)
  BY <1>3 DEF Ready, Named, Clean, Unset
<1> QED
  BY <1>2, <1>3, <1>4, CommonSets, CommonStaysReady DEF Prepared, ByName

LEMMA PostReady ==
    ASSUME NEW h \in Handles, content \in Contents, Explained(h), "POST" \in Verbs
    PROVE  Prepared("POST", Prepare("POST", h))
<1> DEFINE off == NOBODY(h, FALSE)
           g   == PreparePost(h)
<1>1. off \in Handles /\ ~off.nobody /\ Explained(off)
  BY NobodySets
<1>2. Prepare("POST", h) = prepareCommon(g)
  BY DEF Prepare
<1>3. CASE content = "body"
  <2>1. g = CUSTOM(off, Unset)
    BY <1>3 DEF PreparePost, hasBodyOrPayload
  <2>2. g \in Handles /\ g.custom = Unset /\ ~g.nobody /\ Explained(g)
    <3> HIDE DEF off
    <3> QED
      BY <1>1, <2>1, CustomSets DEF Names
  <2> DEFINE c == prepareCommon(g)
  <2>3. /\ c \in Handles /\ c.custom = Unset /\ ~c.nobody /\ Explained(c) /\ Laden(c)
    <3> HIDE DEF g
    <3> QED
      BY <1>3, <2>2, CommonSets
  <2> HIDE DEF c
  <2>4. Ready("POST", c)
    BY <1>3, <2>3 DEF Ready, Named, Clean, Unset, Laden
  <2> QED
    BY <1>2, <2>3, <2>4 DEF Prepared, ByName, c
<1>4. CASE content # "body"
  <2> DEFINE data == IF readcb THEN Unset ELSE "empty"
             f    == POSTFIELDS(off, data)
  <2>1. g = CUSTOM(f, "POST")
    BY <1>4 DEF PreparePost, hasBodyOrPayload
  <2>2. data \in Datas /\ data # "body" /\ (data = Unset <=> readcb)
    BY DEF Datas, Unset
  <2> HIDE DEF data
  <2>3. f \in Handles /\ f.method = "POST" /\ f.fields = data /\ Explained(f)
    <3> HIDE DEF off
    <3> QED
      BY <1>1, <2>2, PostfieldsSets
  <2>4. /\ g \in Handles /\ g.custom = "POST" /\ g.method = "POST" /\ g.fields = data
        /\ Explained(g)
    <3> HIDE DEF f, g
    <3> QED
      BY <2>1, <2>3, CustomSets DEF Names
  <2> HIDE DEF g
  <2>5. Ready("POST", g)
    BY <2>2, <2>4 DEF Ready, Named, Clean
  <2> QED
    BY <1>2, <2>4, <2>5, CommonSets, CommonStaysReady DEF Prepared, ByName
<1> QED
  BY <1>3, <1>4

LEMMA OtherReady ==
    ASSUME NEW h \in Handles, content \in Contents, Explained(h), NEW verb \in ByName
    PROVE  Prepared(verb, Prepare(verb, h))
<1> DEFINE off == NOBODY(h, FALSE)
<1>1. off \in Handles /\ Explained(off)
  BY NobodySets
<1>2. PICK f \in Handles :
          /\ Prepare(verb, h) = prepareCommon(CUSTOM(f, verb)) /\ Explained(f)
          /\ verb = "PUT" /\ readcb /\ content = Unset => f.fields = Unset
  <2>1. LET f == POSTFIELDS(off, Unset)
        IN  f \in Handles /\ f.fields = Unset /\ Explained(f)
    <3> HIDE DEF off
    <3> QED
      BY <1>1, PostfieldsSets DEF Datas, Unset
  <2>2. CASE verb = "PUT" /\ readcb /\ content # "body"
    BY <2>1, <2>2 DEF Prepare, PreparePut, hasBodyOrPayload
  <2>3. CASE verb = "PUT" /\ ~(readcb /\ content # "body")
    BY <1>1, <2>3 DEF Prepare, PreparePut, hasBodyOrPayload, Unset
  <2>4. CASE verb # "PUT"
    BY <1>1, <2>4 DEF Prepare, ByName
  <2> QED
    BY <2>2, <2>3, <2>4
<1> DEFINE g == CUSTOM(f, verb)
<1>3. /\ g \in Handles /\ g.custom = verb /\ g.fields = f.fields /\ Explained(g)
  BY <1>2, CustomSets DEF Names, ByName
<1> HIDE DEF g
<1>4. Ready(verb, g)
  BY <1>2, <1>3 DEF Ready, Named, Clean, ByName
<1> QED
  BY <1>2, <1>3, <1>4, CommonSets, CommonStaysReady DEF Prepared, g

LEMMA PrepareReady ==
    ASSUME NEW h \in Handles, content \in Contents, Explained(h), NEW verb \in Verbs
    PROVE  Prepared(verb, Prepare(verb, h))
BY GetReady, HeadReady, PostReady, OtherReady DEF ByName

(* A handle that carries the content and is ready sends what was asked.        *)
LEMMA ReadyHasMethod ==
    ASSUME NEW call \in Asked, NEW h \in Handles, Fits(call, h), call.verb \in Verbs
    PROVE  \/ Wire(h).name = call.verb
           \/ /\ content = "multipart" \/ call.meddled
              /\ call.verb \in {"GET", "HEAD"}
           \/ call.meddled /\ call.verb = "POST"
<1>1. CASE call.verb \in ByName
  BY <1>1, SessionAssumption DEF Fits, Wire, Unset
<1>2. CASE call.verb \notin ByName /\ ~call.meddled
  BY <1>2, SessionAssumption DEF Fits, Ready, Named, Wire, Unset
<1>3. CASE call.verb \notin ByName /\ call.meddled
  BY <1>3 DEF ByName
<1> QED
  BY <1>1, <1>2, <1>3

LEMMA ReadyHasBody ==
    ASSUME NEW call \in Asked, NEW h \in Handles, content \in Contents,
           readcb \in BOOLEAN, covered \in BOOLEAN,
           Explained(h), Laden(h), Fits(call, h)
    PROVE  LET body == Wire(h).body
               spared(verbs) == call.verb \in verbs /\ ~call.meddled
           IN  \/ body = content
               \/ /\ content = Unset
                  /\ \/ body = "empty" \/ (body = "read" /\ readcb)
                     \/ covered /\ ~spared({"GET", "HEAD"})
                     \/ readcb /\ ~spared({"GET", "HEAD", "POST", "PUT"})
                     \/ body = "read" /\ ~spared({"GET", "HEAD", "POST"})
<1>1. CASE content = "body"
  <2>1. Wire(h).body = Posted(h) /\ Posted(h) = "body"
    BY <1>1 DEF Laden, Wire, Posted, Unset
  <2> QED
    BY <1>1, <2>1
<1>2. CASE content = "multipart"
  BY <1>2 DEF Laden, Wire
<1>3. CASE content = Unset /\ h.method # "POST"
  <2>1. Wire(h).body = Unset
    BY <1>3 DEF Wire, Explained
  <2> QED
    BY <1>3, <2>1
<1>4. CASE content = Unset /\ h.method = "POST"
  <2>1. Wire(h).body = Posted(h)
    BY <1>4 DEF Wire
  <2>2. ~call.meddled => call.verb \notin {"GET", "HEAD"} /\ Clean(call.verb, h)
    BY <1>4 DEF Fits, Ready, Clean
  <2>3. CASE h.fields = Unset
    <3>1. Posted(h) = "read"
      BY <2>3 DEF Posted
    <3> QED
      BY <1>4, <2>1, <2>2, <2>3, <3>1 DEF Clean
  <2>4. CASE h.fields = "body"
    <3>1. covered
      BY <1>4, <2>4 DEF Explained, Unset
    <3> QED
      BY <1>4, <2>2, <3>1
  <2>5. CASE h.fields = "empty"
    <3>1. h.size = Unset => Posted(h) = "empty"
      BY <2>5 DEF Posted, Unset
    <3>2. h.size = "body" => covered
      BY <1>4 DEF Explained, Unset
    <3>3. h.size = "read" => readcb /\ (~call.meddled => call.verb \notin {"POST", "PUT"})
      BY <1>4, <2>2, <2>5 DEF Explained, Clean, Unset
    <3>4. h.size \in {Unset, "body", "read"}
      BY DEF Handles
    <3> QED
      BY <1>4, <2>1, <2>2, <3>1, <3>2, <3>3, <3>4
  <2> QED
    BY <2>3, <2>4, <2>5 DEF Handles, Datas
<1> QED
  BY <1>1, <1>2, <1>3, <1>4 DEF Contents

(* A request, sent or handed to the next interceptor, by a handle that is ready. *)
LEMMA RequestKeepsHandle ==
    ASSUME HandleInv, NEW call \in Asked, Request(call),
           handle' \in Handles, UNCHANGED optionVars,
           Explained(handle'), Fits(call, handle'), call.verb \in Verbs => Laden(handle')
    PROVE  HandleInv'
<1> USE DEF HandleInv, HandleTypes
<1>1. NoCall \in Asked
  BY DEF NoCall, AskedFor, Asked
<1>2. asked' \in {NoCall, call} /\ (chain' # <<>> => asked' = call)
  BY DEF Request
<1>3. UNCHANGED <<content, readcb, covered>>
  BY DEF optionVars
<1>4. HandleTypes' /\ Explained(handle)'
  BY <1>1, <1>2, <1>3 DEF Explained
<1>5. ReadyInside'
  BY <1>2, <1>3 DEF ReadyInside, Fits, Ready, Named, Clean
<1>6. SendsWhatWasAsked'
  <2>1. CASE sent' = NoRequest
    <3>1. sent'.asked.verb = Unset
      BY <2>1 DEF NoRequest, NoCall, AskedFor
    <3> QED
      BY <3>1, SessionAssumption DEF SendsWhatWasAsked, MethodAsAsked, BodyAsAsked, Unset
  <2>2. CASE sent' # NoRequest
    <3>1. /\ sent'.asked = call /\ sent'.name = Wire(handle').name
          /\ sent'.body = Wire(handle').body /\ sent'.held = content
      BY <2>2 DEF Request
    <3>2. CASE call.verb \notin Verbs
      BY <3>1, <3>2 DEF SendsWhatWasAsked, MethodAsAsked, BodyAsAsked
    <3>3. CASE call.verb \in Verbs
      <4>1. MethodAsAsked'
        BY <3>1, <3>3, ReadyHasMethod DEF MethodAsAsked
      <4>2. BodyAsAsked'
        BY <1>3, <3>1, <3>3, ReadyHasBody DEF BodyAsAsked, Spared
      <4> QED
        BY <4>1, <4>2 DEF SendsWhatWasAsked
    <3> QED
      BY <3>2, <3>3
  <2> QED
    BY <2>1, <2>2
<1> QED
  BY <1>4, <1>5, <1>6

(* The calls that make requests.                                               *)
LEMMA CallsKeepHandle ==
    ASSUME HandleInv,
           \/ \E verb \in Verbs : Call(verb)
           \/ Download \/ proceed
    PROVE  HandleInv'
<1> USE DEF HandleInv, HandleTypes
<1>1. ASSUME NEW verb \in Verbs, Call(verb) PROVE HandleInv'
  <2> DEFINE call == AskedFor(verb)
  <2>1. call \in Asked /\ call.verb = verb
    BY DEF AskedFor, Asked
  <2>2. handle' = Prepare(verb, handle) /\ Request(call) /\ UNCHANGED optionVars
    BY <1>1 DEF Call
  <2> HIDE DEF call
  <2>3. Prepared(verb, handle')
    BY <2>2, PrepareReady
  <2>4. Fits(call, handle')
    BY <2>1, <2>3 DEF Prepared, Fits
  <2> QED
    BY <2>1, <2>2, <2>3, <2>4, RequestKeepsHandle DEF Prepared
<1>2. CASE Download
  <2> DEFINE call == AskedFor("DOWNLOAD")
             n == NOBODY(handle, FALSE)
             c == CUSTOM(n, Unset)
  <2>1. call \in Asked /\ call.verb = "DOWNLOAD"
    BY DEF AskedFor, Asked
  <2>2. handle' = HTTPGET(c) /\ Request(call) /\ UNCHANGED optionVars
    BY <1>2 DEF Download
  <2>3. n \in Handles /\ Explained(n)
    BY NobodySets
  <2> HIDE DEF call, n
  <2>4. c \in Handles /\ Explained(c)
    BY <2>3, CustomSets DEF Names
  <2> HIDE DEF c
  <2>5. handle' \in Handles /\ Explained(handle')
    BY <2>2, <2>4, HttpgetSets
  <2>6. call.verb \notin Verbs /\ call.verb \notin {"GET", "HEAD", "POST", "PUT"}
    BY <2>1, SessionAssumption DEF Unset
  <2>7. Fits(call, handle')
    BY <2>6 DEF Fits, ByName, Ready, Named, Clean
  <2> QED
    BY <2>1, <2>2, <2>5, <2>6, <2>7, RequestKeepsHandle
<1>3. CASE proceed
  <2>1. /\ chain # <<>> /\ handle' = prepareCommon(handle)
        /\ Request(asked) /\ UNCHANGED optionVars
    BY <1>3 DEF proceed
  <2>2. /\ handle' \in Handles /\ Explained(handle') /\ Laden(handle')
        /\ handle'.custom = handle.custom
    BY <2>1, CommonSets
  <2>3. Fits(asked, handle')
    <3>1. Fits(asked, handle)
      BY <2>1 DEF ReadyInside
    <3>2. Ready(asked.verb, handle) => Ready(asked.verb, handle')
      BY <2>1, CommonStaysReady
    <3> QED
      BY <2>2, <3>1, <3>2 DEF Fits
  <2> QED
    BY <2>1, <2>2, <2>3, RequestKeepsHandle
<1> QED
  BY <1>1, <1>2, <1>3

(* A step that sends nothing asked for keeps the handle ready, or notes that   *)
(* an interceptor has meddled with what there was to send.                     *)
LEMMA OptionsKeepHandle ==
    ASSUME HandleInv,
           \/ \E kind \in {"body", "multipart"} : SetContent(kind)
           \/ RemoveContent \/ SetReadCallback \/ AddInterceptor
           \/ interceptReturns \/ interceptThrows \/ GetDownloadFileLength
    PROVE  HandleInv'
<1> USE DEF HandleInv, HandleTypes
<1>1. SendsWhatWasAsked'
  <2>1. sent'.asked.verb \in {Unset, "LENGTH"}
    <3>1. CASE GetDownloadFileLength
      <4>1. sent'.asked = AskedFor("LENGTH")
        BY <3>1 DEF GetDownloadFileLength
      <4> QED
        BY <4>1 DEF AskedFor
    <3>2. CASE ~GetDownloadFileLength
      <4>1. sent' = NoRequest
        BY <3>2 DEF SetContent, RemoveContent, SetReadCallback,
           AddInterceptor, interceptReturns, interceptThrows
      <4> QED
        BY <4>1 DEF NoRequest, NoCall, AskedFor
    <3> QED
      BY <3>1, <3>2
  <2> QED
    BY <2>1, SessionAssumption DEF SendsWhatWasAsked, MethodAsAsked, BodyAsAsked, Unset
<1>2. CASE \/ \E kind \in {"body", "multipart"} : SetContent(kind)
           \/ RemoveContent \/ SetReadCallback \/ GetDownloadFileLength
  <2>1. chain' = chain /\ asked' = [asked EXCEPT !.meddled = chain # <<>>]
    BY <1>2 DEF SetContent, RemoveContent, SetReadCallback, GetDownloadFileLength, Meddles, chainVars
  <2>2. /\ asked' \in Asked /\ asked'.verb = asked.verb
        /\ chain' # <<>> => asked'.meddled
    BY <2>1 DEF Asked
  <2>3. /\ content' \in Contents /\ readcb' \in BOOLEAN /\ covered' \in BOOLEAN
        /\ handle' \in Handles /\ handle'.custom = handle.custom /\ Explained(handle)'
    <3>1. ASSUME NEW kind \in {"body", "multipart"}, SetContent(kind)
          PROVE  /\ content' \in Contents /\ readcb' \in BOOLEAN /\ covered' \in BOOLEAN
                 /\ handle' = handle /\ Explained(handle)'
      <4>1. /\ content' = kind /\ UNCHANGED <<readcb, handle>>
            /\ covered' = (kind = "multipart" /\ (covered \/ content = "body"))
        BY <3>1 DEF SetContent
      <4> QED
        BY <4>1 DEF Contents, Explained, Unset
    <3>2. CASE RemoveContent
      <4>1. content' = Unset /\ UNCHANGED <<readcb, covered>>
        BY <3>2 DEF RemoveContent
      <4>2. CASE content = "body"
        <5> DEFINE f == POSTFIELDSIZE(handle, Unset)
        <5>1. handle' = POSTFIELDS(f, Unset)
          BY <3>2, <4>2 DEF RemoveContent, Emptied
        <5>2. f \in Handles /\ f.size = Unset /\ f.custom = handle.custom
          BY SizeSets
        <5> HIDE DEF f
        <5>3. /\ handle' \in Handles /\ handle'.method = "POST" /\ handle'.fields = Unset
              /\ handle'.size = Unset /\ handle'.custom = handle.custom
          BY <5>1, <5>2, PostfieldsSets DEF Datas
        <5> QED
          BY <4>1, <5>3 DEF Contents, Explained, Unset
      <4>3. CASE content = "multipart"
        <5>1. handle' = [handle EXCEPT !.mime = FALSE]
          BY <3>2, <4>3 DEF RemoveContent
        <5>2. /\ handle' \in Handles /\ ~handle'.mime /\ handle'.fields = handle.fields
              /\ handle'.size = handle.size /\ handle'.custom = handle.custom
          BY <5>1 DEF Handles
        <5> QED
          BY <4>1, <4>3, <5>2 DEF Contents, Explained, Unset
      <4>4. CASE content = Unset
        <5>1. handle' = handle
          BY <3>2, <4>4 DEF RemoveContent, Unset
        <5> QED
          BY <4>1, <4>4, <5>1 DEF Contents, Explained
      <4> QED
        BY <4>2, <4>3, <4>4 DEF Contents
    <3>3. CASE SetReadCallback
      <4>1. readcb' = TRUE /\ UNCHANGED <<content, covered>>
        BY <3>3 DEF SetReadCallback, chainVars
      <4>2. PICK n \in {Unset, "read"}, data \in {handle.fields, Unset} :
                handle' = [POSTFIELDSIZE(handle, n) EXCEPT !.fields = data]
        BY <3>3 DEF SetReadCallback
      <4> DEFINE f == POSTFIELDSIZE(handle, n)
      <4>3. /\ f \in Handles /\ f.size = n /\ f.method = handle.method
            /\ f.custom = handle.custom /\ f.mime = handle.mime
        BY SizeSets
      <4>4. handle' = [f EXCEPT !.fields = data]
        BY <4>2
      <4>5. data \in Datas
        BY DEF Handles, Datas
      <4> HIDE DEF f
      <4>6. /\ handle' \in Handles /\ handle'.size = n /\ handle'.fields = data
            /\ handle'.method = handle.method /\ handle'.custom = handle.custom
            /\ handle'.mime = handle.mime
        BY <4>3, <4>4, <4>5 DEF Handles
      <4> QED
        BY <4>1, <4>6 DEF Explained, Unset
    <3>4. CASE GetDownloadFileLength
      <4> DEFINE f == HTTPGET(handle)
      <4>1. handle' = NOBODY(f, TRUE) /\ UNCHANGED <<content, readcb, covered>>
        BY <3>4 DEF GetDownloadFileLength, optionVars
      <4>2. f \in Handles /\ Explained(f) /\ f.custom = handle.custom
        BY HttpgetSets
      <4> HIDE DEF f
      <4>3. handle' \in Handles /\ Explained(handle') /\ handle'.custom = handle.custom
        BY <4>1, <4>2, NobodySets
      <4> QED
        BY <4>1, <4>3 DEF Explained
    <3> QED
      BY <1>2, <3>1, <3>2, <3>3, <3>4
  <2>4. ReadyInside'
    BY <2>1, <2>2, <2>3 DEF ReadyInside, Fits
  <2> QED
    BY <1>1, <2>2, <2>3, <2>4
<1>3. CASE AddInterceptor \/ interceptReturns \/ interceptThrows
  <2>1. /\ UNCHANGED <<optionVars, handle>> /\ asked' \in {asked, NoCall}
        /\ chain' # <<>> => chain # <<>> /\ asked' = asked
    BY <1>3, EmptySeq DEF AddInterceptor, interceptReturns, interceptThrows
  <2>2. asked' \in Asked
    <3>1. NoCall \in Asked
      BY DEF NoCall, AskedFor, Asked
    <3> QED
      BY <2>1, <3>1
  <2>3. UNCHANGED <<content, readcb, covered, handle>>
    BY <2>1 DEF optionVars
  <2>4. ReadyInside' /\ Explained(handle)'
    BY <2>1, <2>3 DEF ReadyInside, Fits, Ready, Named, Clean, Explained
  <2> QED
    BY <1>1, <2>2, <2>3, <2>4
<1> QED
  BY <1>2, <1>3

LEMMA SessionInitially == SessionInit => HandleInv
<1> SUFFICES ASSUME SessionInit PROVE HandleInv
  OBVIOUS
<1>1. handle \in Handles /\ Explained(handle)
  BY DEF SessionInit, Handles, Names, Datas, Explained, Unset
<1>2. asked \in Asked /\ content \in Contents /\ readcb \in BOOLEAN /\ covered \in BOOLEAN
  BY DEF SessionInit, NoCall, AskedFor, Asked, Contents, Unset
<1>3. sent.asked.verb = Unset /\ chain = <<>>
  BY DEF SessionInit, NoRequest, NoCall, AskedFor
<1> QED
  BY <1>1, <1>2, <1>3, SessionAssumption
  DEF HandleInv, HandleTypes, ReadyInside, SendsWhatWasAsked, MethodAsAsked, BodyAsAsked, Unset

LEMMA SessionStepKeeps == HandleInv /\ [Next]_vars => HandleInv'
<1> SUFFICES ASSUME HandleInv, [Next]_vars PROVE HandleInv'
  OBVIOUS
<1>1. CASE UNCHANGED sessionVars
  BY <1>1 DEF sessionVars, HandleInv, HandleTypes, Explained, ReadyInside, Fits, Ready, Named,
     Clean, SendsWhatWasAsked, MethodAsAsked, BodyAsAsked, Spared
<1>2. CASE SessionNext
  BY <1>2, CallsKeepHandle, OptionsKeepHandle DEF SessionNext
<1> QED
  BY <1>1, <1>2 DEF Next, PoolStep, vars

(* Whatever one handle served before, through any number of interceptors that  *)
(* answer, repeat, meddle or throw, a request carries the method that was      *)
(* called and the content that the session holds, but for the cases that       *)
(* MethodAsAsked and BodyAsAsked name (session.cpp:836-901, 982-1044).         *)
THEOREM SendsAsAsked == Spec => []SendsWhatWasAsked
<1>1. Init => HandleInv
  BY SessionInitially DEF Init
<1>2. HandleInv => SendsWhatWasAsked
  BY DEF HandleInv
<1> QED
  BY <1>1, SessionStepKeeps, <1>2, PTL DEF Spec

-------------------------------------------------------------------------------
(* The chain of interceptors, as long as each of them does its part.           *)

Links == [icpt : Nat, called : BOOLEAN]

(* The open calls are those of the first interceptors, in their order, each of *)
(* which but perhaps the last has handed the request on.                       *)
InOrderOpen ==
    /\ interceptors \in Nat /\ chain \in Seq(Links) /\ Len(chain) <= interceptors
    /\ \A i \in 1..Len(chain) : chain[i].icpt = i /\ (i < Len(chain) => chain[i].called)

(* Behind them, whether for the first time or again, comes the next one.       *)
AtTheirEnd ==
    /\ first = IF Len(chain) = interceptors THEN End ELSE Len(chain) + 1
    /\ current = IF chain # <<>> /\ ~chain[Len(chain)].called THEN Len(chain) ELSE End

(* And whoever sent a request had it pass by none.                              *)
Complete == sent.through = [i \in 1..sent.added |-> i]

Ordered  == InOrderOpen /\ AtTheirEnd /\ Complete
ChainInv == orderly => Ordered

LEMMA NobodyAsked == <<>> = [i \in 1..0 |-> i]
  OBVIOUS

LEMMA UpcomingIsNext ==
    ASSUME Ordered
    PROVE  Upcoming = IF Len(chain) = interceptors THEN End ELSE Len(chain) + 1
<1>1. Len(chain) \in Nat /\ (chain = <<>> => Len(chain) = 0)
  BY LenProperties DEF Ordered, InOrderOpen
<1>2. CASE current = End
  BY <1>1, <1>2 DEF Ordered, AtTheirEnd, Upcoming
<1>3. CASE current # End
  BY <1>1, <1>3 DEF Ordered, AtTheirEnd, Upcoming, After
<1> QED
  BY <1>2, <1>3

LEMMA RequestKeepsChain ==
    ASSUME Ordered, NEW call, Request(call)
    PROVE  Ordered'
<1> DEFINE n    == Len(chain)
           open == IF chain = <<>> THEN <<>> ELSE [chain EXCEPT ![Len(chain)].called = TRUE]
<1>1. /\ chain \in Seq(Links) /\ n \in Nat /\ interceptors \in Nat /\ n <= interceptors
      /\ \A i \in 1..n : chain[i].icpt = i /\ chain[i] \in Links /\ (i < n => chain[i].called)
      /\ chain # <<>> => n \in 1..n
      /\ chain = <<>> => n = 0
  <2>1. \A i \in 1..n : chain[i] \in Links
    BY ElementOfSeq DEF Ordered, InOrderOpen
  <2>2. n \in Nat /\ (chain # <<>> => n \in Nat \ {0}) /\ (chain = <<>> => n = 0)
    BY LenProperties, EmptySeq DEF Ordered, InOrderOpen
  <2> QED
    BY <2>1, <2>2 DEF Ordered, InOrderOpen
<1>2. /\ open \in Seq(Links) /\ Len(open) = n
      /\ \A i \in 1..n : open[i].icpt = i /\ open[i].called
  <2>1. CASE chain = <<>>
    BY <1>1, <2>1, EmptySeq
  <2>2. CASE chain # <<>>
    <3> DEFINE l == [chain[n] EXCEPT !.called = TRUE]
    <3>1. l \in Links /\ l.icpt = n /\ l.called /\ open = [chain EXCEPT ![n] = l]
      BY <1>1, <2>2 DEF Links
    <3> HIDE DEF l, open
    <3> QED
      BY <1>1, <2>2, <3>1, ExceptSeq
  <2> QED
    BY <2>1, <2>2
<1>3. /\ current' = IF n = interceptors THEN End ELSE n + 1
      /\ interceptors' = interceptors
  BY UpcomingIsNext DEF Request
<1>4. CASE n # interceptors
  <2> DEFINE l == [icpt |-> n + 1, called |-> FALSE]
  <2>1. current' = n + 1 /\ current' # End
    BY <1>1, <1>3, <1>4 DEF End
  <2>2. /\ first' = After(n + 1) /\ chain' = Append(open, l)
        /\ sent' = NoRequest
    BY <2>1 DEF Request
  <2>3. l \in Links /\ l.icpt = n + 1 /\ ~l.called
    BY <1>1 DEF Links
  <2> HIDE DEF open, l
  <2>4. /\ chain' \in Seq(Links) /\ Len(chain') = n + 1
        /\ \A i \in 1..n : chain'[i] = open[i]
        /\ chain'[n + 1] = l
    BY <1>1, <1>2, <2>2, <2>3, AppendProperties
  <2>5. InOrderOpen'
    BY <1>1, <1>2, <1>3, <1>4, <2>3, <2>4 DEF InOrderOpen
  <2>6. chain' # <<>>
    BY <1>1, <2>4, EmptySeq
  <2>7. AtTheirEnd'
    BY <1>1, <1>3, <2>1, <2>2, <2>3, <2>4, <2>6 DEF AtTheirEnd, After
  <2>8. Complete'
    <3>1. sent'.through = <<>> /\ sent'.added = 0
      BY <2>2 DEF NoRequest
    <3> QED
      BY <3>1, NobodyAsked DEF Complete
  <2> QED
    BY <2>5, <2>7, <2>8 DEF Ordered
<1>5. CASE n = interceptors
  <2>1. current' = End
    BY <1>3, <1>5
  <2>2. /\ first' = first /\ chain' = open
        /\ sent'.through = Through /\ sent'.added = interceptors
    BY <2>1 DEF Request
  <2> HIDE DEF open
  <2>3. InOrderOpen'
    BY <1>1, <1>2, <1>3, <2>2 DEF InOrderOpen
  <2>4. AtTheirEnd'
    <3>1. chain' # <<>> => chain'[Len(chain')].called
      BY <1>1, <1>2, <2>2, EmptySeq
    <3> QED
      BY <1>1, <1>2, <1>3, <1>5, <2>1, <2>2, <3>1 DEF Ordered, AtTheirEnd
  <2>5. Through = [i \in 1..interceptors |-> i]
    <3>1. DOMAIN chain = 1..interceptors
      BY <1>1, <1>5, LenProperties
    <3> QED
      BY <1>1, <1>5, <3>1 DEF Through
  <2>6. Complete'
    BY <2>2, <2>5 DEF Complete
  <2> QED
    BY <2>3, <2>4, <2>6 DEF Ordered
<1> QED
  BY <1>4, <1>5

LEMMA ReturnKeepsChain ==
    ASSUME Ordered, interceptReturns, orderly'
    PROVE  Ordered'
<1> DEFINE n == Len(chain)
<1>1. /\ chain \in Seq(Links) /\ n \in Nat \ {0} /\ interceptors \in Nat /\ n <= interceptors
      /\ \A i \in 1..n : chain[i].icpt = i /\ (i < n => chain[i].called)
  BY EmptySeq DEF Ordered, InOrderOpen, interceptReturns
<1>2. /\ chain[n].called /\ first' = n /\ chain' = SubSeq(chain, 1, n - 1)
      /\ UNCHANGED <<interceptors, current>> /\ sent' = NoRequest
  <2>1. Last(chain).called
    BY DEF interceptReturns
  <2>2. Last(chain) = chain[n]
    BY DEF Last
  <2> QED
    BY <1>1, <2>1, <2>2 DEF interceptReturns, Front, Restored
<1>3. /\ chain' \in Seq(Links) /\ Len(chain') = n - 1
      /\ \A i \in 1..(n - 1) : chain'[i] = chain[i]
  <2>1. \A i \in 1..(n - 1) : chain[i] \in Links
    BY <1>1, ElementOfSeq
  <2> HIDE DEF n
  <2> QED
    BY <1>1, <1>2, <2>1, SubSeqProperties
<1>4. InOrderOpen'
  BY <1>1, <1>2, <1>3 DEF InOrderOpen
<1>5. AtTheirEnd'
  <2>1. chain' # <<>> => n - 1 \in 1..(n - 1)
    BY <1>1, <1>3, EmptySeq
  <2>2. chain' # <<>> => chain'[n - 1].called
    BY <1>1, <1>3, <2>1
  <2>3. current' = End
    BY <1>2 DEF Ordered, AtTheirEnd
  <2> QED
    BY <1>1, <1>2, <1>3, <2>2, <2>3 DEF AtTheirEnd
<1>6. Complete'
  <2>1. sent'.through = <<>> /\ sent'.added = 0
    BY <1>2 DEF NoRequest
  <2> QED
    BY <2>1, NobodyAsked DEF Complete
<1> QED
  BY <1>4, <1>5, <1>6 DEF Ordered

(* The steps that open no call and close none.                                 *)
LEMMA OptionsKeepChain ==
    ASSUME Ordered,
           \/ \E kind \in {"body", "multipart"} : SetContent(kind)
           \/ RemoveContent \/ SetReadCallback \/ AddInterceptor
           \/ GetDownloadFileLength,
           orderly'
    PROVE  Ordered'
<1>1. Complete'
  <2>1. sent'.through = <<>> /\ sent'.added = 0
    <3>1. CASE GetDownloadFileLength
      BY <3>1 DEF GetDownloadFileLength
    <3>2. CASE ~GetDownloadFileLength
      <4>1. sent' = NoRequest
        BY <3>2 DEF SetContent, RemoveContent, SetReadCallback, AddInterceptor
      <4> QED
        BY <4>1 DEF NoRequest
    <3> QED
      BY <3>1, <3>2
  <2> QED
    BY <2>1, NobodyAsked DEF Complete
<1>2. CASE AddInterceptor
  <2>1. /\ chain = <<>> /\ chain' = <<>> /\ current = End /\ current' = End
        /\ interceptors' = interceptors + 1 /\ first' = 1
    BY <1>2 DEF AddInterceptor
  <2>2. interceptors \in Nat /\ <<>> \in Seq(Links) /\ Len(<<>>) = 0
    BY EmptySeq DEF Ordered, InOrderOpen
  <2> QED
    BY <1>1, <2>1, <2>2 DEF Ordered, InOrderOpen, AtTheirEnd
<1>3. CASE UNCHANGED chainVars
  BY <1>1, <1>3 DEF chainVars, Ordered, InOrderOpen, AtTheirEnd
<1> QED
  BY <1>2, <1>3 DEF SetContent, RemoveContent, SetReadCallback,
     GetDownloadFileLength

LEMMA ChainInitially == SessionInit => ChainInv
<1> SUFFICES ASSUME SessionInit PROVE Ordered
  BY DEF ChainInv
<1>1. /\ interceptors = 0 /\ chain = <<>> /\ current = End /\ first = End
      /\ sent.through = <<>> /\ sent.added = 0
  BY DEF SessionInit, NoRequest
<1>2. chain \in Seq(Links) /\ Len(chain) = 0
  BY <1>1, EmptySeq
<1> QED
  BY <1>1, <1>2, NobodyAsked DEF Ordered, InOrderOpen, AtTheirEnd, Complete

(* Once an interceptor has not done its part nothing is claimed any more.      *)
LEMMA ChainStepKeeps == ChainInv /\ [Next]_vars => ChainInv'
<1> SUFFICES ASSUME ChainInv, [Next]_vars, orderly' PROVE Ordered'
  BY DEF ChainInv
<1>1. CASE UNCHANGED sessionVars
  BY <1>1 DEF sessionVars, ChainInv, Ordered, InOrderOpen, AtTheirEnd, Complete
<1>2. CASE SessionNext
  <2>1. ~interceptThrows /\ Ordered
    BY <1>2 DEF ChainInv, SessionNext, SetContent, RemoveContent, SetReadCallback, AddInterceptor,
       Call, Download, proceed, interceptReturns, interceptThrows, GetDownloadFileLength, Request,
       chainVars
  <2> QED
    BY <1>2, <2>1, RequestKeepsChain, ReturnKeepsChain, OptionsKeepChain
    DEF SessionNext, Call, Download, proceed
<1> QED
  BY <1>1, <1>2 DEF Next, PoolStep, vars

(* As long as every interceptor has handed its requests on, however often, has *)
(* thrown nothing and added no other, no request passes by one of them, and    *)
(* each comes to them in their order (session.cpp:948-980, interceptor.cpp).   *)
THEOREM NoneIsPassedBy == Spec => []AllAreAsked
<1>1. Init => ChainInv
  BY ChainInitially DEF Init
<1>2. ChainInv /\ [Next]_vars => ChainInv'
  BY ChainStepKeeps
<1>3. ChainInv => AllAreAsked
  BY DEF ChainInv, Ordered, Complete, AllAreAsked
<1> QED
  BY <1>1, <1>2, <1>3, PTL DEF Spec

-------------------------------------------------------------------------------
(* The session's types, and where its iterators point, whatever interceptors do. *)

OpenCalls(n) == [icpt : 1 .. n, called : BOOLEAN]

IteratorsValid ==
    /\ orderly \in BOOLEAN /\ interceptors \in 0 .. Interceptors
    /\ current \in 0 .. interceptors /\ first \in 0 .. interceptors
    /\ chain \in Seq(OpenCalls(interceptors))

LEMMA RequestKeepsIterators ==
    ASSUME IteratorsValid, NEW call, Request(call)
    PROVE  IteratorsValid'
<1> DEFINE n    == Len(chain)
           S    == OpenCalls(interceptors)
           open == IF chain = <<>> THEN <<>> ELSE [chain EXCEPT ![Len(chain)].called = TRUE]
<1>1. /\ interceptors \in Nat /\ interceptors \in 0 .. Interceptors
      /\ current \in 0 .. interceptors /\ first \in 0 .. interceptors
      /\ chain \in Seq(S) /\ n \in Nat /\ (chain # <<>> => n \in 1 .. n)
  BY SessionAssumption, LenProperties, EmptySeq DEF IteratorsValid
<1>2. open \in Seq(S)
  <2>1. CASE chain = <<>>
    BY <2>1, EmptySeq
  <2>2. CASE chain # <<>>
    <3> DEFINE l == [chain[n] EXCEPT !.called = TRUE]
    <3>1. chain[n] \in S
      BY <1>1, <2>2, ElementOfSeq
    <3>2. l \in S /\ open = [chain EXCEPT ![n] = l]
      BY <2>2, <3>1 DEF OpenCalls
    <3> HIDE DEF l, open, S
    <3> QED
      BY <1>1, <2>2, <3>2, ExceptSeq
  <2> QED
    BY <2>1, <2>2
<1>3. /\ current' = Upcoming /\ interceptors' = interceptors /\ orderly' = orderly
      /\ \/ current' # End /\ first' = After(current') /\ chain' = Append(open, [icpt |-> current', called |-> FALSE])
         \/ current' = End /\ first' = first /\ chain' = open
  BY DEF Request
<1>4. current' \in 0 .. interceptors
  BY <1>1, <1>3 DEF Upcoming, After, End
<1>5. first' \in 0 .. interceptors
  BY <1>1, <1>3, <1>4 DEF After, End
<1>6. chain' \in Seq(S)
  <2>1. CASE current' # End
    <3> DEFINE l == [icpt |-> current', called |-> FALSE]
    <3>1. l \in S
      BY <1>1, <1>4, <2>1 DEF OpenCalls, End
    <3> HIDE DEF l, S, open
    <3>2. chain' = Append(open, l)
      BY <1>3, <2>1 DEF l
    <3> QED
      BY <1>2, <3>1, <3>2, AppendProperties
  <2>2. CASE current' = End
    BY <1>2, <1>3, <2>2
  <2> QED
    BY <2>1, <2>2
<1> QED
  BY <1>1, <1>3, <1>4, <1>5, <1>6 DEF IteratorsValid

LEMMA OthersKeepIterators ==
    ASSUME IteratorsValid,
           \/ \E kind \in {"body", "multipart"} : SetContent(kind)
           \/ RemoveContent \/ SetReadCallback \/ AddInterceptor
           \/ interceptReturns \/ interceptThrows \/ GetDownloadFileLength
    PROVE  IteratorsValid'
<1> DEFINE n == Len(chain)
           S == OpenCalls(interceptors)
<1>1. chain \in Seq(S) /\ n \in Nat /\ \A i \in 1 .. n : chain[i] \in S
  BY LenProperties, ElementOfSeq DEF IteratorsValid
<1>2. ASSUME NEW k \in 0 .. n PROVE SubSeq(chain, 1, k) \in Seq(S)
  <2> HIDE DEF n, S
  <2> QED
    BY <1>1, <1>2, SubSeqProperties
<1>3. CASE AddInterceptor
  <2>1. /\ chain' = chain /\ current = End /\ current' = End /\ first' = 1
        /\ interceptors' = interceptors + 1 /\ interceptors < Interceptors
        /\ orderly' \in BOOLEAN
    BY <1>3 DEF AddInterceptor
  <2>2. OpenCalls(interceptors) \subseteq OpenCalls(interceptors + 1) /\ interceptors \in Nat
    BY SessionAssumption DEF OpenCalls, IteratorsValid
  <2>3. chain \in Seq(OpenCalls(interceptors + 1))
    <3> DEFINE T == OpenCalls(interceptors + 1)
    <3>1. S \subseteq T
      BY <2>2
    <3> HIDE DEF S, T
    <3>2. Seq(S) \subseteq Seq(T)
      BY <3>1
    <3> QED
      BY <1>1, <3>2 DEF T
  <2> QED
    BY <2>1, <2>2, <2>3, SessionAssumption DEF IteratorsValid, End
<1>4. CASE interceptReturns
  <2>1. n \in Nat \ {0} /\ n \in 1 .. n
    BY <1>1, <1>4, EmptySeq DEF interceptReturns
  <2>2. /\ first' = chain[n].icpt /\ chain' = SubSeq(chain, 1, n - 1)
        /\ UNCHANGED <<interceptors, current>> /\ orderly' \in BOOLEAN
    BY <1>4, <2>1 DEF interceptReturns, Last, Front, Restored
  <2>3. first' \in 1 .. interceptors
    BY <1>1, <2>1, <2>2 DEF OpenCalls
  <2>4. chain' \in Seq(S)
    <3> HIDE DEF n, S
    <3> QED
      BY <1>2, <2>1, <2>2
  <2> QED
    BY <2>2, <2>3, <2>4 DEF IteratorsValid
<1>5. CASE interceptThrows
  <2>1. PICK k \in 0 .. n - 1 : chain' = SubSeq(chain, 1, k)
    BY <1>5 DEF interceptThrows
  <2>2. UNCHANGED <<interceptors, current, first>> /\ orderly' \in BOOLEAN
    BY <1>5 DEF interceptThrows
  <2>3. chain' \in Seq(S)
    <3>1. k \in 0 .. n
      BY <1>1, <2>1
    <3> HIDE DEF n, S
    <3> QED
      BY <1>2, <2>1, <3>1
  <2> QED
    BY <2>2, <2>3 DEF IteratorsValid
<1>6. CASE \/ \E kind \in {"body", "multipart"} : SetContent(kind)
           \/ RemoveContent \/ SetReadCallback \/ GetDownloadFileLength
  BY <1>6 DEF SetContent, RemoveContent, SetReadCallback, GetDownloadFileLength,
     chainVars, IteratorsValid
<1> QED
  BY <1>3, <1>4, <1>5, <1>6

LEMMA IteratorsStepKeeps == IteratorsValid /\ [Next]_vars => IteratorsValid'
<1> SUFFICES ASSUME IteratorsValid, [Next]_vars PROVE IteratorsValid'
  OBVIOUS
<1>1. CASE UNCHANGED sessionVars
  BY <1>1 DEF sessionVars, IteratorsValid
<1>2. ASSUME NEW verb \in Verbs, Call(verb) PROVE IteratorsValid'
  BY <1>2, RequestKeepsIterators DEF Call
<1>3. CASE Download
  BY <1>3, RequestKeepsIterators DEF Download
<1>4. CASE proceed
  BY <1>4, RequestKeepsIterators DEF proceed
<1> QED
  BY <1>1, <1>2, <1>3, <1>4, OthersKeepIterators DEF Next, PoolStep, vars, SessionNext

(* The session's types; its two iterators never point past the interceptors,   *)
(* in whatever order calls are opened, answered, cut off and handed on         *)
(* (session.cpp:936-979).                                                      *)
THEOREM SessionTypeCorrect == Spec => []SessionTypeOK
<1>1. Init => HandleInv /\ IteratorsValid
  <2>1. ASSUME SessionInit PROVE IteratorsValid
    <3>1. /\ interceptors = 0 /\ current = 0 /\ first = 0 /\ chain = <<>>
          /\ orderly \in BOOLEAN
      BY <2>1 DEF SessionInit, End
    <3>2. 0 \in 0 .. Interceptors /\ 0 \in 0 .. 0
      BY SessionAssumption
    <3>3. chain \in Seq(OpenCalls(interceptors))
      BY <3>1, EmptySeq
    <3> QED
      BY <3>1, <3>2, <3>3 DEF IteratorsValid
  <2> QED
    BY <2>1, SessionInitially DEF Init
<1>2. HandleInv /\ IteratorsValid => SessionTypeOK
  BY DEF HandleInv, HandleTypes, Handles, Names, Datas, Contents, Asked, IteratorsValid,
     OpenCalls, SessionTypeOK
<1> QED
  BY <1>1, SessionStepKeeps, IteratorsStepKeeps, <1>2, PTL DEF Spec

-------------------------------------------------------------------------------
(* The multi handles.                                                          *)

Entries == [session : Sessions, method : HttpMethods]

MultiTypes ==
    /\ sessions_ \in [Multis -> Seq(Entries)]
    /\ member \in [Sessions -> Multis \union {NoMulti}]
    /\ isUsedInMultiPerform \in [Sessions -> BOOLEAN]

(* Libcurl has a handle in the multi whose list it is in, once; the lock is on *)
(* for just these and those stranded.                                          *)
ListedOnce ==
    \A m \in Multis : \A i, j \in 1..Len(sessions_[m]) :
        sessions_[m][i].session = sessions_[m][j].session => i = j

Listed(m, s) == \E i \in 1..Len(sessions_[m]) : sessions_[m][i].session = s

ListedWhereMember == \A m \in Multis, s \in Sessions : Listed(m, s) <=> member[s] = m

LockedWhereMember ==
    \A s \in Sessions :
        /\ isUsedInMultiPerform[s] <=> (member[s] # NoMulti \/ s \in stranded)
        /\ s \in stranded => member[s] = NoMulti

MultiInv == MultiTypes /\ ListedOnce /\ ListedWhereMember /\ LockedWhereMember

(* The list without its i-th element.                                          *)
LEMMA RemoveAtProperties ==
    ASSUME NEW S, NEW seq \in Seq(S), NEW i \in 1..Len(seq)
    PROVE  /\ RemoveAt(seq, i) \in Seq(S)
           /\ Len(RemoveAt(seq, i)) = Len(seq) - 1
           /\ \A j \in 1..(Len(seq) - 1) :
                 RemoveAt(seq, i)[j] = IF j < i THEN seq[j] ELSE seq[j + 1]
<1> DEFINE n     == Len(seq)
           left  == SubSeq(seq, 1, i - 1)
           right == SubSeq(seq, i + 1, n)
<1>1. n \in Nat /\ i \in Nat /\ i >= 1 /\ i <= n
  BY LenProperties
<1>2. \A j \in 1..n : seq[j] \in S
  BY ElementOfSeq
<1>3. /\ left \in Seq(S) /\ Len(left) = i - 1 /\ \A j \in 1..(i - 1) : left[j] = seq[j]
  <2>1. \A j \in 1..(i - 1) : seq[j] \in S
    BY <1>1, <1>2
  <2> HIDE DEF n
  <2> QED
    BY <1>1, <2>1, SubSeqProperties
<1>4. /\ right \in Seq(S) /\ Len(right) = n - i
      /\ \A j \in 1..(n - i) : right[j] = seq[i + j]
  <2>1. \A j \in (i + 1)..n : seq[j] \in S
    BY <1>1, <1>2
  <2> HIDE DEF n
  <2>2. /\ SubSeq(seq, i + 1, n) \in Seq(S)
        /\ Len(SubSeq(seq, i + 1, n)) = IF i + 1 <= n THEN n - (i + 1) + 1 ELSE 0
        /\ \A j \in 1..(n - (i + 1) + 1) : SubSeq(seq, i + 1, n)[j] = seq[(i + 1) + j - 1]
    BY <1>1, <2>1, SubSeqProperties
  <2> QED
    BY <1>1, <2>2
<1>5. RemoveAt(seq, i) = left \o right
  BY DEF RemoveAt
<1> HIDE DEF n, left, right
<1>6. /\ left \o right \in Seq(S)
      /\ Len(left \o right) = Len(left) + Len(right)
      /\ \A j \in 1..(Len(left) + Len(right)) :
            (left \o right)[j] = IF j <= Len(left) THEN left[j] ELSE right[j - Len(left)]
  BY <1>3, <1>4, ConcatProperties
<1>7. ASSUME NEW j \in 1..(n - 1)
      PROVE  (left \o right)[j] = IF j < i THEN seq[j] ELSE seq[j + 1]
  <2>1. CASE j < i
    BY <1>1, <1>3, <1>4, <1>6, <2>1
  <2>2. CASE ~(j < i)
    <3>1. (left \o right)[j] = right[j - (i - 1)] /\ j - (i - 1) \in 1..(n - i)
      BY <1>1, <1>3, <1>4, <1>6, <2>2
    <3>2. right[j - (i - 1)] = seq[i + (j - (i - 1))] /\ i + (j - (i - 1)) = j + 1
      BY <1>1, <1>4, <3>1
    <3> QED
      BY <2>2, <3>1, <3>2
  <2> QED
    BY <2>1, <2>2
<1> QED
  BY <1>1, <1>3, <1>4, <1>5, <1>6, <1>7 DEF n

(* Each list as a sequence: what the proofs below need to know of it.          *)
LEMMA ListFacts ==
    ASSUME MultiTypes, NEW m \in Multis
    PROVE  /\ sessions_[m] \in Seq(Entries) /\ Len(sessions_[m]) \in Nat
           /\ DOMAIN sessions_[m] = 1..Len(sessions_[m])
           /\ \A i \in 1..Len(sessions_[m]) :
                 sessions_[m][i] \in Entries /\ sessions_[m][i].session \in Sessions
           /\ \A s \in Sessions : IsHere(m, s) <=> Listed(m, s)
<1>1. sessions_[m] \in Seq(Entries)
  BY DEF MultiTypes
<1>2. Len(sessions_[m]) \in Nat /\ DOMAIN sessions_[m] = 1..Len(sessions_[m])
  BY <1>1, LenProperties
<1>3. \A i \in 1..Len(sessions_[m]) : sessions_[m][i] \in Entries
  BY <1>1, ElementOfSeq
<1> QED
  BY <1>1, <1>2, <1>3 DEF IsHere, Listed, Entries

LEMMA AddKeepsMulti ==
    ASSUME MultiInv, NEW m \in Multis, NEW s \in Sessions, NEW method \in HttpMethods,
           AddSession(m, s, method)
    PROVE  MultiInv'
<1>1. CASE ~Addable(s)
  BY <1>1 DEF AddSession, MultiInv, MultiTypes, ListedOnce, ListedWhereMember, Listed,
     LockedWhereMember
<1>2. CASE Addable(s)
  <2> DEFINE e == [session |-> s, method |-> method]
             n == Len(sessions_[m])
  <2>1. /\ member[s] = NoMulti
        /\ member' = [member EXCEPT ![s] = m]
        /\ isUsedInMultiPerform' = [isUsedInMultiPerform EXCEPT ![s] = TRUE]
        /\ sessions_' = [sessions_ EXCEPT ![m] = Append(@, e)]
    BY <1>2 DEF AddSession, Addable, MultiInv, MultiTypes
  <2>2. e \in Entries /\ e.session = s
    BY DEF Entries
  <2> HIDE DEF e
  <2>3. /\ n \in Nat /\ sessions_'[m] \in Seq(Entries) /\ Len(sessions_'[m]) = n + 1
        /\ \A i \in 1..n : sessions_'[m][i] = sessions_[m][i]
        /\ sessions_'[m][n + 1] = e
        /\ \A k \in Multis \ {m} : sessions_'[k] = sessions_[k]
    <3>1. sessions_'[m] = Append(sessions_[m], e) /\ sessions_[m] \in Seq(Entries)
      BY <2>1 DEF MultiInv, MultiTypes
    <3>2. \A k \in Multis \ {m} : sessions_'[k] = sessions_[k]
      BY <2>1 DEF MultiInv, MultiTypes
    <3> QED
      BY <2>2, <3>1, <3>2, AppendProperties, LenProperties
  <2>4. MultiTypes'
    <3>1. sessions_' \in [Multis -> Seq(Entries)]
      BY <2>1, <2>3 DEF MultiInv, MultiTypes
    <3>2. isUsedInMultiPerform' \in [Sessions -> BOOLEAN]
      BY <2>1 DEF MultiInv, MultiTypes
    <3>3. member' \in [Sessions -> Multis \union {NoMulti}]
      BY <2>1 DEF MultiInv, MultiTypes
    <3> QED
      BY <3>1, <3>2, <3>3 DEF MultiTypes
  <2>5. m # NoMulti /\ \A i \in 1..n : sessions_[m][i].session # s
    BY <2>1, MultiAssumption DEF MultiInv, ListedWhereMember, Listed
  <2> HIDE DEF n
  <2>6. ListedOnce'
    <3> SUFFICES ASSUME NEW k \in Multis, NEW i \in 1..Len(sessions_'[k]),
                        NEW j \in 1..Len(sessions_'[k]),
                        sessions_'[k][i].session = sessions_'[k][j].session
                 PROVE  i = j
      BY DEF ListedOnce
    <3>1. CASE k # m
      BY <2>3, <3>1 DEF MultiInv, ListedOnce
    <3>2. CASE k = m
      <4>1. (i \in 1..n \/ i = n + 1) /\ (j \in 1..n \/ j = n + 1)
        BY <2>3, <3>2
      <4>2. CASE i = n + 1 \/ j = n + 1
        BY <2>2, <2>3, <2>5, <3>2, <4>1, <4>2
      <4>3. CASE i \in 1..n /\ j \in 1..n
        BY <2>3, <3>2, <4>3 DEF MultiInv, ListedOnce, n
      <4> QED
        BY <4>1, <4>2, <4>3
    <3> QED
      BY <3>1, <3>2
  <2>7. ListedWhereMember'
    <3> SUFFICES ASSUME NEW k \in Multis, NEW u \in Sessions
                 PROVE  Listed(k, u)' <=> member'[u] = k
      BY DEF ListedWhereMember
    <3>1. Listed(k, u) <=> member[u] = k
      BY DEF MultiInv, ListedWhereMember
    <3>2. member'[u] = IF u = s THEN m ELSE member[u]
      BY <2>1 DEF MultiInv, MultiTypes
    <3>3. CASE k # m
      BY <2>1, <2>3, <3>1, <3>2, <3>3, MultiAssumption DEF Listed
    <3>4. CASE k = m
      <4>1. Listed(k, u)' <=> Listed(k, u) \/ u = s
        <5>1. ASSUME NEW i \in 1..(n + 1), sessions_'[m][i].session = u
              PROVE  (\E j \in 1..n : sessions_[m][j].session = u) \/ u = s
          <6>1. CASE i = n + 1
            BY <2>2, <2>3, <5>1, <6>1
          <6>2. CASE i # n + 1
            <7>1. i \in 1..n
              BY <2>3, <6>2
            <7> QED
              BY <2>3, <5>1, <7>1
          <6> QED
            BY <6>1, <6>2
        <5>2. ASSUME NEW i \in 1..n, sessions_[m][i].session = u
              PROVE  \E j \in 1..(n + 1) : sessions_'[m][j].session = u
          <6>1. i \in 1..(n + 1)
            BY <2>3
          <6> QED
            BY <2>3, <5>2, <6>1
        <5>3. ASSUME u = s
              PROVE  \E j \in 1..(n + 1) : sessions_'[m][j].session = u
          <6>1. n + 1 \in 1..(n + 1)
            BY <2>3
          <6> QED
            BY <2>2, <2>3, <5>3, <6>1
        <5> QED
          BY <2>3, <3>4, <5>1, <5>2, <5>3 DEF Listed, n
      <4> QED
        BY <3>1, <3>2, <3>4, <4>1
    <3> QED
      BY <3>3, <3>4
  <2>8. LockedWhereMember'
    <3>1. stranded' = stranded \ {s}
      BY <1>2 DEF AddSession
    <3>2. \A u \in Sessions : /\ isUsedInMultiPerform'[u] = (IF u = s THEN TRUE ELSE isUsedInMultiPerform[u])
                             /\ member'[u] = IF u = s THEN m ELSE member[u]
      BY <2>1 DEF MultiInv, MultiTypes
    <3> QED
      BY <2>5, <3>1, <3>2 DEF MultiInv, LockedWhereMember
  <2> QED
    BY <2>4, <2>6, <2>7, <2>8 DEF MultiInv
<1> QED
  BY <1>1, <1>2

LEMMA RemoveKeepsMulti ==
    ASSUME MultiInv, NEW m \in Multis, NEW s \in Sessions, RemoveSession(m, s)
    PROVE  MultiInv'
<1> DEFINE n == Len(sessions_[m])
           p == Position(m, s)
<1>1. /\ member' = [member EXCEPT ![s] = NoMulti]
      /\ isUsedInMultiPerform' = [isUsedInMultiPerform EXCEPT ![s] = FALSE]
      /\ member[s] \in {m, NoMulti} /\ (IsHere(m, s) <=> member[s] = m)
  BY ListFacts DEF RemoveSession, MultiInv, ListedWhereMember
<1>2. MultiTypes' <=> sessions_' \in [Multis -> Seq(Entries)]
  <2>1. isUsedInMultiPerform' \in [Sessions -> BOOLEAN]
    BY <1>1 DEF MultiInv, MultiTypes
  <2>2. member' \in [Sessions -> Multis \union {NoMulti}]
    BY <1>1 DEF MultiInv, MultiTypes
  <2> QED
    BY <2>1, <2>2 DEF MultiTypes
<1>3. LockedWhereMember'
  <2>1. stranded' = stranded \ {s}
    BY DEF RemoveSession
  <2>2. \A u \in Sessions : /\ isUsedInMultiPerform'[u] = (IF u = s THEN FALSE ELSE isUsedInMultiPerform[u])
                           /\ member'[u] = IF u = s THEN NoMulti ELSE member[u]
    BY <1>1 DEF MultiInv, MultiTypes
  <2> QED
    BY <2>1, <2>2 DEF MultiInv, LockedWhereMember
<1>4. CASE ~IsHere(m, s)
  <2>1. sessions_' = sessions_ /\ member' = member
    <3>1. member[s] = NoMulti
      BY <1>1, <1>4
    <3> QED
      BY <1>1, <1>4, <3>1 DEF RemoveSession, MultiInv, MultiTypes
  <2> QED
    BY <1>2, <1>3, <2>1 DEF MultiInv, MultiTypes, ListedOnce, ListedWhereMember, Listed
<1>5. CASE IsHere(m, s)
  <2>1. PICK i \in 1..n : sessions_[m][i].session = s
    BY <1>5, ListFacts DEF MultiInv, Listed
  <2>2. p \in 1..n /\ sessions_[m][p].session = s
    <3>1. i \in DOMAIN sessions_[m] /\ n \in Nat
      BY <2>1, ListFacts DEF MultiInv
    <3>2. \A j \in 1..(i - 1) : sessions_[m][j].session # s
      BY <2>1, <3>1 DEF MultiInv, ListedOnce
    <3>3. /\ p \in DOMAIN sessions_[m] /\ sessions_[m][p].session = s
      BY <2>1, <3>1, <3>2 DEF Position
    <3> QED
      BY <3>3, ListFacts DEF MultiInv
  <2>3. /\ n \in Nat /\ sessions_[m] \in Seq(Entries)
        /\ sessions_' = [sessions_ EXCEPT ![m] = RemoveAt(sessions_[m], p)]
    BY <1>5, ListFacts DEF RemoveSession, MultiInv
  <2> HIDE DEF p
  <2>4. /\ sessions_'[m] \in Seq(Entries) /\ Len(sessions_'[m]) = n - 1
        /\ \A j \in 1..(n - 1) : sessions_'[m][j] = IF j < p THEN sessions_[m][j] ELSE sessions_[m][j + 1]
        /\ \A k \in Multis \ {m} : sessions_'[k] = sessions_[k]
    <3>1. sessions_'[m] = RemoveAt(sessions_[m], p)
      BY <2>3 DEF MultiInv, MultiTypes
    <3>2. \A k \in Multis \ {m} : sessions_'[k] = sessions_[k]
      BY <2>3 DEF MultiInv, MultiTypes
    <3>3. p \in 1..Len(sessions_[m]) /\ sessions_[m] \in Seq(Entries)
      BY <2>2, <2>3
    <3>4. /\ RemoveAt(sessions_[m], p) \in Seq(Entries)
          /\ Len(RemoveAt(sessions_[m], p)) = Len(sessions_[m]) - 1
          /\ \A j \in 1..(Len(sessions_[m]) - 1) :
                RemoveAt(sessions_[m], p)[j] =
                    IF j < p THEN sessions_[m][j] ELSE sessions_[m][j + 1]
      BY <3>3, RemoveAtProperties
    <3> QED
      BY <3>1, <3>2, <3>4
  <2>5. sessions_' \in [Multis -> Seq(Entries)]
    BY <2>3, <2>4 DEF MultiInv, MultiTypes
  <2>6. /\ \A i1, i2 \in 1..n : sessions_[m][i1].session = sessions_[m][i2].session => i1 = i2
        /\ p \in Nat /\ p >= 1 /\ p <= n
    BY <2>2, <2>3 DEF MultiInv, ListedOnce
  <2> HIDE DEF n
  <2>7. ListedOnce'
    <3> SUFFICES ASSUME NEW k \in Multis, NEW i1 \in 1..Len(sessions_'[k]),
                        NEW i2 \in 1..Len(sessions_'[k]),
                        sessions_'[k][i1].session = sessions_'[k][i2].session
                 PROVE  i1 = i2
      BY DEF ListedOnce
    <3>1. CASE k # m
      BY <2>4, <3>1 DEF MultiInv, ListedOnce
    <3>2. CASE k = m
      <4> DEFINE Old(i0) == IF i0 < p THEN i0 ELSE i0 + 1
      <4>1. /\ i1 \in 1..(n - 1) /\ i2 \in 1..(n - 1)
            /\ Old(i1) \in 1..n /\ Old(i2) \in 1..n
        BY <2>3, <2>4, <2>6, <3>2
      <4>2. sessions_[m][Old(i1)].session = sessions_[m][Old(i2)].session
        BY <2>4, <3>2, <4>1
      <4>3. Old(i1) = Old(i2)
        BY <2>6, <4>1, <4>2
      <4> QED
        BY <2>3, <2>6, <4>1, <4>3
    <3> QED
      BY <3>1, <3>2
  <2>8. ListedWhereMember'
    <3> SUFFICES ASSUME NEW k \in Multis, NEW u \in Sessions
                 PROVE  Listed(k, u)' <=> member'[u] = k
      BY DEF ListedWhereMember
    <3>1. Listed(k, u) <=> member[u] = k
      BY DEF MultiInv, ListedWhereMember
    <3>2. member[s] = m /\ member'[u] = IF u = s THEN NoMulti ELSE member[u]
      BY <1>1, <1>5 DEF MultiInv, MultiTypes
    <3>3. CASE k # m
      BY <2>3, <2>4, <3>1, <3>2, <3>3, MultiAssumption DEF Listed
    <3>4. CASE k = m
      <4>1. Listed(k, u)' <=> Listed(k, u) /\ u # s
        <5>1. ASSUME NEW j \in 1..(n - 1), sessions_'[m][j].session = u
              PROVE  (\E h \in 1..n : sessions_[m][h].session = u) /\ u # s
          <6> DEFINE h == IF j < p THEN j ELSE j + 1
          <6>1. h \in 1..n /\ h # p /\ sessions_[m][h].session = u
            BY <2>3, <2>4, <2>6, <5>1
          <6> HIDE DEF h
          <6>2. u # s
            BY <2>2, <2>6, <6>1
          <6> QED
            BY <6>1, <6>2
        <5>2. ASSUME NEW h \in 1..n, sessions_[m][h].session = u, u # s
              PROVE  \E j \in 1..(n - 1) : sessions_'[m][j].session = u
          <6>1. h # p
            BY <2>2, <5>2
          <6>2. CASE h < p
            <7>1. h \in 1..(n - 1)
              BY <2>3, <2>6, <6>2
            <7> QED
              BY <2>4, <5>2, <6>2, <7>1
          <6>3. CASE h > p
            <7>1. h - 1 \in 1..(n - 1) /\ ~(h - 1 < p) /\ (h - 1) + 1 = h
              BY <2>3, <2>6, <6>3
            <7> QED
              BY <2>4, <5>2, <7>1
          <6> QED
            BY <2>3, <2>6, <6>1, <6>2, <6>3
        <5> QED
          BY <2>4, <3>4, <5>1, <5>2 DEF Listed, n
      <4> QED
        BY <3>1, <3>2, <3>4, <4>1, MultiAssumption
    <3> QED
      BY <3>3, <3>4
  <2> QED
    BY <1>2, <1>3, <2>5, <2>7, <2>8 DEF MultiInv
<1> QED
  BY <1>4, <1>5

LEMMA DestroyKeepsMulti ==
    ASSUME MultiInv, NEW m \in Multis, Destroy(m)
    PROVE  MultiInv'
<1>1. /\ sessions_' = [sessions_ EXCEPT ![m] = <<>>]
      /\ isUsedInMultiPerform' = [s \in Sessions |-> isUsedInMultiPerform[s] /\ ~IsHere(m, s)]
      /\ member' = [s \in Sessions |-> IF IsHere(m, s) THEN NoMulti ELSE member[s]]
  BY DEF Destroy
<1>2. \A s \in Sessions : IsHere(m, s) <=> member[s] = m
  BY ListFacts DEF MultiInv, ListedWhereMember
<1>3. sessions_'[m] = <<>> /\ \A k \in Multis \ {m} : sessions_'[k] = sessions_[k]
  BY <1>1 DEF MultiInv, MultiTypes
<1>4. MultiTypes'
  <2>1. isUsedInMultiPerform' \in [Sessions -> BOOLEAN]
    BY <1>1
  <2>2. member' \in [Sessions -> Multis \union {NoMulti}]
    BY <1>1 DEF MultiInv, MultiTypes
  <2>3. sessions_' \in [Multis -> Seq(Entries)]
    BY <1>1, EmptySeq DEF MultiInv, MultiTypes
  <2> QED
    BY <2>1, <2>2, <2>3 DEF MultiTypes
<1>5. Len(sessions_'[m]) = 0
  BY <1>3, EmptySeq
<1>6. ListedOnce'
  BY <1>3, <1>5 DEF MultiInv, ListedOnce
<1>7. ListedWhereMember'
  <2> SUFFICES ASSUME NEW k \in Multis, NEW s \in Sessions
               PROVE  Listed(k, s)' <=> member'[s] = k
    BY DEF ListedWhereMember
  <2>1. member'[s] = IF member[s] = m THEN NoMulti ELSE member[s]
    BY <1>1, <1>2
  <2>2. CASE k = m
    BY <1>5, <2>1, <2>2, MultiAssumption DEF Listed
  <2>3. CASE k # m
    BY <1>3, <2>1, <2>3, MultiAssumption DEF MultiInv, ListedWhereMember, Listed
  <2> QED
    BY <2>2, <2>3
<1>8. LockedWhereMember'
  <2> SUFFICES ASSUME NEW s \in Sessions
               PROVE  /\ isUsedInMultiPerform'[s] <=> (member'[s] # NoMulti \/ s \in stranded')
                      /\ s \in stranded' => member'[s] = NoMulti
    BY DEF LockedWhereMember
  <2>1. isUsedInMultiPerform'[s] <=> isUsedInMultiPerform[s] /\ ~IsHere(m, s)
    BY <1>1
  <2>2. member'[s] = IF member[s] = m THEN NoMulti ELSE member[s]
    BY <1>1, <1>2
  <2>3. /\ isUsedInMultiPerform[s] <=> (member[s] # NoMulti \/ s \in stranded)
        /\ s \in stranded => member[s] = NoMulti
    BY DEF MultiInv, LockedWhereMember
  <2>4. stranded' = stranded
    BY DEF Destroy
  <2> QED
    BY <1>2, <2>1, <2>2, <2>3, <2>4, MultiAssumption
<1> QED
  BY <1>4, <1>6, <1>7, <1>8 DEF MultiInv

(* A multi takes over the list and the members of the one moved to it; those   *)
(* it had are in none, and locked.                                             *)
LEMMA MoveKeepsMulti ==
    ASSUME MultiInv, NEW m \in Multis, NEW n \in Multis, MoveAssign(m, n)
    PROVE  MultiInv'
<1> DEFINE now(s) == IF member[s] = n THEN m ELSE IF member[s] = m THEN NoMulti ELSE member[s]
<1>1. /\ m # n /\ isUsedInMultiPerform' = isUsedInMultiPerform
      /\ sessions_' = [sessions_ EXCEPT ![m] = sessions_[n], ![n] = <<>>]
      /\ member' = [s \in Sessions |-> now(s)]
      /\ stranded' = stranded \union {s \in Sessions : IsHere(m, s)}
  BY DEF MoveAssign
<1>2. /\ sessions_'[m] = sessions_[n] /\ sessions_'[n] = <<>> /\ Len(sessions_'[n]) = 0
      /\ \A k \in Multis \ {m, n} : sessions_'[k] = sessions_[k]
  <2>1. /\ sessions_'[m] = sessions_[n] /\ sessions_'[n] = <<>>
        /\ \A k \in Multis \ {m, n} : sessions_'[k] = sessions_[k]
    BY <1>1 DEF MultiInv, MultiTypes
  <2> QED
    BY <2>1, EmptySeq
<1>3. MultiTypes'
  <2>1. isUsedInMultiPerform' \in [Sessions -> BOOLEAN]
    BY <1>1 DEF MultiInv, MultiTypes
  <2>2. member' \in [Sessions -> Multis \union {NoMulti}]
    BY <1>1 DEF MultiInv, MultiTypes
  <2>3. sessions_' \in [Multis -> Seq(Entries)]
    BY <1>1, EmptySeq DEF MultiInv, MultiTypes
  <2> QED
    BY <2>1, <2>2, <2>3 DEF MultiTypes
<1>4. ListedOnce'
  <2> SUFFICES ASSUME NEW k \in Multis, NEW i \in 1..Len(sessions_'[k]),
                      NEW j \in 1..Len(sessions_'[k]),
                      sessions_'[k][i].session = sessions_'[k][j].session
               PROVE  i = j
    BY DEF ListedOnce
  <2>1. CASE k = m
    BY <1>2, <2>1 DEF MultiInv, ListedOnce
  <2>2. CASE k = n
    BY <1>2, <2>2
  <2>3. CASE k \notin {m, n}
    BY <1>2, <2>3 DEF MultiInv, ListedOnce
  <2> QED
    BY <2>1, <2>2, <2>3
<1>5. ASSUME NEW s \in Sessions
      PROVE  /\ Listed(m, s) <=> member[s] = m
             /\ Listed(n, s) <=> member[s] = n
             /\ IsHere(m, s) <=> member[s] = m
  BY ListFacts DEF MultiInv, ListedWhereMember
<1>6. ListedWhereMember'
  <2> SUFFICES ASSUME NEW k \in Multis, NEW s \in Sessions
               PROVE  Listed(k, s)' <=> member'[s] = k
    BY DEF ListedWhereMember
  <2>1. member'[s] = now(s)
    BY <1>1
  <2>2. CASE k = m
    <3>1. Listed(k, s)' <=> Listed(n, s)
      BY <1>2, <2>2 DEF Listed
    <3> QED
      BY <1>1, <1>5, <2>1, <2>2, <3>1, MultiAssumption
  <2>3. CASE k = n
    <3>1. ~Listed(k, s)'
      BY <1>2, <2>3 DEF Listed
    <3> QED
      BY <1>1, <2>1, <2>3, <3>1, MultiAssumption
  <2>4. CASE k \notin {m, n}
    BY <1>2, <2>1, <2>4, MultiAssumption DEF MultiInv, ListedWhereMember, Listed
  <2> QED
    BY <2>2, <2>3, <2>4
<1>7. LockedWhereMember'
  <2> SUFFICES ASSUME NEW s \in Sessions
               PROVE  /\ isUsedInMultiPerform'[s] <=> (member'[s] # NoMulti \/ s \in stranded')
                      /\ s \in stranded' => member'[s] = NoMulti
    BY DEF LockedWhereMember
  <2>1. /\ member'[s] = now(s)
        /\ s \in stranded' <=> (s \in stranded \/ member[s] = m)
    BY <1>1, <1>5
  <2>2. /\ isUsedInMultiPerform[s] <=> (member[s] # NoMulti \/ s \in stranded)
        /\ s \in stranded => member[s] = NoMulti
    BY DEF MultiInv, LockedWhereMember
  <2> QED
    BY <1>1, <2>1, <2>2, MultiAssumption
<1> QED
  BY <1>3, <1>4, <1>6, <1>7 DEF MultiInv

(* A request leaves the sessions where they are, whatever method it sets.      *)
LEMMA RequestKeepsMulti ==
    ASSUME MultiInv, NEW m \in Multis, NEW method \in HttpMethods, MakeRequest(m, method)
    PROVE  MultiInv'
<1> DEFINE n == Len(sessions_[m])
<1>1. UNCHANGED <<isUsedInMultiPerform, member, stranded>>
  BY DEF MakeRequest
<1>2. CASE sessions_' = sessions_
  BY <1>1, <1>2 DEF MultiInv, MultiTypes, ListedOnce, ListedWhereMember, Listed, LockedWhereMember
<1>3. CASE sessions_' # sessions_
  <2> DEFINE new == [i \in DOMAIN sessions_[m] |-> [sessions_[m][i] EXCEPT !.method = method]]
  <2>1. sessions_' = [sessions_ EXCEPT ![m] = new]
    BY <1>3 DEF MakeRequest
  <2>2. /\ n \in Nat /\ DOMAIN sessions_[m] = 1..n
        /\ \A i \in 1..n : sessions_[m][i] \in Entries
    BY ListFacts DEF MultiInv
  <2>3. \A i \in 1..n : new[i] \in Entries /\ new[i].session = sessions_[m][i].session
    BY <2>2 DEF Entries
  <2>4. new \in [1..n -> Entries]
    BY <2>2, <2>3
  <2>5. new \in Seq(Entries)
    BY <2>2, <2>4, SeqDef
  <2>6. Len(new) = n
    BY <2>2, <2>4, <2>5, LenProperties
  <2> HIDE DEF new
  <2>7. /\ sessions_'[m] = new /\ \A k \in Multis \ {m} : sessions_'[k] = sessions_[k]
        /\ sessions_' \in [Multis -> Seq(Entries)]
    BY <2>1, <2>5 DEF MultiInv, MultiTypes
  <2>8. \A k \in Multis : /\ Len(sessions_'[k]) = Len(sessions_[k])
                          /\ \A i \in 1..Len(sessions_[k]) :
                                sessions_'[k][i].session = sessions_[k][i].session
    BY <2>3, <2>6, <2>7
  <2>9. ListedOnce' /\ ListedWhereMember'
    BY <1>1, <2>8 DEF MultiInv, ListedOnce, ListedWhereMember, Listed
  <2> QED
    BY <1>1, <2>7, <2>9 DEF MultiInv, MultiTypes, LockedWhereMember
<1> QED
  BY <1>2, <1>3

LEMMA MultiStepKeeps == MultiInv /\ [Next]_vars => MultiInv'
<1> SUFFICES ASSUME MultiInv, [Next]_vars PROVE MultiInv'
  OBVIOUS
<1>1. CASE UNCHANGED multiVars
  BY <1>1
  DEF multiVars, MultiInv, MultiTypes, ListedOnce, ListedWhereMember, Listed, LockedWhereMember
<1>2. CASE MultiNext
  BY <1>2, AddKeepsMulti, RemoveKeepsMulti, DestroyKeepsMulti, MoveKeepsMulti, RequestKeepsMulti
  DEF MultiNext
<1> QED
  BY <1>1, <1>2 DEF Next, PoolStep, vars

LEMMA MultiInitially == MultiInit => MultiInv
<1> SUFFICES ASSUME MultiInit PROVE MultiInv
  OBVIOUS
<1>1. sessions_ \in [Multis -> Seq(Entries)] /\ \A m \in Multis : Len(sessions_[m]) = 0
  BY EmptySeq DEF MultiInit
<1>2. /\ member = [s \in Sessions |-> NoMulti]
      /\ isUsedInMultiPerform = [s \in Sessions |-> FALSE] /\ stranded = {}
  BY DEF MultiInit
<1>3. isUsedInMultiPerform \in [Sessions -> BOOLEAN]
  BY <1>2
<1> QED
  BY <1>1, <1>2, <1>3, MultiAssumption
  DEF MultiInv, MultiTypes, ListedOnce, ListedWhereMember, Listed, LockedWhereMember

LEMMA MultiInvariance == Spec => []MultiInv
<1>1. Init => MultiInv
  BY MultiInitially DEF Init
<1> QED
  BY <1>1, MultiStepKeeps, PTL DEF Spec

(* For any number of sessions and multi handles, a session is locked exactly   *)
(* while it is in one list, that of the multi where libcurl has its handle, or *)
(* since its multi gave way to one that was moved there (multiperform.cpp:30-97*)
(* and multiperform.h:37).                                                     *)
THEOREM LockMeansAdded == Spec => []LockedWhileAdded
<1>1. MultiInv => LockedWhileAdded
  <2> SUFFICES ASSUME MultiInv, NEW s \in Sessions
               PROVE  /\ isUsedInMultiPerform[s] = (member[s] # NoMulti \/ s \in stranded)
                      /\ \A m \in Multis :
                            Cardinality({i \in DOMAIN sessions_[m] : sessions_[m][i].session = s})
                                = IF member[s] = m THEN 1 ELSE 0
    BY DEF LockedWhileAdded
  <2>1. isUsedInMultiPerform[s] = (member[s] # NoMulti \/ s \in stranded)
    BY DEF MultiInv, MultiTypes, LockedWhereMember
  <2>2. ASSUME NEW m \in Multis
        PROVE  Cardinality({i \in DOMAIN sessions_[m] : sessions_[m][i].session = s})
                  = IF member[s] = m THEN 1 ELSE 0
    <3> DEFINE places == {i \in DOMAIN sessions_[m] : sessions_[m][i].session = s}
    <3>1. DOMAIN sessions_[m] = 1..Len(sessions_[m]) /\ (Listed(m, s) <=> member[s] = m)
      BY ListFacts DEF MultiInv, ListedWhereMember
    <3>2. CASE member[s] = m
      <4>1. PICK i \in 1..Len(sessions_[m]) : sessions_[m][i].session = s
        BY <3>1, <3>2 DEF Listed
      <4>2. places = {i}
        BY <3>1, <4>1 DEF MultiInv, ListedOnce
      <4> QED
        BY <3>2, <4>2, FS_Singleton
    <3>3. CASE member[s] # m
      <4>1. places = {}
        BY <3>1, <3>3 DEF Listed
      <4> QED
        BY <3>3, <4>1, FS_EmptySet
    <3> QED
      BY <3>2, <3>3
  <2> QED
    BY <2>1, <2>2
<1> QED
  BY MultiInvariance, <1>1, PTL

(* A smooth request finds a response for every session of its list, whatever   *)
(* was added, removed, destroyed and moved before: the list is what libcurl    *)
(* runs, without a session twice (multiperform.cpp:107-172).                   *)
THEOREM SmoothIsAnswered == Spec => []EachIsAnswered
<1>1. Init => EachIsAnswered
  BY DEF Init, MultiInit, EachIsAnswered
<1>2. MultiInv /\ EachIsAnswered /\ [Next]_vars => EachIsAnswered'
  <2> SUFFICES ASSUME MultiInv, EachIsAnswered, [Next]_vars PROVE EachIsAnswered'
    OBVIOUS
  <2>1. CASE request' = request
    BY <2>1 DEF EachIsAnswered
  <2>2. ASSUME NEW m \in Multis, NEW method \in HttpMethods, MakeRequest(m, method)
        PROVE  EachIsAnswered'
    <3> DEFINE listed  == {s \in Sessions : IsHere(m, s)}
               running == {s \in Sessions : member[s] = m} \ ended
               single  == \A i, j \in DOMAIN sessions_[m] :
                              sessions_[m][i].session = sessions_[m][j].session => i = j
    <3> DEFINE Reads(finished, heard) ==
                  /\ finished \subseteq listed => heard = finished
                  /\ request' = [smooth   |-> finished = running /\ listed \intersect ended = {},
                                 answered |-> heard = listed /\ single]
    <3>0. PICK finished \in SUBSET running :
             \E heard \in SUBSET (finished \intersect listed) : Reads(finished, heard)
      BY <2>2 DEF MakeRequest
    <3>1. PICK heard \in SUBSET (finished \intersect listed) : Reads(finished, heard)
      BY <3>0
    <3>2. listed = {s \in Sessions : member[s] = m} /\ single
      BY ListFacts DEF MultiInv, ListedWhereMember, ListedOnce
    <3> HIDE DEF single
    <3>3. /\ request'.smooth => finished = running /\ listed \intersect ended = {}
          /\ heard = listed => request'.answered
      BY <3>1, <3>2
    <3>4. running = listed \ ended
      BY <3>2
    <3> HIDE DEF listed, running
    <3> QED
      BY <3>1, <3>3, <3>4 DEF EachIsAnswered
  <2> QED
    BY <2>1, <2>2
    DEF Next, PoolStep, MultiNext, AddSession, RemoveSession, Destroy, MoveAssign, multiVars, vars
<1> QED
  BY MultiInvariance, <1>1, <1>2, PTL DEF Spec
===============================================================================
