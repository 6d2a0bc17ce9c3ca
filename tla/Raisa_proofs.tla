------------------------------ MODULE Raisa_proofs ------------------------------
(* Proofs about Raisa, for any bounds: each node still is what it is alone, so *)
(* that what was proved of it holds of the robot; and what only the robot as a *)
(* whole promises.                                                             *)
EXTENDS Raisa, FiniteSetTheorems, SequenceTheorems, TLAPS

(* The theorems on the two nodes.                                              *)
MP == INSTANCE Master_proofs WITH up <- mUp, crashes <- mCrashes, Batteries <- {}
IP == INSTANCE IoReeman_proofs WITH up <- ioUp, crashes <- ioCrashes, Fields <- {}

-------------------------------------------------------------------------------
(* The parameters given to the two nodes are as these assume.                  *)
LEMMA Assumptions == MN!MasterAssumption /\ IO!IoReemanAssumption
<1>1. MN!MasterAssumption
  BY RaisaAssumption DEF MN!MasterAssumption, Res
<1>2. IO!IoReemanAssumption
  BY RaisaAssumption DEF IO!IoReemanAssumption, Topics
<1> QED
  BY <1>1, <1>2

(* Both instances of a node's module are the same node.                        *)
LEMMA SameMaster == /\ (MN!Init <=> MP!Init) /\ (MN!Next <=> MP!Next)
                    /\ (UNCHANGED MN!vars <=> UNCHANGED MP!vars)
BY DEF MN!Init, MP!Init, MN!Next, MP!Next, MN!vars, MP!vars,
   MN!statusCallback, MP!statusCallback, MN!StatusThrows, MP!StatusThrows,
   MN!callbackBattery, MP!callbackBattery, MN!Respawn, MP!Respawn,
   MN!FreshProcess, MP!FreshProcess, MN!Indeterminate, MP!Indeterminate,
   MN!CancelOnCritical, MP!CancelOnCritical, MN!GotoStep, MP!GotoStep,
   MN!VelStep, MP!VelStep, MN!Critical, MP!Critical, MN!Arrived, MP!Arrived,
   MN!SentFlag, MP!SentFlag, MN!VelCommand, MP!VelCommand, MN!Forward, MP!Forward,
   MN!VelDone, MP!VelDone, MN!Counted, MP!Counted, MN!proc, MP!proc, MN!fsm, MP!fsm,
   MN!heard, MP!heard, MN!history, MP!history

LEMMA SameIo == /\ (IO!Init <=> IP!Init) /\ (IO!Next <=> IP!Next)
                /\ (UNCHANGED IO!vars <=> UNCHANGED IP!vars)
<1>1. UNCHANGED IO!vars <=> UNCHANGED IP!vars
  BY DEF IO!vars, IP!vars, IO!io, IP!io, IO!topics, IP!topics, IO!out, IP!out,
     IO!world, IP!world
<1>2. IO!Init <=> IP!Init
  BY DEF IO!Init, IP!Init, IO!Readings, IP!Readings, IO!Idle, IP!Idle, IO!None, IP!None,
     IO!Indeterminate, IP!Indeterminate, IO!Nothing, IP!Nothing
<1>3. IO!Getters = IP!Getters
  BY DEF IO!Getters, IP!Getters, IO!IfUsed, IP!IfUsed
<1> USE DEF IO!io, IP!io, IO!topics, IP!topics, IO!out, IP!out, IO!world, IP!world
<1>4. \A t \in Topics : IO!Publish(t) <=> IP!Publish(t)
  BY DEF IO!Publish, IP!Publish, IO!Published, IP!Published,
     IO!Cardinality, IP!Cardinality
<1>5. \A t \in Topics : IO!CommandStart(t) <=> IP!CommandStart(t)
  BY DEF IO!CommandStart, IP!CommandStart, IO!Consumed, IP!Consumed, IO!Idle, IP!Idle,
     IO!None, IP!None
<1>6. IO!CommandEnd <=> IP!CommandEnd
  BY DEF IO!CommandEnd, IP!CommandEnd, IO!GoodAnswer, IP!GoodAnswer,
     IO!TimesOut, IP!TimesOut, IO!Idle, IP!Idle, IO!None, IP!None
<1>7. (IO!TimerDue <=> IP!TimerDue) /\ (IO!PollStart <=> IP!PollStart)
  BY DEF IO!TimerDue, IP!TimerDue, IO!PollStart, IP!PollStart, IO!Idle, IP!Idle,
     IO!None, IP!None
<1>8. IO!PollNavStatus <=> IP!PollNavStatus
  BY <1>3 DEF IO!PollNavStatus, IP!PollNavStatus, IO!Idle, IP!Idle, IO!None, IP!None
<1>9. (IO!Crash <=> IP!Crash) /\ (IO!Respawn <=> IP!Respawn)
  BY <1>3 DEF IO!Crash, IP!Crash, IO!GetterThrows, IP!GetterThrows,
     IO!ValueThrows, IP!ValueThrows, IO!DumpThrows, IP!DumpThrows,
     IO!Nothing, IP!Nothing, IO!Respawn, IP!Respawn, IO!Respawned, IP!Respawned,
     IO!Indeterminate, IP!Indeterminate, IO!Idle, IP!Idle, IO!None, IP!None
<1>10. \A r : IO!BaseChange(r) <=> IP!BaseChange(r)
  BY DEF IO!BaseChange, IP!BaseChange
<1>11. (IO!BaseApply <=> IP!BaseApply) /\ (IO!BaseLose <=> IP!BaseLose)
  BY DEF IO!BaseApply, IP!BaseApply, IO!BaseLose, IP!BaseLose
<1> HIDE DEF IO!io, IP!io, IO!topics, IP!topics, IO!out, IP!out, IO!world, IP!world
<1>12. IO!Next <=> IP!Next
  BY <1>4, <1>5, <1>6, <1>7, <1>8, <1>9, <1>10, <1>11
     DEF IO!Next, IP!Next, IO!Readings, IP!Readings
<1> QED
  BY <1>1, <1>2, <1>12

-------------------------------------------------------------------------------
(* Every step of the robot is a step of the master, or leaves it alone, and    *)
(* likewise for io_reeman.                                                     *)

LinkTypes == unread \in Res \union {None} /\ initial \in {3, 6}

LEMMA MasterSteps == LinkTypes /\ [Next]_vars => [MN!Next]_(MN!vars)
<1> SUFFICES ASSUME LinkTypes, [Next]_vars PROVE [MN!Next]_(MN!vars)
  OBVIOUS
<1>1. CASE MasterTimer
  BY <1>1 DEF MasterTimer, MN!timerRoutine, MN!Next
<1>2. CASE MasterHears
  <2>1. unread \in Res /\ MN!statusCallback(unread)
    BY <1>2 DEF MasterHears, LinkTypes
  <2> QED
    BY <2>1 DEF MN!Next
<1>3. CASE MasterCrash \/ MasterRespawn
  BY <1>3 DEF MasterCrash, MasterRespawn, MN!Next
<1>4. CASE Match \/ IoCommand \/ IoPoll \/ IoStatusFails \/ IoStatus \/ IoCrash \/ IoRespawn
           \/ BaseDrives \/ BaseArrives \/ BaseBattery \/ BaseRequest \/ UNCHANGED vars
  <2>1. UNCHANGED master
    BY <1>4 DEF Match, IoCommand, IoPoll, IoStatusFails, IoStatus, IoCrash, IoRespawn,
       BaseDrives, BaseArrives, BaseBattery, BaseRequest, vars
  <2> QED
    BY <2>1 DEF master, MN!vars, MN!proc, MN!fsm, MN!heard, MN!history
<1> QED
  BY <1>1, <1>2, <1>3, <1>4 DEF Next

LEMMA IoSteps == [Next]_vars => [IO!Next]_(IO!vars)
<1> SUFFICES ASSUME [Next]_vars PROVE [IO!Next]_(IO!vars)
  OBVIOUS
<1>1. UNCHANGED io => UNCHANGED IO!vars
  BY DEF io, IO!vars, IO!io, IO!topics, IO!out, IO!world
<1>2. CASE MasterTimer
  <2>1. UNCHANGED io \/ \E t \in Topics : IO!Publish(t)
    BY <1>2 DEF MasterTimer, Publishes
  <2> QED
    BY <1>1, <2>1 DEF IO!Next
<1>3. CASE IoCommand \/ IoPoll \/ IoStatusFails \/ IoStatus \/ IoCrash \/ IoRespawn \/ BaseRequest
  BY <1>3 DEF IoCommand, IoPoll, IoStatusFails, IoStatus, IoCrash, IoRespawn, BaseRequest,
     IO!Next, Topics
<1>4. CASE BaseDrives \/ BaseArrives
  <2>1. "nav_status" \in IO!Readings
    BY DEF IO!Readings
  <2> QED
    BY <1>4, <2>1 DEF BaseDrives, BaseArrives, IO!Next
<1>5. CASE MasterHears \/ MasterCrash \/ MasterRespawn \/ Match \/ BaseBattery \/ UNCHANGED vars
  <2>1. UNCHANGED io
    BY <1>5 DEF MasterHears, MasterCrash, MasterRespawn, Match, BaseBattery, vars
  <2> QED
    BY <1>1, <2>1
<1> QED
  BY <1>2, <1>3, <1>4, <1>5 DEF Next

(* What reaches the master as a status is one of the base's results.           *)
LEMMA StepLink == LinkTypes /\ [Next]_vars => LinkTypes'
<1> SUFFICES ASSUME LinkTypes, [Next]_vars PROVE LinkTypes'
  OBVIOUS
<1>1. initial' = initial
  BY DEF Next, MasterTimer, Publishes, MasterHears, MasterCrash, MasterRespawn, Match,
     IoCommand, IoPoll, IoStatusFails, IoStatus, IoCrash, IoRespawn,
     BaseDrives, BaseArrives, BaseBattery, BaseRequest, vars, link
<1>2. unread' \in {unread, None, ResOf(nav_status')}
  BY DEF Next, MasterTimer, Publishes, MasterHears, MasterCrash, MasterRespawn, Match,
     IoCommand, IoPoll, IoStatusFails, IoStatus, IoCrash, IoRespawn,
     BaseDrives, BaseArrives, BaseBattery, BaseRequest, vars, link
<1>3. ResOf(nav_status') \in Res
  BY DEF ResOf, Res, LinkTypes
<1> QED
  BY <1>1, <1>2, <1>3 DEF LinkTypes

-------------------------------------------------------------------------------
(* The inductive invariant: those of the two nodes; that each life of the      *)
(* master spends at most one goal; that the base drives only to goals it got;  *)
(* and, in the first life, that what the master holds for an arrival is one.   *)

DownHasCrashed == ~mUp => mCrashes > 0

GoalsSpent ==
    sent["nav"] <=
        mCrashes + IF mUp /\ (fsm_robot = "VEL" \/ sudahterkitim) THEN 1 ELSE 0

BaseFollows == base["nav_status"] <= 2 * GoalsApplied

ResultIsReal ==
    FirstLife /\ (res = 3 \/ unread = 3 \/ fsm_robot = "VEL") => base["nav_status"] = 2

NodesInv == LinkTypes /\ MP!IInv /\ IP!IInv
IInv == NodesInv /\ DownHasCrashed /\ GoalsSpent /\ BaseFollows /\ ResultIsReal

LEMMA NodesInit == Init => NodesInv
<1> SUFFICES ASSUME Init PROVE NodesInv
  OBVIOUS
<1>1. LinkTypes
  BY DEF Init, LinkTypes
<1>2. MP!IInv
  BY Assumptions, SameMaster, MP!InitInv DEF Init, MN!MasterAssumption
<1>3. IP!IInv
  BY Assumptions, SameIo, IP!InitInv DEF Init, IO!IoReemanAssumption
<1> QED
  BY <1>1, <1>2, <1>3 DEF NodesInv

LEMMA NodesStep == NodesInv /\ [Next]_vars => NodesInv'
<1> SUFFICES ASSUME NodesInv, [Next]_vars PROVE NodesInv'
  OBVIOUS
<1>1. LinkTypes'
  BY StepLink DEF NodesInv
<1>2. MP!IInv'
  <2>1. [MP!Next]_(MP!vars)
    BY MasterSteps, SameMaster DEF NodesInv
  <2> QED
    BY <2>1, Assumptions, MP!StepInv DEF NodesInv, MN!MasterAssumption
<1>3. IP!IInv'
  <2>1. [IP!Next]_(IP!vars)
    BY IoSteps, SameIo
  <2> QED
    BY <2>1, Assumptions, IP!StepInv DEF NodesInv, IO!IoReemanAssumption
<1> QED
  BY <1>1, <1>2, <1>3 DEF NodesInv

-------------------------------------------------------------------------------
(* What the invariants of the nodes say of the variables the robot's invariant *)
(* is about.                                                                   *)
LEMMA NodeFacts ==
    ASSUME NodesInv
    PROVE  /\ mCrashes \in Nat /\ mUp \in BOOLEAN /\ sudahterkitim \in BOOLEAN
           /\ fsm_robot \in {"GOTO", "VEL"} /\ ~MN!VelDone
           /\ sent \in [Topics -> Nat] /\ base["nav_status"] \in Nat
           /\ applied \in Seq(IP!Post)
<1>1. /\ mCrashes \in Nat /\ mUp \in BOOLEAN /\ sudahterkitim \in BOOLEAN
      /\ fsm_robot \in {"GOTO", "VEL"} /\ count_step <= 3 /\ count_step \in 0..6
  BY RaisaAssumption DEF NodesInv, MP!IInv, MP!TypeOK, MP!NeverForward
<1>2. /\ sent \in [Topics -> Nat] /\ base["nav_status"] \in Nat /\ applied \in Seq(IP!Post)
  BY RaisaAssumption DEF NodesInv, IP!IInv, IP!TypeOK, IP!Readings
<1> QED
  BY <1>1, <1>2 DEF MN!VelDone

(* The base has accepted no more goals than were published.                    *)
LEMMA GoalsPublished == NodesInv => GoalsApplied \in Nat /\ GoalsApplied <= sent["nav"]
<1> SUFFICES ASSUME NodesInv PROVE GoalsApplied \in Nat /\ GoalsApplied <= sent["nav"]
  OBVIOUS
<1> DEFINE Times == {i \in 1..Len(applied) : applied[i].run = "nav"}
<1>1. IsFiniteSet(Times)
  <2>1. Len(applied) \in Nat
    BY NodeFacts
  <2>2. IsFiniteSet(1..Len(applied))
    BY <2>1, FS_Interval
  <2> QED
    BY <2>2, FS_Subset
<1>2. "nav" \in Topics /\ IP!IInv
  BY DEF Topics, NodesInv
<1>3. IP!Cardinality(Times) <= sent["nav"]
  BY <1>2, Assumptions, IP!NoMoreThanSent DEF IO!IoReemanAssumption
<1>4. IP!Cardinality(Times) = Cardinality(Times)
  BY DEF IP!Cardinality, Cardinality
<1> QED
  BY <1>1, <1>3, <1>4, FS_CardinalityType DEF GoalsApplied

(* Goals that have been accepted stay so.                                      *)
LEMMA GoalsStay ==
    ASSUME NodesInv, [Next]_vars
    PROVE  GoalsApplied' \in Nat /\ GoalsApplied' >= GoalsApplied
<1>1. UNCHANGED applied \/ \E p \in wire : applied' = Append(applied, p)
  <2>1. UNCHANGED applied \/ IO!BaseApply
    BY IoSteps DEF IO!Next, IO!vars, IO!world, IO!Publish, IO!CommandStart, IO!CommandEnd,
       IO!TimerDue, IO!PollStart, IO!PollField, IO!PollNavStatus, IO!Crash, IO!Respawn,
       IO!BaseChange, IO!BaseLose
  <2> QED
    BY <2>1 DEF IO!BaseApply
<1>2. CASE UNCHANGED applied
  BY <1>2, GoalsPublished DEF GoalsApplied
<1>3. ASSUME NEW p \in wire, applied' = Append(applied, p)
      PROVE  GoalsApplied' \in Nat /\ GoalsApplied' >= GoalsApplied
  <2> DEFINE Before == {i \in 1..Len(applied) : applied[i].run = "nav"}
             After  == {i \in 1..Len(applied') : applied'[i].run = "nav"}
  <2>1. /\ Len(applied) \in Nat /\ Len(applied') = Len(applied) + 1
        /\ \A i \in 1..Len(applied) : applied'[i] = applied[i]
    <3>1. applied \in Seq(IP!Post) /\ p \in IP!Post
      BY NodeFacts DEF NodesInv, IP!IInv, IP!TypeOK
    <3> QED
      BY <1>3, <3>1, AppendProperties, LenProperties
  <2>2. Before \subseteq After
    BY <2>1
  <2>3. IsFiniteSet(After)
    <3>1. IsFiniteSet(1..Len(applied'))
      BY <2>1, FS_Interval
    <3> QED
      BY <3>1, FS_Subset
  <2>4. Cardinality(Before) <= Cardinality(After)
    BY <2>2, <2>3, FS_Subset
  <2>5. Cardinality(Before) \in Nat /\ Cardinality(After) \in Nat
    BY <2>2, <2>3, FS_Subset, FS_CardinalityType
  <2> HIDE DEF Before, After
  <2>6. GoalsApplied = Cardinality(Before) /\ GoalsApplied' = Cardinality(After)
    BY DEF GoalsApplied, Before, After
  <2> QED
    BY <2>4, <2>5, <2>6
<1> QED
  BY <1>1, <1>2, <1>3

-------------------------------------------------------------------------------
(* Goals are spent by the master's timer, and each crash earns one.            *)

LEMMA StepSpent == NodesInv /\ GoalsSpent /\ [Next]_vars => GoalsSpent'
<1> SUFFICES ASSUME NodesInv, GoalsSpent, [Next]_vars PROVE GoalsSpent'
  OBVIOUS
<1> DEFINE Spent == mUp /\ (fsm_robot = "VEL" \/ sudahterkitim)
<1>1. mCrashes \in Nat /\ sent["nav"] \in Nat /\ sent \in [Topics -> Nat] /\ ~MN!VelDone
  BY NodeFacts DEF Topics
<1>2. sent["nav"] <= mCrashes + IF Spent THEN 1 ELSE 0
  BY DEF GoalsSpent
<1>3. CASE MasterTimer
  <2>1. /\ mUp /\ UNCHANGED <<mUp, mCrashes>>
        /\ out' = "nav" => ~Spent
        /\ Spent \/ out' = "nav" => Spent'
    <3>1. CASE MN!CancelOnCritical
      BY <3>1 DEF MN!CancelOnCritical, MN!proc, MN!fsm
    <3>2. CASE MN!GotoStep
      BY <3>2 DEF MN!GotoStep, MN!proc, MN!SentFlag
    <3>3. CASE MN!VelStep
      BY <1>1, <3>3 DEF MN!VelStep, MN!VelCommand, MN!proc
    <3> QED
      BY <1>3, <3>1, <3>2, <3>3 DEF MasterTimer, MN!timerRoutine
  <2>2. sent'["nav"] = sent["nav"] \/ (out' = "nav" /\ sent'["nav"] = sent["nav"] + 1)
    <3>1. UNCHANGED sent \/ (out' \in Topics /\ sent' = [sent EXCEPT ![out'] = @ + 1])
      BY <1>3 DEF MasterTimer, Publishes, IO!Publish, io
    <3> QED
      BY <1>1, <3>1 DEF Topics
  <2> HIDE DEF Spent
  <2>3. sent'["nav"] <= mCrashes' + IF Spent' THEN 1 ELSE 0
    BY <1>1, <1>2, <2>1, <2>2
  <2> QED
    BY <2>3 DEF GoalsSpent, Spent
<1>4. CASE MasterCrash
  <2>1. mCrashes' = mCrashes + 1 /\ ~mUp' /\ UNCHANGED sent
    BY <1>4 DEF MasterCrash, MN!StatusThrows, io
  <2> QED
    BY <1>1, <1>2, <2>1 DEF GoalsSpent
<1>5. CASE MasterRespawn
  BY <1>1, <1>2, <1>5 DEF MasterRespawn, MN!Respawn, MN!FreshProcess, io, GoalsSpent
<1>6. CASE MasterHears
  BY <1>6 DEF MasterHears, MN!statusCallback, MN!proc, MN!fsm, io, GoalsSpent
<1>7. CASE Match \/ IoCommand \/ IoPoll \/ IoStatusFails \/ IoStatus \/ IoCrash \/ IoRespawn
           \/ BaseDrives \/ BaseArrives \/ BaseBattery \/ BaseRequest \/ UNCHANGED vars
  <2>1. UNCHANGED master
    BY <1>7 DEF Match, IoCommand, IoPoll, IoStatusFails, IoStatus, IoCrash, IoRespawn,
       BaseDrives, BaseArrives, BaseBattery, BaseRequest, vars
  <2>2. UNCHANGED sent
    BY <1>7 DEF Match, IoCommand, IoPoll, IoStatusFails, IoStatus, IoCrash, IoRespawn,
       BaseDrives, BaseArrives, BaseBattery, BaseRequest, vars, io, IO!topics,
       IO!CommandStart, IO!CommandEnd, IO!TimerDue, IO!PollStart, IO!PollNavStatus,
       IO!Crash, IO!Respawn, IO!BaseChange, IO!BaseApply, IO!BaseLose
  <2> QED
    BY <2>1, <2>2 DEF master, GoalsSpent
<1> QED
  BY <1>3, <1>4, <1>5, <1>6, <1>7 DEF Next

LEMMA StepDown == NodesInv /\ DownHasCrashed /\ [Next]_vars => DownHasCrashed'
<1> SUFFICES ASSUME NodesInv, DownHasCrashed, [Next]_vars PROVE DownHasCrashed'
  OBVIOUS
<1>1. mCrashes \in Nat
  BY NodeFacts
<1>2. [MN!Next]_(MN!vars)
  BY MasterSteps DEF NodesInv
<1>3. CASE MN!StatusThrows
  BY <1>1, <1>3 DEF MN!StatusThrows, DownHasCrashed
<1>4. CASE MN!Respawn
  BY <1>4 DEF MN!Respawn, MN!FreshProcess, DownHasCrashed
<1>5. CASE \/ \E r \in Res : MN!statusCallback(r)
           \/ MN!CancelOnCritical \/ MN!GotoStep \/ MN!VelStep
           \/ (\E b \in {} : MN!callbackBattery(b)) \/ UNCHANGED MN!vars
  BY <1>5 DEF MN!statusCallback, MN!CancelOnCritical, MN!GotoStep, MN!VelStep, MN!vars,
     MN!proc, DownHasCrashed
<1> QED
  BY <1>2, <1>3, <1>4, <1>5 DEF MN!Next

-------------------------------------------------------------------------------
(* The base: two changes of its status for each goal it accepted.              *)

LEMMA BaseSteps ==
    ASSUME NodesInv, [Next]_vars
    PROVE  /\ base["nav_status"] \in Nat
           /\ \/ base'["nav_status"] = base["nav_status"]
              \/ /\ base'["nav_status"] = base["nav_status"] + 1
                 /\ \/ base["nav_status"] < 2 * GoalsApplied
                    \/ base["nav_status"] % 2 = 1
<1>1. base["nav_status"] \in Nat /\ base \in [{"nav_status"} -> 0..MaxBase]
  BY NodeFacts DEF NodesInv, IP!IInv, IP!TypeOK, IP!Readings
<1>2. CASE BaseDrives \/ BaseArrives
  <2>1. base' = [base EXCEPT !["nav_status"] = @ + 1]
    BY <1>2 DEF BaseDrives, BaseArrives, IO!BaseChange
  <2> QED
    BY <1>1, <1>2, <2>1 DEF BaseDrives, BaseArrives
<1>3. CASE ~(BaseDrives \/ BaseArrives)
  <2>1. UNCHANGED base
    BY <1>3 DEF Next, MasterTimer, Publishes, MasterHears, MasterCrash, MasterRespawn,
       Match, IoCommand, IoPoll, IoStatusFails, IoStatus, IoCrash, IoRespawn, BaseBattery,
       BaseRequest, vars, io, IO!world, IO!Publish, IO!CommandStart, IO!CommandEnd,
       IO!TimerDue, IO!PollStart, IO!PollNavStatus, IO!Crash, IO!Respawn, IO!BaseApply,
       IO!BaseLose
  <2> QED
    BY <1>1, <2>1
<1> QED
  BY <1>2, <1>3

LEMMA StepFollows == NodesInv /\ BaseFollows /\ [Next]_vars => BaseFollows'
<1> SUFFICES ASSUME NodesInv, BaseFollows, [Next]_vars PROVE BaseFollows'
  OBVIOUS
<1> DEFINE b == base["nav_status"]
           G == GoalsApplied
<1>1. G \in Nat /\ G' \in Nat /\ G' >= G
  BY GoalsPublished, GoalsStay
<1>2. b \in Nat /\ b <= 2 * G
  BY BaseSteps DEF BaseFollows
<1>3. b' = b \/ (b' = b + 1 /\ (b < 2 * G \/ b % 2 = 1))
  BY BaseSteps
<1> HIDE DEF b, G
<1>4. b % 2 = 1 => b # 2 * G
  BY <1>1, <1>2
<1>5. b' <= 2 * G'
  BY <1>1, <1>2, <1>3, <1>4
<1> QED
  BY <1>5 DEF BaseFollows, b, G

(* In the first life the base gets at most one goal, so its status is 0, 1, 2. *)
FirstGoalOnly ==
    NodesInv /\ GoalsSpent /\ BaseFollows /\ mCrashes = 0 => base["nav_status"] \in 0..2

LEMMA FirstGoal == FirstGoalOnly
<1> SUFFICES ASSUME NodesInv, GoalsSpent, BaseFollows, mCrashes = 0
             PROVE  base["nav_status"] \in 0..2
  BY DEF FirstGoalOnly
<1>1. GoalsApplied \in Nat /\ GoalsApplied <= sent["nav"] /\ sent["nav"] \in Nat
      /\ base["nav_status"] \in Nat
  BY GoalsPublished, NodeFacts DEF Topics
<1>2. sent["nav"] <= 1
  BY <1>1 DEF GoalsSpent
<1>3. GoalsApplied <= 1
  BY <1>1, <1>2
<1> QED
  BY <1>1, <1>3 DEF BaseFollows

LEMMA StepResult ==
    NodesInv /\ DownHasCrashed /\ GoalsSpent /\ BaseFollows /\ ResultIsReal /\ [Next]_vars
        => ResultIsReal'
<1> SUFFICES ASSUME NodesInv, DownHasCrashed, GoalsSpent, BaseFollows, ResultIsReal,
                    [Next]_vars, FirstLife',
                    res' = 3 \/ unread' = 3 \/ fsm_robot' = "VEL"
             PROVE  base'["nav_status"] = 2
  BY DEF ResultIsReal
<1> DEFINE b == base["nav_status"]
           Arrived == res = 3 \/ unread = 3 \/ fsm_robot = "VEL"
<1>1. [MN!Next]_(MN!vars) /\ mCrashes \in Nat /\ mCrashes' \in Nat
  <2>1. [MN!Next]_(MN!vars)
    BY MasterSteps DEF NodesInv
  <2>2. mCrashes' \in Nat
    BY NodesStep, RaisaAssumption DEF NodesInv, MP!IInv, MP!TypeOK
  <2> QED
    BY <2>1, <2>2, NodeFacts
<1>2. FirstLife /\ UNCHANGED <<mUp, mCrashes, first>>
  <2>1. UNCHANGED initial
    BY DEF Next, MasterTimer, Publishes, MasterHears, MasterCrash, MasterRespawn, Match,
       IoCommand, IoPoll, IoStatusFails, IoStatus, IoCrash, IoRespawn,
       BaseDrives, BaseArrives, BaseBattery, BaseRequest, vars, link
  <2>2. CASE MN!StatusThrows \/ MN!Respawn
    <3>1. mCrashes' > 0
      BY <1>1, <2>2 DEF MN!StatusThrows, MN!Respawn, DownHasCrashed
    <3> QED
      BY <3>1 DEF FirstLife
  <2>3. CASE \/ \E r \in Res : MN!statusCallback(r)
             \/ MN!CancelOnCritical \/ MN!GotoStep \/ MN!VelStep
             \/ (\E c \in {} : MN!callbackBattery(c)) \/ UNCHANGED MN!vars
    BY <2>1, <2>3 DEF MN!statusCallback, MN!CancelOnCritical, MN!GotoStep, MN!VelStep,
       MN!vars, MN!proc, MN!history, FirstLife
  <2> QED
    BY <1>1, <2>2, <2>3 DEF MN!Next
<1>3. b \in 0..2 /\ base'["nav_status"] \in 0..2 /\ b <= base'["nav_status"]
  <2>1. b \in 0..2
    BY <1>2, FirstGoal DEF FirstLife, FirstGoalOnly
  <2>2. base'["nav_status"] \in 0..2
    <3>1. NodesInv' /\ GoalsSpent' /\ BaseFollows' /\ mCrashes' = 0
      BY NodesStep, StepSpent, StepFollows DEF FirstLife
    <3>2. FirstGoalOnly'
      BY FirstGoal, PTL
    <3> QED
      BY <3>1, <3>2 DEF FirstGoalOnly
  <2> QED
    BY <2>1, <2>2, BaseSteps
<1>4. Arrived => b = 2
  BY <1>2 DEF ResultIsReal
<1>5. ResOf(b) = 3 => b = 2
  BY <1>2, <1>3 DEF ResOf, FirstLife
<1>6. Arrived \/ ResOf(b) = 3
  <2>1. CASE MasterTimer
    <3>1. UNCHANGED <<res, unread>> /\ (fsm_robot' = "VEL" => Arrived)
      BY <2>1 DEF MasterTimer, Publishes, link, MN!timerRoutine, MN!CancelOnCritical,
         MN!GotoStep, MN!VelStep, MN!Arrived, MN!fsm, MN!heard
    <3> QED
      BY <3>1
  <2>2. CASE MasterHears
    BY <2>2 DEF MasterHears, MN!statusCallback, MN!fsm, None
  <2>3. CASE MasterCrash
    BY <1>2, <2>3 DEF MasterCrash, MN!StatusThrows
  <2>4. CASE MasterRespawn
    BY <1>2, <2>4 DEF MasterRespawn, MN!Respawn, MN!FreshProcess
  <2>5. CASE IoStatus
    BY <2>5 DEF IoStatus, master
  <2>6. CASE Match \/ IoCommand \/ IoPoll \/ IoStatusFails \/ IoCrash \/ IoRespawn
             \/ BaseDrives \/ BaseArrives \/ BaseBattery \/ BaseRequest \/ UNCHANGED vars
    BY <2>6 DEF Match, IoCommand, IoPoll, IoStatusFails, IoCrash, IoRespawn, BaseDrives,
       BaseArrives, BaseBattery, BaseRequest, vars, link, master
  <2> QED
    BY <2>1, <2>2, <2>3, <2>4, <2>5, <2>6 DEF Next
<1> QED
  BY <1>3, <1>4, <1>5, <1>6

-------------------------------------------------------------------------------
LEMMA InitInv == Init => IInv
<1> SUFFICES ASSUME Init PROVE IInv
  OBVIOUS
<1>1. NodesInv
  BY NodesInit
<1>2. DownHasCrashed /\ GoalsSpent
  BY DEF Init, MN!Init, IO!Init, DownHasCrashed, GoalsSpent, Topics
<1>3. BaseFollows
  BY <1>1, GoalsPublished DEF Init, IO!Init, IO!Readings, BaseFollows
<1>4. ResultIsReal
  BY DEF Init, MN!Init, ResultIsReal, FirstLife, None
<1> QED
  BY <1>1, <1>2, <1>3, <1>4 DEF IInv

(* The inductive invariant.                                                    *)
THEOREM Invariance == Spec => []IInv
<1>1. IInv /\ [Next]_vars => IInv'
  BY NodesStep, StepDown, StepSpent, StepFollows, StepResult DEF IInv
<1> QED
  BY InitInv, <1>1, PTL DEF Spec

(* In the robot the master is still the node of Master: nothing the other node *)
(* or the base does moves it, and every status it hears is one Master expects. *)
THEOREM MasterIsMaster == Spec => MN!Spec
<1>1. Init => MN!Init
  BY DEF Init
<1>2. IInv /\ [Next]_vars => [MN!Next]_(MN!vars)
  BY MasterSteps DEF IInv, NodesInv
<1> QED
  BY Invariance, <1>1, <1>2, PTL DEF Spec, MN!Spec

(* So are io_reeman and its base those of IoReeman, whatever the master does.  *)
THEOREM IoIsIoReeman == Spec => IO!Spec
<1>1. Init => IO!Init
  BY DEF Init
<1> QED
  BY IoSteps, <1>1, PTL DEF Spec, IO!Spec

LEMMA SpentOnce == IInv => OneGoalPerLife
<1> SUFFICES ASSUME IInv PROVE OneGoalPerLife
  OBVIOUS
<1>1. /\ GoalsApplied \in Nat /\ GoalsApplied <= sent["nav"]
      /\ sent["nav"] \in Nat /\ mCrashes \in Nat
  BY GoalsPublished, NodeFacts DEF IInv, Topics
<1>2. sent["nav"] <= mCrashes + 1
  BY <1>1 DEF IInv, GoalsSpent
<1> QED
  BY <1>1, <1>2 DEF OneGoalPerLife

(* However often nodes crash and requests time out, the base gets at most one  *)
(* goal for each life of the master (master.cpp:151-153, io_reeman.cpp:185-190).*)
THEOREM GoalsPerLife == Spec => []OneGoalPerLife
BY Invariance, SpentOnce, PTL

(* In the master's first life, with nothing read uninitialised or left over,   *)
(* the turns start only when the base has come to a result on the goal, and it *)
(* stays where it is (master.cpp:157-167).                                     *)
THEOREM StoppedForTurns == Spec => []TurnsOnlyWhenStopped
<1>1. IInv => TurnsOnlyWhenStopped
  BY DEF IInv, ResultIsReal, FirstLife, TurnsOnlyWhenStopped
<1> QED
  BY Invariance, <1>1, PTL

-------------------------------------------------------------------------------
(* The mission.                                                                *)

LEMMA MissionBegins == Init => Told!Init
<1> SUFFICES ASSUME Init PROVE Told!Init
  OBVIOUS
<1>1. mCrashes + 1 = 1 /\ base["nav_status"] = 0 /\ mUp /\ turns = 0
  BY DEF Init, MN!Init, IO!Init, IO!Readings
<1>2. FirstLife \in BOOLEAN
  BY DEF FirstLife
<1> QED
  BY <1>1, <1>2 DEF Told!Init

(* What the master's steps do to its part of the mission.                      *)
LEMMA MasterInMission ==
    ASSUME IInv, [Next]_vars, UNCHANGED base, UNCHANGED initial
    PROVE  [Told!Next]_(Told!vars)
<1> DEFINE t == IF mUp THEN turns ELSE 0
<1>1. /\ mCrashes \in Nat /\ mUp \in BOOLEAN /\ turns \in Nat /\ turns = count_step
      /\ base["nav_status"]' = base["nav_status"]
  BY NodeFacts DEF IInv, NodesInv, MP!IInv, MP!TypeOK, MP!NeverForward
<1>2. [MN!Next]_(MN!vars)
  BY MasterSteps DEF IInv, NodesInv
<1>3. CASE MN!VelStep /\ MN!VelCommand = "turn"
  <2>1. /\ mUp /\ fsm_robot = "VEL" /\ turns < 3 /\ turns' = turns + 1
        /\ UNCHANGED <<mUp, mCrashes, first>>
    BY <1>1, <1>3 DEF MN!VelStep, MN!VelCommand, MN!Forward, MN!proc
  <2>2. (FirstLife => base["nav_status"] = 2) /\ FirstLife' = FirstLife
    BY <2>1 DEF IInv, ResultIsReal, FirstLife
  <2>3. Told!Turn
    BY <1>1, <2>1, <2>2 DEF Told!Turn
  <2> QED
    BY <2>3 DEF Told!Next
<1>4. CASE MN!StatusThrows
  <2>1. mCrashes' = mCrashes + 1 /\ ~mUp'
    BY <1>4 DEF MN!StatusThrows
  <2>2. FirstLife' = FALSE /\ mCrashes' + 1 = (mCrashes + 1) + 1
    BY <1>1, <2>1 DEF FirstLife
  <2>3. Told!StartOver
    BY <1>1, <2>1, <2>2 DEF Told!StartOver
  <2> QED
    BY <2>3 DEF Told!Next
<1>5. CASE MN!Respawn
  <2>1. ~mUp /\ mUp' /\ turns' = 0 /\ mCrashes' = mCrashes
    BY <1>5 DEF MN!Respawn, MN!FreshProcess
  <2>2. FirstLife' = FirstLife
    BY <1>1, <2>1 DEF IInv, DownHasCrashed, FirstLife
  <2> QED
    BY <1>1, <2>1, <2>2 DEF Told!vars
<1>6. CASE \/ \E r \in Res : MN!statusCallback(r)
           \/ MN!CancelOnCritical \/ MN!GotoStep \/ (MN!VelStep /\ MN!VelCommand # "turn")
           \/ (\E b \in {} : MN!callbackBattery(b)) \/ UNCHANGED MN!vars
  <2>1. UNCHANGED <<mUp, mCrashes, first, turns>>
    BY <1>6 DEF MN!statusCallback, MN!CancelOnCritical, MN!GotoStep, MN!VelStep, MN!vars,
       MN!proc, MN!history
  <2>2. FirstLife' = FirstLife
    BY <2>1 DEF FirstLife
  <2> QED
    BY <1>1, <2>1, <2>2 DEF Told!vars
<1> QED
  BY <1>2, <1>3, <1>4, <1>5, <1>6 DEF MN!Next

(* And the base's.                                                             *)
LEMMA BaseInMission ==
    ASSUME IInv, BaseDrives \/ BaseArrives
    PROVE  Told!Next
<1> DEFINE b == base["nav_status"]
<1>1. UNCHANGED <<mUp, mCrashes, first, turns, initial>>
  BY DEF BaseDrives, BaseArrives, master, link
<1>2. FirstLife' = FirstLife
  BY <1>1 DEF FirstLife
<1>3. b \in Nat /\ b' = b + 1
  <2>1. base \in [{"nav_status"} -> 0..MaxBase] /\ b \in Nat
    BY NodeFacts DEF IInv, NodesInv, IP!IInv, IP!TypeOK, IP!Readings
  <2>2. base' = [base EXCEPT !["nav_status"] = @ + 1]
    BY DEF BaseDrives, BaseArrives, IO!BaseChange
  <2> QED
    BY <2>1, <2>2
<1>4. CASE BaseDrives
  <2>1. b % 2 = 0 /\ b < 2 * GoalsApplied
    BY <1>4 DEF BaseDrives
  <2>2. GoalsApplied \in Nat /\ mCrashes \in Nat /\ GoalsApplied <= mCrashes + 1
    BY SpentOnce, NodeFacts, GoalsPublished DEF IInv, OneGoalPerLife
  <2>3. b < 2 * (mCrashes + 1) /\ b % 2 # 1
    BY <1>3, <2>1, <2>2
  <2>4. Told!Drive
    BY <1>1, <1>2, <1>3, <2>3 DEF Told!Drive, Told!Driving
  <2> QED
    BY <2>4 DEF Told!Next
<1>5. CASE BaseArrives
  <2>1. Told!Stop
    BY <1>1, <1>2, <1>3, <1>5 DEF BaseArrives, Told!Stop, Told!Driving
  <2> QED
    BY <2>1 DEF Told!Next
<1> QED
  BY <1>4, <1>5

(* Whatever is lost, late or crashes between the nodes, the robot drives once  *)
(* at most for each life of the master, makes three turns at most, and in the  *)
(* first life only behind a whole drive                                        *)
(* (master.cpp:129-201, io_reeman.cpp:185-218, 339-348).                       *)
THEOREM MissionImplemented == Spec => ImplementsMission
<1>1. IInv /\ [Next]_vars => [Told!Next]_(Told!vars)
  <2> SUFFICES ASSUME IInv, [Next]_vars PROVE [Told!Next]_(Told!vars)
    OBVIOUS
  <2>1. UNCHANGED initial
    BY DEF Next, MasterTimer, Publishes, MasterHears, MasterCrash, MasterRespawn, Match,
       IoCommand, IoPoll, IoStatusFails, IoStatus, IoCrash, IoRespawn,
       BaseDrives, BaseArrives, BaseBattery, BaseRequest, vars, link
  <2>2. UNCHANGED base \/ BaseDrives \/ BaseArrives
    BY DEF Next, MasterTimer, Publishes, MasterHears, MasterCrash, MasterRespawn,
       Match, IoCommand, IoPoll, IoStatusFails, IoStatus, IoCrash, IoRespawn, BaseBattery,
       BaseRequest, vars, io, IO!world, IO!Publish, IO!CommandStart, IO!CommandEnd,
       IO!TimerDue, IO!PollStart, IO!PollNavStatus, IO!Crash, IO!Respawn, IO!BaseApply,
       IO!BaseLose
  <2> QED
    BY <2>1, <2>2, MasterInMission, BaseInMission
<1> QED
  BY Invariance, MissionBegins, <1>1, PTL DEF Spec, ImplementsMission, Told!Spec

===============================================================================
