----------------------------- MODULE Master_proofs -----------------------------
(* Proofs about Master, for any set of statuses, battery levels and crashes.   *)
EXTENDS Master, TLAPS

(* While the node is in GOTO it has made no turn; in VEL the flag is down and  *)
(* an arrival has a cause.                                                     *)
MissionInv ==
    /\ fsm_robot = "GOTO" => count_step = 0
    /\ fsm_robot = "VEL" => ~sudahterkitim
    /\ res \in reported \union {first}

IInv == TypeOK /\ OneGoalPerVisit /\ NeverForward /\ ArrivalHasCause /\ MissionInv

(* What a process looks like when it starts satisfies the invariant.           *)
LEMMA InitInv == Init => IInv
<1> SUFFICES ASSUME Init PROVE IInv
  OBVIOUS
<1>1. up \in BOOLEAN /\ sudahterkitim \in BOOLEAN /\ ~sudahterkitim
  BY DEF Init
<1>2. /\ fsm_robot = "GOTO" /\ count_step = 0 /\ crashes = 0 /\ out = "none"
      /\ res \in Indeterminate /\ battery_ = 100 /\ first = res /\ reported = {}
      /\ goals = 0 /\ turns = 0 /\ forwards = 0
  BY DEF Init
<1> QED
  BY <1>1, <1>2, MasterAssumption DEF IInv, TypeOK, OneGoalPerVisit, NeverForward,
     ArrivalHasCause, MissionInv

(* So does it after every step.                                                *)
LEMMA StepInv == IInv /\ [Next]_vars => IInv'
<1> SUFFICES ASSUME IInv, [Next]_vars PROVE IInv'
  OBVIOUS
<1> USE MasterAssumption DEF IInv, TypeOK, OneGoalPerVisit, NeverForward,
    ArrivalHasCause, MissionInv
<1>1. ASSUME NEW r \in Res, statusCallback(r) PROVE IInv'
  <2>1. res' = r /\ r \in Indeterminate /\ reported' = reported \union {r} /\ out' = "none"
    BY <1>1 DEF statusCallback, Indeterminate
  <2>2. UNCHANGED <<proc, fsm, battery_, first, goals, turns, forwards>>
    BY <1>1 DEF statusCallback
  <2> QED
    BY <2>1, <2>2 DEF proc, fsm
<1>2. CASE StatusThrows
  <2>1. up' \in BOOLEAN /\ crashes' \in 0..MaxCrash
    <3>1. up' \in BOOLEAN
      BY <1>2 DEF StatusThrows
    <3> QED
      BY <1>2, <3>1 DEF StatusThrows
  <2>2. out' = "none" /\ UNCHANGED <<fsm, heard, history>>
    BY <1>2 DEF StatusThrows
  <2> QED
    BY <2>1, <2>2 DEF fsm, heard, history
<1>3. ASSUME NEW b \in Batteries, callbackBattery(b) PROVE IInv'
  BY <1>3 DEF callbackBattery, proc, fsm, history
<1>4. CASE Respawn
  <2>1. up' \in BOOLEAN /\ sudahterkitim' \in BOOLEAN /\ ~sudahterkitim'
    BY <1>4 DEF Respawn, FreshProcess
  <2>2. /\ fsm_robot' = "GOTO" /\ count_step' = 0 /\ crashes' = crashes /\ out' = "none"
        /\ res' \in Indeterminate /\ battery_' = 100 /\ first' = res' /\ reported' = {}
        /\ goals' = 0 /\ turns' = 0 /\ forwards' = 0
    BY <1>4 DEF Respawn, FreshProcess
  <2> QED
    BY <2>1, <2>2
<1>5. CASE CancelOnCritical
  BY <1>5 DEF CancelOnCritical, proc, fsm, heard, history
<1>6. CASE GotoStep
  BY <1>6 DEF GotoStep, Arrived, SentFlag, proc, heard
<1>7. CASE VelStep
  BY <1>7 DEF VelStep, VelCommand, Forward, VelDone, Counted, proc, heard
<1>8. CASE UNCHANGED vars
  BY <1>8 DEF vars, proc, fsm, heard, history
<1> QED
  BY <1>1, <1>2, <1>3, <1>4, <1>5, <1>6, <1>7, <1>8 DEF Next

(* The inductive invariant.                                                    *)
THEOREM Invariance == Spec => []IInv
  BY InitInv, StepInv, PTL DEF Spec

(* Every variable stays within its type (master.cpp:40-54).                    *)
THEOREM TypeCorrect == Spec => []TypeOK
<1>1. IInv => TypeOK
  BY DEF IInv
<1> QED
  BY Invariance, <1>1, PTL

(* At most one goal per visit of GOTO (master.cpp:150-160).                    *)
THEOREM OneGoal == Spec => []OneGoalPerVisit
<1>1. IInv => OneGoalPerVisit
  BY DEF IInv
<1> QED
  BY Invariance, <1>1, PTL

(* The forward leg and the way back to GOTO are unreachable, whatever the base *)
(* reports and however often the node is respawned (master.cpp:163-175).       *)
THEOREM ForwardUnreachable == Spec => []NeverForward
<1>1. IInv => NeverForward
  BY DEF IInv
<1> QED
  BY Invariance, <1>1, PTL

(* An arrival has a cause: a reported 3, or an uninitialised one               *)
(* (master.cpp:53, 157).                                                       *)
THEOREM ArrivalCaused == Spec => []ArrivalHasCause
<1>1. IInv => ArrivalHasCause
  BY DEF IInv
<1> QED
  BY Invariance, <1>1, PTL

(* VEL is absorbing within a process (master.cpp:163-175).                     *)
THEOREM VelAbsorbing == Spec => VelIsForGood
<1>1. IInv /\ [Next]_vars => [fsm_robot = "VEL" /\ up => fsm_robot' = "VEL"]_vars
  <2> SUFFICES ASSUME IInv, Next, fsm_robot = "VEL", up PROVE fsm_robot' = "VEL"
    OBVIOUS
  <2>1. CASE VelStep
    <3>1. ~VelDone
      BY DEF IInv, TypeOK, NeverForward, VelDone
    <3> QED
      BY <2>1, <3>1 DEF VelStep
  <2>2. CASE GotoStep \/ Respawn
    BY <2>2 DEF GotoStep, Respawn
  <2>3. CASE (\E r \in Res : statusCallback(r)) \/ StatusThrows
             \/ (\E b \in Batteries : callbackBattery(b)) \/ CancelOnCritical
    BY <2>3 DEF statusCallback, StatusThrows, callbackBattery, CancelOnCritical, fsm
  <2> QED
    BY <2>1, <2>2, <2>3 DEF Next
<1> QED
  BY Invariance, <1>1, PTL DEF Spec, VelIsForGood
================================================================================
