-------------------------------- MODULE Master --------------------------------
(* The mission node: MasterNode's callbacks and its 1 s timer, all run by one  *)
(* single-threaded executor, so each is one step.  The state machine is to     *)
(* drive to a goal (GOTO), then to make a scripted move (VEL).  A nav_status   *)
(* without "res" throws out of the callback; the launch file respawns the node.*)
EXTENDS Integers

CONSTANTS Res,         \* the values of "res" the base reports
          Batteries,   \* the battery levels published
          MaxCrash     \* bound: nav_status messages without "res"

ASSUME MasterAssumption ==
    3 \in Res /\ Res \subseteq Int /\ Batteries \subseteq Int /\ MaxCrash \in Nat

VARIABLES
    up,              \* is the process running?
    crashes,
    fsm_robot,       \* "GOTO" or "VEL"
    count_step,
    sudahterkitim,   \* "already sent"
    res,
    battery_,
    out,             \* what the last step published, "none" if nothing
    first,           \* history: what res held when the process started
    reported,        \* history: the values of res heard since then
    goals,           \* history: goals published since it last entered GOTO
    turns, forwards  \* history: velocities published since the process started

proc    == <<up, crashes>>
fsm     == <<fsm_robot, count_step, sudahterkitim>>
heard   == <<res, battery_>>
history == <<first, reported, goals, turns, forwards>>
vars    == <<proc, fsm, heard, out, history>>

(* `int res;` has no initialiser: it holds whatever the heap held.             *)
Indeterminate == Res \union {0}

FreshProcess ==
    /\ up' = TRUE
    /\ fsm_robot' = "GOTO" /\ count_step' = 0 /\ sudahterkitim' = FALSE
    /\ res' \in Indeterminate /\ battery_' = 100
    /\ out' = "none"
    /\ first' = res' /\ reported' = {} /\ goals' = 0
    /\ turns' = 0 /\ forwards' = 0

Init ==
    /\ up = TRUE /\ crashes = 0
    /\ fsm_robot = "GOTO" /\ count_step = 0 /\ sudahterkitim = FALSE
    /\ res \in Indeterminate /\ battery_ = 100
    /\ out = "none"
    /\ first = res /\ reported = {} /\ goals = 0
    /\ turns = 0 /\ forwards = 0

-------------------------------------------------------------------------------
(* Subscriptions.  callbackRobotInfo, ...Pose and ...Mode only store a sample  *)
(* that nothing reads, so they change nothing here.                            *)

statusCallback(r) ==
    /\ up
    /\ res' = r
    /\ reported' = reported \union {r}
    /\ out' = "none"
    /\ UNCHANGED <<proc, fsm, battery_, first, goals, turns, forwards>>

(* parse() or ["res"] throws: the process dies.                                *)
StatusThrows ==
    /\ up /\ crashes < MaxCrash
    /\ up' = FALSE /\ crashes' = crashes + 1
    /\ out' = "none"
    /\ UNCHANGED <<fsm, heard, history>>

callbackBattery(b) ==
    /\ up
    /\ battery_' = b
    /\ out' = "none"
    /\ UNCHANGED <<proc, fsm, res, history>>

Respawn == ~up /\ FreshProcess /\ UNCHANGED crashes

-------------------------------------------------------------------------------
(* timerRoutine.                                                               *)

Critical == battery_ > 0 /\ battery_ < 20

CancelOnCritical ==
    /\ up /\ Critical
    /\ out' = "cancel_nav"
    /\ UNCHANGED <<proc, fsm, heard, history>>

FlagNotSet == FALSE                                     \* slip: flag left alone
SentFlag == TRUE

NotMoving == res # 1                    \* slip: anything but "under way"
Cancelled == res = 4                    \* slip: the wrong code
Arrived == res = 3

(* case GOTO: one goal per visit, and the test of res on the very same tick.   *)
GotoStep ==
    /\ up /\ ~Critical /\ fsm_robot = "GOTO"
    /\ out' = IF sudahterkitim THEN "none" ELSE "nav"
    /\ goals' = IF Arrived THEN 0 ELSE goals + (IF sudahterkitim THEN 0 ELSE 1)
    /\ fsm_robot' = IF Arrived THEN "VEL" ELSE "GOTO"
    /\ sudahterkitim' = IF Arrived THEN FALSE ELSE SentFlag
    /\ UNCHANGED <<proc, count_step, heard, first, reported, turns, forwards>>

Forward == count_step >= 4 /\ count_step < 6

VelDone == count_step >= 6

Counted == count_step + 1

(* case VEL: an else-if chain, in which count_step = 3 finds no branch: the    *)
(* forward leg and the way back to GOTO are written, but never reached.        *)
TwoTurns ==                                             \* slip: < 2, not < 3
    IF count_step < 2 THEN "turn" ELSE IF Forward THEN "forward" ELSE "none"
VelCommand == IF count_step < 3 THEN "turn" ELSE IF Forward THEN "forward" ELSE "none"

VelStep ==
    /\ up /\ ~Critical /\ fsm_robot = "VEL"
    /\ out' = VelCommand
    /\ turns' = IF VelCommand = "turn" THEN turns + 1 ELSE turns
    /\ forwards' = IF VelCommand = "forward" THEN forwards + 1 ELSE forwards
    /\ count_step' = IF VelCommand = "none" THEN count_step ELSE Counted
    /\ fsm_robot' = IF VelCommand = "none" /\ VelDone THEN "GOTO" ELSE "VEL"
    /\ UNCHANGED <<proc, sudahterkitim, heard, first, reported, goals>>

timerRoutine == CancelOnCritical \/ GotoStep \/ VelStep

-------------------------------------------------------------------------------
Next == \/ \E r \in Res : statusCallback(r)
        \/ StatusThrows
        \/ \E b \in Batteries : callbackBattery(b)
        \/ Respawn
        \/ CancelOnCritical \/ GotoStep \/ VelStep

Spec == Init /\ [][Next]_vars

(* The timer comes round every second, and ros2 launch respawns the node.      *)
FairSpec == Spec /\ WF_vars(timerRoutine) /\ WF_vars(Respawn)
-------------------------------------------------------------------------------
(* Properties.                                                                 *)

TypeOK ==
    /\ up \in BOOLEAN /\ crashes \in 0..MaxCrash
    /\ fsm_robot \in {"GOTO", "VEL"} /\ count_step \in 0..6
    /\ sudahterkitim \in BOOLEAN
    /\ res \in Indeterminate /\ first \in Indeterminate /\ reported \subseteq Res
    /\ battery_ \in Batteries \union {100}
    /\ out \in {"none", "nav", "turn", "forward", "cancel_nav"}
    /\ goals \in Nat /\ turns \in Nat /\ forwards \in Nat

(* However statuses, battery samples and ticks interleave, the goal goes out   *)
(* at most once per visit of GOTO, and sudahterkitim says whether it did       *)
(* (master.cpp:150-160).                                                       *)
OneGoalPerVisit == goals <= 1 /\ (sudahterkitim <=> goals = 1)

(* What the code does, and evidently not what it was written for: count_step 3 *)
(* falls between the branches, so the move stops after its third turn, no      *)
(* forward velocity is ever published and no step leads back to GOTO           *)
(* (master.cpp:163-175).                                                       *)
NeverForward == forwards = 0 /\ turns = count_step /\ count_step <= 3

(* Within one process VEL is for good (master.cpp:163-175).                    *)
VelIsForGood == [][fsm_robot = "VEL" /\ up => fsm_robot' = "VEL"]_vars

(* The node takes itself to have arrived only if res once was 3 in this        *)
(* process: reported by the base, or read uninitialised (master.cpp:53, 157).  *)
ArrivalHasCause == fsm_robot = "VEL" => 3 \in reported \union {first}

(* Once arrived, the node makes its three turns, however often the battery     *)
(* guard steps in between, unless it steps in for ever or the node crashes     *)
(* (master.cpp:132-139, 163-167).                                              *)
TurnsAreMade == (fsm_robot = "VEL" ~> (turns = 3 \/ ~up)) \/ []<>Critical
===============================================================================
