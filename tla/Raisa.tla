--------------------------------- MODULE Raisa ---------------------------------
(* The running robot: the master node (Master), the io_reeman node (IoReeman)  *)
(* and the base, connected by the topics /cmd/nav, /cmd/cancel_nav and         *)
(* /reeman/nav_status and by HTTP.  A step of this module is a step of one     *)
(* node, together with what its publications do to the other's reader.         *)
(*                                                                             *)
(* /reeman/robot_info reaches the master too, which stores it and never looks  *)
(* at it, so its fields are left out here; of /reeman/battery, which it does   *)
(* look at, io_reeman only ever creates the publisher (io_reeman.cpp:119):     *)
(* callbackBattery is not a step.                                              *)
EXTENDS Integers, Sequences, FiniteSets

CONSTANTS MaxSample,      \* bounds: samples on the command topics,
          MaxBase,        \*   changes of the base's nav_status,
          MaxCrash        \*   crashes of the two nodes together

ASSUME RaisaAssumption == MaxSample \in Nat /\ MaxBase \in Nat /\ MaxCrash \in Nat

VARIABLES
    mUp, mCrashes, fsm_robot, count_step, sudahterkitim, res, battery_, out,
    first, reported, goals, turns, forwards,              \* the master
    ioUp, ioCrashes, sent, cmds, due, slot, got, robot, info, nav_status,
    base, wire, applied, unconfirmed, posted, asked,      \* io_reeman, the base
    critical,    \* is the base's battery between 1 and 19 percent?
    initial,     \* the base's "res" at the start: 6, or 3 left by an earlier goal
    matched,     \* have the nodes' readers and writers discovered each other?
    unread,      \* the master's unread nav_status, by its "res", or None
    missed       \* history: was a command published while not matched?

master == <<mUp, mCrashes, fsm_robot, count_step, sudahterkitim, res, battery_,
            out, first, reported, goals, turns, forwards>>
io     == <<ioUp, ioCrashes, sent, cmds, due, slot, got, robot, info,
            nav_status, base, wire, applied, unconfirmed, posted, asked>>
link   == <<critical, initial, matched, unread, missed>>
vars   == <<master, io, link>>

Topics == {"nav", "cancel_nav"}
Res    == {1, 3, 6}
None   == 0

MN == INSTANCE Master WITH up <- mUp, crashes <- mCrashes,
                           Batteries <- {}
IO == INSTANCE IoReeman WITH up <- ioUp, crashes <- ioCrashes,
                             Fields <- {}

Init ==
    /\ MN!Init /\ IO!Init
    /\ critical = FALSE /\ initial \in {3, 6}
    /\ matched = FALSE /\ unread = None /\ missed = FALSE

-------------------------------------------------------------------------------
(* The base's navigation.  Its nav_status reading counts: odd while it drives  *)
(* to a goal ("res" is 1), even when it has come to a result ("res" is 3).     *)
ResOf(n) == IF n = 0 THEN initial ELSE IF n % 2 = 1 THEN 1 ELSE 3

GoalsApplied == Cardinality({i \in 1..Len(applied) : applied[i].run = "nav"})

BaseDrives ==
    /\ base["nav_status"] % 2 = 0
    /\ base["nav_status"] < 2 * GoalsApplied
    /\ IO!BaseChange("nav_status")
    /\ UNCHANGED <<master, link>>

BaseArrives ==
    /\ base["nav_status"] % 2 = 1
    /\ IO!BaseChange("nav_status")
    /\ UNCHANGED <<master, link>>

(* The battery gets critical, for good.                                        *)
BaseBattery ==
    /\ ~critical /\ critical' = TRUE
    /\ UNCHANGED <<master, io, initial, matched, unread, missed>>

-------------------------------------------------------------------------------
(* Discovery: until a publisher and a reader have matched, samples are lost.   *)
Match ==
    /\ ~matched /\ mUp /\ ioUp
    /\ matched' = TRUE
    /\ UNCHANGED <<master, io, critical, initial, unread, missed>>

Publishes(t) ==
    IF matched
    THEN IO!Publish(t) /\ UNCHANGED link
    ELSE /\ missed' = TRUE
         /\ UNCHANGED <<io, critical, initial, matched, unread>>

MasterTimer ==
    /\ MN!timerRoutine
    /\ IF out' \in Topics THEN Publishes(out') ELSE UNCHANGED <<io, link>>

MasterHears ==
    /\ unread # None
    /\ MN!statusCallback(unread)
    /\ unread' = None
    /\ UNCHANGED <<io, critical, initial, matched, missed>>

(* With a node go its readers and writers; a new one has to be discovered.     *)
MasterCrash ==
    /\ mCrashes + ioCrashes < MaxCrash /\ MN!StatusThrows
    /\ matched' = FALSE /\ unread' = None
    /\ UNCHANGED <<io, critical, initial, missed>>

MasterRespawn == MN!Respawn /\ UNCHANGED <<io, link>>

(* Steps of io_reeman that publish nothing to the master.                      *)
IoCommand == (IO!CommandStart("nav") \/ IO!CommandEnd) /\ UNCHANGED <<master, link>>

IoPoll ==
    /\ IO!TimerDue \/ IO!PollStart
    /\ UNCHANGED <<master, link>>

(* The GET of nav_status fails, or its reply is published to the master.       *)
IoStatusFails ==
    /\ nav_status' = nav_status /\ IO!PollNavStatus
    /\ UNCHANGED <<master, link>>

IoStatus ==
    /\ nav_status' = base["nav_status"] /\ IO!PollNavStatus
    /\ unread' = IF matched THEN ResOf(nav_status') ELSE unread
    /\ UNCHANGED <<master, critical, initial, matched, missed>>

IoCrash ==
    /\ mCrashes + ioCrashes < MaxCrash /\ IO!Crash
    /\ matched' = FALSE
    /\ UNCHANGED <<master, critical, initial, unread, missed>>

IoRespawn == IO!Respawn /\ UNCHANGED <<master, link>>

BaseRequest == (IO!BaseApply \/ IO!BaseLose) /\ UNCHANGED <<master, link>>

-------------------------------------------------------------------------------
Next == \/ MasterTimer \/ MasterHears \/ MasterCrash \/ MasterRespawn \/ Match
        \/ IoCommand \/ IoPoll \/ IoStatusFails \/ IoStatus \/ IoCrash \/ IoRespawn
        \/ BaseDrives \/ BaseArrives \/ BaseBattery \/ BaseRequest

Spec == Init /\ [][Next]_vars

(* As in the two nodes; and the base drives to the goals it has accepted and,  *)
(* asked for its status again and again, does answer.                          *)
FairSpec ==
    /\ Spec
    /\ WF_vars(MasterTimer) /\ SF_vars(MasterHears) /\ WF_vars(MasterRespawn)
    /\ WF_vars(Match) /\ WF_vars(IoRespawn)
    /\ SF_vars(IO!CommandStart("nav") /\ ~due /\ UNCHANGED <<master, link>>)
    /\ WF_vars(IO!CommandEnd /\ UNCHANGED <<master, link>>)
    /\ WF_vars(IO!TimerDue /\ UNCHANGED <<master, link>>)
    /\ SF_vars(IO!PollStart /\ UNCHANGED <<master, link>>)
    /\ WF_vars(IoStatus \/ IoStatusFails) /\ SF_vars(IoStatus)
    /\ WF_vars(IO!BaseApply /\ UNCHANGED <<master, link>>)
    /\ WF_vars(BaseDrives) /\ WF_vars(BaseArrives)

-------------------------------------------------------------------------------
(* Properties.                                                                 *)

(* However often nodes crash and requests time out, the base gets at most one  *)
(* goal for each life of the master: io_reeman never retries a POST, and the   *)
(* master never repeats a goal (master.cpp:151-153, io_reeman.cpp:185-190).    *)
OneGoalPerLife == GoalsApplied <= mCrashes + 1

(* In the master's first life, with res not read uninitialised and no result   *)
(* left over in the base, the turns start only when the base has come to a     *)
(* result on the goal, and it stays where it is (master.cpp:157-167).          *)
FirstLife == mCrashes = 0 /\ first # 3 /\ initial # 3
TurnsOnlyWhenStopped == fsm_robot = "VEL" /\ FirstLife => base["nav_status"] = 2

(* The robot does what Mission says: whatever is lost, late or crashes between *)
(* the nodes, it drives once at most for each life of the master, makes three  *)
(* turns at most, and in the first life only behind a whole drive              *)
(* (master.cpp:129-201, io_reeman.cpp:185-218, 339-348).                       *)
Told == INSTANCE Mission WITH
            lives <- mCrashes + 1,
            sure  <- FirstLife,
            legs  <- base["nav_status"],
            turns <- IF mUp THEN turns ELSE 0
ImplementsMission == Told!Spec

(* Unless a node crashes, a POST fails, the goal was published to nobody, or   *)
(* polls overrun their period for ever, the mission gets through its turns     *)
(* (master.cpp:150-167).                                                       *)
MissionProceeds ==
    \/ <>(\/ turns = 3
          \/ missed \/ unconfirmed \/ mCrashes > 0 \/ ioCrashes > 0)
    \/ IO!PollsOverrun

(* master.cpp:134 says "Battery critical -> cancel navigation.": once the      *)
(* base's battery is critical and stays so, navigation is cancelled.           *)
CriticalBatteryCancels == critical ~> sent["cancel_nav"] > 0
===============================================================================
