------------------------------- MODULE Ds4_proofs ------------------------------
(* Proofs about Ds4, for any number of pads and of feedback messages.          *)
EXTENDS Ds4, TLAPS

(* Feedbacks, and with them timers, count from 1, and so do pads.              *)
TaskIsNumbered == task.kind # "none" => task.id # 0
PadIsNumbered  == pc["main"] \in {"setup", "watch"} => found # 0

(* While main runs, the pad not yet in self.device is the one being set up;    *)
(* self.device holds only pads it has taken.                                   *)
SetUp ==
    /\ pc["main"] = "setup" => found \notin taken
    /\ pc["main"] \in {"wait", "watch", "start"} => found \in taken \union {None}
    /\ device \in taken \union {None}

(* Until SIGINT main only waits and sets up; after it, it never does again.    *)
MainRuns == pc["main"] \in {"wait", "setup", "watch", "start"} => ~signalled

(* Up to SIGINT only the loop closes pads, so that with one pad at a time the  *)
(* device is there all the while its report is read and it is cleaned up.      *)
InUse ==
    ~overlap /\ ~signalled =>
        /\ running
        /\ pc["main"] \in {"wait", "setup", "watch", "start"}
        /\ pc["loop"] \in {"off", "poll", "read", "cleanup", "remove", "close", "clear"}
        /\ pc["main"] = "watch" =>
              device = found /\ device # None /\ watched = {} /\ pc["loop"] \in {"off", "poll"}
        /\ pc["loop"] \notin {"off", "poll"} => device # None
        /\ Untaken \ {None} \subseteq open
        /\ pc["loop"] # "clear" => open = ({device} \union Untaken) \ {None}
        /\ watched \subseteq IF pc["loop"] \in {"close", "clear"} THEN {} ELSE {device}

(* Who forgets the device has closed it.                                       *)
ClosedFirst ==
    ~overlap =>
        /\ open \subseteq ({device} \union Untaken) \ {None}
        /\ pc["loop"] = "clear" \/ pc["main"] \in {"clear", "stop", "join", "done"}
              => open \subseteq Untaken

IInv == TypeOK /\ TaskIsNumbered /\ PadIsNumbered /\ SetUp /\ MainRuns /\ InUse /\ ClosedFirst

-------------------------------------------------------------------------------
(* Types.                                                                      *)

LEMMA InitInv == Init => IInv
<1> SUFFICES ASSUME Init PROVE IInv
    OBVIOUS
<1>1. running \in BOOLEAN /\ running
    BY DEF Init
<1>2. ok \in BOOLEAN
    BY DEF Init
<1>3. signalled \in BOOLEAN /\ ~signalled
    BY DEF Init
<1>4. overlap \in BOOLEAN
    BY DEF Init
<1>5. pc \in [{"main", "loop", "spin"} -> Places] /\ pc["main"] = "wait" /\ pc["loop"] = "off"
    BY DEF Init, Places
<1>6. TypeOK
    BY <1>1, <1>2, <1>3, <1>4, <1>5, Ds4Assumption DEF Init, TypeOK, Nobody, None, Pads
<1> QED
    BY <1>1, <1>3, <1>5, <1>6
    DEF Init, IInv, TaskIsNumbered, PadIsNumbered, SetUp, Nobody, None, MainRuns, InUse,
       ClosedFirst, Untaken

(* The threads' places.                                                        *)
LEMMA GotoType ==
    ASSUME TypeOK, NEW t \in {"main", "loop", "spin"}, NEW place \in Places, Goto(t, place)
    PROVE  /\ pc' \in [{"main", "loop", "spin"} -> Places] /\ pc'[t] = place
           /\ \A u \in {"main", "loop", "spin"} \ {t} : pc'[u] = pc[u]
BY DEF Goto, TypeOK

TypeInv == TypeOK /\ TaskIsNumbered

(* The world, and main but for the clean-up.                                   *)
LEMMA MainType ==
    ASSUME TypeInv, PadIsNumbered,
           \/ \E p \in Pads : Unplug(p) \/ PadStops(p)
           \/ Signal \/ PadFound \/ SetDevice \/ AddWatcher \/ Start \/ Exit \/ StopLoop \/ Join
    PROVE  TypeInv'
<1> USE DEF TypeInv, TypeOK, past
<1>1. ASSUME NEW p \in Pads, Unplug(p) \/ PadStops(p) PROVE TypeInv'
    <2>1. plugged' \subseteq plugged
        BY <1>1 DEF Unplug, PadStops, pads
    <2>2. rumble' = [rumble EXCEPT ![p] = 0]
        BY <1>1 DEF Unplug, PadStops
    <2>3. rumble' \in [Pads -> 0..MaxFeedback]
        BY <2>2, Ds4Assumption
    <2> QED
        BY <1>1, <2>1, <2>3 DEF Unplug, PadStops, pads, shared, spin, TaskIsNumbered
<1>2. CASE Signal
    <2>1. pc' \in [{"main", "loop", "spin"} -> Places]
        BY <1>2 DEF Signal, Goto, Places
    <2>2. signalled' \in BOOLEAN
        BY <1>2 DEF Signal
    <2> QED
        BY <1>2, <2>1, <2>2 DEF Signal, pads, shared, spin, TaskIsNumbered
<1>3. CASE PadFound
    <2>1. pc' \in [{"main", "loop", "spin"} -> Places]
        BY <1>3 DEF PadFound, Goto, Places
    <2>2. taken' = taken /\ overlap' = overlap
        BY <1>3 DEF PadFound, past
    <2>3. found' \in 0..MaxPads /\ found' = found + 1 /\ found \in Nat
        BY <1>3, Ds4Assumption DEF PadFound
    <2>4. /\ plugged' \subseteq 1..found' /\ open' \subseteq 1..found'
          /\ watched' \subseteq 1..found' /\ device' \in 0..found'
          /\ taken' \subseteq 1..found'
        BY <1>3, <2>2, <2>3 DEF PadFound
    <2> QED
        BY <1>3, <2>1, <2>2, <2>3, <2>4 DEF PadFound, spin, TaskIsNumbered
<1>8. CASE SetDevice
    <2>1. pc' \in [{"main", "loop", "spin"} -> Places]
        BY <1>8 DEF SetDevice, Goto, Places
    <2>2. overlap' \in BOOLEAN
        <3>1. overlap' = (overlap \/ device # None)
            BY <1>8 DEF SetDevice
        <3> QED
            BY <3>1
    <2>3. device' \in 0..found /\ taken' \subseteq 1..found
        BY <1>8, Ds4Assumption DEF SetDevice, PadIsNumbered
    <2> QED
        BY <1>8, <2>1, <2>2, <2>3 DEF SetDevice, pads, spin, TaskIsNumbered
<1>4. CASE AddWatcher
    <2>1. pc' \in [{"main", "loop", "spin"} -> Places]
        BY <1>4 DEF AddWatcher, Goto, Places
    <2>2. watched' \subseteq 1..found
        BY <1>4, Ds4Assumption DEF AddWatcher, PadIsNumbered
    <2> QED
        BY <1>4, <2>1, <2>2 DEF AddWatcher, pads, spin, TaskIsNumbered
<1>5. CASE Start \/ Exit
    <2>1. pc' \in [{"main", "loop", "spin"} -> Places]
        BY <1>5 DEF Start, Exit, IfInUse, Goto, Dies, Places
    <2> QED
        BY <1>5, <2>1 DEF Start, Exit, pads, shared, spin, TaskIsNumbered
<1>6. CASE StopLoop
    <2>1. pc' \in [{"main", "loop", "spin"} -> Places]
        BY <1>6 DEF StopLoop, Goto, Places
    <2>2. running' \in BOOLEAN
        BY <1>6 DEF StopLoop, Stopped
    <2> QED
        BY <1>6, <2>1, <2>2 DEF StopLoop, pads, spin, TaskIsNumbered
<1>7. CASE Join
    <2>1. pc' \in [{"main", "loop", "spin"} -> Places]
        BY <1>7 DEF Join, Goto, Places
    <2>2. ok' \in BOOLEAN
        BY <1>7 DEF Join
    <2> QED
        BY <1>7, <2>1, <2>2 DEF Join, pads, shared, spin, TaskIsNumbered
<1> QED
    BY <1>1, <1>2, <1>3, <1>4, <1>5, <1>6, <1>7, <1>8

(* The event loop, and the clean-up by either thread.                          *)
LEMMA LoopType ==
    ASSUME TypeInv,
           Poll \/ read_report \/ \E t \in {"main", "loop"} : cleanup_device(t)
    PROVE  TypeInv'
<1> USE DEF TypeInv, TypeOK, past
<1>1. CASE Poll \/ read_report
    <2>1. pc' \in [{"main", "loop", "spin"} -> Places]
        BY <1>1 DEF Poll, read_report, OnDisconnect, Goto, Dies, Places
    <2> QED
        BY <1>1, <2>1 DEF Poll, read_report, pads, shared, spin, TaskIsNumbered
<1>2. ASSUME NEW t \in {"main", "loop"}, cleanup_device(t) PROVE TypeInv'
    <2>1. pc' \in [{"main", "loop", "spin"} -> Places]
        BY <1>2 DEF cleanup_device, CleanupCheck, RemoveWatcher, Close, Clear, After,
           Goto, Dies, Places
    <2>2. /\ open' \subseteq open /\ watched' \subseteq watched
          /\ device' \in {device, None} /\ running' = running
        BY <1>2 DEF cleanup_device, CleanupCheck, RemoveWatcher, Close, Clear, Closed,
           Unwatched, shared
    <2>3. UNCHANGED <<pads, ok, signalled, spin, rumble, past>>
        BY <1>2 DEF cleanup_device, CleanupCheck, RemoveWatcher, Close, Clear
    <2> QED
        BY <2>1, <2>2, <2>3 DEF pads, spin, None, TaskIsNumbered
<1> QED
    BY <1>1, <1>2

(* The ROS side.                                                               *)
LEMMA SpinType ==
    ASSUME TypeInv,
           \/ \E kind \in {"led", "rumble", "timed"} : Feedback(kind)
           \/ \E n \in timers : TimerFires(n)
           \/ Spin
    PROVE  TypeInv'
<1> USE DEF TypeInv, TypeOK, past
<1>1. ASSUME NEW kind \in {"led", "rumble", "timed"}, Feedback(kind) PROVE TypeInv'
    <2>1. pc' \in [{"main", "loop", "spin"} -> Places]
        BY <1>1 DEF Feedback, Goto, Places
    <2>2. feedbacks' \in 0..MaxFeedback /\ feedbacks' = feedbacks + 1 /\ feedbacks \in Nat
        BY <1>1, Ds4Assumption DEF Feedback
    <2>3. \/ task' = task
          \/ task' = [kind |-> kind, id |-> feedbacks']
        BY <1>1 DEF Feedback
    <2>4. task' \in [kind : {"none", "led", "rumble", "timed", "stop"}, id : 0..feedbacks']
        BY <2>2, <2>3
    <2>5. TaskIsNumbered'
        BY <2>2, <2>3 DEF TaskIsNumbered
    <2>6. timers' \subseteq 1..feedbacks' /\ stop_rumble_timer' \in timers' \union {None}
        BY <1>1, <2>2 DEF Feedback
    <2> QED
        BY <1>1, <2>1, <2>2, <2>4, <2>5, <2>6 DEF Feedback, pads, shared
<1>2. ASSUME NEW n \in timers, TimerFires(n) PROVE TypeInv'
    <2>1. pc' \in [{"main", "loop", "spin"} -> Places]
        BY <1>2 DEF TimerFires, Goto, Places
    <2>2. task' = [kind |-> "stop", id |-> n] /\ n \in 1..feedbacks
        BY <1>2 DEF TimerFires
    <2>3. task' \in [kind : {"none", "led", "rumble", "timed", "stop"}, id : 0..feedbacks]
        BY <2>2
    <2>4. TaskIsNumbered'
        BY <2>2 DEF TaskIsNumbered
    <2> QED
        BY <1>2, <2>1, <2>3, <2>4 DEF TimerFires, pads, shared
<1>3. CASE Check \/ SpinEnds
    <2>1. pc' \in [{"main", "loop", "spin"} -> Places]
        BY <1>3 DEF Check, SpinEnds, Goto, Places
    <2> QED
        BY <1>3, <2>1 DEF Check, SpinEnds, pads, shared, spin, TaskIsNumbered
<1>4. CASE Write
    <2>1. pc' \in [{"main", "loop", "spin"} -> Places]
        BY <1>4 DEF Write, Goto, Dies, Places
    <2>2. RumbleOrZero \in 0..MaxFeedback
        BY Ds4Assumption DEF RumbleOrZero
    <2>3. rumble' \in [Pads -> 0..MaxFeedback]
        BY <1>4, <2>2 DEF Write
    <2> QED
        BY <1>4, <2>1, <2>3 DEF Write, pads, shared, spin, TaskIsNumbered
<1>5. CASE End
    <2>1. pc' \in [{"main", "loop", "spin"} -> Places]
        BY <1>5 DEF End, Goto, Places
    <2>2. task' \in [kind : {"none", "led", "rumble", "timed", "stop"}, id : 0..feedbacks]
        BY <1>5 DEF End, Nobody
    <2>3. TaskIsNumbered'
        BY <1>5 DEF End, Nobody, TaskIsNumbered
    <2>4. CASE task.kind = "timed"
        <3>1. task.id \in 1..feedbacks
            BY <2>4 DEF TaskIsNumbered
        <3>2. timers' = timers \union {task.id} /\ stop_rumble_timer' = task.id
            BY <1>5, <2>4 DEF End
        <3> QED
            BY <1>5, <2>1, <2>2, <2>3, <3>1, <3>2 DEF End, pads, shared
    <2>5. CASE task.kind = "stop"
        <3>1. timers' \subseteq timers /\ stop_rumble_timer' = None
            BY <1>5, <2>5 DEF End, Reset
        <3> QED
            BY <1>5, <2>1, <2>2, <2>3, <3>1 DEF End, pads, shared
    <2>6. CASE task.kind \notin {"timed", "stop"}
        <3>1. timers' = timers /\ stop_rumble_timer' = stop_rumble_timer
            BY <1>5, <2>6 DEF End
        <3> QED
            BY <1>5, <2>1, <2>2, <2>3, <3>1 DEF End, pads, shared
    <2> QED
        BY <2>4, <2>5, <2>6
<1> QED
    BY <1>1, <1>2, <1>3, <1>4, <1>5 DEF Spin

LEMMA StepType == TypeInv /\ PadIsNumbered /\ [Next]_vars => TypeInv'
<1> SUFFICES ASSUME TypeInv, PadIsNumbered, [Next]_vars PROVE TypeInv'
    OBVIOUS
<1>1. CASE UNCHANGED vars
    BY <1>1 DEF vars, pads, shared, spin, past, TypeInv, TypeOK, TaskIsNumbered
<1> QED
    BY <1>1, MainType, LoopType, SpinType DEF Next, Main, Loop

-------------------------------------------------------------------------------
(* One pad at a time.                                                          *)

padVars == <<found, open, device, watched, running, signalled, taken, overlap>>
PadInv  == PadIsNumbered /\ SetUp /\ MainRuns /\ InUse /\ ClosedFirst

(* Steps that only concern the world or the thread of rclpy.spin.              *)
LEMMA OthersKeepPads ==
    ASSUME TypeOK, PadInv, UNCHANGED padVars,
           pc'["main"] = pc["main"], pc'["loop"] = pc["loop"]
    PROVE  PadInv'
BY DEF padVars, PadInv, PadIsNumbered, SetUp, MainRuns, InUse, ClosedFirst, Untaken

LEMMA SpinKeepsPads ==
    ASSUME TypeOK, PadInv,
           \/ \E p \in Pads : Unplug(p) \/ PadStops(p)
           \/ \E kind \in {"led", "rumble", "timed"} : Feedback(kind)
           \/ \E n \in timers : TimerFires(n)
           \/ Spin \/ UNCHANGED vars
    PROVE  PadInv'
<1>1. pc'["main"] = pc["main"] /\ pc'["loop"] = pc["loop"]
    BY DEF TypeOK, Unplug, PadStops, Feedback, TimerFires, Spin, Check, Write, End,
       SpinEnds, Goto, Dies, vars
<1>2. UNCHANGED padVars
    BY DEF Unplug, PadStops, Feedback, TimerFires, Spin, Check, Write, End,
       SpinEnds, vars, pads, shared, past, padVars
<1> QED
    BY <1>1, <1>2, OthersKeepPads

LEMMA MainKeepsPads ==
    ASSUME TypeOK, PadInv,
           Signal \/ PadFound \/ SetDevice \/ AddWatcher \/ Start \/ Exit \/ StopLoop \/ Join
    PROVE  PadInv'
<1> USE DEF PadInv, PadIsNumbered, SetUp, MainRuns, InUse, ClosedFirst, Untaken, None
<1>1. CASE Signal
    <2>1. /\ pc'["main"] = "exit" /\ pc'["loop"] = pc["loop"] /\ signalled'
          /\ UNCHANGED <<found, open, device, taken, overlap>>
        BY <1>1 DEF Signal, Goto, TypeOK, pads, shared, past
    <2> QED
        BY <2>1
<1>2. CASE PadFound
    <2>1. /\ pc["main"] = "wait" /\ pc'["main"] = "setup" /\ pc'["loop"] = pc["loop"]
          /\ found' = found + 1 /\ found \in Nat
          /\ open' = open \union {found'}
          /\ UNCHANGED <<device, watched, running, signalled, taken, overlap>>
        BY <1>2, Ds4Assumption DEF PadFound, Goto, TypeOK, past
    <2>2. found' \notin taken' /\ found' # None /\ Untaken \ {None} = {} /\ None \notin open
        BY <2>1 DEF TypeOK
    <2> QED
        BY <2>1, <2>2
<1>6. CASE SetDevice
    <2>1. /\ pc["main"] = "setup" /\ pc'["main"] = "watch" /\ pc'["loop"] = pc["loop"]
          /\ device' = found /\ taken' = taken \union {found}
          /\ UNCHANGED <<found, open, watched, running, signalled>>
          /\ ~overlap' => ~overlap /\ device = None
        BY <1>6 DEF SetDevice, Goto, TypeOK, pads, past
    <2>2. CASE overlap'
        BY <2>1, <2>2
    <2>3. CASE ~overlap'
        <3>1. /\ pc["loop"] \in {"off", "poll"} /\ open = {found} /\ running
              /\ watched = {}
            BY <2>1, <2>3 DEF TypeOK
        <3> QED
            BY <2>1, <2>3, <3>1
    <2> QED
        BY <2>2, <2>3
<1>3. CASE AddWatcher
    <2>1. /\ pc["main"] = "watch" /\ pc'["main"] = "start" /\ pc'["loop"] = pc["loop"]
          /\ watched' = watched \union {found}
          /\ UNCHANGED <<found, open, device, running, signalled, taken, overlap>>
        BY <1>3 DEF AddWatcher, Goto, TypeOK, pads, past
    <2> QED
        BY <2>1
<1>4. CASE Start
    <2>1. /\ pc["main"] = "start" /\ UNCHANGED padVars
          /\ \/ pc["loop"] = "off" /\ pc'["main"] = "wait" /\ pc'["loop"] = "poll"
             \/ LoopAlive /\ pc'["main"] = "wait" /\ pc'["loop"] = pc["loop"]
             \/ pc["loop"] \in {"ended", "dead"} /\ pc'["main"] = "dead" /\ pc'["loop"] = pc["loop"]
        BY <1>4 DEF Start, LoopAlive, Goto, Dies, TypeOK, pads, shared, past, padVars
    <2> QED
        BY <2>1 DEF padVars
<1>5. CASE Exit \/ StopLoop \/ Join
    <2>1. /\ pc'["loop"] = pc["loop"] /\ UNCHANGED <<found, open, device, watched, signalled, taken, overlap>>
          /\ \/ pc["main"] = "exit" /\ pc'["main"] = "cleanup"
             \/ pc["main"] = "exit" /\ device = None /\ pc'["main"] = "stop"
             \/ pc["main"] = "stop" /\ pc'["main"] = "join"
             \/ pc["main"] = "join" /\ pc'["main"] = "done"
        BY <1>5 DEF Exit, IfInUse, StopLoop, Join, Goto, TypeOK, pads, shared, past
    <2> QED
        BY <2>1
<1> QED
    BY <1>1, <1>2, <1>3, <1>4, <1>5, <1>6

LEMMA LoopKeepsPads ==
    ASSUME TypeOK, PadInv, Poll \/ read_report
    PROVE  PadInv'
<1> USE DEF PadInv, PadIsNumbered, SetUp, MainRuns, InUse, ClosedFirst, Untaken, None
<1>1. UNCHANGED padVars /\ pc'["main"] = pc["main"]
    BY DEF Poll, read_report, Goto, Dies, TypeOK, pads, shared, past, padVars
<1>2. \/ pc["loop"] = "poll" /\ ~running /\ pc'["loop"] = "ended"
      \/ pc["loop"] = "poll" /\ watched # {} /\ pc'["loop"] = "read"
      \/ pc["loop"] = "read" /\ pc'["loop"] = "poll"
      \/ pc["loop"] = "read" /\ device # None /\ pc'["loop"] = "cleanup"
      \/ pc["loop"] = "read" /\ device \notin open /\ pc'["loop"] = "dead"
    BY DEF Poll, read_report, OnDisconnect, Goto, Dies, TypeOK
<1>3. None \notin watched
    BY DEF TypeOK
<1>4. ~overlap /\ ~signalled /\ pc["loop"] \in {"poll", "read"} => open = ({device} \union Untaken) \ {None}
    OBVIOUS
<1>5. CASE pc["loop"] = "poll"
    BY <1>1, <1>2, <1>3, <1>4, <1>5 DEF padVars
<1>6. CASE pc["loop"] = "read"
    BY <1>1, <1>2, <1>3, <1>4, <1>6 DEF padVars
<1> QED
    BY <1>2, <1>5, <1>6

LEMMA CleanupKeepsPads ==
    ASSUME TypeOK, PadInv, NEW t \in {"main", "loop"}, cleanup_device(t)
    PROVE  PadInv'
<1> USE DEF PadInv, PadIsNumbered, SetUp, MainRuns, InUse, ClosedFirst, Untaken, None
<1>1. /\ \A u \in {"main", "loop"} \ {t} : pc'[u] = pc[u]
      /\ UNCHANGED <<found, running, signalled, taken, overlap>>
    BY DEF cleanup_device, CleanupCheck, RemoveWatcher, Close, Clear, Goto, Dies,
       TypeOK, pads, shared, past
<1>2. CASE CleanupCheck(t)
    <2>1. /\ pc[t] = "cleanup" /\ UNCHANGED <<open, device, watched>>
          /\ \/ device = None /\ pc'[t] = After(t)
             \/ device # None /\ pc'[t] = "remove"
        BY <1>2 DEF CleanupCheck, Goto, TypeOK, shared
    <2> QED
        BY <1>1, <2>1 DEF After
<1>3. CASE RemoveWatcher(t)
    <2>1. /\ pc[t] = "remove" /\ UNCHANGED <<open, device>>
          /\ \/ device = None /\ pc'[t] = "dead" /\ watched' = watched
             \/ device # None /\ pc'[t] = "close" /\ watched' = watched \ {device}
        BY <1>3 DEF RemoveWatcher, Unwatched, Goto, Dies, TypeOK
    <2> QED
        BY <1>1, <2>1
<1>4. CASE Close(t)
    <2>1. /\ pc[t] = "close" /\ UNCHANGED <<device, watched>>
          /\ \/ device = None /\ pc'[t] = "dead" /\ open' = open
             \/ device # None /\ pc'[t] = "clear" /\ open' = open \ {device}
        BY <1>4 DEF Close, Closed, Goto, Dies, TypeOK
    <2> QED
        BY <1>1, <2>1
<1>5. CASE Clear(t)
    <2>1. /\ pc[t] = "clear" /\ UNCHANGED <<open, watched>>
          /\ device' = None /\ pc'[t] = After(t)
        BY <1>5 DEF Clear, Goto, TypeOK
    <2>2. None \notin open
        BY DEF TypeOK
    <2>3. pc[t] = "clear" /\ ~overlap => open \subseteq Untaken \ {None}
        BY <2>2
    <2> QED
        BY <1>1, <2>1, <2>3 DEF After
<1> QED
    BY <1>2, <1>3, <1>4, <1>5 DEF cleanup_device

LEMMA StepPads == TypeOK /\ PadInv /\ [Next]_vars => PadInv'
<1> SUFFICES ASSUME TypeOK, PadInv, [Next]_vars PROVE PadInv'
    OBVIOUS
<1> QED
    BY SpinKeepsPads, MainKeepsPads, LoopKeepsPads, CleanupKeepsPads DEF Next, Main, Loop

-------------------------------------------------------------------------------
(* The inductive invariant.                                                    *)
THEOREM Invariance == Spec => []IInv
<1>1. IInv /\ [Next]_vars => IInv'
    BY StepType, StepPads DEF IInv, TypeInv, PadInv
<1> QED
    BY InitInv, <1>1, PTL DEF Spec

(* Every variable stays within its type, the numbers of timers and pads among  *)
(* those handed out (controller_ros.py:145-164, ds4_driver_node.py:62-68).     *)
THEOREM TypeCorrect == Spec => []TypeOK
<1>1. IInv => TypeOK
    BY DEF IInv
<1> QED
    BY Invariance, <1>1, PTL

(* However often pads are unplugged and found again, one at a time, neither    *)
(* main nor the event loop dies of it (controller.py:34-53).                   *)
THEOREM ReconnectsSurvived == Spec => []SurvivesReconnects
<1>1. IInv => SurvivesReconnects
    BY DEF IInv, InUse, SurvivesReconnects
<1> QED
    BY Invariance, <1>1, PTL

(* And open are no pads but the one in use and the one just being set up,      *)
(* watched none but these (controller.py:29-41).                               *)
THEOREM NoPadLeaks == Spec => []NothingLeaks
<1>1. IInv => NothingLeaks
    BY DEF IInv, TypeOK, InUse, NothingLeaks, Untaken, None
<1> QED
    BY Invariance, <1>1, PTL

(* A handler that comes to its end has closed every pad self.device ever held, *)
(* wherever SIGINT struck and whatever the loop was doing: open is at most the *)
(* last pad found, if it was never in self.device (controller.py:30, 58-63).   *)
THEOREM AllReleased == Spec => []ReleasedAtExit
<1>1. IInv => ReleasedAtExit
    BY DEF IInv, ClosedFirst, ReleasedAtExit
<1> QED
    BY Invariance, <1>1, PTL
===============================================================================
