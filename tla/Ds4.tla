---------------------------------- MODULE Ds4 ----------------------------------
(* The gamepad driver, three threads over one Controller object without a      *)
(* lock: main waits for pads and runs the SIGINT handler, the controller's own *)
(* event loop reads reports and cleans up after a disconnect, and rclpy.spin   *)
(* runs cb_feedback and the timers that end a rumble.  An exception ends the   *)
(* thread it is raised in.  A step is a statement that touches what is shared. *)
(*                                                                             *)
(* Pads are numbered as ds4drv's backend finds them, a pad plugged in again    *)
(* anew; feedback messages are numbered as they come.                          *)
EXTENDS Integers, FiniteSets

CONSTANTS MaxPads,       \* bound: pads found
          MaxFeedback    \* bound: feedback messages received

ASSUME Ds4Assumption == MaxPads \in Nat /\ MaxFeedback \in Nat

Pads   == 1..MaxPads
None   == 0
Nobody == [kind |-> "none", id |-> 0]

VARIABLES
    found, plugged,  \* pads found so far, those still plugged in
    open,            \* pads whose device object is open
    device,          \* self.device
    watched,         \* pads whose report_fd the event loop watches
    running,         \* not yet loop.stop()
    pc,              \* where each thread is
    ok, signalled,   \* rclpy.ok(); did SIGINT come?
    task, feedbacks, \* what spin is executing; messages received so far
    timers, stop_rumble_timer,
    rumble,          \* of each pad: the feedback it rumbles for, or 0
    taken,           \* history: the pads that self.device has held
    overlap          \* history: was a pad set up while another was in use?

pads   == <<found, plugged>>
shared == <<open, device, watched, running>>
spin   == <<task, feedbacks, timers, stop_rumble_timer>>
past   == <<taken, overlap>>
vars   == <<pads, shared, pc, ok, signalled, spin, rumble, past>>

Init ==
    /\ found = 0 /\ plugged = {} /\ open = {} /\ device = None /\ watched = {}
    /\ running = TRUE /\ pc = [main |-> "wait", loop |-> "off", spin |-> "idle"]
    /\ ok = TRUE /\ signalled = FALSE
    /\ task = Nobody /\ feedbacks = 0 /\ timers = {} /\ stop_rumble_timer = None
    /\ rumble = [p \in Pads |-> 0] /\ taken = {} /\ overlap = FALSE

Goto(t, place) == pc' = [pc EXCEPT ![t] = place]
Dies(t) == Goto(t, "dead")
LoopAlive == pc["loop"] \notin {"off", "ended", "dead"}

-------------------------------------------------------------------------------
(* The world: a pad is unplugged, stops rumbling by itself; SIGINT.            *)

Unplug(p) ==
    /\ p \in plugged
    /\ plugged' = plugged \ {p} /\ rumble' = [rumble EXCEPT ![p] = 0]
    /\ UNCHANGED <<found, shared, pc, ok, signalled, spin, past>>

PadStops(p) ==
    /\ rumble[p] # 0 /\ rumble' = [rumble EXCEPT ![p] = 0]
    /\ UNCHANGED <<pads, shared, pc, ok, signalled, spin, past>>

(* The handler runs in main, which never resumes.                              *)
Signal ==
    /\ pc["main"] \in {"wait", "setup", "watch", "start"}
    /\ signalled' = TRUE
    /\ Goto("main", "exit")
    /\ UNCHANGED <<pads, shared, ok, spin, rumble, past>>

-------------------------------------------------------------------------------
(* main: the loop over backend.devices, and setup_device.                      *)

(* The backend opens the pad before it yields it, ...                          *)
PadFound ==
    /\ pc["main"] = "wait" /\ found < MaxPads
    /\ found' = found + 1
    /\ plugged' = plugged \union {found'} /\ open' = open \union {found'}
    /\ Goto("main", "setup")
    /\ UNCHANGED <<device, watched, running, ok, signalled, spin, rumble, past>>

(* ... and setup_device takes it over: until then the handler cannot see it.   *)
SetDevice ==
    /\ pc["main"] = "setup"
    /\ device' = found /\ taken' = taken \union {found}
    /\ overlap' = (overlap \/ device # None)
    /\ Goto("main", "watch")
    /\ UNCHANGED <<pads, open, watched, running, ok, signalled, spin, rumble>>

AddWatcher ==
    /\ pc["main"] = "watch"
    /\ watched' = watched \union {found}
    /\ Goto("main", "start")
    /\ UNCHANGED <<pads, open, device, running, ok, signalled, spin, rumble, past>>

(* A thread that has ended cannot be started again: RuntimeError.              *)
Start ==
    /\ pc["main"] = "start"
    /\ CASE pc["loop"] = "off" -> pc' = [pc EXCEPT !["main"] = "wait", !["loop"] = "poll"]
         [] LoopAlive          -> Goto("main", "wait")
         [] OTHER              -> Dies("main")
    /\ UNCHANGED <<pads, shared, ok, signalled, spin, rumble, past>>

-------------------------------------------------------------------------------
(* cleanup_device, by the event loop after a disconnect or by main in exit().  *)
(* self.device is read anew in each line: None raises AttributeError.          *)

After(t) == IF t = "main" THEN "stop" ELSE "poll"

CleanupCheck(t) ==
    /\ pc[t] = "cleanup"
    /\ Goto(t, IF device = None THEN After(t) ELSE "remove")
    /\ UNCHANGED <<pads, shared, ok, signalled, spin, rumble, past>>

StillWatched == watched                      \* slip: no remove_watcher
Unwatched == watched \ {device}

RemoveWatcher(t) ==
    /\ pc[t] = "remove"
    /\ IF device = None THEN Dies(t) /\ UNCHANGED watched
       ELSE Goto(t, "close") /\ watched' = Unwatched
    /\ UNCHANGED <<pads, open, device, running, ok, signalled, spin, rumble, past>>

NotClosed == open                            \* slip: no close()
Closed == open \ {device}

Close(t) ==
    /\ pc[t] = "close"
    /\ IF device = None THEN Dies(t) /\ UNCHANGED open
       ELSE Goto(t, "clear") /\ open' = Closed
    /\ UNCHANGED <<pads, device, watched, running, ok, signalled, spin, rumble, past>>

Clear(t) ==
    /\ pc[t] = "clear"
    /\ device' = None
    /\ Goto(t, After(t))
    /\ UNCHANGED <<pads, open, watched, running, ok, signalled, spin, rumble, past>>

cleanup_device(t) == CleanupCheck(t) \/ RemoveWatcher(t) \/ Close(t) \/ Clear(t)

-------------------------------------------------------------------------------
(* exit(), rclpy.shutdown() and sys.exit().                                    *)

StopsAtOnce == "stop"                        \* slip: the device is not cleaned up
IfInUse == IF device = None THEN "stop" ELSE "cleanup"

Exit ==
    /\ pc["main"] = "exit"
    /\ Goto("main", IfInUse)
    /\ UNCHANGED <<pads, shared, ok, signalled, spin, rumble, past>>

NotStopped == running                        \* slip: only joins
Stopped == FALSE

StopLoop ==
    /\ pc["main"] = "stop"
    /\ running' = Stopped
    /\ Goto("main", "join")
    /\ UNCHANGED <<pads, open, device, watched, ok, signalled, spin, rumble, past>>

Join ==
    /\ pc["main"] = "join" /\ ~LoopAlive
    /\ ok' = FALSE
    /\ Goto("main", "done")
    /\ UNCHANGED <<pads, shared, signalled, spin, rumble, past>>

-------------------------------------------------------------------------------
(* The controller's thread: loop.run() and read_report.                        *)

(* Something happens on a watched descriptor: a report, or the disconnect.     *)
Poll ==
    /\ pc["loop"] = "poll"
    /\ \/ ~running /\ Goto("loop", "ended")
       \/ running /\ watched # {} /\ Goto("loop", "read")
    /\ UNCHANGED <<pads, shared, ok, signalled, spin, rumble, past>>

IgnoreDisconnect == "poll"                   \* slip: None is taken for False
OnDisconnect == "cleanup"

(* A device closed meanwhile may answer like one gone, or raise.               *)
read_report ==
    /\ pc["loop"] = "read"
    /\ \/ device \in plugged \intersect open /\ Goto("loop", "poll")
       \/ device # None /\ device \notin plugged \intersect open /\ Goto("loop", OnDisconnect)
       \/ device \notin open /\ Dies("loop")
    /\ UNCHANGED <<pads, shared, ok, signalled, spin, rumble, past>>

-------------------------------------------------------------------------------
(* rclpy.spin: cb_feedback, and the periodic timers with cb_stop_rumble.       *)

(* The kind of a message: no rumble, a rumble, a rumble with a duration.       *)
Feedback(kind) ==
    /\ pc["spin"] = "idle" /\ ok /\ feedbacks < MaxFeedback
    /\ feedbacks' = feedbacks + 1
    /\ IF device = None THEN UNCHANGED <<task, pc>>
       ELSE task' = [kind |-> kind, id |-> feedbacks'] /\ Goto("spin", "check1")
    /\ UNCHANGED <<pads, shared, ok, signalled, timers, stop_rumble_timer, rumble, past>>

TimerFires(n) ==
    /\ pc["spin"] = "idle" /\ ok /\ n \in timers
    /\ task' = [kind |-> "stop", id |-> n]
    /\ Goto("spin", "check1")
    /\ UNCHANGED <<pads, shared, ok, signalled, feedbacks, timers, stop_rumble_timer,
                   rumble, past>>

(* control: _control twice, which tests self.device and then uses it.          *)
Check ==
    /\ \/ pc["spin"] = "check1" /\ Goto("spin", IF device = None THEN "check2" ELSE "write1")
       \/ pc["spin"] = "check2" /\ Goto("spin", IF device = None THEN "end" ELSE "write2")
    /\ UNCHANGED <<pads, shared, ok, signalled, spin, rumble, past>>

RumbleOrKept ==                              \* slip: a 0 is taken for None
    IF pc["spin"] = "write2" /\ task.kind \in {"rumble", "timed"} THEN task.id
    ELSE rumble[device]
RumbleOrZero ==
    IF pc["spin"] = "write2" /\ task.kind \in {"rumble", "timed"} THEN task.id ELSE 0

(* The first write has no rumble, which says 0.  OSError is caught.            *)
Write ==
    /\ pc["spin"] \in {"write1", "write2"}
    /\ \/ /\ device \in plugged \intersect open
          /\ rumble' = [rumble EXCEPT ![device] = RumbleOrZero]
          /\ Goto("spin", IF pc["spin"] = "write1" THEN "check2" ELSE "end")
       \/ /\ device # None /\ device \notin plugged \intersect open
          /\ Goto("spin", "end") /\ UNCHANGED rumble
       \/ device \notin open /\ Dies("spin") /\ UNCHANGED rumble
    /\ UNCHANGED <<pads, shared, ok, signalled, spin, past>>

NotReset == stop_rumble_timer                \* slip: keeps the timer destroyed
Reset == None

(* A new timer takes the place of the one before, which goes on firing; what   *)
(* is destroyed is the one in place, whichever fired.                          *)
End ==
    /\ pc["spin"] = "end"
    /\ timers' = CASE task.kind = "timed" -> timers \union {task.id}
                   [] task.kind = "stop"  -> timers \ {stop_rumble_timer}
                   [] OTHER               -> timers
    /\ stop_rumble_timer' = CASE task.kind = "timed" -> task.id
                              [] task.kind = "stop"  -> Reset
                              [] OTHER               -> stop_rumble_timer
    /\ task' = Nobody
    /\ Goto("spin", "idle")
    /\ UNCHANGED <<pads, shared, ok, signalled, feedbacks, rumble, past>>

SpinEnds ==
    /\ pc["spin"] = "idle" /\ ~ok
    /\ Goto("spin", "done")
    /\ UNCHANGED <<pads, shared, ok, signalled, spin, rumble, past>>

-------------------------------------------------------------------------------
Main == SetDevice \/ AddWatcher \/ Start \/ Exit \/ StopLoop \/ Join \/ cleanup_device("main")
Loop == Poll \/ read_report \/ cleanup_device("loop")
Spin == Check \/ Write \/ End \/ SpinEnds

Next ==
    \/ \E p \in Pads : Unplug(p) \/ PadStops(p)
    \/ Signal \/ PadFound \/ Main \/ Loop
    \/ \E kind \in {"led", "rumble", "timed"} : Feedback(kind)
    \/ \E n \in timers : TimerFires(n)
    \/ Spin

Spec == Init /\ [][Next]_vars

(* Threads are scheduled, and each timer comes round again and again.          *)
FairSpec ==
    /\ Spec
    /\ WF_vars(Main) /\ WF_vars(Loop) /\ WF_vars(Spin)
    /\ \A n \in 1..MaxFeedback : SF_vars(n \in timers /\ TimerFires(n))

-------------------------------------------------------------------------------
(* Properties.                                                                 *)

Places ==
    {"wait", "setup", "watch", "start", "exit", "stop", "join", "done", "dead", "off", "poll",
     "read", "cleanup", "remove", "close", "clear", "ended", "idle", "check1",
     "write1", "check2", "write2", "end"}

TypeOK ==
    /\ found \in 0..MaxPads /\ plugged \subseteq 1..found
    /\ open \subseteq 1..found /\ watched \subseteq 1..found
    /\ device \in 0..found
    /\ running \in BOOLEAN /\ ok \in BOOLEAN /\ signalled \in BOOLEAN
    /\ pc \in [{"main", "loop", "spin"} -> Places]
    /\ feedbacks \in 0..MaxFeedback
    /\ task \in [kind : {"none", "led", "rumble", "timed", "stop"}, id : 0..feedbacks]
    /\ timers \subseteq 1..feedbacks /\ stop_rumble_timer \in timers \union {None}
    /\ rumble \in [Pads -> 0..MaxFeedback]
    /\ taken \subseteq 1..found /\ overlap \in BOOLEAN

(* As long as one pad is in use at a time, disconnects and reconnects kill     *)
(* neither the event loop nor main: no watcher outlives its device, and the    *)
(* loop, which can be started only once, goes on (controller.py:34-53,         *)
(* ds4_driver_node.py:62-68).                                                  *)
SurvivesReconnects ==
    ~overlap /\ ~signalled => pc["main"] # "dead" /\ pc["loop"] # "dead"

(* The pad that was found and is not yet, or was never, in self.device.        *)
Untaken == {found} \ taken

(* With one pad at a time, a disconnected pad is closed and not left watched:  *)
(* open are the one in use and one that is just being set up                   *)
(* (controller.py:29-41).                                                      *)
NothingLeaks ==
    ~overlap /\ ~signalled /\ pc["loop"] \in {"off", "poll", "read"}
        => open = ({device} \union Untaken) \ {None} /\ watched \subseteq open

(* A driver that gets through its SIGINT handler has closed every pad that     *)
(* setup_device took over, even when the handler interrupts setup_device or    *)
(* races the loop's own clean-up.  What it may leave open is the one pad that  *)
(* the backend had opened and self.device did not hold yet                     *)
(* (controller.py:30, 58-63, ds4_driver_node.py:21-25, 62-65).                 *)
ReleasedAtExit == pc["main"] = "done" /\ ~overlap => open \subseteq Untaken

(* With one pad at a time, a disconnect is noticed (controller.py:43-51).      *)
DisconnectNoticed ==
    \A p \in Pads : device = p /\ p \notin plugged
                        ~> device # p \/ overlap \/ signalled

(* A rumble with a duration ends, even though a newer rumble makes the older's *)
(* timer unreachable and an older timer may destroy the newer's - unless the   *)
(* pad or the spin thread is lost or the driver ends (controller_ros.py:145-164).*)
TimedRumbleEnds ==
    \A p \in Pads, n \in 1..MaxFeedback :
        rumble[p] = n /\ n \in timers
            ~> rumble[p] # n \/ device # p \/ signalled \/ pc["spin"] = "dead"

(* The handler always comes to its end, or to an exception                     *)
(* (ds4_driver_node.py:21-25).                                                 *)
HandlerEnds == signalled ~> pc["main"] \in {"done", "dead"}

(* controller_ros.py:145 says "Timer to stop rumble" of the timer a feedback   *)
(* sets up: a rumble is stopped by its own timer, not by an older feedback's.  *)
StoppedByOwnTimer ==
    [][Write /\ task.kind = "stop" =>
           \A p \in Pads : rumble'[p] # rumble[p] => rumble[p] = task.id]_vars
===============================================================================
