------------------------------- MODULE HandTrack -------------------------------
(* The hand_track node: the main thread, which runs the executor and, on       *)
(* Ctrl-C, destroy_node, puts the camera's frames into a bounded queue that    *)
(* the inference thread empties.  A frame is what the inference finds in it:   *)
(* TRUE for a hand in the upper third that is open or a fist.                  *)
EXTENDS Integers, Sequences

CONSTANTS QueueSize,    \* maxsize of frame_queue
          MaxCooldown   \* MAX_COOLDOWN_HAND_ACTION

ASSUME HandAssumption == QueueSize \in Nat \ {0} /\ MaxCooldown \in Nat

NoHand  == -1   \* the values of gesture
Gesture == 1
Steady  == 5    \* cntr_hand_detected starts here and nothing ever resets it

VARIABLES
    frame_queue,
    main,        \* the main thread: "spin", "put", "join", "destroyed", "exited"
    incoming,    \* the frame of the image_callback that is about to put it
    stop_event,
    inference,   \* that thread: "check", "get", "process", "done"
    frame,       \* the frame in process_frame
    gesture, pref_gesture, cooldown_hand_action, cntr_hand_detected,
    hand_data    \* the gesture last published

handVars == <<frame_queue, main, incoming, stop_event, inference, frame, gesture,
              pref_gesture, cooldown_hand_action, cntr_hand_detected, hand_data>>
mainVars == <<main, incoming, stop_event>>
resultVars == <<gesture, pref_gesture, cooldown_hand_action, cntr_hand_detected, hand_data>>

HandInit ==
    /\ frame_queue = <<>> /\ main = "spin" /\ incoming = FALSE /\ stop_event = FALSE
    /\ inference = "check" /\ frame = FALSE
    /\ gesture = NoHand /\ pref_gesture = NoHand /\ cooldown_hand_action = MaxCooldown
    /\ cntr_hand_detected = Steady /\ hand_data = NoHand

-------------------------------------------------------------------------------
(* The main thread.                                                            *)

OverFull == Len(frame_queue) > QueueSize       \* slip: an off-by-one
Full     == Len(frame_queue) >= QueueSize

(* image_callback up to full(): a frame that finds the queue full is dropped.  *)
FrameArrives(f) ==
    /\ main = "spin"
    /\ IF Full THEN UNCHANGED <<main, incoming>> ELSE main' = "put" /\ incoming' = f
    /\ UNCHANGED <<frame_queue, stop_event, inference, frame, resultVars>>

FramePut ==
    /\ main = "put" /\ Len(frame_queue) < QueueSize
    /\ frame_queue' = Append(frame_queue, incoming)
    /\ main' = "spin" /\ incoming' = FALSE
    /\ UNCHANGED <<stop_event, inference, frame, resultVars>>

(* Ctrl-C, in a callback or between two; destroy_node sets the event and joins. *)
KeyboardInterrupt ==
    /\ main \in {"spin", "put"}
    /\ main' = "join" /\ stop_event' = TRUE /\ incoming' = FALSE
    /\ UNCHANGED <<frame_queue, inference, frame, resultVars>>

Joined == inference = "done"                   \* slip: a join without its timeout
JoinedOrLate == TRUE

JoinEnds ==
    /\ main = "join" /\ JoinedOrLate
    /\ main' = "destroyed"
    /\ UNCHANGED <<frame_queue, incoming, stop_event, inference, frame, resultVars>>

(* The process ends and the daemon thread with it, wherever that is.           *)
Exit ==
    /\ main = "destroyed" /\ main' = "exited" /\ inference' = "done"
    /\ UNCHANGED <<frame_queue, incoming, stop_event, frame, resultVars>>

-------------------------------------------------------------------------------
(* The inference thread.  An inference may take any time, or for ever.         *)

InferenceCheck ==
    /\ inference = "check"
    /\ inference' = IF stop_event THEN "done"
                    ELSE IF frame_queue = <<>> THEN "check" ELSE "get"
    /\ UNCHANGED <<frame_queue, mainVars, frame, resultVars>>

InferenceGet ==
    /\ inference = "get" /\ frame_queue # <<>>
    /\ frame' = Head(frame_queue) /\ frame_queue' = Tail(frame_queue)
    /\ inference' = "process"
    /\ UNCHANGED <<mainVars, resultVars>>

(* process_frame and publish_data.  The trigger's own publish is commented out *)
(* in the code: all it does is to start the cooldown again.                    *)
InferenceResult ==
    /\ inference = "process" /\ main # "destroyed"
    /\ LET count == IF frame /\ cntr_hand_detected = Steady
                    THEN Steady + 1 ELSE cntr_hand_detected
           now   == IF frame /\ count > Steady THEN Gesture ELSE NoHand
           ready == pref_gesture = NoHand /\ now = Gesture /\ cooldown_hand_action <= 0
           wait  == IF ready THEN MaxCooldown ELSE cooldown_hand_action
       IN  /\ cntr_hand_detected' = count
           /\ gesture' = now /\ pref_gesture' = now /\ hand_data' = now
           /\ cooldown_hand_action' = IF wait > 0 THEN wait - 1 ELSE wait
    /\ inference' = "check"
    /\ UNCHANGED <<frame_queue, mainVars, frame>>

(* Once the signal has shut the context down publishing raises, and the thread *)
(* is gone; so it is for a node that is destroyed.                             *)
InferenceRaises ==
    /\ inference = "process" /\ main \in {"join", "destroyed"}
    /\ inference' = "done"
    /\ UNCHANGED <<frame_queue, mainVars, frame, resultVars>>

-------------------------------------------------------------------------------
(* full() and then put(), empty() and then get(): with the other thread at the *)
(* same queue in between, neither call ever blocks its thread (lines 61-62 and *)
(* 70-74).                                                                     *)
NeitherBlocks ==
    /\ main = "put" => Len(frame_queue) < QueueSize
    /\ inference = "get" => frame_queue # <<>>

(* The queue is bounded, and the cooldown ends at 0 (hand_track.py:61-74).      *)
HandTypeOK ==
    /\ frame_queue \in Seq(BOOLEAN) /\ Len(frame_queue) <= QueueSize
    /\ main \in {"spin", "put", "join", "destroyed", "exited"}
    /\ inference \in {"check", "get", "process", "done"}
    /\ incoming \in BOOLEAN /\ frame \in BOOLEAN /\ stop_event \in BOOLEAN
    /\ stop_event <=> main \in {"join", "destroyed", "exited"}
    /\ {gesture, pref_gesture, hand_data} \subseteq {NoHand, Gesture}
    /\ cooldown_hand_action \in 0..MaxCooldown
    /\ cntr_hand_detected \in {Steady, Steady + 1}

(* The node gets through destroy_node whatever its inference does: the join    *)
(* gives up after a second (line 164).                                         *)
EndsOnInterrupt == stop_event ~> main = "exited"
===============================================================================
