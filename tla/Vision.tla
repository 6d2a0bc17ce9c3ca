--------------------------------- MODULE Vision --------------------------------
(* The camera node (capture) and what sees its frames: face_detection or       *)
(* hand_track.  They share nothing but the topic /vision/image_raw, so the     *)
(* launch here runs the camera and one of the two, and finds all that either   *)
(* can do.  In the world in front of the camera people come and go.            *)
EXTENDS FaceDetection, HandTrack

CONSTANTS Every,   \* the frame of capture's counter that is published
          Depth    \* of the subscription to /vision/image_raw

ASSUME VisionAssumption == Every \in Nat \ {0} /\ Depth \in Nat \ {0}

VARIABLES
    launched,    \* the node that sees the frames
    scene,       \* what there is to see: the faces, and is a hand raised?
    count,       \* of callback_routine
    image_raw    \* the frames that wait for the node's executor

worldVars == <<launched, scene, count, image_raw>>
vars == <<faceVars, handVars, worldVars>>

Nobody == [faces |-> <<>>, hand |-> FALSE]
Scenes == {Nobody,
           [faces |-> <<"near">>, hand |-> FALSE],
           [faces |-> <<"mid", "near">>, hand |-> TRUE],
           [faces |-> <<"mid">>, hand |-> TRUE]}

Init ==
    /\ FaceInit /\ HandInit
    /\ launched \in {"face_detection", "hand_track"}
    /\ scene = Nobody /\ count = 0 /\ image_raw = <<>>

PeopleMove ==
    /\ scene' \in Scenes
    /\ UNCHANGED <<faceVars, handVars, launched, count, image_raw>>

(* One frame of the camera (an empty one changes nothing): every so manieth is *)
(* published.  A reader that is behind keeps the newest.                       *)
callback_routine ==
    /\ count' = (count + 1) % Every
    /\ image_raw' = IF count' # 0 THEN image_raw
                    ELSE IF Len(image_raw) < Depth THEN Append(image_raw, scene)
                    ELSE Append(Tail(image_raw), scene)
    /\ UNCHANGED <<faceVars, handVars, launched, scene>>

Receive ==
    /\ image_raw # <<>> /\ image_raw' = Tail(image_raw)
    /\ UNCHANGED <<launched, scene, count>>

FaceFrame ==
    /\ launched = "face_detection" /\ Receive
    /\ image_callback(Head(image_raw).faces)
    /\ UNCHANGED handVars

FaceTick ==
    /\ launched = "face_detection" /\ tick_timer
    /\ UNCHANGED <<handVars, worldVars>>

HandFrame ==
    /\ launched = "hand_track" /\ Receive
    /\ FrameArrives(Head(image_raw).hand)
    /\ UNCHANGED faceVars

HandMain ==
    /\ launched = "hand_track" /\ (FramePut \/ JoinEnds \/ Exit)
    /\ UNCHANGED <<faceVars, worldVars>>

HandInterrupt ==
    /\ launched = "hand_track" /\ KeyboardInterrupt
    /\ UNCHANGED <<faceVars, worldVars>>

HandInference ==
    /\ launched = "hand_track"
    /\ InferenceCheck \/ InferenceGet \/ InferenceResult \/ InferenceRaises
    /\ UNCHANGED <<faceVars, worldVars>>

Next ==
    \/ PeopleMove \/ callback_routine \/ FaceFrame \/ FaceTick
    \/ HandFrame \/ HandMain \/ HandInterrupt \/ HandInference

Spec == Init /\ [][Next]_vars

(* The timers go on, the camera delivers and both of the nodes' executors run; *)
(* the inference owes nothing.                                                 *)
FairSpec ==
    /\ Spec
    /\ WF_vars(callback_routine) /\ WF_vars(FaceFrame) /\ WF_vars(FaceTick)
    /\ WF_vars(HandFrame) /\ WF_vars(HandMain)

-------------------------------------------------------------------------------
Runs(node) == launched = node

(* Somebody who stays close to the camera is noticed, and again whenever the   *)
(* window has shut: through the camera's counter, a queue that may drop frames,*)
(* the count of frames in a row and the time the node is deaf.                 *)
VisitorNoticed ==
    <>[](scene = [faces |-> <<"near">>, hand |-> FALSE]) => []<>open_window

(* When the room is empty for good, the window shuts and stays shut, though    *)
(* each face of its last second starts it anew.                                *)
WindowShuts == <>[](scene = Nobody) => <>[](~open_window)

(* The window follows the people: who stays is noticed, who has gone forgotten *)
(* (face_detection.py:54-86, 92-132).                                          *)
WindowFollowsPeople == Runs("face_detection") => VisitorNoticed /\ WindowShuts
===============================================================================
