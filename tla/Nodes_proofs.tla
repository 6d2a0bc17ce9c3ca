------------------------------ MODULE Nodes_proofs ------------------------------
(* Theorems about the programs that people meet: the camera nodes, the audio   *)
(* node that gives voice to what they see, and the consoles of the web page.   *)
(* They share nothing, and each part of this module is about one of them.      *)
EXTENDS Vision, AudioController, WebConsole, TLAPS, SequenceTheorems,
        WellFoundedInduction

-------------------------------------------------------------------------------
(* face_detection.                                                             *)

(* A greeting starts the cooldown, which ticks down as the time since it goes  *)
(* up: together they never fall below the cooldown less its first tick.        *)
CooldownInv ==
    /\ greeting_cooldown \in Int /\ since \in 0..CooldownTicks
    /\ greeting_cooldown >= 0
    /\ greeting_cooldown + since >= CooldownTicks - 1

FaceInv == DeafOnlyInWindow /\ timer_open_window \in Int /\ CooldownInv

LEMMA FaceInitially == FaceInit => FaceInv
<1> SUFFICES ASSUME FaceInit PROVE FaceInv
    OBVIOUS
<1> QED
    BY FaceAssumption DEF FaceInit, FaceInv, DeafOnlyInWindow, CooldownInv

LEMMA FrameKeepsFace ==
    ASSUME FaceInv, NEW faces, image_callback(faces)
    PROVE  FaceInv'
<1>1. CASE detecting
    BY <1>1 DEF FaceInv, DeafOnlyInWindow, CooldownInv, image_callback
<1>2. CASE ~detecting
  <2> DEFINE seen == FoldLeft(Counts, [count |-> face_detected_counter, opened |-> FALSE], faces)
  <2>1. /\ open_window' = (open_window \/ seen.opened)
        /\ detecting' = seen.opened
        /\ timer_open_window' = IF seen.opened THEN WindowTicks ELSE timer_open_window
        /\ UNCHANGED <<greeting_cooldown, since>>
    BY <1>2 DEF image_callback
  <2> HIDE DEF seen
  <2>2. CASE seen.opened
    <3>1. open_window'
      BY <2>1, <2>2, Zenon
    <3>2. timer_open_window' = WindowTicks
      BY <2>1, <2>2, Zenon
    <3>3. UNCHANGED <<greeting_cooldown, since>>
      BY <2>1
    <3> QED
      BY <3>1, <3>2, <3>3, FaceAssumption DEF FaceInv, DeafOnlyInWindow, CooldownInv
  <2>3. CASE ~seen.opened
    <3>1. ~detecting'
      BY <2>1, <2>3, Zenon
    <3>2. timer_open_window' = timer_open_window
      BY <2>1, <2>3, Zenon
    <3>3. UNCHANGED <<greeting_cooldown, since>>
      BY <2>1
    <3> QED
      BY <3>1, <3>2, <3>3 DEF FaceInv, DeafOnlyInWindow, CooldownInv
  <2> QED
    BY <2>2, <2>3
<1> QED
    BY <1>1, <1>2

LEMMA TickKeepsFace ==
    ASSUME FaceInv, tick_timer
    PROVE  FaceInv' /\ (since' = 0 /\ since # 0 => since >= CooldownTicks - 1)
<1> DEFINE left == IF open_window THEN timer_open_window - 1 ELSE timer_open_window
           shuts == open_window /\ Shuts(left)
           open == open_window /\ ~shuts
           greets == Greets(open)
<1>1. /\ open_window' = open
      /\ detecting' = (detecting /\ ~(open_window /\ Frees(left)) /\ ~shuts)
      /\ timer_open_window' = IF shuts THEN WindowTicks ELSE left
    BY DEF tick_timer
<1>2. /\ greeting_cooldown' = IF greets THEN IF CooldownTicks > 0 THEN CooldownTicks - 1
                                             ELSE CooldownTicks
                              ELSE IF greeting_cooldown > 0 THEN greeting_cooldown - 1
                              ELSE greeting_cooldown
      /\ since' = IF greets THEN 0 ELSE IF since < CooldownTicks THEN since + 1 ELSE since
    BY DEF tick_timer
<1>3. greets => greeting_cooldown <= 0
    BY DEF Greets
<1>4. DeafOnlyInWindow' /\ timer_open_window' \in Int
  <2>1. left \in Int /\ WindowTicks \in Int
    BY FaceAssumption DEF FaceInv
  <2>2. ASSUME detecting' PROVE open_window' /\ timer_open_window' > FreeTicks
    <3>1. detecting /\ ~(open_window /\ Frees(left)) /\ ~shuts
      BY <1>1, <2>2, Zenon
    <3>2. open_window
      BY <3>1 DEF FaceInv, DeafOnlyInWindow
    <3>3. timer_open_window' = left /\ ~(left <= FreeTicks)
      BY <1>1, <3>1, <3>2 DEF Frees
    <3>4. left > FreeTicks
      BY <2>1, <3>3, FaceAssumption
    <3> QED
      BY <1>1, <3>1, <3>2, <3>3, <3>4, Zenon
  <2>3. timer_open_window' \in Int
    BY <1>1, <2>1
  <2> QED
    BY <2>2, <2>3 DEF DeafOnlyInWindow
<1>5. CooldownInv' /\ (since' = 0 /\ since # 0 => since >= CooldownTicks - 1)
  <2> HIDE DEF greets
  <2> QED
    BY <1>2, <1>3, FaceAssumption DEF FaceInv, CooldownInv
<1> QED
    BY <1>4, <1>5 DEF FaceInv

LEMMA FaceStep ==
    ASSUME FaceInv, [Next]_vars
    PROVE  FaceInv' /\ [since' = 0 /\ since # 0 => since >= CooldownTicks - 1]_faceVars
<1>1. CASE UNCHANGED faceVars
    BY <1>1 DEF FaceInv, DeafOnlyInWindow, CooldownInv, faceVars
<1>2. CASE FaceFrame
  <2>1. FaceInv'
    BY <1>2, FrameKeepsFace DEF FaceFrame
  <2>2. since' = since
    BY <1>2 DEF FaceFrame, image_callback
  <2> QED
    BY <2>1, <2>2
<1>3. CASE FaceTick
    BY <1>3, TickKeepsFace DEF FaceTick
<1> QED
    BY <1>1, <1>2, <1>3 DEF Next, vars, PeopleMove, callback_routine, HandFrame, HandMain,
       HandInterrupt, HandInference

(* The node is deaf only inside a window and before its last second, whatever  *)
(* the frames show (face_detection.py:54, 96).                                 *)
THEOREM DeafInWindow == Spec => []DeafOnlyInWindow
<1>1. Init => FaceInv
    BY FaceInitially DEF Init
<1>2. FaceInv /\ [Next]_vars => FaceInv'
    BY FaceStep
<1>3. FaceInv => DeafOnlyInWindow
    BY DEF FaceInv
<1> QED
    BY <1>1, <1>2, <1>3, PTL DEF Spec

(* Two greetings are a whole cooldown apart (face_detection.py:102-113).       *)
THEOREM GreetingsAreApart == Spec => GreetingsApart
<1>1. Init => FaceInv
    BY FaceInitially DEF Init
<1>2. FaceInv /\ [Next]_vars => FaceInv'
    BY FaceStep
<1>3. FaceInv /\ [Next]_vars
          => [since' = 0 /\ since # 0 => since >= CooldownTicks - 1]_faceVars
    BY FaceStep
<1> QED
    BY <1>1, <1>2, <1>3, PTL DEF Spec, GreetingsApart

-------------------------------------------------------------------------------
(* hand_track.                                                                 *)

(* NeitherBlocks is inductive with the types: only the main thread puts, and   *)
(* only the inference thread gets.                                             *)
HandInv ==
    /\ scene \in Scenes /\ image_raw \in Seq(Scenes)
    /\ incoming \in BOOLEAN /\ frame_queue \in Seq(BOOLEAN)
    /\ NeitherBlocks

LEMMA SceneHasHand == \A s \in Scenes : s.hand \in BOOLEAN
<1> SUFFICES ASSUME NEW s \in Scenes PROVE s.hand = FALSE \/ s.hand = TRUE
    BY Zenon
<1>1. \/ s = [faces |-> <<>>, hand |-> FALSE]
      \/ s = [faces |-> <<"near">>, hand |-> FALSE]
      \/ s = [faces |-> <<"mid", "near">>, hand |-> TRUE]
      \/ s = [faces |-> <<"mid">>, hand |-> TRUE]
    BY Zenon DEF Scenes, Nobody
<1> QED
    BY <1>1

LEMMA HandInitially == Init => HandInv
<1> SUFFICES ASSUME Init PROVE HandInv
    OBVIOUS
<1>1. scene \in Scenes
    BY DEF Init, Scenes
<1>2. image_raw \in Seq(Scenes) /\ frame_queue \in Seq(BOOLEAN)
    BY EmptySeq DEF Init, HandInit
<1>3. incoming \in BOOLEAN /\ NeitherBlocks
    BY DEF Init, HandInit, NeitherBlocks
<1> QED
    BY <1>1, <1>2, <1>3 DEF HandInv

LEMMA WorldKeepsHand ==
    ASSUME HandInv, UNCHANGED handVars,
           PeopleMove \/ callback_routine \/ FaceFrame \/ FaceTick \/ UNCHANGED vars
    PROVE  HandInv'
<1>1. scene' \in Scenes
    BY DEF PeopleMove, callback_routine, FaceFrame, FaceTick, Receive, vars, worldVars, HandInv
<1>2. image_raw' \in Seq(Scenes)
  <2>1. CASE callback_routine
    <3>1. image_raw \in Seq(Scenes) /\ scene \in Scenes
      BY DEF HandInv
    <3>2. \/ image_raw' = image_raw \/ image_raw' = Append(image_raw, scene)
          \/ ~(Len(image_raw) < Depth) /\ image_raw' = Append(Tail(image_raw), scene)
      BY <2>1 DEF callback_routine
    <3>3. Append(image_raw, scene) \in Seq(Scenes)
      BY <3>1, AppendProperties
    <3>4. ASSUME ~(Len(image_raw) < Depth) PROVE Append(Tail(image_raw), scene) \in Seq(Scenes)
      <4>1. image_raw # <<>>
        BY <3>1, <3>4, EmptySeq, VisionAssumption
      <4> QED
        BY <3>1, <4>1, HeadTailProperties, AppendProperties
    <3> QED
      BY <3>1, <3>2, <3>3, <3>4
  <2>2. CASE FaceFrame
    BY <2>2, HeadTailProperties DEF FaceFrame, Receive, HandInv
  <2>3. CASE PeopleMove \/ FaceTick \/ UNCHANGED vars
    BY <2>3 DEF PeopleMove, FaceTick, vars, worldVars, HandInv
  <2> QED
    BY <2>1, <2>2, <2>3
<1> QED
    BY <1>1, <1>2 DEF HandInv, NeitherBlocks, handVars

(* The main thread at the queue: it puts only what it has found room for.      *)
LEMMA MainKeepsHand ==
    ASSUME HandInv, HandFrame \/ HandMain \/ HandInterrupt
    PROVE  HandInv'
<1>1. CASE HandFrame
  <2>1. Head(image_raw) \in Scenes /\ image_raw' \in Seq(Scenes)
    BY <1>1, HeadTailProperties DEF HandFrame, Receive, HandInv
  <2>2. scene' = scene /\ frame_queue' = frame_queue /\ inference' = inference
    BY <1>1 DEF HandFrame, Receive, FrameArrives
  <2>3. \/ main' = "put" /\ incoming' = Head(image_raw).hand /\ ~Full
        \/ main' = main /\ main = "spin" /\ incoming' = incoming
    BY <1>1 DEF HandFrame, FrameArrives
  <2>4. incoming' \in BOOLEAN
    BY <2>1, <2>3, SceneHasHand, Zenon DEF HandInv
  <2>5. Len(frame_queue) \in Nat /\ QueueSize \in Nat
    BY LenProperties, HandAssumption DEF HandInv
  <2>6. main' = "put" => Len(frame_queue) < QueueSize
    BY <2>3, <2>5 DEF Full
  <2> QED
    BY <2>1, <2>2, <2>4, <2>6 DEF HandInv, NeitherBlocks
<1>2. CASE HandMain /\ FramePut
  <2>1. frame_queue' = Append(frame_queue, incoming) /\ main' = "spin" /\ incoming' = FALSE
    BY <1>2 DEF FramePut
  <2>2. frame_queue' \in Seq(BOOLEAN) /\ frame_queue' # <<>>
    BY <2>1, AppendProperties, EmptySeq DEF HandInv
  <2>3. UNCHANGED <<scene, image_raw, inference>>
    BY <1>2 DEF HandMain, FramePut, worldVars
  <2> QED
    BY <2>1, <2>2, <2>3 DEF HandInv, NeitherBlocks
<1>3. CASE HandMain /\ (JoinEnds \/ Exit)
  <2>1. UNCHANGED <<scene, image_raw, incoming, frame_queue>>
    BY <1>3 DEF HandMain, JoinEnds, Exit, worldVars
  <2>2. main' # "put" /\ (inference' = inference \/ inference' = "done")
    BY <1>3 DEF JoinEnds, Exit
  <2> QED
    BY <2>1, <2>2 DEF HandInv, NeitherBlocks
<1>4. CASE HandInterrupt
  <2>1. UNCHANGED <<scene, image_raw, frame_queue, inference>>
    BY <1>4 DEF HandInterrupt, KeyboardInterrupt, worldVars
  <2>2. main' = "join" /\ incoming' = FALSE
    BY <1>4 DEF HandInterrupt, KeyboardInterrupt
  <2> QED
    BY <2>1, <2>2 DEF HandInv, NeitherBlocks
<1> QED
    BY <1>1, <1>2, <1>3, <1>4 DEF HandMain

(* The inference thread: it gets only what it has found, for nobody else does. *)
LEMMA InferenceKeepsHand ==
    ASSUME HandInv, HandInference
    PROVE  HandInv'
<1>1. UNCHANGED <<scene, image_raw, main, incoming>>
    BY DEF HandInference, InferenceCheck, InferenceGet, InferenceResult, InferenceRaises,
       worldVars, mainVars
<1>2. CASE InferenceGet
  <2>1. frame_queue # <<>> /\ frame_queue' = Tail(frame_queue) /\ inference' = "process"
    BY <1>2 DEF InferenceGet
  <2>2. /\ frame_queue' \in Seq(BOOLEAN) /\ Len(frame_queue') = Len(frame_queue) - 1
        /\ Len(frame_queue) \in Nat
    BY <2>1, HeadTailProperties, LenProperties DEF HandInv
  <2>3. main = "put" => Len(frame_queue') < QueueSize
    BY <2>2, HandAssumption DEF HandInv, NeitherBlocks
  <2> QED
    BY <1>1, <2>1, <2>2, <2>3 DEF HandInv, NeitherBlocks
<1>3. CASE InferenceCheck \/ InferenceResult \/ InferenceRaises
  <2>1. frame_queue' = frame_queue /\ (inference' = "get" => frame_queue # <<>>)
    BY <1>3 DEF InferenceCheck, InferenceResult, InferenceRaises
  <2> QED
    BY <1>1, <2>1 DEF HandInv, NeitherBlocks
<1> QED
    BY <1>2, <1>3 DEF HandInference

LEMMA HandStep ==
    ASSUME HandInv, [Next]_vars
    PROVE  HandInv'
<1>1. ASSUME PeopleMove \/ callback_routine \/ FaceFrame \/ FaceTick \/ UNCHANGED vars
      PROVE  HandInv'
  <2>1. UNCHANGED handVars
    BY <1>1 DEF PeopleMove, callback_routine, FaceFrame, FaceTick, vars
  <2> QED
    BY <1>1, <2>1, WorldKeepsHand, Zenon
<1> QED
    BY <1>1, MainKeepsHand, InferenceKeepsHand, Zenon DEF Next

(* Neither thread of hand_track ever waits at the queue (hand_track.py:61-74). *)
THEOREM QueueNeverBlocks == Spec => []NeitherBlocks
<1>1. Init => HandInv
    BY HandInitially
<1>2. HandInv /\ [Next]_vars => HandInv'
    BY HandStep
<1>3. HandInv => NeitherBlocks
    BY DEF HandInv
<1> QED
    BY <1>1, <1>2, <1>3, PTL DEF Spec

LEMMA HandTypesBegin == Init => HandTypeOK
<1> SUFFICES ASSUME Init PROVE HandTypeOK
    OBVIOUS
<1>1. frame_queue \in Seq(BOOLEAN) /\ Len(frame_queue) = 0
    BY EmptySeq DEF Init, HandInit
<1>2. MaxCooldown \in 0 .. MaxCooldown /\ 0 <= QueueSize
    BY HandAssumption
<1>3. /\ main = "spin" /\ stop_event = FALSE /\ inference = "check"
      /\ incoming = FALSE /\ frame = FALSE /\ cooldown_hand_action = MaxCooldown
      /\ gesture = NoHand /\ pref_gesture = NoHand /\ hand_data = NoHand
      /\ cntr_hand_detected = Steady
    BY DEF Init, HandInit
<1>4. stop_event <=> main \in {"join", "destroyed", "exited"}
    BY <1>3
<1>5. {gesture, pref_gesture, hand_data} \subseteq {NoHand, Gesture}
    BY <1>3
<1>6. Len(frame_queue) <= QueueSize
    BY <1>1, <1>2
<1> QED
    BY <1>1, <1>2, <1>3, <1>4, <1>5, <1>6 DEF HandTypeOK

(* What the inference makes of a frame.                                        *)
LEMMA ResultHasType ==
    ASSUME HandTypeOK, InferenceResult
    PROVE  HandTypeOK'
<1> DEFINE cntr == IF frame /\ cntr_hand_detected = Steady THEN Steady + 1
                    ELSE cntr_hand_detected
           now   == IF frame /\ cntr > Steady THEN Gesture ELSE NoHand
           ready == pref_gesture = NoHand /\ now = Gesture /\ cooldown_hand_action <= 0
           wait  == IF ready THEN MaxCooldown ELSE cooldown_hand_action
<1>1. /\ cntr_hand_detected' = cntr /\ gesture' = now /\ pref_gesture' = now /\ hand_data' = now
      /\ cooldown_hand_action' = IF wait > 0 THEN wait - 1 ELSE wait
      /\ inference' = "check" /\ UNCHANGED <<frame_queue, main, incoming, stop_event, frame>>
    BY DEF InferenceResult, mainVars
<1>2. cntr \in {Steady, Steady + 1} /\ now \in {NoHand, Gesture}
    BY DEF HandTypeOK
<1>3. wait \in 0 .. MaxCooldown
    BY HandAssumption DEF HandTypeOK
<1> HIDE DEF cntr, now, wait
<1>4. cooldown_hand_action' \in 0 .. MaxCooldown
    BY <1>1, <1>3, HandAssumption
<1> QED
    BY <1>1, <1>2, <1>4 DEF HandTypeOK

LEMMA HandTypesStep ==
    ASSUME HandInv, HandInv', HandTypeOK, [Next]_vars
    PROVE  HandTypeOK'
<1>1. /\ incoming' \in BOOLEAN /\ frame_queue' \in Seq(BOOLEAN)
      /\ frame_queue \in Seq(BOOLEAN) /\ Len(frame_queue) \in Nat /\ QueueSize \in Nat
    BY LenProperties, HandAssumption DEF HandInv
<1>2. CASE HandFrame
    BY <1>1, <1>2 DEF HandFrame, FrameArrives, resultVars, HandTypeOK
<1>3. CASE HandMain /\ FramePut
  <2>1. Len(frame_queue') = Len(frame_queue) + 1 /\ Len(frame_queue) < QueueSize
    BY <1>1, <1>3, AppendProperties DEF FramePut, HandInv
  <2> QED
    BY <1>1, <1>3, <2>1 DEF FramePut, resultVars, HandTypeOK
<1>4. CASE HandMain /\ (JoinEnds \/ Exit)
    BY <1>4 DEF JoinEnds, Exit, resultVars, HandTypeOK
<1>5. CASE HandInterrupt
    BY <1>5 DEF HandInterrupt, KeyboardInterrupt, resultVars, HandTypeOK
<1>6. CASE HandInference /\ InferenceGet
  <2>1. frame_queue # <<>> /\ frame_queue' = Tail(frame_queue) /\ frame' = Head(frame_queue)
    BY <1>6 DEF InferenceGet
  <2>2. frame' \in BOOLEAN /\ Len(frame_queue') = Len(frame_queue) - 1
    BY <1>1, <2>1, HeadTailProperties
  <2> QED
    BY <1>1, <1>6, <2>2 DEF InferenceGet, mainVars, resultVars, HandTypeOK
<1>7. CASE HandInference /\ (InferenceCheck \/ InferenceRaises)
    BY <1>7 DEF InferenceCheck, InferenceRaises, mainVars, resultVars, HandTypeOK
<1>8. CASE HandInference /\ InferenceResult
    BY <1>8, ResultHasType
<1>9. CASE UNCHANGED handVars
    BY <1>9 DEF handVars, HandTypeOK
<1> QED
    BY <1>2, <1>3, <1>4, <1>5, <1>6, <1>7, <1>8, <1>9
       DEF Next, vars, PeopleMove, callback_routine, FaceFrame, FaceTick, HandMain, HandInference

(* hand_track's types, the bound of its queue among them                       *)
(* (hand_track.py:30-74).                                                      *)
THEOREM HandTypeCorrect == Spec => []HandTypeOK
<1>1. Init => HandInv /\ HandTypeOK
    BY HandInitially, HandTypesBegin
<1>2. HandInv /\ [Next]_vars => HandInv'
    BY HandStep
<1>3. HandInv /\ HandInv' /\ HandTypeOK /\ [Next]_vars => HandTypeOK'
    BY HandTypesStep
<1> QED
    BY <1>1, <1>2, <1>3, PTL DEF Spec

-------------------------------------------------------------------------------
(* audio_controller, whatever it is asked to play, and however many players    *)
(* it starts.                                                                  *)

Threads == {Executor} \union Players

(* While the callbacks rest, or look at the head of the queue, and something   *)
(* waits in it, there is a player left to come back for it.                    *)
PlayerComesBack ==
    pc[Executor] \in {"idle", "compare"} =>
        queue = <<>> \/ \E p \in Players : pc[p] # "none"

AudioInv ==
    /\ pc \in [Threads -> Places]
    /\ PlayingHasPlayer
    /\ PlayerComesBack

LEMMA Thread ==
    /\ Executor \in Threads /\ Players \subseteq Threads
    /\ Executor \notin Players
BY DEF Threads, Executor, Players

LEMMA AudioInitially == AudioInit => AudioInv
<1> SUFFICES ASSUME AudioInit PROVE AudioInv
    OBVIOUS
<1>1. pc = [t \in Threads |-> IF t = Executor THEN "idle" ELSE "none"]
    BY DEF AudioInit, Threads
<1> QED
    BY <1>1, Thread DEF AudioInit, AudioInv, Places, PlayingHasPlayer,
       PlayerComesBack

(* The executor's own statements: when it comes to rest without a look at the  *)
(* queue, the queue is empty or as it was.                                     *)
LEMMA ExecutorKeepsAudio ==
    ASSUME AudioInv,
           \/ tick \/ Release \/ \E f \in Files : Request(f)
           \/ enqueue_audio
    PROVE  AudioInv'
<1> DEFINE x == Executor
<1> USE Thread DEF AudioInv
<1>1. CASE tick
    BY <1>1 DEF tick, shared, PlayingHasPlayer, PlayerComesBack
<1>2. CASE Kill
  <2>1. /\ pc' = [t \in Threads |-> IF t = x THEN "stopped"
                                    ELSE IF pc[t] = "sounding" THEN "ended" ELSE pc[t]]
        /\ is_playing' = is_playing /\ pc[x] = "kill"
    BY <1>2 DEF Kill, shared
  <2>2. pc' \in [Threads -> Places]
    BY <2>1 DEF Places
  <2> QED
    BY <2>1, <2>2 DEF PlayingHasPlayer, PlayerComesBack
<1>3. CASE \/ Release \/ (\E f \in Files : Request(f))
           \/ (Compare /\ queue # <<>>) \/ Filter \/ Assign \/ Preempt \/ Stopped \/ Clear
           \/ AppendAudio
  <2>1. PICK place \in Places : pc' = [pc EXCEPT ![x] = place]
    BY <1>3 DEF Release, Request, Compare, Filter, Assign, Preempt,
       Stopped, Clear, AppendAudio, Goto, Places
  <2>2. pc[x] # "none" /\ (is_playing' => is_playing)
    BY <1>3 DEF Release, Request, Compare, Filter, Assign, Preempt,
       Stopped, Clear, AppendAudio, shared
  <2>3. place \in {"idle", "compare"} =>
           queue' = <<>> \/ (pc[x] \in {"idle", "compare"} /\ queue' = queue)
    BY <1>3, <2>1 DEF Release, Request, Compare, Filter, Assign,
       Preempt, Stopped, Clear, AppendAudio, Goto, shared
  <2>4. pc' \in [Threads -> Places] /\ pc'[x] = place
        /\ \A p \in Players : pc'[p] = pc[p]
    BY <2>1
  <2> QED
    BY <2>2, <2>3, <2>4 DEF PlayingHasPlayer, PlayerComesBack
<1>4. CASE FilterFails \/ (Compare /\ queue = <<>>)
  <2>1. pc' = [s \in Threads |-> IF x = x \/ s = x THEN "none" ELSE pc[s]]
    BY <1>4 DEF FilterFails, Compare, Dies
  <2>2. pc' \in [Threads -> Places] /\ pc'[x] = "none"
    BY <2>1 DEF Places
  <2> QED
    BY <2>2 DEF PlayingHasPlayer, PlayerComesBack
<1> QED
    BY <1>1, <1>2, <1>3, <1>4 DEF enqueue_audio

(* play_next: who finds nothing to play leaves the queue empty or to the       *)
(* player that plays, and who plays starts one.                                *)
LEMMA PlayKeepsAudio ==
    ASSUME AudioInv, NEW t \in Threads, play_next(t)
    PROVE  AudioInv'
<1> DEFINE x == Executor
<1> USE Thread DEF AudioInv
<1>1. CASE Check(t)
  <2>1. /\ pc[t] = "check" /\ UNCHANGED <<queue, is_playing>>
        /\ pc' = [pc EXCEPT ![t] = IF NothingToPlay THEN Rest(t) ELSE "head"]
    BY <1>1 DEF Check, shared, Goto
  <2>2. /\ pc' \in [Threads -> Places]
        /\ \A s \in Threads \ {t} : pc'[s] = pc[s]
        /\ pc'[t] = IF NothingToPlay THEN Rest(t) ELSE "head"
    BY <2>1 DEF Rest, Places
  <2>3. PlayingHasPlayer'
    BY <2>1, <2>2 DEF PlayingHasPlayer, Rest
  <2>4. PlayerComesBack'
    <3>1. CASE NothingToPlay
      BY <2>1, <2>2, <2>3, <3>1 DEF NothingToPlay, PlayingHasPlayer, PlayerComesBack
    <3>2. CASE ~NothingToPlay
      BY <2>1, <2>2, <3>2 DEF PlayerComesBack
    <3> QED
      BY <3>1, <3>2
  <2> QED
    BY <2>2, <2>3, <2>4
<1>2. CASE TakeHead(t)
  <2>1. pc[t] = "head" /\ UNCHANGED <<queue, is_playing>>
    BY <1>2 DEF TakeHead, shared
  <2>2. CASE queue = <<>>
    <3>1. pc' = [s \in Threads |-> IF t = x \/ s = t THEN "none" ELSE pc[s]]
      BY <1>2, <2>2 DEF TakeHead, Dies
    <3> QED
      BY <2>1, <2>2, <3>1 DEF Places, PlayingHasPlayer, PlayerComesBack
  <2>3. CASE queue # <<>>
    <3>1. pc' = [pc EXCEPT ![t] = "launch"]
      BY <1>2, <2>3 DEF TakeHead, Goto
    <3> QED
      BY <2>1, <3>1 DEF Places, PlayingHasPlayer, PlayerComesBack
  <2> QED
    BY <2>2, <2>3
<1>3. CASE Launch(t)
  <2> DEFINE rested == [pc EXCEPT ![t] = Rest(t)]
             free   == {p \in Players : rested[p] = "none"}
             new    == CHOOSE p \in free : TRUE
  <2>1. free # {} /\ pc' = [rested EXCEPT ![new] = "starting"]
    BY <1>3 DEF Launch
  <2>2. new \in Players
    BY <2>1
  <2>3. rested \in [Threads -> Places]
    BY DEF Rest, Places
  <2> HIDE DEF rested, new
  <2>4. pc' \in [Threads -> Places] /\ pc'[new] = "starting"
    BY <2>1, <2>2, <2>3 DEF Places
  <2> QED
    BY <2>2, <2>4 DEF PlayingHasPlayer, PlayerComesBack
<1> QED
    BY <1>1, <1>2, <1>3 DEF play_next

(* A player's run: it stays until it has looked at the queue.                  *)
LEMMA RunKeepsAudio ==
    ASSUME AudioInv, NEW p \in Players, run(p)
    PROVE  AudioInv'
<1> DEFINE x == Executor
<1> USE Thread DEF AudioInv
<1>1. CASE Start(p) \/ Finish(p)
  <2>1. PICK place \in {"sounding", "ended"} : pc' = [pc EXCEPT ![p] = place]
    BY <1>1 DEF Start, Finish, Goto
  <2>2. UNCHANGED <<queue, is_playing>>
    BY <1>1 DEF Start, Finish, shared
  <2> QED
    BY <2>1, <2>2 DEF Places, PlayingHasPlayer, PlayerComesBack
<1>2. CASE Ended(p)
  <2>1. pc' = [pc EXCEPT ![p] = "pop"] /\ ~is_playing' /\ queue' = queue
    BY <1>2 DEF Ended, Goto, FlagCleared
  <2> QED
    BY <2>1 DEF Places, PlayingHasPlayer, PlayerComesBack
<1>3. CASE Pop(p)
  <2>1. pc[p] = "pop" /\ is_playing' = is_playing
    BY <1>3 DEF Pop
  <2>2. CASE queue = <<>>
    <3>1. pc' = [s \in Threads |-> IF s = p THEN "none" ELSE pc[s]] /\ queue' = queue
      BY <1>3, <2>2 DEF Pop, Dies
    <3> QED
      BY <2>1, <2>2, <3>1 DEF Places, PlayingHasPlayer, PlayerComesBack
  <2>3. CASE queue # <<>>
    <3>1. pc' = [pc EXCEPT ![p] = "check"]
      BY <1>3, <2>3 DEF Pop, Goto, AndThen
    <3> QED
      BY <2>1, <3>1 DEF Places, PlayingHasPlayer, PlayerComesBack
  <2> QED
    BY <2>2, <2>3
<1> QED
    BY <1>1, <1>2, <1>3 DEF run

(* The inductive invariant.                                                    *)
THEOREM AudioInvariance == AudioSpec => []AudioInv
<1>1. AudioInv /\ [AudioNext]_audioVars => AudioInv'
  <2> SUFFICES ASSUME AudioInv, [AudioNext]_audioVars PROVE AudioInv'
    OBVIOUS
  <2>1. CASE UNCHANGED audioVars
    BY <2>1 DEF audioVars, shared, AudioInv, PlayingHasPlayer, PlayerComesBack
  <2> QED
    BY <2>1, Thread, ExecutorKeepsAudio, PlayKeepsAudio, RunKeepsAudio DEF AudioNext
<1> QED
    BY AudioInitially, <1>1, PTL DEF AudioSpec

(* is_playing is never left TRUE with nobody to reset it, which would silence  *)
(* the node for good (audio_controller.py:45, 50, 56, 77, 106).                *)
THEOREM FlagIsReset == AudioSpec => []PlayingHasPlayer
<1>1. AudioInv => PlayingHasPlayer
    BY DEF AudioInv
<1> QED
    BY AudioInvariance, <1>1, PTL

(* No wake-up is lost: when the callbacks are done and no player is left,      *)
(* nothing waits in the queue (audio_controller.py:45-46, 58-59, 82-83).       *)
THEOREM NoLostWakeUp == AudioSpec => []NothingForgotten
<1>1. AudioInv => NothingForgotten
    BY DEF AudioInv, PlayerComesBack, NothingForgotten
<1> QED
    BY AudioInvariance, <1>1, PTL

-------------------------------------------------------------------------------
(* What audio_controller's threads hold of the queue between two statements.   *)

(* While a callback adds a file, neither the list it has built nor, once that  *)
(* is assigned, the queue has the file; and it holds none when it is through.  *)
Absent(f, s) == \A i \in 1..Len(s) : s[i] # f

NoneTwice ==
    /\ IsInjective(queue)
    /\ pc[Executor] = "assign" => IsInjective(kept) /\ Absent(file[Executor], kept)
    /\ pc[Executor] \in {"preempt", "kill", "stopped", "clear", "append"}
           => Absent(file[Executor], queue)
    /\ pc[Executor] \in {"idle", "check", "head"} => file[Executor] = None

Holds ==
    /\ pc[Executor] \in {"compare", "filter", "assign", "preempt", "append"} => file[Executor] \in Files
    /\ \A t \in Threads : pc[t] = "launch" => file[t] \in Files

QueueInv == TypeOK /\ NoneTwice /\ Holds

LEMMA TailLeaves ==
    ASSUME NEW S, NEW q \in Seq(S), q # <<>>
    PROVE  /\ Tail(q) \in Seq(S)
           /\ IsInjective(q) => IsInjective(Tail(q))
           /\ \A f : Absent(f, q) => Absent(f, Tail(q))
<1>1. /\ Len(q) \in Nat /\ Len(q) >= 1 /\ DOMAIN q = 1 .. Len(q)
      /\ Tail(q) \in Seq(S) /\ Len(Tail(q)) = Len(q) - 1 /\ DOMAIN Tail(q) = 1 .. Len(q) - 1
    OBVIOUS
<1>2. \A i \in 1 .. Len(q) - 1 : i + 1 \in 1 .. Len(q) /\ Tail(q)[i] = q[i + 1]
    BY <1>1
<1>3. ASSUME IsInjective(q), NEW a \in DOMAIN Tail(q), NEW b \in DOMAIN Tail(q),
             Tail(q)[a] = Tail(q)[b]
      PROVE  a = b
  <2>1. a \in 1 .. Len(q) - 1 /\ b \in 1 .. Len(q) - 1
    BY <1>1
  <2>2. q[a + 1] = q[b + 1] /\ a + 1 \in DOMAIN q /\ b + 1 \in DOMAIN q
    BY <1>1, <1>2, <1>3, <2>1
  <2>3. a + 1 = b + 1
    BY <1>3, <2>2 DEF IsInjective
  <2> QED
    BY <1>1, <2>1, <2>3
<1>4. \A f : Absent(f, q) => Absent(f, Tail(q))
    BY <1>1, <1>2 DEF Absent
<1> QED
    BY <1>1, <1>3, <1>4 DEF IsInjective

LEMMA AppendLeaves ==
    ASSUME NEW S, NEW q \in Seq(S), NEW f \in S, IsInjective(q), Absent(f, q)
    PROVE  Append(q, f) \in Seq(S) /\ IsInjective(Append(q, f))
<1> DEFINE r == Append(q, f)
<1>1. /\ Len(q) \in Nat /\ DOMAIN q = 1 .. Len(q) /\ r \in Seq(S) /\ DOMAIN r = 1 .. Len(q) + 1
      /\ r[Len(q) + 1] = f /\ \A i \in 1 .. Len(q) : r[i] = q[i]
    OBVIOUS
<1>2. ASSUME NEW a \in DOMAIN r, NEW b \in DOMAIN r, r[a] = r[b]
      PROVE  a = b
  <2> HIDE DEF r
  <2>1. a \in 1 .. Len(q) + 1 /\ b \in 1 .. Len(q) + 1
    BY <1>1
  <2>2. CASE a \in 1 .. Len(q) /\ b \in 1 .. Len(q)
    BY <1>1, <1>2, <2>2 DEF IsInjective
  <2>3. CASE a = Len(q) + 1 /\ b \in 1 .. Len(q)
    BY <1>1, <1>2, <2>3 DEF Absent
  <2>4. CASE a \in 1 .. Len(q) /\ b = Len(q) + 1
    BY <1>1, <1>2, <2>4 DEF Absent
  <2> QED
    BY <1>1, <2>1, <2>2, <2>3, <2>4
<1> QED
    BY <1>1, <1>2 DEF IsInjective

NatLess == {rs \in Nat \X Nat : rs[1] < rs[2]}

(* Every set of numbers has a least, which is how an induction is done here.   *)
LEMMA LeastNatural ==
    ASSUME NEW T, T \subseteq Nat, T # {}
    PROVE  \E m \in T : \A n \in T : m <= n
<1>1. IsWellFoundedOn(NatLess, Nat)
    BY NatLessThanWellFounded DEF OpToRel, NatLess
<1>2. \E m \in T : \A n \in T : <<n, m>> \notin NatLess
    BY <1>1, WFMin
<1>3. \E m \in T : \A n \in T : ~(n < m)
    BY <1>2 DEF NatLess
<1> QED
    BY <1>3


(* The list of line 72 exists for every queue, element by element; and of a    *)
(* queue that has no file twice it has every file at most once and not f.      *)
NextOther(others, q, f, k) ==
    IF k = 0 THEN <<>>
    ELSE IF q[k] = f THEN others[k - 1] ELSE Append(others[k - 1], q[k])

LEMMA OthersAreListed ==
    ASSUME NEW q, NEW f, NEW n \in Nat
    PROVE  \E others : others = [k \in 0 .. n |-> NextOther(others, q, f, k)]
<1> DEFINE UpTo(h, m) == \A k \in 0 .. m : h[k] = NextOther(h, q, f, k)
           T == {m \in Nat : \A h : ~UpTo(h, m)}
<1>1. 0 \notin T
  <2> DEFINE h == [k \in {0} |-> <<>>]
  <2>1. UpTo(h, 0)
    BY DEF NextOther
  <2> QED
    BY <2>1
<1>2. ASSUME NEW m \in Nat, m \notin T PROVE m + 1 \notin T
  <2>1. PICK h : UpTo(h, m)
    BY <1>2
  <2> DEFINE g == [k \in 0 .. m + 1 |-> IF k <= m THEN h[k] ELSE NextOther(h, q, f, k)]
  <2>2. ASSUME NEW k \in 0 .. m + 1 PROVE g[k] = NextOther(g, q, f, k)
    <3>1. g[k] = NextOther(h, q, f, k)
      BY <2>1
    <3>2. k # 0 => k - 1 \in 0 .. m + 1 /\ k - 1 <= m
      OBVIOUS
    <3>3. k # 0 => g[k - 1] = h[k - 1]
      BY <3>2
    <3> HIDE DEF g
    <3> QED
      BY <3>1, <3>3 DEF NextOther
  <2>3. UpTo(g, m + 1)
    BY <2>2
  <2> HIDE DEF g
  <2> QED
    BY <2>3
<1>3. T = {}
  <2> SUFFICES ASSUME T # {} PROVE FALSE
    OBVIOUS
  <2>1. PICK m \in T : \A k \in T : m <= k
    <3>1. T \subseteq Nat
      OBVIOUS
    <3> HIDE DEF T
    <3> QED
      BY <3>1, LeastNatural
  <2>2. T \subseteq Nat
    OBVIOUS
  <2> HIDE DEF T
  <2>3. m \in Nat /\ m # 0
    BY <1>1, <2>1, <2>2
  <2>4. m - 1 \in Nat /\ m - 1 \notin T /\ (m - 1) + 1 = m
    BY <2>1, <2>3
  <2> QED
    BY <1>2, <2>1, <2>4
<1>4. PICK h : UpTo(h, n)
    BY <1>3
<1> DEFINE g == [k \in 0 .. n |-> h[k]]
<1>5. ASSUME NEW k \in 0 .. n PROVE g[k] = NextOther(g, q, f, k)
  <2>1. k # 0 => k - 1 \in 0 .. n
    OBVIOUS
  <2>2. g[k] = h[k] /\ (k # 0 => g[k - 1] = h[k - 1])
    BY <2>1
  <2> HIDE DEF g
  <2> QED
    BY <1>4, <2>2 DEF NextOther
<1>6. g = [k \in 0 .. n |-> NextOther(g, q, f, k)]
    BY <1>5
<1> QED
    BY <1>6

LEMMA OthersAre ==
    ASSUME queue \in Seq(Files), IsInjective(queue), NEW f
    PROVE  Others(f) \in Seq(Files) /\ IsInjective(Others(f)) /\ Absent(f, Others(f))
<1> DEFINE n == Len(queue)
<1>1. n \in Nat /\ DOMAIN queue = 1 .. n /\ \A k \in 1 .. n : queue[k] \in Files
    OBVIOUS
<1> DEFINE IsList(others) == others = [k \in 0 .. n |-> NextOther(others, queue, f, k)]
           h == CHOOSE others : IsList(others)
<1>2. IsList(h)
    BY <1>1, OthersAreListed
<1>3. Others(f) = h[n]
    BY DEF Others, NextOther
<1> HIDE DEF h
<1>4. \A k \in 0 .. n : h[k] = NextOther(h, queue, f, k)
    BY <1>2
<1> HIDE DEF IsList, n
<1> DEFINE Good(k) == /\ h[k] \in Seq(Files) /\ IsInjective(h[k]) /\ Absent(f, h[k])
                      /\ \A i \in 1 .. Len(h[k]) : \E j \in 1 .. k : h[k][i] = queue[j]
           T == {k \in 0 .. n : ~Good(k)}
<1>5. Good(0)
  <2>1. h[0] = <<>>
    BY <1>1, <1>4 DEF NextOther
  <2> QED
    BY <2>1 DEF IsInjective, Absent
<1>6. ASSUME NEW k \in 0 .. n, k # 0, Good(k - 1) PROVE Good(k)
  <2>1. k \in Nat /\ k - 1 \in Nat /\ k \in 1 .. n /\ queue[k] \in Files /\ k \in DOMAIN queue
    BY <1>1, <1>6
  <2>2. CASE queue[k] = f
    <3>1. h[k] = h[k - 1]
      BY <1>4, <1>6, <2>2 DEF NextOther
    <3>2. \A j \in 1 .. k - 1 : j \in 1 .. k
      BY <2>1
    <3> QED
      BY <1>6, <3>1, <3>2
  <2>3. CASE queue[k] # f
    <3> DEFINE s == h[k - 1]
               r == Append(s, queue[k])
    <3>1. h[k] = r
      BY <1>4, <1>6, <2>3 DEF NextOther
    <3>2. /\ s \in Seq(Files) /\ IsInjective(s) /\ Absent(f, s)
          /\ \A i \in 1 .. Len(s) : \E j \in 1 .. k - 1 : s[i] = queue[j]
      BY <1>6
    <3> HIDE DEF s
    <3>3. Absent(queue[k], s)
      <4> SUFFICES ASSUME NEW i \in 1 .. Len(s), s[i] = queue[k] PROVE FALSE
        BY DEF Absent
      <4>1. PICK j \in 1 .. k - 1 : s[i] = queue[j]
        BY <3>2
      <4>2. j \in DOMAIN queue /\ j # k
        BY <1>1, <2>1, <4>1
      <4> QED
        BY <2>1, <4>1, <4>2 DEF IsInjective
    <3>4. r \in Seq(Files) /\ IsInjective(r)
      BY <2>1, <3>2, <3>3, AppendLeaves
    <3>5. /\ Len(s) \in Nat /\ Len(r) = Len(s) + 1 /\ r[Len(s) + 1] = queue[k]
          /\ \A i \in 1 .. Len(s) : r[i] = s[i]
      BY <2>1, <3>2
    <3> HIDE DEF r
    <3>6. \A i \in 1 .. Len(r) : i \in 1 .. Len(s) \/ i = Len(s) + 1
      BY <3>5
    <3>7. Absent(f, r)
      BY <2>3, <3>2, <3>5, <3>6 DEF Absent
    <3>8. ASSUME NEW i \in 1 .. Len(r) PROVE \E j \in 1 .. k : r[i] = queue[j]
      <4>1. CASE i = Len(s) + 1
        BY <2>1, <3>5, <4>1
      <4>2. CASE i \in 1 .. Len(s)
        <5>1. PICK j \in 1 .. k - 1 : s[i] = queue[j]
          BY <3>2, <4>2
        <5>2. j \in 1 .. k
          BY <2>1, <5>1
        <5> QED
          BY <3>5, <4>2, <5>1, <5>2
      <4> QED
        BY <3>6, <4>1, <4>2
    <3> QED
      BY <3>1, <3>4, <3>7, <3>8
  <2> QED
    BY <2>2, <2>3
<1> HIDE DEF Good
<1>7. T = {}
  <2> SUFFICES ASSUME T # {} PROVE FALSE
    OBVIOUS
  <2>1. T \subseteq Nat /\ T \subseteq 0 .. n
    BY <1>1
  <2> HIDE DEF T
  <2>2. PICK k \in T : \A j \in T : k <= j
    BY <2>1, LeastNatural
  <2>3. k \in 0 .. n /\ ~Good(k)
    BY <2>2 DEF T
  <2>4. k # 0
    BY <1>5, <2>3
  <2>5. k - 1 \in 0 .. n /\ k - 1 \notin T
    BY <1>1, <2>1, <2>2, <2>3, <2>4
  <2>6. Good(k - 1)
    BY <2>5 DEF T
  <2> QED
    BY <1>6, <2>3, <2>4, <2>6
<1>8. Good(n)
    BY <1>1, <1>7
<1> QED
    BY <1>3, <1>8 DEF Good

LEMMA QueueInitially == AudioInit => QueueInv
<1> SUFFICES ASSUME AudioInit PROVE QueueInv
    OBVIOUS
<1>1. /\ pc = [t \in Threads |-> IF t = Executor THEN "idle" ELSE "none"]
      /\ file = [t \in Threads |-> None]
    BY DEF AudioInit, Threads
<1>2. TypeOK
  <2>1. 0 \in 0 .. MaxRequests /\ 0 \in 0 .. CooldownTime
    BY AudioAssumption
  <2>2. pc \in [Threads -> Places] /\ file \in [Threads -> Files \union {None}]
    BY <1>1 DEF Places
  <2>3. cooldown \in [{Greeting, About} -> 0 .. CooldownTime]
    BY <2>1 DEF AudioInit
  <2>4. queue = <<>> /\ kept = <<>> /\ <<>> \in Seq(Files)
    BY DEF AudioInit
  <2>5. /\ is_playing \in BOOLEAN /\ released \in BOOLEAN /\ current_priority \in Files
        /\ requests \in 0 .. MaxRequests
    BY <2>1 DEF AudioInit, Files, Action
  <2> QED
    BY <2>2, <2>3, <2>4, <2>5 DEF TypeOK, Threads
<1>3. NoneTwice /\ Holds
    BY <1>1, Thread DEF AudioInit, NoneTwice, Holds, IsInjective
<1> QED
    BY <1>2, <1>3 DEF QueueInv

(* The executor's statements.                                                  *)
LEMMA ExecutorKeepsQueue ==
    ASSUME QueueInv,
           tick \/ Release \/ (\E f \in Files : Request(f)) \/ enqueue_audio
    PROVE  QueueInv'
<1> DEFINE x == Executor
<1> USE Thread
<1>0. /\ pc \in [Threads -> Places] /\ file \in [Threads -> Files \union {None}]
      /\ queue \in Seq(Files) /\ kept \in Seq(Files) /\ requests \in 0 .. MaxRequests
      /\ is_playing \in BOOLEAN /\ released \in BOOLEAN /\ current_priority \in Files
      /\ cooldown \in [{Greeting, About} -> 0..CooldownTime]
    BY DEF QueueInv, TypeOK, Threads
<1>1. CASE tick
  <2>1. cooldown' \in [{Greeting, About} -> 0..CooldownTime]
    BY <1>0, <1>1, AudioAssumption DEF tick, CountedDown
  <2> QED
    BY <1>1, <2>1 DEF tick, shared, QueueInv, TypeOK, NoneTwice, Holds
<1>2. CASE Release
  <2>1. /\ pc' = [pc EXCEPT ![x] = IF is_playing THEN "kill" ELSE "clear"]
        /\ pc[x] = "idle" /\ file[x] = None /\ requests' \in 0 .. MaxRequests /\ released' = TRUE
        /\ UNCHANGED <<queue, is_playing, current_priority, cooldown, file, kept>>
    BY <1>0, <1>2, AudioAssumption DEF Release, Goto, shared, QueueInv, NoneTwice
  <2>2. Absent(None, queue)
    BY <1>0 DEF Absent, None, Files, Action, Greeting, About
  <2> QED
    BY <1>0, <2>1, <2>2 DEF QueueInv, TypeOK, NoneTwice, Holds, Places, Threads
<1>3. ASSUME NEW f \in Files, Request(f) PROVE QueueInv'
  <2>1. /\ pc' = [pc EXCEPT ![x] = IF is_playing /\ queue # <<>> THEN "compare" ELSE "filter"]
        /\ file' = [file EXCEPT ![x] = f]
        /\ pc[x] = "idle" /\ requests' \in 0 .. MaxRequests /\ released' = FALSE
        /\ UNCHANGED <<queue, is_playing, current_priority, kept>>
    BY <1>0, <1>3, AudioAssumption DEF Request, Goto, shared
  <2>2. cooldown' \in [{Greeting, About} -> 0..CooldownTime]
    BY <1>0, <1>3, AudioAssumption DEF Request
  <2> QED
    BY <1>0, <1>3, <2>1, <2>2 DEF QueueInv, TypeOK, NoneTwice, Holds, Places, Threads
<1>11. CASE Compare
  <2>1. /\ pc[x] = "compare"
        /\ UNCHANGED <<queue, is_playing, current_priority, cooldown, kept, requests, released>>
    BY <1>11 DEF Compare, shared
  <2>2. CASE Dies(x) /\ file' = file
    BY <1>0, <2>1, <2>2 DEF Dies, QueueInv, TypeOK, NoneTwice, Holds, Places, Threads
  <2>3. CASE pc' = [pc EXCEPT ![x] = "idle"] /\ file' = [file EXCEPT ![x] = None]
    BY <1>0, <2>1, <2>3 DEF QueueInv, TypeOK, NoneTwice, Holds, Places, Threads
  <2>4. CASE pc' = [pc EXCEPT ![x] = "filter"] /\ file' = file
    BY <1>0, <2>1, <2>4 DEF QueueInv, TypeOK, NoneTwice, Holds, Places, Threads
  <2> QED
    BY <1>11, <2>2, <2>3, <2>4 DEF Compare, Goto
<1>12. CASE FilterFails
  <2>1. /\ pc[x] = "filter" /\ Dies(x)
        /\ UNCHANGED <<queue, is_playing, current_priority, cooldown, file, kept, requests, released>>
    BY <1>12 DEF FilterFails, shared
  <2> QED
    BY <1>0, <2>1 DEF Dies, QueueInv, TypeOK, NoneTwice, Holds, Places, Threads
<1>4. CASE Filter
  <2>1. /\ pc[x] = "filter" /\ kept' = Others(file[x]) /\ pc' = [pc EXCEPT ![x] = "assign"]
        /\ UNCHANGED <<queue, is_playing, current_priority, cooldown, file, requests, released>>
    BY <1>4 DEF Filter, Goto, shared
  <2>2. kept' \in Seq(Files) /\ IsInjective(kept') /\ Absent(file[x], kept')
    BY <1>0, <2>1, OthersAre DEF QueueInv, NoneTwice
  <2> QED
    BY <1>0, <2>1, <2>2 DEF QueueInv, TypeOK, NoneTwice, Holds, Places, Threads
<1>5. CASE Assign
  <2>1. /\ pc[x] = "assign" /\ queue' = kept /\ kept' = <<>> /\ pc' = [pc EXCEPT ![x] = "preempt"]
        /\ UNCHANGED <<is_playing, current_priority, cooldown, file, requests, released>>
    BY <1>5 DEF Assign, Goto
  <2> QED
    BY <1>0, <2>1 DEF QueueInv, TypeOK, NoneTwice, Holds, Places, Threads
<1>6. CASE Preempt
  <2>1. /\ pc[x] = "preempt" /\ \E place \in {"kill", "append"} : pc' = [pc EXCEPT ![x] = place]
        /\ UNCHANGED <<queue, is_playing, current_priority, cooldown, file, kept, requests, released>>
    BY <1>6 DEF Preempt, Goto, shared
  <2> QED
    BY <1>0, <2>1 DEF QueueInv, TypeOK, NoneTwice, Holds, Places, Threads
<1>7. CASE Kill
  <2>1. /\ pc[x] = "kill"
        /\ pc' = [t \in Threads |-> IF t = x THEN "stopped"
                                    ELSE IF pc[t] = "sounding" THEN "ended" ELSE pc[t]]
        /\ UNCHANGED <<queue, is_playing, current_priority, cooldown, file, kept, requests, released>>
    BY <1>0, <1>7 DEF Kill, shared
  <2> QED
    BY <1>0, <2>1 DEF QueueInv, TypeOK, NoneTwice, Holds, Places, Threads
<1>8. CASE Stopped
  <2>1. /\ pc[x] = "stopped" /\ is_playing' = FALSE /\ current_priority' = 0
        /\ pc' = [pc EXCEPT ![x] = "clear"]
        /\ UNCHANGED <<queue, cooldown, file, kept, requests, released>>
    BY <1>8 DEF Stopped, Goto
  <2> QED
    BY <1>0, <2>1 DEF QueueInv, TypeOK, NoneTwice, Holds, Places, Threads, Files, Action
<1>9. CASE Clear
  <2>1. /\ pc[x] = "clear" /\ queue' = <<>>
        /\ pc' = [pc EXCEPT ![x] = IF file[x] = None THEN "idle" ELSE "append"]
        /\ UNCHANGED <<is_playing, current_priority, cooldown, file, kept, requests, released>>
    BY <1>9 DEF Clear, Goto
  <2>2. IsInjective(queue') /\ Absent(file[x], queue')
    BY <2>1 DEF IsInjective, Absent
  <2> QED
    BY <1>0, <2>1, <2>2 DEF QueueInv, TypeOK, NoneTwice, Holds, Places, Threads
<1>10. CASE AppendAudio
  <2>1. /\ pc[x] = "append" /\ queue' = Append(queue, file[x])
        /\ pc' = [pc EXCEPT ![x] = "check"] /\ file' = [file EXCEPT ![x] = None]
        /\ UNCHANGED <<is_playing, current_priority, cooldown, kept, requests, released>>
    BY <1>10 DEF AppendAudio, Goto
  <2>2. queue' \in Seq(Files) /\ IsInjective(queue')
    BY <1>0, <2>1, AppendLeaves DEF QueueInv, NoneTwice, Holds
  <2> QED
    BY <1>0, <2>1, <2>2 DEF QueueInv, TypeOK, NoneTwice, Holds, Places, Threads
<1> QED
    BY <1>1, <1>2, <1>3, <1>4, <1>5, <1>6, <1>7, <1>8, <1>9, <1>10, <1>11, <1>12
    DEF enqueue_audio

LEMMA PlayKeepsQueue ==
    ASSUME QueueInv, NEW t \in Threads, play_next(t)
    PROVE  QueueInv'
<1> USE Thread
<1>0. /\ pc \in [Threads -> Places] /\ file \in [Threads -> Files \union {None}]
      /\ queue \in Seq(Files)
    BY DEF QueueInv, TypeOK, Threads
<1>1. CASE Check(t)
  <2>1. /\ pc[t] = "check" /\ \E place \in {Rest(t), "head"} : pc' = [pc EXCEPT ![t] = place]
        /\ UNCHANGED <<queue, is_playing, current_priority, cooldown, file, kept, requests, released>>
    BY <1>1 DEF Check, Goto, shared
  <2> QED
    BY <1>0, <2>1 DEF QueueInv, TypeOK, NoneTwice, Holds, Places, Threads, Rest
<1>2. CASE TakeHead(t)
  <2>1. pc[t] = "head"
        /\ UNCHANGED <<queue, is_playing, current_priority, cooldown, kept, requests, released>>
    BY <1>2 DEF TakeHead, shared
  <2>2. CASE queue = <<>>
    <3>1. pc' = [s \in Threads |-> IF t = Executor \/ s = t THEN "none" ELSE pc[s]] /\ file' = file
      BY <1>0, <1>2, <2>2 DEF TakeHead, Dies
    <3> QED
      BY <1>0, <2>1, <3>1 DEF QueueInv, TypeOK, NoneTwice, Holds, Places, Threads
  <2>3. CASE queue # <<>>
    <3>1. pc' = [pc EXCEPT ![t] = "launch"] /\ file' = [file EXCEPT ![t] = Head(queue)]
      BY <1>2, <2>3 DEF TakeHead, Goto
    <3>2. Head(queue) \in Files
      BY <1>0, <2>3
    <3> QED
      BY <1>0, <2>1, <3>1, <3>2 DEF QueueInv, TypeOK, NoneTwice, Holds, Places, Threads
  <2> QED
    BY <2>2, <2>3
<1>3. CASE Launch(t)
  <2> DEFINE rested == [pc EXCEPT ![t] = Rest(t)]
             free   == {p \in Players : rested[p] = "none"}
             new    == CHOOSE p \in free : TRUE
  <2>1. /\ pc[t] = "launch" /\ current_priority' = file[t] /\ is_playing' = TRUE
        /\ free # {} /\ pc' = [rested EXCEPT ![new] = "starting"]
        /\ file' = [file EXCEPT ![t] = None]
        /\ UNCHANGED <<queue, cooldown, kept, requests, released>>
    BY <1>3 DEF Launch
  <2>2. new \in Players
    BY <2>1
  <2>3. rested \in [Threads -> Places] /\ \A s \in Threads : s # t => rested[s] = pc[s]
    BY <1>0 DEF Rest, Places
  <2>4. rested[t] = Rest(t) /\ Rest(t) \in {"idle", "none"} /\ (Rest(t) = "idle" <=> t = Executor)
    BY <1>0 DEF Rest
  <2> HIDE DEF rested, new
  <2>5. /\ pc' \in [Threads -> Places] /\ pc'[Executor] = rested[Executor]
        /\ \A s \in Threads : pc'[s] = "launch" => s # t /\ pc[s] = "launch"
    BY <2>1, <2>2, <2>3, <2>4 DEF Places
  <2>6. file[t] \in Files /\ file' \in [Threads -> Files \union {None}] /\ file'[t] = None
        /\ \A s \in Threads : s # t => file'[s] = file[s]
    BY <1>0, <2>1 DEF QueueInv, Holds
  <2>7. CASE t = Executor
    BY <1>0, <2>1, <2>4, <2>5, <2>6, <2>7 DEF QueueInv, TypeOK, NoneTwice, Holds, Threads
  <2>8. CASE t # Executor
    <3>1. pc'[Executor] = pc[Executor] /\ file'[Executor] = file[Executor]
      BY <2>3, <2>5, <2>6, <2>8
    <3> QED
      BY <1>0, <2>1, <2>5, <2>6, <3>1 DEF QueueInv, TypeOK, NoneTwice, Holds, Threads
  <2> QED
    BY <2>7, <2>8
<1> QED
    BY <1>1, <1>2, <1>3 DEF play_next

LEMMA RunKeepsQueue ==
    ASSUME QueueInv, NEW p \in Players, run(p)
    PROVE  QueueInv'
<1> USE Thread
<1>0. /\ pc \in [Threads -> Places] /\ file \in [Threads -> Files \union {None}]
      /\ queue \in Seq(Files) /\ p \in Threads /\ p # Executor
    BY DEF QueueInv, TypeOK, Threads
<1>1. CASE Start(p) \/ Finish(p)
  <2>1. /\ \E place \in {"sounding", "ended"} : pc' = [pc EXCEPT ![p] = place]
        /\ UNCHANGED <<queue, is_playing, current_priority, cooldown, file, kept, requests, released>>
    BY <1>1 DEF Start, Finish, Goto, shared
  <2> QED
    BY <1>0, <2>1 DEF QueueInv, TypeOK, NoneTwice, Holds, Places, Threads
<1>2. CASE Ended(p)
  <2>1. /\ pc' = [pc EXCEPT ![p] = "pop"] /\ is_playing' = FALSE /\ current_priority' = 0
        /\ UNCHANGED <<queue, cooldown, file, kept, requests, released>>
    BY <1>2 DEF Ended, Goto, FlagCleared
  <2> QED
    BY <1>0, <2>1 DEF QueueInv, TypeOK, NoneTwice, Holds, Places, Threads, Files, Action
<1>3. CASE Pop(p)
  <2>1. UNCHANGED <<is_playing, current_priority, cooldown, file, kept, requests, released>>
    BY <1>3 DEF Pop
  <2>2. CASE queue = <<>>
    <3>1. pc' = [s \in Threads |-> IF s = p THEN "none" ELSE pc[s]] /\ queue' = queue
      BY <1>0, <1>3, <2>2 DEF Pop, Dies
    <3> QED
      BY <1>0, <2>1, <3>1 DEF QueueInv, TypeOK, NoneTwice, Holds, Places, Threads
  <2>3. CASE queue # <<>>
    <3>1. pc' = [pc EXCEPT ![p] = "check"] /\ queue' = Tail(queue)
      BY <1>3, <2>3 DEF Pop, Goto, AndThen, Popped
    <3>2. /\ queue' \in Seq(Files) /\ IsInjective(queue')
          /\ \A f : Absent(f, queue) => Absent(f, queue')
      BY <1>0, <2>3, <3>1, TailLeaves DEF QueueInv, NoneTwice
    <3> QED
      BY <1>0, <2>1, <3>1, <3>2 DEF QueueInv, TypeOK, NoneTwice, Holds, Places, Threads
  <2> QED
    BY <2>2, <2>3
<1> QED
    BY <1>1, <1>2, <1>3 DEF run

(* The inductive invariant, its type part included.                            *)
THEOREM QueueInvariance == AudioSpec => []QueueInv
<1>1. QueueInv /\ [AudioNext]_audioVars => QueueInv'
  <2> SUFFICES ASSUME QueueInv, [AudioNext]_audioVars PROVE QueueInv'
    OBVIOUS
  <2>1. CASE UNCHANGED audioVars
    BY <2>1 DEF audioVars, shared, QueueInv, TypeOK, NoneTwice, Holds
  <2> QED
    BY <2>1, Thread, ExecutorKeepsQueue, PlayKeepsQueue, RunKeepsQueue DEF AudioNext
<1> QED
    BY QueueInitially, <1>1, PTL DEF AudioSpec

(* No file is twice in the queue (audio_controller.py:71-72), although players *)
(* take from it between the making of the list and its assignment.             *)
THEOREM NoFileTwice == AudioSpec => []QueuedOnce
<1>1. QueueInv => QueuedOnce
    BY DEF QueueInv, NoneTwice, QueuedOnce
<1> QED
    BY QueueInvariance, <1>1, PTL

-------------------------------------------------------------------------------
(* ROS_if.js: whatever the order of the answers of rosapi, subscriptions are   *)
(* neither leaked nor mixed up.                                                *)

(* The part of WebTypeOK that the properties rest on.                          *)
WebKinds ==
    /\ listener \in [Consoles -> Requests \union {Nil}]
    /\ asked \in [Consoles -> SUBSET Topics]
    /\ pending \subseteq Requests /\ live \subseteq Requests
    /\ entered \in Nat

(* An open call that may lead to a subscription is for a topic in asked: that  *)
(* Escape leaves asked alone while calls are open is what keeps it so.         *)
CallsAsked ==
    \A p \in pending :
        /\ p.line.verb \in {"list", "echo", "hz"}
        /\ p.line.verb # "list" => p.line.topic \in asked[p.console]

WebInv == WebKinds /\ NoLeak /\ ListenerWasAsked /\ CallsAsked

(* Only "echo" and "hz" name a topic.                                          *)
LEMMA TopicOfLine ==
    ASSUME NEW line \in Lines
    PROVE  /\ line.verb \in {"list", "echo", "hz"} /\ line.verb # "list" => line.topic \in Topics
           /\ line.topic \in Topics \union {Nil}
  BY DEF Lines

(* The initial states satisfy the invariant.                                   *)
LEMMA WebInitially == WebInit => WebInv
  BY DEF WebInit, WebInv, WebKinds, NoLeak, ListenerWasAsked, CallsAsked

(* Every step keeps it: the calls of a new line are of its console, Escape     *)
(* takes away its console's only subscription, and so does a new one.          *)
LEMMA StepKeepsWeb == WebInv /\ [WebNext]_webVars => WebInv'
  <1> SUFFICES ASSUME WebInv, [WebNext]_webVars PROVE WebInv'
    OBVIOUS
  <1> USE DEF WebInv
  <1>1. ASSUME NEW c \in Consoles, NEW line \in Lines, Enter(c, line) PROVE WebInv'
    <2>1. Calls(c, line) \subseteq Requests
      BY DEF Calls, Requests, WebKinds
    <2>2. WebKinds'
      BY <1>1, <2>1, TopicOfLine DEF Enter, WebKinds
    <2>3. NoLeak'
      BY <1>1 DEF Enter, NoLeak
    <2>4. asked'[c] = asked[c] \union ({line.topic} \ {Nil})
          /\ \A d \in Consoles : asked[d] \subseteq asked'[d]
      BY <1>1 DEF Enter, WebKinds
    <2>5. ListenerWasAsked'
      BY <1>1, <2>4 DEF Enter, ListenerWasAsked
    <2>6. ASSUME NEW p \in pending'
          PROVE  /\ p.line.verb \in {"list", "echo", "hz"}
                 /\ p.line.verb # "list" => p.line.topic \in asked'[p.console]
      <3>1. CASE p \in pending
        BY <3>1, <2>4 DEF CallsAsked, WebKinds, Requests
      <3>2. CASE p \in Calls(c, line)
        <4>1. p.console = c /\ p.line = line /\ line.verb \in {"list", "echo", "hz"}
          BY <3>2 DEF Calls
        <4>2. line.verb # "list" => line.topic # Nil
          BY <4>1, TopicOfLine, WebAssumption
        <4> QED BY <4>1, <4>2, <2>4
      <3> QED BY <1>1, <3>1, <3>2 DEF Enter
    <2> QED BY <2>2, <2>3, <2>5, <2>6 DEF CallsAsked
  <1>2. ASSUME NEW c \in Consoles, Escape(c) PROVE WebInv'
    <2>1. WebKinds'
      BY <1>2 DEF Escape, WebKinds
    <2>2. \A d \in Consoles : listener'[d] = IF d = c THEN Nil ELSE listener[d]
      BY <1>2 DEF Escape, WebKinds
    <2>3. NoLeak'
      BY <1>2, <2>2 DEF Escape, NoLeak
    <2>4. \A d \in Consoles : d # c => asked'[d] = asked[d]
      BY <1>2 DEF Escape, WebKinds
    <2>5. ListenerWasAsked'
      BY <2>2, <2>4 DEF ListenerWasAsked
    <2>6. CallsAsked'
      BY <1>2, <2>4 DEF Escape, CallsAsked, WebKinds, Requests
    <2> QED BY <2>1, <2>3, <2>5, <2>6
  <1>3. ASSUME NEW c \in Consoles, ArrowUp(c) \/ ArrowDown(c) PROVE WebInv'
    BY <1>3 DEF ArrowUp, ArrowDown, WebKinds, NoLeak, ListenerWasAsked, CallsAsked
  <1>4. ASSUME NEW p \in pending, ListReply(p) \/ NotFoundReply(p) PROVE WebInv'
    BY <1>4 DEF ListReply, NotFoundReply, WebKinds, NoLeak, ListenerWasAsked, CallsAsked
  <1>5. ASSUME NEW p \in pending, FoundReply(p) PROVE WebInv'
    <2> DEFINE c == p.console
    <2>1. c \in Consoles /\ p \in Requests /\ p # Nil /\ p.line.verb # "list"
      BY <1>5, WebAssumption DEF WebKinds, Requests, FoundReply
    <2>2. /\ listener' = [listener EXCEPT ![c] = p]
          /\ live' = (live \ {listener[c]}) \union {p}
          /\ pending' = pending \ {p} /\ asked' = asked /\ entered' = entered
      BY <1>5 DEF FoundReply, ItsConsole, Unsubscribed
    <2>3. WebKinds'
      BY <2>1, <2>2 DEF WebKinds
    <2>4. \A d \in Consoles : listener'[d] = IF d = c THEN p ELSE listener[d]
      BY <2>2 DEF WebKinds
    <2>5. \A d \in Consoles : d # c => listener[d] # listener[c] \/ listener[d] = Nil
      BY <2>1 DEF NoLeak
    <2>6. NoLeak'
      <3>1. live' = {listener'[d] : d \in Consoles} \ {Nil}
        BY <2>1, <2>2, <2>4, <2>5 DEF NoLeak
      <3>2. \A d \in Consoles : listener'[d] # Nil => listener'[d].console = d
        BY <2>1, <2>4 DEF NoLeak
      <3> QED BY <3>1, <3>2 DEF NoLeak
    <2>7. p.line.topic \in asked[c]
      BY <2>1 DEF CallsAsked
    <2>8. ListenerWasAsked'
      BY <2>2, <2>4, <2>7 DEF ListenerWasAsked
    <2>9. CallsAsked'
      BY <2>2 DEF CallsAsked
    <2> QED BY <2>3, <2>6, <2>8, <2>9
  <1>6. ASSUME NEW s \in live, Message(s) PROVE WebInv'
    BY <1>6 DEF Message, WebKinds, NoLeak, ListenerWasAsked, CallsAsked
  <1>7. CASE UNCHANGED webVars
    BY <1>7 DEF webVars, WebKinds, NoLeak, ListenerWasAsked, CallsAsked
  <1> QED BY <1>1, <1>2, <1>3, <1>4, <1>5, <1>6, <1>7 DEF WebNext

(* The inductive invariant holds for all constants (ROS_if.js).                *)
THEOREM WebInvariance == WebSpec => []WebInv
  BY WebInitially, StepKeepsWeb, PTL DEF WebSpec

(* No subscription that cannot be cancelled any more, for any number of        *)
(* consoles and calls (ROS_if.js:158-241, 279-346).                            *)
THEOREM NothingLeaks == WebSpec => []NoLeak
  BY WebInvariance, PTL DEF WebInv

(* Every console shows only what was asked for on it (ROS_if.js:104-106,       *)
(* 158-241, 279-346).                                                          *)
THEOREM ConsolesApart == WebSpec => []ListenerWasAsked
  BY WebInvariance, PTL DEF WebInv

(* The rest of it: what is recalled and shown.  The two arrow keys stop at     *)
(* different ends, and Enter leaves the index one past the newest line.       *)
Recalled ==
    /\ stdin \in [Consoles -> Lines]
    /\ history \in [Consoles -> Seq(Lines)]
    /\ history_index \in [Consoles -> Nat]
    /\ \A c \in Consoles : history_index[c] <= Len(history[c])
    /\ stdout \in [Consoles -> SUBSET Texts]
    /\ entered <= MaxEnter

LEMMA RecalledInitially == WebInit => Recalled
  <1>1. EmptyLine \in Lines /\ <<>> \in Seq(Lines) /\ Len(<<>>) = 0
    BY DEF EmptyLine, Lines
  <1> QED
    BY <1>1, WebAssumption DEF WebInit, Recalled

LEMMA StepKeepsRecalled == WebInv /\ Recalled /\ [WebNext]_webVars => Recalled'
  <1> SUFFICES ASSUME WebInv, Recalled, [WebNext]_webVars PROVE Recalled'
    OBVIOUS
  <1> USE DEF Recalled
  <1>1. ASSUME NEW c \in Consoles, NEW line \in Lines, Enter(c, line) PROVE Recalled'
    <2>1. EmptyLine \in Lines
      BY DEF EmptyLine, Lines
    <2>2. history' = [history EXCEPT ![c] = Append(history[c], line)]
          /\ Append(history[c], line) \in Seq(Lines)
      BY <1>1 DEF Enter
    <2>3. history' \in [Consoles -> Seq(Lines)]
      BY <2>2
    <2>4. history_index' = [history_index EXCEPT ![c] = Len(history'[c])]
      BY <1>1 DEF Enter, EndOfHistory
    <2>5. Len(history'[c]) \in Nat
      BY <2>3
    <2>6. history_index' \in [Consoles -> Nat]
      BY <2>4, <2>5
    <2>7. \A d \in Consoles : history_index'[d] <= Len(history'[d])
      <3>1. ASSUME NEW d \in Consoles, d # c PROVE history_index'[d] <= Len(history'[d])
        BY <3>1, <2>2, <2>4
      <3>2. history_index'[c] = Len(history'[c])
        BY <2>4
      <3> QED
        BY <3>1, <3>2, <2>5
    <2>8. Shown(c, line) \subseteq Texts
      BY DEF Shown, Texts
    <2>9. stdin' \in [Consoles -> Lines] /\ stdout' \in [Consoles -> SUBSET Texts]
      BY <1>1, <2>1, <2>8 DEF Enter
    <2>10. entered' <= MaxEnter
      BY <1>1, WebAssumption DEF Enter, WebInv, WebKinds
    <2> QED
      BY <2>3, <2>6, <2>7, <2>9, <2>10
  <1>2. ASSUME NEW c \in Consoles, Escape(c) PROVE Recalled'
    BY <1>2 DEF Escape, input
  <1>3. ASSUME NEW c \in Consoles, ArrowUp(c) PROVE Recalled'
    <2>1. /\ history_index[c] > 0 /\ history_index' = [history_index EXCEPT ![c] = @ - 1]
          /\ stdin' = [stdin EXCEPT ![c] = history[c][history_index'[c] + 1]]
          /\ UNCHANGED <<history, stdout, entered>>
      BY <1>3 DEF ArrowUp, NotOldest
    <2>2. history_index'[c] = history_index[c] - 1 /\ history_index' \in [Consoles -> Nat]
      BY <2>1
    <2>3. history_index'[c] + 1 \in 1..Len(history[c])
      BY <2>1, <2>2
    <2>4. history[c][history_index'[c] + 1] \in Lines
      BY <2>3
    <2> QED
      BY <2>1, <2>2, <2>4
  <1>4. ASSUME NEW c \in Consoles, ArrowDown(c) PROVE Recalled'
    <2>1. /\ history_index[c] < Len(history[c]) - 1
          /\ history_index' = [history_index EXCEPT ![c] = @ + 1]
          /\ stdin' = [stdin EXCEPT ![c] = history[c][history_index'[c] + 1]]
          /\ UNCHANGED <<history, stdout, entered>>
      BY <1>4 DEF ArrowDown
    <2>2. history_index'[c] = history_index[c] + 1 /\ history_index' \in [Consoles -> Nat]
      BY <2>1
    <2>3. history_index'[c] + 1 \in 1..Len(history[c])
      BY <2>1, <2>2
    <2>4. history[c][history_index'[c] + 1] \in Lines
      BY <2>3
    <2> QED
      BY <2>1, <2>2, <2>4
  <1>5. ASSUME NEW p \in pending, ListReply(p) \/ NotFoundReply(p) PROVE Recalled'
    <2>1. p.console \in Consoles
      BY DEF WebInv, WebKinds, Requests
    <2> QED
      BY <1>5, <2>1 DEF ListReply, NotFoundReply, Texts, input
  <1>6. ASSUME NEW p \in pending, FoundReply(p) PROVE Recalled'
    BY <1>6 DEF FoundReply, input
  <1>7. ASSUME NEW s \in live, Message(s) PROVE Recalled'
    <2>1. s.console \in Consoles
      BY DEF WebInv, WebKinds, Requests
    <2> QED
      BY <1>7, <2>1 DEF Message, Texts, input
  <1>8. CASE UNCHANGED webVars
    BY <1>8 DEF webVars, input
  <1> QED BY <1>1, <1>2, <1>3, <1>4, <1>5, <1>6, <1>7, <1>8 DEF WebNext

(* Every variable stays within its type; above all, the index into a history   *)
(* never leaves it, whatever keys are pressed (ROS_if.js:383-412).             *)
THEOREM WebTypeCorrect == WebSpec => []WebTypeOK
  <1>1. WebInit => WebInv /\ Recalled
    BY WebInitially, RecalledInitially
  <1>2. WebInv /\ Recalled /\ [WebNext]_webVars => (WebInv /\ Recalled)'
    BY StepKeepsWeb, StepKeepsRecalled
  <1>3. WebInv /\ Recalled => WebTypeOK
    BY WebAssumption DEF WebInv, WebKinds, Recalled, WebTypeOK
  <1> QED
    BY <1>1, <1>2, <1>3, PTL DEF WebSpec
===============================================================================
