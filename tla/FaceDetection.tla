----------------------------- MODULE FaceDetection -----------------------------
(* The face_detection node: a window that opens when a face has been close for *)
(* some frames and shuts by itself, a greeting when it opens, at most one per  *)
(* cooldown.  One executor thread runs image_callback and tick_timer, so each  *)
(* is a step.  Times are counted in ticks of TIMER_INTERVAL: with the code's   *)
(* doubles 5.0 s are 25 ticks, the last second is 5 of them, and 20.0 s are    *)
(* 101, for 20.0 - 100 * 0.2 is still above 0.                                 *)
EXTENDS Integers, Sequences, SequencesExt

CONSTANTS WindowTicks,     \* MAX_TIMER_OPEN_WINDOW
          FreeTicks,       \* the ticks left when detecting is freed
          CooldownTicks,   \* GREETING_COOLDOWN_TIME
          FaceCount        \* MAX_FACE_DETECT_COUNT

ASSUME FaceAssumption ==
    /\ WindowTicks \in Nat /\ FreeTicks \in 0..WindowTicks - 1
    /\ CooldownTicks \in Nat \ {0} /\ FaceCount \in Nat \ {0}

(* A detection is told by its area: "near" covers more than 0.05 of the frame, *)
(* "mid" only more than 0.001.  A frame's faces are a sequence of detections.  *)
Areas == {"near", "mid"}

VARIABLES
    open_window, prev_open_window, detecting,
    timer_open_window,
    face_detected_counter,   \* counted up to FaceCount only: it is compared with that
    greeting_cooldown,
    sensitive,     \* is scale_factor 0.001?
    published,     \* what the last tick published, by topic
    since          \* history: ticks since the last greeting, up to CooldownTicks

faceVars == <<open_window, prev_open_window, detecting, timer_open_window,
              face_detected_counter, greeting_cooldown, sensitive, published, since>>

FaceInit ==
    /\ open_window = FALSE /\ prev_open_window = FALSE /\ detecting = FALSE
    /\ timer_open_window = WindowTicks /\ face_detected_counter = 0
    /\ greeting_cooldown = 0 /\ sensitive = FALSE
    /\ published = <<>> /\ since = CooldownTicks

BelowScale(area) == area # "near" /\ ~sensitive        \* slip: compared the wrong way
AboveScale(area) == area = "near" \/ sensitive

(* One detection of the loop: it counts, and opens the window if it is big     *)
(* enough and the count is reached, which starts the count anew.               *)
Counts(seen, area) ==
    LET n == seen.count + 1
        opens == n >= FaceCount /\ AboveScale(area)
    IN  [count |-> IF opens THEN 0 ELSE IF n < FaceCount THEN n ELSE FaceCount,
         opened |-> seen.opened \/ opens]

image_callback(faces) ==
    LET seen == FoldLeft(Counts, [count |-> face_detected_counter, opened |-> FALSE], faces)
    IN  /\ IF detecting
           THEN UNCHANGED <<open_window, detecting, timer_open_window, face_detected_counter>>
           ELSE /\ face_detected_counter' = IF faces = <<>> THEN 0 ELSE seen.count
                /\ open_window' = (open_window \/ seen.opened)
                /\ detecting' = seen.opened
                /\ timer_open_window' = IF seen.opened THEN WindowTicks ELSE timer_open_window
        /\ UNCHANGED <<prev_open_window, greeting_cooldown, sensitive, published, since>>

GreetsAlways(open) == open /\ ~prev_open_window        \* slip: no cooldown
Greets(open) == open /\ ~prev_open_window /\ greeting_cooldown <= 0

FreesAtTheEnd(left) == left <= 0                       \* slip: the wrong limit
Frees(left) == left <= FreeTicks

NeverShuts(left) == FALSE                              \* slip: no _close_window
Shuts(left) == left <= 0

tick_timer ==
    LET left   == IF open_window THEN timer_open_window - 1 ELSE timer_open_window
        shuts  == open_window /\ Shuts(left)
        open   == open_window /\ ~shuts
        greets == Greets(open)
        wait   == IF greets THEN CooldownTicks ELSE greeting_cooldown
        Flag(b) == <<"face_detected", IF b THEN 1 ELSE 0>>
    IN  /\ open_window' = open
        /\ detecting' = (detecting /\ ~(open_window /\ Frees(left)) /\ ~shuts)
        /\ timer_open_window' = IF shuts THEN WindowTicks ELSE left
        /\ greeting_cooldown' = IF wait > 0 THEN wait - 1 ELSE wait
        /\ sensitive' = (open /\ prev_open_window)
        /\ prev_open_window' = open
        /\ published' = IF greets THEN <<Flag(TRUE), Flag(open)>> ELSE <<Flag(open)>>
        /\ since' = IF greets THEN 0 ELSE IF since < CooldownTicks THEN since + 1 ELSE since
        /\ UNCHANGED face_detected_counter

-------------------------------------------------------------------------------
(* From one greeting to the next at least the whole cooldown passes, whatever  *)
(* windows open and shut in between (tick_timer, lines 102-113).               *)
GreetingsApart == [][since' = 0 /\ since # 0 => since >= CooldownTicks - 1]_faceVars

(* The camera's frames are ignored only while a window is open and has more    *)
(* than its last second to go: in that second the person still there is seen   *)
(* again and the window goes on (image_callback line 54, tick_timer line 96).  *)
DeafOnlyInWindow == detecting => open_window /\ timer_open_window > FreeTicks

(* What line 101 says, "Trigger greeting sound": a greeting asks the audio     *)
(* node for its sound, on the topic that node listens to.                      *)
GreetingSounds ==
    since = 0 => \E i \in 1..Len(published) : published[i][1] = "play_greeting"
===============================================================================
