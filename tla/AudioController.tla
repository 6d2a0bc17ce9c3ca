---------------------------- MODULE AudioController ----------------------------
(* The audio node: a queue of sound files, played one after the other by       *)
(* daemon threads, each waiting for its mpg123 child.  The callbacks (one      *)
(* executor thread, index 0) and the players share queue, is_playing and       *)
(* current_priority without a lock.  A step is a statement that touches them,  *)
(* save that is_playing and current_priority, always assigned together, are    *)
(* assigned in one.  Each file has its own priority and goes by it here.       *)
EXTENDS Integers, Sequences, SequencesExt, Functions

CONSTANTS MaxRequests,   \* bound: messages received
          MaxPlayers,    \* bound: player threads alive at once
          CooldownTime   \* cooldown_time and about_cooldown_time, in ticks

ASSUME AudioAssumption ==
    MaxRequests \in Nat /\ MaxPlayers \in Nat \ {0} /\ CooldownTime \in Nat

Action == 0     \* the files: AUDIO_ACTION_READY,
Greeting == 1   \*            AUDIO_GREETING
About == 2      \*        and AUDIO_ABOUT
Files == {Action, Greeting, About}
None == -1

Executor == 0
Players == 1..MaxPlayers

VARIABLES
    queue, is_playing, current_priority,   \* shared
    cooldown,    \* greeting_cooldown and about_cooldown
    pc,          \* of each thread: where it is
    file,        \* file_path, of a thread in enqueue_audio or play_next
    kept,        \* the list that line 72 built and has not yet assigned
    requests,    \* messages received so far
    released     \* history: was the last of them a release of the button?

shared    == <<queue, is_playing, current_priority>>
audioVars == <<shared, cooldown, pc, file, kept, requests, released>>

AudioInit ==
    /\ queue = <<>> /\ is_playing = FALSE /\ current_priority = 0
    /\ cooldown = [f \in {Greeting, About} |-> 0]
    /\ pc = [t \in {Executor} \union Players |-> IF t = Executor THEN "idle" ELSE "none"]
    /\ file = [t \in {Executor} \union Players |-> None]
    /\ kept = <<>> /\ requests = 0 /\ released = FALSE

Goto(t, place) == pc' = [pc EXCEPT ![t] = place]

(* Where a thread goes when it has nothing left to do.                         *)
Rest(t) == IF t = Executor THEN "idle" ELSE "none"

-------------------------------------------------------------------------------
(* The executor's thread: tick and the three callbacks, one at a time.         *)

NotGuarded(f) == cooldown[f] - 1             \* slip: the two ifs are left out
CountedDown(f) == IF cooldown[f] > 0 THEN cooldown[f] - 1 ELSE 0

tick ==
    /\ pc[Executor] = "idle" /\ \E f \in DOMAIN cooldown : cooldown[f] > 0
    /\ cooldown' = [f \in DOMAIN cooldown |-> CountedDown(f)]
    /\ UNCHANGED <<shared, pc, file, kept, requests, released>>

(* The thread t ends: if it is the executor's, the node, with its daemon        *)
(* threads.                                                                    *)
Dies(t) == pc' = [s \in DOMAIN pc |-> IF t = Executor \/ s = t THEN "none" ELSE pc[s]]

(* cb_face, cb_button and cb_hand with data = 1, and the test of enqueue_audio *)
(* as far as queue[0].                                                         *)
Request(f) ==
    /\ pc[Executor] = "idle" /\ requests < MaxRequests
    /\ f \in DOMAIN cooldown => cooldown[f] <= 0
    /\ requests' = requests + 1 /\ released' = FALSE
    /\ Goto(Executor, IF is_playing /\ queue # <<>> THEN "compare" ELSE "filter")
    /\ file' = [file EXCEPT ![Executor] = f]
    /\ cooldown' = IF f \in DOMAIN cooldown THEN [cooldown EXCEPT ![f] = CooldownTime]
                   ELSE cooldown
    /\ UNCHANGED <<shared, kept>>

Duplicate == file[Executor] = Head(queue)

(* queue[0]: an IndexError if a player has emptied the queue since the test.   *)
Compare ==
    /\ pc[Executor] = "compare"
    /\ \/ queue = <<>> /\ Dies(Executor) /\ UNCHANGED file
       \/ /\ queue # <<>> /\ Duplicate
          /\ Goto(Executor, "idle") /\ file' = [file EXCEPT ![Executor] = None]
       \/ queue # <<>> /\ ~Duplicate /\ Goto(Executor, "filter") /\ UNCHANGED file
    /\ UNCHANGED <<shared, cooldown, kept, requests, released>>

AllKept(f) == queue                          \* slip: the file is not taken out
Others(f) ==
    LET others[n \in 0..Len(queue)] ==
            IF n = 0 THEN <<>>
            ELSE IF queue[n] = f THEN others[n - 1] ELSE Append(others[n - 1], queue[n])
    IN  others[Len(queue)]

Filter ==
    /\ pc[Executor] = "filter"
    /\ kept' = Others(file[Executor])
    /\ Goto(Executor, "assign")
    /\ UNCHANGED <<shared, cooldown, file, requests, released>>

(* A player's popleft while the list is being made: a RuntimeError.            *)
FilterFails ==
    /\ pc[Executor] = "filter" /\ queue # <<>> /\ \E p \in Players : pc[p] = "pop"
    /\ Dies(Executor)
    /\ UNCHANGED <<shared, cooldown, file, kept, requests, released>>

Assign ==
    /\ pc[Executor] = "assign"
    /\ queue' = kept /\ kept' = <<>>
    /\ Goto(Executor, "preempt")
    /\ UNCHANGED <<is_playing, current_priority, cooldown, file, requests, released>>

Preempt ==
    /\ pc[Executor] = "preempt"
    /\ Goto(Executor, IF is_playing /\ file[Executor] > current_priority
                      THEN "kill" ELSE "append")
    /\ UNCHANGED <<shared, cooldown, file, kept, requests, released>>

(* cb_button with data = 0.                                                    *)
Release ==
    /\ pc[Executor] = "idle" /\ requests < MaxRequests
    /\ requests' = requests + 1 /\ released' = TRUE
    /\ Goto(Executor, IF is_playing THEN "kill" ELSE "clear")
    /\ UNCHANGED <<shared, cooldown, file, kept>>

(* pkill mpg123: every child there is, but not one that is still to be started. *)
Kill ==
    /\ pc[Executor] = "kill"
    /\ pc' = [t \in DOMAIN pc |-> IF t = Executor THEN "stopped"
                                  ELSE IF pc[t] = "sounding" THEN "ended" ELSE pc[t]]
    /\ UNCHANGED <<shared, cooldown, file, kept, requests, released>>

Stopped ==
    /\ pc[Executor] = "stopped"
    /\ is_playing' = FALSE /\ current_priority' = 0
    /\ Goto(Executor, "clear")
    /\ UNCHANGED <<queue, cooldown, file, kept, requests, released>>

Clear ==
    /\ pc[Executor] = "clear"
    /\ queue' = <<>>
    /\ Goto(Executor, IF file[Executor] = None THEN "idle" ELSE "append")
    /\ UNCHANGED <<is_playing, current_priority, cooldown, file, kept, requests, released>>

AppendAudio ==
    /\ pc[Executor] = "append"
    /\ queue' = Append(queue, file[Executor])
    /\ file' = [file EXCEPT ![Executor] = None]
    /\ Goto(Executor, "check")
    /\ UNCHANGED <<is_playing, current_priority, cooldown, kept, requests, released>>

enqueue_audio ==
    \/ Compare \/ Filter \/ FilterFails \/ Assign \/ Preempt
    \/ Kill \/ Stopped \/ Clear \/ AppendAudio

-------------------------------------------------------------------------------
(* play_next, by the executor's thread or by a player's.                       *)

NothingToPlay == is_playing \/ queue = <<>>

Check(t) ==
    /\ pc[t] = "check"
    /\ Goto(t, IF NothingToPlay THEN Rest(t) ELSE "head")
    /\ UNCHANGED <<shared, cooldown, file, kept, requests, released>>

(* queue[0]: an IndexError of a queue emptied since the check.                 *)
TakeHead(t) ==
    /\ pc[t] = "head"
    /\ IF queue = <<>> THEN Dies(t) /\ UNCHANGED file
       ELSE Goto(t, "launch") /\ file' = [file EXCEPT ![t] = Head(queue)]
    /\ UNCHANGED <<shared, cooldown, kept, requests, released>>

Launch(t) ==
    /\ pc[t] = "launch"
    /\ current_priority' = file[t] /\ is_playing' = TRUE
    /\ LET rested == [pc EXCEPT ![t] = Rest(t)]
           free   == {p \in Players : rested[p] = "none"}
       IN  free # {} /\ pc' = [rested EXCEPT ![CHOOSE p \in free : TRUE] = "starting"]
    /\ file' = [file EXCEPT ![t] = None]
    /\ UNCHANGED <<queue, cooldown, kept, requests, released>>

play_next(t) == Check(t) \/ TakeHead(t) \/ Launch(t)

-------------------------------------------------------------------------------
(* run(), a player's thread.                                                   *)

Start(p) ==
    /\ pc[p] = "starting"
    /\ Goto(p, "sounding")
    /\ UNCHANGED <<shared, cooldown, file, kept, requests, released>>

Finish(p) ==
    /\ pc[p] = "sounding"
    /\ Goto(p, "ended")
    /\ UNCHANGED <<shared, cooldown, file, kept, requests, released>>

FlagLeft == is_playing                         \* slip: the next play sets it
FlagCleared == FALSE

Ended(p) ==
    /\ pc[p] = "ended"
    /\ is_playing' = FlagCleared /\ current_priority' = 0
    /\ Goto(p, "pop")
    /\ UNCHANGED <<queue, cooldown, file, kept, requests, released>>

StopsHere == "none"                            \* slip: play_next() is forgotten
AndThen == "check"

NotPopped == queue                             \* slip: only read, never removed
Popped == Tail(queue)

(* popleft: what is at the head by now, an IndexError if nothing is.           *)
Pop(p) ==
    /\ pc[p] = "pop"
    /\ IF queue = <<>> THEN Dies(p) /\ UNCHANGED queue
       ELSE Goto(p, AndThen) /\ queue' = Popped
    /\ UNCHANGED <<is_playing, current_priority, cooldown, file, kept, requests, released>>

run(p) == Start(p) \/ Finish(p) \/ Ended(p) \/ Pop(p)

-------------------------------------------------------------------------------
AudioNext ==
    \/ tick \/ Release \/ \E f \in Files : Request(f)
    \/ enqueue_audio \/ play_next(Executor)
    \/ \E p \in Players : play_next(p) \/ run(p)

AudioSpec == AudioInit /\ [][AudioNext]_audioVars

(* Threads are scheduled, and a sound file ends.                               *)
AudioFairSpec ==
    /\ AudioSpec
    /\ WF_audioVars(enqueue_audio \/ play_next(Executor))
    /\ \A p \in Players : WF_audioVars(play_next(p) \/ run(p))

-------------------------------------------------------------------------------
(* Properties.                                                                 *)

Places == {"idle", "compare", "filter", "assign", "preempt", "kill", "stopped", "clear",
           "append", "check", "head", "launch", "starting", "sounding", "ended",
           "pop", "none"}

TypeOK ==
    /\ queue \in Seq(Files) /\ kept \in Seq(Files)
    /\ is_playing \in BOOLEAN /\ released \in BOOLEAN
    /\ current_priority \in Files
    /\ cooldown \in [{Greeting, About} -> 0..CooldownTime]
    /\ pc \in [{Executor} \union Players -> Places]
    /\ file \in [{Executor} \union Players -> Files \union {None}]
    /\ requests \in 0..MaxRequests

(* audio_controller.py:71 wants no file twice in the queue: so it is, even     *)
(* when a player pops between the list's making and its assignment.            *)
QueuedOnce == IsInjective(queue)

(* is_playing is never left TRUE with nobody to reset it, which would silence  *)
(* the node for good (audio_controller.py:45, 50, 56, 77, 106).                *)
PlayingHasPlayer ==
    is_playing /\ pc[Executor] # "none" =>
        \E p \in Players : pc[p] \in {"starting", "sounding", "ended"}

(* No lost wake-up: when the callbacks are done and no player is left, nothing *)
(* waits in the queue (audio_controller.py:45-46, 58-59, 82-83).               *)
NothingForgotten ==
    pc[Executor] = "idle" /\ (\A p \in Players : pc[p] = "none") => queue = <<>>

(* Requests over, the players come to an end (audio_controller.py:54-61).      *)
FallsSilent == <>[](\A p \in Players : pc[p] = "none")

(* audio_controller.py:102 says "tombol dilepas -> hentikan semua audio", the  *)
(* button is released, stop all audio: once the callback is done, none sounds. *)
SilentOnRelease ==
    released /\ pc[Executor] = "idle" => \A p \in Players : pc[p] # "sounding"
===============================================================================
