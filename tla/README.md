# RAISA in TLA+

RAISA is a ROS 2 robot: a Reeman mobile base behind an HTTP API, a mission node
that drives it, a web page, an audio player, three camera nodes and a gamepad
driver, with an HTTP client (cpr) and a JSON library (nlohmann) vendored in.
This directory holds TLA+ models of its programs, the TLC configurations that
check them on small instances, and TLAPS proofs of theorems that hold for every
value of the constants. Paths below are relative to the repository; `io_reeman.cpp` is `src/communication/src/io_reeman.cpp`.

    tlc -config SpeedWorker.cfg SpeedWorker     # one run
    tlapm SpeedWorker_proofs.tla                # one module of proofs

## 1. The system

The launch file (`src/ros2_utils/launch/all.launch.py`) starts `master`,
`io_reeman` and the web servers with `respawn=True`; the audio, vision and
gamepad nodes are described there too but commented out of the list.

| component | state | operations | talks to |
|---|---|---|---|
| `io_reeman`, velocity path | `cmd_queue_` under `cmd_mutex_`, `last_speed_post_`, `worker_running_` | `callbackCmdVel`, `speedCommandWorker` (own thread), `~IOReeman` | `/cmd/vel` in, HTTP POST `/cmd/speed` out |
| `io_reeman`, commands and polling | `robot`, the readers' histories | `callbackCmdNav/NavName/Reloc/SetMode/CancelNav`, `pollingTimerCallback` with five getters | `/cmd/*` in, HTTP POST and GET, `/reeman/robot_info`, `/reeman/nav_status` out |
| `master` | `fsm_robot`, `count_step`, `sudahterkitim`, `res`, `battery_` | `timerRoutine` (1 s), `statusCallback`, `callbackBattery`, three callbacks that only store | `/reeman/*` in, `/cmd/nav`, `/cmd/vel`, `/cmd/cancel_nav` out |
| `audio_controller` | `queue`, `is_playing`, `current_priority`, two cooldowns | `cb_face`, `cb_button`, `cb_hand`, `tick`, `enqueue_audio`, `play_next`, player threads `run` | three topics in, `mpg123` children |
| web consoles, `ROS_if.js` | per console: history and index, output, listener | Enter, Escape, arrows, answers of rosapi, messages | rosbridge |
| `ds4_driver` | `device`, watchers, `stop_rumble_timer` | `setup_device`, `cleanup_device`, `read_report`, `exit`, `cb_feedback`, `cb_stop_rumble` | ds4drv (external), `set_feedback` in |
| `face_detection` | window, detecting flag, counters, cooldown | `image_callback`, `tick_timer` | camera in, `/vision/face_detected` out |
| `hand_track` | `Queue(2)`, gesture, cooldown | `image_callback`, inference thread, `destroy_node` | camera in, `/vision/hand_data` out |
| `capture`, `detection` | a frame counter | camera I/O | images |
| `ros2_utils` | `MachineState`: value, time stamps | the machine's helpers, the logger | used by `master` |
| `cpr` thread pool | status, two counters, task queue, thread list | `Start`, `Submit`, `Pause`, `Resume`, `Stop`, `Wait`, the workers | threads |
| `cpr` `Session`, interceptors | content, callbacks, the options left on the curl handle, the chain | `Get` ... `Download`, setters, `Intercept` | libcurl (external) |
| `cpr` `MultiPerform` | sessions, download flag, each session's lock | add, remove, requests, destructor | libcurl (external) |
| `nlohmann_json` | scanner state; stacks of the parser and its builder | `parse`, `dump` | called by `io_reeman` on every answer and body |
| `roslib`, `anime` | - | vendored | - |

What is hard in it, and what each component must therefore guarantee:

* **Velocity path.** Three threads of control (executor, worker, destructor), a
  mutex, a queue that is drained and swapped, a throttle, and a POST that
  blocks up to 3 s and may be applied by the base after it timed out. Commands
  must leave in order, at most once, at most one per period; the newest queued
  one must win; nothing may leave a destroyed node.
* **Commands and polling.** Everything else of that node shares one mutually
  exclusive callback group, and every callback blocks in HTTP. Commands must
  not be duplicated or reordered, readings must never go back, neither side may
  starve the other; an exception kills the process, and a new one starts.
* **Mission.** A state machine driven by a status that travels through two
  processes: the goal must go out once, and only the right status may end it.
* **Audio.** Player threads and callbacks share three fields without a lock.
  No file may be queued twice or forgotten, and the playing flag may not stick.
* **Web page.** Answers overtake each other and come after Escape.
  Subscriptions may not leak or land on another console.
* **Gamepad.** Three threads share `self.device`; disconnects race the signal
  handler; timers are periodic and their handle is overwritten.
* **Camera nodes.** A window that opens by a count of frames, shuts by ticks and
  makes the node deaf in between, over a topic that loses frames; a bounded
  queue between two threads, each of which tests it before it uses it.
* **cpr.** Workers come and go by counters that two sides keep without a common
  lock; one curl handle keeps its options from one request to the next, and
  interceptors nest and repeat requests on it; a session that is in a multi
  must be locked exactly that long, whatever failed.
* **JSON.** Three hand-written automata (numbers, strings with escapes, the
  grammar with two stacks) and a second UTF-8 automaton in the serializer, which
  must agree: `io_reeman` dumps what it parsed, and what came from a ROS string,
  outside any `try`.

The hazards are listed line by line under `hazards` in PROJECT.json, each with the
properties that watch it or the reason why none does.

## 2. The modules

| module | models | composed of |
|---|---|---|
| `LossyChannel` | what the velocity path promises: an in-order channel that may lose | |
| `SpeedWorker` | the velocity path, thread by thread | refines `LossyChannel` |
| `IoReeman` | the rest of `io_reeman`, and the base as far as it answers | |
| `Master` | the mission node | |
| `Mission` | what the robot does as seen from the room: one drive a life, three turns | |
| `Raisa` | the robot as launched: both nodes, the base, topics, discovery, crashes | `Master`, `IoReeman` (INSTANCE); refines `Mission` |
| `AudioController` | the audio node, statement by statement | |
| `WebConsole` | the consoles of the web page | |
| `Ds4` | the gamepad driver's threads | |
| `FaceDetection` | the window, the greeting and its cooldown, tick by tick | |
| `HandTrack` | the executor, the frame queue, the inference thread, Ctrl-C | |
| `Vision` | capture, the image topic, and one of the two nodes behind it | `FaceDetection`, `HandTrack` (EXTENDS) |
| `TaskQueue` | what the pool promises of its tasks: taken in order, each once | |
| `ThreadPool` | cpr's pool, one client and its workers | refines `TaskQueue` |
| `Session` | one session, its handle and its interceptors | |
| `MultiPerform` | multi handles and the sessions added to them | |
| `Cpr` | a program that uses one of the three | `ThreadPool`, `Session`, `MultiPerform` (EXTENDS) |
| `JsonLexer` | the scanner, one `get()` at a time | |
| `JsonDump` | `dump_escaped` with its UTF-8 decoder and error handlers | `JsonLexer` (EXTENDS) |
| `JsonParser` | `sax_parse_internal`, the DOM builder, and `dump` of a value | |
| `Json` | the texts, strings and bytes the three are fed | `JsonDump`, `JsonParser` (EXTENDS) |
| `*_proofs` | theorems about the module they extend; `Raisa_proofs` uses those of its two nodes, `Nodes_proofs` is about the cameras, the audio node and the web page | `Vision`, `AudioController`, `WebConsole`; `Master_proofs`, `IoReeman_proofs` (INSTANCE) |

Each module's comments name the functions; `map` in PROJECT.json gives the
lines of every definition. Conventions:

* An action is a whole handler, or, where threads share state without a lock or
  block in the middle, one of its statements, with a program counter.
* A definition marked *slip* is a plausible bug (a dropped guard, a missing
  reset). No specification uses it: put in place of the definition after it,
  it must make TLC find the property listed with it under `mutants` violated.
* Variables marked *history* are read by properties only.
* Bounds are CONSTANTS named `Max...`. They stop the environment (publishers,
  crashes, the clock), never the program.

**SpeedWorker.** `published`, `channel`, `callback` are the topic, the reader's
KEEP_LAST 1 history and the callback in progress; `locked` is the mutex as the
worker holds it; the callback's own critical section is one step, guarded by
`CallbackMayPush`. The worker's `pc` walks the loop: *check* (loop condition
after the 10 ms sleep), *lock*, *drain* (one `pop()` a step), *take*
(front, swap, unlock), *sample* (clock and throttle), *post*, *answer*. `wire`
holds the POSTs the base has not applied: it may apply or lose one at any time,
also after the worker gave up on it; only an applied one can be answered well.

**IoReeman.** `slot` is the one callback that may run. `CommandStart` and
`CommandEnd` are the two ends of a blocking POST, `PollField` is one getter of
`publishRobotInfo` with the publication after the last, `PollNavStatus` the
other publication. `Crash` is nlohmann's exception out of a callback: a getter or
`value()` meets a reply without its key or shape, or `dump()` a name that is not
UTF-8, before the POST. `info` is the last message published, and `asked`, a
history, what the base had when the poll began.
`Fields` chooses which groups of `robot` exist; a run with none models the
command path and `nav_status` alone. `Indeterminate` stands for the bytes of
the uninitialised `robot`.

**Master.** Single-threaded, so a step is a callback. `res` has no initialiser:
it starts with any value. `first`, `reported`, `goals`, `turns`, `forwards` are
histories.

**Raisa.** A step is a step of one node with what its publications do to the
other's reader. `matched` is DDS discovery: before it, and again after a crash,
samples are lost. `ResOf` turns the base's progress into the status code. The
mapping to `Mission` reads `legs` off the base's progress, `lives` off the
master's crashes, and `sure` as `FirstLife`: nothing uninitialised and nothing
left over can be taken for an arrival. Two
topics are left out on purpose: `/reeman/robot_info`, which the master stores
and never reads, and `/reeman/battery`, which nobody publishes.

**AudioController.** `pc` of the executor (0) and of the players. Line 65 is two
places, the test that the queue has something and `queue[0]` (*compare*), between
which a player may empty it. `kept` is the list line 72 has built and not yet
assigned; a `popleft` while it is being built is `FilterFails`, the RuntimeError
of a deque changed during iteration. `Kill` is `pkill mpg123`, which reaches the
children that exist and not the one about to be started. An IndexError or
RuntimeError ends its thread, and the node if it is the executor's.

**WebConsole.** The four copies of each handler are one action with the console
as parameter, `ItsConsole` being the `listener_id` each copy passes. `pending`
are calls of `/rosapi/topics`, answered in any order, or never.

**Ds4.** `pc` of main, the event loop and the spin thread. `self.device` is read
anew in every line of `cleanup_device` and twice in `_control`, as in the code;
`None` at the wrong moment is an AttributeError and ends the thread.
`PadFound` is the backend's opening of the pad and `SetDevice` line 30's
assignment, between which SIGINT finds no device; `taken`, a history, has the
pads that got as far as `self.device`. `timers`
are those that live, `stop_rumble_timer` the one the driver can still destroy.
ds4drv is external: a pad is readable or gone, a closed one fails.

**FaceDetection, HandTrack, Vision.** `face_detection` has one thread: its steps
are `image_callback` and `tick_timer`, each whole. Times are ticks of 0.2 s. A
face is `near` or `mid`, by the two areas the code tells apart. In `hand_track`
`main` and `inference` are program counters; `FrameArrives` is `full()`,
`FramePut` is `put()`, `InferenceCheck` is `empty()`, `InferenceGet` is `get()`.
The inference may hang for ever; `JoinEnds` is the join that gives up. `Vision`
launches one of the nodes behind the camera's frame counter and a topic of which
the subscription keeps the newest `Depth` frames; `scene` is what stands in front of the camera. The
nodes share no state, so running one at a time finds all that either can do.

**ThreadPool.** A step is what one lock covers, or what one atomic access
separates from the next: `CreateThread` and `AddThread` are two, because the new
thread runs before it is counted; so are `DelThreadCounts` and `DelThread`, and
the two loads of `Wait`. `Stop` walks along the thread list entry by entry
(`StopJoins`) without the lock under which `DelThread` joins and erases entries:
`ListRaces` is that undefined behaviour, after which the program may have ended
(`client` is *crashed*). `min_thread_num` is a variable, from 0 up, which
`SetMinThreadNum` changes while the pool is stopped, as `async::startup` does. The
counters wrap at `Width`, a small `size_t`.

**Session.** `handle` has the options that outlive a request: method, nobody,
custom name, data and their size, form; `Wire` is what libcurl (external) makes
of them. `chain` holds the `Intercept` calls that are open, so an interceptor may
make other requests, repeat its own, set or remove content, answer itself,
throw (`interceptThrows`, after which nothing is restored), or, once its request is
performed, add another. `asked` (the call, and whether an interceptor has
*meddled* with the handle since), `covered` (a form was set over a body),
`orderly` (no interceptor has answered, thrown or added) and `sent` are histories.

**MultiPerform.** `member` and `ended` are libcurl's; an error it returns after
the lock was set, a handle that belongs to another multi, a `perform` that fails
with transfers still running, and the message of a session not listed are
modelled. `MoveAssign` is the defaulted move assignment, which frees the handle of
the multi assigned to and runs no destructor: its sessions are `stranded`, and the
multi moved from (`moved`) has no handle. `request` says of the last request
whether it was *smooth* (libcurl did not fail, and no session of the list had ended
its transfer before) and whether every session was *answered*.

**Json modules.** A character is its byte; an escape is one character that
carries its letter or code point. A run feeds one of five subjects: a number, a
string or any other token to the lexer, arbitrary bytes to `dump_escaped`, a
text of tokens to the parser. `NumberArcs` is the comment's transition table as
the `goto`s carry it out; `Sequences` the byte ranges of `scan_string`; `states`
is the parser's stack of brackets, and `ref_stack` the builder's, kept as paths
into the value. The properties compare with definitions that share nothing with
the automata: JSON's grammar of numbers, UTF-8 by the value of its bytes, and
`Meaning`, the value of a text by splitting it at its commas.

## 3. What is checked

The type invariants `TypeOK`, and several invariants that follow from those
checked here, are proved (section 4) or left as definitions beside them.

| run | distinct states | shows |
|---|---|---|
| `speed` (SpeedWorker.cfg) | 124 664 | at most one POST a period, the newest queued command first, the base in order while POSTs succeed, silence after the destructor, refinement of `LossyChannel` (in order, at most once); the queue drains, SIGINT always ends in exit |
| `io` (IoReeman.cfg) | 374 192 | commands applied in POST order while all are answered, across topics and crashes; each field of a published message read during its poll or as the last message had it, and never older; commands served unless polls overrun their period for ever; polling goes on |
| `master` (Master.cfg) | 17 286 | one goal per visit of GOTO; once arrived, three turns, however often the battery guard steps in |
| `raisa` (Raisa.cfg) | 468 496 | end to end: one goal per life of the master reaches the base; refinement of `Mission` (one drive and three turns at most a life, in the first life turns only behind a whole drive); the mission proceeds unless something failed or polls overrun for ever |
| `audio` (AudioController.cfg) | 151 905 | no queued file forgotten, the players come to an end |
| `web` (WebConsole.cfg) | 845 035 | no leaked subscription, no console shows a topic it did not ask for |
| `ds4` (Ds4.cfg) | 169 069 | reconnects kill no thread, disconnects are noticed, SIGINT releases every pad that was in `self.device`, a timed rumble ends |
| `vision` (Vision.cfg) | 161 784 | greetings a cooldown apart, deaf only inside a window and before its last second, who stays is noticed again and an empty room shuts the window; the frame queue blocks neither thread, Ctrl-C ends the node although an inference hangs |
| `cpr` (Cpr.cfg) | 739 539 | every queued task is run unless the pool pauses, stops or is deserted, none after `Stop`; through reuse, nesting, repetition and exceptions each request carries the method and content of its call, but for the cases that `MethodAsAsked` and `BodyAsAsked` name; it is shown to every interceptor in turn until one answers itself, throws or adds another; a session is locked exactly while it is in one multi, or stranded; a smooth request of a multi finds a response for every session |
| `json` (Json.cfg) | 1 404 336 | number tokens are exactly JSON's; every string the lexer takes can be dumped and read back; `dump` throws on ill-formed bytes only, and with the other handlers loses no letter beside them; `parse` gives each text its value and refuses any other at the first token that spoils it; what `dump` writes is read as the same value |

Two more runs each check one sentence that a comment of the repository says of
the program and that the program does not keep:

| run | sentence | what the code does |
|---|---|---|
| `raisa_battery` | "Battery critical -> cancel navigation." (`master.cpp:134`) | `/reeman/battery` has a publisher that never publishes |
| `audio_release` | "button released -> stop all audio" (`audio_controller.py:102`) | a player launched just before, or one whose flag an older player reset, sounds on |

Six more promises are stated beside the models, as definitions no run lists,
because the code breaks them; a configuration that names one makes TLC show how:

| definition | sentence | what the code does |
|---|---|---|
| `SpeedWorker!LastCommandPosted` | "/cmd/vel -> POST /cmd/speed" (`io_reeman.cpp:86`) | a command taken within the throttle period is dropped, also the last one, a stop |
| `IoReeman!ModeAsDocumented` | "mode # 0 idle 1 manual 2 auto" (`Robot.msg:8`) | `(*mode)["mode"]` on an `int` indexes the literal: 109, 111, 100 |
| `Ds4!StoppedByOwnTimer` | "Timer to stop rumble" (`controller_ros.py:145`) | an older rumble's periodic timer stops the newer one and outlives it |
| `FaceDetection!GreetingSounds` | "Trigger greeting sound" (`face_detection.py:101`) | the greeting goes out on a topic the audio node does not read |
| `ThreadPool!WaitMeansDone` | "Wait for the thread pool to finish its work" (`threadpool_tests.cpp:22`) | a worker that leaves between the two loads makes the counters equal while a task runs |
| `Session!BodyAsHeld` | "set default values, so curl does not send a body in subsequent requests" (`session.cpp:287`) | a form set over a posted body leaves the body on the handle |

A seventh needs no sentence: `ThreadPool!StopReturns`, that `Stop` comes back.
It joins the workers while it holds `status_wait_mutex`, which a worker that has
just found the pool running takes next (`threadpool.cpp:31`, `86`): both wait
for ever.

Four properties of the runs hold only up to an exception that they name, because
the code stops there; without the exception TLC refutes each of them:

* `TasksAreRun` leaves out a pool that is `Deserted`, although `threadpool.h:71`
  says that "calling future.get() will wait task done". `async::startup` and the
  constructor accept a minimum of 0. The last worker may then leave between
  `Submit`'s test and its push; and one that leaves without ever having had a task
  wraps the count of idle threads (`threadpool.cpp:139`), so that no later `Submit`
  creates a thread.
* `AllAreAsked` ends with the first interceptor that answers itself, throws or adds
  another, although `session.h:291` calls `first_interceptor_` "where to start with
  each repeated request": that iterator, or `current_interceptor_`, then stays where
  it is (`session.cpp:936-979`) and later requests pass some interceptors by.
* `LockedWhileAdded` excepts the sessions of a multi that another was moved to
  (`multiperform.h:37`): they stay locked until they are added or removed again.
* `EachIsAnswered` is about smooth requests. After a failure of libcurl, or when the
  same multi is performed twice, `multiperform.cpp:161-169` takes the response of a
  session that has no message, and dereferences `end()`.

`ReleasedAtExit` has a smaller one: a pad that the backend has opened and that is
not yet in `self.device` when SIGINT strikes (`controller.py:30`) stays open.

Two surprises that no sentence of the repository contradicts are recorded beside
`Master` and proved, but no run lists them, since they say what the code does and
not what it should: the scripted move stops at `count_step == 3`, so the
forward leg and the way back to GOTO are dead (`NeverForward`), and `res` is read
before it was ever written, so an arrival may have an uninitialised cause
(`ArrivalHasCause`).

### Bounds, and why they are enough

* `SpeedWorker`: 4 samples fill topic, callback, worker and queue at once with
  one to spare; 4 ticks with a period of 2 allow three POSTs and a dropped
  command between.
* `IoReeman`: orders and duplicates are about two POSTs, of the same topic or of
  two, which 2 samples on 2 topics give; two groups of fields, with a change of the
  base between or before their GETs, give messages of mixed ages, old and new; one
  crash at any point.
* `Master`: every kind of status (driving, arrived, cancelled, idle) and battery
  (0, critical, at the threshold, good) and one crash; nothing else is bounded.
* `Raisa`: one crash of either node, so two lives of the master; room for one goal
  more than they are allowed, and for the drives to all; the base may have a result
  left over from before.
* `AudioController`: 3 messages are needed for preemption during a rebuild of
  the queue; 3 players are never exhausted by them. `CooldownTime = 1` stands
  for 3 s: cooldowns only gate requests.
* `WebConsole`: 2 consoles, 2 topics, 3 calls: two answers in both orders on one
  console while the other has one.
* `Vision`: a window of 4 ticks of which 2 are its last second, a cooldown of 7
  (longer than a window, so that one falls into it, shorter than two), 3 frames
  in a row, every second frame published into a queue of 2; a frame queue of 2
  as in the code.
* `Cpr`: a pool of at most 2 threads, its minimum 0, 1 or 2, with room for a third
  object, so that one is leaving while another is created; two tasks; counters that
  wrap at 6, beyond any sum reached otherwise. Two interceptors: one nested in the
  other. Two multis and two sessions: a session in the wrong multi, a list of two
  from which either is erased, one multi moved to the other.
* `Json`: strings of one character and an end, a pair of escapes, or one
  character of up to four bytes, with bytes from both sides of every range;
  four bytes for `dump`, the longest character and a break at each place in it;
  texts of 10 tokens: nesting of four with commas, keys twice. `MaxDigits = 3`
  stands for the 19 digits of 64 bits. Nothing new is begun once a bound is
  reached, but a character or string that was begun is finished.
* `Ds4`: 2 pads (a reconnect, or two at once), 2 messages (an older and a newer
  rumble), one SIGINT.

Deadlock is checked except where the program ends or its inputs may end with
nothing left to do: `audio` (all messages received, or the node dead), `ds4`
(the process has exited), `cpr` (a program that makes no
more calls, or is in a `Stop` that does not return) and `json`
(a text has been read).

### Fairness

* Threads are scheduled: weak fairness of the worker, players, event loop, main.
* HTTP requests end: every call has a 3 s timeout (`ReemanClient.hpp`), hence
  weak fairness of `WorkerAnswer` and `CommandEnd`, with either outcome.
* `callbackCmdVel` waits for a mutex that is free again and again: strong
  fairness of the lock. `CommandStart` and `PollStart` compete for one callback
  group, and of what is ready the executor takes the timer first: a command's turn
  is fair only while the timer is not due (strong fairness of `CommandStart /\ ~due`).
  Five GETs that all time out outlast the polling period, the timer is then due
  again, and the command waits on: `CommandsServed` and `MissionProceeds` say what
  holds unless this goes on for ever (`PollsOverrun`).
* Cameras deliver, timers tick and executors run: weak fairness of
  `callback_routine`, `FaceFrame`, `FaceTick`, `HandFrame`, `HandMain`. The
  inference owes nothing.
* The pool's threads are scheduled and a task ends: weak fairness of each
  worker, and of the client inside a call; that it makes another call is owed
  by nobody.
* `ros2 launch` respawns: weak fairness of `Respawn`.
* In `Raisa` the base drives to goals it accepted and, asked often enough,
  answers; in `AudioController` a sound ends; in `Ds4` a timer comes round again
  and again. Publishers, users, crashes, SIGINT and the base's failures owe
  nothing.

## 4. What is proved

All theorems hold for every value of the constants, under the assumption named
in the module they are about. `PROJECT.json` lists them.

**SpeedWorker_proofs** (`SpeedWorkerAssumption`: the three constants are
naturals). None of the properties is inductive: that POSTs are in order
depends on where every command still on its way is. The invariant has one part
for each thing a step can rely on:

* `AgeInv`: along the path from `posted` over `cmd`, the queue and `callback` to
  `channel`, ages increase, and the queue itself is increasing. With
  `AppendIncreasing` and `TailIncreasing` it carries each command one place on.
* `LockInv`: only the worker holds the mutex, in *drain* and *take*, the queue
  is then not empty, and at *take* it has exactly one element.
* `ThrottleInv`: `last_speed_post_` is the clock sample of the last POST, except
  while that POST still waits for its answer.
* `WireInv`: until a POST fails, the only request on its way is the one the
  worker waits for, and it is newer than everything applied.
* `ExitInv`: past the join the worker is done.

From it: `TypeCorrect`, `NeverReordered`, `NothingNewerDiscarded`,
`RateLimited`, `BaseInOrder`, `QuietAfterDestructor`, and `Refinement`, that
the threaded path implements `LossyChannel` (`Publish` maps to `Send`,
`WorkerPost` to `Deliver`, every other step stutters).

**Master_proofs** (`MasterAssumption`: 3 is a status, statuses and levels are
integers). `TypeCorrect`, `OneGoal`, `ArrivalCaused`, `VelAbsorbing`, and
`ForwardUnreachable`, which records dead code. The strengthening, `MissionInv`, says that in GOTO no turn was
made, that in VEL the flag is down, and that `res` is always the first value or
a reported one.

**Nodes_proofs**, one module for three nodes that share nothing.

*Web page* (`WebAssumption`: `Nil` is no topic and no request). `NothingLeaks`
and `ConsolesApart`, for any number of consoles, topics and answers.
`ListenerWasAsked` needs `CallsAsked`: an open call is for a topic in `asked`,
which holds because Escape forgets only when no call is open. `WebTypeCorrect`
has the bounds of the history index, which the two arrow keys each keep on
their own side (`StepKeepsRecalled`).

*Cameras* (`FaceAssumption`, `HandAssumption`, `VisionAssumption`: sizes
are naturals, the last second is shorter than the window, the frame queue and
the subscription hold something). `DeafInWindow` is inductive with the timer's
type. `GreetingsAreApart` needs `CooldownInv`: the cooldown left and the time
since the last greeting together never fall below the whole cooldown less its
first tick. `QueueNeverBlocks` needs the types of the queues only: just one
thread puts, and just one gets. `HandTypeCorrect` rests on it: the queue keeps its
bound only because the room seen by `full()` is still there at the `put()`.

*Audio node*, which gives voice to what the cameras see: `NoLostWakeUp` and
`FlagIsReset`, for any number of messages and players. The players share their fields without a lock, so the
invariant speaks of threads: while `is_playing` is set some player is on its way
to reset it, and while the callbacks rest with something in the queue some
player is left to come back (`PlayerComesBack`). Neither is inductive alone:
who finds `is_playing` set leaves the queue to whoever set it.
`NoFileTwice` (`QueuedOnce`, which no run lists) says that no file is queued twice,
although a player may pop between line 72's copy and its assignment (not during the
copy: that ends the node). `QueueInv`
carries it: the copy repeats nothing either, and has not the file that is being
added, nor has the queue once the copy is assigned (`NoneTwice`). With it goes
the type invariant (`QueueInvariance`). The copy is a recursive function over the queue; what it
returns (`OthersAre`) is proved by a least counterexample, as the folds below are.

**IoReeman_proofs** (`IoReemanAssumption`: the topics and the groups of fields
are told apart; with the mode in use the base has fewer than five values of it,
since `"mode"[5]` is behind the literal). The invariant follows a command along
its way:

* `UnreadIsNewer`: a sample not yet read is newer than every POST of its topic,
  so a POST never repeats one, also after a respawn (`CommandsInOrder`).
* `OneOutstanding`: while all were answered well, what is applied and what is
  posted differ by the POST of the waiting callback at most (`AppliedInOrder`).
  A good answer is what makes the two equal again, which needs that the POST is
  not one of the earlier ones (`OwnPostIsNew`).
* `AppliedOnce`: the base applies what was posted, each POST once, whatever was
  lost or timed out (`NeverAppliedTwice`). With `UnreadIsNewer` it bounds what
  the base has done by what was published (`NoMoreThanSent`).
* `DownIsBlank`, `NavIsReal`: a process that is down keeps nothing, and the
  status is one the base had; from these `OnlyRealReadings` and
  `ReadingsOnlyAdvance`.
* `AgeInv`: what the base had when the poll began is not newer than what it has now
  (`AskedIsOld`), and every field of `robot` is a reading from then on or what the
  last message said (`NowOrAsTold`). The message that the last getter publishes
  therefore mixes nothing else (`PublishedAreReadings`).

**Raisa_proofs** (`RaisaAssumption`: the bounds are naturals). `MasterIsMaster`
and `IoIsIoReeman`: the composed robot implements the specification of each of
its nodes, each step being one of the node's or leaving it alone. For the first
that takes an invariant: that what comes back as a status is one the master
expects. Both nodes' invariants therefore hold in the robot, and its own lie on
top of them: each life of the master spends at most one goal, and a crash earns
the next (`GoalsSpent`); the base drives only to goals it accepted
(`BaseFollows`), which are no more than were published; what the first life
takes for an arrival is one (`ResultIsReal`). From them `GoalsPerLife`,
`StoppedForTurns` (the state invariant `TurnsOnlyWhenStopped`, which no run lists)
and `MissionImplemented`, for any number of samples and crashes. In the last,
the base's two actions map to `Drive` and `Stop` (`BaseInMission`: that there is a
life left to drive for is `GoalsPerLife`); a turn of the master maps to `Turn`, where
`ResultIsReal` and `Master`'s `NeverForward` give its guard, its crash to
`StartOver`, and its respawn stutters (`MasterInMission`); so do all other steps.

**Ds4_proofs.** `ReconnectsSurvived`, `NoPadLeaks` and `AllReleased`, for any
number of pads and messages. All three say what happens while one pad is in use
at a time; with two, `overlap` is set and the driver does lose track. A pad that
the backend has opened and main not yet stored has a state of its own (`Untaken`):
the loop knows nothing of it, and neither does the signal handler. Up to
SIGINT only the loop closes pads, so `InUse` can say what the device, the open
and the watched pads are at every place of the loop and of main; after it both
clean up, and `ClosedFirst` says that whoever has forgotten the device had it
closed. `MainRuns` tells the two phases apart.

**Cpr_proofs** (`PoolAssumption`: the pool may have a thread at all, and its limit
is well below `Width`; the minimum is a variable and may be 0; `SessionAssumption`: no verb is named like the two requests `Session`
treats apart; `MultiAssumption`: `NoMulti` is no multi). One module, as `Cpr` is.

* Pool: `StopIsFinal`. `Stop` joins the threads on the list, so the invariant
  must say that every thread there is stands on it, but for the one the client
  has created and not yet added (`AllListed`), and that nothing creates threads
  in a stopped pool (`NoneWhenStopped`). Each departing thread takes others off
  the list, which is where `AllListed` could break, and `Stop` walks along it
  meanwhile: what it has joined has ended (`ListIsTrue`).
  `MinimumIsKept` (`StaysManned`, which no run lists: TLC has checked it and its
  invariant with `Cpr.cfg`, and with limits 2 and 3 and four workers) needs what
  the counter means at every moment. `cur_thread_num` is the number of loops that
  have not ended, the one being added included, even when it leaves before it is
  counted (`CountIsTrue`); it is bounded by `MaxThreads`, so that it does not wrap
  (`CountIsBounded`); who leaves saw it above the minimum and nobody else can leave
  before it has counted itself out (`OneLeaves`); and while the pool starts, what
  lacks is still to be created (`EnoughToCome`). `PauseIsKept` (`PauseHolds`)
  needs only that who has taken a task in the pause is not waiting (`PauseInv`).
  `TasksAreTakenOnce` and `QueueImplemented` are about the tasks (no run lists
  `TakenInOrderOnce` and `ImplementsQueue`; TLC has checked both with `Cpr.cfg`,
  the first with three tasks as well): what the queue holds
  are the last ones submitted, in order, and every other is done or with exactly
  one worker, through pauses and stops, which leave the queue for the next start.
  As a refinement of `TaskQueue`, the pop under `task_mutex` is `Take`, the end of
  the call `End`.
* Session: `SendsAsAsked`. One handle serves every call, so nothing may depend
  on what earlier calls left on it: a lemma for each `Prepare` says that it makes
  any handle `Ready` for its own verb and content. Three parts strengthen it:
  `Explained` says where data, size and form on the handle may come from;
  `ReadyInside`, for the chain, that while interceptors run, which may make
  requests of their own, and none has meddled, the handle still `Fits` the call
  that `proceed` will hand on; and what is sent is `Laden` with the content held.
  `NoneIsPassedBy` says that each request comes to every interceptor in turn; while
  all was `orderly`, the open calls and the two iterators stand in the order of the
  list (`ChainInv`).
  `SessionTypeCorrect` needs no such condition: neither iterator ever points past
  the interceptors (`IteratorsValid`), since each call that is open remembers a
  place in the list and nothing is taken off it, also when calls are cut off by an
  exception.
* MultiPerform: `LockMeansAdded` and `SmoothIsAnswered`. A session is in a list
  once and where libcurl has its handle (`ListedOnce`, `ListedWhereMember`), and
  locked where it is a member or since it was stranded (`LockedWhereMember`), which
  a move must keep for two lists at once. `RemoveAtProperties` says what erasing an
  element of a list leaves. A smooth request runs the transfers of all members, the
  lists are the members, each once: so each finds its own message.

**Json_proofs** (`LexerAssumption`, `DumpAssumption`, `ParserAssumption`: the
bounds are naturals; none is used beyond that, so texts and strings may be of any
length). Four inductive invariants, one for each automaton and one for two:

* `ParserInv`: the parser pushes its stack behind the first element or key, the
  builder before it, so the invariant says at each place of the grammar which of
  the two is ahead, that every reference is a path of the value, its kind the
  bracket's, and that a key at hand has its place. `BracketsMatchContainers`.
* `TextInv`: while a string is scanned or dumped, the bytes so far are whole
  characters and one that is `Begun`: its lead, its trail bytes, and the state
  that these leave the decoder in. `CharacterStep` compares each arc of the
  decoder's table with UTF-8 by value, `NextByte` each range of the scanner.
  `AcceptedIsText`, `DumpThrowsOnBadBytes`.
* `NumberInv`: at each label of `scan_number` the text so far splits as the
  grammar splits it, and where the number began nothing else can have begun.
  `NumbersAreGrammatical`: nothing that could go on is left, and a failure leaves
  no number behind.
* `SurviveInv`, over `TextInv`: beside the dump, the scanner that will read what
  is written. `Dumped` says what it has made of the output so far: the bytes of
  the whole characters, at rest, or with a character in the making in the same
  state as the decoder. Each byte is then a lemma of its own: `DumpedAccepting`
  (by `WrittenReads`: an escape, a unit, a pair or the bytes themselves are read
  as the bytes they stand for, which needs the arithmetic of code points both
  ways), `DumpedGoingOn`, and `DumpedRejecting`, where the dump goes back to the
  last whole character and the byte that broke it is read again.
  `DumpedStringsSurvive`.

Both `Scanned` and `Ascii` are folds. What a fold does with one element more
(`ScannedFurther`, `AsciiFurther`) is proved from its definition by well-founded
induction in the form of a least counterexample (`LeastNatural`), since the
theorems that take a predicate as a parameter are of no use to the provers.

Of the properties the runs check, these are only model-checked. Everything about
liveness (`QueueDrains`, `ExitsAfterSignal`, `CommandsServed`, `PollingGoesOn`,
`TurnsAreMade`, `MissionProceeds`, `FallsSilent`, `DisconnectNoticed`, `TimedRumbleEnds`,
`WindowFollowsPeople`, `EndsOnInterrupt`, `TasksAreRun`) needs fairness and
ENABLED, which are out of the prover's reach. `ReadsJson` compares the parser with `Meaning`, a
recursive function over texts, by way of another, `dump`: each step of a proof
would be an induction over both. What the two stacks owe each other, without
which no value could come out right, is proved (`BracketsMatchContainers`).

## 5. What is not modelled

* `detection`: camera I/O with no control to speak of.
* The image viewer's keys and the HTTP server of the page; `ds4_twist_node` and
  the demo: stateless, or copies of what is modelled.
* What a gamepad report says (`cb_report` and its conversions), and its rate
  limit; `MachineState`'s timeout and re-entry, which no node uses; the logger.
* A dropped WebSocket, a second SIGINT.
* Of cpr: the options that pass a value through to libcurl (timeouts, TLS,
  proxies, cookies, headers, authentication), where the response goes and the
  callbacks that receive it, header and cookie parsing; a second client thread of
  the pool, limits changed while it runs, the order of its thread list;
  `MultiPerform`'s own interceptors, which are the code of `Session`'s (their
  iterators still point to the old list after a move), the mutable list that
  `GetSessions()` hands out, the arguments of downloads.
* Of nlohmann JSON: comments, the callback parser, binary formats (CBOR,
  MessagePack, UBJSON, BSON), JSON pointers, patches, iterators, conversions,
  the containers' operations, the digits of numbers (`strtod`, Grisu2; that an
  integer does not fit is decided by its number of digits, so that two of equal
  length on either side of the limit are not told apart),
  allocators and the macro layer. Nothing in the robot's programs calls the
  first five; the rest keeps no state between calls. This one header is three
  quarters of the repository's lines, so the share of lines that is modelled
  stays small although the parts the robot runs on are covered.
* roslib and anime are minified.

## 6. Plan

1. *(done)* The core: velocity path with its abstract channel, commands and
   polling, mission, the robot as launched; audio, web page, gamepad.
2. *(done)* Camera nodes behind the camera; cpr's pool, session and multis;
   JSON's lexer, parser and serializer.
3. *(done)* Proofs of the safety properties of the runs: `IoReeman`, `Ds4`,
   `Raisa` from the theorems of its nodes, `Session`, `MultiPerform`,
   `AudioController`, the JSON automata; that `Raisa` implements `Master`,
   `IoReeman` and `Mission`, and `ThreadPool` implements `TaskQueue`; the type
   invariants, and the invariants stated beside the runs.
4. An abstract specification of the audio node (a set of waiting files and what
   sounds), which its races make a weak one; a second client thread of the pool.
