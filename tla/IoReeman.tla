------------------------------- MODULE IoReeman -------------------------------
(* The io_reeman node apart from its velocity path (see SpeedWorker): the      *)
(* command callbacks, each a blocking POST, and the polling timer, five        *)
(* blocking GETs.  All of them are in the node's one mutually exclusive        *)
(* callback group, so one runs at a time, however many threads the executor    *)
(* has.  A reply that lacks a key throws out of the callback: the process dies *)
(* and the launch file's respawn starts a new one.                             *)
EXTENDS Integers, Sequences, FiniteSets, SequencesExt

CONSTANTS Topics,      \* the /cmd topics in use: "nav", "nav_name", "reloc", ...
          Fields,      \* the groups of fields of `robot` in use, see Getters
          MaxSample,   \* bound: samples published, on all topics together
          MaxBase,     \* bound: how often each reading of the base changes
          MaxCrash     \* bound: replies of the wrong shape

(* getPose, getBattery, getMode and getVelocity, in the order of the poll.     *)
IfUsed(f) == IF f \in Fields THEN <<f>> ELSE <<>>
Getters == IfUsed("pose") \o IfUsed("battery") \o IfUsed("mode") \o IfUsed("velocity")
None == 0
Nothing == [f \in Fields |-> 0]

ASSUME IoReemanAssumption ==
    /\ Fields \subseteq {"pose", "battery", "mode", "velocity"}
    /\ Topics \cap (Fields \union {"idle", "poll"}) = {}
    /\ MaxSample \in Nat /\ MaxBase \in Nat /\ MaxCrash \in Nat
    /\ "mode" \in Fields => MaxBase < 5     \* see ModeByte

(* What member `robot` holds before its first assignment: it has no            *)
(* initialiser, so its bytes are whatever the heap held; -1, which is nobody's *)
(* reading, stands for all of them.                                            *)
Indeterminate == {-1}

VARIABLES
    up,          \* is the process running?
    crashes,
    sent,        \* samples published on each topic so far (1, 2, ...)
    cmds,        \* the readers' KEEP_LAST 1 histories: an unread sample or None
    due,         \* has polling_timer_ expired since it last ran?
    slot,        \* the callback that runs: [run, sample], run = "idle" if none
    got,         \* fields of `robot` assigned since the process started
    robot,
    info,        \* the last /reeman/robot_info, <<>> before the first
    nav_status,  \* the last /reeman/nav_status
    base,        \* the base's readings, counted up each time they change
    wire,        \* POSTs the base has neither applied nor lost
    applied,     \* POSTs the base applied, in order
    unconfirmed, \* has a POST ended without a good answer?
    posted,      \* history: POSTs made, in order
    asked        \* history: what the base read when the poll began

io     == <<up, crashes, due, slot, got, robot>>
topics == <<sent, cmds>>
out    == <<info, nav_status>>
world  == <<base, wire, applied, unconfirmed>>
vars   == <<io, topics, out, world, posted, asked>>

Idle == [run |-> "idle", sample |-> None]

Post     == [run : Topics, sample : Nat \ {0}]
Readings == Fields \union {"nav_status"}

Init ==
    /\ up = TRUE /\ crashes = 0
    /\ sent = [t \in Topics |-> 0] /\ cmds = [t \in Topics |-> None]
    /\ due = FALSE /\ slot = Idle
    /\ got = {} /\ robot \in [Fields -> Indeterminate]
    /\ info = <<>> /\ nav_status = 0
    /\ base = [r \in Readings |-> 0]
    /\ wire = {} /\ applied = <<>> /\ unconfirmed = FALSE /\ posted = <<>>
    /\ asked = Nothing

-------------------------------------------------------------------------------
(* Commands.                                                                   *)

Published == UNION {{t} \X (1..sent[t]) : t \in Topics}

(* A sample for a dead reader is lost, an unread one is overwritten.           *)
Publish(t) ==
    /\ Cardinality(Published) < MaxSample
    /\ sent' = [sent EXCEPT ![t] = @ + 1]
    /\ cmds' = IF up THEN [cmds EXCEPT ![t] = sent[t] + 1] ELSE cmds
    /\ UNCHANGED <<io, out, world, posted, asked>>

Consumed(t) == [cmds EXCEPT ![t] = None]

(* callbackCmdNav, ...NavName, ...Reloc, ...SetMode, ...CancelNav: the request *)
(* goes out, and the callback waits.                                           *)
CommandStart(t) ==
    /\ up /\ slot = Idle /\ cmds[t] # None
    /\ cmds' = Consumed(t)
    /\ slot' = [run |-> t, sample |-> cmds[t]]
    /\ posted' = Append(posted, slot')
    /\ wire' = wire \union {slot'}
    /\ UNCHANGED <<up, crashes, due, got, robot, sent, out, base, applied, unconfirmed,
                   asked>>

AnswersWithoutWaiting == TRUE                \* slip: does not look at the reply
NoTimeout == FALSE                           \* slip: waits for an answer for ever
TimesOut == TRUE
GoodAnswer == \E i \in 1..Len(applied) : applied[i] = slot

(* A good reply, or an error or the 3 s timeout, which only gets a warning.    *)
CommandEnd ==
    /\ up /\ slot.run \in Topics
    /\ \/ GoodAnswer /\ UNCHANGED unconfirmed
       \/ TimesOut /\ unconfirmed' = TRUE
    /\ slot' = Idle
    /\ UNCHANGED <<up, crashes, due, got, robot, topics, out, base, wire, applied, posted,
                   asked>>

-------------------------------------------------------------------------------
(* pollingTimerCallback: publishRobotInfo, then publishNavStatus.              *)

TimerDue ==
    /\ up /\ ~due
    /\ due' = TRUE
    /\ UNCHANGED <<up, crashes, slot, got, robot, topics, out, world, posted, asked>>

PollStart ==
    /\ up /\ slot = Idle /\ due
    /\ due' = FALSE
    /\ slot' = [run |-> "poll", sample |-> 1]
    /\ asked' = [f \in Fields |-> base[f]]
    /\ UNCHANGED <<up, crashes, got, robot, topics, out, world, posted>>

(* getMode() already returned the number, not JSON: indexing it with ["mode"]  *)
(* picks a character of the literal "mode", and that is what the message says. *)
ModeByte(m) == <<109, 111, 100, 101, 0>>[m + 1]

Reading(f) == IF f = "mode" THEN ModeByte(base[f]) ELSE base[f]

ClearedOnFailure(f) == [robot EXCEPT ![f] = 0]      \* slip: no value, so zero
KeptOnFailure(f) == robot

FilledBefore == robot                        \* slip: filled before the GET is over
Filled == robot'

(* After the last getter the message is published, whatever became of the GETs. *)
PollField(f) ==
    /\ up /\ slot.run = "poll"
    /\ slot.sample <= Len(Getters) /\ f = Getters[slot.sample]
    /\ \/ robot' = [robot EXCEPT ![f] = Reading(f)] /\ got' = got \union {f}
       \/ robot' = KeptOnFailure(f) /\ UNCHANGED got
    /\ info' = IF slot.sample = Len(Getters) THEN Filled ELSE info
    /\ slot' = [slot EXCEPT !.sample = @ + 1]
    /\ asked' = IF slot.sample = Len(Getters) THEN Nothing ELSE asked
    /\ UNCHANGED <<up, crashes, due, topics, nav_status, world, posted>>

PollNavStatus ==
    /\ up /\ slot = [run |-> "poll", sample |-> Len(Getters) + 1]
    /\ nav_status' \in {base["nav_status"], nav_status}
    /\ slot' = Idle
    /\ UNCHANGED <<up, crashes, due, got, robot, topics, info, world, posted, asked>>

-------------------------------------------------------------------------------
(* json throws out of the callback: a getter finds no key (also one of a field *)
(* left out of Fields), value() a reply of the wrong shape, dump() a name that *)
(* is not UTF-8, before it is posted.  With the process go its readers'        *)
(* histories and `robot`.                                                      *)
GetterThrows == slot.run = "poll" /\ (slot.sample = 1 \/ slot.sample <= Len(Getters))
ValueThrows  == slot.run \in {"nav", "nav_name"}
DumpThrows   == slot = Idle /\ "nav_name" \in Topics /\ cmds["nav_name"] # None

Crash ==
    /\ up /\ crashes < MaxCrash
    /\ GetterThrows \/ ValueThrows \/ DumpThrows
    /\ up' = FALSE /\ crashes' = crashes + 1
    /\ slot' = Idle /\ due' = FALSE /\ got' = {}
    /\ cmds' = [t \in Topics |-> None]
    /\ unconfirmed' = (unconfirmed \/ slot.run \in Topics)
    /\ UNCHANGED <<robot, sent, out, base, wire, applied, posted>>
    /\ asked' = Nothing

NotRespawned == FALSE                        \* slip: respawn=True is left out
Respawned == ~up

Respawn ==
    /\ Respawned
    /\ up' = TRUE
    /\ robot' \in [Fields -> Indeterminate]
    /\ UNCHANGED <<crashes, due, slot, got, topics, out, world, posted, asked>>

-------------------------------------------------------------------------------
(* The base.                                                                   *)

BaseChange(r) ==
    /\ base[r] < MaxBase
    /\ base' = [base EXCEPT ![r] = @ + 1]
    /\ UNCHANGED <<io, topics, out, wire, applied, unconfirmed, posted, asked>>

BaseApply ==
    /\ \E p \in wire : wire' = wire \ {p} /\ applied' = Append(applied, p)
    /\ UNCHANGED <<io, topics, out, base, unconfirmed, posted, asked>>

BaseLose ==
    /\ \E p \in wire : wire' = wire \ {p}
    /\ UNCHANGED <<io, topics, out, base, applied, unconfirmed, posted, asked>>

-------------------------------------------------------------------------------
Next ==
    \/ \E t \in Topics : Publish(t) \/ CommandStart(t)
    \/ CommandEnd \/ TimerDue \/ PollStart
    \/ \E f \in Fields : PollField(f)
    \/ PollNavStatus \/ Crash \/ Respawn
    \/ \E r \in Readings : BaseChange(r)
    \/ BaseApply \/ BaseLose

Spec == Init /\ [][Next]_vars

(* Requests end (3 s timeout), the timer fires again and again, ros2 launch    *)
(* respawns.  Of what is ready the executor takes the timer first: a command   *)
(* can count on its turn only while the timer is not due as well.              *)
FairSpec ==
    /\ Spec
    /\ WF_vars(CommandEnd) /\ WF_vars(TimerDue) /\ SF_vars(PollStart)
    /\ WF_vars(\E f \in Fields : PollField(f)) /\ WF_vars(PollNavStatus)
    /\ WF_vars(Respawn)
    /\ SF_vars(\E t \in Topics : CommandStart(t) /\ ~due)

-------------------------------------------------------------------------------
(* Properties.                                                                 *)

TypeOK ==
    /\ up \in BOOLEAN /\ due \in BOOLEAN /\ unconfirmed \in BOOLEAN
    /\ crashes \in 0..MaxCrash
    /\ sent \in [Topics -> Nat] /\ cmds \in [Topics -> Nat]
    /\ slot \in [run : Topics \union {"idle", "poll"}, sample : Nat]
    /\ got \subseteq Fields
    /\ robot \in [Fields -> Int] /\ DOMAIN info \in {{}, Fields}
    /\ nav_status \in 0..MaxBase /\ base \in [Readings -> 0..MaxBase]
    /\ wire \subseteq Post /\ applied \in Seq(Post) /\ posted \in Seq(Post)
    /\ asked \in [Fields -> 0..MaxBase]

(* On each topic commands reach the base's API at most once and in the order   *)
(* they were published, also across crashes (io_reeman.cpp:185-218).           *)
PostedInOrder ==
    \A i, j \in 1..Len(posted) :
        i < j /\ posted[i].run = posted[j].run => posted[i].sample < posted[j].sample

(* The node never has two POSTs outstanding: while all of them are answered    *)
(* well, the base applies them in the order their callbacks ran, whatever      *)
(* their topics (io_reeman.cpp:187-215, ReemanClient.hpp:102-139).             *)
AppliedAsPosted == ~unconfirmed => IsPrefix(applied, posted)

(* A field once read never falls back to what it was before it was read, nor   *)
(* to an older reading: a failed GET keeps the last good one; and what the     *)
(* master is told of the navigation is never older than what it was told        *)
(* before, also by an earlier process (io_reeman.cpp:275-313, 339-348).         *)
ReadingsNeverGoBack ==
    [][/\ \A f \in got \ {"mode"} : robot'[f] >= robot[f]
       /\ nav_status' >= nav_status]_<<robot, nav_status>>

(* A field once read holds a reading the base really had, except the mode, see *)
(* ModeAsDocumented (io_reeman.cpp:275-313).                                   *)
ReadingsAreReal == \A f \in got \ {"mode"} : robot[f] \in 0..base[f]

(* A message mixes fields of different ages, but each is either a reading the  *)
(* base had during this very poll or, where the GET failed, what the message   *)
(* before said; only a field never read since the process started may be junk  *)
(* (io_reeman.cpp:275-337).                                                    *)
PublishedReadings ==
    [][info' # info =>
        \A f \in got' \ {"mode"} :
            \/ info'[f] \in asked[f]..base[f]
            \/ f \in DOMAIN info /\ info'[f] = info[f]]_info

(* A command does not wait for ever behind the polling and the other commands: *)
(* its callback takes it, or it is overwritten or lost in a crash.  That is so *)
(* unless polls overrun their period again and again, which five GETs of 3 s   *)
(* each can (io_reeman.cpp:161-163, 405-407).                                  *)
PollsOverrun == []<>(slot.run = "poll" /\ due)
CommandsServed == (\A t \in Topics : cmds[t] # None ~> cmds[t] = None) \/ PollsOverrun

(* The node polls for ever, through timeouts and crashes                       *)
(* (io_reeman.cpp:161-163, 267-273).                                           *)
PollingGoesOn == []<>(slot.run = "poll" /\ slot.sample > Len(Getters))

(* Robot.msg:8 documents "int8 mode    # 0 idle 1 manual 2 auto": once the base *)
(* has told its mode, the mode published is one of these.                      *)
ModeAsDocumented ==
    "mode" \in got /\ slot = Idle /\ info # <<>> => info["mode"] \in {0, 1, 2}
===============================================================================
