---------------------------- MODULE IoReeman_proofs ----------------------------
(* Proofs about IoReeman, for any topics and readings and any number of        *)
(* samples, crashes and changes of the base.                                   *)
EXTENDS IoReeman, SequenceTheorems, FiniteSetTheorems, TLAPS

(* A sample not yet read is newer than every POST made for its topic.          *)
UnreadIsNewer ==
    \A t \in Topics :
        /\ cmds[t] <= sent[t]
        /\ \A i \in 1..Len(posted) : posted[i].run = t =>
              /\ posted[i].sample <= sent[t]
              /\ cmds[t] # None => posted[i].sample < cmds[t]

(* Between two callbacks the base has applied what was posted; while one waits *)
(* for its answer, at most its own POST is not applied yet.                    *)
OneOutstanding ==
    ~unconfirmed =>
        \/ posted = applied /\ wire = {}
        \/ slot.run \in Topics /\ posted = Append(applied, slot) /\ wire \subseteq {slot}

(* A process that is down has no callback, and its robot is forgotten.         *)
DownIsBlank == ~up => slot = Idle /\ got = {}

NavIsReal == nav_status <= base["nav_status"]

(* The base applies what was posted, and each POST at most once.               *)
WasPosted(p) == \E k \in 1..Len(posted) : posted[k] = p

AppliedOnce ==
    /\ \A p \in wire : WasPosted(p)
    /\ \A i \in 1..Len(applied) : WasPosted(applied[i]) /\ applied[i] \notin wire
    /\ \A i, j \in 1..Len(applied) : applied[i] = applied[j] => i = j

(* What was asked for when a poll began is no newer than what the base reads   *)
(* now; and a field that was read is of this poll, while its GETs go on, or as *)
(* the last message said.                                                      *)
AskedIsOld == \A f \in Fields : asked[f] <= base[f]

Getting == slot.run = "poll" /\ slot.sample <= Len(Getters)
ReadNow(f)  == Getting /\ robot[f] \in asked[f]..base[f]
AsTold(f)   == f \in DOMAIN info /\ info[f] = robot[f]
NowOrAsTold == \A f \in got \ {"mode"} : ReadNow(f) \/ AsTold(f)

IInv == TypeOK /\ UnreadIsNewer /\ PostedInOrder /\ OneOutstanding /\ DownIsBlank
        /\ NavIsReal /\ ReadingsAreReal /\ AskedIsOld /\ NowOrAsTold /\ AppliedOnce

-------------------------------------------------------------------------------
(* What the names in slot can be.                                              *)
LEMMA Names ==
    /\ "idle" \notin Topics /\ "poll" \notin Topics
    /\ "nav_status" \in Readings /\ Fields \subseteq Readings
    /\ Idle \in [run : Topics \union {"idle", "poll"}, sample : Nat]
BY IoReemanAssumption DEF Readings, Idle, None

LEMMA GettersType == Getters \in Seq(Fields) /\ Len(Getters) \in Nat
<1>1. \A f : IfUsed(f) \in Seq(Fields)
    BY EmptySeq DEF IfUsed
<1>2. Getters \in Seq(Fields)
    BY <1>1, ConcatProperties DEF Getters
<1> QED
    BY <1>2, LenProperties

LEMMA NothingType == Nothing \in [Fields -> 0..MaxBase]
BY IoReemanAssumption DEF Nothing

LEMMA ReadingType ==
    ASSUME NEW f \in Fields, base \in [Readings -> 0..MaxBase]
    PROVE  Reading(f) \in Int
<1>1. base[f] \in 0..MaxBase
    BY Names
<1>2. CASE f # "mode"
    BY <1>1, <1>2, IoReemanAssumption DEF Reading
<1>3. CASE f = "mode"
    <2>1. base[f] + 1 \in 1..5
        BY <1>1, <1>3, IoReemanAssumption
    <2>2. \A i \in 1..5 : <<109, 111, 100, 101, 0>>[i] \in Int
        OBVIOUS
    <2>3. ModeByte(base[f]) \in Int
        BY <2>1, <2>2 DEF ModeByte
    <2> QED
        BY <1>3, <2>3 DEF Reading
<1> QED
    BY <1>2, <1>3

LEMMA InitInv == Init => IInv
<1> SUFFICES ASSUME Init PROVE IInv
    OBVIOUS
<1>1. up \in BOOLEAN /\ due \in BOOLEAN /\ unconfirmed \in BOOLEAN
    BY DEF Init
<1>2. robot \in [Fields -> Int]
    BY DEF Init, Indeterminate
<1>3. DOMAIN info \in {{}, Fields}
    BY DEF Init
<1>4. applied \in Seq(Post) /\ posted \in Seq(Post) /\ Len(posted) = 0
    BY EmptySeq DEF Init
<1>5. TypeOK
    BY <1>1, <1>2, <1>3, <1>4, NothingType, Names, IoReemanAssumption DEF Init, TypeOK, None
<1>6. UnreadIsNewer /\ PostedInOrder /\ OneOutstanding /\ DownIsBlank
    BY <1>4 DEF Init, UnreadIsNewer, PostedInOrder, OneOutstanding, DownIsBlank, None
<1>7. NavIsReal /\ ReadingsAreReal
    BY Names DEF Init, NavIsReal, ReadingsAreReal
<1>8. AppliedOnce
    BY DEF Init, AppliedOnce
<1>9. AskedIsOld /\ NowOrAsTold
    BY Names DEF Init, AskedIsOld, NowOrAsTold, Nothing
<1> QED
    BY <1>5, <1>6, <1>7, <1>8, <1>9 DEF IInv

(* Every step keeps the variables in their types.                              *)
LEMMA StepType == TypeOK /\ [Next]_vars => TypeOK'
<1> SUFFICES ASSUME TypeOK, [Next]_vars PROVE TypeOK'
    OBVIOUS
<1> USE DEF TypeOK
<1>1. ASSUME NEW t \in Topics, Publish(t) PROVE TypeOK'
    <2>1. /\ sent' = [sent EXCEPT ![t] = @ + 1]
          /\ cmds' = [cmds EXCEPT ![t] = sent[t] + 1] \/ cmds' = cmds
        BY <1>1 DEF Publish
    <2>2. sent' \in [Topics -> Nat] /\ cmds' \in [Topics -> Nat]
        BY <2>1
    <2>3. UNCHANGED <<io, out, world, posted, asked>>
        BY <1>1 DEF Publish
    <2> QED
        BY <2>2, <2>3 DEF io, out, world
<1>2. ASSUME NEW t \in Topics, CommandStart(t) PROVE TypeOK'
    <2>1. slot' = [run |-> t, sample |-> cmds[t]] /\ cmds[t] \in Nat \ {0}
        BY <1>2 DEF CommandStart, None
    <2>2. slot' \in Post
        BY <2>1 DEF Post
    <2>3. slot' \in [run : Topics \union {"idle", "poll"}, sample : Nat]
        BY <2>1
    <2>4. posted' \in Seq(Post)
        BY <1>2, <2>2, AppendProperties DEF CommandStart
    <2>5. cmds' \in [Topics -> Nat]
        BY <1>2 DEF CommandStart, Consumed, None
    <2>6. wire' \subseteq Post
        BY <1>2, <2>2 DEF CommandStart
    <2> QED
        BY <1>2, <2>3, <2>4, <2>5, <2>6 DEF CommandStart, out
<1>3. CASE CommandEnd
    <2>1. unconfirmed' \in BOOLEAN
        BY <1>3 DEF CommandEnd
    <2> QED
        BY <1>3, <2>1, Names DEF CommandEnd, out, topics
<1>4. CASE TimerDue
    <2>1. due' \in BOOLEAN
        BY <1>4 DEF TimerDue
    <2> QED
        BY <1>4, <2>1 DEF TimerDue, out, topics, world
<1>5. CASE PollStart
    <2>1. due' \in BOOLEAN
        BY <1>5 DEF PollStart
    <2>2. slot' \in [run : Topics \union {"idle", "poll"}, sample : Nat]
        BY <1>5 DEF PollStart
    <2>3. asked' \in [Fields -> 0..MaxBase]
        BY <1>5, Names DEF PollStart
    <2> QED
        BY <1>5, <2>1, <2>2, <2>3 DEF PollStart, out, topics, world
<1>6. ASSUME NEW f \in Fields, PollField(f) PROVE TypeOK'
    <2>1. robot' \in [Fields -> Int]
        BY <1>6, ReadingType DEF PollField, KeptOnFailure
    <2>2. DOMAIN info' \in {{}, Fields}
        BY <1>6, <2>1 DEF PollField, Filled
    <2>3. slot' \in [run : Topics \union {"idle", "poll"}, sample : Nat]
        <3>1. slot' = [slot EXCEPT !.sample = @ + 1]
            BY <1>6 DEF PollField
        <3>2. slot' = [run |-> slot.run, sample |-> slot.sample + 1]
            BY <3>1
        <3>3. slot.run \in Topics \union {"idle", "poll"} /\ slot.sample + 1 \in Nat
            OBVIOUS
        <3> QED
            BY <3>2, <3>3
    <2>4. got' \subseteq Fields
        BY <1>6 DEF PollField
    <2>5. asked' \in [Fields -> 0..MaxBase]
        BY <1>6, NothingType DEF PollField
    <2> QED
        BY <1>6, <2>1, <2>2, <2>3, <2>4, <2>5 DEF PollField, topics, world
<1>7. CASE PollNavStatus
    <2>1. base["nav_status"] \in 0..MaxBase
        BY Names
    <2> QED
        BY <1>7, <2>1, Names DEF PollNavStatus, topics, world
<1>8. CASE Crash
    <2>1. up' \in BOOLEAN /\ due' \in BOOLEAN
        BY <1>8 DEF Crash
    <2>2. unconfirmed' \in BOOLEAN
        BY <1>8 DEF Crash
    <2>3. crashes' \in 0..MaxCrash
        BY <1>8, IoReemanAssumption DEF Crash
    <2>4. cmds' \in [Topics -> Nat]
        BY <1>8 DEF Crash, None
    <2>5. asked' \in [Fields -> 0..MaxBase]
        BY <1>8, NothingType DEF Crash
    <2> QED
        BY <1>8, <2>1, <2>2, <2>3, <2>4, <2>5, Names DEF Crash, out
<1>9. CASE Respawn
    <2>1. up' \in BOOLEAN
        BY <1>9 DEF Respawn
    <2>2. robot' \in [Fields -> Int]
        BY <1>9 DEF Respawn, Indeterminate
    <2> QED
        BY <1>9, <2>1, <2>2 DEF Respawn, out, topics, world
<1>10. ASSUME NEW r \in Readings, BaseChange(r) PROVE TypeOK'
    <2>1. base' \in [Readings -> 0..MaxBase]
        BY <1>10, IoReemanAssumption DEF BaseChange
    <2> QED
        BY <1>10, <2>1 DEF BaseChange, io, out, topics
<1>11. CASE BaseApply
    <2>1. wire' \subseteq Post /\ applied' \in Seq(Post)
        BY <1>11, AppendProperties DEF BaseApply
    <2> QED
        BY <1>11, <2>1 DEF BaseApply, io, out, topics
<1>12. CASE BaseLose
    <2>1. wire' \subseteq Post
        BY <1>12 DEF BaseLose
    <2> QED
        BY <1>12, <2>1 DEF BaseLose, io, out, topics
<1>13. CASE UNCHANGED vars
    BY <1>13 DEF vars, io, topics, out, world
<1> QED
    BY <1>1, <1>2, <1>3, <1>4, <1>5, <1>6, <1>7, <1>8, <1>9, <1>10, <1>11, <1>12, <1>13
    DEF Next

-------------------------------------------------------------------------------
(* The commands: posted in order, applied as posted.                           *)

CommandVars == <<slot, sent, cmds, wire, applied, posted, unconfirmed>>
CommandInv  == UnreadIsNewer /\ PostedInOrder /\ OneOutstanding

LEMMA SamplesPosted ==
    ASSUME TypeOK, NEW i \in 1..Len(posted)
    PROVE  posted[i].sample \in Nat
<1>1. posted[i] \in Post
    BY ElementOfSeq DEF TypeOK
<1> QED
    BY <1>1 DEF Post

(* The callback's own POST is not among those before it.                       *)
LEMMA OwnPostIsNew ==
    ASSUME TypeOK, PostedInOrder, posted = Append(applied, slot), slot.run \in Topics
    PROVE  ~GoodAnswer
<1> SUFFICES ASSUME NEW i \in 1..Len(applied), applied[i] = slot PROVE FALSE
    BY DEF GoodAnswer
<1>1. slot \in [run : Topics \union {"idle", "poll"}, sample : Nat] /\ applied \in Seq(Post)
    BY DEF TypeOK
<1>2. slot \in Post
    BY <1>1, ElementOfSeq
<1>3. /\ Len(posted) = Len(applied) + 1 /\ Len(applied) \in Nat
      /\ posted[i] = slot /\ posted[Len(applied) + 1] = slot
    BY <1>1, <1>2, AppendProperties, LenProperties
<1>4. i < Len(applied) + 1 /\ i \in 1..Len(posted) /\ Len(applied) + 1 \in 1..Len(posted)
    BY <1>3
<1>5. slot.sample < slot.sample
    BY <1>3, <1>4 DEF PostedInOrder
<1> QED
    BY <1>1, <1>5

LEMMA PublishKeepsCommands ==
    ASSUME TypeOK, CommandInv, NEW t \in Topics, Publish(t)
    PROVE  CommandInv'
<1>1. /\ sent' = [sent EXCEPT ![t] = @ + 1]
      /\ cmds' = [cmds EXCEPT ![t] = sent[t] + 1] \/ cmds' = cmds
      /\ UNCHANGED <<slot, wire, applied, posted, unconfirmed>>
    BY DEF Publish, io, world
<1>2. UnreadIsNewer'
    <2> SUFFICES ASSUME NEW u \in Topics
                 PROVE  /\ cmds'[u] <= sent'[u]
                        /\ \A i \in 1..Len(posted) : posted[i].run = u =>
                              /\ posted[i].sample <= sent'[u]
                              /\ cmds'[u] # None => posted[i].sample < cmds'[u]
        BY <1>1 DEF UnreadIsNewer
    <2>1. /\ cmds[u] <= sent[u] /\ cmds[u] \in Nat /\ sent[u] \in Nat
          /\ sent'[u] \in {sent[u], sent[u] + 1}
          /\ cmds'[u] \in {cmds[u], sent[u] + 1} /\ (cmds'[u] # cmds[u] => sent'[u] = sent[u] + 1)
        BY <1>1 DEF TypeOK, CommandInv, UnreadIsNewer
    <2>2. ASSUME NEW i \in 1..Len(posted), posted[i].run = u
          PROVE  /\ posted[i].sample <= sent'[u]
                 /\ cmds'[u] # None => posted[i].sample < cmds'[u]
        <3>1. posted[i].sample \in Nat
            BY SamplesPosted
        <3>2. /\ posted[i].sample <= sent[u]
              /\ cmds[u] # None => posted[i].sample < cmds[u]
            BY <2>2 DEF CommandInv, UnreadIsNewer
        <3> QED
            BY <2>1, <3>1, <3>2
    <2> QED
        BY <2>1, <2>2
<1> QED
    BY <1>1, <1>2 DEF CommandInv, PostedInOrder, OneOutstanding

LEMMA StartKeepsCommands ==
    ASSUME TypeOK, CommandInv, NEW t \in Topics, CommandStart(t)
    PROVE  CommandInv'
<1>1. /\ slot = Idle /\ cmds[t] # None
      /\ cmds' = [cmds EXCEPT ![t] = None]
      /\ slot' = [run |-> t, sample |-> cmds[t]]
      /\ posted' = Append(posted, slot') /\ wire' = wire \union {slot'}
      /\ UNCHANGED <<sent, applied, unconfirmed>>
    BY DEF CommandStart, Consumed
<1>2. posted \in Seq(Post) /\ slot' \in Post /\ cmds[t] \in Nat /\ cmds \in [Topics -> Nat]
    BY <1>1 DEF TypeOK, Post, None
<1>3. /\ Len(posted) \in Nat /\ Len(posted') = Len(posted) + 1
      /\ \A i \in 1..Len(posted) : posted'[i] = posted[i] /\ posted[i].sample \in Nat
      /\ posted'[Len(posted')] = slot'
    BY <1>1, <1>2, AppendProperties, LenProperties, SamplesPosted
<1>4. \A i \in 1..Len(posted) : posted[i].run = t => posted[i].sample < cmds[t]
    BY <1>1 DEF CommandInv, UnreadIsNewer
<1>5. UnreadIsNewer'
    <2> SUFFICES ASSUME NEW u \in Topics
                 PROVE  /\ cmds'[u] <= sent[u]
                        /\ \A i \in 1..Len(posted') : posted'[i].run = u =>
                              /\ posted'[i].sample <= sent[u]
                              /\ cmds'[u] # None => posted'[i].sample < cmds'[u]
        BY <1>1 DEF UnreadIsNewer
    <2>1. /\ cmds[u] <= sent[u] /\ cmds[u] \in Nat /\ sent[u] \in Nat
          /\ cmds'[u] = IF u = t THEN None ELSE cmds[u]
        BY <1>1 DEF TypeOK, CommandInv, UnreadIsNewer
    <2>2. ASSUME NEW i \in 1..Len(posted'), posted'[i].run = u
          PROVE  /\ posted'[i].sample <= sent[u]
                 /\ cmds'[u] # None => posted'[i].sample < cmds'[u]
        <3>1. CASE i = Len(posted')
            BY <1>1, <1>3, <2>1, <2>2, <3>1
        <3>2. CASE i # Len(posted')
            <4>1. i \in 1..Len(posted)
                BY <1>3, <3>2
            <4>2. /\ posted[i].sample <= sent[u]
                  /\ cmds[u] # None => posted[i].sample < cmds[u]
                BY <1>3, <2>2, <4>1 DEF CommandInv, UnreadIsNewer
            <4> QED
                BY <1>3, <2>1, <4>1, <4>2
        <3> QED
            BY <3>1, <3>2
    <2> QED
        BY <2>1, <2>2 DEF None
<1>6. PostedInOrder'
    <2> SUFFICES ASSUME NEW i \in 1..Len(posted'), NEW j \in 1..Len(posted'),
                        i < j, posted'[i].run = posted'[j].run
                 PROVE  posted'[i].sample < posted'[j].sample
        BY DEF PostedInOrder
    <2>1. i \in 1..Len(posted)
        BY <1>3
    <2>2. CASE j = Len(posted')
        BY <1>1, <1>3, <1>4, <2>1, <2>2
    <2>3. CASE j # Len(posted')
        <3>1. j \in 1..Len(posted)
            BY <1>3, <2>3
        <3> QED
            BY <1>3, <2>1, <3>1 DEF CommandInv, PostedInOrder
    <2> QED
        BY <2>2, <2>3
<1>7. OneOutstanding'
    BY <1>1, Names DEF CommandInv, OneOutstanding, Idle
<1> QED
    BY <1>5, <1>6, <1>7 DEF CommandInv

(* Steps that do not touch what is posted: a callback or a request ends.       *)
LEMMA EndKeepsCommands ==
    ASSUME TypeOK, CommandInv, CommandEnd \/ Crash \/ BaseApply \/ BaseLose
    PROVE  CommandInv'
<1>1. /\ posted' = posted /\ sent' = sent
      /\ \A t \in Topics : cmds'[t] \in {cmds[t], None}
    BY DEF CommandEnd, Crash, BaseApply, BaseLose, topics
<1>2. UnreadIsNewer' /\ PostedInOrder'
    <2>1. \A t \in Topics : cmds[t] \in Nat /\ sent[t] \in Nat
        BY DEF TypeOK
    <2>2. UnreadIsNewer'
        BY <1>1, <2>1 DEF CommandInv, UnreadIsNewer, None
    <2> QED
        BY <1>1, <2>2 DEF CommandInv, PostedInOrder
<1>3. OneOutstanding'
    <2>1. CASE CommandEnd
        BY <2>1, OwnPostIsNew DEF CommandEnd, CommandInv, OneOutstanding
    <2>2. CASE Crash
        <3>1. /\ unconfirmed \/ slot.run \in Topics => unconfirmed'
              /\ UNCHANGED <<wire, applied, posted>>
            BY <2>2 DEF Crash
        <3> QED
            BY <3>1, Names DEF CommandInv, OneOutstanding
    <2>3. CASE BaseApply
        <3>1. PICK p \in wire : wire' = wire \ {p} /\ applied' = Append(applied, p)
            BY <2>3 DEF BaseApply
        <3>2. UNCHANGED <<slot, posted, unconfirmed>>
            BY <2>3 DEF BaseApply, io
        <3> QED
            BY <3>1, <3>2 DEF CommandInv, OneOutstanding
    <2>4. CASE BaseLose
        BY <2>4 DEF BaseLose, io, CommandInv, OneOutstanding
    <2> QED
        BY <2>1, <2>2, <2>3, <2>4
<1> QED
    BY <1>2, <1>3 DEF CommandInv

LEMMA StepCommands == TypeOK /\ CommandInv /\ [Next]_vars => CommandInv'
<1> SUFFICES ASSUME TypeOK, CommandInv, [Next]_vars PROVE CommandInv'
    OBVIOUS
<1>1. CASE TimerDue \/ Respawn \/ (\E r \in Readings : BaseChange(r)) \/ UNCHANGED vars
    <2>1. UNCHANGED CommandVars
        BY <1>1 DEF TimerDue, Respawn, BaseChange, CommandVars, vars, io, topics, out, world
    <2> QED
        BY <2>1 DEF CommandVars, CommandInv, UnreadIsNewer, PostedInOrder, OneOutstanding
<1>2. CASE PollStart \/ (\E f \in Fields : PollField(f)) \/ PollNavStatus
    <2>1. UNCHANGED <<sent, cmds, wire, applied, posted, unconfirmed>>
        BY <1>2 DEF PollStart, PollField, PollNavStatus, topics, world
    <2>2. slot.run \notin Topics
        BY <1>2, Names DEF PollStart, PollField, PollNavStatus, Idle
    <2> QED
        BY <2>1, <2>2 DEF CommandInv, UnreadIsNewer, PostedInOrder, OneOutstanding
<1> QED
    BY <1>1, <1>2, PublishKeepsCommands, StartKeepsCommands, EndKeepsCommands DEF Next

-------------------------------------------------------------------------------
(* The readings.                                                               *)

ReadingVars == <<up, slot, got, robot, nav_status, base>>
ReadingInv  == DownIsBlank /\ NavIsReal /\ ReadingsAreReal

LEMMA StepReadings == TypeOK /\ ReadingInv /\ [Next]_vars => ReadingInv'
<1> SUFFICES ASSUME TypeOK, ReadingInv, [Next]_vars PROVE ReadingInv'
    OBVIOUS
<1> USE DEF ReadingInv
<1>1. CASE CommandEnd \/ TimerDue \/ PollStart \/ \E t \in Topics : CommandStart(t)
    BY <1>1 DEF CommandEnd, TimerDue, PollStart, CommandStart, topics, out, world,
       DownIsBlank, NavIsReal, ReadingsAreReal
<1>2. ASSUME NEW f \in Fields, PollField(f) PROVE ReadingInv'
    <2>1. up /\ up' = up /\ UNCHANGED <<nav_status, base>>
        BY <1>2 DEF PollField, world
    <2>2. CASE robot' = [robot EXCEPT ![f] = Reading(f)] /\ got' = got \union {f}
        <3>1. base[f] \in Nat
            BY Names DEF TypeOK
        <3> QED
            BY <2>1, <2>2, <3>1 DEF TypeOK, Reading, DownIsBlank, NavIsReal, ReadingsAreReal
    <2>3. CASE UNCHANGED <<robot, got>>
        BY <2>1, <2>3 DEF DownIsBlank, NavIsReal, ReadingsAreReal
    <2> QED
        BY <1>2, <2>2, <2>3 DEF PollField, KeptOnFailure
<1>3. CASE PollNavStatus
    <2>1. base["nav_status"] \in Nat
        BY Names DEF TypeOK
    <2> QED
        BY <1>3, <2>1 DEF PollNavStatus, world, DownIsBlank, NavIsReal, ReadingsAreReal
<1>4. CASE Crash \/ Respawn
    BY <1>4 DEF Crash, Respawn, Respawned, out, world, DownIsBlank, NavIsReal, ReadingsAreReal
<1>5. ASSUME NEW r \in Readings, BaseChange(r) PROVE ReadingInv'
    <2>1. /\ base' = [base EXCEPT ![r] = @ + 1]
          /\ UNCHANGED <<up, slot, got, robot, nav_status>>
        BY <1>5 DEF BaseChange, io, out
    <2>2. \A f \in Readings : base[f] \in Nat /\ base'[f] \in Nat /\ base[f] <= base'[f]
        BY <2>1 DEF TypeOK
    <2>3. NavIsReal' /\ nav_status \in Nat
        BY <2>1, <2>2, Names DEF TypeOK, NavIsReal
    <2>4. ASSUME NEW f \in got \ {"mode"} PROVE robot[f] \in 0..base'[f]
        <3>1. f \in Readings /\ robot[f] \in 0..base[f]
            BY <2>4, Names DEF TypeOK, ReadingsAreReal
        <3> QED
            BY <2>2, <3>1
    <2> QED
        BY <2>1, <2>3, <2>4 DEF DownIsBlank, ReadingsAreReal
<1>6. CASE BaseApply \/ BaseLose \/ (\E t \in Topics : Publish(t)) \/ UNCHANGED vars
    <2>1. UNCHANGED ReadingVars
        BY <1>6 DEF BaseApply, BaseLose, Publish, ReadingVars, vars, io, topics, out, world
    <2> QED
        BY <2>1 DEF ReadingVars, DownIsBlank, NavIsReal, ReadingsAreReal
<1> QED
    BY <1>1, <1>2, <1>3, <1>4, <1>5, <1>6 DEF Next

-------------------------------------------------------------------------------
(* What is published.                                                          *)

AgeVars == <<slot, got, robot, info, base, asked>>
AgeInv  == AskedIsOld /\ NowOrAsTold

(* When nothing is being got, what was read is as told: steps that start, end  *)
(* or leave a callback alone keep it so.                                       *)
LEMMA RestKeepsAge ==
    ASSUME TypeOK, AgeInv, ~Getting, UNCHANGED <<got, robot, info, base>>,
           AskedIsOld'
    PROVE  AgeInv'
<1>1. \A f \in got \ {"mode"} : AsTold(f)
    BY DEF AgeInv, NowOrAsTold, ReadNow
<1> QED
    BY <1>1 DEF AgeInv, NowOrAsTold, AsTold

LEMMA FieldKeepsAge ==
    ASSUME TypeOK, AgeInv, NEW f \in Fields, PollField(f)
    PROVE  AgeInv'
<1>1. /\ slot.run = "poll" /\ slot.sample <= Len(Getters) /\ base' = base
      /\ slot.sample \in Nat /\ slot' = [slot EXCEPT !.sample = @ + 1]
      /\ \A g \in Fields : base[g] \in Nat /\ asked[g] \in Nat /\ asked[g] <= base[g]
      /\ robot' \in [Fields -> Int]
    <2>1. robot' \in [Fields -> Int]
        BY ReadingType DEF TypeOK, PollField, KeptOnFailure
    <2> QED
        BY <2>1, Names DEF PollField, world, TypeOK, AgeInv, AskedIsOld
<1>2. CASE slot.sample = Len(Getters)
    <2>1. info' = robot' /\ asked' = Nothing
        BY <1>2 DEF PollField, Filled
    <2>2. AskedIsOld'
        BY <1>1, <2>1 DEF AskedIsOld, Nothing
    <2>3. got' \subseteq Fields
        BY DEF TypeOK, PollField
    <2> QED
        BY <1>1, <2>1, <2>2, <2>3 DEF AgeInv, NowOrAsTold, AsTold
<1>3. CASE slot.sample # Len(Getters)
    <2>1. info' = info /\ asked' = asked
        BY <1>3 DEF PollField
    <2>2. slot'.run = "poll" /\ slot'.sample <= Len(Getters)
        <3>1. slot'.run = "poll" /\ slot'.sample = slot.sample + 1
            BY <1>1 DEF TypeOK
        <3> QED
            BY <1>1, <1>3, <3>1, GettersType
    <2>3. AskedIsOld'
        BY <1>1, <2>1 DEF AskedIsOld
    <2>4. ASSUME NEW g \in got' \ {"mode"}
          PROVE  ReadNow(g)' \/ AsTold(g)'
        <3>1. CASE /\ g = f /\ got' = got \union {f}
                   /\ robot' = [robot EXCEPT ![f] = Reading(f)]
            <4>1. robot'[g] = base[g]
                BY <3>1, <2>4 DEF TypeOK, Reading
            <4> QED
                BY <1>1, <2>1, <2>2, <3>1, <4>1 DEF ReadNow, Getting
        <3>2. CASE g \in got /\ robot'[g] = robot[g]
            <4>1. ReadNow(g) \/ AsTold(g)
                BY <2>4, <3>2 DEF AgeInv, NowOrAsTold
            <4> QED
                BY <1>1, <2>1, <2>2, <3>2, <4>1 DEF ReadNow, AsTold, Getting
        <3> QED
            BY <2>4, <3>1, <3>2 DEF PollField, KeptOnFailure, TypeOK
    <2> QED
        BY <2>3, <2>4 DEF AgeInv, NowOrAsTold
<1> QED
    BY <1>2, <1>3

LEMMA StepAge == TypeOK /\ DownIsBlank /\ AgeInv /\ [Next]_vars => AgeInv'
<1> SUFFICES ASSUME TypeOK, DownIsBlank, AgeInv, [Next]_vars PROVE AgeInv'
    OBVIOUS
<1>1. CASE PollStart
    <2>1. ~Getting
        BY <1>1 DEF PollStart, Getting, Idle
    <2>2. AskedIsOld'
        BY <1>1, Names DEF PollStart, world, TypeOK, AskedIsOld
    <2>3. UNCHANGED <<got, robot, info, base>>
        BY <1>1 DEF PollStart, out, world
    <2> QED
        BY <2>1, <2>2, <2>3, RestKeepsAge
<1>2. CASE CommandEnd \/ PollNavStatus \/ \E t \in Topics : CommandStart(t)
    <2>1. ~Getting
        BY <1>2, Names, GettersType DEF CommandEnd, PollNavStatus, CommandStart, Getting, Idle
    <2>2. UNCHANGED <<got, robot, info, base, asked>>
        BY <1>2 DEF CommandEnd, PollNavStatus, CommandStart, out, world
    <2>3. AskedIsOld'
        BY <2>2 DEF AgeInv, AskedIsOld
    <2> QED
        BY <2>1, <2>2, <2>3, RestKeepsAge
<1>3. CASE Crash
    <2>1. got' = {} /\ asked' = Nothing /\ base' = base
        BY <1>3 DEF Crash
    <2>2. \A f \in Fields : base[f] \in Nat
        BY Names DEF TypeOK
    <2> QED
        BY <2>1, <2>2 DEF AgeInv, AskedIsOld, NowOrAsTold, Nothing
<1>4. CASE Respawn
    <2>1. got = {} /\ got' = got /\ asked' = asked /\ base' = base
        BY <1>4 DEF Respawn, Respawned, DownIsBlank, world
    <2> QED
        BY <2>1 DEF AgeInv, AskedIsOld, NowOrAsTold
<1>5. ASSUME NEW r \in Readings, BaseChange(r) PROVE AgeInv'
    <2>1. /\ base' = [base EXCEPT ![r] = @ + 1]
          /\ UNCHANGED <<slot, got, robot, info, asked>>
        BY <1>5 DEF BaseChange, io, out
    <2>2. \A f \in Fields : /\ base[f] \in Nat /\ base'[f] \in Nat /\ base[f] <= base'[f]
                           /\ asked[f] \in Nat
        BY <2>1, Names DEF TypeOK
    <2>3. AskedIsOld'
        BY <2>1, <2>2 DEF AgeInv, AskedIsOld
    <2>4. ASSUME NEW f \in got \ {"mode"} PROVE ReadNow(f)' \/ AsTold(f)'
        <3>1. f \in Fields /\ robot[f] \in Int /\ (ReadNow(f) \/ AsTold(f))
            BY <2>4 DEF TypeOK, AgeInv, NowOrAsTold
        <3>2. CASE AsTold(f)
            BY <2>1, <3>2 DEF AsTold
        <3>3. CASE ReadNow(f)
            BY <2>1, <2>2, <3>1, <3>3 DEF ReadNow, Getting
        <3> QED
            BY <3>1, <3>2, <3>3
    <2> QED
        BY <2>1, <2>3, <2>4 DEF AgeInv, NowOrAsTold
<1>6. CASE \/ TimerDue \/ BaseApply \/ BaseLose \/ (\E t \in Topics : Publish(t))
           \/ UNCHANGED vars
    <2>1. UNCHANGED AgeVars
        BY <1>6 DEF TimerDue, BaseApply, BaseLose, Publish, AgeVars, vars, io, topics, out, world
    <2> QED
        BY <2>1 DEF AgeVars, AgeInv, AskedIsOld, NowOrAsTold, ReadNow, AsTold, Getting
<1> QED
    BY <1>1, <1>2, <1>3, <1>4, <1>5, <1>6, FieldKeepsAge DEF Next

-------------------------------------------------------------------------------
(* No POST is applied twice.                                                   *)

(* The sample a callback takes is newer than those posted: its POST is a new   *)
(* one.                                                                        *)
LEMMA StartKeepsOnce ==
    ASSUME TypeOK, UnreadIsNewer, AppliedOnce, NEW t \in Topics, CommandStart(t)
    PROVE  AppliedOnce'
<1>1. /\ cmds[t] # None /\ slot' = [run |-> t, sample |-> cmds[t]]
      /\ posted' = Append(posted, slot') /\ wire' = wire \union {slot'}
      /\ applied' = applied
    BY DEF CommandStart
<1>2. posted \in Seq(Post) /\ slot' \in Post /\ cmds[t] \in Nat
    BY <1>1 DEF TypeOK, Post, None
<1>3. /\ Len(posted) \in Nat /\ Len(posted') = Len(posted) + 1
      /\ \A i \in 1..Len(posted) : posted'[i] = posted[i] /\ posted[i].sample \in Nat
      /\ posted'[Len(posted) + 1] = slot'
    BY <1>1, <1>2, AppendProperties, LenProperties, SamplesPosted
<1>4. ~WasPosted(slot')
    <2> SUFFICES ASSUME NEW k \in 1..Len(posted), posted[k] = slot' PROVE FALSE
        BY DEF WasPosted
    <2>1. posted[k].sample < cmds[t]
        BY <1>1 DEF UnreadIsNewer
    <2> QED
        BY <1>1, <1>2, <2>1
<1>5. \A p : WasPosted(p) \/ p = slot' => \E k \in 1..Len(posted') : posted'[k] = p
    BY <1>3 DEF WasPosted
<1>6. \A i \in 1..Len(applied) : applied[i] # slot'
    BY <1>4 DEF AppliedOnce
<1>7. \A i \in 1..Len(applied) : \E k \in 1..Len(posted') : posted'[k] = applied[i]
    BY <1>5 DEF AppliedOnce
<1>8. \A p \in wire' : \E k \in 1..Len(posted') : posted'[k] = p
    BY <1>1, <1>5 DEF AppliedOnce
<1> QED
    BY <1>1, <1>6, <1>7, <1>8 DEF AppliedOnce, WasPosted

LEMMA ApplyKeepsOnce == TypeOK /\ AppliedOnce /\ BaseApply => AppliedOnce'
<1> SUFFICES ASSUME TypeOK, AppliedOnce, BaseApply PROVE AppliedOnce'
    OBVIOUS
<1>1. PICK p \in wire : wire' = wire \ {p} /\ applied' = Append(applied, p)
    BY DEF BaseApply
<1>2. posted' = posted
    BY DEF BaseApply
<1>3. applied \in Seq(Post) /\ p \in Post
    BY DEF TypeOK
<1>4. /\ Len(applied) \in Nat /\ Len(applied') = Len(applied) + 1
      /\ \A i \in 1..Len(applied) : applied'[i] = applied[i]
      /\ applied'[Len(applied) + 1] = p
    BY <1>1, <1>3, AppendProperties, LenProperties
<1>5. \A i \in 1..Len(applied') : i \in 1..Len(applied) \/ i = Len(applied) + 1
    BY <1>4
<1>6. \A i \in 1..Len(applied) : applied[i] # p
    BY DEF AppliedOnce
<1>7. \A q : WasPosted(q)' <=> WasPosted(q)
    BY <1>2 DEF WasPosted
<1>8. \A i \in 1..Len(applied') : WasPosted(applied'[i]) /\ applied'[i] \notin wire'
    BY <1>1, <1>4, <1>5, <1>6 DEF AppliedOnce
<1>9. \A i, j \in 1..Len(applied') : applied'[i] = applied'[j] => i = j
    BY <1>4, <1>5, <1>6 DEF AppliedOnce
<1> QED
    BY <1>1, <1>7, <1>8, <1>9 DEF AppliedOnce

LEMMA StepOnce == TypeOK /\ UnreadIsNewer /\ AppliedOnce /\ [Next]_vars => AppliedOnce'
<1> SUFFICES ASSUME TypeOK, UnreadIsNewer, AppliedOnce, [Next]_vars PROVE AppliedOnce'
    OBVIOUS
<1>1. CASE BaseLose
    BY <1>1 DEF BaseLose, AppliedOnce, WasPosted
<1>2. CASE \/ CommandEnd \/ TimerDue \/ PollStart \/ PollNavStatus \/ Crash \/ Respawn
           \/ (\E t \in Topics : Publish(t)) \/ (\E f \in Fields : PollField(f))
           \/ (\E r \in Readings : BaseChange(r)) \/ UNCHANGED vars
    <2>1. UNCHANGED <<wire, applied, posted>>
        BY <1>2 DEF CommandEnd, TimerDue, PollStart, PollNavStatus, Crash, Respawn, Publish,
           PollField, BaseChange, vars, io, topics, out, world
    <2> QED
        BY <2>1 DEF AppliedOnce, WasPosted
<1> QED
    BY <1>1, <1>2, StartKeepsOnce, ApplyKeepsOnce DEF Next

(* So the base applies no more commands of a topic than were published on it.  *)
LEMMA NoMoreThanSent ==
    ASSUME IInv, NEW t \in Topics
    PROVE  Cardinality({i \in 1..Len(applied) : applied[i].run = t}) <= sent[t]
<1> DEFINE Times == {i \in 1..Len(applied) : applied[i].run = t}
           Samples == 1..sent[t]
           f == [i \in Times |-> applied[i].sample]
<1> USE DEF IInv
<1>1. applied \in Seq(Post) /\ posted \in Seq(Post) /\ sent[t] \in Nat
    BY DEF TypeOK
<1>2. \A i \in Times : applied[i] \in Post /\ applied[i].run = t
    BY <1>1, ElementOfSeq
<1>3. \A i \in Times : applied[i].sample \in Samples
    <2> SUFFICES ASSUME NEW i \in Times PROVE applied[i].sample \in Samples
        OBVIOUS
    <2>1. PICK k \in 1..Len(posted) : posted[k] = applied[i]
        BY DEF AppliedOnce, WasPosted
    <2>2. applied[i].sample <= sent[t] /\ applied[i].sample \in Nat \ {0}
        BY <1>2, <2>1 DEF UnreadIsNewer, Post
    <2> QED
        BY <1>1, <2>2
<1>4. \A i, j \in Times : applied[i].sample = applied[j].sample => i = j
    <2> SUFFICES ASSUME NEW i \in Times, NEW j \in Times, applied[i].sample = applied[j].sample
                 PROVE  i = j
        OBVIOUS
    <2>1. applied[i] = applied[j]
        BY <1>2 DEF Post
    <2> QED
        BY <2>1 DEF AppliedOnce
<1> HIDE DEF Times, Samples
<1>5. f \in Injection(Times, Samples)
    BY <1>3, <1>4 DEF Injection, IsInjective
<1>6. IsFiniteSet(Samples) /\ Cardinality(Samples) = sent[t]
    <2>1. 1 \in Int /\ sent[t] \in Int
        BY <1>1
    <2>2. /\ IsFiniteSet(1..sent[t])
          /\ Cardinality(1..sent[t]) = IF 1 > sent[t] THEN 0 ELSE sent[t] - 1 + 1
        BY <2>1, FS_Interval
    <2> QED
        BY <1>1, <2>2 DEF Samples
<1>7. Cardinality(Times) <= Cardinality(Samples)
    BY <1>5, <1>6, FS_Injection
<1> QED
    BY <1>6, <1>7 DEF Times

-------------------------------------------------------------------------------
LEMMA StepInv == IInv /\ [Next]_vars => IInv'
BY StepType, StepCommands, StepReadings, StepAge, StepOnce DEF IInv, CommandInv, ReadingInv, AgeInv

(* The inductive invariant.                                                    *)
THEOREM Invariance == Spec => []IInv
BY InitInv, StepInv, PTL DEF Spec

(* Every variable stays within its type; the requests on the wire and those    *)
(* applied are commands of the topics (io_reeman.cpp:185-218, 275-348).        *)
THEOREM TypeCorrect == Spec => []TypeOK
<1>1. IInv => TypeOK
    BY DEF IInv
<1> QED
    BY Invariance, <1>1, PTL

(* On each topic commands are posted at most once and in the order they were   *)
(* published, across crashes (io_reeman.cpp:185-218).                          *)
THEOREM CommandsInOrder == Spec => []PostedInOrder
<1>1. IInv => PostedInOrder
    BY DEF IInv
<1> QED
    BY Invariance, <1>1, PTL

(* While every POST was answered well the base applied them in the order their *)
(* callbacks ran: one mutually exclusive group keeps one POST outstanding, and *)
(* a good answer means that it was applied (io_reeman.cpp:187-215).            *)
THEOREM AppliedInOrder == Spec => []AppliedAsPosted
<1>1. IInv => AppliedAsPosted
    <2> SUFFICES ASSUME IInv, ~unconfirmed PROVE IsPrefix(applied, posted)
        BY DEF AppliedAsPosted
    <2>1. applied \in Seq(Post) /\ posted \in Seq(Post) /\ Len(applied) \in Nat
        BY LenProperties DEF IInv, TypeOK
    <2>2. CASE posted = applied
        BY <2>1, <2>2 DEF IsPrefix
    <2>3. CASE slot.run \in Topics /\ posted = Append(applied, slot)
        <3>1. Len(posted) = Len(applied) + 1
            BY <2>1, <2>3
        <3>2. \A i \in 1..Len(applied) : posted[i] = applied[i]
            BY <2>1, <2>3
        <3>3. SubSeq(applied, 1, Len(applied)) = SubSeq(posted, 1, Len(applied))
            BY <2>1, <3>1, <3>2
        <3> QED
            BY <2>1, <3>1, <3>3 DEF IsPrefix
    <2> QED
        BY <2>2, <2>3 DEF IInv, OneOutstanding
<1> QED
    BY Invariance, <1>1, PTL

(* A field once read holds a reading the base had (io_reeman.cpp:275-313).     *)
THEOREM OnlyRealReadings == Spec => []ReadingsAreReal
<1>1. IInv => ReadingsAreReal
    BY DEF IInv
<1> QED
    BY Invariance, <1>1, PTL

(* Every field of a message published was read during the poll it ends, or is  *)
(* what the message before said, unless the process never read it              *)
(* (io_reeman.cpp:275-337).                                                    *)
THEOREM PublishedAreReadings == Spec => PublishedReadings
<1> DEFINE Fresh == info' # info =>
                \A f \in got' \ {"mode"} :
                    \/ info'[f] \in asked[f]..base[f]
                    \/ f \in DOMAIN info /\ info'[f] = info[f]
<1>1. IInv /\ [Next]_vars => [Fresh]_info
    <2> SUFFICES ASSUME IInv, Next, info' # info, NEW f \in got' \ {"mode"}
                 PROVE  \/ info'[f] \in asked[f]..base[f]
                        \/ f \in DOMAIN info /\ info'[f] = info[f]
        BY DEF vars, out
    <2>1. PICK g \in Fields : PollField(g)
        BY DEF Next, Publish, CommandStart, CommandEnd, TimerDue, PollStart, PollNavStatus,
           Crash, Respawn, BaseChange, BaseApply, BaseLose, out
    <2>2. info' = robot'
        BY <2>1 DEF PollField, Filled
    <2>3. CASE f = g /\ got' = got \union {g} /\ robot' = [robot EXCEPT ![g] = Reading(g)]
        <3>1. robot'[f] = base[f] /\ base[f] \in Nat /\ asked[f] \in Nat /\ asked[f] <= base[f]
            BY <2>3, Names DEF IInv, TypeOK, Reading, AskedIsOld
        <3> QED
            BY <2>2, <3>1
    <2>4. CASE f \in got /\ robot'[f] = robot[f]
        BY <2>2, <2>4 DEF IInv, NowOrAsTold, ReadNow, AsTold
    <2> QED
        BY <2>1, <2>3, <2>4 DEF PollField, KeptOnFailure, IInv, TypeOK
<1> QED
    BY Invariance, <1>1, PTL DEF Spec, PublishedReadings

(* Neither a field once read nor the status the master is told ever goes back  *)
(* to an older reading (io_reeman.cpp:275-313, 339-348).                       *)
THEOREM ReadingsOnlyAdvance == Spec => ReadingsNeverGoBack
<1> DEFINE Advance == /\ \A f \in got \ {"mode"} : robot'[f] >= robot[f]
                      /\ nav_status' >= nav_status
<1>1. IInv /\ [Next]_vars => [Advance]_<<robot, nav_status>>
    <2> SUFFICES ASSUME IInv, Next, <<robot, nav_status>>' # <<robot, nav_status>>
                 PROVE  Advance
        BY DEF vars, io, out
    <2>1. /\ \A f \in got \ {"mode"} : robot[f] \in 0..base[f] /\ f \in Fields
          /\ robot \in [Fields -> Int] /\ nav_status \in Nat
          /\ nav_status <= base["nav_status"] /\ base["nav_status"] \in Nat
        BY Names DEF IInv, TypeOK, ReadingsAreReal, NavIsReal
    <2>2. ASSUME NEW f \in Fields, PollField(f) PROVE Advance
        <3>1. \A g \in got \ {"mode"} : robot[g] \in Int /\ (g = f => Reading(f) >= robot[g])
            BY <2>1, Names DEF IInv, TypeOK, Reading
        <3>2. /\ robot' = [robot EXCEPT ![f] = Reading(f)] \/ robot' = robot
              /\ nav_status' = nav_status
            BY <2>2 DEF PollField, KeptOnFailure
        <3> QED
            BY <2>1, <3>1, <3>2
    <2>3. CASE PollNavStatus
        BY <2>1, <2>3 DEF PollNavStatus
    <2>4. CASE Respawn
        BY <2>1, <2>4 DEF Respawn, Respawned, IInv, DownIsBlank, out
    <2>5. Respawn \/ PollNavStatus \/ \E f \in Fields : PollField(f)
        BY DEF Next, Publish, CommandStart, CommandEnd, TimerDue, PollStart, Crash,
           BaseChange, BaseApply, BaseLose, io, out
    <2> QED
        BY <2>2, <2>3, <2>4, <2>5
<1> QED
    BY Invariance, <1>1, PTL DEF Spec, ReadingsNeverGoBack

(* Whatever fails and however often the node is respawned, the base never      *)
(* applies a command twice: a POST is made once and not retried                *)
(* (io_reeman.cpp:185-218, ReemanClient.hpp:102-139).                          *)
THEOREM NeverAppliedTwice == Spec => []AppliedOnce
<1>1. IInv => AppliedOnce
    BY DEF IInv
<1> QED
    BY Invariance, <1>1, PTL
================================================================================
