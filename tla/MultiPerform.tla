------------------------------ MODULE MultiPerform ------------------------------
(* cpr's MultiPerform: sessions that are added to one of several multi handles, *)
(* are locked while they are, and are run together.  Of libcurl it is modelled  *)
(* that a handle is in one multi handle at most, that its calls can fail, and   *)
(* that a transfer that has ended runs again, and gives its message again, only *)
(* when its session has been added anew.                                        *)
EXTENDS Integers, Sequences, SequencesExt, FiniteSets

CONSTANTS Multis, Sessions, NoMulti

ASSUME MultiAssumption == NoMulti \notin Multis

HttpMethods == {"UNDEFINED", "GET", "DOWNLOAD"}

VARIABLES
    sessions_,             \* of each multi: its sessions with their methods
    is_download_multi_perform,
    isUsedInMultiPerform,  \* of each session
    moved,                 \* the multis that were moved from
    member,                \* libcurl: the multi that a session's handle is in
    ended,                 \* libcurl: the sessions whose transfer has ended
    stranded,              \* sessions whose multi gave way to one moved there
    request                \* of the last request: was it smooth, and all answered

multiVars == <<sessions_, is_download_multi_perform, isUsedInMultiPerform, moved, member,
               ended, stranded, request>>

MultiInit ==
    /\ sessions_ = [m \in Multis |-> <<>>]
    /\ is_download_multi_perform = [m \in Multis |-> FALSE]
    /\ isUsedInMultiPerform = [s \in Sessions |-> FALSE]
    /\ member = [s \in Sessions |-> NoMulti] /\ moved = {} /\ ended = {} /\ stranded = {}
    /\ request = [smooth |-> TRUE, answered |-> TRUE]

Mixes(m, method) ==
    \/ method = "GET" /\ is_download_multi_perform[m]
    \/ method = "DOWNLOAD" /\ ~is_download_multi_perform[m] /\ sessions_[m] # <<>>

AnyHandle(s) == TRUE                              \* slip: the error code is not looked at
Addable(s) == member[s] = NoMulti

(* Mixing throws.  An error of libcurl comes after the flag has been set.  A   *)
(* multi that was moved from has no handle to add to.                          *)
AddSession(m, s, method) ==
    /\ m \notin moved /\ ~Mixes(m, method)
    /\ is_download_multi_perform' =
          [is_download_multi_perform EXCEPT ![m] = @ \/ method = "DOWNLOAD"]
    /\ IF Addable(s)
       THEN /\ member' = [member EXCEPT ![s] = IF @ = NoMulti THEN m ELSE @]
            /\ isUsedInMultiPerform' = [isUsedInMultiPerform EXCEPT ![s] = TRUE]
            /\ sessions_' = [sessions_ EXCEPT ![m] = Append(@, [session |-> s, method |-> method])]
            /\ ended' = ended \ {s} /\ stranded' = stranded \ {s}
       ELSE UNCHANGED <<member, isUsedInMultiPerform, sessions_, ended, stranded>>
    /\ UNCHANGED <<moved, request>>

IsHere(m, s) == \E i \in DOMAIN sessions_[m] : sessions_[m][i].session = s

FirstOne(m, s) == 1                               \* slip: erases begin()
(* Where find_if stops.                                                        *)
Position(m, s) ==
    CHOOSE i \in DOMAIN sessions_[m] :
        /\ sessions_[m][i].session = s
        /\ \A j \in 1..(i - 1) : sessions_[m][j].session # s

(* libcurl takes a handle of no multi for removed, and refuses another's.  A    *)
(* session that is not in the list throws, when its lock is already off.       *)
RemoveSession(m, s) ==
    /\ sessions_[m] # <<>> /\ member[s] \in {m, NoMulti}
    /\ member' = [member EXCEPT ![s] = NoMulti]
    /\ isUsedInMultiPerform' = [isUsedInMultiPerform EXCEPT ![s] = FALSE]
    /\ sessions_' = [sessions_ EXCEPT ![m] =
                        IF IsHere(m, s) THEN RemoveAt(@, Position(m, s)) ELSE @]
    /\ is_download_multi_perform' =
          [is_download_multi_perform EXCEPT ![m] = @ /\ sessions_'[m] # <<>>]
    /\ stranded' = stranded \ {s}
    /\ UNCHANGED <<moved, ended, request>>

(* The destructor.  A multi made later may have the name of the one destroyed. *)
Destroy(m) ==
    /\ sessions_' = [sessions_ EXCEPT ![m] = <<>>]
    /\ is_download_multi_perform' = [is_download_multi_perform EXCEPT ![m] = FALSE]
    /\ isUsedInMultiPerform' = [s \in Sessions |-> isUsedInMultiPerform[s] /\ ~IsHere(m, s)]
    /\ member' = [s \in Sessions |-> IF IsHere(m, s) THEN NoMulti ELSE member[s]]
    /\ moved' = moved \ {m}
    /\ UNCHANGED <<ended, stranded, request>>

(* Assigning n's members to m frees m's handle, so that its sessions are in no  *)
(* multi, but does not run the destructor that unlocks them.                   *)
MoveAssign(m, n) ==
    /\ m # n /\ n \notin moved
    /\ sessions_' = [sessions_ EXCEPT ![m] = sessions_[n], ![n] = <<>>]
    /\ is_download_multi_perform' =
          [is_download_multi_perform EXCEPT ![m] = is_download_multi_perform[n]]
    /\ member' = [s \in Sessions |-> IF member[s] = n THEN m
                                     ELSE IF member[s] = m THEN NoMulti ELSE member[s]]
    /\ stranded' = stranded \union {s \in Sessions : IsHere(m, s)}
    /\ moved' = (moved \ {m}) \union {n}
    /\ UNCHANGED <<isUsedInMultiPerform, ended, request>>

(* Get and its like give every session the method, Perform keeps each its own; *)
(* a download needs an argument for each, and changes no flag.  The transfers  *)
(* that run come to their end, or some of them when libcurl fails.  Reading    *)
(* their messages stops at one of a session that is not listed.  A session of  *)
(* the list for which none was read has the code take the response that        *)
(* end() points to: the program may end there, or go on.                       *)
MakeRequest(m, method) ==
    LET listed  == {s \in Sessions : IsHere(m, s)}
        running == {s \in Sessions : member[s] = m} \ ended
    IN  /\ m \notin moved
        /\ sessions_' = IF method = "UNDEFINED" THEN sessions_
                        ELSE [sessions_ EXCEPT ![m] =
                                 [i \in DOMAIN @ |-> [@[i] EXCEPT !.method = method]]]
        /\ \E finished \in SUBSET running : \E read \in SUBSET (finished \intersect listed) :
              /\ finished \subseteq listed => read = finished
              /\ ended' = ended \union finished
              /\ request' = [smooth   |-> finished = running /\ listed \intersect ended = {},
                             answered |-> read = listed /\ \A i, j \in DOMAIN sessions_[m] :
                                 sessions_[m][i].session = sessions_[m][j].session => i = j]
        /\ UNCHANGED <<is_download_multi_perform, isUsedInMultiPerform, moved, member, stranded>>

MultiNext ==
    \E m \in Multis :
        \/ \E s \in Sessions, method \in HttpMethods : AddSession(m, s, method)
        \/ \E s \in Sessions : RemoveSession(m, s)
        \/ \E method \in HttpMethods : MakeRequest(m, method)
        \/ Destroy(m) \/ \E n \in Multis : MoveAssign(m, n)

MultiSpec == MultiInit /\ [][MultiNext]_multiVars

-------------------------------------------------------------------------------
(* A session is locked exactly while it is in one of the multis' lists, in one *)
(* only and where libcurl has its handle, whatever adding or removing failed:  *)
(* else it could run twice at once, or never alone again.  The one exception   *)
(* are the sessions of a multi that another was moved to (multiperform.h:37):  *)
(* they stay locked until they are added or removed again.                     *)
LockedWhileAdded ==
    \A s \in Sessions :
        /\ isUsedInMultiPerform[s] = (member[s] # NoMulti \/ s \in stranded)
        /\ \A m \in Multis :
              Cardinality({i \in DOMAIN sessions_[m] : sessions_[m][i].session = s})
                  = IF member[s] = m THEN 1 ELSE 0

(* The code takes one response for every session of the list, and looks not    *)
(* whether there is one (multiperform.cpp:161-169).  There is, whatever was    *)
(* added, removed, destroyed and moved before, unless libcurl failed or the    *)
(* list has a session whose transfer ended since it was added: these two ways  *)
(* are open to every program, and no others.                                   *)
EachIsAnswered == request.smooth => request.answered
===============================================================================
