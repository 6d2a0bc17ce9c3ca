------------------------------- MODULE TaskQueue -------------------------------
(* What the thread pool promises of its tasks, with no thread, lock or counter *)
(* in sight: they are numbered as they are submitted, taken in that order,     *)
(* each once, and come to their end in any order.                              *)
EXTENDS Integers

VARIABLES submitted,   \* tasks submitted so far
          taken,       \* tasks taken so far
          done         \* the tasks that have come to their end

vars == <<submitted, taken, done>>

Init == submitted = 0 /\ taken = 0 /\ done = {}

Submit == submitted' = submitted + 1 /\ UNCHANGED <<taken, done>>

Take ==
    /\ taken < submitted
    /\ taken' = taken + 1 /\ UNCHANGED <<submitted, done>>

End ==
    /\ \E t \in (1..taken) \ done : done' = done \union {t}
    /\ UNCHANGED <<submitted, taken>>

Next == Submit \/ Take \/ End

Spec == Init /\ [][Next]_vars
===============================================================================
