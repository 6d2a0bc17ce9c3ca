----------------------------- MODULE LossyChannel -----------------------------
(* What the velocity path of the io_reeman node promises, with no thread, lock *)
(* or clock in sight: commands go in one after the other, and those that come  *)
(* out come out in the order they went in, each at most once.  Any of them may *)
(* be lost.  Commands are numbered 1, 2, ... in the order they are sent.       *)
EXTENDS Naturals, Sequences

VARIABLES sent,        \* how many commands were sent so far
          delivered    \* the commands that came out, oldest first

vars == <<sent, delivered>>

Init == sent = 0 /\ delivered = <<>>

Send == sent' = sent + 1 /\ UNCHANGED delivered

Deliver ==
    /\ \E m \in 1..sent :
          /\ \A i \in 1..Len(delivered) : delivered[i] < m
          /\ delivered' = Append(delivered, m)
    /\ UNCHANGED sent

Next == Send \/ Deliver

Spec == Init /\ [][Next]_vars
===============================================================================
