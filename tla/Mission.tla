-------------------------------- MODULE Mission --------------------------------
(* The mission as somebody in the room sees it, with no node, topic or request *)
(* in sight: the robot drives to a goal, stops, and turns three times.  It may *)
(* start over with each life of the node that leads it, and nothing has to     *)
(* happen.                                                                     *)
EXTENDS Integers

VARIABLES lives,   \* of the node that leads the mission, so far
          sure,    \* does that node hold nothing for an arrival but one it caused?
          legs,    \* starts and stops of the robot, so far
          turns    \* turns made in this life

vars == <<lives, sure, legs, turns>>

Init == lives = 1 /\ sure \in BOOLEAN /\ legs = 0 /\ turns = 0

Driving == legs % 2 = 1

(* One drive for each life, although not always in it.                         *)
Drive ==
    /\ ~Driving /\ legs < 2 * lives
    /\ legs' = legs + 1 /\ UNCHANGED <<lives, sure, turns>>

Stop ==
    /\ Driving
    /\ legs' = legs + 1 /\ UNCHANGED <<lives, sure, turns>>

Turn ==
    /\ turns < 3 /\ (sure => legs = 2)
    /\ turns' = turns + 1 /\ UNCHANGED <<lives, sure, legs>>

(* A new life may take for its arrival that of the one before.                 *)
StartOver ==
    /\ lives' = lives + 1 /\ sure' = FALSE /\ turns' = 0
    /\ UNCHANGED legs

Next == Drive \/ Stop \/ Turn \/ StartOver

Spec == Init /\ [][Next]_vars
===============================================================================
