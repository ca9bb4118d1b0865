---------------------------- MODULE CommandQueue ----------------------------
(***************************************************************************)
(* What the trigger path promises of its commands: they are carried out in *)
(* the order in which they were accepted, and none is passed over.  How    *)
(* often one is carried out is left open.                                  *)
(***************************************************************************)
EXTENDS Naturals

VARIABLES
    accepted,   \* how many commands have been accepted
    done        \* the positions of those carried out at least once

vars == <<accepted, done>>

Init ==
    /\ accepted = 0
    /\ done = {}

Accept ==
    /\ accepted' = accepted + 1
    /\ UNCHANGED done

Finish(i) ==
    /\ i \in 1 .. accepted
    /\ 1 .. i - 1 \subseteq done
    /\ done' = done \cup {i}
    /\ UNCHANGED accepted

Next == Accept \/ \E i \in 1 .. accepted : Finish(i)

Spec == Init /\ [][Next]_vars
=============================================================================
