---------------------------- MODULE Investigation -----------------------------
(***************************************************************************)
(* What the detection thread and the builder promise to whoever extracts   *)
(* fault trajectories: alerts are raised in some order and taken in that   *)
(* order, each once and all that are there at a time; investigations       *)
(* follow one another, and never are there more of them than alerts.       *)
(***************************************************************************)
EXTENDS Naturals, Sequences

VARIABLES raised, taken, ongoing, ended

vars == <<raised, taken, ongoing, ended>>

Init ==
    /\ raised = <<>>
    /\ taken = <<>>
    /\ ongoing = FALSE
    /\ ended = 0

Raise ==
    /\ Len(raised') = Len(raised) + 1
    /\ SubSeq(raised', 1, Len(raised)) = raised
    /\ UNCHANGED <<taken, ongoing, ended>>

Take ==
    /\ taken' = raised
    /\ UNCHANGED <<raised, ongoing, ended>>

Begin ==
    /\ ~ongoing
    /\ ended < Len(taken)
    /\ ongoing' = TRUE
    /\ UNCHANGED <<raised, taken, ended>>

End ==
    /\ ongoing
    /\ ongoing' = FALSE
    /\ ended' = ended + 1
    /\ UNCHANGED <<raised, taken>>

Next == Raise \/ Take \/ Begin \/ End

Spec == Init /\ [][Next]_vars
=============================================================================
