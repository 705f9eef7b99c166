------------------------------ MODULE MCCards ------------------------------
(***************************************************************************)
(* Model checking of the cards of a job: the questions of one job          *)
(* (UserInput), the buttons of another (StopFork) and the progress card of *)
(* a third (ProgressCard).  The jobs have nothing in common, so only one   *)
(* of them moves in a behaviour.                                           *)
(***************************************************************************)
EXTENDS UserInput, StopFork, ProgressCard

CardsInit == Init /\ ButtonsInit /\ CardInit

CardsNext ==
    \/ status = "busy" /\ ButtonsInit /\ CardInit /\ Next /\ UNCHANGED <<buttonVars, cardVars>>
    \/ Init /\ CardInit /\ ButtonsNext /\ UNCHANGED <<vars, cardVars>>
    \/ Init /\ status = "busy" /\ ButtonsInit /\ CardNext /\ UNCHANGED <<vars, buttonVars>>
CardsSpec == CardsInit /\ [][CardsNext]_<<vars, buttonVars, cardVars>> /\ Fairness

\* The clicks are alike, so they are numbered in the order in which they come.
InOrder == \A k, l \in Click : k < l /\ click[k].stage = "idle" => click[l].stage = "idle"

\* Bound: a second question comes with one click or one failed call; one question meets
\* two clicks and a failure, or a click and two failures.
Hard ==
    LET asked == {r \in Request : native[r] # "none"}
        clicked == {k \in Click : click[k].stage # "idle"}
    IN  faults + Cardinality(clicked) <= IF Cardinality(asked) > 1 THEN 1 ELSE 3

\* The row, the calls, the presses, the card and its updates keep their types.
CardsTypeOK == TypeOK /\ ButtonsTypeOK /\ CardTypeOK
=============================================================================
