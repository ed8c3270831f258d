-------------------------- MODULE MCReplayGroup --------------------------
(***************************************************************************)
(* Recordings and bounds for the runs of ReplayGroup.                      *)
(***************************************************************************)
EXTENDS ReplayGroup

CONSTANTS x, y, b1, w1, w2

\* A recording in which no object is ever given a number.
PlainCreated == [t \in Times |-> 1]
PlainNeeds   == [w \in Watches |-> {}]

\* A breakpoint passed in the gaps 2 and 5.
SparseFires == [b \in Breaks |-> {2, 5}]

\* One watched expression, which changes and later changes back.
PlainShows ==
  [w \in Watches |-> [t \in Times |-> IF t \in {3, 4} THEN y ELSE x]]

\* Two objects, created in the gaps 2 and 4, each with a watchpoint on it.
TwoCreated == [t \in Times |-> IF t <= 2 THEN 1 ELSE IF t <= 4 THEN 2 ELSE 3]
TwoNeeds   == [w \in Watches |-> IF w = w1 THEN {1} ELSE {2}]
TwoShows   ==
  [w \in Watches |-> [t \in Times |->
     IF w = w1 THEN IF t <= 3 THEN x ELSE y
               ELSE IF t <= 5 THEN x ELSE y]]
=============================================================================
