----------------------------- MODULE MCStepping -----------------------------
(***************************************************************************)
(* Every recording of a few stop points: between two of them nothing, a    *)
(* call, a return, two of these, or a thread switch, alone, after a call   *)
(* or after another switch.  What begins a gap of this kind may also be a  *)
(* gap of its own.                                                         *)
(***************************************************************************)
EXTENDS Stepping

MCThreads == {0, 1}

MCBeginnings ==
  {[thread |-> 0,
    stacks |-> [n \in MCThreads |-> IF n = 0 THEN s ELSE <<3>>]] :
     s \in {<<1>>, <<1, 2>>}}

MCShapes ==
  {<<>>, <<"call">>, <<"return">>, <<"call", "return">>, <<"return", "call">>,
   <<"return", "return">>, <<"switch">>, <<"call", "switch">>,
   <<"switch", "switch">>}
=============================================================================
