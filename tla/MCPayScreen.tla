------------------------------ MODULE MCPayScreen ------------------------------
(* PayScreen by itself, for what goes wrong there. *)
EXTENDS PayScreen

MCPayCases == {[scanned |-> TRUE, quotes |-> 2, slips |-> 0]}
===============================================================================
