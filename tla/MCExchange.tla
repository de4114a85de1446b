------------------------------ MODULE MCExchange ------------------------------
(* One request, two callbacks, one key that is replaced once.              *)
EXTENDS Exchange, TLC

CONSTANT confirm

MCAnswers == [c \in Callback |-> confirm]
Symmetry == Permutations(Callback)
==============================================================================
