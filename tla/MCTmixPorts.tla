---------------------------- MODULE MCTmixPorts -----------------------------
(* Pairs and vectors for model-checking TmixPorts.                         *)
EXTENDS TmixPorts

CONSTANTS p1, p2

TwoPairs == {p1, p2}

\* A vector that starts at once and a later one with other parameters.
Early == [start |-> 0, oneWay |-> 1, lossItoA |-> 1, lossAtoI |-> 2]
Later == [start |-> 1, oneWay |-> 2, lossItoA |-> 0, lossAtoI |-> 0]

TwoVectors == {Early, Later}
=============================================================================
