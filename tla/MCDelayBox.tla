----------------------------- MODULE MCDelayBox -----------------------------
(* Flows and rules for model-checking DelayBox.                            *)
EXTENDS DelayBox

CONSTANTS f1, f2, f3

AllFlows == {f1, f2, f3}
TwoFlows == {f1, f2}

\* Flow f3 has no rule.
FewPackets     == [f \in AllFlows |-> IF f = f1 THEN 3 ELSE 1]
TwoPacketsEach == [f \in TwoFlows |-> 2]

Draw(delay, perUnit, lossy) ==
    [delay |-> delay, perUnit |-> perUnit, lossy |-> lossy]

\* A slow link with or without a delay, and a long delay with losses.
TwoRules ==
    [f \in TwoFlows |-> IF f = f1 THEN {Draw(0, 1, FALSE), Draw(1, 1, FALSE)}
                        ELSE {Draw(2, 0, TRUE)}]

TwoSimpleRules == [f \in TwoFlows |-> {Draw(1, 0, FALSE)}]
=============================================================================
