---------------------------- MODULE MCEvaluation ----------------------------
(* Run files, TCPs and graphs for model-checking Evaluation.               *)
EXTENDS Evaluation

TwoTCPs == <<"tahoe", "reno">>

\* Two values that differ in a fraction only and one that does not, a file
\* without values, one without an end and one of no known type.
SomeRunFiles ==
    {[type |-> "BANDWIDTH", words |-> w] :
        w \in {<<6, EndMark>>, <<6, 7, EndMark>>, <<EndMark>>, <<6>>}}
      \cup {[type |-> "DELAY", words |-> <<6, EndMark>>]}

SomeGraphs == {{"l", "q", "cw", "thr", "d"}}
=============================================================================
