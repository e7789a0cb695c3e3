--------------------------- MODULE MCDelayBoxRules --------------------------
(* Rules and packets for model-checking DelayBoxRules.                     *)
EXTENDS DelayBoxRules

End(addr, port) == [addr |-> addr, port |-> port]

From(s, d) == [src |-> s, dst |-> d]

\* Between two addresses: no port, either port, both ports, upward and
\* downward.  On one address the order of the ends is that of the ports, so
\* that a wildcard decides it.
SomePatterns ==
    {From(End(1, 0), End(2, 0)), From(End(2, 0), End(1, 1)),
     From(End(2, 1), End(1, 0)), From(End(1, 1), End(2, 1)),
     From(End(1, 2), End(1, 0)), From(End(1, 0), End(1, 1))}

\* Both directions of a conversation, one direction of another, and both of
\* a conversation within one address.
SomePackets ==
    {From(End(1, 1), End(2, 1)), From(End(2, 1), End(1, 1)),
     From(End(2, 1), End(1, 2)),
     From(End(1, 2), End(1, 1)), From(End(1, 1), End(1, 2))}
=============================================================================
