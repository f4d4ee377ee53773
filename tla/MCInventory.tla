---------------------------- MODULE MCInventory ----------------------------
EXTENDS Inventory

\* A node by its name, its cluster, energy, price and how much it has of
\* everything else.
MCNode(n, c, e, p, size) ==
    [name |-> n, cluster |-> c, energy |-> e, pricing |-> p, cpu |-> size,
     memory |-> size, bandwidth |-> size, storage |-> size]

MCNever == [n \in {"x", "y", "z"} |-> 2]
MCQos(e, p, q) == [energy |-> e, pricing |-> p, performance |-> q]

MCWorlds == {
    \* x, which beats y by the default weights, turns unfit; two reports at once
    [nodes |-> [a |-> <<MCNode("x", "a", 1, 1, 2), MCNode("y", "a", 2, 2, 1)>>,
                b |-> <<>>],
     unfit |-> [MCNever EXCEPT !["x"] = 1], gone |-> MCNever,
     qos |-> MCQos(0, 0, 0), mayStop |-> {}, maxRequests |-> 2],
    \* y is removed, and the agent of b may stop
    [nodes |-> [a |-> <<MCNode("x", "a", 1, 1, 1), MCNode("y", "a", 1, 1, 1)>>,
                b |-> <<MCNode("z", "b", 2, 2, 1)>>],
     unfit |-> MCNever, gone |-> [MCNever EXCEPT !["y"] = 1],
     qos |-> MCQos(10, 5, 0), mayStop |-> {"b"}, maxRequests |-> 1],
    \* three nodes that score the same, 0.4 each
    [nodes |-> [a |-> <<MCNode("x", "a", 1, 3, 1), MCNode("y", "a", 2, 2, 1)>>,
                b |-> <<MCNode("z", "b", 3, 1, 1)>>],
     unfit |-> MCNever, gone |-> MCNever,
     qos |-> MCQos(1, 1, 0), mayStop |-> {}, maxRequests |-> 1],
    \* a negative weight: x, better in everything, scores least
    [nodes |-> [a |-> <<MCNode("x", "a", 1, 1, 2), MCNode("y", "a", 2, 2, 1)>>,
                b |-> <<MCNode("z", "b", 3, 3, 1)>>],
     unfit |-> MCNever, gone |-> MCNever,
     qos |-> MCQos(10, -15, 0), mayStop |-> {}, maxRequests |-> 1]}
=============================================================================
