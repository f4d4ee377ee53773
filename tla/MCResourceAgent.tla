-------------------------- MODULE MCResourceAgent --------------------------
EXTENDS ResourceAgent, TLC

CONSTANTS c1, c2, f1, a1, n1

(* c1 and c2 are cloud clusters, f1 a fog cluster.                         *)
TierOfId == (c1 :> "cloud") @@ (c2 :> "cloud") @@ (f1 :> "fog")

Plain(n) == [name |-> n, labelled |-> TRUE, asks |-> [t \in Tier |-> {}]]

OnePlain == [a \in Apps |-> {Plain(n1)}]

\* a1 may have no labels, or ask for the address of a tier it is not in.
Flawed == [a \in Apps |->
    IF a = a1
    THEN {Plain(n1), [Plain(n1) EXCEPT !.labelled = FALSE],
          [Plain(n1) EXCEPT !.asks["cloud"] = {"edge"}]}
    ELSE {Plain(n1)}]

MCTierOf == [c \in Clusters |-> TierOfId[c]]
=============================================================================
