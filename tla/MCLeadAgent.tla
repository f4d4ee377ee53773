---------------------------- MODULE MCLeadAgent ----------------------------
EXTENDS LeadAgent, TLC

CONSTANTS c1, c2, f1, e1

(* c1 and c2 are cloud clusters, f1 a fog cluster, e1 an edge cluster.     *)
TierOfId == (c1 :> "cloud") @@ (c2 :> "cloud") @@ (f1 :> "fog") @@ (e1 :> "edge")

MCTierOf == [c \in Clusters |-> TierOfId[c]]

Symmetry == Permutations(RLAs) \cup Permutations(Apps) \cup Permutations(HttpSlots)
            \cup Permutations(Clusters \cap {c1, c2})
=============================================================================
