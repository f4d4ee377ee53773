------------------------------- MODULE Scorer -------------------------------
(***************************************************************************)
(* The Borda scorer: which cluster of a tier, and which of its nodes, an   *)
(* application is placed on.  A node is a record of its name, its cluster  *)
(* and what its agent reported; the weights of the application are in      *)
(* tenths.  They may be negative: nothing looks at those of a new          *)
(* application, only at those of an update.                                *)
(*                                                                         *)
(* The program computes in floating point.  Points are small integers, so  *)
(* with weights that are halves every score is exact, and dividing their   *)
(* sum by their number cannot change how it compares with one of them.     *)
(* With other weights scores that are equal may come out different, and a  *)
(* node whose score is the average may come out on either side of it:      *)
(* three scores of 0.4 have the average 0.4000000000000001.  Such a node   *)
(* is kept or not, and clusters that tie come in any order.  Rounding      *)
(* never reaches across a tenth.                                           *)
(***************************************************************************)
EXTENDS Integers, SequencesExt, FiniteSetsExt

Attributes ==
    <<"energy", "pricing", "latency", "cpu", "memory", "bandwidth", "storage">>

(* Less energy and a lower price are better, more of a resource is.        *)
(* Latency is never filled in, so no node beats another by it.             *)
(* Mutant: higherBetter is never set.                                      *)
BetterIsLess(a, m, n) == a # "latency" /\ m[a] < n[a]

Better(a, m, n) ==
    CASE a \in {"energy", "pricing"} -> m[a] < n[a]
      [] a = "latency" -> FALSE
      [] OTHER -> m[a] > n[a]

(* The nodes are sorted by one attribute after the other.  sort.Slice on   *)
(* up to twelve nodes is an insertion sort: nodes that tie keep the order  *)
(* they were in, which is what the sorts before made of the order they     *)
(* came in.  So after the sort by attribute k, the latest attribute in     *)
(* which two nodes differ decides, and at last their place in the list.    *)
(* Only the order of the places counts: there may be places without a node.*)
Ahead(list, k, i, j) ==
    LET differ == {l \in 1 .. k : \/ Better(Attributes[l], list[i], list[j])
                                 \/ Better(Attributes[l], list[j], list[i])}
    IN  IF differ = {}
        THEN i < j
        ELSE Better(Attributes[Max(differ)], list[i], list[j])

(* A node gets as many points as there are nodes from its place on.        *)
Points(list, k, i) ==
    Cardinality(DOMAIN list) - Cardinality({j \in DOMAIN list : Ahead(list, k, j, i)})

(* Equal weights when the application gives none.                          *)
Weights(qos) ==
    IF \A w \in DOMAIN qos : qos[w] < 1
    THEN [w \in DOMAIN qos |-> 10]
    ELSE qos

NegativeWeight(qos) == \E w \in DOMAIN qos : Weights(qos)[w] < 0

Scores(list, qos) ==
    LET w == Weights(qos)
        Score(i) == w.energy * Points(list, 1, i) + w.pricing * Points(list, 2, i)
                    + w.performance * (  Points(list, 4, i) + Points(list, 5, i)
                                       + Points(list, 6, i) + Points(list, 7, i))
    IN  [n \in ToSet(list) |-> Score(CHOOSE i \in DOMAIN list : list[i] = n)]

Total(score, nodes) == MapThenSumSet(LAMBDA n : score[n], nodes)

Exact(qos) == \A w \in DOMAIN qos : Weights(qos)[w] % 5 = 0

-----------------------------------------------------------------------------
(* Mutant: a node must beat the average.                                   *)
KeptAbove(score, exact) ==
    {{n \in DOMAIN score :
        score[n] * Cardinality(DOMAIN score) > Total(score, DOMAIN score)}}

(* The sets of nodes the filter may keep: those above the average, with    *)
(* those at it, or some of those when scores are rounded.  Of one or two   *)
(* nodes the better one is at least the average, rounded or not.           *)
Kept(score, exact) ==
    LET nodes == DOMAIN score
        Above(n) == score[n] * Cardinality(nodes) - Total(score, nodes)
        sure == {n \in nodes : Above(n) > 0}
        even == {n \in nodes : Above(n) = 0}
    IN  IF exact
        THEN {sure \cup even}
        ELSE {kept \in {sure \cup some : some \in SUBSET even} :
                 kept # {} \/ Cardinality(nodes) > 2}

(* The clusters that may come first: by what their kept nodes score, then  *)
(* by what all do.  A map gives the order of those that tie.  One with no  *)
(* kept node has the sum 0, which beats a negative one.                    *)
Best(score, kept, exact) ==
    LET clusters == {n.cluster : n \in DOMAIN score}
        Of(c, nodes) == Total(score, {n \in nodes : n.cluster = c})
        Beats(c, d) ==
            \/ Of(c, kept) > Of(d, kept)
            \/ /\ Of(c, kept) = Of(d, kept)
               /\ exact \/ ~ \E n \in kept : n.cluster \in {c, d}
               /\ Of(c, DOMAIN score) > Of(d, DOMAIN score)
    IN  {c \in clusters : \A d \in clusters : ~Beats(d, c)}

(* What ScoreAndFilterNodes may return for the eligible nodes of a tier in *)
(* the order the database gave them: a cluster and nodes of it.            *)
Nobody == [cluster |-> "", nodes |-> {}]

(* Mutant: the nodes kept are returned whatever cluster they are of.       *)
ScoreNodesOfAll(list, qos) ==
    IF DOMAIN list = {}
    THEN {Nobody}
    ELSE LET score == Scores(list, qos)
         IN  UNION {{[cluster |-> c, nodes |-> kept] :
                        c \in Best(score, kept, Exact(qos))} :
                        kept \in Kept(score, Exact(qos))}

ScoreNodes(list, qos) ==
    IF DOMAIN list = {}
    THEN {Nobody}
    ELSE LET score == Scores(list, qos)
         IN  UNION {{[cluster |-> c, nodes |-> {n \in kept : n.cluster = c}] :
                        c \in Best(score, kept, Exact(qos))} :
                        kept \in Kept(score, Exact(qos))}
=============================================================================
