--------------------------- MODULE RiskParityTree ---------------------------
(***************************************************************************)
(* Hierarchical risk parity.  The listings of a portfolio are clustered by *)
(* single linkage, the closest pair of clusters first; the root's leaves,  *)
(* left child before right, are the quasi-diagonal order.  The order is    *)
(* then halved until single listings are left, and each half of a cluster  *)
(* is given capital in inverse proportion to its variance.                 *)
(*                                                                         *)
(* Distances and variances are data: any of a few, and 0 is a degenerate   *)
(* one.  Weights are fractions.                                            *)
(***************************************************************************)
EXTENDS Integers, Sequences, FiniteSets, Functions

CONSTANTS
  Leaves,      \* the number of listings
  Distances,   \* the distances of two listings
  Variances    \* pairs of variances of the halves of a cluster

ASSUME TreeAssumption ==
  Leaves \in Nat \ {0} /\ Distances \subseteq Nat /\ Variances \subseteq Nat \X Nat

VARIABLES
  distance,  \* of two clusters, the smaller id first
  active,    \* the clusters that are not merged
  leaves,    \* leaves[c]: the leaves of a cluster, left child first
  heights,   \* the distance of each merge
  pending,   \* clusters still to be halved
  weight     \* weight[l]: the weight of a leaf, numerator and denominator

tree == <<distance, active, leaves, heights, pending, weight>>

Leaf == 0 .. Leaves - 1
PairsOf(S) == {p \in S \X S : p[1] < p[2]}
Ordered(i, j) == IF i < j THEN <<i, j>> ELSE <<j, i>>

TreeInit ==
  /\ distance = <<>> /\ active = {} /\ leaves = <<>> /\ heights = <<>>
  /\ pending = <<>> /\ weight = <<>>

Cluster(d) ==
  /\ active = {}
  /\ distance' = d /\ active' = Leaf /\ leaves' = [l \in Leaf |-> <<l>>]
  /\ UNCHANGED <<heights, pending, weight>>

\* Ties go to the lowest pair of ids.
Before(p, q) == p[1] < q[1] \/ (p[1] = q[1] /\ p[2] <= q[2])

Closest ==
  CHOOSE p \in PairsOf(active) : \A q \in PairsOf(active) :
    distance[p] < distance[q] \/ (distance[p] = distance[q] /\ Before(p, q))

\* Variant: The distance of the farthest members.
FarthestTo(p, other) ==
  LET a == distance[Ordered(p[1], other)]
      b == distance[Ordered(p[2], other)]
  IN  IF a < b THEN b ELSE a

\* The distance of a merged pair to another cluster is that of the closest members.
DistanceTo(p, other) ==
  LET a == distance[Ordered(p[1], other)]
      b == distance[Ordered(p[2], other)]
  IN  IF a < b THEN a ELSE b

Join(s, t) == s \o t

Merge ==
  /\ Cardinality(active) > 1
  /\ LET p == Closest
         new == Leaves + Len(heights)
         rest == active \ {p[1], p[2]}
         D == DOMAIN distance \cup {<<c, new>> : c \in rest}
     IN  /\ active' = rest \cup {new}
         /\ distance' = [q \in D |-> IF q[2] = new THEN DistanceTo(p, q[1]) ELSE distance[q]]
         /\ leaves' = [c \in DOMAIN leaves \cup {new} |->
                        IF c = new THEN Join(leaves[p[1]], leaves[p[2]]) ELSE leaves[c]]
         /\ heights' = Append(heights, distance[p])
  /\ UNCHANGED <<pending, weight>>

Root == CHOOSE c \in active : TRUE
Clustered == Cardinality(active) = 1

Bisect ==
  /\ Clustered /\ weight = <<>>
  /\ pending' = <<leaves[Root]>>
  /\ weight' = [l \in Leaf |-> <<1, 1>>]
  /\ UNCHANGED <<distance, active, leaves, heights>>

Times(w, v) == <<w[1] * v[1], w[2] * v[2]>>

\* What the left and the right half get.
Shares(v) ==
  IF v[1] + v[2] = 0 THEN <<<<1, 2>>, <<1, 2>>>>
  ELSE <<<<v[2], v[1] + v[2]>>, <<v[1], v[1] + v[2]>>>>

Halve(v) ==
  /\ pending # <<>> /\ Len(Head(pending)) > 1
  /\ LET cluster == Head(pending)
         middle == Len(cluster) \div 2
         left == SubSeq(cluster, 1, middle)
         right == SubSeq(cluster, middle + 1, Len(cluster))
     IN  /\ weight' = [l \in Leaf |->
              IF l \in Range(left) THEN Times(weight[l], Shares(v)[1])
              ELSE IF l \in Range(right) THEN Times(weight[l], Shares(v)[2])
              ELSE weight[l]]
         /\ pending' = <<left, right>> \o Tail(pending)
  /\ UNCHANGED <<distance, active, leaves, heights>>

Single ==
  /\ pending # <<>> /\ Len(Head(pending)) = 1
  /\ pending' = Tail(pending)
  /\ UNCHANGED <<distance, active, leaves, heights, weight>>

TreeNext ==
  \/ \E d \in [PairsOf(Leaf) -> Distances] : Cluster(d)
  \/ Merge \/ Bisect \/ Single
  \/ \E v \in Variances : Halve(v)

TreeSpec == TreeInit /\ [][TreeNext]_tree

------------------------------------------------------------------------------
\* Clusters, order and weights keep their shape.
TreeTypeOK ==
  /\ \A c \in DOMAIN leaves : leaves[c] \in Seq(Leaf)
  /\ Len(heights) < Leaves
  /\ \A l \in DOMAIN weight : weight[l] \in Nat \X (Nat \ {0})

\* No listing is within h of a member but a member.
Closed(h, S) == \A a \in S, b \in Leaf \ S : distance[Ordered(a, b)] > h

\* The clusters are those of single linkage, whatever the ties: those merged so
\* far are the listings linked within the last merge, or a part of them while
\* merges at the same distance remain.  Linked are listings that no set splits
\* that holds all listings near its members.
MergesAreLinked ==
  heights # <<>> =>
    LET h == heights[Len(heights)] IN
    /\ \A S \in SUBSET Leaf : Closed(h, S) => \A c \in active :
         Range(leaves[c]) \subseteq S \/ Range(leaves[c]) \cap S = {}
    /\ \A c, e \in active : c # e => \A a \in Range(leaves[c]), b \in Range(leaves[e]) :
         distance[Ordered(a, b)] >= h
    /\ \A i \in 1 .. Len(heights) - 1 : heights[i] <= heights[i + 1]

\* The order holds every listing once, and keeps the listings of each cluster
\* together, so that closely related listings are halved last.
OrderKeepsClusters ==
  Clustered =>
    LET order == leaves[Root] IN
    /\ Len(order) = Leaves /\ Range(order) = Leaf
    /\ \A c \in DOMAIN leaves : \E i \in 0 .. Leaves - Len(leaves[c]) :
         SubSeq(order, i + 1, i + Len(leaves[c])) = leaves[c]

\* The weights of all listings together are the whole, after the last halving.
WeightsAreWhole ==
  Clustered /\ weight # <<>> /\ pending = <<>> =>
    LET product[n \in 0 .. Leaves] ==
          IF n = 0 THEN 1 ELSE product[n - 1] * weight[n - 1][2]
        whole == product[Leaves]
    IN  whole = SumFunction([l \in Leaf |-> weight[l][1] * (whole \div weight[l][2])])

\* The clustering is single linkage, its order and the weights that follow it are whole.
TreeIsSound == TreeTypeOK /\ MergesAreLinked /\ OrderKeepsClusters /\ WeightsAreWhole
=============================================================================
