--------------------------- MODULE MCDeployments ----------------------------
EXTENDS Deployments, TLC

CONSTANTS n1, n2, i1, i2, c1, c2, x1, x2, x3

(* One infrastructure of two nodes.                                         *)
OneOfTwo == i1 :> {n1, n2}

(* Two infrastructures of one node, asked for together or apart.            *)
TwoOfOne == (i1 :> {n1}) @@ (i2 :> {n2})
Together == c1 :> {i1, i2}
Alone    == c1 :> {i1}

FirstTwice == (x1 :> i1) @@ (x2 :> i1)
Raced      == (x1 :> i1) @@ (x2 :> i2) @@ (x3 :> i1)
=============================================================================
