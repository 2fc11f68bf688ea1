-------------------------- MODULE MCCapacityGate --------------------------
EXTENDS CapacityGate, TLC

CONSTANTS n1, n2, h1, h2, c1, c2

MCTier == (n1 :> 1) @@ (n2 :> 1) @@ (h1 :> 2) @@ (h2 :> 2) @@ (c1 :> 3) @@ (c2 :> 3)
MCCapacity == <<1, 2, 3>>
=============================================================================
