----------------------------- MODULE MCInventory -----------------------------
\* Three claims on one resource with two slots and up to two units.
EXTENDS Inventory, TLC

CONSTANTS c1, c2, c3, r1

MCClaims == {c1, c2, c3}
MCResources == {r1}
MCSlots == 1..2
MCCapacities == 0..2

ClaimSymmetry == Permutations(MCClaims)
=============================================================================
