----------------------------- MODULE MCMessaging -----------------------------
EXTENDS Messaging, TLC

Symmetry == Permutations(Sends)
=============================================================================
