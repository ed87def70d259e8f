-------------------------- MODULE MCMessageContent --------------------------
EXTENDS MessageContent, FiniteSets, TLC

Symmetry == Permutations(Requests) \cup Permutations(Languages) \cup Permutations(Images)

\* Behaviours are followed up to the second thing that goes loose.
MaxLoose == 1
FewLoose == Cardinality(loose) <= MaxLoose
=============================================================================
