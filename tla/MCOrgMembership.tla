-------------------------- MODULE MCOrgMembership --------------------------
(***************************************************************************)
(* The instance of OrgMembership that TLC checks.                          *)
(***************************************************************************)
EXTENDS OrgMembership, TLC

\* Handler slots are interchangeable, so are accounts and tokens.
Symmetry == Permutations(Users) \cup Permutations(Tokens) \cup Permutations(Requests)
=============================================================================
