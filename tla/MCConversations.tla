-------------------------- MODULE MCConversations --------------------------
(***************************************************************************)
(* Three sides of conversations in one instance: who belongs to a group,   *)
(* which links lead to it, and what its members were told is delivered     *)
(* and read.  They share no state, so a behaviour moves one side and the   *)
(* others rest: what holds of it holds of each.                            *)
(***************************************************************************)
EXTENDS GroupMembership, GroupSlugs, Receipts, TLC

VARIABLE side

conversationsVars == <<side, vars, slugsVars, receiptsVars>>

\* A side that rests does so in one initial state: only the owner's tier is free.
ConversationsInit ==
    /\ side \in {"members", "links", "receipts"}
    /\ Init /\ SlugsInit /\ ReceiptsInit
    /\ premium => side = "members"

ConversationsNext ==
    \/ side = "members"  /\ Next         /\ UNCHANGED <<side, slugsVars, receiptsVars>>
    \/ side = "links"    /\ SlugsNext    /\ UNCHANGED <<side, vars, receiptsVars>>
    \/ side = "receipts" /\ ReceiptsNext /\ UNCHANGED <<side, vars, slugsVars>>

ConversationsSpec == ConversationsInit /\ [][ConversationsNext]_conversationsVars

\* Accounts and handler slots are interchangeable.  The sides share model values, so
\* that two permutations serve all three: the sends of Receipts are called as the
\* requests of GroupMembership, its connections as the calls of GroupSlugs and as
\* two of the accounts.
Symmetry == Permutations(Requests) \cup Permutations(Connections)
=============================================================================
