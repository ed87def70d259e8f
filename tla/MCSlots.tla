------------------------------- MODULE MCSlots -------------------------------
(***************************************************************************)
(* The handlers in flight and the small set of values that MCAccounts and  *)
(* MCPlatform give to the components they put side by side.                *)
(***************************************************************************)
CONSTANTS Slots, One, Options
=============================================================================
