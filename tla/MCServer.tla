------------------------------ MODULE MCServer ------------------------------
(***************************************************************************)
(* What the platform keeps of its users and what it keeps of things        *)
(* elsewhere, in one instance: a behaviour moves one half and the other    *)
(* rests, so it is a behaviour of AccountsSpec and of PlatformSpec both.   *)
(* The half that rests starts in one of its initial states.                *)
(***************************************************************************)
EXTENDS MCAccounts, MCPlatform

VARIABLE half

serverVars == <<half, accountsVars, platformVars>>

ServerInit ==
    /\ half \in {"accounts", "platform"}
    /\ AccountsInit /\ PlatformInit
    /\ half = "accounts" => piece = "process"
    /\ half = "platform" => part = "survey"

\* Sign-ins and files are followed up to the step that excuses them for good: what
\* comes after it breaks no property of theirs.
ServerNext ==
    \/ half = "accounts" /\ ~excused /\ AccountsNext /\ UNCHANGED <<half, platformVars>>
    \/ half = "platform" /\ ~clumsy /\ PlatformNext /\ UNCHANGED <<half, accountsVars>>

ServerSpec ==
    ServerInit /\ [][ServerNext]_serverVars /\ W!Fairness /\ P!Fairness
=============================================================================
