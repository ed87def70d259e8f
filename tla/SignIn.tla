------------------------------- MODULE SignIn -------------------------------
(***************************************************************************)
(* Sign-in through Google and Apple (routes/auth.ts), with the platform    *)
(* ban, the session check, onboarding and account deletion.                *)
(*                                                                         *)
(* One person holds one identity at each provider, both on the same        *)
(* address.  An account is a users row and, by a second insert, its        *)
(* profile, which holds the ids of the providers.  Apple tells the address *)
(* only at the first sign-in, or never; the account then stands under a    *)
(* relay address.  Accounts are numbered as they are made.                 *)
(***************************************************************************)
EXTENDS Naturals

CONSTANTS
    Logins,       \* slots of sign-in requests in flight
    MaxAccounts   \* bound on the accounts of a behaviour

Provider == {"google", "apple"}
Accounts == 1..MaxAccounts

VARIABLES
    account,   \* users joined with user_profiles
    login,     \* the sign-in request in each slot
    erasing,   \* accounts with a deletion past its session check
    gone,      \* accounts deleted
    told,      \* history: the accounts there are each identity was given a session of
    barred,    \* history: identities on the profile of an account at its ban
    excused    \* history: a sign-in wrote no profile, or died before it did

signInVars == <<account, login, erasing, gone, told, barred, excused>>

\* No address: no row, not yet or no longer.
Row == [email : {"none", "mail", "relay"}, profile : BOOLEAN, holds : SUBSET Provider,
        banned : BOOLEAN]
NoRow == [email |-> "none", profile |-> FALSE, holds |-> {}, banned |-> FALSE]

Login == [by : Provider, mailed : BOOLEAN, user : Accounts \cup {0},
          pc : {"idle", "lookup", "email", "link", "reread", "insert", "profile",
                "fresh", "answer"}]
NoLogin == [by |-> "google", mailed |-> FALSE, user |-> 0, pc |-> "idle"]

Exists(a) == account[a].email # "none"
Made == {a \in Accounts : Exists(a)}

TypeOK ==
    /\ account \in [Accounts -> Row]
    /\ \A a \in Accounts : account[a].holds # {} => account[a].profile
    /\ login \in [Logins -> Login]
    /\ erasing \subseteq Accounts /\ gone \subseteq Accounts \ Made
    /\ told \in [Provider -> SUBSET Accounts]
    /\ barred \subseteq Provider
    /\ excused \in BOOLEAN
    /\ \A a, b \in Made : account[a].email = account[b].email => a = b
    /\ \A a, b \in Made : account[a].holds \cap account[b].holds # {} => a = b

Init ==
    /\ account = [a \in Accounts |-> NoRow]
    /\ login = [l \in Logins |-> NoLogin]
    /\ erasing = {} /\ gone = {}
    /\ told = [p \in Provider |-> {}]
    /\ barred = {}
    /\ excused = FALSE

-----------------------------------------------------------------------------
(* POST /auth/google and /auth/apple *)

Goto(l, pc) == login' = [login EXCEPT ![l].pc = pc]
\* Refused, or failed: 4xx or 500.
Refuse(l) == login' = [login EXCEPT ![l] = NoLogin]

Outside == <<erasing, gone, told, barred>>

\* The token is verified; Apple's may come without an address.
Arrive(l, p, mailed) ==
    /\ login[l].pc = "idle"
    /\ p = "google" => mailed
    /\ login' = [login EXCEPT ![l] = [NoLogin EXCEPT !.by = p, !.mailed = mailed,
                                                     !.pc = "lookup"]]
    /\ UNCHANGED <<account, excused, Outside>>

\* The joined row is read, and its ban with it: a banned account is refused.
Admit(l, a) ==
    IF account[a].banned
    THEN Refuse(l)
    ELSE login' = [login EXCEPT ![l].user = a, ![l].pc = "answer"]

LookUp(l) ==
    /\ login[l].pc = "lookup"
    /\ \/ \E a \in Made : login[l].by \in account[a].holds /\ Admit(l, a)
       \/ /\ \A a \in Made : login[l].by \notin account[a].holds
          /\ Goto(l, IF login[l].mailed THEN "email" ELSE "insert")
    /\ UNCHANGED <<account, excused, Outside>>

FindByEmail(l) ==
    /\ login[l].pc = "email"
    /\ \/ \E a \in Made :
            /\ account[a].email = "mail"
            /\ login' = [login EXCEPT ![l].user = a, ![l].pc = "link"]
       \/ /\ \A a \in Made : account[a].email # "mail"
          /\ Goto(l, "insert")
    /\ UNCHANGED <<account, excused, Outside>>

\* Mutant: the identities are not unique.
HeldNowhere(l, a) == FALSE

\* Whether another profile holds the identity: its column is unique.
HeldElsewhere(l, a) == \E b \in Made \ {a} : login[l].by \in account[b].holds

\* Mutant: the session is given, the identity not linked.
LinkNothing(l) ==
    /\ login[l].pc = "link"
    /\ Goto(l, "reread")
    /\ UNCHANGED <<account, excused, Outside>>

\* The update touches no row when the profile is not there.
Link(l) ==
    LET a == login[l].user IN
    /\ login[l].pc = "link"
    /\ IF account[a].profile /\ HeldElsewhere(l, a)
       THEN Refuse(l) /\ UNCHANGED account
       ELSE /\ account' = IF account[a].profile
                          THEN [account EXCEPT ![a].holds = @ \cup {login[l].by}]
                          ELSE account
            /\ Goto(l, "reread")
    /\ excused' = (excused \/ (Exists(a) /\ ~account[a].profile))
    /\ UNCHANGED Outside

\* The account may be gone: Google fails, Apple goes on to make a new one.
Reread(l) ==
    LET a == login[l].user IN
    /\ login[l].pc = "reread"
    /\ CASE Exists(a) -> Admit(l, a)
         [] ~Exists(a) /\ login[l].by = "google" -> Refuse(l)
         [] ~Exists(a) /\ login[l].by = "apple" -> Goto(l, "insert")
    /\ UNCHANGED <<account, excused, Outside>>

\* The address is unique: an account made meanwhile, or left without a profile
\* under a relay address, fails the insert.
InsertUser(l) ==
    LET email == IF login[l].mailed THEN "mail" ELSE "relay" IN
    /\ login[l].pc = "insert"
    /\ IF \E a \in Made : account[a].email = email
       THEN Refuse(l) /\ UNCHANGED account
       ELSE \E a \in Accounts \ (Made \cup gone) :
              /\ \A b \in 1..(a - 1) : b \in Made \cup gone
              /\ account' = [account EXCEPT ![a] = [NoRow EXCEPT !.email = email]]
              /\ login' = [login EXCEPT ![l].user = a, ![l].pc = "profile"]
    /\ UNCHANGED <<excused, Outside>>

\* A skeleton profile, unless there is one or another holds the identity.
InsertProfile(l) ==
    LET a == login[l].user IN
    /\ login[l].pc = "profile"
    /\ IF ~Exists(a)
       THEN Refuse(l) /\ UNCHANGED account
       ELSE /\ account' = IF account[a].profile \/ HeldElsewhere(l, a)
                          THEN account
                          ELSE [account EXCEPT ![a].profile = TRUE,
                                               ![a].holds = {login[l].by}]
            /\ Goto(l, "fresh")
    /\ excused' = (excused \/ (Exists(a) /\ (account[a].profile \/ HeldElsewhere(l, a))))
    /\ UNCHANGED Outside

\* A row gone by now is answered from the insert, which was not banned.
ReadFresh(l) ==
    LET a == login[l].user IN
    /\ login[l].pc = "fresh"
    /\ IF Exists(a) THEN Admit(l, a) ELSE Goto(l, "answer")
    /\ UNCHANGED <<account, excused, Outside>>

Answer(l) ==
    /\ login[l].pc = "answer"
    /\ told' = [told EXCEPT ![login[l].by] = @ \cup ({login[l].user} \cap Made)]
    /\ login' = [login EXCEPT ![l] = NoLogin]
    /\ UNCHANGED <<account, erasing, gone, barred, excused>>

-----------------------------------------------------------------------------
(* Under a session, and beside it *)

\* requireAuth: the session's account is there and not banned.
Authed(a) == (\E p \in Provider : a \in told[p]) /\ Exists(a) /\ ~account[a].banned

\* Onboarding upserts the profile: one that was missing comes without ids.
Onboard(a) ==
    /\ Authed(a)
    /\ ~account[a].profile
    /\ account' = [account EXCEPT ![a].profile = TRUE]
    /\ UNCHANGED <<login, excused, Outside>>

\* DELETE /auth/account: the check, then the delete, which asks no more.
EraseGate(a) ==
    /\ Authed(a)
    /\ a \notin erasing
    /\ erasing' = erasing \cup {a}
    /\ UNCHANGED <<account, login, gone, told, barred, excused>>

\* A deletion let through before the ban frees the identities it kept.
Erase(a) ==
    /\ a \in erasing
    /\ erasing' = erasing \ {a}
    /\ account' = [account EXCEPT ![a] = NoRow]
    /\ told' = [p \in Provider |-> told[p] \ {a}]
    /\ gone' = gone \cup {a}
    /\ barred' = IF account[a].banned THEN barred \ account[a].holds ELSE barred
    /\ UNCHANGED <<login, excused>>

\* Mutant: a ban deletes the account.
BanErases(a) ==
    /\ Exists(a)
    /\ account' = [account EXCEPT ![a] = NoRow]
    /\ told' = [p \in Provider |-> told[p] \ {a}]
    /\ gone' = gone \cup {a}
    /\ barred' = barred \cup account[a].holds
    /\ UNCHANGED <<login, erasing, excused>>

\* POST /admin/users/ban and /unban.
Ban(a) ==
    /\ Exists(a) /\ ~account[a].banned
    /\ account' = [account EXCEPT ![a].banned = TRUE]
    /\ barred' = barred \cup account[a].holds
    /\ UNCHANGED <<login, erasing, gone, told, excused>>

Unban(a) ==
    /\ Exists(a) /\ account[a].banned
    /\ account' = [account EXCEPT ![a].banned = FALSE]
    /\ barred' = barred \ account[a].holds
    /\ UNCHANGED <<login, erasing, gone, told, excused>>

\* The process stops: what it was doing is not done.
Die ==
    /\ \E l \in Logins : login[l].pc # "idle"
    /\ login' = [l \in Logins |-> NoLogin]
    /\ erasing' = {}
    /\ excused' = (excused \/ \E l \in Logins : login[l].pc = "profile")
    /\ UNCHANGED <<account, gone, told, barred>>

Next ==
    \/ \E l \in Logins :
         \/ \E p \in Provider, mailed \in BOOLEAN : Arrive(l, p, mailed)
         \/ LookUp(l) \/ FindByEmail(l) \/ Link(l) \/ Reread(l)
         \/ InsertUser(l) \/ InsertProfile(l) \/ ReadFresh(l) \/ Answer(l)
    \/ \E a \in Accounts : Onboard(a) \/ EraseGate(a) \/ Erase(a) \/ Ban(a) \/ Unban(a)
    \/ Die

-----------------------------------------------------------------------------
(* Properties *)

\* An identity leads to one account, whatever its provider tells of the address,
\* and every account a sign-in leaves behind has its profile; unless one died
\* between its two inserts, or another met the account between them.
OneAccount ==
    excused \/
    /\ \A p \in Provider, a, b \in Made : {a, b} \subseteq told[p] => a = b
    /\ \A a \in Made :
         account[a].profile \/ \E l \in Logins : login[l].user = a /\ login[l].pc = "profile"

\* The identities of a banned account open no account that is let in, for as
\* long as the ban stands; unless one wrote no profile.
BanHolds ==
    excused \/ \A p \in barred, a \in Made : a \in told[p] => account[a].banned
=============================================================================
