---------------------------- MODULE FactoryAccess ----------------------------
(***************************************************************************)
(* Who may act in one factory: users with a role and an active flag, and   *)
(* the factory's memberships (services/factory-access.service.js,          *)
(* changeMembership of services/factory-registry.service.js, the user      *)
(* commands of controllers/user.controller.js).                            *)
(*                                                                         *)
(* Every writer of the factory takes the factory's advisory lock, then row *)
(* locks on the users it depends on, and asks again inside the             *)
(* transaction; a user command takes the same row locks exclusively.  So a *)
(* write and a change of access never overlap, and each is one action.     *)
(***************************************************************************)
EXTENDS Naturals, Sequences, FiniteSets

CONSTANTS
  Users,             \* the accounts
  InitialRole,       \* the role of each account when the behaviour starts
  Members,           \* the accounts with an active membership at the start
  DatabaseMode,      \* FACTORY_ACCESS_SOURCE = 'database': memberships may change
  MaxAccessChanges   \* bound: grants, revocations and user updates in a behaviour

Roles == {"ADMIN", "OPERATOR", "ENGINEER", "VIEWER"}

ASSUME AccessAssumption ==
  /\ InitialRole \in [Users -> Roles]
  /\ Members \subseteq Users
  /\ DatabaseMode \in BOOLEAN
  /\ MaxAccessChanges \in Nat

VARIABLES
  role,           \* users.role
  active,         \* users.active
  member,         \* the accounts whose factory_memberships row is active
  accessChanges   \* how many changes were made (only the bound reads it)

accessVars == <<role, active, member, accessChanges>>

AccessTypeOK ==
  /\ role \in [Users -> Roles]
  /\ active \in [Users -> BOOLEAN]
  /\ member \subseteq Users
  /\ accessChanges \in 0..MaxAccessChanges

AccessInit ==
  /\ role = InitialRole
  /\ active = [u \in Users |-> TRUE]
  /\ member = Members
  /\ accessChanges = 0

(* The account is active and has one of the roles. *)
CurrentUser(u, roles) == active[u] /\ role[u] \in roles

(* An administrator reaches every factory, anyone else needs a membership. *)
AuthorizeFactory(u) == active[u] /\ (role[u] = "ADMIN" \/ u \in member)

AuthorizeWrite(u, roles) == CurrentUser(u, roles) /\ AuthorizeFactory(u)

-----------------------------------------------------------------------------
Counted == accessChanges < MaxAccessChanges /\ accessChanges' = accessChanges + 1

(* Grant or revoke; a change that changes nothing is answered and not      *)
(* written.  Only an active user can be granted access, any can lose it.   *)
ChangeMembership(actor, u, grant) ==
  /\ DatabaseMode
  /\ Counted
  /\ CurrentUser(actor, {"ADMIN"})
  /\ grant => active[u]
  /\ (u \in member) # grant
  /\ member' = IF grant THEN member \cup {u} ELSE member \ {u}
  /\ UNCHANGED <<role, active>>

(* An administrator may change any account, his own included. *)
UpdateUser(actor, u, newRole, newActive) ==
  /\ Counted
  /\ CurrentUser(actor, {"ADMIN"})
  /\ role' = [role EXCEPT ![u] = newRole]
  /\ active' = [active EXCEPT ![u] = newActive]
  /\ UNCHANGED member

(* Deletion deactivates, and nobody deletes himself. *)
DeleteUser(actor, u) ==
  /\ Counted
  /\ actor # u
  /\ CurrentUser(actor, {"ADMIN"})
  /\ active' = [active EXCEPT ![u] = FALSE]
  /\ UNCHANGED <<role, member>>

ChangeAccess ==
  \E actor, u \in Users :
    \/ \E grant \in BOOLEAN : ChangeMembership(actor, u, grant)
    \/ \E r \in Roles, a \in BOOLEAN : UpdateUser(actor, u, r, a)
    \/ DeleteUser(actor, u)
=============================================================================
