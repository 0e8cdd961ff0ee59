---------------------------- MODULE AccessControl ----------------------------
(***************************************************************************)
(* The role management every Yield contract inherits, as flattened in      *)
(* src/flat/Join.sol.  `members` and `adminOf` hold the _roles mapping of  *)
(* several contracts at once, so that a module that composes them with     *)
(* other components can speak of permissions across contracts.             *)
(*                                                                         *)
(* An operator takes the contract that is called and the caller; a false   *)
(* guard is a revert.  The batches grantRoles and revokeRoles check the    *)
(* caller again before each role, in the state the roles before it left.   *)
(***************************************************************************)
EXTENDS Integers, Sequences

CONSTANTS
  Contract,    \* contracts that inherit from AccessControl
  Account,     \* everything that can call them
  Role,        \* function selectors, with the two reserved ones below
  ROOT,        \* 0x00000000, the starting admin of every role
  LOCK,        \* 0xFFFFFFFF, a role nobody has
  Deployer     \* who deploys the contracts

ASSUME RoleAssumption == ROOT \in Role /\ LOCK \in Role /\ ROOT # LOCK
ASSUME DeployerAssumption == Deployer \in Account

VARIABLES
  members,     \* contract -> role -> the accounts that have it
  adminOf      \* contract -> role -> the role that may grant and revoke it

acVars == <<members, adminOf>>

(* The constructor: ROOT to the deployer, and LOCK as its own admin.       *)
ACInit ==
  /\ members = [c \in Contract |-> [r \in Role |-> IF r = ROOT THEN {Deployer} ELSE {}]]
  /\ adminOf = [c \in Contract |-> [r \in Role |-> IF r = LOCK THEN LOCK ELSE ROOT]]

HasRole(m, c, r, a) == a \in m[c][r]

(* members once `account` has, or no longer has, all of `permissions`, a   *)
(* set of pairs <<contract, role>>.                                        *)
GrantedTo(permissions, account) ==
  [c \in Contract |-> [r \in Role |->
     IF <<c, r>> \in permissions THEN members[c][r] \cup {account} ELSE members[c][r]]]

RevokedFrom(permissions, account) ==
  [c \in Contract |-> [r \in Role |->
     IF <<c, r>> \in permissions THEN members[c][r] \ {account} ELSE members[c][r]]]

(* The permissions a loop over the sequence s has seen before its i-th.    *)
Before(s, i) == {s[k] : k \in 1..(i - 1)}
All(s) == {s[k] : k \in 1..Len(s)}

GrantRoles(s, account, caller) ==
  /\ \A i \in 1..Len(s) :
       HasRole(GrantedTo(Before(s, i), account), s[i][1], adminOf[s[i][1]][s[i][2]], caller)
  /\ members' = GrantedTo(All(s), account)
  /\ UNCHANGED adminOf

RevokeRoles(s, account, caller) ==
  /\ \A i \in 1..Len(s) :
       HasRole(RevokedFrom(Before(s, i), account), s[i][1], adminOf[s[i][1]][s[i][2]], caller)
  /\ members' = RevokedFrom(All(s), account)
  /\ UNCHANGED adminOf

GrantRole(c, r, account, caller) == GrantRoles(<<<<c, r>>>>, account, caller)
RevokeRole(c, r, account, caller) == RevokeRoles(<<<<c, r>>>>, account, caller)

(* Mutant: any admin may be set by whoever has the role itself.            *)
SetRoleAdmin_ByMember(c, r, adminRole, caller) ==
  /\ HasRole(members, c, adminOf[c][r], caller) \/ HasRole(members, c, r, caller)
  /\ adminOf' = [adminOf EXCEPT ![c][r] = adminRole]
  /\ UNCHANGED members

SetRoleAdmin(c, r, adminRole, caller) ==
  /\ HasRole(members, c, adminOf[c][r], caller)
  /\ adminOf' = [adminOf EXCEPT ![c][r] = adminRole]
  /\ UNCHANGED members

LockRole(c, r, caller) == SetRoleAdmin(c, r, LOCK, caller)

RenounceRole(c, r, caller) ==
  /\ members' = RevokedFrom({<<c, r>>}, caller)
  /\ UNCHANGED adminOf
=============================================================================
