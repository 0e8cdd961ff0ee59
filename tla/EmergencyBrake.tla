--------------------------- MODULE EmergencyBrake ---------------------------
(***************************************************************************)
(* src/contracts/OldEmergencyBrake.sol: plans that take a target's         *)
(* permissions away in one transaction, and give them back.  It acts on    *)
(* the AccessControl of the contracts that granted it ROOT, while          *)
(* governance keeps granting, revoking and locking roles there.            *)
(*                                                                         *)
(* The accounts with the planner's and the executor's roles may call at    *)
(* any time and with any plan: the properties hold even when both are in   *)
(* the wrong hands.                                                        *)
(***************************************************************************)
EXTENDS AccessControl, FiniteSets

CONSTANTS
  Brake,       \* the EmergencyBrake
  Plans,       \* plans: [target: Account, permissions: Seq(Contract \X Role)]
  Batches,     \* the batches of permissions governance grants or revokes
  Grantees,    \* the accounts it grants them to
  Admins       \* the roles it may make admin of another

ASSUME BrakeAssumption == Brake \in Account /\ Brake # Deployer
ASSUME PlanAssumption ==
  /\ Plans \subseteq [target: Account, permissions: Seq(Contract \X Role)]
  /\ Batches \subseteq Seq(Contract \X Role)
  /\ Grantees \subseteq Account
  /\ Admins \subseteq Role

VARIABLES
  plans,       \* plan -> State.  The code keys plans by the hash of the plan
  granted,     \* history: the permissions somebody but the Brake ever gave
  regranted    \* history: those given while an executed plan took them away

vars == <<acVars, plans, granted, regranted>>

State == {"UNPLANNED", "PLANNED", "EXECUTED"}

Permission == Contract \X Role \X Account
Held == {p \in Permission : HasRole(members, p[1], p[2], p[3])}

(* What a plan takes from its target.                                      *)
Takes(p) == {<<x[1], x[2], p.target>> : x \in All(p.permissions)}
Taken == UNION {Takes(p) : p \in {q \in Plans : plans[q] = "EXECUTED"}}

Init ==
  /\ ACInit
  /\ plans = [p \in Plans |-> "UNPLANNED"]
  /\ granted = Held
  /\ regranted = {}

-----------------------------------------------------------------------------
(* Mutant: ROOT is not out of bounds.                                      *)
Plan_AnyRole(p) ==
  /\ plans[p] = "UNPLANNED"
  /\ plans' = [plans EXCEPT ![p] = "PLANNED"]
  /\ UNCHANGED <<acVars, granted, regranted>>

(* Mutant: the loop stops before the last permission.                      *)
Plan_ButLast(p) ==
  /\ plans[p] = "UNPLANNED"
  /\ \A i \in 1..(Len(p.permissions) - 1) : p.permissions[i][2] # ROOT
  /\ plans' = [plans EXCEPT ![p] = "PLANNED"]
  /\ UNCHANGED <<acVars, granted, regranted>>

Plan(p) ==
  /\ plans[p] = "UNPLANNED"
  /\ \A x \in All(p.permissions) : x[2] # ROOT
  /\ plans' = [plans EXCEPT ![p] = "PLANNED"]
  /\ UNCHANGED <<acVars, granted, regranted>>

Cancel(p) ==
  /\ plans[p] = "PLANNED"
  /\ plans' = [plans EXCEPT ![p] = "UNPLANNED"]
  /\ UNCHANGED <<acVars, granted, regranted>>

(* Mutant: permissions that are not there are skipped over.                *)
Execute_Unchecked(p) ==
  /\ plans[p] = "PLANNED"
  /\ plans' = [plans EXCEPT ![p] = "EXECUTED"]
  /\ RevokeRoles(p.permissions, p.target, Brake)
  /\ UNCHANGED <<granted, regranted>>

(* Every permission must still be there when the loop reaches it, and the  *)
(* Brake must be allowed to revoke it.                                     *)
Execute(p) ==
  LET s == p.permissions IN
  /\ plans[p] = "PLANNED"
  /\ plans' = [plans EXCEPT ![p] = "EXECUTED"]
  /\ \A i \in 1..Len(s) :
       HasRole(RevokedFrom(Before(s, i), p.target), s[i][1], s[i][2], p.target)
  /\ RevokeRoles(s, p.target, Brake)
  /\ UNCHANGED <<granted, regranted>>

(* Mutant: the plan can be restored again and again.                       *)
Restore_KeepsState(p) ==
  /\ plans[p] \in {"PLANNED", "EXECUTED"}
  /\ GrantRoles(p.permissions, p.target, Brake)
  /\ UNCHANGED <<plans, granted, regranted>>

Restore(p) ==
  /\ plans[p] = "EXECUTED"
  /\ plans' = [plans EXCEPT ![p] = "PLANNED"]
  /\ GrantRoles(p.permissions, p.target, Brake)
  /\ UNCHANGED <<granted, regranted>>

Terminate(p) ==
  /\ plans[p] = "EXECUTED"
  /\ plans' = [plans EXCEPT ![p] = "UNPLANNED"]
  /\ UNCHANGED <<acVars, granted, regranted>>

-----------------------------------------------------------------------------
(* Governance and everybody else with a role, on the same contracts.       *)

Others ==
  /\ \E caller \in Account \ {Brake} :
       \/ \E s \in Batches, account \in Grantees :
            \/ /\ GrantRoles(s, account, caller)
               /\ LET given == {<<x[1], x[2], account>> : x \in All(s)} IN
                  /\ granted' = granted \cup given
                  /\ regranted' = regranted \cup (given \cap Taken)
            \/ /\ RevokeRoles(s, account, caller)
               /\ UNCHANGED <<granted, regranted>>
       \/ /\ \E c \in Contract, r \in Role :
               \/ \E adminRole \in Admins : SetRoleAdmin(c, r, adminRole, caller)
               \/ LockRole(c, r, caller)
               \/ RenounceRole(c, r, caller)
          /\ UNCHANGED <<granted, regranted>>
  /\ UNCHANGED plans

BrakeStep(p) == Plan(p) \/ Cancel(p) \/ Execute(p) \/ Restore(p) \/ Terminate(p)

Next == (\E p \in Plans : BrakeStep(p)) \/ Others

Spec == Init /\ [][Next]_vars

-----------------------------------------------------------------------------
(* Properties.                                                             *)

(* Every variable has its type, and the plans that are on record are those *)
(* that may be executed: "removing or granting ROOT permissions is out of  *)
(* bounds", at whatever place of the plan.                                 *)
PlansWithoutRoot ==
  \A p \in Plans :
    plans[p] # "UNPLANNED" => \A x \in All(p.permissions) : x[2] # ROOT

TypeOK ==
  /\ PlansWithoutRoot
  /\ members \in [Contract -> [Role -> SUBSET Account]]
  /\ adminOf \in [Contract -> [Role -> Role]]
  /\ plans \in [Plans -> State]
  /\ granted \subseteq Permission
  /\ regranted \subseteq Permission

(* "EmergencyBrake cannot grant permissions that weren't there in the      *)
(* first place": nobody ever has a permission that was not given to him by *)
(* somebody other than the Brake, in whatever order plans are made,        *)
(* executed, restored and terminated while governance grants and revokes.  *)
NoNewPermissions == Held \subseteq granted

(* A target stays without what an executed plan took away, until the plan  *)
(* is restored or terminated or governance itself gives it again; another  *)
(* plan over the same permissions cannot undo the isolation.               *)
ExecutedPlanIsolates ==
  \A p \in Plans : plans[p] = "EXECUTED" => Takes(p) \cap Held \subseteq regranted

(* Two plans are never executed over the same permission, so that the      *)
(* restoration of one cannot end the isolation of the other, unless        *)
(* governance gave the permission again in between.                        *)
ExecutedPlansAreDisjoint ==
  \A p, q \in Plans :
    /\ plans[p] = "EXECUTED" /\ plans[q] = "EXECUTED" /\ p # q
    => Takes(p) \cap Takes(q) \subseteq regranted

(* "EmergencyBrake cannot revoke or grant ROOT roles".                     *)
RootHolders == [c \in Contract |-> members[c][ROOT]]
BrakeLeavesRoot == [][(\E p \in Plans : BrakeStep(p)) => UNCHANGED RootHolders]_vars

(* "Calling setRoleAdmin(msg.sig, LOCK) means no one can grant that        *)
(* msg.sig role anymore": not governance, and not a plan that was executed *)
(* before the role was locked and is restored after.                       *)
LockIsForever ==
  [][\A c \in Contract, r \in Role :
       adminOf[c][r] = LOCK =>
         /\ adminOf'[c][r] = LOCK
         /\ members'[c][r] \subseteq members[c][r]]_vars
=============================================================================
