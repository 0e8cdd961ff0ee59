------------------------ MODULE EmergencyBrakeProofs ------------------------
(***************************************************************************)
(* Proofs about EmergencyBrake, for every set of contracts, roles, plans   *)
(* and batches.  The invariant IInv adds to the properties the run checks  *)
(* what makes them inductive: what an executed plan took had been granted, *)
(* and nobody has LOCK.                                                    *)
(***************************************************************************)
EXTENDS EmergencyBrake, WellFoundedInduction, TLAPS

TakenWereGranted == Taken \subseteq granted

LocksAreEmpty ==
  \A c \in Contract : members[c][LOCK] = {} /\ adminOf[c][LOCK] = LOCK

IInv ==
  /\ TypeOK
  /\ NoNewPermissions
  /\ TakenWereGranted
  /\ ExecutedPlanIsolates
  /\ ExecutedPlansAreDisjoint
  /\ LocksAreEmpty

(* The permissions of a batch, as held by one account.                     *)
OfAccount(P, account) == {<<x[1], x[2], account>> : x \in P}

-----------------------------------------------------------------------------
(* Batches of permissions, and the sets they stand for.                    *)

(* Every non-empty set of naturals has a least element: induction over the *)
(* positions of a batch rests on it.                                       *)
LEMMA LeastOf ==
  ASSUME NEW T, T \subseteq Nat, T # {}
  PROVE  \E x \in T : \A y \in T : x <= y
<1> DEFINE R == {p \in Nat \X Nat : p[1] < p[2]}
<1>1. IsWellFoundedOn(R, Nat)
  BY NatLessThanWellFounded DEF OpToRel
<1>2. \E x \in T : \A y \in T : ~ (<<y, x>> \in R)
  <2> HIDE DEF R
  <2> QED BY <1>1, WFMin
<1>3. PICK x \in T : \A y \in T : ~ (<<y, x>> \in R)
  BY <1>2
<1>4. ASSUME NEW y \in T PROVE x <= y
  <2>1. y \in Nat /\ x \in Nat
    OBVIOUS
  <2>2. ~(y < x)
    BY <1>3, <2>1
  <2> QED BY <2>1, <2>2
<1> QED BY <1>4

(* The elements of a batch are permissions, those before a position too.   *)
LEMMA BatchElements ==
  ASSUME NEW s \in Seq(Contract \X Role)
  PROVE  /\ All(s) \subseteq Contract \X Role
         /\ \A i \in 1..Len(s) : s[i] \in Contract \X Role
         /\ \A i \in 1..Len(s) : Before(s, i) \subseteq Contract \X Role
<1>1. \A i \in 1..Len(s) : s[i] \in Contract \X Role
  OBVIOUS
<1>2. \A i \in 1..Len(s) : \A k \in 1..(i - 1) : k \in 1..Len(s)
  OBVIOUS
<1> QED BY <1>1, <1>2 DEF All, Before

(* What granting a set of permissions does to the permissions held.        *)
LEMMA GrantAddsPermissions ==
  ASSUME TypeOK, NEW P, P \subseteq Contract \X Role, NEW account \in Account,
         members' = GrantedTo(P, account)
  PROVE  /\ members' \in [Contract -> [Role -> SUBSET Account]]
         /\ Held' = Held \cup OfAccount(P, account)
         /\ OfAccount(P, account) \subseteq Permission
<1>1. members' \in [Contract -> [Role -> SUBSET Account]]
  BY DEF TypeOK, GrantedTo
<1>2. OfAccount(P, account) \subseteq Permission
  BY DEF OfAccount, Permission
<1>3. ASSUME NEW c \in Contract, NEW r \in Role, NEW a \in Account
      PROVE  a \in members'[c][r] <=>
               a \in members[c][r] \/ (a = account /\ <<c, r>> \in P)
  BY DEF TypeOK, GrantedTo
<1>4. ASSUME NEW c \in Contract, NEW r \in Role, NEW a \in Account
      PROVE  <<c, r, a>> \in OfAccount(P, account) <=> a = account /\ <<c, r>> \in P
  BY DEF OfAccount
<1>5. ASSUME NEW p \in Permission
      PROVE  p \in Held' <=> p \in Held \/ p \in OfAccount(P, account)
  <2>1. PICK c \in Contract, r \in Role, a \in Account : p = <<c, r, a>>
    BY DEF Permission
  <2>2. /\ p \in Held <=> a \in members[c][r]
        /\ p \in Held' <=> a \in members'[c][r]
    BY <2>1 DEF Held, HasRole
  <2> QED BY <2>1, <2>2, <1>3, <1>4
<1>6. Held \subseteq Permission /\ Held' \subseteq Permission
  BY DEF Held, Permission
<1> QED BY <1>1, <1>2, <1>5, <1>6

(* What revoking a set of permissions does to the permissions held.        *)
LEMMA RevokeRemovesPermissions ==
  ASSUME TypeOK, NEW P, P \subseteq Contract \X Role, NEW account \in Account,
         members' = RevokedFrom(P, account)
  PROVE  /\ members' \in [Contract -> [Role -> SUBSET Account]]
         /\ Held' = Held \ OfAccount(P, account)
         /\ \A c \in Contract, r \in Role : members'[c][r] \subseteq members[c][r]
<1>1. members' \in [Contract -> [Role -> SUBSET Account]]
  BY DEF TypeOK, RevokedFrom
<1>3. ASSUME NEW c \in Contract, NEW r \in Role, NEW a \in Account
      PROVE  a \in members'[c][r] <=>
               a \in members[c][r] /\ ~(a = account /\ <<c, r>> \in P)
  BY DEF TypeOK, RevokedFrom
<1>4. ASSUME NEW c \in Contract, NEW r \in Role, NEW a \in Account
      PROVE  <<c, r, a>> \in OfAccount(P, account) <=> a = account /\ <<c, r>> \in P
  BY DEF OfAccount
<1>5. ASSUME NEW p \in Permission
      PROVE  p \in Held' <=> p \in Held /\ p \notin OfAccount(P, account)
  <2>1. PICK c \in Contract, r \in Role, a \in Account : p = <<c, r, a>>
    BY DEF Permission
  <2>2. /\ p \in Held <=> a \in members[c][r]
        /\ p \in Held' <=> a \in members'[c][r]
    BY <2>1 DEF Held, HasRole
  <2> QED BY <2>1, <2>2, <1>3, <1>4
<1>6. Held \subseteq Permission /\ Held' \subseteq Permission
  BY DEF Held, Permission
<1>7. \A c \in Contract, r \in Role : members'[c][r] \subseteq members[c][r]
  BY <1>1, <1>3
<1> QED BY <1>1, <1>5, <1>6, <1>7

(* A batch never gives a role whose admin is LOCK: the first one that did  *)
(* would need a caller with LOCK, and LOCK itself is such a role.          *)
LEMMA LockedRolesAreNotGranted ==
  ASSUME TypeOK, LocksAreEmpty,
         NEW s \in Seq(Contract \X Role), NEW account \in Account, NEW caller \in Account,
         GrantRoles(s, account, caller)
  PROVE  \A x \in All(s) : adminOf[x[1]][x[2]] # LOCK
<1> DEFINE Locked == {i \in 1..Len(s) : adminOf[s[i][1]][s[i][2]] = LOCK}
<1>1. SUFFICES ASSUME Locked # {} PROVE FALSE
  BY DEF All
<1>2. PICK i \in Locked : \A k \in Locked : i <= k
  <2>1. Locked \subseteq Nat
    OBVIOUS
  <2> HIDE DEF Locked
  <2> QED BY <1>1, <2>1, LeastOf
<1>3. PICK c \in Contract, r \in Role : s[i] = <<c, r>>
  BY BatchElements
<1>4. caller \in GrantedTo(Before(s, i), account)[c][LOCK]
  BY <1>2, <1>3 DEF GrantRoles, HasRole
<1>5. <<c, LOCK>> \in Before(s, i)
  BY <1>4, RoleAssumption DEF GrantedTo, LocksAreEmpty
<1>6. PICK k \in 1..(i - 1) : s[k] = <<c, LOCK>>
  BY <1>5 DEF Before
<1>7. k \in Locked
  BY <1>6 DEF LocksAreEmpty
<1> QED BY <1>2, <1>7

-----------------------------------------------------------------------------
(* What each operation of the Brake needs and does.                        *)

(* A plan's target and permissions have their types.                       *)
LEMMA PlanType ==
  ASSUME NEW p \in Plans
  PROVE  /\ p.target \in Account
         /\ p.permissions \in Seq(Contract \X Role)
         /\ All(p.permissions) \subseteq Contract \X Role
         /\ Takes(p) = OfAccount(All(p.permissions), p.target)
<1>1. p.target \in Account /\ p.permissions \in Seq(Contract \X Role)
  BY PlanAssumption
<1>2. All(p.permissions) \subseteq Contract \X Role
  BY <1>1, BatchElements
<1> QED BY <1>1, <1>2 DEF Takes, OfAccount

(* A plan that is executed finds all its permissions in place.             *)
LEMMA ExecuteFindsPermissions ==
  ASSUME TypeOK, NEW p \in Plans, Execute(p)
  PROVE  Takes(p) \subseteq Held
<1> DEFINE s == p.permissions
<1>1. ASSUME NEW x \in All(s) PROVE <<x[1], x[2], p.target>> \in Held
  <2>1. PICK i \in 1..Len(s) : x = s[i]
    BY DEF All
  <2>2. PICK c \in Contract, r \in Role : x = <<c, r>>
    BY PlanType
  <2>3. p.target \in RevokedFrom(Before(s, i), p.target)[c][r]
    <3>1. HasRole(RevokedFrom(Before(s, i), p.target), s[i][1], s[i][2], p.target)
      BY DEF Execute
    <3>2. s[i][1] = c /\ s[i][2] = r
      BY <2>1, <2>2
    <3> QED BY <3>1, <3>2 DEF HasRole
  <2>4. p.target \in members[c][r]
    BY <2>3 DEF RevokedFrom
  <2> QED BY <2>2, <2>4, PlanType DEF Held, Permission, HasRole
<1> QED BY <1>1 DEF Takes

(* Taken follows the state of the plans.                                   *)
LEMMA TakenMembers ==
  \A x : x \in Taken <=> \E q \in Plans : plans[q] = "EXECUTED" /\ x \in Takes(q)
BY DEF Taken

-----------------------------------------------------------------------------
(* The initial state.                                                      *)
LEMMA InitInv == Init => IInv
<1> SUFFICES ASSUME Init PROVE IInv
  OBVIOUS
<1> USE DEF Init, ACInit
<1>1. TypeOK
  <2>1. members \in [Contract -> [Role -> SUBSET Account]]
    BY DeployerAssumption
  <2>2. adminOf \in [Contract -> [Role -> Role]]
    BY RoleAssumption
  <2>3. granted \subseteq Permission /\ regranted \subseteq Permission
    BY DEF Held, Permission
  <2>4. PlansWithoutRoot
    BY DEF PlansWithoutRoot
  <2> QED BY <2>1, <2>2, <2>3, <2>4 DEF TypeOK, State
<1>2. NoNewPermissions
  BY DEF NoNewPermissions
<1>3. \A p \in Plans : plans[p] # "EXECUTED" /\ plans[p] = "UNPLANNED"
  OBVIOUS
<1>4. TakenWereGranted
  BY <1>3, TakenMembers DEF TakenWereGranted
<1>5. ExecutedPlanIsolates /\ ExecutedPlansAreDisjoint
  BY <1>3 DEF ExecutedPlanIsolates, ExecutedPlansAreDisjoint
<1>6. LocksAreEmpty
  BY RoleAssumption DEF LocksAreEmpty
<1> QED BY <1>1, <1>2, <1>4, <1>5, <1>6 DEF IInv

(* Plan, Cancel and Terminate: the plan is not executed afterwards, and    *)
(* no permission changes.                                                  *)
LEMMA PlanningKeepsInv ==
  ASSUME IInv, NEW p \in Plans, Plan(p) \/ Cancel(p) \/ Terminate(p)
  PROVE  IInv'
<1> USE DEF IInv
<1>1. /\ UNCHANGED <<members, adminOf, granted, regranted>>
      /\ plans' = [plans EXCEPT ![p] = "PLANNED"] \/ plans' = [plans EXCEPT ![p] = "UNPLANNED"]
  BY DEF Plan, Cancel, Terminate, acVars
<1>2. TypeOK'
  <2>1. PlansWithoutRoot'
    BY <1>1 DEF PlansWithoutRoot, TypeOK, Plan, Cancel, Terminate
  <2> QED BY <1>1, <2>1 DEF TypeOK, Permission, State
<1>3. \A q \in Plans : plans'[q] = "EXECUTED" => plans[q] = "EXECUTED"
  BY <1>1 DEF TypeOK
<1>4. Held' = Held
  BY <1>1 DEF Held, HasRole
<1>5. NoNewPermissions'
  BY <1>1, <1>4 DEF NoNewPermissions
<1>6. Taken' \subseteq Taken
  BY <1>3 DEF Taken
<1>7. TakenWereGranted'
  BY <1>1, <1>6 DEF TakenWereGranted
<1>8. ExecutedPlanIsolates' /\ ExecutedPlansAreDisjoint'
  BY <1>1, <1>3, <1>4 DEF ExecutedPlanIsolates, ExecutedPlansAreDisjoint
<1>9. LocksAreEmpty'
  BY <1>1 DEF LocksAreEmpty
<1> QED BY <1>2, <1>5, <1>7, <1>8, <1>9

(* Execute: the permissions of the plan were held, so they overlap those   *)
(* of another executed plan only where they were given again.              *)
LEMMA ExecuteKeepsInv ==
  ASSUME IInv, NEW p \in Plans, Execute(p)
  PROVE  IInv'
<1> USE DEF IInv
<1>1. /\ UNCHANGED <<adminOf, granted, regranted>>
      /\ plans[p] = "PLANNED"
      /\ plans' = [plans EXCEPT ![p] = "EXECUTED"]
      /\ members' = RevokedFrom(All(p.permissions), p.target)
  BY DEF Execute, RevokeRoles
<1>2. /\ members' \in [Contract -> [Role -> SUBSET Account]]
      /\ Held' = Held \ Takes(p)
      /\ \A c \in Contract, r \in Role : members'[c][r] \subseteq members[c][r]
  BY <1>1, PlanType, RevokeRemovesPermissions
<1>3. Takes(p) \subseteq Held
  BY ExecuteFindsPermissions
<1>4. \A q \in Plans : plans'[q] = "EXECUTED" <=> plans[q] = "EXECUTED" \/ q = p
  BY <1>1 DEF TypeOK
<1>5. TypeOK'
  <2>1. PlansWithoutRoot'
    BY <1>1 DEF PlansWithoutRoot, TypeOK
  <2> QED BY <1>1, <1>2, <2>1 DEF TypeOK, Permission, State
<1>6. NoNewPermissions'
  BY <1>1, <1>2 DEF NoNewPermissions
<1>7. TakenWereGranted'
  <2>1. ASSUME NEW x \in Taken' PROVE x \in Taken \/ x \in Takes(p)
    BY <1>4 DEF Taken
  <2> QED BY <1>1, <1>3, <2>1 DEF TakenWereGranted, NoNewPermissions
<1>8. ExecutedPlanIsolates'
  BY <1>1, <1>2, <1>4 DEF ExecutedPlanIsolates
<1>9. ExecutedPlansAreDisjoint'
  <2>1. \A q \in Plans : plans[q] = "EXECUTED" => Takes(p) \cap Takes(q) \subseteq regranted
    BY <1>3 DEF ExecutedPlanIsolates
  <2> QED BY <1>1, <1>4, <2>1 DEF ExecutedPlansAreDisjoint
<1>10. LocksAreEmpty'
  <2>1. \A c \in Contract : members'[c][LOCK] \subseteq members[c][LOCK]
    BY <1>2, RoleAssumption
  <2> QED BY <1>1, <2>1 DEF LocksAreEmpty
<1> QED BY <1>5, <1>6, <1>7, <1>8, <1>9, <1>10

(* Restore: what comes back had been granted, and no other executed plan   *)
(* took it unless it was given again.                                      *)
LEMMA RestoreKeepsInv ==
  ASSUME IInv, NEW p \in Plans, Restore(p)
  PROVE  IInv'
<1> USE DEF IInv
<1>1. /\ UNCHANGED <<adminOf, granted, regranted>>
      /\ plans[p] = "EXECUTED"
      /\ plans' = [plans EXCEPT ![p] = "PLANNED"]
      /\ members' = GrantedTo(All(p.permissions), p.target)
  BY DEF Restore, GrantRoles
<1>2. /\ members' \in [Contract -> [Role -> SUBSET Account]]
      /\ Held' = Held \cup Takes(p)
  BY <1>1, PlanType, GrantAddsPermissions
<1>3. \A q \in Plans : plans'[q] = "EXECUTED" <=> plans[q] = "EXECUTED" /\ q # p
  BY <1>1 DEF TypeOK
<1>4. Takes(p) \subseteq granted
  BY <1>1, TakenMembers DEF TakenWereGranted
<1>5. TypeOK'
  <2>1. PlansWithoutRoot'
    BY <1>1 DEF PlansWithoutRoot, TypeOK
  <2> QED BY <1>1, <1>2, <2>1 DEF TypeOK, Permission, State
<1>6. NoNewPermissions'
  BY <1>1, <1>2, <1>4 DEF NoNewPermissions
<1>7. TakenWereGranted'
  <2>1. Taken' \subseteq Taken
    BY <1>3 DEF Taken
  <2> QED BY <1>1, <2>1 DEF TakenWereGranted
<1>8. ExecutedPlanIsolates'
  <2>1. ASSUME NEW q \in Plans, plans'[q] = "EXECUTED"
        PROVE  Takes(q) \cap Held' \subseteq regranted
    <3>1. Takes(q) \cap Takes(p) \subseteq regranted
      BY <1>1, <1>3, <2>1 DEF ExecutedPlansAreDisjoint
    <3>2. Takes(q) \cap Held \subseteq regranted
      BY <1>3, <2>1 DEF ExecutedPlanIsolates
    <3> QED BY <1>2, <3>1, <3>2
  <2> QED BY <1>1, <2>1 DEF ExecutedPlanIsolates
<1>9. ExecutedPlansAreDisjoint'
  BY <1>1, <1>3 DEF ExecutedPlansAreDisjoint
<1>10. LocksAreEmpty'
  <2>1. Brake \in Account
    BY BrakeAssumption
  <2>2. \A x \in All(p.permissions) : adminOf[x[1]][x[2]] # LOCK
    BY <2>1, PlanType, LockedRolesAreNotGranted DEF Restore
  <2>3. \A c \in Contract : <<c, LOCK>> \notin All(p.permissions)
    BY <2>2 DEF LocksAreEmpty
  <2>4. \A c \in Contract : members'[c][LOCK] = members[c][LOCK]
    BY <1>1, <2>3, RoleAssumption DEF GrantedTo
  <2> QED BY <1>1, <2>4 DEF LocksAreEmpty
<1> QED BY <1>5, <1>6, <1>7, <1>8, <1>9, <1>10

(* Governance grants a batch: what an executed plan takes and governance   *)
(* gives again is exactly what regranted records.                          *)
LEMMA GrantKeepsInv ==
  ASSUME IInv, NEW caller \in Account, NEW s \in Batches, NEW account \in Grantees,
         GrantRoles(s, account, caller),
         granted' = granted \cup OfAccount(All(s), account),
         regranted' = regranted \cup (OfAccount(All(s), account) \cap Taken),
         UNCHANGED plans
  PROVE  IInv'
<1> USE DEF IInv
<1> DEFINE given == OfAccount(All(s), account)
<1>1. /\ s \in Seq(Contract \X Role)
      /\ account \in Account
      /\ All(s) \subseteq Contract \X Role
  BY PlanAssumption, BatchElements
<1>2. /\ members' = GrantedTo(All(s), account)
      /\ adminOf' = adminOf
  BY DEF GrantRoles
<1>3. /\ members' \in [Contract -> [Role -> SUBSET Account]]
      /\ Held' = Held \cup given
      /\ given \subseteq Permission
  BY <1>1, <1>2, GrantAddsPermissions
<1> HIDE DEF given
<1>4. granted' = granted \cup given /\ regranted' = regranted \cup (given \cap Taken)
  BY DEF given
<1>5. TypeOK'
  <2>1. PlansWithoutRoot'
    BY DEF TypeOK, PlansWithoutRoot
  <2> QED BY <1>2, <1>3, <1>4, <2>1 DEF TypeOK, Permission
<1>6. NoNewPermissions'
  BY <1>3, <1>4 DEF NoNewPermissions
<1>7. Taken' = Taken
  BY DEF Taken
<1>8. TakenWereGranted'
  BY <1>4, <1>7 DEF TakenWereGranted
<1>9. ExecutedPlanIsolates'
  <2>1. ASSUME NEW p \in Plans, plans[p] = "EXECUTED"
        PROVE  Takes(p) \cap Held' \subseteq regranted'
    <3>1. Takes(p) \subseteq Taken
      BY <2>1, TakenMembers
    <3>2. Takes(p) \cap Held \subseteq regranted
      BY <2>1 DEF ExecutedPlanIsolates
    <3> QED BY <1>3, <1>4, <3>1, <3>2
  <2> QED BY <2>1 DEF ExecutedPlanIsolates
<1>10. ExecutedPlansAreDisjoint'
  BY <1>4 DEF ExecutedPlansAreDisjoint
<1>11. LocksAreEmpty'
  <2>1. \A x \in All(s) : adminOf[x[1]][x[2]] # LOCK
    BY <1>1, LockedRolesAreNotGranted
  <2>2. \A c \in Contract : <<c, LOCK>> \notin All(s)
    BY <2>1 DEF LocksAreEmpty
  <2>3. \A c \in Contract : members'[c][LOCK] = members[c][LOCK]
    BY <1>2, <2>2, RoleAssumption DEF GrantedTo
  <2> QED BY <1>2, <2>3 DEF LocksAreEmpty
<1> QED BY <1>5, <1>6, <1>8, <1>9, <1>10, <1>11

(* Revoking, by anybody and of anything, keeps the invariant.              *)
LEMMA RevokeKeepsInv ==
  ASSUME IInv, NEW P, P \subseteq Contract \X Role, NEW account \in Account,
         members' = RevokedFrom(P, account),
         UNCHANGED <<adminOf, plans, granted, regranted>>
  PROVE  IInv'
<1> USE DEF IInv
<1>1. /\ members' \in [Contract -> [Role -> SUBSET Account]]
      /\ Held' \subseteq Held
      /\ \A c \in Contract, r \in Role : members'[c][r] \subseteq members[c][r]
  BY RevokeRemovesPermissions
<1>2. TypeOK'
  BY <1>1 DEF TypeOK, Permission, PlansWithoutRoot
<1>3. Taken' = Taken
  BY DEF Taken
<1>4. NoNewPermissions' /\ TakenWereGranted'
  BY <1>1, <1>3 DEF NoNewPermissions, TakenWereGranted
<1>5. ExecutedPlanIsolates' /\ ExecutedPlansAreDisjoint'
  BY <1>1 DEF ExecutedPlanIsolates, ExecutedPlansAreDisjoint
<1>6. LocksAreEmpty'
  <2>1. \A c \in Contract : members'[c][LOCK] \subseteq members[c][LOCK]
    BY <1>1, RoleAssumption
  <2> QED BY <2>1 DEF LocksAreEmpty
<1> QED BY <1>2, <1>4, <1>5, <1>6

(* Setting an admin: not that of a role whose admin is LOCK, LOCK included. *)
LEMMA AdminKeepsInv ==
  ASSUME IInv, NEW c \in Contract, NEW r \in Role, NEW adminRole \in Role,
         NEW caller \in Account, SetRoleAdmin(c, r, adminRole, caller),
         UNCHANGED <<plans, granted, regranted>>
  PROVE  /\ IInv'
         /\ members' = members
         /\ \A c1 \in Contract, r1 \in Role :
              adminOf[c1][r1] = LOCK => adminOf'[c1][r1] = LOCK
<1> USE DEF IInv
<1>1. /\ members' = members
      /\ adminOf' = [adminOf EXCEPT ![c][r] = adminRole]
      /\ caller \in members[c][adminOf[c][r]]
  BY DEF SetRoleAdmin, HasRole
<1>2. adminOf[c][r] # LOCK
  BY <1>1 DEF LocksAreEmpty
<1>3. \A c1 \in Contract, r1 \in Role :
        adminOf[c1][r1] = LOCK => adminOf'[c1][r1] = LOCK
  BY <1>1, <1>2 DEF TypeOK
<1>4. TypeOK'
  BY <1>1 DEF TypeOK, Permission, PlansWithoutRoot
<1>5. Held' = Held /\ Taken' = Taken
  BY <1>1 DEF Held, Taken, HasRole
<1>6. NoNewPermissions' /\ TakenWereGranted'
  BY <1>5 DEF NoNewPermissions, TakenWereGranted
<1>7. ExecutedPlanIsolates' /\ ExecutedPlansAreDisjoint'
  BY <1>5 DEF ExecutedPlanIsolates, ExecutedPlansAreDisjoint
<1>8. LocksAreEmpty'
  BY <1>1, <1>3, RoleAssumption DEF LocksAreEmpty
<1> QED BY <1>1, <1>3, <1>4, <1>6, <1>7, <1>8

-----------------------------------------------------------------------------
(* The next-state relation.                                                *)

LEMMA OthersKeepInv ==
  ASSUME IInv, Others
  PROVE  IInv'
<1> USE DEF Others
<1>1. ASSUME NEW caller \in Account, NEW s \in Batches, NEW account \in Grantees,
             GrantRoles(s, account, caller),
             granted' = granted \cup OfAccount(All(s), account),
             regranted' = regranted \cup (OfAccount(All(s), account) \cap Taken)
      PROVE  IInv'
  BY <1>1, GrantKeepsInv
<1>2. ASSUME NEW caller \in Account, NEW s \in Batches, NEW account \in Grantees,
             RevokeRoles(s, account, caller), UNCHANGED <<granted, regranted>>
      PROVE  IInv'
  <2>1. All(s) \subseteq Contract \X Role /\ account \in Account
    BY PlanAssumption, BatchElements
  <2>2. members' = RevokedFrom(All(s), account) /\ adminOf' = adminOf
    BY <1>2 DEF RevokeRoles
  <2> QED BY <1>2, <2>1, <2>2, RevokeKeepsInv
<1>3. ASSUME NEW caller \in Account, NEW c \in Contract, NEW r \in Role,
             NEW adminRole \in Role, SetRoleAdmin(c, r, adminRole, caller),
             UNCHANGED <<granted, regranted>>
      PROVE  IInv'
  BY <1>3, AdminKeepsInv
<1>4. ASSUME NEW caller \in Account, NEW c \in Contract, NEW r \in Role,
             RenounceRole(c, r, caller), UNCHANGED <<granted, regranted>>
      PROVE  IInv'
  <2>1. {<<c, r>>} \subseteq Contract \X Role
    OBVIOUS
  <2>2. members' = RevokedFrom({<<c, r>>}, caller) /\ adminOf' = adminOf
    BY <1>4 DEF RenounceRole
  <2> QED BY <1>4, <2>1, <2>2, RevokeKeepsInv
<1>5. Admins \subseteq Role /\ LOCK \in Role
  BY PlanAssumption, RoleAssumption
<1> QED BY <1>1, <1>2, <1>3, <1>4, <1>5 DEF LockRole, OfAccount

LEMMA StepKeepsInv == IInv /\ [Next]_vars => IInv'
<1> SUFFICES ASSUME IInv, [Next]_vars PROVE IInv'
  OBVIOUS
<1>1. ASSUME NEW p \in Plans, BrakeStep(p) PROVE IInv'
  BY <1>1, PlanningKeepsInv, ExecuteKeepsInv, RestoreKeepsInv DEF BrakeStep
<1>2. CASE Others
  BY <1>2, OthersKeepInv
<1>3. CASE UNCHANGED vars
  BY <1>3 DEF IInv, vars, acVars, TypeOK, NoNewPermissions, TakenWereGranted, Held,
              HasRole, Taken, ExecutedPlanIsolates, ExecutedPlansAreDisjoint,
              PlansWithoutRoot, LocksAreEmpty
<1> QED BY <1>1, <1>2, <1>3 DEF Next

THEOREM InductiveInvariant == Spec => []IInv
<1>1. Init => IInv
  BY InitInv
<1>2. IInv /\ [Next]_vars => IInv'
  BY StepKeepsInv
<1> QED BY <1>1, <1>2, PTL DEF Spec

(* Every variable of the Brake and of the contracts keeps its type, and no *)
(* plan on record, whatever its length, holds a ROOT permission at any     *)
(* place.                                                                  *)
THEOREM BrakeTypeCorrect == Spec => []TypeOK
BY InductiveInvariant, PTL DEF IInv

(* OldEmergencyBrake.sol:23: whatever plans are made, executed, restored   *)
(* and terminated, the Brake grants nothing that somebody else had not     *)
(* granted to the same account before.                                     *)
THEOREM BrakeGrantsNothingNew == Spec => []NoNewPermissions
BY InductiveInvariant, PTL DEF IInv

(* execute isolates its target: what an executed plan took stays away      *)
(* until the plan is restored or terminated or governance regrants it.     *)
THEOREM ExecutionIsolates == Spec => []ExecutedPlanIsolates
BY InductiveInvariant, PTL DEF IInv

(* "Permission not found" keeps executed plans apart.                      *)
THEOREM ExecutionsAreDisjoint == Spec => []ExecutedPlansAreDisjoint
BY InductiveInvariant, PTL DEF IInv

-----------------------------------------------------------------------------
(* Action properties.                                                      *)

(* OldEmergencyBrake.sol:24: no step of the Brake changes who has ROOT,    *)
(* because plan refuses ROOT and only accepted plans are run.              *)
THEOREM BrakeCannotTouchRoot == Spec => BrakeLeavesRoot
<1>1. ASSUME IInv, NEW p \in Plans, BrakeStep(p)
      PROVE  UNCHANGED RootHolders
  <2> USE <1>1 DEF IInv
  <2>1. CASE Plan(p) \/ Cancel(p) \/ Terminate(p)
    BY <2>1 DEF Plan, Cancel, Terminate, acVars, RootHolders
  <2>2. CASE Execute(p) \/ Restore(p)
    <3>1. plans[p] # "UNPLANNED"
      BY <2>2 DEF Execute, Restore
    <3>2. \A c \in Contract : <<c, ROOT>> \notin All(p.permissions)
      BY <3>1 DEF TypeOK, PlansWithoutRoot
    <3>3. \/ members' = RevokedFrom(All(p.permissions), p.target)
          \/ members' = GrantedTo(All(p.permissions), p.target)
      BY <2>2 DEF Execute, Restore, RevokeRoles, GrantRoles
    <3>4. \A c \in Contract : members'[c][ROOT] = members[c][ROOT]
      BY <3>2, <3>3, RoleAssumption DEF RevokedFrom, GrantedTo
    <3> QED BY <3>4 DEF RootHolders
  <2> QED BY <1>1, <2>1, <2>2 DEF BrakeStep
<1>2. IInv /\ [Next]_vars => [(\E p \in Plans : BrakeStep(p)) => UNCHANGED RootHolders]_vars
  BY <1>1
<1> QED BY <1>2, InductiveInvariant, PTL DEF Spec, BrakeLeavesRoot

(* What LockIsForever asks of one step.                                    *)
LockHolds ==
  \A c \in Contract, r \in Role :
    adminOf[c][r] = LOCK =>
      /\ adminOf'[c][r] = LOCK
      /\ members'[c][r] \subseteq members[c][r]

(* Granting a batch respects locked roles, whoever grants it.              *)
LEMMA GrantRespectsLock ==
  ASSUME IInv, NEW s \in Seq(Contract \X Role), NEW account \in Account,
         NEW caller \in Account, GrantRoles(s, account, caller)
  PROVE  LockHolds
<1> USE DEF IInv
<1>1. \A x \in All(s) : adminOf[x[1]][x[2]] # LOCK
  BY LockedRolesAreNotGranted
<1>2. members' = GrantedTo(All(s), account) /\ adminOf' = adminOf
  BY DEF GrantRoles
<1>3. ASSUME NEW c \in Contract, NEW r \in Role, adminOf[c][r] = LOCK
      PROVE  adminOf'[c][r] = LOCK /\ members'[c][r] \subseteq members[c][r]
  <2>1. <<c, r>> \notin All(s)
    BY <1>1, <1>3
  <2> QED BY <1>2, <1>3, <2>1 DEF GrantedTo
<1> QED BY <1>3 DEF LockHolds

(* Join.sol:229: once a role's admin is LOCK nobody gets the role any      *)
(* more, neither from governance nor by the restoration of a plan that was *)
(* executed before the role was locked.                                    *)
THEOREM LockedRolesStayLocked == Spec => LockIsForever
<1>1. ASSUME IInv, NEW p \in Plans, BrakeStep(p) PROVE LockHolds
  <2>1. CASE Plan(p) \/ Cancel(p) \/ Terminate(p)
    BY <2>1 DEF Plan, Cancel, Terminate, acVars, LockHolds
  <2>2. CASE Execute(p)
    BY <2>2 DEF Execute, RevokeRoles, RevokedFrom, LockHolds
  <2>3. CASE Restore(p)
    BY <1>1, <2>3, PlanType, BrakeAssumption, GrantRespectsLock DEF Restore
  <2> QED BY <1>1, <2>1, <2>2, <2>3 DEF BrakeStep
<1>2. ASSUME IInv, Others PROVE LockHolds
  <2> USE DEF Others
  <2>1. ASSUME NEW caller \in Account, NEW s \in Batches, NEW account \in Grantees,
               GrantRoles(s, account, caller)
        PROVE  LockHolds
    BY <1>2, <2>1, PlanAssumption, GrantRespectsLock
  <2>2. ASSUME NEW s \in Batches, NEW account \in Grantees, NEW caller \in Account,
               RevokeRoles(s, account, caller)
        PROVE  LockHolds
    BY <2>2 DEF RevokeRoles, RevokedFrom, LockHolds
  <2>3. ASSUME NEW caller \in Account, NEW c \in Contract, NEW r \in Role,
               NEW adminRole \in Role, SetRoleAdmin(c, r, adminRole, caller),
               UNCHANGED <<plans, granted, regranted>>
        PROVE  LockHolds
    BY <1>2, <2>3, AdminKeepsInv DEF LockHolds
  <2>4. ASSUME NEW caller \in Account, NEW c \in Contract, NEW r \in Role,
               RenounceRole(c, r, caller)
        PROVE  LockHolds
    BY <2>4 DEF RenounceRole, RevokedFrom, LockHolds
  <2>5. Admins \subseteq Role /\ LOCK \in Role
    BY PlanAssumption, RoleAssumption
  <2> QED BY <1>2, <2>1, <2>2, <2>3, <2>4, <2>5 DEF LockRole
<1>3. IInv /\ [Next]_vars => [LockHolds]_vars
  BY <1>1, <1>2 DEF Next
<1> QED BY <1>3, InductiveInvariant, PTL DEF Spec, LockIsForever, LockHolds
=============================================================================
