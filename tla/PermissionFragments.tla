------------------------ MODULE PermissionFragments -------------------------
(***************************************************************************)
(* The fragments of proposals that deal in permissions: the developers'    *)
(* and governors' roles, the plans of the Cloak, the orchestration of the  *)
(* core contracts, and what the Ladle holds on each join and fyToken       *)
(* (scripts/fragments/permissions, timelock, cloak, core and ladle).       *)
(*                                                                         *)
(* A fragment is an operator with the arguments of the function and the    *)
(* value it returns, a sequence of calls.  `ctx' holds the contracts that  *)
(* the scripts pass along: cloak, cauldron, ladle, witch.  A fragment that *)
(* reads the chain while the proposal is built takes the chain `s' first.  *)
(***************************************************************************)
EXTENDS Protocol

(* permissions *)
grantPermission(host, role, user) == <<GrantRoles(host, {role}, user)>>
revokePermission(host, role, user) == <<RevokeRoles(host, {role}, user)>>
grantRoot(host, user) == <<GrantRoles(host, {ROOT}, user)>>
revokeRoot(host, user) == <<RevokeRoles(host, {ROOT}, user)>>

DeveloperRoles == {"propose", "execute"}
OldTimelockRoles == {"proposeRepeated", "executeRepeated"}
GovernorCloakRoles == {"plan", "cancel", "execute", "restore", "terminate"}

grantDevelopers(ctx, accounts) ==
  Each(LAMBDA a : <<GrantRoles(TIMELOCK, DeveloperRoles, a),
                    GrantRoles(ctx.cloak, {"execute"}, a)>>, accounts)
revokeDevelopers(ctx, accounts) ==
  Each(LAMBDA a : <<RevokeRoles(TIMELOCK, DeveloperRoles \cup OldTimelockRoles, a),
                    RevokeRoles(ctx.cloak, {"execute"}, a)>>, accounts)
revokeCloakExecute(ctx, accounts) ==
  Each(LAMBDA a : <<RevokeRoles(ctx.cloak, {"execute"}, a)>>, accounts)

\* The cloak's roles go to the Timelock, whoever the new governor is.  The ids
\* of plan and cancel exist in EmergencyBrake V1 only.
grantGovernors(ctx, hasPlan, accounts) ==
  Each(LAMBDA a : KnownId(hasPlan, <<GrantRoles(TIMELOCK, DeveloperRoles \cup {"approve"}, a),
                                     GrantRoles(ctx.cloak, GovernorCloakRoles, TIMELOCK)>>), accounts)
revokeGovernors(ctx, hasPlan, accounts) ==
  Each(LAMBDA a : KnownId(hasPlan,
         <<RevokeRoles(TIMELOCK, DeveloperRoles \cup OldTimelockRoles \cup {"approve"}, a),
           RevokeRoles(ctx.cloak, GovernorCloakRoles, a)>>), accounts)
revokeOrchestration(ctx, host, user, role) ==
  <<RevokeRoles(host, {role}, user), CloakRemove(ctx.cloak, user, {<<host, role>>})>>

(* timelock *)
proposalRequired(hash) == <<Call("assert", "proposalState", <<hash>>)>>
updateTimelockDelay(delay) == <<Set(TIMELOCK, "setDelay", "delay", <<>>, delay)>>

(* cloak *)
JoinRoles == {"join", "exit"}
FYTokenRoles == {"mint", "burn"}
LadleRoles == {"build", "destroy", "tweak", "pour", "stir", "roll"}
WitchRoles == {"give", "slurp"}

addAsHostToCloak(ctx, host) == grantRoot(host, ctx.cloak)
addExecutorsToCloak(ctx, executors) ==
  Each(LAMBDA e : <<GrantRoles(ctx.cloak, {"execute"}, e)>>, executors)
addFYTokenToCloak(s, ctx, fyTokens) ==
  Each(LAMBDA f : <<CloakAdd(ctx.cloak, f[2], Permissions(Val(s, <<f[2], "join">>), JoinRoles))>>,
       fyTokens)
addGiverToCloak(ctx, giver) ==
  <<CloakAdd(ctx.cloak, giver, Permissions(ctx.cauldron, {"give"}))>>
addLeverToCloak(ctx, levers, giver) ==
  Each(LAMBDA l : <<CloakAdd(ctx.cloak, l, Permissions(giver, {"seize"}))>>, levers)
\* Both permissions on a join are planned if the Ladle holds the first one
addLadleToCloak(s, ctx, fyTokens, joins) ==
  <<CloakAdd(ctx.cloak, ctx.ladle, Permissions(ctx.cauldron, LadleRoles))>>
  \o Each(LAMBDA f : <<CloakAdd(ctx.cloak, ctx.ladle, Permissions(f[2], FYTokenRoles))>>, fyTokens)
  \o Each(LAMBDA j : IF HasRole(s, j[2], "join", ctx.ladle)
                     THEN <<CloakAdd(ctx.cloak, ctx.ladle, Permissions(j[2], JoinRoles))>>
                     ELSE <<>>, joins)
addWitchToCloak(s, ctx, fyTokens, joins) ==
  LET Held(host, role) == IF HasRole(s, host, role, ctx.witch)
                          THEN <<CloakAdd(ctx.cloak, ctx.witch, {<<host, role>>})>> ELSE <<>>
  IN  <<CloakAdd(ctx.cloak, ctx.witch, Permissions(ctx.cauldron, WitchRoles))>>
      \o Each(LAMBDA f : Held(f[2], "burn"), fyTokens)
      \o Each(LAMBDA j : Held(j[2], "join") \o Held(j[2], "exit"), joins)
checkPlan(ctx, users) == Each(LAMBDA u : <<Call("assert", "check", <<ctx.cloak, u>>)>>, users)
orchestrateCloak(deployer, ctx) == <<RevokeRoles(ctx.cloak, {ROOT}, deployer)>>

(* core: the Timelock governs, the Cloak may isolate, the deployer leaves *)
orchestrateCauldron(deployer, ctx) ==
  <<GrantRoles(ctx.cauldron, {"addAsset", "addSeries", "addIlks", "setDebtLimits",
                              "setLendingOracle", "setSpotOracle"}, TIMELOCK),
    GrantRoles(ctx.cauldron, {ROOT}, ctx.cloak)>> \o revokeRoot(ctx.cauldron, deployer)
\* ROOT is revoked on the Cauldron, not on the Ladle
orchestrateLadle(deployer, ctx) ==
  <<GrantRoles(ctx.ladle, {ROOT}, ctx.cloak),
    GrantRoles(ctx.ladle, {"addJoin", "addPool", "addToken", "addIntegration", "addModule",
                           "setFee"}, TIMELOCK),
    GrantRoles(ctx.cauldron, LadleRoles \cup {"give"}, ctx.ladle)>>
  \o revokeRoot(ctx.cauldron, deployer)
orchestrateLadleToCauldron(ctx) ==
  <<GrantRoles(ctx.cauldron, LadleRoles, ctx.ladle),
    CloakAdd(ctx.cloak, ctx.ladle, Permissions(ctx.cauldron, LadleRoles))>>
orchestrateWitch(deployer, ctx) ==
  <<GrantRoles(ctx.witch, {ROOT}, ctx.cloak),
    GrantRoles(ctx.witch, {"point", "setAuctioneerReward", "setProtected", "setLineAndLimit"},
               TIMELOCK)>> \o revokeRoot(ctx.witch, deployer)
orchestrateWitchToCauldron(ctx) ==
  <<GrantRoles(ctx.cauldron, WitchRoles, ctx.witch),
    CloakAdd(ctx.cloak, ctx.witch, Permissions(ctx.cauldron, WitchRoles))>>
\* core/setBorrowingFee.ts, that runs its proposal itself
setBorrowingFee(ctx, fee) == <<Set(ctx.ladle, "setFee", "borrowingFee", <<>>, fee)>>

(* ladle *)
addFYToken(ctx, fyToken) ==
  <<GrantRoles(fyToken, FYTokenRoles, ctx.ladle),
    CloakAdd(ctx.cloak, ctx.ladle, Permissions(fyToken, FYTokenRoles))>>
removeFYToken_roles(ctx, fyToken) == <<CloakRemove(ctx.cloak, ctx.ladle, Permissions(fyToken, FYTokenRoles))>>
removeFYToken(ctx, fyToken) ==
  <<RevokeRoles(fyToken, FYTokenRoles, ctx.ladle),
    CloakRemove(ctx.cloak, ctx.ladle, Permissions(fyToken, FYTokenRoles))>>
addJoin(ctx, assetId, join) ==
  <<GrantRoles(join, JoinRoles, ctx.ladle),
    CloakAdd(ctx.cloak, ctx.ladle, Permissions(join, JoinRoles)),
    Set(ctx.ladle, "addJoin", "joins", <<assetId>>, join)>>
\* Mutant: what is taken stays planned
removeJoin_planned(s, ctx, assetId) ==
  LET join == Get(s, <<ctx.ladle, "joins", assetId>>)
  IN  IF join = ZERO_ADDRESS THEN <<Throw>> ELSE <<RevokeRoles(join, JoinRoles, ctx.ladle)>>
\* The Ladle's registry keeps the join: nothing but addJoin overwrites it
removeJoin(s, ctx, assetId) ==
  LET join == Get(s, <<ctx.ladle, "joins", assetId>>)
  IN  IF join = ZERO_ADDRESS THEN <<Throw>>
      ELSE <<RevokeRoles(join, JoinRoles, ctx.ladle),
             CloakRemove(ctx.cloak, ctx.ladle, Permissions(join, JoinRoles))>>
replaceJoin(s, ctx, assetId, join) == removeJoin(s, ctx, assetId) \o addJoin(ctx, assetId, join)
addPool(ctx, seriesId, pool) == <<Set(ctx.ladle, "addPool", "pools", <<seriesId>>, pool)>>

WithCode(s, address, calls) == IF Has(s, <<address, "code">>) THEN calls ELSE <<Throw>>
addIntegration(s, ctx, integration) ==
  WithCode(s, integration, <<Set(ctx.ladle, "addIntegration", "integrations", <<integration>>, TRUE)>>)
addModule(s, ctx, module) ==
  WithCode(s, module, <<Set(ctx.ladle, "addModule", "modules", <<module>>, TRUE)>>)
addToken(s, ctx, token) ==
  WithCode(s, token, <<Set(ctx.ladle, "addToken", "tokens", <<token>>, TRUE)>>)
=============================================================================
