---------------------------- MODULE TeamProposals ---------------------------
(***************************************************************************)
(* The team changes while it works: developers and governors come and go,  *)
(* a permission of the Ladle is given up, and the Ladle is isolated for a  *)
(* while.  The scripts of a kind share a directory, or all have their own. *)
(***************************************************************************)
EXTENDS Networks

Reg0 == (<<"cauldron", "assets", "DAI">> :> "aDAI") @@ (<<"cauldron", "assets", "ETH">> :> "aETH")
Start == Exec(Genesis({}, Reg0), CoreOrchestration(Core))
Occasions == {"team", "governors"}
FirstChains == [id \in Occasions |-> [Start EXCEPT !.id = id]]
UsersOf == [id \in Occasions |-> {"ladle"}]
OpenTo == [id \in Occasions |-> {}]

NewDevelopers == [newDevelopers |-> <<"dev2">>]
Assemble(sc, s) ==
  CASE sc = "addDevelopers" -> addDevelopers(Core, NewDevelopers)
    [] sc = "revokeDevelopers" -> RevokeDevelopers(Core, [developersRevoked |-> <<DEV>>])
    [] sc = "revokeStir" -> revokeStir(Core)
    [] sc = "addGovernors" -> addGovernors(Core, [newGovernors |-> <<"dev2">>, cloakHasPlan |-> TRUE])
    [] sc = "revokeGovernors" -> RevokeGovernors(Core, [governorsToRevoke |-> <<DEV>>, cloakHasPlan |-> TRUE])
    [] sc = "revokeCloakExecute" ->
         RevokeCloakExecute(Core, [executorsRevoked |-> <<DEV>>,
           previousProposalHash |-> <<"addGovernors", addGovernors(Core, [newGovernors |-> <<"dev2">>, cloakHasPlan |-> TRUE])>>])

ScriptsOf == [team |-> {"revokeStir", "addDevelopers", "revokeDevelopers"},
              governors |-> {"addGovernors", "revokeGovernors", "revokeCloakExecute"}]
DirOf == [sc \in UNION {ScriptsOf[id] : id \in DOMAIN ScriptsOf} |-> IF sc = "revokeStir" THEN sc ELSE "permissions"]
\* The developers change places as the permissions do; the new one may execute
TeamTasks == (DEV :> {"addDevelopers", "revokeDevelopers", "execute"})
             @@ ("dev2" :> {"revokeStir", "execute"}) @@ (MULTISIG :> {"approve"})
GovernorTasks == (DEV :> ScriptsOf.governors) @@ ("dev2" :> {}) @@ (MULTISIG :> {"approve", "execute"})
=============================================================================
