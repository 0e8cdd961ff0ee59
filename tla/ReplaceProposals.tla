-------------------------- MODULE ReplaceProposals --------------------------
(***************************************************************************)
(* Contracts are replaced while others are added: a Join and what it holds *)
(* (drainJoinsFragment, replaceJoin), the Witch (orchestrateAuctionAssets, *)
(* replaceWitch) and the Ladle, and the Cloak of Contango                  *)
(* (replace/cloakV2/contango).  Users deposit in the meantime.             *)
(***************************************************************************)
EXTENDS Networks

NewHosts == {"joinNew", "witch2", "ladle2", "wand", Join("RETH")}
NewReg == (<<"ladle2", "cauldron">> :> "cauldron") @@ JoinOf("joinNew", "aSTETH") @@ JoinOf(Join("RETH"), "aRETH")
Network1 ==
  LET network == Network(NewHosts, NewReg)
  IN  [network EXCEPT !.reg = (Bal("aSTETH", "user") :> 20) @@ (Bal("aSTETH", Join("STETH")) :> 30)
                               @@ (<<Join("STETH"), "storedBalance">> :> 30) @@ @,
                      !.perm = (@ \ {<<"wand", ROOT, DEPLOYER>>}) \cup {<<"wand", "point", TIMELOCK>>}
                                 \cup {<<"ladle2", r, TIMELOCK>> : r \in {"addJoin", "addPool", "addIntegration", "addToken"}}
                                 \cup {<<"ladle2", ROOT, "cloak">>}]
\* The Cauldron of Contango has the Cloak V1 still, and nothing is planned
Start(id) ==
  [Network1 EXCEPT !.plan = IF id = "contango" THEN {} ELSE @,
                   !.perm = IF id = "contango" THEN (@ \cup {<<"cauldron", ROOT, "cloakV1">>})
                                                      \ {<<"cauldron", ROOT, "cloak">>}
                            ELSE @]

Core2 == [Core EXCEPT !.witch = "witch2"]
Limit == [baseId |-> "ETH", ilkId |-> "STETH", limit |-> 10]
ReplaceJoin(s) ==
  orchestrateFlashJoin(DEPLOYER, Core, "joinNew")
  \o replaceJoin(s, Core, "STETH", "joinNew")
  \o addIlkToWitch(s, Core, Auctioned(Ilk("ETH", "STETH", "chainlink")), "joinNew")
  \o drainJoinsFragment(s, Core, <<<<Join("STETH"), "joinNew">>>>)
ReplaceWitch(s) ==
  orchestrateWitch(DEPLOYER, Core2) \o orchestrateWitchToCauldron(Core2)
  \o setAuctionParameters(Core2, <<Limit>>)
  \o orchestrateAuctionAssets(s, Core2, <<"ETH">>, <<"STETH">>, <<"ETH1">>)
  \o protectFromLiquidations(Core2, "witch", TRUE)
  \o replaceWitch(s, Core2, "witch", <<"ETH">>, <<"STETH">>, <<<<"ETH1", "fyETH">>>>)
ReplaceLadle ==
  replaceLadle([Core EXCEPT !.ladle = "ladle2"], "wand", <<<<"ETH", Join("ETH")>>, <<"STETH", Join("STETH")>>>>,
               <<<<"ETH1", "fyETH">>>>, <<<<"ETH1", "poolETH">>>>, <<"ysETH">>)
reth ==
  [asset |-> Asset("RETH"), deployers |-> [h \in NewHosts |-> DEPLOYER], joins |-> JoinsOf(Old \cup {"RETH"}),
   composite |-> "composite", compositeSources |-> <<<<"ETH", "RETH", "rethOracle">>>>, compositePaths |-> <<>>,
   newIlks |-> <<Auctioned(Ilk("ETH", "RETH", "rethOracle"))>>,
   newSeries |-> <<[seriesId |-> "ETH1", ilks |-> <<"RETH">>]>>]
contango ==
  [cloakV1 |-> "cloakV1", fyTokenList |-> <<<<"ETH1", "fyETH">>>>,
   joinList |-> <<<<"ETH", Join("ETH")>>, <<"DAI", Join("DAI")>>, <<"STETH", Join("STETH")>>>>,
   users |-> <<"ladle", "witch">>]
Assemble(sc, s) ==
  CASE sc = "replaceJoin" -> ReplaceJoin(s)
    [] sc = "replaceWitch" -> ReplaceWitch(s)
    [] sc = "replaceLadle" -> ReplaceLadle
    [] sc = "addRETH" -> addRETH(s, Core, reth)
    [] sc = "replaceCloak" -> replaceContangoCloak(s, Core, contango)
    [] sc = "unprotect" -> unprotectWitchV1(Core2, [witchV1 |-> "witch"])

Occasions == {"join", "witch", "contango"}
FirstChains == [id \in Occasions |-> [Start(id) EXCEPT !.id = id]]
UsersOf == [join |-> {"ladle", "witch", "witch2"}, witch |-> {"ladle", "witch", "witch2"}, contango |-> {"ladle"}]
OpenTo == [id \in Occasions |-> {Call(Join("STETH"), "deposit", <<"ladle", "user", 10>>)}]
ScriptsOf == [join |-> {"replaceJoin", "addRETH"}, witch |-> {"replaceWitch", "replaceLadle", "unprotect"},
              contango |-> {"replaceCloak", "addRETH"}]
DirOf == [sc \in UNION {ScriptsOf[id] : id \in DOMAIN ScriptsOf} |->
          IF sc \in {"replaceWitch", "replaceLadle"} THEN "replace" ELSE sc]
=============================================================================
