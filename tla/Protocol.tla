------------------------------ MODULE Protocol ------------------------------
(***************************************************************************)
(* The contracts that the proposals govern, as far as the scripts use      *)
(* them: who holds which role on which contract, the plans of the Cloak    *)
(* (EmergencyBrake V2), the registries and parameters of the Cauldron, the *)
(* Ladle, the Witch and the oracles, and the tokens that the Timelock      *)
(* moves.  The contracts live in other repositories: everything here is    *)
(* external, and is modelled from the calls that the scripts make.         *)
(*                                                                         *)
(* A chain is a record:                                                    *)
(*   id    the network, by its name                                        *)
(*   perm  the roles held, as triples <<host, role, user>>                 *)
(*   plan  the permissions planned, as <<cloak, user, host, role>>         *)
(*   out   the users whose plan is in execution, as <<cloak, user>>        *)
(*   reg   the storage read or written by the scripts: a partial function  *)
(*         from slots, <<contract, variable, keys...>>, to values          *)
(*   ok    FALSE once a call has reverted                                  *)
(* A call is a record with the contract called (to), the function (fn) and *)
(* its arguments; a proposal is a sequence of calls, that the Timelock     *)
(* makes in order and in one transaction.                                  *)
(***************************************************************************)
EXTENDS Integers, Sequences, SequencesExt, TLC

ROOT == "ROOT"
ZERO_ADDRESS == "0x0"
TIMELOCK == "timelock"

HasRole(s, host, role, user) == <<host, role, user>> \in s.perm
Has(s, slot) == slot \in DOMAIN s.reg
Val(s, slot) == s.reg[slot]
Get(s, slot) == IF Has(s, slot) THEN Val(s, slot) ELSE ZERO_ADDRESS
Enter(f, x, value) == [y \in DOMAIN f \cup {x} |-> IF y = x THEN value ELSE f[y]]
Put(s, slot, value) == [s EXCEPT !.reg = Enter(@, slot, value)]
Amount(s, slot) == IF Has(s, slot) THEN Val(s, slot) ELSE 0
Bal(token, holder) == <<token, "balanceOf", holder>>
Move(s, from, to, n) == LET t == Put(s, from, Amount(s, from) - n)
                        IN  Put(t, to, Amount(t, to) + n)
PlanOf(s, cloak, user) == {<<p[3], p[4]>> : p \in {q \in s.plan : q[1] = cloak /\ q[2] = user}}

(* The calls that a script can encode.                                     *)
GrantRoles(host, roles, user) == [to |-> host, fn |-> "grantRoles", roles |-> roles, user |-> user]
RevokeRoles(host, roles, user) == [to |-> host, fn |-> "revokeRoles", roles |-> roles, user |-> user]
Permissions(host, roles) == {<<host, r>> : r \in roles}
CloakAdd(cloak, user, ps) == [to |-> cloak, fn |-> "add", user |-> user, plan |-> ps]
CloakRemove(cloak, user, ps) == [to |-> cloak, fn |-> "remove", user |-> user, plan |-> ps]
\* plan, of EmergencyBrake V1: one plan per set of permissions
CloakPlan(cloak, user, ps) == [to |-> cloak, fn |-> "plan", user |-> user, plan |-> ps]
\* A setter: `value' is stored under `keys' in a variable of the contract
Set(host, fn, var, keys, value) ==
  [to |-> host, fn |-> fn, slot |-> <<host, var>> \o keys, value |-> value]
\* A call without a role: a token, a pool, or a function open to anyone
Call(host, fn, args) == [to |-> host, fn |-> fn, args |-> args]
\* The script throws while it builds the proposal, which is never sent
Throw == [to |-> ZERO_ADDRESS, fn |-> "throw"]
Builds(proposal) == Throw \notin ToSet(proposal)
\* `id': the selector of a function that the interface has, or an exception
KnownId(known, calls) == IF known THEN calls ELSE <<Throw>>

(* The functions that anyone may call.                                     *)
OpenCalls == {"proposalState", "mintPool", "sellFYToken", "burnDivested", "buyFYToken", "mintStrategy", "get",
              "valueAndCallEquator", "mature"}
\* The strategies' states and who may move them
StrategyMoves ==
  [init    |-> <<"DEPLOYED", "DIVESTED">>, invest  |-> <<"DIVESTED", "INVESTED">>,
   divest  |-> <<"INVESTED", "DIVESTED">>, eject   |-> <<"INVESTED", "DIVESTED">>]
Maturable(s, strategy) == Get(s, <<Get(s, <<strategy, "fyToken">>), "mature">>) = TRUE

\* EmergencyBrake: a plan in execution is not changed
NotExecuted_always(s, c) == TRUE
NotExecuted(s, c) == <<c.to, c.user>> \notin s.out
(* When a call of the Timelock goes through.                               *)
Auth(s, c) == HasRole(s, c.to, c.fn, TIMELOCK)
Accepts(s, c) ==
  /\ c.fn \in {"add", "remove"} => NotExecuted(s, c)
  /\ CASE c.fn = "throw" -> FALSE
       [] c.fn \in {"grantRoles", "revokeRoles"} -> HasRole(s, c.to, ROOT, TIMELOCK)
       [] c.fn = "add" ->
            /\ Auth(s, c)
            /\ \A p \in c.plan : p[2] # ROOT /\ HasRole(s, p[1], ROOT, c.to)
            /\ c.plan \cap PlanOf(s, c.to, c.user) = {}
       [] c.fn = "remove" -> Auth(s, c) /\ c.plan \subseteq PlanOf(s, c.to, c.user)
       [] c.fn = "plan" -> Auth(s, c) /\ \A p \in c.plan : HasRole(s, p[1], ROOT, c.to)
       [] c.fn = "check" -> \A p \in PlanOf(s, c.args[1], c.args[2]) : HasRole(s, p[1], p[2], c.args[2])
       [] c.fn = "addAsset" -> Auth(s, c) /\ ~Has(s, c.slot) /\ c.value # ZERO_ADDRESS
       [] c.fn = "addJoin" ->
            Auth(s, c) /\ Get(s, <<c.value, "asset">>) = Get(s, <<Val(s, <<c.to, "cauldron">>), "assets", c.slot[3]>>)
       [] c.fn = "addSeries" ->
            /\ Auth(s, c) /\ ~Has(s, c.slot)
            /\ Has(s, <<c.to, "assets", c.value[2]>>) /\ Has(s, <<c.to, "lendingOracles", c.value[2]>>)
       [] c.fn = "addIlks" ->
            /\ Auth(s, c) /\ Has(s, <<c.to, "series", c.slot[3]>>)
            /\ Has(s, <<c.to, "spotOracles", Val(s, <<c.to, "series", c.slot[3]>>)[2], c.slot[4]>>)
       [] c.fn \in {"setDebtLimits", "setSpotOracle"} ->
            Auth(s, c) /\ \A i \in 3..4 : Has(s, <<c.to, "assets", c.slot[i]>>)
       [] c.fn = "setLendingOracle" -> Auth(s, c) /\ Has(s, <<c.to, "assets", c.slot[3]>>)
       [] c.fn = "setAccumulator" -> HasRole(s, c.to, "setSource", TIMELOCK) /\ ~Has(s, c.slot)
       [] c.fn = "updatePerSecondRate" -> Auth(s, c) /\ Has(s, c.slot)
       [] c.fn = "transfer" -> Amount(s, Bal(c.to, TIMELOCK)) >= c.args[2]
       \* a user's collateral, through the contract that it deals with
       [] c.fn = "deposit" -> /\ HasRole(s, c.to, "join", c.args[1])
                              /\ Amount(s, Bal(Get(s, <<c.to, "asset">>), c.args[2])) >= c.args[3]
       [] c.fn = "join" -> /\ Auth(s, c)
                           /\ Amount(s, Bal(Get(s, <<c.to, "asset">>), c.to)) - Amount(s, <<c.to, "storedBalance">>)
                                >= c.args[2]
       [] c.fn = "exit" -> Auth(s, c) /\ Amount(s, <<c.to, "storedBalance">>) >= c.args[2]
       [] c.fn = "divest" -> Get(s, <<c.to, "state">>) = "INVESTED" /\ Maturable(s, c.to)
       [] c.fn = "invest" ->
            /\ Auth(s, c) /\ Get(s, <<c.to, "state">>) = "DIVESTED"
            /\ HasRole(s, c.args[1], "init", c.to)
       [] c.fn \in {"init", "eject"} /\ Has(s, <<c.to, "state">>) ->
            Auth(s, c) /\ Val(s, <<c.to, "state">>) = StrategyMoves[c.fn][1]
       [] c.fn = "endPool" -> Get(s, <<c.to, "state">>) = "INVESTED" /\ Maturable(s, c.to)
       [] c.fn = "startPool" -> /\ Auth(s, c) /\ Get(s, <<c.to, "state">>) = "DIVESTED"
                                /\ Has(s, <<c.to, "nextPool">>)
                                /\ HasRole(s, Val(s, <<c.to, "nextPool">>), "mint", c.to)
       [] c.fn \in OpenCalls -> TRUE
       [] OTHER -> Auth(s, c)

(* What it does.                                                           *)
Result(s, c) ==
  CASE c.fn = "grantRoles" -> [s EXCEPT !.perm = @ \cup {<<c.to, r, c.user>> : r \in c.roles}]
    [] c.fn = "revokeRoles" -> [s EXCEPT !.perm = @ \ {<<c.to, r, c.user>> : r \in c.roles}]
    [] c.fn \in {"add", "plan"} ->
         [s EXCEPT !.plan = @ \cup {<<c.to, c.user, p[1], p[2]>> : p \in c.plan}]
    [] c.fn = "remove" -> [s EXCEPT !.plan = @ \ {<<c.to, c.user, p[1], p[2]>> : p \in c.plan}]
    [] c.fn = "transfer" -> Move(s, Bal(c.to, TIMELOCK), Bal(c.to, c.args[1]), c.args[2])
    [] c.fn = "exit" ->
         Move(Put(s, <<c.to, "storedBalance">>, Val(s, <<c.to, "storedBalance">>) - c.args[2]),
              Bal(Val(s, <<c.to, "asset">>), c.to), Bal(Val(s, <<c.to, "asset">>), c.args[1]), c.args[2])
    [] c.fn = "deposit" ->
         Move(Put(s, <<c.to, "storedBalance">>, Amount(s, <<c.to, "storedBalance">>) + c.args[3]),
              Bal(Val(s, <<c.to, "asset">>), c.args[2]), Bal(Val(s, <<c.to, "asset">>), c.to), c.args[3])
    [] c.fn = "join" -> Put(s, <<c.to, "storedBalance">>, Amount(s, <<c.to, "storedBalance">>) + c.args[2])
    [] c.fn = "mint" -> Put(s, Bal(c.to, c.args[1]), Amount(s, Bal(c.to, c.args[1])) + c.args[2])
    [] c.fn = "invest" ->
         \* the pool may be a strategy of the next version, that is initialised then
         LET t == Put(Put(Put(s, <<c.to, "state">>, "INVESTED"), <<c.to, "pool">>, c.args[1]),
                      <<c.to, "fyToken">>, Get(s, <<c.args[1], "fyToken">>))
         IN  IF Has(s, <<c.args[1], "state">>) THEN Put(t, <<c.args[1], "state">>, "DIVESTED") ELSE t
    [] c.fn \in {"init", "eject", "divest"} /\ Has(s, <<c.to, "state">>) ->
         Put(s, <<c.to, "state">>, StrategyMoves[c.fn][2])
    [] c.fn = "endPool" -> Put(s, <<c.to, "state">>, "DIVESTED")
    [] c.fn = "startPool" -> Put(Put(s, <<c.to, "state">>, "INVESTED"),
                                 <<Val(s, <<c.to, "nextPool">>), "state">>, "DIVESTED")
    [] OTHER -> IF "slot" \in DOMAIN c THEN Put(s, c.slot, c.value) ELSE s

(* Timelock.execute: all the calls, or none.                               *)
Step(s, c) == IF s.ok /\ Accepts(s, c) THEN Result(s, c) ELSE [s EXCEPT !.ok = FALSE]
Run(s, calls) ==
  LET run[i \in 0..Len(calls)] == IF i = 0 THEN s ELSE Step(run[i - 1], calls[i])
  IN  run[Len(calls)]
\* A long proposal in two parts, for the sake of TLC's stack; once a call has
\* reverted, the rest changes nothing
Part == 60
Exec(s, calls) ==
  IF Len(calls) <= Part THEN Run(s, calls)
  ELSE LET t == Run(s, SubSeq(calls, 1, Part))
       IN  IF t.ok THEN Run(t, SubSeq(calls, Part + 1, Len(calls))) ELSE t
Executable(s, calls) == Exec(s, calls).ok

(* EmergencyBrake V2, called by an executor or a planner.                  *)
CanIsolate(s, cloak, user) ==
  /\ <<cloak, user>> \notin s.out /\ PlanOf(s, cloak, user) # {}
  /\ \A p \in PlanOf(s, cloak, user) : HasRole(s, p[1], p[2], user) /\ HasRole(s, p[1], ROOT, cloak)
Isolate(s, cloak, user) ==
  [s EXCEPT !.perm = @ \ {<<p[1], p[2], user>> : p \in PlanOf(s, cloak, user)},
            !.out = @ \cup {<<cloak, user>>}]
CanRestore(s, cloak, user) ==
  <<cloak, user>> \in s.out /\ \A p \in PlanOf(s, cloak, user) : HasRole(s, p[1], ROOT, cloak)
Restore(s, cloak, user) ==
  [s EXCEPT !.perm = @ \cup {<<p[1], p[2], user>> : p \in PlanOf(s, cloak, user)},
            !.out = @ \ {<<cloak, user>>}]

(* A fragment for each item of a list, one after the other.                *)
Each(fragment(_), list) == FlattenSeq([i \in 1..Len(list) |-> fragment(list[i])])
=============================================================================
