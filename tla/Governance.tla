------------------------------ MODULE Governance -----------------------------
(***************************************************************************)
(* How a proposal gets to the contracts: a script builds it from what it   *)
(* reads of the chain, writes it to proposal.txt in the directory of the   *)
(* script (HERE) and proposes it; approve.ts and execute.ts take from that *)
(* file what they approve and execute (shared/helpers.ts, approve.ts and   *)
(* execute.ts).  The scripts run in terminals, one for each account that   *)
(* signs, and may stop anywhere; what they sent is mined later.  In the    *)
(* meantime the Cloak isolates and restores users, and anyone calls what   *)
(* is open to anyone.                                                      *)
(*                                                                         *)
(* A proposal is <<script, calls>>: two scripts never build the same one.  *)
(* The Timelock knows it by its hash, that is by its contents.             *)
(***************************************************************************)
EXTENDS Proposals, FiniteSets

CONSTANTS
  Chains,        \* the networks, and the chain of each at first
  Scripts,       \* the scripts that propose
  Dir,           \* the directory of each
  Build(_, _),   \* Build(script, chain): the calls the script puts together
  Signers,       \* the accounts that run the scripts
  Tasks,         \* on each network, what each of them runs: scripts, "approve"
                 \* and "execute"
  Ctx,           \* the contracts that the scripts connect to
  Users,         \* the users that may be isolated, on each network
  Open,          \* the calls that come from anyone, on each network
  Deployers,     \* the accounts that deploy the contracts
  Operates,      \* the scripts that orchestrate, each with one that operates
  MaxCrashes, MaxIncidents, MaxRepeats    \* bounds, for each network

ASSUME GovernanceAssumption ==
  /\ \A id \in DOMAIN Chains : LET first == Chains[id] IN
       first = [id |-> id, perm |-> first.perm, plan |-> first.plan, out |-> {}, reg |-> first.reg, ok |-> TRUE]
  /\ \A id \in DOMAIN Chains : \A c \in Open[id] :
       c.fn \notin {"grantRoles", "revokeRoles", "add", "remove", "plan"}   \* the Timelock's
  /\ Dir \in [Scripts -> STRING]
  /\ Tasks \in [DOMAIN Chains -> [Signers -> SUBSET (Scripts \cup {"approve", "execute"})]]
  /\ {MaxCrashes, MaxIncidents, MaxRepeats} \subseteq [DOMAIN Chains -> Nat]

VARIABLES
  chain,      \* the contracts, on one of the networks
  timelock,   \* the proposals that are Proposed or Approved, the others being Unknown
  ripe,       \* those approved whose delay is over
  file,       \* proposal.txt in the directories that have it
  job,        \* what runs in each terminal
  mempool,    \* the transactions sent and not mined: <<kind, proposal, signer>>
  executed,   \* the proposals that were executed
  crashes, incidents, repeats   \* counters, for the bounds: scripts stopped,
              \* users isolated, proposals executed of scripts already executed

vars == <<chain, timelock, ripe, file, job, mempool, executed, crashes, incidents, repeats>>
contracts == <<chain, timelock, ripe, executed, incidents, repeats>>

Dirs == {Dir[sc] : sc \in Scripts}
State(p) == IF p \in DOMAIN timelock THEN timelock[p] ELSE "Unknown"
Pending(sc) == \A p \in executed : p[1] # sc
Idle == [pc |-> "idle"]
Runs(t) == Tasks[chain.id][t]   \* what t runs on this network

Init ==
  /\ \E id \in DOMAIN Chains : chain = Chains[id]
  /\ timelock = <<>> /\ ripe = {} /\ file = <<>>
  /\ job = [t \in Signers |-> Idle]
  /\ mempool = {} /\ executed = {}
  /\ crashes = 0 /\ incidents = 0 /\ repeats = 0

(* The scripts of the proposals.  One that throws does nothing.            *)
PutsTogether(t, sc, calls) ==
  /\ Builds(calls)
  /\ job' = [job EXCEPT ![t] = [pc |-> "built", of |-> <<sc, calls>>]]
  /\ UNCHANGED <<contracts, file, mempool, crashes>>
BuildProposal(t, sc) ==
  /\ job[t].pc = "idle" /\ sc \in Runs(t) /\ (Pending(sc) \/ repeats < MaxRepeats[chain.id])
  /\ PutsTogether(t, sc, Build(sc, chain))

\* propose, helpers.ts: only a proposal that is Unknown is written and sent
WriteProposal(t) ==
  /\ job[t].pc = "built"
  /\ LET p == job[t].of IN
     IF State(p) = "Unknown"
     THEN /\ file' = Enter(file, Dir[p[1]], p)
          /\ job' = [job EXCEPT ![t].pc = "written"]
     ELSE /\ job' = [job EXCEPT ![t] = Idle]
          /\ UNCHANGED file
  /\ UNCHANGED <<contracts, mempool, crashes>>

\* A transaction is sent, and the script waits for it.
Send(t, tx) ==
  /\ mempool' = mempool \cup {tx}
  /\ job' = [job EXCEPT ![t] = [pc |-> "waiting", of |-> tx]]
  /\ UNCHANGED <<contracts, file, crashes>>

SendProposal(t) == job[t].pc = "written" /\ Send(t, <<"propose", job[t].of, t>>)

\* approve.ts and execute.ts: the proposal in the file, if it is in that state
Approve(t, d) ==
  /\ job[t].pc = "idle" /\ "approve" \in Runs(t) /\ d \in DOMAIN file
  /\ State(file[d]) = "Proposed"
  /\ Send(t, <<"approve", file[d], t>>)
Execute(t, d) ==
  /\ job[t].pc = "idle" /\ "execute" \in Runs(t) /\ d \in DOMAIN file
  /\ State(file[d]) = "Approved"
  /\ Send(t, <<"execute", file[d], t>>)

(* The Timelock.                                                           *)
\* A proposal may require that another one is not on the Timelock.
Executes(p) ==
  /\ State(p) = "Approved" /\ p \in ripe /\ Executable(chain, p[2])
  /\ \A i \in DOMAIN p[2] : p[2][i].fn = "proposalState" => State(p[2][i].args[1]) = "Unknown"
May(kind, t) == HasRole(chain, TIMELOCK, kind, t)
GoesThrough(tx) ==
  /\ May(tx[1], tx[3])
  /\ CASE tx[1] = "propose" -> State(tx[2]) = "Unknown"
       [] tx[1] = "approve" -> State(tx[2]) = "Proposed"
       [] tx[1] = "execute" -> Executes(tx[2])

\* The transaction leaves the mempool, and the script that waits for it ends:
\* whatever awaitAndRequireProposal finds, nothing follows.
Mined(tx) ==
  /\ tx \in mempool
  /\ mempool' = mempool \ {tx}
  /\ job' = [t \in Signers |-> IF job[t] = [pc |-> "waiting", of |-> tx] THEN Idle ELSE job[t]]
  /\ UNCHANGED <<file, crashes, incidents>>
MineProposal(tx) ==
  /\ Mined(tx) /\ tx[1] = "propose" /\ GoesThrough(tx)
  /\ timelock' = Enter(timelock, tx[2], "Proposed")
  /\ UNCHANGED <<chain, ripe, executed, repeats>>
MineApproval(tx) ==
  /\ Mined(tx) /\ tx[1] = "approve" /\ GoesThrough(tx)
  /\ timelock' = [timelock EXCEPT ![tx[2]] = "Approved"]
  /\ UNCHANGED <<chain, ripe, executed, repeats>>
MineExecution_ripe(tx) ==
  /\ Mined(tx) /\ tx[1] = "execute" /\ GoesThrough(tx)
  /\ chain' = Exec(chain, tx[2][2])
  /\ timelock' = [p \in DOMAIN timelock \ {tx[2]} |-> timelock[p]]
  /\ executed' = executed \cup {tx[2]}
  /\ UNCHANGED <<ripe, repeats>>
MineExecution(tx) ==
  /\ Mined(tx) /\ tx[1] = "execute" /\ GoesThrough(tx)
  /\ chain' = Exec(chain, tx[2][2])
  /\ timelock' = [p \in DOMAIN timelock \ {tx[2]} |-> timelock[p]]
  /\ ripe' = ripe \ {tx[2]}
  /\ executed' = executed \cup {tx[2]}
  /\ repeats' = IF Pending(tx[2][1]) THEN repeats ELSE repeats + 1
Revert(tx) ==
  /\ Mined(tx) /\ ~GoesThrough(tx)
  /\ UNCHANGED <<chain, timelock, ripe, executed, repeats>>
Mine(tx) == MineProposal(tx) \/ MineApproval(tx) \/ MineExecution(tx) \/ Revert(tx)

Ripen(p) ==
  /\ State(p) = "Approved" /\ p \notin ripe
  /\ ripe' = ripe \cup {p}
  /\ UNCHANGED <<chain, timelock, file, job, mempool, executed, crashes, incidents, repeats>>

(* The Cloak, and anyone.                                                  *)
Callers(role) == {t \in Signers : HasRole(chain, Ctx.cloak, role, t)}
ChainOnly == UNCHANGED <<timelock, ripe, file, job, mempool, executed, crashes, repeats>>
IsolateUser(u) ==
  /\ incidents < MaxIncidents[chain.id] /\ Callers("execute") # {} /\ CanIsolate(chain, Ctx.cloak, u)
  /\ chain' = Isolate(chain, Ctx.cloak, u)
  /\ incidents' = incidents + 1 /\ ChainOnly
RestoreUser(u) ==
  /\ Callers("restore") # {} /\ CanRestore(chain, Ctx.cloak, u)
  /\ chain' = Restore(chain, Ctx.cloak, u)
  /\ UNCHANGED incidents /\ ChainOnly
Anyone(c) ==
  /\ Accepts(chain, c) /\ chain # Result(chain, c)
  /\ chain' = Result(chain, c)
  /\ UNCHANGED incidents /\ ChainOnly

\* A script is stopped; what it has sent may still be mined.
Crash(t) ==
  /\ job[t].pc # "idle" /\ crashes < MaxCrashes[chain.id]
  /\ job' = [job EXCEPT ![t] = Idle]
  /\ crashes' = crashes + 1
  /\ UNCHANGED <<contracts, file, mempool>>

Next ==
  \/ \E t \in Signers : \/ \E sc \in Scripts : BuildProposal(t, sc)
                        \/ WriteProposal(t) \/ SendProposal(t)
                        \/ \E d \in Dirs : Approve(t, d) \/ Execute(t, d)
                        \/ Crash(t)
  \/ \E tx \in mempool : Mine(tx)
  \/ \E p \in DOMAIN timelock : Ripen(p)
  \/ \E u \in Users[chain.id] : IsolateUser(u) \/ RestoreUser(u)
  \/ \E c \in Open[chain.id] : Anyone(c)

Spec == Init /\ [][Next]_vars
-----------------------------------------------------------------------------
TypeOK ==
  /\ chain.ok /\ chain.out \subseteq {<<q[1], q[2]>> : q \in chain.plan}
  /\ \A p \in DOMAIN timelock : p[1] \in Scripts /\ timelock[p] \in {"Proposed", "Approved"}
  /\ ripe \subseteq DOMAIN timelock
  /\ \A d \in DOMAIN file : d = Dir[file[d][1]]
  /\ \A t \in Signers : job[t].pc \in {"idle", "built", "written", "waiting"}
  /\ \A tx \in mempool : tx[1] \in {"propose", "approve", "execute"} /\ tx[3] \in Signers
  /\ crashes \in Nat /\ incidents \in Nat

Planned(s) == {<<q[1], q[2]>> : q \in s.plan}
Acts(s, q) == \E p \in PlanOf(s, q[1], q[2]) : HasRole(s, p[1], p[2], q[2])
Ready(s) == \A q \in Planned(s) \ s.out : Acts(s, q) => CanIsolate(s, q[1], q[2])
IsolationIsReady == Ready(chain)

\* An isolation leaves nothing behind: whoever has a power over the Cauldron planned
\* has every permission to move what the protocol holds planned, even to give away
\* vaults, but for one: orchestrateLadle.ts:64 grants `give' to the Ladle, as
\* docs/orchestration.md:13 says, and addLadleToCloak.ts never plans it, so that a
\* Ladle that is isolated can still give any vault to anybody.  A proposal that
\* grants one permission and plans another, or that was built before both, would
\* leave another hole.
MovesValue == JoinRoles \cup FYTokenRoles \cup LadleRoles \cup WitchRoles
LadleGive == <<Ctx.cauldron, "give", Ctx.ladle>>
ToPlan(host, role, user) == role \in MovesValue /\ <<host, role, user>> # LadleGive
Covered(s) == {q[2] : q \in {r \in s.plan : r[1] = Ctx.cloak /\ r[3] = Ctx.cauldron}}
Complete(s) ==
  \A user \in Covered(s) : LET planned == PlanOf(s, Ctx.cloak, user) IN
    \A q \in s.perm : ToPlan(q[1], q[2], user) /\ q[3] = user => <<q[1], q[2]>> \in planned
IsolationIsComplete == Complete(chain)

\* Both rest on a discipline of the proposals, that the fragments keep, and that can
\* be told from what a proposal gives to a user, takes from it, plans for it and
\* drops from its plan, whatever the order of its calls, and from the chain that it
\* finds, that is not the one it was built from.
ToUser(calls, fns, u) == {calls[i] : i \in {j \in DOMAIN calls : calls[j].fn \in fns /\ calls[j].user = u}}
Gives(calls, u) == UNION {Permissions(c.to, c.roles) : c \in ToUser(calls, {"grantRoles"}, u)}
Takes(calls, u) == UNION {Permissions(c.to, c.roles) : c \in ToUser(calls, {"revokeRoles"}, u)}
Plans(calls, u) == UNION {c.plan : c \in ToUser(calls, {"add", "plan"}, u)}
Drops(calls, u) == UNION {c.plan : c \in ToUser(calls, {"remove"}, u)}
HeldBy(s, u) == {<<q[1], q[2]>> : q \in {r \in s.perm : r[3] = u}}
\* It plans what it gives or what is held, and takes nothing that stays planned
Arms(s, calls, u) ==
  LET planned == PlanOf(s, Ctx.cloak, u) IN
  /\ planned = {} \/ Acts(s, <<Ctx.cloak, u>>)
  /\ Plans(calls, u) \subseteq (Gives(calls, u) \cup HeldBy(s, u)) \ Takes(calls, u)
  /\ Takes(calls, u) \cap planned \subseteq Drops(calls, u) \ Plans(calls, u)
\* It takes all that is planned, for good
Retires(s, calls, u) ==
  LET planned == PlanOf(s, Ctx.cloak, u) IN
  /\ Plans(calls, u) = {} /\ Gives(calls, u) \cap planned = {}
  /\ planned \cap HeldBy(s, u) \subseteq Takes(calls, u)
\* It has the Cloak check the plan (checkPlan), and takes and plans nothing after that
Checks(calls, u) ==
  \E i \in DOMAIN calls :
    /\ calls[i].fn = "check" /\ calls[i].args = <<Ctx.cloak, u>>
    /\ \A j \in (i + 1)..Len(calls) : calls[j].fn \in {"add", "plan", "revokeRoles"} => calls[j].user # u
\* What it gives of value is planned, what it drops from the plan it takes, and the
\* first plan of a user has all that the user holds
Fills(s, calls, u) ==
  LET planned == PlanOf(s, Ctx.cloak, u)
      Moving(ps) == {p \in ps : ToPlan(p[1], p[2], u)}
  IN  u \in Covered(s) \/ (\E p \in Plans(calls, u) : p[1] = Ctx.cauldron) =>
        /\ Moving(Gives(calls, u)) \subseteq (planned \cup Plans(calls, u)) \ Drops(calls, u)
        /\ Moving(Drops(calls, u)) \subseteq Takes(calls, u) \ Gives(calls, u)
        /\ u \in Covered(s) \/ Moving(HeldBy(s, u)) \subseteq
             planned \cup Plans(calls, u) \cup (Takes(calls, u) \ Gives(calls, u))
Permissioned == {"grantRoles", "revokeRoles", "add", "plan", "remove"}
Concerned(calls) == {calls[i].user : i \in {j \in DOMAIN calls : calls[j].fn \in Permissioned}}
KeepsPlans(s, calls) ==
  /\ \A i \in DOMAIN calls :
       /\ calls[i].fn \in {"add", "plan", "remove"} => calls[i].to = Ctx.cloak
       /\ calls[i].fn = "revokeRoles" /\ calls[i].user = Ctx.cloak => ROOT \notin calls[i].roles
  /\ \A u \in Concerned(calls) :
       /\ Fills(s, calls, u)
       /\ <<Ctx.cloak, u>> \in s.out \/ Arms(s, calls, u) \/ Retires(s, calls, u) \/ Checks(calls, u)
PlansAreKept == \A p \in ripe : KeepsPlans(chain, p[2])

\* At first the Cloak has ROOT wherever it has a plan, and can isolate all of its users
ASSUME FirstPlansAssumption ==
  \A id \in DOMAIN Chains : LET first == Chains[id] IN
    /\ \A q \in first.perm : q = <<q[1], q[2], q[3]>>
    /\ \A q \in first.plan : q = <<q[1], q[2], q[3], q[4]>> /\ q[1] = Ctx.cloak /\ HasRole(first, q[3], ROOT, Ctx.cloak)
    /\ Ready(first) /\ Complete(first)
    /\ Ctx.cloak \notin Users[id]

\* An isolated user holds nothing of what its plan took away, whatever proposal
\* is executed in the meantime, the ones built before the isolation included.
IsolatedHoldsNothing ==
  \A q \in chain.out : \A p \in PlanOf(chain, q[1], q[2]) : ~HasRole(chain, p[1], p[2], q[2])

\* Who grants to a user that can be isolated changes its plan too, hence reverts
\* while it is isolated.  This is the discipline of the fragments that grant.
PlansItsGrants(calls, users) ==
  \A i \in DOMAIN calls : calls[i].fn = "grantRoles" /\ calls[i].user \in users =>
    \E j \in DOMAIN calls : /\ calls[j].fn \in {"add", "remove"} /\ calls[j].to = Ctx.cloak
                            /\ calls[j].user = calls[i].user
GrantsArePlanned == \A p \in DOMAIN timelock : PlansItsGrants(p[2], Users[chain.id])

\* Only RestoreUser ends an isolation: no proposal does, and none changes the
\* plan of an isolated user, so that it gets back what was taken away.
IsolationFrozen ==
  [][\A q \in chain.out :
       /\ q \in chain'.out \/ \A p \in PlanOf(chain, q[1], q[2]) : HasRole(chain', p[1], p[2], q[2])
       /\ PlanOf(chain', q[1], q[2]) = PlanOf(chain, q[1], q[2])]_vars

\* What governance has roles on is no deployer's any more: whoever deployed it has
\* lost the ROOT on it, in whatever proposal and by whatever fragment the Timelock got
\* its first role.  No fragment takes it in two cases: orchestrateAccumulatorOracle.ts
\* has it commented out (:38-44), and orchestrateLadle.ts:74 revokes it on the
\* Cauldron once more, and not on the Ladle.
Governed(host) == {q[2] : q \in {r \in chain.perm : r[1] = host /\ r[3] = TIMELOCK}} \ {ROOT}
LeftToDeployers(host) == {"addJoin", "updatePerSecondRate"} \cap Governed(host) # {}
DeployersHaveLeft ==
  \A q \in chain.perm :
    q[2] = ROOT /\ q[3] \in Deployers => Governed(q[1]) = {} \/ LeftToDeployers(q[1])

Holds(user, host, role) ==
  \/ HasRole(chain, host, role, user)
  \/ <<Ctx.cloak, user>> \in chain.out /\ <<host, role>> \in PlanOf(chain, Ctx.cloak, user)
Registered(variable) == {slot \in DOMAIN chain.reg : Len(slot) >= 2 /\ slot[2] = variable}
\* What can be borrowed can be liquidated and repaid: for each ilk of a series
\* whose fyToken the Ladle may mint, the Ladle and the Witch have, or get back
\* when they are restored, what they need on the joins and the fyToken, and the
\* pair has a price and a limit.
BorrowableIsLiquidatable ==
  LET witches == {x[1] : x \in Registered("lines")} IN
  \A slot \in Registered("ilks") :
    LET series == Val(chain, <<Ctx.cauldron, "series", slot[3]>>)
        base   == series[2]
        ilk    == slot[4]
        JoinOf(id) == Get(chain, <<Ctx.ladle, "joins", id>>)
    IN  Holds(Ctx.ladle, series[1], "mint") =>
        /\ \A r \in JoinRoles : Holds(Ctx.ladle, JoinOf(base), r) /\ Holds(Ctx.ladle, JoinOf(ilk), r)
        /\ Holds(Ctx.ladle, series[1], "burn")
        /\ \A r \in JoinRoles : Holds(series[1], JoinOf(base), r)
        /\ Has(chain, <<Ctx.cauldron, "debt", base, ilk>>)
        /\ Has(chain, <<Ctx.cauldron, "spotOracles", base, ilk>>)
        /\ ilk # base => \E witch \in witches :
                           /\ Has(chain, <<witch, "lines", ilk, base>>)
                           /\ Holds(witch, JoinOf(ilk), "exit")
                           /\ Holds(witch, JoinOf(base), "join")
                           /\ Holds(witch, series[1], "burn")

\* What the composite oracle is asked for it can price: each pair of a series
\* with that oracle has a source or a path, and every leg of a path has a source,
\* one way or the other.
Sourced(oracle, a, b) == Has(chain, <<oracle, "sources", a, b>>) \/ Has(chain, <<oracle, "sources", b, a>>)
Routed(oracle, a, b) == Has(chain, <<oracle, "paths", a, b>>) \/ Has(chain, <<oracle, "paths", b, a>>)
PathsArePriced ==
  LET paths == Registered("paths") IN
  /\ \A slot \in paths :
       LET path == <<slot[3]>> \o Val(chain, slot) \o <<slot[4]>>
       IN  \A i \in 1..(Len(path) - 1) : Sourced(slot[1], path[i], path[i + 1])
  /\ \A slot \in Registered("ilks") :
       LET base   == Val(chain, <<Ctx.cauldron, "series", slot[3]>>)[2]
           oracle == Val(chain, <<Ctx.cauldron, "spotOracles", base, slot[4]>>)[1]
       IN  oracle \in {path[1] : path \in paths}
             => Sourced(oracle, base, slot[4]) \/ Routed(oracle, base, slot[4])

\* A proposal is a sequence of calls, and a plan consists of permissions: a host and
\* a role each
Calls(calls) ==
  /\ Len(calls) \in Nat /\ calls \in Seq({calls[i] : i \in 1..Len(calls)})
  /\ \A i \in 1..Len(calls) : calls[i].fn \in {"add", "plan", "remove"} => \A p \in calls[i].plan : p = <<p[1], p[2]>>
ProposalsAreCalls == \A p \in DOMAIN timelock : Calls(p[2])

\* A strategy that is invested is in a pool that the Ladle knows for a series
\* that the Cauldron knows, or it was migrated into another strategy.
InvestedIsListed ==
  \A slot \in Registered("state") :
    Val(chain, slot) = "INVESTED" /\ ~Has(chain, <<Get(chain, <<slot[1], "pool">>), "state">>) =>
      \E id \in Registered("series") :
        /\ Val(chain, id)[1] = Get(chain, <<slot[1], "fyToken">>)
        /\ Has(chain, <<Ctx.ladle, "pools", id[3]>>)
        /\ Get(chain, <<slot[1], "pool">>) \in {ZERO_ADDRESS, Val(chain, <<Ctx.ladle, "pools", id[3]>>)}

\* A ripe proposal that rolls strategies goes through if, and when, all that it ends are
\* invested and matured, all that it only starts are divested, and nobody is isolated.
\* That somebody else divests one first, and spoils it, is not excluded; nothing else
\* that others or other proposals do spoils it.
Ends(p) == {p[2][i].to : i \in {j \in DOMAIN p[2] : p[2][j].fn \in {"divest", "endPool"}}}
Starts(p) == {p[2][i].to : i \in {j \in DOMAIN p[2] : p[2][j].fn = "startPool"}}
ReadyToRoll(p) ==
  /\ \A y \in Ends(p) : Get(chain, <<y, "state">>) = "INVESTED" /\ Maturable(chain, y)
  /\ \A y \in Starts(p) \ Ends(p) : Get(chain, <<y, "state">>) = "DIVESTED"
CanStillRoll ==
  \A p \in ripe : Ends(p) # {} /\ ReadyToRoll(p) /\ chain.out = {} => Executable(chain, p[2])

\* What a proposal takes for its own calls it gives back: nobody is left with the
\* power to mint fyToken or strategy tokens, to move what the Joins hold or to
\* change vaults, but the contracts whose work it is and that can be isolated.
NothingBorrowed ==
  LET treasuries == {Ctx.cauldron} \cup {slot[1] : slot \in UNION {Registered(v) : v \in {"storedBalance", "underlyingId", "state"}}}
      fyTokens == {Val(chain, slot)[1] : slot \in Registered("series")}
  IN  \A q \in chain.perm : q[2] \in {"mint", "join", "exit", "pour", "tweak"} /\ q[1] \in treasuries =>
        \/ q[3] \in {Ctx.ladle, Ctx.witch} \cup fyTokens
        \/ <<Ctx.cloak, q[3]>> \in Planned(chain)

\* An account whose roles were revoked has none left, anywhere: what one script
\* grants the other one knows of.
RevokedIsOut ==
  \A p \in executed : p[1] \in {"revokeDevelopers", "revokeGovernors"} =>
    \A i \in DOMAIN p[2] : \A q \in chain.perm : q[3] # p[2][i].user

Fits(calls) == Builds(calls) /\ Executable(chain, calls)
\* Once a contract is orchestrated its roles are complete: if another one has
\* orchestrated what a script needs, and it needs nothing else, whatever more was
\* executed, its proposal is built and goes through when nobody is isolated.
RolesAreComplete ==
  \A x \in Operates :
    ~Pending(x[1]) /\ Pending(x[2]) /\ chain.out = {}
      => Fits(Build(x[2], chain))

(* What the runs check.                                                    *)
\* The Cloak can isolate at once whoever holds what is planned for it, and what is
\* planned is every power to move value but the Ladle's `give'.
IsolationWorks == IsolationIsReady /\ IsolationIsComplete

\* What was added to the protocol works with what was there: series, ilks, joins,
\* oracles and strategies that different fragments list in different contracts.
ListingsAreWhole == BorrowableIsLiquidatable /\ PathsArePriced /\ InvestedIsListed

\* Powers that are needed once are given back: deployers leave what governance takes
\* over, but for the Ladle and the accumulator oracle; nobody keeps the power to mint
\* or move value that a proposal took for its own calls; who leaves the team, leaves it.
PowersAreReturned == DeployersHaveLeft /\ NothingBorrowed /\ RevokedIsOut

\* What is on the Timelock are calls that contracts take; a proposal that grants
\* something to a user of the Cloak changes its plan as well, hence reverts while the
\* user is isolated; and what is ripe plans what it gives and drops what it takes, on
\* the chain that it finds, not only on the one that it was built from.  The theorems
\* on isolation rest on it.
KeptDiscipline == ProposalsAreCalls /\ GrantsArePlanned /\ PlansAreKept

\* On the conditions that come with each: a roll that is due, and a script whose needs
\* another one has met, go through.
ReadyProposalsGoThrough == CanStillRoll /\ RolesAreComplete
=============================================================================
