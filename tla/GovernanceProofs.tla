-------------------------- MODULE GovernanceProofs ---------------------------
(***************************************************************************)
(* Proofs about Governance, for any chain at first, scripts, signers and   *)
(* bounds.  First what a call and a proposal leave alone, then the scripts *)
(* and the Timelock; what each theorem asks of the scripts comes with it.  *)
(***************************************************************************)
EXTENDS Discipline, NaturalsInduction, WellFoundedInduction, TLAPS

\* A chain is a record with these fields, and who is isolated is a pair
Fields(s) == s \in [id : {s.id}, perm : {s.perm}, plan : {s.plan}, out : {s.out}, reg : {s.reg}, ok : BOOLEAN]
Pairs(s) == \A q \in s.out : q = <<q[1], q[2]>>
\* t is s after something that ends no isolation and changes no plan in execution
Frozen(s, t) ==
  /\ Fields(t)
  /\ t.out = s.out /\ t.id = s.id
  /\ \A q \in s.out : PlanOf(t, q[1], q[2]) = PlanOf(s, q[1], q[2])

-----------------------------------------------------------------------------
(* Calls.                                                                  *)

\* The permissions that a call grants and revokes, plans and drops from a plan
Granted(c) == IF c.fn = "grantRoles" THEN {<<c.to, r, c.user>> : r \in c.roles} ELSE {}
Revoked(c) == IF c.fn = "revokeRoles" THEN {<<c.to, r, c.user>> : r \in c.roles} ELSE {}
Added(c) == IF c.fn \in {"add", "plan"} THEN {<<c.to, c.user, p[1], p[2]>> : p \in c.plan} ELSE {}
Dropped(c) == IF c.fn = "remove" THEN {<<c.to, c.user, p[1], p[2]>> : p \in c.plan} ELSE {}
\* t is s but for its storage
Grown(s, t) ==
  Fields(t) /\ t.id = s.id /\ t.perm = s.perm /\ t.plan = s.plan /\ t.out = s.out /\ t.ok = s.ok

LEMMA PutKeeps ==
  ASSUME NEW s, Fields(s), NEW slot, NEW v
  PROVE  Grown(s, Put(s, slot, v))
  <1> DEFINE reg == Enter(s.reg, slot, v)
  <1>1. Put(s, slot, v) = [s EXCEPT !.reg = reg]
    BY DEF Put
  <1> HIDE DEF reg
  <1> QED BY <1>1 DEF Fields, Grown

LEMMA GrownIsTransitive ==
  ASSUME NEW s, NEW t, NEW u, Grown(s, t), Grown(t, u)
  PROVE  Grown(s, u)
  BY DEF Grown

LEMMA MoveKeeps ==
  ASSUME NEW s, Fields(s), NEW from, NEW to, NEW n
  PROVE  Grown(s, Move(s, from, to, n))
  <1> DEFINE t == Put(s, from, Amount(s, from) - n)
  <1>1. Grown(s, t) /\ Fields(t)
    BY PutKeeps DEF Grown
  <1> HIDE DEF t
  <1>2. Grown(t, Put(t, to, Amount(t, to) + n))
    BY <1>1, PutKeeps
  <1>3. Grown(s, Put(t, to, Amount(t, to) + n))
    BY <1>1, <1>2, GrownIsTransitive
  <1> QED BY <1>3 DEF Move, t

\* Only add, remove and plan change a plan, only grantRoles grants, and no call
\* isolates or restores
LEMMA ResultKeeps ==
  ASSUME NEW s, Fields(s), NEW c
  PROVE  LET t == Result(s, c) IN
         /\ Fields(t) /\ t.out = s.out /\ t.ok = s.ok /\ t.id = s.id
         /\ c.fn \notin {"add", "plan", "remove"} => t.plan = s.plan
         /\ c.fn \in {"add", "plan"} =>
              t.plan = s.plan \cup {<<c.to, c.user, p[1], p[2]>> : p \in c.plan}
         /\ c.fn = "remove" => t.plan = s.plan \ {<<c.to, c.user, p[1], p[2]>> : p \in c.plan}
         /\ c.fn \notin {"grantRoles", "revokeRoles"} => t.perm = s.perm
         /\ c.fn = "grantRoles" => t.perm = s.perm \cup Granted(c)
         /\ c.fn = "revokeRoles" => t.perm = s.perm \ Revoked(c)
  <1> DEFINE t == Result(s, c)
  <1>0. ASSUME Grown(s, t)
        PROVE  /\ Fields(t) /\ t.out = s.out /\ t.ok = s.ok /\ t.id = s.id /\ t.plan = s.plan
               /\ t.perm = s.perm
    <2> HIDE DEF t
    <2> QED BY <1>0 DEF Grown
  <1>1. CASE c.fn \in {"grantRoles", "revokeRoles"}
    <2>1. CASE c.fn = "grantRoles"
      <3> DEFINE perm == s.perm \cup Granted(c)
      <3>1. t = [s EXCEPT !.perm = perm]
        BY <2>1 DEF Result, Granted
      <3>2. Fields(t) /\ t.out = s.out /\ t.ok = s.ok /\ t.id = s.id /\ t.plan = s.plan
            /\ t.perm = perm /\ t.reg = s.reg
        <4> HIDE DEF t, perm
        <4> QED BY <3>1 DEF Fields
      <3> QED BY <2>1, <3>2
    <2>2. CASE c.fn = "revokeRoles"
      <3> DEFINE perm == s.perm \ Revoked(c)
      <3>1. t = [s EXCEPT !.perm = perm]
        BY <2>2 DEF Result, Revoked
      <3>2. Fields(t) /\ t.out = s.out /\ t.ok = s.ok /\ t.id = s.id /\ t.plan = s.plan
            /\ t.perm = perm /\ t.reg = s.reg
        <4> HIDE DEF t, perm
        <4> QED BY <3>1 DEF Fields
      <3> QED BY <2>2, <3>2
    <2> QED BY <1>1, <2>1, <2>2
  <1>2. CASE c.fn \in {"add", "plan", "remove"}
    BY <1>2 DEF Result, Fields
  <1>3. CASE c.fn \in {"transfer", "exit", "deposit", "join", "mint"}
    <2>1. Grown(s, t)
      <3>1. CASE c.fn = "transfer"
        BY <3>1, MoveKeeps DEF Result
      <3>2. CASE c.fn \in {"join", "mint"}
        BY <3>2, PutKeeps DEF Result
      <3>3. CASE c.fn = "exit"
        <4> DEFINE u == Put(s, <<c.to, "storedBalance">>, Val(s, <<c.to, "storedBalance">>) - c.args[2])
        <4>1. Grown(s, u) /\ Fields(u)
          BY PutKeeps DEF Grown
        <4>2. t = Move(u, Bal(Val(s, <<c.to, "asset">>), c.to), Bal(Val(s, <<c.to, "asset">>), c.args[1]), c.args[2])
          BY <3>3 DEF Result
        <4> HIDE DEF u, t
        <4> QED BY <4>1, <4>2, MoveKeeps, GrownIsTransitive
      <3>4. CASE c.fn = "deposit"
        <4> DEFINE u == Put(s, <<c.to, "storedBalance">>, Amount(s, <<c.to, "storedBalance">>) + c.args[3])
        <4>1. Grown(s, u) /\ Fields(u)
          BY PutKeeps DEF Grown
        <4>2. t = Move(u, Bal(Val(s, <<c.to, "asset">>), c.args[2]), Bal(Val(s, <<c.to, "asset">>), c.to), c.args[3])
          BY <3>4 DEF Result
        <4> HIDE DEF u, t
        <4> QED BY <4>1, <4>2, MoveKeeps, GrownIsTransitive
      <3> QED BY <1>3, <3>1, <3>2, <3>3, <3>4
    <2> QED BY <1>0, <1>3, <2>1
  <1>4. CASE c.fn \in {"invest", "init", "eject", "divest", "endPool", "startPool"}
    <2>1. Grown(s, t)
      <3>1. CASE c.fn = "invest"
        <4> DEFINE u == Put(s, <<c.to, "state">>, "INVESTED")
                   v == Put(u, <<c.to, "pool">>, c.args[1])
                   w == Put(v, <<c.to, "fyToken">>, Get(s, <<c.args[1], "fyToken">>))
        <4>1. Grown(s, u) /\ Fields(u)
          BY PutKeeps DEF Grown
        <4>2. Grown(u, v) /\ Fields(v)
          <5> HIDE DEF u
          <5> QED BY <4>1, PutKeeps DEF Grown
        <4>3. Grown(v, w) /\ Fields(w)
          <5> HIDE DEF v
          <5> QED BY <4>2, PutKeeps DEF Grown
        <4>4. t = IF Has(s, <<c.args[1], "state">>) THEN Put(w, <<c.args[1], "state">>, "DIVESTED") ELSE w
          BY <3>1 DEF Result
        <4> HIDE DEF t, u, v, w
        <4>5. Grown(s, w)
          BY <4>1, <4>2, <4>3, GrownIsTransitive
        <4> QED BY <4>3, <4>4, <4>5, PutKeeps, GrownIsTransitive
      <3>2. CASE c.fn \in {"init", "eject", "divest"} /\ Has(s, <<c.to, "state">>)
        BY <3>2, PutKeeps DEF Result
      <3>3. CASE c.fn \in {"init", "eject", "divest"} /\ ~Has(s, <<c.to, "state">>)
        <4>1. t = IF "slot" \in DOMAIN c THEN Put(s, c.slot, c.value) ELSE s
          BY <3>3 DEF Result
        <4>2. Grown(s, s)
          BY DEF Grown
        <4> HIDE DEF t
        <4> QED BY <4>1, <4>2, PutKeeps
      <3>4. CASE c.fn = "endPool"
        BY <3>4, PutKeeps DEF Result
      <3>5. CASE c.fn = "startPool"
        <4> DEFINE u == Put(s, <<c.to, "state">>, "INVESTED")
        <4>1. Grown(s, u) /\ Fields(u)
          BY PutKeeps DEF Grown
        <4>2. t = Put(u, <<Val(s, <<c.to, "nextPool">>), "state">>, "DIVESTED")
          BY <3>5 DEF Result
        <4> HIDE DEF u, t
        <4> QED BY <4>1, <4>2, PutKeeps, GrownIsTransitive
      <3> QED BY <1>4, <3>1, <3>2, <3>3, <3>4, <3>5
    <2> QED BY <1>0, <1>4, <2>1
  <1>5. CASE c.fn \notin {"grantRoles", "revokeRoles", "add", "plan", "remove", "transfer", "exit", "deposit",
                          "join", "mint", "invest", "init", "eject", "divest", "endPool", "startPool"}
    <2>1. t = IF "slot" \in DOMAIN c THEN Put(s, c.slot, c.value) ELSE s
      BY <1>5 DEF Result
    <2>2. Grown(s, s)
      BY DEF Grown
    <2>3. Grown(s, t)
      <3> HIDE DEF t
      <3> QED BY <2>1, <2>2, PutKeeps
    <2>4. /\ Fields(t) /\ t.out = s.out /\ t.ok = s.ok /\ t.id = s.id /\ t.plan = s.plan
          /\ t.perm = s.perm
      <3> HIDE DEF t
      <3> QED BY <2>3 DEF Grown
    <2> QED BY <1>5, <2>3, <2>4
  <1> QED BY <1>1, <1>2, <1>3, <1>4, <1>5

\* What a call does to the permissions held and to those planned
LEMMA ResultMoves ==
  ASSUME NEW s, Fields(s), NEW c
  PROVE  LET t == Result(s, c) IN
         /\ t.perm = (s.perm \ Revoked(c)) \cup Granted(c) /\ t.perm \subseteq s.perm \cup Granted(c)
         /\ t.plan = (s.plan \ Dropped(c)) \cup Added(c)
  <1> DEFINE t == Result(s, c)
  <1>1. /\ c.fn \notin {"grantRoles", "revokeRoles"} => t.perm = s.perm
        /\ c.fn = "grantRoles" => t.perm = s.perm \cup Granted(c)
        /\ c.fn = "revokeRoles" => t.perm = s.perm \ Revoked(c)
    BY ResultKeeps
  <1> DEFINE quads == {<<c.to, c.user, p[1], p[2]>> : p \in c.plan}
  <1>2. /\ c.fn \notin {"add", "plan", "remove"} => t.plan = s.plan
        /\ c.fn \in {"add", "plan"} => t.plan = s.plan \cup Added(c)
        /\ c.fn = "remove" => t.plan = s.plan \ Dropped(c)
    <2>1. c.fn \notin {"add", "plan", "remove"} => t.plan = s.plan
      BY ResultKeeps
    <2>2. c.fn \in {"add", "plan"} => t.plan = s.plan \cup quads
      BY DEF Result, Fields
    <2>3. c.fn = "remove" => t.plan = s.plan \ quads
      BY DEF Result, Fields
    <2>4. (c.fn \in {"add", "plan"} => Added(c) = quads) /\ (c.fn = "remove" => Dropped(c) = quads)
      BY DEF Added, Dropped
    <2> HIDE DEF t, quads
    <2> QED BY <2>1, <2>2, <2>3, <2>4
  <1>3. /\ c.fn # "grantRoles" => Granted(c) = {}
        /\ c.fn # "revokeRoles" => Revoked(c) = {}
        /\ c.fn \notin {"add", "plan"} => Added(c) = {}
        /\ c.fn # "remove" => Dropped(c) = {}
    BY DEF Granted, Revoked, Added, Dropped
  <1> HIDE DEF t
  <1>4. t.perm = (s.perm \ Revoked(c)) \cup Granted(c)
    BY <1>1, <1>3
  <1>5. t.plan = (s.plan \ Dropped(c)) \cup Added(c)
    BY <1>2, <1>3
  <1> QED BY <1>4, <1>5 DEF t

LEMMA CallIsFrozen ==
  ASSUME NEW s, Fields(s), Pairs(s), NEW c, Accepts(s, c), c.fn # "plan"
  PROVE  Frozen(s, Result(s, c))
  <1> DEFINE t == Result(s, c)
  <1>1. Fields(t) /\ t.out = s.out /\ t.id = s.id
    BY ResultKeeps
  <1>2. CASE c.fn \notin {"add", "remove"}
    <2>1. t.plan = s.plan
      BY <1>2, ResultKeeps
    <2>2. Frozen(s, t)
      <3> HIDE DEF t
      <3> QED BY <1>1, <2>1 DEF Frozen, PlanOf
    <2> QED BY <2>2
  <1>3. CASE c.fn \in {"add", "remove"}
    <2>1. <<c.to, c.user>> \notin s.out
      <3>1. NotExecuted(s, c)
        BY <1>3, Zenon DEF Accepts
      <3> QED BY <3>1 DEF NotExecuted
    <2>2. \A x : x[1] # c.to \/ x[2] # c.user => (x \in t.plan <=> x \in s.plan)
      <3> DEFINE changed == {<<c.to, c.user, p[1], p[2]>> : p \in c.plan}
      <3>1. t.plan = s.plan \cup changed \/ t.plan = s.plan \ changed
        BY <1>3, ResultKeeps
      <3>2. \A x \in changed : x[1] = c.to /\ x[2] = c.user
        OBVIOUS
      <3> HIDE DEF t, changed
      <3> QED BY <3>1, <3>2
    <2>3. ASSUME NEW q \in s.out PROVE PlanOf(t, q[1], q[2]) = PlanOf(s, q[1], q[2])
      <3>1. q[1] # c.to \/ q[2] # c.user
        BY <2>1, <2>3 DEF Pairs
      <3> HIDE DEF t
      <3>2. {x \in t.plan : x[1] = q[1] /\ x[2] = q[2]} = {x \in s.plan : x[1] = q[1] /\ x[2] = q[2]}
        BY <2>2, <3>1
      <3> QED BY <3>2 DEF PlanOf
    <2>4. Frozen(s, t)
      BY <1>1, <2>3 DEF Frozen
    <2> QED BY <2>4
  <1> QED BY <1>2, <1>3

LEMMA FrozenIsTransitive ==
  ASSUME NEW s, NEW t, NEW u, Frozen(s, t), Frozen(t, u)
  PROVE  Frozen(s, u)
  BY DEF Frozen

-----------------------------------------------------------------------------
(* Proposals.                                                              *)

LEMMA LeastOf ==
  ASSUME NEW T, T \subseteq Nat, T # {}
  PROVE  \E x \in T : \A y \in T : x <= y
  <1> DEFINE R == {p \in Nat \X Nat : p[1] < p[2]}
  <1>1. IsWellFoundedOn(R, Nat)
    BY NatLessThanWellFounded DEF OpToRel
  <1>2. \E x \in T : \A y \in T : ~ (<<y, x>> \in R)
    <2> HIDE DEF R
    <2> QED BY <1>1, WFMin
  <1>3. PICK x \in T : \A y \in T : ~ (<<y, x>> \in R)
    BY <1>2
  <1>4. ASSUME NEW y \in T PROVE x <= y
    <2>1. y \in Nat /\ x \in Nat
      OBVIOUS
    <2>2. ~(y < x)
      BY <1>3, <2>1
    <2> QED BY <2>1, <2>2
  <1> QED BY <1>4

\* What goes from each position to the next one gets to all of them
LEMMA UpTo ==
  ASSUME NEW n \in Nat, NEW T, 0 \in T, \A i \in 1..n : i - 1 \in T => i \in T
  PROVE  \A i \in 0..n : i \in T
  <1> DEFINE Bad == {i \in 0..n : i \notin T}
  <1>1. SUFFICES ASSUME Bad # {} PROVE FALSE
    OBVIOUS
  <1>2. PICK m \in Bad : \A y \in Bad : m <= y
    <2>1. Bad \subseteq Nat
      OBVIOUS
    <2> HIDE DEF Bad
    <2> QED BY <1>1, <2>1, LeastOf
  <1>3. m \in 0..n /\ m \notin T /\ m # 0
    BY <1>2
  <1>4. m \in 1..n /\ m - 1 \in 0..n /\ ~(m <= m - 1)
    BY <1>3
  <1>5. m - 1 \in T
    BY <1>2, <1>4
  <1> QED BY <1>3, <1>4, <1>5

\* The chains between the calls: a function with this equation exists
RunOf(s, calls, n, f) ==
  f = [i \in 0..n |-> IF i = 0 THEN s ELSE Step(f[i - 1], calls[i])]

LEMMA RunningExists ==
  ASSUME NEW s, NEW calls, NEW n \in Nat
  PROVE  \E f : RunOf(s, calls, n, f)
  <1> DEFINE T == {m \in 0..n : \E f : RunOf(s, calls, m, f)}
  <1>1. 0 \in T
    <2>1. RunOf(s, calls, 0, [i \in 0..0 |-> s])
      BY DEF RunOf
    <2> QED BY <2>1
  <1>2. ASSUME NEW m \in 1..n, m - 1 \in T PROVE m \in T
    <2>1. PICK g : RunOf(s, calls, m - 1, g)
      BY <1>2
    <2> DEFINE f == [i \in 0..m |-> IF i = m THEN Step(g[m - 1], calls[m]) ELSE g[i]]
    <2>2. \A i \in 0..(m - 1) : g[i] = IF i = 0 THEN s ELSE Step(g[i - 1], calls[i])
      BY <2>1 DEF RunOf
    <2>3. \A i \in 0..m : f[i] = IF i = 0 THEN s ELSE Step(f[i - 1], calls[i])
      <3> TAKE i \in 0..m
      <3>1. CASE i = m
        BY <1>2, <3>1
      <3>2. CASE i # m
        <4>1. i \in 0..(m - 1) /\ f[i] = g[i]
          BY <1>2, <3>2
        <4>2. i # 0 => f[i - 1] = g[i - 1]
          BY <1>2, <3>2
        <4> HIDE DEF f
        <4> QED BY <2>2, <4>1, <4>2
      <3> QED BY <3>1, <3>2
    <2>4. RunOf(s, calls, m, f)
      <3>1. f = [i \in 0..m |-> f[i]]
        OBVIOUS
      <3> HIDE DEF f
      <3> QED BY <2>3, <3>1 DEF RunOf
    <2> QED BY <2>4
  <1> HIDE DEF T
  <1>3. n \in T
    BY <1>1, <1>2, UpTo
  <1> QED BY <1>3 DEF T

\* No call is to the old brake, which replaces plans
NoPlan(calls) == \A i \in 1..Len(calls) : calls[i].fn # "plan"

\* f[i] is the chain after i of the calls
Chain(s, calls, f) ==
  f[0] = s /\ \A i \in 1..Len(calls) : f[i] = Step(f[i - 1], calls[i])

LEMMA RunIsChain ==
  ASSUME NEW s, NEW calls, Len(calls) \in Nat
  PROVE  \E f : Chain(s, calls, f) /\ Run(s, calls) = f[Len(calls)]
  <1> DEFINE n == Len(calls)
             run == CHOOSE f : RunOf(s, calls, n, f)
  <1>1. RunOf(s, calls, n, run)
    <2> HIDE DEF n
    <2> QED BY RunningExists DEF n
  <1>2. Run(s, calls) = run[n]
    BY DEF Run, RunOf
  <1> HIDE DEF run
  <1>3. \A i \in 0..n : run[i] = IF i = 0 THEN s ELSE Step(run[i - 1], calls[i])
    BY <1>1 DEF RunOf
  <1>4. Chain(s, calls, run)
    BY <1>3 DEF Chain
  <1> QED BY <1>2, <1>4

LEMMA StepKeeps ==
  ASSUME NEW s, Fields(s), NEW c
  PROVE  /\ Fields(Step(s, c)) /\ Step(s, c).out = s.out /\ Step(s, c).id = s.id
         /\ Step(s, c).ok => s.ok /\ Accepts(s, c) /\ Step(s, c) = Result(s, c)
  <1>1. CASE s.ok /\ Accepts(s, c)
    BY <1>1, ResultKeeps DEF Step
  <1>2. CASE ~(s.ok /\ Accepts(s, c))
    BY <1>2 DEF Step, Fields
  <1> QED BY <1>1, <1>2

\* The calls go through one after the other, f[i] being the chain after i of them
Through(s, calls, f) ==
  /\ f[0] = s
  /\ \A i \in 0..Len(calls) : Fields(f[i]) /\ f[i].out = s.out /\ f[i].id = s.id
  /\ \A i \in 1..Len(calls) : Accepts(f[i - 1], calls[i]) /\ f[i] = Result(f[i - 1], calls[i])

LEMMA RunGoesThrough ==
  ASSUME NEW s, Fields(s), NEW calls, Len(calls) \in Nat, Run(s, calls).ok
  PROVE  \E f : Through(s, calls, f) /\ Run(s, calls) = f[Len(calls)]
  <1> DEFINE n == Len(calls)
  <1>1. PICK f : Chain(s, calls, f) /\ Run(s, calls) = f[n]
    BY RunIsChain
  <1> DEFINE Kept == {i \in 0..n : Fields(f[i]) /\ f[i].out = s.out /\ f[i].id = s.id}
             Fine == {i \in 0..n : f[n - i].ok}
  <1> HIDE DEF n
  <1>2. n \in Nat /\ \A i \in 1..n : f[i] = Step(f[i - 1], calls[i])
    BY <1>1 DEF Chain, n
  <1>3. \A i \in 0..n : i \in Kept
    <2>1. 0 \in Kept
      BY <1>1, <1>2 DEF Chain
    <2>2. \A i \in 1..n : i - 1 \in Kept => i \in Kept
      BY <1>2, StepKeeps
    <2> HIDE DEF Kept
    <2> QED BY <1>2, <2>1, <2>2, UpTo
  <1>4. \A i \in 0..n : i \in Fine
    <2>1. 0 \in Fine
      BY <1>1, <1>2
    <2>2. ASSUME NEW i \in 1..n, i - 1 \in Fine PROVE i \in Fine
      <3>1. n - i \in 0..n /\ n - i + 1 \in 1..n /\ n - (i - 1) = n - i + 1 /\ (n - i + 1) - 1 = n - i
        BY <1>2
      <3>2. f[n - i + 1] = Step(f[n - i], calls[n - i + 1]) /\ f[n - i + 1].ok
        BY <1>2, <2>2, <3>1
      <3>3. Fields(f[n - i])
        BY <1>3, <3>1
      <3> QED BY <1>2, <3>2, <3>3, StepKeeps
    <2> HIDE DEF Fine
    <2> QED BY <1>2, <2>1, <2>2, UpTo
  <1>5. ASSUME NEW i \in 1..n
        PROVE  Accepts(f[i - 1], calls[i]) /\ f[i] = Result(f[i - 1], calls[i])
    <2>1. i \in 0..n /\ i - 1 \in 0..n /\ n - i \in 0..n /\ n - (n - i) = i
      BY <1>2
    <2>2. Fields(f[i - 1]) /\ f[i].ok
      BY <1>3, <1>4, <2>1
    <2> QED BY <1>2, <2>2, StepKeeps
  <1>6. Through(s, calls, f)
    BY <1>1, <1>3, <1>5 DEF Through, Chain, n
  <1> QED BY <1>1, <1>6 DEF n

LEMMA SubSeqIsPart ==
  ASSUME NEW S, NEW q \in Seq(S), NEW m \in Nat, NEW n \in Nat, 1 <= m, m <= n + 1, n <= Len(q)
  PROVE  LET r == SubSeq(q, m, n) IN
         r \in Seq(S) /\ Len(r) = n + 1 - m /\ \A i \in 1..Len(r) : r[i] = q[m + i - 1]
  OBVIOUS

\* A proposal that can be executed goes through call by call, in two parts or not
LEMMA ExecGoesThrough ==
  ASSUME NEW s, Fields(s), NEW calls, Calls(calls), Executable(s, calls)
  PROVE  \E f : Through(s, calls, f) /\ Exec(s, calls) = f[Len(calls)]
  <1> DEFINE n == Len(calls)
             first == SubSeq(calls, 1, Part)
             rest == SubSeq(calls, Part + 1, n)
             t == Run(s, first)
  <1>1. CASE n <= Part
    BY <1>1, RunGoesThrough DEF Exec, Executable, Calls
  <1>2. CASE ~(n <= Part)
    <2>1. n \in Nat /\ n > 60 /\ Part = 60
      BY <1>2 DEF Calls, Part
    <2>2. /\ Len(first) = 60 /\ \A i \in 1..60 : first[i] = calls[i]
          /\ Len(rest) = n - 60 /\ \A i \in 1..(n - 60) : rest[i] = calls[60 + i]
      <3>1. calls \in Seq({calls[i] : i \in 1..n}) /\ 60 \in Nat /\ 61 \in Nat /\ 1 \in Nat
        BY DEF Calls
      <3>2. Len(first) = 60 /\ \A i \in 1..60 : first[i] = calls[1 + i - 1]
        <4>1. 1 <= 1 /\ 1 <= 60 + 1 /\ 60 <= Len(calls)
          BY <2>1
        <4> QED BY <2>1, <3>1, <4>1, SubSeqIsPart
      <3>3. Len(rest) = n + 1 - 61 /\ \A i \in 1..Len(rest) : rest[i] = calls[61 + i - 1]
        <4>1. 1 <= 61 /\ 61 <= n + 1 /\ n <= Len(calls) /\ Part + 1 = 61
          BY <2>1
        <4> QED BY <2>1, <3>1, <4>1, SubSeqIsPart
      <3> HIDE DEF first, rest, n
      <3>4. \A i \in 1..60 : 1 + i - 1 = i
        OBVIOUS
      <3>5. n + 1 - 61 = n - 60 /\ \A i \in 1..(n - 60) : 61 + i - 1 = 60 + i
        BY <2>1
      <3>6. ASSUME NEW i \in 1..60 PROVE first[i] = calls[i]
        BY <3>2, <3>4
      <3>7. ASSUME NEW i \in 1..(n - 60) PROVE rest[i] = calls[60 + i]
        <4>1. 61 + i - 1 = 60 + i /\ i \in 1..Len(rest)
          BY <3>3, <3>5
        <4>2. rest[i] = calls[61 + i - 1]
          BY <3>3, <4>1
        <4> QED BY <4>1, <4>2
      <3> QED BY <3>2, <3>3, <3>5, <3>6, <3>7
    <2>3. Exec(s, calls) = IF t.ok THEN Run(t, rest) ELSE t
      BY <1>2 DEF Exec
    <2> HIDE DEF first, rest, t
    <2>4. t.ok /\ Exec(s, calls) = Run(t, rest) /\ Run(t, rest).ok
      BY <2>3 DEF Executable
    <2>5. PICK f : Through(s, first, f) /\ t = f[60]
      <3>1. Len(first) \in Nat /\ Run(s, first).ok /\ t = Run(s, first)
        BY <2>2, <2>4 DEF t
      <3>2. \E f : Through(s, first, f) /\ t = f[Len(first)]
        BY <3>1, RunGoesThrough
      <3> QED BY <2>2, <3>2
    <2>6. Fields(t) /\ t.out = s.out /\ t.id = s.id
      <3>1. 60 \in 0..Len(first)
        BY <2>2
      <3> QED BY <2>5, <3>1 DEF Through
    <2>7. n - 60 \in Nat
      BY <2>1
    <2> HIDE DEF n
    <2>8. PICK g : Through(t, rest, g) /\ Run(t, rest) = g[n - 60]
      <3>1. Len(rest) = n - 60 /\ Len(rest) \in Nat
        BY <2>2, <2>7 DEF n
      <3> QED BY <2>4, <2>6, <3>1, RunGoesThrough
    <2> DEFINE h == [i \in 0..n |-> IF i <= 60 THEN f[i] ELSE g[i - 60]]
    <2>9. h[0] = s /\ Exec(s, calls) = h[n]
      <3>1. 0 \in 0..n /\ n \in 0..n /\ 0 <= 60 /\ ~(n <= 60)
        BY <2>1
      <3> QED BY <2>4, <2>5, <2>8, <3>1 DEF Through
    <2>10. \A i \in 0..60 : i \in 0..n /\ h[i] = f[i]
      BY <2>1
    <2>11. \A i \in 60..n : i \in 0..n /\ i - 60 \in 0..(n - 60) /\ h[i] = g[i - 60]
      <3> TAKE i \in 60..n
      <3>1. i \in 0..n /\ i - 60 \in 0..(n - 60) /\ (i = 60 \/ ~(i <= 60))
        BY <2>1
      <3>2. 60 - 60 = 0 /\ g[0] = t /\ h[60] = f[60]
        BY <2>1, <2>8 DEF Through
      <3> QED BY <2>5, <3>1, <3>2
    <2> HIDE DEF h
    <2>12. ASSUME NEW i \in 0..n PROVE Fields(h[i]) /\ h[i].out = s.out /\ h[i].id = s.id
      <3>1. CASE i \in 0..60
        <4>1. i \in 0..Len(first) /\ h[i] = f[i]
          BY <2>2, <2>10, <3>1
        <4> QED BY <2>5, <4>1 DEF Through
      <3>2. CASE i \in 60..n
        <4> DEFINE j == i - 60
        <4>1. j \in 0..Len(rest) /\ h[i] = g[j]
          BY <2>2, <2>11, <3>2
        <4> HIDE DEF j
        <4> QED BY <2>6, <2>8, <4>1 DEF Through
      <3> QED BY <2>1, <3>1, <3>2
    <2>13. ASSUME NEW i \in 1..n
           PROVE  Accepts(h[i - 1], calls[i]) /\ h[i] = Result(h[i - 1], calls[i])
      <3>1. CASE i <= 60
        <4>1. i \in 1..60 /\ i \in 0..60 /\ i - 1 \in 0..60
          BY <2>1, <3>1
        <4>2. h[i] = f[i] /\ h[i - 1] = f[i - 1] /\ first[i] = calls[i] /\ i \in 1..Len(first)
          BY <2>2, <2>10, <4>1
        <4> QED BY <2>5, <4>2 DEF Through
      <3>2. CASE ~(i <= 60)
        <4> DEFINE j == i - 60
                   k == i - 1
        <4>1. i \in 60..n /\ k \in 60..n /\ j \in 1..(n - 60) /\ k - 60 = j - 1 /\ 60 + j = i
          BY <2>1, <3>2
        <4>2. h[i] = g[j] /\ h[k] = g[k - 60]
          BY <2>11, <4>1
        <4> HIDE DEF j
        <4>3. rest[j] = calls[60 + j] /\ j \in 1..Len(rest)
          BY <2>2, <4>1 DEF n
        <4>4. Accepts(g[j - 1], rest[j]) /\ g[j] = Result(g[j - 1], rest[j])
          BY <2>8, <4>3 DEF Through
        <4> QED BY <4>1, <4>2, <4>3, <4>4
      <3> QED BY <3>1, <3>2
    <2>14. Through(s, calls, h)
      BY <2>9, <2>12, <2>13 DEF Through, n
    <2> QED BY <2>9, <2>14 DEF n
  <1> QED BY <1>1, <1>2

LEMMA ExecIsFrozen ==
  ASSUME NEW s, Fields(s), Pairs(s), NEW calls, Calls(calls), NoPlan(calls), Executable(s, calls)
  PROVE  Frozen(s, Exec(s, calls))
  <1> DEFINE n == Len(calls)
  <1>1. PICK f : Through(s, calls, f) /\ Exec(s, calls) = f[n]
    BY ExecGoesThrough
  <1> DEFINE T == {i \in 0..n : Frozen(s, f[i])}
  <1> HIDE DEF n
  <1>2. n \in Nat
    BY DEF Calls, n
  <1>3. 0 \in T
    BY <1>1, <1>2 DEF Through, Frozen, n
  <1>4. ASSUME NEW i \in 1..n, i - 1 \in T PROVE i \in T
    <2>1. i - 1 \in 0..n /\ i \in 0..n
      BY <1>2
    <2>2. Fields(f[i - 1]) /\ Pairs(f[i - 1])
      BY <1>1, <2>1 DEF Through, Pairs, n
    <2>3. Frozen(f[i - 1], f[i])
      BY <1>1, <2>2, CallIsFrozen DEF Through, NoPlan, n
    <2> QED BY <1>4, <2>1, <2>3, FrozenIsTransitive
  <1> HIDE DEF T
  <1>5. n \in T
    BY <1>2, <1>3, <1>4, UpTo
  <1> QED BY <1>1, <1>5 DEF T, n

-----------------------------------------------------------------------------
(* The scripts and the Timelock.                                           *)

\* A chain of one of the networks, on which no call has reverted
Sound(s) == Fields(s) /\ Pairs(s) /\ s.ok /\ s.id \in DOMAIN Chains

\* What some theorems ask of the proposals on the Timelock, besides that they are
\* calls: none is to `plan', of EmergencyBrake V1
NoOldPlans == \A p \in DOMAIN timelock : NoPlan(p[2])

\* A proposal comes with its script, that built it from the chain as it was at some time
Good(p) == p = <<p[1], p[2]>> /\ p[1] \in Scripts /\ \E s : Sound(s) /\ p[2] = Build(p[1], s)
Sent(tx) ==
  /\ tx = <<tx[1], tx[2], tx[3]>> /\ tx[1] \in {"propose", "approve", "execute"} /\ tx[3] \in Signers
  /\ Good(tx[2])
Running(j) ==
  \/ j = Idle
  \/ \E p : Good(p) /\ (j = [pc |-> "built", of |-> p] \/ j = [pc |-> "written", of |-> p])
  \/ \E tx : Sent(tx) /\ j = [pc |-> "waiting", of |-> tx]

TimelockOK ==
  /\ \A p \in DOMAIN timelock : Good(p) /\ timelock[p] \in {"Proposed", "Approved"}
  /\ ripe \subseteq DOMAIN timelock
FileOK == \A d \in DOMAIN file : Good(file[d]) /\ d = Dir[file[d][1]]
JobsOK == job = [t \in Signers |-> job[t]] /\ \A t \in Signers : Running(job[t])
MempoolOK == \A tx \in mempool : Sent(tx)
BoundsOK == crashes \in Nat /\ incidents \in Nat
IInv == Sound(chain) /\ TimelockOK /\ FileOK /\ JobsOK /\ MempoolOK /\ BoundsOK

LEMMA IsolateKeeps ==
  ASSUME NEW s, Sound(s), NEW cloak, NEW u
  PROVE  LET t == Isolate(s, cloak, u) IN
         /\ Sound(t) /\ t.plan = s.plan /\ t.id = s.id /\ t.reg = s.reg
         /\ t.out = s.out \cup {<<cloak, u>>}
         /\ t.perm = s.perm \ {<<p[1], p[2], u>> : p \in PlanOf(s, cloak, u)}
  <1> DEFINE perm == s.perm \ {<<p[1], p[2], u>> : p \in PlanOf(s, cloak, u)}
             out == s.out \cup {<<cloak, u>>}
             t == [s EXCEPT !.perm = perm, !.out = out]
  <1>1. Pairs(t) /\ t.out = out
    <2>1. \A q \in out : q = <<q[1], q[2]>>
      BY DEF Sound, Pairs
    <2>2. t.out = out
      <3> HIDE DEF perm, out
      <3> QED BY DEF Sound, Fields
    <2> HIDE DEF t
    <2> QED BY <2>1, <2>2 DEF Pairs
  <1> HIDE DEF perm, out
  <1>2. Fields(t) /\ t.plan = s.plan /\ t.id = s.id /\ t.reg = s.reg /\ t.ok = s.ok /\ t.perm = perm
    BY DEF Sound, Fields
  <1> HIDE DEF t
  <1>3. Sound(t)
    BY <1>1, <1>2 DEF Sound
  <1>4. Isolate(s, cloak, u) = t
    BY DEF Isolate, t, perm, out
  <1> QED BY <1>1, <1>2, <1>3, <1>4 DEF perm, out

LEMMA RestoreKeeps ==
  ASSUME NEW s, Sound(s), NEW cloak, NEW u
  PROVE  LET t == Restore(s, cloak, u) IN
         /\ Sound(t) /\ t.plan = s.plan /\ t.id = s.id /\ t.reg = s.reg
         /\ t.out = s.out \ {<<cloak, u>>}
         /\ t.perm = s.perm \cup {<<p[1], p[2], u>> : p \in PlanOf(s, cloak, u)}
  <1> DEFINE perm == s.perm \cup {<<p[1], p[2], u>> : p \in PlanOf(s, cloak, u)}
             out == s.out \ {<<cloak, u>>}
             t == [s EXCEPT !.perm = perm, !.out = out]
  <1>1. Pairs(t) /\ t.out = out
    <2>1. \A q \in out : q = <<q[1], q[2]>>
      BY DEF Sound, Pairs
    <2>2. t.out = out
      <3> HIDE DEF perm, out
      <3> QED BY DEF Sound, Fields
    <2> HIDE DEF t
    <2> QED BY <2>1, <2>2 DEF Pairs
  <1> HIDE DEF perm, out
  <1>2. Fields(t) /\ t.plan = s.plan /\ t.id = s.id /\ t.reg = s.reg /\ t.ok = s.ok /\ t.perm = perm
    BY DEF Sound, Fields
  <1> HIDE DEF t
  <1>3. Sound(t)
    BY <1>1, <1>2 DEF Sound
  <1>4. Restore(s, cloak, u) = t
    BY DEF Restore, t, perm, out
  <1> QED BY <1>1, <1>2, <1>3, <1>4 DEF perm, out

LEMMA InitIInv == Init => IInv
  <1> SUFFICES ASSUME Init PROVE IInv
    OBVIOUS
  <1>1. Sound(chain)
    <2>1. PICK id \in DOMAIN Chains : chain = Chains[id]
      BY DEF Init
    <2>2. chain = [id |-> id, perm |-> chain.perm, plan |-> chain.plan, out |-> {}, reg |-> chain.reg, ok |-> TRUE]
      BY <2>1, GovernanceAssumption
    <2>3. chain.id = id /\ chain.out = {} /\ chain.ok = TRUE
      BY <2>2
    <2>4. Fields(chain)
      BY <2>2, <2>3 DEF Fields
    <2> QED BY <2>3, <2>4 DEF Sound, Pairs
  <1>2. TimelockOK /\ FileOK /\ MempoolOK
    BY DEF Init, TimelockOK, FileOK, MempoolOK
  <1>3. JobsOK
    BY DEF Init, JobsOK, Running
  <1>4. BoundsOK
    BY GovernanceAssumption DEF Init, BoundsOK
  <1> QED BY <1>1, <1>2, <1>3, <1>4 DEF IInv

\* One terminal moves on to j
LEMMA JobsKeep ==
  ASSUME JobsOK, NEW t \in Signers, NEW j, Running(j), job' = [job EXCEPT ![t] = j]
  PROVE  JobsOK'
  BY DEF JobsOK

LEMMA ScriptKeeps ==
  ASSUME IInv, NEW t \in Signers,
         \/ \E sc \in Scripts : BuildProposal(t, sc)
         \/ WriteProposal(t) \/ SendProposal(t)
         \/ \E d \in Dirs : Approve(t, d) \/ Execute(t, d)
         \/ Crash(t)
  PROVE  IInv' /\ chain' = chain
  <1>1. ASSUME NEW sc \in Scripts, BuildProposal(t, sc) PROVE IInv' /\ chain' = chain
    <2> DEFINE p == <<sc, Build(sc, chain)>>
    <2>1. Good(p)
      BY <1>1 DEF BuildProposal, PutsTogether, IInv, Good
    <2>2. Running([pc |-> "built", of |-> p])
      <3> HIDE DEF p
      <3> QED BY <2>1 DEF Running
    <2>3. JobsOK'
      BY <1>1, <2>2, JobsKeep DEF BuildProposal, PutsTogether, IInv
    <2> QED BY <1>1, <2>3 DEF BuildProposal, PutsTogether, IInv, contracts, TimelockOK, FileOK, MempoolOK, BoundsOK
  <1>2. ASSUME WriteProposal(t) PROVE IInv' /\ chain' = chain
    <2>1. PICK p : Good(p) /\ job[t] = [pc |-> "built", of |-> p]
      BY <1>2 DEF WriteProposal, IInv, JobsOK, Running, Idle
    <2>2. chain' = chain /\ TimelockOK' /\ MempoolOK' /\ BoundsOK'
      BY <1>2 DEF WriteProposal, IInv, contracts, TimelockOK, MempoolOK, BoundsOK
    <2>3. CASE file' = file /\ job' = [job EXCEPT ![t] = Idle]
      <3>1. JobsOK'
        BY <2>3, JobsKeep DEF IInv, Running
      <3> QED BY <2>2, <2>3, <3>1 DEF IInv, FileOK
    <2>4. CASE file' = Enter(file, Dir[p[1]], p) /\ job' = [job EXCEPT ![t].pc = "written"]
      <3>1. FileOK'
        BY <2>1, <2>4 DEF IInv, FileOK, Enter
      <3>2. Running([pc |-> "written", of |-> p])
        BY <2>1 DEF Running
      <3>3. job' = [job EXCEPT ![t] = [pc |-> "written", of |-> p]]
        <4>1. [job[t] EXCEPT !.pc = "written"] = [pc |-> "written", of |-> p]
          BY <2>1
        <4> QED BY <2>4, <4>1
      <3>4. JobsOK'
        BY <3>2, <3>3, JobsKeep DEF IInv
      <3> QED BY <2>2, <3>1, <3>4 DEF IInv
    <2>5. job[t].of = p
      BY <2>1
    <2> QED BY <1>2, <2>3, <2>4, <2>5 DEF WriteProposal
  <1>3. ASSUME NEW tx, Sent(tx), Send(t, tx) PROVE IInv' /\ chain' = chain
    <2>1. Running([pc |-> "waiting", of |-> tx])
      BY <1>3 DEF Running
    <2>2. JobsOK'
      BY <1>3, <2>1, JobsKeep DEF Send, IInv
    <2>3. MempoolOK'
      BY <1>3 DEF Send, IInv, MempoolOK
    <2> QED BY <1>3, <2>2, <2>3 DEF Send, IInv, contracts, TimelockOK, FileOK, BoundsOK
  <1>4. ASSUME SendProposal(t) PROVE IInv' /\ chain' = chain
    <2>1. PICK p : Good(p) /\ job[t] = [pc |-> "written", of |-> p]
      BY <1>4 DEF SendProposal, IInv, JobsOK, Running, Idle
    <2>2. Send(t, <<"propose", p, t>>)
      BY <1>4, <2>1 DEF SendProposal
    <2>3. Sent(<<"propose", p, t>>)
      BY <2>1 DEF Sent
    <2> QED BY <1>3, <2>2, <2>3
  <1>5. ASSUME NEW d \in Dirs, Approve(t, d) \/ Execute(t, d) PROVE IInv' /\ chain' = chain
    <2>1. d \in DOMAIN file /\ (Send(t, <<"approve", file[d], t>>) \/ Send(t, <<"execute", file[d], t>>))
      BY <1>5 DEF Approve, Execute
    <2>2. Good(file[d])
      BY <2>1 DEF IInv, FileOK
    <2>3. Sent(<<"approve", file[d], t>>) /\ Sent(<<"execute", file[d], t>>)
      BY <2>2 DEF Sent
    <2> QED BY <1>3, <2>1, <2>3
  <1>6. ASSUME Crash(t) PROVE IInv' /\ chain' = chain
    <2>1. JobsOK'
      BY <1>6, JobsKeep DEF Crash, IInv, Running
    <2>2. UNCHANGED <<chain, timelock, ripe, executed, incidents, file, mempool>> /\ crashes' = crashes + 1
      BY <1>6 DEF Crash, contracts
    <2>3. BoundsOK'
      BY <2>2 DEF IInv, BoundsOK
    <2>4. TimelockOK' /\ FileOK' /\ MempoolOK'
      BY <2>2 DEF IInv, TimelockOK, FileOK, MempoolOK
    <2> QED BY <2>1, <2>2, <2>3, <2>4 DEF IInv
  <1> QED BY <1>1, <1>2, <1>4, <1>5, <1>6

LEMMA MinedKeeps ==
  ASSUME IInv, NEW tx, Mined(tx)
  PROVE  Sent(tx) /\ FileOK' /\ JobsOK' /\ MempoolOK' /\ BoundsOK'
  <1>1. Sent(tx) /\ FileOK' /\ MempoolOK' /\ BoundsOK'
    BY DEF Mined, IInv, FileOK, MempoolOK, BoundsOK
  <1>2. job' = [t \in Signers |-> IF job[t] = [pc |-> "waiting", of |-> tx] THEN Idle ELSE job[t]]
    BY DEF Mined
  <1>3. Running(Idle) /\ \A t \in Signers : Running(job[t])
    BY DEF IInv, JobsOK, Running
  <1>4. JobsOK'
    BY <1>2, <1>3 DEF JobsOK
  <1> QED BY <1>1, <1>4

LEMMA ExecutionIsDue ==
  ASSUME NEW tx, MineExecution(tx)
  PROVE  /\ Executable(chain, tx[2][2]) /\ chain' = Exec(chain, tx[2][2])
         /\ tx[2] \in DOMAIN timelock /\ tx[2] \in ripe
  <1>1. tx[1] = "execute" /\ GoesThrough(tx) /\ chain' = Exec(chain, tx[2][2])
    BY DEF MineExecution
  <1>2. Executes(tx[2])
    BY <1>1, Zenon DEF GoesThrough
  <1> QED BY <1>1, <1>2 DEF Executes, State

LEMMA MineKeeps ==
  ASSUME IInv, ProposalsAreCalls, NEW tx, Mine(tx)
  PROVE  IInv'
  <1>0. Mined(tx)
    BY DEF Mine, MineProposal, MineApproval, MineExecution, Revert
  <1>1. Sent(tx) /\ FileOK' /\ JobsOK' /\ MempoolOK' /\ BoundsOK'
    BY <1>0, MinedKeeps
  <1>2. ASSUME UNCHANGED chain PROVE Sound(chain)'
    BY <1>2 DEF IInv
  <1>3. CASE MineProposal(tx)
    <2>1. TimelockOK'
      BY <1>1, <1>3 DEF MineProposal, IInv, TimelockOK, Enter, Sent
    <2> QED BY <1>1, <1>2, <1>3, <2>1 DEF MineProposal, IInv
  <1>4. CASE MineApproval(tx)
    <2>1. TimelockOK'
      BY <1>1, <1>4 DEF MineApproval, IInv, TimelockOK
    <2> QED BY <1>1, <1>2, <1>4, <2>1 DEF MineApproval, IInv
  <1>5. CASE MineExecution(tx)
    <2>1. Executable(chain, tx[2][2]) /\ chain' = Exec(chain, tx[2][2]) /\ tx[2] \in DOMAIN timelock
      BY <1>5, ExecutionIsDue
    <2>2. Calls(tx[2][2]) /\ Sound(chain)
      BY <2>1 DEF ProposalsAreCalls, IInv
    <2>3. Sound(chain')
      <3>1. PICK f : Through(chain, tx[2][2], f) /\ chain' = f[Len(tx[2][2])]
        BY <2>1, <2>2, ExecGoesThrough DEF Sound
      <3>2. Len(tx[2][2]) \in 0..Len(tx[2][2])
        BY <2>2 DEF Calls
      <3>3. Fields(chain') /\ chain'.out = chain.out /\ chain'.id = chain.id
        BY <3>1, <3>2 DEF Through
      <3>4. chain'.ok
        BY <2>1 DEF Executable
      <3> QED BY <2>2, <3>3, <3>4 DEF Sound, Pairs
    <2>4. TimelockOK'
      BY <1>5 DEF MineExecution, IInv, TimelockOK
    <2>5. Sound(chain)'
      BY <2>3 DEF Sound, Fields, Pairs
    <2> QED BY <1>1, <2>4, <2>5 DEF IInv
  <1>6. CASE Revert(tx)
    BY <1>1, <1>2, <1>6 DEF Revert, IInv, TimelockOK
  <1> QED BY <1>3, <1>4, <1>5, <1>6 DEF Mine

LEMMA RipenKeeps ==
  ASSUME IInv, NEW p \in DOMAIN timelock, Ripen(p)
  PROVE  IInv' /\ chain' = chain
  BY DEF Ripen, IInv, TimelockOK, FileOK, JobsOK, MempoolOK, BoundsOK

LEMMA CloakKeeps ==
  ASSUME IInv, NEW u, IsolateUser(u) \/ RestoreUser(u)
  PROVE  IInv'
  <1>1. TimelockOK' /\ FileOK' /\ JobsOK' /\ MempoolOK' /\ BoundsOK'
    BY GovernanceAssumption DEF IsolateUser, RestoreUser, ChainOnly, IInv, TimelockOK, FileOK, JobsOK, MempoolOK, BoundsOK
  <1>2. Sound(chain')
    BY IsolateKeeps, RestoreKeeps DEF IInv, IsolateUser, RestoreUser
  <1>3. Sound(chain)'
    BY <1>2 DEF Sound, Fields, Pairs
  <1> QED BY <1>1, <1>3 DEF IInv

LEMMA AnyoneKeeps ==
  ASSUME IInv, NEW c, Anyone(c)
  PROVE  IInv'
  <1>1. TimelockOK' /\ FileOK' /\ JobsOK' /\ MempoolOK' /\ BoundsOK'
    BY DEF Anyone, ChainOnly, IInv, TimelockOK, FileOK, JobsOK, MempoolOK, BoundsOK
  <1>2. Sound(chain) /\ chain' = Result(chain, c)
    BY DEF Anyone, IInv
  <1>3. Fields(chain') /\ chain'.out = chain.out /\ chain'.ok = chain.ok /\ chain'.id = chain.id
    BY <1>2, ResultKeeps DEF Sound
  <1>4. Sound(chain')
    BY <1>2, <1>3 DEF Sound, Pairs
  <1>5. Sound(chain)'
    BY <1>4 DEF Sound, Fields, Pairs
  <1> QED BY <1>1, <1>5 DEF IInv

\* What can happen to the chain, and who makes it happen
ChainSteps ==
  \/ chain' = chain
  \/ \E tx \in mempool : MineExecution(tx)
  \/ \E u \in Users[chain.id] : IsolateUser(u) \/ RestoreUser(u)
  \/ \E c \in Open[chain.id] : Anyone(c)

LEMMA NextKeeps ==
  ASSUME IInv, ProposalsAreCalls, [Next]_vars
  PROVE  IInv' /\ ChainSteps
  <1>1. CASE \E t \in Signers : \/ \E sc \in Scripts : BuildProposal(t, sc)
                                \/ WriteProposal(t) \/ SendProposal(t)
                                \/ \E d \in Dirs : Approve(t, d) \/ Execute(t, d)
                                \/ Crash(t)
    BY <1>1, ScriptKeeps DEF ChainSteps
  <1>2. CASE \E tx \in mempool : Mine(tx)
    <2>1. PICK tx \in mempool : Mine(tx)
      BY <1>2
    <2>2. chain' = chain \/ MineExecution(tx)
      BY <2>1 DEF Mine, MineProposal, MineApproval, Revert
    <2> QED BY <2>1, <2>2, MineKeeps DEF ChainSteps
  <1>3. CASE \E p \in DOMAIN timelock : Ripen(p)
    BY <1>3, RipenKeeps DEF ChainSteps
  <1>4. CASE \E u \in Users[chain.id] : IsolateUser(u) \/ RestoreUser(u)
    BY <1>4, CloakKeeps DEF ChainSteps
  <1>5. CASE \E c \in Open[chain.id] : Anyone(c)
    BY <1>5, AnyoneKeeps DEF ChainSteps
  <1>6. CASE UNCHANGED vars
    BY <1>6 DEF vars, IInv, TimelockOK, FileOK, JobsOK, MempoolOK, BoundsOK, ChainSteps
  <1>7. CASE Next
    BY <1>1, <1>2, <1>3, <1>4, <1>5, <1>7 DEF Next
  <1> QED BY <1>6, <1>7

\* As long as proposals are calls: the scripts, the file, the mempool and the
\* Timelock only ever hold what one of the scripts built, and the chain never holds the
\* marks of a reverted call.
THEOREM GovernanceInvariant == Spec => ([]ProposalsAreCalls => []IInv)
  <1>1. Init => IInv
    BY InitIInv
  <1>2. IInv /\ ProposalsAreCalls /\ [Next]_vars => IInv'
    BY NextKeeps
  <1> QED BY <1>1, <1>2, PTL DEF Spec

-----------------------------------------------------------------------------
(* Isolation.                                                              *)

\* Whoever is isolated has a plan
PlansOK == \A q \in chain.out : PlanOf(chain, q[1], q[2]) # {}

\* What a step does to the isolated users
StepFrozen ==
  \A q \in chain.out :
    /\ q \in chain'.out \/ \A p \in PlanOf(chain, q[1], q[2]) : HasRole(chain', p[1], p[2], q[2])
    /\ PlanOf(chain', q[1], q[2]) = PlanOf(chain, q[1], q[2])

LEMMA ExecutionFreezes ==
  ASSUME IInv, ProposalsAreCalls, NoOldPlans, NEW tx, MineExecution(tx)
  PROVE  Frozen(chain, chain')
  <1>1. Executable(chain, tx[2][2]) /\ chain' = Exec(chain, tx[2][2]) /\ tx[2] \in DOMAIN timelock
    BY ExecutionIsDue
  <1>2. Calls(tx[2][2]) /\ NoPlan(tx[2][2])
    BY <1>1 DEF ProposalsAreCalls, NoOldPlans
  <1> QED BY <1>1, <1>2, ExecIsFrozen DEF IInv, Sound

LEMMA AnyoneFreezes ==
  ASSUME IInv, NEW c \in Open[chain.id], Anyone(c)
  PROVE  Frozen(chain, chain')
  <1>1. chain.id \in DOMAIN Chains /\ Fields(chain) /\ Pairs(chain)
    BY DEF IInv, Sound
  <1>2. c.fn # "plan"
    BY <1>1, GovernanceAssumption
  <1> QED BY <1>1, <1>2, CallIsFrozen DEF Anyone

LEMMA StepFreezes ==
  ASSUME IInv, ProposalsAreCalls, NoOldPlans, PlansOK, ChainSteps
  PROVE  PlansOK' /\ StepFrozen
  <1>1. ASSUME Frozen(chain, chain') PROVE PlansOK' /\ StepFrozen
    BY <1>1 DEF Frozen, PlansOK, StepFrozen
  <1>2. CASE chain' = chain
    BY <1>2 DEF PlansOK, StepFrozen
  <1>3. CASE \E tx \in mempool : MineExecution(tx)
    BY <1>1, <1>3, ExecutionFreezes
  <1>4. CASE \E u \in Users[chain.id] : IsolateUser(u) \/ RestoreUser(u)
    <2>1. PICK u : IsolateUser(u) \/ RestoreUser(u)
      BY <1>4
    <2>2. CASE IsolateUser(u)
      <3>1. chain'.plan = chain.plan /\ chain'.out = chain.out \cup {<<Ctx.cloak, u>>}
        BY <2>2, IsolateKeeps DEF IsolateUser, IInv
      <3>2. PlanOf(chain, Ctx.cloak, u) # {}
        BY <2>2 DEF IsolateUser, CanIsolate
      <3> QED BY <3>1, <3>2 DEF PlansOK, StepFrozen, PlanOf
    <2>3. CASE RestoreUser(u)
      <3>1. /\ chain'.plan = chain.plan /\ chain'.out = chain.out \ {<<Ctx.cloak, u>>}
            /\ chain'.perm = chain.perm \cup {<<p[1], p[2], u>> : p \in PlanOf(chain, Ctx.cloak, u)}
        BY <2>3, RestoreKeeps DEF RestoreUser, IInv
      <3>2. \A p \in PlanOf(chain, Ctx.cloak, u) : HasRole(chain', p[1], p[2], u)
        BY <3>1 DEF HasRole
      <3> QED BY <3>1, <3>2 DEF PlansOK, StepFrozen, PlanOf
    <2> QED BY <2>1, <2>2, <2>3
  <1>5. CASE \E c \in Open[chain.id] : Anyone(c)
    BY <1>1, <1>5, AnyoneFreezes
  <1> QED BY <1>2, <1>3, <1>4, <1>5 DEF ChainSteps

LEMMA SpecPlans == Spec => ([]ProposalsAreCalls /\ []NoOldPlans => [](IInv /\ PlansOK))
  <1>1. Init => IInv /\ PlansOK
    BY InitIInv, GovernanceAssumption DEF Init, PlansOK
  <1>2. IInv /\ PlansOK /\ ProposalsAreCalls /\ NoOldPlans /\ [Next]_vars => IInv' /\ PlansOK'
    BY NextKeeps, StepFreezes
  <1> QED BY <1>1, <1>2, PTL DEF Spec

\* Types: what is ripe is on the Timelock, and whoever is isolated has a plan, unless
\* a proposal goes to the old brake.
THEOREM GovernanceTypeCorrect == Spec => ([]ProposalsAreCalls /\ []NoOldPlans => []TypeOK)
  <1>1. IInv /\ PlansOK => TypeOK
    <2> SUFFICES ASSUME IInv, PlansOK PROVE TypeOK
      OBVIOUS
    <2>1. chain.ok /\ chain.out \subseteq {<<q[1], q[2]>> : q \in chain.plan}
      BY DEF IInv, Sound, PlansOK, Pairs, PlanOf
    <2>2. \A t \in Signers : job[t].pc \in {"idle", "built", "written", "waiting"}
      BY DEF IInv, JobsOK, Running, Idle
    <2> QED BY <2>1, <2>2 DEF TypeOK, IInv, TimelockOK, FileOK, MempoolOK, BoundsOK, Good, Sent
  <1> QED BY <1>1, SpecPlans, PTL

\* Unless a proposal goes to the old brake, only RestoreUser ends an isolation,
\* whatever is proposed, built before it or not: no proposal restores a user or changes the plan of an isolated one.
THEOREM GovernanceIsolationFrozen == Spec => ([]ProposalsAreCalls /\ []NoOldPlans => IsolationFrozen)
  <1>1. IInv /\ PlansOK /\ ProposalsAreCalls /\ NoOldPlans /\ [Next]_vars => [StepFrozen]_vars
    BY NextKeeps, StepFreezes
  <1> QED BY <1>1, SpecPlans, PTL DEF Spec, IsolationFrozen, StepFrozen

\* Of the chain s, with the users that the Cloak may isolate: those isolated hold
\* nothing of what is planned
Powerless(s, users) ==
  \A q \in s.out : /\ q[1] = Ctx.cloak /\ q[2] \in users
                   /\ \A p \in PlanOf(s, q[1], q[2]) : ~HasRole(s, p[1], p[2], q[2])

\* A proposal that would grant to an isolated user would change its plan as well,
\* and reverts there
LEMMA ExecLeavesPowerless ==
  ASSUME NEW s, Fields(s), Pairs(s), NEW users, Powerless(s, users),
         NEW calls, Calls(calls), NoPlan(calls), Executable(s, calls), PlansItsGrants(calls, users)
  PROVE  Powerless(Exec(s, calls), users)
  <1> DEFINE n == Len(calls)
  <1>1. PICK f : Through(s, calls, f) /\ Exec(s, calls) = f[n]
    BY ExecGoesThrough
  <1>2. n \in Nat /\ DOMAIN calls = 1..n
    BY DEF Calls
  <1> DEFINE None(t) == \A q \in s.out : \A p \in PlanOf(s, q[1], q[2]) : ~HasRole(t, p[1], p[2], q[2])
             T == {i \in 0..n : None(f[i])}
  <1>3. 0 \in T
    BY <1>1, <1>2 DEF Through, Powerless
  <1>4. ASSUME NEW q \in s.out, NEW i \in 1..n, calls[i].fn = "grantRoles", calls[i].user = q[2]
        PROVE  FALSE
    <2>1. q = <<Ctx.cloak, q[2]>> /\ q[2] \in users
      BY DEF Pairs, Powerless
    <2>2. PICK j \in 1..n : /\ calls[j].fn \in {"add", "remove"} /\ calls[j].to = Ctx.cloak
                            /\ calls[j].user = q[2]
      BY <1>2, <1>4, <2>1 DEF PlansItsGrants
    <2>3. Accepts(f[j - 1], calls[j]) /\ j - 1 \in 0..n
      BY <1>1, <1>2 DEF Through
    <2>4. NotExecuted(f[j - 1], calls[j])
      BY <2>2, <2>3, Zenon DEF Accepts
    <2>5. f[j - 1].out = s.out
      BY <1>1, <2>3 DEF Through
    <2> QED BY <2>1, <2>2, <2>4, <2>5 DEF NotExecuted
  <1>5. ASSUME NEW i \in 1..n, i - 1 \in T PROVE i \in T
    <2>1. i - 1 \in 0..n /\ i \in 0..n /\ None(f[i - 1])
      BY <1>2, <1>5
    <2>2. Fields(f[i - 1]) /\ f[i] = Result(f[i - 1], calls[i])
      BY <1>1, <2>1 DEF Through
    <2>3. f[i].perm \subseteq f[i - 1].perm \cup Granted(calls[i])
      BY <2>2, ResultMoves
    <2>4. ASSUME NEW q \in s.out, NEW p \in PlanOf(s, q[1], q[2]), HasRole(f[i], p[1], p[2], q[2])
          PROVE  FALSE
      <3>1. <<p[1], p[2], q[2]>> \in Granted(calls[i])
        BY <2>1, <2>3, <2>4 DEF HasRole
      <3>2. calls[i].fn = "grantRoles" /\ calls[i].user = q[2]
        BY <3>1 DEF Granted
      <3> QED BY <1>4, <3>2
    <2> QED BY <2>1, <2>4
  <1>6. n \in T
    <2> HIDE DEF T, n
    <2> QED BY <1>2, <1>3, <1>5, UpTo
  <1>7. Frozen(s, f[n])
    BY <1>1, ExecIsFrozen
  <1> QED BY <1>1, <1>6, <1>7 DEF Powerless, Frozen

LEMMA StepLeavesPowerless ==
  ASSUME IInv, ProposalsAreCalls, NoOldPlans, GrantsArePlanned, Powerless(chain, Users[chain.id]), ChainSteps
  PROVE  Powerless(chain', Users[chain'.id])
  <1> DEFINE users == Users[chain.id]
  <1>1. Sound(chain) /\ Fields(chain) /\ Pairs(chain) /\ chain.id \in DOMAIN Chains
    BY DEF IInv, Sound
  <1>2. CASE chain' = chain
    BY <1>2
  <1>3. ASSUME NEW tx, MineExecution(tx) PROVE Powerless(chain', Users[chain'.id])
    <2>1. Executable(chain, tx[2][2]) /\ chain' = Exec(chain, tx[2][2]) /\ tx[2] \in DOMAIN timelock
      BY <1>3, ExecutionIsDue
    <2>2. Calls(tx[2][2]) /\ NoPlan(tx[2][2])
      BY <2>1 DEF ProposalsAreCalls, NoOldPlans
    <2>3. PlansItsGrants(tx[2][2], users)
      BY <2>1 DEF GrantsArePlanned
    <2>4. chain'.id = chain.id
      BY <1>3, ExecutionFreezes DEF Frozen
    <2> HIDE DEF users
    <2>5. Powerless(chain', users)
      BY <1>1, <2>1, <2>2, <2>3, ExecLeavesPowerless DEF users
    <2> QED BY <2>4, <2>5 DEF users
  <1>4. ASSUME NEW u \in users, IsolateUser(u) PROVE Powerless(chain', Users[chain'.id])
    <2>1. /\ chain'.plan = chain.plan /\ chain'.id = chain.id /\ chain'.out = chain.out \cup {<<Ctx.cloak, u>>}
          /\ chain'.perm = chain.perm \ {<<p[1], p[2], u>> : p \in PlanOf(chain, Ctx.cloak, u)}
      BY <1>1, <1>4, IsolateKeeps DEF IsolateUser
    <2>2. \A p \in PlanOf(chain, Ctx.cloak, u) : ~HasRole(chain', p[1], p[2], u)
      BY <2>1 DEF HasRole
    <2>3. \A host, role, user : HasRole(chain', host, role, user) => HasRole(chain, host, role, user)
      BY <2>1 DEF HasRole
    <2> QED BY <2>1, <2>2, <2>3 DEF Powerless, PlanOf
  <1>5. ASSUME NEW u \in users, RestoreUser(u) PROVE Powerless(chain', Users[chain'.id])
    <2>1. /\ chain'.plan = chain.plan /\ chain'.id = chain.id /\ chain'.out = chain.out \ {<<Ctx.cloak, u>>}
          /\ chain'.perm = chain.perm \cup {<<p[1], p[2], u>> : p \in PlanOf(chain, Ctx.cloak, u)}
      BY <1>1, <1>5, RestoreKeeps DEF RestoreUser
    <2>2. \A q \in chain'.out : q[2] # u
      BY <1>1, <2>1 DEF Pairs, Powerless
    <2>3. \A host, role, user : user # u /\ HasRole(chain', host, role, user) => HasRole(chain, host, role, user)
      BY <2>1 DEF HasRole
    <2> QED BY <2>1, <2>2, <2>3 DEF Powerless, PlanOf
  <1>6. ASSUME NEW c \in Open[chain.id], Anyone(c) PROVE Powerless(chain', Users[chain'.id])
    <2>1. Frozen(chain, chain')
      BY <1>6, AnyoneFreezes
    <2>2. c.fn # "grantRoles" /\ chain' = Result(chain, c)
      BY <1>1, <1>6, GovernanceAssumption DEF Anyone
    <2>3. chain'.perm \subseteq chain.perm \cup Granted(c)
      BY <1>1, <2>2, ResultMoves
    <2>4. chain'.perm \subseteq chain.perm
      BY <2>2, <2>3 DEF Granted
    <2> QED BY <2>1, <2>4 DEF Powerless, Frozen, HasRole
  <1> QED BY <1>2, <1>3, <1>4, <1>5, <1>6 DEF ChainSteps

\* As long as each proposal that grants something to whoever the Cloak may isolate
\* changes the plan of that user too, an isolated user gets nothing back of what
\* its plan took away: not from a proposal built before the isolation, nor from one
\* that was approved before it or is executed again.
THEOREM GovernanceIsolatedHoldsNothing ==
  Spec => ([]ProposalsAreCalls /\ []NoOldPlans /\ []GrantsArePlanned => []IsolatedHoldsNothing)
  <1> DEFINE J == Powerless(chain, Users[chain.id])
  <1>1. Init => J
    BY GovernanceAssumption DEF Init, Powerless
  <1>2. IInv /\ ProposalsAreCalls /\ NoOldPlans /\ GrantsArePlanned /\ J /\ [Next]_vars => J'
    BY NextKeeps, StepLeavesPowerless
  <1>3. J => IsolatedHoldsNothing
    BY DEF Powerless, IsolatedHoldsNothing
  <1>4. Spec => ([]ProposalsAreCalls => []IInv)
    BY GovernanceInvariant
  <1> HIDE DEF J
  <1> QED BY <1>1, <1>2, <1>3, <1>4, PTL DEF Spec
-----------------------------------------------------------------------------
(* The Cloak can isolate, and an isolation leaves nothing behind.          *)

\* Permissions are triples, plans are the Cloak's, and the Cloak has ROOT wherever
\* it plans
Shaped(s) ==
  /\ \A q \in s.perm : q = <<q[1], q[2], q[3]>>
  /\ \A q \in s.plan : q = <<q[1], q[2], q[3], q[4]>> /\ q[1] = Ctx.cloak
Rooted(s) == \A q \in s.plan : HasRole(s, q[3], ROOT, Ctx.cloak)

LEMMA FromOn ==
  ASSUME NEW n \in Nat, NEW k \in 0..n, NEW T, k \in T, \A i \in (k + 1)..n : i - 1 \in T => i \in T
  PROVE  n \in T
  <1> DEFINE U == {j \in 0..n : j < k \/ j \in T}
  <1>1. 0 \in U
    <2>1. 0 < k \/ k = 0
      OBVIOUS
    <2> QED BY <2>1
  <1>2. ASSUME NEW i \in 1..n, i - 1 \in U PROVE i \in U
    <2>1. i < k \/ i = k \/ i \in (k + 1)..n
      OBVIOUS
    <2>2. CASE i \in (k + 1)..n
      <3>1. ~(i - 1 < k)
        BY <2>2
      <3>2. i - 1 \in T
        BY <1>2, <3>1
      <3> QED BY <2>2, <3>2
    <2> QED BY <2>1, <2>2
  <1> HIDE DEF U
  <1>3. n \in U
    BY <1>1, <1>2, UpTo
  <1>4. ~(n < k)
    OBVIOUS
  <1> QED BY <1>3, <1>4 DEF U

LEMMA CallMoves ==
  ASSUME NEW s, NEW calls, Calls(calls), NEW f, Through(s, calls, f), NEW i \in 1..Len(calls), NEW x
  PROVE  /\ x \in f[i].perm <=> (x \in f[i - 1].perm /\ x \notin Revoked(calls[i])) \/ x \in Granted(calls[i])
         /\ x \in f[i].plan <=> (x \in f[i - 1].plan /\ x \notin Dropped(calls[i])) \/ x \in Added(calls[i])
  <1>1. i - 1 \in 0..Len(calls)
    BY DEF Calls
  <1>2. Fields(f[i - 1]) /\ f[i] = Result(f[i - 1], calls[i])
    BY <1>1 DEF Through
  <1>3. /\ f[i].perm = (f[i - 1].perm \ Revoked(calls[i])) \cup Granted(calls[i])
        /\ f[i].plan = (f[i - 1].plan \ Dropped(calls[i])) \cup Added(calls[i])
    BY <1>2, ResultMoves
  <1> QED BY <1>3

\* What is held stays held unless a call revokes it, and what is not held is not
\* unless a call grants it
LEMMA PermMoves ==
  ASSUME NEW s, NEW calls, Calls(calls), NEW f, Through(s, calls, f), NEW k \in 0..Len(calls), NEW x
  PROVE  LET n == Len(calls) IN
         /\ x \in f[k].perm /\ (\A i \in (k + 1)..n : x \notin Revoked(calls[i])) => x \in f[n].perm
         /\ x \notin f[k].perm /\ (\A i \in (k + 1)..n : x \notin Granted(calls[i])) => x \notin f[n].perm
  <1> DEFINE n == Len(calls)
  <1>0. n \in Nat /\ \A i \in (k + 1)..n : i \in 1..n /\ i \in 0..n
    BY DEF Calls
  <1>9. \A i \in 1..n : x \in f[i].perm <=> (x \in f[i - 1].perm /\ x \notin Revoked(calls[i])) \/ x \in Granted(calls[i])
    BY CallMoves
  <1>1. ASSUME x \in f[k].perm, \A i \in (k + 1)..n : x \notin Revoked(calls[i]) PROVE x \in f[n].perm
    <2> DEFINE T == {i \in 0..n : x \in f[i].perm}
    <2>1. k \in T
      BY <1>1
    <2>2. ASSUME NEW i \in (k + 1)..n, i - 1 \in T PROVE i \in T
      BY <1>0, <1>1, <1>9, <2>2
    <2> HIDE DEF T
    <2>3. n \in T
      BY <1>0, <2>1, <2>2, FromOn
    <2> QED BY <2>3 DEF T
  <1>2. ASSUME x \notin f[k].perm, \A i \in (k + 1)..n : x \notin Granted(calls[i]) PROVE x \notin f[n].perm
    <2> DEFINE T == {i \in 0..n : x \notin f[i].perm}
    <2>1. k \in T
      BY <1>2
    <2>2. ASSUME NEW i \in (k + 1)..n, i - 1 \in T PROVE i \in T
      BY <1>0, <1>2, <1>9, <2>2
    <2> HIDE DEF T
    <2>3. n \in T
      BY <1>0, <2>1, <2>2, FromOn
    <2> QED BY <2>3 DEF T
  <1> QED BY <1>1, <1>2

LEMMA PlanMoves ==
  ASSUME NEW s, NEW calls, Calls(calls), NEW f, Through(s, calls, f), NEW k \in 0..Len(calls), NEW x
  PROVE  LET n == Len(calls) IN
         /\ x \in f[k].plan /\ (\A i \in (k + 1)..n : x \notin Dropped(calls[i])) => x \in f[n].plan
         /\ x \notin f[k].plan /\ (\A i \in (k + 1)..n : x \notin Added(calls[i])) => x \notin f[n].plan
  <1> DEFINE n == Len(calls)
  <1>0. n \in Nat /\ \A i \in (k + 1)..n : i \in 1..n /\ i \in 0..n
    BY DEF Calls
  <1>9. \A i \in 1..n : x \in f[i].plan <=> (x \in f[i - 1].plan /\ x \notin Dropped(calls[i])) \/ x \in Added(calls[i])
    BY CallMoves
  <1>1. ASSUME x \in f[k].plan, \A i \in (k + 1)..n : x \notin Dropped(calls[i]) PROVE x \in f[n].plan
    <2> DEFINE T == {i \in 0..n : x \in f[i].plan}
    <2>1. k \in T
      BY <1>1
    <2>2. ASSUME NEW i \in (k + 1)..n, i - 1 \in T PROVE i \in T
      BY <1>0, <1>1, <1>9, <2>2
    <2> HIDE DEF T
    <2>3. n \in T
      BY <1>0, <2>1, <2>2, FromOn
    <2> QED BY <2>3 DEF T
  <1>2. ASSUME x \notin f[k].plan, \A i \in (k + 1)..n : x \notin Added(calls[i]) PROVE x \notin f[n].plan
    <2> DEFINE T == {i \in 0..n : x \notin f[i].plan}
    <2>1. k \in T
      BY <1>2
    <2>2. ASSUME NEW i \in (k + 1)..n, i - 1 \in T PROVE i \in T
      BY <1>0, <1>2, <1>9, <2>2
    <2> HIDE DEF T
    <2>3. n \in T
      BY <1>0, <2>1, <2>2, FromOn
    <2> QED BY <2>3 DEF T
  <1> QED BY <1>1, <1>2

\* What a user holds and has planned, in the words of the storage, ...
LEMMA HeldIs ==
  ASSUME NEW s, Shaped(s), NEW u, NEW y
  PROVE  y \in HeldBy(s, u) <=> y = <<y[1], y[2]>> /\ HasRole(s, y[1], y[2], u)
  BY DEF HeldBy, HasRole, Shaped

LEMMA PlannedIs ==
  ASSUME NEW s, Shaped(s), NEW u, NEW y
  PROVE  y \in PlanOf(s, Ctx.cloak, u) <=> y = <<y[1], y[2]>> /\ <<Ctx.cloak, u, y[1], y[2]>> \in s.plan
  BY DEF PlanOf, Shaped

\* ... and what a proposal gives, takes, plans and drops, in the words of its calls
LEMMA GivesIs ==
  ASSUME NEW calls, Calls(calls), NEW u, NEW y
  PROVE  y \in Gives(calls, u) <=> y = <<y[1], y[2]>> /\ \E i \in 1..Len(calls) : <<y[1], y[2], u>> \in Granted(calls[i])
  <1>1. DOMAIN calls = 1..Len(calls)
    BY DEF Calls
  <1>2. y \in Gives(calls, u) <=> \E i \in DOMAIN calls : /\ calls[i].fn = "grantRoles" /\ calls[i].user = u
                                                          /\ y \in Permissions(calls[i].to, calls[i].roles)
    BY DEF Gives, ToUser
  <1>3. \A i \in DOMAIN calls :
          (y = <<y[1], y[2]>> /\ <<y[1], y[2], u>> \in Granted(calls[i]))
            <=> /\ calls[i].fn = "grantRoles" /\ calls[i].user = u
                /\ y \in Permissions(calls[i].to, calls[i].roles)
    BY DEF Granted, Permissions
  <1> QED BY <1>1, <1>2, <1>3

LEMMA TakesIs ==
  ASSUME NEW calls, Calls(calls), NEW u, NEW y
  PROVE  y \in Takes(calls, u) <=> y = <<y[1], y[2]>> /\ \E i \in 1..Len(calls) : <<y[1], y[2], u>> \in Revoked(calls[i])
  <1>1. DOMAIN calls = 1..Len(calls)
    BY DEF Calls
  <1>2. y \in Takes(calls, u) <=> \E i \in DOMAIN calls : /\ calls[i].fn = "revokeRoles" /\ calls[i].user = u
                                                          /\ y \in Permissions(calls[i].to, calls[i].roles)
    BY DEF Takes, ToUser
  <1>3. \A i \in DOMAIN calls :
          (y = <<y[1], y[2]>> /\ <<y[1], y[2], u>> \in Revoked(calls[i]))
            <=> /\ calls[i].fn = "revokeRoles" /\ calls[i].user = u
                /\ y \in Permissions(calls[i].to, calls[i].roles)
    BY DEF Revoked, Permissions
  <1> QED BY <1>1, <1>2, <1>3

\* Its plans are all the Cloak's
CloakOnly(calls) == \A i \in DOMAIN calls : calls[i].fn \in {"add", "plan", "remove"} => calls[i].to = Ctx.cloak

LEMMA PlansIs ==
  ASSUME NEW calls, Calls(calls), CloakOnly(calls), NEW u, NEW y
  PROVE  y \in Plans(calls, u) <=> y = <<y[1], y[2]>> /\ \E i \in 1..Len(calls) : <<Ctx.cloak, u, y[1], y[2]>> \in Added(calls[i])
  <1>1. DOMAIN calls = 1..Len(calls)
    BY DEF Calls
  <1>2. y \in Plans(calls, u) <=> \E i \in DOMAIN calls : /\ calls[i].fn \in {"add", "plan"} /\ calls[i].user = u
                                                          /\ y \in calls[i].plan
    BY DEF Plans, ToUser
  <1>3. ASSUME NEW i \in DOMAIN calls
        PROVE (y = <<y[1], y[2]>> /\ <<Ctx.cloak, u, y[1], y[2]>> \in Added(calls[i]))
                <=> calls[i].fn \in {"add", "plan"} /\ calls[i].user = u /\ y \in calls[i].plan
    <2>1. CASE calls[i].fn \in {"add", "plan"}
      <3>1. calls[i].to = Ctx.cloak /\ \A q \in calls[i].plan : q = <<q[1], q[2]>>
        BY <1>1, <2>1 DEF CloakOnly, Calls
      <3>2. Added(calls[i]) = {<<Ctx.cloak, calls[i].user, q[1], q[2]>> : q \in calls[i].plan}
        BY <2>1, <3>1 DEF Added
      <3> QED BY <2>1, <3>1, <3>2
    <2>2. CASE calls[i].fn \notin {"add", "plan"}
      BY <2>2 DEF Added
    <2> QED BY <2>1, <2>2
  <1> QED BY <1>1, <1>2, <1>3

LEMMA DropsIs ==
  ASSUME NEW calls, Calls(calls), CloakOnly(calls), NEW u, NEW y
  PROVE  y \in Drops(calls, u) <=> y = <<y[1], y[2]>> /\ \E i \in 1..Len(calls) : <<Ctx.cloak, u, y[1], y[2]>> \in Dropped(calls[i])
  <1>1. DOMAIN calls = 1..Len(calls)
    BY DEF Calls
  <1>2. y \in Drops(calls, u) <=> \E i \in DOMAIN calls : /\ calls[i].fn = "remove" /\ calls[i].user = u
                                                          /\ y \in calls[i].plan
    BY DEF Drops, ToUser
  <1>3. ASSUME NEW i \in DOMAIN calls
        PROVE (y = <<y[1], y[2]>> /\ <<Ctx.cloak, u, y[1], y[2]>> \in Dropped(calls[i]))
                <=> calls[i].fn = "remove" /\ calls[i].user = u /\ y \in calls[i].plan
    <2>1. CASE calls[i].fn = "remove"
      <3>1. calls[i].to = Ctx.cloak /\ \A q \in calls[i].plan : q = <<q[1], q[2]>>
        BY <1>1, <2>1 DEF CloakOnly, Calls
      <3>2. Dropped(calls[i]) = {<<Ctx.cloak, calls[i].user, q[1], q[2]>> : q \in calls[i].plan}
        BY <2>1, <3>1 DEF Dropped
      <3> QED BY <2>1, <3>1, <3>2
    <2>2. CASE calls[i].fn # "remove"
      BY <2>2 DEF Dropped
    <2> QED BY <2>1, <2>2
  <1> QED BY <1>1, <1>2, <1>3

\* The permissions of a user and its plan after a proposal, in these words
LEMMA ExecMovesPerm ==
  ASSUME NEW s, NEW calls, Calls(calls), NEW f, Through(s, calls, f), NEW u, NEW h, NEW r
  PROVE  LET held(t) == <<h, r, u>> \in t.perm
             t == f[Len(calls)]
         IN  /\ held(t) /\ <<h, r>> \notin Gives(calls, u) => held(s) /\ <<h, r>> \notin Takes(calls, u)
             /\ (held(s) \/ <<h, r>> \in Gives(calls, u)) /\ <<h, r>> \notin Takes(calls, u) => held(t)
  <1> DEFINE n == Len(calls)
             x == <<h, r, u>>
  <1>0. n \in Nat /\ 0 \in 0..n /\ f[0] = s /\ \A i \in 1..n : i \in 0..n /\ i - 1 \in 0..n
    BY DEF Calls, Through
  <1>1. /\ <<h, r>> \in Gives(calls, u) <=> \E i \in 1..n : x \in Granted(calls[i])
        /\ <<h, r>> \in Takes(calls, u) <=> \E i \in 1..n : x \in Revoked(calls[i])
    BY GivesIs, TakesIs
  <1>2. ASSUME NEW i \in 1..n PROVE ~(x \in Granted(calls[i]) /\ x \in Revoked(calls[i]))
    BY DEF Granted, Revoked
  <1>3. ASSUME NEW i \in 1..n
        PROVE x \in f[i].perm <=> (x \in f[i - 1].perm /\ x \notin Revoked(calls[i])) \/ x \in Granted(calls[i])
    BY CallMoves
  <1>4. ASSUME NEW k \in 0..n
        PROVE  /\ x \in f[k].perm /\ (\A i \in (k + 1)..n : x \notin Revoked(calls[i])) => x \in f[n].perm
               /\ x \notin f[k].perm /\ (\A i \in (k + 1)..n : x \notin Granted(calls[i])) => x \notin f[n].perm
    BY PermMoves
  <1>5. ASSUME NEW k \in 0..n, NEW i \in (k + 1)..n PROVE i \in 1..n
    BY <1>0
  <1> HIDE DEF x, n
  <1>6. ASSUME x \in f[n].perm, \A i \in 1..n : x \notin Granted(calls[i])
        PROVE  x \in s.perm /\ \A i \in 1..n : x \notin Revoked(calls[i])
    <2>1. x \in s.perm
      BY <1>0, <1>4, <1>5, <1>6
    <2>2. ASSUME NEW i \in 1..n, x \in Revoked(calls[i]) PROVE FALSE
      <3>1. x \notin f[i].perm
        BY <1>3, <1>6, <2>2
      <3> QED BY <1>0, <1>4, <1>5, <1>6, <3>1
    <2> QED BY <2>1, <2>2
  <1>7. ASSUME x \in s.perm \/ \E i \in 1..n : x \in Granted(calls[i]), \A i \in 1..n : x \notin Revoked(calls[i])
        PROVE  x \in f[n].perm
    <2>1. CASE x \in s.perm
      BY <1>0, <1>4, <1>5, <1>7, <2>1
    <2>2. CASE \E i \in 1..n : x \in Granted(calls[i])
      <3>1. PICK i \in 1..n : x \in Granted(calls[i])
        BY <2>2
      <3>2. x \in f[i].perm
        BY <1>3, <3>1
      <3> QED BY <1>0, <1>4, <1>5, <1>7, <3>2
    <2> QED BY <1>7, <2>1, <2>2
  <1> QED BY <1>1, <1>6, <1>7 DEF x, n

LEMMA ExecMovesPlan ==
  ASSUME NEW s, NEW calls, Calls(calls), CloakOnly(calls), NEW f, Through(s, calls, f), NEW u, NEW h, NEW r
  PROVE  LET planned(t) == <<Ctx.cloak, u, h, r>> \in t.plan
             t == f[Len(calls)]
         IN  /\ planned(t) /\ <<h, r>> \notin Plans(calls, u) => planned(s) /\ <<h, r>> \notin Drops(calls, u)
             /\ (planned(s) \/ <<h, r>> \in Plans(calls, u)) /\ <<h, r>> \notin Drops(calls, u) => planned(t)
  <1> DEFINE n == Len(calls)
             x == <<Ctx.cloak, u, h, r>>
  <1>0. n \in Nat /\ 0 \in 0..n /\ f[0] = s /\ \A i \in 1..n : i \in 0..n /\ i - 1 \in 0..n
    BY DEF Calls, Through
  <1>1. /\ <<h, r>> \in Plans(calls, u) <=> \E i \in 1..n : x \in Added(calls[i])
        /\ <<h, r>> \in Drops(calls, u) <=> \E i \in 1..n : x \in Dropped(calls[i])
    BY PlansIs, DropsIs
  <1>2. ASSUME NEW i \in 1..n PROVE ~(x \in Added(calls[i]) /\ x \in Dropped(calls[i]))
    BY DEF Added, Dropped
  <1>3. ASSUME NEW i \in 1..n
        PROVE x \in f[i].plan <=> (x \in f[i - 1].plan /\ x \notin Dropped(calls[i])) \/ x \in Added(calls[i])
    BY CallMoves
  <1>4. ASSUME NEW k \in 0..n
        PROVE  /\ x \in f[k].plan /\ (\A i \in (k + 1)..n : x \notin Dropped(calls[i])) => x \in f[n].plan
               /\ x \notin f[k].plan /\ (\A i \in (k + 1)..n : x \notin Added(calls[i])) => x \notin f[n].plan
    BY PlanMoves
  <1>5. ASSUME NEW k \in 0..n, NEW i \in (k + 1)..n PROVE i \in 1..n
    BY <1>0
  <1> HIDE DEF x, n
  <1>6. ASSUME x \in f[n].plan, \A i \in 1..n : x \notin Added(calls[i])
        PROVE  x \in s.plan /\ \A i \in 1..n : x \notin Dropped(calls[i])
    <2>1. x \in s.plan
      BY <1>0, <1>4, <1>5, <1>6
    <2>2. ASSUME NEW i \in 1..n, x \in Dropped(calls[i]) PROVE FALSE
      <3>1. x \notin f[i].plan
        BY <1>3, <1>6, <2>2
      <3> QED BY <1>0, <1>4, <1>5, <1>6, <3>1
    <2> QED BY <2>1, <2>2
  <1>7. ASSUME x \in s.plan \/ \E i \in 1..n : x \in Added(calls[i]), \A i \in 1..n : x \notin Dropped(calls[i])
        PROVE  x \in f[n].plan
    <2>1. CASE x \in s.plan
      BY <1>0, <1>4, <1>5, <1>7, <2>1
    <2>2. CASE \E i \in 1..n : x \in Added(calls[i])
      <3>1. PICK i \in 1..n : x \in Added(calls[i])
        BY <2>2
      <3>2. x \in f[i].plan
        BY <1>3, <3>1
      <3> QED BY <1>0, <1>4, <1>5, <1>7, <3>2
    <2> QED BY <1>7, <2>1, <2>2
  <1> QED BY <1>1, <1>6, <1>7 DEF x, n

\* The Cloak takes into a plan only what it can take away
LEMMA PlannedIsRooted ==
  ASSUME NEW s, NEW c, c.fn \in {"add", "plan"}, Accepts(s, c), NEW p \in c.plan
  PROVE  HasRole(s, p[1], ROOT, c.to)
  <1>1. CASE c.fn = "add"
    BY <1>1 DEF Accepts, OpenCalls
  <1>2. CASE c.fn = "plan"
    BY <1>2 DEF Accepts, OpenCalls
  <1> QED BY <1>1, <1>2

\* No proposal takes ROOT from the Cloak
KeepsRoot(calls) ==
  \A i \in DOMAIN calls : calls[i].fn = "revokeRoles" /\ calls[i].user = Ctx.cloak => ROOT \notin calls[i].roles

LEMMA ExecShapes ==
  ASSUME NEW s, Shaped(s), Rooted(s), NEW calls, Calls(calls), CloakOnly(calls), KeepsRoot(calls),
         NEW f, Through(s, calls, f)
  PROVE  Shaped(f[Len(calls)]) /\ Rooted(f[Len(calls)])
  <1> DEFINE n == Len(calls)
             t == f[n]
  <1>0. n \in Nat /\ DOMAIN calls = 1..n /\ 0 \in 0..n /\ f[0] = s /\ \A i \in 1..n : i - 1 \in 0..n
    BY DEF Calls, Through
  <1>1. ASSUME NEW k \in 0..n, NEW i \in (k + 1)..n PROVE i \in 1..n
    BY <1>0
  <1>2. ASSUME NEW q \in t.perm PROVE q = <<q[1], q[2], q[3]>>
    <2>1. q \in s.perm \/ \E i \in 1..n : q \in Granted(calls[i])
      BY <1>0, <1>1, PermMoves
    <2> QED BY <2>1 DEF Shaped, Granted
  <1>3. ASSUME NEW q \in t.plan
        PROVE  q \in s.plan \/ \E i \in 1..n : q \in Added(calls[i])
    BY <1>0, <1>1, PlanMoves
  <1>4. ASSUME NEW i \in 1..n, NEW q \in Added(calls[i])
        PROVE  /\ q = <<q[1], q[2], q[3], q[4]>> /\ q[1] = Ctx.cloak
               /\ HasRole(f[i - 1], q[3], ROOT, Ctx.cloak)
    <2>1. calls[i].fn \in {"add", "plan"} /\ calls[i].to = Ctx.cloak
      BY <1>0 DEF Added, CloakOnly
    <2>2. PICK p \in calls[i].plan : q = <<calls[i].to, calls[i].user, p[1], p[2]>>
      BY <2>1 DEF Added
    <2>3. Accepts(f[i - 1], calls[i])
      BY DEF Through
    <2>4. HasRole(f[i - 1], p[1], ROOT, calls[i].to)
      BY <2>1, <2>3, PlannedIsRooted
    <2> QED BY <2>1, <2>2, <2>4
  <1>5. ASSUME NEW h, NEW i \in 1..n, <<h, ROOT, Ctx.cloak>> \in Revoked(calls[i]) PROVE FALSE
    BY <1>0, <1>5 DEF Revoked, KeepsRoot
  <1>6. ASSUME NEW h, NEW k \in 0..n, HasRole(f[k], h, ROOT, Ctx.cloak) PROVE HasRole(t, h, ROOT, Ctx.cloak)
    <2> DEFINE x == <<h, ROOT, Ctx.cloak>>
    <2>1. x \in f[k].perm /\ \A i \in (k + 1)..n : x \notin Revoked(calls[i])
      BY <1>1, <1>5, <1>6 DEF HasRole
    <2> HIDE DEF x
    <2>2. x \in t.perm
      BY <2>1, PermMoves
    <2> QED BY <2>2 DEF HasRole, x
  <1> HIDE DEF t
  <1>7. Shaped(t)
    BY <1>2, <1>3, <1>4 DEF Shaped
  <1>8. ASSUME NEW q \in t.plan PROVE HasRole(t, q[3], ROOT, Ctx.cloak)
    <2>1. CASE q \in s.plan
      <3>1. HasRole(f[0], q[3], ROOT, Ctx.cloak)
        BY <1>0, <2>1 DEF Rooted
      <3> QED BY <1>0, <1>6, <3>1
    <2>2. CASE \E i \in 1..n : q \in Added(calls[i])
      <3>1. PICK i \in 1..n : q \in Added(calls[i])
        BY <2>2
      <3>2. HasRole(f[i - 1], q[3], ROOT, Ctx.cloak)
        BY <1>4, <3>1
      <3> QED BY <1>0, <1>6, <3>2
    <2> QED BY <1>3, <2>1, <2>2
  <1> QED BY <1>7, <1>8 DEF Rooted, t

\* Who a proposal does not deal with keeps what it has
LEMMA Unconcerned ==
  ASSUME NEW s, Shaped(s), NEW calls, NEW u, u \notin Concerned(calls)
  PROVE  Fills(s, calls, u) /\ (Arms(s, calls, u) \/ Retires(s, calls, u))
  <1>1. ASSUME NEW fns, fns \subseteq Permissioned PROVE ToUser(calls, fns, u) = {}
    BY <1>1 DEF ToUser, Concerned
  <1>2. Gives(calls, u) = {} /\ Takes(calls, u) = {} /\ Plans(calls, u) = {} /\ Drops(calls, u) = {}
    <2>1. /\ ToUser(calls, {"grantRoles"}, u) = {} /\ ToUser(calls, {"revokeRoles"}, u) = {}
          /\ ToUser(calls, {"add", "plan"}, u) = {} /\ ToUser(calls, {"remove"}, u) = {}
      BY <1>1 DEF Permissioned
    <2> QED BY <2>1 DEF Gives, Takes, Plans, Drops
  <1>3. Fills(s, calls, u)
    BY <1>2 DEF Fills
  <1>4. CASE PlanOf(s, Ctx.cloak, u) = {} \/ Acts(s, <<Ctx.cloak, u>>)
    BY <1>2, <1>3, <1>4 DEF Arms
  <1>5. CASE ~Acts(s, <<Ctx.cloak, u>>)
    <2>1. ASSUME NEW p \in PlanOf(s, Ctx.cloak, u), p \in HeldBy(s, u) PROVE FALSE
      <3>1. PICK q \in s.perm : q[3] = u /\ p = <<q[1], q[2]>>
        BY <2>1 DEF HeldBy
      <3>2. ~HasRole(s, p[1], p[2], u)
        BY <1>5 DEF Acts
      <3> QED BY <3>1, <3>2 DEF HasRole, Shaped
    <2> QED BY <1>2, <1>3, <2>1 DEF Retires
  <1> QED BY <1>4, <1>5

LEMMA CheckIsHeld ==
  ASSUME NEW s, NEW c, c.fn = "check", Accepts(s, c), NEW p \in PlanOf(s, c.args[1], c.args[2])
  PROVE  HasRole(s, p[1], p[2], c.args[2])
  BY DEF Accepts, OpenCalls

\* What a proposal that checks a plan leaves planned it leaves held
LEMMA CheckedStays ==
  ASSUME NEW s, NEW calls, Calls(calls), NEW f, Through(s, calls, f), NEW u, Checks(calls, u),
         NEW h, NEW r, <<Ctx.cloak, u, h, r>> \in f[Len(calls)].plan
  PROVE  <<h, r, u>> \in f[Len(calls)].perm
  <1> DEFINE n == Len(calls)
             x == <<h, r, u>>
             y == <<Ctx.cloak, u, h, r>>
  <1>0. n \in Nat /\ DOMAIN calls = 1..n
    BY DEF Calls
  <1>1. PICK k \in 1..n :
          /\ calls[k].fn = "check" /\ calls[k].args = <<Ctx.cloak, u>>
          /\ \A j \in (k + 1)..n : calls[j].fn \in {"add", "plan", "revokeRoles"} => calls[j].user # u
    BY <1>0 DEF Checks
  <1>2. k \in 0..n /\ Accepts(f[k - 1], calls[k])
    BY <1>0 DEF Through
  <1>3. \A j \in (k + 1)..n : x \notin Revoked(calls[j]) /\ y \notin Added(calls[j])
    BY <1>1 DEF Revoked, Added
  <1>4. y \in f[k].plan
    <2> HIDE DEF y
    <2> QED BY <1>2, <1>3, PlanMoves DEF y
  <1>5. y \in f[k - 1].plan
    <2>1. y \notin Added(calls[k])
      BY <1>1 DEF Added
    <2> HIDE DEF y
    <2> QED BY <1>4, <2>1, CallMoves
  <1>6. x \in f[k - 1].perm
    <2>1. <<h, r>> \in PlanOf(f[k - 1], Ctx.cloak, u)
      BY <1>5 DEF PlanOf
    <2>2. calls[k].args[1] = Ctx.cloak /\ calls[k].args[2] = u
      BY <1>1
    <2>3. HasRole(f[k - 1], <<h, r>>[1], <<h, r>>[2], u)
      BY <1>1, <1>2, <2>1, <2>2, CheckIsHeld
    <2> QED BY <2>3 DEF HasRole
  <1>7. x \in f[k].perm
    <2>1. x \notin Revoked(calls[k])
      BY <1>1 DEF Revoked
    <2> HIDE DEF x
    <2> QED BY <1>6, <2>1, CallMoves
  <1>8. x \in f[n].perm
    <2> HIDE DEF x
    <2> QED BY <1>2, <1>3, <1>7, PermMoves
  <1> QED BY <1>8

\* A proposal that keeps the plans leaves the Cloak able to isolate all that have one
LEMMA ExecKeepsReady ==
  ASSUME NEW s, Shaped(s), Rooted(s), Ready(s), NEW calls, Calls(calls), KeepsPlans(s, calls),
         NEW f, Through(s, calls, f)
  PROVE  Ready(f[Len(calls)])
  <1> DEFINE n == Len(calls)
             t == f[n]
  <1>1. CloakOnly(calls) /\ KeepsRoot(calls)
    BY DEF KeepsPlans, CloakOnly, KeepsRoot
  <1>2. Shaped(t) /\ Rooted(t)
    BY <1>1, ExecShapes
  <1>3. t.out = s.out
    BY DEF Through, Calls
  <1>4. SUFFICES ASSUME NEW u, <<Ctx.cloak, u>> \notin s.out, Acts(t, <<Ctx.cloak, u>>),
                        NEW h, NEW r, <<Ctx.cloak, u, h, r>> \in t.plan
                 PROVE  <<h, r, u>> \in t.perm
    <2> HIDE DEF t
    <2> SUFFICES ASSUME NEW q \in Planned(t) \ t.out, Acts(t, q)
                 PROVE  CanIsolate(t, q[1], q[2])
      BY DEF Ready, t
    <2>1. q = <<Ctx.cloak, q[2]>>
      BY <1>2 DEF Planned, Shaped
    <2>2. <<Ctx.cloak, q[2]>> \notin t.out /\ PlanOf(t, Ctx.cloak, q[2]) # {}
      <3>1. PICK x \in t.plan : q = <<x[1], x[2]>>
        BY DEF Planned
      <3>2. x[1] = Ctx.cloak /\ x[2] = q[2]
        BY <2>1, <3>1
      <3>3. <<x[3], x[4]>> \in PlanOf(t, Ctx.cloak, q[2])
        BY <3>2 DEF PlanOf
      <3> QED BY <2>1, <3>3
    <2>3. ASSUME NEW p \in PlanOf(t, Ctx.cloak, q[2])
          PROVE  HasRole(t, p[1], p[2], q[2]) /\ HasRole(t, p[1], ROOT, Ctx.cloak)
      <3>1. <<Ctx.cloak, q[2], p[1], p[2]>> \in t.plan
        BY <1>2, PlannedIs
      <3>2. <<p[1], p[2], q[2]>> \in t.perm
        BY <1>3, <1>4, <2>1, <2>2, <3>1
      <3> QED BY <1>2, <3>1, <3>2 DEF HasRole, Rooted
    <2> QED BY <2>1, <2>2, <2>3 DEF CanIsolate
  <1> DEFINE y == <<h, r>>
  <1>5. Checks(calls, u) => <<h, r, u>> \in t.perm
    BY <1>4, CheckedStays
  <1>6. ASSUME Arms(s, calls, u) PROVE <<h, r, u>> \in t.perm
    <2>1. CASE y \in Plans(calls, u)
      <3>1. y \in (Gives(calls, u) \cup HeldBy(s, u)) \ Takes(calls, u)
        BY <1>6, <2>1 DEF Arms
      <3>2. y \in HeldBy(s, u) => <<h, r, u>> \in s.perm
        BY HeldIs DEF HasRole
      <3> QED BY <3>1, <3>2, ExecMovesPerm
    <2>2. CASE y \notin Plans(calls, u)
      <3>1. <<Ctx.cloak, u, h, r>> \in s.plan /\ y \notin Drops(calls, u)
        BY <1>1, <1>4, <2>2, ExecMovesPlan
      <3>2. y \in PlanOf(s, Ctx.cloak, u) /\ <<Ctx.cloak, u>> \in Planned(s)
        BY <3>1 DEF PlanOf, Planned
      <3>3. y \notin Takes(calls, u) /\ Acts(s, <<Ctx.cloak, u>>)
        BY <1>6, <2>2, <3>1, <3>2 DEF Arms
      <3>4. CanIsolate(s, Ctx.cloak, u)
        BY <1>4, <3>2, <3>3 DEF Ready
      <3>5. <<h, r, u>> \in s.perm
        BY <3>2, <3>4 DEF CanIsolate, HasRole
      <3> QED BY <3>3, <3>5, ExecMovesPerm
    <2> QED BY <2>1, <2>2
  <1>7. ASSUME Retires(s, calls, u) PROVE FALSE
    <2>1. PICK p \in PlanOf(t, Ctx.cloak, u) : HasRole(t, p[1], p[2], u)
      BY <1>4 DEF Acts
    <2>2. p = <<p[1], p[2]>> /\ <<Ctx.cloak, u, p[1], p[2]>> \in t.plan
      BY <1>2, PlannedIs
    <2>3. <<Ctx.cloak, u, p[1], p[2]>> \in s.plan
      BY <1>1, <1>7, <2>2, ExecMovesPlan DEF Retires
    <2>4. p \in PlanOf(s, Ctx.cloak, u)
      BY <2>2, <2>3, PlannedIs
    <2>5. p \notin Gives(calls, u)
      BY <1>7, <2>4 DEF Retires
    <2>6. <<p[1], p[2], u>> \in s.perm /\ p \notin Takes(calls, u)
      BY <2>1, <2>2, <2>5, ExecMovesPerm DEF HasRole
    <2>7. p \in HeldBy(s, u)
      BY <2>2, <2>6, HeldIs DEF HasRole
    <2> QED BY <1>7, <2>4, <2>6, <2>7 DEF Retires
  <1>8. CASE u \in Concerned(calls)
    BY <1>4, <1>5, <1>6, <1>7, <1>8 DEF KeepsPlans
  <1>9. CASE u \notin Concerned(calls)
    BY <1>6, <1>7, <1>9, Unconcerned
  <1> QED BY <1>8, <1>9

\* ... and leaves no permission of value out of a plan
LEMMA ExecKeepsComplete ==
  ASSUME NEW s, Shaped(s), Rooted(s), Complete(s), NEW calls, Calls(calls), KeepsPlans(s, calls),
         NEW f, Through(s, calls, f)
  PROVE  Complete(f[Len(calls)])
  <1> DEFINE n == Len(calls)
             t == f[n]
  <1>1. CloakOnly(calls) /\ KeepsRoot(calls)
    BY DEF KeepsPlans, CloakOnly, KeepsRoot
  <1>2. Shaped(t) /\ Rooted(t)
    BY <1>1, ExecShapes
  <1>3. SUFFICES ASSUME NEW u \in Covered(t), NEW h, NEW r, ToPlan(h, r, u), <<h, r, u>> \in t.perm
                 PROVE  <<Ctx.cloak, u, h, r>> \in t.plan
    <2> HIDE DEF t
    <2> SUFFICES ASSUME NEW u \in Covered(t), NEW q \in t.perm, ToPlan(q[1], q[2], u), q[3] = u
                 PROVE  <<q[1], q[2]>> \in PlanOf(t, Ctx.cloak, u)
      BY DEF Complete, t
    <2>1. <<q[1], q[2], u>> \in t.perm
      BY <1>2 DEF Shaped
    <2>2. <<Ctx.cloak, u, q[1], q[2]>> \in t.plan
      BY <1>3, <2>1
    <2> QED BY <2>2 DEF PlanOf
  <1> DEFINE y == <<h, r>>
             planned == PlanOf(s, Ctx.cloak, u)
  <1>4. u \in Covered(s) \/ \E p \in Plans(calls, u) : p[1] = Ctx.cauldron
    <2>1. PICK q \in t.plan : q[1] = Ctx.cloak /\ q[3] = Ctx.cauldron /\ q[2] = u
      BY <1>3 DEF Covered
    <2>2. q = <<Ctx.cloak, u, Ctx.cauldron, q[4]>>
      BY <1>2, <2>1 DEF Shaped
    <2>3. CASE <<Ctx.cauldron, q[4]>> \in Plans(calls, u)
      BY <2>3
    <2>4. CASE <<Ctx.cauldron, q[4]>> \notin Plans(calls, u)
      <3>1. <<Ctx.cloak, u, Ctx.cauldron, q[4]>> \in s.plan
        BY <1>1, <2>2, <2>4, ExecMovesPlan
      <3> QED BY <3>1 DEF Covered
    <2> QED BY <2>3, <2>4
  <1>5. Fills(s, calls, u)
    BY Unconcerned DEF KeepsPlans
  <1>0. ToPlan(y[1], y[2], u)
    BY <1>3
  <1>6. /\ y \in Gives(calls, u) => y \in (planned \cup Plans(calls, u)) \ Drops(calls, u)
        /\ y \in Drops(calls, u) => y \in Takes(calls, u) \ Gives(calls, u)
        /\ u \in Covered(s) \/ (y \in HeldBy(s, u) =>
             y \in planned \cup Plans(calls, u) \cup (Takes(calls, u) \ Gives(calls, u)))
    <2> HIDE DEF y
    <2> QED BY <1>0, <1>4, <1>5 DEF Fills
  <1>7. y \in planned => <<Ctx.cloak, u, h, r>> \in s.plan
    BY PlannedIs
  <1>8. (y \in planned \/ y \in Plans(calls, u)) /\ y \notin Drops(calls, u) => <<Ctx.cloak, u, h, r>> \in t.plan
    BY <1>1, <1>7, ExecMovesPlan
  <1>9. CASE y \in Gives(calls, u)
    BY <1>6, <1>8, <1>9
  <1>10. CASE y \notin Gives(calls, u)
    <2>1. <<h, r, u>> \in s.perm /\ y \notin Takes(calls, u)
      BY <1>3, <1>10, ExecMovesPerm
    <2>2. y \in HeldBy(s, u)
      BY <2>1, HeldIs DEF HasRole
    <2>3. u \in Covered(s) => y \in planned
      <3> DEFINE x == <<h, r, u>>
      <3>1. x \in s.perm /\ ToPlan(x[1], x[2], u) /\ x[3] = u /\ y = <<x[1], x[2]>>
        BY <1>3, <2>1
      <3> HIDE DEF x, y
      <3> QED BY <3>1 DEF Complete
    <2>4. (y \in planned \/ y \in Plans(calls, u)) /\ y \notin Drops(calls, u)
      BY <1>6, <2>1, <2>2, <2>3
    <2> QED BY <1>8, <2>4
  <1> QED BY <1>9, <1>10

\* What makes the Cloak able to isolate
Isolatable(s) == Shaped(s) /\ Rooted(s) /\ Ready(s) /\ Complete(s)

LEMMA InitIsolatable == Init => Isolatable(chain)
  <1> SUFFICES ASSUME Init PROVE Isolatable(chain)
    OBVIOUS
  <1>1. PICK id \in DOMAIN Chains : chain = Chains[id]
    BY DEF Init
  <1> QED BY <1>1, FirstPlansAssumption DEF Isolatable, Shaped, Rooted

LEMMA ExecutionKeepsIsolatable ==
  ASSUME IInv, ProposalsAreCalls, PlansAreKept, Isolatable(chain), NEW tx, MineExecution(tx)
  PROVE  Isolatable(chain')
  <1> DEFINE calls == tx[2][2]
  <1>1. Executable(chain, calls) /\ chain' = Exec(chain, calls) /\ tx[2] \in DOMAIN timelock /\ tx[2] \in ripe
    BY ExecutionIsDue
  <1>2. Calls(calls) /\ KeepsPlans(chain, calls) /\ Fields(chain)
    BY <1>1 DEF ProposalsAreCalls, PlansAreKept, IInv, Sound
  <1> HIDE DEF calls
  <1>3. PICK f : Through(chain, calls, f) /\ chain' = f[Len(calls)]
    BY <1>1, <1>2, ExecGoesThrough
  <1>4. CloakOnly(calls) /\ KeepsRoot(calls)
    BY <1>2 DEF KeepsPlans, CloakOnly, KeepsRoot
  <1> QED BY <1>2, <1>3, <1>4, ExecShapes, ExecKeepsReady, ExecKeepsComplete DEF Isolatable

\* An isolation takes nothing from the Cloak, nor from others
LEMMA IsolationKeepsIsolatable ==
  ASSUME IInv, Isolatable(chain), NEW u \in Users[chain.id], IsolateUser(u)
  PROVE  Isolatable(chain')
  <1>1. /\ chain'.plan = chain.plan /\ chain'.out = chain.out \cup {<<Ctx.cloak, u>>}
        /\ chain'.perm = chain.perm \ {<<p[1], p[2], u>> : p \in PlanOf(chain, Ctx.cloak, u)}
    BY IsolateKeeps DEF IsolateUser, IInv
  <1>2. u # Ctx.cloak
    BY FirstPlansAssumption DEF IInv, Sound
  <1>3. ASSUME NEW h, NEW r, NEW v, v # u
        PROVE  <<h, r, v>> \in chain'.perm <=> <<h, r, v>> \in chain.perm
    BY <1>1, <1>3
  <1>4. Shaped(chain') /\ chain'.perm \subseteq chain.perm
    BY <1>1 DEF Isolatable, Shaped
  <1>5. Rooted(chain')
    BY <1>1, <1>2, <1>3 DEF Isolatable, Rooted, HasRole
  <1>6. \A v : PlanOf(chain', Ctx.cloak, v) = PlanOf(chain, Ctx.cloak, v)
    BY <1>1 DEF PlanOf
  <1>7. Ready(chain')
    <2> SUFFICES ASSUME NEW q \in Planned(chain') \ chain'.out, Acts(chain', q)
                 PROVE  CanIsolate(chain', q[1], q[2])
      BY DEF Ready
    <2>1. q \in Planned(chain) /\ q = <<Ctx.cloak, q[2]>>
      BY <1>1 DEF Planned, Isolatable, Shaped
    <2>2. q[2] # u /\ q \notin chain.out
      BY <1>1, <2>1
    <2>3. Acts(chain, q)
      BY <1>3, <1>6, <2>1, <2>2 DEF Acts, HasRole
    <2>4. CanIsolate(chain, Ctx.cloak, q[2])
      BY <2>1, <2>2, <2>3 DEF Isolatable, Ready
    <2> QED BY <1>1, <1>2, <1>3, <1>6, <2>1, <2>2, <2>4 DEF CanIsolate, HasRole
  <1>8. Complete(chain')
    BY <1>1, <1>4, <1>6 DEF Isolatable, Complete, Covered
  <1> QED BY <1>4, <1>5, <1>7, <1>8 DEF Isolatable

\* Who is restored holds all that is planned, and no more than before
LEMMA RestorationKeepsIsolatable ==
  ASSUME IInv, Isolatable(chain), NEW u \in Users[chain.id], RestoreUser(u)
  PROVE  Isolatable(chain')
  <1>1. /\ chain'.plan = chain.plan /\ chain'.out = chain.out \ {<<Ctx.cloak, u>>}
        /\ chain'.perm = chain.perm \cup {<<p[1], p[2], u>> : p \in PlanOf(chain, Ctx.cloak, u)}
    BY RestoreKeeps DEF RestoreUser, IInv
  <1>3. ASSUME NEW h, NEW r, NEW v, v # u
        PROVE  <<h, r, v>> \in chain'.perm <=> <<h, r, v>> \in chain.perm
    BY <1>1, <1>3
  <1>4. Shaped(chain') /\ chain.perm \subseteq chain'.perm
    <2>1. chain.perm \subseteq chain'.perm /\ \A q \in chain'.perm : q = <<q[1], q[2], q[3]>>
      BY <1>1 DEF Isolatable, Shaped
    <2> QED BY <1>1, <2>1 DEF Isolatable, Shaped
  <1>5. Rooted(chain')
    BY <1>1, <1>4 DEF Isolatable, Rooted, HasRole
  <1>6. \A v : PlanOf(chain', Ctx.cloak, v) = PlanOf(chain, Ctx.cloak, v)
    BY <1>1 DEF PlanOf
  <1>7. Ready(chain')
    <2> SUFFICES ASSUME NEW q \in Planned(chain') \ chain'.out, Acts(chain', q)
                 PROVE  CanIsolate(chain', q[1], q[2])
      BY DEF Ready
    <2>1. q \in Planned(chain) /\ q = <<Ctx.cloak, q[2]>>
      BY <1>1 DEF Planned, Isolatable, Shaped
    <2>2. PlanOf(chain', Ctx.cloak, q[2]) # {}
      <3>1. PICK x \in chain'.plan : q = <<x[1], x[2]>>
        BY DEF Planned
      <3>2. x[1] = Ctx.cloak /\ x[2] = q[2]
        BY <2>1, <3>1
      <3>3. <<x[3], x[4]>> \in PlanOf(chain', Ctx.cloak, q[2])
        BY <3>2 DEF PlanOf
      <3> QED BY <3>3
    <2>3. ASSUME NEW p \in PlanOf(chain, Ctx.cloak, q[2])
          PROVE  HasRole(chain', p[1], ROOT, Ctx.cloak) /\ HasRole(chain', p[1], p[2], q[2])
      <3>1. HasRole(chain', p[1], ROOT, Ctx.cloak)
        <4>1. <<Ctx.cloak, q[2], p[1], p[2]>> \in chain'.plan
          BY <1>1, PlannedIs DEF Isolatable
        <4> QED BY <1>5, <4>1 DEF Rooted
      <3>2. CASE q[2] = u
        BY <1>1, <2>3, <3>1, <3>2 DEF HasRole
      <3>3. CASE q[2] # u
        <4>1. q \notin chain.out
          BY <1>1, <2>1, <3>3
        <4>2. Acts(chain, q)
          <5>1. PICK x \in PlanOf(chain', q[1], q[2]) : HasRole(chain', x[1], x[2], q[2])
            BY DEF Acts
          <5>2. x \in PlanOf(chain, q[1], q[2]) /\ HasRole(chain, x[1], x[2], q[2])
            BY <1>3, <1>6, <2>1, <3>3, <5>1 DEF HasRole
          <5> QED BY <5>2 DEF Acts
        <4>3. CanIsolate(chain, Ctx.cloak, q[2])
          BY <2>1, <4>1, <4>2 DEF Isolatable, Ready
        <4> QED BY <1>4, <2>3, <3>1, <4>3 DEF CanIsolate, HasRole
      <3> QED BY <3>2, <3>3
    <2> QED BY <1>6, <2>1, <2>2, <2>3 DEF CanIsolate
  <1>8. Complete(chain')
    <2> SUFFICES ASSUME NEW v \in Covered(chain'), NEW q \in chain'.perm, ToPlan(q[1], q[2], v), q[3] = v
                 PROVE  <<q[1], q[2]>> \in PlanOf(chain', Ctx.cloak, v)
      BY DEF Complete
    <2>1. CASE q \in chain.perm
      BY <1>1, <1>6, <2>1 DEF Isolatable, Complete, Covered
    <2>2. CASE q \notin chain.perm
      <3>1. PICK p \in PlanOf(chain, Ctx.cloak, u) : q = <<p[1], p[2], u>>
        BY <1>1, <2>2
      <3>2. p = <<p[1], p[2]>>
        BY DEF PlanOf
      <3> QED BY <1>6, <3>1, <3>2
    <2> QED BY <2>1, <2>2
  <1> QED BY <1>4, <1>5, <1>7, <1>8 DEF Isolatable

LEMMA AnyoneKeepsIsolatable ==
  ASSUME IInv, Isolatable(chain), NEW c \in Open[chain.id], Anyone(c)
  PROVE  Isolatable(chain')
  <1>1. /\ c.fn \notin {"grantRoles", "revokeRoles", "add", "remove", "plan"}
        /\ Fields(chain) /\ chain' = Result(chain, c)
    BY GovernanceAssumption DEF Anyone, IInv, Sound
  <1>2. chain'.perm = chain.perm /\ chain'.plan = chain.plan /\ chain'.out = chain.out
    BY <1>1, ResultKeeps
  <1>3. \A v, w : PlanOf(chain', v, w) = PlanOf(chain, v, w)
    BY <1>2 DEF PlanOf
  <1>4. Planned(chain') = Planned(chain) /\ Covered(chain') = Covered(chain)
    BY <1>2 DEF Planned, Covered
  <1>5. Shaped(chain') /\ Rooted(chain')
    BY <1>2 DEF Isolatable, Shaped, Rooted, HasRole
  <1>6. Ready(chain')
    BY <1>2, <1>3, <1>4 DEF Isolatable, Ready, Acts, CanIsolate, HasRole
  <1>7. Complete(chain')
    BY <1>2, <1>3, <1>4 DEF Isolatable, Complete
  <1> QED BY <1>5, <1>6, <1>7 DEF Isolatable

\* As long as the proposals that are about to be executed keep to the discipline of
\* KeepsPlans, whatever the order in which they are executed and whoever is isolated
\* or restored in between: the Cloak can isolate at once whoever has a plan and acts,
\* and takes from it each permission to move what the protocol holds, but for the
\* Ladle's give.
THEOREM GovernanceIsolationWorks ==
  Spec => ([]ProposalsAreCalls /\ []PlansAreKept => []IsolationWorks)
  <1> DEFINE J == Isolatable(chain)
  <1>1. Init => J
    BY InitIsolatable
  <1>2. IInv /\ ProposalsAreCalls /\ PlansAreKept /\ J /\ [Next]_vars => J'
    <2> SUFFICES ASSUME IInv, ProposalsAreCalls, PlansAreKept, Isolatable(chain), [Next]_vars
                 PROVE  Isolatable(chain')
      BY DEF Isolatable, Shaped, Rooted, Ready, Complete
    <2>1. ChainSteps
      BY NextKeeps
    <2>2. CASE chain' = chain
      BY <2>2
    <2> QED BY <2>1, <2>2, ExecutionKeepsIsolatable, IsolationKeepsIsolatable, RestorationKeepsIsolatable,
               AnyoneKeepsIsolatable DEF ChainSteps
  <1>3. J => IsolationWorks
    BY DEF Isolatable, IsolationWorks, IsolationIsReady, IsolationIsComplete
  <1>4. Spec => ([]ProposalsAreCalls => []IInv)
    BY GovernanceInvariant
  <1> HIDE DEF J
  <1> QED BY <1>1, <1>2, <1>3, <1>4, PTL DEF Spec

-----------------------------------------------------------------------------
(* Orderly proposals.  Most scripts deal with insiders, the users that may *)
(* have a plan, in one way only: they grant them something and plan it.    *)

\* What an orderly proposal is, whatever the chain
LEMMA OrderlyCalls ==
  ASSUME NEW I, NEW calls, Orderly(calls, I)
  PROVE  /\ Calls(calls) /\ NoPlan(calls) /\ CloakOnly(calls) /\ KeepsRoot(calls)
         /\ \A users \in SUBSET I : PlansItsGrants(calls, users)
  <1>0. Len(calls) \in Nat /\ DOMAIN calls = 1..Len(calls) /\ calls \in Seq({calls[i] : i \in 1..Len(calls)})
    BY DEF Orderly, Listed
  <1>1. ASSUME NEW i \in 1..Len(calls), Paired(calls[i], calls, I)
        PROVE  \/ \E j \in 1..Len(calls) : Pair(calls[i], calls[j], I)
               \/ \E j \in 1..Len(calls) : Pair(calls[j], calls[i], I)
    BY <1>1 DEF Paired
  <1>2. ASSUME NEW g, NEW a, Pair(g, a, I)
        PROVE  /\ g.fn = "grantRoles" /\ g.user \in I
               /\ a.fn = "add" /\ a.to = Ctx.cloak /\ a.user = g.user /\ a.plan = Permissions(g.to, g.roles)
    BY <1>2 DEF Pair, CloakAdd
  <1>3. ASSUME NEW i \in 1..Len(calls)
        PROVE  /\ calls[i].fn \notin {"plan", "remove"}
               /\ calls[i].fn = "add" => calls[i].to = Ctx.cloak /\ \A p \in calls[i].plan : p = <<p[1], p[2]>>
               /\ calls[i].fn = "revokeRoles" /\ calls[i].user = Ctx.cloak => ROOT \notin calls[i].roles
               /\ calls[i].fn = "grantRoles" /\ calls[i].user \in I =>
                    \E j \in 1..Len(calls) : calls[j].fn = "add" /\ calls[j].to = Ctx.cloak /\ calls[j].user = calls[i].user
    <2>1. CASE Alone(calls[i], I)
      BY <2>1 DEF Alone
    <2>2. CASE \E j \in 1..Len(calls) : Pair(calls[i], calls[j], I)
      BY <1>2, <2>2
    <2>3. CASE \E j \in 1..Len(calls) : Pair(calls[j], calls[i], I)
      BY <1>2, <2>3 DEF Permissions
    <2> QED BY <1>1, <2>1, <2>2, <2>3 DEF Orderly
  <1>4. Calls(calls)
    BY <1>0, <1>3 DEF Calls
  <1>5. NoPlan(calls) /\ CloakOnly(calls) /\ KeepsRoot(calls)
    BY <1>0, <1>3 DEF NoPlan, CloakOnly, KeepsRoot
  <1>6. \A users \in SUBSET I : PlansItsGrants(calls, users)
    BY <1>0, <1>3 DEF PlansItsGrants
  <1> QED BY <1>4, <1>5, <1>6

\* It plans what it gives to an insider, from whom it takes nothing, and plans nothing
\* for others
LEMMA OrderlyArms ==
  ASSUME NEW I, NEW calls, Orderly(calls, I), NEW u
  PROVE  /\ Drops(calls, u) = {}
         /\ u \in I => Takes(calls, u) = {} /\ Gives(calls, u) = Plans(calls, u)
         /\ u \notin I => Plans(calls, u) = {}
  <1>0. DOMAIN calls = 1..Len(calls)
    BY DEF Orderly, Listed
  <1>1. ASSUME NEW g, NEW a, Pair(g, a, I)
        PROVE  /\ g.fn = "grantRoles" /\ g.user \in I
               /\ a.fn = "add" /\ a.user = g.user /\ a.plan = Permissions(g.to, g.roles)
    BY <1>1 DEF Pair, CloakAdd
  <1>2. ASSUME NEW i \in 1..Len(calls)
        PROVE  /\ calls[i].fn \notin {"plan", "remove"}
               /\ calls[i].fn = "revokeRoles" => calls[i].user \notin I
               /\ calls[i].fn = "add" => \E j \in 1..Len(calls) : Pair(calls[j], calls[i], I)
               /\ calls[i].fn = "grantRoles" /\ calls[i].user \in I =>
                    \E j \in 1..Len(calls) : Pair(calls[i], calls[j], I)
    <2>1. CASE Alone(calls[i], I)
      BY <2>1 DEF Alone
    <2>2. CASE \E j \in 1..Len(calls) : Pair(calls[i], calls[j], I)
      BY <1>1, <2>2
    <2>3. CASE \E j \in 1..Len(calls) : Pair(calls[j], calls[i], I)
      BY <1>1, <2>3
    <2> QED BY <2>1, <2>2, <2>3 DEF Orderly, Paired
  <1>3. Drops(calls, u) = {}
    BY <1>0, <1>2 DEF Drops, ToUser
  <1>4. ASSUME u \in I PROVE Takes(calls, u) = {} /\ Gives(calls, u) = Plans(calls, u)
    <2>1. Takes(calls, u) = {}
      BY <1>0, <1>2, <1>4 DEF Takes, ToUser
    <2>2. ASSUME NEW p \in Gives(calls, u) PROVE p \in Plans(calls, u)
      <3>1. PICK i \in 1..Len(calls) : calls[i].fn = "grantRoles" /\ calls[i].user = u /\ p \in Permissions(calls[i].to, calls[i].roles)
        BY <1>0 DEF Gives, ToUser
      <3>2. PICK j \in 1..Len(calls) : Pair(calls[i], calls[j], I)
        BY <1>2, <1>4, <3>1
      <3>3. calls[j].fn = "add" /\ calls[j].user = u /\ p \in calls[j].plan
        BY <1>1, <3>1, <3>2
      <3> QED BY <1>0, <3>3 DEF Plans, ToUser
    <2>3. ASSUME NEW p \in Plans(calls, u) PROVE p \in Gives(calls, u)
      <3>1. PICK i \in 1..Len(calls) : calls[i].fn \in {"add", "plan"} /\ calls[i].user = u /\ p \in calls[i].plan
        BY <1>0 DEF Plans, ToUser
      <3>2. PICK j \in 1..Len(calls) : Pair(calls[j], calls[i], I)
        BY <1>2, <3>1
      <3>3. calls[j].fn = "grantRoles" /\ calls[j].user = u /\ p \in Permissions(calls[j].to, calls[j].roles)
        BY <1>1, <3>1, <3>2
      <3> QED BY <1>0, <3>3 DEF Gives, ToUser
    <2> QED BY <2>1, <2>2, <2>3
  <1>5. ASSUME u \notin I, NEW p \in Plans(calls, u) PROVE FALSE
    <2>1. PICK i \in 1..Len(calls) : calls[i].fn \in {"add", "plan"} /\ calls[i].user = u
      BY <1>0, <1>5 DEF Plans, ToUser
    <2>2. PICK j \in 1..Len(calls) : Pair(calls[j], calls[i], I)
      BY <1>2, <2>1
    <2> QED BY <1>1, <1>5, <2>1, <2>2
  <1> QED BY <1>3, <1>4, <1>5

\* On a chain where the insiders are armed it keeps the plans, and arms them further
LEMMA OrderlyKeepsPlans ==
  ASSUME NEW I, NEW s, Shaped(s), Armed(s, I), NEW calls, Orderly(calls, I)
  PROVE  KeepsPlans(s, calls)
  <1>1. CloakOnly(calls) /\ KeepsRoot(calls)
    BY OrderlyCalls
  <1> SUFFICES ASSUME NEW u PROVE Fills(s, calls, u) /\ (<<Ctx.cloak, u>> \in s.out \/ Arms(s, calls, u))
    BY <1>1 DEF KeepsPlans, CloakOnly, KeepsRoot
  <1>2. CASE u \in I
    <2>1. Drops(calls, u) = {} /\ Takes(calls, u) = {} /\ Gives(calls, u) = Plans(calls, u)
      BY <1>2, OrderlyArms
    <2>2. ASSUME NEW p \in HeldBy(s, u), ToPlan(p[1], p[2], u) PROVE p \in PlanOf(s, Ctx.cloak, u)
      <3>1. PICK q \in s.perm : q[3] = u /\ p = <<q[1], q[2]>>
        BY DEF HeldBy
      <3>2. <<Ctx.cloak, u, q[1], q[2]>> \in s.plan
        BY <1>2, <2>2, <3>1 DEF Armed
      <3> QED BY <3>1, <3>2 DEF PlanOf
    <2>3. Fills(s, calls, u)
      BY <2>1, <2>2 DEF Fills
    <2>4. ASSUME NEW p \in PlanOf(s, Ctx.cloak, u), <<Ctx.cloak, u>> \notin s.out PROVE Acts(s, <<Ctx.cloak, u>>)
      <3>1. <<Ctx.cloak, u, p[1], p[2]>> \in s.plan
        BY PlannedIs
      <3>2. HasRole(s, p[1], p[2], u)
        BY <2>4, <3>1 DEF Armed
      <3> QED BY <3>2 DEF Acts
    <2> QED BY <2>1, <2>3, <2>4 DEF Arms
  <1>3. CASE u \notin I
    <2>1. Drops(calls, u) = {} /\ Plans(calls, u) = {}
      BY <1>3, OrderlyArms
    <2>2. \A q \in s.plan : q[2] # u
      BY <1>3 DEF Armed
    <2>3. PlanOf(s, Ctx.cloak, u) = {} /\ u \notin Covered(s)
      BY <2>2 DEF PlanOf, Covered
    <2> QED BY <2>1, <2>3 DEF Fills, Arms
  <1> QED BY <1>2, <1>3

LEMMA ExecKeepsArmed ==
  ASSUME NEW I, NEW s, Shaped(s), Rooted(s), Armed(s, I), NEW calls, Orderly(calls, I), NEW f, Through(s, calls, f)
  PROVE  Armed(f[Len(calls)], I)
  <1> DEFINE t == f[Len(calls)]
  <1>1. Calls(calls) /\ CloakOnly(calls) /\ KeepsRoot(calls)
    BY OrderlyCalls
  <1>2. Shaped(t) /\ t.out = s.out
    <2>1. Len(calls) \in 0..Len(calls)
      BY <1>1 DEF Calls
    <2> QED BY <1>1, <2>1, ExecShapes DEF Through
  <1>3. ASSUME NEW u, NEW h, NEW r, <<Ctx.cloak, u, h, r>> \in t.plan
        PROVE  u \in I /\ (<<Ctx.cloak, u>> \in t.out \/ <<h, r, u>> \in t.perm)
    <2>1. CASE <<h, r>> \in Plans(calls, u)
      <3>1. u \in I /\ Takes(calls, u) = {} /\ <<h, r>> \in Gives(calls, u)
        BY <2>1, OrderlyArms
      <3> QED BY <1>1, <3>1, ExecMovesPerm
    <2>2. CASE <<h, r>> \notin Plans(calls, u)
      <3> DEFINE x == <<Ctx.cloak, u, h, r>>
      <3>1. x \in s.plan
        BY <1>1, <1>3, <2>2, ExecMovesPlan
      <3>2. x[2] = u /\ x[3] = h /\ x[4] = r
        OBVIOUS
      <3> HIDE DEF x
      <3>3. u \in I /\ (<<Ctx.cloak, u>> \in s.out \/ <<h, r, u>> \in s.perm)
        BY <3>1, <3>2 DEF Armed, HasRole
      <3>4. Takes(calls, u) = {}
        BY <3>3, OrderlyArms
      <3> QED BY <1>1, <1>2, <3>3, <3>4, ExecMovesPerm
    <2> QED BY <2>1, <2>2
  <1>4. ASSUME NEW h, NEW r, NEW u \in I, ToPlan(h, r, u), <<h, r, u>> \in t.perm
        PROVE  <<Ctx.cloak, u, h, r>> \in t.plan
    <2>0. Drops(calls, u) = {} /\ Gives(calls, u) = Plans(calls, u)
      BY OrderlyArms
    <2>3. <<h, r>> \notin Drops(calls, u)
      BY <2>0
    <2>1. CASE <<h, r>> \in Gives(calls, u)
      <3>1. <<h, r>> \in Plans(calls, u)
        BY <2>0, <2>1
      <3> QED BY <1>1, <2>3, <3>1, ExecMovesPlan
    <2>2. CASE <<h, r>> \notin Gives(calls, u)
      <3> DEFINE x == <<h, r, u>>
      <3>1. x \in s.perm
        BY <1>1, <1>4, <2>2, ExecMovesPerm
      <3>2. x[1] = h /\ x[2] = r /\ x[3] = u
        OBVIOUS
      <3> HIDE DEF x
      <3>3. <<Ctx.cloak, u, h, r>> \in s.plan
        BY <1>4, <3>1, <3>2 DEF Armed
      <3> QED BY <1>1, <2>3, <3>3, ExecMovesPlan
    <2> QED BY <2>1, <2>2
  <1> HIDE DEF t
  <1>5. ASSUME NEW q \in t.plan
        PROVE  q[2] \in I /\ (<<Ctx.cloak, q[2]>> \in t.out \/ HasRole(t, q[3], q[4], q[2]))
    <2>1. <<Ctx.cloak, q[2], q[3], q[4]>> \in t.plan
      BY <1>2 DEF Shaped
    <2> QED BY <1>3, <2>1 DEF HasRole
  <1>6. ASSUME NEW q \in t.perm, ToPlan(q[1], q[2], q[3]), q[3] \in I PROVE <<Ctx.cloak, q[3], q[1], q[2]>> \in t.plan
    <2>1. <<q[1], q[2], q[3]>> \in t.perm
      BY <1>2 DEF Shaped
    <2> QED BY <1>4, <1>6, <2>1
  <1>7. Armed(t, I)
    BY <1>5, <1>6 DEF Armed
  <1> QED BY <1>7 DEF t

\* The Cloak isolates insiders and restores them, and what anyone does leaves them alone
LEMMA CloakKeepsArmed ==
  ASSUME NEW I, IInv, Shaped(chain), Armed(chain, I), NEW u, IsolateUser(u) \/ RestoreUser(u)
  PROVE  Armed(chain', I)
  <1> DEFINE planned == PlanOf(chain, Ctx.cloak, u)
             mine == {<<p[1], p[2], u>> : p \in planned}
  <1>0. ASSUME NEW h, NEW r, NEW v
        PROVE  <<h, r, v>> \in mine <=> v = u /\ <<Ctx.cloak, u, h, r>> \in chain.plan
    <2>1. ASSUME <<h, r, v>> \in mine PROVE v = u /\ <<Ctx.cloak, u, h, r>> \in chain.plan
      <3>1. PICK p \in planned : <<h, r, v>> = <<p[1], p[2], u>>
        BY <2>1
      <3>2. h = p[1] /\ r = p[2] /\ v = u
        BY <3>1
      <3> QED BY <3>2, PlannedIs
    <2>2. ASSUME v = u, <<Ctx.cloak, u, h, r>> \in chain.plan PROVE <<h, r, v>> \in mine
      <3> DEFINE p == <<h, r>>
      <3>1. p \in planned
        BY <2>2 DEF PlanOf
      <3>2. p[1] = h /\ p[2] = r
        OBVIOUS
      <3> HIDE DEF p, planned
      <3> QED BY <2>2, <3>1, <3>2
    <2> QED BY <2>1, <2>2
  <1>1. CASE IsolateUser(u)
    <2>1. /\ chain'.plan = chain.plan /\ chain'.out = chain.out \cup {<<Ctx.cloak, u>>}
          /\ chain'.perm = chain.perm \ mine
      BY <1>1, IsolateKeeps DEF IsolateUser, IInv
    <2> HIDE DEF mine
    <2>2. ASSUME NEW q \in chain.plan, q[2] # u, HasRole(chain, q[3], q[4], q[2])
          PROVE  HasRole(chain', q[3], q[4], q[2])
      BY <1>0, <2>1, <2>2 DEF HasRole
    <2> QED BY <2>1, <2>2 DEF Armed
  <1>2. CASE RestoreUser(u)
    <2>1. /\ chain'.plan = chain.plan /\ chain'.out = chain.out \ {<<Ctx.cloak, u>>}
          /\ chain'.perm = chain.perm \cup mine
      BY <1>2, RestoreKeeps DEF RestoreUser, IInv
    <2>2. ASSUME NEW q \in chain.plan
          PROVE  <<Ctx.cloak, q[2]>> \in chain'.out \/ HasRole(chain', q[3], q[4], q[2])
      <3>1. CASE q[2] = u
        <4>1. <<Ctx.cloak, u, q[3], q[4]>> \in chain.plan
          BY <3>1 DEF Shaped
        <4> HIDE DEF mine
        <4> QED BY <1>0, <2>1, <3>1, <4>1 DEF HasRole
      <3>2. CASE q[2] # u
        <4>1. <<Ctx.cloak, q[2]>> # <<Ctx.cloak, u>>
          BY <3>2
        <4> HIDE DEF mine
        <4> QED BY <2>1, <4>1 DEF Armed, HasRole
      <3> QED BY <3>1, <3>2
    <2>3. ASSUME NEW q \in mine PROVE <<Ctx.cloak, q[3], q[1], q[2]>> \in chain.plan
      <3>1. PICK p \in planned : q = <<p[1], p[2], u>>
        OBVIOUS
      <3>2. q[1] = p[1] /\ q[2] = p[2] /\ q[3] = u
        BY <3>1
      <3> QED BY <3>2, PlannedIs
    <2> HIDE DEF mine
    <2> QED BY <2>1, <2>2, <2>3 DEF Armed
  <1> QED BY <1>1, <1>2

LEMMA AnyoneKeepsArmed ==
  ASSUME NEW I, IInv, Armed(chain, I), NEW c \in Open[chain.id], Anyone(c)
  PROVE  Armed(chain', I)
  <1>1. /\ c.fn \notin {"grantRoles", "revokeRoles", "add", "remove", "plan"}
        /\ Fields(chain) /\ chain' = Result(chain, c)
    BY GovernanceAssumption DEF Anyone, IInv, Sound
  <1>2. chain'.perm = chain.perm /\ chain'.plan = chain.plan /\ chain'.out = chain.out
    BY <1>1, ResultKeeps
  <1> QED BY <1>2 DEF Armed, HasRole

\* What the scripts build, from whatever chain there may be, is orderly, and so are the insiders at
\* first, that are all that the Cloak may isolate
OrderlyScripts(insiders) ==
  /\ \A sc \in Scripts : \A s : Sound(s) => Orderly(Build(sc, s), insiders)
  /\ \A id \in DOMAIN Chains : Armed(Chains[id], insiders) /\ Users[id] \subseteq insiders

LEMMA ProposalsAreOrderly ==
  ASSUME NEW I, OrderlyScripts(I), IInv
  PROVE  /\ \A p \in DOMAIN timelock : Orderly(p[2], I)
         /\ ProposalsAreCalls /\ NoOldPlans /\ GrantsArePlanned
  <1>1. ASSUME NEW p \in DOMAIN timelock PROVE Orderly(p[2], I)
    <2>1. p[1] \in Scripts /\ \E s : Sound(s) /\ p[2] = Build(p[1], s)
      BY DEF IInv, TimelockOK, Good
    <2> QED BY <2>1 DEF OrderlyScripts
  <1>2. Users[chain.id] \in SUBSET I
    BY DEF OrderlyScripts, IInv, Sound
  <1> QED BY <1>1, <1>2, OrderlyCalls DEF ProposalsAreCalls, NoOldPlans, GrantsArePlanned

LEMMA OrderlyPlansAreKept ==
  ASSUME NEW I, OrderlyScripts(I), IInv, Isolatable(chain), Armed(chain, I)
  PROVE  PlansAreKept
  <1>1. ripe \subseteq DOMAIN timelock
    BY DEF IInv, TimelockOK
  <1>2. \A p \in DOMAIN timelock : Orderly(p[2], I)
    BY ProposalsAreOrderly
  <1> QED BY <1>1, <1>2, OrderlyKeepsPlans DEF PlansAreKept, Isolatable

LEMMA StepKeepsArmed ==
  ASSUME NEW I, OrderlyScripts(I), IInv, Isolatable(chain), Armed(chain, I), [Next]_vars
  PROVE  Isolatable(chain') /\ Armed(chain', I)
  <1>1. ProposalsAreCalls /\ \A p \in DOMAIN timelock : Orderly(p[2], I)
    BY ProposalsAreOrderly
  <1>2. PlansAreKept
    BY OrderlyPlansAreKept
  <1>3. ChainSteps
    BY <1>1, NextKeeps
  <1>4. CASE chain' = chain
    BY <1>4
  <1>5. ASSUME NEW tx, MineExecution(tx) PROVE Isolatable(chain') /\ Armed(chain', I)
    <2> DEFINE calls == tx[2][2]
    <2>1. Executable(chain, calls) /\ chain' = Exec(chain, calls) /\ tx[2] \in DOMAIN timelock
      BY <1>5, ExecutionIsDue
    <2>2. Orderly(calls, I) /\ Calls(calls) /\ Fields(chain)
      BY <1>1, <2>1, OrderlyCalls DEF IInv, Sound
    <2>3. Isolatable(chain')
      BY <1>1, <1>2, <1>5, ExecutionKeepsIsolatable
    <2> HIDE DEF calls
    <2>4. PICK f : Through(chain, calls, f) /\ chain' = f[Len(calls)]
      BY <2>1, <2>2, ExecGoesThrough
    <2>5. Armed(f[Len(calls)], I)
      BY <2>2, <2>4, ExecKeepsArmed DEF Isolatable
    <2> QED BY <2>3, <2>4, <2>5
  <1>6. CASE \E u \in Users[chain.id] : IsolateUser(u) \/ RestoreUser(u)
    BY <1>6, IsolationKeepsIsolatable, RestorationKeepsIsolatable, CloakKeepsArmed DEF Isolatable
  <1>7. CASE \E c \in Open[chain.id] : Anyone(c)
    BY <1>7, AnyoneKeepsIsolatable, AnyoneKeepsArmed
  <1> QED BY <1>3, <1>4, <1>5, <1>6, <1>7 DEF ChainSteps

\* Whatever the scripts, as long as what they build from any chain is orderly, and
\* whatever the order in which it is approved and executed, again or late, and whoever
\* is isolated in the meantime: what comes up keeps the discipline of the theorems above,
\* only RestoreUser ends an isolation, an isolated user holds nothing of what was planned,
\* the Cloak can isolate whoever acts and has a plan, and takes from it each permission
\* to move what the protocol holds, but for the Ladle's give.
THEOREM GovernanceOrderlyScripts ==
  ASSUME NEW I, OrderlyScripts(I)
  PROVE  Spec => /\ []TypeOK /\ []KeptDiscipline
                  /\ IsolationFrozen /\ []IsolatedHoldsNothing /\ []IsolationWorks
  <1> DEFINE J == Isolatable(chain) /\ Armed(chain, I)
  <1>1. Init => IInv /\ J
    <2>1. Init => Armed(chain, I)
      BY DEF Init, OrderlyScripts
    <2> QED BY <2>1, InitIInv, InitIsolatable
  <1>2. IInv => ProposalsAreCalls /\ NoOldPlans /\ GrantsArePlanned
    BY ProposalsAreOrderly
  <1>3. IInv /\ J /\ [Next]_vars => IInv' /\ J'
    <2> SUFFICES ASSUME IInv, J, [Next]_vars PROVE IInv' /\ J'
      OBVIOUS
    <2>1. IInv'
      BY <1>2, NextKeeps
    <2>2. Isolatable(chain') /\ Armed(chain', I)
      BY StepKeepsArmed
    <2>3. J'
      BY <2>2 DEF Isolatable, Shaped, Rooted, Ready, Complete, Armed
    <2> QED BY <2>1, <2>3
  <1>4. J => IsolationWorks
    BY DEF Isolatable, IsolationWorks, IsolationIsReady, IsolationIsComplete
  <1>5. IInv /\ J => KeptDiscipline
    BY <1>2, OrderlyPlansAreKept DEF KeptDiscipline
  <1> HIDE DEF J
  <1> QED BY <1>1, <1>2, <1>3, <1>4, <1>5, GovernanceTypeCorrect, GovernanceIsolationFrozen,
             GovernanceIsolatedHoldsNothing, PTL DEF Spec

LEMMA ConcatIs ==
  ASSUME NEW p, Listed(p), NEW q, Listed(q)
  PROVE  /\ Listed(p \o q) /\ Len(p \o q) = Len(p) + Len(q)
         /\ \A i \in 1..Len(p) : (p \o q)[i] = p[i]
         /\ \A i \in 1..Len(q) : (p \o q)[Len(p) + i] = q[i]
         /\ \A i \in 1..Len(p \o q) : i \in 1..Len(p) \/ i - Len(p) \in 1..Len(q)
  <1> DEFINE S == {p[i] : i \in 1..Len(p)} \cup {q[i] : i \in 1..Len(q)}
             r == p \o q
  <1>1. p \in Seq(S) /\ q \in Seq(S)
    BY DEF Listed
  <1>2. /\ r \in Seq(S) /\ Len(r) = Len(p) + Len(q)
        /\ \A i \in 1..Len(p) : r[i] = p[i]
        /\ \A i \in 1..Len(q) : r[Len(p) + i] = q[i]
    <2> HIDE DEF S
    <2> QED BY <1>1
  <1>3. Len(r) \in Nat /\ r \in Seq({r[i] : i \in 1..Len(r)})
    <2> HIDE DEF S, r
    <2> QED BY <1>2
  <1>4. \A i \in 1..Len(r) : i \in 1..Len(p) \/ i - Len(p) \in 1..Len(q)
    BY <1>2 DEF Listed
  <1> QED BY <1>2, <1>3, <1>4 DEF Listed

LEMMA OrderlyConcat ==
  ASSUME NEW I, NEW p, Orderly(p, I), NEW q, Orderly(q, I)
  PROVE  Orderly(p \o q, I)
  <1> DEFINE r == p \o q
  <1>1. /\ Listed(r) /\ Len(p) \in Nat /\ Len(q) \in Nat /\ Len(r) = Len(p) + Len(q)
        /\ \A i \in 1..Len(p) : r[i] = p[i]
        /\ \A i \in 1..Len(q) : r[Len(p) + i] = q[i]
        /\ \A i \in 1..Len(r) : i \in 1..Len(p) \/ i - Len(p) \in 1..Len(q)
    <2>1. Listed(p) /\ Listed(q)
      BY DEF Orderly
    <2>2. Len(p) \in Nat /\ Len(q) \in Nat
      BY <2>1 DEF Listed
    <2> QED BY <2>1, <2>2, ConcatIs
  <1> HIDE DEF r
  <1>2. ASSUME NEW c, Paired(c, p, I) PROVE Paired(c, r, I)
    <2>1. PICK j \in 1..Len(p) : Pair(c, p[j], I) \/ Pair(p[j], c, I)
      BY <1>2 DEF Paired
    <2>2. j \in 1..Len(r) /\ r[j] = p[j]
      BY <1>1
    <2> QED BY <2>1, <2>2 DEF Paired
  <1>3. ASSUME NEW c, Paired(c, q, I) PROVE Paired(c, r, I)
    <2>1. PICK j \in 1..Len(q) : Pair(c, q[j], I) \/ Pair(q[j], c, I)
      BY <1>3 DEF Paired
    <2>2. Len(p) + j \in 1..Len(r) /\ r[Len(p) + j] = q[j]
      BY <1>1
    <2> QED BY <2>1, <2>2 DEF Paired
  <1>4. ASSUME NEW i \in 1..Len(r) PROVE Alone(r[i], I) \/ Paired(r[i], r, I)
    <2>1. CASE i \in 1..Len(p)
      BY <1>1, <1>2, <2>1 DEF Orderly
    <2>2. CASE i - Len(p) \in 1..Len(q)
      <3>1. r[i] = q[i - Len(p)]
        <4>1. i = Len(p) + (i - Len(p))
          BY <1>1
        <4> QED BY <1>1, <2>2, <4>1
      <3> QED BY <1>3, <2>2, <3>1 DEF Orderly
    <2> QED BY <1>1, <2>1, <2>2
  <1> QED BY <1>1, <1>4 DEF Orderly, r

\* Literal sequences: calls that stand alone, and a grant with its plan
LEMMA OrderlyEmpty == ASSUME NEW I PROVE Orderly(<<>>, I)
  BY DEF Orderly, Listed

LEMMA OrderlyAlone ==
  ASSUME NEW I, NEW p, Listed(p), \A i \in 1..Len(p) : Alone(p[i], I)
  PROVE  Orderly(p, I)
  BY DEF Orderly

LEMMA OrderlyOne ==
  ASSUME NEW I, NEW c, Alone(c, I)
  PROVE  Orderly(<<c>>, I)
  <1>1. Listed(<<c>>)
    BY DEF Listed
  <1> QED BY <1>1 DEF Orderly

LEMMA OrderlyPair ==
  ASSUME NEW I, NEW host, NEW roles, NEW user \in I
  PROVE  Orderly(<<GrantRoles(host, roles, user), CloakAdd(Ctx.cloak, user, Permissions(host, roles))>>, I)
  <1> DEFINE g == GrantRoles(host, roles, user)
             a == CloakAdd(Ctx.cloak, user, Permissions(host, roles))
  <1>1. Pair(g, a, I)
    BY DEF Pair, GrantRoles
  <1> HIDE DEF g, a
  <1>2. Listed(<<g, a>>) /\ Len(<<g, a>>) = 2
    BY DEF Listed
  <1>3. Paired(g, <<g, a>>, I) /\ Paired(a, <<g, a>>, I)
    BY <1>1, <1>2 DEF Paired
  <1>4. Orderly(<<g, a>>, I)
    BY <1>2, <1>3 DEF Orderly
  <1> QED BY <1>4 DEF g, a

\* ... and a call that stands alone after it or before it
LEMMA OrderlyPairAnd ==
  ASSUME NEW I, NEW g, NEW a, Pair(g, a, I), NEW c, Alone(c, I)
  PROVE  Orderly(<<g, a, c>>, I) /\ Orderly(<<c, g, a>>, I)
  <1>1. Listed(<<g, a, c>>) /\ Len(<<g, a, c>>) = 3 /\ Listed(<<c, g, a>>) /\ Len(<<c, g, a>>) = 3
    BY DEF Listed
  <1>2. Paired(g, <<g, a, c>>, I) /\ Paired(a, <<g, a, c>>, I)
    BY <1>1 DEF Paired
  <1>3. Paired(g, <<c, g, a>>, I) /\ Paired(a, <<c, g, a>>, I)
    BY <1>1 DEF Paired
  <1>4. Orderly(<<g, a, c>>, I)
    BY <1>1, <1>2 DEF Orderly
  <1>5. Orderly(<<c, g, a>>, I)
    BY <1>1, <1>3 DEF Orderly
  <1> QED BY <1>4, <1>5

\* What is between the parts of a sequence put together: a function with this equation
\* exists
FlatOf(seqs, n, f) == f = [i \in 1..n |-> IF i = 1 THEN seqs[i] ELSE f[i - 1] \o seqs[i]]

LEMMA FlattenIs ==
  ASSUME NEW seqs, NEW n \in Nat, n # 0, Len(seqs) = n
  PROVE  \E f : f[1] = seqs[1] /\ (\A i \in 2..n : f[i] = f[i - 1] \o seqs[i]) /\ FlattenSeq(seqs) = f[n]
  <1> DEFINE T == {m \in 0..n : \E f : FlatOf(seqs, m, f)}
  <1>1. 0 \in T
    <2>1. FlatOf(seqs, 0, [i \in 1..0 |-> seqs[i]])
      BY DEF FlatOf
    <2> QED BY <2>1
  <1>2. ASSUME NEW m \in 1..n, m - 1 \in T PROVE m \in T
    <2>1. PICK g : FlatOf(seqs, m - 1, g)
      BY <1>2
    <2> DEFINE f == [i \in 1..m |-> IF i = m THEN (IF m = 1 THEN seqs[1] ELSE g[m - 1] \o seqs[m]) ELSE g[i]]
    <2>2. \A i \in 1..(m - 1) : g[i] = IF i = 1 THEN seqs[i] ELSE g[i - 1] \o seqs[i]
      BY <2>1 DEF FlatOf
    <2>3. \A i \in 1..m : f[i] = IF i = 1 THEN seqs[i] ELSE f[i - 1] \o seqs[i]
      <3> TAKE i \in 1..m
      <3>1. CASE i = m
        BY <1>2, <3>1
      <3>2. CASE i # m
        <4>1. i \in 1..(m - 1) /\ (i # 1 => i - 1 \in 1..m /\ i - 1 # m)
          BY <3>2
        <4>2. f[i] = g[i] /\ (i # 1 => f[i - 1] = g[i - 1])
          BY <3>2, <4>1
        <4> QED BY <2>2, <4>1, <4>2
      <3> QED BY <3>1, <3>2
    <2>4. FlatOf(seqs, m, f)
      <3>1. f = [i \in 1..m |-> f[i]]
        OBVIOUS
      <3> HIDE DEF f
      <3> QED BY <2>3, <3>1 DEF FlatOf
    <2> QED BY <2>4
  <1>3. n \in T
    <2> HIDE DEF T
    <2> QED BY <1>1, <1>2, UpTo
  <1> DEFINE flatten == CHOOSE f : FlatOf(seqs, n, f)
  <1>4. FlatOf(seqs, n, flatten)
    BY <1>3
  <1>5. FlattenSeq(seqs) = flatten[n]
    BY DEF FlattenSeq, FlatOf
  <1> HIDE DEF flatten
  <1>6. \A i \in 1..n : flatten[i] = IF i = 1 THEN seqs[i] ELSE flatten[i - 1] \o seqs[i]
    BY <1>4 DEF FlatOf
  <1>7. flatten[1] = seqs[1] /\ \A i \in 2..n : flatten[i] = flatten[i - 1] \o seqs[i]
    <2>1. 1 \in 1..n /\ \A i \in 2..n : i \in 1..n /\ i # 1
      OBVIOUS
    <2> QED BY <1>6, <2>1
  <1> QED BY <1>5, <1>7

LEMMA OrderlyFlatten ==
  ASSUME NEW I, NEW seqs, NEW n \in Nat, seqs = [i \in 1..n |-> seqs[i]],
         \A i \in 1..n : Orderly(seqs[i], I)
  PROVE  Orderly(FlattenSeq(seqs), I)
  <1>1. Len(seqs) = n
    OBVIOUS
  <1>2. CASE n = 0
    <2>1. FlattenSeq(seqs) = seqs /\ seqs = <<>>
      BY <1>1, <1>2 DEF FlattenSeq
    <2> QED BY <2>1, OrderlyEmpty
  <1>3. CASE n # 0
    <2>1. PICK f : f[1] = seqs[1] /\ (\A i \in 2..n : f[i] = f[i - 1] \o seqs[i]) /\ FlattenSeq(seqs) = f[n]
      BY <1>1, <1>3, FlattenIs
    <2> DEFINE T == {i \in 0..n : i = 0 \/ Orderly(f[i], I)}
    <2>2. 0 \in T
      OBVIOUS
    <2>3. ASSUME NEW i \in 1..n, i - 1 \in T PROVE i \in T
      <3>1. CASE i = 1
        BY <2>1, <3>1
      <3>2. CASE i # 1
        <4>1. i \in 2..n /\ i - 1 # 0
          BY <3>2
        <4>2. Orderly(f[i - 1], I) /\ f[i] = f[i - 1] \o seqs[i]
          BY <2>1, <2>3, <4>1
        <4>3. Orderly(f[i], I)
          BY <4>2, OrderlyConcat
        <4> QED BY <4>3
      <3> QED BY <3>1, <3>2
    <2> HIDE DEF T
    <2>4. n \in T
      BY <2>2, <2>3, UpTo
    <2> QED BY <1>3, <2>1, <2>4 DEF T
  <1> QED BY <1>2, <1>3

LEMMA OrderlyTwo ==
  ASSUME NEW I, NEW a, Alone(a, I), NEW b, Alone(b, I)
  PROVE  Orderly(<<a, b>>, I)
  <1>1. Listed(<<a, b>>) /\ Len(<<a, b>>) = 2
    BY DEF Listed
  <1> QED BY <1>1, OrderlyAlone

LEMMA OrderlyFour ==
  ASSUME NEW I, NEW a, Alone(a, I), NEW b, Alone(b, I), NEW c, Alone(c, I), NEW d, Alone(d, I)
  PROVE  Orderly(<<a, b, c, d>>, I)
  <1>1. Listed(<<a, b, c, d>>) /\ Len(<<a, b, c, d>>) = 4
    BY DEF Listed
  <1> QED BY <1>1, OrderlyAlone

\* The calls that stand alone
LEMMA SetIsAlone ==
  ASSUME NEW I, NEW host, NEW fn, fn \notin {"grantRoles", "revokeRoles", "add", "plan", "remove"},
         NEW var, NEW keys, NEW value
  PROVE  Alone(Set(host, fn, var, keys, value), I)
  BY DEF Alone, Set

LEMMA CallIsAlone ==
  ASSUME NEW I, NEW host, NEW fn, NEW args,
         fn \notin {"grantRoles", "revokeRoles", "add", "plan", "remove", "addAsset", "addSeries"}
  PROVE  Alone(Call(host, fn, args), I)
  BY DEF Alone, Call

LEMMA ThrowIsOrderly == ASSUME NEW I PROVE Orderly(<<Throw>>, I)
  <1>1. Alone(Throw, I)
    BY DEF Alone, Throw
  <1> QED BY <1>1, OrderlyOne

LEMMA GrantIsAlone ==
  ASSUME NEW I, NEW host, NEW roles, NEW user, user \notin I
  PROVE  Alone(GrantRoles(host, roles, user), I)
  BY DEF Alone, GrantRoles

LEMMA RevokeIsAlone ==
  ASSUME NEW I, NEW host, NEW roles, NEW user, Outsider(user, I)
  PROVE  Alone(RevokeRoles(host, roles, user), I)
  BY DEF Alone, RevokeRoles, Outsider

\* The fragments, in the order of their modules
LEMMA revokeRootIsOrderly ==
  ASSUME NEW I, NEW host, NEW user, Outsider(user, I)
  PROVE  Orderly(revokeRoot(host, user), I)
  BY RevokeIsAlone, OrderlyOne DEF revokeRoot

LEMMA WithCodeIsOrderly ==
  ASSUME NEW I, NEW s, NEW address, NEW calls, Orderly(calls, I)
  PROVE  Orderly(WithCode(s, address, calls), I)
  BY ThrowIsOrderly DEF WithCode

LEMMA addFYTokenIsOrderly ==
  ASSUME NEW I, Setting(I), NEW fyToken
  PROVE  Orderly(addFYToken(Ctx, fyToken), I)
  BY OrderlyPair DEF addFYToken, Setting

LEMMA addJoinIsOrderly ==
  ASSUME NEW I, Setting(I), NEW assetId, NEW join
  PROVE  Orderly(addJoin(Ctx, assetId, join), I)
  <1> DEFINE g == GrantRoles(join, JoinRoles, Ctx.ladle)
             a == CloakAdd(Ctx.cloak, Ctx.ladle, Permissions(join, JoinRoles))
             c == Set(Ctx.ladle, "addJoin", "joins", <<assetId>>, join)
  <1>1. Pair(g, a, I)
    BY DEF Pair, GrantRoles, Setting
  <1>2. Alone(c, I)
    BY SetIsAlone
  <1> HIDE DEF g, a, c
  <1>3. Orderly(<<g, a, c>>, I)
    BY <1>1, <1>2, OrderlyPairAnd
  <1> QED BY <1>3 DEF addJoin, g, a, c

LEMMA addPoolIsOrderly ==
  ASSUME NEW I, NEW seriesId, NEW pool
  PROVE  Orderly(addPool(Ctx, seriesId, pool), I)
  BY SetIsAlone, OrderlyOne DEF addPool

LEMMA updateDebtLimitsIsOrderly ==
  ASSUME NEW I, NEW ilk
  PROVE  Orderly(updateDebtLimits(Ctx, ilk), I)
  BY SetIsAlone, OrderlyOne DEF updateDebtLimits

LEMMA updateCollateralizationIsOrderly ==
  ASSUME NEW I, NEW c
  PROVE  Orderly(updateCollateralization(Ctx, c), I)
  BY SetIsAlone, OrderlyOne DEF updateCollateralization

LEMMA addBaseToWitchIsOrderly ==
  ASSUME NEW I, Setting(I), NEW join
  PROVE  Orderly(addBaseToWitch(Ctx, join), I)
  <1>1. {<<join, "join">>} = Permissions(join, {"join"})
    BY DEF Permissions
  <1> QED BY <1>1, OrderlyPair DEF addBaseToWitch, Setting

LEMMA addFYTokenToWitchIsOrderly ==
  ASSUME NEW I, Setting(I), NEW fyToken
  PROVE  Orderly(addFYTokenToWitch(Ctx, fyToken), I)
  <1>1. {<<fyToken, "burn">>} = Permissions(fyToken, {"burn"})
    BY DEF Permissions
  <1> QED BY <1>1, OrderlyPair DEF addFYTokenToWitch, Setting

LEMMA addIlkToWitchIsOrderly ==
  ASSUME NEW I, Setting(I), NEW s, NEW ilk, NEW join
  PROVE  Orderly(addIlkToWitch(s, Ctx, ilk, join), I)
  <1> DEFINE line == setLineAndLimit(Ctx, ilk.auctionLineAndLimit)
             pair == <<GrantRoles(join, {"exit"}, Ctx.witch), CloakAdd(Ctx.cloak, Ctx.witch, {<<join, "exit">>})>>
             rest == IF HasRole(s, join, "exit", Ctx.witch) THEN <<>> ELSE pair
  <1>1. Orderly(line, I)
    BY SetIsAlone, OrderlyOne DEF setLineAndLimit
  <1>2. {<<join, "exit">>} = Permissions(join, {"exit"})
    BY DEF Permissions
  <1>3. Orderly(pair, I)
    BY <1>2, OrderlyPair DEF Setting
  <1> HIDE DEF line, pair
  <1>4. Orderly(rest, I)
    BY <1>3, OrderlyEmpty
  <1> HIDE DEF rest
  <1>5. Orderly(line \o rest, I)
    BY <1>1, <1>4, OrderlyConcat
  <1> QED BY <1>5 DEF addIlkToWitch, line, rest, pair

LEMMA makeAssetIsOrderly ==
  ASSUME NEW I, NEW asset
  PROVE  Orderly(makeAsset(Ctx, asset), I)
  BY SetIsAlone, OrderlyOne DEF makeAsset

LEMMA addAssetIsOrderly ==
  ASSUME NEW I, Setting(I), NEW asset, NEW joins
  PROVE  Orderly(addAsset(Ctx, asset, joins), I)
  BY ThrowIsOrderly, makeAssetIsOrderly, addJoinIsOrderly, OrderlyConcat DEF addAsset

LEMMA makeBaseIsOrderly ==
  ASSUME NEW I, Setting(I), NEW base, NEW joins
  PROVE  Orderly(makeBase(Ctx, base, joins), I)
  <1>1. Orderly(updateRateOracle(Ctx, base.assetId, base.rateOracle), I)
    BY SetIsAlone, OrderlyOne DEF updateRateOracle
  <1> QED BY <1>1, ThrowIsOrderly, addBaseToWitchIsOrderly, OrderlyConcat DEF makeBase

LEMMA makeIlkIsOrderly ==
  ASSUME NEW I, Setting(I), NEW s, NEW ilk, NEW joins
  PROVE  Orderly(makeIlk(s, Ctx, ilk, joins), I)
  <1> DEFINE a == updateCollateralization(Ctx, ilk.collateralization)
             b == updateDebtLimits(Ctx, ilk)
             eth == [baseId |-> ilk.collateralization.ilkId, ilkId |-> "ETH",
                     oracle |-> ilk.collateralization.oracle, ratio |-> 200]
             c == updateCollateralization(Ctx, eth)
             d == IF "auctionLineAndLimit" \in DOMAIN ilk THEN addIlkToWitch(s, Ctx, ilk, joins[ilk.ilkId]) ELSE <<>>
  <1>1. Orderly(a, I) /\ Orderly(b, I) /\ Orderly(c, I)
    BY updateCollateralizationIsOrderly, updateDebtLimitsIsOrderly
  <1>2. Orderly(d, I)
    BY addIlkToWitchIsOrderly, OrderlyEmpty
  <1> HIDE DEF a, b, c, d
  <1>3. Orderly(a \o b \o c \o d, I)
    BY <1>1, <1>2, OrderlyConcat
  <1> QED BY <1>3 DEF makeIlk, a, b, c, d, eth

LEMMA addIlkToSeriesIsOrderly ==
  ASSUME NEW I, NEW seriesId, NEW ilkId
  PROVE  Orderly(addIlkToSeries(Ctx, seriesId, ilkId), I)
  BY SetIsAlone, OrderlyOne DEF addIlkToSeries

LEMMA addSeriesIsOrderly ==
  ASSUME NEW I, Setting(I), NEW s, NEW series, NEW pools, Len(series.ilks) \in Nat
  PROVE  Orderly(addSeries(s, Ctx, series, pools), I)
  <1> DEFINE fyToken == series.fyToken
             id == series.seriesId
             value == <<fyToken, Val(s, <<fyToken, "underlyingId">>)>>
             a == <<Set(Ctx.cauldron, "addSeries", "series", <<id>>, value)>>
             ilks == [i \in 1..Len(series.ilks) |-> addIlkToSeries(Ctx, id, series.ilks[i])]
             b == FlattenSeq(ilks)
             c == addPool(Ctx, id, pools[series.pool])
             d == addFYToken(Ctx, fyToken)
             e == addFYTokenToWitch(Ctx, fyToken)
  <1>1. Orderly(a, I)
    <2> HIDE DEF value
    <2> QED BY SetIsAlone, OrderlyOne
  <1>2. Orderly(b, I)
    <2>1. \A i \in 1..Len(series.ilks) : Orderly(ilks[i], I)
      BY addIlkToSeriesIsOrderly
    <2>2. ilks = [i \in 1..Len(series.ilks) |-> ilks[i]]
      OBVIOUS
    <2> HIDE DEF ilks
    <2> QED BY <2>1, <2>2, OrderlyFlatten
  <1>3. Orderly(c, I) /\ Orderly(d, I) /\ Orderly(e, I)
    BY addPoolIsOrderly, addFYTokenIsOrderly, addFYTokenToWitchIsOrderly
  <1>4. addSeries(s, Ctx, series, pools) = IF series.pool \notin DOMAIN pools THEN <<Throw>> ELSE a \o b \o c \o d \o e
    BY DEF addSeries, Each
  <1> HIDE DEF a, b, c, d, e
  <1>5. Orderly(a \o b \o c \o d \o e, I)
    BY <1>1, <1>2, <1>3, OrderlyConcat
  <1> QED BY <1>4, <1>5, ThrowIsOrderly

LEMMA orchestrateFYTokenIsOrderly ==
  ASSUME NEW I, Setting(I), NEW s, NEW deployer, Outsider(deployer, I), NEW fyToken \in I
  PROVE  Orderly(orchestrateFYToken(s, deployer, Ctx, fyToken), I)
  <1> DEFINE join == Val(s, <<fyToken, "join">>)
             c == GrantRoles(fyToken, {"point", "setFlashFeeFactor"}, TIMELOCK)
             g == GrantRoles(join, JoinRoles, fyToken)
             a == CloakAdd(Ctx.cloak, fyToken, Permissions(join, JoinRoles))
             root == addAsHostToCloak(Ctx, fyToken)
             left == revokeRoot(fyToken, deployer)
  <1>1. Orderly(left, I)
    BY revokeRootIsOrderly
  <1>2. Orderly(root, I)
    BY GrantIsAlone, OrderlyOne DEF addAsHostToCloak, grantRoot, Setting
  <1>3. Alone(c, I)
    BY GrantIsAlone DEF Setting, Outsider
  <1>4. Pair(g, a, I)
    BY DEF Pair, GrantRoles
  <1>5. orchestrateFYToken(s, deployer, Ctx, fyToken) = left \o root \o <<c, g, a>>
    BY DEF orchestrateFYToken
  <1> HIDE DEF c, g, a, root, left
  <1>6. Orderly(<<c, g, a>>, I)
    BY <1>3, <1>4, OrderlyPairAnd
  <1> QED BY <1>1, <1>2, <1>5, <1>6, OrderlyConcat

LEMMA OrchestrateJoinWithIsOrderly ==
  ASSUME NEW I, Setting(I), NEW deployer, Outsider(deployer, I), NEW join, NEW roles
  PROVE  Orderly(OrchestrateJoinWith(deployer, Ctx, join, roles), I)
  <1> DEFINE a == revokeRoot(join, deployer)
             b == addAsHostToCloak(Ctx, join)
             c == <<GrantRoles(join, roles, TIMELOCK)>>
  <1>1. Orderly(a, I)
    BY revokeRootIsOrderly
  <1>2. Orderly(b, I)
    BY GrantIsAlone, OrderlyOne DEF addAsHostToCloak, grantRoot, Setting
  <1>3. Orderly(c, I)
    BY GrantIsAlone, OrderlyOne DEF Setting, Outsider
  <1> HIDE DEF a, b, c
  <1>4. Orderly(a \o b \o c, I)
    BY <1>1, <1>2, <1>3, OrderlyConcat
  <1> QED BY <1>4 DEF OrchestrateJoinWith, a, b, c

LEMMA orchestratePoolIsOrderly ==
  ASSUME NEW I, Setting(I), NEW deployer, Outsider(deployer, I), NEW pool
  PROVE  Orderly(orchestratePool(deployer, pool), I)
  <1> DEFINE c == GrantRoles(pool, {"setFees", "init"}, TIMELOCK)
  <1>1. Orderly(<<c>>, I)
    BY GrantIsAlone, OrderlyOne DEF Setting, Outsider
  <1> QED BY <1>1, revokeRootIsOrderly, OrderlyConcat DEF orchestratePool

LEMMA orchestrateStrategyIsOrderly ==
  ASSUME NEW I, Setting(I), NEW deployer, Outsider(deployer, I), NEW multisig, multisig \notin I, NEW strategy
  PROVE  Orderly(orchestrateStrategy(deployer, multisig, Ctx, strategy), I)
  <1> DEFINE a == GrantRoles(strategy, {"setRewardsToken", "setRewards", "init", "invest", "eject", "restart"}, TIMELOCK)
             b == GrantRoles(strategy, {"eject"}, multisig)
             c == Set(Ctx.ladle, "addIntegration", "integrations", <<strategy>>, TRUE)
             d == Set(Ctx.ladle, "addToken", "tokens", <<strategy>>, TRUE)
  <1>1. Alone(a, I) /\ Alone(b, I)
    BY GrantIsAlone DEF Setting, Outsider
  <1>2. Alone(c, I) /\ Alone(d, I)
    BY SetIsAlone
  <1>3. orchestrateStrategy(deployer, multisig, Ctx, strategy) = <<a, b, c, d>> \o revokeRoot(strategy, deployer)
    BY DEF orchestrateStrategy
  <1> HIDE DEF a, b, c, d
  <1> QED BY <1>1, <1>2, <1>3, OrderlyFour, revokeRootIsOrderly, OrderlyConcat

LEMMA initStrategyIsOrderly ==
  ASSUME NEW I, NEW strategy
  PROVE  Orderly(initStrategy(strategy), I)
  BY CallIsAlone, OrderlyTwo DEF initStrategy

LEMMA investStrategyIsOrderly ==
  ASSUME NEW I, NEW strategy, strategy.address \notin I
  PROVE  Orderly(investStrategy(strategy), I)
  BY GrantIsAlone, CallIsAlone, OrderlyTwo, ThrowIsOrderly DEF investStrategy

LEMMA rollStrategyIsOrderly ==
  ASSUME NEW I, NEW strategy, strategy.address \notin I
  PROVE  Orderly(rollStrategy(strategy), I)
  <1>1. Orderly(divestStrategy(strategy), I)
    BY CallIsAlone, OrderlyOne DEF divestStrategy
  <1> QED BY <1>1, investStrategyIsOrderly, OrderlyConcat DEF rollStrategy

LEMMA sendTokensIsOrderly ==
  ASSUME NEW I, NEW t
  PROVE  Orderly(sendTokens(t), I)
  BY CallIsAlone, OrderlyOne DEF sendTokens

LEMMA SetSourceIsOrderly ==
  ASSUME NEW I, NEW oracle, NEW keys, NEW address
  PROVE  Orderly(SetSource(oracle, keys, address), I)
  BY SetIsAlone, OrderlyOne DEF SetSource

LEMMA updateAccumulatorSourcesIsOrderly ==
  ASSUME NEW I, NEW s, NEW oracle, NEW list, Len(list) \in Nat
  PROVE  Orderly(updateAccumulatorSources(s, oracle, list), I)
  <1> DEFINE seqs == [i \in 1..Len(list) |-> IF Has(s, <<oracle, "sources", list[i].baseId, list[i].kind>>) THEN <<>>
                                             ELSE <<Set(oracle, "setAccumulator", "sources", <<list[i].baseId, list[i].kind>>,
                                                        list[i].perSecondRate)>>]
  <1>1. \A i \in 1..Len(list) : Orderly(seqs[i], I)
    BY SetIsAlone, OrderlyOne, OrderlyEmpty
  <1>2. seqs = [i \in 1..Len(list) |-> seqs[i]]
    OBVIOUS
  <1> HIDE DEF seqs
  <1>3. Orderly(FlattenSeq(seqs), I)
    BY <1>1, <1>2, OrderlyFlatten
  <1> QED BY <1>3 DEF Each, seqs, updateAccumulatorSources

LEMMA updateChainlinkSourcesIsOrderly ==
  ASSUME NEW I, NEW s, NEW oracle, NEW list, Len(list) \in Nat
  PROVE  Orderly(updateChainlinkSources(s, oracle, list), I)
  <1> DEFINE seqs == [i \in 1..Len(list) |-> WithCode(s, list[i][3], SetSource(oracle, <<list[i][1], list[i][2]>>, list[i][3]))]
  <1>1. \A i \in 1..Len(list) : Orderly(seqs[i], I)
    BY SetSourceIsOrderly, WithCodeIsOrderly
  <1>2. seqs = [i \in 1..Len(list) |-> seqs[i]]
    OBVIOUS
  <1> HIDE DEF seqs
  <1>3. Orderly(FlattenSeq(seqs), I)
    BY <1>1, <1>2, OrderlyFlatten
  <1> QED BY <1>3 DEF Each, seqs, updateChainlinkSources

LEMMA updateChainlinkUSDSourcesIsOrderly ==
  ASSUME NEW I, NEW s, NEW oracle, NEW list, Len(list) \in Nat
  PROVE  Orderly(updateChainlinkUSDSources(s, oracle, list), I)
  <1> DEFINE seqs == [i \in 1..Len(list) |-> WithCode(s, list[i][3], SetSource(oracle, <<list[i][1]>>, list[i][3]))]
  <1>1. \A i \in 1..Len(list) : Orderly(seqs[i], I)
    BY SetSourceIsOrderly, WithCodeIsOrderly
  <1>2. seqs = [i \in 1..Len(list) |-> seqs[i]]
    OBVIOUS
  <1> HIDE DEF seqs
  <1>3. Orderly(FlattenSeq(seqs), I)
    BY <1>1, <1>2, OrderlyFlatten
  <1> QED BY <1>3 DEF Each, seqs, updateChainlinkUSDSources

LEMMA updateCompositePathsIsOrderly ==
  ASSUME NEW I, NEW oracle, NEW list, Len(list) \in Nat
  PROVE  Orderly(updateCompositePaths(oracle, list), I)
  <1> DEFINE seqs == [i \in 1..Len(list) |-> <<Set(oracle, "setPath", "paths", <<list[i][1], list[i][2]>>, list[i][3])>>]
  <1>1. \A i \in 1..Len(list) : Orderly(seqs[i], I)
    BY SetIsAlone, OrderlyOne
  <1>2. seqs = [i \in 1..Len(list) |-> seqs[i]]
    OBVIOUS
  <1> HIDE DEF seqs
  <1>3. Orderly(FlattenSeq(seqs), I)
    BY <1>1, <1>2, OrderlyFlatten
  <1> QED BY <1>3 DEF Each, seqs, updateCompositePaths

LEMMA updateNotionalSourcesIsOrderly ==
  ASSUME NEW I, NEW oracle, NEW list, Len(list) \in Nat
  PROVE  Orderly(updateNotionalSources(oracle, list), I)
  <1> DEFINE seqs == [i \in 1..Len(list) |-> SetSource(oracle, <<list[i][2], list[i][1]>>, list[i][3])]
  <1>1. \A i \in 1..Len(list) : Orderly(seqs[i], I)
    BY SetSourceIsOrderly
  <1>2. seqs = [i \in 1..Len(list) |-> seqs[i]]
    OBVIOUS
  <1> HIDE DEF seqs
  <1>3. Orderly(FlattenSeq(seqs), I)
    BY <1>1, <1>2, OrderlyFlatten
  <1> QED BY <1>3 DEF Each, seqs, updateNotionalSources

LEMMA updateCompositeSourcesIsOrderly ==
  ASSUME NEW I, NEW s, NEW oracle, NEW sources, NEW overrideExistent, Len(sources) \in Nat
  PROVE  Orderly(updateCompositeSources(s, oracle, sources, overrideExistent), I)
  <1> DEFINE Seen(i) == \E j \in 1..(i - 1) : {sources[j][1], sources[j][2]} = {sources[i][1], sources[i][2]}
             One(i) == LET x == sources[i] IN
                       IF Seen(i) \/ ~(overrideExistent \/ ~Has(s, <<oracle, "sources", x[1], x[2]>>)) THEN <<>>
                       ELSE SetSource(oracle, <<x[1], x[2]>>, x[3])
             list == [i \in 1..Len(sources) |-> i]
             seqs == [i \in 1..Len(list) |-> One(list[i])]
  <1>1. ASSUME NEW i PROVE Orderly(One(i), I)
    <2> HIDE DEF Seen
    <2> QED BY SetSourceIsOrderly, OrderlyEmpty
  <1>2. Len(list) = Len(sources)
    OBVIOUS
  <1>3. updateCompositeSources(s, oracle, sources, overrideExistent) = FlattenSeq(seqs)
    BY DEF updateCompositeSources, Each
  <1> HIDE DEF One, list
  <1>4. \A i \in 1..Len(list) : Orderly(seqs[i], I)
    BY <1>1
  <1>5. seqs = [i \in 1..Len(list) |-> seqs[i]]
    OBVIOUS
  <1> HIDE DEF seqs
  <1> QED BY <1>2, <1>3, <1>4, <1>5, OrderlyFlatten

-----------------------------------------------------------------------------
(* The scripts, in the order of Proposals: each is orderly when its        *)
(* configuration fits.                                                     *)

LEMMA OrchestrateSeriesIsOrderly ==
  ASSUME NEW I, Setting(I), NEW s, NEW k, SeriesFit(k, I)
  PROVE  Orderly(OrchestrateSeries(s, Ctx, k), I)
  <1> DEFINE seqs == [i \in 1..Len(k.newSeries) |-> orchestrateFYToken(s, k.deployers[k.newSeries[i].fyToken], Ctx, k.newSeries[i].fyToken)
                                            \o orchestratePool(k.deployers[k.newSeries[i].poolAddress], k.newSeries[i].poolAddress)]
  <1>1. \A i \in 1..Len(k.newSeries) : Orderly(seqs[i], I)
    BY orchestrateFYTokenIsOrderly, orchestratePoolIsOrderly, OrderlyConcat DEF SeriesFit
  <1>2. seqs = [i \in 1..Len(k.newSeries) |-> seqs[i]]
    OBVIOUS
  <1> HIDE DEF seqs
  <1>3. Orderly(FlattenSeq(seqs), I)
    BY <1>1, <1>2, OrderlyFlatten DEF SeriesFit, Lists
  <1> QED BY <1>3 DEF Each, seqs, OrchestrateSeries

LEMMA OrchestrateStrategiesIsOrderly ==
  ASSUME NEW I, Setting(I), NEW k, StrategiesFit(k, I)
  PROVE  Orderly(OrchestrateStrategies(Ctx, k), I)
  <1> DEFINE seqs == [i \in 1..Len(k.newStrategies) |-> orchestrateStrategy(k.deployers[k.newStrategies[i].address], k.multisig, Ctx, k.newStrategies[i].address)]
  <1>1. \A i \in 1..Len(k.newStrategies) : Orderly(seqs[i], I)
    BY orchestrateStrategyIsOrderly DEF StrategiesFit
  <1>2. seqs = [i \in 1..Len(k.newStrategies) |-> seqs[i]]
    OBVIOUS
  <1> HIDE DEF seqs
  <1>3. Orderly(FlattenSeq(seqs), I)
    BY <1>1, <1>2, OrderlyFlatten DEF StrategiesFit, Lists
  <1> QED BY <1>3 DEF Each, seqs, OrchestrateStrategies

LEMMA AddSeriesIsOrderly ==
  ASSUME NEW I, Setting(I), NEW s, NEW k, SeriesFit(k, I)
  PROVE  Orderly(AddSeries(s, Ctx, k), I)
  <1> DEFINE seqs == [i \in 1..Len(k.newSeries) |-> addSeries(s, Ctx, k.newSeries[i], k.pools)]
  <1>1. \A i \in 1..Len(k.newSeries) : Orderly(seqs[i], I)
    BY addSeriesIsOrderly DEF SeriesFit, Lists
  <1>2. seqs = [i \in 1..Len(k.newSeries) |-> seqs[i]]
    OBVIOUS
  <1> HIDE DEF seqs
  <1>3. Orderly(FlattenSeq(seqs), I)
    BY <1>1, <1>2, OrderlyFlatten DEF SeriesFit, Lists
  <1> QED BY <1>3 DEF Each, seqs, AddSeries

LEMMA InitAndInvestIsOrderly ==
  ASSUME NEW I, NEW k, StrategiesFit(k, I)
  PROVE  Orderly(InitAndInvest(k), I)
  <1> DEFINE seqs == [i \in 1..Len(k.newStrategies) |-> initStrategy(k.newStrategies[i]) \o investStrategy(k.newStrategies[i])]
  <1>1. \A i \in 1..Len(k.newStrategies) : Orderly(seqs[i], I)
    BY initStrategyIsOrderly, investStrategyIsOrderly, OrderlyConcat DEF StrategiesFit
  <1>2. seqs = [i \in 1..Len(k.newStrategies) |-> seqs[i]]
    OBVIOUS
  <1> HIDE DEF seqs
  <1>3. Orderly(FlattenSeq(seqs), I)
    BY <1>1, <1>2, OrderlyFlatten DEF StrategiesFit, Lists
  <1> QED BY <1>3 DEF Each, seqs, InitAndInvest

LEMMA AddIlksToSeriesIsOrderly ==
  ASSUME NEW I, NEW k, Lists({k.newSeries}), \A i \in 1..Len(k.newSeries) : Lists({k.newSeries[i].ilks})
  PROVE  Orderly(AddIlksToSeries(Ctx, k), I)
  <1> DEFINE inner(j) == [i \in 1..Len(k.newSeries[j].ilks) |-> addIlkToSeries(Ctx, k.newSeries[j].seriesId, k.newSeries[j].ilks[i])]
             seqs == [j \in 1..Len(k.newSeries) |-> FlattenSeq(inner(j))]
  <1>1. ASSUME NEW j \in 1..Len(k.newSeries) PROVE Orderly(FlattenSeq(inner(j)), I)
    <2> DEFINE ilks == inner(j)
    <2>1. Len(k.newSeries[j].ilks) \in Nat
      BY DEF Lists
    <2>2. \A i \in 1..Len(k.newSeries[j].ilks) : Orderly(ilks[i], I)
      BY addIlkToSeriesIsOrderly
    <2>3. ilks = [i \in 1..Len(k.newSeries[j].ilks) |-> ilks[i]]
      OBVIOUS
    <2>4. inner(j) = ilks
      OBVIOUS
    <2> HIDE DEF ilks, inner
    <2> QED BY <2>1, <2>2, <2>3, <2>4, OrderlyFlatten
  <1>2. AddIlksToSeries(Ctx, k) = FlattenSeq(seqs)
    BY DEF AddIlksToSeries, Each
  <1> HIDE DEF inner
  <1>3. \A j \in 1..Len(k.newSeries) : Orderly(seqs[j], I)
    BY <1>1
  <1>4. seqs = [j \in 1..Len(k.newSeries) |-> seqs[j]]
    OBVIOUS
  <1> HIDE DEF seqs
  <1>5. Len(k.newSeries) \in Nat
    BY DEF Lists
  <1> QED BY <1>2, <1>3, <1>4, <1>5, OrderlyFlatten

LEMMA makeIlksIsOrderly ==
  ASSUME NEW I, Setting(I), NEW s, NEW ilks, NEW joins, Len(ilks) \in Nat
  PROVE  Orderly(FlattenSeq([i \in 1..Len(ilks) |-> makeIlk(s, Ctx, ilks[i], joins)]), I)
  <1> DEFINE seqs == [i \in 1..Len(ilks) |-> makeIlk(s, Ctx, ilks[i], joins)]
  <1>1. \A i \in 1..Len(ilks) : Orderly(seqs[i], I)
    BY makeIlkIsOrderly
  <1>2. seqs = [i \in 1..Len(ilks) |-> seqs[i]]
    OBVIOUS
  <1> HIDE DEF seqs
  <1>3. Orderly(FlattenSeq(seqs), I)
    BY <1>1, <1>2, OrderlyFlatten
  <1> QED BY <1>3 DEF seqs

LEMMA AddBaseIsOrderly ==
  ASSUME NEW I, Setting(I), NEW s, NEW k, SeriesFit(k, I), StrategiesFit(k, I),
         Lists({k.accumulators, k.compositeSources, k.compositePaths, k.newIlks}),
         Outsider(k.deployers[k.joins[k.newBase.assetId]], I), NEW chainlinkSources, Orderly(chainlinkSources, I)
  PROVE  Orderly(AddBase(s, Ctx, k, chainlinkSources), I)
  <1> DEFINE join == k.joins[k.newBase.assetId]
             a1 == orchestrateFlashJoin(k.deployers[join], Ctx, join)
             a2 == OrchestrateSeries(s, Ctx, k)
             a3 == OrchestrateStrategies(Ctx, k)
             a4 == updateAccumulatorSources(s, k.accumulator, k.accumulators)
             a6 == updateCompositeSources(s, k.composite, k.compositeSources, TRUE)
             a7 == updateCompositePaths(k.composite, k.compositePaths)
             a8 == addAsset(Ctx, k.newBase, k.joins)
             a9 == makeBase(Ctx, k.newBase, k.joins)
             a10 == FlattenSeq([i \in 1..Len(k.newIlks) |-> makeIlk(s, Ctx, k.newIlks[i], k.joins)])
             a11 == AddSeries(s, Ctx, k)
             a12 == InitAndInvest(k)
  <1>1. Orderly(a1, I) /\ Orderly(a2, I) /\ Orderly(a3, I)
    BY OrchestrateJoinWithIsOrderly, OrchestrateSeriesIsOrderly, OrchestrateStrategiesIsOrderly DEF orchestrateFlashJoin
  <1>2. Orderly(a4, I) /\ Orderly(a6, I) /\ Orderly(a7, I)
    BY updateAccumulatorSourcesIsOrderly, updateCompositeSourcesIsOrderly, updateCompositePathsIsOrderly DEF Lists
  <1>3. Orderly(a8, I) /\ Orderly(a9, I)
    BY addAssetIsOrderly, makeBaseIsOrderly
  <1>4. Orderly(a10, I)
    <2>1. Len(k.newIlks) \in Nat
      BY DEF Lists
    <2> QED BY <2>1, makeIlksIsOrderly
  <1>5. Orderly(a11, I) /\ Orderly(a12, I)
    BY AddSeriesIsOrderly, InitAndInvestIsOrderly
  <1>6. AddBase(s, Ctx, k, chainlinkSources) =
          a1 \o a2 \o a3 \o a4 \o chainlinkSources \o a6 \o a7 \o a8 \o a9 \o a10 \o a11 \o a12
    BY DEF AddBase, Each
  <1> HIDE DEF a1, a2, a3, a4, a6, a7, a8, a9, a10, a11, a12
  <1>7. Orderly(a1 \o a2 \o a3 \o a4 \o chainlinkSources \o a6, I)
    BY <1>1, <1>2, OrderlyConcat
  <1> QED BY <1>2, <1>3, <1>4, <1>5, <1>6, <1>7, OrderlyConcat

LEMMA addBaseIsOrderly ==
  ASSUME NEW I, Setting(I), NEW s, NEW k, BaseFit(k, I)
  PROVE  Orderly(addBaseMainnet(s, Ctx, k), I) /\ Orderly(addBaseArbitrum(s, Ctx, k), I)
  <1>1. /\ SeriesFit(k, I) /\ StrategiesFit(k, I) /\ Len(k.chainlinkSources) \in Nat
        /\ Lists({k.accumulators, k.compositeSources, k.compositePaths, k.newIlks})
        /\ Outsider(k.deployers[k.joins[k.newBase.assetId]], I)
    BY DEF BaseFit, Lists
  <1>2. Orderly(updateChainlinkSources(s, k.chainlink, k.chainlinkSources), I)
    BY <1>1, updateChainlinkSourcesIsOrderly
  <1>3. Orderly(updateChainlinkUSDSources(s, k.chainlink, k.chainlinkSources), I)
    BY <1>1, updateChainlinkUSDSourcesIsOrderly
  <1>4. Orderly(addBaseMainnet(s, Ctx, k), I)
    BY <1>1, <1>2, AddBaseIsOrderly DEF addBaseMainnet
  <1>5. Orderly(addBaseArbitrum(s, Ctx, k), I)
    BY <1>1, <1>3, AddBaseIsOrderly DEF addBaseArbitrum
  <1> QED BY <1>4, <1>5

LEMMA addRETHIsOrderly ==
  ASSUME NEW I, Setting(I), NEW s, NEW k, RETHFit(k, I)
  PROVE  Orderly(addRETH(s, Ctx, k), I)
  <1> DEFINE join == k.joins[k.asset.assetId]
             a1 == updateCompositeSources(s, k.composite, k.compositeSources, TRUE)
             a2 == updateCompositePaths(k.composite, k.compositePaths)
             a3 == orchestrateJoin(k.deployers[join], Ctx, join)
             a4 == addAsset(Ctx, k.asset, k.joins)
             a5 == FlattenSeq([i \in 1..Len(k.newIlks) |-> makeIlk(s, Ctx, k.newIlks[i], k.joins)])
             a6 == AddIlksToSeries(Ctx, k)
  <1> USE DEF RETHFit
  <1>1. Orderly(a1, I) /\ Orderly(a2, I)
    BY updateCompositeSourcesIsOrderly, updateCompositePathsIsOrderly DEF Lists
  <1>2. Orderly(a3, I) /\ Orderly(a4, I)
    BY OrchestrateJoinWithIsOrderly, addAssetIsOrderly DEF orchestrateJoin
  <1>3. Orderly(a5, I)
    <2>1. Len(k.newIlks) \in Nat
      BY DEF IlksFit, Lists
    <2> QED BY <2>1, makeIlksIsOrderly
  <1>4. Orderly(a6, I)
    <2>1. Lists({k.newSeries})
      BY DEF IlksFit, Lists
    <2> QED BY <2>1, AddIlksToSeriesIsOrderly DEF IlksFit
  <1>5. addRETH(s, Ctx, k) = a1 \o a2 \o a3 \o a4 \o a5 \o a6
    BY DEF addRETH, Each
  <1> HIDE DEF a1, a2, a3, a4, a5, a6
  <1> QED BY <1>1, <1>2, <1>3, <1>4, <1>5, OrderlyConcat

LEMMA addSensePTIsOrderly ==
  ASSUME NEW I, Setting(I), NEW s, NEW k, SenseFit(k, I)
  PROVE  Orderly(addSensePT(s, Ctx, k), I)
  <1> DEFINE join(i) == k.joins[k.assets[i].assetId]
             seqs == [i \in 1..Len(k.assets) |-> orchestrateJoin(k.deployers[join(i)], Ctx, join(i))
                                                 \o addAsset(Ctx, k.assets[i], k.joins)]
             a1 == FlattenSeq(seqs)
             a2 == FlattenSeq([i \in 1..Len(k.newIlks) |-> makeIlk(s, Ctx, k.newIlks[i], k.joins)])
             a3 == AddIlksToSeries(Ctx, k)
  <1> USE DEF SenseFit
  <1>1. Orderly(a1, I)
    <2>1. \A i \in 1..Len(k.assets) : Orderly(seqs[i], I)
      BY OrchestrateJoinWithIsOrderly, addAssetIsOrderly, OrderlyConcat DEF orchestrateJoin
    <2>2. seqs = [i \in 1..Len(k.assets) |-> seqs[i]]
      OBVIOUS
    <2>3. Len(k.assets) \in Nat
      BY DEF Lists
    <2> HIDE DEF seqs
    <2> QED BY <2>1, <2>2, <2>3, OrderlyFlatten
  <1>2. Orderly(a2, I)
    <2>1. Len(k.newIlks) \in Nat
      BY DEF IlksFit, Lists
    <2> QED BY <2>1, makeIlksIsOrderly
  <1>3. Orderly(a3, I)
    <2>1. Lists({k.newSeries})
      BY DEF IlksFit, Lists
    <2> QED BY <2>1, AddIlksToSeriesIsOrderly DEF IlksFit
  <1>4. addSensePT(s, Ctx, k) = a1 \o a2 \o a3
    BY DEF addSensePT, Each
  <1> HIDE DEF a1, a2, a3
  <1> QED BY <1>1, <1>2, <1>3, <1>4, OrderlyConcat

LEMMA rollSeriesIsOrderly ==
  ASSUME NEW I, Setting(I), NEW s, NEW k, RollFit(k, I)
  PROVE  Orderly(rollSeries(s, Ctx, k), I)
  <1> DEFINE x(i) == k.newSeries[i]
             news == [i \in 1..Len(k.newSeries) |->
                        orchestrateFYToken(s, k.deployers[x(i).fyToken], Ctx, x(i).fyToken)
                        \o orchestratePool(k.deployers[x(i).poolAddress], x(i).poolAddress)
                        \o addSeries(s, Ctx, x(i), k.pools)]
             rolls == [i \in 1..Len(k.rollStrategies) |-> rollStrategy(k.rollStrategies[i])]
  <1>1. Len(k.newSeries) \in Nat /\ Len(k.rollStrategies) \in Nat
    BY DEF RollFit, SeriesFit, Lists
  <1>2. Orderly(FlattenSeq(news), I)
    <2>1. \A i \in 1..Len(k.newSeries) : Orderly(news[i], I)
      BY orchestrateFYTokenIsOrderly, orchestratePoolIsOrderly, addSeriesIsOrderly, OrderlyConcat DEF RollFit, SeriesFit, Lists
    <2>2. news = [i \in 1..Len(k.newSeries) |-> news[i]]
      OBVIOUS
    <2> HIDE DEF news
    <2> QED BY <1>1, <2>1, <2>2, OrderlyFlatten
  <1>3. Orderly(FlattenSeq(rolls), I)
    <2>1. \A i \in 1..Len(k.rollStrategies) : Orderly(rolls[i], I)
      BY rollStrategyIsOrderly DEF RollFit
    <2>2. rolls = [i \in 1..Len(k.rollStrategies) |-> rolls[i]]
      OBVIOUS
    <2> HIDE DEF rolls
    <2> QED BY <1>1, <2>1, <2>2, OrderlyFlatten
  <1>4. rollSeries(s, Ctx, k) = FlattenSeq(news) \o FlattenSeq(rolls)
    BY DEF rollSeries, Each
  <1> HIDE DEF news, rolls
  <1> QED BY <1>2, <1>3, <1>4, OrderlyConcat

LEMMA fundTraderIsOrderly ==
  ASSUME NEW I, NEW k, Lists({k.traderFunding})
  PROVE  Orderly(fundTrader(k), I)
  <1> DEFINE seqs == [i \in 1..Len(k.traderFunding) |-> sendTokens(k.traderFunding[i])]
  <1>1. \A i \in 1..Len(k.traderFunding) : Orderly(seqs[i], I)
    BY sendTokensIsOrderly
  <1>2. seqs = [i \in 1..Len(k.traderFunding) |-> seqs[i]]
    OBVIOUS
  <1> HIDE DEF seqs
  <1>3. Orderly(FlattenSeq(seqs), I)
    BY <1>1, <1>2, OrderlyFlatten DEF Lists
  <1> QED BY <1>3 DEF Each, seqs, fundTrader

LEMMA SellFYTokenIsOrderly ==
  ASSUME NEW I, NEW k, Lists({k.fyTokenSelling})
  PROVE  Orderly(SellFYToken(k), I)
  <1> DEFINE seqs == [i \in 1..Len(k.fyTokenSelling) |-> sellFYTokens(k.trader, k.fyTokenSelling[i])]
  <1>1. \A i \in 1..Len(k.fyTokenSelling) : Orderly(seqs[i], I)
    BY SetIsAlone, OrderlyOne DEF sellFYTokens
  <1>2. seqs = [i \in 1..Len(k.fyTokenSelling) |-> seqs[i]]
    OBVIOUS
  <1> HIDE DEF seqs
  <1>3. Orderly(FlattenSeq(seqs), I)
    BY <1>1, <1>2, OrderlyFlatten DEF Lists
  <1> QED BY <1>3 DEF Each, seqs, SellFYToken

LEMMA updateLimitsIsOrderly ==
  ASSUME NEW I, NEW k, Lists({k.newLimits})
  PROVE  Orderly(updateLimits(Ctx, k), I)
  <1> DEFINE seqs == [i \in 1..Len(k.newLimits) |-> updateDebtLimits(Ctx, k.newLimits[i])]
  <1>1. \A i \in 1..Len(k.newLimits) : Orderly(seqs[i], I)
    BY updateDebtLimitsIsOrderly
  <1>2. seqs = [i \in 1..Len(k.newLimits) |-> seqs[i]]
    OBVIOUS
  <1> HIDE DEF seqs
  <1>3. Orderly(FlattenSeq(seqs), I)
    BY <1>1, <1>2, OrderlyFlatten DEF Lists
  <1> QED BY <1>3 DEF Each, seqs, updateLimits

LEMMA updateFlashFeesIsOrderly ==
  ASSUME NEW I, NEW k, Lists({k.joinFlashFees, k.fyTokenFlashFees})
  PROVE  Orderly(updateFlashFees(k), I)
  <1> DEFINE joins == [i \in 1..Len(k.joinFlashFees) |-> setFlashFeeOnJoin(k.joins[k.joinFlashFees[i][1]], k.joinFlashFees[i][2])]
             fys == [i \in 1..Len(k.fyTokenFlashFees) |->
                       setFlashFeeOnFytoken(k.fyTokens[k.fyTokenFlashFees[i][1]], k.fyTokenFlashFees[i][2])]
  <1>1. Len(k.joinFlashFees) \in Nat /\ Len(k.fyTokenFlashFees) \in Nat
    BY DEF Lists
  <1>2. Orderly(FlattenSeq(joins), I)
    <2>1. \A i \in 1..Len(k.joinFlashFees) : Orderly(joins[i], I)
      BY SetIsAlone, OrderlyOne DEF setFlashFeeOnJoin
    <2>2. joins = [i \in 1..Len(k.joinFlashFees) |-> joins[i]]
      OBVIOUS
    <2> HIDE DEF joins
    <2> QED BY <1>1, <2>1, <2>2, OrderlyFlatten
  <1>3. Orderly(FlattenSeq(fys), I)
    <2>1. \A i \in 1..Len(k.fyTokenFlashFees) : Orderly(fys[i], I)
      BY SetIsAlone, OrderlyOne DEF setFlashFeeOnFytoken
    <2>2. fys = [i \in 1..Len(k.fyTokenFlashFees) |-> fys[i]]
      OBVIOUS
    <2> HIDE DEF fys
    <2> QED BY <1>1, <2>1, <2>2, OrderlyFlatten
  <1>4. updateFlashFees(k) = FlattenSeq(joins) \o FlattenSeq(fys)
    BY DEF updateFlashFees, Each
  <1> HIDE DEF joins, fys
  <1> QED BY <1>2, <1>3, <1>4, OrderlyConcat

LEMMA addDevelopersIsOrderly ==
  ASSUME NEW I, Setting(I), NEW k, TeamFit(k.newDevelopers, I)
  PROVE  Orderly(addDevelopers(Ctx, k), I)
  <1> DEFINE seqs == [i \in 1..Len(k.newDevelopers) |-> <<GrantRoles(TIMELOCK, DeveloperRoles, k.newDevelopers[i]),
                                                 GrantRoles(Ctx.cloak, {"execute"}, k.newDevelopers[i])>>]
  <1>1. \A i \in 1..Len(k.newDevelopers) : Orderly(seqs[i], I)
    BY GrantIsAlone, OrderlyTwo DEF TeamFit, Outsider
  <1>2. seqs = [i \in 1..Len(k.newDevelopers) |-> seqs[i]]
    OBVIOUS
  <1> HIDE DEF seqs
  <1>3. Orderly(FlattenSeq(seqs), I)
    BY <1>1, <1>2, OrderlyFlatten DEF TeamFit, Lists
  <1> QED BY <1>3 DEF Each, seqs, addDevelopers, grantDevelopers

LEMMA RevokeDevelopersIsOrderly ==
  ASSUME NEW I, Setting(I), NEW k, TeamFit(k.developersRevoked, I)
  PROVE  Orderly(RevokeDevelopers(Ctx, k), I)
  <1> DEFINE seqs == [i \in 1..Len(k.developersRevoked) |-> <<RevokeRoles(TIMELOCK, DeveloperRoles \cup OldTimelockRoles, k.developersRevoked[i]),
                                                     RevokeRoles(Ctx.cloak, {"execute"}, k.developersRevoked[i])>>]
  <1>1. \A i \in 1..Len(k.developersRevoked) : Orderly(seqs[i], I)
    BY RevokeIsAlone, OrderlyTwo DEF TeamFit
  <1>2. seqs = [i \in 1..Len(k.developersRevoked) |-> seqs[i]]
    OBVIOUS
  <1> HIDE DEF seqs
  <1>3. Orderly(FlattenSeq(seqs), I)
    BY <1>1, <1>2, OrderlyFlatten DEF TeamFit, Lists
  <1> QED BY <1>3 DEF Each, seqs, RevokeDevelopers, revokeDevelopers

LEMMA addGovernorsIsOrderly ==
  ASSUME NEW I, Setting(I), NEW k, TeamFit(k.newGovernors, I)
  PROVE  Orderly(addGovernors(Ctx, k), I)
  <1> DEFINE seqs == [i \in 1..Len(k.newGovernors) |-> KnownId(k.cloakHasPlan,
                                          <<GrantRoles(TIMELOCK, DeveloperRoles \cup {"approve"}, k.newGovernors[i]),
                                            GrantRoles(Ctx.cloak, GovernorCloakRoles, TIMELOCK)>>)]
  <1>1. \A i \in 1..Len(k.newGovernors) : Orderly(seqs[i], I)
    BY GrantIsAlone, OrderlyTwo, ThrowIsOrderly DEF TeamFit, Setting, Outsider, KnownId
  <1>2. seqs = [i \in 1..Len(k.newGovernors) |-> seqs[i]]
    OBVIOUS
  <1> HIDE DEF seqs
  <1>3. Orderly(FlattenSeq(seqs), I)
    BY <1>1, <1>2, OrderlyFlatten DEF TeamFit, Lists
  <1> QED BY <1>3 DEF Each, seqs, addGovernors, grantGovernors

LEMMA RevokeGovernorsIsOrderly ==
  ASSUME NEW I, Setting(I), NEW k, TeamFit(k.governorsToRevoke, I)
  PROVE  Orderly(RevokeGovernors(Ctx, k), I)
  <1> DEFINE seqs == [i \in 1..Len(k.governorsToRevoke) |-> KnownId(k.cloakHasPlan,
                                               <<RevokeRoles(TIMELOCK, DeveloperRoles \cup OldTimelockRoles \cup {"approve"},
                                                             k.governorsToRevoke[i]),
                                                 RevokeRoles(Ctx.cloak, GovernorCloakRoles, k.governorsToRevoke[i])>>)]
  <1>1. \A i \in 1..Len(k.governorsToRevoke) : Orderly(seqs[i], I)
    BY RevokeIsAlone, OrderlyTwo, ThrowIsOrderly DEF TeamFit, KnownId
  <1>2. seqs = [i \in 1..Len(k.governorsToRevoke) |-> seqs[i]]
    OBVIOUS
  <1> HIDE DEF seqs
  <1>3. Orderly(FlattenSeq(seqs), I)
    BY <1>1, <1>2, OrderlyFlatten DEF TeamFit, Lists
  <1> QED BY <1>3 DEF Each, seqs, RevokeGovernors, revokeGovernors

LEMMA RevokeCloakExecuteIsOrderly ==
  ASSUME NEW I, Setting(I), NEW k, TeamFit(k.executorsRevoked, I)
  PROVE  Orderly(RevokeCloakExecute(Ctx, k), I)
  <1> DEFINE seqs == [i \in 1..Len(k.executorsRevoked) |-> <<RevokeRoles(Ctx.cloak, {"execute"}, k.executorsRevoked[i])>>]
  <1>1. \A i \in 1..Len(k.executorsRevoked) : Orderly(seqs[i], I)
    BY RevokeIsAlone, OrderlyOne DEF TeamFit
  <1>2. seqs = [i \in 1..Len(k.executorsRevoked) |-> seqs[i]]
    OBVIOUS
  <1> HIDE DEF seqs
  <1>3. Orderly(FlattenSeq(seqs), I)
    BY <1>1, <1>2, OrderlyFlatten DEF TeamFit, Lists
  <1>4. Orderly(proposalRequired(k.previousProposalHash), I)
    BY CallIsAlone, OrderlyOne DEF proposalRequired
  <1>5. Orderly(revokeCloakExecute(Ctx, k.executorsRevoked), I)
    BY <1>3 DEF revokeCloakExecute, Each, seqs
  <1> QED BY <1>4, <1>5, OrderlyEmpty, OrderlyConcat DEF RevokeCloakExecute

LEMMA exitJoinIsOrderly ==
  ASSUME NEW I, Setting(I), NEW join, NEW t
  PROVE  Orderly(exitJoin(join, t), I)
  <1> DEFINE a == GrantRoles(join, {"exit"}, TIMELOCK)
             b == Call(join, "exit", <<t.receiver, t.amount>>)
             c == RevokeRoles(join, {"exit"}, TIMELOCK)
  <1>1. Alone(a, I) /\ Alone(b, I) /\ Alone(c, I)
    BY GrantIsAlone, CallIsAlone, RevokeIsAlone DEF Setting, Outsider
  <1>2. exitJoin(join, t) = <<a>> \o <<b>> \o <<c>>
    BY DEF exitJoin, Borrow
  <1> HIDE DEF a, b, c
  <1> QED BY <1>1, <1>2, OrderlyOne, OrderlyConcat

LEMMA redeemJuneLendersIsOrderly ==
  ASSUME NEW I, Setting(I), NEW k, Lists({k.transfers})
  PROVE  Orderly(redeemJuneLenders(k), I)
  <1> DEFINE seqs == [i \in 1..Len(k.transfers) |-> exitJoin(k.joins[k.transfers[i].assetId], k.transfers[i])]
  <1>1. \A i \in 1..Len(k.transfers) : Orderly(seqs[i], I)
    BY exitJoinIsOrderly
  <1>2. seqs = [i \in 1..Len(k.transfers) |-> seqs[i]]
    OBVIOUS
  <1> HIDE DEF seqs
  <1>3. Orderly(FlattenSeq(seqs), I)
    BY <1>1, <1>2, OrderlyFlatten DEF Lists
  <1> QED BY <1>3 DEF Each, seqs, redeemJuneLenders

LEMMA buyFYTokenIsOrderly ==
  ASSUME NEW I, Setting(I), NEW k, Lists({k.baseTransfers})
  PROVE  Orderly(buyFYToken(k), I)
  <1> DEFINE seqs == [i \in 1..Len(k.baseTransfers) |-> exitJoin(k.joins[k.baseTransfers[i].assetId], k.baseTransfers[i])
                                              \o buyFYTokenFromStrategy(k.baseTransfers[i].receiver, TIMELOCK)]
  <1>1. \A i \in 1..Len(k.baseTransfers) : Orderly(seqs[i], I)
    BY exitJoinIsOrderly, CallIsAlone, OrderlyOne, OrderlyConcat DEF buyFYTokenFromStrategy
  <1>2. seqs = [i \in 1..Len(k.baseTransfers) |-> seqs[i]]
    OBVIOUS
  <1> HIDE DEF seqs
  <1>3. Orderly(FlattenSeq(seqs), I)
    BY <1>1, <1>2, OrderlyFlatten DEF Lists
  <1> QED BY <1>3 DEF Each, seqs, buyFYToken

LEMMA burnStrategiesIsOrderly ==
  ASSUME NEW I, NEW k, Lists({k.strategyTransfers})
  PROVE  Orderly(burnStrategies(k), I)
  <1> DEFINE seqs == [i \in 1..Len(k.strategyTransfers) |-> sendTokens(k.strategyTransfers[i])
                                                  \o burnDivestedStrategy(k.strategyTransfers[i].receiver, TIMELOCK)]
  <1>1. \A i \in 1..Len(k.strategyTransfers) : Orderly(seqs[i], I)
    BY sendTokensIsOrderly, CallIsAlone, OrderlyOne, OrderlyConcat DEF burnDivestedStrategy
  <1>2. seqs = [i \in 1..Len(k.strategyTransfers) |-> seqs[i]]
    OBVIOUS
  <1> HIDE DEF seqs
  <1>3. Orderly(FlattenSeq(seqs), I)
    BY <1>1, <1>2, OrderlyFlatten DEF Lists
  <1> QED BY <1>3 DEF Each, seqs, burnStrategies

LEMMA addFCashAssetIsOrderly ==
  ASSUME NEW I, Setting(I), NEW s, NEW asset, NEW joins, joins[asset.assetId] \in I
  PROVE  Orderly(addFCashAsset(s, Ctx, asset, joins), I)
  <1> DEFINE join == joins[asset.assetId]
             under == Val(s, <<join, "underlyingJoin">>)
             pair == <<GrantRoles(under, JoinRoles, join), CloakAdd(Ctx.cloak, join, Permissions(under, JoinRoles))>>
             rest == IF \E r \in JoinRoles : HasRole(s, under, r, join) THEN <<>> ELSE pair
  <1>1. Orderly(pair, I)
    <2> HIDE DEF under
    <2> QED BY OrderlyPair
  <1>2. addNotionalJoin(s, Ctx, asset.assetId, join) = rest \o addJoin(Ctx, asset.assetId, join)
    BY DEF addNotionalJoin
  <1> HIDE DEF pair
  <1>3. Orderly(rest, I)
    BY <1>1, OrderlyEmpty
  <1> HIDE DEF rest
  <1>4. Orderly(addNotionalJoin(s, Ctx, asset.assetId, join), I)
    BY <1>2, <1>3, addJoinIsOrderly, OrderlyConcat
  <1> QED BY <1>4, makeAssetIsOrderly, ThrowIsOrderly, OrderlyConcat DEF addFCashAsset

LEMMA addFCashMaturitiesIsOrderly ==
  ASSUME NEW I, Setting(I), NEW s, NEW k, FCashFit(k, I)
  PROVE  Orderly(addFCashMaturities(s, Ctx, k), I)
  <1> DEFINE x(i) == k.newSeriesIlks[i]
             a == updateNotionalSources(k.notional, k.newSources)
             joins == [i \in 1..Len(k.newJoins) |-> orchestrateNotionalJoin(k.deployers[k.newJoins[i]], Ctx, k.newJoins[i])]
             ilks == [i \in 1..Len(k.newSeriesIlks) |->
                        addFCashAsset(s, Ctx, x(i)[2].asset, k.joins) \o makeIlk(s, Ctx, x(i)[2], k.joins)
                        \o addIlkToSeries(Ctx, x(i)[1], x(i)[2].ilkId)]
  <1>1. Len(k.newSources) \in Nat /\ Len(k.newJoins) \in Nat /\ Len(k.newSeriesIlks) \in Nat
    BY DEF FCashFit, Lists
  <1>2. Orderly(a, I)
    BY <1>1, updateNotionalSourcesIsOrderly
  <1>3. Orderly(FlattenSeq(joins), I)
    <2>1. \A i \in 1..Len(k.newJoins) : Orderly(joins[i], I)
      BY OrchestrateJoinWithIsOrderly DEF FCashFit, orchestrateNotionalJoin
    <2>2. joins = [i \in 1..Len(k.newJoins) |-> joins[i]]
      OBVIOUS
    <2> HIDE DEF joins
    <2> QED BY <1>1, <2>1, <2>2, OrderlyFlatten
  <1>4. Orderly(FlattenSeq(ilks), I)
    <2>1. \A i \in 1..Len(k.newSeriesIlks) : Orderly(ilks[i], I)
      BY addFCashAssetIsOrderly, makeIlkIsOrderly, addIlkToSeriesIsOrderly, OrderlyConcat DEF FCashFit
    <2>2. ilks = [i \in 1..Len(k.newSeriesIlks) |-> ilks[i]]
      OBVIOUS
    <2> HIDE DEF ilks
    <2> QED BY <1>1, <2>1, <2>2, OrderlyFlatten
  <1>5. addFCashMaturities(s, Ctx, k) = a \o FlattenSeq(joins) \o FlattenSeq(ilks)
    BY DEF addFCashMaturities, Each
  <1> HIDE DEF a, joins, ilks
  <1> QED BY <1>2, <1>3, <1>4, <1>5, OrderlyConcat

LEMMA InitThenInvestIsOrderly ==
  ASSUME NEW I, NEW k, StrategiesFit(k, I)
  PROVE  Orderly(InitThenInvest(k), I)
  <1> DEFINE inits == [i \in 1..Len(k.newStrategies) |-> initStrategy(k.newStrategies[i])]
             invests == [i \in 1..Len(k.newStrategies) |-> investStrategy(k.newStrategies[i])]
  <1>1. Len(k.newStrategies) \in Nat
    BY DEF StrategiesFit, Lists
  <1>2. Orderly(FlattenSeq(inits), I)
    <2>1. \A i \in 1..Len(k.newStrategies) : Orderly(inits[i], I)
      BY initStrategyIsOrderly
    <2>2. inits = [i \in 1..Len(k.newStrategies) |-> inits[i]]
      OBVIOUS
    <2> HIDE DEF inits
    <2> QED BY <1>1, <2>1, <2>2, OrderlyFlatten
  <1>3. Orderly(FlattenSeq(invests), I)
    <2>1. \A i \in 1..Len(k.newStrategies) : Orderly(invests[i], I)
      BY investStrategyIsOrderly DEF StrategiesFit
    <2>2. invests = [i \in 1..Len(k.newStrategies) |-> invests[i]]
      OBVIOUS
    <2> HIDE DEF invests
    <2> QED BY <1>1, <2>1, <2>2, OrderlyFlatten
  <1>4. InitThenInvest(k) = FlattenSeq(inits) \o FlattenSeq(invests)
    BY DEF InitThenInvest, Each
  <1> HIDE DEF inits, invests
  <1> QED BY <1>2, <1>3, <1>4, OrderlyConcat

LEMMA RestorePoolsIsOrderly ==
  ASSUME NEW I, Setting(I), NEW k, RestoreFit(k, I)
  PROVE  Orderly(RestorePools(k), I)
  <1> DEFINE m(i) == k.mints[i]
             r(i) == k.poolRestorations[i]
             sent == [i \in 1..Len(k.transfers) |-> sendTokens(k.transfers[i])]
             minted == [i \in 1..Len(k.mints) |-> mintPool(k.pools[m(i).seriesId], m(i).receiver, TIMELOCK)
                                                   \o mintStrategy(m(i).receiver, TIMELOCK)]
             a == orchestratePoolRestorer(k.deployers[k.restorer], k.restorer)
             restored == [i \in 1..Len(k.poolRestorations) |->
                            grantPermission(k.fyTokens[r(i).seriesId], "mint", k.restorer)
                            \o restorePool(k.restorer, r(i)) \o mintStrategy(r(i).receiver, TIMELOCK)
                            \o revokePermission(k.fyTokens[r(i).seriesId], "mint", k.restorer)]
             b == isolatePoolRestorer(k.restorer)
  <1>1. Len(k.transfers) \in Nat /\ Len(k.mints) \in Nat /\ Len(k.poolRestorations) \in Nat
    BY DEF RestoreFit, Lists
  <1>2. k.restorer \notin I /\ Outsider(k.restorer, I) /\ Outsider(k.deployers[k.restorer], I)
    BY DEF RestoreFit, Outsider
  <1>3. Orderly(FlattenSeq(sent), I)
    <2>1. \A i \in 1..Len(k.transfers) : Orderly(sent[i], I)
      BY sendTokensIsOrderly
    <2>2. sent = [i \in 1..Len(k.transfers) |-> sent[i]]
      OBVIOUS
    <2> HIDE DEF sent
    <2> QED BY <1>1, <2>1, <2>2, OrderlyFlatten
  <1>4. Orderly(FlattenSeq(minted), I)
    <2>1. \A i \in 1..Len(k.mints) : Orderly(minted[i], I)
      BY CallIsAlone, OrderlyOne, OrderlyConcat DEF mintPool, mintStrategy
    <2>2. minted = [i \in 1..Len(k.mints) |-> minted[i]]
      OBVIOUS
    <2> HIDE DEF minted
    <2> QED BY <1>1, <2>1, <2>2, OrderlyFlatten
  <1>5. Orderly(a, I)
    <2>1. Orderly(<<GrantRoles(k.restorer, {"restore"}, TIMELOCK)>>, I)
      BY GrantIsAlone, OrderlyOne DEF Setting, Outsider
    <2> QED BY <1>2, <2>1, revokeRootIsOrderly, OrderlyConcat DEF orchestratePoolRestorer
  <1>6. Orderly(FlattenSeq(restored), I)
    <2>1. ASSUME NEW i \in 1..Len(k.poolRestorations) PROVE Orderly(restored[i], I)
      <3>1. Orderly(grantPermission(k.fyTokens[r(i).seriesId], "mint", k.restorer), I)
        BY <1>2, GrantIsAlone, OrderlyOne DEF grantPermission
      <3>2. Orderly(restorePool(k.restorer, r(i)), I)
        BY SetIsAlone, OrderlyOne DEF restorePool
      <3>3. Orderly(mintStrategy(r(i).receiver, TIMELOCK), I)
        BY CallIsAlone, OrderlyOne DEF mintStrategy
      <3>4. Orderly(revokePermission(k.fyTokens[r(i).seriesId], "mint", k.restorer), I)
        BY <1>2, RevokeIsAlone, OrderlyOne DEF revokePermission
      <3> HIDE DEF r
      <3> QED BY <3>1, <3>2, <3>3, <3>4, OrderlyConcat
    <2>2. restored = [i \in 1..Len(k.poolRestorations) |-> restored[i]]
      OBVIOUS
    <2> HIDE DEF restored
    <2> QED BY <1>1, <2>1, <2>2, OrderlyFlatten
  <1>7. Orderly(b, I)
    BY RevokeIsAlone, OrderlyOne DEF isolatePoolRestorer, Setting
  <1>8. RestorePools(k) = FlattenSeq(sent) \o FlattenSeq(minted) \o a \o FlattenSeq(restored) \o b
    BY DEF RestorePools, Each
  <1> HIDE DEF sent, minted, a, restored, b
  <1> QED BY <1>3, <1>4, <1>5, <1>6, <1>7, <1>8, OrderlyConcat

LEMMA restoreSepStrategiesIsOrderly ==
  ASSUME NEW I, Setting(I), NEW s, NEW k, StrategiesFit(k, I), RestoreFit(k, I)
  PROVE  /\ SeriesFit(k, I) => Orderly(restoreSepStrategies_euler(s, Ctx, k), I)
         /\ Orderly(restoreSepStrategies_eulerAgain(Ctx, k), I)
  <1>1. Orderly(OrchestrateStrategies(Ctx, k), I) /\ Orderly(InitThenInvest(k), I) /\ Orderly(RestorePools(k), I)
    BY OrchestrateStrategiesIsOrderly, InitThenInvestIsOrderly, RestorePoolsIsOrderly
  <1>2. SeriesFit(k, I) => Orderly(OrchestrateSeries(s, Ctx, k), I) /\ Orderly(AddSeries(s, Ctx, k), I)
    BY OrchestrateSeriesIsOrderly, AddSeriesIsOrderly
  <1> QED BY <1>1, <1>2, OrderlyConcat DEF restoreSepStrategies_euler, restoreSepStrategies_eulerAgain

LEMMA strategyTokenUpgradeIsOrderly ==
  ASSUME NEW I, Setting(I), NEW s, NEW k, UpgradeFit(k, I)
  PROVE  Orderly(strategyTokenUpgrade_euler(s, k), I) /\ Orderly(strategyTokenUpgrade_eulerAgain(k), I)
  <1> DEFINE u(i) == k.upgrades[i]
             sent(i, amount) == sendTokens([token |-> u(i).tokenOut, receiver |-> k.upgrade, amount |-> amount])
                                \o registerTokenUpgrade(k.upgrade, u(i).tokenIn, u(i).tokenOut, u(i).merkleRoot)
             all == [i \in 1..Len(k.upgrades) |-> sent(i, Amount(s, Bal(u(i).tokenOut, TIMELOCK)))]
             some == [i \in 1..Len(k.upgrades) |-> sent(i, u(i).amount)]
             a == orchestrateTokenUpgrade(k.deployers[k.upgrade], k.upgrade)
  <1>1. Orderly(a, I)
    <2>1. Orderly(<<GrantRoles(k.upgrade, {"register", "unregister", "extract", "recover"}, TIMELOCK)>>, I)
      BY GrantIsAlone, OrderlyOne DEF Setting, Outsider
    <2> QED BY <2>1, revokeRootIsOrderly, OrderlyConcat DEF orchestrateTokenUpgrade, UpgradeFit
  <1>2. ASSUME NEW i, NEW amount PROVE Orderly(sent(i, amount), I)
    <2>1. Orderly(registerTokenUpgrade(k.upgrade, u(i).tokenIn, u(i).tokenOut, u(i).merkleRoot), I)
      BY SetIsAlone, OrderlyOne DEF registerTokenUpgrade
    <2> QED BY <2>1, sendTokensIsOrderly, OrderlyConcat
  <1>3. Orderly(FlattenSeq(all), I) /\ Orderly(FlattenSeq(some), I)
    <2> HIDE DEF sent
    <2>1. \A i \in 1..Len(k.upgrades) : Orderly(all[i], I) /\ Orderly(some[i], I)
      BY <1>2
    <2>2. all = [i \in 1..Len(k.upgrades) |-> all[i]] /\ some = [i \in 1..Len(k.upgrades) |-> some[i]]
      OBVIOUS
    <2>3. Len(k.upgrades) \in Nat
      BY DEF UpgradeFit, Lists
    <2> HIDE DEF all, some
    <2> QED BY <2>1, <2>2, <2>3, OrderlyFlatten
  <1>4. /\ strategyTokenUpgrade_euler(s, k) = a \o FlattenSeq(all)
        /\ strategyTokenUpgrade_eulerAgain(k) = a \o FlattenSeq(some)
    BY DEF strategyTokenUpgrade_euler, strategyTokenUpgrade_eulerAgain, Each
  <1> HIDE DEF a, all, some
  <1> QED BY <1>1, <1>3, <1>4, OrderlyConcat

LEMMA mintFYTokenIsOrderly ==
  ASSUME NEW I, Setting(I), NEW fyToken, NEW receiver, NEW amount
  PROVE  Orderly(mintFYToken(fyToken, receiver, amount), I)
  <1> DEFINE a == GrantRoles(fyToken, {"mint"}, TIMELOCK)
             b == Call(fyToken, "mint", <<receiver, amount>>)
             c == RevokeRoles(fyToken, {"mint"}, TIMELOCK)
  <1>1. Alone(a, I) /\ Alone(b, I) /\ Alone(c, I)
    BY GrantIsAlone, CallIsAlone, RevokeIsAlone DEF Setting, Outsider
  <1>2. mintFYToken(fyToken, receiver, amount) = <<a>> \o <<b>> \o <<c>>
    BY DEF mintFYToken, Borrow
  <1> HIDE DEF a, b, c
  <1> QED BY <1>1, <1>2, OrderlyOne, OrderlyConcat

LEMMA TradeAndMintIsOrderly ==
  ASSUME NEW I, Setting(I), NEW k, Lists({k.trades, k.transfers, k.mints})
  PROVE  Orderly(TradeAndMint(k), I)
  <1> DEFINE m(i) == k.mints[i]
             t(i) == k.trades[i]
             traded == [i \in 1..Len(k.trades) |->
                          mintFYToken(k.fyTokens[t(i).seriesId], k.pools[t(i).seriesId], t(i).amount) \o KnownId(FALSE, <<>>)]
             sent == [i \in 1..Len(k.transfers) |-> sendTokens(k.transfers[i])]
             minted == [i \in 1..Len(k.mints) |->
                          mintFYToken(k.fyTokens[m(i).seriesId], k.pools[m(i).seriesId], m(i).amount)
                          \o mintPool(k.pools[m(i).seriesId], m(i).receiver, TIMELOCK) \o mintStrategy(m(i).receiver, TIMELOCK)]
  <1>1. Len(k.trades) \in Nat /\ Len(k.transfers) \in Nat /\ Len(k.mints) \in Nat
    BY DEF Lists
  <1>2. \A fyToken, receiver, amount : Orderly(mintFYToken(fyToken, receiver, amount), I)
    BY mintFYTokenIsOrderly
  <1>3. Orderly(FlattenSeq(traded), I)
    <2>1. \A i \in 1..Len(k.trades) : Orderly(traded[i], I)
      BY <1>2, ThrowIsOrderly, OrderlyConcat DEF KnownId
    <2>2. traded = [i \in 1..Len(k.trades) |-> traded[i]]
      OBVIOUS
    <2> HIDE DEF traded
    <2> QED BY <1>1, <2>1, <2>2, OrderlyFlatten
  <1>4. Orderly(FlattenSeq(sent), I)
    <2>1. \A i \in 1..Len(k.transfers) : Orderly(sent[i], I)
      BY sendTokensIsOrderly
    <2>2. sent = [i \in 1..Len(k.transfers) |-> sent[i]]
      OBVIOUS
    <2> HIDE DEF sent
    <2> QED BY <1>1, <2>1, <2>2, OrderlyFlatten
  <1>5. Orderly(FlattenSeq(minted), I)
    <2>1. ASSUME NEW i \in 1..Len(k.mints) PROVE Orderly(minted[i], I)
      <3>1. Orderly(mintPool(k.pools[m(i).seriesId], m(i).receiver, TIMELOCK), I)
        BY CallIsAlone, OrderlyOne DEF mintPool
      <3>2. Orderly(mintStrategy(m(i).receiver, TIMELOCK), I)
        BY CallIsAlone, OrderlyOne DEF mintStrategy
      <3> HIDE DEF m
      <3> QED BY <1>2, <3>1, <3>2, OrderlyConcat
    <2>2. minted = [i \in 1..Len(k.mints) |-> minted[i]]
      OBVIOUS
    <2> HIDE DEF minted
    <2> QED BY <1>1, <2>1, <2>2, OrderlyFlatten
  <1>6. TradeAndMint(k) = FlattenSeq(traded) \o FlattenSeq(sent) \o FlattenSeq(minted)
    BY DEF TradeAndMint, Each
  <1> HIDE DEF traded, sent, minted
  <1> QED BY <1>3, <1>4, <1>5, <1>6, OrderlyConcat

LEMMA restoreJunStrategiesIsOrderly ==
  ASSUME NEW I, Setting(I), NEW s, NEW k, StrategiesFit(k, I), Lists({k.trades, k.transfers, k.mints})
  PROVE  /\ SeriesFit(k, I) => Orderly(restoreJunStrategies_euler(s, Ctx, k), I)
         /\ Orderly(restoreJunStrategies_eulerAgain(Ctx, k), I)
  <1> DEFINE x(i) == k.newSeries[i]
             rates == [i \in 1..Len(k.newSeries) |->
                         updateAccumulatorPerSecondRate(k.accumulator, [baseId |-> x(i).baseId, kind |-> "RATE", perSecondRate |-> 5])
                         \o updateChiOracle(k.fyTokens[x(i).seriesId], k.accumulator)
                         \o updateRateOracle(Ctx, x(i).baseId, k.accumulator)]
             a == orchestrateAccumulatorOracle(k.accumulator)
  <1>1. Orderly(OrchestrateStrategies(Ctx, k), I) /\ Orderly(InitThenInvest(k), I) /\ Orderly(TradeAndMint(k), I)
    BY OrchestrateStrategiesIsOrderly, InitThenInvestIsOrderly, TradeAndMintIsOrderly
  <1>2. Orderly(a, I)
    BY GrantIsAlone, OrderlyOne DEF orchestrateAccumulatorOracle, Setting, Outsider
  <1>3. ASSUME SeriesFit(k, I) PROVE Orderly(restoreJunStrategies_euler(s, Ctx, k), I)
    <2>1. Orderly(OrchestrateSeries(s, Ctx, k), I) /\ Orderly(AddSeries(s, Ctx, k), I)
      BY <1>3, OrchestrateSeriesIsOrderly, AddSeriesIsOrderly
    <2>2. Orderly(FlattenSeq(rates), I)
      <3>1. ASSUME NEW i \in 1..Len(k.newSeries) PROVE Orderly(rates[i], I)
        <4>1. Orderly(updateAccumulatorPerSecondRate(k.accumulator, [baseId |-> x(i).baseId, kind |-> "RATE", perSecondRate |-> 5]), I)
          BY CallIsAlone, SetIsAlone, OrderlyTwo DEF updateAccumulatorPerSecondRate
        <4>2. Orderly(updateChiOracle(k.fyTokens[x(i).seriesId], k.accumulator), I)
          BY SetIsAlone, OrderlyOne DEF updateChiOracle
        <4>3. Orderly(updateRateOracle(Ctx, x(i).baseId, k.accumulator), I)
          BY SetIsAlone, OrderlyOne DEF updateRateOracle
        <4> HIDE DEF x
        <4> QED BY <4>1, <4>2, <4>3, OrderlyConcat
      <3>2. rates = [i \in 1..Len(k.newSeries) |-> rates[i]]
        OBVIOUS
      <3>3. Len(k.newSeries) \in Nat
        BY <1>3 DEF SeriesFit, Lists
      <3> HIDE DEF rates
      <3> QED BY <3>1, <3>2, <3>3, OrderlyFlatten
    <2>3. restoreJunStrategies_euler(s, Ctx, k)
          = a \o OrchestrateSeries(s, Ctx, k) \o OrchestrateStrategies(Ctx, k) \o FlattenSeq(rates)
            \o AddSeries(s, Ctx, k) \o InitThenInvest(k) \o TradeAndMint(k)
      BY DEF restoreJunStrategies_euler, Each
    <2> HIDE DEF a, rates
    <2> QED BY <1>1, <1>2, <2>1, <2>2, <2>3, OrderlyConcat
  <1>4. Orderly(restoreJunStrategies_eulerAgain(Ctx, k), I)
    BY <1>1, OrderlyConcat DEF restoreJunStrategies_eulerAgain
  <1> QED BY <1>3, <1>4

\* The Shifter gets and loses its roles in one proposal, and nothing is planned for it
LEMMA migrateJunDebtIsOrderly ==
  ASSUME NEW I, Setting(I), NEW k, ShiftFit(k, I)
  PROVE  Orderly(migrateJunDebt(Ctx, k), I)
  <1> DEFINE seqs == [i \in 1..Len(k.vaultsToMigrate) |-> migrateDebt(k.shifter, k.vaultsToMigrate[i][1], k.vaultsToMigrate[i][2])]
             g == GrantRoles(k.shifter, {"shift"}, TIMELOCK)
             h == GrantRoles(Ctx.cauldron, ShifterRoles, k.shifter)
             a == orchestrateShifter(k.deployers[k.shifter], Ctx, k.shifter)
             b == isolateShifter(Ctx, k.shifter)
  <1>1. Orderly(a, I)
    <2>1. Alone(g, I) /\ Alone(h, I)
      BY GrantIsAlone DEF Setting, Outsider, ShiftFit
    <2>2. a = <<g, h>> \o revokeRoot(k.shifter, k.deployers[k.shifter])
      BY DEF orchestrateShifter
    <2> HIDE DEF g, h, a
    <2> QED BY <2>1, <2>2, OrderlyTwo, revokeRootIsOrderly, OrderlyConcat DEF ShiftFit
  <1>2. Orderly(b, I)
    BY RevokeIsAlone, OrderlyOne DEF isolateShifter, ShiftFit
  <1>3. Orderly(FlattenSeq(seqs), I)
    <2>1. \A i \in 1..Len(k.vaultsToMigrate) : Orderly(seqs[i], I)
      BY SetIsAlone, OrderlyOne DEF migrateDebt
    <2>2. seqs = [i \in 1..Len(k.vaultsToMigrate) |-> seqs[i]]
      OBVIOUS
    <2>3. Len(k.vaultsToMigrate) \in Nat
      BY DEF ShiftFit, Lists
    <2> HIDE DEF seqs
    <2> QED BY <2>1, <2>2, <2>3, OrderlyFlatten
  <1>4. migrateJunDebt(Ctx, k) = a \o FlattenSeq(seqs) \o b
    BY DEF migrateJunDebt, Each
  <1> HIDE DEF a, b, seqs
  <1> QED BY <1>1, <1>2, <1>3, <1>4, OrderlyConcat

LEMMA initPoolsIsOrderly ==
  ASSUME NEW I, NEW s, NEW k, Lists({k.baseTransfers, k.restoredSeries})
  PROVE  Orderly(initPools(s, k), I)
  <1> DEFINE sent == [i \in 1..Len(k.baseTransfers) |-> sendTokens(k.baseTransfers[i])]
             inits == [i \in 1..Len(k.restoredSeries) |-> initPool(s, k.restoredSeries[i].poolAddress)]
  <1>1. Len(k.baseTransfers) \in Nat /\ Len(k.restoredSeries) \in Nat
    BY DEF Lists
  <1>2. Orderly(FlattenSeq(sent), I)
    <2>1. \A i \in 1..Len(k.baseTransfers) : Orderly(sent[i], I)
      BY sendTokensIsOrderly
    <2>2. sent = [i \in 1..Len(k.baseTransfers) |-> sent[i]]
      OBVIOUS
    <2> HIDE DEF sent
    <2> QED BY <1>1, <2>1, <2>2, OrderlyFlatten
  <1>3. Orderly(FlattenSeq(inits), I)
    <2>1. \A pool : Orderly(<<Set(pool, "init", "initialised", <<>>, TRUE)>>, I)
      BY SetIsAlone, OrderlyOne
    <2>2. \A i \in 1..Len(k.restoredSeries) : Orderly(inits[i], I)
      BY <2>1, WithCodeIsOrderly DEF initPool
    <2>3. inits = [i \in 1..Len(k.restoredSeries) |-> inits[i]]
      OBVIOUS
    <2> HIDE DEF inits
    <2> QED BY <1>1, <2>2, <2>3, OrderlyFlatten
  <1>4. initPools(s, k) = FlattenSeq(sent) \o FlattenSeq(inits)
    BY DEF initPools, Each
  <1> HIDE DEF sent, inits
  <1> QED BY <1>2, <1>3, <1>4, OrderlyConcat

LEMMA migrateStrategiesArbitrumIsOrderly ==
  ASSUME NEW I, Setting(I), NEW k, MoveFit(k, I)
  PROVE  Orderly(migrateStrategiesArbitrum(Ctx, k), I)
  <1> DEFINE x(i) == k.newSeries[i]
             y(i) == k.newStrategies[i]
             pools == [i \in 1..Len(k.newSeries) |-> orchestratePool(k.deployers[x(i).poolAddress], x(i).poolAddress)
                                                     \o addPool(Ctx, x(i).seriesId, x(i).poolAddress)]
             olds == [i \in 1..Len(k.oldStrategies) |-> investStrategy(k.oldStrategies[i])]
             news == [i \in 1..Len(k.newStrategies) |->
                        orchestrateStrategy(k.deployers[y(i).address], k.multisig, Ctx, y(i).address) \o investStrategy(y(i))]
  <1>1. Len(k.newSeries) \in Nat /\ Len(k.oldStrategies) \in Nat /\ Len(k.newStrategies) \in Nat
    BY DEF MoveFit, StrategiesFit, Lists
  <1>2. Orderly(FlattenSeq(pools), I)
    <2>1. \A i \in 1..Len(k.newSeries) : Orderly(pools[i], I)
      BY orchestratePoolIsOrderly, addPoolIsOrderly, OrderlyConcat DEF MoveFit
    <2>2. pools = [i \in 1..Len(k.newSeries) |-> pools[i]]
      OBVIOUS
    <2> HIDE DEF pools
    <2> QED BY <1>1, <2>1, <2>2, OrderlyFlatten
  <1>3. Orderly(FlattenSeq(olds), I)
    <2>1. \A i \in 1..Len(k.oldStrategies) : Orderly(olds[i], I)
      BY investStrategyIsOrderly DEF MoveFit
    <2>2. olds = [i \in 1..Len(k.oldStrategies) |-> olds[i]]
      OBVIOUS
    <2> HIDE DEF olds
    <2> QED BY <1>1, <2>1, <2>2, OrderlyFlatten
  <1>4. Orderly(FlattenSeq(news), I)
    <2>1. \A i \in 1..Len(k.newStrategies) : Orderly(news[i], I)
      BY orchestrateStrategyIsOrderly, investStrategyIsOrderly, OrderlyConcat DEF MoveFit, StrategiesFit
    <2>2. news = [i \in 1..Len(k.newStrategies) |-> news[i]]
      OBVIOUS
    <2> HIDE DEF news
    <2> QED BY <1>1, <2>1, <2>2, OrderlyFlatten
  <1>5. migrateStrategiesArbitrum(Ctx, k) = FlattenSeq(pools) \o FlattenSeq(olds) \o FlattenSeq(news)
    BY DEF migrateStrategiesArbitrum, Each
  <1> HIDE DEF pools, olds, news
  <1> QED BY <1>2, <1>3, <1>4, <1>5, OrderlyConcat

LEMMA restoreContangoArbitrumIsOrderly ==
  ASSUME NEW I, NEW s, NEW k, Lists({k.newSeries, k.newStrategies})
  PROVE  Orderly(restoreContangoArbitrum(s, Ctx, k), I)
  <1> DEFINE x(i) == k.newSeries[i]
             y(i) == k.newStrategies[i].address
             pools == [i \in 1..Len(k.newSeries) |->
                         addPool(Ctx, x(i).seriesId, x(i).poolAddress)
                         \o updateYieldSpaceMultiOracleSource(k.yieldSpace, x(i).baseId, x(i).seriesId, x(i).poolAddress)]
             listed == [i \in 1..Len(k.newStrategies) |-> addIntegration(s, Ctx, y(i)) \o addToken(s, Ctx, y(i))]
  <1>1. Len(k.newSeries) \in Nat /\ Len(k.newStrategies) \in Nat
    BY DEF Lists
  <1>2. Orderly(FlattenSeq(pools), I)
    <2>1. \A i \in 1..Len(k.newSeries) : Orderly(pools[i], I)
      BY addPoolIsOrderly, SetSourceIsOrderly, OrderlyConcat DEF updateYieldSpaceMultiOracleSource
    <2>2. pools = [i \in 1..Len(k.newSeries) |-> pools[i]]
      OBVIOUS
    <2> HIDE DEF pools
    <2> QED BY <1>1, <2>1, <2>2, OrderlyFlatten
  <1>3. Orderly(FlattenSeq(listed), I)
    <2>1. ASSUME NEW u PROVE Orderly(addIntegration(s, Ctx, u), I) /\ Orderly(addToken(s, Ctx, u), I)
      <3>1. Orderly(<<Set(Ctx.ladle, "addIntegration", "integrations", <<u>>, TRUE)>>, I)
        BY SetIsAlone, OrderlyOne
      <3>2. Orderly(<<Set(Ctx.ladle, "addToken", "tokens", <<u>>, TRUE)>>, I)
        BY SetIsAlone, OrderlyOne
      <3> QED BY <3>1, <3>2, WithCodeIsOrderly DEF addIntegration, addToken
    <2>2. \A i \in 1..Len(k.newStrategies) : Orderly(listed[i], I)
      BY <2>1, OrderlyConcat
    <2>3. listed = [i \in 1..Len(k.newStrategies) |-> listed[i]]
      OBVIOUS
    <2> HIDE DEF listed
    <2> QED BY <1>1, <2>2, <2>3, OrderlyFlatten
  <1>4. restoreContangoArbitrum(s, Ctx, k) = FlattenSeq(pools) \o FlattenSeq(listed)
    BY DEF restoreContangoArbitrum, Each
  <1> HIDE DEF pools, listed
  <1> QED BY <1>2, <1>3, <1>4, OrderlyConcat

\* The scripts that add bases, collateral and series, roll them, pay, change limits and
\* fees, change the team or restore and move strategies build orderly proposals from whatever
\* chain they find, for every configuration that fits.
THEOREM UsualIsOrderly ==
  ASSUME NEW I, Setting(I), NEW s, NEW k, NEW calls, Usual(calls, s, k, I)
  PROVE  Orderly(calls, I)
  <1>1. \/ BaseFit(k, I) /\ calls \in {addBaseMainnet(s, Ctx, k), addBaseArbitrum(s, Ctx, k)}
        \/ RETHFit(k, I) /\ calls = addRETH(s, Ctx, k)
        \/ SenseFit(k, I) /\ calls = addSensePT(s, Ctx, k)
        \/ FCashFit(k, I) /\ calls = addFCashMaturities(s, Ctx, k)
        \/ RollFit(k, I) /\ calls = rollSeries(s, Ctx, k)
        => Orderly(calls, I)
    BY addBaseIsOrderly, addRETHIsOrderly, addSensePTIsOrderly, addFCashMaturitiesIsOrderly, rollSeriesIsOrderly
  <1>2. \/ Lists({k.traderFunding}) /\ calls = fundTrader(k)
        \/ Lists({k.fyTokenSelling}) /\ calls = SellFYToken(k)
        \/ Lists({k.newLimits}) /\ calls = updateLimits(Ctx, k)
        \/ Lists({k.joinFlashFees, k.fyTokenFlashFees}) /\ calls = updateFlashFees(k)
        => Orderly(calls, I)
    BY fundTraderIsOrderly, SellFYTokenIsOrderly, updateLimitsIsOrderly, updateFlashFeesIsOrderly
  <1>3. \/ TeamFit(k.newDevelopers, I) /\ calls = addDevelopers(Ctx, k)
        \/ TeamFit(k.developersRevoked, I) /\ calls = RevokeDevelopers(Ctx, k)
        \/ TeamFit(k.newGovernors, I) /\ calls = addGovernors(Ctx, k)
        \/ TeamFit(k.governorsToRevoke, I) /\ calls = RevokeGovernors(Ctx, k)
        \/ TeamFit(k.executorsRevoked, I) /\ calls = RevokeCloakExecute(Ctx, k)
        => Orderly(calls, I)
    BY addDevelopersIsOrderly, RevokeDevelopersIsOrderly, addGovernorsIsOrderly, RevokeGovernorsIsOrderly,
       RevokeCloakExecuteIsOrderly
  <1>4. \/ Lists({k.transfers}) /\ calls = redeemJuneLenders(k)
        \/ Lists({k.baseTransfers}) /\ calls = buyFYToken(k)
        \/ Lists({k.strategyTransfers}) /\ calls = burnStrategies(k)
        => Orderly(calls, I)
    BY redeemJuneLendersIsOrderly, buyFYTokenIsOrderly, burnStrategiesIsOrderly
  <1>5. /\ StrategiesFit(k, I) /\ RestoreFit(k, I)
        /\ \/ SeriesFit(k, I) /\ calls = restoreSepStrategies_euler(s, Ctx, k)
           \/ calls = restoreSepStrategies_eulerAgain(Ctx, k)
        => Orderly(calls, I)
    BY restoreSepStrategiesIsOrderly
  <1>6. /\ StrategiesFit(k, I) /\ Lists({k.trades, k.transfers, k.mints})
        /\ \/ SeriesFit(k, I) /\ calls = restoreJunStrategies_euler(s, Ctx, k)
           \/ calls = restoreJunStrategies_eulerAgain(Ctx, k)
        => Orderly(calls, I)
    BY restoreJunStrategiesIsOrderly
  <1>7. \/ UpgradeFit(k, I) /\ calls \in {strategyTokenUpgrade_euler(s, k), strategyTokenUpgrade_eulerAgain(k)}
        \/ ShiftFit(k, I) /\ calls = migrateJunDebt(Ctx, k)
        \/ Lists({k.baseTransfers, k.restoredSeries}) /\ calls = initPools(s, k)
        \/ MoveFit(k, I) /\ calls = migrateStrategiesArbitrum(Ctx, k)
        \/ Lists({k.newSeries, k.newStrategies}) /\ calls = restoreContangoArbitrum(s, Ctx, k)
        => Orderly(calls, I)
    BY strategyTokenUpgradeIsOrderly, migrateJunDebtIsOrderly, initPoolsIsOrderly, migrateStrategiesArbitrumIsOrderly,
       restoreContangoArbitrumIsOrderly
  <1> QED BY <1>1, <1>2, <1>3, <1>4, <1>5, <1>6, <1>7 DEF Usual

\* Governance by these scripts alone, on any networks where whoever has a plan is armed
\* at first, whatever their configurations, the order, delays and repetitions of their
\* proposals, and whoever is isolated in the meantime.
THEOREM GovernanceUsualScripts ==
  ASSUME NEW I, Setting(I),
         \A sc \in Scripts : \A s : Sound(s) => \E k : Usual(Build(sc, s), s, k, I),
         \A id \in DOMAIN Chains : Armed(Chains[id], I) /\ Users[id] \subseteq I
  PROVE  Spec => /\ []TypeOK /\ []KeptDiscipline
                  /\ IsolationFrozen /\ []IsolatedHoldsNothing /\ []IsolationWorks
  <1>1. OrderlyScripts(I)
    BY UsualIsOrderly DEF OrderlyScripts
  <1> QED BY <1>1, GovernanceOrderlyScripts
=============================================================================
