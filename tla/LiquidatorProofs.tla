-------------------------- MODULE LiquidatorProofs ---------------------------
(***************************************************************************)
(* Proofs about Liquidator, for any number of vaults and hashes, any terms *)
(* and bounds: a job remembers a transaction of its own, and has no other  *)
(* in the mempool than those that a bump or a restart made it forget.      *)
(***************************************************************************)
EXTENDS Liquidator, FiniteSetTheorems, TLAPS

\* The transactions of a job that it does not remember
Lost(j) == Pool(j) \ {pending[j]}
LostOK == \A j \in Job : Cardinality(Lost(j)) <= extra[j]
\* What is followed up is remembered
TodoOK == pc = "bump" => \A j \in todo : pending[j] # NoTx
IInv == TypeOK /\ PendingIsOwn /\ TodoOK /\ LostOK

-----------------------------------------------------------------------------
(* Sets of transactions.                                                   *)

LEMMA PoolIsFinite == ASSUME NEW j PROVE IsFiniteSet(Pool(j)) /\ IsFiniteSet(Lost(j))
  <1>1. Pool(j) \subseteq Id /\ Lost(j) \subseteq Id
    BY DEF Pool, Lost
  <1> QED BY <1>1, IdAssumption, FS_Subset

LEMMA NoMore ==
  ASSUME NEW S, NEW T, IsFiniteSet(T), S \subseteq T
  PROVE  Cardinality(S) \in Nat /\ Cardinality(T) \in Nat /\ Cardinality(S) <= Cardinality(T)
  BY FS_Subset, FS_CardinalityType

LEMMA OneMore ==
  ASSUME NEW S, NEW T, IsFiniteSet(T), NEW x, S \subseteq T \cup {x}
  PROVE  Cardinality(S) \in Nat /\ Cardinality(T) \in Nat /\ Cardinality(S) <= Cardinality(T) + 1
  <1>1. /\ IsFiniteSet(T \cup {x})
        /\ Cardinality(T \cup {x}) = IF x \in T THEN Cardinality(T) ELSE Cardinality(T) + 1
    BY FS_AddElement
  <1>2. Cardinality(T) \in Nat
    BY FS_CardinalityType
  <1>3. Cardinality(S) \in Nat /\ Cardinality(S) <= Cardinality(T \cup {x})
    BY <1>1, NoMore
  <1> QED BY <1>1, <1>2, <1>3

\* What a step may do to the transactions that a job has forgotten: none is
\* added, or one is and extra counts it
Counted(j) ==
  \/ Lost(j)' \subseteq Lost(j) /\ extra'[j] = extra[j]
  \/ \E i : Lost(j)' \subseteq Lost(j) \cup {i} /\ extra'[j] = extra[j] + 1

LEMMA CountedIsOK ==
  ASSUME IInv, \A j \in Job : Counted(j)
  PROVE  LostOK'
  <1> SUFFICES ASSUME NEW j \in Job PROVE Cardinality(Lost(j)') <= extra'[j]
    BY DEF LostOK
  <1>1. IsFiniteSet(Lost(j))
    BY PoolIsFinite
  <1>2. Cardinality(Lost(j)) <= extra[j] /\ extra[j] \in Int
    BY OfferAssumption DEF IInv, LostOK, TypeOK
  <1>3. CASE Lost(j)' \subseteq Lost(j) /\ extra'[j] = extra[j]
    <2>1. Cardinality(Lost(j)') \in Nat /\ Cardinality(Lost(j)) \in Nat
          /\ Cardinality(Lost(j)') <= Cardinality(Lost(j))
      BY <1>1, <1>3, NoMore
    <2> QED BY <1>2, <1>3, <2>1
  <1>4. ASSUME NEW i, Lost(j)' \subseteq Lost(j) \cup {i}, extra'[j] = extra[j] + 1
        PROVE  Cardinality(Lost(j)') <= extra'[j]
    <2>1. Cardinality(Lost(j)') \in Nat /\ Cardinality(Lost(j)) \in Nat
          /\ Cardinality(Lost(j)') <= Cardinality(Lost(j)) + 1
      BY <1>1, <1>4, OneMore
    <2> QED BY <1>2, <1>4, <2>1
  <1> QED BY <1>3, <1>4 DEF Counted

\* A step that sends nothing and forgets nothing
LEMMA QuietStep ==
  ASSUME IInv, pending' = pending, extra' = extra,
         \A i \in Id : txs'[i].st = "pool" => txs'[i] = txs[i]
  PROVE  LostOK'
  <1>1. \A j \in Job : Lost(j)' \subseteq Lost(j)
    BY DEF Lost, Pool
  <1> QED BY <1>1, CountedIsOK DEF Counted

-----------------------------------------------------------------------------
(* The chain and the mempool.                                              *)

LEMMA StatusHasType ==
  ASSUME TypeOK, NEW v \in Vault, NEW st \in Status, StatusBecomes(v, st)
  PROVE  /\ status' \in [Vault -> Status] /\ elapsed' \in [Vault -> 0..Duration]
         /\ seen' \in [Vault -> -1..Duration]
  <1>1. 0 \in 0..Duration /\ -1 \in -1..Duration
    BY OfferAssumption
  <1> QED BY <1>1 DEF TypeOK, StatusBecomes

LEMMA ChainSteps ==
  ASSUME IInv, NEW v \in Vault, OthersAct(v) \/ Elapse(v)
  PROVE  IInv'
  <1>1. CASE OthersAct(v)
    <2>1. /\ status' \in [Vault -> Status] /\ elapsed' \in [Vault -> 0..Duration]
          /\ seen' \in [Vault -> -1..Duration] /\ ratio' \in [Vault -> Ratio]
      <3>1. CASE \E st \in Status : StatusBecomes(v, st) /\ UNCHANGED ratio
        BY <3>1, StatusHasType DEF IInv, TypeOK
      <3>2. CASE \E r \in Ratio : ratio' = [ratio EXCEPT ![v] = r] /\ UNCHANGED <<status, elapsed, seen>>
        BY <3>2 DEF IInv, TypeOK
      <3> QED BY <1>1, <3>1, <3>2 DEF OthersAct, Status
    <2> QED BY <1>1, <2>1, QuietStep DEF OthersAct, bot, IInv, TypeOK, PendingIsOwn, TodoOK
  <1>2. CASE Elapse(v)
    <2>1. elapsed' \in [Vault -> 0..Duration]
      BY <1>2, OfferAssumption DEF Elapse, IInv, TypeOK
    <2> QED BY <1>2, <2>1, QuietStep DEF Elapse, bot, IInv, TypeOK, PendingIsOwn, TodoOK
  <1> QED BY <1>1, <1>2

\* A transaction that leaves the mempool
LEMMA SettledIsOwn ==
  ASSUME IInv, NEW i \in Id, NEW st \in {"mined", "lost"}, txs[i].st = "pool",
         txs' = [txs EXCEPT ![i] = Settled(i, st)], UNCHANGED <<pc, todo, bot>>
  PROVE  /\ txs' \in [Id -> Tx] /\ PendingIsOwn' /\ TodoOK' /\ LostOK'
  <1>1. txs[i] \in [st: {"pool", "mined", "lost"}, job: Job]
    BY DEF IInv, TypeOK, Tx, Free
  <1>2. [txs[i] EXCEPT !.st = st] \in [st: {"pool", "mined", "lost"}, job: Job]
        /\ [txs[i] EXCEPT !.st = st].st = st /\ [txs[i] EXCEPT !.st = st].job = txs[i].job
    BY <1>1
  <1>3. Settled(i, st) \in Tx /\ Settled(i, st).st # "pool"
    BY <1>2 DEF Settled, Tx, Free
  <1>4. txs' \in [Id -> Tx] /\ txs'[i] = Settled(i, st) /\ \A k \in Id \ {i} : txs'[k] = txs[k]
    BY <1>3 DEF IInv, TypeOK
  <1>5. PendingIsOwn'
    <2> SUFFICES ASSUME NEW j \in Job, pending[j] # NoTx
                 PROVE  txs'[pending[j]].st # "free" /\ txs'[pending[j]].job = j
      BY DEF PendingIsOwn, bot
    <2>1. pending[j] \in Id /\ txs[pending[j]].st # "free" /\ txs[pending[j]].job = j
      BY DEF IInv, TypeOK, PendingIsOwn
    <2>2. CASE pending[j] = i
      <3>1. txs'[i] = [txs[i] EXCEPT !.st = st]
        BY <1>4, <2>2 DEF Settled
      <3> QED BY <1>2, <2>1, <2>2, <3>1
    <2> QED BY <1>4, <2>1, <2>2
  <1>6. \A k \in Id : txs'[k].st = "pool" => txs'[k] = txs[k]
    BY <1>3, <1>4
  <1> QED BY <1>4, <1>5, <1>6, QuietStep DEF bot, IInv, TodoOK

LEMMA MempoolSteps ==
  ASSUME IInv, NEW i \in Id, Mine(i) \/ Lose(i)
  PROVE  IInv'
  <1>1. CASE Mine(i)
    <2>1. txs' \in [Id -> Tx] /\ PendingIsOwn' /\ TodoOK' /\ LostOK'
      BY <1>1, SettledIsOwn DEF Mine
    <2>2. txs[i].job[2] \in Vault
      BY <1>1 DEF Mine, IInv, TypeOK, Tx, Free, Job
    <2>3. /\ status' \in [Vault -> Status] /\ elapsed' \in [Vault -> 0..Duration]
          /\ seen' \in [Vault -> -1..Duration]
      BY <1>1, <2>2, StatusHasType DEF Mine, IInv, TypeOK, Status
    <2> QED BY <1>1, <2>1, <2>3 DEF Mine, bot, IInv, TypeOK
  <1>2. CASE Lose(i)
    <2>1. txs' \in [Id -> Tx] /\ PendingIsOwn' /\ TodoOK' /\ LostOK'
      BY <1>2, SettledIsOwn DEF Lose
    <2> QED BY <1>2, <2>1 DEF Lose, bot, chain, IInv, TypeOK
  <1> QED BY <1>1, <1>2

LEMMA AgeStep ==
  ASSUME IInv, NEW j \in Job, Age(j)
  PROVE  IInv'
  BY QuietStep DEF Age, chain, IInv, TypeOK, PendingIsOwn, TodoOK

-----------------------------------------------------------------------------
(* The bot.                                                                *)

\* What changes neither the transactions nor what the bot remembers of them
LEMMA RoundSteps ==
  ASSUME IInv,
         \/ StartRound \/ UpdateVaults \/ CollectAuctions \/ EndRound \/ RoundFails
         \/ \E j \in Job : TooEarly(j)
         \/ \E v \in Vault : SkipAuction(v) \/ SkipBid(v)
  PROVE  IInv'
  <1>1. UNCHANGED <<txs, bot, status, ratio, elapsed>>
    BY DEF StartRound, UpdateVaults, CollectAuctions, EndRound, RoundFails, TooEarly, SkipAuction, SkipBid, chain
  <1>2. LostOK' /\ PendingIsOwn'
    BY <1>1, QuietStep DEF bot, IInv, PendingIsOwn
  <1>3. TodoOK'
    <2>1. CASE StartRound
      BY <2>1 DEF StartRound, bot, TodoOK
    <2>2. CASE \E j \in Job : TooEarly(j)
      BY <1>1, <2>2 DEF TooEarly, Takes, bot, IInv, TodoOK
    <2>3. CASE ~StartRound /\ ~\E j \in Job : TooEarly(j)
      <3>1. pc' # "bump"
        BY <2>3 DEF UpdateVaults, CollectAuctions, EndRound, RoundFails, SkipAuction, SkipBid
      <3> QED BY <3>1 DEF TodoOK
    <2> QED BY <2>1, <2>2, <2>3
  <1>4. /\ info' \in [Vault -> Status \cup {"unknown"}] /\ seen' \in [Vault -> -1..Duration]
        /\ faults' \in 0..MaxFaults
    <2>1. CASE UpdateVaults
      BY <2>1 DEF UpdateVaults, IInv, TypeOK
    <2>2. CASE CollectAuctions
      <3>1. \A v \in Vault : (IF status[v] = "auctioned" THEN elapsed[v] ELSE -1) \in -1..Duration
        BY OfferAssumption DEF IInv, TypeOK
      <3> QED BY <2>2, <3>1 DEF CollectAuctions, IInv, TypeOK
    <2>3. CASE RoundFails
      BY <2>3, OfferAssumption DEF RoundFails, IInv, TypeOK
    <2>4. CASE ~UpdateVaults /\ ~CollectAuctions /\ ~RoundFails
      BY <2>4 DEF StartRound, EndRound, TooEarly, SkipAuction, SkipBid, IInv, TypeOK
    <2> QED BY <2>1, <2>2, <2>3, <2>4
  <1>5. todo' \subseteq Job /\ pc' \in {"idle", "bump", "start", "bid"}
    <2>1. \A kind \in Kind : {<<kind, v>> : v \in Vault} \subseteq Job
      BY DEF Job
    <2>2. {<<"auction", v>> : v \in Vault} \subseteq Job /\ {<<"buy", v>> : v \in Vault} \subseteq Job
      BY <2>1 DEF Kind
    <2>3. \/ todo' \subseteq todo
          \/ todo' = {j \in Job : pending[j] # NoTx}
          \/ todo' = {<<"auction", v>> : v \in Vault}
          \/ todo' = {<<"buy", v>> : v \in Vault}
      BY DEF StartRound, UpdateVaults, CollectAuctions, EndRound, RoundFails, TooEarly, Takes, SkipAuction, SkipBid
    <2>4. pc' = pc \/ pc' \in {"idle", "bump", "start", "bid"}
      BY DEF StartRound, UpdateVaults, CollectAuctions, EndRound, RoundFails, TooEarly, SkipAuction, SkipBid
    <2> QED BY <2>2, <2>3, <2>4 DEF IInv, TypeOK
  <1>6. TypeOK'
    BY <1>1, <1>4, <1>5 DEF bot, IInv, TypeOK
  <1> QED BY <1>2, <1>3, <1>6 DEF IInv

LEMMA ConfirmStep ==
  ASSUME IInv, NEW j \in Job, Confirm(j)
  PROVE  IInv'
  <1> DEFINE i == pending[j]
  <1>1. i \in Id /\ txs[i].st = "mined" /\ txs[i].job = j
    BY DEF Confirm, Takes, IInv, TodoOK, TypeOK, PendingIsOwn
  <1>2. txs' = [txs EXCEPT ![i] = Free] /\ pending' = [pending EXCEPT ![j] = NoTx]
        /\ todo' = todo \ {j} /\ UNCHANGED <<pc, extra>>
    BY DEF Confirm, Takes
  <1> HIDE DEF i
  <1>3. /\ txs' \in [Id -> Tx] /\ pending' \in [Job -> Id \cup {NoTx}]
        /\ \A k \in Id \ {i} : txs'[k] = txs[k]
        /\ txs'[i].st = "free"
        /\ \A k \in Job \ {j} : pending'[k] = pending[k]
        /\ pending'[j] = NoTx
    BY <1>1, <1>2 DEF Tx, Free, IInv, TypeOK
  <1>4. TypeOK'
    BY <1>2, <1>3 DEF Confirm, Takes, chain, IInv, TypeOK
  <1>5. PendingIsOwn'
    BY <1>1, <1>3 DEF IInv, PendingIsOwn, TypeOK
  <1>6. TodoOK'
    BY <1>2, <1>3 DEF IInv, TodoOK, TypeOK
  <1>7. \A k \in Job : Counted(k)
    <2>1. \A k \in Job : Pool(k)' \subseteq Pool(k)
      BY <1>3 DEF Pool
    <2>2. i \notin Pool(j)
      BY <1>1 DEF Pool
    <2>3. \A k \in Job : Lost(k)' \subseteq Lost(k)
      BY <1>3, <2>1, <2>2 DEF Lost, i
    <2> QED BY <1>2, <2>3 DEF Counted
  <1> QED BY <1>4, <1>5, <1>6, <1>7, CountedIsOK DEF IInv

\* A job is given a new transaction, or loses the one it has: other jobs' are
\* not touched
LEMMA OthersKeep ==
  ASSUME IInv, NEW j \in Job, NEW S, S \subseteq Id,
         \A n \in S : txs[n].st = "free" \/ txs[n].job = j,
         \A n \in S : txs'[n].st = "free" \/ txs'[n].job = j,
         \A n \in Id \ S : txs'[n] = txs[n],
         \A k \in Job \ {j} : pending'[k] = pending[k] /\ extra'[k] = extra[k]
  PROVE  \A k \in Job \ {j} :
           /\ Counted(k)
           /\ pending'[k] # NoTx => txs'[pending'[k]].st # "free" /\ txs'[pending'[k]].job = k
  <1> SUFFICES ASSUME NEW k \in Job \ {j}
               PROVE  /\ Counted(k)
                      /\ pending'[k] # NoTx => txs'[pending'[k]].st # "free" /\ txs'[pending'[k]].job = k
    OBVIOUS
  <1>1. Pool(k)' \subseteq Pool(k)
    <2> SUFFICES ASSUME NEW n \in Id, txs'[n] = [st |-> "pool", job |-> k]
                 PROVE  txs[n] = [st |-> "pool", job |-> k]
      BY DEF Pool
    <2>1. txs'[n].st = "pool" /\ txs'[n].job = k
      OBVIOUS
    <2> QED BY <2>1
  <1>2. Counted(k)
    BY <1>1 DEF Lost, Counted
  <1>3. pending[k] # NoTx => pending[k] \in Id \ S /\ txs[pending[k]].st # "free" /\ txs[pending[k]].job = k
    BY DEF IInv, PendingIsOwn, TypeOK
  <1> QED BY <1>2, <1>3

LEMMA BumpStep ==
  ASSUME IInv, NEW j \in Job, Bump(j)
  PROVE  IInv'
  <1> DEFINE i == pending[j]
             rest == IF txs[i].st = "pool" THEN txs[i] ELSE Free
  <1>1. i \in Id /\ txs[i].st # "free" /\ txs[i].job = j
    BY DEF Bump, Takes, IInv, TodoOK, TypeOK, PendingIsOwn
  <1>2. rest \in Tx /\ Free \in Tx
    BY <1>1 DEF IInv, TypeOK, Tx, Free
  <1>3. /\ todo' = todo \ {j} /\ extra'[j] <= MaxExtra
        /\ UNCHANGED <<status, ratio, elapsed, pc, info, seen, faults>> /\ old' = old \ {j}
    BY DEF Bump, Takes, chain
  <1>4. ASSUME NEW n \in Id, NEW left \in {Free, rest}, txs[n] = Free,
               txs' = [txs EXCEPT ![i] = left, ![n] = [st |-> "pool", job |-> j]],
               pending' = [pending EXCEPT ![j] = n],
               extra' = [extra EXCEPT ![j] = IF left = Free THEN @ ELSE @ + 1]
        PROVE  IInv'
    <2> HIDE DEF rest
    <2>1. n # i /\ txs[n].st = "free"
      BY <1>1, <1>4 DEF Free
    <2>2. /\ txs' \in [Id -> Tx] /\ pending' \in [Job -> Id \cup {NoTx}]
          /\ txs'[i] = left /\ txs'[n] = [st |-> "pool", job |-> j]
          /\ \A k \in Id \ {i, n} : txs'[k] = txs[k]
          /\ pending'[j] = n
          /\ \A k \in Job \ {j} : pending'[k] = pending[k] /\ extra'[k] = extra[k]
      <3>1. [st |-> "pool", job |-> j] \in Tx /\ left \in Tx
        BY <1>2 DEF Tx
      <3> HIDE DEF i
      <3> QED BY <1>1, <1>4, <2>1, <3>1 DEF IInv, TypeOK
    <2>3. left.st = "free" \/ left.job = j
      BY <1>1 DEF rest, Free
    <2>4. \A k \in Job \ {j} :
            /\ Counted(k)
            /\ pending'[k] # NoTx => txs'[pending'[k]].st # "free" /\ txs'[pending'[k]].job = k
      <3> DEFINE S == {i, n}
      <3>1. S \subseteq Id /\ \A k \in S : txs[k].st = "free" \/ txs[k].job = j
        BY <1>1, <2>1
      <3>2. \A k \in S : txs'[k].st = "free" \/ txs'[k].job = j
        BY <2>2, <2>3
      <3>3. \A k \in Id \ S : txs'[k] = txs[k]
        BY <2>2
      <3> HIDE DEF S
      <3> QED BY <2>2, <3>1, <3>2, <3>3, OthersKeep
    <2>5. extra[j] \in 0..MaxExtra /\ extra'[j] = IF left = Free THEN extra[j] ELSE extra[j] + 1
      BY <1>4 DEF IInv, TypeOK
    <2>6. Counted(j)
      <3>1. CASE left = Free
        <4>1. Lost(j)' \subseteq Lost(j)
          BY <2>2, <3>1 DEF Lost, Pool, Free
        <4> QED BY <2>5, <3>1, <4>1 DEF Counted
      <3>2. CASE left # Free
        <4>1. Lost(j)' \subseteq Lost(j) \cup {i}
          BY <2>2 DEF Lost, Pool
        <4> QED BY <2>5, <3>2, <4>1 DEF Counted
      <3> QED BY <3>1, <3>2
    <2>7. extra' \in [Job -> 0..MaxExtra]
      <3>1. extra'[j] \in 0..MaxExtra
        BY <1>3, <2>5, OfferAssumption
      <3> QED BY <1>4, <2>5, <3>1 DEF IInv, TypeOK
    <2>8. LostOK'
      BY <2>4, <2>6, CountedIsOK
    <2>9. PendingIsOwn'
      BY <2>2, <2>4 DEF PendingIsOwn
    <2>10. TodoOK'
      BY <1>3, <2>2 DEF IInv, TodoOK, TypeOK
    <2>11. TypeOK'
      BY <1>3, <2>2, <2>7 DEF IInv, TypeOK
    <2> QED BY <2>8, <2>9, <2>10, <2>11 DEF IInv
  <1>5. ASSUME txs' = [txs EXCEPT ![i] = rest],
               pending' = [pending EXCEPT ![j] = NoTx],
               extra' = [extra EXCEPT ![j] = IF rest = Free THEN @ ELSE @ + 1]
        PROVE  IInv'
    <2> HIDE DEF rest
    <2>1. /\ txs' \in [Id -> Tx] /\ pending' \in [Job -> Id \cup {NoTx}]
          /\ txs'[i] = rest
          /\ \A k \in Id \ {i} : txs'[k] = txs[k]
          /\ pending'[j] = NoTx
          /\ \A k \in Job \ {j} : pending'[k] = pending[k] /\ extra'[k] = extra[k]
      <3> HIDE DEF i
      <3> QED BY <1>1, <1>2, <1>5 DEF IInv, TypeOK
    <2>2. rest.st = "free" \/ rest.job = j
      BY <1>1 DEF rest, Free
    <2>3. \A k \in Job \ {j} :
            /\ Counted(k)
            /\ pending'[k] # NoTx => txs'[pending'[k]].st # "free" /\ txs'[pending'[k]].job = k
      <3> DEFINE S == {i}
      <3>1. S \subseteq Id /\ \A k \in S : txs[k].st = "free" \/ txs[k].job = j
        BY <1>1
      <3>2. \A k \in S : txs'[k].st = "free" \/ txs'[k].job = j
        BY <2>1, <2>2
      <3>3. \A k \in Id \ S : txs'[k] = txs[k]
        BY <2>1
      <3> HIDE DEF S
      <3> QED BY <2>1, <3>1, <3>2, <3>3, OthersKeep
    <2>4. extra[j] \in 0..MaxExtra /\ extra'[j] = IF rest = Free THEN extra[j] ELSE extra[j] + 1
      BY <1>5 DEF IInv, TypeOK
    <2>5. Counted(j)
      <3>1. CASE rest = Free
        <4>1. Lost(j)' \subseteq Lost(j)
          BY <2>1, <3>1 DEF Lost, Pool, Free
        <4> QED BY <2>4, <3>1, <4>1 DEF Counted
      <3>2. CASE rest # Free
        <4>1. Lost(j)' \subseteq Lost(j) \cup {i}
          BY <2>1 DEF Lost, Pool
        <4> QED BY <2>4, <3>2, <4>1 DEF Counted
      <3> QED BY <3>1, <3>2
    <2>6. extra' \in [Job -> 0..MaxExtra]
      <3>1. extra'[j] \in 0..MaxExtra
        BY <1>3, <2>4, OfferAssumption
      <3> QED BY <1>5, <2>4, <3>1 DEF IInv, TypeOK
    <2>7. LostOK'
      BY <2>3, <2>5, CountedIsOK
    <2>8. PendingIsOwn'
      BY <2>1, <2>3 DEF PendingIsOwn
    <2>9. TodoOK'
      BY <1>3, <2>1 DEF IInv, TodoOK, TypeOK
    <2>10. TypeOK'
      BY <1>3, <2>1, <2>6 DEF IInv, TypeOK
    <2> QED BY <2>7, <2>8, <2>9, <2>10 DEF IInv
  <1> QED BY <1>4, <1>5 DEF Bump

\* StartAuction and Bid send a job's first transaction
LEMMA SendStep ==
  ASSUME IInv, NEW j \in Job, pending[j] = NoTx, Send(j), todo' = todo \ {j},
         pc # "bump", UNCHANGED <<chain, pc, info, seen, faults>>
  PROVE  IInv'
  <1>1. PICK i \in Id : /\ txs[i] = Free /\ txs' = [txs EXCEPT ![i] = [st |-> "pool", job |-> j]]
                        /\ pending' = [pending EXCEPT ![j] = i]
                        /\ old' = old \ {j} /\ UNCHANGED extra
    <2>1. PICK i \in Id : /\ NewTx(j, i)
                          /\ pending' = [pending EXCEPT ![j] = IF @ = NoTx THEN i ELSE @]
                          /\ old' = IF pending[j] = NoTx THEN old \ {j} ELSE old
                          /\ UNCHANGED extra
      BY DEF Send
    <2>2. pending' = [pending EXCEPT ![j] = i]
      BY <2>1 DEF IInv, TypeOK
    <2> QED BY <2>1, <2>2 DEF NewTx
  <1>2. /\ txs' \in [Id -> Tx] /\ pending' \in [Job -> Id \cup {NoTx}]
        /\ txs'[i] = [st |-> "pool", job |-> j]
        /\ \A k \in Id \ {i} : txs'[k] = txs[k]
        /\ pending'[j] = i
        /\ \A k \in Job \ {j} : pending'[k] = pending[k] /\ extra'[k] = extra[k]
    <2>1. [st |-> "pool", job |-> j] \in Tx
      BY DEF Tx
    <2> QED BY <1>1, <2>1 DEF IInv, TypeOK
  <1>3. \A k \in Job \ {j} :
          /\ Counted(k)
          /\ pending'[k] # NoTx => txs'[pending'[k]].st # "free" /\ txs'[pending'[k]].job = k
    <2> DEFINE S == {i}
    <2>1. S \subseteq Id /\ \A k \in S : txs[k].st = "free" \/ txs[k].job = j
      BY <1>1 DEF Free
    <2>2. \A k \in S : txs'[k].st = "free" \/ txs'[k].job = j
      BY <1>2
    <2>3. \A k \in Id \ S : txs'[k] = txs[k]
      BY <1>2
    <2> HIDE DEF S
    <2> QED BY <1>2, <2>1, <2>2, <2>3, OthersKeep
  <1>4. Counted(j)
    <2>1. Lost(j)' \subseteq Lost(j)
      BY <1>2, NoTxAssumption DEF Lost, Pool
    <2> QED BY <1>1, <2>1 DEF Counted
  <1>5. LostOK'
    BY <1>3, <1>4, CountedIsOK
  <1>6. PendingIsOwn'
    BY <1>2, <1>3 DEF PendingIsOwn
  <1>7. TodoOK'
    BY DEF TodoOK
  <1>8. TypeOK'
    BY <1>1, <1>2 DEF chain, IInv, TypeOK
  <1> QED BY <1>5, <1>6, <1>7, <1>8 DEF IInv

LEMMA SendingSteps ==
  ASSUME IInv, NEW v \in Vault, StartAuction(v) \/ Bid(v)
  PROVE  IInv'
  <1>1. <<"auction", v>> \in Job /\ <<"buy", v>> \in Job
    BY DEF Job, Kind
  <1>2. CASE StartAuction(v)
    BY <1>1, <1>2, SendStep DEF StartAuction, WantsAuction
  <1>3. CASE Bid(v)
    BY <1>1, <1>3, SendStep DEF Bid, WantsBid
  <1> QED BY <1>2, <1>3

\* A restart forgets one transaction of a job at most: those before it are
\* forgotten already
LEMMA RestartStep ==
  ASSUME IInv, Restart
  PROVE  IInv'
  <1>1. /\ pc' = "idle" /\ todo' = {} /\ old' = {} /\ pending' = [j \in Job |-> NoTx]
        /\ txs' = [i \in Id |-> IF txs[i].st = "pool" THEN txs[i] ELSE Free]
        /\ UNCHANGED <<status, ratio, elapsed, seen>>
        /\ info' = [v \in Vault |-> "unknown"] /\ faults < MaxFaults /\ faults' = faults + 1
    BY DEF Restart, chain
  <1>2. \A j \in Job : /\ extra'[j] = extra[j] + IF Pool(j) = {} THEN 0 ELSE 1
                       /\ extra'[j] <= MaxExtra
    BY DEF Restart
  <1>3. extra' \in [Job -> 0..MaxExtra]
    <2>1. \A j \in Job : extra'[j] \in 0..MaxExtra
      BY <1>2, OfferAssumption DEF IInv, TypeOK
    <2>2. extra' = [j \in Job |-> extra'[j]]
      BY DEF Restart
    <2> QED BY <2>1, <2>2
  <1>4. TypeOK'
    <2>1. txs' \in [Id -> Tx]
      BY <1>1 DEF IInv, TypeOK, Tx
    <2>2. faults' \in 0..MaxFaults
      BY <1>1, OfferAssumption DEF IInv, TypeOK
    <2> QED BY <1>1, <1>3, <2>1, <2>2 DEF IInv, TypeOK
  <1>5. \A j \in Job : Counted(j)
    <2> SUFFICES ASSUME NEW j \in Job PROVE Counted(j)
      OBVIOUS
    <2>1. Pool(j)' \subseteq Pool(j)
      BY <1>1 DEF Pool, Free
    <2>2. CASE Pool(j) = {}
      <3>1. Lost(j)' \subseteq Lost(j)
        BY <2>1, <2>2 DEF Lost
      <3>2. extra'[j] = extra[j]
        BY <1>2, <2>2 DEF IInv, TypeOK
      <3> QED BY <3>1, <3>2 DEF Counted
    <2>3. CASE Pool(j) # {}
      <3>1. Lost(j)' \subseteq Lost(j) \cup {pending[j]}
        BY <2>1 DEF Lost
      <3>2. extra'[j] = extra[j] + 1
        BY <1>2, <2>3
      <3> QED BY <3>1, <3>2 DEF Counted
    <2> QED BY <2>2, <2>3
  <1>6. PendingIsOwn' /\ TodoOK'
    BY <1>1 DEF PendingIsOwn, TodoOK
  <1> QED BY <1>4, <1>5, <1>6, CountedIsOK DEF IInv

-----------------------------------------------------------------------------
(* The specification.                                                      *)

LEMMA InitOK == Init => IInv
  <1> SUFFICES ASSUME Init PROVE IInv
    OBVIOUS
  <1>1. TypeOK
    BY OfferAssumption DEF Init, TypeOK, Status, Tx
  <1>2. PendingIsOwn /\ TodoOK
    BY DEF Init, PendingIsOwn, TodoOK
  <1>3. LostOK
    <2> SUFFICES ASSUME NEW j \in Job PROVE Cardinality(Lost(j)) <= extra[j]
      BY DEF LostOK
    <2>1. Lost(j) = {}
      BY DEF Init, Lost, Pool, Free
    <2> QED BY <2>1, FS_EmptySet DEF Init
  <1> QED BY <1>1, <1>2, <1>3 DEF IInv

LEMMA NextOK == IInv /\ [Next]_vars => IInv'
  <1> SUFFICES ASSUME IInv, [Next]_vars PROVE IInv'
    OBVIOUS
  <1>1. CASE \E v \in Vault : OthersAct(v) \/ Elapse(v)
    BY <1>1, ChainSteps
  <1>2. CASE \E i \in Id : Mine(i) \/ Lose(i)
    BY <1>2, MempoolSteps
  <1>3. CASE \E j \in Job : Age(j)
    BY <1>3, AgeStep
  <1>4. CASE \E j \in Job : Follow(j)
    BY <1>4, ConfirmStep, BumpStep, RoundSteps DEF Follow
  <1>5. CASE \E v \in Vault : StartAuction(v) \/ SkipAuction(v) \/ Bid(v) \/ SkipBid(v)
    BY <1>5, SendingSteps, RoundSteps
  <1>6. CASE StartRound \/ UpdateVaults \/ CollectAuctions \/ EndRound \/ RoundFails
    BY <1>6, RoundSteps
  <1>7. CASE Restart
    BY <1>7, RestartStep
  <1>8. CASE UNCHANGED vars
    BY <1>8 DEF vars, chain, bot, IInv, TypeOK, PendingIsOwn, TodoOK, LostOK, Lost, Pool
  <1> QED BY <1>1, <1>2, <1>3, <1>4, <1>5, <1>6, <1>7, <1>8 DEF Next, BotStep

LEMMA Inductive == Spec => []IInv
  BY InitOK, NextOK, PTL DEF Spec

\* Every variable of the bot, the chain and the mempool has its type.
THEOREM LiquidatorTypes == Spec => []TypeOK
  BY Inductive, PTL DEF IInv

\* The hash that the bot remembers for a job is that of a transaction for this
\* job, whatever was replaced, lost, mined or refused in between: a receipt or a
\* bump never concerns another vault (remove_or_bump).
THEOREM RememberedIsOwn == Spec => []PendingIsOwn
  BY Inductive, PTL DEF IInv

\* The bot never has more transactions for a job in the mempool than one, and one
\* for each time that a bump or a restart lost track of one.
THEOREM MempoolIsNotFlooded == Spec => []NoFlood
  <1>1. IInv => NoFlood
    <2> SUFFICES ASSUME IInv, NEW j \in Job PROVE Cardinality(Pool(j)) <= 1 + extra[j]
      BY DEF NoFlood
    <2>1. Pool(j) \subseteq Lost(j) \cup {pending[j]}
      BY DEF Lost
    <2>2. IsFiniteSet(Lost(j))
      BY PoolIsFinite
    <2>3. /\ Cardinality(Pool(j)) \in Nat /\ Cardinality(Lost(j)) \in Nat
          /\ Cardinality(Pool(j)) <= Cardinality(Lost(j)) + 1
      BY <2>1, <2>2, OneMore
    <2>4. Cardinality(Lost(j)) <= extra[j] /\ extra[j] \in Int
      BY OfferAssumption DEF IInv, LostOK, TypeOK
    <2> QED BY <2>3, <2>4
  <1> QED BY <1>1, Inductive, PTL
=============================================================================
