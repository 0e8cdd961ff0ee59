--------------------------- MODULE FlashLoansProofs ---------------------------
(***************************************************************************)
(* Proofs about FlashLoans, for any series, funds, fees and bounds: the    *)
(* books balance in every state, within a transaction too.  The state that *)
(* a transaction started from has books that balance as well, which is     *)
(* why one that fails may be undone.  And a roll that is funded when it    *)
(* begins goes through: what it began with decides what each step finds.   *)
(***************************************************************************)
EXTENDS FlashLoans, TLAPS

Pcs == {"lend", "callback", "endPool", "startPool", "sell", "repay", "end"}

\* Books of a ledger r, with lentJ and lentL on loan from the Join and the lender
Balanced(r, lentJ, lentL) ==
  /\ r.base["join"] >= r.stored
  /\ r.base["lender"] + lentL >= Funds["lender"]
  /\ r.issued + r.earned = r.stored + lentJ + r.debt + r.thinAir
LedgerType ==
  [base : [Account -> Nat], stored : Nat, issued : Int, inPool : [Series -> Nat], held : Nat, debt : Nat,
   pool : Series \cup {NoSeries}, next : Series \cup {NoSeries}, thinAir : Nat, earned : Nat]
TxType ==
  [pc : Pcs, user : Users, series : Series, lender : Lenders, loan : Nat, loss : Nat, init : Nat]

Types ==
  /\ base \in [Account -> Nat] /\ stored \in Nat /\ issued \in Int /\ inPool \in [Series -> Nat]
  /\ held \in Nat /\ debt \in Nat
  /\ pool \in Series \cup {NoSeries} /\ next \in Series \cup {NoSeries}
  /\ thinAir \in Nat /\ earned \in Nat
  /\ matured \subseteq Series /\ share \in Nat \ {0}
Running ==
  /\ tx \in TxType /\ tx.loss <= tx.loan
  /\ tx.pc = "callback" => base[tx.user] >= tx.loan
  /\ tx.pc \in {"endPool", "startPool"} => next \in Series
  /\ tx.pc = "sell" /\ tx.user = "roller" => pool \in Series
  /\ tx.pc \in {"endPool", "startPool", "sell"} /\ tx.user = "roller" => held = tx.loan
  /\ before \in LedgerType /\ Balanced(before, 0, 0)
IInv ==
  /\ Types
  /\ Balanced(Ledger, Lent("join"), Lent("lender"))
  /\ tx = NoTx \/ Running

LEMMA Accounts ==
  /\ Users \cup Lenders \cup {"strategy", "owner"} \cup Series \subseteq Account
  /\ \A x \in Series : x \notin Users \cup Lenders \cup {"strategy", "owner"}
  BY SeriesAssumption DEF Account

LEMMA MoveMoves ==
  ASSUME NEW b \in [Account -> Nat], NEW from \in Account, NEW to \in Account, from # to,
         NEW n \in Nat, n <= b[from]
  PROVE  /\ Move(b, from, to, n) \in [Account -> Nat]
         /\ Move(b, from, to, n)[from] = b[from] - n /\ Move(b, from, to, n)[to] = b[to] + n
         /\ \A a \in Account \ {from, to} : Move(b, from, to, n)[a] = b[a]
  BY DEF Move

\* The rounded share of the pool is no more than there is
LEMMA ShareIsPart ==
  ASSUME NEW n \in Nat, NEW k \in Nat \ {0}
  PROVE  n \div k \in Nat /\ n \div k <= n
  OBVIOUS

\* Rounded up, the part that goes to the pool is still a part
LEMMA RoundedUpIsPart ==
  ASSUME NEW f \in Nat, NEW b \in Nat, NEW a \in Nat, b <= a, a > 0
  PROVE  (f * b + a - 1) \div a \in Nat /\ (f * b + a - 1) \div a <= f
  <1> DEFINE n == f * b + a - 1
             q == n \div a
  <1>1. n \in Nat
    <2>1. f * b \in Nat
      OBVIOUS
    <2> QED BY <2>1
  <1>2. f * b <= f * a
    OBVIOUS
  <1>3. n < (f + 1) * a
    <2>1. (f + 1) * a = f * a + a
      OBVIOUS
    <2>2. f * a \in Nat /\ f * b \in Nat
      OBVIOUS
    <2> QED BY <1>2, <2>1, <2>2
  <1>4. q \in Nat
    <2> HIDE DEF n
    <2> QED BY <1>1
  <1>5. q < f + 1
    <2> HIDE DEF n
    <2>1. q * a <= n
      BY <1>1
    <2>2. q * a < (f + 1) * a
      <3>1. q * a \in Nat /\ (f + 1) * a \in Nat
        BY <1>4
      <3> HIDE DEF q
      <3> QED BY <1>1, <1>3, <2>1, <3>1
    <2> HIDE DEF q
    <2>3. q >= f + 1 => q * a >= (f + 1) * a
      BY <1>4
    <2>4. q * a \in Nat /\ (f + 1) * a \in Nat
      BY <1>4
    <2> QED BY <1>4, <2>2, <2>3, <2>4
  <1> QED BY <1>4, <1>5

LEMMA InitHolds == ASSUME Init PROVE IInv
  <1>1. Types
    BY AmountAssumption DEF Init, Types
  <1>2. Balanced(Ledger, Lent("join"), Lent("lender"))
    <2>1. Lent("join") = 0 /\ Lent("lender") = 0
      BY DEF Init, Lent, Idle, NoTx
    <2>2. base["join"] \in Nat /\ base["lender"] \in Nat
      BY <1>1, Accounts DEF Types, Lenders
    <2> QED BY <2>1, <2>2 DEF Init, Balanced, Ledger
  <1> QED BY <1>1, <1>2 DEF IInv, Init

-----------------------------------------------------------------------------
(* The steps.                                                              *)

\* A transaction begins: its ledger is the state it starts from
LEMMA BeginHolds ==
  ASSUME IInv, NEW user \in Users, NEW x \in Series, NEW lender \in Lenders, NEW loan \in Nat,
         NEW loss \in Nat, NEW init \in Nat, loss <= loan, Begin(user, x, lender, loan, loss, init)
  PROVE  IInv'
  <1>1. Idle /\ UNCHANGED <<ledger, matured, share>> /\ before' = Ledger
        /\ tx' = [pc |-> "lend", user |-> user, series |-> x, lender |-> lender, loan |-> loan,
                  loss |-> loss, init |-> init]
    BY DEF Begin
  <1>2. Types'
    BY <1>1 DEF IInv, Types, ledger
  <1>3. /\ Lent("join") = 0 /\ Lent("lender") = 0
        /\ Lent("join")' = 0 /\ Lent("lender")' = 0
    BY <1>1 DEF Lent, Idle
  <1>4. Ledger' = Ledger
    BY <1>1 DEF Ledger, ledger
  <1>5. Balanced(Ledger, 0, 0)
    BY <1>3 DEF IInv
  <1>6. Balanced(Ledger, Lent("join"), Lent("lender"))'
    BY <1>3, <1>4, <1>5 DEF Balanced
  <1>7. Ledger \in LedgerType
    BY DEF IInv, Types, Ledger, LedgerType
  <1>8. Running'
    <2>1. tx' \in TxType /\ tx'.loss <= tx'.loan /\ tx'.pc = "lend"
      BY <1>1 DEF TxType, Pcs
    <2>2. before' \in LedgerType /\ Balanced(before', 0, 0)
      BY <1>1, <1>5, <1>7
    <2>3. Balanced(before, 0, 0)'
      BY <2>2 DEF Balanced
    <2> QED BY <2>1, <2>2, <2>3 DEF Running
  <1> QED BY <1>2, <1>6, <1>8 DEF IInv

LEMMA CallHolds == ASSUME IInv, Call PROVE IInv'
  <1>1. PICK loan \in 1..MaxLoan, loss \in 0..MaxLoss :
           \/ loss <= loan /\ \E x \in Series : Trade(x, loan, loss) \/ Restore(x, loan, loss)
           \/ \E lender \in Lenders, maxLoan \in {0, loan} : Roll(lender, maxLoan, loss)
    BY DEF Call
  <1>2. loan \in Nat /\ loss \in Nat
    BY AmountAssumption
  <1>3. ASSUME loss <= loan, NEW x \in Series, Trade(x, loan, loss) PROVE IInv'
    <2>1. base["trader"] \in Nat
      BY Accounts DEF IInv, Types, Users
    <2> QED BY <1>2, <1>3, <2>1, BeginHolds DEF Trade, Users, Lenders
  <1>4. ASSUME loss <= loan, NEW x \in Series, Restore(x, loan, loss) PROVE IInv'
    BY <1>2, <1>4, BeginHolds DEF Restore, Users, Lenders
  <1>5. ASSUME NEW lender \in Lenders, NEW maxLoan \in {0, loan}, Roll(lender, maxLoan, loss) PROVE IInv'
    <2>1. pool \in Series /\ inPool[pool] \in Nat
      BY <1>5 DEF Roll, IInv, Types
    <2> DEFINE taken == Smaller(maxLoan, inPool[pool])
               lost == Smaller(loss, taken)
    <2>2. taken \in Nat
      BY <1>2, <2>1 DEF Smaller
    <2>3. lost \in Nat /\ lost <= taken
      <3> HIDE DEF taken
      <3> QED BY <1>2, <2>2 DEF Smaller
    <2>4. Begin("roller", pool, lender, taken, lost, 1)
      BY <1>5 DEF Roll
    <2> HIDE DEF taken, lost
    <2> QED BY <2>1, <2>2, <2>3, <2>4, BeginHolds DEF Users
  <1> QED BY <1>1, <1>3, <1>4, <1>5

\* What a step within a transaction finds, and what remains to be shown of it
LEMMA WithinATx ==
  ASSUME IInv, ~Idle
  PROVE  /\ Running
         /\ tx.user \in Account /\ tx.lender \in Account /\ tx.series \in Account
         /\ tx.user # tx.lender /\ tx.user # tx.series /\ tx.user # "join" /\ tx.user # "lender"
         /\ tx.series # "join" /\ tx.series # "lender" /\ tx.series # "strategy"
  BY Accounts DEF IInv, Running, TxType, Idle, NoTx, Users, Lenders

LEMMA GoesOn ==
  ASSUME IInv, ~Idle, NEW pc \in Pcs, Goes(pc), Within,
         pc = "callback" => base'[tx.user] >= tx.loan,
         pc \in {"endPool", "startPool"} => next' \in Series,
         pc = "sell" /\ tx.user = "roller" => pool' \in Series,
         pc \in {"endPool", "startPool", "sell"} /\ tx.user = "roller" => held' = tx.loan
  PROVE  Running' /\ tx'.lender = tx.lender /\ tx'.loan = tx.loan /\ tx'.pc = pc
  <1>1. tx \in TxType /\ Running
    BY WithinATx DEF Running
  <1>2. tx' \in TxType /\ tx' = [tx EXCEPT !.pc = pc]
    BY <1>1 DEF Goes, TxType
  <1>3. tx'.lender = tx.lender /\ tx'.loan = tx.loan /\ tx'.loss = tx.loss /\ tx'.user = tx.user /\ tx'.pc = pc
    BY <1>1, <1>2 DEF TxType
  <1>4. before' \in LedgerType /\ Balanced(before, 0, 0)'
    BY <1>1 DEF Running, Within, Balanced
  <1> QED BY <1>1, <1>2, <1>3, <1>4 DEF Running

\* The loan is out from the callback to the repayment
LEMMA LentWithin ==
  ASSUME IInv, ~Idle, NEW lender
  PROVE  /\ Lent(lender) = IF tx.pc \notin {"lend", "end"} /\ tx.lender = lender THEN tx.loan ELSE 0
         /\ tx'.pc \in Pcs => Lent(lender)' = IF tx'.pc \notin {"lend", "end"} /\ tx'.lender = lender
                                            THEN tx'.loan ELSE 0
  BY DEF Lent, Idle, Pcs

LEMMA LendHolds == ASSUME IInv, Lend PROVE IInv'
  <1>1. /\ ~Idle /\ tx.pc = "lend" /\ base[tx.lender] >= tx.loan
        /\ tx.lender = "join" => stored >= tx.loan
        /\ base' = Move(base, tx.lender, tx.user, tx.loan)
        /\ stored' = IF tx.lender = "join" THEN stored - tx.loan ELSE stored
        /\ UNCHANGED <<issued, inPool, held, pool, next, thinAir, earned>>
    BY DEF Lend, Idle, CanLend
  <1>2. Running /\ tx.loan \in Nat /\ tx.lender \in Lenders
    BY <1>1, WithinATx DEF Running, TxType
  <1>4. /\ base' \in [Account -> Nat]
        /\ base'[tx.lender] = base[tx.lender] - tx.loan
        /\ base'[tx.user] = base[tx.user] + tx.loan
        /\ \A a \in Lenders : a # tx.lender => base'[a] = base[a]
    BY <1>1, <1>2, WithinATx, MoveMoves, Accounts DEF IInv, Types, Lenders
  <1>3. Running' /\ tx'.lender = tx.lender /\ tx'.loan = tx.loan /\ tx'.pc = "callback"
    <2>1. base[tx.user] \in Nat
      BY <1>1, WithinATx DEF IInv, Types
    <2> QED BY <1>1, <1>2, <1>4, <2>1, GoesOn DEF Lend, Pcs
  <1>5. Types'
    BY <1>1, <1>2, <1>4 DEF Lend, Within, IInv, Types
  <1>6. /\ Lent("join") = 0 /\ Lent("lender") = 0
        /\ Lent("join")' = IF tx.lender = "join" THEN tx.loan ELSE 0
        /\ Lent("lender")' = IF tx.lender = "lender" THEN tx.loan ELSE 0
    BY <1>1, <1>3, LentWithin DEF Pcs
  <1>7. Balanced(Ledger, Lent("join"), Lent("lender"))'
    <2>2. base["join"] \in Nat /\ base["lender"] \in Nat /\ Funds["lender"] \in Nat
      BY Accounts, AmountAssumption DEF IInv, Types, Lenders
    <2>1. /\ base["join"] >= stored /\ base["lender"] >= Funds["lender"]
          /\ issued + earned = stored + debt + thinAir
      <3>1. Balanced(Ledger, 0, 0)
        BY <1>6 DEF IInv
      <3> QED BY <2>2, <3>1 DEF IInv, Balanced, Ledger, Types
    <2>3. CASE tx.lender = "join"
      BY <1>1, <1>2, <1>4, <1>6, <2>1, <2>2, <2>3 DEF Balanced, Ledger, Lend, Within, IInv, Types, Lenders
    <2>4. CASE tx.lender = "lender"
      BY <1>1, <1>2, <1>4, <1>6, <2>1, <2>2, <2>4 DEF Balanced, Ledger, Lend, Within, IInv, Types, Lenders
    <2> QED BY <1>2, <2>3, <2>4 DEF Lenders
  <1> QED BY <1>3, <1>5, <1>7 DEF IInv

\* Within the transaction the loan stays out: what is left to show is the books
LEMMA MiddleHolds ==
  ASSUME IInv, ~Idle, tx.pc \notin {"lend", "end"}, Running', Types',
         tx'.lender = tx.lender, tx'.loan = tx.loan, tx'.pc \in Pcs \ {"lend", "end"},
         base'["join"] - base["join"] >= stored' - stored,
         base'["lender"] = base["lender"],
         issued' + earned' - stored' - debt' - thinAir' = issued + earned - stored - debt - thinAir
  PROVE  IInv'
  <1>1. Lent("join")' = Lent("join") /\ Lent("lender")' = Lent("lender")
    BY LentWithin
  <1>2. /\ base["join"] \in Nat /\ base["lender"] \in Nat /\ base'["join"] \in Nat
        /\ base'["lender"] \in Nat /\ Funds["lender"] \in Nat
    BY Accounts, AmountAssumption DEF IInv, Types, Lenders
  <1>3. Lent("join") \in Nat /\ Lent("lender") \in Nat
    BY LentWithin, WithinATx DEF Running, TxType
  <1>4. /\ base["join"] >= stored /\ base["lender"] + Lent("lender") >= Funds["lender"]
        /\ issued + earned = stored + Lent("join") + debt + thinAir
    BY DEF IInv, Balanced, Ledger
  <1>5. /\ base'["join"] >= stored' /\ base'["lender"] + Lent("lender") >= Funds["lender"]
        /\ issued' + earned' = stored' + Lent("join") + debt' + thinAir'
    BY <1>2, <1>3, <1>4 DEF IInv, Types
  <1>6. Balanced(Ledger, Lent("join"), Lent("lender"))'
    BY <1>1, <1>5 DEF Balanced, Ledger
  <1> QED BY <1>6 DEF IInv

\* What the user pays goes elsewhere, and every account keeps a natural number
LEMMA UserPays ==
  ASSUME IInv, ~Idle, NEW to \in Account, to # tx.user, NEW n \in Nat, n <= base[tx.user],
         base' = Move(base, tx.user, to, n)
  PROVE  /\ base' \in [Account -> Nat] /\ base'[to] = base[to] + n
         /\ \A a \in Account \ {tx.user, to} : base'[a] = base[a]
  BY WithinATx, MoveMoves DEF IInv, Types

LEMMA MintToSellHolds == ASSUME IInv, MintToSell PROVE IInv'
  <1>1. /\ ~Idle /\ tx.pc = "callback" /\ tx.user = "trader"
        /\ base' = Move(base, tx.user, "join", tx.loan)
        /\ stored' = stored + tx.loan /\ issued' = issued + tx.loan
        /\ inPool' = [inPool EXCEPT ![tx.series] = @ + tx.loan]
        /\ UNCHANGED <<held, pool, next, thinAir, earned>> /\ Goes("sell") /\ Within
    BY DEF MintToSell, At, Idle, MintWithUnderlying
  <1>2. Running /\ tx \in TxType /\ tx.loan \in Nat /\ tx.series \in Series
    BY <1>1, WithinATx DEF Running, TxType
  <1>3. /\ base' \in [Account -> Nat] /\ base'["join"] = base["join"] + tx.loan /\ base'["lender"] = base["lender"]
        /\ base["join"] \in Nat /\ base["lender"] \in Nat
    BY <1>1, <1>2, UserPays, WithinATx, Accounts DEF Running, Lenders, IInv, Types
  <1>4. Running' /\ tx'.lender = tx.lender /\ tx'.loan = tx.loan /\ tx'.pc = "sell"
    BY <1>1, GoesOn DEF Pcs
  <1>5. Types'
    BY <1>1, <1>2, <1>3 DEF Within, IInv, Types
  <1>6. issued' + earned' - stored' - debt' - thinAir' = issued + earned - stored - debt - thinAir
    BY <1>1, <1>2 DEF Within, IInv, Types
  <1>7. base'["join"] - base["join"] >= stored' - stored
    BY <1>1, <1>2, <1>3 DEF IInv, Types
  <1> QED BY <1>1, <1>3, <1>4, <1>5, <1>6, <1>7, MiddleHolds DEF Pcs

LEMMA SellHolds == ASSUME IInv, Sell PROVE IInv'
  <1>1. /\ ~Idle /\ tx.pc = "sell" /\ tx.user = "trader" /\ base[tx.series] >= tx.loan - tx.loss
        /\ base' = Move(base, tx.series, tx.user, tx.loan - tx.loss)
        /\ UNCHANGED <<stored, issued, inPool, held, pool, next, thinAir, earned>> /\ Goes("repay") /\ Within
    BY DEF Sell, At, Idle, CanSell
  <1>2. tx \in TxType /\ tx.loan - tx.loss \in Nat
    BY <1>1, WithinATx DEF Running, TxType
  <1>3. /\ base' \in [Account -> Nat] /\ base'["join"] = base["join"] /\ base'["lender"] = base["lender"]
        /\ base["join"] \in Nat /\ base["lender"] \in Nat
    <2>1. base \in [Account -> Nat] /\ "join" \in Account /\ "lender" \in Account
      BY Accounts DEF IInv, Types, Lenders
    <2>2. /\ tx.series \in Account /\ tx.user \in Account /\ tx.series # tx.user
          /\ tx.series \notin {"join", "lender"} /\ tx.user \notin {"join", "lender"}
      BY <1>1, WithinATx
    <2> QED BY <1>1, <1>2, <2>1, <2>2 DEF Move
  <1>4. Running' /\ tx'.lender = tx.lender /\ tx'.loan = tx.loan /\ tx'.pc = "repay"
    BY <1>1, GoesOn DEF Pcs
  <1>5. Types'
    BY <1>1, <1>3 DEF Within, IInv, Types
  <1>6. issued' + earned' - stored' - debt' - thinAir' = issued + earned - stored - debt - thinAir
    BY <1>1 DEF Within
  <1>7. base'["join"] - base["join"] >= stored' - stored
    BY <1>1, <1>3 DEF IInv, Types
  <1> QED BY <1>1, <1>3, <1>4, <1>5, <1>6, <1>7, MiddleHolds DEF Pcs

LEMMA FundJoinHolds == ASSUME IInv, FundJoin PROVE IInv'
  <1>1. /\ ~Idle /\ tx.pc = "callback" /\ tx.user = "roller" /\ next # NoSeries
        /\ base' = Move(base, tx.user, "join", tx.loan)
        /\ stored' = stored + tx.loan /\ issued' = issued + tx.loan /\ held' = tx.loan
        /\ UNCHANGED <<inPool, pool, next, thinAir, earned>> /\ Goes("endPool") /\ Within
    BY DEF FundJoin, At, Idle, MintWithUnderlying, CanFundJoin
  <1>2. Running /\ tx \in TxType /\ tx.loan \in Nat /\ next \in Series
    BY <1>1, WithinATx DEF Running, TxType, IInv, Types
  <1>3. /\ base' \in [Account -> Nat] /\ base'["join"] = base["join"] + tx.loan /\ base'["lender"] = base["lender"]
        /\ base["join"] \in Nat /\ base["lender"] \in Nat
    BY <1>1, <1>2, UserPays, WithinATx, Accounts DEF Running, Lenders, IInv, Types
  <1>4. Running' /\ tx'.lender = tx.lender /\ tx'.loan = tx.loan /\ tx'.pc = "endPool"
    BY <1>1, <1>2, GoesOn DEF Pcs
  <1>5. Types'
    BY <1>1, <1>2, <1>3 DEF Within, IInv, Types
  <1>6. issued' + earned' - stored' - debt' - thinAir' = issued + earned - stored - debt - thinAir
    BY <1>1, <1>2 DEF Within, IInv, Types
  <1>7. base'["join"] - base["join"] >= stored' - stored
    BY <1>1, <1>2, <1>3 DEF IInv, Types
  <1> QED BY <1>1, <1>3, <1>4, <1>5, <1>6, <1>7, MiddleHolds DEF Pcs

\* Of the fyToken and base of the old pool, the strategy gets its share
LEMMA EndPoolHolds == ASSUME IInv, EndPool PROVE IInv'
  <1> DEFINE divested == inPool[tx.series] \div share
             fromPool == base[tx.series] \div share
  <1>1. /\ ~Idle /\ tx.pc = "endPool" /\ tx.user = "roller"
        /\ stored >= divested /\ base["join"] >= divested
        /\ base' = [base EXCEPT !["join"] = @ - divested, ![tx.series] = @ - fromPool,
                                !["strategy"] = @ + divested + fromPool]
        /\ stored' = stored - divested /\ issued' = issued - divested
        /\ inPool' = [inPool EXCEPT ![tx.series] = @ - divested] /\ pool' = NoSeries
        /\ UNCHANGED <<held, next, thinAir, earned>> /\ Goes("startPool") /\ Within
    BY DEF EndPool, At, Idle, CanEndPool, Divested
  <1>2. Running /\ tx \in TxType /\ tx.series \in Series /\ next \in Series
    BY <1>1, WithinATx DEF Running, TxType
  <1>3. /\ base \in [Account -> Nat] /\ inPool \in [Series -> Nat] /\ share \in Nat \ {0}
        /\ "join" \in Account /\ "lender" \in Account /\ "strategy" \in Account
    BY Accounts DEF IInv, Types, Lenders
  <1>4. /\ divested \in Nat /\ divested <= inPool[tx.series]
        /\ fromPool \in Nat /\ fromPool <= base[tx.series]
    BY <1>1, <1>2, <1>3, ShareIsPart, WithinATx
  <1> HIDE DEF divested, fromPool
  <1>5. /\ base' \in [Account -> Nat]
        /\ base'["join"] = base["join"] - divested /\ base'["lender"] = base["lender"]
    <2>1. tx.series \in Account /\ tx.series \notin {"join", "lender", "strategy"}
      BY <1>1, WithinATx
    <2> QED BY <1>1, <1>3, <1>4, <2>1
  <1>6. Running' /\ tx'.lender = tx.lender /\ tx'.loan = tx.loan /\ tx'.pc = "startPool"
    <2>1. held' = tx.loan /\ next' \in Series
      BY <1>1, <1>2 DEF Running
    <2> QED BY <1>1, <2>1, GoesOn DEF Pcs
  <1>7. inPool' \in [Series -> Nat]
    BY <1>1, <1>2, <1>3, <1>4
  <1>8. Types'
    BY <1>1, <1>4, <1>5, <1>7 DEF Within, IInv, Types
  <1>9. issued' + earned' - stored' - debt' - thinAir' = issued + earned - stored - debt - thinAir
    BY <1>1, <1>4 DEF Within, IInv, Types
  <1>10. base'["join"] - base["join"] >= stored' - stored
    BY <1>1, <1>3, <1>4, <1>5 DEF IInv, Types
  <1> QED BY <1>1, <1>5, <1>6, <1>8, <1>9, <1>10, MiddleHolds DEF Pcs

\* Of its base, a part goes to the next pool and the rest is stored
LEMMA StartPoolHolds == ASSUME IInv, StartPool PROVE IInv'
  <1> DEFINE funds == base["strategy"]
             toPool == BaseToPool(next, funds)
             minted == funds - toPool
  <1>1. /\ ~Idle /\ tx.pc = "startPool" /\ tx.user = "roller" /\ base[next] + inPool[next] > 0
        /\ base' = [base EXCEPT !["strategy"] = 0, !["join"] = @ + minted, ![next] = @ + toPool]
        /\ stored' = stored + minted /\ issued' = issued + minted
        /\ inPool' = [inPool EXCEPT ![next] = @ + minted] /\ pool' = next /\ next' = NoSeries
        /\ UNCHANGED <<held, thinAir, earned>> /\ Goes("sell") /\ Within
    BY DEF StartPool, At, Idle, CanStartPool
  <1>2. Running /\ tx \in TxType /\ next \in Series
    BY <1>1, WithinATx DEF Running
  <1>3. /\ base \in [Account -> Nat] /\ inPool \in [Series -> Nat]
        /\ "join" \in Account /\ "lender" \in Account /\ "strategy" \in Account
        /\ next \in Account /\ next \notin {"join", "lender", "strategy"}
    BY <1>2, Accounts DEF IInv, Types, Lenders
  <1>4. funds \in Nat /\ toPool \in Nat /\ minted \in Nat
    <2>1. funds \in Nat /\ base[next] \in Nat /\ inPool[next] \in Nat
      BY <1>2, <1>3
    <2>2. toPool \in Nat /\ toPool <= funds
      <3>1. base[next] + inPool[next] \in Nat /\ base[next] <= base[next] + inPool[next]
        BY <2>1
      <3> HIDE DEF funds
      <3> QED BY <1>1, <2>1, <3>1, RoundedUpIsPart DEF BaseToPool
    <2> HIDE DEF funds, toPool
    <2> QED BY <2>1, <2>2
  <1> HIDE DEF funds, toPool, minted
  <1>5. /\ base' \in [Account -> Nat]
        /\ base'["join"] = base["join"] + minted /\ base'["lender"] = base["lender"]
    BY <1>1, <1>3, <1>4
  <1>6. Running' /\ tx'.lender = tx.lender /\ tx'.loan = tx.loan /\ tx'.pc = "sell"
    <2>1. held' = tx.loan /\ pool' \in Series
      BY <1>1, <1>2 DEF Running
    <2> QED BY <1>1, <2>1, GoesOn DEF Pcs
  <1>7. inPool' \in [Series -> Nat]
    BY <1>1, <1>2, <1>3, <1>4
  <1>8. Types'
    BY <1>1, <1>2, <1>4, <1>5, <1>7 DEF Within, IInv, Types
  <1>9. issued' + earned' - stored' - debt' - thinAir' = issued + earned - stored - debt - thinAir
    BY <1>1, <1>4 DEF Within, IInv, Types
  <1>10. base'["join"] - base["join"] >= stored' - stored
    BY <1>1, <1>3, <1>4, <1>5 DEF IInv, Types
  <1> QED BY <1>1, <1>5, <1>6, <1>8, <1>9, <1>10, MiddleHolds DEF Pcs

LEMMA SellHeldHolds == ASSUME IInv, SellHeld PROVE IInv'
  <1>1. /\ ~Idle /\ tx.pc = "sell" /\ tx.user = "roller" /\ base[pool] >= held - tx.loss
        /\ base' = IF held = 0 THEN base ELSE Move(base, pool, "roller", held - tx.loss)
        /\ inPool' = [inPool EXCEPT ![pool] = @ + held] /\ held' = 0
        /\ UNCHANGED <<stored, issued, pool, next, thinAir, earned>> /\ Goes("repay") /\ Within
    BY DEF SellHeld, At, Idle, CanSellHeld
  <1>2. Running /\ tx \in TxType /\ pool \in Series /\ held = tx.loan /\ held - tx.loss \in Nat
    BY <1>1, WithinATx DEF Running, TxType
  <1>3. /\ base' \in [Account -> Nat] /\ base'["join"] = base["join"] /\ base'["lender"] = base["lender"]
        /\ base["join"] \in Nat /\ base["lender"] \in Nat
    <2>1. base \in [Account -> Nat] /\ "join" \in Account /\ "lender" \in Account /\ "roller" \in Account
      BY Accounts DEF IInv, Types, Lenders, Users
    <2>2. pool \in Account /\ pool \notin {"join", "lender", "roller"}
      BY <1>2, Accounts DEF Lenders, Users
    <2>3. CASE held = 0
      BY <1>1, <2>1, <2>3
    <2>4. CASE held # 0
      BY <1>1, <1>2, <2>1, <2>2, <2>4 DEF Move
    <2> QED BY <2>3, <2>4
  <1>4. Running' /\ tx'.lender = tx.lender /\ tx'.loan = tx.loan /\ tx'.pc = "repay"
    BY <1>1, GoesOn DEF Pcs
  <1>5. Types'
    BY <1>1, <1>2, <1>3 DEF Within, IInv, Types
  <1>6. issued' + earned' - stored' - debt' - thinAir' = issued + earned - stored - debt - thinAir
    BY <1>1 DEF Within
  <1>7. base'["join"] - base["join"] >= stored' - stored
    BY <1>1, <1>3 DEF IInv, Types
  <1> QED BY <1>1, <1>3, <1>4, <1>5, <1>6, <1>7, MiddleHolds DEF Pcs

LEMMA BuyBackHolds == ASSUME IInv, BuyBack PROVE IInv'
  <1>1. /\ ~Idle /\ tx.pc = "callback"
        /\ issued' = issued + tx.loan + tx.loss /\ thinAir' = thinAir + tx.loan + tx.loss
        /\ inPool' = [inPool EXCEPT ![tx.series] = @ + tx.loan + tx.loss]
        /\ UNCHANGED <<base, stored, held, pool, next, earned>> /\ Goes("repay") /\ Within
    BY DEF BuyBack, At, Idle
  <1>2. Running /\ tx \in TxType /\ tx.loan \in Nat /\ tx.loss \in Nat /\ tx.series \in Series
    BY <1>1, WithinATx DEF Running, TxType
  <1>3. Running' /\ tx'.lender = tx.lender /\ tx'.loan = tx.loan /\ tx'.pc = "repay"
    BY <1>1, GoesOn DEF Pcs
  <1>4. base["join"] \in Nat
    BY Accounts DEF IInv, Types, Lenders
  <1>5. Types'
    BY <1>1, <1>2 DEF Within, IInv, Types
  <1>6. issued' + earned' - stored' - debt' - thinAir' = issued + earned - stored - debt - thinAir
    BY <1>1, <1>2 DEF Within, IInv, Types
  <1> QED BY <1>1, <1>3, <1>4, <1>5, <1>6, MiddleHolds DEF Pcs, IInv, Types

\* What Join.join takes from the payer makes up for what it has not stored
LEMMA PullPays ==
  ASSUME Types, base["join"] >= stored, NEW n \in Nat
  PROVE  Pull(n) \in Nat /\ Pull(n) <= n /\ base["join"] + Pull(n) >= stored + n
  <1>1. base["join"] \in Nat /\ stored \in Nat
    BY Accounts DEF Types, Lenders
  <1> QED BY <1>1 DEF Pull, Smaller, Unstored

LEMMA PlusZero == \A n \in Nat : n + 0 = n
  OBVIOUS

\* The loan comes back, and a Join earns its fee
LEMMA RepayHolds == ASSUME IInv, Repay PROVE IInv'
  <1>1. /\ ~Idle /\ tx.pc = "repay" /\ base[tx.user] >= Taken
        /\ base' = Move(base, tx.user, tx.lender, Taken)
        /\ IF tx.lender = "join"
           THEN stored' = stored + Owed /\ earned' = earned + (Owed - tx.loan)
           ELSE UNCHANGED <<stored, earned>>
        /\ UNCHANGED <<issued, inPool, held, pool, next, thinAir>> /\ Goes("end") /\ Within
    BY DEF Repay, Idle, CanRepay
  <1>2. Running /\ tx \in TxType /\ tx.loan \in Nat /\ tx.lender \in Lenders
    BY <1>1, WithinATx DEF Running, TxType
  <1>3. Owed \in Nat /\ Owed >= tx.loan
    BY <1>2, AmountAssumption DEF Owed
  <1>4. /\ base["join"] \in Nat /\ base["lender"] \in Nat /\ Funds["lender"] \in Nat
    BY Accounts, AmountAssumption DEF IInv, Types, Lenders
  <1>5. /\ Lent("join") = IF tx.lender = "join" THEN tx.loan ELSE 0
        /\ Lent("lender") = IF tx.lender = "lender" THEN tx.loan ELSE 0
    BY <1>1, LentWithin
  <1>6. /\ base["join"] >= stored /\ base["lender"] + Lent("lender") >= Funds["lender"]
        /\ issued + earned = stored + Lent("join") + debt + thinAir
    BY DEF IInv, Balanced, Ledger
  <1>7. /\ Taken \in Nat
        /\ tx.lender = "join" => base["join"] + Taken >= stored + Owed
        /\ tx.lender = "lender" => Taken = Owed
    BY <1>3, <1>6, PullPays DEF Taken, IInv
  <1>8. /\ base' \in [Account -> Nat] /\ base'[tx.lender] = base[tx.lender] + Taken
        /\ \A a \in Lenders : a # tx.lender => base'[a] = base[a]
    BY <1>1, <1>2, <1>7, UserPays, WithinATx, Accounts DEF Lenders
  <1>9. Running' /\ tx'.lender = tx.lender /\ tx'.loan = tx.loan /\ tx'.pc = "end"
    BY <1>1, GoesOn DEF Pcs
  <1>10. Types'
    BY <1>1, <1>2, <1>3, <1>8 DEF Within, IInv, Types
  <1>11. Lent("join")' = 0 /\ Lent("lender")' = 0
    BY <1>1, <1>9, LentWithin DEF Pcs
  <1>12. /\ base'["join"] >= stored' /\ base'["lender"] >= Funds["lender"]
         /\ issued' + earned' = stored' + debt' + thinAir'
    <2>1. CASE tx.lender = "join"
      BY <1>1, <1>2, <1>3, <1>4, <1>5, <1>6, <1>7, <1>8, <2>1 DEF Within, IInv, Types, Lenders
    <2>2. CASE tx.lender = "lender"
      BY <1>1, <1>2, <1>3, <1>4, <1>5, <1>6, <1>7, <1>8, <2>2 DEF Within, IInv, Types, Lenders
    <2> QED BY <1>2, <2>1, <2>2 DEF Lenders
  <1>13. Balanced(Ledger, Lent("join"), Lent("lender"))'
    <2>1. /\ base'["lender"] \in Nat /\ stored' \in Nat
      BY <1>10, Accounts DEF Types, Lenders
    <2>2. base'["lender"] + 0 = base'["lender"] /\ stored' + 0 = stored'
      BY <2>1, PlusZero, Zenon
    <2> QED BY <1>11, <1>12, <2>2 DEF Balanced, Ledger
  <1> QED BY <1>9, <1>10, <1>13 DEF IInv

\* Between transactions, what the Join and the lender hold is all that counts
LEMMA IdleHolds ==
  ASSUME IInv, Types', tx' = NoTx,
         base'["join"] >= stored', base'["lender"] >= Funds["lender"],
         issued' + earned' = stored' + debt' + thinAir'
  PROVE  IInv'
  <1>1. Lent("join")' = 0 /\ Lent("lender")' = 0
    BY DEF Lent, Idle, NoTx
  <1>2. base'["lender"] \in Nat /\ stored' \in Nat
    BY Accounts DEF Types, Lenders
  <1>3. base'["lender"] + 0 = base'["lender"] /\ stored' + 0 = stored'
    BY <1>2, PlusZero, Zenon
  <1>4. Balanced(Ledger, Lent("join"), Lent("lender"))'
    BY <1>1, <1>3 DEF Balanced, Ledger
  <1> QED BY <1>4 DEF IInv

LEMMA NothingLent ==
  ASSUME IInv, Idle \/ tx.pc = "end"
  PROVE  /\ base["join"] >= stored /\ base["lender"] >= Funds["lender"]
         /\ issued + earned = stored + debt + thinAir
         /\ base["join"] \in Nat /\ base["lender"] \in Nat
  <1>1. Lent("join") = 0 /\ Lent("lender") = 0
    BY DEF Lent
  <1>2. base["join"] \in Nat /\ base["lender"] \in Nat
    BY Accounts DEF IInv, Types, Lenders
  <1> QED BY <1>1, <1>2 DEF IInv, Balanced, Ledger, Types

LEMMA EndHolds == ASSUME IInv, End PROVE IInv'
  <1>1. /\ tx.pc = "end" /\ tx' = NoTx
        /\ base' = IF tx.user = "roller" THEN Move(base, "roller", "owner", base["roller"]) ELSE base
        /\ UNCHANGED <<stored, issued, inPool, held, pool, next, thinAir, earned, debt, matured, share>>
    BY DEF End
  <1>2. base' \in [Account -> Nat] /\ base'["join"] = base["join"] /\ base'["lender"] = base["lender"]
    <2>1. /\ base \in [Account -> Nat] /\ "roller" \in Account /\ "owner" \in Account
          /\ "join" \in Account /\ "lender" \in Account
      BY Accounts DEF IInv, Types, Lenders, Users
    <2> QED BY <1>1, <2>1 DEF Move
  <1>3. Types'
    BY <1>1, <1>2 DEF IInv, Types
  <1>4. /\ base'["join"] >= stored' /\ base'["lender"] >= Funds["lender"]
        /\ issued' + earned' = stored' + debt' + thinAir'
    BY <1>1, <1>2, NothingLent
  <1> QED BY <1>1, <1>3, <1>4, IdleHolds

\* The state that the transaction started from is one whose books balance
LEMMA RevertHolds == ASSUME IInv, Revert PROVE IInv'
  <1>1. /\ ~Idle /\ tx' = NoTx
        /\ base' = before.base /\ stored' = before.stored /\ issued' = before.issued
        /\ inPool' = before.inPool /\ held' = before.held /\ debt' = before.debt
        /\ pool' = before.pool /\ next' = before.next
        /\ thinAir' = before.thinAir /\ earned' = before.earned
        /\ UNCHANGED <<matured, share>>
    BY DEF Revert
  <1>2. before \in LedgerType /\ Balanced(before, 0, 0)
    BY <1>1, WithinATx DEF Running
  <1>3. /\ before.base \in [Account -> Nat] /\ before.stored \in Nat /\ before.issued \in Int
        /\ before.inPool \in [Series -> Nat] /\ before.held \in Nat /\ before.debt \in Nat
        /\ before.pool \in Series \cup {NoSeries} /\ before.next \in Series \cup {NoSeries}
        /\ before.thinAir \in Nat /\ before.earned \in Nat
    BY <1>2 DEF LedgerType
  <1>4. Types'
    BY <1>1, <1>3 DEF IInv, Types
  <1>5. /\ base'["join"] >= stored' /\ base'["lender"] >= Funds["lender"]
        /\ issued' + earned' = stored' + debt' + thinAir'
    <2>1. before.base["lender"] \in Nat /\ Funds["lender"] \in Nat
      BY <1>3, Accounts, AmountAssumption DEF Lenders
    <2> QED BY <1>1, <1>2, <1>3, <2>1 DEF Balanced
  <1> QED BY <1>1, <1>4, <1>5, IdleHolds

-----------------------------------------------------------------------------
(* Users, governance and time: no transaction runs.                        *)

LEMMA NoTxRuns == ASSUME IInv, Idle PROVE tx = NoTx
  BY DEF IInv, Running, TxType, Pcs, Idle

LEMMA OthersHold ==
  ASSUME IInv, Idle, UNCHANGED tx, NEW from \in Account \ {"join", "lender"}, NEW to \in Account \ {"lender"},
         from # to, NEW n \in Nat, n <= base[from], base' = Move(base, from, to, n),
         stored' = stored, UNCHANGED <<issued, inPool, held, debt, pool, next, thinAir, earned, matured, share>>
  PROVE  IInv'
  <1>1. /\ base' \in [Account -> Nat] /\ base'["lender"] = base["lender"] /\ base'["join"] >= base["join"]
    <2>1. base \in [Account -> Nat] /\ "join" \in Account /\ "lender" \in Account
      BY Accounts DEF IInv, Types, Lenders
    <2>2. base["join"] \in Nat
      BY <2>1
    <2> QED BY <2>1, <2>2 DEF Move
  <1>2. Types'
    BY <1>1 DEF IInv, Types
  <1>3. base'["join"] >= stored' /\ base'["lender"] >= Funds["lender"]
        /\ issued' + earned' = stored' + debt' + thinAir'
    <2>1. base'["join"] \in Nat
      BY <1>1, Accounts DEF Lenders
    <2> QED BY <1>1, <2>1, NothingLent DEF IInv, Types
  <1> QED BY <1>2, <1>3, IdleHolds, NoTxRuns

LEMMA BorrowHolds == ASSUME IInv, NEW x \in Series, Borrow(x) PROVE IInv'
  <1>1. /\ Idle /\ UNCHANGED tx /\ base[x] > 0 /\ debt' = debt + 1 /\ issued' = issued + 1
        /\ inPool' = [inPool EXCEPT ![x] = @ + 1] /\ base' = Move(base, x, "owner", 1)
        /\ UNCHANGED <<stored, held, pool, next, thinAir, earned, matured, share>>
    BY DEF Borrow
  <1>2. base' \in [Account -> Nat] /\ base'["join"] = base["join"] /\ base'["lender"] = base["lender"]
    <2>1. /\ base \in [Account -> Nat] /\ "owner" \in Account
          /\ "join" \in Account /\ "lender" \in Account
      BY Accounts DEF IInv, Types, Lenders
    <2>2. x \in Account /\ x \notin {"join", "lender", "owner"}
      BY Accounts DEF Lenders
    <2> QED BY <1>1, <2>1, <2>2 DEF Move
  <1>3. Types'
    BY <1>1, <1>2 DEF IInv, Types
  <1>4. /\ base'["join"] >= stored' /\ base'["lender"] >= Funds["lender"]
        /\ issued' + earned' = stored' + debt' + thinAir'
    BY <1>1, <1>2, NothingLent DEF IInv, Types
  <1> QED BY <1>1, <1>3, <1>4, IdleHolds, NoTxRuns

LEMMA RepayDebtHolds == ASSUME IInv, RepayDebt PROVE IInv'
  <1>1. /\ Idle /\ UNCHANGED tx /\ debt > 0 /\ base["owner"] > 0 /\ debt' = debt - 1
        /\ base' = Move(base, "owner", "join", Pull(1)) /\ stored' = stored + 1
        /\ UNCHANGED <<issued, inPool, held, pool, next, thinAir, earned, matured, share>>
    BY DEF RepayDebt
  <1>2. /\ base["join"] >= stored /\ base["lender"] >= Funds["lender"]
        /\ issued + earned = stored + debt + thinAir
        /\ base["join"] \in Nat /\ base["lender"] \in Nat
    BY <1>1, NothingLent
  <1>3. Pull(1) \in Nat /\ Pull(1) <= 1 /\ base["join"] + Pull(1) >= stored + 1
    BY <1>2, PullPays DEF IInv
  <1>4. /\ base' \in [Account -> Nat] /\ base'["join"] = base["join"] + Pull(1)
        /\ base'["lender"] = base["lender"]
    <2>1. /\ base \in [Account -> Nat] /\ "owner" \in Account
          /\ "join" \in Account /\ "lender" \in Account
      BY Accounts DEF IInv, Types, Lenders
    <2> QED BY <1>1, <1>3, <2>1 DEF Move
  <1>5. Types'
    BY <1>1, <1>4 DEF IInv, Types
  <1>6. /\ base'["join"] >= stored' /\ base'["lender"] >= Funds["lender"]
        /\ issued' + earned' = stored' + debt' + thinAir'
    BY <1>1, <1>2, <1>3, <1>4 DEF IInv, Types
  <1> QED BY <1>1, <1>5, <1>6, IdleHolds, NoTxRuns

LEMMA FundsHold ==
  ASSUME IInv, Donate \/ Retrieve \/ \E user \in Users : Fund(user)
  PROVE  IInv'
  <1>1. /\ base \in [Account -> Nat]
        /\ "owner" \in Account \ {"join", "lender"} /\ "trader" \in Account \ {"join", "lender"}
        /\ "join" \in Account \ {"lender"} /\ "owner" \in Account \ {"lender"}
        /\ \A user \in Users : user \in Account \ {"lender"} /\ user # "owner"
    BY Accounts DEF IInv, Types, Lenders, Users
  <1>2. base["owner"] \in Nat /\ base["trader"] \in Nat
    BY <1>1
  <1>3. ASSUME Donate PROVE IInv'
    BY <1>1, <1>2, <1>3, OthersHold DEF Donate
  <1>4. ASSUME Retrieve PROVE IInv'
    BY <1>1, <1>2, <1>4, OthersHold DEF Retrieve
  <1>5. ASSUME NEW user \in Users, Fund(user) PROVE IInv'
    BY <1>1, <1>2, <1>5, OthersHold DEF Fund
  <1> QED BY <1>3, <1>4, <1>5

LEMMA SettingsHold ==
  ASSUME IInv, NEW x \in Series, SetNextPool(x) \/ Mature(x)
  PROVE  IInv'
  <1>1. Idle /\ UNCHANGED tx /\ UNCHANGED <<base, stored, issued, inPool, held, debt, pool, thinAir, earned, share>>
        /\ next' \in Series \cup {NoSeries} /\ matured' \subseteq Series
    BY DEF SetNextPool, Mature, ledger, IInv, Types
  <1>2. Types'
    BY <1>1 DEF IInv, Types
  <1> QED BY <1>1, <1>2, NothingLent, NoTxRuns, IdleHolds

LEMMA NextHolds == ASSUME IInv, [Next]_vars PROVE IInv'
  <1>1. CASE UNCHANGED vars
    <2>1. Ledger' = Ledger /\ Lent("join")' = Lent("join") /\ Lent("lender")' = Lent("lender")
      BY <1>1 DEF vars, ledger, Ledger, Lent, Idle
    <2>2. Types'
      BY <1>1 DEF vars, ledger, IInv, Types
    <2>3. Balanced(Ledger, Lent("join"), Lent("lender"))'
      BY <2>1 DEF IInv, Balanced
    <2>4. tx' = NoTx \/ Running'
      BY <1>1 DEF vars, ledger, IInv, Running, Balanced
    <2> QED BY <2>2, <2>3, <2>4 DEF IInv
  <1>2. CASE Next
    BY <1>2, CallHolds, LendHolds, MintToSellHolds, SellHolds, FundJoinHolds, EndPoolHolds,
       StartPoolHolds, SellHeldHolds, BuyBackHolds, RepayHolds, EndHolds, RevertHolds, BorrowHolds,
       RepayDebtHolds, FundsHold, SettingsHold DEF Next
  <1> QED BY <1>1, <1>2

-----------------------------------------------------------------------------
\* Whatever the loans, their fees, the market and the users do, the Join holds
\* what it says, lenders are made whole and all fyToken is accounted for, at
\* each step of each transaction.
THEOREM FlashLoansBooksBalance == Spec => []BooksBalance
  <1>1. Init => IInv
    BY InitHolds
  <1>2. IInv /\ [Next]_vars => IInv'
    BY NextHolds
  <1>3. IInv => BooksBalance
    BY DEF IInv, Types, Balanced, Ledger, BooksBalance
  <1> QED BY <1>1, <1>2, <1>3, PTL DEF Spec
-----------------------------------------------------------------------------
(* A funded roll.  Up to the end of the old pool, the state is the one the *)
(* roll started from but for the loan, and what it started from decides    *)
(* what each later step finds.                                             *)

Redeemed == before.inPool[tx.series] \div share
Invested == before.base["strategy"] + Redeemed + before.base[tx.series] \div share
\* What the Roller holds on top of its own funds
OnTop == CASE tx.pc = "callback" -> tx.loan [] tx.pc = "repay" -> tx.loan - tx.loss [] OTHER -> 0
Pools == Series \cup {"strategy"}
RollOnCourse ==
  /\ tx.pc # "end" => base["roller"] = before.base["roller"] + OnTop
  /\ tx.pc = "lend" => base["lender"] = before.base["lender"]
  /\ tx.pc \in {"lend", "callback"} => stored = before.stored
  /\ tx.pc \in {"lend", "callback", "endPool"} =>
       inPool = before.inPool /\ \A a \in Pools : base[a] = before.base[a]
  /\ tx.pc \in {"lend", "callback", "endPool", "startPool"} => next = before.next
  /\ tx.pc = "endPool" => stored = before.stored + tx.loan
  /\ tx.pc = "startPool" => /\ base["strategy"] = Invested
                            /\ base[next] = before.base[next] /\ inPool[next] = 0
  /\ tx.pc = "sell" => pool = before.next /\ base[pool] = before.base[pool] + Invested
RollInv == IInv /\ (Funded => RollOnCourse)

\* What a funded roll starts from
LEMMA FundedStart ==
  ASSUME IInv, Funded
  PROVE  /\ ~Idle /\ Running /\ tx.user = "roller" /\ tx.lender = "lender"
         /\ tx \in TxType /\ tx.loan \in Nat /\ tx.loss \in Nat /\ tx.loss <= tx.loan /\ tx.series \in Series
         /\ before.base \in [Account -> Nat] /\ before.inPool \in [Series -> Nat] /\ before.stored \in Nat
         /\ before.next \in Series /\ before.next # tx.series /\ before.next # NoSeries
         /\ Redeemed \in Nat /\ Invested \in Nat /\ Invested > 0
  <1>1. /\ ~Idle /\ tx.user = "roller" /\ tx.lender = "lender" /\ tx.series \in matured
        /\ before.next \in Series \ matured /\ Invested > 0
    BY DEF Funded, Invested, Redeemed
  <1>2. Running /\ tx \in TxType /\ tx.series \in Series
    BY <1>1, WithinATx DEF Running, TxType
  <1>3. before.base \in [Account -> Nat] /\ before.inPool \in [Series -> Nat] /\ before.stored \in Nat
    BY <1>2 DEF Running, LedgerType
  <1>4. Redeemed \in Nat
    BY <1>2, <1>3, ShareIsPart DEF Redeemed, IInv, Types
  <1>5. before.base["strategy"] \in Nat /\ before.base[tx.series] \div share \in Nat
    BY <1>2, <1>3, Accounts, ShareIsPart DEF IInv, Types
  <1>6. Invested \in Nat
    BY <1>4, <1>5 DEF Invested
  <1> QED BY <1>1, <1>2, <1>3, <1>4, <1>6, SeriesAssumption DEF Running, TxType

\* The accounts of a roll are different ones, and each holds a natural number
LEMMA RollAccounts ==
  ASSUME IInv
  PROVE  /\ base \in [Account -> Nat] /\ inPool \in [Series -> Nat] /\ stored \in Nat
         /\ {"roller", "join", "lender", "strategy", "owner"} \subseteq Account
         /\ Pools \subseteq Account /\ Pools \cap {"roller", "join", "lender", "owner"} = {}
         /\ \A x \in Series : x \in Account /\ x \in Pools /\ x # "strategy"
         /\ "strategy" \in Pools
  BY Accounts DEF IInv, Types, Pools, Users, Lenders

\* A roll that goes on is the one that was going on
LEMMA SameRoll ==
  ASSUME RollInv, ~Idle, NEW pc \in Pcs, Goes(pc), Within, Funded'
  PROVE  /\ IInv /\ Funded /\ RollOnCourse /\ before' = before /\ share' = share
         /\ tx'.pc = pc /\ tx'.series = tx.series /\ tx'.loan = tx.loan /\ tx'.loss = tx.loss
         /\ Redeemed' = Redeemed /\ Invested' = Invested
  <1>1. tx \in TxType /\ tx' = [tx EXCEPT !.pc = pc]
    BY WithinATx DEF RollInv, Running, Goes
  <1>2. /\ tx'.pc = pc /\ tx'.series = tx.series /\ tx'.loan = tx.loan /\ tx'.loss = tx.loss
        /\ tx'.user = tx.user /\ tx'.lender = tx.lender
    BY <1>1 DEF TxType
  <1>3. before' = before /\ share' = share /\ matured' = matured
    BY DEF Within
  <1>4. Redeemed' = Redeemed
    BY <1>2, <1>3 DEF Redeemed
  <1>5. Invested' = Invested
    BY <1>2, <1>3, <1>4 DEF Invested
  <1>6. Funded
    BY <1>2, <1>3 DEF Funded
  <1> QED BY <1>2, <1>3, <1>4, <1>5, <1>6 DEF RollInv

LEMMA BeginRolls ==
  ASSUME IInv, NEW user, NEW x, NEW lender, NEW loan, NEW loss, NEW init,
         Begin(user, x, lender, loan, loss, init)
  PROVE  RollOnCourse'
  <1>1. tx'.pc = "lend" /\ before' = Ledger /\ UNCHANGED ledger
    BY DEF Begin
  <1>2. /\ before'.base = base' /\ before'.stored = stored' /\ before'.inPool = inPool' /\ before'.next = next'
    BY <1>1 DEF Ledger, ledger
  <1>3. base'["roller"] \in Nat
    BY <1>1, RollAccounts DEF ledger
  <1>4. OnTop' = 0
    BY <1>1 DEF OnTop
  <1> QED BY <1>1, <1>2, <1>3, <1>4 DEF RollOnCourse

LEMMA CallRolls == ASSUME IInv, Call PROVE RollOnCourse'
  <1>1. PICK loan \in 1..MaxLoan, loss \in 0..MaxLoss :
           \/ loss <= loan /\ \E x \in Series : Trade(x, loan, loss) \/ Restore(x, loan, loss)
           \/ \E lender \in Lenders, maxLoan \in {0, loan} : Roll(lender, maxLoan, loss)
    BY DEF Call
  <1>2. ASSUME NEW x \in Series, Trade(x, loan, loss) \/ Restore(x, loan, loss) PROVE RollOnCourse'
    BY <1>2, BeginRolls DEF Trade, Restore
  <1>3. ASSUME NEW lender \in Lenders, NEW maxLoan \in {0, loan}, Roll(lender, maxLoan, loss)
        PROVE  RollOnCourse'
    BY <1>3, BeginRolls DEF Roll
  <1> QED BY <1>1, <1>2, <1>3

LEMMA LendRolls == ASSUME RollInv, Lend, Funded' PROVE RollOnCourse'
  <1>1. /\ ~Idle /\ tx.pc = "lend" /\ base' = Move(base, tx.lender, tx.user, tx.loan)
        /\ stored' = IF tx.lender = "join" THEN stored - tx.loan ELSE stored
        /\ UNCHANGED <<inPool, held, pool, next>> /\ Goes("callback") /\ Within
    BY DEF Lend, Idle
  <1>2. /\ IInv /\ Funded /\ RollOnCourse /\ before' = before /\ tx'.pc = "callback" /\ tx'.loan = tx.loan
    BY <1>1, SameRoll DEF Pcs
  <1>3. tx.user = "roller" /\ tx.lender = "lender" /\ tx.loan \in Nat
        /\ before.base \in [Account -> Nat]
    BY <1>2, FundedStart
  <1>4. /\ base'["roller"] = base["roller"] + tx.loan /\ stored' = stored
        /\ \A a \in Pools : base'[a] = base[a]
    BY <1>1, <1>2, <1>3, RollAccounts DEF Move
  <1>5. OnTop = 0 /\ OnTop' = tx.loan
    BY <1>1, <1>2 DEF OnTop
  <1>6. base["roller"] = before.base["roller"] /\ before.base["roller"] \in Nat
    BY <1>1, <1>2, <1>3, <1>5, RollAccounts DEF RollOnCourse
  <1> QED BY <1>1, <1>2, <1>4, <1>5, <1>6 DEF RollOnCourse

LEMMA FundJoinRolls == ASSUME RollInv, FundJoin, Funded' PROVE RollOnCourse'
  <1>1. /\ ~Idle /\ tx.pc = "callback" /\ base' = Move(base, "roller", "join", tx.loan)
        /\ stored' = stored + tx.loan
        /\ UNCHANGED <<inPool, pool, next>> /\ Goes("endPool") /\ Within
    BY DEF FundJoin, At, Idle, MintWithUnderlying
  <1>2. /\ IInv /\ Funded /\ RollOnCourse /\ before' = before /\ tx'.pc = "endPool" /\ tx'.loan = tx.loan
    BY <1>1, SameRoll DEF Pcs
  <1>3. tx.loan \in Nat /\ before.base \in [Account -> Nat]
    BY <1>2, FundedStart
  <1>4. base'["roller"] = base["roller"] - tx.loan /\ \A a \in Pools : base'[a] = base[a]
    BY <1>1, <1>2, <1>3, RollAccounts DEF Move
  <1>5. OnTop = tx.loan /\ OnTop' = 0
    BY <1>1, <1>2 DEF OnTop
  <1>6. base["roller"] = before.base["roller"] + tx.loan /\ before.base["roller"] \in Nat
    BY <1>1, <1>2, <1>3, <1>5, RollAccounts DEF RollOnCourse
  <1>7. base'["roller"] = before.base["roller"] + 0
    BY <1>3, <1>4, <1>6
  <1> QED BY <1>1, <1>2, <1>4, <1>5, <1>7 DEF RollOnCourse

\* What comes back of the old pool is what the roll counted on
LEMMA EndPoolRolls == ASSUME RollInv, EndPool, Funded' PROVE RollOnCourse'
  <1> DEFINE divested == inPool[tx.series] \div share
             fromPool == base[tx.series] \div share
  <1>1. /\ ~Idle /\ tx.pc = "endPool"
        /\ base' = [base EXCEPT !["join"] = @ - divested, ![tx.series] = @ - fromPool,
                                !["strategy"] = @ + divested + fromPool]
        /\ inPool' = [inPool EXCEPT ![tx.series] = @ - divested]
        /\ next' = next /\ Goes("startPool") /\ Within
    BY DEF EndPool, At, Idle, Divested
  <1>2. /\ IInv /\ Funded /\ RollOnCourse /\ before' = before /\ tx'.pc = "startPool" /\ Invested' = Invested
    BY <1>1, SameRoll DEF Pcs
  <1>3. /\ tx.series \in Series /\ before.next \in Series /\ before.next # tx.series
        /\ before.base \in [Account -> Nat] /\ before.inPool \in [Series -> Nat]
    BY <1>2, FundedStart
  <1>4. /\ next = before.next /\ inPool = before.inPool /\ \A a \in Pools : base[a] = before.base[a]
        /\ base["roller"] = before.base["roller"] + OnTop
    BY <1>1, <1>2 DEF RollOnCourse
  <1>5. divested = Redeemed /\ fromPool = before.base[tx.series] \div share
    BY <1>2, <1>3, <1>4, RollAccounts DEF Redeemed
  <1>6. Invested = base["strategy"] + divested + fromPool
    BY <1>2, <1>4, <1>5, RollAccounts DEF Invested
  <1> HIDE DEF divested, fromPool
  <1>7. base'["strategy"] = Invested /\ base'[next] = base[next] /\ base'["roller"] = base["roller"]
    BY <1>1, <1>2, <1>3, <1>4, <1>6, RollAccounts
  <1>8. inPool'[next] = inPool[next] /\ inPool[next] = 0
    BY <1>1, <1>2, <1>3, <1>4, RollAccounts DEF Funded
  <1>9. OnTop = 0 /\ OnTop' = 0
    BY <1>1, <1>2 DEF OnTop
  <1>10. next \in Pools
    BY <1>2, <1>3, <1>4, RollAccounts
  <1> QED BY <1>1, <1>2, <1>4, <1>7, <1>8, <1>9, <1>10 DEF RollOnCourse

\* Into a pool that has none of its fyToken, all goes as base
LEMMA AllToFreshPool ==
  ASSUME NEW f \in Nat, NEW b \in Nat, b > 0
  PROVE  (f * b + b - 1) \div b = f
  <1> DEFINE n == f * b + b - 1
             q == n \div b
  <1>1. f * b \in Nat /\ (f + 1) * b = f * b + b
    OBVIOUS
  <1>2. n \in Nat /\ f * b <= n /\ n < (f + 1) * b
    BY <1>1
  <1>3. q \in Nat /\ q * b <= n /\ n < (q + 1) * b
    <2> HIDE DEF n
    <2>1. q \in Nat
      BY <1>2
    <2>2. q * b <= n
      BY <1>2
    <2>3. n < (q + 1) * b
      BY <1>2
    <2> QED BY <2>1, <2>2, <2>3
  <1> HIDE DEF n, q
  <1>4. ~(q < f)
    <2>1. q < f => (q + 1) * b <= f * b
      BY <1>3
    <2>2. (q + 1) * b \in Nat
      BY <1>3
    <2> QED BY <1>1, <1>2, <1>3, <2>1, <2>2
  <1>5. ~(f < q)
    <2>1. f < q => (f + 1) * b <= q * b
      BY <1>3
    <2>2. q * b \in Nat /\ (f + 1) * b \in Nat
      BY <1>3
    <2> QED BY <1>1, <1>2, <1>3, <2>1, <2>2
  <1>6. q = f
    BY <1>3, <1>4, <1>5
  <1> QED BY <1>6 DEF q, n

LEMMA StartPoolRolls == ASSUME RollInv, StartPool, Funded' PROVE RollOnCourse'
  <1> DEFINE toPool == BaseToPool(next, base["strategy"])
  <1>1. /\ ~Idle /\ tx.pc = "startPool"
        /\ base' = [base EXCEPT !["strategy"] = 0, !["join"] = @ + (base["strategy"] - toPool),
                                ![next] = @ + toPool]
        /\ pool' = next /\ Goes("sell") /\ Within
    BY DEF StartPool, At, Idle
  <1>2. /\ IInv /\ Funded /\ RollOnCourse /\ before' = before /\ tx'.pc = "sell" /\ Invested' = Invested
    BY <1>1, SameRoll DEF Pcs
  <1>3. before.next \in Series /\ before.base \in [Account -> Nat] /\ Invested \in Nat
    BY <1>2, FundedStart
  <1>4. /\ next = before.next /\ base[next] = before.base[next] /\ inPool[next] = 0
        /\ base["strategy"] = Invested /\ base["roller"] = before.base["roller"] + OnTop
    BY <1>1, <1>2 DEF RollOnCourse
  <1>5. base[next] \in Nat /\ base[next] > 0
    BY <1>2, <1>3, <1>4, RollAccounts DEF Funded
  <1>6. toPool = Invested
    <2>1. base[next] + inPool[next] = base[next]
      BY <1>4, <1>5
    <2> QED BY <1>3, <1>4, <1>5, <2>1, AllToFreshPool DEF BaseToPool
  <1> HIDE DEF toPool
  <1>7. base'[next] = base[next] + Invested /\ base'["roller"] = base["roller"]
    BY <1>1, <1>2, <1>3, <1>4, <1>6, RollAccounts
  <1>8. OnTop = 0 /\ OnTop' = 0
    BY <1>1, <1>2 DEF OnTop
  <1> QED BY <1>1, <1>2, <1>4, <1>7, <1>8 DEF RollOnCourse

LEMMA SellHeldRolls == ASSUME RollInv, SellHeld, Funded' PROVE RollOnCourse'
  <1>1. /\ ~Idle /\ tx.pc = "sell" /\ tx.user = "roller"
        /\ base' = IF held = 0 THEN base ELSE Move(base, pool, "roller", held - tx.loss)
        /\ Goes("repay") /\ Within
    BY DEF SellHeld, At, Idle
  <1>2. /\ IInv /\ Funded /\ RollOnCourse /\ before' = before /\ tx'.pc = "repay"
        /\ tx'.loan = tx.loan /\ tx'.loss = tx.loss
    BY <1>1, SameRoll DEF Pcs
  <1>3. /\ tx.loan \in Nat /\ tx.loss \in Nat /\ tx.loss <= tx.loan /\ Running
        /\ before.base \in [Account -> Nat]
    BY <1>2, FundedStart
  <1>4. held = tx.loan /\ pool \in Series
    BY <1>1, <1>3 DEF Running
  <1>5. base'["roller"] = base["roller"] + (tx.loan - tx.loss)
    <2>1. base["roller"] \in Nat
      BY <1>2, RollAccounts
    <2>2. CASE held = 0
      BY <1>1, <1>3, <1>4, <2>1, <2>2
    <2>3. CASE held # 0
      <3>1. pool # "roller" /\ pool \in Account /\ "roller" \in Account
        BY <1>2, <1>4, RollAccounts
      <3> QED BY <1>1, <1>2, <1>4, <2>3, <3>1, RollAccounts DEF Move
    <2> QED BY <2>2, <2>3
  <1>6. OnTop = 0 /\ OnTop' = tx.loan - tx.loss
    BY <1>1, <1>2 DEF OnTop
  <1>7. base["roller"] = before.base["roller"] /\ before.base["roller"] \in Nat
    BY <1>1, <1>2, <1>3, <1>6, RollAccounts DEF RollOnCourse
  <1> QED BY <1>1, <1>2, <1>5, <1>6, <1>7 DEF RollOnCourse

LEMMA RepayRolls == ASSUME RollInv, Repay, Funded' PROVE RollOnCourse'
  <1>1. ~Idle /\ Goes("end") /\ Within
    BY DEF Repay, Idle
  <1>2. tx'.pc = "end"
    BY <1>1, SameRoll DEF Pcs
  <1> QED BY <1>2 DEF RollOnCourse

LEMMA RollHolds == ASSUME RollInv, [Next]_vars PROVE RollInv'
  <1>1. IInv'
    BY NextHolds DEF RollInv
  <1>2. ASSUME Funded' PROVE RollOnCourse'
    <2>1. CASE UNCHANGED vars
      BY <1>2, <2>1 DEF vars, ledger, RollInv, Funded, Idle, RollOnCourse, OnTop, Invested, Redeemed
    <2>2. CASE MintToSell \/ Sell \/ BuyBack
      <3>1. ~Idle /\ tx.user # "roller" /\ \E pc \in Pcs : Goes(pc) /\ Within
        BY <2>2 DEF MintToSell, Sell, BuyBack, At, Idle, Pcs
      <3>2. Funded
        BY <1>2, <3>1, SameRoll
      <3> QED BY <3>1, <3>2 DEF Funded
    <2>4. CASE Call
      BY <2>4, CallRolls DEF RollInv
    <2>5. CASE \/ End \/ Revert \/ RepayDebt \/ Donate \/ Retrieve
               \/ \E x \in Series : Borrow(x) \/ SetNextPool(x) \/ Mature(x)
               \/ \E user \in Users : Fund(user)
      <3>1. Idle'
        BY <2>5 DEF End, Revert, NoTx, Idle, RepayDebt, Donate, Retrieve, Borrow, SetNextPool, Mature, Fund
      <3> QED BY <1>2, <3>1 DEF Funded
    <2> QED BY <1>2, <2>1, <2>2, <2>4, <2>5, LendRolls, FundJoinRolls, EndPoolRolls, StartPoolRolls,
               SellHeldRolls, RepayRolls DEF Next
  <1> QED BY <1>1, <1>2 DEF RollInv

\* On course, each step finds what it needs
LEMMA OnCourseProceeds == ASSUME RollInv, Funded PROVE Proceeds
  <1>1. /\ IInv /\ RollOnCourse /\ ~Idle /\ Running /\ tx.user = "roller" /\ tx.lender = "lender" /\ tx \in TxType
        /\ tx.loan \in Nat /\ tx.loss \in Nat /\ tx.loss <= tx.loan /\ tx.series \in Series
        /\ before.base \in [Account -> Nat] /\ before.stored \in Nat
        /\ before.next \in Series /\ before.next # NoSeries
        /\ Redeemed \in Nat /\ Invested \in Nat /\ Invested > 0
    BY FundedStart DEF RollInv
  <1>2. /\ tx.series \in matured /\ before.next \notin matured
        /\ before.base[before.next] > 0 /\ before.stored + tx.loan >= Redeemed
        /\ before.base["lender"] >= tx.loan
        /\ before.base[before.next] + Invested >= tx.loan - tx.loss
        /\ before.base["roller"] >= tx.loss + LoanFee
    BY DEF Funded, Invested, Redeemed
  <1>3. tx.pc \in Pcs
    BY <1>1 DEF TxType
  <1>4. CASE tx.pc = "lend"
    BY <1>1, <1>2, <1>4 DEF RollOnCourse, Proceeds, CanLend
  <1>5. CASE tx.pc = "callback"
    BY <1>1, <1>2, <1>5 DEF RollOnCourse, Proceeds, At, CanFundJoin, CanMint
  <1>6. CASE tx.pc = "endPool"
    <2>1. Divested = Redeemed /\ stored >= Redeemed
      BY <1>1, <1>2, <1>6 DEF RollOnCourse, Divested, Redeemed
    <2>2. base["join"] >= stored /\ base["join"] \in Nat /\ stored \in Nat
      BY <1>1, RollAccounts DEF IInv, Balanced, Ledger
    <2>3. base["join"] >= Redeemed
      BY <1>1, <2>1, <2>2
    <2> QED BY <1>1, <1>2, <1>6, <2>1, <2>3 DEF Proceeds, At, CanEndPool
  <1>7. CASE tx.pc = "startPool"
    <2>1. base[next] + inPool[next] > 0
      <3>1. before.base[before.next] \in Nat
        BY <1>1, RollAccounts
      <3> QED BY <1>1, <1>2, <1>7, <3>1 DEF RollOnCourse
    <2> QED BY <1>1, <1>2, <1>7, <2>1 DEF RollOnCourse, Proceeds, At, CanStartPool, CanMint
  <1>8. CASE tx.pc = "sell"
    BY <1>1, <1>2, <1>8 DEF RollOnCourse, Running, Proceeds, At, CanSellHeld
  <1>9. CASE tx.pc = "repay"
    <2>1. base["roller"] = before.base["roller"] + (tx.loan - tx.loss) /\ before.base["roller"] \in Nat
      BY <1>1, <1>9, RollAccounts DEF RollOnCourse, OnTop
    <2>2. base["roller"] >= Owed
      BY <1>1, <1>2, <2>1, AmountAssumption DEF Owed
    <2>3. Taken = Owed
      BY <1>1 DEF Taken
    <2> QED BY <1>1, <1>9, <2>2, <2>3 DEF Proceeds, CanRepay
  <1>10. CASE tx.pc = "end"
    BY <1>1, <1>10 DEF Proceeds, CanEnd
  <1> QED BY <1>3, <1>4, <1>5, <1>6, <1>7, <1>8, <1>9, <1>10 DEF Pcs

-----------------------------------------------------------------------------
\* Roller's promise: a roll that started with a loan and funds of its own that
\* make up for what the Join lacks, for the fee and for what the market takes,
\* goes through to its end, for any pools, shares, loans and fees and after
\* anything that the users and the other contracts did.
THEOREM FlashLoansFundedRoll == Spec => []FundedRollGoesThrough
  <1>1. Init => RollInv
    BY InitHolds DEF RollInv, Init, NoTx, Idle, Funded
  <1>2. RollInv /\ [Next]_vars => RollInv'
    BY RollHolds
  <1>3. RollInv => FundedRollGoesThrough
    BY OnCourseProceeds DEF FundedRollGoesThrough
  <1> QED BY <1>1, <1>2, <1>3, PTL DEF Spec
=============================================================================
