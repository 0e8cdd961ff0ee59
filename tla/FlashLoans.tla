------------------------------ MODULE FlashLoans ------------------------------
(***************************************************************************)
(* The contracts that work with money lent for one transaction, over one   *)
(* base: Trader sells fyToken for it, Roller rolls a strategy whose Join   *)
(* lacks it, PoolRestorer trades it against fyToken minted out of thin air *)
(* (src/contracts/Trader.sol, Roller.sol, PoolRestorer.sol).  All of them  *)
(* move base in and out of the Join (src/flat/Join.sol), whose books have  *)
(* to agree with the fyToken issued.                                       *)
(*                                                                         *)
(* A transaction goes on step by step, from the loan to its repayment, and *)
(* nothing else happens in between; where a call fails, all is undone.     *)
(* The account of a pool is the series of its fyToken.  Pools, fyTokens,   *)
(* the lender and the vaults of users are external.                        *)
(***************************************************************************)
EXTENDS Integers

CONSTANTS
  Series,         \* the series of this base, each with a pool
  NoSeries,       \* address(0)
  Funds,          \* what each account holds at first
  LoanFee,        \* the fee of a loan
  Shares,         \* the strategy may own one LP token in so many, of each pool
  MaxLoan, MaxLoss, MaxDebt, MaxDonated, MaxThinAir   \* bounds: a loan, what the
                  \* market takes of a sale, the debt of users, the base in the Join that
                  \* nobody owns, the fyToken that PoolRestorer mints

Users == {"trader", "roller", "restorer"}
Lenders == {"lender", "join"}
Account == Users \cup Lenders \cup {"strategy", "owner"} \cup Series

ASSUME SeriesAssumption ==
  /\ NoSeries \notin Series
  /\ Series \cap (Users \cup Lenders \cup {"strategy", "owner"}) = {}
ASSUME AmountAssumption ==
  /\ Funds \in [Account -> Nat] /\ LoanFee \in Nat /\ Shares \subseteq Nat \ {0}
  /\ MaxLoan \in Nat /\ MaxLoss \in Nat /\ MaxDebt \in Nat /\ MaxDonated \in Nat /\ MaxThinAir \in Nat

VARIABLES
  base,       \* account -> base
  stored,     \* Join.storedBalance
  issued,     \* the fyToken issued, of all series
  inPool,     \* series -> those of them in the pool
  held,       \* the fyToken of the next series that the Roller holds
  debt,       \* what the vaults of users owe
  pool, next, \* the series of the strategy's pool and nextPool
  matured,    \* the series that have matured
  share,      \* the strategy has one LP token in so many
  thinAir,    \* the fyToken that PoolRestorer minted
  earned,     \* the fees that the Join earned
  tx,         \* the transaction that runs
  before      \* the state it started from

ledger == <<base, stored, issued, inPool, held, debt, pool, next, thinAir, earned>>
Ledger == [base |-> base, stored |-> stored, issued |-> issued, inPool |-> inPool, held |-> held,
           debt |-> debt, pool |-> pool, next |-> next, thinAir |-> thinAir, earned |-> earned]
vars == <<ledger, matured, share, tx, before>>

NoTx == [pc |-> "idle"]
Idle == tx.pc = "idle"
Move(b, from, to, n) == [b EXCEPT ![from] = @ - n, ![to] = @ + n]
Smaller(a, b) == IF a < b THEN a ELSE b

Init ==
  /\ base = Funds /\ stored = 0
  /\ issued = 0 /\ inPool = [x \in Series |-> 0] /\ held = 0
  /\ debt = 0 /\ matured = {} /\ thinAir = 0 /\ earned = 0
  /\ pool \in Series /\ next = NoSeries /\ share \in Shares
  /\ tx = NoTx /\ before = <<>>

-----------------------------------------------------------------------------
(* The owner of a contract calls it.                                       *)

\* `loss` is what the market takes of the sale, `init` the caller's semaphore
Begin(user, x, lender, loan, loss, init) ==
  /\ Idle
  /\ tx' = [pc |-> "lend", user |-> user, series |-> x, lender |-> lender, loan |-> loan,
            loss |-> loss, init |-> init]
  /\ before' = Ledger
  /\ UNCHANGED <<ledger, matured, share>>

\* sellFYToken and buyBase: fyToken for `sold` of base are minted and sold
Trade(x, sold, loss) == Begin("trader", x, "lender", sold, loss, base["trader"])

\* roll: the loan is capped at what the strategy's pool may have to redeem
Roll(lender, maxLoan, loss) ==
  /\ pool # NoSeries
  /\ LET loan == Smaller(maxLoan, inPool[pool]) IN
     Begin("roller", pool, lender, loan, Smaller(loss, loan), 1)

\* restore: the lender is the Join
Restore(x, amount, loss) ==
  thinAir + amount + loss <= MaxThinAir /\ Begin("restorer", x, "join", amount, loss, 1)

-----------------------------------------------------------------------------
(* The transaction.                                                        *)

At(pc, user) == tx.pc = pc /\ tx.user = user
Goes(pc) == tx' = [tx EXCEPT !.pc = pc]
Within == UNCHANGED <<debt, matured, share, before>>

\* The lender gives the loan.  A Join takes it from what is stored.
CanLend == base[tx.lender] >= tx.loan /\ (tx.lender = "join" => stored >= tx.loan)
Lend ==
  /\ tx.pc = "lend" /\ CanLend
  /\ base' = Move(base, tx.lender, tx.user, tx.loan)
  /\ stored' = IF tx.lender = "join" THEN stored - tx.loan ELSE stored
  /\ Goes("callback")
  /\ UNCHANGED <<issued, inPool, held, pool, next, thinAir, earned>> /\ Within

\* mintWithUnderlying: base that was sent to the Join is stored, for fyToken
MintWithUnderlying(payer, n) ==
  /\ base' = Move(base, payer, "join", n)
  /\ stored' = stored + n
  /\ issued' = issued + n
CanMint(x) == x \notin matured

\* Trader.onFlashLoan, as far as the pool has its fyToken
CanMintToSell == tx.init # 0 /\ CanMint(tx.series)
MintToSell ==
  /\ At("callback", "trader") /\ CanMintToSell
  /\ MintWithUnderlying("trader", tx.loan)
  /\ inPool' = [inPool EXCEPT ![tx.series] = @ + tx.loan]
  /\ Goes("sell")
  /\ UNCHANGED <<held, pool, next, thinAir, earned>> /\ Within
\* The pool gives base for it
CanSell == base[tx.series] >= tx.loan - tx.loss
Sell ==
  /\ At("sell", "trader") /\ CanSell
  /\ base' = Move(base, tx.series, "trader", tx.loan - tx.loss)
  /\ Goes("repay")
  /\ UNCHANGED <<stored, issued, inPool, held, pool, next, thinAir, earned>> /\ Within

\* Roller.onFlashLoan: fyToken of the next pool is minted, so that the Join has
\* what the strategy redeems
CanFundJoin == next # NoSeries /\ (tx.loan > 0 => CanMint(next))
\* Mutant: the base is sent, and nothing minted
FundJoin_unstored ==
  /\ At("callback", "roller") /\ CanFundJoin
  /\ base' = Move(base, "roller", "join", tx.loan)
  /\ held' = tx.loan
  /\ Goes("endPool")
  /\ UNCHANGED <<stored, issued, inPool, pool, next, thinAir, earned>> /\ Within
FundJoin ==
  /\ At("callback", "roller") /\ CanFundJoin
  /\ MintWithUnderlying("roller", tx.loan)
  /\ held' = tx.loan
  /\ Goes("endPool")
  /\ UNCHANGED <<inPool, pool, next, thinAir, earned>> /\ Within
\* Strategy.endPool: the LP tokens of the strategy are burnt, and what comes back
\* of fyToken is redeemed
Divested == inPool[tx.series] \div share
CanEndPool == tx.series \in matured /\ stored >= Divested /\ base["join"] >= Divested
EndPool ==
  /\ At("endPool", "roller") /\ CanEndPool
  /\ LET fromPool == base[tx.series] \div share IN
     base' = [base EXCEPT !["join"] = @ - Divested, ![tx.series] = @ - fromPool,
                          !["strategy"] = @ + Divested + fromPool]
  /\ stored' = stored - Divested
  /\ issued' = issued - Divested
  /\ inPool' = [inPool EXCEPT ![tx.series] = @ - Divested]
  /\ pool' = NoSeries
  /\ Goes("startPool")
  /\ UNCHANGED <<held, next, thinAir, earned>> /\ Within
\* Strategy.startPool: base goes to the next pool, with as much fyToken as the
\* pool has in proportion
BaseToPool(x, funds) ==
  LET all == base[x] + inPool[x] IN (funds * base[x] + all - 1) \div all
CanStartPool == base["strategy"] > 0 /\ base[next] + inPool[next] > 0 /\ CanMint(next)
StartPool ==
  /\ At("startPool", "roller") /\ CanStartPool
  /\ LET funds == base["strategy"]
         toPool == BaseToPool(next, funds)
         minted == funds - toPool
     IN  /\ base' = [base EXCEPT !["strategy"] = 0, !["join"] = @ + minted, ![next] = @ + toPool]
         /\ stored' = stored + minted
         /\ issued' = issued + minted
         /\ inPool' = [inPool EXCEPT ![next] = @ + minted]
  /\ pool' = next /\ next' = NoSeries
  /\ Goes("sell")
  /\ UNCHANGED <<held, thinAir, earned>> /\ Within
\* What was minted is sold in the new pool
CanSellHeld == base[pool] >= held - tx.loss
SellHeld ==
  /\ At("sell", "roller") /\ CanSellHeld
  /\ base' = IF held = 0 THEN base ELSE Move(base, pool, "roller", held - tx.loss)
  /\ inPool' = [inPool EXCEPT ![pool] = @ + held]
  /\ held' = 0
  /\ Goes("repay")
  /\ UNCHANGED <<stored, issued, pool, next, thinAir, earned>> /\ Within

\* PoolRestorer.onFlashLoan: the loan goes to the pool, and is bought back with
\* fyToken that nobody paid for
BuyBack ==
  /\ At("callback", "restorer") /\ CanMint(tx.series)
  /\ issued' = issued + tx.loan + tx.loss
  /\ inPool' = [inPool EXCEPT ![tx.series] = @ + tx.loan + tx.loss]
  /\ thinAir' = thinAir + tx.loan + tx.loss
  /\ Goes("repay")
  /\ UNCHANGED <<base, stored, held, pool, next, earned>> /\ Within

\* Join.join: what the Join holds and has not stored counts, and the rest is taken
\* from the payer.  Mutant: all that it holds counts
Unstored == base["join"] - stored
Pull_all(n) == n - Smaller(n, base["join"])
Pull(n) == n - Smaller(n, Unstored)
\* The lender takes the loan and the fee; Roller skips the loan if it needs none
Owed == IF tx.loan = 0 THEN 0 ELSE tx.loan + LoanFee
Taken == IF tx.lender = "join" THEN Pull(Owed) ELSE Owed
CanRepay == base[tx.user] >= Taken
Repay ==
  /\ tx.pc = "repay" /\ CanRepay
  /\ base' = Move(base, tx.user, tx.lender, Taken)
  /\ IF tx.lender = "join"
     THEN stored' = stored + Owed /\ earned' = earned + (Owed - tx.loan)
     ELSE UNCHANGED <<stored, earned>>
  /\ Goes("end")
  /\ UNCHANGED <<issued, inPool, held, pool, next, thinAir>> /\ Within

\* Trader computes what the trade cost, Roller sends away what is left
CanEnd == tx.user = "trader" => tx.init >= base["trader"]
End ==
  /\ tx.pc = "end" /\ CanEnd
  /\ base' = IF tx.user = "roller" THEN Move(base, "roller", "owner", base["roller"]) ELSE base
  /\ tx' = NoTx /\ before' = <<>>
  /\ UNCHANGED <<stored, issued, inPool, held, pool, next, thinAir, earned, debt, matured, share>>

\* A call that fails undoes all
Proceeds ==
  \/ tx.pc = "lend" /\ CanLend
  \/ At("callback", "trader") /\ CanMintToSell
  \/ At("callback", "roller") /\ CanFundJoin
  \/ At("callback", "restorer") /\ CanMint(tx.series)
  \/ At("endPool", "roller") /\ CanEndPool
  \/ At("startPool", "roller") /\ CanStartPool
  \/ At("sell", "trader") /\ CanSell
  \/ At("sell", "roller") /\ CanSellHeld
  \/ tx.pc = "repay" /\ CanRepay
  \/ tx.pc = "end" /\ CanEnd
Revert ==
  /\ ~Idle /\ ~Proceeds
  /\ base' = before.base /\ stored' = before.stored /\ issued' = before.issued
  /\ inPool' = before.inPool /\ held' = before.held /\ debt' = before.debt
  /\ pool' = before.pool /\ next' = before.next
  /\ thinAir' = before.thinAir /\ earned' = before.earned
  /\ tx' = NoTx /\ before' = <<>>
  /\ UNCHANGED <<matured, share>>

-----------------------------------------------------------------------------
(* Users, governance and time.                                             *)

\* A user borrows fyToken and sells it to the pool
Borrow(x) ==
  /\ Idle /\ debt < MaxDebt /\ CanMint(x) /\ base[x] > 0
  /\ debt' = debt + 1
  /\ issued' = issued + 1 /\ inPool' = [inPool EXCEPT ![x] = @ + 1]
  /\ base' = Move(base, x, "owner", 1)
  /\ UNCHANGED <<stored, held, pool, next, thinAir, earned, matured, share, tx, before>>
\* The debt is repaid in base
RepayDebt ==
  /\ Idle /\ debt > 0 /\ base["owner"] > 0
  /\ debt' = debt - 1
  /\ base' = Move(base, "owner", "join", Pull(1))
  /\ stored' = stored + 1
  /\ UNCHANGED <<issued, inPool, held, pool, next, thinAir, earned, matured, share, tx, before>>
\* Base is sent to the Join
Donate ==
  /\ Idle /\ base["owner"] > 0 /\ Unstored < MaxDonated
  /\ base' = Move(base, "owner", "join", 1)
  /\ UNCHANGED <<stored, issued, inPool, held, debt, pool, next, thinAir, earned, matured, share, tx, before>>
\* Base is sent to one of the users, and the Trader gives back what it has
Fund(user) ==
  /\ Idle /\ base["owner"] > 0
  /\ base' = Move(base, "owner", user, 1)
  /\ UNCHANGED <<stored, issued, inPool, held, debt, pool, next, thinAir, earned, matured, share, tx, before>>
Retrieve ==
  /\ Idle /\ base["trader"] > 0
  /\ base' = Move(base, "trader", "owner", base["trader"])
  /\ UNCHANGED <<stored, issued, inPool, held, debt, pool, next, thinAir, earned, matured, share, tx, before>>
SetNextPool(x) ==
  /\ Idle /\ next # x /\ next' = x
  /\ UNCHANGED <<base, stored, issued, inPool, held, debt, pool, thinAir, earned, matured, share, tx, before>>
Mature(x) ==
  /\ Idle /\ x \notin matured /\ matured' = matured \cup {x}
  /\ UNCHANGED <<ledger, share, tx, before>>

Call ==
  \E loan \in 1..MaxLoan, loss \in 0..MaxLoss :
    \/ loss <= loan /\ \E x \in Series : Trade(x, loan, loss) \/ Restore(x, loan, loss)
    \/ \E lender \in Lenders, maxLoan \in {0, loan} : Roll(lender, maxLoan, loss)
Next ==
  \/ Call
  \/ Lend \/ MintToSell \/ Sell \/ FundJoin \/ EndPool \/ StartPool \/ SellHeld \/ BuyBack
  \/ Repay \/ End \/ Revert
  \/ \E x \in Series : Borrow(x) \/ SetNextPool(x) \/ Mature(x)
  \/ RepayDebt \/ Donate \/ Retrieve
  \/ \E user \in Users : Fund(user)

Spec == Init /\ [][Next]_vars
-----------------------------------------------------------------------------
Lent(lender) ==
  IF ~Idle /\ tx.pc \notin {"lend", "end"} /\ tx.lender = lender THEN tx.loan ELSE 0
\* Whatever is lent, rolled, traded, restored, donated and undone: the Join holds
\* what it has stored, lenders get back what they lent, and the fyToken issued is
\* what was stored for it, what vaults owe and what PoolRestorer minted, no more
\* and no less.
BooksBalance ==
  /\ base["join"] >= stored /\ stored >= 0
  /\ base["lender"] + Lent("lender") >= Funds["lender"]
  /\ issued + earned = stored + Lent("join") + debt + thinAir

\* Roller's purpose, `This contract solves the problem of Joins being underfunded
\* to support a strategy roll': with a loan from elsewhere that makes up for what
\* the Join lacks and the costs in its own funds, a roll into a fresh pool never
\* fails, whatever the users and the others have done before.
Funded ==
  /\ ~Idle /\ tx.user = "roller" /\ tx.lender = "lender"
  /\ LET new == before.next
         redeemed == before.inPool[tx.series] \div share
         invested == before.base["strategy"] + redeemed + before.base[tx.series] \div share
     IN  /\ tx.series \in matured /\ new \in Series \ matured
         /\ before.inPool[new] = 0 /\ before.base[new] > 0 /\ invested > 0
         /\ before.stored + tx.loan >= redeemed
         /\ before.base["lender"] >= tx.loan
         /\ before.base[new] + invested >= tx.loan - tx.loss
         /\ before.base["roller"] >= tx.loss + LoanFee
FundedRollGoesThrough == Funded => Proceeds
=============================================================================
