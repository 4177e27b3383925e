------------------------------- MODULE Payout -------------------------------
(***************************************************************************)
(* Withdrawals of credits: packages/core/src/wallet/payout.ts, over the    *)
(* wallet of the module Wallet.  Every method but requestWithdrawal reads  *)
(* the withdrawal row, checks its status, and only then writes it back     *)
(* unconditionally; the read and the write are separate steps.             *)
(***************************************************************************)
EXTENDS Wallet, FiniteSetsExt

CONSTANTS
  Withdrawals,     \* ids WithdrawalID.create() may return
  MinWithdrawal,   \* MIN_WITHDRAWAL_CREDITS
  Methods          \* payout methods withdrawals are requested with

ASSUME WithdrawalAssumption == NoWithdrawal \notin Withdrawals
ASSUME MinAssumption == MinWithdrawal \in Nat \ {0}
ASSUME MethodsAssumption == Methods \subseteq {"manual", "stripe", "paypal", "gateway"}

VARIABLE
  withdrawal  \* withdrawal[w]: the row of table withdrawal_request, or NoWithdrawal

payoutVars == <<wallet, ledger, call, withdrawal>>

WithdrawalStatus == {"pending", "processing", "completed", "failed", "cancelled"}
Terminal == {"completed", "failed", "cancelled"}

WithdrawalRow ==
  [status : WithdrawalStatus, user : Users, row : Nat \ {0}, amount : Nat \ {0},
   method : {"manual", "stripe", "paypal", "gateway"}]

ASSUME NoRowAssumption == NoWithdrawal \notin WithdrawalRow

Exists(w) == withdrawal[w] # NoWithdrawal
Fresh(w) == ~Exists(w)
Status(w) == IF Exists(w) THEN withdrawal[w].status ELSE "none"
SetStatus(w, status) == withdrawal' = [withdrawal EXCEPT ![w].status = status]

Init ==
  /\ wallet = [u \in Users |-> <<>>]
  /\ ledger = [u \in Users |-> <<>>]
  /\ call = [c \in Calls |-> Idle]
  /\ withdrawal = [w \in Withdrawals |-> NoWithdrawal]

\* The call goes on to the given step of its work on w, or returns.
GoOn(c, step, w) ==
  call' = [call EXCEPT ![c] = IF step = "idle" THEN Idle ELSE [@ EXCEPT !.at = step, !.ref = w]]

-----------------------------------------------------------------------------
(***************************************************************************)
(* requestWithdrawal: threshold and balance are pre-checked, then one      *)
(* transaction debits the wallet, records it and creates the row.  The     *)
(* method "manual" goes on to complete it with two further statements.     *)
(***************************************************************************)
RequestWithdrawal(c, u, amount) ==
  /\ call[c].at = "idle"
  /\ amount >= MinWithdrawal
  /\ Covers(u, amount)
  /\ Enter(c, "escrow", u, Found(u), amount)
  /\ UNCHANGED <<wallet, ledger, withdrawal>>

Escrow(c, w, method, next) ==
  LET k == call[c] IN
  /\ k.at = "escrow"
  /\ Fresh(w)
  /\ AddToWallet(k.user, k.row, -k.amount, 0, 0)
  /\ InsertTransaction(k.user, k.row, "withdrawal", -k.amount)
  /\ withdrawal' = [withdrawal EXCEPT ![w] =
       [status |-> "pending", user |-> k.user, row |-> k.row, amount |-> k.amount, method |-> method]]
  /\ GoOn(c, next, w)

AfterEscrow(method) == IF method = "manual" THEN "manual_process" ELSE "idle"

\* An update of the status column alone, by a call that is at the given step.
Update(c, step, status, next) ==
  /\ call[c].at = step
  /\ SetStatus(call[c].ref, status)
  /\ GoOn(c, next, call[c].ref)
  /\ UNCHANGED <<wallet, ledger>>

ManualProcess(c) == Update(c, "manual_process", "processing", "manual_complete")
ManualComplete(c) == Update(c, "manual_complete", "completed", "idle")

(***************************************************************************)
(* The other methods: the status each demands when it reads the row, and   *)
(* the write that follows without looking again.                           *)
(***************************************************************************)
AllowedAlways(method) == WithdrawalStatus   \* mutant: the status is not looked at
Allowed(method) ==
  CASE method = "cancel"   -> {"pending"}
    [] method = "process"  -> {"pending"}
    [] method = "complete" -> {"processing"}
    [] method = "fail"     -> {"pending", "processing"}

ReadWithdrawal(c, w, method) ==
  /\ Status(w) \in Allowed(method)
  /\ GoOn(c, method, w)
  /\ UNCHANGED <<wallet, ledger, withdrawal>>

\* The refund transaction shared by cancelWithdrawal and failWithdrawal.
RefundNothing(w) == 0   \* mutant: the wallet row is not updated
RefundAmount(w) == withdrawal[w].amount

Refund(w, status) ==
  LET row == withdrawal[w] IN
  /\ AddToWallet(row.user, row.row, RefundAmount(w), 0, 0)
  /\ InsertTransaction(row.user, row.row, "withdrawal_refund", row.amount)
  /\ SetStatus(w, status)

CancelWithdrawal(c) ==
  /\ call[c].at = "cancel"
  /\ Refund(call[c].ref, "cancelled")
  /\ GoOn(c, "idle", NoWithdrawal)

FailWithdrawal(c) ==
  /\ call[c].at = "fail"
  /\ Refund(call[c].ref, "failed")
  /\ GoOn(c, "idle", NoWithdrawal)

ProcessWithdrawal(c, next) == Update(c, "process", "processing", next)
CompleteWithdrawal(c) == Update(c, "complete", "completed", "idle")

-----------------------------------------------------------------------------
PayoutNext ==
  \E c \in Calls :
    \/ \E u \in Users, a \in Amounts : RequestWithdrawal(c, u, a)
    \/ \E w \in Withdrawals, m \in Methods : Escrow(c, w, m, AfterEscrow(m))
    \/ ManualProcess(c)
    \/ ManualComplete(c)
    \/ /\ call[c].at = "idle"
       /\ \E w \in Withdrawals, m \in {"cancel", "process", "complete", "fail"} : ReadWithdrawal(c, w, m)
    \/ CancelWithdrawal(c)
    \/ FailWithdrawal(c)
    \/ ProcessWithdrawal(c, "idle")
    \/ CompleteWithdrawal(c)

Next ==
  \/ WalletNext /\ UNCHANGED withdrawal
  \/ PayoutNext

Spec == Init /\ [][Next]_payoutVars

\* One call at a time.
Alone == \A c, d \in Calls : call[c].at # "idle" /\ call[d].at # "idle" => c = d
SerialSpec == Init /\ [][Next /\ Alone']_payoutVars

-----------------------------------------------------------------------------
Steps == {"idle", "create", "debit", "usage", "escrow", "manual_process", "manual_complete",
          "cancel", "process", "complete", "fail"}

CallRecord ==
  [at : Steps, user : Users, row : Nat \ {0}, amount : Nat, ref : Withdrawals \union {NoWithdrawal}]

\* What a call remembers is there: the wallet row it will debit, the withdrawal it will write.
Remembers(k) ==
  /\ k.at \in {"debit", "usage", "escrow"} => k.row \in DOMAIN wallet[k.user]
  /\ k.at = "escrow" => k.amount # 0
  /\ k.at \in {"manual_process", "manual_complete", "cancel", "process", "complete", "fail"} =>
       k.ref \in Withdrawals /\ Exists(k.ref)

BooksTyped ==
  /\ wallet \in [Users -> Seq(WalletRow)]
  /\ ledger \in [Users -> Seq([TransactionType -> Int])]
  /\ \A u \in Users : Len(ledger[u]) = Len(wallet[u])

WithdrawalsTyped ==
  /\ withdrawal \in [Withdrawals -> WithdrawalRow \union {NoWithdrawal}]
  /\ \A w \in Withdrawals : Exists(w) => withdrawal[w].row \in DOMAIN wallet[withdrawal[w].user]

CallsTyped == call \in [Calls -> CallRecord] /\ \A c \in Calls : Remembers(call[c])

\* The rows, sums and calls have their types, and every reference to a row finds one.
TypeOK == BooksTyped /\ WithdrawalsTyped /\ CallsTyped

\* The sum of all transaction rows of one wallet.
Total(l) ==
  l["ad_view"] + l["affiliate_click"] + l["bonus"] + l["adjustment"]
    + l["api_usage"] + l["withdrawal"] + l["withdrawal_refund"]

Explains(l, row) ==
  /\ row.balance = Total(l)
  /\ row.earned = l["ad_view"] + l["affiliate_click"] + l["bonus"] + l["adjustment"]
  /\ row.spent = -l["api_usage"]

(***************************************************************************)
(* The transaction history explains the wallet: the balance is the sum of  *)
(* its transaction rows and the lifetime totals are the sums of the rows   *)
(* of their types, whatever calls interleave or die half way.  It holds    *)
(* because each balance update shares a db.transaction with its row.       *)
(***************************************************************************)
LedgerExplainsWallet ==
  \A u \in Users : \A i \in DOMAIN wallet[u] : Explains(ledger[u][i], wallet[u][i])

(***************************************************************************)
(* A balance is never negative: WalletInfo declares balanceCredits a       *)
(* NonNegativeInt (wallet/index.ts:39), and a wallet that breaks it can no *)
(* longer be read.  One call at a time keeps it; calls that interleave     *)
(* between the balance check and the debit do not.                         *)
(***************************************************************************)
BalanceNonNegative ==
  \A u \in Users : \A i \in DOMAIN wallet[u] : wallet[u][i].balance >= 0

(***************************************************************************)
(* However calls interleave, an overdraft stays below what the other calls *)
(* checked against the same balance: at most one amount for each call      *)
(* beside the first.                                                       *)
(***************************************************************************)
OverdraftBounded ==
  \A u \in Users : \A i \in DOMAIN wallet[u] :
    wallet[u][i].balance >= -(Cardinality(Calls) - 1) * Max(Amounts)

(***************************************************************************)
(* The payout service keeps the contract of withdrawals.                   *)
(***************************************************************************)
Fate(w) ==
  CASE Status(w) = "none" -> "unused"
    [] Status(w) \in {"pending", "processing"} -> "held"
    [] Status(w) = "completed" -> "paid"
    [] Status(w) \in {"failed", "cancelled"} -> "returned"

Contract == INSTANCE WithdrawalContract WITH
  funds <- [u \in Users |-> IF HasWallet(u) THEN wallet[u][1].balance ELSE 0],
  held <- [w \in Withdrawals |-> IF Exists(w) THEN withdrawal[w].amount ELSE 0],
  fate <- [w \in Withdrawals |-> Fate(w)]

=============================================================================
