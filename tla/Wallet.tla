------------------------------- MODULE Wallet -------------------------------
(***************************************************************************)
(* The credit wallet of CodeFree: packages/core/src/wallet/index.ts, and   *)
(* the usage accounting of packages/core/src/codefree.ts that debits it.   *)
(*                                                                         *)
(* A call of the service is a fiber of one of the processes that share the *)
(* SQLite file.  Every database statement, and every db.transaction, is    *)
(* one atomic step; between two of them any other call may run, and a call *)
(* may die with its process.  What a call remembers across its steps (the  *)
(* wallet row it found, the amount it checked) is call[c].                 *)
(*                                                                         *)
(* The wallet_transaction table is kept as the sum of amount_credits per   *)
(* wallet row and per transaction type, which is all its readers use.      *)
(***************************************************************************)
EXTENDS Integers, Sequences, FiniteSets

CONSTANTS
  Users,        \* user ids
  Calls,        \* fibers that may be inside the service at once
  Amounts,      \* the amounts calls are made with
  CreditTypes,  \* the transaction types creditWallet is called with
  NoWithdrawal, \* model value: the call has no withdrawal at hand
  MaxEarned,    \* BOUND: no credit takes lifetime_earned_credits beyond it
  MaxWallets    \* BOUND: wallet rows one user may end up with

ASSUME UsersAssumption == Users # {}
ASSUME CallsAssumption == IsFiniteSet(Calls) /\ Calls # {}
ASSUME AmountsAssumption == Amounts \subseteq (Nat \ {0}) /\ IsFiniteSet(Amounts) /\ Amounts # {}
ASSUME CreditTypesAssumption == CreditTypes \subseteq {"ad_view", "affiliate_click", "bonus", "adjustment"}
ASSUME BoundsAssumption == MaxEarned \in Nat /\ MaxWallets \in Nat

VARIABLES
  wallet,   \* wallet[u]: the rows of the wallet table with user_id u, in insertion order
  ledger,   \* ledger[u][i][t]: sum of amount_credits of the rows of type t of wallet i of u
  call      \* call[c]: where call c is and what it remembers

walletVars == <<wallet, ledger, call>>

TransactionType ==
  {"ad_view", "affiliate_click", "api_usage", "bonus", "adjustment", "withdrawal", "withdrawal_refund"}

WalletRow == [balance : Int, earned : Int, spent : Int]

NewWallet(amount) == [balance |-> amount, earned |-> amount, spent |-> 0]

NoTransactions == [t \in TransactionType |-> 0]

(***************************************************************************)
(* A call at rest, and the shape of every call.  "row" is the index of the *)
(* wallet row the call found, "amount" the credits it works with, "ref"    *)
(* the withdrawal it works on (used by the module Payout only).            *)
(***************************************************************************)
Idle == [at |-> "idle", user |-> CHOOSE u \in Users : TRUE, row |-> 1, amount |-> 0, ref |-> NoWithdrawal]

(***************************************************************************)
(* findWalletByUser: the first row the index on user_id yields, which for  *)
(* equal keys is the one inserted first.                                   *)
(***************************************************************************)
HasWallet(u) == wallet[u] # <<>>
Found(u) == 1
Balance(u) == wallet[u][Found(u)].balance

CoversAnything(u, amount) == HasWallet(u)   \* mutant: no InsufficientBalanceError
Covers(u, amount) == HasWallet(u) /\ Balance(u) >= amount

AddToWallet(u, i, balance, earned, spent) ==
  wallet' = [wallet EXCEPT ![u][i] =
    [balance |-> @.balance + balance, earned |-> @.earned + earned, spent |-> @.spent + spent]]

InsertTransaction(u, i, type, amount) ==
  ledger' = [ledger EXCEPT ![u][i][type] = @ + amount]

InsertWallet(u, amount) ==
  wallet' = [wallet EXCEPT ![u] = Append(@, NewWallet(amount))]

Enter(c, step, u, i, amount) ==
  call' = [call EXCEPT ![c] = [at |-> step, user |-> u, row |-> i, amount |-> amount, ref |-> NoWithdrawal]]

Leave(c) == call' = [call EXCEPT ![c] = Idle]

-----------------------------------------------------------------------------
(***************************************************************************)
(* getOrCreateWallet: a select, and when it finds nothing an insert that   *)
(* no unique index guards.                                                 *)
(***************************************************************************)
GetOrCreateFind(c, u) ==
  /\ call[c].at = "idle"
  /\ ~HasWallet(u)
  /\ Enter(c, "create", u, 1, 0)
  /\ UNCHANGED <<wallet, ledger>>

CreateWallet(c) ==
  LET u == call[c].user IN
  /\ call[c].at = "create"
  /\ Len(wallet[u]) < MaxWallets
  /\ InsertWallet(u, 0)
  /\ ledger' = [ledger EXCEPT ![u] = Append(@, NoTransactions)]
  /\ Leave(c)

(***************************************************************************)
(* creditWallet: find, upsert and transaction row in one db.transaction.   *)
(***************************************************************************)
CreditWallet(u, type, amount) ==
  /\ \/ /\ ~HasWallet(u)
        /\ amount <= MaxEarned
        /\ InsertWallet(u, amount)
        /\ ledger' = [ledger EXCEPT ![u] = Append(@, [NoTransactions EXCEPT ![type] = amount])]
     \/ /\ HasWallet(u)
        /\ wallet[u][Found(u)].earned + amount <= MaxEarned
        /\ AddToWallet(u, Found(u), amount, amount, 0)
        /\ InsertTransaction(u, Found(u), type, amount)
  /\ UNCHANGED call

(***************************************************************************)
(* debitWallet: existence and balance are checked outside the transaction, *)
(* which then debits whatever the balance has become.                      *)
(***************************************************************************)
DebitCheck(c, u, amount) ==
  /\ call[c].at = "idle"
  /\ Covers(u, amount)
  /\ Enter(c, "debit", u, Found(u), amount)
  /\ UNCHANGED <<wallet, ledger>>

DebitWallet(c) ==
  LET k == call[c] IN
  /\ k.at = "debit"
  /\ AddToWallet(k.user, k.row, -k.amount, 0, k.amount)
  /\ InsertTransaction(k.user, k.row, "api_usage", -k.amount)
  /\ Leave(c)

(***************************************************************************)
(* applyUsage: the part of a cost the balance covers is handed to          *)
(* debitWallet, which reads the wallet again.  getBalance cannot decode a  *)
(* negative balance, so such a call dies in its first read.                *)
(***************************************************************************)
ApplyUsage(c, u, needed) ==
  /\ call[c].at = "idle"
  /\ HasWallet(u)
  /\ Balance(u) > 0
  /\ Enter(c, "usage", u, Found(u), IF needed <= Balance(u) THEN needed ELSE Balance(u))
  /\ UNCHANGED <<wallet, ledger>>

ApplyUsageDebit(c) ==
  LET k == call[c] IN
  /\ k.at = "usage"
  /\ IF Covers(k.user, k.amount)
       THEN Enter(c, "debit", k.user, Found(k.user), k.amount)
       ELSE Leave(c)
  /\ UNCHANGED <<wallet, ledger>>

\* The process of a call dies, or the call is interrupted between two statements.
Abandon(c) ==
  /\ call[c].at # "idle"
  /\ Leave(c)
  /\ UNCHANGED <<wallet, ledger>>

-----------------------------------------------------------------------------
WalletNext ==
  \/ \E u \in Users, t \in CreditTypes, a \in Amounts : CreditWallet(u, t, a)
  \/ \E c \in Calls :
       \/ \E u \in Users : GetOrCreateFind(c, u)
       \/ CreateWallet(c)
       \/ \E u \in Users, a \in Amounts : DebitCheck(c, u, a)
       \/ DebitWallet(c)
       \/ \E u \in Users, a \in Amounts : ApplyUsage(c, u, a)
       \/ ApplyUsageDebit(c)
       \/ Abandon(c)
=============================================================================
