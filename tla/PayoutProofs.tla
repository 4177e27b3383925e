---------------------------- MODULE PayoutProofs ----------------------------
(***************************************************************************)
(* Theorems about the wallet and payout services, for every set of users,  *)
(* calls, withdrawals and amounts, and about the withdraw handler between  *)
(* them and the gateway, for any number of handlers.                       *)
(***************************************************************************)
EXTENDS Withdraw, Sums


(***************************************************************************)
(* The wallet and payout services.                                         *)
(***************************************************************************)

(***************************************************************************)
(* What an update of a wallet row does, and what it leaves alone.          *)
(***************************************************************************)
LEMMA AddToWalletEffect ==
  ASSUME wallet \in [Users -> Seq(WalletRow)],
         NEW u \in Users, NEW i \in DOMAIN wallet[u],
         NEW b \in Int, NEW e \in Int, NEW s \in Int,
         AddToWallet(u, i, b, e, s)
  PROVE  /\ wallet' \in [Users -> Seq(WalletRow)]
         /\ \A v \in Users : Len(wallet'[v]) = Len(wallet[v])
         /\ wallet'[u][i] = [balance |-> wallet[u][i].balance + b,
                             earned |-> wallet[u][i].earned + e,
                             spent |-> wallet[u][i].spent + s]
         /\ \A v \in Users : \A j \in DOMAIN wallet[v] :
              v # u \/ j # i => wallet'[v][j] = wallet[v][j]
<1> DEFINE row == [balance |-> wallet[u][i].balance + b,
                   earned |-> wallet[u][i].earned + e,
                   spent |-> wallet[u][i].spent + s]
           rows == [wallet[u] EXCEPT ![i] = row]
<1>1. wallet[u] \in Seq(WalletRow) /\ wallet[u][i] \in WalletRow
  OBVIOUS
<1>2. wallet' = [wallet EXCEPT ![u] = rows]
  BY <1>1 DEF AddToWallet, WalletRow
<1>3. row \in WalletRow
  BY <1>1 DEF WalletRow
<1>4. rows \in Seq(WalletRow) /\ Len(rows) = Len(wallet[u])
  BY <1>1, <1>3
<1> QED
  BY <1>1, <1>2, <1>3, <1>4

Ledgers == Seq([TransactionType -> Int])

LEMMA InsertTransactionEffect ==
  ASSUME ledger \in [Users -> Ledgers],
         NEW u \in Users, NEW i \in DOMAIN ledger[u],
         NEW t \in TransactionType, NEW a \in Int,
         InsertTransaction(u, i, t, a)
  PROVE  /\ ledger' \in [Users -> Ledgers]
         /\ \A v \in Users : Len(ledger'[v]) = Len(ledger[v])
         /\ ledger'[u][i] = [ledger[u][i] EXCEPT ![t] = @ + a]
         /\ \A v \in Users : \A j \in DOMAIN ledger[v] :
              v # u \/ j # i => ledger'[v][j] = ledger[v][j]
<1> DEFINE sums == [ledger[u][i] EXCEPT ![t] = @ + a]
           rows == [ledger[u] EXCEPT ![i] = sums]
<1>1. ledger[u] \in Ledgers /\ ledger[u][i] \in [TransactionType -> Int]
  BY DEF Ledgers
<1>2. ledger' = [ledger EXCEPT ![u] = rows]
  BY <1>1 DEF InsertTransaction
<1>3. sums \in [TransactionType -> Int]
  BY <1>1
<1>4. rows \in Ledgers /\ Len(rows) = Len(ledger[u])
  BY <1>1, <1>3 DEF Ledgers
<1> QED
  BY <1>1, <1>2, <1>3, <1>4

(***************************************************************************)
(* A balance update and its transaction row keep the books of every wallet *)
(* when they agree on the amount and on the lifetime total it counts in.   *)
(***************************************************************************)
CreditType == {"ad_view", "affiliate_click", "bonus", "adjustment"}

BooksKept == BooksTyped /\ LedgerExplainsWallet

LEMMA EntryKeepsBooks ==
  ASSUME BooksKept,
         NEW u \in Users, NEW i \in DOMAIN wallet[u],
         NEW t \in TransactionType, NEW a \in Int,
         NEW e \in Int, NEW s \in Int,
         e = IF t \in CreditType THEN a ELSE 0,
         s = IF t = "api_usage" THEN -a ELSE 0,
         AddToWallet(u, i, a, e, s),
         InsertTransaction(u, i, t, a)
  PROVE  BooksKept' /\ \A v \in Users : Len(wallet'[v]) = Len(wallet[v])
<1>1. wallet \in [Users -> Seq(WalletRow)] /\ ledger \in [Users -> Ledgers]
  BY DEF BooksKept, BooksTyped, Ledgers
<1>2. i \in DOMAIN ledger[u]
  BY DEF BooksKept, BooksTyped, Ledgers
<1>3. /\ wallet' \in [Users -> Seq(WalletRow)]
      /\ \A v \in Users : Len(wallet'[v]) = Len(wallet[v])
      /\ wallet'[u][i] = [balance |-> wallet[u][i].balance + a,
                          earned |-> wallet[u][i].earned + e,
                          spent |-> wallet[u][i].spent + s]
      /\ \A v \in Users : \A j \in DOMAIN wallet[v] :
           v # u \/ j # i => wallet'[v][j] = wallet[v][j]
  BY <1>1, AddToWalletEffect DEF AddToWallet
<1>4. /\ ledger' \in [Users -> Ledgers]
      /\ \A v \in Users : Len(ledger'[v]) = Len(ledger[v])
      /\ ledger'[u][i] = [ledger[u][i] EXCEPT ![t] = @ + a]
      /\ \A v \in Users : \A j \in DOMAIN ledger[v] :
           v # u \/ j # i => ledger'[v][j] = ledger[v][j]
  BY <1>1, <1>2, InsertTransactionEffect DEF InsertTransaction
<1>5. wallet[u][i] \in WalletRow /\ ledger[u][i] \in [TransactionType -> Int]
  BY <1>2 DEF BooksKept, BooksTyped, Ledgers
<1>6. Explains(ledger'[u][i], wallet'[u][i])
  <2>1. Explains(ledger[u][i], wallet[u][i])
    BY DEF BooksKept, BooksTyped, Ledgers, LedgerExplainsWallet
  <2>2. /\ wallet'[u][i].balance = wallet[u][i].balance + a
        /\ wallet'[u][i].earned = wallet[u][i].earned + e
        /\ wallet'[u][i].spent = wallet[u][i].spent + s
        /\ wallet[u][i].balance \in Int /\ wallet[u][i].earned \in Int /\ wallet[u][i].spent \in Int
    BY <1>3, <1>5 DEF WalletRow
  <2>3. \A k \in TransactionType :
          /\ ledger[u][i][k] \in Int
          /\ ledger'[u][i][k] = IF k = t THEN ledger[u][i][k] + a ELSE ledger[u][i][k]
    BY <1>4, <1>5
  <2> DEFINE l == ledger[u][i]
             m == ledger'[u][i]
  <2>4. \A k \in TransactionType : l[k] \in Int /\ m[k] = IF k = t THEN l[k] + a ELSE l[k]
    BY <2>3
  <2> HIDE DEF l, m
  <2>5. /\ Total(m) = Total(l) + a
        /\ m["api_usage"] = l["api_usage"] + (IF t = "api_usage" THEN a ELSE 0)
        /\ l["api_usage"] \in Int /\ Total(l) \in Int
    BY <2>4 DEF Total, TransactionType
  <2>6. m["ad_view"] + m["affiliate_click"] + m["bonus"] + m["adjustment"]
          = l["ad_view"] + l["affiliate_click"] + l["bonus"] + l["adjustment"] + e
    BY <2>4 DEF TransactionType, CreditType
  <2>7. Explains(l, wallet[u][i])
    BY <2>1 DEF l
  <2>8. Explains(m, wallet'[u][i])
    BY <2>2, <2>4, <2>5, <2>6, <2>7 DEF Explains, TransactionType, CreditType
  <2> QED
    BY <2>8 DEF m
<1>7. \A v \in Users : Len(ledger'[v]) = Len(wallet'[v])
  BY <1>3, <1>4 DEF BooksKept, BooksTyped, Ledgers
<1>8. ASSUME NEW v \in Users, NEW j \in DOMAIN wallet'[v]
      PROVE  Explains(ledger'[v][j], wallet'[v][j])
  <2>1. j \in DOMAIN wallet[v] /\ j \in DOMAIN ledger[v]
    BY <1>3 DEF BooksKept, BooksTyped, Ledgers
  <2>2. CASE v = u /\ j = i
    BY <1>6, <2>2
  <2>3. CASE v # u \/ j # i
    BY <1>3, <1>4, <2>1, <2>3 DEF BooksKept, BooksTyped, Ledgers, LedgerExplainsWallet
  <2> QED
    BY <2>2, <2>3
<1> QED
  BY <1>3, <1>4, <1>7, <1>8 DEF BooksKept, BooksTyped, Ledgers, LedgerExplainsWallet

LEMMA NewWalletKeepsBooks ==
  ASSUME BooksKept,
         NEW u \in Users, NEW a \in Int, NEW sums \in [TransactionType -> Int],
         Explains(sums, NewWallet(a)),
         InsertWallet(u, a),
         ledger' = [ledger EXCEPT ![u] = Append(@, sums)]
  PROVE  BooksKept' /\ \A v \in Users : Len(wallet'[v]) >= Len(wallet[v])
<1> DEFINE row == NewWallet(a)
<1>1. row \in WalletRow
  BY DEF NewWallet, WalletRow
<1>2. wallet[u] \in Seq(WalletRow) /\ ledger[u] \in Ledgers /\ Len(ledger[u]) = Len(wallet[u])
  BY DEF BooksKept, BooksTyped, Ledgers
<1>3. Append(wallet[u], row) \in Seq(WalletRow) /\ Append(ledger[u], sums) \in Ledgers
  BY <1>1, <1>2 DEF Ledgers
<1>4. wallet' = [wallet EXCEPT ![u] = Append(wallet[u], row)]
  BY DEF InsertWallet
<1>5. BooksTyped'
  BY <1>2, <1>3, <1>4 DEF BooksKept, BooksTyped, Ledgers
<1>6. ASSUME NEW v \in Users, NEW j \in DOMAIN wallet'[v]
      PROVE  Explains(ledger'[v][j], wallet'[v][j])
  <2>1. CASE v # u
    BY <1>4, <2>1 DEF BooksKept, BooksTyped, LedgerExplainsWallet
  <2>2. CASE v = u /\ j \in DOMAIN wallet[u]
    BY <1>2, <1>4, <2>2 DEF BooksKept, BooksTyped, LedgerExplainsWallet, Ledgers
  <2>3. CASE v = u /\ j \notin DOMAIN wallet[u]
    <3>1. j = Len(wallet[u]) + 1
      BY <1>2, <1>3, <1>4, <2>3 DEF BooksKept, BooksTyped
    <3>2. wallet'[v][j] = row /\ ledger'[v][j] = sums
      BY <1>2, <1>4, <2>3, <3>1 DEF BooksKept, BooksTyped, Ledgers
    <3> QED
      BY <3>2
  <2> QED
    BY <2>1, <2>2, <2>3
<1> QED
  BY <1>2, <1>4, <1>5, <1>6 DEF BooksKept, LedgerExplainsWallet, BooksTyped

(***************************************************************************)
(* The three kinds of steps: they insert a wallet, enter a transaction, or *)
(* leave wallet and ledger alone.                                          *)
(***************************************************************************)
Quiet == UNCHANGED <<wallet, ledger>>

LEMMA StepKinds ==
  ASSUME TypeOK, BooksKept, [Next]_payoutVars
  PROVE  BooksKept' /\ \A v \in Users : Len(wallet'[v]) >= Len(wallet[v])
<1>1. CASE Quiet
  BY <1>1 DEF Quiet, BooksKept, BooksTyped, LedgerExplainsWallet
<1>2. ASSUME NEW c \in Calls, CreateWallet(c)
      PROVE  BooksKept' /\ \A v \in Users : Len(wallet'[v]) >= Len(wallet[v])
  <2> DEFINE u == call[c].user
             sums == NoTransactions
  <2>1. u \in Users /\ 0 \in Int
    BY DEF TypeOK, CallsTyped, CallRecord
  <2>2. sums \in [TransactionType -> Int] /\ \A t \in TransactionType : sums[t] = 0
    BY DEF NoTransactions
  <2>3. InsertWallet(u, 0) /\ ledger' = [ledger EXCEPT ![u] = Append(@, sums)]
    BY <1>2 DEF CreateWallet
  <2> HIDE DEF u, sums
  <2>4. Explains(sums, NewWallet(0))
    BY <2>2 DEF TransactionType, Explains, Total, NewWallet
  <2> QED
    BY <2>1, <2>2, <2>3, <2>4, NewWalletKeepsBooks DEF InsertWallet
<1>3. ASSUME NEW u \in Users, NEW t \in CreditTypes, NEW a \in Amounts, CreditWallet(u, t, a)
      PROVE  BooksKept' /\ \A v \in Users : Len(wallet'[v]) >= Len(wallet[v])
  <2>1. t \in CreditType /\ t \in TransactionType /\ t # "api_usage" /\ a \in Int /\ 0 \in Int
    BY AmountsAssumption, CreditTypesAssumption DEF CreditType, TransactionType
  <2>2. CASE ~HasWallet(u)
    <3> DEFINE sums == [NoTransactions EXCEPT ![t] = a]
    <3>1. sums \in [TransactionType -> Int] /\ Explains(sums, NewWallet(a))
      BY <2>1 DEF NoTransactions, TransactionType, Explains, Total, NewWallet, CreditType
    <3>2. InsertWallet(u, a) /\ ledger' = [ledger EXCEPT ![u] = Append(@, sums)]
      BY <1>3, <2>2 DEF CreditWallet
    <3> HIDE DEF sums
    <3> QED
      BY <2>1, <3>1, <3>2, NewWalletKeepsBooks DEF InsertWallet
  <2>3. CASE HasWallet(u)
    <3>1. Found(u) \in DOMAIN wallet[u]
      BY <2>3 DEF HasWallet, Found, TypeOK, BooksTyped
    <3>2. AddToWallet(u, Found(u), a, a, 0) /\ InsertTransaction(u, Found(u), t, a)
      BY <1>3, <2>3 DEF CreditWallet
    <3>3. BooksKept' /\ \A v \in Users : Len(wallet'[v]) = Len(wallet[v])
      BY <2>1, <3>1, <3>2, EntryKeepsBooks DEF AddToWallet, InsertTransaction
    <3> QED
      BY <3>3 DEF TypeOK, BooksTyped
  <2> QED
    BY <2>2, <2>3
<1>4. ASSUME NEW c \in Calls, DebitWallet(c)
      PROVE  BooksKept' /\ \A v \in Users : Len(wallet'[v]) >= Len(wallet[v])
  <2> DEFINE u == call[c].user
             i == call[c].row
             a == -call[c].amount
             s == call[c].amount
  <2>1. u \in Users /\ i \in DOMAIN wallet[u] /\ a \in Int /\ s \in Int /\ s = -a /\ 0 \in Int
    BY <1>4 DEF TypeOK, CallsTyped, CallRecord, Remembers, DebitWallet
  <2>2. AddToWallet(u, i, a, 0, s) /\ InsertTransaction(u, i, "api_usage", a)
    BY <1>4 DEF DebitWallet
  <2>3. "api_usage" \in TransactionType /\ "api_usage" \notin CreditType
    BY DEF TransactionType, CreditType
  <2> HIDE DEF u, i, a, s
  <2>4. BooksKept' /\ \A v \in Users : Len(wallet'[v]) = Len(wallet[v])
    BY <2>1, <2>2, <2>3, EntryKeepsBooks DEF AddToWallet, InsertTransaction
  <2> QED
    BY <2>4 DEF TypeOK, BooksTyped
<1>5. ASSUME NEW c \in Calls, NEW w \in Withdrawals, NEW m, NEW step, Escrow(c, w, m, step)
      PROVE  BooksKept' /\ \A v \in Users : Len(wallet'[v]) >= Len(wallet[v])
  <2> DEFINE u == call[c].user
             i == call[c].row
             a == -call[c].amount
  <2>1. u \in Users /\ i \in DOMAIN wallet[u] /\ a \in Int /\ 0 \in Int
    BY <1>5 DEF TypeOK, CallsTyped, CallRecord, Remembers, Escrow
  <2>2. AddToWallet(u, i, a, 0, 0) /\ InsertTransaction(u, i, "withdrawal", a)
    BY <1>5 DEF Escrow
  <2>3. "withdrawal" \in TransactionType /\ "withdrawal" \notin CreditType
    BY DEF TransactionType, CreditType
  <2> HIDE DEF u, i, a
  <2>4. BooksKept' /\ \A v \in Users : Len(wallet'[v]) = Len(wallet[v])
    BY <2>1, <2>2, <2>3, EntryKeepsBooks DEF AddToWallet, InsertTransaction
  <2> QED
    BY <2>4 DEF TypeOK, BooksTyped
<1>6. ASSUME NEW w \in Withdrawals, NEW status, Exists(w), Refund(w, status)
      PROVE  BooksKept' /\ \A v \in Users : Len(wallet'[v]) >= Len(wallet[v])
  <2> DEFINE u == withdrawal[w].user
             i == withdrawal[w].row
             a == withdrawal[w].amount
  <2>1. u \in Users /\ i \in DOMAIN wallet[u] /\ a \in Int /\ 0 \in Int
    BY <1>6 DEF TypeOK, WithdrawalsTyped, WithdrawalRow, Exists
  <2>2. AddToWallet(u, i, a, 0, 0) /\ InsertTransaction(u, i, "withdrawal_refund", a)
    BY <1>6 DEF Refund, RefundAmount
  <2>3. "withdrawal_refund" \in TransactionType /\ "withdrawal_refund" \notin CreditType
    BY DEF TransactionType, CreditType
  <2> HIDE DEF u, i, a
  <2>4. BooksKept' /\ \A v \in Users : Len(wallet'[v]) = Len(wallet[v])
    BY <2>1, <2>2, <2>3, EntryKeepsBooks DEF AddToWallet, InsertTransaction
  <2> QED
    BY <2>4 DEF TypeOK, BooksTyped
<1>7. ASSUME NEW c \in Calls, CancelWithdrawal(c) \/ FailWithdrawal(c)
      PROVE  BooksKept' /\ \A v \in Users : Len(wallet'[v]) >= Len(wallet[v])
  <2>1. call[c].ref \in Withdrawals /\ Exists(call[c].ref)
    BY <1>7 DEF TypeOK, CallsTyped, CallRecord, Remembers, CancelWithdrawal, FailWithdrawal
  <2> QED
    BY <1>6, <1>7, <2>1 DEF CancelWithdrawal, FailWithdrawal
<1> QED
  <2>1. CASE UNCHANGED payoutVars
    BY <1>1, <2>1 DEF payoutVars, Quiet
  <2>2. CASE WalletNext
    BY <1>1, <1>2, <1>3, <1>4, <2>2
    DEF WalletNext, Quiet, GetOrCreateFind, DebitCheck, ApplyUsage, ApplyUsageDebit, Abandon
  <2>3. CASE PayoutNext
    BY <1>1, <1>5, <1>7, <2>3
    DEF PayoutNext, Quiet, RequestWithdrawal, ManualProcess, ManualComplete, Update, ReadWithdrawal,
        ProcessWithdrawal, CompleteWithdrawal
  <2> QED
    BY <2>1, <2>2, <2>3 DEF Next

-----------------------------------------------------------------------------
(***************************************************************************)
(* Type correctness.  Rows of the wallet table are never removed, nor are  *)
(* withdrawals, so what a call remembers stays there.                      *)
(***************************************************************************)
WalletsStay == \A u \in Users : \A i \in DOMAIN wallet[u] : i \in DOMAIN wallet'[u]
WithdrawalsStay == \A w \in Withdrawals : Exists(w) => Exists(w)'

LEMMA IdleTyped == Idle \in CallRecord /\ Remembers(Idle)'
<1>1. (CHOOSE u \in Users : TRUE) \in Users
  BY UsersAssumption
<1> QED
  BY <1>1 DEF Idle, CallRecord, Steps, Remembers

LEMMA CallsStayTyped ==
  ASSUME CallsTyped, WalletsStay, WithdrawalsStay,
         NEW c \in Calls, NEW k \in CallRecord, Remembers(k)',
         call' = [call EXCEPT ![c] = k]
  PROVE  CallsTyped'
<1>1. call' \in [Calls -> CallRecord]
  BY DEF CallsTyped
<1>2. ASSUME NEW d \in Calls PROVE Remembers(call[d])'
  <2>1. CASE d = c
    <3>1. call'[d] = k
      BY <2>1 DEF CallsTyped
    <3> QED
      BY <3>1 DEF Remembers
  <2>2. CASE d # c
    <3>1. call'[d] = call[d] /\ call[d] \in CallRecord /\ Remembers(call[d])
      BY <2>2 DEF CallsTyped
    <3> QED
      BY <3>1 DEF Remembers, WalletsStay, WithdrawalsStay, CallRecord
  <2> QED
    BY <2>1, <2>2
<1> QED
  BY <1>1, <1>2 DEF CallsTyped

LEMMA CallsUntouched ==
  ASSUME CallsTyped, WalletsStay, WithdrawalsStay, UNCHANGED call
  PROVE  CallsTyped'
BY DEF CallsTyped, CallRecord, Remembers, WalletsStay, WithdrawalsStay

LEMMA WithdrawalsUntouched ==
  ASSUME WithdrawalsTyped, WalletsStay, UNCHANGED withdrawal
  PROVE  WithdrawalsTyped' /\ WithdrawalsStay
<1>1. \A w \in Withdrawals : Exists(w)' = Exists(w)
  BY DEF Exists
<1>2. ASSUME NEW w \in Withdrawals, Exists(w) PROVE withdrawal[w].user \in Users
  BY <1>2 DEF WithdrawalsTyped, WithdrawalRow, Exists
<1> QED
  BY <1>1, <1>2 DEF WithdrawalsTyped, WithdrawalsStay, WalletsStay

LEMMA RowWritten ==
  ASSUME WithdrawalsTyped, WalletsStay,
         NEW w \in Withdrawals, NEW row \in WithdrawalRow,
         row.row \in DOMAIN wallet[row.user],
         withdrawal' = [withdrawal EXCEPT ![w] = row]
  PROVE  WithdrawalsTyped' /\ WithdrawalsStay /\ Exists(w)'
<1>1. row # NoWithdrawal /\ row.user \in Users
  BY NoRowAssumption DEF WithdrawalRow
<1>2. withdrawal' \in [Withdrawals -> WithdrawalRow \union {NoWithdrawal}] /\ withdrawal'[w] = row
  BY DEF WithdrawalsTyped
<1>3. ASSUME NEW v \in Withdrawals, v # w PROVE withdrawal'[v] = withdrawal[v]
  BY <1>3 DEF WithdrawalsTyped
<1>4. WithdrawalsStay /\ Exists(w)'
  BY <1>1, <1>2, <1>3 DEF WithdrawalsStay, Exists
<1>5. ASSUME NEW v \in Withdrawals, Exists(v)'
      PROVE  withdrawal'[v].row \in DOMAIN wallet'[withdrawal'[v].user]
  <2>1. CASE v = w
    BY <1>1, <1>2, <2>1 DEF WalletsStay
  <2>2. CASE v # w
    <3>1. withdrawal'[v] = withdrawal[v] /\ Exists(v) /\ withdrawal[v].user \in Users
      BY <1>3, <1>5, <2>2 DEF Exists, WithdrawalsTyped, WithdrawalRow
    <3> QED
      BY <3>1 DEF WithdrawalsTyped, WalletsStay
  <2> QED
    BY <2>1, <2>2
<1> QED
  BY <1>2, <1>4, <1>5 DEF WithdrawalsTyped

LEMMA StatusWritten ==
  ASSUME WithdrawalsTyped, WalletsStay,
         NEW w \in Withdrawals, Exists(w), NEW s \in WithdrawalStatus,
         SetStatus(w, s)
  PROVE  WithdrawalsTyped' /\ WithdrawalsStay /\ Exists(w)'
<1> DEFINE row == [withdrawal[w] EXCEPT !.status = s]
<1>1. withdrawal[w] \in WithdrawalRow
  BY DEF WithdrawalsTyped, Exists
<1>2. row \in WithdrawalRow /\ row.row \in DOMAIN wallet[row.user]
  BY <1>1 DEF WithdrawalsTyped, WithdrawalRow
<1>3. withdrawal' = [withdrawal EXCEPT ![w] = row]
  BY DEF SetStatus, WithdrawalsTyped
<1> HIDE DEF row
<1> QED
  BY <1>2, <1>3, RowWritten

LEMMA TypeStep ==
  ASSUME TypeOK, LedgerExplainsWallet, [Next]_payoutVars
  PROVE  TypeOK'
<1> USE DEF TypeOK
<1>1. BooksTyped' /\ WalletsStay
  <2>1. BooksKept' /\ \A v \in Users : Len(wallet'[v]) >= Len(wallet[v])
    BY StepKinds DEF BooksKept
  <2> QED
    BY <2>1 DEF BooksKept, BooksTyped, WalletsStay
<1>2. ASSUME NEW c \in Calls PROVE call[c] \in CallRecord /\ Remembers(call[c])
  BY DEF CallsTyped
<1>3. ASSUME NEW c \in Calls, Leave(c), WithdrawalsStay PROVE CallsTyped'
  BY <1>1, <1>3, IdleTyped, CallsStayTyped DEF Leave
<1>4. ASSUME NEW c \in Calls, NEW step \in {"create", "debit", "usage", "escrow"}, NEW u \in Users,
             NEW i \in Nat \ {0}, NEW a \in Nat, Enter(c, step, u, i, a), WithdrawalsStay,
             step # "create" => i \in DOMAIN wallet[u],
             step = "escrow" => a # 0
      PROVE  CallsTyped'
  <2> DEFINE k == [at |-> step, user |-> u, row |-> i, amount |-> a, ref |-> NoWithdrawal]
  <2>1. k \in CallRecord /\ Remembers(k)'
    BY <1>1, <1>4 DEF CallRecord, Steps, Remembers, WalletsStay
  <2>2. call' = [call EXCEPT ![c] = k]
    BY <1>4 DEF Enter
  <2> HIDE DEF k
  <2> QED
    BY <1>1, <1>4, <2>1, <2>2, CallsStayTyped
<1>5. ASSUME NEW c \in Calls, NEW w \in Withdrawals, Exists(w)', WithdrawalsStay,
             NEW step \in {"idle", "manual_process", "manual_complete", "cancel", "process", "complete", "fail"},
             GoOn(c, step, w)
      PROVE  CallsTyped'
  <2>1. CASE step = "idle"
    BY <1>1, <1>5, <2>1, IdleTyped, CallsStayTyped DEF GoOn
  <2>2. CASE step # "idle"
    <3>0. PICK k : k = [call[c] EXCEPT !.at = step, !.ref = w]
      OBVIOUS
    <3>1. k \in CallRecord /\ Remembers(k)'
      BY <1>2, <1>5, <2>2, <3>0 DEF CallRecord, Steps, Remembers
    <3>2. call' = [call EXCEPT ![c] = k]
      BY <1>5, <2>2, <3>0 DEF GoOn, CallsTyped
    <3> QED
      BY <1>1, <1>5, <3>1, <3>2, CallsStayTyped
  <2> QED
    BY <2>1, <2>2
<1>6. ASSUME UNCHANGED withdrawal PROVE WithdrawalsTyped' /\ WithdrawalsStay
  BY <1>1, <1>6, WithdrawalsUntouched
<1>7. ASSUME UNCHANGED payoutVars PROVE TypeOK'
  BY <1>1, <1>6, <1>7, CallsUntouched DEF payoutVars
<1>8. ASSUME WalletNext, UNCHANGED withdrawal PROVE TypeOK'
  <2>1. WithdrawalsTyped' /\ WithdrawalsStay
    BY <1>6, <1>8
  <2>2. ASSUME NEW u \in Users, HasWallet(u) PROVE Found(u) \in DOMAIN wallet[u] /\ Found(u) \in Nat \ {0}
    BY <2>2 DEF HasWallet, Found, BooksTyped
  <2>3. ASSUME NEW u \in Users, HasWallet(u) PROVE Balance(u) \in Int
    <3>1. wallet[u] \in Seq(WalletRow) /\ Found(u) \in DOMAIN wallet[u]
      BY <2>2, <2>3 DEF BooksTyped
    <3>2. wallet[u][Found(u)] \in WalletRow
      BY <3>1
    <3> QED
      BY <3>2 DEF Balance, WalletRow
  <2>4. ASSUME NEW u \in Users, NEW t \in CreditTypes, NEW a \in Amounts, CreditWallet(u, t, a)
        PROVE  CallsTyped'
    BY <1>1, <2>1, <2>4, CallsUntouched DEF CreditWallet
  <2>5. ASSUME NEW c \in Calls, NEW u \in Users, GetOrCreateFind(c, u) PROVE CallsTyped'
    BY <1>4, <2>1, <2>5 DEF GetOrCreateFind
  <2>6. ASSUME NEW c \in Calls, CreateWallet(c) \/ DebitWallet(c) \/ Abandon(c) PROVE CallsTyped'
    BY <1>3, <2>1, <2>6 DEF CreateWallet, DebitWallet, Abandon
  <2>7. ASSUME NEW c \in Calls, NEW u \in Users, NEW a \in Amounts, DebitCheck(c, u, a) PROVE CallsTyped'
    BY <1>4, <2>1, <2>2, <2>7, AmountsAssumption DEF DebitCheck, Covers
  <2>8. ASSUME NEW c \in Calls, NEW u \in Users, NEW a \in Amounts, ApplyUsage(c, u, a) PROVE CallsTyped'
    <3> DEFINE n == IF a <= Balance(u) THEN a ELSE Balance(u)
    <3>1. n \in Nat
      BY <2>3, <2>8, AmountsAssumption DEF ApplyUsage
    <3>2. Enter(c, "usage", u, Found(u), n)
      BY <2>8 DEF ApplyUsage
    <3> HIDE DEF n
    <3> QED
      BY <1>4, <2>1, <2>2, <2>8, <3>1, <3>2 DEF ApplyUsage
  <2>9. ASSUME NEW c \in Calls, ApplyUsageDebit(c) PROVE CallsTyped'
    <3> DEFINE u == call[c].user
               a == call[c].amount
    <3>1. u \in Users /\ a \in Nat
      BY <1>2 DEF CallRecord
    <3>2. \/ HasWallet(u) /\ Enter(c, "debit", u, Found(u), a)
          \/ Leave(c)
      BY <2>9 DEF ApplyUsageDebit, Covers
    <3> HIDE DEF u, a
    <3> QED
      BY <1>3, <1>4, <2>1, <2>2, <3>1, <3>2
  <2> QED
    BY <1>1, <1>8, <2>1, <2>4, <2>5, <2>6, <2>7, <2>8, <2>9 DEF WalletNext
<1>9. ASSUME PayoutNext PROVE TypeOK'
  <2> SUFFICES WithdrawalsTyped' /\ CallsTyped'
    BY <1>1
  <2>1. PICK c \in Calls : 
          \/ \E u \in Users, a \in Amounts : RequestWithdrawal(c, u, a)
          \/ \E w \in Withdrawals, m \in Methods : Escrow(c, w, m, AfterEscrow(m))
          \/ ManualProcess(c)
          \/ ManualComplete(c)
          \/ /\ call[c].at = "idle"
             /\ \E w \in Withdrawals, m \in {"cancel", "process", "complete", "fail"} : ReadWithdrawal(c, w, m)
          \/ CancelWithdrawal(c)
          \/ FailWithdrawal(c)
          \/ ProcessWithdrawal(c, "idle")
          \/ CompleteWithdrawal(c)
    BY <1>9 DEF PayoutNext
  <2>0. PICK w : w = call[c].ref
    OBVIOUS
  <2>2. call[c].at \in {"manual_process", "manual_complete", "cancel", "process", "complete", "fail"}
          => w \in Withdrawals /\ Exists(w)
    BY <1>2, <2>0 DEF Remembers
  <2>3. CASE \E u \in Users, a \in Amounts : RequestWithdrawal(c, u, a)
    <3>1. PICK u \in Users, a \in Amounts : RequestWithdrawal(c, u, a)
      BY <2>3
    <3>2. HasWallet(u) /\ Found(u) \in DOMAIN wallet[u] /\ Found(u) \in Nat \ {0} /\ a \in Nat /\ a # 0
      BY <3>1, AmountsAssumption DEF RequestWithdrawal, Covers, HasWallet, Found, BooksTyped
    <3> QED
      BY <1>4, <1>6, <3>1, <3>2 DEF RequestWithdrawal
  <2>4. ASSUME NEW x \in Withdrawals, NEW m \in Methods, Escrow(c, x, m, AfterEscrow(m))
        PROVE  WithdrawalsTyped' /\ CallsTyped'
    <3> DEFINE row == [status |-> "pending", user |-> call[c].user, row |-> call[c].row,
                       amount |-> call[c].amount, method |-> m]
    <3>1. row \in WithdrawalRow /\ row.row \in DOMAIN wallet[row.user]
      BY <1>2, <2>4, MethodsAssumption DEF Escrow, CallRecord, Remembers, WithdrawalRow, WithdrawalStatus
    <3>2. withdrawal' = [withdrawal EXCEPT ![x] = row] /\ GoOn(c, AfterEscrow(m), x)
      BY <2>4 DEF Escrow
    <3>3. AfterEscrow(m) \in {"idle", "manual_process"}
      BY DEF AfterEscrow
    <3> HIDE DEF row
    <3>4. WithdrawalsTyped' /\ WithdrawalsStay /\ Exists(x)'
      BY <1>1, <3>1, <3>2, RowWritten DEF WithdrawalsTyped
    <3> QED
      BY <1>5, <3>2, <3>3, <3>4
  <2>5. ASSUME NEW step \in {"manual_process", "manual_complete", "process", "complete"},
               NEW status \in WithdrawalStatus, NEW next \in {"idle", "manual_complete"},
               Update(c, step, status, next)
        PROVE  WithdrawalsTyped' /\ CallsTyped'
    <3>1. w \in Withdrawals /\ Exists(w) /\ SetStatus(w, status) /\ GoOn(c, next, w)
      BY <2>0, <2>2, <2>5 DEF Update
    <3>2. WithdrawalsTyped' /\ WithdrawalsStay /\ Exists(w)'
      BY <1>1, <3>1, StatusWritten DEF WithdrawalsTyped, SetStatus
    <3> QED
      BY <1>5, <3>1, <3>2
  <2>6. ASSUME NEW x \in Withdrawals, NEW m \in {"cancel", "process", "complete", "fail"}, ReadWithdrawal(c, x, m)
        PROVE  WithdrawalsTyped' /\ CallsTyped'
    <3>1. Exists(x)
      <4>1. "none" \notin Allowed(m)
        BY DEF Allowed
      <4> QED
        BY <2>6, <4>1 DEF ReadWithdrawal, Status
    <3>2. WithdrawalsTyped' /\ WithdrawalsStay /\ GoOn(c, m, x)
      BY <1>6, <2>6 DEF ReadWithdrawal
    <3> QED
      BY <1>5, <3>1, <3>2 DEF WithdrawalsStay
  <2>7. ASSUME NEW status \in {"cancelled", "failed"}, call[c].at \in {"cancel", "fail"},
               Refund(w, status), GoOn(c, "idle", NoWithdrawal)
        PROVE  WithdrawalsTyped' /\ CallsTyped'
    <3>1. /\ w \in Withdrawals /\ Exists(w) /\ SetStatus(w, status)
          /\ status \in WithdrawalStatus
          /\ Leave(c)
      BY <2>2, <2>7 DEF Refund, WithdrawalStatus, GoOn, Leave
    <3>2. WithdrawalsTyped' /\ WithdrawalsStay
      BY <1>1, <3>1, StatusWritten DEF SetStatus
    <3> QED
      BY <1>3, <3>1, <3>2
  <2> QED
    BY <2>0, <2>1, <2>3, <2>4, <2>5, <2>6, <2>7
    DEF ManualProcess, ManualComplete, ProcessWithdrawal, CompleteWithdrawal, CancelWithdrawal,
        FailWithdrawal, WithdrawalStatus
<1> QED
  BY <1>7, <1>8, <1>9 DEF Next

(***************************************************************************)
(* The invariant: TypeOK, strengthened by LedgerExplainsWallet.            *)
(***************************************************************************)
BooksInvariant == TypeOK /\ LedgerExplainsWallet

LEMMA BooksBegin == Init => BooksInvariant
<1> SUFFICES ASSUME Init PROVE BooksInvariant
  OBVIOUS
<1>1. BooksTyped /\ LedgerExplainsWallet
  BY DEF Init, BooksTyped, LedgerExplainsWallet
<1>2. WithdrawalsTyped
  BY DEF Init, WithdrawalsTyped, Exists
<1>3. CallsTyped
  <2>1. Idle.at = "idle"
    BY DEF Idle
  <2> QED
    BY <2>1, IdleTyped DEF Init, CallsTyped, Remembers
<1> QED
  BY <1>1, <1>2, <1>3 DEF BooksInvariant, TypeOK

LEMMA BooksStay == BooksInvariant /\ [Next]_payoutVars => BooksInvariant'
<1> SUFFICES ASSUME BooksInvariant, [Next]_payoutVars PROVE BooksInvariant'
  OBVIOUS
<1>1. TypeOK /\ LedgerExplainsWallet /\ BooksKept
  BY DEF BooksInvariant, BooksKept, TypeOK
<1>2. TypeOK'
  BY <1>1, TypeStep
<1>3. LedgerExplainsWallet'
  BY <1>1, StepKinds DEF BooksKept
<1> QED
  BY <1>2, <1>3 DEF BooksInvariant

THEOREM BooksInvariantHolds == Spec => []BooksInvariant
BY BooksBegin, BooksStay, PTL DEF Spec

(***************************************************************************)
(* Every row, sum and call keeps its type, and what a call remembers - the *)
(* wallet row findWalletByUser found, the withdrawal findWithdrawal read - *)
(* is still in the database when the call writes it.                       *)
(***************************************************************************)
THEOREM TypeCorrect == Spec => []TypeOK
<1>1. BooksInvariant => TypeOK
  BY DEF BooksInvariant
<1> QED
  BY <1>1, BooksInvariantHolds, PTL

(***************************************************************************)
(* For any number of users and of concurrent calls of the wallet and       *)
(* payout services, and wherever one of them dies, every balance is the    *)
(* sum of its transaction rows.                                            *)
(***************************************************************************)
THEOREM LedgerAlwaysExplains == Spec => []LedgerExplainsWallet
<1>1. BooksInvariant => LedgerExplainsWallet
  BY DEF BooksInvariant
<1> QED
  BY <1>1, BooksInvariantHolds, PTL

-----------------------------------------------------------------------------
(***************************************************************************)
(* The overdraft.  A call holds a row once it has checked the balance of   *)
(* it and still has its debit to do.  A row keeps room for the debits of   *)
(* those that hold it.                                                     *)
(***************************************************************************)
Held == {"debit", "usage", "escrow"}
Holds(c) == call[c].at \in Held
HoldersOf(u, i) == {c \in Calls : Holds(c) /\ call[c].user = u /\ call[c].row = i}
Dearest == Max(Amounts)

AmountHeld == [c \in Calls |-> call[c].amount]

OverdraftInvariant ==
  /\ \A c \in Calls : Holds(c) => call[c].amount <= Dearest
  /\ \A u \in Users : \A i \in DOMAIN wallet[u] : Room(Calls, Dearest, HoldersOf(u, i), AmountHeld, wallet[u][i].balance)

LEMMA DearestIsGreatest == Dearest \in Nat /\ \A a \in Amounts : a <= Dearest
<1>1. IsFiniteSet(Amounts) /\ Amounts # {} /\ \A a \in Amounts : a \in Nat /\ a \in Int
  BY AmountsAssumption
<1>2. Max(Amounts) \in Amounts /\ \A a \in Amounts : a <= Max(Amounts)
  BY <1>1, MaxIsGreatest
<1> QED
  BY <1>1, <1>2 DEF Dearest

-----------------------------------------------------------------------------
(***************************************************************************)
(* What a step does to the calls that hold a row: one of them enters, one  *)
(* leaves, or the rows of all of them are credited or left alone.          *)
(***************************************************************************)
RowsGrow ==
  \A u \in Users : \A i \in DOMAIN wallet'[u] :
    IF i \in DOMAIN wallet[u] THEN wallet'[u][i].balance >= wallet[u][i].balance
                              ELSE wallet'[u][i].balance >= 0

OthersWait(d) == \A c \in Calls \ {d} : call'[c] = call[c]

Enters(d) ==
  /\ OthersWait(d) /\ UNCHANGED wallet
  /\ Holds(d)' /\ call'[d].user \in Users /\ call'[d].row \in DOMAIN wallet[call'[d].user]
  /\ wallet[call'[d].user][call'[d].row].balance >= call'[d].amount
  /\ Holds(d) => call'[d].amount = call[d].amount
  /\ call'[d].amount <= Dearest

Pays(d) ==
  \A u \in Users : \A i \in DOMAIN wallet'[u] :
    /\ i \in DOMAIN wallet[u]
    /\ wallet'[u][i].balance = IF u = call[d].user /\ i = call[d].row
                                 THEN wallet[u][i].balance - call[d].amount ELSE wallet[u][i].balance

Leaves(d) == OthersWait(d) /\ ~Holds(d)' /\ Holds(d) /\ Pays(d)
Quits(d) == OthersWait(d) /\ ~Holds(d)' /\ UNCHANGED wallet
Rests(d) == OthersWait(d) /\ ~Holds(d)' /\ ~Holds(d) /\ RowsGrow

LEMMA RowTypes ==
  ASSUME NEW w \in [Users -> Seq(WalletRow)], NEW u \in Users, NEW i \in DOMAIN w[u]
  PROVE  w[u][i].balance \in Int
<1>1. w[u] \in Seq(WalletRow) /\ w[u][i] \in WalletRow
  OBVIOUS
<1> QED
  BY <1>1 DEF WalletRow

LEMMA BalanceTypes ==
  BooksInvariant => wallet \in [Users -> Seq(WalletRow)] /\ \A u \in Users : \A i \in DOMAIN wallet[u] : wallet[u][i].balance \in Int
  BY RowTypes DEF BooksInvariant, TypeOK, BooksTyped

LEMMA BalanceTypesLater ==
  BooksInvariant' => wallet' \in [Users -> Seq(WalletRow)] /\ \A u \in Users : \A i \in DOMAIN wallet'[u] : wallet'[u][i].balance \in Int
  BY RowTypes DEF BooksInvariant, TypeOK, BooksTyped

LEMMA EntersKeeps ==
  ASSUME BooksInvariant, BooksInvariant', OverdraftInvariant, NEW d \in Calls, Enters(d)
  PROVE  OverdraftInvariant'
<1> DEFINE a == AmountHeld
           a2 == AmountHeld'
<1>1. /\ a \in [Calls -> Nat] /\ a2 \in [Calls -> Nat] /\ a[d] = call[d].amount /\ a2[d] = call'[d].amount
      /\ \A c \in Calls \ {d} : a2[c] = a[c]
  BY DEF AmountHeld, BooksInvariant, TypeOK, CallsTyped, CallRecord, Enters, OthersWait
<1>2. \A c \in Calls : Holds(c)' => call'[c].amount <= Dearest
  BY DEF Enters, OthersWait, Holds, OverdraftInvariant
<1>3. ASSUME NEW u \in Users, NEW i \in DOMAIN wallet'[u]
      PROVE  Room(Calls, Dearest, HoldersOf(u, i)', a2, wallet'[u][i].balance)
  <2> DEFINE b == wallet[u][i].balance
             Q == HoldersOf(u, i)
  <2>1. i \in DOMAIN wallet[u] /\ wallet'[u][i].balance = b /\ b \in Int /\ Room(Calls, Dearest, Q, a, b)
    BY <1>3, BalanceTypes DEF Enters, OverdraftInvariant
  <2>2. Q \in SUBSET Calls /\ HoldersOf(u, i)' \in SUBSET Calls
    BY DEF HoldersOf
  <2>3. CASE u = call'[d].user /\ i = call'[d].row
    <3>1. d \in HoldersOf(u, i)' /\ b >= a2[d]
      BY <1>1, <2>3 DEF HoldersOf, Enters
    <3> HIDE DEF a2, b
    <3> QED
      BY <1>1, <2>1, <2>2, <3>1, RoomToEnter, CallsAssumption, DearestIsGreatest
  <2>4. CASE ~(u = call'[d].user /\ i = call'[d].row)
    <3>1. HoldersOf(u, i)' = Q \ {d}
      BY <2>4 DEF HoldersOf, Holds, Enters, OthersWait
    <3>2. CASE d \in Q
      <4>1. a[d] <= Dearest /\ a[d] \in Nat /\ b >= b - a[d]
        BY <1>1, <2>1, <3>2 DEF HoldersOf, OverdraftInvariant
      <4> HIDE DEF a, a2, b, Q
      <4> QED
        BY <1>1, <2>1, <2>2, <3>1, <3>2, <4>1, RoomToLeave, CallsAssumption, DearestIsGreatest
    <3>3. CASE d \notin Q
      <4>1. HoldersOf(u, i)' = Q /\ b >= b /\ \A c \in Q : a2[c] = a[c]
        BY <1>1, <2>1, <2>2, <3>1, <3>3
      <4> HIDE DEF a, a2, b, Q
      <4> QED
        BY <1>1, <2>1, <2>2, <4>1, RoomStays, CallsAssumption, DearestIsGreatest
    <3> QED
      BY <3>2, <3>3
  <2> QED
    BY <2>3, <2>4
<1>4. Dearest' = Dearest
  BY DEF Dearest
<1> QED
  BY <1>2, <1>3, <1>4 DEF OverdraftInvariant, Room

LEMMA LeavesKeeps ==
  ASSUME BooksInvariant, BooksInvariant', OverdraftInvariant, NEW d \in Calls, Leaves(d) \/ Quits(d)
  PROVE  OverdraftInvariant'
<1> DEFINE a == AmountHeld
           a2 == AmountHeld'
<1>1. /\ a \in [Calls -> Nat] /\ a2 \in [Calls -> Nat] /\ a[d] = call[d].amount
      /\ \A c \in Calls \ {d} : a2[c] = a[c]
  BY DEF AmountHeld, BooksInvariant, TypeOK, CallsTyped, CallRecord, Leaves, Quits, OthersWait
<1>2. \A c \in Calls : Holds(c)' => call'[c].amount <= Dearest
  BY DEF Leaves, Quits, OthersWait, Holds, OverdraftInvariant
<1>3. ASSUME NEW u \in Users, NEW i \in DOMAIN wallet'[u]
      PROVE  Room(Calls, Dearest, HoldersOf(u, i)', a2, wallet'[u][i].balance)
  <2> DEFINE b == wallet[u][i].balance
             b2 == wallet'[u][i].balance
             Q == HoldersOf(u, i)
  <2> SUFFICES Room(Calls, Dearest, HoldersOf(u, i)', a2, b2)
    OBVIOUS
  <2>1. i \in DOMAIN wallet[u] /\ b \in Int /\ b2 \in Int /\ Room(Calls, Dearest, Q, a, b)
    BY <1>3, BalanceTypes, BalanceTypesLater DEF Leaves, Quits, Pays, OverdraftInvariant
  <2>2. Q \in SUBSET Calls /\ HoldersOf(u, i)' = Q \ {d}
    BY DEF HoldersOf, Holds, Leaves, Quits, OthersWait
  <2>3. CASE d \in Q
    <3>1. a[d] <= Dearest /\ a[d] \in Nat
      BY <1>1, <2>3 DEF HoldersOf, OverdraftInvariant
    <3>2. b2 >= b - a[d]
      BY <1>1, <1>3, <2>1, <2>3, <3>1 DEF Leaves, Quits, Pays, HoldersOf
    <3> HIDE DEF a, a2, b, b2, Q
    <3> QED
      BY <1>1, <2>1, <2>2, <2>3, <3>1, <3>2, RoomToLeave, CallsAssumption, DearestIsGreatest
  <2>4. CASE d \notin Q
    <3>1. b2 >= b /\ HoldersOf(u, i)' = Q /\ \A c \in Q : a2[c] = a[c]
      BY <1>1, <1>3, <2>1, <2>2, <2>4 DEF Leaves, Quits, Pays, HoldersOf
    <3> HIDE DEF a, a2, b, b2, Q
    <3> QED
      BY <1>1, <2>1, <2>2, <3>1, RoomStays, CallsAssumption, DearestIsGreatest
  <2> QED
    BY <2>3, <2>4
<1>4. Dearest' = Dearest
  BY DEF Dearest
<1> QED
  BY <1>2, <1>3, <1>4 DEF OverdraftInvariant, Room

LEMMA RestsKeeps ==
  ASSUME BooksInvariant, BooksInvariant', OverdraftInvariant, RowsGrow,
         \A c \in Calls : call'[c] = call[c] \/ (~Holds(c) /\ ~Holds(c)')
  PROVE  OverdraftInvariant'
<1> DEFINE a == AmountHeld
           a2 == AmountHeld'
<1>1. /\ a \in [Calls -> Nat] /\ a2 \in [Calls -> Nat]
      /\ \A c \in Calls : Holds(c) => a2[c] = a[c]
  BY DEF AmountHeld, BooksInvariant, TypeOK, CallsTyped, CallRecord, Holds
<1>2. \A c \in Calls : Holds(c)' => call'[c].amount <= Dearest
  BY DEF Holds, OverdraftInvariant
<1>3. ASSUME NEW u \in Users, NEW i \in DOMAIN wallet'[u]
      PROVE  Room(Calls, Dearest, HoldersOf(u, i)', a2, wallet'[u][i].balance)
  <2> DEFINE b == wallet[u][i].balance
             b2 == wallet'[u][i].balance
             Q == HoldersOf(u, i)
  <2> SUFFICES Room(Calls, Dearest, HoldersOf(u, i)', a2, b2)
    OBVIOUS
  <2>1. b2 \in Int
    BY <1>3, BalanceTypesLater
  <2>2. Q \in SUBSET Calls /\ HoldersOf(u, i)' = Q /\ \A c \in Q : a2[c] = a[c]
    BY <1>1 DEF HoldersOf, Holds
  <2>3. CASE i \in DOMAIN wallet[u]
    <3>1. b2 >= b /\ b \in Int /\ Room(Calls, Dearest, Q, a, b)
      BY <1>3, <2>3, BalanceTypes DEF RowsGrow, OverdraftInvariant
    <3> HIDE DEF a, a2, b, b2, Q
    <3> QED
      BY <1>1, <2>1, <2>2, <3>1, RoomStays, CallsAssumption, DearestIsGreatest
  <2>4. CASE i \notin DOMAIN wallet[u]
    <3>1. Q = {}
      BY <2>4 DEF HoldersOf, Holds, Held, BooksInvariant, TypeOK, CallsTyped, Remembers
    <3>2. b2 \in Nat
      BY <1>3, <2>1, <2>4 DEF RowsGrow
    <3> HIDE DEF a2, b2, Q
    <3> QED
      BY <2>2, <3>1, <3>2, NoOneHolds, CallsAssumption, DearestIsGreatest
  <2> QED
    BY <2>3, <2>4
<1>4. Dearest' = Dearest
  BY DEF Dearest
<1> QED
  BY <1>2, <1>3, <1>4 DEF OverdraftInvariant, Room

\* What an update of a balance, and a new wallet, do to the balances.
LEMMA BalanceUpdated ==
  ASSUME BooksInvariant, NEW u \in Users, NEW i \in DOMAIN wallet[u], NEW b \in Int, NEW e \in Int, NEW s \in Int,
         AddToWallet(u, i, b, e, s)
  PROVE  \A v \in Users : \A j \in DOMAIN wallet'[v] :
           /\ j \in DOMAIN wallet[v]
           /\ wallet'[v][j].balance = IF v = u /\ j = i THEN wallet[v][j].balance + b ELSE wallet[v][j].balance
<1>1. wallet \in [Users -> Seq(WalletRow)]
  BY DEF BooksInvariant, TypeOK, BooksTyped
<1>2. /\ wallet' \in [Users -> Seq(WalletRow)]
      /\ \A v \in Users : Len(wallet'[v]) = Len(wallet[v])
      /\ wallet'[u][i] = [balance |-> wallet[u][i].balance + b,
                          earned |-> wallet[u][i].earned + e,
                          spent |-> wallet[u][i].spent + s]
      /\ \A v \in Users : \A j \in DOMAIN wallet[v] : v # u \/ j # i => wallet'[v][j] = wallet[v][j]
  BY <1>1, AddToWalletEffect DEF AddToWallet
<1> QED
  BY <1>1, <1>2

LEMMA CreditGrows ==
  ASSUME BooksInvariant, NEW u \in Users, NEW i \in DOMAIN wallet[u], NEW b \in Nat, NEW e \in Int, NEW s \in Int,
         AddToWallet(u, i, b, e, s)
  PROVE  RowsGrow
<1>0. b \in Int
  OBVIOUS
<1>1. \A v \in Users : \A j \in DOMAIN wallet'[v] :
        /\ j \in DOMAIN wallet[v]
        /\ wallet'[v][j].balance = IF v = u /\ j = i THEN wallet[v][j].balance + b ELSE wallet[v][j].balance
  BY <1>0, BalanceUpdated
<1>2. \A v \in Users : \A j \in DOMAIN wallet[v] : wallet[v][j].balance \in Int
  BY BalanceTypes
<1> QED
  BY <1>1, <1>2 DEF RowsGrow

LEMMA NewWalletGrows ==
  ASSUME BooksInvariant, NEW u \in Users, NEW a \in Nat, InsertWallet(u, a)
  PROVE  RowsGrow
<1> DEFINE row == NewWallet(a)
<1>1. wallet' = [wallet EXCEPT ![u] = Append(wallet[u], row)] /\ row.balance = a /\ wallet \in [Users -> Seq(WalletRow)]
  BY BalanceTypes DEF InsertWallet, NewWallet
<1>2. ASSUME NEW v \in Users, NEW j \in DOMAIN wallet'[v]
      PROVE  IF j \in DOMAIN wallet[v] THEN wallet'[v][j].balance >= wallet[v][j].balance ELSE wallet'[v][j].balance >= 0
  <2>1. CASE v # u
    BY <1>1, <1>2, <2>1, BalanceTypes
  <2>2. CASE v = u
    <3>1. wallet'[v] = Append(wallet[v], row) /\ wallet[v] \in Seq(WalletRow)
      BY <1>1, <2>2
    <3> HIDE DEF row
    <3>2. wallet'[v][j] = IF j \in DOMAIN wallet[v] THEN wallet[v][j] ELSE row
      BY <1>2, <3>1
    <3> QED
      BY <1>1, <3>2, BalanceTypes
  <2> QED
    BY <2>1, <2>2
<1> QED
  BY <1>2 DEF RowsGrow

LEMMA SameWalletGrows == BooksInvariant /\ UNCHANGED wallet => RowsGrow
  BY BalanceTypes DEF RowsGrow

LEMMA PaysAmount ==
  ASSUME BooksInvariant, NEW d \in Calls, Holds(d), NEW s \in Int,
         AddToWallet(call[d].user, call[d].row, -call[d].amount, 0, s)
  PROVE  Pays(d)
<1> DEFINE u == call[d].user
           i == call[d].row
           b == -call[d].amount
<1>1. u \in Users /\ i \in DOMAIN wallet[u] /\ b \in Int /\ call[d].amount \in Int /\ 0 \in Int
  BY DEF BooksInvariant, TypeOK, CallsTyped, CallRecord, Remembers, Holds, Held
<1>2. AddToWallet(u, i, b, 0, s)
  OBVIOUS
<1> HIDE DEF u, i, b
<1>3. \A v \in Users : \A j \in DOMAIN wallet'[v] :
        /\ j \in DOMAIN wallet[v]
        /\ wallet'[v][j].balance = IF v = u /\ j = i THEN wallet[v][j].balance + b ELSE wallet[v][j].balance
  BY <1>1, <1>2, BalanceUpdated
<1> QED
  BY <1>1, <1>3, BalanceTypes DEF Pays, u, i, b

LEMMA IdleHoldsNothing == Idle.at \notin Held
  BY DEF Idle, Held

\* The call goes on to a step at which it does not hold a row.
LEMMA GoesOnFree ==
  ASSUME BooksInvariant, NEW d \in Calls, NEW w, NEW step, step \notin Held, GoOn(d, step, w)
  PROVE  OthersWait(d) /\ ~Holds(d)'
<1>1. call \in [Calls -> CallRecord]
  BY DEF BooksInvariant, TypeOK, CallsTyped
<1>2. \A c \in Calls \ {d} : call'[c] = call[c]
  BY <1>1 DEF GoOn
<1>3. call'[d].at \notin Held
  BY <1>1, IdleHoldsNothing DEF GoOn, CallRecord
<1> QED
  BY <1>2, <1>3 DEF OthersWait, Holds

LEMMA LeavesFree ==
  ASSUME BooksInvariant, NEW d \in Calls, Leave(d)
  PROVE  OthersWait(d) /\ ~Holds(d)'
  BY IdleHoldsNothing DEF Leave, OthersWait, Holds, BooksInvariant, TypeOK, CallsTyped

LEMMA EntersRow ==
  ASSUME BooksInvariant, NEW d \in Calls, NEW step \in Held, NEW u \in Users, NEW a \in Nat, a <= Dearest,
         Covers(u, a), Enter(d, step, u, Found(u), a), UNCHANGED wallet, Holds(d) => a = call[d].amount
  PROVE  Enters(d)
<1> DEFINE k == [at |-> step, user |-> u, row |-> Found(u), amount |-> a, ref |-> NoWithdrawal]
<1>1. /\ call \in [Calls -> CallRecord] /\ wallet[u] \in Seq(WalletRow) /\ wallet[u] # <<>>
      /\ Balance(u) >= a
  BY DEF BooksInvariant, TypeOK, CallsTyped, BooksTyped, Covers, HasWallet
<1>2. call' = [call EXCEPT ![d] = k]
  BY DEF Enter
<1>3. call'[d] = k /\ OthersWait(d)
  BY <1>1, <1>2 DEF OthersWait
<1>4. Found(u) \in DOMAIN wallet[u]
  BY <1>1 DEF Found
<1> QED
  BY <1>1, <1>3, <1>4 DEF Enters, Holds, Balance

LEMMA OverdraftStep ==
  ASSUME BooksInvariant, BooksInvariant', OverdraftInvariant, [Next]_payoutVars
  PROVE  OverdraftInvariant'
<1>0. \A a \in Amounts : a \in Nat /\ a <= Dearest /\ a > 0
  BY AmountsAssumption, DearestIsGreatest
<1>1. ASSUME UNCHANGED <<wallet, call>> PROVE OverdraftInvariant'
  BY <1>1, SameWalletGrows, RestsKeeps
<1>2. ASSUME NEW d \in Calls, Rests(d) PROVE OverdraftInvariant'
  BY <1>2, RestsKeeps DEF Rests, OthersWait
<1>3. ASSUME NEW d \in Calls, Quits(d) \/ Leaves(d) PROVE OverdraftInvariant'
  BY <1>3, LeavesKeeps
<1>4. ASSUME NEW d \in Calls, Enters(d) PROVE OverdraftInvariant'
  BY <1>4, EntersKeeps
<1>5. ASSUME NEW d \in Calls, NEW step, step \notin Held, NEW w, GoOn(d, step, w), UNCHANGED wallet PROVE OverdraftInvariant'
  BY <1>3, <1>5, GoesOnFree DEF Quits
<1>6. ASSUME NEW d \in Calls, Leave(d), UNCHANGED wallet PROVE OverdraftInvariant'
  BY <1>3, <1>6, LeavesFree DEF Quits
<1>7. ASSUME NEW u \in Users, NEW t \in CreditTypes, NEW a \in Amounts, CreditWallet(u, t, a) PROVE OverdraftInvariant'
  <2>1. a \in Nat /\ a \in Int /\ 0 \in Int /\ call' = call
    BY <1>0, <1>7 DEF CreditWallet
  <2>2. CASE ~HasWallet(u)
    <3>1. InsertWallet(u, a)
      BY <1>7, <2>2 DEF CreditWallet
    <3> QED
      BY <2>1, <3>1, NewWalletGrows, RestsKeeps
  <2>3. CASE HasWallet(u)
    <3>1. AddToWallet(u, Found(u), a, a, 0) /\ Found(u) \in DOMAIN wallet[u]
      BY <1>7, <2>3 DEF CreditWallet, HasWallet, Found, BooksInvariant, TypeOK, BooksTyped
    <3> QED
      BY <2>1, <3>1, CreditGrows, RestsKeeps
  <2> QED
    BY <2>2, <2>3
<1>8. ASSUME NEW d \in Calls, NEW u \in Users, GetOrCreateFind(d, u) PROVE OverdraftInvariant'
  <2>1. OthersWait(d) /\ ~Holds(d)' /\ UNCHANGED wallet
    BY <1>8 DEF GetOrCreateFind, Enter, OthersWait, Holds, Held, BooksInvariant, TypeOK, CallsTyped
  <2> QED
    BY <1>3, <2>1 DEF Quits
<1>9. ASSUME NEW d \in Calls, CreateWallet(d) PROVE OverdraftInvariant'
  <2>1. call[d].user \in Users /\ InsertWallet(call[d].user, 0) /\ Leave(d) /\ ~Holds(d)
    BY <1>9 DEF CreateWallet, Holds, Held, BooksInvariant, TypeOK, CallsTyped, CallRecord
  <2> QED
    BY <1>2, <2>1, NewWalletGrows, LeavesFree DEF Rests
<1>10. ASSUME NEW d \in Calls, NEW u \in Users, NEW a \in Amounts, DebitCheck(d, u, a) PROVE OverdraftInvariant'
  BY <1>0, <1>4, <1>10, EntersRow DEF DebitCheck, Holds, Held
<1>11. ASSUME NEW d \in Calls, DebitWallet(d) PROVE OverdraftInvariant'
  <2>1. Holds(d) /\ call[d].amount \in Int /\ Leave(d)
        /\ AddToWallet(call[d].user, call[d].row, -call[d].amount, 0, call[d].amount)
    BY <1>11 DEF DebitWallet, Holds, Held, BooksInvariant, TypeOK, CallsTyped, CallRecord
  <2> QED
    BY <1>3, <2>1, PaysAmount, LeavesFree DEF Leaves
<1>12. ASSUME NEW d \in Calls, NEW u \in Users, NEW needed \in Amounts, ApplyUsage(d, u, needed) PROVE OverdraftInvariant'
  <2> DEFINE a == IF needed <= Balance(u) THEN needed ELSE Balance(u)
  <2>1. HasWallet(u) /\ Balance(u) > 0 /\ Enter(d, "usage", u, Found(u), a) /\ UNCHANGED wallet /\ ~Holds(d)
    BY <1>12 DEF ApplyUsage, Holds, Held
  <2>2. Balance(u) \in Int
    <3>1. Found(u) \in DOMAIN wallet[u]
      BY <2>1 DEF HasWallet, Found, BooksInvariant, TypeOK, BooksTyped
    <3> QED
      BY <3>1, BalanceTypes DEF Balance
  <2>3. a \in Nat /\ a <= Dearest /\ Covers(u, a)
    BY <1>0, <2>1, <2>2, DearestIsGreatest DEF Covers
  <2>4. "usage" \in Held
    BY DEF Held
  <2> HIDE DEF a
  <2> QED
    BY <1>4, <2>1, <2>3, <2>4, EntersRow
<1>13. ASSUME NEW d \in Calls, ApplyUsageDebit(d) PROVE OverdraftInvariant'
  <2>1. /\ Holds(d) /\ call[d].user \in Users /\ call[d].amount \in Nat /\ call[d].amount <= Dearest /\ UNCHANGED wallet
        /\ "debit" \in Held
    BY <1>13 DEF ApplyUsageDebit, Holds, Held, BooksInvariant, TypeOK, CallsTyped, CallRecord, OverdraftInvariant
  <2>2. CASE Covers(call[d].user, call[d].amount)
    <3>1. Enter(d, "debit", call[d].user, Found(call[d].user), call[d].amount)
      BY <1>13, <2>2 DEF ApplyUsageDebit
    <3> QED
      BY <1>4, <2>1, <2>2, <3>1, EntersRow
  <2>3. CASE ~Covers(call[d].user, call[d].amount)
    BY <1>6, <1>13, <2>3 DEF ApplyUsageDebit
  <2> QED
    BY <2>2, <2>3
<1>14. ASSUME NEW d \in Calls, Abandon(d) PROVE OverdraftInvariant'
  BY <1>6, <1>14 DEF Abandon
<1>15. ASSUME NEW d \in Calls, NEW u \in Users, NEW a \in Amounts, RequestWithdrawal(d, u, a) PROVE OverdraftInvariant'
  BY <1>0, <1>4, <1>15, EntersRow DEF RequestWithdrawal, Holds, Held
<1>16. ASSUME NEW d \in Calls, NEW w \in Withdrawals, NEW m \in Methods, Escrow(d, w, m, AfterEscrow(m)) PROVE OverdraftInvariant'
  <2>1. Holds(d) /\ AddToWallet(call[d].user, call[d].row, -call[d].amount, 0, 0) /\ GoOn(d, AfterEscrow(m), w)
    BY <1>16 DEF Escrow, Holds, Held
  <2>2. AfterEscrow(m) \notin Held
    BY DEF AfterEscrow, Held
  <2> QED
    BY <1>3, <2>1, <2>2, PaysAmount, GoesOnFree DEF Leaves
<1>17. ASSUME NEW d \in Calls, NEW step, NEW status, NEW next, next \notin Held, Update(d, step, status, next) PROVE OverdraftInvariant'
  BY <1>5, <1>17 DEF Update
<1>18. ASSUME NEW d \in Calls, ManualProcess(d) \/ ManualComplete(d) \/ ProcessWithdrawal(d, "idle") \/ CompleteWithdrawal(d) PROVE OverdraftInvariant'
  BY <1>17, <1>18 DEF ManualProcess, ManualComplete, ProcessWithdrawal, CompleteWithdrawal, Held
<1>19. ASSUME NEW d \in Calls, NEW w \in Withdrawals, NEW m \in {"cancel", "process", "complete", "fail"}, ReadWithdrawal(d, w, m)
       PROVE  OverdraftInvariant'
  BY <1>5, <1>19 DEF ReadWithdrawal, Held
<1>20. ASSUME NEW d \in Calls, CancelWithdrawal(d) \/ FailWithdrawal(d) PROVE OverdraftInvariant'
  <2> DEFINE row == withdrawal[call[d].ref]
  <2>1. PICK status : Refund(call[d].ref, status)
    BY <1>20 DEF CancelWithdrawal, FailWithdrawal
  <2>2. ~Holds(d) /\ GoOn(d, "idle", NoWithdrawal) /\ "idle" \notin Held
    BY <1>20 DEF CancelWithdrawal, FailWithdrawal, Holds, Held
  <2>3. row.user \in Users /\ row.row \in DOMAIN wallet[row.user] /\ row.amount \in Nat /\ 0 \in Int
    BY <1>20 DEF CancelWithdrawal, FailWithdrawal, BooksInvariant, TypeOK, CallsTyped, Remembers, WithdrawalsTyped, WithdrawalRow, Exists
  <2>4. AddToWallet(row.user, row.row, row.amount, 0, 0)
    BY <2>1 DEF Refund, RefundAmount
  <2>5. RowsGrow
    BY <2>3, <2>4, CreditGrows
  <2> QED
    BY <1>2, <2>2, <2>5, GoesOnFree DEF Rests
<1>21. CASE WalletNext
  BY <1>7, <1>8, <1>9, <1>10, <1>11, <1>12, <1>13, <1>14, <1>21 DEF WalletNext
<1>22. CASE PayoutNext
  BY <1>15, <1>16, <1>18, <1>19, <1>20, <1>22 DEF PayoutNext
<1> QED
  BY <1>1, <1>21, <1>22 DEF Next, payoutVars

(***************************************************************************)
(* However the calls of the wallet and payout services interleave, and     *)
(* wherever one dies, a balance stays above one greatest amount for each   *)
(* call beside the first.                                                  *)
(***************************************************************************)
THEOREM OverdraftStaysBounded == Spec => []OverdraftBounded
<1>1. BooksInvariant /\ BooksInvariant' /\ OverdraftInvariant /\ [Next]_payoutVars => OverdraftInvariant'
  BY OverdraftStep
<1>2. Init => OverdraftInvariant
  BY IdleHoldsNothing DEF Init, OverdraftInvariant, Holds
<1>3. BooksInvariant /\ OverdraftInvariant => OverdraftBounded
  <2> SUFFICES ASSUME BooksInvariant, OverdraftInvariant, NEW u \in Users, NEW i \in DOMAIN wallet[u]
               PROVE  wallet[u][i].balance >= -(Cardinality(Calls) - 1) * Max(Amounts)
    BY DEF OverdraftBounded
  <2> DEFINE b == wallet[u][i].balance
             most == (Cardinality(Calls) - 1) * Dearest
  <2>1. AmountHeld \in [Calls -> Nat] /\ HoldersOf(u, i) \in SUBSET Calls /\ b \in Int /\ Room(Calls, Dearest, HoldersOf(u, i), AmountHeld, b)
    BY BalanceTypes DEF AmountHeld, HoldersOf, OverdraftInvariant, BooksInvariant, TypeOK, CallsTyped, CallRecord
  <2> HIDE DEF b
  <2>2. b >= -most
    BY <2>1, RoomBounds, CallsAssumption, DearestIsGreatest
  <2>3. Cardinality(Calls) - 1 \in Int /\ Dearest \in Int
    BY FS_CardinalityType, CallsAssumption, DearestIsGreatest
  <2>4. -(Cardinality(Calls) - 1) * Dearest = -most
    BY <2>3
  <2> QED
    BY <2>2, <2>4 DEF b, Dearest
<1> QED
  BY <1>1, <1>2, <1>3, BooksInvariantHolds, PTL DEF Spec

-----------------------------------------------------------------------------
(***************************************************************************)
(* One call at a time.  What a call has checked is still true when it      *)
(* acts on it, which is all that the contract of withdrawals needs.        *)
(***************************************************************************)
FundsOf(u) == IF HasWallet(u) THEN wallet[u][1].balance ELSE 0
HeldBy(w) == IF Exists(w) THEN withdrawal[w].amount ELSE 0

InPayout(c) == call[c].at # "idle"

StillTrue(c) ==
  LET k == call[c] IN
  /\ k.at \in {"debit", "escrow"} => HasWallet(k.user) /\ k.row = 1 /\ k.amount <= FundsOf(k.user)
  /\ k.at \in {"manual_process", "cancel", "process"} => Status(k.ref) = "pending"
  /\ k.at \in {"manual_complete", "complete"} => Status(k.ref) = "processing"
  /\ k.at = "fail" => Status(k.ref) \in {"pending", "processing"}

SerialInvariant ==
  /\ Alone
  /\ \A u \in Users : FundsOf(u) >= 0
  /\ \A w \in Withdrawals : Exists(w) => withdrawal[w].row = 1
  /\ \A c \in Calls : StillTrue(c)

(***************************************************************************)
(* What a step does to the funds of users and to the fates of withdrawals. *)
(***************************************************************************)
FundsStay == \A u \in Users : FundsOf(u)' = FundsOf(u)
OnlyFundsOf(u) == \A v \in Users \ {u} : FundsOf(v)' = FundsOf(v)
HeldStay == \A w \in Withdrawals : HeldBy(w)' = HeldBy(w)
FatesStay == \A w \in Withdrawals : Fate(w)' = Fate(w)
FateBecomes(w, g) == Fate(w)' = g /\ \A v \in Withdrawals \ {w} : Fate(v)' = Fate(v)

Still == FundsStay /\ HeldStay /\ FatesStay
Earns(u) == FundsOf(u)' >= FundsOf(u) /\ OnlyFundsOf(u) /\ HeldStay /\ FatesStay
Spends(u) == FundsOf(u)' \in 0 .. FundsOf(u) /\ OnlyFundsOf(u) /\ HeldStay /\ FatesStay
Takes(u, w) ==
  /\ Fate(w) = "unused" /\ FateBecomes(w, "held")
  /\ HeldBy(w)' \in 1 .. FundsOf(u) /\ \A v \in Withdrawals \ {w} : HeldBy(v)' = HeldBy(v)
  /\ FundsOf(u)' = FundsOf(u) - HeldBy(w)' /\ OnlyFundsOf(u)
PaysOut(w) == Fate(w) = "held" /\ FateBecomes(w, "paid") /\ FundsStay /\ HeldStay
Returns(u, w) ==
  /\ Fate(w) = "held" /\ FateBecomes(w, "returned") /\ HeldStay
  /\ FundsOf(u)' = FundsOf(u) + HeldBy(w) /\ OnlyFundsOf(u)

ContractStep ==
  \/ Still
  \/ \E u \in Users : Earns(u) \/ Spends(u) \/ \E w \in Withdrawals : Takes(u, w) \/ Returns(u, w)
  \/ \E w \in Withdrawals : PaysOut(w)

LEMMA ContractMaps ==
  ASSUME ContractStep
  PROVE  [Contract!Next]_(Contract!contractVars)
<1> DEFINE funds == [u \in Users |-> FundsOf(u)]
           held == [w \in Withdrawals |-> HeldBy(w)]
           fate == [w \in Withdrawals |-> Fate(w)]
<1>1. ASSUME Still PROVE UNCHANGED Contract!contractVars
  <2>1. funds' = funds /\ held' = held /\ fate' = fate
    BY <1>1 DEF Still, FundsStay, HeldStay, FatesStay
  <2> QED
    BY <2>1 DEF Contract!contractVars, FundsOf, HeldBy, HasWallet, Exists
<1>2. ASSUME NEW u \in Users, Earns(u) PROVE Contract!Earn(u)
  <2>1. funds'[u] >= funds[u] /\ funds' = [funds EXCEPT ![u] = funds'[u]] /\ held' = held /\ fate' = fate
    BY <1>2 DEF Earns, OnlyFundsOf, HeldStay, FatesStay
  <2> QED
    BY <2>1 DEF Contract!Earn, FundsOf, HeldBy, HasWallet, Exists
<1>3. ASSUME NEW u \in Users, Spends(u) PROVE Contract!Spend(u)
  <2>1. funds'[u] \in 0 .. funds[u] /\ funds' = [funds EXCEPT ![u] = funds'[u]] /\ held' = held /\ fate' = fate
    BY <1>3 DEF Spends, OnlyFundsOf, HeldStay, FatesStay
  <2> QED
    BY <2>1 DEF Contract!Spend, FundsOf, HeldBy, HasWallet, Exists
<1>4. ASSUME NEW u \in Users, NEW w \in Withdrawals, Takes(u, w) PROVE Contract!Hold(u, w)
  <2>1. /\ fate[w] = "unused" /\ fate' = [fate EXCEPT ![w] = "held"]
        /\ HeldBy(w)' \in 1 .. funds[u]
        /\ funds' = [funds EXCEPT ![u] = funds[u] - HeldBy(w)']
        /\ held' = [held EXCEPT ![w] = HeldBy(w)']
    BY <1>4 DEF Takes, OnlyFundsOf, FateBecomes
  <2> QED
    BY <2>1 DEF Contract!Hold, FundsOf, HeldBy, HasWallet, Exists
<1>5. ASSUME NEW w \in Withdrawals, PaysOut(w) PROVE Contract!Pay(w)
  <2>1. fate[w] = "held" /\ fate' = [fate EXCEPT ![w] = "paid"] /\ funds' = funds /\ held' = held
    BY <1>5 DEF PaysOut, FateBecomes, FundsStay, HeldStay
  <2> QED
    BY <2>1 DEF Contract!Pay, FundsOf, HeldBy, HasWallet, Exists
<1>6. ASSUME NEW u \in Users, NEW w \in Withdrawals, Returns(u, w) PROVE Contract!Return(u, w)
  <2>1. /\ fate[w] = "held" /\ fate' = [fate EXCEPT ![w] = "returned"] /\ held' = held
        /\ funds' = [funds EXCEPT ![u] = funds[u] + held[w]]
    BY <1>6 DEF Returns, OnlyFundsOf, FateBecomes, HeldStay
  <2> QED
    BY <2>1 DEF Contract!Return, FundsOf, HeldBy, HasWallet, Exists
<1> QED
  BY <1>1, <1>2, <1>3, <1>4, <1>5, <1>6 DEF ContractStep, Contract!Next

(***************************************************************************)
(* What the statements do to them.                                         *)
(***************************************************************************)
LEMMA FundsTypes == BooksInvariant => \A u \in Users : FundsOf(u) \in Int
<1> SUFFICES ASSUME BooksInvariant, NEW u \in Users, HasWallet(u) PROVE wallet[u][1].balance \in Int
  BY DEF FundsOf, HasWallet
<1>1. 1 \in DOMAIN wallet[u]
  BY DEF HasWallet, BooksInvariant, TypeOK, BooksTyped
<1> QED
  BY <1>1, BalanceTypes

LEMMA FundsTypesLater == BooksInvariant' => \A u \in Users : FundsOf(u)' \in Int
<1> SUFFICES ASSUME BooksInvariant', NEW u \in Users, HasWallet(u)' PROVE wallet'[u][1].balance \in Int
  BY DEF FundsOf, HasWallet
<1>1. 1 \in DOMAIN wallet'[u]
  BY DEF HasWallet, BooksInvariant, TypeOK, BooksTyped
<1> QED
  BY <1>1, BalanceTypesLater

LEMMA FundsAdded ==
  ASSUME BooksInvariant, NEW u \in Users, 1 \in DOMAIN wallet[u], NEW b \in Int, NEW e \in Int, NEW s \in Int,
         AddToWallet(u, 1, b, e, s)
  PROVE  HasWallet(u) /\ FundsOf(u)' = FundsOf(u) + b /\ OnlyFundsOf(u) /\ \A v \in Users : HasWallet(v)' = HasWallet(v)
<1>1. /\ \A v \in Users : \A j \in DOMAIN wallet'[v] :
           /\ j \in DOMAIN wallet[v]
           /\ wallet'[v][j].balance = IF v = u /\ j = 1 THEN wallet[v][j].balance + b ELSE wallet[v][j].balance
  BY BalanceUpdated
<1>2. wallet \in [Users -> Seq(WalletRow)]
  BY BalanceTypes
<1>3. /\ wallet' \in [Users -> Seq(WalletRow)]
      /\ \A v \in Users : Len(wallet'[v]) = Len(wallet[v])
  BY <1>2, AddToWalletEffect
<1>4. \A v \in Users : (HasWallet(v) <=> 1 \in DOMAIN wallet[v]) /\ (HasWallet(v)' <=> 1 \in DOMAIN wallet'[v])
  BY <1>2, <1>3 DEF HasWallet
<1>5. \A v \in Users : HasWallet(v)' = HasWallet(v)
  BY <1>2, <1>3 DEF HasWallet
<1> QED
  BY <1>1, <1>4, <1>5 DEF FundsOf, OnlyFundsOf

LEMMA FundsOpened ==
  ASSUME BooksInvariant, NEW u \in Users, NEW a \in Nat, InsertWallet(u, a)
  PROVE  /\ FundsOf(u)' = (IF HasWallet(u) THEN FundsOf(u) ELSE a) /\ OnlyFundsOf(u)
         /\ \A v \in Users : HasWallet(v) => HasWallet(v)'
<1> DEFINE row == NewWallet(a)
<1>1. wallet' = [wallet EXCEPT ![u] = Append(wallet[u], row)] /\ row.balance = a /\ row \in WalletRow /\ wallet \in [Users -> Seq(WalletRow)]
  BY BalanceTypes DEF InsertWallet, NewWallet, WalletRow
<1> HIDE DEF row
<1>2. wallet'[u] = Append(wallet[u], row) /\ wallet[u] \in Seq(WalletRow) /\ wallet'[u] # <<>>
  <2>1. wallet'[u] = Append(wallet[u], row) /\ wallet[u] \in Seq(WalletRow)
    BY <1>1
  <2>2. Len(wallet'[u]) = Len(wallet[u]) + 1 /\ Len(wallet[u]) \in Nat
    BY <1>1, <2>1
  <2> QED
    BY <2>1, <2>2
<1>3. wallet'[u][1] = IF wallet[u] # <<>> THEN wallet[u][1] ELSE row
  BY <1>2
<1>4. \A v \in Users \ {u} : wallet'[v] = wallet[v]
  BY <1>1
<1> QED
  BY <1>1, <1>2, <1>3, <1>4 DEF OnlyFundsOf, FundsOf, HasWallet

LEMMA StatusMoves ==
  ASSUME BooksInvariant, NEW w \in Withdrawals, Exists(w), NEW s \in WithdrawalStatus, SetStatus(w, s)
  PROVE  /\ Status(w)' = s /\ \A v \in Withdrawals \ {w} : Status(v)' = Status(v)
         /\ HeldStay
         /\ \A v \in Withdrawals : Exists(v)' = Exists(v) /\ (Exists(v) => withdrawal'[v].row = withdrawal[v].row)
<1>1. withdrawal \in [Withdrawals -> WithdrawalRow \union {NoWithdrawal}] /\ withdrawal[w] \in WithdrawalRow
  BY DEF BooksInvariant, TypeOK, WithdrawalsTyped, Exists
<1>2. withdrawal' = [withdrawal EXCEPT ![w] = [withdrawal[w] EXCEPT !.status = s]]
  BY DEF SetStatus
<1>3. [withdrawal[w] EXCEPT !.status = s] \in WithdrawalRow
  BY <1>1 DEF WithdrawalRow
<1>4. withdrawal'[w] # NoWithdrawal /\ withdrawal'[w].status = s /\ withdrawal'[w].amount = withdrawal[w].amount
      /\ withdrawal'[w].row = withdrawal[w].row
  BY <1>1, <1>2, <1>3, NoRowAssumption DEF WithdrawalRow
<1>5. \A v \in Withdrawals \ {w} : withdrawal'[v] = withdrawal[v]
  BY <1>1, <1>2
<1> QED
  BY <1>4, <1>5 DEF Status, Exists, HeldStay, HeldBy

LEMMA FateOf ==
  /\ \A w \in Withdrawals : Status(w) = "none" => Fate(w) = "unused"
  /\ \A w \in Withdrawals : Status(w) \in {"pending", "processing"} => Fate(w) = "held"
  /\ \A w \in Withdrawals : Status(w) = "completed" => Fate(w) = "paid"
  /\ \A w \in Withdrawals : Status(w) \in {"failed", "cancelled"} => Fate(w) = "returned"
BY DEF Fate, Status, Exists

LEMMA FateOfNext ==
  /\ \A w \in Withdrawals : Status(w)' = "none" => Fate(w)' = "unused"
  /\ \A w \in Withdrawals : Status(w)' \in {"pending", "processing"} => Fate(w)' = "held"
  /\ \A w \in Withdrawals : Status(w)' = "completed" => Fate(w)' = "paid"
  /\ \A w \in Withdrawals : Status(w)' \in {"failed", "cancelled"} => Fate(w)' = "returned"
  /\ \A w \in Withdrawals : Status(w)' = Status(w) => Fate(w)' = Fate(w)
BY DEF Fate, Status, Exists

LEMMA RowsStay ==
  UNCHANGED withdrawal => /\ HeldStay /\ FatesStay
                          /\ \A w : Status(w)' = Status(w)
                          /\ \A w \in Withdrawals : Exists(w)' = Exists(w) /\ withdrawal'[w] = withdrawal[w]
BY DEF HeldStay, FatesStay, HeldBy, Fate, Status, Exists

LEMMA WalletSame ==
  UNCHANGED wallet => FundsStay /\ \A u \in Users : HasWallet(u)' = HasWallet(u)
BY DEF FundsStay, FundsOf, HasWallet

(***************************************************************************)
(* Where a step leaves its call, and the others at rest.                   *)
(***************************************************************************)
LEMMA OthersRest ==
  ASSUME SerialInvariant, Alone', NEW c \in Calls, OthersWait(c), InPayout(c) \/ InPayout(c)'
  PROVE  \A d \in Calls \ {c} : StillTrue(d)'
<1> SUFFICES ASSUME NEW d \in Calls \ {c} PROVE call'[d].at = "idle"
  BY DEF StillTrue
<1>1. call'[d] = call[d]
  BY DEF OthersWait
<1> QED
  BY <1>1 DEF SerialInvariant, Alone, InPayout

LEMMA EnterGoes ==
  ASSUME BooksInvariant, NEW c \in Calls, NEW step, NEW u, NEW i, NEW a, Enter(c, step, u, i, a)
  PROVE  /\ OthersWait(c)
         /\ call'[c] = [at |-> step, user |-> u, row |-> i, amount |-> a, ref |-> NoWithdrawal]
BY DEF Enter, OthersWait, BooksInvariant, TypeOK, CallsTyped

LEMMA GoOnGoes ==
  ASSUME BooksInvariant, NEW c \in Calls, NEW step, NEW w, GoOn(c, step, w)
  PROVE  /\ OthersWait(c)
         /\ call'[c] = IF step = "idle" THEN Idle ELSE [call[c] EXCEPT !.at = step, !.ref = w]
BY DEF GoOn, OthersWait, BooksInvariant, TypeOK, CallsTyped

LEMMA GoesOn ==
  ASSUME BooksInvariant, NEW c \in Calls, NEW step, NEW w, step # "idle", GoOn(c, step, w)
  PROVE  OthersWait(c) /\ call'[c].at = step /\ call'[c].ref = w
<1>1. call \in [Calls -> CallRecord]
  BY DEF BooksInvariant, TypeOK, CallsTyped
<1>2. call' = [call EXCEPT ![c] = [call[c] EXCEPT !.at = step, !.ref = w]]
  BY DEF GoOn
<1> QED
  BY <1>1, <1>2 DEF OthersWait, CallRecord

LEMMA LeaveGoes ==
  ASSUME BooksInvariant, NEW c \in Calls, Leave(c)
  PROVE  OthersWait(c) /\ call'[c] = Idle
BY DEF Leave, OthersWait, BooksInvariant, TypeOK, CallsTyped

LEMMA IdleIsTrue ==
  ASSUME NEW c \in Calls, call'[c] = Idle
  PROVE  StillTrue(c)'
BY DEF StillTrue, Idle

LEMMA FundsAboveZero ==
  ASSUME BooksInvariant, SerialInvariant, ContractStep, BooksInvariant'
  PROVE  \A u \in Users : FundsOf(u)' >= 0
<1>1. \A u \in Users : FundsOf(u) \in Int /\ FundsOf(u) >= 0
  BY FundsTypes DEF SerialInvariant
<1>2. CASE Still
  BY <1>1, <1>2 DEF Still, FundsStay
<1>3. ASSUME NEW u \in Users, NEW v \in Users, v # u, OnlyFundsOf(u) PROVE FundsOf(v)' >= 0
  BY <1>1, <1>3 DEF OnlyFundsOf
<1>4. ASSUME NEW u \in Users, Earns(u) \/ Spends(u) PROVE FundsOf(u)' >= 0 /\ OnlyFundsOf(u)
  <2>1. FundsOf(u)' \in Int
    BY FundsTypesLater
  <2> QED
    BY <1>1, <1>4, <2>1 DEF Earns, Spends
<1>5. ASSUME NEW u \in Users, NEW w \in Withdrawals, Takes(u, w) PROVE FundsOf(u)' >= 0 /\ OnlyFundsOf(u)
  BY <1>1, <1>5 DEF Takes
<1>6. ASSUME NEW u \in Users, NEW w \in Withdrawals, Returns(u, w) PROVE FundsOf(u)' >= 0 /\ OnlyFundsOf(u)
  <2>1. HeldBy(w) \in Nat
    BY DEF HeldBy, Exists, BooksInvariant, TypeOK, WithdrawalsTyped, WithdrawalRow
  <2> QED
    BY <1>1, <1>6, <2>1 DEF Returns
<1>7. ASSUME NEW w \in Withdrawals, PaysOut(w) PROVE \A u \in Users : FundsOf(u)' >= 0
  BY <1>1, <1>7 DEF PaysOut, FundsStay
<1> QED
  BY <1>2, <1>3, <1>4, <1>5, <1>6, <1>7 DEF ContractStep

(***************************************************************************)
(* A step of a call that leaves it with checks that hold.                  *)
(***************************************************************************)
RowsFirst == \A w \in Withdrawals : Exists(w)' => withdrawal'[w].row = 1

Honest(c) ==
  /\ OthersWait(c) /\ (InPayout(c) \/ InPayout(c)')
  /\ StillTrue(c)' /\ RowsFirst /\ ContractStep

LEMMA HonestKeeps ==
  ASSUME BooksInvariant, BooksInvariant', SerialInvariant, Alone', NEW c \in Calls, Honest(c)
  PROVE  SerialInvariant' /\ ContractStep
<1>1. \A d \in Calls : StillTrue(d)'
  BY OthersRest DEF Honest
<1>2. \A u \in Users : FundsOf(u)' >= 0
  BY FundsAboveZero DEF Honest
<1> QED
  BY <1>1, <1>2 DEF Honest, RowsFirst, SerialInvariant

\* What a call at a step remembers.
LEMMA CallKnows ==
  ASSUME BooksInvariant, SerialInvariant, NEW c \in Calls
  PROVE  /\ call[c].user \in Users /\ call[c].amount \in Nat /\ StillTrue(c)
         /\ call[c].at = "escrow" => call[c].amount # 0
         /\ call[c].at \in {"manual_process", "manual_complete", "cancel", "process", "complete", "fail"} =>
              call[c].ref \in Withdrawals /\ Exists(call[c].ref)
         /\ call[c].at \in {"debit", "usage", "escrow"} => call[c].row \in DOMAIN wallet[call[c].user]
BY DEF BooksInvariant, TypeOK, CallsTyped, CallRecord, Remembers, SerialInvariant
(***************************************************************************)
(* The calls of the wallet.                                                *)
(***************************************************************************)
LEMMA EarningKeeps ==
  ASSUME BooksInvariant, BooksInvariant', SerialInvariant, Alone',
         NEW u \in Users, NEW t \in CreditTypes, NEW a \in Amounts, CreditWallet(u, t, a), UNCHANGED withdrawal
  PROVE  SerialInvariant' /\ ContractStep
<1>1. a \in Nat /\ a \in Int /\ 0 \in Int /\ UNCHANGED call /\ FundsOf(u) \in Int
  BY AmountsAssumption, FundsTypes DEF CreditWallet
<1>2. /\ OnlyFundsOf(u) /\ FundsOf(u)' >= FundsOf(u)
      /\ \A v \in Users : HasWallet(v) => HasWallet(v)'
  <2>1. CASE ~HasWallet(u)
    <3>1. InsertWallet(u, a) /\ FundsOf(u) = 0
      BY <1>1, <2>1 DEF CreditWallet, FundsOf
    <3>2. FundsOf(u)' = a /\ OnlyFundsOf(u) /\ \A v \in Users : HasWallet(v) => HasWallet(v)'
      BY <1>1, <2>1, <3>1, FundsOpened
    <3> QED
      BY <1>1, <3>1, <3>2
  <2>2. CASE HasWallet(u)
    <3>1. AddToWallet(u, 1, a, a, 0) /\ 1 \in DOMAIN wallet[u]
      BY <1>1, <2>2 DEF CreditWallet, HasWallet, Found, BooksInvariant, TypeOK, BooksTyped
    <3>2. FundsOf(u)' = FundsOf(u) + a /\ OnlyFundsOf(u) /\ \A v \in Users : HasWallet(v)' = HasWallet(v)
      BY <1>1, <3>1, FundsAdded
    <3> QED
      BY <1>1, <3>2
  <2> QED
    BY <2>1, <2>2
<1>3. HeldStay /\ FatesStay /\ (\A w : Status(w)' = Status(w)) /\ RowsFirst
  BY RowsStay DEF RowsFirst, SerialInvariant
<1>4. Earns(u)
  BY <1>2, <1>3 DEF Earns
<1>5. ASSUME NEW c \in Calls PROVE StillTrue(c)'
  <2> DEFINE k == call[c]
  <2>1. StillTrue(c) /\ k.user \in Users /\ k.amount \in Nat /\ call'[c] = k
    BY <1>1, CallKnows
  <2>2. FundsOf(k.user)' >= FundsOf(k.user) /\ FundsOf(k.user) \in Int /\ FundsOf(k.user)' \in Int
        /\ (HasWallet(k.user) => HasWallet(k.user)')
    BY <1>2, <2>1, FundsTypes, FundsTypesLater DEF OnlyFundsOf
  <2> QED
    BY <1>3, <2>1, <2>2 DEF StillTrue
<1>6. ContractStep
  BY <1>4 DEF ContractStep
<1>7. \A v \in Users : FundsOf(v)' >= 0
  BY <1>6, FundsAboveZero
<1> QED
  BY <1>3, <1>5, <1>6, <1>7 DEF SerialInvariant, RowsFirst

LEMMA QuietKeeps ==
  ASSUME BooksInvariant, BooksInvariant', SerialInvariant, Alone', UNCHANGED <<wallet, withdrawal>>,
         NEW c \in Calls, OthersWait(c), InPayout(c) \/ InPayout(c)', StillTrue(c)'
  PROVE  SerialInvariant' /\ ContractStep
<1>1. Still /\ RowsFirst
  BY RowsStay, WalletSame DEF Still, RowsFirst, SerialInvariant
<1>2. Honest(c)
  BY <1>1 DEF Honest, ContractStep
<1> QED
  BY <1>2, HonestKeeps

LEMMA LeavingKeeps ==
  ASSUME BooksInvariant, BooksInvariant', SerialInvariant, Alone', UNCHANGED <<wallet, withdrawal>>,
         NEW c \in Calls, Leave(c), InPayout(c)
  PROVE  SerialInvariant' /\ ContractStep
BY QuietKeeps, LeaveGoes, IdleIsTrue

LEMMA EnteringKeeps ==
  ASSUME BooksInvariant, BooksInvariant', SerialInvariant, Alone', UNCHANGED <<wallet, withdrawal>>,
         NEW c \in Calls, NEW step \in {"create", "debit", "usage", "escrow"}, NEW u \in Users, NEW a \in Nat,
         Enter(c, step, u, 1, a), step \in {"debit", "escrow"} => Covers(u, a)
  PROVE  SerialInvariant' /\ ContractStep
<1>1. /\ OthersWait(c)
      /\ call'[c] = [at |-> step, user |-> u, row |-> 1, amount |-> a, ref |-> NoWithdrawal]
  BY EnterGoes
<1>2. InPayout(c)'
  BY <1>1 DEF InPayout
<1>3. step \in {"debit", "escrow"} => HasWallet(u)' /\ a <= FundsOf(u)'
  <2> SUFFICES ASSUME step \in {"debit", "escrow"} PROVE HasWallet(u)' /\ a <= FundsOf(u)'
    OBVIOUS
  <2>1. HasWallet(u) /\ FundsOf(u) >= a /\ FundsOf(u) \in Int
    BY FundsTypes DEF Covers, Balance, Found, FundsOf, HasWallet
  <2> QED
    BY <2>1, WalletSame DEF FundsStay
<1>4. StillTrue(c)'
  BY <1>1, <1>3 DEF StillTrue
<1> QED
  BY <1>1, <1>2, <1>4, QuietKeeps

LEMMA CreatingKeeps ==
  ASSUME BooksInvariant, BooksInvariant', SerialInvariant, Alone', UNCHANGED withdrawal,
         NEW c \in Calls, CreateWallet(c)
  PROVE  SerialInvariant' /\ ContractStep
<1>0. PICK u \in Users : u = call[c].user
  BY CallKnows
<1>1. InsertWallet(u, 0) /\ Leave(c) /\ InPayout(c) /\ 0 \in Nat
  BY <1>0 DEF CreateWallet, InPayout
<1>2. FundsOf(u)' = (IF HasWallet(u) THEN FundsOf(u) ELSE 0) /\ OnlyFundsOf(u)
  BY <1>1, FundsOpened
<1>3. FundsStay
  BY <1>2 DEF OnlyFundsOf, FundsOf, FundsStay, HasWallet
<1>4. Still /\ RowsFirst
  BY <1>3, RowsStay DEF Still, RowsFirst, SerialInvariant
<1>5. Honest(c)
  BY <1>1, <1>4, LeaveGoes, IdleIsTrue DEF Honest, ContractStep
<1> QED
  BY <1>5, HonestKeeps

LEMMA DebitKeeps ==
  ASSUME BooksInvariant, BooksInvariant', SerialInvariant, Alone', UNCHANGED withdrawal,
         NEW c \in Calls, DebitWallet(c)
  PROVE  SerialInvariant' /\ ContractStep
<1>0. PICK u \in Users, a \in Nat : u = call[c].user /\ a = call[c].amount
  BY CallKnows
<1>1. /\ -a \in Int /\ a \in Int /\ 0 \in Int
      /\ call[c].row = 1 /\ a <= FundsOf(u) /\ 1 \in DOMAIN wallet[u] /\ InPayout(c) /\ FundsOf(u) \in Int
  BY <1>0, CallKnows, FundsTypes DEF DebitWallet, InPayout, StillTrue
<1>2. AddToWallet(u, 1, -a, 0, a) /\ Leave(c)
  BY <1>0, <1>1 DEF DebitWallet
<1>3. FundsOf(u)' = FundsOf(u) + (-a) /\ OnlyFundsOf(u)
  BY <1>1, <1>2, FundsAdded
<1>4. Spends(u) /\ RowsFirst
  BY <1>1, <1>3, RowsStay DEF Spends, RowsFirst, SerialInvariant
<1>5. Honest(c)
  BY <1>1, <1>2, <1>4, LeaveGoes, IdleIsTrue DEF Honest, ContractStep
<1> QED
  BY <1>5, HonestKeeps

(***************************************************************************)
(* The calls of the payout service.                                        *)
(***************************************************************************)
LEMMA EscrowContract ==
  ASSUME BooksInvariant, BooksInvariant', SerialInvariant, Alone',
         NEW c \in Calls, NEW w \in Withdrawals, NEW m \in Methods, Escrow(c, w, m, AfterEscrow(m))
  PROVE  SerialInvariant' /\ ContractStep
<1>0. PICK u \in Users, a \in Nat : u = call[c].user /\ a = call[c].amount
  BY CallKnows
<1> DEFINE row == [status |-> "pending", user |-> u, row |-> 1, amount |-> a, method |-> m]
<1>1. /\ a # 0 /\ -a \in Int /\ 0 \in Int
      /\ call[c].row = 1 /\ a <= FundsOf(u) /\ 1 \in DOMAIN wallet[u] /\ InPayout(c) /\ FundsOf(u) \in Int
  BY <1>0, CallKnows, FundsTypes DEF Escrow, InPayout, StillTrue
<1>2. /\ AddToWallet(u, 1, -a, 0, 0) /\ GoOn(c, AfterEscrow(m), w) /\ Fresh(w)
      /\ withdrawal' = [withdrawal EXCEPT ![w] = row]
  BY <1>0, <1>1 DEF Escrow
<1>3. FundsOf(u)' = FundsOf(u) + (-a) /\ OnlyFundsOf(u)
  BY <1>1, <1>2, FundsAdded
<1>4. row \in WithdrawalRow /\ row # NoWithdrawal
  <2>1. row \in WithdrawalRow
    BY <1>1, MethodsAssumption DEF WithdrawalRow, WithdrawalStatus
  <2> QED
    BY <2>1, NoRowAssumption
<1>5. /\ withdrawal'[w] = row
      /\ \A v \in Withdrawals \ {w} : withdrawal'[v] = withdrawal[v]
  BY <1>2 DEF BooksInvariant, TypeOK, WithdrawalsTyped
<1>6. /\ Status(w)' = "pending" /\ Status(w) = "none" /\ HeldBy(w)' = a
      /\ \A v \in Withdrawals \ {w} : Status(v)' = Status(v) /\ HeldBy(v)' = HeldBy(v)
  BY <1>2, <1>4, <1>5 DEF Status, Exists, Fresh, HeldBy
<1>7. Takes(u, w)
  BY <1>1, <1>3, <1>6, FateOf, FateOfNext DEF Takes, FateBecomes
<1>8. RowsFirst
  BY <1>4, <1>5 DEF RowsFirst, SerialInvariant, Exists
<1>9. StillTrue(c)'
  <2>1. CASE m = "manual"
    <3>1. call'[c].at = "manual_process" /\ call'[c].ref = w
      BY <1>2, <2>1, GoesOn DEF AfterEscrow
    <3> QED
      BY <1>6, <3>1 DEF StillTrue
  <2>2. CASE m # "manual"
    BY <1>2, <2>2, GoOnGoes, IdleIsTrue DEF AfterEscrow
  <2> QED
    BY <2>1, <2>2
<1>10. Honest(c)
  BY <1>1, <1>2, <1>7, <1>8, <1>9, GoOnGoes DEF Honest, ContractStep
<1> QED
  BY <1>10, HonestKeeps

LEMMA ReadContract ==
  ASSUME BooksInvariant, BooksInvariant', SerialInvariant, Alone',
         NEW c \in Calls, NEW w \in Withdrawals, NEW m \in {"cancel", "process", "complete", "fail"}, ReadWithdrawal(c, w, m)
  PROVE  SerialInvariant' /\ ContractStep
<1>1. Status(w) \in Allowed(m) /\ GoOn(c, m, w) /\ m # "idle" /\ UNCHANGED <<wallet, withdrawal>>
  BY DEF ReadWithdrawal
<1>2. OthersWait(c) /\ call'[c].at = m /\ call'[c].ref = w /\ Status(w)' = Status(w)
  BY <1>1, GoesOn, RowsStay
<1>3. StillTrue(c)' /\ InPayout(c)'
  BY <1>1, <1>2 DEF StillTrue, InPayout, Allowed
<1> QED
  BY <1>1, <1>2, <1>3, QuietKeeps

\* An update of a status by a call which then rests or goes on to complete.
LEMMA UpdateContract ==
  ASSUME BooksInvariant, BooksInvariant', SerialInvariant, Alone',
         NEW c \in Calls, NEW step, NEW status, NEW next, Update(c, step, status, next),
         \/ step \in {"manual_process", "process"} /\ status = "processing"
         \/ step \in {"manual_complete", "complete"} /\ status = "completed",
         next = "idle" \/ (next = "manual_complete" /\ status = "processing")
  PROVE  SerialInvariant' /\ ContractStep
<1>0. PICK w \in Withdrawals : w = call[c].ref /\ Exists(w)
  BY CallKnows DEF Update
<1>1. /\ SetStatus(w, status) /\ status \in WithdrawalStatus
      /\ GoOn(c, next, w) /\ UNCHANGED wallet /\ InPayout(c) /\ call[c].at = step
  BY <1>0 DEF Update, InPayout, WithdrawalStatus
<1>2. /\ Status(w)' = status /\ \A v \in Withdrawals \ {w} : Status(v)' = Status(v)
      /\ HeldStay
      /\ \A v \in Withdrawals : Exists(v)' = Exists(v) /\ (Exists(v) => withdrawal'[v].row = withdrawal[v].row)
  BY <1>0, <1>1, StatusMoves
<1>3. RowsFirst /\ FundsStay
  BY <1>1, <1>2, WalletSame DEF RowsFirst, SerialInvariant
<1>4. Status(w) = IF status = "processing" THEN "pending" ELSE "processing"
  BY <1>0, <1>1, CallKnows DEF StillTrue
<1>5. ContractStep
  <2>1. CASE status = "processing"
    <3>1. Fate(w) = "held" /\ Fate(w)' = "held"
      BY <1>1, <1>2, <1>4, <2>1, FateOf, FateOfNext
    <3>2. FatesStay
      BY <1>2, <3>1, FateOfNext DEF FatesStay
    <3> QED
      BY <1>2, <1>3, <3>2 DEF ContractStep, Still
  <2>2. CASE status = "completed"
    <3>1. Fate(w) = "held" /\ Fate(w)' = "paid"
      BY <1>1, <1>2, <1>4, <2>2, FateOf, FateOfNext
    <3>2. PaysOut(w)
      BY <1>2, <1>3, <3>1, FateOfNext DEF PaysOut, FateBecomes
    <3> QED
      BY <1>1, <3>2 DEF ContractStep
  <2> QED
    BY <2>1, <2>2
<1>6. StillTrue(c)'
  <2>1. CASE next = "idle"
    BY <1>1, <2>1, GoOnGoes, IdleIsTrue
  <2>2. CASE next = "manual_complete" /\ status = "processing"
    <3>1. call'[c].at = "manual_complete" /\ call'[c].ref = w
      BY <1>1, <2>2, GoesOn
    <3> QED
      BY <1>2, <2>2, <3>1 DEF StillTrue
  <2> QED
    BY <2>1, <2>2
<1>7. Honest(c)
  BY <1>1, <1>3, <1>5, <1>6, GoOnGoes DEF Honest
<1> QED
  BY <1>7, HonestKeeps

LEMMA RefundContract ==
  ASSUME BooksInvariant, BooksInvariant', SerialInvariant, Alone',
         NEW c \in Calls, NEW status \in {"cancelled", "failed"}, call[c].at \in {"cancel", "fail"},
         Refund(call[c].ref, status), GoOn(c, "idle", NoWithdrawal)
  PROVE  SerialInvariant' /\ ContractStep
<1>0. PICK w \in Withdrawals : w = call[c].ref /\ Exists(w)
  BY CallKnows
<1>1. Status(w) \in {"pending", "processing"} /\ InPayout(c) /\ status \in WithdrawalStatus
  BY <1>0, CallKnows DEF InPayout, StillTrue, WithdrawalStatus
<1>10. withdrawal[w] \in WithdrawalRow /\ withdrawal[w].row = 1 /\ 1 \in DOMAIN wallet[withdrawal[w].user]
  BY <1>0 DEF BooksInvariant, TypeOK, WithdrawalsTyped, Exists, SerialInvariant
<1>11. PICK u \in Users, a \in Nat : u = withdrawal[w].user /\ a = withdrawal[w].amount
  BY <1>10 DEF WithdrawalRow
<1>2. a \in Int /\ 0 \in Int /\ 1 \in DOMAIN wallet[u] /\ HeldBy(w) = a
  BY <1>0, <1>10, <1>11 DEF HeldBy
<1>3. AddToWallet(u, 1, a, 0, 0) /\ SetStatus(w, status)
  BY <1>0, <1>10, <1>11 DEF Refund, RefundAmount
<1>4. FundsOf(u)' = FundsOf(u) + a /\ OnlyFundsOf(u)
  BY <1>2, <1>3, FundsAdded
<1>5. /\ Status(w)' = status /\ \A v \in Withdrawals \ {w} : Status(v)' = Status(v)
      /\ HeldStay
      /\ \A v \in Withdrawals : Exists(v)' = Exists(v) /\ (Exists(v) => withdrawal'[v].row = withdrawal[v].row)
  BY <1>0, <1>1, <1>3, StatusMoves
<1>6. RowsFirst
  BY <1>5 DEF RowsFirst, SerialInvariant
<1>7. Fate(w) = "held" /\ Fate(w)' = "returned" /\ \A v \in Withdrawals \ {w} : Fate(v)' = Fate(v)
  BY <1>1, <1>5, FateOf, FateOfNext
<1>8. Returns(u, w)
  BY <1>2, <1>4, <1>5, <1>7 DEF Returns, FateBecomes
<1>9. Honest(c)
  BY <1>1, <1>2, <1>6, <1>8, GoOnGoes, IdleIsTrue DEF Honest, ContractStep
<1> QED
  BY <1>9, HonestKeeps

LEMMA SerialStep ==
  ASSUME BooksInvariant, BooksInvariant', SerialInvariant, [Next /\ Alone']_payoutVars
  PROVE  SerialInvariant' /\ [ContractStep]_payoutVars
<1>1. CASE UNCHANGED payoutVars
  <2>1. \A c \in Calls : StillTrue(c)'
    BY <1>1, RowsStay, WalletSame, CallKnows DEF payoutVars, StillTrue, SerialInvariant, FundsStay
  <2>2. Alone'
    BY <1>1 DEF payoutVars, Alone, SerialInvariant
  <2>3. RowsFirst /\ \A u \in Users : FundsOf(u)' >= 0
    BY <1>1, RowsStay, WalletSame DEF payoutVars, SerialInvariant, FundsStay, RowsFirst
  <2> QED
    BY <1>1, <2>1, <2>2, <2>3 DEF SerialInvariant, RowsFirst
<1> SUFFICES ASSUME Next, Alone' PROVE SerialInvariant' /\ ContractStep
  BY <1>1
<1> DEFINE Goal == SerialInvariant' /\ ContractStep
<1> SUFFICES Goal
  OBVIOUS
<1>2. ASSUME WalletNext, UNCHANGED withdrawal PROVE Goal
  <2>1. ASSUME NEW u \in Users, NEW t \in CreditTypes, NEW a \in Amounts, CreditWallet(u, t, a) PROVE Goal
    BY <1>2, <2>1, EarningKeeps
  <2>2. ASSUME NEW c \in Calls, NEW u \in Users, GetOrCreateFind(c, u) PROVE Goal
    <3>1. "create" \in {"create", "debit", "usage", "escrow"} /\ 0 \in Nat /\ Enter(c, "create", u, 1, 0) /\ UNCHANGED wallet
      BY <2>2 DEF GetOrCreateFind
    <3> QED
      BY <1>2, <3>1, EnteringKeeps
  <2>3. ASSUME NEW c \in Calls, CreateWallet(c) PROVE Goal
    BY <1>2, <2>3, CreatingKeeps
  <2>4. ASSUME NEW c \in Calls, NEW u \in Users, NEW a \in Amounts, DebitCheck(c, u, a) PROVE Goal
    <3>1. Covers(u, a) /\ Enter(c, "debit", u, 1, a) /\ UNCHANGED wallet /\ a \in Nat
      BY <2>4, AmountsAssumption DEF DebitCheck, Found
    <3> QED
      BY <1>2, <3>1, EnteringKeeps
  <2>5. ASSUME NEW c \in Calls, DebitWallet(c) PROVE Goal
    BY <1>2, <2>5, DebitKeeps
  <2>6. ASSUME NEW c \in Calls, NEW u \in Users, NEW a \in Amounts, ApplyUsage(c, u, a) PROVE Goal
    <3> DEFINE b == IF a <= Balance(u) THEN a ELSE Balance(u)
    <3>1. Enter(c, "usage", u, 1, b) /\ UNCHANGED wallet /\ HasWallet(u) /\ Balance(u) > 0 /\ a \in Nat
      BY <2>6, AmountsAssumption DEF ApplyUsage, Found
    <3>2. Balance(u) \in Int
      BY <3>1, FundsTypes DEF Balance, Found, FundsOf, HasWallet
    <3>3. b \in Nat
      BY <3>1, <3>2
    <3> HIDE DEF b
    <3> QED
      BY <1>2, <3>1, <3>3, EnteringKeeps
  <2>7. ASSUME NEW c \in Calls, ApplyUsageDebit(c) PROVE Goal
    <3>1. call[c].user \in Users /\ call[c].amount \in Nat /\ InPayout(c) /\ UNCHANGED wallet
      BY <2>7, CallKnows DEF ApplyUsageDebit, InPayout
    <3>2. CASE Covers(call[c].user, call[c].amount)
      <4>1. Enter(c, "debit", call[c].user, 1, call[c].amount)
        BY <2>7, <3>2 DEF ApplyUsageDebit, Found
      <4> QED
        BY <1>2, <3>1, <3>2, <4>1, EnteringKeeps
    <3>3. CASE ~Covers(call[c].user, call[c].amount)
      <4>1. Leave(c)
        BY <2>7, <3>3 DEF ApplyUsageDebit
      <4> QED
        BY <1>2, <3>1, <4>1, LeavingKeeps
    <3> QED
      BY <3>2, <3>3
  <2>8. ASSUME NEW c \in Calls, Abandon(c) PROVE Goal
    BY <1>2, <2>8, LeavingKeeps DEF Abandon, InPayout
  <2> HIDE DEF Goal
  <2> QED
    BY <1>2, <2>1, <2>2, <2>3, <2>4, <2>5, <2>6, <2>7, <2>8 DEF WalletNext
<1>3. ASSUME PayoutNext PROVE Goal
  <2>1. ASSUME NEW c \in Calls, NEW u \in Users, NEW a \in Amounts, RequestWithdrawal(c, u, a) PROVE Goal
    <3>1. Covers(u, a) /\ Enter(c, "escrow", u, 1, a) /\ UNCHANGED <<wallet, withdrawal>> /\ a \in Nat
      BY <2>1, AmountsAssumption DEF RequestWithdrawal, Found
    <3> QED
      BY <3>1, EnteringKeeps
  <2>2. ASSUME NEW c \in Calls, NEW w \in Withdrawals, NEW m \in Methods, Escrow(c, w, m, AfterEscrow(m)) PROVE Goal
    BY <2>2, EscrowContract
  <2>3. ASSUME NEW c \in Calls, ManualProcess(c) \/ ManualComplete(c) \/ ProcessWithdrawal(c, "idle") \/ CompleteWithdrawal(c) PROVE Goal
    BY <2>3, UpdateContract DEF ManualProcess, ManualComplete, ProcessWithdrawal, CompleteWithdrawal
  <2>4. ASSUME NEW c \in Calls, NEW w \in Withdrawals, NEW m \in {"cancel", "process", "complete", "fail"}, ReadWithdrawal(c, w, m)
        PROVE  Goal
    BY <2>4, ReadContract
  <2>5. ASSUME NEW c \in Calls, CancelWithdrawal(c) \/ FailWithdrawal(c) PROVE Goal
    BY <2>5, RefundContract DEF CancelWithdrawal, FailWithdrawal
  <2> HIDE DEF Goal
  <2> QED
    BY <1>3, <2>1, <2>2, <2>3, <2>4, <2>5 DEF PayoutNext
<1> QED
  BY <1>2, <1>3 DEF Next

(***************************************************************************)
(* With one call at a time, the payout service keeps the contract of       *)
(* withdrawals: it never spends credits that are not there, and settles a  *)
(* withdrawal once, by paying it or by returning what it held.             *)
(***************************************************************************)
THEOREM OneCallKeepsTheContract == SerialSpec => Contract!Spec
<1>1. Init => BooksInvariant /\ SerialInvariant /\ Contract!Init
  <2> SUFFICES ASSUME Init PROVE SerialInvariant /\ Contract!Init
    BY BooksBegin
  <2>1. SerialInvariant
    BY DEF Init, SerialInvariant, Alone, FundsOf, HasWallet, Exists, StillTrue, Idle
  <2>2. /\ \A u \in Users : FundsOf(u) = 0
        /\ \A w \in Withdrawals : HeldBy(w) = 0 /\ Fate(w) = "unused"
    BY FateOf DEF Init, FundsOf, HasWallet, HeldBy, Exists, Status
  <2>3. Contract!Init
    BY <2>2 DEF Contract!Init, FundsOf, HeldBy, HasWallet, Exists
  <2> QED
    BY <2>1, <2>3
<1>2. BooksInvariant /\ [Next /\ Alone']_payoutVars => BooksInvariant'
  BY BooksStay
<1>3. BooksInvariant /\ BooksInvariant' /\ SerialInvariant /\ [Next /\ Alone']_payoutVars
        => SerialInvariant' /\ [Contract!Next]_(Contract!contractVars)
  <2> SUFFICES ASSUME BooksInvariant, BooksInvariant', SerialInvariant, [Next /\ Alone']_payoutVars
               PROVE  SerialInvariant' /\ [Contract!Next]_(Contract!contractVars)
    OBVIOUS
  <2>1. SerialInvariant' /\ [ContractStep]_payoutVars
    BY SerialStep
  <2>2. UNCHANGED payoutVars => Still
    BY RowsStay, WalletSame DEF payoutVars, Still
  <2>3. ContractStep
    BY <2>1, <2>2 DEF ContractStep
  <2> QED
    BY <2>1, <2>3, ContractMaps
<1> QED
  BY <1>1, <1>2, <1>3, PTL DEF SerialSpec, Contract!Spec

-----------------------------------------------------------------------------
(***************************************************************************)
(* The withdraw handler, the gateway and the network between them.         *)
(***************************************************************************)

(***************************************************************************)
(* The control part of the invariant: where a handler is and what has      *)
(* become of its deposit.                                                  *)
(***************************************************************************)
BeforeDeposit == {"escrowed", "process", "accounts"}
Accepted == {"deposited", "complete"}
Rejected == {"rejected", "fail"}
Busy == BeforeDeposit \union {"deposit"} \union Accepted \union Rejected

HandledAt(w, steps) == \E c \in Calls : call[c].at \in steps /\ call[c].ref = w
Posted(w) == Message("deposit", w) \in sent
HasLanded(w) == deposit[w] # Nothing
Answered(w, ok) == Answer("deposit", w, ok) \in answers

Untouched(w) == ~HasLanded(w) /\ ~Posted(w)
Unposted(w) == Untouched(w) /\ ~Answered(w, TRUE) /\ ~Answered(w, FALSE)
InFlight(w) == Posted(w) /\ HasLanded(w)
Settled(w) == Status(w) = "completed" \/ HandledAt(w, Accepted) \/ Answered(w, TRUE)
Refused(w) == Status(w) = "failed" \/ HandledAt(w, Rejected)

RowsTyped ==
  /\ wallet \in [Users -> Seq(WalletRow)]
  /\ withdrawal \in [Withdrawals -> WithdrawalRow \union {NoWithdrawal}]
  /\ \A w \in Withdrawals : Exists(w) =>
       withdrawal[w].row = 1 /\ HasWallet(withdrawal[w].user) /\ withdrawal[w].status # "cancelled"

GatewayTyped ==
  /\ account \in [Users -> Int \union {Nothing}]
  /\ deposit \in [Withdrawals -> [user : Users, usd : Nat] \union {Nothing}]
  /\ writing \in [user : Users, usd : Int] \union {Nothing}
  /\ sent \subseteq [kind : {"accounts", "deposit"}, ref : Withdrawals]
  /\ answers \subseteq [kind : {"accounts", "deposit"}, ref : Withdrawals, ok : BOOLEAN]

HandlerRecord ==
  [at : HandlerSteps, user : Users, row : {1}, amount : Nat, ref : Withdrawals \union {NoWithdrawal}]

\* What a handler has done to its withdrawal.
AtStep(c) ==
  LET w == call[c].ref IN
  /\ call[c].at = "escrow" => HasWallet(call[c].user) /\ call[c].amount # 0
  /\ call[c].at \in Busy => w \in Withdrawals /\ Exists(w)
  /\ call[c].at \in {"escrowed", "process"} => Status(w) = "pending"
  /\ call[c].at \in Busy \ {"escrowed", "process"} => Status(w) = "processing"
  /\ call[c].at \in BeforeDeposit => Unposted(w)

HandlersTyped == call \in [Calls -> HandlerRecord] /\ \A c \in Calls : AtStep(c)

OneHandler ==
  \A c, d \in Calls : call[c].at \in Busy /\ call[d].at \in Busy /\ call[c].ref = call[d].ref => c = d

\* A deposit that is recorded and still in flight is the one being written.
WritesInFlight ==
  /\ \A w \in Withdrawals : InFlight(w) => writing = [user |-> withdrawal[w].user, usd |-> withdrawal[w].amount]
  /\ \A v, w \in Withdrawals : InFlight(v) /\ InFlight(w) => v = w
  /\ writing # Nothing => GW!HasAccount(writing.user) /\ \E w \in Withdrawals : InFlight(w)

\* What is known of a deposit from how far its withdrawal has come.
DepositOf(w) ==
  /\ ~Exists(w) => Unposted(w)
  /\ Settled(w) => HasLanded(w) /\ ~Posted(w)
  /\ Answered(w, FALSE) => Untouched(w)
  /\ Refused(w) => w \in late \/ Untouched(w)

DepositsFollow == \A w \in Withdrawals : DepositOf(w)

HandlingInvariant == RowsTyped /\ GatewayTyped /\ HandlersTyped /\ OneHandler /\ WritesInFlight /\ DepositsFollow

(***************************************************************************)
(* The money part: a wallet holds what was earned and is not out, and the  *)
(* gateway holds what is credited there for good or being written, and no  *)
(* more than what has landed.                                              *)
(***************************************************************************)
OfUser(u, w) == Exists(w) /\ withdrawal[w].user = u
AmountIf(w, counts) == IF counts THEN withdrawal[w].amount ELSE 0

TakenOut(u) == [w \in Withdrawals |-> AmountIf(w, OfUser(u, w) /\ Status(w) # "failed")]
Credited(u) == [w \in Withdrawals |-> AmountIf(w, OfUser(u, w) /\ (Settled(w) \/ InFlight(w)))]
Landed(u) == [w \in Withdrawals |-> AmountIf(w, OfUser(u, w) /\ HasLanded(w))]

SumOfAll(weights) == SumFunctionOnSet(weights, Withdrawals)

WalletFollows == \A u \in Users : InWallet(u) = Earned(u) - SumOfAll(TakenOut(u))
GatewayFollows == \A u \in Users : SumOfAll(Credited(u)) <= AtGateway(u) /\ AtGateway(u) <= SumOfAll(Landed(u))

MoneyInvariant == HandlingInvariant /\ WalletFollows /\ GatewayFollows

-----------------------------------------------------------------------------
(***************************************************************************)
(* Steps: what a step of one handler, or of the gateway, leaves as it was. *)
(***************************************************************************)
LEMMA HandlerMoves ==
  ASSUME HandlersTyped, NEW c \in Calls, NEW step \in HandlerSteps \ {"idle"}, NEW w \in Withdrawals, GoOn(c, step, w)
  PROVE  /\ call' \in [Calls -> HandlerRecord]
         /\ call'[c].at = step /\ call'[c].ref = w
         /\ \A d \in Calls \ {c} : call'[d] = call[d]
<1> DEFINE k == [call[c] EXCEPT !.at = step, !.ref = w]
<1>1. call[c] \in HandlerRecord
  BY DEF HandlersTyped
<1>2. k \in HandlerRecord /\ k.at = step /\ k.ref = w
  BY <1>1 DEF HandlerRecord
<1>3. call' = [call EXCEPT ![c] = k]
  BY DEF GoOn
<1> QED
  BY <1>2, <1>3 DEF HandlersTyped

LEMMA IdleHandler == Idle \in HandlerRecord /\ Idle.at = "idle" /\ Idle.ref = NoWithdrawal
<1>1. (CHOOSE u \in Users : TRUE) \in Users
  BY UsersAssumption
<1> QED
  BY <1>1 DEF Idle, HandlerRecord, HandlerSteps

LEMMA HandlerRests ==
  ASSUME HandlersTyped, NEW c \in Calls, call' = [call EXCEPT ![c] = Idle]
  PROVE  /\ call' \in [Calls -> HandlerRecord]
         /\ call'[c].at = "idle" /\ call'[c].at \notin Busy
         /\ \A d \in Calls \ {c} : call'[d] = call[d]
  BY IdleHandler DEF HandlersTyped, Busy, BeforeDeposit, Accepted, Rejected

\* Nothing new has happened to a withdrawal.
Calmer(w) ==
  /\ withdrawal'[w] = withdrawal[w] /\ deposit'[w] = deposit[w]
  /\ Posted(w)' => Posted(w)
  /\ \A ok \in BOOLEAN : Answered(w, ok)' => Answered(w, ok)

LEMMA CalmFollows ==
  ASSUME NEW w, DepositOf(w), Calmer(w), late \subseteq late',
         HandledAt(w, Accepted)' => HandledAt(w, Accepted), HandledAt(w, Rejected)' => HandledAt(w, Rejected)
  PROVE  DepositOf(w)'
<1>1. Exists(w)' <=> Exists(w)
  BY DEF Calmer, Exists
<1>2. Status(w)' = Status(w)
  BY <1>1 DEF Calmer, Status, Exists
<1>3. Unposted(w) => Unposted(w)'
  BY DEF Calmer, Unposted, Untouched, HasLanded
<1>4. Settled(w)' => Settled(w)
  BY <1>2 DEF Calmer, Settled
<1>5. Refused(w)' => Refused(w)
  BY <1>2 DEF Refused
<1>6. Untouched(w) => Untouched(w)'
  BY DEF Calmer, Untouched, HasLanded
<1> QED
  BY <1>1, <1>3, <1>4, <1>5, <1>6 DEF Calmer, DepositOf, HasLanded

\* Wallets stay there.
WalletsKept == \A u \in Users : HasWallet(u) => HasWallet(u)'

LEMMA CalmAtStep ==
  ASSUME NEW d \in Calls, call \in [Calls -> HandlerRecord], call'[d] = call[d], AtStep(d), WalletsKept,
         call[d].at \in Busy => Calmer(call[d].ref)
  PROVE  AtStep(d)'
<1> DEFINE w == call[d].ref
<1>1. call[d].user \in Users
  BY DEF HandlerRecord
<1>2. call[d].at \in Busy => (Exists(w)' <=> Exists(w)) /\ Status(w)' = Status(w) /\ (Unposted(w) => Unposted(w)')
  BY DEF Calmer, Exists, Status, Unposted, Untouched, HasLanded
<1>3. HasWallet(call[d].user) => HasWallet(call[d].user)'
  BY <1>1 DEF WalletsKept
<1>4. BeforeDeposit \subseteq Busy /\ {"escrowed", "process"} \subseteq Busy
  BY DEF Busy, BeforeDeposit
<1>5. call'[d].ref = w /\ call'[d].at = call[d].at /\ call'[d].user = call[d].user /\ call'[d].amount = call[d].amount
  OBVIOUS
<1> QED
  BY <1>2, <1>3, <1>4, <1>5 DEF AtStep

(***************************************************************************)
(* A handler that works on a withdrawal is the only one that does, and     *)
(* leaves the others as they are.                                          *)
(***************************************************************************)
LEMMA OthersFollow ==
  ASSUME HandlingInvariant, NEW c \in Calls, NEW o \in Withdrawals,
         call' \in [Calls -> HandlerRecord], \A d \in Calls \ {c} : call'[d] = call[d],
         \A w \in Withdrawals \ {o} : Calmer(w),
         call[c].at \in Busy => call[c].ref = o,
         call'[c].at \in Busy => call'[c].ref = o,
         call[c].at \in Busy \/ ~Exists(o),
         WalletsKept, late \subseteq late'
  PROVE  /\ \A w \in Withdrawals \ {o} : DepositOf(w)'
         /\ \A d \in Calls \ {c} : AtStep(d)'
         /\ OneHandler'
         /\ \A steps \in SUBSET Busy : HandledAt(o, steps)' <=> call'[c].at \in steps
         /\ \A steps \in SUBSET Busy : HandledAt(o, steps) <=> call[c].at \in steps
<1>1. \A d \in Calls \ {c} : call[d].at \in Busy => call[d].ref \in Withdrawals \ {o}
  BY DEF HandlingInvariant, HandlersTyped, AtStep, OneHandler
<1>2. OneHandler'
  BY <1>1 DEF HandlingInvariant, OneHandler
<1>3. ASSUME NEW d \in Calls \ {c} PROVE AtStep(d)'
  BY <1>1, CalmAtStep DEF HandlingInvariant, HandlersTyped
<1>4. ASSUME NEW w \in Withdrawals \ {o}, NEW steps \in SUBSET Busy PROVE HandledAt(w, steps)' => HandledAt(w, steps)
  BY DEF HandledAt
<1>5. Accepted \in SUBSET Busy /\ Rejected \in SUBSET Busy
  BY DEF Busy
<1>6. ASSUME NEW w \in Withdrawals \ {o} PROVE DepositOf(w)'
  BY <1>4, <1>5, CalmFollows DEF HandlingInvariant, DepositsFollow
<1>7. ASSUME NEW steps \in SUBSET Busy
      PROVE  /\ HandledAt(o, steps)' <=> call'[c].at \in steps
             /\ HandledAt(o, steps) <=> call[c].at \in steps
  BY <1>1 DEF HandledAt
<1> QED
  BY <1>2, <1>3, <1>6, <1>7

\* A write of the gateway stays the one in flight.
LEMMA WritesStay ==
  ASSUME WritesInFlight, writing' = writing, \A u \in Users : GW!HasAccount(u) => GW!HasAccount(u)',
         writing \in [user : Users, usd : Int] \union {Nothing},
         \A w \in Withdrawals : InFlight(w)' <=> InFlight(w),
         \A w \in Withdrawals : InFlight(w) =>
           withdrawal'[w].user = withdrawal[w].user /\ withdrawal'[w].amount = withdrawal[w].amount
  PROVE  WritesInFlight'
<1>1. writing # Nothing => writing.user \in Users
  OBVIOUS
<1>2. writing' # Nothing => GW!HasAccount(writing.user)'
  BY <1>1 DEF WritesInFlight
<1> QED
  BY <1>2 DEF WritesInFlight
-----------------------------------------------------------------------------
(***************************************************************************)
(* The steps of a handler keep the control part.                           *)
(***************************************************************************)
LEMMA BusySteps ==
  /\ BeforeDeposit \in SUBSET Busy /\ Accepted \in SUBSET Busy /\ Rejected \in SUBSET Busy /\ "deposit" \in Busy
  /\ "idle" \notin Busy /\ "escrow" \notin Busy
  /\ Busy \subseteq HandlerSteps /\ Withdrawals \subseteq Withdrawals \union {NoWithdrawal}
  BY DEF Busy, BeforeDeposit, Accepted, Rejected, HandlerSteps

LEMMA NothingCalmer ==
  ASSUME UNCHANGED <<withdrawal, deposit, sent, answers>>
  PROVE  \A w : Calmer(w) /\ (InFlight(w)' <=> InFlight(w))
  BY DEF Calmer, Posted, Answered, InFlight, HasLanded

LEMMA RowsSame ==
  ASSUME RowsTyped, UNCHANGED <<wallet, withdrawal>>
  PROVE  RowsTyped' /\ WalletsKept
  BY DEF RowsTyped, WalletsKept, HasWallet, Exists

LEMMA WritesSame ==
  ASSUME GatewayTyped, WritesInFlight, UNCHANGED <<account, deposit, writing>>,
         \A w \in Withdrawals : Posted(w)' <=> Posted(w),
         \A w \in Withdrawals : Exists(w) =>
           withdrawal'[w].user = withdrawal[w].user /\ withdrawal'[w].amount = withdrawal[w].amount,
         DepositsFollow
  PROVE  WritesInFlight'
<1>1. \A w \in Withdrawals : InFlight(w)' <=> InFlight(w)
  BY DEF InFlight, HasLanded
<1>2. \A w \in Withdrawals : InFlight(w) => Exists(w)
  BY DEF DepositsFollow, DepositOf, Unposted, Untouched, InFlight
<1>3. \A u \in Users : GW!HasAccount(u) => GW!HasAccount(u)'
  BY DEF GW!HasAccount
<1> QED
  BY <1>1, <1>2, <1>3, WritesStay DEF GatewayTyped

\* A handler reads its withdrawal, to process, complete or fail it.
LEMMA ReadKeeps ==
  ASSUME HandlingInvariant, NEW c \in Calls, NEW o \in Withdrawals, call[c].ref = o,
         NEW from, NEW method, GoOn(c, method, o), call[c].at = from, UNCHANGED <<wallet, withdrawal, gwVars, netVars, late>>,
         <<from, method>> \in {<<"escrowed", "process">>, <<"deposited", "complete">>, <<"rejected", "fail">>}
  PROVE  HandlingInvariant'
<1>1. from \in Busy /\ method \in Busy /\ method \in HandlerSteps \ {"idle"} /\ Exists(o) /\ AtStep(c)
  BY DEF HandlingInvariant, HandlersTyped, AtStep, Busy, BeforeDeposit, Accepted, Rejected, HandlerSteps
<1>2. /\ call' \in [Calls -> HandlerRecord] /\ call'[c].at = method /\ call'[c].ref = o
      /\ \A d \in Calls \ {c} : call'[d] = call[d]
  BY <1>1, HandlerMoves DEF HandlingInvariant
<1>3. RowsTyped' /\ WalletsKept
  BY RowsSame DEF HandlingInvariant
<1>4. \A w : Calmer(w)
  BY NothingCalmer DEF gwVars, netVars
<1>5. /\ \A w \in Withdrawals \ {o} : DepositOf(w)'
      /\ \A d \in Calls \ {c} : AtStep(d)'
      /\ OneHandler'
      /\ \A steps \in SUBSET Busy : HandledAt(o, steps)' <=> method \in steps
      /\ \A steps \in SUBSET Busy : HandledAt(o, steps) <=> from \in steps
  BY <1>1, <1>2, <1>3, <1>4, OthersFollow
<1>6. method \in Accepted <=> from \in Accepted
  BY DEF Accepted
<1>7. method \in Rejected <=> from \in Rejected
  BY DEF Rejected
<1>8. DepositOf(o)'
  BY <1>1, <1>4, <1>5, <1>6, <1>7, BusySteps, CalmFollows DEF HandlingInvariant, DepositsFollow
<1>9. AtStep(c)'
  <2>1. Status(o)' = Status(o) /\ Exists(o)' /\ (Unposted(o) => Unposted(o)')
    BY <1>1, <1>4 DEF Calmer, Status, Exists, Unposted, Untouched, HasLanded
  <2> QED
    BY <1>1, <1>2, <2>1 DEF AtStep, BeforeDeposit, Busy, Accepted, Rejected
<1>10. WritesInFlight' /\ GatewayTyped'
  BY WritesSame DEF HandlingInvariant, gwVars, netVars, Posted, GatewayTyped
<1> QED
  BY <1>2, <1>3, <1>5, <1>8, <1>9, <1>10 DEF HandlingInvariant, HandlersTyped, DepositsFollow
\* The status of a withdrawal is set.
LEMMA StatusSet ==
  ASSUME RowsTyped, NEW o \in Withdrawals, Exists(o), NEW status \in WithdrawalStatus \ {"cancelled"}, SetStatus(o, status),
         wallet' \in [Users -> Seq(WalletRow)], WalletsKept
  PROVE  /\ RowsTyped'
         /\ Exists(o)' /\ Status(o)' = status
         /\ \A w \in Withdrawals \ {o} : withdrawal'[w] = withdrawal[w]
         /\ \A w \in Withdrawals : (Exists(w)' <=> Exists(w))
         /\ \A w \in Withdrawals : Exists(w) =>
              withdrawal'[w].user = withdrawal[w].user /\ withdrawal'[w].amount = withdrawal[w].amount
<1> DEFINE row == [withdrawal[o] EXCEPT !.status = status]
<1>1. withdrawal[o] \in WithdrawalRow /\ withdrawal[o].row = 1
  BY DEF RowsTyped, Exists
<1>2. /\ row \in WithdrawalRow /\ row.status = status /\ row.user = withdrawal[o].user /\ row.amount = withdrawal[o].amount
      /\ row.row = 1 /\ row # NoWithdrawal
  BY <1>1, NoRowAssumption DEF WithdrawalRow
<1>3. withdrawal' = [withdrawal EXCEPT ![o] = row]
  BY DEF SetStatus
<1> HIDE DEF row
<1>4. withdrawal'[o] = row /\ \A w \in Withdrawals \ {o} : withdrawal'[w] = withdrawal[w]
  BY <1>3 DEF RowsTyped
<1>5. \A w \in Withdrawals : Exists(w)' <=> Exists(w)
  BY <1>2, <1>4 DEF Exists
<1>6. \A w \in Withdrawals : Exists(w) => withdrawal[w].user \in Users
  BY DEF RowsTyped, Exists, WithdrawalRow
<1>7. withdrawal' \in [Withdrawals -> WithdrawalRow \union {NoWithdrawal}]
  BY <1>2, <1>3 DEF RowsTyped
<1>8. ASSUME NEW w \in Withdrawals, Exists(w)
      PROVE  withdrawal'[w].row = 1 /\ HasWallet(withdrawal[w].user)' /\ withdrawal'[w].status # "cancelled"
  <2>1. withdrawal'[w].user = withdrawal[w].user /\ withdrawal'[w].row = 1 /\ withdrawal'[w].status # "cancelled"
    BY <1>2, <1>4, <1>8 DEF RowsTyped
  <2>2. PICK u \in Users : u = withdrawal[w].user
    BY <1>6, <1>8
  <2>3. HasWallet(u)'
    BY <1>8, <2>2 DEF RowsTyped, WalletsKept
  <2>4. withdrawal'[w].user = u
    BY <2>1, <2>2
  <2> QED
    BY <2>1, <2>3, <2>4 DEF HasWallet
<1>9. RowsTyped'
  BY <1>5, <1>7, <1>8 DEF RowsTyped
<1>10. Status(o)' = status
  BY <1>2, <1>4 DEF Status, Exists
<1> QED
  BY <1>2, <1>4, <1>5, <1>9, <1>10

LEMMA PostAccountsKeeps ==
  ASSUME HandlingInvariant, NEW c \in Calls, NEW o \in Withdrawals, call[c].ref = o, PostAccounts(c), UNCHANGED late
  PROVE  HandlingInvariant'
<1>1. /\ call[c].at = "process" /\ SetStatus(o, "processing") /\ GoOn(c, "accounts", o)
      /\ sent' = sent \union {Message("accounts", o)} /\ UNCHANGED <<wallet, ledger, gwVars, answers>>
  BY DEF PostAccounts, ProcessWithdrawal, Update
<1>2. "accounts" \in HandlerSteps \ {"idle"} /\ call[c].at \in Busy /\ "accounts" \in Busy /\ Exists(o) /\ AtStep(c)
  BY <1>1 DEF HandlingInvariant, HandlersTyped, AtStep, Busy, BeforeDeposit, Accepted, Rejected, HandlerSteps
<1>3. /\ call' \in [Calls -> HandlerRecord] /\ call'[c].at = "accounts" /\ call'[c].ref = o
      /\ \A d \in Calls \ {c} : call'[d] = call[d]
  BY <1>1, <1>2, HandlerMoves DEF HandlingInvariant
<1>4. WalletsKept /\ wallet' \in [Users -> Seq(WalletRow)]
  BY <1>1 DEF WalletsKept, HasWallet, HandlingInvariant, RowsTyped
<1>5. /\ RowsTyped' /\ Exists(o)' /\ Status(o)' = "processing"
      /\ \A w \in Withdrawals \ {o} : withdrawal'[w] = withdrawal[w]
      /\ \A w \in Withdrawals : Exists(w) =>
           withdrawal'[w].user = withdrawal[w].user /\ withdrawal'[w].amount = withdrawal[w].amount
  <2>1. "processing" \in WithdrawalStatus \ {"cancelled"}
    BY DEF WithdrawalStatus
  <2> QED
    BY <1>1, <1>2, <1>4, <2>1, StatusSet DEF HandlingInvariant
<1>6. \A w \in Withdrawals : (Posted(w)' <=> Posted(w)) /\ \A ok \in BOOLEAN : Answered(w, ok)' <=> Answered(w, ok)
  BY <1>1 DEF Posted, Answered, Message
<1>7. \A w \in Withdrawals \ {o} : Calmer(w)
  BY <1>1, <1>5, <1>6 DEF Calmer, gwVars
<1>8. /\ \A w \in Withdrawals \ {o} : DepositOf(w)'
      /\ \A d \in Calls \ {c} : AtStep(d)'
      /\ OneHandler'
      /\ \A steps \in SUBSET Busy : HandledAt(o, steps)' <=> "accounts" \in steps
  BY <1>2, <1>3, <1>4, <1>7, OthersFollow
<1>9. Unposted(o) /\ Unposted(o)'
  <2>1. Unposted(o)
    BY <1>1, <1>2 DEF AtStep, BeforeDeposit
  <2> QED
    BY <1>1, <1>6, <2>1 DEF Unposted, Untouched, HasLanded, gwVars
<1>10. DepositOf(o)'
  <2>1. ~HandledAt(o, Accepted)' /\ ~HandledAt(o, Rejected)'
    BY <1>8, BusySteps DEF Accepted, Rejected
  <2> QED
    BY <1>5, <1>9, <2>1 DEF DepositOf, Settled, Refused, Unposted
<1>11. AtStep(c)'
  BY <1>3, <1>5, <1>9 DEF AtStep
<1>12. WritesInFlight' /\ GatewayTyped'
  <2>1. Message("accounts", o) \in [kind : {"accounts", "deposit"}, ref : Withdrawals]
    BY DEF Message
  <2> QED
    BY <1>1, <1>5, <1>6, <2>1, WritesSame DEF HandlingInvariant, gwVars, GatewayTyped
<1> QED
  BY <1>3, <1>5, <1>8, <1>10, <1>11, <1>12 DEF HandlingInvariant, HandlersTyped, DepositsFollow
LEMMA PostDepositKeeps ==
  ASSUME HandlingInvariant, NEW c \in Calls, NEW o \in Withdrawals, call[c].ref = o, PostDeposit(c), UNCHANGED late
  PROVE  HandlingInvariant'
<1>1. /\ call[c].at = "accounts" /\ GoOn(c, "deposit", o) /\ answers' \subseteq answers
      /\ sent' = sent \union {Message("deposit", o)} /\ UNCHANGED <<wallet, withdrawal, gwVars>>
  BY DEF PostDeposit
<1>2. "deposit" \in HandlerSteps \ {"idle"} /\ call[c].at \in Busy /\ Exists(o) /\ AtStep(c)
      /\ Status(o) = "processing" /\ Unposted(o)
  BY <1>1 DEF HandlingInvariant, HandlersTyped, AtStep, Busy, BeforeDeposit, Accepted, Rejected, HandlerSteps
<1>3. /\ call' \in [Calls -> HandlerRecord] /\ call'[c].at = "deposit" /\ call'[c].ref = o
      /\ \A d \in Calls \ {c} : call'[d] = call[d]
  BY <1>1, <1>2, HandlerMoves DEF HandlingInvariant
<1>4. RowsTyped' /\ WalletsKept
  BY <1>1, RowsSame DEF HandlingInvariant
<1>5. \A w \in Withdrawals : \A ok \in BOOLEAN : Answered(w, ok)' => Answered(w, ok)
  BY <1>1 DEF Answered
<1>6. Posted(o)' /\ \A w \in Withdrawals \ {o} : Posted(w)' <=> Posted(w)
  BY <1>1 DEF Posted, Message
<1>7. \A w \in Withdrawals \ {o} : Calmer(w)
  BY <1>1, <1>5, <1>6 DEF Calmer, gwVars
<1>8. /\ \A w \in Withdrawals \ {o} : DepositOf(w)'
      /\ \A d \in Calls \ {c} : AtStep(d)'
      /\ OneHandler'
      /\ \A steps \in SUBSET Busy : HandledAt(o, steps)' <=> "deposit" \in steps
  BY <1>2, <1>3, <1>4, <1>7, OthersFollow
<1>9. /\ Exists(o)' /\ Status(o)' = "processing" /\ ~HasLanded(o) /\ ~HasLanded(o)'
      /\ ~Answered(o, TRUE)' /\ ~Answered(o, FALSE)'
  BY <1>1, <1>2, <1>5 DEF Exists, Status, HasLanded, Unposted, Untouched, gwVars
<1>10. DepositOf(o)'
  <2>1. ~HandledAt(o, Accepted)' /\ ~HandledAt(o, Rejected)'
    BY <1>8, BusySteps DEF Accepted, Rejected
  <2> QED
    BY <1>9, <2>1 DEF DepositOf, Settled, Refused
<1>11. AtStep(c)'
  BY <1>3, <1>9 DEF AtStep, BeforeDeposit
<1>12. GatewayTyped'
  <2>1. Message("deposit", o) \in [kind : {"accounts", "deposit"}, ref : Withdrawals]
    BY DEF Message
  <2> QED
    BY <1>1, <2>1 DEF HandlingInvariant, gwVars, GatewayTyped
<1>13. WritesInFlight'
  <2>1. \A w \in Withdrawals : InFlight(w)' <=> InFlight(w)
    BY <1>1, <1>6, <1>9 DEF InFlight, HasLanded, gwVars
  <2>2. \A u \in Users : GW!HasAccount(u) => GW!HasAccount(u)'
    BY <1>1 DEF GW!HasAccount, gwVars
  <2> QED
    BY <1>1, <2>1, <2>2, WritesStay DEF HandlingInvariant, gwVars, GatewayTyped
<1> QED
  BY <1>3, <1>4, <1>8, <1>10, <1>11, <1>12, <1>13 DEF HandlingInvariant, HandlersTyped, DepositsFollow

LEMMA DepositAnsweredKeeps ==
  ASSUME HandlingInvariant, NEW c \in Calls, NEW o \in Withdrawals, call[c].ref = o, DepositAnswered(c), UNCHANGED late
  PROVE  HandlingInvariant'
<1>1. PICK ok \in BOOLEAN : Answered(o, ok) /\ GoOn(c, AfterDeposit(ok), o)
  <2>1. PICK m \in answers : m.kind = "deposit" /\ m.ref = o /\ GoOn(c, AfterDeposit(m.ok), o)
    BY DEF DepositAnswered
  <2>2. m \in [kind : {"accounts", "deposit"}, ref : Withdrawals, ok : BOOLEAN]
    BY DEF HandlingInvariant, GatewayTyped
  <2>3. m = Answer("deposit", o, m.ok) /\ m.ok \in BOOLEAN
    BY <2>1, <2>2 DEF Answer
  <2> QED
    BY <2>1, <2>3 DEF Answered
<1>2. call[c].at = "deposit" /\ answers' \subseteq answers /\ UNCHANGED <<wallet, withdrawal, gwVars, sent>>
  BY DEF DepositAnswered
<1>3. PICK step \in {"deposited", "rejected"} : step = AfterDeposit(ok)
  BY DEF AfterDeposit
<1>4. step \in HandlerSteps \ {"idle"} /\ step \in Busy /\ call[c].at \in Busy /\ Exists(o) /\ Status(o) = "processing"
  BY <1>2 DEF HandlingInvariant, HandlersTyped, AtStep, Busy, BeforeDeposit, Accepted, Rejected, HandlerSteps
<1>5. /\ call' \in [Calls -> HandlerRecord] /\ call'[c].at = step /\ call'[c].ref = o
      /\ \A d \in Calls \ {c} : call'[d] = call[d]
  BY <1>1, <1>3, <1>4, HandlerMoves DEF HandlingInvariant
<1>6. RowsTyped' /\ WalletsKept
  BY <1>2, RowsSame DEF HandlingInvariant
<1>7. \A w \in Withdrawals : /\ \A b \in BOOLEAN : Answered(w, b)' => Answered(w, b)
                             /\ Posted(w)' <=> Posted(w)
                             /\ HasLanded(w)' <=> HasLanded(w)
  BY <1>2 DEF Answered, Posted, HasLanded, gwVars
<1>8. \A w \in Withdrawals : Calmer(w)
  BY <1>2, <1>7 DEF Calmer, gwVars
<1>9. /\ \A w \in Withdrawals \ {o} : DepositOf(w)'
      /\ \A d \in Calls \ {c} : AtStep(d)'
      /\ OneHandler'
      /\ \A steps \in SUBSET Busy : HandledAt(o, steps)' <=> step \in steps
  BY <1>4, <1>5, <1>6, <1>8, OthersFollow
<1>10. Exists(o)' /\ Status(o)' = "processing"
  BY <1>2, <1>4 DEF Exists, Status
<1>11. /\ Answered(o, TRUE) => HasLanded(o) /\ ~Posted(o)
       /\ Answered(o, FALSE) => Untouched(o)
  BY DEF HandlingInvariant, DepositsFollow, DepositOf, Settled
<1>12. DepositOf(o)'
  <2>1. /\ HandledAt(o, Accepted)' <=> step = "deposited"
        /\ HandledAt(o, Rejected)' <=> step = "rejected"
    BY <1>9, BusySteps DEF Accepted, Rejected
  <2>2. step = "deposited" <=> ok
    BY <1>3 DEF AfterDeposit
  <2>3. Settled(o)' => Answered(o, TRUE)
    BY <1>1, <1>7, <1>10, <2>1, <2>2 DEF Settled
  <2>4. Refused(o)' => Answered(o, FALSE)
    BY <1>1, <1>10, <2>1, <2>2 DEF Refused
  <2>5. Untouched(o) => Untouched(o)'
    BY <1>7 DEF Untouched
  <2> QED
    BY <1>7, <1>10, <1>11, <2>3, <2>4, <2>5 DEF DepositOf
<1>13. AtStep(c)'
  BY <1>4, <1>5, <1>10 DEF AtStep, BeforeDeposit
<1>14. GatewayTyped' /\ WritesInFlight'
  BY <1>2, <1>7, WritesSame DEF HandlingInvariant, gwVars, GatewayTyped
<1> QED
  BY <1>5, <1>6, <1>9, <1>12, <1>13, <1>14 DEF HandlingInvariant, HandlersTyped, DepositsFollow

LEMMA GiveUpKeeps ==
  ASSUME HandlingInvariant, NEW c \in Calls, NEW o \in Withdrawals, call[c].ref = o, GiveUp(c)
  PROVE  HandlingInvariant'
<1>1. /\ call[c].at \in {"accounts", "deposit"} /\ GoOn(c, "rejected", o) /\ late' = late \union {o}
      /\ answers' = {m \in answers : m.ref # o} /\ UNCHANGED <<wallet, withdrawal, gwVars, sent>>
  BY DEF GiveUp, TimesOut, AfterTimeout, DropAnswers
<1>2. "rejected" \in HandlerSteps \ {"idle"} /\ "rejected" \in Busy /\ call[c].at \in Busy /\ Exists(o) /\ Status(o) = "processing"
  BY <1>1 DEF HandlingInvariant, HandlersTyped, AtStep, Busy, BeforeDeposit, Accepted, Rejected, HandlerSteps
<1>3. /\ call' \in [Calls -> HandlerRecord] /\ call'[c].at = "rejected" /\ call'[c].ref = o
      /\ \A d \in Calls \ {c} : call'[d] = call[d]
  BY <1>1, <1>2, HandlerMoves DEF HandlingInvariant
<1>4. RowsTyped' /\ WalletsKept
  BY <1>1, RowsSame DEF HandlingInvariant
<1>5. \A w \in Withdrawals : /\ \A b \in BOOLEAN : Answered(w, b)' => Answered(w, b)
                             /\ Posted(w)' <=> Posted(w)
                             /\ HasLanded(w)' <=> HasLanded(w)
  BY <1>1 DEF Answered, Posted, HasLanded, gwVars
<1>6. \A w \in Withdrawals : Calmer(w)
  BY <1>1, <1>5 DEF Calmer, gwVars
<1>7. /\ \A w \in Withdrawals \ {o} : DepositOf(w)'
      /\ \A d \in Calls \ {c} : AtStep(d)'
      /\ OneHandler'
      /\ \A steps \in SUBSET Busy : HandledAt(o, steps)' <=> "rejected" \in steps
  BY <1>1, <1>2, <1>3, <1>4, <1>6, OthersFollow
<1>8. Exists(o)' /\ Status(o)' = "processing" /\ ~Answered(o, TRUE)' /\ ~Answered(o, FALSE)'
  BY <1>1, <1>2 DEF Exists, Status, Answered, Answer
<1>9. DepositOf(o)'
  <2>1. ~HandledAt(o, Accepted)'
    BY <1>7, BusySteps DEF Accepted
  <2> QED
    BY <1>1, <1>8, <2>1 DEF DepositOf, Settled
<1>10. AtStep(c)'
  BY <1>2, <1>3, <1>8 DEF AtStep, BeforeDeposit
<1>11. GatewayTyped' /\ WritesInFlight'
  BY <1>1, <1>5, WritesSame DEF HandlingInvariant, gwVars, GatewayTyped
<1> QED
  BY <1>3, <1>4, <1>7, <1>9, <1>10, <1>11 DEF HandlingInvariant, HandlersTyped, DepositsFollow
\* The handler comes to an end by setting the status of its withdrawal.
LEMMA EndKeeps ==
  ASSUME HandlingInvariant, NEW c \in Calls, NEW o \in Withdrawals, call[c].ref = o, call[c].at \in Busy,
         NEW status \in {"completed", "failed"}, SetStatus(o, status), call' = [call EXCEPT ![c] = Idle],
         wallet' \in [Users -> Seq(WalletRow)], WalletsKept, UNCHANGED <<gwVars, netVars, late>>,
         status = "completed" => Settled(o), status = "failed" => Refused(o)
  PROVE  HandlingInvariant'
<1>1. Exists(o)
  BY DEF HandlingInvariant, HandlersTyped, AtStep
<1>2. /\ call' \in [Calls -> HandlerRecord] /\ call'[c].at = "idle" /\ call'[c].at \notin Busy
      /\ \A d \in Calls \ {c} : call'[d] = call[d]
  BY HandlerRests DEF HandlingInvariant
<1>3. /\ RowsTyped' /\ Exists(o)' /\ Status(o)' = status
      /\ \A w \in Withdrawals \ {o} : withdrawal'[w] = withdrawal[w]
      /\ \A w \in Withdrawals : Exists(w) =>
           withdrawal'[w].user = withdrawal[w].user /\ withdrawal'[w].amount = withdrawal[w].amount
  <2>1. status \in WithdrawalStatus \ {"cancelled"}
    BY DEF WithdrawalStatus
  <2> QED
    BY <1>1, <2>1, StatusSet DEF HandlingInvariant
<1>4. \A w \in Withdrawals : /\ \A b \in BOOLEAN : Answered(w, b)' <=> Answered(w, b)
                             /\ Posted(w)' <=> Posted(w)
                             /\ HasLanded(w)' <=> HasLanded(w)
  BY DEF Answered, Posted, HasLanded, gwVars, netVars
<1>5. \A w \in Withdrawals \ {o} : Calmer(w)
  BY <1>3, <1>4 DEF Calmer, gwVars
<1>6. /\ \A w \in Withdrawals \ {o} : DepositOf(w)'
      /\ \A d \in Calls \ {c} : AtStep(d)'
      /\ OneHandler'
      /\ \A steps \in SUBSET Busy : ~HandledAt(o, steps)'
  BY <1>1, <1>2, <1>5, OthersFollow
<1>7. DepositOf(o)'
  <2>1. ~HandledAt(o, Accepted)' /\ ~HandledAt(o, Rejected)'
    BY <1>6, BusySteps
  <2>2. Untouched(o)' <=> Untouched(o)
    BY <1>4 DEF Untouched
  <2>3. Settled(o)' => Settled(o)
    BY <1>3, <1>4, <2>1 DEF Settled
  <2>4. Refused(o)' => Refused(o)
    BY <1>3, <2>1 DEF Refused
  <2>5. DepositOf(o)
    BY DEF HandlingInvariant, DepositsFollow
  <2> QED
    BY <1>3, <1>4, <2>2, <2>3, <2>4, <2>5 DEF DepositOf
<1>8. AtStep(c)'
  BY <1>2, BusySteps DEF AtStep
<1>9. GatewayTyped' /\ WritesInFlight'
  BY <1>3, <1>4, WritesSame DEF HandlingInvariant, gwVars, netVars, GatewayTyped
<1> QED
  BY <1>2, <1>3, <1>6, <1>7, <1>8, <1>9 DEF HandlingInvariant, HandlersTyped, DepositsFollow

LEMMA CompleteKeeps ==
  ASSUME HandlingInvariant, NEW c \in Calls, NEW o \in Withdrawals, call[c].ref = o,
         CompleteWithdrawal(c), LocalOnly, UNCHANGED late
  PROVE  HandlingInvariant'
<1>1. call[c].at = "complete" /\ SetStatus(o, "completed") /\ call' = [call EXCEPT ![c] = Idle] /\ wallet' = wallet
  BY DEF CompleteWithdrawal, Update, GoOn
<1>2. Settled(o) /\ call[c].at \in Busy
  BY <1>1 DEF Settled, HandledAt, Accepted, Busy
<1>3. WalletsKept /\ wallet' \in [Users -> Seq(WalletRow)]
  BY <1>1 DEF WalletsKept, HasWallet, HandlingInvariant, RowsTyped
<1> QED
  BY <1>1, <1>2, <1>3, EndKeeps DEF LocalOnly

\* What the refund of a failed withdrawal does.
LEMMA RefundPays ==
  ASSUME RowsTyped, NEW o \in Withdrawals, Exists(o), Refund(o, "failed")
  PROVE  /\ SetStatus(o, "failed")
         /\ wallet' \in [Users -> Seq(WalletRow)] /\ WalletsKept
         /\ withdrawal[o].user \in Users /\ withdrawal[o].amount \in Nat \ {0} /\ HasWallet(withdrawal[o].user)
         /\ wallet'[withdrawal[o].user][1].balance = wallet[withdrawal[o].user][1].balance + withdrawal[o].amount
         /\ wallet'[withdrawal[o].user][1].earned = wallet[withdrawal[o].user][1].earned
         /\ \A u \in Users \ {withdrawal[o].user} : wallet'[u] = wallet[u]
<1>1. PICK u \in Users : u = withdrawal[o].user
  BY DEF RowsTyped, Exists, WithdrawalRow
<1>2. PICK a \in Nat \ {0} : a = withdrawal[o].amount
  BY DEF RowsTyped, Exists, WithdrawalRow
<1>3. withdrawal[o].row = 1 /\ HasWallet(u) /\ wallet[u] \in Seq(WalletRow)
  BY <1>1 DEF RowsTyped
<1>4. 1 \in DOMAIN wallet[u] /\ wallet[u][1] \in WalletRow
  BY <1>3 DEF HasWallet
<1>5. AddToWallet(u, 1, a, 0, 0) /\ SetStatus(o, "failed")
  BY <1>1, <1>2, <1>3 DEF Refund, RefundAmount
<1>6. /\ wallet' \in [Users -> Seq(WalletRow)]
      /\ \A v \in Users : Len(wallet'[v]) = Len(wallet[v])
      /\ wallet'[u][1] = [balance |-> wallet[u][1].balance + a, earned |-> wallet[u][1].earned + 0,
                          spent |-> wallet[u][1].spent + 0]
  BY <1>4, <1>5, AddToWalletEffect DEF RowsTyped
<1>7. WalletsKept
  BY <1>6 DEF WalletsKept, HasWallet, RowsTyped
<1>8. wallet[u][1].earned \in Int
  BY <1>4 DEF WalletRow
<1>9. \A v \in Users \ {u} : wallet'[v] = wallet[v]
  BY <1>5 DEF AddToWallet, RowsTyped
<1> QED
  BY <1>1, <1>2, <1>3, <1>5, <1>6, <1>7, <1>8, <1>9

LEMMA FailKeeps ==
  ASSUME HandlingInvariant, NEW c \in Calls, NEW o \in Withdrawals, call[c].ref = o,
         FailWithdrawal(c), LocalOnly, UNCHANGED late
  PROVE  HandlingInvariant'
<1>1. call[c].at = "fail" /\ Refund(o, "failed") /\ call' = [call EXCEPT ![c] = Idle]
  BY DEF FailWithdrawal, GoOn
<1>2. Refused(o) /\ call[c].at \in Busy /\ Exists(o)
  BY <1>1 DEF Refused, HandledAt, Rejected, Busy, HandlingInvariant, HandlersTyped, AtStep
<1>3. SetStatus(o, "failed") /\ WalletsKept /\ wallet' \in [Users -> Seq(WalletRow)]
  BY <1>1, <1>2, RefundPays DEF HandlingInvariant
<1> QED
  BY <1>1, <1>2, <1>3, EndKeeps DEF LocalOnly
\* Steps that begin, end or break off a call outside the work on a withdrawal.
LEMMA FreeKeeps ==
  ASSUME HandlingInvariant, NEW c \in Calls, call' \in [Calls -> HandlerRecord], \A d \in Calls \ {c} : call'[d] = call[d],
         call'[c].at \notin Busy, call'[c].at = "escrow" => HasWallet(call'[c].user) /\ call'[c].amount # 0,
         answers' \subseteq answers, UNCHANGED <<wallet, withdrawal, gwVars, sent, late>>
  PROVE  HandlingInvariant'
<1>1. RowsTyped' /\ WalletsKept
  BY RowsSame DEF HandlingInvariant
<1>2. \A w \in Withdrawals : /\ \A b \in BOOLEAN : Answered(w, b)' => Answered(w, b)
                             /\ Posted(w)' <=> Posted(w)
  BY DEF Answered, Posted
<1>3. \A w \in Withdrawals : Calmer(w)
  BY <1>2 DEF Calmer, gwVars
<1>4. ASSUME NEW w \in Withdrawals, NEW steps \in SUBSET Busy PROVE HandledAt(w, steps)' => HandledAt(w, steps)
  BY DEF HandledAt
<1>5. ASSUME NEW w \in Withdrawals PROVE DepositOf(w)'
  BY <1>3, <1>4, BusySteps, CalmFollows DEF HandlingInvariant, DepositsFollow
<1>6. ASSUME NEW d \in Calls \ {c} PROVE AtStep(d)'
  <2>1. call[d].at \in Busy => call[d].ref \in Withdrawals
    BY DEF HandlingInvariant, HandlersTyped, AtStep
  <2> QED
    BY <1>1, <1>3, <2>1, CalmAtStep DEF HandlingInvariant, HandlersTyped
<1>7. AtStep(c)'
  <2>1. call'[c].at \notin BeforeDeposit /\ call'[c].at \notin {"escrowed", "process"}
    BY DEF Busy, BeforeDeposit
  <2> QED
    BY <2>1 DEF AtStep, HasWallet
<1>8. OneHandler'
  BY DEF HandlingInvariant, OneHandler
<1>9. GatewayTyped' /\ WritesInFlight'
  BY <1>2, WritesSame DEF HandlingInvariant, gwVars, GatewayTyped
<1> QED
  BY <1>1, <1>5, <1>6, <1>7, <1>8, <1>9 DEF HandlingInvariant, HandlersTyped, DepositsFollow

LEMMA RequestKeeps ==
  ASSUME HandlingInvariant, NEW c \in Calls, NEW u \in Users, NEW a \in Amounts, RequestWithdrawal(c, u, a),
         LocalOnly, UNCHANGED late
  PROVE  HandlingInvariant'
<1> DEFINE k == [at |-> "escrow", user |-> u, row |-> 1, amount |-> a, ref |-> NoWithdrawal]
<1>1. a \in Nat /\ a # 0
  BY AmountsAssumption
<1>2. k \in HandlerRecord /\ k.at = "escrow" /\ k.user = u /\ k.amount = a
  BY <1>1 DEF HandlerRecord, HandlerSteps
<1>3. call' = [call EXCEPT ![c] = k] /\ HasWallet(u) /\ UNCHANGED <<wallet, ledger, withdrawal>>
  BY DEF RequestWithdrawal, Enter, Found, Covers
<1> HIDE DEF k
<1>4. call' \in [Calls -> HandlerRecord] /\ call'[c] = k /\ \A d \in Calls \ {c} : call'[d] = call[d]
  BY <1>2, <1>3 DEF HandlingInvariant, HandlersTyped
<1> QED
  BY <1>1, <1>2, <1>3, <1>4, FreeKeeps, BusySteps DEF LocalOnly, netVars

LEMMA DieKeeps ==
  ASSUME HandlingInvariant, NEW c \in Calls, Die(c)
  PROVE  HandlingInvariant'
<1>1. call' = [call EXCEPT ![c] = Idle] /\ answers' \subseteq answers /\ UNCHANGED <<wallet, withdrawal, gwVars, sent, late>>
  BY DEF Die, Abandon, Leave, DropAnswers
<1>2. /\ call' \in [Calls -> HandlerRecord] /\ call'[c].at = "idle" /\ call'[c].at \notin Busy
      /\ \A d \in Calls \ {c} : call'[d] = call[d]
  BY <1>1, HandlerRests DEF HandlingInvariant
<1> QED
  BY <1>1, <1>2, FreeKeeps

\* What the escrow of a withdrawal does.
LEMMA EscrowTakes ==
  ASSUME HandlingInvariant, NEW c \in Calls, NEW o \in Withdrawals, Escrow(c, o, "gateway", "escrowed")
  PROVE  /\ call[c].at = "escrow" /\ ~Exists(o) /\ GoOn(c, "escrowed", o)
         /\ RowsTyped' /\ WalletsKept
         /\ \A w \in Withdrawals \ {o} : withdrawal'[w] = withdrawal[w]
         /\ Exists(o)' /\ Status(o)' = "pending"
         /\ withdrawal'[o].user \in Users /\ withdrawal'[o].amount \in Nat \ {0} /\ HasWallet(withdrawal'[o].user)
         /\ wallet'[withdrawal'[o].user][1].balance = wallet[withdrawal'[o].user][1].balance - withdrawal'[o].amount
         /\ wallet'[withdrawal'[o].user][1].earned = wallet[withdrawal'[o].user][1].earned
         /\ \A u \in Users \ {withdrawal'[o].user} : wallet'[u] = wallet[u]
<1>1. /\ call[c].at = "escrow" /\ Fresh(o) /\ GoOn(c, "escrowed", o) /\ AtStep(c) /\ call[c] \in HandlerRecord /\ RowsTyped
      /\ AddToWallet(call[c].user, call[c].row, -call[c].amount, 0, 0)
      /\ withdrawal' = [withdrawal EXCEPT ![o] = [status |-> "pending", user |-> call[c].user, row |-> call[c].row,
                                                  amount |-> call[c].amount, method |-> "gateway"]]
  BY DEF Escrow, HandlingInvariant, HandlersTyped
<1>2. PICK u \in Users, a \in Nat \ {0} : u = call[c].user /\ a = call[c].amount
  BY <1>1 DEF HandlerRecord, AtStep
<1>3. call[c].row = 1 /\ HasWallet(u) /\ wallet[u] \in Seq(WalletRow)
  BY <1>1, <1>2 DEF HandlerRecord, AtStep, RowsTyped
<1>4. 1 \in DOMAIN wallet[u] /\ wallet[u][1] \in WalletRow
  BY <1>3 DEF HasWallet
<1>5. PICK b \in Int : b = -a
  OBVIOUS
<1>6. AddToWallet(u, 1, b, 0, 0)
  BY <1>1, <1>2, <1>3, <1>5
<1>7. /\ wallet' \in [Users -> Seq(WalletRow)]
      /\ \A v \in Users : Len(wallet'[v]) = Len(wallet[v])
      /\ wallet'[u][1] = [balance |-> wallet[u][1].balance + b, earned |-> wallet[u][1].earned + 0,
                          spent |-> wallet[u][1].spent + 0]
  BY <1>1, <1>4, <1>6, AddToWalletEffect DEF RowsTyped
<1>8. WalletsKept
  BY <1>1, <1>7 DEF WalletsKept, HasWallet, RowsTyped
<1>9. \A v \in Users \ {u} : wallet'[v] = wallet[v]
  BY <1>1, <1>6 DEF AddToWallet, RowsTyped
<1> DEFINE row == [status |-> "pending", user |-> u, row |-> 1, amount |-> a, method |-> "gateway"]
<1>10. row \in WithdrawalRow /\ row.user = u /\ row.amount = a /\ row.row = 1 /\ row.status = "pending" /\ row # NoWithdrawal
  <2>1. row \in WithdrawalRow
    BY DEF WithdrawalRow, WithdrawalStatus
  <2> QED
    BY <2>1, NoRowAssumption
<1>11. withdrawal' = [withdrawal EXCEPT ![o] = row]
  BY <1>1, <1>2, <1>3
<1> HIDE DEF row
<1>12. withdrawal'[o] = row /\ \A w \in Withdrawals \ {o} : withdrawal'[w] = withdrawal[w]
  BY <1>1, <1>11 DEF RowsTyped
<1>13. Exists(o)' /\ Status(o)' = "pending" /\ ~Exists(o)
  BY <1>1, <1>10, <1>12 DEF Exists, Status, Fresh
<1>14. HasWallet(u)'
  BY <1>3, <1>8 DEF WalletsKept
<1>15. withdrawal' \in [Withdrawals -> WithdrawalRow \union {NoWithdrawal}]
  BY <1>1, <1>10, <1>11 DEF RowsTyped
<1>16. ASSUME NEW w \in Withdrawals \ {o}, Exists(w)' PROVE Exists(w) /\ HasWallet(withdrawal[w].user)'
  <2>1. Exists(w) /\ withdrawal[w].user \in Users
    BY <1>1, <1>12, <1>16 DEF Exists, RowsTyped, WithdrawalRow
  <2>2. PICK v \in Users : v = withdrawal[w].user
    BY <2>1
  <2>3. HasWallet(v)'
    BY <1>1, <1>8, <2>1, <2>2 DEF WalletsKept, RowsTyped
  <2>4. wallet'[v] # <<>>
    BY <2>3 DEF HasWallet
  <2>5. withdrawal'[w] = withdrawal[w]
    BY <1>12
  <2> QED
    BY <2>1, <2>2, <2>4, <2>5 DEF HasWallet
<1>17. RowsTyped'
  BY <1>1, <1>7, <1>10, <1>12, <1>14, <1>15, <1>16 DEF RowsTyped, HasWallet
<1>18. wallet[u][1].balance \in Int /\ wallet[u][1].earned \in Int
  BY <1>4 DEF WalletRow
<1>19. wallet'[u][1].balance = wallet[u][1].balance - a /\ wallet'[u][1].earned = wallet[u][1].earned
  BY <1>5, <1>7, <1>18
<1> QED
  BY <1>1, <1>3, <1>8, <1>9, <1>10, <1>12, <1>13, <1>17, <1>19
LEMMA EscrowKeeps ==
  ASSUME HandlingInvariant, NEW c \in Calls, NEW o \in Withdrawals, Escrow(c, o, "gateway", "escrowed"),
         LocalOnly, UNCHANGED late
  PROVE  HandlingInvariant'
<1>1. /\ call[c].at = "escrow" /\ ~Exists(o) /\ GoOn(c, "escrowed", o) /\ RowsTyped' /\ WalletsKept
      /\ \A w \in Withdrawals \ {o} : withdrawal'[w] = withdrawal[w]
      /\ Exists(o)' /\ Status(o)' = "pending"
  BY EscrowTakes
<1>2. "escrowed" \in HandlerSteps \ {"idle"} /\ "escrowed" \in Busy /\ call[c].at \notin Busy
  BY <1>1, BusySteps DEF Busy, BeforeDeposit, HandlerSteps
<1>3. /\ call' \in [Calls -> HandlerRecord] /\ call'[c].at = "escrowed" /\ call'[c].ref = o
      /\ \A d \in Calls \ {c} : call'[d] = call[d]
  BY <1>1, <1>2, HandlerMoves DEF HandlingInvariant
<1>4. \A w \in Withdrawals : /\ \A b \in BOOLEAN : Answered(w, b)' <=> Answered(w, b)
                             /\ Posted(w)' <=> Posted(w)
                             /\ HasLanded(w)' <=> HasLanded(w)
  BY DEF Answered, Posted, HasLanded, LocalOnly, gwVars, netVars
<1>5. \A w \in Withdrawals \ {o} : Calmer(w)
  BY <1>1, <1>4 DEF Calmer, LocalOnly, gwVars
<1>6. /\ \A w \in Withdrawals \ {o} : DepositOf(w)'
      /\ \A d \in Calls \ {c} : AtStep(d)'
      /\ OneHandler'
      /\ \A steps \in SUBSET Busy : HandledAt(o, steps)' <=> "escrowed" \in steps
  BY <1>1, <1>2, <1>3, <1>5, OthersFollow
<1>7. Unposted(o)'
  <2>1. Unposted(o)
    BY <1>1 DEF HandlingInvariant, DepositsFollow, DepositOf
  <2> QED
    BY <1>4, <2>1 DEF Unposted, Untouched
<1>8. DepositOf(o)'
  <2>1. ~HandledAt(o, Accepted)' /\ ~HandledAt(o, Rejected)'
    BY <1>6, BusySteps DEF Accepted, Rejected
  <2> QED
    BY <1>1, <1>7, <2>1 DEF DepositOf, Settled, Refused, Unposted
<1>9. AtStep(c)'
  BY <1>1, <1>3, <1>7 DEF AtStep
<1>10. GatewayTyped' /\ WritesInFlight'
  <2>1. \A w \in Withdrawals : Exists(w) => withdrawal'[w] = withdrawal[w]
    BY <1>1
  <2>2. \A w \in Withdrawals : Exists(w) => withdrawal'[w].user = withdrawal[w].user /\ withdrawal'[w].amount = withdrawal[w].amount
    BY <2>1
  <2> QED
    BY <1>4, <2>2, WritesSame DEF HandlingInvariant, LocalOnly, gwVars, netVars, GatewayTyped
<1> QED
  BY <1>1, <1>3, <1>6, <1>8, <1>9, <1>10 DEF HandlingInvariant, HandlersTyped, DepositsFollow

\* Steps that no handler takes: they leave a withdrawal, and what is known of its deposit, as it is.
LEMMA HandlersFollow ==
  ASSUME HandlingInvariant, call' = call, WalletsKept, late' = late,
         \A w \in Withdrawals : withdrawal'[w] = withdrawal[w] /\ (Unposted(w) => Unposted(w)')
  PROVE  HandlersTyped' /\ OneHandler' /\ \A w, steps : HandledAt(w, steps)' <=> HandledAt(w, steps)
<1>1. ASSUME NEW d \in Calls PROVE AtStep(d)'
  <2>1. AtStep(d) /\ call[d].user \in Users /\ call'[d] = call[d]
    BY DEF HandlingInvariant, HandlersTyped, HandlerRecord
  <2>2. PICK o : o = call[d].ref
    OBVIOUS
  <2>3. call[d].at \in Busy => o \in Withdrawals
    BY <2>1, <2>2 DEF AtStep
  <2>4. o \in Withdrawals => (Exists(o)' <=> Exists(o)) /\ Status(o)' = Status(o) /\ (Unposted(o) => Unposted(o)')
    BY DEF Exists, Status
  <2>5. PICK u \in Users : u = call[d].user
    BY <2>1
  <2>6. HasWallet(u) => HasWallet(u)'
    BY DEF WalletsKept
  <2> QED
    BY <2>1, <2>2, <2>3, <2>4, <2>5, <2>6, BusySteps DEF AtStep, BeforeDeposit, Busy
<1> QED
  BY <1>1 DEF HandlingInvariant, HandlersTyped, OneHandler, HandledAt
(***************************************************************************)
(* The other steps keep the control part: credits, and the gateway.        *)
(***************************************************************************)
LEMMA EarnPays ==
  ASSUME HandlingInvariant, NEW u \in Users, NEW type, NEW a \in Amounts, CreditWallet(u, type, a)
  PROVE  /\ wallet' \in [Users -> Seq(WalletRow)] /\ WalletsKept
         /\ \A v \in Users : /\ InWallet(v) \in Int /\ Earned(v) \in Int
                             /\ InWallet(v)' \in Int /\ Earned(v)' \in Int
                             /\ InWallet(v)' - InWallet(v) = Earned(v)' - Earned(v)
<1>1. wallet \in [Users -> Seq(WalletRow)] /\ a \in Nat
  BY AmountsAssumption DEF HandlingInvariant, RowsTyped
<1>2. \A v \in Users : HasWallet(v) => wallet[v][1] \in WalletRow
  BY <1>1 DEF HasWallet
<1>3. \A v \in Users : InWallet(v) \in Int /\ Earned(v) \in Int
  BY <1>2 DEF InWallet, Earned, Balance, Found, WalletRow
<1>4. CASE ~HasWallet(u)
  <2> DEFINE row == NewWallet(a)
  <2>1. wallet' = [wallet EXCEPT ![u] = Append(wallet[u], row)] /\ wallet[u] = <<>>
    BY <1>1, <1>4 DEF CreditWallet, InsertWallet, HasWallet
  <2>2. row \in WalletRow /\ row.balance = a /\ row.earned = a
    BY <1>1 DEF NewWallet, WalletRow
  <2> HIDE DEF row
  <2>3. Append(wallet[u], row) = <<row>>
    BY <1>1, <2>1, <2>2
  <2>4. wallet'[u] = <<row>> /\ \A v \in Users \ {u} : wallet'[v] = wallet[v]
    BY <1>1, <2>1, <2>3
  <2>5. wallet' \in [Users -> Seq(WalletRow)]
    BY <1>1, <2>1, <2>2
  <2>6. InWallet(u) = 0 /\ Earned(u) = 0 /\ InWallet(u)' = a /\ Earned(u)' = a
    BY <1>4, <2>2, <2>4 DEF InWallet, Earned, HasWallet, Balance, Found
  <2>7. \A v \in Users \ {u} : InWallet(v)' = InWallet(v) /\ Earned(v)' = Earned(v)
    BY <2>4 DEF InWallet, Earned, HasWallet, Balance, Found
  <2>8. WalletsKept
    BY <2>4 DEF WalletsKept, HasWallet
  <2> QED
    BY <1>1, <1>3, <2>5, <2>6, <2>7, <2>8
<1>5. CASE HasWallet(u)
  <2>1. AddToWallet(u, 1, a, a, 0)
    BY <1>5 DEF CreditWallet, Found
  <2>2. 1 \in DOMAIN wallet[u] /\ a \in Int
    BY <1>1, <1>5 DEF HasWallet
  <2>3. /\ wallet' \in [Users -> Seq(WalletRow)]
        /\ \A v \in Users : Len(wallet'[v]) = Len(wallet[v])
        /\ wallet'[u][1] = [balance |-> wallet[u][1].balance + a, earned |-> wallet[u][1].earned + a,
                            spent |-> wallet[u][1].spent + 0]
    <3>1. PICK i \in DOMAIN wallet[u], b \in Int, none \in Int : i = 1 /\ b = a /\ none = 0
      BY <2>2
    <3>2. AddToWallet(u, i, b, b, none)
      BY <2>1, <3>1
    <3>3. wallet \in [Users -> Seq(WalletRow)]
      BY <1>1
    <3>4. /\ wallet' \in [Users -> Seq(WalletRow)]
          /\ \A v \in Users : Len(wallet'[v]) = Len(wallet[v])
          /\ wallet'[u][i] = [balance |-> wallet[u][i].balance + b, earned |-> wallet[u][i].earned + b,
                              spent |-> wallet[u][i].spent + none]
      BY <3>2, <3>3, AddToWalletEffect
    <3> QED
      BY <3>1, <3>4
  <2>4. \A v \in Users \ {u} : wallet'[v] = wallet[v]
    BY <1>1, <2>1 DEF AddToWallet
  <2>5. WalletsKept
    BY <1>1, <2>3 DEF WalletsKept, HasWallet
  <2>6. /\ wallet[u][1].balance \in Int /\ wallet[u][1].earned \in Int
        /\ wallet'[u][1].balance = wallet[u][1].balance + a /\ wallet'[u][1].earned = wallet[u][1].earned + a
    BY <1>2, <1>5, <2>3 DEF WalletRow
  <2>7. HasWallet(u)'
    BY <1>5, <2>5 DEF WalletsKept
  <2>8. /\ InWallet(u) = wallet[u][1].balance /\ InWallet(u)' = wallet'[u][1].balance
        /\ Earned(u) = wallet[u][1].earned /\ Earned(u)' = wallet'[u][1].earned
    BY <1>5, <2>7 DEF InWallet, Earned, Balance, Found
  <2>9. \A v \in Users \ {u} : InWallet(v)' = InWallet(v) /\ Earned(v)' = Earned(v)
    BY <2>4 DEF InWallet, Earned, HasWallet, Balance, Found
  <2>10. InWallet(u)' \in Int /\ Earned(u)' \in Int /\ InWallet(u)' - InWallet(u) = Earned(u)' - Earned(u)
    BY <1>1, <2>6, <2>8
  <2>11. \A v \in Users \ {u} : /\ InWallet(v)' \in Int /\ Earned(v)' \in Int
                               /\ InWallet(v)' - InWallet(v) = Earned(v)' - Earned(v)
    BY <1>3, <2>9
  <2> QED
    BY <1>3, <2>3, <2>5, <2>10, <2>11
<1> QED
  BY <1>4, <1>5

\* A step that no handler takes and that leaves the withdrawals: what is left to show.
LEMMA OutsideKeeps ==
  ASSUME HandlingInvariant, call' = call, late' = late, withdrawal' = withdrawal, GatewayTyped', WritesInFlight',
         wallet' \in [Users -> Seq(WalletRow)], WalletsKept,
         \A w \in Withdrawals : Calmer(w) \/ (DepositOf(w)' /\ Posted(w))
  PROVE  HandlingInvariant'
<1>1. RowsTyped'
  <2>1. \A w \in Withdrawals : Exists(w) => withdrawal[w].user \in Users
    BY DEF HandlingInvariant, RowsTyped, Exists, WithdrawalRow
  <2> QED
    BY <2>1 DEF HandlingInvariant, RowsTyped, WalletsKept, HasWallet, Exists
<1>2. \A w \in Withdrawals : Unposted(w) => Unposted(w)'
  BY DEF Calmer, Unposted, Untouched, HasLanded
<1>3. HandlersTyped' /\ OneHandler' /\ \A w, steps : HandledAt(w, steps)' <=> HandledAt(w, steps)
  BY <1>2, HandlersFollow
<1>4. ASSUME NEW w \in Withdrawals PROVE DepositOf(w)'
  BY <1>3, CalmFollows DEF HandlingInvariant, DepositsFollow
<1> QED
  BY <1>1, <1>3, <1>4 DEF HandlingInvariant, DepositsFollow

LEMMA EarnKeeps ==
  ASSUME HandlingInvariant, Earn, UNCHANGED late
  PROVE  HandlingInvariant'
<1>1. PICK u \in Users, type \in CreditTypes, a \in Amounts : CreditWallet(u, type, a)
  BY DEF Earn
<1>2. call' = call /\ withdrawal' = withdrawal /\ UNCHANGED <<gwVars, netVars>>
  BY <1>1 DEF Earn, CreditWallet, LocalOnly
<1>3. wallet' \in [Users -> Seq(WalletRow)] /\ WalletsKept
  BY <1>1, EarnPays
<1>4. \A w : Calmer(w)
  BY <1>2, NothingCalmer DEF gwVars, netVars
<1>5. \A w \in Withdrawals : Posted(w)' <=> Posted(w)
  BY <1>2 DEF Posted, netVars
<1>6. GatewayTyped' /\ WritesInFlight'
  BY <1>2, <1>5, WritesSame DEF HandlingInvariant, gwVars, netVars, GatewayTyped
<1> QED
  BY <1>2, <1>3, <1>4, <1>6, OutsideKeeps
\* What the gateway does leaves the wallets and the withdrawals.
LEMMA GatewayApart ==
  ASSUME HandlingInvariant, UNCHANGED payoutVars, UNCHANGED late
  PROVE  /\ call' = call /\ late' = late /\ withdrawal' = withdrawal /\ wallet' = wallet
         /\ wallet' \in [Users -> Seq(WalletRow)] /\ WalletsKept
  BY DEF payoutVars, HandlingInvariant, RowsTyped, WalletsKept, HasWallet

\* An answer goes to the handler, or nowhere.
LEMMA ReplyGives ==
  ASSUME GatewayTyped, NEW kind \in {"accounts", "deposit"}, NEW o \in Withdrawals, NEW ok \in BOOLEAN, Reply(kind, o, ok)
  PROVE  /\ answers' \subseteq [kind : {"accounts", "deposit"}, ref : Withdrawals, ok : BOOLEAN]
         /\ \A w \in Withdrawals : \A b \in BOOLEAN :
              kind = "accounts" \/ w # o \/ b # ok => (Answered(w, b)' <=> Answered(w, b))
<1>1. Answer(kind, o, ok) \in [kind : {"accounts", "deposit"}, ref : Withdrawals, ok : BOOLEAN]
  BY DEF Answer
<1>2. answers' \subseteq answers \union {Answer(kind, o, ok)} /\ answers \subseteq answers'
  BY DEF Reply
<1> QED
  BY <1>1, <1>2 DEF GatewayTyped, Answered, Answer

\* A message has been taken, or is lost.
LEMMA MessageGone ==
  ASSUME GatewayTyped, NEW kind \in {"accounts", "deposit"}, NEW o \in Withdrawals, sent' = sent \ {Message(kind, o)}
  PROVE  /\ sent' \subseteq [kind : {"accounts", "deposit"}, ref : Withdrawals]
         /\ \A w \in Withdrawals : Posted(w)' <=> Posted(w) /\ (kind = "accounts" \/ w # o)
  BY DEF GatewayTyped, Posted, Message

LEMMA ServeAccountsKeeps ==
  ASSUME HandlingInvariant, NEW o \in Withdrawals, ServeAccounts(o), UNCHANGED late
  PROVE  HandlingInvariant'
<1>1. /\ sent' = sent \ {Message("accounts", o)} /\ Reply("accounts", o, TRUE) /\ UNCHANGED payoutVars
      /\ UNCHANGED <<deposit, writing>> /\ account' = [account EXCEPT ![withdrawal[o].user] = GW!ExistingOrNew(withdrawal[o].user)]
  BY DEF ServeAccounts, GW!CreateAccount
<1>2. GatewayTyped
  BY DEF HandlingInvariant
<1>3. account' \in [Users -> Int \union {Nothing}] /\ \A u \in Users : GW!HasAccount(u) => GW!HasAccount(u)'
  <2>1. \A u \in Users : GW!ExistingOrNew(u) \in Int /\ (GW!HasAccount(u) => GW!ExistingOrNew(u) = account[u])
    BY <1>2 DEF GatewayTyped, GW!ExistingOrNew, GW!HasAccount
  <2>2. \A u \in Users : account'[u] = IF u = withdrawal[o].user THEN GW!ExistingOrNew(u) ELSE account[u]
    BY <1>1, <1>2 DEF GatewayTyped
  <2>3. account' \in [Users -> Int \union {Nothing}]
    <3>1. DOMAIN account' = Users /\ account' = [u \in Users |-> account'[u]]
      BY <1>1, <1>2 DEF GatewayTyped
    <3>2. \A u \in Users : account'[u] \in Int \union {Nothing}
      BY <1>2, <2>1, <2>2 DEF GatewayTyped
    <3> QED
      BY <3>1, <3>2
  <2>4. \A u \in Users : GW!HasAccount(u) => GW!HasAccount(u)'
    BY <1>2, <2>1, <2>2 DEF GatewayTyped, GW!HasAccount
  <2> QED
    BY <2>3, <2>4
<1>4. /\ \A w \in Withdrawals : Posted(w)' <=> Posted(w)
      /\ \A w \in Withdrawals : \A b \in BOOLEAN : Answered(w, b)' <=> Answered(w, b)
      /\ GatewayTyped'
  <2>1. /\ sent' \subseteq [kind : {"accounts", "deposit"}, ref : Withdrawals]
        /\ \A w \in Withdrawals : Posted(w)' <=> Posted(w)
    BY <1>1, <1>2, MessageGone
  <2>2. /\ answers' \subseteq [kind : {"accounts", "deposit"}, ref : Withdrawals, ok : BOOLEAN]
        /\ \A w \in Withdrawals : \A b \in BOOLEAN : Answered(w, b)' <=> Answered(w, b)
    BY <1>1, <1>2, ReplyGives
  <2> QED
    BY <1>1, <1>2, <1>3, <2>1, <2>2 DEF GatewayTyped
<1>5. \A w \in Withdrawals : InFlight(w)' <=> InFlight(w)
  BY <1>1, <1>4 DEF InFlight, HasLanded
<1>6. WritesInFlight'
  BY <1>1, <1>2, <1>3, <1>5, GatewayApart, WritesStay DEF HandlingInvariant, GatewayTyped
<1>7. \A w \in Withdrawals : Calmer(w)
  BY <1>1, <1>4, GatewayApart DEF Calmer
<1> QED
  BY <1>1, <1>4, <1>6, <1>7, GatewayApart, OutsideKeeps

\* What serving a deposit does: it lands in an account, or there is no account.
LEMMA DepositServed ==
  ASSUME HandlingInvariant, NEW o \in Withdrawals, ServeDeposit(o)
  PROVE  /\ Posted(o) /\ ~HasLanded(o) /\ writing = Nothing /\ Exists(o) /\ UNCHANGED <<account, payoutVars>>
         /\ withdrawal[o].user \in Users /\ withdrawal[o].amount \in Nat \ {0}
         /\ \/ /\ GW!HasAccount(withdrawal[o].user)
               /\ deposit' = [deposit EXCEPT ![o] = [user |-> withdrawal[o].user, usd |-> withdrawal[o].amount]]
               /\ writing' = [user |-> withdrawal[o].user, usd |-> withdrawal[o].amount]
               /\ UNCHANGED <<sent, answers>>
            \/ /\ UNCHANGED <<deposit, writing>>
               /\ sent' = sent \ {Message("deposit", o)} /\ Reply("deposit", o, FALSE)
<1>1. Posted(o) /\ writing = Nothing /\ UNCHANGED <<account, payoutVars>>
  BY DEF ServeDeposit, Posted, GW!Deposit
<1>2. ~HasLanded(o)
  <2>1. ~ InFlight(o)
    <3>1. InFlight(o) => withdrawal[o] \in WithdrawalRow
      BY DEF HandlingInvariant, RowsTyped, DepositsFollow, DepositOf, Unposted, Untouched, InFlight, Exists
    <3>2. InFlight(o) => writing \in [user : Users, usd : Int]
      BY <3>1 DEF HandlingInvariant, WritesInFlight, WithdrawalRow
    <3> QED
      BY <1>1, <3>2, SettlementAssumption
  <2> QED
    BY <1>1, <2>1 DEF InFlight
<1>3. Exists(o)
  BY <1>1 DEF HandlingInvariant, DepositsFollow, DepositOf, Unposted, Untouched
<1>4. withdrawal[o].user \in Users /\ withdrawal[o].amount \in Nat \ {0}
  BY <1>3 DEF HandlingInvariant, RowsTyped, Exists, WithdrawalRow
<1> DEFINE row == [user |-> withdrawal[o].user, usd |-> withdrawal[o].amount]
<1>5. row # Nothing
  BY <1>4, SettlementAssumption
<1>6. CASE GW!HasAccount(withdrawal[o].user)
  <2>1. deposit' = [deposit EXCEPT ![o] = row] /\ writing' = row
    BY <1>2, <1>6 DEF ServeDeposit, GW!Deposit, GW!Known, HasLanded
  <2>2. UNCHANGED <<sent, answers>>
    BY <1>5, <2>1 DEF ServeDeposit
  <2> QED
    BY <1>1, <1>2, <1>3, <1>4, <1>6, <2>1, <2>2
<1>7. CASE ~GW!HasAccount(withdrawal[o].user)
  <2>1. UNCHANGED <<deposit, writing>>
    BY <1>7 DEF ServeDeposit, GW!Deposit
  <2>2. sent' = sent \ {Message("deposit", o)} /\ Reply("deposit", o, GW!HasAccount(withdrawal[o].user))
    BY <1>1, <2>1 DEF ServeDeposit
  <2>3. GW!HasAccount(withdrawal[o].user) = FALSE
    BY <1>7 DEF GW!HasAccount
  <2> QED
    BY <1>1, <1>2, <1>3, <1>4, <2>1, <2>2, <2>3
<1> QED
  BY <1>6, <1>7
LEMMA ServeDepositKeeps ==
  ASSUME HandlingInvariant, NEW o \in Withdrawals, ServeDeposit(o), UNCHANGED late
  PROVE  HandlingInvariant'
<1>1. /\ Posted(o) /\ ~HasLanded(o) /\ writing = Nothing /\ Exists(o) /\ UNCHANGED <<account, payoutVars>>
      /\ withdrawal[o].user \in Users /\ withdrawal[o].amount \in Nat \ {0} /\ GatewayTyped
  BY DepositServed DEF HandlingInvariant
<1>2. /\ call' = call /\ late' = late /\ withdrawal' = withdrawal
      /\ wallet' \in [Users -> Seq(WalletRow)] /\ WalletsKept
  BY <1>1, GatewayApart
<1>3. \A w \in Withdrawals : ~InFlight(w)
  <2>1. \A w \in Withdrawals : InFlight(w) => withdrawal[w] \in WithdrawalRow
    BY DEF HandlingInvariant, RowsTyped, DepositsFollow, DepositOf, Unposted, Untouched, InFlight, Exists
  <2>2. \A w \in Withdrawals : InFlight(w) => writing \in [user : Users, usd : Int]
    BY <2>1 DEF HandlingInvariant, WritesInFlight, WithdrawalRow
  <2> QED
    BY <1>1, <2>2, SettlementAssumption
<1>4. /\ ~Settled(o) /\ ~Answered(o, FALSE) /\ (Refused(o) => o \in late) /\ Status(o) # "none"
  BY <1>1 DEF HandlingInvariant, DepositsFollow, DepositOf, Untouched, RowsTyped, WithdrawalRow, Status, Exists, WithdrawalStatus
<1>5. ASSUME \A steps : HandledAt(o, steps)' <=> HandledAt(o, steps), Answered(o, TRUE)' <=> Answered(o, TRUE)
      PROVE  Exists(o)' /\ ~Settled(o)' /\ (Refused(o)' => o \in late')
  BY <1>1, <1>2, <1>4, <1>5 DEF Exists, Status, Settled, Refused
<1>6. \A steps : HandledAt(o, steps)' <=> HandledAt(o, steps)
  BY <1>2 DEF HandledAt
<1> DEFINE row == [user |-> withdrawal[o].user, usd |-> withdrawal[o].amount]
<1>7. CASE /\ GW!HasAccount(withdrawal[o].user) /\ deposit' = [deposit EXCEPT ![o] = row] /\ writing' = row
           /\ UNCHANGED <<sent, answers>>
  <2>1. row \in [user : Users, usd : Nat] /\ row # Nothing /\ row \in [user : Users, usd : Int] /\ row.user = withdrawal[o].user
    BY <1>1, SettlementAssumption
  <2> HIDE DEF row
  <2>2. GatewayTyped'
    BY <1>1, <1>7, <2>1 DEF GatewayTyped
  <2>3. HasLanded(o)' /\ \A w \in Withdrawals \ {o} : deposit'[w] = deposit[w]
    BY <1>1, <1>7, <2>1 DEF GatewayTyped, HasLanded
  <2>4. \A w \in Withdrawals : (Posted(w)' <=> Posted(w)) /\ \A b \in BOOLEAN : Answered(w, b)' <=> Answered(w, b)
    BY <1>7 DEF Posted, Answered
  <2>5. \A w \in Withdrawals : InFlight(w)' <=> w = o
    BY <1>1, <1>3, <2>3, <2>4 DEF InFlight, HasLanded
  <2>6. GW!HasAccount(row.user)'
    <3>1. GW!HasAccount(row.user)
      BY <1>7, <2>1
    <3> QED
      BY <1>1, <1>2, <3>1 DEF GW!HasAccount, row
  <2>7. WritesInFlight'
    <3>1. writing'.user = row.user /\ account' = account /\ account[row.user] # Nothing
      BY <1>1, <1>7, <2>1 DEF GW!HasAccount
    <3> QED
      BY <1>2, <1>7, <2>5, <3>1 DEF WritesInFlight, GW!HasAccount, row
  <2>8. DepositOf(o)'
    BY <1>4, <1>5, <1>6, <2>4 DEF DepositOf
  <2>9. \A w \in Withdrawals \ {o} : Calmer(w)
    BY <1>2, <2>3, <2>4 DEF Calmer
  <2> QED
    BY <1>1, <1>2, <2>2, <2>7, <2>8, <2>9, OutsideKeeps
<1>8. CASE /\ UNCHANGED <<deposit, writing>>
           /\ sent' = sent \ {Message("deposit", o)} /\ Reply("deposit", o, FALSE)
  <2>1. /\ sent' \subseteq [kind : {"accounts", "deposit"}, ref : Withdrawals]
        /\ \A w \in Withdrawals : Posted(w)' <=> Posted(w) /\ w # o
    BY <1>1, <1>8, MessageGone
  <2>2. /\ answers' \subseteq [kind : {"accounts", "deposit"}, ref : Withdrawals, ok : BOOLEAN]
        /\ \A w \in Withdrawals \ {o} : \A b \in BOOLEAN : Answered(w, b)' <=> Answered(w, b)
        /\ Answered(o, TRUE)' <=> Answered(o, TRUE)
    BY <1>1, <1>8, ReplyGives
  <2>3. GatewayTyped'
    BY <1>1, <1>8, <2>1, <2>2 DEF GatewayTyped
  <2>4. Untouched(o)'
    BY <1>1, <1>8, <2>1 DEF Untouched, HasLanded
  <2>5. DepositOf(o)'
    BY <1>4, <1>5, <1>6, <2>2, <2>4 DEF DepositOf
  <2>6. \A w \in Withdrawals \ {o} : Calmer(w)
    BY <1>2, <1>8, <2>1, <2>2 DEF Calmer
  <2>7. \A w \in Withdrawals : InFlight(w)' <=> InFlight(w)
    BY <1>3, <1>8, <2>1 DEF InFlight, HasLanded
  <2>8. WritesInFlight'
    BY <1>1, <1>3, <1>8, <2>7 DEF WritesInFlight
  <2> QED
    BY <1>1, <1>2, <2>3, <2>5, <2>6, <2>8, OutsideKeeps
<1> QED
  BY <1>7, <1>8, DepositServed
\* What finishing a write does: the deposit in flight is credited.
LEMMA WriteFinished ==
  ASSUME HandlingInvariant, FinishWrite
  PROVE  \E o \in Withdrawals :
           /\ InFlight(o) /\ Exists(o) /\ withdrawal[o].user \in Users /\ withdrawal[o].amount \in Nat \ {0}
           /\ writing = [user |-> withdrawal[o].user, usd |-> withdrawal[o].amount]
           /\ account[withdrawal[o].user] \in Int
           /\ account' = [account EXCEPT ![withdrawal[o].user] = @ + withdrawal[o].amount]
           /\ writing' = Nothing /\ deposit' = deposit
           /\ sent' = sent \ {Message("deposit", o)} /\ Reply("deposit", o, TRUE)
<1>1. PICK o \in Withdrawals : InFlight(o) /\ sent' = sent \ {Message("deposit", o)} /\ Reply("deposit", o, TRUE)
  BY DEF FinishWrite, InFlight, Posted, HasLanded
<1>2. Exists(o)
  BY <1>1 DEF HandlingInvariant, DepositsFollow, DepositOf, Unposted, Untouched, InFlight
<1>3. withdrawal[o].user \in Users /\ withdrawal[o].amount \in Nat \ {0}
  BY <1>2 DEF HandlingInvariant, RowsTyped, Exists, WithdrawalRow
<1>4. writing = [user |-> withdrawal[o].user, usd |-> withdrawal[o].amount] /\ GW!HasAccount(writing.user)
  <2>1. writing # Nothing
    BY DEF FinishWrite, GW!UpdateBalance
  <2> QED
    BY <1>1, <2>1 DEF HandlingInvariant, WritesInFlight
<1>5. writing.user = withdrawal[o].user /\ writing.usd = withdrawal[o].amount
  BY <1>4
<1>6. account[withdrawal[o].user] \in Int
  <2>1. account[writing.user] # Nothing
    BY <1>4 DEF GW!HasAccount
  <2> QED
    BY <1>3, <1>5, <2>1 DEF HandlingInvariant, GatewayTyped
<1>7. account' = [account EXCEPT ![withdrawal[o].user] = @ + withdrawal[o].amount] /\ writing' = Nothing /\ deposit' = deposit
  BY <1>5 DEF FinishWrite, GW!UpdateBalance
<1> QED
  BY <1>1, <1>2, <1>3, <1>4, <1>6, <1>7

LEMMA FinishWriteKeeps ==
  ASSUME HandlingInvariant, FinishWrite, UNCHANGED late
  PROVE  HandlingInvariant'
<1>1. PICK o \in Withdrawals :
           /\ InFlight(o) /\ Exists(o) /\ withdrawal[o].user \in Users /\ withdrawal[o].amount \in Nat \ {0}
           /\ account[withdrawal[o].user] \in Int
           /\ account' = [account EXCEPT ![withdrawal[o].user] = @ + withdrawal[o].amount]
           /\ writing' = Nothing /\ deposit' = deposit
           /\ sent' = sent \ {Message("deposit", o)} /\ Reply("deposit", o, TRUE)
  BY WriteFinished
<1>2. /\ call' = call /\ late' = late /\ withdrawal' = withdrawal
      /\ wallet' \in [Users -> Seq(WalletRow)] /\ WalletsKept /\ GatewayTyped
  BY GatewayApart DEF FinishWrite, HandlingInvariant
<1>3. /\ sent' \subseteq [kind : {"accounts", "deposit"}, ref : Withdrawals]
      /\ \A w \in Withdrawals : Posted(w)' <=> Posted(w) /\ w # o
  BY <1>1, <1>2, MessageGone
<1>4. /\ answers' \subseteq [kind : {"accounts", "deposit"}, ref : Withdrawals, ok : BOOLEAN]
      /\ \A w \in Withdrawals \ {o} : \A b \in BOOLEAN : Answered(w, b)' <=> Answered(w, b)
      /\ Answered(o, FALSE)' <=> Answered(o, FALSE)
  BY <1>1, <1>2, ReplyGives
<1>5. GatewayTyped'
  <2>1. account[withdrawal[o].user] + withdrawal[o].amount \in Int
    BY <1>1
  <2>2. account' \in [Users -> Int \union {Nothing}]
    BY <1>1, <1>2, <2>1 DEF GatewayTyped
  <2> QED
    BY <1>1, <1>2, <1>3, <1>4, <2>2 DEF GatewayTyped
<1>6. WritesInFlight'
  <2>1. \A w \in Withdrawals : InFlight(w) => w = o
    BY <1>1 DEF HandlingInvariant, WritesInFlight
  <2>2. \A w \in Withdrawals : ~InFlight(w)'
    BY <1>1, <1>3, <2>1 DEF InFlight, HasLanded
  <2> QED
    BY <1>1, <2>2 DEF WritesInFlight
<1>7. DepositOf(o)'
  <2>1. HasLanded(o) /\ Posted(o) /\ HasLanded(o)' /\ ~Posted(o)' /\ Exists(o)' /\ Status(o)' = Status(o)
    BY <1>1, <1>2, <1>3 DEF InFlight, HasLanded, Exists, Status
  <2>2. ~Answered(o, FALSE)' /\ (Refused(o) => o \in late)
    BY <1>4, <2>1 DEF HandlingInvariant, DepositsFollow, DepositOf, Untouched
  <2>3. Refused(o)' => Refused(o)
    BY <1>2, <2>1 DEF Refused, HandledAt
  <2> QED
    BY <1>2, <2>1, <2>2, <2>3 DEF DepositOf
<1>8. \A w \in Withdrawals \ {o} : Calmer(w)
  BY <1>1, <1>2, <1>3, <1>4 DEF Calmer
<1>9. Posted(o)
  BY <1>1 DEF InFlight
<1> QED
  BY <1>2, <1>5, <1>6, <1>7, <1>8, <1>9, OutsideKeeps

\* Connections break, one at a time or with the gateway.
LEMMA LosingKeeps ==
  ASSUME HandlingInvariant, UNCHANGED <<payoutVars, account, deposit, answers, late>>, sent' \subseteq sent,
         writing' = Nothing, sent' = {} \/ writing = Nothing
  PROVE  HandlingInvariant'
<1>1. /\ call' = call /\ late' = late /\ withdrawal' = withdrawal
      /\ wallet' \in [Users -> Seq(WalletRow)] /\ WalletsKept /\ GatewayTyped
  BY GatewayApart DEF HandlingInvariant
<1>2. \A w \in Withdrawals : Posted(w)' => Posted(w)
  BY DEF Posted
<1>3. \A w \in Withdrawals : ~InFlight(w)'
  <2>1. CASE sent' = {}
    BY <2>1 DEF InFlight, Posted
  <2>2. CASE writing = Nothing
    <3>1. \A w \in Withdrawals : InFlight(w) => withdrawal[w] \in WithdrawalRow
      BY DEF HandlingInvariant, RowsTyped, DepositsFollow, DepositOf, Unposted, Untouched, InFlight, Exists
    <3>2. \A w \in Withdrawals : InFlight(w) => writing \in [user : Users, usd : Int]
      BY <3>1 DEF HandlingInvariant, WritesInFlight, WithdrawalRow
    <3>3. \A w \in Withdrawals : ~InFlight(w)
      BY <2>2, <3>2, SettlementAssumption
    <3> QED
      BY <1>2, <3>3 DEF InFlight, HasLanded
  <2> QED
    BY <2>1, <2>2
<1>4. WritesInFlight' /\ GatewayTyped'
  BY <1>1, <1>3 DEF WritesInFlight, GatewayTyped
<1>5. \A w \in Withdrawals : Calmer(w)
  BY <1>1, <1>2 DEF Calmer, Answered
<1> QED
  BY <1>1, <1>4, <1>5, OutsideKeeps

LEMMA LoseKeeps ==
  ASSUME HandlingInvariant, UNCHANGED late, (\E m \in sent : Lose(m)) \/ GatewayDies
  PROVE  HandlingInvariant'
<1>1. CASE \E m \in sent : Lose(m)
  BY <1>1, LosingKeeps DEF Lose, gwVars
<1>2. CASE GatewayDies
  BY <1>2, LosingKeeps DEF GatewayDies, GW!Crash
<1> QED
  BY <1>1, <1>2

LEMMA HandlingInitially == WithdrawInit => HandlingInvariant
<1> SUFFICES ASSUME WithdrawInit PROVE HandlingInvariant
  OBVIOUS
<1>1. RowsTyped
  BY DEF WithdrawInit, Init, RowsTyped, Exists
<1>2. GatewayTyped
  BY DEF WithdrawInit, GW!GatewayInit, GatewayTyped
<1>3. HandlersTyped /\ OneHandler
  BY IdleHandler, BusySteps DEF WithdrawInit, Init, HandlersTyped, OneHandler, AtStep, Busy, BeforeDeposit
<1>4. \A w \in Withdrawals : Unposted(w)
  BY DEF WithdrawInit, GW!GatewayInit, Unposted, Untouched, HasLanded, Posted, Answered
<1>5. WritesInFlight
  BY <1>4 DEF WithdrawInit, GW!GatewayInit, WritesInFlight, InFlight, Unposted, Untouched
<1>6. \A w \in Withdrawals : \A steps \in SUBSET Busy : ~HandledAt(w, steps)
  BY IdleHandler, BusySteps DEF WithdrawInit, Init, HandledAt
<1>7. DepositsFollow
  BY <1>4, <1>6, BusySteps DEF WithdrawInit, Init, DepositsFollow, DepositOf, Unposted, Settled, Refused, Status, Exists
<1> QED
  BY <1>1, <1>2, <1>3, <1>5, <1>7 DEF HandlingInvariant

\* A step of a handler is on its withdrawal.
LEMMA RefOfBusy ==
  ASSUME HandlingInvariant, NEW c \in Calls, call[c].at \in Busy
  PROVE  \E o \in Withdrawals : call[c].ref = o
  BY DEF HandlingInvariant, HandlersTyped, AtStep

LEMMA HandlingStep ==
  ASSUME HandlingInvariant, [WithdrawNext]_withdrawVars
  PROVE  HandlingInvariant'
<1>1. ASSUME NEW c \in Calls, Proceeds(c), UNCHANGED late PROVE HandlingInvariant'
  <2>1. call[c].at \in Busy
    BY <1>1 DEF Proceeds, ReadProcess, PostAccounts, ProcessWithdrawal, PostDeposit, DepositAnswered, Complete, CompleteWithdrawal,
       Fail, FailWithdrawal, Update, Busy, BeforeDeposit, Accepted, Rejected
  <2>2. PICK o \in Withdrawals : call[c].ref = o
    BY <2>1, RefOfBusy
  <2>3. CASE ReadProcess(c)
    BY <1>1, <2>2, <2>3, ReadKeeps DEF ReadProcess, ReadWithdrawal, LocalOnly
  <2>4. CASE PostAccounts(c)
    BY <1>1, <2>2, <2>4, PostAccountsKeeps
  <2>5. CASE PostDeposit(c)
    BY <1>1, <2>2, <2>5, PostDepositKeeps
  <2>6. CASE DepositAnswered(c)
    BY <1>1, <2>2, <2>6, DepositAnsweredKeeps
  <2>7. CASE Complete(c)
    <3>1. CASE call[c].at = "deposited" /\ ReadWithdrawal(c, call[c].ref, "complete") /\ LocalOnly
      BY <1>1, <2>2, <3>1, ReadKeeps DEF ReadWithdrawal, LocalOnly
    <3>2. CASE CompleteWithdrawal(c) /\ LocalOnly
      BY <1>1, <2>2, <3>2, CompleteKeeps
    <3> QED
      BY <2>7, <3>1, <3>2 DEF Complete
  <2>8. CASE Fail(c)
    <3>1. CASE call[c].at = "rejected" /\ ReadWithdrawal(c, call[c].ref, "fail") /\ LocalOnly
      BY <1>1, <2>2, <3>1, ReadKeeps DEF ReadWithdrawal, LocalOnly
    <3>2. CASE FailWithdrawal(c) /\ LocalOnly
      BY <1>1, <2>2, <3>2, FailKeeps
    <3> QED
      BY <2>8, <3>1, <3>2 DEF Fail
  <2> QED
    BY <1>1, <2>3, <2>4, <2>5, <2>6, <2>7, <2>8 DEF Proceeds
<1>2. ASSUME NEW c \in Calls, GiveUp(c) PROVE HandlingInvariant'
  <2>1. call[c].at \in Busy
    BY <1>2 DEF GiveUp, TimesOut, Busy, BeforeDeposit
  <2> QED
    BY <1>2, <2>1, RefOfBusy, GiveUpKeeps
<1>3. ASSUME NEW c \in Calls, Begin(c), UNCHANGED late PROVE HandlingInvariant'
  BY <1>3, RequestKeeps, EscrowKeeps DEF Begin
<1>4. ASSUME NEW c \in Calls, Die(c) PROVE HandlingInvariant'
  BY <1>4, DieKeeps
<1>5. ASSUME GatewayStep, UNCHANGED late PROVE HandlingInvariant'
  BY <1>5, ServeAccountsKeeps, ServeDepositKeeps, FinishWriteKeeps DEF GatewayStep
<1>6. CASE UNCHANGED withdrawVars
  <2>1. /\ call' = call /\ late' = late /\ withdrawal' = withdrawal /\ UNCHANGED <<account, deposit, writing, sent, answers>>
        /\ wallet' \in [Users -> Seq(WalletRow)] /\ WalletsKept
    BY <1>6, GatewayApart DEF withdrawVars, gwVars, netVars, historyVars
  <2>2. \A w : Calmer(w)
    BY <2>1, NothingCalmer
  <2>3. \A w \in Withdrawals : Posted(w)' <=> Posted(w)
    BY <2>1 DEF Posted
  <2>4. GatewayTyped' /\ WritesInFlight'
    BY <2>1, <2>3, WritesSame DEF HandlingInvariant, GatewayTyped
  <2> QED
    BY <2>1, <2>2, <2>4, OutsideKeeps
<1> QED
  BY <1>1, <1>2, <1>3, <1>4, <1>5, <1>6, EarnKeeps, LoseKeeps DEF WithdrawNext, HandlerStep, historyVars
-----------------------------------------------------------------------------
(***************************************************************************)
(* The money part.                                                         *)
(***************************************************************************)
LEMMA AmountTypes ==
  ASSUME RowsTyped
  PROVE  \A u \in Users, w \in Withdrawals :
           OfUser(u, w) => withdrawal[w].amount \in Nat \ {0} /\ withdrawal[w] \in WithdrawalRow
  BY DEF RowsTyped, OfUser, Exists, WithdrawalRow

LEMMA WeightTypes ==
  ASSUME RowsTyped
  PROVE  \A u \in Users, w \in Withdrawals : TakenOut(u)[w] \in Nat /\ Credited(u)[w] \in Nat /\ Landed(u)[w] \in Nat
  BY AmountTypes DEF TakenOut, Credited, Landed, AmountIf

LEMMA WeightTypesLater ==
  ASSUME RowsTyped'
  PROVE  \A u \in Users, w \in Withdrawals : TakenOut(u)'[w] \in Nat /\ Credited(u)'[w] \in Nat /\ Landed(u)'[w] \in Nat
<1>1. \A u \in Users, w \in Withdrawals : OfUser(u, w)' => withdrawal'[w].amount \in Nat
  BY DEF RowsTyped, OfUser, Exists, WithdrawalRow
<1> QED
  BY <1>1 DEF TakenOut, Credited, Landed, AmountIf

LEMMA SumTypes ==
  ASSUME RowsTyped, RowsTyped', NEW u \in Users
  PROVE  /\ SumOfAll(TakenOut(u)) \in Int /\ SumOfAll(Credited(u)) \in Int /\ SumOfAll(Landed(u)) \in Int
         /\ SumOfAll(TakenOut(u)') \in Int /\ SumOfAll(Credited(u)') \in Int /\ SumOfAll(Landed(u)') \in Int
<1>1. \A w \in Withdrawals : TakenOut(u)[w] \in Int /\ Credited(u)[w] \in Int /\ Landed(u)[w] \in Int
  BY WeightTypes
<1>2. \A w \in Withdrawals : TakenOut(u)'[w] \in Int /\ Credited(u)'[w] \in Int /\ Landed(u)'[w] \in Int
  BY WeightTypesLater
<1> QED
  BY <1>1, <1>2, SumIsInt, SettlementAssumption DEF SumOfAll

\* Wallets that change as much as what was earned follow, when nothing is taken out or given back.
LEMMA WalletStays ==
  ASSUME RowsTyped, RowsTyped', WalletFollows,
         \A u \in Users : \A w \in Withdrawals : TakenOut(u)'[w] = TakenOut(u)[w],
         \A u \in Users : /\ InWallet(u) \in Int /\ Earned(u) \in Int /\ InWallet(u)' \in Int /\ Earned(u)' \in Int
                          /\ InWallet(u)' - InWallet(u) = Earned(u)' - Earned(u)
  PROVE  WalletFollows'
<1>1. ASSUME NEW u \in Users PROVE InWallet(u)' = Earned(u)' - SumOfAll(TakenOut(u)')
  <2>1. \A w \in Withdrawals : TakenOut(u)[w] \in Int /\ TakenOut(u)[w] = TakenOut(u)'[w]
    BY WeightTypes
  <2>2. SumOfAll(TakenOut(u)') = SumOfAll(TakenOut(u))
    BY <2>1, SumOfSame, SettlementAssumption DEF SumOfAll
  <2>3. InWallet(u) = Earned(u) - SumOfAll(TakenOut(u)) /\ SumOfAll(TakenOut(u)) \in Int
    BY SumTypes DEF WalletFollows
  <2>4. /\ InWallet(u) \in Int /\ Earned(u) \in Int /\ InWallet(u)' \in Int /\ Earned(u)' \in Int
        /\ InWallet(u)' - InWallet(u) = Earned(u)' - Earned(u)
    OBVIOUS
  <2> QED
    BY <2>2, <2>3, <2>4
<1> QED
  BY <1>1 DEF WalletFollows, SumOfAll

\* The gateway follows when it holds the same and no more counts as credited, no less as landed.
LEMMA GatewayStays ==
  ASSUME RowsTyped, RowsTyped', GatewayFollows,
         \A u \in Users : AtGateway(u) \in Int /\ AtGateway(u)' = AtGateway(u),
         \A u \in Users : \A w \in Withdrawals : Credited(u)'[w] <= Credited(u)[w] /\ Landed(u)[w] <= Landed(u)'[w]
  PROVE  GatewayFollows'
<1>1. ASSUME NEW u \in Users
      PROVE  SumOfAll(Credited(u)') <= AtGateway(u)' /\ AtGateway(u)' <= SumOfAll(Landed(u)')
  <2>1. \A w \in Withdrawals : Credited(u)[w] \in Int /\ Credited(u)'[w] \in Int /\ Credited(u)'[w] <= Credited(u)[w]
    BY WeightTypes, WeightTypesLater
  <2>2. \A w \in Withdrawals : Landed(u)[w] \in Int /\ Landed(u)'[w] \in Int /\ Landed(u)[w] <= Landed(u)'[w]
    BY WeightTypes, WeightTypesLater
  <2>3. SumOfAll(Credited(u)') <= SumOfAll(Credited(u))
    BY <2>1, SumIsMonotonic, SettlementAssumption DEF SumOfAll
  <2>4. SumOfAll(Landed(u)) <= SumOfAll(Landed(u)')
    BY <2>2, SumIsMonotonic, SettlementAssumption DEF SumOfAll
  <2>5. SumOfAll(Credited(u)) <= AtGateway(u) /\ AtGateway(u) <= SumOfAll(Landed(u))
    BY DEF GatewayFollows
  <2> QED
    BY <2>3, <2>4, <2>5, SumTypes
<1> QED
  BY <1>1 DEF GatewayFollows, SumOfAll

LEMMA GatewayHolds ==
  ASSUME GatewayTyped, NEW u \in Users
  PROVE  AtGateway(u) \in Int
<1>1. GW!HasAccount(u) => account[u] \in Int
  BY DEF GatewayTyped, GW!HasAccount
<1>2. GW!Pending(u) \in Int
  BY DEF GatewayTyped, GW!Pending
<1> QED
  BY <1>1, <1>2 DEF AtGateway

LEMMA WalletHolds ==
  ASSUME RowsTyped
  PROVE  \A u \in Users : InWallet(u) \in Int /\ Earned(u) \in Int
<1>1. \A u \in Users : HasWallet(u) => wallet[u][1] \in WalletRow
  BY DEF HasWallet, RowsTyped
<1> QED
  BY <1>1 DEF InWallet, Earned, Balance, Found, WalletRow

\* The wallets are as they were.
LEMMA SameWallets ==
  ASSUME RowsTyped, wallet' = wallet
  PROVE  \A u \in Users : /\ InWallet(u) \in Int /\ Earned(u) \in Int /\ InWallet(u)' \in Int /\ Earned(u)' \in Int
                          /\ InWallet(u)' - InWallet(u) = Earned(u)' - Earned(u)
<1>1. \A u \in Users : InWallet(u)' = InWallet(u) /\ Earned(u)' = Earned(u)
  BY DEF InWallet, Earned, HasWallet, Balance, Found
<1> QED
  BY <1>1, WalletHolds

\* So is what the gateway holds.
LEMMA SameHoldings ==
  ASSUME GatewayTyped, account' = account, writing' = writing
  PROVE  \A u \in Users : AtGateway(u) \in Int /\ AtGateway(u)' = AtGateway(u)
<1>1. \A u \in Users : AtGateway(u)' = AtGateway(u)
  BY DEF AtGateway, GW!HasAccount, GW!Pending
<1> QED
  BY <1>1, GatewayHolds
\* A withdrawal whose status changes without being refunded counts as before.
LEMMA SameTaken ==
  ASSUME RowsTyped,
         \A w \in Withdrawals : (Exists(w)' <=> Exists(w)) /\ (Status(w)' = "failed" <=> Status(w) = "failed"),
         \A w \in Withdrawals : Exists(w) =>
           withdrawal'[w].user = withdrawal[w].user /\ withdrawal'[w].amount = withdrawal[w].amount
  PROVE  \A u \in Users, w \in Withdrawals :
           /\ OfUser(u, w)' <=> OfUser(u, w)
           /\ OfUser(u, w) => withdrawal'[w].amount = withdrawal[w].amount
           /\ TakenOut(u)'[w] = TakenOut(u)[w]
<1>1. ASSUME NEW u \in Users, NEW w \in Withdrawals
      PROVE  (OfUser(u, w)' <=> OfUser(u, w)) /\ (OfUser(u, w) => withdrawal'[w].amount = withdrawal[w].amount)
  BY DEF OfUser
<1> QED
  BY <1>1 DEF TakenOut, AmountIf

\* And at the gateway, when nothing new is credited.
LEMMA SameCredited ==
  ASSUME RowsTyped, RowsTyped', DepositsFollow,
         \A u \in Users, w \in Withdrawals : HasLanded(w) =>
           (OfUser(u, w)' <=> OfUser(u, w)) /\ (OfUser(u, w) => withdrawal'[w].amount = withdrawal[w].amount),
         \A w \in Withdrawals : Settled(w)' \/ InFlight(w)' => Settled(w) \/ InFlight(w),
         \A w \in Withdrawals : HasLanded(w) => HasLanded(w)'
  PROVE  \A u \in Users : \A w \in Withdrawals : Credited(u)'[w] <= Credited(u)[w] /\ Landed(u)[w] <= Landed(u)'[w]
<1> SUFFICES ASSUME NEW u \in Users, NEW w \in Withdrawals
             PROVE  Credited(u)'[w] <= Credited(u)[w] /\ Landed(u)[w] <= Landed(u)'[w]
  OBVIOUS
<1>1. Settled(w) \/ InFlight(w) => HasLanded(w)
  BY DEF DepositsFollow, DepositOf, InFlight
<1>2. CASE ~HasLanded(w)
  <2>1. Credited(u)[w] = 0 /\ Credited(u)'[w] = 0 /\ Landed(u)[w] = 0
    BY <1>1, <1>2 DEF Credited, Landed, AmountIf
  <2> QED
    BY <2>1, WeightTypesLater
<1>3. CASE HasLanded(w) /\ ~OfUser(u, w)
  <2>1. ~OfUser(u, w)'
    BY <1>3
  <2>2. Credited(u)[w] = 0 /\ Credited(u)'[w] = 0 /\ Landed(u)[w] = 0 /\ Landed(u)'[w] = 0
    BY <1>3, <2>1 DEF Credited, Landed, AmountIf
  <2> QED
    BY <2>2
<1>4. CASE HasLanded(w) /\ OfUser(u, w)
  <2>1. PICK a \in Nat \ {0} : a = withdrawal[w].amount
    BY <1>4, AmountTypes
  <2>2. OfUser(u, w)' /\ withdrawal'[w].amount = a
    BY <1>4, <2>1
  <2>3. /\ Credited(u)[w] = IF Settled(w) \/ InFlight(w) THEN a ELSE 0
        /\ Landed(u)[w] = IF HasLanded(w) THEN a ELSE 0
    BY <1>4, <2>1 DEF Credited, Landed, AmountIf
  <2>4. /\ Credited(u)'[w] = IF Settled(w)' \/ InFlight(w)' THEN a ELSE 0
        /\ Landed(u)'[w] = IF HasLanded(w)' THEN a ELSE 0
    BY <2>2 DEF Credited, Landed, AmountIf
  <2> QED
    BY <2>1, <2>3, <2>4
<1> QED
  BY <1>2, <1>3, <1>4

\* What the steps of a handler do to what is settled and what is in flight.
LEMMA HandlerCredits ==
  ASSUME HandlingInvariant, NEW c \in Calls, Proceeds(c) \/ GiveUp(c) \/ Begin(c) \/ Die(c)
  PROVE  /\ \A w \in Withdrawals : Settled(w)' \/ InFlight(w)' => Settled(w) \/ InFlight(w)
         /\ \A w \in Withdrawals : HasLanded(w)' <=> HasLanded(w)
         /\ account' = account /\ writing' = writing
<1>1. deposit' = deposit /\ account' = account /\ writing' = writing /\ answers' \subseteq answers
  BY DEF Proceeds, ReadProcess, PostAccounts, PostDeposit, DepositAnswered, Complete, Fail, GiveUp, Begin, Die, LocalOnly,
     DropAnswers, gwVars, netVars
<1>2. \A w \in Withdrawals : HasLanded(w)' <=> HasLanded(w)
  BY <1>1 DEF HasLanded
<1>3. \A w \in Withdrawals : Answered(w, TRUE)' => Answered(w, TRUE)
  BY <1>1 DEF Answered
<1>4. \A w \in Withdrawals : InFlight(w)' => InFlight(w)
  <2>1. CASE PostDeposit(c)
    <3>1. call[c].at = "accounts" /\ call[c].ref \in Withdrawals /\ Untouched(call[c].ref)
          /\ sent' = sent \union {Message("deposit", call[c].ref)}
      BY <2>1 DEF PostDeposit, HandlingInvariant, HandlersTyped, AtStep, BeforeDeposit, Busy, Unposted
    <3>2. \A w \in Withdrawals : Posted(w)' => Posted(w) \/ w = call[c].ref
      BY <3>1 DEF Posted, Message
    <3> QED
      BY <1>2, <3>1, <3>2 DEF InFlight, Untouched
  <2>2. CASE PostAccounts(c)
    <3>1. \A w \in Withdrawals : Posted(w)' => Posted(w)
      BY <2>2 DEF PostAccounts, Posted, Message
    <3> QED
      BY <1>2, <3>1 DEF InFlight
  <2>3. CASE sent' = sent
    BY <1>2, <2>3 DEF InFlight, Posted
  <2> QED
    BY <2>1, <2>2, <2>3 DEF Proceeds, ReadProcess, DepositAnswered, Complete, Fail, GiveUp, Begin, Die, LocalOnly, netVars
<1>5. CASE Proceeds(c) \/ GiveUp(c)
  <2>1. call[c].at \in Busy
    BY <1>5 DEF Proceeds, GiveUp, TimesOut, ReadProcess, PostAccounts, ProcessWithdrawal, PostDeposit, DepositAnswered, Complete,
       CompleteWithdrawal, Fail, FailWithdrawal, Update, Busy, BeforeDeposit, Accepted, Rejected
  <2>2. PICK o \in Withdrawals : call[c].ref = o
    BY <2>1, RefOfBusy
  <2>3. Exists(o) /\ RowsTyped
    BY <2>1, <2>2 DEF HandlingInvariant, HandlersTyped, AtStep
  <2>4. ASSUME NEW w \in Withdrawals, Status(w)' = "completed" PROVE Settled(w)
    <3>1. CASE withdrawal' = withdrawal
      BY <2>4, <3>1 DEF Status, Exists, Settled
    <3>2. CASE ~(withdrawal' = withdrawal)
      <4>1. \/ call[c].at = "complete" /\ SetStatus(o, "completed")
            \/ SetStatus(o, "processing") \/ SetStatus(o, "failed")
        BY <1>5, <2>2, <3>2 DEF Proceeds, GiveUp, ReadProcess, ReadWithdrawal, PostAccounts, ProcessWithdrawal, PostDeposit,
           DepositAnswered, Complete, CompleteWithdrawal, Fail, FailWithdrawal, Update, Refund
      <4>2. CASE w = o
        <5>1. CASE call[c].at = "complete"
          BY <2>2, <4>2, <5>1 DEF Settled, HandledAt, Accepted
        <5>2. ASSUME NEW status \in {"processing", "failed"}, SetStatus(o, status) PROVE FALSE
          <6>1. withdrawal[o] \in WithdrawalRow
            BY <2>3 DEF RowsTyped, Exists
          <6>2. withdrawal' = [withdrawal EXCEPT ![o].status = status] /\ DOMAIN withdrawal = Withdrawals
            BY <2>3, <5>2 DEF SetStatus, RowsTyped
          <6>3. withdrawal'[o].status = status
            BY <6>1, <6>2 DEF WithdrawalRow
          <6> QED
            BY <2>4, <4>2, <6>3 DEF Status, Exists
        <5> QED
          BY <4>1, <5>1, <5>2
      <4>3. CASE w # o
        <5>1. withdrawal'[w] = withdrawal[w]
          BY <2>3, <4>1, <4>3 DEF SetStatus, RowsTyped
        <5> QED
          BY <2>4, <5>1 DEF Status, Exists, Settled
      <4> QED
        BY <4>2, <4>3
    <3> QED
      BY <3>1, <3>2
  <2>5. ASSUME NEW w \in Withdrawals, HandledAt(w, Accepted)' PROVE Settled(w)
    <3>1. PICK d \in Calls : call'[d].at \in Accepted /\ call'[d].ref = w
      BY <2>5 DEF HandledAt
    <3>2. CASE call'[d] = call[d]
      BY <3>1, <3>2 DEF Settled, HandledAt
    <3>3. CASE ~(call'[d] = call[d])
      <4>1. PICK step : GoOn(c, step, o) /\ \/ step \in {"process", "accounts", "deposit", "rejected", "fail", "idle"}
                                            \/ step = "deposited" /\ Answered(o, TRUE)
                                            \/ step = "complete" /\ call[c].at = "deposited"
        <5>1. CASE DepositAnswered(c)
          <6>1. PICK m \in answers : m.kind = "deposit" /\ m.ref = o /\ GoOn(c, AfterDeposit(m.ok), o)
            BY <2>2, <5>1 DEF DepositAnswered
          <6>2. m \in [kind : {"accounts", "deposit"}, ref : Withdrawals, ok : BOOLEAN]
            BY DEF HandlingInvariant, GatewayTyped
          <6>3. m = Answer("deposit", o, m.ok) /\ m.ok \in BOOLEAN
            BY <6>1, <6>2 DEF Answer
          <6>4. CASE m.ok
            BY <6>1, <6>3, <6>4 DEF AfterDeposit, Answered
          <6>5. CASE ~m.ok
            BY <6>1, <6>3, <6>5 DEF AfterDeposit
          <6> QED
            BY <6>4, <6>5
        <5>2. CASE FailWithdrawal(c)
          BY <5>2 DEF FailWithdrawal, GoOn
        <5> QED
          BY <1>5, <2>2, <5>1, <5>2 DEF Proceeds, GiveUp, AfterTimeout, ReadProcess, ReadWithdrawal, PostAccounts, ProcessWithdrawal,
             PostDeposit, Complete, CompleteWithdrawal, Fail, Update
      <4>2. call \in [Calls -> HandlerRecord]
        BY DEF HandlingInvariant, HandlersTyped
      <4>3. d = c
        BY <3>3, <4>1, <4>2 DEF GoOn
      <4>4. step # "idle"
        <5>1. step = "idle" => call'[c] = Idle
          BY <4>1, <4>2 DEF GoOn
        <5> QED
          BY <3>1, <4>3, <5>1, IdleHandler DEF Accepted
      <4>5. call'[c].at = step /\ call'[c].ref = o
        BY <4>1, <4>2, <4>4 DEF GoOn, HandlerRecord
      <4> QED
        BY <2>2, <3>1, <4>1, <4>3, <4>5 DEF Accepted, Settled, HandledAt
    <3> QED
      BY <3>2, <3>3
  <2> QED
    BY <1>1, <1>2, <1>3, <1>4, <2>4, <2>5 DEF Settled
<1>6. CASE Begin(c) \/ Die(c)
  <2>1. ASSUME NEW w \in Withdrawals, Status(w)' = "completed" PROVE Status(w) = "completed"
    <3>1. CASE withdrawal' = withdrawal
      BY <2>1, <3>1 DEF Status, Exists
    <3>2. CASE \E o \in Withdrawals : Escrow(c, o, "gateway", "escrowed")
      <4>1. PICK o \in Withdrawals : Escrow(c, o, "gateway", "escrowed")
        BY <3>2
      <4>2. w # o /\ withdrawal'[w] = withdrawal[w]
        BY <2>1, <4>1, EscrowTakes
      <4> QED
        BY <2>1, <4>2 DEF Status, Exists
    <3> QED
      BY <1>6, <3>1, <3>2 DEF Begin, RequestWithdrawal, Die
  <2>2. ASSUME NEW w \in Withdrawals, HandledAt(w, Accepted)' PROVE HandledAt(w, Accepted)
    <3>1. call \in [Calls -> HandlerRecord]
      BY DEF HandlingInvariant, HandlersTyped
    <3>2. PICK k : call' = [call EXCEPT ![c] = k] /\ k.at \notin Accepted
      <4>1. CASE Die(c)
        BY <4>1, IdleHandler DEF Die, Abandon, Leave, Accepted
      <4>2. CASE \E u \in Users, a \in Amounts : RequestWithdrawal(c, u, a)
        BY <4>2 DEF RequestWithdrawal, Enter, Accepted
      <4>3. CASE \E o \in Withdrawals : Escrow(c, o, "gateway", "escrowed")
        <5>1. PICK o \in Withdrawals : GoOn(c, "escrowed", o)
          BY <4>3 DEF Escrow
        <5> DEFINE k == [call[c] EXCEPT !.at = "escrowed", !.ref = o]
        <5>2. k.at = "escrowed"
          BY <3>1 DEF HandlerRecord
        <5> QED
          BY <5>1, <5>2 DEF GoOn, Accepted
      <4> QED
        BY <1>6, <4>1, <4>2, <4>3 DEF Begin
    <3> QED
      BY <2>2, <3>1, <3>2 DEF HandledAt
  <2> QED
    BY <1>1, <1>2, <1>3, <1>4, <2>1, <2>2 DEF Settled
<1> QED
  BY <1>5, <1>6
\* What one withdrawal takes out more, or less, its wallet has less, or more.
LEMMA WalletMoves ==
  ASSUME RowsTyped, RowsTyped', WalletFollows, NEW o \in Withdrawals, NEW owner \in Users, NEW a \in Int,
         \A u \in Users : \A w \in Withdrawals : u # owner \/ w # o => TakenOut(u)'[w] = TakenOut(u)[w],
         TakenOut(owner)'[o] = TakenOut(owner)[o] + a,
         \A u \in Users : Earned(u)' = Earned(u),
         \A u \in Users : InWallet(u)' = IF u = owner THEN InWallet(u) - a ELSE InWallet(u)
  PROVE  WalletFollows'
<1>1. ASSUME NEW u \in Users PROVE InWallet(u)' = Earned(u)' - SumOfAll(TakenOut(u)')
  <2>1. \A w \in Withdrawals : TakenOut(u)[w] \in Int /\ TakenOut(u)'[w] \in Int
    BY WeightTypes, WeightTypesLater
  <2>2. InWallet(u) = Earned(u) - SumOfAll(TakenOut(u)) /\ SumOfAll(TakenOut(u)) \in Int
        /\ InWallet(u) \in Int /\ Earned(u) \in Int
    BY SumTypes, WalletHolds DEF WalletFollows
  <2>3. CASE u # owner
    <3>1. SumOfAll(TakenOut(u)) = SumOfAll(TakenOut(u)')
      BY <2>1, <2>3, SumOfSame, SettlementAssumption DEF SumOfAll
    <3> QED
      BY <2>2, <2>3, <3>1
  <2>4. CASE u = owner
    <3>1. \A w \in Withdrawals \ {o} : TakenOut(u)[w] = TakenOut(u)'[w]
      OBVIOUS
    <3>2. SumOfAll(TakenOut(u)') = SumOfAll(TakenOut(u)) + TakenOut(u)'[o] - TakenOut(u)[o]
      <4> DEFINE before == TakenOut(u)
                 after == TakenOut(u)'
      <4>1. /\ \A w \in Withdrawals : before[w] \in Int /\ after[w] \in Int
            /\ \A w \in Withdrawals \ {o} : before[w] = after[w]
        BY <2>1, <3>1
      <4> HIDE DEF before, after
      <4>2. SumFunctionOnSet(after, Withdrawals) = SumFunctionOnSet(before, Withdrawals) + after[o] - before[o]
        BY <4>1, SumChanges, SettlementAssumption
      <4> QED
        BY <4>2 DEF before, after, SumOfAll
    <3>3. TakenOut(u)'[o] = TakenOut(u)[o] + a /\ TakenOut(u)[o] \in Int
      BY <2>1, <2>4
    <3>4. InWallet(u)' = InWallet(u) - a /\ Earned(u)' = Earned(u)
      BY <2>4
    <3>5. SumOfAll(TakenOut(u)') = SumOfAll(TakenOut(u)) + a
      BY <2>2, <3>2, <3>3
    <3> QED
      BY <2>2, <3>4, <3>5
  <2> QED
    BY <2>3, <2>4
<1> QED
  BY <1>1 DEF WalletFollows, SumOfAll

LEMMA EscrowFollows ==
  ASSUME HandlingInvariant, HandlingInvariant', WalletFollows, NEW c \in Calls, NEW o \in Withdrawals,
         Escrow(c, o, "gateway", "escrowed")
  PROVE  WalletFollows'
<1>1. /\ ~Exists(o) /\ \A w \in Withdrawals \ {o} : withdrawal'[w] = withdrawal[w]
      /\ Exists(o)' /\ Status(o)' = "pending" /\ WalletsKept
  BY EscrowTakes
<1>2. PICK owner \in Users, a \in Nat \ {0} : owner = withdrawal'[o].user /\ a = withdrawal'[o].amount
  BY EscrowTakes
<1>3. /\ HasWallet(owner) /\ wallet'[owner][1].balance = wallet[owner][1].balance - a
      /\ wallet'[owner][1].earned = wallet[owner][1].earned /\ \A u \in Users \ {owner} : wallet'[u] = wallet[u]
  BY <1>2, EscrowTakes
<1>4. HasWallet(owner)' /\ RowsTyped /\ RowsTyped'
  BY <1>1, <1>3 DEF WalletsKept, HandlingInvariant
<1>5. \A u \in Users : Earned(u)' = Earned(u) /\ InWallet(u)' = IF u = owner THEN InWallet(u) - a ELSE InWallet(u)
  BY <1>3, <1>4 DEF Earned, InWallet, HasWallet, Balance, Found
<1>6. \A u \in Users : \A w \in Withdrawals \ {o} : TakenOut(u)'[w] = TakenOut(u)[w]
  BY <1>1 DEF TakenOut, AmountIf, OfUser, Exists, Status
<1>7. \A u \in Users : TakenOut(u)[o] = 0 /\ TakenOut(u)'[o] = IF u = owner THEN a ELSE 0
  BY <1>1, <1>2 DEF TakenOut, AmountIf, OfUser, Exists, Status
<1>8. /\ TakenOut(owner)'[o] = TakenOut(owner)[o] + a
      /\ \A u \in Users : \A w \in Withdrawals : u # owner \/ w # o => TakenOut(u)'[w] = TakenOut(u)[w]
  BY <1>6, <1>7
<1> QED
  BY <1>4, <1>5, <1>8, WalletMoves

LEMMA RefundFollows ==
  ASSUME HandlingInvariant, HandlingInvariant', WalletFollows, NEW o \in Withdrawals, Exists(o), Status(o) # "failed",
         Refund(o, "failed")
  PROVE  WalletFollows'
<1>1. RowsTyped /\ RowsTyped'
  BY DEF HandlingInvariant
<1>2. SetStatus(o, "failed") /\ WalletsKept /\ wallet' \in [Users -> Seq(WalletRow)]
  BY <1>1, RefundPays
<1>3. /\ Exists(o)' /\ Status(o)' = "failed" /\ \A w \in Withdrawals \ {o} : withdrawal'[w] = withdrawal[w]
      /\ withdrawal'[o].user = withdrawal[o].user /\ withdrawal'[o].amount = withdrawal[o].amount
  <2>1. "failed" \in WithdrawalStatus \ {"cancelled"}
    BY DEF WithdrawalStatus
  <2> QED
    BY <1>1, <1>2, <2>1, StatusSet
<1>4. PICK owner \in Users, a \in Nat \ {0} : owner = withdrawal[o].user /\ a = withdrawal[o].amount
  BY <1>1, RefundPays
<1>5. /\ HasWallet(owner) /\ wallet'[owner][1].balance = wallet[owner][1].balance + a
      /\ wallet'[owner][1].earned = wallet[owner][1].earned /\ \A u \in Users \ {owner} : wallet'[u] = wallet[u]
  BY <1>1, <1>4, RefundPays
<1>6. HasWallet(owner)'
  BY <1>2, <1>5 DEF WalletsKept
<1>7. PICK b \in Int : b = -a
  OBVIOUS
<1>8. \A u \in Users : InWallet(u) \in Int
  BY <1>1, WalletHolds
<1>9. \A u \in Users : Earned(u)' = Earned(u) /\ InWallet(u)' = IF u = owner THEN InWallet(u) + a ELSE InWallet(u)
  BY <1>5, <1>6 DEF Earned, InWallet, HasWallet, Balance, Found
<1>10. \A u \in Users : InWallet(u)' = IF u = owner THEN InWallet(u) - b ELSE InWallet(u)
  BY <1>7, <1>8, <1>9
<1>11. \A u \in Users : \A w \in Withdrawals \ {o} : TakenOut(u)'[w] = TakenOut(u)[w]
  BY <1>3 DEF TakenOut, AmountIf, OfUser, Exists, Status
<1>12. \A u \in Users : TakenOut(u)'[o] = 0 /\ TakenOut(u)[o] = IF u = owner THEN a ELSE 0
  <2>1. ASSUME NEW u \in Users PROVE TakenOut(u)'[o] = 0
    BY <1>3 DEF TakenOut, AmountIf
  <2>2. ASSUME NEW u \in Users PROVE TakenOut(u)[o] = IF u = owner THEN a ELSE 0
    BY <1>4 DEF TakenOut, AmountIf, OfUser
  <2> QED
    BY <2>1, <2>2
<1>13. /\ TakenOut(owner)'[o] = TakenOut(owner)[o] + b
       /\ \A u \in Users : \A w \in Withdrawals : u # owner \/ w # o => TakenOut(u)'[w] = TakenOut(u)[w]
  BY <1>7, <1>11, <1>12
<1> QED
  BY <1>1, <1>9, <1>10, <1>13, WalletMoves
\* The statuses a handler sets, other than by a refund, take nothing out and give nothing back.
LEMMA StatusFollows ==
  ASSUME HandlingInvariant, HandlingInvariant', WalletFollows, wallet' = wallet,
         withdrawal' = withdrawal \/ (\E o \in Withdrawals, status \in {"processing", "completed"} :
                                        Exists(o) /\ Status(o) # "failed" /\ SetStatus(o, status))
  PROVE  /\ WalletFollows'
         /\ \A u \in Users, w \in Withdrawals :
              (OfUser(u, w)' <=> OfUser(u, w)) /\ (OfUser(u, w) => withdrawal'[w].amount = withdrawal[w].amount)
<1>1. RowsTyped /\ RowsTyped' /\ wallet' \in [Users -> Seq(WalletRow)] /\ WalletsKept
  BY DEF HandlingInvariant, RowsTyped, WalletsKept, HasWallet
<1>2. /\ \A w \in Withdrawals : (Exists(w)' <=> Exists(w)) /\ (Status(w)' = "failed" <=> Status(w) = "failed")
      /\ \A w \in Withdrawals : Exists(w) =>
           withdrawal'[w].user = withdrawal[w].user /\ withdrawal'[w].amount = withdrawal[w].amount
  <2>1. CASE withdrawal' = withdrawal
    BY <2>1 DEF Exists, Status
  <2>2. ASSUME NEW o \in Withdrawals, NEW status \in {"processing", "completed"},
               Exists(o), Status(o) # "failed", SetStatus(o, status)
        PROVE  /\ \A w \in Withdrawals : (Exists(w)' <=> Exists(w)) /\ (Status(w)' = "failed" <=> Status(w) = "failed")
               /\ \A w \in Withdrawals : Exists(w) =>
                    withdrawal'[w].user = withdrawal[w].user /\ withdrawal'[w].amount = withdrawal[w].amount
    <3>1. status \in WithdrawalStatus \ {"cancelled"}
      BY DEF WithdrawalStatus
    <3>2. /\ Status(o)' = status
          /\ \A w \in Withdrawals \ {o} : withdrawal'[w] = withdrawal[w]
          /\ \A w \in Withdrawals : (Exists(w)' <=> Exists(w))
          /\ \A w \in Withdrawals : Exists(w) =>
               withdrawal'[w].user = withdrawal[w].user /\ withdrawal'[w].amount = withdrawal[w].amount
      BY <1>1, <2>2, <3>1, StatusSet
    <3>3. \A w \in Withdrawals \ {o} : Status(w)' = Status(w)
      BY <3>2 DEF Status, Exists
    <3> QED
      BY <2>2, <3>2, <3>3
  <2> QED
    BY <2>1, <2>2
<1>3. \A u \in Users, w \in Withdrawals :
           /\ OfUser(u, w)' <=> OfUser(u, w)
           /\ OfUser(u, w) => withdrawal'[w].amount = withdrawal[w].amount
           /\ TakenOut(u)'[w] = TakenOut(u)[w]
  BY <1>1, <1>2, SameTaken
<1>4. WalletFollows'
  BY <1>1, <1>3, SameWallets, WalletStays
<1> QED
  BY <1>3, <1>4

LEMMA HandlerFollows ==
  ASSUME MoneyInvariant, HandlingInvariant', NEW c \in Calls, Proceeds(c) \/ GiveUp(c) \/ Begin(c) \/ Die(c)
  PROVE  MoneyInvariant'
<1>1. HandlingInvariant /\ WalletFollows /\ GatewayFollows /\ RowsTyped /\ RowsTyped' /\ GatewayTyped /\ DepositsFollow
  BY DEF MoneyInvariant, HandlingInvariant
<1>2. WalletFollows' /\ \A u \in Users, w \in Withdrawals : HasLanded(w) =>
        (OfUser(u, w)' <=> OfUser(u, w)) /\ (OfUser(u, w) => withdrawal'[w].amount = withdrawal[w].amount)
  <2>1. CASE \E o \in Withdrawals : Escrow(c, o, "gateway", "escrowed")
    <3>1. PICK o \in Withdrawals : Escrow(c, o, "gateway", "escrowed")
      BY <2>1
    <3>2. ~Exists(o) /\ \A w \in Withdrawals \ {o} : withdrawal'[w] = withdrawal[w]
      BY <1>1, <3>1, EscrowTakes
    <3>3. ~HasLanded(o)
      BY <1>1, <3>2 DEF DepositsFollow, DepositOf, Unposted, Untouched
    <3> QED
      BY <1>1, <3>1, <3>2, <3>3, EscrowFollows DEF OfUser, Exists
  <2>2. CASE FailWithdrawal(c)
    <3>1. call[c].at = "fail" /\ Refund(call[c].ref, "failed")
      BY <2>2 DEF FailWithdrawal
    <3>2. PICK o \in Withdrawals : o = call[c].ref
      BY <1>1, <3>1, RefOfBusy DEF Busy, Rejected
    <3>3. Exists(o) /\ Status(o) = "processing"
      BY <1>1, <3>1, <3>2 DEF HandlingInvariant, HandlersTyped, AtStep, Busy, Rejected
    <3>4. Refund(o, "failed")
      BY <3>1, <3>2
    <3>5. WalletFollows'
      BY <1>1, <3>3, <3>4, RefundFollows
    <3>6. wallet' \in [Users -> Seq(WalletRow)] /\ WalletsKept /\ SetStatus(o, "failed")
      BY <1>1, <3>3, <3>4, RefundPays
    <3>7. /\ \A w \in Withdrawals : (Exists(w)' <=> Exists(w))
          /\ \A w \in Withdrawals : Exists(w) =>
               withdrawal'[w].user = withdrawal[w].user /\ withdrawal'[w].amount = withdrawal[w].amount
      <4>1. "failed" \in WithdrawalStatus \ {"cancelled"}
        BY DEF WithdrawalStatus
      <4> QED
        BY <1>1, <3>3, <3>6, <4>1, StatusSet
    <3> QED
      BY <3>5, <3>7 DEF OfUser
  <2>3. CASE ~FailWithdrawal(c) /\ ~\E o \in Withdrawals : Escrow(c, o, "gateway", "escrowed")
    <3>1. wallet' = wallet
      BY <2>3 DEF Proceeds, GiveUp, Begin, Die, ReadProcess, ReadWithdrawal, PostAccounts, ProcessWithdrawal, PostDeposit,
         DepositAnswered, Complete, CompleteWithdrawal, Fail, Update, RequestWithdrawal, Abandon
    <3>2. \/ withdrawal' = withdrawal
          \/ call[c].at \in {"process", "complete"}
             /\ \E status \in {"processing", "completed"} : SetStatus(call[c].ref, status)
      BY <2>3 DEF Proceeds, GiveUp, Begin, Die, ReadProcess, ReadWithdrawal, PostAccounts, ProcessWithdrawal, PostDeposit,
         DepositAnswered, Complete, CompleteWithdrawal, Fail, Update, RequestWithdrawal
    <3>3. call[c].at \in {"process", "complete"} =>
            call[c].ref \in Withdrawals /\ Exists(call[c].ref) /\ Status(call[c].ref) # "failed"
      BY <1>1 DEF HandlingInvariant, HandlersTyped, AtStep, Busy, BeforeDeposit, Accepted
    <3> QED
      BY <1>1, <3>1, <3>2, <3>3, StatusFollows
  <2> QED
    BY <2>1, <2>2, <2>3
<1>3. /\ \A w \in Withdrawals : Settled(w)' \/ InFlight(w)' => Settled(w) \/ InFlight(w)
      /\ \A w \in Withdrawals : HasLanded(w)' <=> HasLanded(w)
      /\ account' = account /\ writing' = writing
  BY <1>1, HandlerCredits
<1>4. GatewayFollows'
  <2>1. \A u \in Users : AtGateway(u) \in Int /\ AtGateway(u)' = AtGateway(u)
    BY <1>1, <1>3, SameHoldings
  <2>2. \A u \in Users : \A w \in Withdrawals : Credited(u)'[w] <= Credited(u)[w] /\ Landed(u)[w] <= Landed(u)'[w]
    BY <1>1, <1>2, <1>3, SameCredited
  <2> QED
    BY <1>1, <2>1, <2>2, GatewayStays
<1> QED
  BY <1>2, <1>4 DEF MoneyInvariant

\* Steps that leave the withdrawals and take nothing out.
LEMMA OutsideFollows ==
  ASSUME MoneyInvariant, HandlingInvariant', call' = call, withdrawal' = withdrawal,
         \A u \in Users : /\ InWallet(u) \in Int /\ Earned(u) \in Int /\ InWallet(u)' \in Int /\ Earned(u)' \in Int
                          /\ InWallet(u)' - InWallet(u) = Earned(u)' - Earned(u)
  PROVE  /\ WalletFollows'
         /\ \A u \in Users, w \in Withdrawals :
              (OfUser(u, w)' <=> OfUser(u, w)) /\ (OfUser(u, w) => withdrawal'[w].amount = withdrawal[w].amount)
         /\ \A w \in Withdrawals : Status(w)' = Status(w) /\ \A steps : HandledAt(w, steps)' <=> HandledAt(w, steps)
<1>1. RowsTyped /\ RowsTyped' /\ WalletFollows
  BY DEF MoneyInvariant, HandlingInvariant
<1>2. \A w \in Withdrawals : (Exists(w)' <=> Exists(w)) /\ Status(w)' = Status(w)
  BY DEF Exists, Status
<1>3. \A w \in Withdrawals : \A steps : HandledAt(w, steps)' <=> HandledAt(w, steps)
  BY DEF HandledAt
<1>4. \A u \in Users, w \in Withdrawals :
           /\ OfUser(u, w)' <=> OfUser(u, w)
           /\ OfUser(u, w) => withdrawal'[w].amount = withdrawal[w].amount
           /\ TakenOut(u)'[w] = TakenOut(u)[w]
  BY <1>1, <1>2, SameTaken
<1>5. WalletFollows'
  BY <1>1, <1>4, WalletStays
<1> QED
  BY <1>2, <1>3, <1>4, <1>5

LEMMA EarnFollows ==
  ASSUME MoneyInvariant, HandlingInvariant', Earn
  PROVE  MoneyInvariant'
<1>1. PICK u \in Users, type \in CreditTypes, a \in Amounts : CreditWallet(u, type, a)
  BY DEF Earn
<1>2. call' = call /\ withdrawal' = withdrawal /\ UNCHANGED <<gwVars, netVars>>
  BY <1>1 DEF Earn, CreditWallet, LocalOnly
<1>3. HandlingInvariant /\ RowsTyped /\ RowsTyped' /\ GatewayTyped /\ DepositsFollow /\ GatewayFollows
  BY DEF MoneyInvariant, HandlingInvariant
<1>4. /\ WalletFollows'
      /\ \A v \in Users, w \in Withdrawals :
           (OfUser(v, w)' <=> OfUser(v, w)) /\ (OfUser(v, w) => withdrawal'[w].amount = withdrawal[w].amount)
      /\ \A w \in Withdrawals : Status(w)' = Status(w) /\ \A steps : HandledAt(w, steps)' <=> HandledAt(w, steps)
  BY <1>1, <1>2, <1>3, EarnPays, OutsideFollows
<1>5. \A w \in Withdrawals : (HasLanded(w)' <=> HasLanded(w)) /\ (InFlight(w)' <=> InFlight(w)) /\ (Settled(w)' <=> Settled(w))
  BY <1>2, <1>4 DEF HasLanded, InFlight, Posted, Settled, Answered, gwVars, netVars
<1>6. \A v \in Users : AtGateway(v) \in Int /\ AtGateway(v)' = AtGateway(v)
  BY <1>2, <1>3, SameHoldings DEF gwVars
<1>7. \A v \in Users : \A w \in Withdrawals : Credited(v)'[w] <= Credited(v)[w] /\ Landed(v)[w] <= Landed(v)'[w]
  BY <1>3, <1>4, <1>5, SameCredited
<1> QED
  BY <1>3, <1>4, <1>6, <1>7, GatewayStays DEF MoneyInvariant
\* One deposit that is credited, or lost, moves both sides.
LEMMA GatewayMoves ==
  ASSUME RowsTyped, RowsTyped', GatewayFollows, NEW o \in Withdrawals, NEW owner \in Users, NEW a \in Int,
         \A u \in Users : AtGateway(u) \in Int /\ AtGateway(u)' = IF u = owner THEN AtGateway(u) + a ELSE AtGateway(u),
         \A u \in Users : \A w \in Withdrawals :
           /\ Credited(u)'[w] <= Credited(u)[w] + (IF u = owner /\ w = o THEN a ELSE 0)
           /\ Landed(u)[w] + (IF u = owner /\ w = o THEN a ELSE 0) <= Landed(u)'[w]
  PROVE  GatewayFollows'
<1>1. ASSUME NEW u \in Users
      PROVE  SumOfAll(Credited(u)') <= AtGateway(u)' /\ AtGateway(u)' <= SumOfAll(Landed(u)')
  <2> DEFINE credited == Credited(u)
             creditedNow == Credited(u)'
             landed == Landed(u)
             landedNow == Landed(u)'
  <2>1. \A w \in Withdrawals : credited[w] \in Int /\ landed[w] \in Int /\ creditedNow[w] \in Int /\ landedNow[w] \in Int
    BY WeightTypes, WeightTypesLater
  <2>2. /\ SumFunctionOnSet(credited, Withdrawals) \in Int /\ SumFunctionOnSet(landed, Withdrawals) \in Int
        /\ SumFunctionOnSet(creditedNow, Withdrawals) \in Int /\ SumFunctionOnSet(landedNow, Withdrawals) \in Int
    BY <2>1, SumIsInt, SettlementAssumption
  <2>3. SumFunctionOnSet(credited, Withdrawals) <= AtGateway(u) /\ AtGateway(u) <= SumFunctionOnSet(landed, Withdrawals)
    BY DEF GatewayFollows, SumOfAll
  <2>4. \A w \in Withdrawals : /\ creditedNow[w] <= credited[w] + (IF u = owner /\ w = o THEN a ELSE 0)
                               /\ landed[w] + (IF u = owner /\ w = o THEN a ELSE 0) <= landedNow[w]
    OBVIOUS
  <2>5. AtGateway(u) \in Int /\ AtGateway(u)' = IF u = owner THEN AtGateway(u) + a ELSE AtGateway(u)
    OBVIOUS
  <2> HIDE DEF credited, creditedNow, landed, landedNow
  <2>6. CASE u # owner
    <3>1. \A w \in Withdrawals : creditedNow[w] <= credited[w] /\ landed[w] <= landedNow[w]
      BY <2>1, <2>4, <2>6
    <3>2. /\ SumFunctionOnSet(creditedNow, Withdrawals) <= SumFunctionOnSet(credited, Withdrawals)
          /\ SumFunctionOnSet(landed, Withdrawals) <= SumFunctionOnSet(landedNow, Withdrawals)
      BY <2>1, <3>1, SumIsMonotonic, SettlementAssumption
    <3>3. /\ SumFunctionOnSet(creditedNow, Withdrawals) <= AtGateway(u)'
          /\ AtGateway(u)' <= SumFunctionOnSet(landedNow, Withdrawals)
      BY <2>2, <2>3, <2>5, <2>6, <3>2
    <3> QED
      BY <3>3 DEF SumOfAll, creditedNow, landedNow
  <2>7. CASE u = owner
    <3> DEFINE most == [w \in Withdrawals |-> IF w = o THEN credited[w] + a ELSE credited[w]]
               least == [w \in Withdrawals |-> IF w = o THEN landed[w] + a ELSE landed[w]]
    <3>1. /\ \A w \in Withdrawals : most[w] \in Int /\ least[w] \in Int
          /\ \A w \in Withdrawals \ {o} : credited[w] = most[w] /\ landed[w] = least[w]
          /\ most[o] = credited[o] + a /\ least[o] = landed[o] + a
      BY <2>1
    <3>2. \A w \in Withdrawals : creditedNow[w] <= most[w] /\ least[w] <= landedNow[w]
      BY <2>1, <2>4, <2>7
    <3> HIDE DEF most, least
    <3>3. SumFunctionOnSet(most, Withdrawals) = SumFunctionOnSet(credited, Withdrawals) + most[o] - credited[o]
      <4>1. \A y \in Withdrawals : credited[y] \in Int /\ most[y] \in Int
        BY <2>1, <3>1
      <4>2. \A y \in Withdrawals \ {o} : credited[y] = most[y]
        BY <3>1
      <4> QED
        BY <4>1, <4>2, SumChanges, SettlementAssumption
    <3>4. SumFunctionOnSet(least, Withdrawals) = SumFunctionOnSet(landed, Withdrawals) + least[o] - landed[o]
      <4>1. \A y \in Withdrawals : landed[y] \in Int /\ least[y] \in Int
        BY <2>1, <3>1
      <4>2. \A y \in Withdrawals \ {o} : landed[y] = least[y]
        BY <3>1
      <4> QED
        BY <4>1, <4>2, SumChanges, SettlementAssumption
    <3>5. /\ SumFunctionOnSet(creditedNow, Withdrawals) <= SumFunctionOnSet(most, Withdrawals)
          /\ SumFunctionOnSet(least, Withdrawals) <= SumFunctionOnSet(landedNow, Withdrawals)
      BY <2>1, <3>1, <3>2, SumIsMonotonic, SettlementAssumption
    <3>6. credited[o] \in Int /\ landed[o] \in Int /\ AtGateway(u)' = AtGateway(u) + a
      BY <2>1, <2>5, <2>7
    <3>7. SumFunctionOnSet(most, Withdrawals) = SumFunctionOnSet(credited, Withdrawals) + a
      BY <2>2, <3>1, <3>3, <3>6
    <3>8. SumFunctionOnSet(least, Withdrawals) = SumFunctionOnSet(landed, Withdrawals) + a
      BY <2>2, <3>1, <3>4, <3>6
    <3>9. /\ SumFunctionOnSet(creditedNow, Withdrawals) <= AtGateway(u)'
          /\ AtGateway(u)' <= SumFunctionOnSet(landedNow, Withdrawals)
      BY <2>2, <2>3, <2>5, <3>5, <3>6, <3>7, <3>8
    <3> QED
      BY <3>9 DEF SumOfAll, creditedNow, landedNow
  <2> QED
    BY <2>6, <2>7
<1> QED
  BY <1>1 DEF GatewayFollows, SumOfAll

\* The facts about a step of the gateway that do not depend on which it is.
LEMMA GatewayLeaves ==
  ASSUME MoneyInvariant, HandlingInvariant', UNCHANGED payoutVars
  PROVE  /\ WalletFollows' /\ GatewayFollows /\ HandlingInvariant
         /\ RowsTyped /\ RowsTyped' /\ GatewayTyped /\ DepositsFollow
         /\ \A u \in Users, w \in Withdrawals :
              (OfUser(u, w)' <=> OfUser(u, w)) /\ (OfUser(u, w) => withdrawal'[w].amount = withdrawal[w].amount)
         /\ \A w \in Withdrawals : Status(w)' = Status(w) /\ \A steps : HandledAt(w, steps)' <=> HandledAt(w, steps)
         /\ \A w \in Withdrawals : (Answered(w, TRUE)' => Answered(w, TRUE)) => (Settled(w)' => Settled(w))
<1>1. HandlingInvariant /\ GatewayFollows /\ RowsTyped /\ RowsTyped' /\ GatewayTyped /\ DepositsFollow
  BY DEF MoneyInvariant, HandlingInvariant
<1>2. wallet' = wallet /\ call' = call /\ withdrawal' = withdrawal
  BY DEF payoutVars
<1>3. \A u \in Users : /\ InWallet(u) \in Int /\ Earned(u) \in Int /\ InWallet(u)' \in Int /\ Earned(u)' \in Int
                       /\ InWallet(u)' - InWallet(u) = Earned(u)' - Earned(u)
  BY <1>1, <1>2, SameWallets
<1>4. /\ WalletFollows'
      /\ \A u \in Users, w \in Withdrawals :
           (OfUser(u, w)' <=> OfUser(u, w)) /\ (OfUser(u, w) => withdrawal'[w].amount = withdrawal[w].amount)
      /\ \A w \in Withdrawals : Status(w)' = Status(w) /\ \A steps : HandledAt(w, steps)' <=> HandledAt(w, steps)
  BY <1>2, <1>3, OutsideFollows
<1>5. \A w \in Withdrawals : (Answered(w, TRUE)' => Answered(w, TRUE)) => (Settled(w)' => Settled(w))
  BY <1>4 DEF Settled
<1> QED
  BY <1>1, <1>4, <1>5

LEMMA ServeAccountsFollows ==
  ASSUME MoneyInvariant, HandlingInvariant', NEW o \in Withdrawals, ServeAccounts(o)
  PROVE  MoneyInvariant'
<1>1. /\ sent' = sent \ {Message("accounts", o)} /\ Reply("accounts", o, TRUE) /\ UNCHANGED payoutVars /\ writing = Nothing
      /\ UNCHANGED <<deposit, writing>> /\ account' = [account EXCEPT ![withdrawal[o].user] = GW!ExistingOrNew(withdrawal[o].user)]
  BY DEF ServeAccounts, GW!CreateAccount
<1>2. /\ WalletFollows' /\ GatewayFollows /\ RowsTyped /\ RowsTyped' /\ GatewayTyped /\ DepositsFollow
      /\ \A u \in Users, w \in Withdrawals :
           (OfUser(u, w)' <=> OfUser(u, w)) /\ (OfUser(u, w) => withdrawal'[w].amount = withdrawal[w].amount)
      /\ \A w \in Withdrawals : (Answered(w, TRUE)' => Answered(w, TRUE)) => (Settled(w)' => Settled(w))
  BY <1>1, GatewayLeaves
<1>3. /\ \A w \in Withdrawals : Posted(w)' <=> Posted(w)
      /\ \A w \in Withdrawals : Answered(w, TRUE)' <=> Answered(w, TRUE)
  BY <1>1, <1>2, ReplyGives, MessageGone
<1>4. \A w \in Withdrawals : (HasLanded(w)' <=> HasLanded(w)) /\ (InFlight(w)' <=> InFlight(w)) /\ (Settled(w)' => Settled(w))
  BY <1>1, <1>2, <1>3 DEF HasLanded, InFlight
<1>5. \A u \in Users : AtGateway(u) \in Int /\ AtGateway(u)' = AtGateway(u)
  <2>1. ASSUME NEW u \in Users PROVE AtGateway(u)' = AtGateway(u)
    <3>1. GW!Pending(u) = 0 /\ GW!Pending(u)' = 0
      BY <1>1 DEF GW!Pending
    <3>2. account'[u] = IF u = withdrawal[o].user THEN GW!ExistingOrNew(u) ELSE account[u]
      BY <1>1, <1>2 DEF GatewayTyped
    <3>3. CASE GW!HasAccount(u)
      <4>1. account'[u] = account[u] /\ GW!HasAccount(u)'
        BY <3>2, <3>3 DEF GW!ExistingOrNew, GW!HasAccount
      <4> QED
        BY <3>1, <3>3, <4>1 DEF AtGateway
    <3>4. CASE ~GW!HasAccount(u)
      <4>1. account'[u] = 0 \/ account'[u] = Nothing
        BY <3>2, <3>4 DEF GW!ExistingOrNew, GW!HasAccount
      <4> QED
        BY <3>1, <3>4, <4>1 DEF AtGateway, GW!HasAccount
    <3> QED
      BY <3>3, <3>4
  <2> QED
    BY <1>2, <2>1, GatewayHolds
<1>6. \A u \in Users : \A w \in Withdrawals : Credited(u)'[w] <= Credited(u)[w] /\ Landed(u)[w] <= Landed(u)'[w]
  BY <1>2, <1>4, SameCredited
<1> QED
  BY <1>2, <1>5, <1>6, GatewayStays DEF MoneyInvariant
\* One withdrawal of which nothing new is credited counts for no more, and what has landed for no less.
LEMMA CountedLess ==
  ASSUME RowsTyped, RowsTyped', NEW u \in Users, NEW w \in Withdrawals,
         OfUser(u, w)' <=> OfUser(u, w), OfUser(u, w) => withdrawal'[w].amount = withdrawal[w].amount,
         Settled(w)' \/ InFlight(w)' => Settled(w) \/ InFlight(w), HasLanded(w) => HasLanded(w)'
  PROVE  Credited(u)'[w] <= Credited(u)[w] /\ Landed(u)[w] <= Landed(u)'[w]
<1>1. CASE ~OfUser(u, w)
  <2>1. Credited(u)[w] = 0 /\ Credited(u)'[w] = 0 /\ Landed(u)[w] = 0 /\ Landed(u)'[w] = 0
    BY <1>1 DEF Credited, Landed, AmountIf
  <2> QED
    BY <2>1
<1>2. CASE OfUser(u, w)
  <2>1. PICK a \in Nat \ {0} : a = withdrawal[w].amount
    BY <1>2, AmountTypes
  <2>2. OfUser(u, w)' /\ withdrawal'[w].amount = a
    BY <1>2, <2>1
  <2>3. /\ Credited(u)[w] = IF Settled(w) \/ InFlight(w) THEN a ELSE 0
        /\ Landed(u)[w] = IF HasLanded(w) THEN a ELSE 0
    BY <1>2, <2>1 DEF Credited, Landed, AmountIf
  <2>4. /\ Credited(u)'[w] = IF Settled(w)' \/ InFlight(w)' THEN a ELSE 0
        /\ Landed(u)'[w] = IF HasLanded(w)' THEN a ELSE 0
    BY <2>2 DEF Credited, Landed, AmountIf
  <2> QED
    BY <2>1, <2>3, <2>4
<1> QED
  BY <1>1, <1>2

\* Nothing is being written while no deposit is in flight.
LEMMA NothingWritten ==
  ASSUME HandlingInvariant, writing = Nothing
  PROVE  \A w \in Withdrawals : ~InFlight(w)
<1>1. \A w \in Withdrawals : InFlight(w) => withdrawal[w] \in WithdrawalRow
  BY DEF HandlingInvariant, RowsTyped, DepositsFollow, DepositOf, Unposted, Untouched, InFlight, Exists
<1>2. \A w \in Withdrawals : InFlight(w) => writing \in [user : Users, usd : Int]
  BY <1>1 DEF HandlingInvariant, WritesInFlight, WithdrawalRow
<1> QED
  BY <1>2, SettlementAssumption

LEMMA ServeDepositFollows ==
  ASSUME MoneyInvariant, HandlingInvariant', NEW o \in Withdrawals, ServeDeposit(o)
  PROVE  MoneyInvariant'
<1>1. /\ WalletFollows' /\ GatewayFollows /\ HandlingInvariant
      /\ RowsTyped /\ RowsTyped' /\ GatewayTyped /\ DepositsFollow
      /\ \A u \in Users, w \in Withdrawals :
           (OfUser(u, w)' <=> OfUser(u, w)) /\ (OfUser(u, w) => withdrawal'[w].amount = withdrawal[w].amount)
      /\ \A w \in Withdrawals : (Answered(w, TRUE)' => Answered(w, TRUE)) => (Settled(w)' => Settled(w))
  BY GatewayLeaves DEF ServeDeposit
<1>2. /\ Posted(o) /\ ~HasLanded(o) /\ writing = Nothing /\ Exists(o) /\ UNCHANGED <<account, payoutVars>>
      /\ withdrawal[o].user \in Users /\ withdrawal[o].amount \in Nat \ {0}
  BY <1>1, DepositServed
<1>3. PICK owner \in Users, a \in Nat \ {0} : owner = withdrawal[o].user /\ a = withdrawal[o].amount
  BY <1>2
<1>4. CASE /\ GW!HasAccount(owner) /\ deposit' = [deposit EXCEPT ![o] = [user |-> owner, usd |-> a]]
           /\ writing' = [user |-> owner, usd |-> a] /\ UNCHANGED <<sent, answers>>
  <2>1. \A u \in Users : AtGateway(u) \in Int /\ AtGateway(u)' = IF u = owner THEN AtGateway(u) + a ELSE AtGateway(u)
    <3>1. [user |-> owner, usd |-> a] # Nothing
      BY SettlementAssumption
    <3>2. ASSUME NEW u \in Users PROVE GW!Pending(u) = 0 /\ GW!Pending(u)' = IF u = owner THEN a ELSE 0
      <4>1. writing'.user = owner /\ writing'.usd = a /\ writing' # Nothing
        BY <1>4, <3>1
      <4> QED
        BY <1>2, <4>1 DEF GW!Pending
    <3>3. \A u \in Users : GW!HasAccount(u)' <=> GW!HasAccount(u)
      BY <1>2 DEF GW!HasAccount
    <3>4. \A u \in Users : GW!HasAccount(u) => account[u] \in Int
      BY <1>1 DEF GatewayTyped, GW!HasAccount
    <3> QED
      BY <1>1, <1>2, <1>4, <3>2, <3>3, <3>4, GatewayHolds DEF AtGateway
  <2>2. HasLanded(o)' /\ \A w \in Withdrawals \ {o} : HasLanded(w)' <=> HasLanded(w)
    <3>1. [user |-> owner, usd |-> a] # Nothing
      BY SettlementAssumption
    <3> QED
      BY <1>1, <1>4, <3>1 DEF GatewayTyped, HasLanded
  <2>3. \A w \in Withdrawals \ {o} : (InFlight(w)' <=> InFlight(w)) /\ (Settled(w)' => Settled(w))
    BY <1>1, <1>4, <2>2 DEF InFlight, Posted, Answered
  <2>4. ASSUME NEW u \in Users, NEW w \in Withdrawals
        PROVE  /\ Credited(u)'[w] <= Credited(u)[w] + (IF u = owner /\ w = o THEN a ELSE 0)
               /\ Landed(u)[w] + (IF u = owner /\ w = o THEN a ELSE 0) <= Landed(u)'[w]
    <3>1. Credited(u)[w] \in Nat /\ Credited(u)'[w] \in Nat /\ Landed(u)[w] \in Nat /\ Landed(u)'[w] \in Nat
      BY <1>1, WeightTypes, WeightTypesLater
    <3>2. CASE w # o
      <4>1. Credited(u)'[w] <= Credited(u)[w] /\ Landed(u)[w] <= Landed(u)'[w]
        BY <1>1, <2>2, <2>3, <3>2, CountedLess
      <4> QED
        BY <3>1, <3>2, <4>1
    <3>3. CASE w = o /\ u # owner
      <4>1. ~OfUser(u, w) /\ ~OfUser(u, w)'
        BY <1>1, <1>3, <3>3 DEF OfUser
      <4>2. Credited(u)[w] = 0 /\ Credited(u)'[w] = 0 /\ Landed(u)[w] = 0 /\ Landed(u)'[w] = 0
        BY <4>1 DEF Credited, Landed, AmountIf
      <4> QED
        BY <3>3, <4>2
    <3>4. CASE w = o /\ u = owner
      <4>1. OfUser(u, w) /\ OfUser(u, w)' /\ withdrawal'[w].amount = a
        BY <1>1, <1>2, <1>3, <3>4 DEF OfUser
      <4>2. Credited(u)'[w] = 0 \/ Credited(u)'[w] = a
        BY <4>1 DEF Credited, AmountIf
      <4>3. Landed(u)[w] = 0 /\ Landed(u)'[w] = a
        BY <1>2, <2>2, <3>4, <4>1 DEF Landed, AmountIf
      <4> QED
        BY <3>1, <3>4, <4>2, <4>3
    <3> QED
      BY <3>2, <3>3, <3>4
  <2>5. GatewayFollows'
    BY <1>1, <2>1, <2>4, GatewayMoves
  <2> QED
    BY <1>1, <2>5 DEF MoneyInvariant
<1>5. CASE UNCHANGED <<deposit, writing>> /\ sent' = sent \ {Message("deposit", o)} /\ Reply("deposit", o, FALSE)
  <2>1. \A w \in Withdrawals : (Posted(w)' => Posted(w)) /\ (Answered(w, TRUE)' => Answered(w, TRUE))
    BY <1>1, <1>5, MessageGone, ReplyGives
  <2>2. \A w \in Withdrawals : (HasLanded(w)' <=> HasLanded(w)) /\ (InFlight(w)' => InFlight(w)) /\ (Settled(w)' => Settled(w))
    BY <1>1, <1>5, <2>1 DEF HasLanded, InFlight
  <2>3. \A u \in Users : AtGateway(u) \in Int /\ AtGateway(u)' = AtGateway(u)
    BY <1>1, <1>2, <1>5, SameHoldings
  <2>4. \A u \in Users : \A w \in Withdrawals : Credited(u)'[w] <= Credited(u)[w] /\ Landed(u)[w] <= Landed(u)'[w]
    BY <1>1, <2>2, SameCredited
  <2> QED
    BY <1>1, <2>3, <2>4, GatewayStays DEF MoneyInvariant
<1> QED
  BY <1>1, <1>3, <1>4, <1>5, DepositServed

LEMMA FinishWriteFollows ==
  ASSUME MoneyInvariant, HandlingInvariant', FinishWrite
  PROVE  MoneyInvariant'
<1>1. /\ WalletFollows' /\ GatewayFollows /\ HandlingInvariant
      /\ RowsTyped /\ RowsTyped' /\ GatewayTyped /\ DepositsFollow
      /\ \A u \in Users, w \in Withdrawals :
           (OfUser(u, w)' <=> OfUser(u, w)) /\ (OfUser(u, w) => withdrawal'[w].amount = withdrawal[w].amount)
      /\ \A w \in Withdrawals : (Answered(w, TRUE)' => Answered(w, TRUE)) => (Settled(w)' => Settled(w))
  BY GatewayLeaves DEF FinishWrite
<1>2. PICK o \in Withdrawals, owner \in Users, a \in Nat \ {0} :
        /\ InFlight(o) /\ writing = [user |-> owner, usd |-> a] /\ account[owner] \in Int
        /\ account' = [account EXCEPT ![owner] = @ + a] /\ writing' = Nothing /\ deposit' = deposit
        /\ sent' = sent \ {Message("deposit", o)} /\ Reply("deposit", o, TRUE)
  BY <1>1, WriteFinished
<1>3. /\ \A w \in Withdrawals : Posted(w)' => Posted(w)
      /\ \A w \in Withdrawals \ {o} : Answered(w, TRUE)' => Answered(w, TRUE)
  BY <1>1, <1>2, MessageGone, ReplyGives
<1>4. \A w \in Withdrawals : /\ HasLanded(w)' <=> HasLanded(w)
                             /\ Settled(w)' \/ InFlight(w)' => Settled(w) \/ InFlight(w)
  BY <1>1, <1>2, <1>3 DEF HasLanded, InFlight
<1>5. \A u \in Users : AtGateway(u) \in Int /\ AtGateway(u)' = AtGateway(u)
  <2>1. ASSUME NEW u \in Users PROVE AtGateway(u)' = AtGateway(u)
    <3>1. writing # Nothing /\ writing.user = owner /\ writing.usd = a
      BY <1>2, SettlementAssumption
    <3>2. GW!Pending(u) = (IF u = owner THEN a ELSE 0) /\ GW!Pending(u)' = 0
      BY <1>2, <3>1 DEF GW!Pending
    <3>3. account'[u] = IF u = owner THEN account[u] + a ELSE account[u]
      BY <1>1, <1>2 DEF GatewayTyped
    <3>4. GW!HasAccount(u)' <=> GW!HasAccount(u)
      <4>1. account[owner] + a # Nothing /\ account[owner] # Nothing
        BY <1>2, SettlementAssumption
      <4> QED
        BY <3>3, <4>1 DEF GW!HasAccount
    <3>5. GW!HasAccount(u) => account[u] \in Int
      BY <1>1 DEF GatewayTyped, GW!HasAccount
    <3> QED
      BY <3>2, <3>3, <3>4, <3>5 DEF AtGateway
  <2> QED
    BY <1>1, <2>1, GatewayHolds
<1>6. \A u \in Users : \A w \in Withdrawals : Credited(u)'[w] <= Credited(u)[w] /\ Landed(u)[w] <= Landed(u)'[w]
  BY <1>1, <1>4, SameCredited
<1> QED
  BY <1>1, <1>5, <1>6, GatewayStays DEF MoneyInvariant
\* The deposit that is lost in its writing was not credited, and stays recorded as landed.
LEMMA GatewayDiesFollows ==
  ASSUME MoneyInvariant, HandlingInvariant', GatewayDies
  PROVE  MoneyInvariant'
<1>1. /\ WalletFollows' /\ GatewayFollows /\ HandlingInvariant
      /\ RowsTyped /\ RowsTyped' /\ GatewayTyped /\ DepositsFollow
      /\ \A u \in Users, w \in Withdrawals :
           (OfUser(u, w)' <=> OfUser(u, w)) /\ (OfUser(u, w) => withdrawal'[w].amount = withdrawal[w].amount)
      /\ \A w \in Withdrawals : (Answered(w, TRUE)' => Answered(w, TRUE)) => (Settled(w)' => Settled(w))
  BY GatewayLeaves DEF GatewayDies
<1>2. writing' = Nothing /\ sent' = {} /\ UNCHANGED <<account, deposit, answers>>
  BY DEF GatewayDies, GW!Crash
<1>3. \A w \in Withdrawals : (Settled(w)' => Settled(w)) /\ ~InFlight(w)' /\ (HasLanded(w)' <=> HasLanded(w))
  BY <1>1, <1>2 DEF Answered, InFlight, Posted, HasLanded
<1>4. CASE writing = Nothing
  <2>1. \A u \in Users : AtGateway(u) \in Int /\ AtGateway(u)' = AtGateway(u)
    BY <1>1, <1>2, <1>4, SameHoldings
  <2>2. \A u \in Users : \A w \in Withdrawals : Credited(u)'[w] <= Credited(u)[w] /\ Landed(u)[w] <= Landed(u)'[w]
    BY <1>1, <1>3, SameCredited
  <2> QED
    BY <1>1, <2>1, <2>2, GatewayStays DEF MoneyInvariant
<1>5. CASE writing # Nothing
  <2>1. PICK o \in Withdrawals : InFlight(o)
    BY <1>1, <1>5 DEF HandlingInvariant, WritesInFlight
  <2>2. Exists(o) /\ ~Settled(o)
    BY <1>1, <2>1 DEF DepositsFollow, DepositOf, Unposted, Untouched, InFlight
  <2>3. PICK owner \in Users, a \in Nat \ {0} : owner = withdrawal[o].user /\ a = withdrawal[o].amount
    BY <1>1, <2>2 DEF RowsTyped, Exists, WithdrawalRow
  <2>4. writing = [user |-> owner, usd |-> a]
    BY <1>1, <2>1, <2>3 DEF HandlingInvariant, WritesInFlight
  <2>5. GW!HasAccount(owner)
    <3>1. writing.user = owner
      BY <2>4
    <3> QED
      BY <1>1, <1>5, <3>1 DEF HandlingInvariant, WritesInFlight
  <2>6. ASSUME NEW u \in Users PROVE AtGateway(u) \in Int /\ AtGateway(u)' = IF u = owner THEN AtGateway(u) + (-a) ELSE AtGateway(u)
    <3>1. GW!Pending(u) = (IF u = owner THEN a ELSE 0) /\ GW!Pending(u)' = 0
      <4>1. writing.user = owner /\ writing.usd = a
        BY <2>4
      <4> QED
        BY <1>2, <1>5, <4>1 DEF GW!Pending
    <3>2. GW!HasAccount(u)' <=> GW!HasAccount(u)
      BY <1>2 DEF GW!HasAccount
    <3>3. GW!HasAccount(u) => account[u] \in Int
      BY <1>1 DEF GatewayTyped, GW!HasAccount
    <3> QED
      BY <1>2, <2>5, <3>1, <3>2, <3>3 DEF AtGateway
  <2>7. ASSUME NEW u \in Users, NEW w \in Withdrawals
        PROVE  /\ Credited(u)'[w] <= Credited(u)[w] + (IF u = owner /\ w = o THEN -a ELSE 0)
               /\ Landed(u)[w] + (IF u = owner /\ w = o THEN -a ELSE 0) <= Landed(u)'[w]
    <3>1. Credited(u)[w] \in Nat /\ Credited(u)'[w] \in Nat /\ Landed(u)[w] \in Nat /\ Landed(u)'[w] \in Nat
      BY <1>1, WeightTypes, WeightTypesLater
    <3>2. Credited(u)'[w] <= Credited(u)[w] /\ Landed(u)[w] <= Landed(u)'[w]
      BY <1>1, <1>3, CountedLess
    <3>3. CASE u = owner /\ w = o
      <4>1. OfUser(u, w)
        BY <2>2, <2>3, <3>3 DEF OfUser
      <4>2. Credited(u)[w] = a
        BY <2>1, <2>3, <3>3, <4>1 DEF Credited, AmountIf
      <4>3. ~Settled(w)' /\ ~InFlight(w)'
        BY <1>3, <2>2, <3>3
      <4>4. Credited(u)'[w] = 0
        BY <4>3 DEF Credited, AmountIf
      <4> QED
        BY <3>1, <3>2, <3>3, <4>2, <4>4
    <3>4. CASE ~(u = owner /\ w = o)
      BY <3>1, <3>2, <3>4
    <3> QED
      BY <3>3, <3>4
  <2>8. -a \in Int
    OBVIOUS
  <2>9. GatewayFollows'
    <3> DEFINE b == -a
    <3>1. b \in Int /\ \A u \in Users : AtGateway(u) \in Int /\ AtGateway(u)' = IF u = owner THEN AtGateway(u) + b ELSE AtGateway(u)
      BY <2>6, <2>8
    <3>2. \A u \in Users : \A w \in Withdrawals :
            /\ Credited(u)'[w] <= Credited(u)[w] + (IF u = owner /\ w = o THEN b ELSE 0)
            /\ Landed(u)[w] + (IF u = owner /\ w = o THEN b ELSE 0) <= Landed(u)'[w]
      BY <2>7
    <3> HIDE DEF b
    <3> QED
      BY <1>1, <3>1, <3>2, GatewayMoves
  <2> QED
    BY <1>1, <2>9 DEF MoneyInvariant
<1> QED
  BY <1>4, <1>5

LEMMA LoseFollows ==
  ASSUME MoneyInvariant, HandlingInvariant', NEW m, Lose(m)
  PROVE  MoneyInvariant'
<1>1. /\ WalletFollows' /\ GatewayFollows /\ HandlingInvariant
      /\ RowsTyped /\ RowsTyped' /\ GatewayTyped /\ DepositsFollow
      /\ \A u \in Users, w \in Withdrawals :
           (OfUser(u, w)' <=> OfUser(u, w)) /\ (OfUser(u, w) => withdrawal'[w].amount = withdrawal[w].amount)
      /\ \A w \in Withdrawals : (Answered(w, TRUE)' => Answered(w, TRUE)) => (Settled(w)' => Settled(w))
  BY GatewayLeaves DEF Lose
<1>2. sent' \subseteq sent /\ UNCHANGED <<account, deposit, writing, answers>>
  BY DEF Lose, gwVars
<1>3. \A w \in Withdrawals : (Settled(w)' => Settled(w)) /\ (InFlight(w)' => InFlight(w)) /\ (HasLanded(w)' <=> HasLanded(w))
  BY <1>1, <1>2 DEF Answered, InFlight, Posted, HasLanded
<1>4. \A u \in Users : AtGateway(u) \in Int /\ AtGateway(u)' = AtGateway(u)
  BY <1>1, <1>2, SameHoldings
<1>5. \A u \in Users : \A w \in Withdrawals : Credited(u)'[w] <= Credited(u)[w] /\ Landed(u)[w] <= Landed(u)'[w]
  BY <1>1, <1>3, SameCredited
<1> QED
  BY <1>1, <1>4, <1>5, GatewayStays DEF MoneyInvariant

LEMMA StutterFollows ==
  ASSUME MoneyInvariant, HandlingInvariant', UNCHANGED withdrawVars
  PROVE  MoneyInvariant'
<1>1. /\ UNCHANGED payoutVars /\ UNCHANGED <<account, deposit, writing, sent, answers>>
  BY DEF withdrawVars, gwVars, netVars
<1>2. /\ WalletFollows' /\ GatewayFollows /\ HandlingInvariant
      /\ RowsTyped /\ RowsTyped' /\ GatewayTyped /\ DepositsFollow
      /\ \A u \in Users, w \in Withdrawals :
           (OfUser(u, w)' <=> OfUser(u, w)) /\ (OfUser(u, w) => withdrawal'[w].amount = withdrawal[w].amount)
      /\ \A w \in Withdrawals : (Answered(w, TRUE)' => Answered(w, TRUE)) => (Settled(w)' => Settled(w))
  BY <1>1, GatewayLeaves
<1>3. \A w \in Withdrawals : (Settled(w)' => Settled(w)) /\ (InFlight(w)' => InFlight(w)) /\ (HasLanded(w)' <=> HasLanded(w))
  BY <1>1, <1>2 DEF Answered, InFlight, Posted, HasLanded
<1>4. \A u \in Users : AtGateway(u) \in Int /\ AtGateway(u)' = AtGateway(u)
  BY <1>1, <1>2, SameHoldings
<1>5. \A u \in Users : \A w \in Withdrawals : Credited(u)'[w] <= Credited(u)[w] /\ Landed(u)[w] <= Landed(u)'[w]
  BY <1>2, <1>3, SameCredited
<1> QED
  BY <1>2, <1>4, <1>5, GatewayStays DEF MoneyInvariant

LEMMA MoneyInitially == WithdrawInit => MoneyInvariant
<1> SUFFICES ASSUME WithdrawInit PROVE MoneyInvariant
  OBVIOUS
<1>1. HandlingInvariant /\ RowsTyped
  BY HandlingInitially DEF HandlingInvariant
<1>2. \A w \in Withdrawals : ~Exists(w)
  BY DEF WithdrawInit, Init, Exists
<1>3. ASSUME NEW u \in Users PROVE SumOfAll(TakenOut(u)) = 0 /\ SumOfAll(Credited(u)) = 0 /\ SumOfAll(Landed(u)) = 0
  <2> DEFINE out == TakenOut(u)
             credited == Credited(u)
             landed == Landed(u)
  <2>1. \A w \in Withdrawals : out[w] = 0 /\ credited[w] = 0 /\ landed[w] = 0
    BY <1>2 DEF TakenOut, Credited, Landed, AmountIf, OfUser
  <2> HIDE DEF out, credited, landed
  <2>2. /\ SumFunctionOnSet(out, Withdrawals) = SumFunctionOnSet(out, {})
        /\ SumFunctionOnSet(credited, Withdrawals) = SumFunctionOnSet(credited, {})
        /\ SumFunctionOnSet(landed, Withdrawals) = SumFunctionOnSet(landed, {})
    BY <2>1, SumOfPart, SettlementAssumption
  <2>3. SumFunctionOnSet(out, Withdrawals) = 0 /\ SumFunctionOnSet(credited, Withdrawals) = 0 /\ SumFunctionOnSet(landed, Withdrawals) = 0
    BY <2>2, SumOfNone
  <2> QED
    BY <2>3 DEF SumOfAll, out, credited, landed
<1>4. \A u \in Users : InWallet(u) = 0 /\ Earned(u) = 0 /\ AtGateway(u) = 0
  BY DEF WithdrawInit, Init, GW!GatewayInit, InWallet, Earned, AtGateway, HasWallet, GW!HasAccount
<1> QED
  BY <1>1, <1>3, <1>4 DEF MoneyInvariant, WalletFollows, GatewayFollows

LEMMA MoneyStep ==
  ASSUME MoneyInvariant, [WithdrawNext]_withdrawVars
  PROVE  MoneyInvariant'
<1>1. HandlingInvariant'
  BY HandlingStep DEF MoneyInvariant
<1>2. CASE UNCHANGED withdrawVars
  BY <1>1, <1>2, StutterFollows
<1>3. CASE WithdrawNext
  BY <1>1, <1>3, HandlerFollows, EarnFollows, ServeAccountsFollows, ServeDepositFollows, FinishWriteFollows,
     LoseFollows, GatewayDiesFollows DEF WithdrawNext, HandlerStep, GatewayStep
<1> QED
  BY <1>2, <1>3
-----------------------------------------------------------------------------
(***************************************************************************)
(* What follows for the credits of a user: each withdrawal counts on the   *)
(* side of what is held at least, and at most, as often as it was taken.   *)
(***************************************************************************)
CountIn(S) == [w \in Withdrawals |-> AmountIf(w, w \in S)]

LEMMA EscrowIsSum ==
  ASSUME RowsTyped, NEW S \in SUBSET Withdrawals, \A w \in S : Exists(w)
  PROVE  /\ InEscrow(S) = SumOfAll(CountIn(S)) /\ InEscrow(S) \in Int
         /\ \A w \in Withdrawals : CountIn(S)[w] \in Nat
<1> DEFINE part == [w \in S |-> withdrawal[w].amount]
           all == CountIn(S)
<1>1. \A w \in S : withdrawal[w].amount \in Nat
  BY DEF RowsTyped, Exists, WithdrawalRow
<1>2. \A w \in S : part[w] \in Int /\ all[w] = part[w]
  BY <1>1 DEF CountIn, AmountIf
<1>3. \A w \in Withdrawals \ S : all[w] = 0
  BY DEF CountIn, AmountIf
<1>4. \A w \in Withdrawals : all[w] \in Nat
  BY <1>1 DEF CountIn, AmountIf
<1>5. InEscrow(S) = SumFunctionOnSet(part, S)
  BY DEF InEscrow, SumFunction
<1> HIDE DEF part, all
<1>6. SumFunctionOnSet(all, Withdrawals) = SumFunctionOnSet(part, S)
  BY <1>2, <1>3, SumOfPart, SettlementAssumption
<1>7. SumFunctionOnSet(all, Withdrawals) \in Int
  BY <1>4, SumIsInt, SettlementAssumption
<1> QED
  BY <1>4, <1>5, <1>6, <1>7 DEF SumOfAll, all

\* Sums of two kinds of weights compare when every withdrawal does.
LEMMA SumsCompare ==
  ASSUME NEW a, NEW b, NEW c, NEW d,
         \A w \in Withdrawals : /\ a[w] \in Int /\ b[w] \in Int /\ c[w] \in Int /\ d[w] \in Int
                                /\ a[w] + b[w] <= c[w] + d[w]
  PROVE  SumOfAll(a) + SumOfAll(b) <= SumOfAll(c) + SumOfAll(d)
<1> DEFINE ab == [w \in Withdrawals |-> a[w] + b[w]]
           cd == [w \in Withdrawals |-> c[w] + d[w]]
<1>1. \A w \in Withdrawals : ab[w] = a[w] + b[w] /\ cd[w] = c[w] + d[w] /\ ab[w] \in Int /\ cd[w] \in Int /\ ab[w] <= cd[w]
  OBVIOUS
<1> HIDE DEF ab, cd
<1>2. SumFunctionOnSet(ab, Withdrawals) = SumFunctionOnSet(a, Withdrawals) + SumFunctionOnSet(b, Withdrawals)
  BY <1>1, SumAdds, SettlementAssumption
<1>3. SumFunctionOnSet(cd, Withdrawals) = SumFunctionOnSet(c, Withdrawals) + SumFunctionOnSet(d, Withdrawals)
  BY <1>1, SumAdds, SettlementAssumption
<1>4. SumFunctionOnSet(ab, Withdrawals) <= SumFunctionOnSet(cd, Withdrawals)
  BY <1>1, SumIsMonotonic, SettlementAssumption
<1> QED
  BY <1>2, <1>3, <1>4 DEF SumOfAll

LEMMA SumTypesNow ==
  ASSUME RowsTyped, NEW u \in Users
  PROVE  /\ SumOfAll(TakenOut(u)) \in Int /\ SumOfAll(Credited(u)) \in Int /\ SumOfAll(Landed(u)) \in Int
         /\ \A w \in Withdrawals : TakenOut(u)[w] \in Int /\ Credited(u)[w] \in Int /\ Landed(u)[w] \in Int
<1>1. \A w \in Withdrawals : TakenOut(u)[w] \in Int /\ Credited(u)[w] \in Int /\ Landed(u)[w] \in Int
  BY WeightTypes
<1> QED
  BY <1>1, SumIsInt, SettlementAssumption DEF SumOfAll

LEMMA HeldOrCredited ==
  ASSUME MoneyInvariant
  PROVE  NothingLost
<1> SUFFICES ASSUME NEW u \in Users PROVE InWallet(u) + InEscrow(HeldFor(u)) + AtGateway(u) >= Earned(u)
  BY DEF NothingLost
<1>1. RowsTyped /\ GatewayTyped /\ WalletFollows /\ GatewayFollows
  BY DEF MoneyInvariant, HandlingInvariant
<1> DEFINE held == HeldFor(u)
<1>2. held \in SUBSET Withdrawals /\ \A w \in held : Exists(w)
  BY DEF HeldFor, Status
<1>3. /\ InEscrow(held) = SumOfAll(CountIn(held)) /\ InEscrow(held) \in Int
      /\ \A w \in Withdrawals : CountIn(held)[w] \in Nat
  BY <1>1, <1>2, EscrowIsSum
<1>4. ASSUME NEW w \in Withdrawals PROVE TakenOut(u)[w] <= CountIn(held)[w] + Credited(u)[w]
  <2>1. CASE OfUser(u, w) /\ Status(w) # "failed"
    <3>1. Status(w) \in {"pending", "processing", "completed"}
      BY <1>1, <2>1 DEF RowsTyped, OfUser, Status, Exists, WithdrawalRow, WithdrawalStatus
    <3>2. withdrawal[w].amount \in Nat
      BY <1>1, <2>1, AmountTypes
    <3>3. TakenOut(u)[w] = withdrawal[w].amount /\ CountIn(held)[w] \in Nat /\ Credited(u)[w] \in Nat
      BY <1>1, <1>3, <2>1, WeightTypes DEF TakenOut, AmountIf
    <3>4. CASE Status(w) = "completed"
      <4>1. Credited(u)[w] = withdrawal[w].amount
        BY <2>1, <3>4 DEF Credited, AmountIf, Settled
      <4> QED
        BY <3>2, <3>3, <4>1
    <3>5. CASE Status(w) \in {"pending", "processing"}
      <4>1. CountIn(held)[w] = withdrawal[w].amount
        BY <2>1, <3>5 DEF CountIn, AmountIf, HeldFor, OfUser
      <4> QED
        BY <3>2, <3>3, <4>1
    <3> QED
      BY <3>1, <3>4, <3>5
  <2>2. CASE ~(OfUser(u, w) /\ Status(w) # "failed")
    <3>1. TakenOut(u)[w] = 0
      BY <2>2 DEF TakenOut, AmountIf
    <3> QED
      BY <1>1, <1>3, <3>1, WeightTypes
  <2> QED
    BY <2>1, <2>2
<1> DEFINE none == [w \in Withdrawals |-> 0]
           out == TakenOut(u)
           escrowed == CountIn(held)
           credited == Credited(u)
<1>5. \A w \in Withdrawals : /\ out[w] \in Int /\ none[w] \in Int /\ escrowed[w] \in Int /\ credited[w] \in Int
                             /\ out[w] + none[w] <= escrowed[w] + credited[w]
  BY <1>1, <1>3, <1>4, SumTypesNow
<1>6. \A w \in Withdrawals \ {} : none[w] = 0
  OBVIOUS
<1>7. SumOfAll(out) \in Int /\ SumOfAll(credited) \in Int
  BY <1>1, SumTypesNow
<1>8. /\ AtGateway(u) \in Int /\ InWallet(u) \in Int /\ Earned(u) \in Int
      /\ InWallet(u) = Earned(u) - SumOfAll(out) /\ SumOfAll(credited) <= AtGateway(u)
      /\ InEscrow(held) = SumOfAll(escrowed)
  BY <1>1, <1>3, GatewayHolds, WalletHolds DEF WalletFollows, GatewayFollows
<1> HIDE DEF none, out, escrowed, credited
<1>9. SumOfAll(none) = 0
  BY <1>6, SumOfPart, SumOfNone, SettlementAssumption DEF SumOfAll
<1>10. SumOfAll(out) + SumOfAll(none) <= SumOfAll(escrowed) + SumOfAll(credited)
  BY <1>5, SumsCompare
<1> QED
  BY <1>3, <1>7, <1>8, <1>9, <1>10

LEMMA TakenOrLate ==
  ASSUME MoneyInvariant, late \subseteq Withdrawals
  PROVE  TwiceOnlyIfLate
<1> SUFFICES ASSUME NEW u \in Users
             PROVE  InWallet(u) + InEscrow({w \in HeldFor(u) : deposit[w] = Nothing}) + AtGateway(u)
                      <= Earned(u) + InEscrow(RefundedThoughLanded)
  BY DEF TwiceOnlyIfLate
<1>1. RowsTyped /\ GatewayTyped /\ WalletFollows /\ GatewayFollows /\ DepositsFollow
  BY DEF MoneyInvariant, HandlingInvariant
<1> DEFINE held == {w \in HeldFor(u) : deposit[w] = Nothing}
           twice == RefundedThoughLanded
<1>2. held \in SUBSET Withdrawals /\ \A w \in held : Exists(w)
  BY DEF HeldFor, Status
<1>3. twice \in SUBSET Withdrawals /\ \A w \in twice : Exists(w)
  BY DEF RefundedThoughLanded, Status
<1>4. /\ InEscrow(held) = SumOfAll(CountIn(held)) /\ InEscrow(held) \in Int
      /\ \A w \in Withdrawals : CountIn(held)[w] \in Nat
  BY <1>1, <1>2, EscrowIsSum
<1>5. /\ InEscrow(twice) = SumOfAll(CountIn(twice)) /\ InEscrow(twice) \in Int
      /\ \A w \in Withdrawals : CountIn(twice)[w] \in Nat
  BY <1>1, <1>3, EscrowIsSum
<1>6. ASSUME NEW w \in Withdrawals PROVE CountIn(held)[w] + Landed(u)[w] <= TakenOut(u)[w] + CountIn(twice)[w]
  <2>1. CountIn(held)[w] \in Nat /\ CountIn(twice)[w] \in Nat /\ Landed(u)[w] \in Nat /\ TakenOut(u)[w] \in Nat
    BY <1>1, <1>4, <1>5, WeightTypes
  <2>2. CASE ~OfUser(u, w)
    <3>1. w \notin held
      BY <2>2 DEF HeldFor, OfUser, Status
    <3>2. CountIn(held)[w] = 0 /\ Landed(u)[w] = 0
      BY <2>2, <3>1 DEF CountIn, Landed, AmountIf
    <3> QED
      BY <2>1, <3>2
  <2>3. CASE OfUser(u, w) /\ ~HasLanded(w)
    <3>1. Landed(u)[w] = 0
      BY <2>3 DEF Landed, AmountIf
    <3>2. CASE w \in held
      <4>1. Status(w) # "failed"
        BY <3>2 DEF HeldFor
      <4>2. CountIn(held)[w] = TakenOut(u)[w]
        BY <2>3, <3>2, <4>1 DEF CountIn, TakenOut, AmountIf
      <4> QED
        BY <2>1, <3>1, <4>2
    <3>3. CASE w \notin held
      <4>1. CountIn(held)[w] = 0
        BY <3>3 DEF CountIn, AmountIf
      <4> QED
        BY <2>1, <3>1, <4>1
    <3> QED
      BY <3>2, <3>3
  <2>4. CASE OfUser(u, w) /\ HasLanded(w)
    <3>1. w \notin held
      BY <2>4 DEF HasLanded
    <3>2. CountIn(held)[w] = 0 /\ Landed(u)[w] = withdrawal[w].amount
      BY <2>4, <3>1 DEF CountIn, Landed, AmountIf
    <3>3. CASE Status(w) = "failed"
      <4>1. w \in late
        BY <1>1, <2>4, <3>3 DEF DepositsFollow, DepositOf, Refused, Untouched
      <4>2. CountIn(twice)[w] = withdrawal[w].amount
        BY <2>4, <3>3, <4>1 DEF CountIn, AmountIf, RefundedThoughLanded, HasLanded
      <4> QED
        BY <2>1, <3>2, <4>2
    <3>4. CASE Status(w) # "failed"
      <4>1. TakenOut(u)[w] = withdrawal[w].amount
        BY <2>4, <3>4 DEF TakenOut, AmountIf
      <4> QED
        BY <2>1, <3>2, <4>1
    <3> QED
      BY <3>3, <3>4
  <2> QED
    BY <2>2, <2>3, <2>4
<1> DEFINE out == TakenOut(u)
           escrowed == CountIn(held)
           refunded == CountIn(twice)
           landed == Landed(u)
<1>7. \A w \in Withdrawals : /\ escrowed[w] \in Int /\ landed[w] \in Int /\ out[w] \in Int /\ refunded[w] \in Int
                             /\ escrowed[w] + landed[w] <= out[w] + refunded[w]
  BY <1>1, <1>4, <1>5, <1>6, SumTypesNow
<1>8. SumOfAll(out) \in Int /\ SumOfAll(landed) \in Int
  BY <1>1, SumTypesNow
<1>9. /\ AtGateway(u) \in Int /\ InWallet(u) \in Int /\ Earned(u) \in Int
      /\ InWallet(u) = Earned(u) - SumOfAll(out) /\ AtGateway(u) <= SumOfAll(landed)
  BY <1>1, GatewayHolds, WalletHolds DEF WalletFollows, GatewayFollows
<1>10. InEscrow(held) = SumOfAll(escrowed) /\ InEscrow(twice) = SumOfAll(refunded)
  BY <1>4, <1>5
<1> HIDE DEF out, escrowed, refunded, landed
<1>11. SumOfAll(escrowed) + SumOfAll(landed) <= SumOfAll(out) + SumOfAll(refunded)
  BY <1>7, SumsCompare
<1>12. InEscrow(held) \in Int /\ InEscrow(twice) \in Int
  BY <1>4, <1>5
<1> HIDE DEF held, twice
<1>13. InWallet(u) + InEscrow(held) + AtGateway(u) <= Earned(u) + InEscrow(twice)
  BY <1>8, <1>9, <1>10, <1>11, <1>12
<1> QED
  BY <1>13 DEF held, twice

LEMMA LateStep ==
  ASSUME HandlingInvariant, late \subseteq Withdrawals, [WithdrawNext]_withdrawVars
  PROVE  (late \subseteq Withdrawals)'
<1>1. ASSUME NEW c \in Calls, GiveUp(c) PROVE late' \subseteq Withdrawals
  <2>1. call[c].at \in Busy
    BY <1>1 DEF GiveUp, TimesOut, Busy, BeforeDeposit
  <2>2. PICK o \in Withdrawals : call[c].ref = o
    BY <2>1, RefOfBusy
  <2> QED
    BY <1>1, <2>2 DEF GiveUp
<1>2. CASE UNCHANGED late
  BY <1>2
<1> QED
  BY <1>1, <1>2 DEF WithdrawNext, HandlerStep, Die, withdrawVars, historyVars

WithdrawInvariant == MoneyInvariant /\ late \subseteq Withdrawals

(***************************************************************************)
(* How far a handler is and what has become of its deposit fit together,   *)
(* wallets hold what was earned and is not out, and the gateway holds what *)
(* is credited there: through every order of requests, answers, timeouts   *)
(* and crashes, for any number of handlers, users and withdrawals.         *)
(***************************************************************************)
THEOREM WithdrawSound == WithdrawSpec => []WithdrawInvariant
<1>1. WithdrawInit => WithdrawInvariant
  BY MoneyInitially DEF WithdrawInit, WithdrawInvariant
<1>2. WithdrawInvariant /\ [WithdrawNext]_withdrawVars => WithdrawInvariant'
  BY MoneyStep, LateStep DEF WithdrawInvariant, MoneyInvariant
<1> QED
  BY <1>1, <1>2, PTL DEF WithdrawSpec

(***************************************************************************)
(* What left the wallet of a user is in escrow, at the gateway, or back.   *)
(***************************************************************************)
THEOREM NothingGetsLost == WithdrawSpec => []NothingLost
<1>1. WithdrawInvariant => NothingLost
  BY HeldOrCredited DEF WithdrawInvariant
<1> QED
  BY <1>1, WithdrawSound, PTL

(***************************************************************************)
(* Only a withdrawal that its handler has stopped waiting for is both      *)
(* refunded and paid.                                                      *)
(***************************************************************************)
THEOREM OnlyLateRefundsTwice == WithdrawSpec => []TwiceOnlyIfLate
<1>1. WithdrawInvariant => TwiceOnlyIfLate
  BY TakenOrLate DEF WithdrawInvariant
<1> QED
  BY <1>1, WithdrawSound, PTL
=============================================================================
