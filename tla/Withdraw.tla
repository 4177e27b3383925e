------------------------------ MODULE Withdraw ------------------------------
(***************************************************************************)
(* Redeeming credits for gateway balance: the withdraw handler of          *)
(* packages/opencode/src/server/routes/instance/httpapi/handlers/          *)
(* codefree.ts, between the payout service (module Payout) and the gateway *)
(* (module Gateway), with the network between them.                        *)
(*                                                                         *)
(* The handler escrows the credits, moves the withdrawal to processing,    *)
(* posts /accounts and then the deposit under the withdrawal's id, and     *)
(* completes the withdrawal; when either request rejects or takes longer   *)
(* than its timeout it fails the withdrawal, which refunds it.  A request  *)
(* given up by the handler may still be on its way and be handled later.   *)
(***************************************************************************)
EXTENDS Payout

CONSTANTS
  Requests, Costs, MaxSpent, MaxCrashes, Nothing   \* see Gateway

ASSUME SettlementAssumption ==
  /\ IsFiniteSet(Withdrawals)
  /\ Nothing \notin Int /\ Nothing \notin [user : Users, usd : Int]

VARIABLES
  account, deposit, usage, chat, writing, crashes,   \* see Gateway
  sent,      \* requests under way to the gateway: [kind, ref]
  answers,   \* answers under way to the handler: [kind, ref, ok]
  late,      \* history: the withdrawals whose handler has stopped waiting
  dead       \* history: the withdrawals whose handler has died

GW == INSTANCE Gateway WITH Accounts <- Users, Refs <- Withdrawals, Deposits <- Amounts

gwVars == <<account, deposit, usage, chat, writing, crashes>>
netVars == <<sent, answers>>
historyVars == <<late, dead>>
withdrawVars == <<payoutVars, gwVars, netVars, historyVars>>

WithdrawInit ==
  /\ Init
  /\ GW!GatewayInit
  /\ sent = {}
  /\ answers = {}
  /\ late = {} /\ dead = {}

Message(kind, w) == [kind |-> kind, ref |-> w]
Answer(kind, w, ok) == [kind |-> kind, ref |-> w, ok |-> ok]

-----------------------------------------------------------------------------
(***************************************************************************)
(* The handler.                                                            *)
(***************************************************************************)
LocalOnly == UNCHANGED <<gwVars, netVars>>

\* payout.requestWithdrawal(userId, amount, "gateway")
Begin(c) ==
  /\ \/ \E u \in Users, a \in Amounts : RequestWithdrawal(c, u, a)
     \/ \E w \in Withdrawals : Escrow(c, w, "gateway", "escrowed")
  /\ LocalOnly

\* payout.processWithdrawal, then the POST to /accounts is sent.
ReadProcess(c) ==
  /\ call[c].at = "escrowed"
  /\ ReadWithdrawal(c, call[c].ref, "process")
  /\ LocalOnly

PostAccounts(c) ==
  /\ ProcessWithdrawal(c, "accounts")
  /\ sent' = sent \union {Message("accounts", call[c].ref)}
  /\ UNCHANGED <<gwVars, answers>>

\* Any answer of /accounts will do; the deposit is posted next.
PostDeposit(c) ==
  LET w == call[c].ref IN
  /\ call[c].at = "accounts"
  /\ \E m \in answers :
       /\ m.kind = "accounts" /\ m.ref = w
       /\ answers' = answers \ {m}
  /\ sent' = sent \union {Message("deposit", w)}
  /\ GoOn(c, "deposit", w)
  /\ UNCHANGED <<wallet, ledger, withdrawal, gwVars>>

AcceptOnly200(ok) == "rejected"   \* mutant: tests for status 200 where 201 is sent
AfterDeposit(ok) == IF ok THEN "deposited" ELSE "rejected"

DepositAnswered(c) ==
  LET w == call[c].ref IN
  /\ call[c].at = "deposit"
  /\ \E m \in answers :
       /\ m.kind = "deposit" /\ m.ref = w
       /\ answers' = answers \ {m}
       /\ GoOn(c, AfterDeposit(m.ok), w)
  /\ UNCHANGED <<wallet, ledger, withdrawal, gwVars, sent>>

\* The fetch rejects: no connection, a broken one, or AbortSignal.timeout.
DropAnswers(w) == answers' = {m \in answers : m.ref # w}

OnlyAccountsTimesOut == {"accounts"}   \* mutant: the deposit has no timeout
TimesOut == {"accounts", "deposit"}
ForgetsRefund == "idle"   \* mutant: a timeout is answered without failWithdrawal
AfterTimeout == "rejected"

GiveUp(c) ==
  /\ call[c].at \in TimesOut
  /\ GoOn(c, AfterTimeout, call[c].ref)
  /\ DropAnswers(call[c].ref)
  /\ late' = late \union {call[c].ref}
  /\ UNCHANGED <<wallet, ledger, withdrawal, gwVars, sent, dead>>

\* payout.completeWithdrawal
Complete(c) ==
  /\ \/ /\ call[c].at = "deposited"
        /\ ReadWithdrawal(c, call[c].ref, "complete")
     \/ CompleteWithdrawal(c)
  /\ LocalOnly

\* payout.failWithdrawal
Fail(c) ==
  /\ \/ /\ call[c].at = "rejected"
        /\ ReadWithdrawal(c, call[c].ref, "fail")
     \/ FailWithdrawal(c)
  /\ LocalOnly

\* The process of the handler dies: nothing picks its withdrawal up again.
Die(c) ==
  /\ Abandon(c)
  /\ DropAnswers(call[c].ref)
  /\ dead' = dead \union {call[c].ref}
  /\ UNCHANGED <<withdrawal, gwVars, sent, late>>

(***************************************************************************)
(* The gateway takes a request from the network.  A deposit is answered    *)
(* after its balance is written; an answer nobody waits for is dropped.    *)
(***************************************************************************)
Waiting(kind, w) == \E c \in Calls : call[c].at = kind /\ call[c].ref = w

Reply(kind, w, ok) ==
  answers' = IF Waiting(kind, w) THEN answers \union {Answer(kind, w, ok)} ELSE answers

ServeAccounts(w) ==
  /\ Message("accounts", w) \in sent
  /\ GW!CreateAccount(withdrawal[w].user)
  /\ sent' = sent \ {Message("accounts", w)}
  /\ Reply("accounts", w, TRUE)
  /\ UNCHANGED payoutVars

ServeDeposit(w) ==
  LET u == withdrawal[w].user IN
  /\ Message("deposit", w) \in sent
  /\ GW!Deposit(u, w, withdrawal[w].amount)
  /\ IF writing' = Nothing
       THEN /\ sent' = sent \ {Message("deposit", w)}
            /\ Reply("deposit", w, GW!HasAccount(u))
       ELSE UNCHANGED <<sent, answers>>
  /\ UNCHANGED payoutVars

FinishWrite ==
  /\ GW!UpdateBalance
  /\ \E w \in Withdrawals :
       /\ Message("deposit", w) \in sent
       /\ deposit[w] # Nothing
       /\ sent' = sent \ {Message("deposit", w)}
       /\ Reply("deposit", w, TRUE)
  /\ UNCHANGED payoutVars

\* A connection breaks before its request is handled.
Lose(m) ==
  /\ writing = Nothing
  /\ sent' = sent \ {m}
  /\ UNCHANGED <<payoutVars, gwVars, answers>>

\* The gateway dies, and every connection to it with it.
GatewayDies ==
  /\ GW!Crash
  /\ sent' = {}
  /\ UNCHANGED <<payoutVars, answers>>

Earn ==
  /\ \E u \in Users, t \in CreditTypes, a \in Amounts : CreditWallet(u, t, a)
  /\ UNCHANGED withdrawal
  /\ LocalOnly

Proceeds(c) ==
  ReadProcess(c) \/ PostAccounts(c) \/ PostDeposit(c) \/ DepositAnswered(c) \/ Complete(c) \/ Fail(c)

HandlerStep(c) == (Proceeds(c) /\ UNCHANGED historyVars) \/ GiveUp(c)

GatewayStep ==
  \/ \E w \in Withdrawals : ServeAccounts(w) \/ ServeDeposit(w)
  \/ FinishWrite

WithdrawNext ==
  \/ \E c \in Calls : HandlerStep(c) \/ Die(c)
  \/ /\ \/ Earn
        \/ \E c \in Calls : Begin(c)
        \/ GatewayStep
        \/ \E m \in sent : Lose(m)
        \/ GatewayDies
     /\ UNCHANGED historyVars

WithdrawSpec == WithdrawInit /\ [][WithdrawNext]_withdrawVars

\* A handler that can take a step takes it: its fetches answer or time out.
FairHandlers == \A c \in Calls : WF_withdrawVars(HandlerStep(c))
FairWithdrawSpec == WithdrawSpec /\ FairHandlers

-----------------------------------------------------------------------------
HandlerSteps ==
  {"idle", "escrow", "escrowed", "process", "accounts", "deposit", "deposited", "complete", "rejected", "fail"}

\* Types of the composition, and what every message refers to.
WithdrawTypeOK ==
  /\ \A c \in Calls : call[c].at \in HandlerSteps
  /\ withdrawal \in [Withdrawals -> WithdrawalRow \union {NoWithdrawal}]
  /\ GW!GatewayTypeOK
  /\ sent \subseteq [kind : {"accounts", "deposit"}, ref : {w \in Withdrawals : Exists(w)}]
  /\ answers \subseteq [kind : {"accounts", "deposit"}, ref : {w \in Withdrawals : Exists(w)}, ok : BOOLEAN]

(***************************************************************************)
(* Where the credits of a user are: in the wallet, in escrow, and as       *)
(* balance at the gateway (including the write the gateway is in).         *)
(***************************************************************************)
InWallet(u) == IF HasWallet(u) THEN Balance(u) ELSE 0
Earned(u) == IF HasWallet(u) THEN wallet[u][Found(u)].earned ELSE 0
InEscrow(S) == SumFunction([w \in S |-> withdrawal[w].amount])
HeldFor(u) == {w \in Withdrawals : Status(w) \in {"pending", "processing"} /\ withdrawal[w].user = u}
AtGateway(u) == IF GW!HasAccount(u) THEN account[u] + GW!Pending(u) ELSE 0

(***************************************************************************)
(* Lost requests, lost answers, timeouts and a gateway that dies between   *)
(* recording a deposit and crediting it never cost the user anything: what *)
(* left the wallet is in escrow, at the gateway, or back in the wallet.    *)
(***************************************************************************)
NothingLost ==
  \A u \in Users : InWallet(u) + InEscrow(HeldFor(u)) + AtGateway(u) >= Earned(u)

(***************************************************************************)
(* And they never hand out credits, with one exception that the code       *)
(* accepts: a deposit that lands although its handler has stopped waiting  *)
(* and refunds it.  An escrow whose deposit has landed is at the gateway.  *)
(***************************************************************************)
RefundedThoughLanded == {w \in late : Status(w) = "failed" /\ deposit[w] # Nothing}

TwiceOnlyIfLate ==
  \A u \in Users :
    InWallet(u) + InEscrow({w \in HeldFor(u) : deposit[w] = Nothing}) + AtGateway(u)
      <= Earned(u) + InEscrow(RefundedThoughLanded)

(***************************************************************************)
(* A withdrawal that a handler works on is completed or refunded, whatever *)
(* happens to the gateway and the network - unless that handler's process  *)
(* dies.                                                                   *)
(***************************************************************************)
Handled(w) == \E c \in Calls : call[c].ref = w

Settles == \A w \in Withdrawals : Handled(w) ~> (Status(w) \in Terminal \/ w \in dead)
=============================================================================
