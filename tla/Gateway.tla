------------------------------ MODULE Gateway -------------------------------
(***************************************************************************)
(* The token gateway: packages/gateway/src/index.ts.  Accounts are paid in *)
(* by deposits, each under a unique reference, and paid out by the usage   *)
(* of chat completions that are admitted while the balance is positive and *)
(* charged when the upstream answer is in.                                 *)
(*                                                                         *)
(* The handlers run on one JavaScript thread and touch the database        *)
(* synchronously, so between two awaits a handler runs alone; but its two  *)
(* statements (the row, then the balance) are separate commits, and the    *)
(* process may die between them.  "writing" is the second statement still  *)
(* to run.                                                                 *)
(***************************************************************************)
EXTENDS Integers, FiniteSetsExt

CONSTANTS
  Accounts,    \* user ids with or without an account
  Refs,        \* references of deposits
  Requests,    \* chat completion requests the gateway may have in flight
  Costs,       \* what a completion may cost
  Deposits,    \* the amounts a deposit may name: a number, not necessarily positive
  MaxSpent,    \* BOUND: no completion is admitted once usage has reached it
  MaxCrashes,  \* BOUND: how often the process dies
  Nothing      \* model value: no row, no request, no pending statement

ASSUME GatewayAssumption ==
  /\ IsFiniteSet(Accounts) /\ IsFiniteSet(Refs) /\ IsFiniteSet(Requests)
  /\ Costs \subseteq Nat /\ IsFiniteSet(Costs)
  /\ Deposits \subseteq Int /\ IsFiniteSet(Deposits)
  /\ MaxSpent \in Nat /\ MaxCrashes \in Nat
  /\ Nothing \notin Accounts /\ Nothing \notin Int /\ Nothing \notin [user : Accounts, usd : Int]

VARIABLES
  account,   \* account[u]: balance_usd of the account of u, or Nothing
  deposit,   \* deposit[r]: [user, usd] of the deposits row with reference r, or Nothing
  usage,     \* usage[u]: sum of cost_usd of the usage_events of u
  chat,      \* chat[q]: the user of the admitted request q, or Nothing
  writing,   \* [user, usd] still to be added to a balance, or Nothing
  crashes

gatewayVars == <<account, deposit, usage, chat, writing, crashes>>

GatewayInit ==
  /\ account = [u \in Accounts |-> Nothing]
  /\ deposit = [r \in Refs |-> Nothing]
  /\ usage = [u \in Accounts |-> 0]
  /\ chat = [q \in Requests |-> Nothing]
  /\ writing = Nothing
  /\ crashes = 0

HasAccount(u) == account[u] # Nothing
ExistingOrNew(u) == IF HasAccount(u) THEN account[u] ELSE 0
NeverKnown(r) == FALSE   \* mutant: references are not unique
Known(r) == deposit[r] # Nothing
NoLimit(u) == HasAccount(u)   \* mutant: no 402
Solvent(u) == HasAccount(u) /\ account[u] > 0
Charge(cost) == cost

\* POST /accounts: get or create.
CreateAccount(u) ==
  /\ writing = Nothing
  /\ account' = [account EXCEPT ![u] = ExistingOrNew(u)]
  /\ UNCHANGED <<deposit, usage, chat, writing, crashes>>

\* POST /accounts/:user/deposit: any number will do; a reference seen before is
\* answered with the deposit it named and changes nothing.
Deposit(u, r, usd) ==
  /\ writing = Nothing
  /\ IF HasAccount(u) /\ ~Known(r)
       THEN /\ deposit' = [deposit EXCEPT ![r] = [user |-> u, usd |-> usd]]
            /\ writing' = [user |-> u, usd |-> usd]
       ELSE UNCHANGED <<deposit, writing>>
  /\ UNCHANGED <<account, usage, chat, crashes>>

\* The second statement of a deposit or of recordUsage.
UpdateBalance ==
  /\ writing # Nothing
  /\ account' = [account EXCEPT ![writing.user] = @ + writing.usd]
  /\ writing' = Nothing
  /\ UNCHANGED <<deposit, usage, chat, crashes>>

\* POST /v1/chat/completions up to the upstream call: 402 unless the balance is positive.
Admit(q, u) ==
  /\ writing = Nothing
  /\ chat[q] = Nothing
  /\ Solvent(u)
  /\ usage[u] < MaxSpent
  /\ chat' = [chat EXCEPT ![q] = u]
  /\ UNCHANGED <<account, deposit, usage, writing, crashes>>

\* recordUsage, once the answer (or the end of the scanned stream) is there.
RecordUsage(q, cost) ==
  /\ writing = Nothing
  /\ chat[q] # Nothing
  /\ usage' = [usage EXCEPT ![chat[q]] = @ + Charge(cost)]
  /\ writing' = [user |-> chat[q], usd |-> -Charge(cost)]
  /\ chat' = [chat EXCEPT ![q] = Nothing]
  /\ UNCHANGED <<account, deposit, crashes>>

\* An upstream answer without a usage field, or a failed upstream call, costs nothing.
NoUsage(q) ==
  /\ writing = Nothing
  /\ chat[q] # Nothing
  /\ chat' = [chat EXCEPT ![q] = Nothing]
  /\ UNCHANGED <<account, deposit, usage, writing, crashes>>

\* The process dies: committed rows stay, the rest is gone.
Crash ==
  /\ crashes < MaxCrashes
  /\ crashes' = crashes + 1
  /\ writing' = Nothing
  /\ chat' = [q \in Requests |-> Nothing]
  /\ UNCHANGED <<account, deposit, usage>>

GatewayNext ==
  \/ \E u \in Accounts :
       \/ CreateAccount(u)
       \/ \E r \in Refs, usd \in Deposits : Deposit(u, r, usd)
       \/ \E q \in Requests : Admit(q, u)
  \/ \E q \in Requests : NoUsage(q) \/ \E c \in Costs : RecordUsage(q, c)
  \/ UpdateBalance
  \/ Crash

GatewaySpec == GatewayInit /\ [][GatewayNext]_gatewayVars

-----------------------------------------------------------------------------
GatewayTypeOK ==
  /\ account \in [Accounts -> Int \union {Nothing}]
  /\ deposit \in [Refs -> [user : Accounts, usd : Int] \union {Nothing}]
  /\ usage \in [Accounts -> Nat]
  /\ chat \in [Requests -> Accounts \union {Nothing}]
  /\ writing \in [user : Accounts, usd : Int] \union {Nothing}
  /\ crashes \in 0 .. MaxCrashes

DepositsOf(u) == {r \in Refs : deposit[r] # Nothing /\ deposit[r].user = u}
Deposited(u) == SumFunction([r \in DepositsOf(u) |-> deposit[r].usd])

\* What deposits of a negative amount have taken from an account.
Size(n) == IF n < 0 THEN -n ELSE n
TakenBack(u) == SumFunction([r \in DepositsOf(u) |-> IF deposit[r].usd < 0 THEN Size(deposit[r].usd) ELSE 0])

Pending(u) == IF writing # Nothing /\ writing.user = u THEN writing.usd ELSE 0

\* How far the books of an account are off.
Off(u) == Deposited(u) - usage[u] - account[u] - Pending(u)
Distance(u) == Size(Off(u))

LargestWrite == Max(Costs \union {Size(usd) : usd \in Deposits} \union {0})

(***************************************************************************)
(* A crash between a row and its balance never shows up later: whatever    *)
(* clients retry, each crash leaves the books of all accounts off by at    *)
(* most the one write it interrupted.                                      *)
(***************************************************************************)
BooksOffByCrashes ==
  SumFunction([u \in {v \in Accounts : HasAccount(v)} |-> Distance(u)]) <= crashes * LargestWrite

(***************************************************************************)
(* A completion is admitted on a positive balance and charged when it      *)
(* ends, so an account goes below zero by no more than what the requests   *)
(* in flight at one time may cost - and what deposits of a negative amount *)
(* have taken from it, which the handler does not refuse.                  *)
(***************************************************************************)
OverdraftByInFlight ==
  \A u \in Accounts : HasAccount(u) =>
    account[u] + Pending(u) + TakenBack(u) > -Cardinality(Requests) * Max(Costs)
=============================================================================
