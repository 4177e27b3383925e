------------------------- MODULE WithdrawalContract -------------------------
(***************************************************************************)
(* What the payout service promises of the credits in a wallet: a          *)
(* withdrawal takes credits the user has out of the wallet and holds them, *)
(* and each withdrawal is settled once, by being paid or by being returned *)
(* to the wallet it came from.  Nothing else moves held credits, and no    *)
(* step spends credits that are not there.                                 *)
(***************************************************************************)
EXTENDS Integers

CONSTANTS Users, Withdrawals

VARIABLES
  funds,   \* funds[u]: credits the user may spend
  held,    \* held[w]: credits withdrawal w has taken out of the wallet
  fate     \* fate[w]: "unused", "held", "paid" or "returned"

contractVars == <<funds, held, fate>>

Init ==
  /\ funds = [u \in Users |-> 0]
  /\ held = [w \in Withdrawals |-> 0]
  /\ fate = [w \in Withdrawals |-> "unused"]

Earn(u) ==
  /\ funds'[u] >= funds[u]
  /\ funds' = [funds EXCEPT ![u] = funds'[u]]
  /\ UNCHANGED <<held, fate>>

Spend(u) ==
  /\ funds'[u] \in 0 .. funds[u]
  /\ funds' = [funds EXCEPT ![u] = funds'[u]]
  /\ UNCHANGED <<held, fate>>

Hold(u, w) ==
  /\ fate[w] = "unused"
  /\ \E a \in 1 .. funds[u] :
       /\ funds' = [funds EXCEPT ![u] = @ - a]
       /\ held' = [held EXCEPT ![w] = a]
  /\ fate' = [fate EXCEPT ![w] = "held"]

Pay(w) ==
  /\ fate[w] = "held"
  /\ fate' = [fate EXCEPT ![w] = "paid"]
  /\ UNCHANGED <<funds, held>>

Return(u, w) ==
  /\ fate[w] = "held"
  /\ fate' = [fate EXCEPT ![w] = "returned"]
  /\ funds' = [funds EXCEPT ![u] = @ + held[w]]
  /\ UNCHANGED held

Next ==
  \/ \E u \in Users : Earn(u) \/ Spend(u)
  \/ \E u \in Users, w \in Withdrawals : Hold(u, w) \/ Return(u, w)
  \/ \E w \in Withdrawals : Pay(w)

Spec == Init /\ [][Next]_contractVars
=============================================================================
