----------------------------- MODULE DurableLog -----------------------------
(***************************************************************************)
(* What the event log promises of an aggregate: a history that grows by    *)
(* one event at its end or is forgotten whole, under an owner that only a  *)
(* claim replaces.  Nothing in a history is ever rewritten, and a step     *)
(* touches the history of one aggregate.                                   *)
(***************************************************************************)
EXTENDS Naturals, Sequences

CONSTANTS Aggregates, Owners, NoOwner

VARIABLES
  history,  \* history[a]: the events of a, oldest first
  owner     \* owner[a]: who may extend the history from outside

durableVars == <<history, owner>>

Init ==
  /\ history = [a \in Aggregates |-> <<>>]
  /\ owner = [a \in Aggregates |-> NoOwner]

\* The history grows by one event; an unowned aggregate may find its owner.
Extend(a) ==
  /\ \A b \in Aggregates \ {a} : history'[b] = history[b] /\ owner'[b] = owner[b]
  /\ Len(history'[a]) = Len(history[a]) + 1
  /\ \A i \in DOMAIN history[a] : history'[a][i] = history[a][i]
  /\ owner[a] # NoOwner => owner'[a] = owner[a]

\* An existing history gets the given owner.
Own(a, o) ==
  /\ history[a] # <<>>
  /\ owner' = [owner EXCEPT ![a] = o]
  /\ UNCHANGED history

Forget(a) ==
  /\ history' = [history EXCEPT ![a] = <<>>]
  /\ owner' = [owner EXCEPT ![a] = NoOwner]

Next == \E a \in Aggregates : Extend(a) \/ Forget(a) \/ \E o \in Owners : Own(a, o)

Spec == Init /\ [][Next]_durableVars
=============================================================================
