--------------------------- MODULE MCSessionInput ---------------------------
(***************************************************************************)
(* The inbox of sessions for TLC.  A behaviour is about the inbox of one   *)
(* session that is not deleted, with calls and drains that interleave, or  *)
(* about the inboxes of several, one of which may be deleted, with one     *)
(* call and one drain at a time; which is chosen at the start.             *)
(***************************************************************************)
EXTENDS SessionInput, FiniteSets, TLC

VARIABLE part

inboxVars == <<inputVars, part>>

Home == CHOOSE s \in Sessions : TRUE

\* A message that escapes the guard does here what one that is guarded may do.
OneSession ==
  /\ \A id \in Ids : Visible(id) => message[id].kind # "other"
  /\ deleted = {}
  /\ \A s \in Sessions \ {Home} : seq[s] = 0
  /\ \A c \in Clients : client[c] # Quiet => client[c].request.session = Home
  /\ \A r \in Runners : promoter[r] # Quiet => promoter[r].session = Home

\* The sessions are alike: the first event is of Home, and one at most goes.
HomeFirst ==
  /\ (\E s \in Sessions : seq[s] > 0) => seq[Home] > 0
  /\ Cardinality(deleted) <= 1

\* A promotion with nothing left to do touches nothing, and stops before
\* anybody else goes on.
Over(r) == promoter[r].at = "died" \/ Promoted(r)
OverStops == \A r \in Runners : Over(r) => promoter'[r] = Quiet

OneAtATime ==
  /\ \A c, d \in Clients : client[c] # Quiet /\ client[d] # Quiet => c = d
  /\ \A q, r \in Runners : promoter[q] # Quiet /\ promoter[r] # Quiet => q = r

InboxInit == Init /\ part \in {"one", "several"}

InboxNext ==
  /\ Next
  /\ UNCHANGED part
  /\ OverStops
  /\ \/ part = "one" /\ OneSession'
     \/ part = "several" /\ OneAtATime' /\ HomeFirst'

InboxSpec == InboxInit /\ [][InboxNext]_inboxVars

Symmetry == Permutations(Ids) \union Permutations(Clients) \union Permutations(Runners)
=============================================================================
