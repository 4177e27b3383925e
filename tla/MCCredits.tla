----------------------------- MODULE MCCredits ------------------------------
(***************************************************************************)
(* What users are paid and what users permit, for TLC: withdrawals with    *)
(* one call at a time and with calls that interleave, rewards for ads, the *)
(* pacing of ads, the books of the gateway; and requests for permission,   *)
(* when this service alone saves rules, when the project's other services  *)
(* save and forget the rule that two requests are about, or when their     *)
(* session is deleted or their resource denied (one reply at a time in     *)
(* these two).  A behaviour is about one of them, chosen at the start.     *)
(***************************************************************************)
EXTENDS Payout, Rewards, AdGate, Gateway, Permission, TLC

VARIABLE part

payoutOnly == <<withdrawal>>
rewardOnly == <<impression, claim, yesterday, day, paid, raced, orphaned>>
creditVars == <<payoutVars, rewardOnly, adVars, gatewayVars, permissionVars, part>>

\* Bounds of the parts that share a constant.
EarnedUpTo(n) == \A u \in Users : \A i \in DOMAIN wallet'[u] : wallet'[u][i].earned <= n
WithdrawalsUpTo(n) == Cardinality({w \in Withdrawals : withdrawal'[w] # NoWithdrawal}) <= n

\* A deposit pays in or, with a negative amount, takes back.
PaysOrTakes == {1, -1}

\* Rules come from replies to this service, and stay.
SavedHere == saved # saved' => saved \subseteq saved' /\ \E p \in Repliers : replier'[p] # replier[p]

Made == {q \in Asks : request[q].at # "new"}
\* In place of a symmetry: the request made first is of one session, for one resource.
InOrder ==
  Made # {} => /\ \E q \in Made : request[q].session = (CHOOSE session \in SessionIds : TRUE)
               /\ \E q \in Made : request[q].resource = (CHOOSE r \in Resources : TRUE)
Keep == \A q \in Made : request[q].save
Alike ==
  \A q \in Made :
    /\ saved \subseteq {request[q].resource}
    /\ \A r \in Made : request[q].session = request[r].session /\ request[q].resource = request[r].resource

OneReply == \A p, r \in Repliers : replier[p] # NoReply /\ replier[r] # NoReply => p = r

CreditsInit ==
  /\ Init /\ RewardInit /\ AdInit /\ GatewayInit /\ PermissionInit
  /\ part \in {"serial", "concurrent", "rewards", "ads", "gateway", "permission", "project", "losses"}
  /\ part # "ads" => clock = 0

CreditsNext ==
  /\ UNCHANGED part
  /\ \/ /\ part = "serial"
        /\ Next /\ Alone'
        /\ EarnedUpTo(4)
        /\ UNCHANGED <<rewardOnly, adVars, gatewayVars, permissionVars>>
     \/ /\ part = "concurrent"
        /\ Next
        /\ WithdrawalsUpTo(1)
        /\ EarnedUpTo(3)
        /\ UNCHANGED <<rewardOnly, adVars, gatewayVars, permissionVars>>
     \/ /\ part = "rewards"
        /\ RewardNext
        /\ UNCHANGED <<payoutOnly, adVars, gatewayVars, permissionVars>>
     \/ /\ part = "ads"
        /\ AdNext
        /\ UNCHANGED <<payoutVars, rewardOnly, gatewayVars, permissionVars>>
     \/ /\ part = "gateway"
        /\ GatewayNext
        /\ UNCHANGED <<payoutVars, rewardOnly, adVars, permissionVars>>
     \/ /\ part \in {"permission", "project", "losses"}
        /\ PermissionNext /\ InOrder'
        /\ part = "permission" => SavedHere /\ Keep' /\ Lost' = 0
        /\ part = "project" => Alike' /\ OneReply' /\ Lost' = 0
        /\ part = "losses" => SavedHere /\ Alike' /\ OneReply'
        /\ UNCHANGED <<payoutVars, rewardOnly, adVars, gatewayVars>>

CreditsSpec == CreditsInit /\ [][CreditsNext]_creditVars

\* Asks has the members of Claims, and Repliers those of Impressions.
Symmetry == Permutations(Claims) \union Permutations(Impressions)

(***************************************************************************)
(* One call at a time keeps the contract of withdrawals, step by step.     *)
(***************************************************************************)
SerialContract == Contract!Init /\ [][part = "serial" => [Contract!Next]_(Contract!contractVars)]_creditVars
=============================================================================
