---------------------------- MODULE SessionInput ----------------------------
(***************************************************************************)
(* The durable inbox of sessions: core/src/session/input.ts with the       *)
(* projections of projector.ts and prompt of session.ts.                   *)
(*                                                                         *)
(* A prompt is admitted by one event and becomes a message of the history  *)
(* by a later one.  Each event commits with its projection, or not at all  *)
(* when the projection dies.  Clients and promoters run in several fibers  *)
(* and processes over one database and may stop between two statements.    *)
(* Deleting a session takes its rows along; a deleted session is not       *)
(* created again under its id.                                             *)
(***************************************************************************)
EXTENDS Integers

CONSTANTS
  Sessions,   \* sessions, each an aggregate of the event log
  Ids,        \* message ids, unique over all sessions
  Prompts,    \* contents of prompts
  Clients,    \* calls of sessions.prompt
  Runners,    \* drains that promote, at most one per session and process
  NoRow,      \* the select found nothing
  MaxSeq      \* BOUND: the number up to which inputs and messages are added

ASSUME SeqAssumption == MaxSeq \in Nat

VARIABLES
  seq,       \* seq[s]: the number of the last event of s; 0 is Created
  input,     \* input[id]: the row of session_input, or NoRow
  message,   \* message[id]: the row of session_message, or NoRow
  deleted,   \* the sessions that have been deleted
  client,    \* client[c]: a call of prompt
  promoter   \* promoter[r]: a promotion in progress

inputVars == <<seq, input, message, deleted, client, promoter>>

None == 0   \* promoted_seq is null
Deliveries == {"steer", "queue"}
Quiet == [at |-> "idle"]

Request == [session : Sessions, id : Ids, prompt : Prompts, delivery : Deliveries]

Init ==
  /\ seq = [s \in Sessions |-> 0]
  /\ input = [id \in Ids |-> NoRow]
  /\ message = [id \in Ids |-> NoRow]
  /\ deleted = {}
  /\ client = [c \in Clients |-> Quiet]
  /\ promoter = [r \in Runners |-> Quiet]

Admitted(id) == input[id] # NoRow
Pending(id) == Admitted(id) /\ input[id].promoted = None
Visible(id) == message[id] # NoRow

NextEvent(s) == seq' = [seq EXCEPT ![s] = @ + 1]
Room(s) == seq[s] < MaxSeq

InputRow(q, admitted, promoted) ==
  [session |-> q.session, prompt |-> q.prompt, delivery |-> q.delivery,
   admitted |-> admitted, promoted |-> promoted]

MessageRow(kind, s, n, prompt) == [kind |-> kind, session |-> s, seq |-> n, prompt |-> prompt]

-----------------------------------------------------------------------------
(***************************************************************************)
(* sessions.prompt: find the input, publish its admission when there is    *)
(* none, and answer with the stored row when it says the same.             *)
(***************************************************************************)
SamePrompt(row, q) == row.session = q.session /\ row.prompt = q.prompt   \* mutant: the delivery is not compared
Equivalent(row, q) == row.session = q.session /\ row.prompt = q.prompt /\ row.delivery = q.delivery

\* holder: the session whose row or message has the id
Conflict(q, holder) == [at |-> "conflict", request |-> q, holder |-> holder]

Answered(q, row, retry) ==
  IF Equivalent(row, q) THEN [at |-> "receipt", request |-> q, admitted |-> row.admitted, retry |-> retry]
                        ELSE Conflict(q, row.session)

Prompt(c, q) ==
  /\ client[c] = Quiet
  /\ q.session \notin deleted
  /\ client' = [client EXCEPT ![c] =
       IF Admitted(q.id) THEN Answered(q, input[q.id], TRUE) ELSE [at |-> "publish", request |-> q]]
  /\ UNCHANGED <<seq, input, message, deleted, promoter>>

Insertable(id) == ~Admitted(id)

PublishAdmitted(c) ==
  LET q == client[c].request
      row == InputRow(q, seq[q.session] + 1, None) IN
  /\ client[c].at = "publish"
  /\ \/ /\ ~Visible(q.id) /\ Insertable(q.id) /\ Room(q.session) /\ q.session \notin deleted
        /\ NextEvent(q.session)
        /\ input' = [input EXCEPT ![q.id] = row]
        /\ client' = [client EXCEPT ![c] = Answered(q, row, FALSE)]
     \/ \* the projection dies: the row somebody else admitted answers
        /\ Admitted(q.id)
        /\ client' = [client EXCEPT ![c] = Answered(q, input[q.id], TRUE)]
        /\ UNCHANGED <<seq, input>>
     \/ /\ Visible(q.id) /\ ~Admitted(q.id)
        /\ client' = [client EXCEPT ![c] = Conflict(q, message[q.id].session)]
        /\ UNCHANGED <<seq, input>>
     \/ \* the row would refer to a session that is gone: the call dies
        /\ q.session \in deleted /\ ~Visible(q.id) /\ ~Admitted(q.id)
        /\ client' = [client EXCEPT ![c] = Quiet]
        /\ UNCHANGED <<seq, input>>
  /\ UNCHANGED <<message, deleted, promoter>>

\* The call returns, or its client goes away.
Return(c) ==
  /\ client[c] # Quiet
  /\ client' = [client EXCEPT ![c] = Quiet]
  /\ UNCHANGED <<seq, input, message, deleted, promoter>>

-----------------------------------------------------------------------------
(***************************************************************************)
(* Other writers of message ids.  The guard of the projector refuses an    *)
(* event that would take the id of an admitted input, when reservedID      *)
(* knows it for one that takes an id.  It does not know the update of the  *)
(* context and the end of a compaction, "context" here: their messages may *)
(* take the id of an input that is pending.                                *)
(***************************************************************************)
OtherKinds == {"other", "context"}

NotReserved(kind, id) == FALSE   \* mutant: guardReservedID is not installed
Reserved(kind, id) == kind # "context" /\ Admitted(id)

OtherMessage(s, id, kind) ==
  /\ s \notin deleted
  /\ ~Reserved(kind, id) /\ ~Visible(id) /\ Room(s)
  /\ NextEvent(s)
  /\ message' = [message EXCEPT ![id] = MessageRow(kind, s, seq[s] + 1, NoRow)]
  /\ UNCHANGED <<input, deleted, client, promoter>>

LegacyPending(q, n) == InputRow(q, n, None)   \* mutant: promoted_seq is left null
LegacyRow(q, n) == InputRow(q, n, n)

\* The shadow of a prompt that is already visible in the first version.
LegacyPrompted(q) ==
  /\ q.session \notin deleted
  /\ ~Reserved("user", q.id) /\ ~Visible(q.id) /\ Insertable(q.id) /\ Room(q.session)
  /\ NextEvent(q.session)
  /\ input' = [input EXCEPT ![q.id] = LegacyRow(q, seq[q.session] + 1)]
  /\ message' = [message EXCEPT ![q.id] = MessageRow("user", q.session, seq[q.session] + 1, q.prompt)]
  /\ UNCHANGED <<deleted, client, promoter>>

\* The row of the session is deleted, and with it what refers to it; the log
\* goes next, so that the numbers of the session mean nothing any more.
KeepsRows(rows, s) == rows   \* mutant: the foreign keys are off
DropRows(rows, s) == [id \in Ids |-> IF rows[id] # NoRow /\ rows[id].session = s THEN NoRow ELSE rows[id]]

Delete(s) ==
  /\ s \notin deleted
  /\ deleted' = deleted \union {s}
  /\ input' = DropRows(input, s)
  /\ message' = DropRows(message, s)
  /\ UNCHANGED <<seq, client, promoter>>

-----------------------------------------------------------------------------
(***************************************************************************)
(* Promotion before a provider turn: the cutoff is read first, a queue     *)
(* promotion takes the oldest queued input, and the steers up to the       *)
(* cutoff follow, each row by an event of its own.                         *)
(***************************************************************************)
PendingOf(s, delivery) == {id \in Ids : Pending(id) /\ input[id].session = s /\ input[id].delivery = delivery}

\* The first of ids in the order of admission; an order by admitted_seq is
\* the choice of the oldest that is left.
Newest(ids) == {id \in ids : \A i \in ids : input[i].admitted <= input[id].admitted}   \* mutant: desc
Oldest(ids) == {id \in ids : \A i \in ids : input[id].admitted <= input[i].admitted}

ReadCutoff(r, s, promotion) ==
  /\ promoter[r] = Quiet /\ s \notin deleted
  /\ promoter' = [promoter EXCEPT ![r] =
       [at |-> promotion, session |-> s, cutoff |-> seq[s], rows |-> {}]]
  /\ UNCHANGED <<seq, input, message, deleted, client>>

ReadQueued(r) ==
  /\ promoter[r].at = "queue"
  /\ promoter' = [promoter EXCEPT ![r] =
       [@ EXCEPT !.at = "opening", !.rows = Oldest(PendingOf(promoter[r].session, "queue"))]]
  /\ UNCHANGED <<seq, input, message, deleted, client>>

UpTo(id, n) == input[id].admitted <= n

ReadSteers(r) ==
  LET steers == {id \in PendingOf(promoter[r].session, "steer") : UpTo(id, promoter[r].cutoff)} IN
  /\ promoter[r].at = "steer" \/ (promoter[r].at = "opening" /\ promoter[r].rows = {})
  /\ promoter' = [promoter EXCEPT ![r] = [@ EXCEPT !.at = "steering", !.rows = steers]]
  /\ UNCHANGED <<seq, input, message, deleted, client>>

Publishing(r) == promoter[r].at \in {"opening", "steering"} /\ promoter[r].rows # {}

\* projectPromoted and insertMessage, in the transaction of the event
Publish(r, id) ==
  LET s == promoter[r].session
      rest == promoter[r].rows \ {id}
      mine == Pending(id) /\ input[id].session = s
  IN
  /\ \/ /\ mine /\ ~Visible(id)
        /\ NextEvent(s)
        /\ input' = [input EXCEPT ![id] = [@ EXCEPT !.promoted = seq[s] + 1]]
        /\ message' = [message EXCEPT ![id] = MessageRow("user", s, seq[s] + 1, input[id].prompt)]
        /\ promoter' = [promoter EXCEPT ![r] = [@ EXCEPT !.rows = rest]]
     \/ \* another drain was first: the conflict is tolerated
        /\ Admitted(id) /\ ~Pending(id)
        /\ promoter' = [promoter EXCEPT ![r] = [@ EXCEPT !.rows = rest]]
        /\ UNCHANGED <<seq, input, message>>
     \/ \* a message has the id, or the row went with its session
        /\ (mine /\ Visible(id)) \/ ~Admitted(id) \/ (Pending(id) /\ ~mine)
        /\ promoter' = [promoter EXCEPT ![r] = [@ EXCEPT !.at = "died"]]
        /\ UNCHANGED <<seq, input, message>>
  /\ UNCHANGED <<deleted, client>>

\* In the order they were read in; rows that went with their session say no
\* more what that was, and any of them is next.
NextRows(r) == IF promoter[r].session \in deleted THEN promoter[r].rows ELSE Oldest(promoter[r].rows)

PublishPromoted(r) == Publishing(r) /\ \E id \in NextRows(r) : Publish(r, id)

Promoted(r) == promoter[r].at = "steering" /\ promoter[r].rows = {}

\* The promotion is over, is interrupted, or its process dies.
StopPromoting(r) ==
  /\ promoter[r] # Quiet
  /\ promoter' = [promoter EXCEPT ![r] = Quiet]
  /\ UNCHANGED <<seq, input, message, deleted, client>>

-----------------------------------------------------------------------------
Next ==
  \/ \E c \in Clients : (\E q \in Request : Prompt(c, q)) \/ PublishAdmitted(c) \/ Return(c)
  \/ \E q \in Request : LegacyPrompted(q)
  \/ \E s \in Sessions : Delete(s) \/ \E id \in Ids, kind \in OtherKinds : OtherMessage(s, id, kind)
  \/ \E r \in Runners :
       \/ \E s \in Sessions, d \in Deliveries : ReadCutoff(r, s, d)
       \/ ReadQueued(r) \/ ReadSteers(r) \/ PublishPromoted(r) \/ StopPromoting(r)

Spec == Init /\ [][Next]_inputVars

-----------------------------------------------------------------------------
InputRecord ==
  [session : Sessions, prompt : Prompts, delivery : Deliveries,
   admitted : Nat, promoted : Nat]

MessageRecord ==
  [kind : {"user"} \union OtherKinds, session : Sessions, seq : Nat, prompt : Prompts \union {NoRow}]

ASSUME NoRowAssumption == NoRow \notin InputRecord /\ NoRow \notin MessageRecord

ClientRecord ==
  [at : {"publish"}, request : Request]
    \union [at : {"conflict"}, request : Request, holder : Sessions]
    \union [at : {"receipt"}, request : Request, admitted : Nat, retry : BOOLEAN]

PromoterRecord ==
  [at : {"steer", "queue", "opening", "steering", "died"}, session : Sessions,
   cutoff : Nat, rows : SUBSET Ids]

TypeOK ==
  /\ seq \in [Sessions -> Nat]
  /\ input \in [Ids -> InputRecord \union {NoRow}]
  /\ message \in [Ids -> MessageRecord \union {NoRow}]
  /\ deleted \subseteq Sessions
  /\ client \in [Clients -> ClientRecord \union {Quiet}]
  /\ promoter \in [Runners -> PromoterRecord \union {Quiet}]

(***************************************************************************)
(* The inbox and the history agree: an input is promoted exactly when its  *)
(* message is in the history of its session, with the input's content and  *)
(* the number of the event that promoted it.  What else the history has    *)
(* under the id of an input that is pending is a message that escapes      *)
(* guardReservedID.                                                        *)
(***************************************************************************)
IsMessageOf(m, row) ==
  m.kind = "user" /\ m.session = row.session /\ m.prompt = row.prompt /\ m.seq = row.promoted

HistoryMatchesInbox ==
  \A id \in Ids :
    IF Admitted(id) /\ ~Pending(id) THEN Visible(id) /\ IsMessageOf(message[id], input[id])
    ELSE Visible(id) => message[id].kind \in IF Admitted(id) THEN {"context"} ELSE OtherKinds

(***************************************************************************)
(* Within a session steers are promoted in the order of their admission,   *)
(* and so are queued inputs (specs/v2/session.md:153-154, "in durable      *)
(* admission order", and 165, "FIFO"), even when drains of several         *)
(* processes promote from overlapping reads and are interrupted half way.  *)
(***************************************************************************)
Promotes(id) == Admitted(id) /\ input[id].admitted < input[id].promoted

PromotedInOrder ==
  \A i, j \in Ids :
    /\ Admitted(i) /\ Promotes(j)
    /\ input[i].session = input[j].session /\ input[i].delivery = input[j].delivery
    /\ input[i].admitted < input[j].admitted
    => ~Pending(i) /\ input[i].promoted < input[j].promoted

(***************************************************************************)
(* A receipt stands for a stored input that says what the client asked,    *)
(* and only an id that means something else is answered by a conflict:     *)
(* concurrent exact retries all succeed.  Both hold until the session that *)
(* has the row is deleted.                                                 *)
(***************************************************************************)
Says(row, q) == row.session = q.session /\ row.prompt = q.prompt /\ row.delivery = q.delivery

ReceiptsHold ==
  \A c \in Clients :
    LET q == client[c].request IN
    /\ client[c].at = "receipt" /\ q.session \notin deleted =>
         Admitted(q.id) /\ Says(input[q.id], q) /\ input[q.id].admitted = client[c].admitted
    /\ client[c].at = "conflict" /\ client[c].holder \notin deleted =>
         IF Admitted(q.id) THEN input[q.id].session = client[c].holder /\ ~Says(input[q.id], q)
                           ELSE Visible(q.id) /\ message[q.id].session = client[c].holder

(***************************************************************************)
(* A promotion dies only under a session that is deleted, or of a message  *)
(* that escaped guardReservedID, which then fails every later drain of the *)
(* session.  No other writer, however it races with admissions and drains, *)
(* poisons promotion (core/test/session-prompt.test.ts:496).               *)
(***************************************************************************)
Poisoned(id) == Pending(id) /\ Visible(id) /\ message[id].kind = "context"

DiesOnlyPoisoned ==
  [][\A r \in Runners :
       promoter[r].at # "died" /\ promoter'[r].at = "died" =>
         promoter[r].session \in deleted \/ \E id \in promoter[r].rows : Poisoned(id)]_inputVars

(***************************************************************************)
(* What is admitted stays admitted as it is, is promoted at most once, and *)
(* a message of the history is never replaced, until the session they are  *)
(* of is deleted, when they go.                                            *)
(***************************************************************************)
GoesWith(s) == s \in deleted' /\ s \notin deleted

LifecycleForward(id) ==
  /\ Admitted(id) =>
       \/ GoesWith(input[id].session) /\ ~Admitted(id)'
       \/ /\ Admitted(id)'
          /\ input'[id] = [input[id] EXCEPT !.promoted = input'[id].promoted]
          /\ Pending(id) \/ input'[id] = input[id]
  /\ Visible(id) =>
       \/ GoesWith(message[id].session) /\ ~Visible(id)'
       \/ message'[id] = message[id]

AdmissionStands == [][\A id \in Ids : LifecycleForward(id)]_inputVars
=============================================================================
