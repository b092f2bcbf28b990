----------------------------- MODULE LiveIntent -----------------------------
(***************************************************************************)
(* The queue of live orders that wait for a person (packages/live): a      *)
(* person or an agent's signal proposes an intent, a person confirms or    *)
(* rejects it, and confirm sends the order to the broker.                  *)
(*                                                                         *)
(* Requests are served by threads of the API, each with a database session *)
(* of its own.  One reads the intent, tests its status, for a confirm      *)
(* waits for the broker, and commits from the row it read: nothing is      *)
(* written before the broker is asked, and nothing is locked.  Every       *)
(* request builds a broker of its own, so MiniqmtBroker's lock separates   *)
(* nobody.                                                                 *)
(***************************************************************************)
EXTENDS Naturals

CONSTANTS
  Intents,      \* rows of live_intents, created or still to be created
  Orders,       \* orders the broker can accept: the bound on them
  NoOrder,      \* no broker_order_id
  NoIntent,     \* no intent
  Threads,      \* threads that serve requests
  MaxRestarts   \* bound on the crashes of the API process

ASSUME NoOrderAssumption == NoOrder \notin Orders
ASSUME NoIntentAssumption == NoIntent \notin Intents
ASSUME RestartsAssumption == MaxRestarts \in Nat

VARIABLES
  status,     \* live_intents.status, "none" before the row exists
  orderId,    \* live_intents.broker_order_id
  placed,     \* at the broker: the intent each order was sent for
  request,    \* what each thread is serving
  restarts,   \* crashes so far
  disturbed   \* history: intents whose decision was contested or cut short

rowVars == <<status, orderId>>
vars    == <<rowVars, placed, request, restarts, disturbed>>

-----------------------------------------------------------------------------
Decided  == {"submitted", "failed", "rejected", "cancelled"}
Statuses == {"none", "pending_confirm"} \cup Decided

\* A thread waits for the broker (send), or is about to commit a decision.
Idle == [pc |-> "idle"]
Requests ==
  {Idle} \cup [pc : {"send"}, intent : Intents]
         \cup [pc : {"commit"}, intent : Intents, status : Decided,
               order : Orders \cup {NoOrder}]

TypeOK ==
  /\ status \in [Intents -> Statuses]
  /\ orderId \in [Intents -> Orders \cup {NoOrder}]
  /\ placed \in [Orders -> Intents \cup {NoIntent}]
  /\ request \in [Threads -> Requests]
  /\ restarts \in 0..MaxRestarts
  /\ disturbed \subseteq Intents

Init ==
  /\ status = [i \in Intents |-> "none"]
  /\ orderId = [i \in Intents |-> NoOrder]
  /\ placed = [o \in Orders |-> NoIntent]
  /\ request = [t \in Threads |-> Idle]
  /\ restarts = 0
  /\ disturbed = {}

-----------------------------------------------------------------------------
Serves(t, i) == request[t] # Idle /\ request[t].intent = i
InService(i) == \E t \in Threads : Serves(t, i)

OrdersOf(i) == {o \in Orders : placed[o] = i}

Decision(i, decision, order) ==
  [pc |-> "commit", intent |-> i, status |-> decision, order |-> order]

\* create_intent, for POST /intents and for propose_live alike: one insert
\* and one commit.  Neither asks whether the signal was proposed before.
Propose(i) ==
  /\ status[i] = "none"
  /\ status' = [status EXCEPT ![i] = "pending_confirm"]
  /\ UNCHANGED <<orderId, placed, request, restarts, disturbed>>

\* The guard with a failed intent let through.
PendingOrFailed(i) == status[i] \in {"pending_confirm", "failed"}

\* The guard that confirm, reject and cancel share.
Pending(i) == status[i] = "pending_confirm"

\* A request reads an intent; if another one is serving it, the two contest.
Take(t, i, next) ==
  /\ request[t] = Idle
  /\ Pending(i)
  /\ request' = [request EXCEPT ![t] = next]
  /\ disturbed' = IF InService(i) THEN disturbed \cup {i} ELSE disturbed
  /\ UNCHANGED <<rowVars, placed, restarts>>

Confirm(t, i) == Take(t, i, [pc |-> "send", intent |-> i])

\* reject and cancel have the whole decision in hand.
Reject(t, i) == Take(t, i, Decision(i, "rejected", NoOrder))
Cancel(t, i) == Take(t, i, Decision(i, "cancelled", NoOrder))

-----------------------------------------------------------------------------
(* submit_order, while the thread waits *)

Answer(t, decision, order) ==
  /\ request[t].pc = "send"
  /\ request' = [request EXCEPT ![t] = Decision(request[t].intent, decision, order)]
  /\ UNCHANGED <<rowVars, restarts, disturbed>>

\* The order reaches the broker.
Place(t, o) ==
  /\ placed[o] = NoIntent
  /\ placed' = [placed EXCEPT ![o] = request[t].intent]

BrokerAccepts(t) == \E o \in Orders : Answer(t, "submitted", o) /\ Place(t, o)

\* The refusal not looked at; and the id that came with it kept, too.
BrokerRefusesUnread(t) == Answer(t, "submitted", NoOrder) /\ UNCHANGED placed
BrokerRefusalStored(t) == Answer(t, "submitted", "-1") /\ UNCHANGED placed

\* result.status = "rejected".
BrokerRefuses(t) == Answer(t, "failed", NoOrder) /\ UNCHANGED placed

\* The call is made again after an exception.
BrokerRaisesRetried(t) ==
  /\ request[t].pc = "send"
  /\ \E o \in Orders : Place(t, o)
  /\ UNCHANGED <<rowVars, request, restarts, disturbed>>

\* submit_order raises: before the order (no client, a bad quantity, no
\* connection) or in order_stock, when the order may be at the broker.
BrokerRaises(t) ==
  /\ Answer(t, "failed", NoOrder)
  /\ UNCHANGED placed \/ \E o \in Orders : Place(t, o)

-----------------------------------------------------------------------------
\* mark_submitted, mark_failed, mark_rejected, mark_cancelled and the commit:
\* over whatever the row holds by now.  Only mark_submitted writes the order.
Commit(t) ==
  /\ request[t].pc = "commit"
  /\ LET i == request[t].intent
     IN  /\ status' = [status EXCEPT ![i] = request[t].status]
         /\ orderId' = [orderId EXCEPT ![i] = IF request[t].status = "submitted"
                                              THEN request[t].order ELSE @]
  /\ request' = [request EXCEPT ![t] = Idle]
  /\ UNCHANGED <<placed, restarts, disturbed>>

\* The API process dies with its threads.  What the broker has, it has; a
\* confirm that was under way is cut short.
Restart ==
  /\ restarts < MaxRestarts
  /\ restarts' = restarts + 1
  /\ disturbed' = disturbed \cup {i \in Intents : InService(i)}
  /\ request' = [t \in Threads |-> Idle]
  /\ UNCHANGED <<rowVars, placed>>

\* A thread serves the requests of the people who decide.
Serve(t) ==
  \/ \E i \in Intents : Confirm(t, i) \/ Reject(t, i) \/ Cancel(t, i)
  \/ BrokerAccepts(t)
  \/ BrokerRefuses(t)
  \/ BrokerRaises(t)
  \/ Commit(t)

Next ==
  \/ \E i \in Intents : Propose(i)
  \/ \E t \in Threads : Serve(t)
  \/ Restart

Spec == Init /\ [][Next]_vars

-----------------------------------------------------------------------------
(* Properties that hold *)

\* What the row says of the order is true, whoever else decided the intent:
\* a submitted intent names an order, and an order on a row is at the broker
\* and was sent for that intent.
RowNamesItsOrder ==
  \A i \in Intents :
    /\ status[i] = "submitted" => orderId[i] # NoOrder
    /\ orderId[i] # NoOrder => placed[orderId[i]] = i

\* The broker and the queue agree about every intent that one request at a
\* time decided and no crash interrupted: a submitted intent has exactly the
\* order on its row, a failed one at most one order (the broker may have
\* taken it before it raised), any other none at all.
BrokerAgrees ==
  \A i \in Intents \ disturbed : ~InService(i) =>
    CASE status[i] = "submitted" -> OrdersOf(i) = {orderId[i]}
      [] status[i] = "failed"    -> \A o, p \in OrdersOf(i) : o = p
      [] OTHER                   -> OrdersOf(i) = {}

\* A decision is final once no request that read the pending row is left: no
\* later request takes the intent up, and its status never changes.
DecisionStays ==
  [][\A i \in Intents :
       status[i] \in Decided /\ ~InService(i) =>
         status'[i] = status[i] /\ ~InService(i)']_vars

-----------------------------------------------------------------------------
(* What a comment says and the code does not do *)

\* models.py: "pending_confirm -> confirmed|rejected|cancelled; confirmed ->
\* submitted|failed": an intent that was rejected is not submitted.
RejectedIsNotSubmitted ==
  [][\A i \in Intents :
       status[i] \in {"rejected", "cancelled"} => status'[i] # "submitted"]_status
=============================================================================
