--------------------------- MODULE LiveIntentProofs ---------------------------
(***************************************************************************)
(* Proofs about LiveIntent, for any number of intents, orders, threads and *)
(* crashes.                                                                *)
(*                                                                         *)
(* RowNamesItsOrder needs the requests too: one that is about to commit    *)
(* "submitted" carries an order that is at the broker for its intent.      *)
(* BrokerAgrees needs, for an undisturbed intent, that at most one request *)
(* serves it, that its row is still pending then, and what the broker has  *)
(* at each stage of that request.                                          *)
(***************************************************************************)
EXTENDS LiveIntent, TLAPS

\* A request that will commit "submitted" carries its intent's order.
RequestNamesItsOrder ==
  \A t \in Threads :
    request[t].pc = "commit" /\ request[t].status = "submitted" =>
      request[t].order \in Orders /\ placed[request[t].order] = request[t].intent

RowInv == TypeOK /\ RequestNamesItsOrder /\ RowNamesItsOrder

-----------------------------------------------------------------------------
LEMMA TypeInit == Init => TypeOK
BY RestartsAssumption DEF Init, TypeOK, Statuses, Requests

LEMMA TypeStep == TypeOK /\ [Next]_vars => TypeOK'
<1> SUFFICES ASSUME TypeOK, [Next]_vars
             PROVE  TypeOK'
  OBVIOUS
<1> USE DEF TypeOK, rowVars
<1>1. ASSUME NEW i \in Intents, Propose(i)
      PROVE  TypeOK'
  BY <1>1 DEF Propose, Statuses
<1>2. ASSUME NEW t \in Threads, NEW i \in Intents,
             Confirm(t, i) \/ Reject(t, i) \/ Cancel(t, i)
      PROVE  TypeOK'
  <2>1. PICK next \in Requests : Take(t, i, next)
    BY <1>2 DEF Confirm, Reject, Cancel, Decision, Requests, Decided
  <2> QED
    BY <2>1 DEF Take
<1>3. ASSUME NEW t \in Threads, BrokerAccepts(t) \/ BrokerRefuses(t) \/ BrokerRaises(t)
      PROVE  TypeOK'
  <2>1. PICK decision \in Decided, order \in Orders \cup {NoOrder} :
          Answer(t, decision, order)
    BY <1>3 DEF BrokerAccepts, BrokerRefuses, BrokerRaises, Decided
  <2>2. request[t].intent \in Intents
    BY <2>1 DEF Answer, Requests, Idle
  <2>3. Decision(request[t].intent, decision, order) \in Requests
    BY <2>2 DEF Decision, Requests
  <2>4. placed' \in [Orders -> Intents \cup {NoIntent}]
    BY <1>3, <2>2 DEF BrokerAccepts, BrokerRefuses, BrokerRaises, Place
  <2> QED
    BY <2>1, <2>3, <2>4 DEF Answer
<1>4. ASSUME NEW t \in Threads, Commit(t)
      PROVE  TypeOK'
  <2>1. /\ request[t].intent \in Intents
        /\ request[t].status \in Statuses
        /\ request[t].order \in Orders \cup {NoOrder}
    BY <1>4 DEF Commit, Requests, Idle, Statuses
  <2> QED
    BY <1>4, <2>1 DEF Commit, Requests
<1>5. CASE Restart
  BY <1>5, RestartsAssumption DEF Restart, Requests
<1>6. CASE UNCHANGED vars
  BY <1>6 DEF vars
<1> QED
  BY <1>1, <1>2, <1>3, <1>4, <1>5, <1>6 DEF Next, Serve

\* Every reachable state of the queue is of the declared types.
THEOREM TypeCorrect == Spec => []TypeOK
BY TypeInit, TypeStep, PTL DEF Spec

-----------------------------------------------------------------------------
(* The row names its order *)

\* What is at the broker stays there.
LEMMA PlacedStays ==
  ASSUME TypeOK, [Next]_vars, NEW o \in Orders, placed[o] # NoIntent
  PROVE  placed'[o] = placed[o]
BY DEF TypeOK, Next, Serve, vars, rowVars, Propose, Confirm, Reject, Cancel, Take, BrokerAccepts,
       BrokerRefuses, BrokerRaises, Answer, Place, Commit, Restart

LEMMA RowInvStep == RowInv /\ [Next]_vars => RowInv'
<1> SUFFICES ASSUME RowInv, [Next]_vars
             PROVE  RequestNamesItsOrder' /\ RowNamesItsOrder'
  BY TypeStep DEF RowInv
<1> USE NoIntentAssumption, NoOrderAssumption
    DEF RowInv, TypeOK, rowVars, RequestNamesItsOrder, RowNamesItsOrder
<1>1. ASSUME NEW i \in Intents, Propose(i)
      PROVE  RequestNamesItsOrder' /\ RowNamesItsOrder'
  BY <1>1 DEF Propose
<1>2. ASSUME NEW t \in Threads, NEW i \in Intents,
             Confirm(t, i) \/ Reject(t, i) \/ Cancel(t, i)
      PROVE  RequestNamesItsOrder' /\ RowNamesItsOrder'
  BY <1>2 DEF Confirm, Reject, Cancel, Take, Decision
<1>3. ASSUME NEW t \in Threads, BrokerAccepts(t)
      PROVE  RequestNamesItsOrder' /\ RowNamesItsOrder'
  <2>1. PICK o \in Orders : Answer(t, "submitted", o) /\ Place(t, o)
    BY <1>3 DEF BrokerAccepts
  <2>2. \A p \in Orders : placed[p] # NoIntent => placed'[p] = placed[p]
    BY PlacedStays DEF RowInv
  <2>3. request[t].intent \in Intents
    BY <2>1 DEF Answer, Requests, Idle
  <2>4. RowNamesItsOrder'
    BY <2>1, <2>2 DEF Answer
  <2>5. RequestNamesItsOrder'
    <3> SUFFICES ASSUME NEW u \in Threads,
                        request'[u].pc = "commit", request'[u].status = "submitted"
                 PROVE  /\ request'[u].order \in Orders
                        /\ placed'[request'[u].order] = request'[u].intent
      OBVIOUS
    <3>1. CASE u = t
      BY <2>1, <3>1 DEF Answer, Place, Decision
    <3>2. CASE u # t
      <4>1. request'[u] = request[u]
        BY <2>1, <3>2 DEF Answer
      <4>2. request[u].intent \in Intents
        BY <4>1 DEF Requests, Idle
      <4> QED
        BY <2>2, <4>1, <4>2
    <3> QED
      BY <3>1, <3>2
  <2> QED
    BY <2>4, <2>5
<1>4. ASSUME NEW t \in Threads, BrokerRefuses(t) \/ BrokerRaises(t)
      PROVE  RequestNamesItsOrder' /\ RowNamesItsOrder'
  <2>1. Answer(t, "failed", NoOrder)
    BY <1>4 DEF BrokerRefuses, BrokerRaises
  <2>2. \A p \in Orders : placed[p] # NoIntent => placed'[p] = placed[p]
    BY PlacedStays DEF RowInv
  <2>3. \A u \in Threads : request[u].pc = "commit" => request[u].intent \in Intents
    BY DEF Requests, Idle
  <2> QED
    BY <2>1, <2>2, <2>3 DEF Answer, Decision
<1>5. ASSUME NEW t \in Threads, Commit(t)
      PROVE  RequestNamesItsOrder' /\ RowNamesItsOrder'
  <2>1. request[t].intent \in Intents
    BY <1>5 DEF Commit, Requests, Idle
  <2> QED
    BY <1>5, <2>1 DEF Commit, Idle
<1>6. CASE Restart
  BY <1>6 DEF Restart, Idle
<1>7. CASE UNCHANGED vars
  BY <1>7 DEF vars
<1> QED
  BY <1>1, <1>2, <1>3, <1>4, <1>5, <1>6, <1>7 DEF Next, Serve

\* A submitted intent names an order, and every order on a row is at the
\* broker and was sent for that intent, however decisions overlap and the
\* process crashes (confirm, mark_submitted).
THEOREM RowCorrect == Spec => []RowNamesItsOrder
<1>1. Init => RowInv
  BY TypeInit
     DEF Init, RowInv, RequestNamesItsOrder, RowNamesItsOrder, Idle
<1>2. RowInv => RowNamesItsOrder
  BY DEF RowInv
<1> QED
  BY RowInvStep, <1>1, <1>2, PTL DEF Spec

-----------------------------------------------------------------------------
(* A decision stays *)

LEMMA DecisionStep ==
  ASSUME TypeOK, [Next]_vars, NEW i \in Intents, status[i] \in Decided, ~InService(i)
  PROVE  status'[i] = status[i] /\ ~InService(i)'
<1> USE DEF TypeOK, InService, Serves, Idle, Requests
<1>1. ASSUME NEW j \in Intents, Propose(j)
      PROVE  status'[i] = status[i] /\ ~InService(i)'
  BY <1>1 DEF Propose, Decided
<1>2. ASSUME NEW t \in Threads, NEW j \in Intents,
             Confirm(t, j) \/ Reject(t, j) \/ Cancel(t, j)
      PROVE  status'[i] = status[i] /\ ~InService(i)'
  <2>1. j # i
    BY <1>2 DEF Confirm, Reject, Cancel, Take, Pending, Decided
  <2> QED
    BY <1>2, <2>1 DEF Confirm, Reject, Cancel, Take, Decision, rowVars
<1>3. ASSUME NEW t \in Threads, BrokerAccepts(t) \/ BrokerRefuses(t) \/ BrokerRaises(t)
      PROVE  status'[i] = status[i] /\ ~InService(i)'
  <2>1. PICK decision, order : Answer(t, decision, order)
    BY <1>3 DEF BrokerAccepts, BrokerRefuses, BrokerRaises
  <2>2. request[t].intent # i
    BY <2>1 DEF Answer
  <2> QED
    BY <2>1, <2>2 DEF Answer, Decision, rowVars
<1>4. ASSUME NEW t \in Threads, Commit(t)
      PROVE  status'[i] = status[i] /\ ~InService(i)'
  <2>1. request[t].intent # i
    BY <1>4 DEF Commit
  <2> QED
    BY <1>4, <2>1 DEF Commit
<1>5. CASE Restart
  BY <1>5 DEF Restart, rowVars
<1>6. CASE UNCHANGED vars
  BY <1>6 DEF vars, rowVars
<1> QED
  BY <1>1, <1>2, <1>3, <1>4, <1>5, <1>6 DEF Next, Serve

\* A decision is final once no request that read the pending row is left: the
\* guards of confirm, reject and cancel let no later one in.
THEOREM DecisionCorrect == Spec => DecisionStays
<1> DEFINE Stays == \A i \in Intents :
                      status[i] \in Decided /\ ~InService(i) =>
                        status'[i] = status[i] /\ ~InService(i)'
<1>1. TypeOK /\ [Next]_vars => [Stays]_vars
  BY DecisionStep
<1> QED
  BY TypeInit, TypeStep, <1>1, PTL DEF Spec, DecisionStays

-----------------------------------------------------------------------------
(* The broker and the queue agree *)

\* What the broker has for i while thread t serves it.
StageAgrees(t, i) ==
  CASE request[t].pc = "send" -> OrdersOf(i) = {}
    [] request[t].pc = "commit" /\ request[t].status = "submitted" ->
         OrdersOf(i) = {request[t].order}
    [] request[t].pc = "commit" /\ request[t].status = "failed" ->
         \A o, p \in OrdersOf(i) : o = p
    [] OTHER -> OrdersOf(i) = {}

RowAgrees(i) ==
  CASE status[i] = "submitted" -> OrdersOf(i) = {orderId[i]}
    [] status[i] = "failed"    -> \A o, p \in OrdersOf(i) : o = p
    [] OTHER                   -> OrdersOf(i) = {}

Agrees(i) ==
  /\ \A t, u \in Threads : Serves(t, i) /\ Serves(u, i) => t = u
  /\ \A t \in Threads : Serves(t, i) => Pending(i) /\ StageAgrees(t, i)
  /\ ~InService(i) => RowAgrees(i)

AgreeInv == TypeOK /\ \A i \in Intents \ disturbed : Agrees(i)

\* An intent whose row, orders and requests a step leaves alone still agrees.
LEMMA UntouchedAgrees ==
  ASSUME TypeOK, NEW i \in Intents, Agrees(i),
         status'[i] = status[i], orderId'[i] = orderId[i], OrdersOf(i)' = OrdersOf(i),
         \A t \in Threads : \/ request'[t] = request[t]
                            \/ ~Serves(t, i) /\ ~Serves(t, i)'
  PROVE  Agrees(i)'
<1>1. \A t \in Threads : Serves(t, i)' <=> Serves(t, i)
  BY DEF Serves
<1>2. \A t \in Threads : Serves(t, i) => request'[t] = request[t]
  OBVIOUS
<1>3. \A t \in Threads : Serves(t, i) /\ StageAgrees(t, i) => StageAgrees(t, i)'
  BY <1>2 DEF StageAgrees
<1>4. InService(i)' <=> InService(i)
  BY <1>1 DEF InService
<1>5. RowAgrees(i) => RowAgrees(i)'
  BY DEF RowAgrees
<1> QED
  BY <1>1, <1>3, <1>4, <1>5 DEF Agrees, Pending

LEMMA AgreeStep ==
  ASSUME AgreeInv, [Next]_vars, NEW i \in Intents, i \notin disturbed'
  PROVE  Agrees(i)'
<1> USE NoIntentAssumption DEF TypeOK, rowVars
<1>1. TypeOK /\ i \notin disturbed /\ Agrees(i)
  <2>1. disturbed \subseteq disturbed'
    BY DEF Next, Serve, vars, Propose, Confirm, Reject, Cancel, Take, BrokerAccepts, BrokerRefuses,
           BrokerRaises, Answer, Commit, Restart
  <2> QED
    BY <2>1 DEF AgreeInv
<1>2. ASSUME NEW j \in Intents, Propose(j)
      PROVE  Agrees(i)'
  <2>1. OrdersOf(i)' = OrdersOf(i)
    BY <1>2 DEF Propose, OrdersOf
  <2>2. CASE j # i
    BY <1>1, <1>2, <2>1, <2>2, UntouchedAgrees DEF Propose
  <2>3. CASE j = i
    <3>1. ~InService(i)
      BY <1>1, <1>2, <2>3 DEF Propose, InService, Agrees, Pending
    <3>2. ~InService(i)'
      BY <1>2, <3>1 DEF Propose, InService, Serves
    <3>3. OrdersOf(i) = {}
      BY <1>1, <1>2, <2>3, <3>1 DEF Propose, Agrees, RowAgrees
    <3>4. RowAgrees(i)'
      BY <1>2, <2>1, <2>3, <3>3 DEF Propose, RowAgrees
    <3> QED
      BY <3>2, <3>4 DEF Agrees, InService
  <2> QED
    BY <2>2, <2>3
<1>3. ASSUME NEW t \in Threads, NEW j \in Intents, NEW next, Take(t, j, next),
             next.intent = j, next # Idle,
             \/ next.pc = "send"
             \/ next.pc = "commit" /\ next.status \in {"rejected", "cancelled"}
      PROVE  Agrees(i)'
  <2>1. OrdersOf(i)' = OrdersOf(i)
    BY <1>3 DEF Take, OrdersOf
  <2>2. CASE j # i
    <3>1. ~Serves(t, i) /\ ~Serves(t, i)'
      BY <1>1, <1>3, <2>2 DEF Take, Serves
    <3> QED
      BY <1>1, <1>3, <2>1, <3>1, UntouchedAgrees DEF Take
  <2>3. CASE j = i
    <3>1. ~InService(i)
      BY <1>3, <2>3 DEF Take
    <3>2. \A u \in Threads : Serves(u, i)' => u = t
      BY <1>1, <1>3, <3>1 DEF Take, InService, Serves
    <3>3. Serves(t, i)' /\ InService(i)'
      BY <1>1, <1>3, <2>3 DEF Take, InService, Serves
    <3>4. OrdersOf(i)' = {} /\ Pending(i)'
      BY <1>1, <1>3, <2>1, <2>3, <3>1 DEF Take, Pending, Agrees, RowAgrees
    <3>5. request'[t] = next
      BY <1>1, <1>3 DEF Take
    <3>6. StageAgrees(t, i)'
      BY <1>3, <3>4, <3>5 DEF StageAgrees
    <3> QED
      BY <3>2, <3>3, <3>4, <3>6 DEF Agrees
  <2> QED
    BY <2>2, <2>3
<1>4. ASSUME NEW t \in Threads, BrokerAccepts(t) \/ BrokerRefuses(t) \/ BrokerRaises(t)
      PROVE  Agrees(i)'
  <2>1. PICK decision \in Decided, order \in Orders \cup {NoOrder} :
          /\ Answer(t, decision, order)
          /\ \/ decision = "submitted" /\ order \in Orders /\ Place(t, order)
             \/ decision = "failed" /\ UNCHANGED placed
             \/ decision = "failed" /\ \E o \in Orders : Place(t, o)
    BY <1>4 DEF BrokerAccepts, BrokerRefuses, BrokerRaises, Decided
  <2>2. request[t].intent \in Intents /\ request[t] # Idle
    BY <1>1, <2>1 DEF Answer, Requests, Idle
  <2>3. CASE request[t].intent # i
    <3>1. OrdersOf(i)' = OrdersOf(i)
      BY <1>1, <2>1, <2>2, <2>3 DEF Place, OrdersOf
    <3>2. ~Serves(t, i) /\ ~Serves(t, i)'
      BY <1>1, <2>1, <2>3 DEF Answer, Serves, Decision
    <3> QED
      BY <1>1, <2>1, <3>1, <3>2, UntouchedAgrees DEF Answer
  <2>4. CASE request[t].intent = i
    <3>1. Serves(t, i) /\ OrdersOf(i) = {} /\ Pending(i)
      BY <1>1, <2>1, <2>2, <2>4 DEF Answer, Serves, Agrees, StageAgrees
    <3>2. request'[t] = Decision(i, decision, order)
      BY <1>1, <2>1, <2>4 DEF Answer
    <3>3. \A u \in Threads : Serves(u, i)' <=> u = t
      <4>1. \A u \in Threads \ {t} : request'[u] = request[u] /\ ~Serves(u, i)
        BY <1>1, <2>1, <3>1 DEF Answer, Agrees
      <4> QED
        BY <3>2, <4>1 DEF Serves, Decision, Idle
    <3>4. CASE decision = "submitted"
      <4>1. OrdersOf(i)' = {order}
        BY <1>1, <2>1, <2>4, <3>1, <3>4 DEF Place, OrdersOf
      <4> QED
        BY <2>1, <3>1, <3>2, <3>3, <3>4, <4>1
           DEF Agrees, StageAgrees, InService, Decision, Answer, Pending
    <3>5. CASE decision = "failed"
      <4>1. \A o, p \in OrdersOf(i)' : o = p
        BY <1>1, <2>1, <2>4, <3>1, <3>5 DEF Place, OrdersOf
      <4> QED
        BY <2>1, <3>1, <3>2, <3>3, <3>5, <4>1
           DEF Agrees, StageAgrees, InService, Decision, Answer, Pending
    <3> QED
      BY <2>1, <3>4, <3>5
  <2> QED
    BY <2>3, <2>4
<1>5. ASSUME NEW t \in Threads, Commit(t)
      PROVE  Agrees(i)'
  <2>1. request[t].intent \in Intents /\ request[t] # Idle
    BY <1>1, <1>5 DEF Commit, Requests, Idle
  <2>2. OrdersOf(i)' = OrdersOf(i)
    BY <1>5 DEF Commit, OrdersOf
  <2>3. CASE request[t].intent # i
    <3>1. ~Serves(t, i) /\ ~Serves(t, i)'
      BY <1>1, <1>5, <2>3 DEF Commit, Serves
    <3> QED
      BY <1>1, <1>5, <2>1, <2>2, <2>3, <3>1, UntouchedAgrees DEF Commit
  <2>4. CASE request[t].intent = i
    <3>1. Serves(t, i) /\ StageAgrees(t, i)
      BY <1>1, <2>1, <2>4 DEF Serves, Agrees
    <3>2. ~InService(i)'
      BY <1>1, <1>5, <3>1 DEF Commit, InService, Serves, Agrees
    <3>3. RowAgrees(i)'
      BY <1>1, <1>5, <2>2, <2>4, <3>1 DEF Commit, RowAgrees, StageAgrees
    <3> QED
      BY <3>2, <3>3 DEF Agrees, InService
  <2> QED
    BY <2>3, <2>4
<1>6. CASE Restart
  <2>1. ~InService(i)
    BY <1>6 DEF Restart
  <2>2. OrdersOf(i)' = OrdersOf(i)
    BY <1>6 DEF Restart, OrdersOf
  <2> QED
    BY <1>1, <1>6, <2>1, <2>2, UntouchedAgrees DEF Restart, InService, Serves
<1>7. CASE UNCHANGED vars
  <2>1. OrdersOf(i)' = OrdersOf(i)
    BY <1>7 DEF vars, OrdersOf
  <2> QED
    BY <1>1, <1>7, <2>1, UntouchedAgrees DEF vars
<1>8. ASSUME NEW t \in Threads, NEW j \in Intents,
             Confirm(t, j) \/ Reject(t, j) \/ Cancel(t, j)
      PROVE  Agrees(i)'
  BY <1>3, <1>8 DEF Confirm, Reject, Cancel, Decision, Idle
<1> QED
  BY <1>2, <1>4, <1>5, <1>6, <1>7, <1>8 DEF Next, Serve

\* An intent that one request at a time decided and no crash interrupted has
\* at the broker exactly what its row says (confirm, reject, cancel).
THEOREM BrokerCorrect == Spec => []BrokerAgrees
<1>1. Init => AgreeInv
  BY TypeInit, NoIntentAssumption
     DEF Init, AgreeInv, Agrees, Serves, InService, RowAgrees, OrdersOf
<1>2. AgreeInv /\ [Next]_vars => AgreeInv'
  BY TypeStep, AgreeStep DEF AgreeInv
<1>3. AgreeInv => BrokerAgrees
  BY DEF AgreeInv, Agrees, RowAgrees, BrokerAgrees
<1> QED
  BY <1>1, <1>2, <1>3, PTL DEF Spec
=============================================================================
