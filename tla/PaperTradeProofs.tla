-------------------------- MODULE PaperTradeProofs --------------------------
(***************************************************************************)
(* Proofs about PaperTrade, for any market, fees and calendar, any number  *)
(* of symbols and orders and any number of overlapping passes.             *)
(*                                                                         *)
(* What is committed was computed by some pass from rows it had read, so   *)
(* each invariant of the account is carried by an invariant of the passes: *)
(* what a pass remembers of the account is itself something the account    *)
(* could be; and without a rival it is the account as the pass's own fills *)
(* have left it, which is why the passes implement PaperBook.              *)
(***************************************************************************)
EXTENDS PaperTrade, TLAPS, FiniteSetTheorems, WellFoundedInduction, SequenceTheorems

InMatch(p) == pass[p].pc \in {"match", "flush"}

\* A pass works on orders that exist, and has read what it is to write.
PassInv ==
  \A p \in Passes : InMatch(p) =>
    /\ pass[p].todo \subseteq DOMAIN orders
    /\ pass[p].locked \/ pass[p].pc = "flush" => pass[p].cash \in Int
    /\ \A s \in pass[p].wrote : pass[p].shares[s] \in Int

TypeInv == TypeOK /\ PassInv

-----------------------------------------------------------------------------
(* Operators of the engine *)

\* What a fill is worth and costs are natural numbers.
LEMMA AmountIsNat ==
  ASSUME NEW side \in {"buy", "sell"}, NEW q \in Nat, NEW open \in Nat
  PROVE  /\ Amount(side, q, open) \in Nat
         /\ Fee(side, Amount(side, q, open)) \in Nat
<1> DEFINE price == FillPrice(side, open)
<1>1. price \in Nat
  BY FeeAssumption DEF FillPrice
<1>2. q * price \in Nat
  BY <1>1
<1>3. ASSUME NEW a \in Nat
      PROVE  Fee(side, a) \in Nat
  <2>1. a * CommissionRate \in Nat /\ a * StampTaxRate \in Nat
    BY FeeAssumption
  <2>2. (a * CommissionRate) \div 100000 \in Nat
    BY <2>1
  <2>3. (a * StampTaxRate) \div 10000 \in Nat
    BY <2>1
  <2>4. Commission(a) \in Nat
    BY <2>2, FeeAssumption DEF Commission
  <2> QED
    BY <2>3, <2>4 DEF Fee
<1> QED
  BY <1>2, <1>3 DEF Amount

\* A nonempty set of numbers has a least element, and one that is bounded a
\* greatest.
LEMMA LeastIsIn ==
  ASSUME NEW T \in SUBSET Nat, T # {}
  PROVE  Min(T) \in T
<1>1. PICK n \in T : \A k \in T : ~(<<k, n>> \in OpToRel(<, Nat))
  BY NatLessThanWellFounded, WFMin, Zenon
<1>2. \A k \in T : <<k, n>> \in Nat \X Nat
  OBVIOUS
<1>3. \A k \in T : ~(k < n)
  BY <1>1, <1>2, Zenon DEF OpToRel
<1>4. \A k \in T : n =< k
  BY <1>3
<1> QED
  BY <1>4 DEF Min

LEMMA GreatestIsIn ==
  ASSUME NEW N \in Nat, NEW T \in SUBSET (1..N), T # {}
  PROVE  Max(T) \in T
<1> DEFINE Up == {N - i : i \in T}
<1>0. \A i \in T : N - i \in Nat
  OBVIOUS
<1>1. Up \in SUBSET Nat /\ Up # {}
  BY <1>0
<1>2. PICK k \in Up : \A j \in Up : ~(<<j, k>> \in OpToRel(<, Nat))
  BY <1>1, NatLessThanWellFounded, WFMin, Zenon
<1>3. \A j \in Up : <<j, k>> \in Nat \X Nat
  BY <1>1
<1>4. \A j \in Up : ~(j < k)
  BY <1>2, <1>3, Zenon DEF OpToRel
<1>5. PICK i \in T : k = N - i
  OBVIOUS
<1>6. \A j \in T : ~(N - j < N - i)
  BY <1>4, <1>5
<1>7. \A j \in T : i >= j
  BY <1>6
<1> QED
  BY <1>7 DEF Max

\* The price that marks a position.
LEMMA MarkIsNat ==
  ASSUME NEW bars \in SUBSET (Symbols \X TradingDays), NEW s \in Symbols, NEW d \in Days
  PROVE  Mark(bars, s, d) \in Nat
<1>1. \A e \in TradingDays : Market[s][e].close \in Nat
  BY MarketAssumption DEF Bars
<1>2. ASSUME <<s, d>> \in bars
      PROVE  Mark(bars, s, d) \in Nat
  BY <1>1, <1>2 DEF Mark
<1>3. PrevClose(bars, s, d) \in Nat
  <2>1. CASE Before(bars, s, d) = {}
    BY <2>1 DEF PrevClose
  <2>2. CASE Before(bars, s, d) # {}
    <3>1. Before(bars, s, d) \in SUBSET (1..MaxDay) /\ MaxDay \in Nat
      BY CalendarAssumption DEF Before, Days
    <3>2. Max(Before(bars, s, d)) \in Before(bars, s, d)
      BY <2>2, <3>1, GreatestIsIn
    <3>3. Max(Before(bars, s, d)) \in TradingDays
      BY <3>2 DEF Before
    <3> QED
      BY <2>2, <3>3, <1>1 DEF PrevClose
  <2> QED
    BY <2>1, <2>2
<1> QED
  BY <1>2, <1>3 DEF Mark

-----------------------------------------------------------------------------
(* Steps of a pass *)

\* What a pass sees of a row is a number: committed, remembered or its own.
LEMMA SeenIsInt ==
  ASSUME TypeInv, NEW p \in Passes, InMatch(p), NEW s \in Symbols
  PROVE  /\ CashSeen(p) \subseteq Int
         /\ SharesSeen(p, s) \subseteq Int
         /\ CashSeen(p) \subseteq {cash, pass[p].cash}
         /\ SharesSeen(p, s) \subseteq {position[s], pass[p].shares[s]}
<1>1. pass[p] \in Matching
  BY DEF TypeInv, TypeOK, PassStates, Idle, InMatch
<1>2. pass[p].cash \in Int \cup {Unset} /\ pass[p].shares[s] \in Int \cup {Unset}
  BY <1>1 DEF Matching
<1>3. /\ pass[p].locked => pass[p].cash \in Int
      /\ s \in pass[p].wrote => pass[p].shares[s] \in Int
  BY DEF TypeInv, PassInv
<1>4. cash \in Int /\ position[s] \in Int
  BY DEF TypeInv, TypeOK
<1>5. CashSeen(p) \subseteq Int /\ CashSeen(p) \subseteq {cash, pass[p].cash}
  BY <1>2, <1>3, <1>4 DEF CashSeen, Sees
<1>6. SharesSeen(p, s) \subseteq Int
      /\ SharesSeen(p, s) \subseteq {position[s], pass[p].shares[s]}
  BY <1>2, <1>3, <1>4 DEF SharesSeen, Sees
<1> QED
  BY <1>5, <1>6

\* A pass that decides the next order decides one that exists.
LEMMA CurrentIsOrder ==
  ASSUME TypeInv, NEW p \in Passes, Working(p)
  PROVE  /\ pass[p] \in Matching /\ pass[p].pc = "match" /\ InMatch(p)
         /\ Current(p) \in pass[p].todo
         /\ Current(p) \in DOMAIN orders
         /\ Current(p) \in Numbers
         /\ orders[Current(p)] \in OrderRows
<1>1. pass[p] \in Matching /\ pass[p].pc = "match" /\ InMatch(p)
  BY DEF TypeInv, TypeOK, PassStates, Idle, InMatch, Working
<1>2. pass[p].todo \in SUBSET Nat /\ pass[p].todo \subseteq Numbers
  BY <1>1 DEF Matching, Numbers
<1>3. Current(p) \in pass[p].todo
  BY <1>2, LeastIsIn DEF Working, Current
<1>4. Current(p) \in DOMAIN orders
  BY <1>1, <1>3 DEF TypeInv, PassInv
<1>5. orders[Current(p)] \in OrderRows
  BY <1>4, ElementOfSeq, LenProperties DEF TypeInv, TypeOK
<1> QED
  BY <1>1, <1>2, <1>3, <1>4, <1>5

\* A fill as PaperBook prices it.
LEMMA FillIsRecord ==
  ASSUME NEW o \in OrderRows, NEW d \in Days, NEW c, NEW n, Fills(stored, o, d, c, n),
         stored \subseteq Symbols \X TradingDays
  PROVE  /\ d \in TradingDays
         /\ Market[o.symbol][d].open \in Nat
         /\ FillAt(o, d).amount = Amount(o.side, o.quantity, Market[o.symbol][d].open)
         /\ FillAt(o, d).fee = Fee(o.side, Amount(o.side, o.quantity, Market[o.symbol][d].open))
         /\ FillAt(o, d) \in FillRecords
<1>1. d \in TradingDays /\ o.symbol \in Symbols
  BY DEF Fills, OrderRows
<1>2. Market[o.symbol][d].open \in Nat
  BY <1>1, MarketAssumption DEF Bars
<1>3. o.quantity \in Nat /\ o.side \in {"buy", "sell"}
  BY QuantitiesAssumption DEF OrderRows
<1> DEFINE amount == Amount(o.side, o.quantity, Market[o.symbol][d].open)
<1>4. amount \in Nat /\ Fee(o.side, amount) \in Nat
  BY <1>2, <1>3, AmountIsNat
<1>5. FillAt(o, d) = [day |-> d, amount |-> amount, fee |-> Fee(o.side, amount)]
  BY DEF FillAt
<1> HIDE DEF amount
<1>6. /\ FillAt(o, d).amount = amount
      /\ FillAt(o, d).fee = Fee(o.side, amount)
      /\ FillAt(o, d) \in FillRecords
  BY <1>4, <1>5 DEF FillRecords
<1> QED
  BY <1>1, <1>2, <1>6 DEF amount

-----------------------------------------------------------------------------
(* Type correctness *)

LEMMA InitTypeInv == Init => TypeInv
<1> SUFFICES ASSUME Init
             PROVE  TypeInv
  OBVIOUS
<1>1. orders \in Seq(OrderRows) /\ Len(orders) = 0
  BY EmptySeq DEF Init
<1>2. 1 \in Days
  BY CalendarAssumption DEF Days
<1>3. TypeOK
  <2>1. Len(orders) <= MaxOrders
    BY <1>1, BoundsAssumption
  <2>2. cash \in Int /\ position \in [Symbols -> Int]
    BY CashAssumption DEF Init
  <2>3. nav \in [Days -> [cash : Int, value : [Symbols -> Int]] \cup {NoNav}]
    BY DEF Init
  <2>4. stored \subseteq Symbols \X TradingDays /\ today \in Days
    BY <1>2 DEF Init
  <2>5. pass \in [Passes -> PassStates]
    BY DEF Init, PassStates
  <2>6. contested \in BOOLEAN /\ skew \subseteq {"past", "future"}
    BY DEF Init
  <2> QED
    BY <1>1, <2>1, <2>2, <2>3, <2>4, <2>5, <2>6 DEF TypeOK
<1>4. PassInv
  BY DEF Init, PassInv, InMatch, Idle
<1> QED
  BY <1>3, <1>4 DEF TypeInv

\* What a step leaves of the passes: all the others are as they were.
LEMMA OtherPasses ==
  ASSUME TypeInv, NEW p \in Passes, NEW state \in PassStates,
         pass' = [pass EXCEPT ![p] = state], DOMAIN orders' = DOMAIN orders,
         state.pc \in {"match", "flush"} =>
           /\ state.todo \subseteq DOMAIN orders
           /\ state.locked \/ state.pc = "flush" => state.cash \in Int
           /\ \A s \in state.wrote : state.shares[s] \in Int
  PROVE  pass' \in [Passes -> PassStates] /\ PassInv'
<1>1. pass \in [Passes -> PassStates]
  BY DEF TypeInv, TypeOK
<1>2. pass' \in [Passes -> PassStates] /\ pass'[p] = state
  BY <1>1
<1>3. \A q \in Passes \ {p} : pass'[q] = pass[q]
  BY <1>1
<1>4. ASSUME NEW q \in Passes, InMatch(q)'
      PROVE  /\ pass'[q].todo \subseteq DOMAIN orders'
             /\ pass'[q].locked \/ pass'[q].pc = "flush" => pass'[q].cash \in Int
             /\ \A s \in pass'[q].wrote : pass'[q].shares[s] \in Int
  <2>1. CASE q = p
    BY <1>2, <1>4, <2>1 DEF InMatch
  <2>2. CASE q # p
    BY <1>3, <1>4, <2>2 DEF InMatch, TypeInv, PassInv
  <2> QED
    BY <2>1, <2>2
<1> QED
  BY <1>2, <1>4 DEF PassInv

\* What a decision may read and what it leaves.
LEMMA DecideIs ==
  ASSUME TypeInv, NEW p \in Passes, Decide(p)
  PROVE  \E c \in CashSeen(p), n \in SharesSeen(p, orders[Current(p)].symbol) :
           \/ /\ Fills(stored, orders[Current(p)], pass[p].day, c, n)
              /\ pass' = [pass EXCEPT ![p] = Filled(p, c, n)]
           \/ pass' = [pass EXCEPT ![p] = Rejected(p, c, n)]
BY DEF Decide

\* The fields of a pass after a rejection.
LEMMA RejectedFields ==
  ASSUME TypeInv, NEW p \in Passes, Working(p), NEW c \in CashSeen(p),
         NEW n \in SharesSeen(p, orders[Current(p)].symbol)
  PROVE  LET r == Rejected(p, c, n) IN
         /\ r \in Matching
         /\ r.pc = "match" /\ r.todo \subseteq pass[p].todo /\ r.wrote = pass[p].wrote
         /\ r.cash = c /\ c \in Int
         /\ \A s \in Symbols : r.shares[s] = pass[p].shares[s] \/ r.shares[s] = n
         /\ n \in Int
<1> DEFINE r == Rejected(p, c, n)
           i == Current(p)
           s == orders[i].symbol
<1>1. /\ pass[p] \in Matching /\ pass[p].pc = "match" /\ i \in Numbers
      /\ s \in Symbols
  BY CurrentIsOrder DEF OrderRows
<1>2. c \in Int /\ n \in Int
  BY <1>1, SeenIsInt, CurrentIsOrder
<1>3. r = [pass[p] EXCEPT !.todo = @ \ {i}, !.decided[i] = NoFill, !.cash = c,
                          !.shares[s] = IF <<s, pass[p].day>> \in stored THEN n ELSE @]
  BY DEF Rejected
<1> HIDE DEF r, i, s
<1>4. /\ r \in Matching
      /\ r.pc = "match" /\ r.todo \subseteq pass[p].todo /\ r.wrote = pass[p].wrote
      /\ r.cash = c
      /\ \A t \in Symbols : r.shares[t] = pass[p].shares[t] \/ r.shares[t] = n
  BY <1>1, <1>2, <1>3 DEF Matching
<1> QED
  BY <1>2, <1>4 DEF r

\* And after a fill: it has been paid for or delivered from what was read.
LEMMA FilledFields ==
  ASSUME TypeInv, NEW p \in Passes, Working(p), NEW c \in CashSeen(p),
         NEW n \in SharesSeen(p, orders[Current(p)].symbol),
         Fills(stored, orders[Current(p)], pass[p].day, c, n)
  PROVE  LET r == Filled(p, c, n)
             o == orders[Current(p)]
         IN
         /\ r \in Matching
         /\ r.pc = "flush" /\ r.todo \subseteq pass[p].todo
         /\ r.wrote = pass[p].wrote \cup {o.symbol}
         /\ r.cash \in Int
         /\ r.cash = NewCash(o, FillAt(o, pass[p].day), c)
         /\ \A s \in Symbols \ {o.symbol} : r.shares[s] = pass[p].shares[s]
         /\ r.shares[o.symbol] = n + ShareFlow(o.side, o.quantity)
         /\ r.shares[o.symbol] \in Int
         /\ c \in Int /\ n \in Int
<1> DEFINE r == Filled(p, c, n)
           i == Current(p)
           o == orders[i]
           f == FillAt(o, pass[p].day)
<1>1. /\ pass[p] \in Matching /\ pass[p].pc = "match" /\ i \in Numbers
      /\ o \in OrderRows /\ o.symbol \in Symbols /\ pass[p].day \in Days
  BY CurrentIsOrder DEF OrderRows, Matching
<1>2. c \in Int /\ n \in Int
  BY <1>1, SeenIsInt, CurrentIsOrder
<1>3. f \in FillRecords
  BY <1>1, FillIsRecord DEF TypeInv, TypeOK
<1>4. NewCash(o, f, c) \in Int /\ n + ShareFlow(o.side, o.quantity) \in Int
  <2>1. o.quantity \in Nat
    BY <1>1, QuantitiesAssumption DEF OrderRows
  <2>2. f.amount \in Nat /\ f.fee \in Nat
    BY <1>3 DEF FillRecords
  <2> HIDE DEF o, f
  <2> QED
    BY <1>2, <2>1, <2>2 DEF NewCash, CashFlow, ShareFlow
<1>5. r = [pass[p] EXCEPT !.pc = "flush", !.todo = @ \ {i}, !.decided[i] = f,
                      !.cash = NewCash(o, f, c),
                      !.shares[o.symbol] = n + ShareFlow(o.side, o.quantity),
                      !.wrote = @ \cup {o.symbol}]
  BY DEF Filled
<1> HIDE DEF r, i, o, f
<1>6. /\ r \in Matching
      /\ r.pc = "flush" /\ r.todo \subseteq pass[p].todo
      /\ r.wrote = pass[p].wrote \cup {o.symbol}
      /\ r.cash = NewCash(o, f, c)
      /\ \A s \in Symbols \ {o.symbol} : r.shares[s] = pass[p].shares[s]
      /\ r.shares[o.symbol] = n + ShareFlow(o.side, o.quantity)
  BY <1>1, <1>3, <1>4, <1>5 DEF Matching
<1> QED
  BY <1>2, <1>4, <1>6 DEF r, o, i, f

\* Each action keeps the types.
LEMMA PlaceTypeInv ==
  ASSUME TypeInv, NEW s \in Symbols, NEW side \in {"buy", "sell"}, NEW q \in Quantities,
         Place(s, side, q)
  PROVE  TypeInv'
<1> DEFINE o == [symbol |-> s, side |-> side, quantity |-> q, day |-> today,
                 status |-> "pending", fill |-> NoFill]
<1>1. orders \in Seq(OrderRows) /\ o \in OrderRows
  BY DEF TypeInv, TypeOK, OrderRows
<1>2. orders' = Append(orders, o)
  BY DEF Place
<1> HIDE DEF o
<1>3. /\ orders' \in Seq(OrderRows)
      /\ Len(orders') = Len(orders) + 1
      /\ DOMAIN orders' = 1..(Len(orders) + 1)
  BY <1>1, <1>2, AppendProperties, LenProperties
<1>4. Len(orders) \in Nat /\ DOMAIN orders = 1..Len(orders)
  BY <1>1, LenProperties
<1>5. Len(orders') <= MaxOrders
  BY <1>3, <1>4, BoundsAssumption DEF Place
<1>6. DOMAIN orders \subseteq DOMAIN orders'
  BY <1>3, <1>4
<1>7. TypeOK'
  BY <1>3, <1>5 DEF Place, TypeInv, TypeOK
<1>8. PassInv'
  BY <1>6 DEF Place, TypeInv, PassInv, InMatch
<1> QED
  BY <1>7, <1>8 DEF TypeInv

LEMMA BeginTypeInv ==
  ASSUME TypeInv, NEW p \in Passes, NEW d \in RunDays, Begin(p, d)
  PROVE  TypeInv'
<1> DEFINE state ==
       [pc |-> "match", day |-> d, todo |-> Due(d), decided |-> [i \in Numbers |-> Unset],
        cash |-> Unset, shares |-> [s \in Symbols |-> Unset],
        wrote |-> {}, locked |-> FALSE]
<1>1. d \in Days
  BY BoundsAssumption
<1>2. Due(d) \subseteq DOMAIN orders
  BY DEF Due
<1>3. DOMAIN orders \subseteq Numbers
  <2>1. orders \in Seq(OrderRows) /\ Len(orders) <= MaxOrders
    BY DEF TypeInv, TypeOK
  <2> QED
    BY <2>1, LenProperties, BoundsAssumption DEF Numbers
<1>4. state \in PassStates
  BY <1>1, <1>2, <1>3 DEF PassStates, Matching
<1>5. pass' \in [Passes -> PassStates] /\ PassInv'
  BY <1>2, <1>4, OtherPasses DEF Begin, accountVars
<1>6. TypeOK'
  BY <1>5 DEF Begin, accountVars, TypeInv, TypeOK
<1> QED
  BY <1>5, <1>6 DEF TypeInv

LEMMA DecideTypeInv ==
  ASSUME TypeInv, NEW p \in Passes, Decide(p)
  PROVE  TypeInv'
<1>1. Working(p) /\ DOMAIN orders' = DOMAIN orders
  BY DEF Decide, accountVars
<1>2. pass' \in [Passes -> PassStates] /\ PassInv'
  <2> DEFINE o == orders[Current(p)]
  <2>0. /\ pass[p] \in Matching /\ InMatch(p) /\ o.symbol \in Symbols
        /\ pass[p].todo \subseteq DOMAIN orders
        /\ pass[p].pc = "match"
        /\ \A s \in pass[p].wrote : s \in Symbols /\ pass[p].shares[s] \in Int
    BY <1>1, CurrentIsOrder DEF TypeInv, PassInv, OrderRows, Matching
  <2>1. PICK c \in CashSeen(p), n \in SharesSeen(p, o.symbol) :
           \/ /\ Fills(stored, o, pass[p].day, c, n)
              /\ pass' = [pass EXCEPT ![p] = Filled(p, c, n)]
           \/ pass' = [pass EXCEPT ![p] = Rejected(p, c, n)]
    BY DecideIs
  <2>2. CASE /\ Fills(stored, o, pass[p].day, c, n)
             /\ pass' = [pass EXCEPT ![p] = Filled(p, c, n)]
    <3> DEFINE r == Filled(p, c, n)
    <3>1. /\ r \in Matching /\ r.todo \subseteq pass[p].todo
          /\ r.wrote = pass[p].wrote \cup {o.symbol}
          /\ r.cash \in Int
          /\ \A s \in Symbols \ {o.symbol} : r.shares[s] = pass[p].shares[s]
          /\ r.shares[o.symbol] \in Int
      BY <1>1, <2>2, FilledFields
    <3>2. pass' = [pass EXCEPT ![p] = r]
      BY <2>2
    <3> HIDE DEF r, o
    <3>3. \A s \in r.wrote : r.shares[s] \in Int
      BY <2>0, <3>1
    <3>4. r \in PassStates /\ r.todo \subseteq DOMAIN orders
      BY <2>0, <3>1 DEF PassStates
    <3> QED
      BY <1>1, <3>1, <3>2, <3>3, <3>4, OtherPasses
  <2>3. CASE pass' = [pass EXCEPT ![p] = Rejected(p, c, n)]
    <3> DEFINE r == Rejected(p, c, n)
    <3>1. /\ r \in Matching /\ r.todo \subseteq pass[p].todo
          /\ r.wrote = pass[p].wrote
          /\ r.cash \in Int
          /\ \A s \in Symbols : r.shares[s] = pass[p].shares[s] \/ r.shares[s] \in Int
      BY <1>1, RejectedFields
    <3>2. pass' = [pass EXCEPT ![p] = r]
      BY <2>3
    <3> HIDE DEF r, o
    <3>3. \A s \in r.wrote : r.shares[s] \in Int
      BY <2>0, <3>1
    <3>4. r \in PassStates /\ r.todo \subseteq DOMAIN orders
      BY <2>0, <3>1 DEF PassStates
    <3> QED
      BY <1>1, <3>1, <3>2, <3>3, <3>4, OtherPasses
  <2> QED
    BY <2>1, <2>2, <2>3
<1>3. TypeOK'
  BY <1>2 DEF Decide, accountVars, TypeInv, TypeOK
<1> QED
  BY <1>2, <1>3 DEF TypeInv

LEMMA FlushTypeInv ==
  ASSUME TypeInv, NEW p \in Passes, Flush(p)
  PROVE  TypeInv'
<1> DEFINE state == [pass[p] EXCEPT !.pc = "match", !.locked = TRUE]
<1>1. pass[p].pc = "flush" /\ DOMAIN orders' = DOMAIN orders /\ InMatch(p)
  BY DEF Flush, accountVars, InMatch
<1>2. pass[p] \in Matching /\ pass \in [Passes -> PassStates]
  BY <1>1 DEF TypeInv, TypeOK, PassStates, Idle
<1>3. pass' = [pass EXCEPT ![p] = state]
  BY <1>2 DEF Flush
<1>4. /\ state \in Matching /\ state.todo = pass[p].todo /\ state.cash = pass[p].cash
      /\ state.wrote = pass[p].wrote /\ state.shares = pass[p].shares
  BY <1>2 DEF Matching
<1>5. /\ pass[p].todo \subseteq DOMAIN orders
      /\ pass[p].cash \in Int
      /\ \A s \in pass[p].wrote : pass[p].shares[s] \in Int
  BY <1>1 DEF TypeInv, PassInv
<1> HIDE DEF state
<1>6. state \in PassStates
  BY <1>4 DEF PassStates
<1>7. pass' \in [Passes -> PassStates] /\ PassInv'
  BY <1>1, <1>3, <1>4, <1>5, <1>6, OtherPasses
<1>8. TypeOK'
  BY <1>7 DEF Flush, accountVars, TypeInv, TypeOK
<1> QED
  BY <1>7, <1>8 DEF TypeInv

\* The rows that a commit leaves.
LEMMA CommitOrders ==
  ASSUME TypeInv, NEW p \in Passes, MatchCommit(p)
  PROVE  /\ pass[p] \in Matching
         /\ orders' \in Seq(OrderRows) /\ Len(orders') = Len(orders)
         /\ DOMAIN orders' = DOMAIN orders
         /\ \A i \in DOMAIN orders : orders'[i].quantity = orders[i].quantity
<1>1. pass[p] \in Matching
  <2>1. pass[p].pc = "match"
    BY DEF MatchCommit
  <2>2. pass[p] \in PassStates
    BY DEF TypeInv, TypeOK
  <2> QED
    BY <2>1, <2>2 DEF PassStates, Idle
<1>2. orders \in Seq(OrderRows) /\ Len(orders) <= MaxOrders
  BY DEF TypeInv, TypeOK
<1>3. DOMAIN orders = 1..Len(orders) /\ Len(orders) \in Nat
  BY <1>2, LenProperties
<1>4. DOMAIN orders \subseteq Numbers
  BY <1>2, <1>3, BoundsAssumption DEF Numbers
<1>5. ASSUME NEW i \in DOMAIN orders
      PROVE  /\ Outcome(orders[i], pass[p].decided[i]) \in OrderRows
             /\ Outcome(orders[i], pass[p].decided[i]).quantity = orders[i].quantity
  <2>1. orders[i] \in OrderRows
    BY <1>2, <1>3, ElementOfSeq
  <2>2. pass[p].decided[i] \in FillRecords \cup {NoFill, Unset}
    BY <1>1, <1>4 DEF Matching
  <2> QED
    BY <2>1, <2>2 DEF Outcome, OrderRows
<1>6. orders' = [i \in 1..Len(orders) |-> Outcome(orders[i], pass[p].decided[i])]
  BY <1>3 DEF MatchCommit
<1>7. orders' \in Seq(OrderRows)
  BY <1>3, <1>5, <1>6, IsASeq
<1>8. Len(orders') = Len(orders)
  BY <1>3, <1>6, <1>7, LenProperties
<1> QED
  BY <1>1, <1>3, <1>5, <1>6, <1>7, <1>8

LEMMA MatchCommitTypeInv ==
  ASSUME TypeInv, NEW p \in Passes, MatchCommit(p)
  PROVE  TypeInv'
<1> DEFINE state == [pc |-> "settle", day |-> pass[p].day]
<1>1. /\ pass[p] \in Matching
      /\ orders' \in Seq(OrderRows) /\ Len(orders') = Len(orders)
      /\ DOMAIN orders' = DOMAIN orders
  BY CommitOrders
<1>2. state \in PassStates
  BY <1>1 DEF PassStates, Matching
<1>3. pass' \in [Passes -> PassStates] /\ PassInv'
  BY <1>1, <1>2, OtherPasses DEF MatchCommit
<1>4. InMatch(p)
  BY DEF MatchCommit, InMatch
<1>5. /\ pass[p].locked => pass[p].cash \in Int
      /\ \A s \in pass[p].wrote : pass[p].shares[s] \in Int
  BY <1>4 DEF TypeInv, PassInv
<1>6. cash \in Int /\ position \in [Symbols -> Int] /\ Len(orders) <= MaxOrders
  BY DEF TypeInv, TypeOK
<1>7. cash' \in Int /\ position' \in [Symbols -> Int] /\ Len(orders') <= MaxOrders
  BY <1>1, <1>5, <1>6 DEF MatchCommit
<1>8. TypeOK'
  BY <1>1, <1>3, <1>7 DEF MatchCommit, TypeInv, TypeOK
<1> QED
  BY <1>3, <1>8 DEF TypeInv

LEMMA SettleTypeInv ==
  ASSUME TypeInv, NEW p \in Passes, SettleRead(p) \/ SettleCommit(p) \/ Abort(p)
  PROVE  TypeInv'
<1>1. CASE SettleRead(p)
  <2> DEFINE state == [pc |-> "value", day |-> pass[p].day, cash |-> cash]
  <2>1. state \in PassStates
    BY <1>1 DEF SettleRead, TypeInv, TypeOK, PassStates, Idle, Matching
  <2>2. pass' = [pass EXCEPT ![p] = state] /\ DOMAIN orders' = DOMAIN orders
    BY <1>1 DEF SettleRead, accountVars, TypeInv, TypeOK
  <2>3. pass' \in [Passes -> PassStates] /\ PassInv'
    BY <2>1, <2>2, OtherPasses
  <2> QED
    BY <1>1, <2>3 DEF SettleRead, accountVars, TypeInv, TypeOK
<1>2. CASE SettleCommit(p)
  <2>1. Idle \in PassStates /\ DOMAIN orders' = DOMAIN orders
    BY <1>2 DEF SettleCommit, accountVars, PassStates
  <2>2. pass' \in [Passes -> PassStates] /\ PassInv'
    BY <1>2, <2>1, OtherPasses DEF SettleCommit, Idle
  <2>3. pass[p] \in [pc : {"value"}, day : Days, cash : Int]
    BY <1>2 DEF SettleCommit, TypeInv, TypeOK, PassStates, Idle, Matching
  <2>4. ASSUME NEW s \in Symbols
        PROVE  10000 * position[s] * Mark(stored, s, pass[p].day) \in Int
    BY <2>3, MarkIsNat DEF TypeInv, TypeOK
  <2>5. Worth(stored, position, pass[p].day) \in [Symbols -> Int]
    BY <2>4 DEF Worth
  <2>6. nav' \in [Days -> [cash : Int, value : [Symbols -> Int]] \cup {NoNav}]
    BY <1>2, <2>3, <2>5 DEF SettleCommit, TypeInv, TypeOK
  <2> QED
    BY <1>2, <2>2, <2>6 DEF SettleCommit, accountVars, TypeInv, TypeOK
<1>3. CASE Abort(p)
  <2>1. Idle \in PassStates /\ DOMAIN orders' = DOMAIN orders
    BY <1>3 DEF Abort, accountVars, PassStates
  <2>2. pass' \in [Passes -> PassStates] /\ PassInv'
    BY <1>3, <2>1, OtherPasses DEF Abort, Idle
  <2> QED
    BY <1>3, <2>2 DEF Abort, accountVars, TypeInv, TypeOK
<1> QED
  BY <1>1, <1>2, <1>3

LEMMA WorldTypeInv ==
  ASSUME TypeInv,
         \/ \E s \in Symbols, d \in TradingDays : BarArrives(s, d)
         \/ NextDay
         \/ UNCHANGED vars
  PROVE  TypeInv'
<1>1. CASE \E s \in Symbols, d \in TradingDays : BarArrives(s, d)
  BY <1>1 DEF BarArrives, accountVars, TypeInv, TypeOK, PassInv, InMatch
<1>2. CASE NextDay
  <2>1. today' \in Days
    BY <1>2, CalendarAssumption DEF NextDay, TypeInv, TypeOK, Days
  <2> QED
    BY <1>2, <2>1 DEF NextDay, accountVars, TypeInv, TypeOK, PassInv, InMatch
<1>3. CASE UNCHANGED vars
  BY <1>3 DEF vars, accountVars, TypeInv, TypeOK, PassInv, InMatch
<1> QED
  BY <1>1, <1>2, <1>3

LEMMA NextTypeInv == TypeInv /\ [Next]_vars => TypeInv'
<1> SUFFICES ASSUME TypeInv, [Next]_vars
             PROVE  TypeInv'
  OBVIOUS
<1>1. CASE \E s \in Symbols, side \in {"buy", "sell"}, q \in Quantities : Place(s, side, q)
  BY <1>1, PlaceTypeInv
<1>2. ASSUME NEW p \in Passes,
             \/ \E d \in RunDays : Begin(p, d)
             \/ Decide(p)
             \/ Flush(p)
             \/ MatchCommit(p)
             \/ SettleRead(p)
             \/ SettleCommit(p)
             \/ Abort(p)
      PROVE  TypeInv'
  BY <1>2, BeginTypeInv, DecideTypeInv, FlushTypeInv, MatchCommitTypeInv, SettleTypeInv
<1>3. CASE \/ \E s \in Symbols, d \in TradingDays : BarArrives(s, d)
           \/ NextDay
           \/ UNCHANGED vars
  BY <1>3, WorldTypeInv
<1> QED
  BY <1>1, <1>2, <1>3 DEF Next

\* Every variable keeps its type, whatever passes overlap or abort: a pass
\* never writes cash or shares that it has not read (match_pending).
THEOREM TypeCorrect == Spec => []TypeOK
<1>1. Init => TypeInv
  BY InitTypeInv
<1>2. TypeInv /\ [Next]_vars => TypeInv'
  BY NextTypeInv
<1>3. TypeInv => TypeOK
  BY DEF TypeInv
<1> QED
  BY <1>1, <1>2, <1>3, PTL DEF Spec

-----------------------------------------------------------------------------
(* Nothing is overdrawn *)

\* Nor in what a pass remembers of the account: that is what it computes
\* from, and what it writes.
SolventInv ==
  /\ NothingOverdrawn
  /\ \A p \in Passes : InMatch(p) =>
       /\ pass[p].cash \in Int => pass[p].cash >= 0
       /\ \A s \in Symbols : pass[p].shares[s] \in Int => pass[p].shares[s] >= 0

\* A fill that was let through leaves cash and shares that are not negative.
LEMMA FillIsAfforded ==
  ASSUME NEW o \in OrderRows, NEW d \in Days, NEW c \in Nat, NEW n \in Nat,
         stored \subseteq Symbols \X TradingDays,
         Fills(stored, o, d, c, n)
  PROVE  /\ NewCash(o, FillAt(o, d), c) >= 0
         /\ n + ShareFlow(o.side, o.quantity) >= 0
<1> DEFINE f == FillAt(o, d)
           open == Market[o.symbol][d].open
<1>1. /\ d \in TradingDays /\ open \in Nat
      /\ f.amount = Amount(o.side, o.quantity, open)
      /\ f.fee = Fee(o.side, Amount(o.side, o.quantity, open))
      /\ f \in FillRecords
  BY FillIsRecord
<1>2. f.amount \in Nat /\ f.fee \in Nat
  BY <1>1 DEF FillRecords
<1>3. o.symbol \in Symbols /\ o.quantity \in Quantities /\ o.quantity \in Nat
      /\ o.side \in {"buy", "sell"}
  BY QuantitiesAssumption DEF OrderRows
<1>4. open > 0
  BY DEF Fills
<1>5. CASE o.side = "buy"
  <2>1. f.amount + f.fee <= c
    BY <1>1, <1>5 DEF Fills, Pays
  <2> HIDE DEF f
  <2>2. NewCash(o, f, c) >= 0
    BY <1>2, <1>5, <2>1 DEF NewCash, CashFlow
  <2>3. n + ShareFlow(o.side, o.quantity) >= 0
    BY <1>3, <1>5 DEF ShareFlow
  <2> QED
    BY <2>2, <2>3 DEF f
<1>6. CASE o.side = "sell"
  <2>1. o.quantity <= n
    BY <1>6 DEF Fills, Delivers
  <2>2. f.fee <= f.amount
    BY <1>1, <1>3, <1>4, <1>6, SaleAssumption
  <2> HIDE DEF f
  <2>3. NewCash(o, f, c) >= 0
    BY <1>2, <1>6, <2>2 DEF NewCash, CashFlow
  <2>4. n + ShareFlow(o.side, o.quantity) >= 0
    BY <1>3, <1>6, <2>1 DEF ShareFlow
  <2> QED
    BY <2>3, <2>4 DEF f
<1> QED
  BY <1>3, <1>5, <1>6

LEMMA DecideSolvent ==
  ASSUME TypeInv, SolventInv, NEW p \in Passes, Decide(p)
  PROVE  SolventInv'
<1> DEFINE o == orders[Current(p)]
<1>1. /\ Working(p) /\ pass[p] \in Matching /\ InMatch(p)
      /\ o \in OrderRows /\ o.symbol \in Symbols /\ pass[p].day \in Days
  BY CurrentIsOrder DEF Decide, OrderRows, Matching
<1>2. PICK c \in CashSeen(p), n \in SharesSeen(p, o.symbol) :
        \/ /\ Fills(stored, o, pass[p].day, c, n)
           /\ pass' = [pass EXCEPT ![p] = Filled(p, c, n)]
        \/ pass' = [pass EXCEPT ![p] = Rejected(p, c, n)]
  BY DecideIs
<1>3. c \in Nat /\ n \in Nat
  <2>1. c \in Int /\ n \in Int /\ c \in {cash, pass[p].cash}
        /\ n \in {position[o.symbol], pass[p].shares[o.symbol]}
    BY <1>1, SeenIsInt
  <2> QED
    BY <1>1, <2>1 DEF SolventInv, NothingOverdrawn
<1>4. ASSUME NEW r, pass' = [pass EXCEPT ![p] = r],
             r.cash \in Int => r.cash >= 0,
             \A s \in Symbols : r.shares[s] \in Int => r.shares[s] >= 0
      PROVE  SolventInv'
  <2>1. pass'[p] = r /\ \A q \in Passes \ {p} : pass'[q] = pass[q]
    BY <1>4 DEF TypeInv, TypeOK
  <2>2. UNCHANGED <<cash, position>>
    BY DEF Decide, accountVars
  <2>3. ASSUME NEW q \in Passes, InMatch(q)'
        PROVE  /\ pass'[q].cash \in Int => pass'[q].cash >= 0
               /\ \A s \in Symbols : pass'[q].shares[s] \in Int => pass'[q].shares[s] >= 0
    <3>1. CASE q = p
      BY <1>4, <2>1, <3>1
    <3>2. CASE q # p
      BY <2>1, <2>3, <3>2 DEF SolventInv, InMatch
    <3> QED
      BY <3>1, <3>2
  <2> QED
    BY <2>2, <2>3 DEF SolventInv, NothingOverdrawn
<1>5. CASE /\ Fills(stored, o, pass[p].day, c, n)
           /\ pass' = [pass EXCEPT ![p] = Filled(p, c, n)]
  <2> DEFINE r == Filled(p, c, n)
  <2>1. /\ r.cash = NewCash(o, FillAt(o, pass[p].day), c)
        /\ \A s \in Symbols \ {o.symbol} : r.shares[s] = pass[p].shares[s]
        /\ r.shares[o.symbol] = n + ShareFlow(o.side, o.quantity)
    BY <1>1, <1>5, FilledFields
  <2>2. /\ NewCash(o, FillAt(o, pass[p].day), c) >= 0
        /\ n + ShareFlow(o.side, o.quantity) >= 0
    BY <1>1, <1>3, <1>5, FillIsAfforded DEF TypeInv, TypeOK
  <2>3. pass' = [pass EXCEPT ![p] = r]
    BY <1>5
  <2>4. \A s \in Symbols : pass[p].shares[s] \in Int => pass[p].shares[s] >= 0
    BY <1>1 DEF SolventInv
  <2> HIDE DEF r, o
  <2>5. \A s \in Symbols : r.shares[s] \in Int => r.shares[s] >= 0
    BY <2>1, <2>2, <2>4
  <2> QED
    BY <1>4, <2>1, <2>2, <2>3, <2>5
<1>6. CASE pass' = [pass EXCEPT ![p] = Rejected(p, c, n)]
  <2> DEFINE r == Rejected(p, c, n)
  <2>1. /\ r.cash = c
        /\ \A s \in Symbols : r.shares[s] = pass[p].shares[s] \/ r.shares[s] = n
    BY <1>1, RejectedFields
  <2>2. pass' = [pass EXCEPT ![p] = r]
    BY <1>6
  <2>3. \A s \in Symbols : pass[p].shares[s] \in Int => pass[p].shares[s] >= 0
    BY <1>1 DEF SolventInv
  <2> HIDE DEF r, o
  <2>4. \A s \in Symbols : r.shares[s] \in Int => r.shares[s] >= 0
    BY <1>3, <2>1, <2>3
  <2>5. r.cash >= 0
    BY <1>3, <2>1
  <2> QED
    BY <1>4, <2>2, <2>4, <2>5
<1> QED
  BY <1>2, <1>5, <1>6

LEMMA MatchCommitSolvent ==
  ASSUME TypeInv, SolventInv, NEW p \in Passes, MatchCommit(p)
  PROVE  SolventInv'
<1>1. /\ InMatch(p)
      /\ pass[p].locked => pass[p].cash \in Int
      /\ \A s \in pass[p].wrote : pass[p].shares[s] \in Int
  BY DEF MatchCommit, InMatch, TypeInv, PassInv
<1>2. /\ pass[p].cash \in Int => pass[p].cash >= 0
      /\ \A s \in Symbols : pass[p].shares[s] \in Int => pass[p].shares[s] >= 0
  BY <1>1 DEF SolventInv
<1>3. cash' >= 0 /\ \A s \in Symbols : position'[s] >= 0
  BY <1>1, <1>2 DEF MatchCommit, SolventInv, NothingOverdrawn
<1>4. /\ pass'[p] = [pc |-> "settle", day |-> pass[p].day]
      /\ \A q \in Passes \ {p} : pass'[q] = pass[q]
  BY DEF MatchCommit, TypeInv, TypeOK
<1>5. ASSUME NEW q \in Passes, InMatch(q)'
      PROVE  q # p /\ InMatch(q) /\ pass'[q] = pass[q]
  BY <1>4, <1>5 DEF InMatch
<1> QED
  BY <1>3, <1>5 DEF SolventInv, NothingOverdrawn

\* The other steps of a pass forget, or keep, what it remembers.
LEMMA PassStepSolvent ==
  ASSUME TypeInv, SolventInv, NEW p \in Passes,
         \/ \E d \in RunDays : Begin(p, d)
         \/ Flush(p)
         \/ SettleRead(p)
         \/ SettleCommit(p)
         \/ Abort(p)
  PROVE  SolventInv'
<1>1. UNCHANGED <<cash, position>>
  BY DEF Begin, Flush, SettleRead, SettleCommit, Abort, accountVars
<1>2. /\ \A q \in Passes \ {p} : pass'[q] = pass[q]
      /\ pass \in [Passes -> PassStates]
  BY DEF Begin, Flush, SettleRead, SettleCommit, Abort, TypeInv, TypeOK
<1>3. ASSUME InMatch(p)'
      PROVE  /\ pass'[p].cash \in Int => pass'[p].cash >= 0
             /\ \A s \in Symbols : pass'[p].shares[s] \in Int => pass'[p].shares[s] >= 0
  <2>1. CASE \E d \in RunDays : Begin(p, d)
    <3>1. pass'[p].cash = Unset /\ \A s \in Symbols : pass'[p].shares[s] = Unset
      BY <1>2, <2>1 DEF Begin
    <3> QED
      BY <3>1, UnsetAssumption
  <2>2. CASE Flush(p)
    <3>1. pass[p] \in Matching /\ InMatch(p)
      BY <1>2, <2>2 DEF Flush, PassStates, Idle, InMatch
    <3>2. pass'[p].cash = pass[p].cash /\ pass'[p].shares = pass[p].shares
      BY <1>2, <2>2, <3>1 DEF Flush, Matching
    <3> QED
      BY <3>1, <3>2 DEF SolventInv
  <2>3. CASE SettleRead(p) \/ SettleCommit(p) \/ Abort(p)
    BY <1>2, <1>3, <2>3 DEF SettleRead, SettleCommit, Abort, InMatch, Idle
  <2> QED
    BY <2>1, <2>2, <2>3
<1>4. ASSUME NEW q \in Passes \ {p}, InMatch(q)'
      PROVE  InMatch(q) /\ pass'[q] = pass[q]
  BY <1>2, <1>4 DEF InMatch
<1> QED
  BY <1>1, <1>3, <1>4 DEF SolventInv, NothingOverdrawn

\* Whatever passes overlap, abort or run again, cash and shares never become
\* negative (match_pending with try_fill), for any market and any fees that
\* leave something of a sale.
THEOREM SolventCorrect == Spec => []NothingOverdrawn
<1>1. Init => SolventInv
  BY CashAssumption DEF Init, SolventInv, NothingOverdrawn, InMatch, Idle
<1>2. TypeInv /\ SolventInv /\ [Next]_vars => SolventInv'
  <2> SUFFICES ASSUME TypeInv, SolventInv, [Next]_vars
               PROVE  SolventInv'
    OBVIOUS
  <2>1. CASE \/ \E s \in Symbols, side \in {"buy", "sell"}, q \in Quantities : Place(s, side, q)
             \/ \E s \in Symbols, d \in TradingDays : BarArrives(s, d)
             \/ NextDay
             \/ UNCHANGED vars
    BY <2>1 DEF Place, BarArrives, NextDay, vars, accountVars, SolventInv, NothingOverdrawn,
                InMatch
  <2>2. ASSUME NEW p \in Passes,
               \/ \E d \in RunDays : Begin(p, d)
               \/ Decide(p)
               \/ Flush(p)
               \/ MatchCommit(p)
               \/ SettleRead(p)
               \/ SettleCommit(p)
               \/ Abort(p)
        PROVE  SolventInv'
    BY <2>2, DecideSolvent, MatchCommitSolvent, PassStepSolvent
  <2> QED
    BY <2>1, <2>2 DEF Next
<1>3. Init => TypeInv
  BY InitTypeInv
<1>4. TypeInv /\ [Next]_vars => TypeInv'
  BY NextTypeInv
<1>5. SolventInv => NothingOverdrawn
  BY DEF SolventInv
<1> QED
  BY <1>1, <1>2, <1>3, <1>4, <1>5, PTL DEF Spec

-----------------------------------------------------------------------------
(* Whole lots *)

\* Every order is for whole lots, and so is every position that a pass
\* remembers.
LotsInv ==
  /\ WholeLots
  /\ \A i \in DOMAIN orders : orders[i].quantity % LotSize = 0
  /\ \A p \in Passes : InMatch(p) =>
       \A s \in Symbols : pass[p].shares[s] \in Int => pass[p].shares[s] % LotSize = 0

\* Sums and differences of multiples are multiples.
LEMMA DividedExactly ==
  ASSUME NEW L \in Nat \ {0}, NEW a \in Int, a % L = 0
  PROVE  a = L * (a \div L) /\ a \div L \in Int
BY SMTT(30)

LEMMA MultipleDivides ==
  ASSUME NEW L \in Nat \ {0}, NEW k \in Int
  PROVE  (L * k) % L = 0
BY SMTT(30)

LEMMA Distributes ==
  ASSUME NEW L \in Nat \ {0}, NEW k \in Int, NEW m \in Int
  PROVE  L * k + L * m = L * (k + m) /\ L * k - L * m = L * (k - m)
BY SMTT(30)

LEMMA MultiplesAdd ==
  ASSUME NEW L \in Nat \ {0}, NEW a \in Int, NEW b \in Int, a % L = 0, b % L = 0
  PROVE  (a + b) % L = 0 /\ (a - b) % L = 0
<1>1. PICK k \in Int : a = L * k
  BY DividedExactly
<1>2. PICK m \in Int : b = L * m
  BY DividedExactly
<1>3. a + b = L * (k + m) /\ a - b = L * (k - m)
  BY <1>1, <1>2, Distributes
<1>4. k + m \in Int /\ k - m \in Int
  OBVIOUS
<1> QED
  BY <1>3, <1>4, MultipleDivides

\* The shares after a fill.
LEMMA FillKeepsLots ==
  ASSUME NEW o \in OrderRows, NEW n \in Int, n % LotSize = 0, o.quantity % LotSize = 0
  PROVE  (n + ShareFlow(o.side, o.quantity)) % LotSize = 0
<1>1. o.quantity \in Int /\ LotSize \in Nat \ {0}
  <2>1. o.quantity \in Quantities
    BY DEF OrderRows
  <2>2. o.quantity \in Nat
    BY <2>1, QuantitiesAssumption
  <2> QED
    BY <2>2, FeeAssumption
<1>2. (n + o.quantity) % LotSize = 0 /\ (n - o.quantity) % LotSize = 0
  BY <1>1, MultiplesAdd
<1>3. n + (0 - o.quantity) = n - o.quantity
  BY <1>1
<1> QED
  BY <1>2, <1>3 DEF ShareFlow

LEMMA PlaceLots ==
  ASSUME TypeInv, LotsInv, NEW s \in Symbols, NEW side \in {"buy", "sell"},
         NEW q \in Quantities, Place(s, side, q)
  PROVE  LotsInv'
<1>1. q % LotSize = 0
  BY DEF Place, WholeOrExit, LotsInv, WholeLots
<1>2. orders \in Seq(OrderRows)
  BY DEF TypeInv, TypeOK
<1>3. /\ \A i \in 1..Len(orders) : orders'[i] = orders[i]
      /\ orders'[Len(orders) + 1].quantity = q
      /\ DOMAIN orders' = 1..(Len(orders) + 1)
      /\ DOMAIN orders = 1..Len(orders) /\ Len(orders) \in Nat
  <2> DEFINE o == [symbol |-> s, side |-> side, quantity |-> q, day |-> today,
                   status |-> "pending", fill |-> NoFill]
  <2>1. orders' = Append(orders, o) /\ o.quantity = q /\ o \in OrderRows
    BY DEF Place, OrderRows, TypeInv, TypeOK
  <2> HIDE DEF o
  <2>2. orders' \in Seq(OrderRows)
    BY <1>2, <2>1, AppendProperties
  <2>3. /\ \A i \in 1..Len(orders) : orders'[i] = orders[i]
        /\ orders'[Len(orders) + 1] = o
        /\ Len(orders') = Len(orders) + 1
    BY <1>2, <2>1, AppendProperties
  <2>4. /\ DOMAIN orders = 1..Len(orders) /\ Len(orders) \in Nat
        /\ DOMAIN orders' = 1..Len(orders')
    BY <1>2, <2>2, LenProperties
  <2> QED
    BY <2>1, <2>3, <2>4
<1>4. ASSUME NEW i \in DOMAIN orders'
      PROVE  orders'[i].quantity % LotSize = 0
  <2>1. CASE i = Len(orders) + 1
    BY <1>1, <1>3, <2>1
  <2>2. CASE i # Len(orders) + 1
    <3>1. i \in DOMAIN orders /\ orders'[i] = orders[i]
      BY <1>3, <2>2
    <3> QED
      BY <3>1 DEF LotsInv
  <2> QED
    BY <2>1, <2>2
<1> QED
  BY <1>4 DEF Place, LotsInv, WholeLots, InMatch

LEMMA DecideLots ==
  ASSUME TypeInv, LotsInv, NEW p \in Passes, Decide(p)
  PROVE  LotsInv'
<1> DEFINE o == orders[Current(p)]
<1>1. /\ Working(p) /\ pass[p] \in Matching /\ InMatch(p)
      /\ o \in OrderRows /\ o.symbol \in Symbols
      /\ o.quantity % LotSize = 0
  <2>1. Working(p)
    BY DEF Decide
  <2>2. pass[p] \in Matching /\ InMatch(p) /\ o \in OrderRows /\ Current(p) \in DOMAIN orders
    BY <2>1, CurrentIsOrder
  <2>3. o.quantity % LotSize = 0
    BY <2>2 DEF LotsInv
  <2> QED
    BY <2>1, <2>2, <2>3 DEF OrderRows
<1>2. PICK c \in CashSeen(p), n \in SharesSeen(p, o.symbol) :
        \/ /\ Fills(stored, o, pass[p].day, c, n)
           /\ pass' = [pass EXCEPT ![p] = Filled(p, c, n)]
        \/ pass' = [pass EXCEPT ![p] = Rejected(p, c, n)]
  BY DecideIs
<1>3. n \in Int /\ n % LotSize = 0
  <2>1. n \in Int /\ n \in {position[o.symbol], pass[p].shares[o.symbol]}
    BY <1>1, SeenIsInt
  <2> QED
    BY <1>1, <2>1 DEF LotsInv, WholeLots
<1>4. (n + ShareFlow(o.side, o.quantity)) % LotSize = 0
  BY <1>1, <1>3, FillKeepsLots
<1>5. ASSUME NEW r, pass' = [pass EXCEPT ![p] = r],
             \A s \in Symbols : r.shares[s] \in Int => r.shares[s] % LotSize = 0
      PROVE  LotsInv'
  <2>1. pass'[p] = r /\ \A q \in Passes \ {p} : pass'[q] = pass[q]
    BY <1>5 DEF TypeInv, TypeOK
  <2>2. UNCHANGED <<orders, position>>
    BY DEF Decide, accountVars
  <2>3. ASSUME NEW q \in Passes, InMatch(q)'
        PROVE  \A s \in Symbols : pass'[q].shares[s] \in Int
                                    => pass'[q].shares[s] % LotSize = 0
    <3>1. CASE q = p
      BY <1>5, <2>1, <3>1
    <3>2. CASE q # p
      BY <2>1, <2>3, <3>2 DEF LotsInv, InMatch
    <3> QED
      BY <3>1, <3>2
  <2> QED
    BY <2>2, <2>3 DEF LotsInv, WholeLots
<1>6. \A s \in Symbols : pass[p].shares[s] \in Int => pass[p].shares[s] % LotSize = 0
  BY <1>1 DEF LotsInv
<1>7. CASE /\ Fills(stored, o, pass[p].day, c, n)
           /\ pass' = [pass EXCEPT ![p] = Filled(p, c, n)]
  <2> DEFINE r == Filled(p, c, n)
  <2>1. /\ \A s \in Symbols \ {o.symbol} : r.shares[s] = pass[p].shares[s]
        /\ r.shares[o.symbol] = n + ShareFlow(o.side, o.quantity)
    BY <1>1, <1>7, FilledFields
  <2>2. pass' = [pass EXCEPT ![p] = r]
    BY <1>7
  <2> HIDE DEF r, o
  <2>3. \A s \in Symbols : r.shares[s] \in Int => r.shares[s] % LotSize = 0
    BY <1>4, <1>6, <2>1
  <2> QED
    BY <1>5, <2>2, <2>3
<1>8. CASE pass' = [pass EXCEPT ![p] = Rejected(p, c, n)]
  <2> DEFINE r == Rejected(p, c, n)
  <2>1. \A s \in Symbols : r.shares[s] = pass[p].shares[s] \/ r.shares[s] = n
    BY <1>1, RejectedFields
  <2>2. pass' = [pass EXCEPT ![p] = r]
    BY <1>8
  <2> HIDE DEF r, o
  <2>3. \A s \in Symbols : r.shares[s] \in Int => r.shares[s] % LotSize = 0
    BY <1>3, <1>6, <2>1
  <2> QED
    BY <1>5, <2>2, <2>3
<1> QED
  BY <1>2, <1>7, <1>8

LEMMA MatchCommitLots ==
  ASSUME TypeInv, LotsInv, NEW p \in Passes, MatchCommit(p)
  PROVE  LotsInv'
<1>1. /\ InMatch(p)
      /\ \A s \in pass[p].wrote : pass[p].shares[s] \in Int
  BY DEF MatchCommit, InMatch, TypeInv, PassInv
<1>2. \A s \in Symbols : pass[p].shares[s] \in Int => pass[p].shares[s] % LotSize = 0
  BY <1>1 DEF LotsInv
<1>3. \A s \in Symbols : position'[s] % LotSize = 0
  BY <1>1, <1>2 DEF MatchCommit, LotsInv, WholeLots
<1>4. \A i \in DOMAIN orders' : orders'[i].quantity % LotSize = 0
  BY CommitOrders DEF LotsInv
<1>5. /\ pass'[p] = [pc |-> "settle", day |-> pass[p].day]
      /\ \A q \in Passes \ {p} : pass'[q] = pass[q]
  BY DEF MatchCommit, TypeInv, TypeOK
<1>6. ASSUME NEW q \in Passes, InMatch(q)'
      PROVE  q # p /\ InMatch(q) /\ pass'[q] = pass[q]
  BY <1>5, <1>6 DEF InMatch
<1> QED
  BY <1>3, <1>4, <1>6 DEF LotsInv, WholeLots

LEMMA PassStepLots ==
  ASSUME TypeInv, LotsInv, NEW p \in Passes,
         \/ \E d \in RunDays : Begin(p, d)
         \/ Flush(p)
         \/ SettleRead(p)
         \/ SettleCommit(p)
         \/ Abort(p)
  PROVE  LotsInv'
<1>1. UNCHANGED <<orders, position>>
  BY DEF Begin, Flush, SettleRead, SettleCommit, Abort, accountVars
<1>2. /\ \A q \in Passes \ {p} : pass'[q] = pass[q]
      /\ pass \in [Passes -> PassStates]
  BY DEF Begin, Flush, SettleRead, SettleCommit, Abort, TypeInv, TypeOK
<1>3. ASSUME InMatch(p)'
      PROVE  \A s \in Symbols : pass'[p].shares[s] \in Int
                                  => pass'[p].shares[s] % LotSize = 0
  <2>1. CASE \E d \in RunDays : Begin(p, d)
    <3>1. \A s \in Symbols : pass'[p].shares[s] = Unset
      BY <1>2, <2>1 DEF Begin
    <3> QED
      BY <3>1, UnsetAssumption
  <2>2. CASE Flush(p)
    <3>1. pass[p] \in Matching /\ InMatch(p)
      BY <1>2, <2>2 DEF Flush, PassStates, Idle, InMatch
    <3>2. pass'[p].shares = pass[p].shares
      BY <1>2, <2>2, <3>1 DEF Flush, Matching
    <3> QED
      BY <3>1, <3>2 DEF LotsInv
  <2>3. CASE SettleRead(p) \/ SettleCommit(p) \/ Abort(p)
    BY <1>2, <1>3, <2>3 DEF SettleRead, SettleCommit, Abort, InMatch, Idle
  <2> QED
    BY <2>1, <2>2, <2>3
<1>4. ASSUME NEW q \in Passes \ {p}, InMatch(q)'
      PROVE  InMatch(q) /\ pass'[q] = pass[q]
  BY <1>2, <1>4 DEF InMatch
<1> QED
  BY <1>1, <1>3, <1>4 DEF LotsInv, WholeLots

\* Positions stay whole lots: an odd sale is accepted only for exactly what
\* is held (place_order), which is never odd, and every pass moves whole
\* orders, so the exit rule is never used for anything else.
THEOREM LotsCorrect == Spec => []WholeLots
<1>1. Init => LotsInv
  BY FeeAssumption DEF Init, LotsInv, WholeLots, InMatch, Idle
<1>2. TypeInv /\ LotsInv /\ [Next]_vars => LotsInv'
  <2> SUFFICES ASSUME TypeInv, LotsInv, [Next]_vars
               PROVE  LotsInv'
    OBVIOUS
  <2>1. CASE \E s \in Symbols, side \in {"buy", "sell"}, q \in Quantities : Place(s, side, q)
    BY <2>1, PlaceLots
  <2>2. CASE \/ \E s \in Symbols, d \in TradingDays : BarArrives(s, d)
             \/ NextDay
             \/ UNCHANGED vars
    BY <2>2 DEF BarArrives, NextDay, vars, accountVars, LotsInv, WholeLots, InMatch
  <2>3. ASSUME NEW p \in Passes,
               \/ \E d \in RunDays : Begin(p, d)
               \/ Decide(p)
               \/ Flush(p)
               \/ MatchCommit(p)
               \/ SettleRead(p)
               \/ SettleCommit(p)
               \/ Abort(p)
        PROVE  LotsInv'
    BY <2>3, DecideLots, MatchCommitLots, PassStepLots
  <2> QED
    BY <2>1, <2>2, <2>3 DEF Next
<1>3. Init => TypeInv
  BY InitTypeInv
<1>4. TypeInv /\ [Next]_vars => TypeInv'
  BY NextTypeInv
<1>5. LotsInv => WholeLots
  BY DEF LotsInv
<1> QED
  BY <1>1, <1>2, <1>3, <1>4, <1>5, PTL DEF Spec

-----------------------------------------------------------------------------
(* Sums over finite sets *)

\* The sums of the model are folds.  The library's theorems on induction take
\* an operator, so each lemma here is proved from a least counterexample.

\* The index that a fold takes next.
Taken(s) == CHOOSE x \in s : TRUE

\* A set that is not empty has a member to take.
LEMMA TakenIsIn ==
  ASSUME NEW s, s # {}
  PROVE  Taken(s) \in s
BY DEF Taken

\* Of the subsets of a finite set that are in B, one has no smaller one in B:
\* a lemma about all finite sets can be proved from its least counterexample.
LEMMA LeastSubset ==
  ASSUME NEW S, IsFiniteSet(S), NEW B \in SUBSET (SUBSET S), B # {}
  PROVE  \E T \in B : IsFiniteSet(T) /\ \A U \in SUBSET T : U # T => U \notin B
<1>1. \A T \in SUBSET S : IsFiniteSet(T)
  BY FS_Subset
<1>2. B \subseteq FiniteSubsetsOf(S)
  BY <1>1 DEF FiniteSubsetsOf
<1>3. PICK T \in B : \A U \in B : ~(<<U, T>> \in StrictSubsetOrdering(S))
  BY <1>2, FS_StrictSubsetOrderingWellFounded, WFMin, Zenon
<1>4. \A U \in SUBSET T : U # T => U \notin B
  BY <1>3 DEF StrictSubsetOrdering
<1> QED
  BY <1>1, <1>4

\* g sums f over every subset of S.
SumGraph(f, S, g) ==
  g = [s \in SUBSET S |-> IF s = {} THEN 0 ELSE f[Taken(s)] + g[s \ {Taken(s)}]]

SumOver(f, S) == (CHOOSE g : SumGraph(f, S, g))[S]

\* The folds of the library come to this function.
LEMMA SumIsSumOver ==
  ASSUME NEW f, NEW S
  PROVE  SumFunctionOnSet(f, S) = SumOver(f, S)
BY DEF SumFunctionOnSet, FoldFunctionOnSet, MapThenFoldSet, SumOver, SumGraph, Taken

\* One step of the recursion.
LEMMA GraphAt ==
  ASSUME NEW f, NEW S, NEW g, SumGraph(f, S, g), NEW s \in SUBSET S
  PROVE  g[s] = IF s = {} THEN 0 ELSE f[Taken(s)] + g[s \ {Taken(s)}]
BY DEF SumGraph

\* No two functions satisfy it,
LEMMA GraphUnique ==
  ASSUME NEW f, NEW S, IsFiniteSet(S), NEW g, NEW h, SumGraph(f, S, g), SumGraph(f, S, h)
  PROVE  g = h
<1> DEFINE B == {s \in SUBSET S : g[s] # h[s]}
<1>1. SUFFICES ASSUME B # {} PROVE FALSE
  BY DEF SumGraph
<1>2. PICK T \in B : \A U \in SUBSET T : U # T => U \notin B
  <2>1. B \in SUBSET (SUBSET S)
    OBVIOUS
  <2> HIDE DEF B
  <2> QED
    BY <1>1, <2>1, LeastSubset
<1>3. T # {}
  <2>1. g[{}] = 0 /\ h[{}] = 0
    BY GraphAt
  <2> QED
    BY <1>2, <2>1
<1>4. T \ {Taken(T)} \in SUBSET T /\ T \ {Taken(T)} # T
  BY <1>3, TakenIsIn
<1>5. g[T \ {Taken(T)}] = h[T \ {Taken(T)}]
  BY <1>2, <1>4
<1> QED
  BY <1>2, <1>3, <1>5, GraphAt

\* it holds for the subsets of a subset too,
LEMMA GraphRestrict ==
  ASSUME NEW f, NEW S, NEW g, SumGraph(f, S, g), NEW T \in SUBSET S
  PROVE  SumGraph(f, T, [s \in SUBSET T |-> g[s]])
<1> DEFINE h == [s \in SUBSET T |-> g[s]]
<1>1. \A s \in SUBSET T : s \ {Taken(s)} \in SUBSET T /\ s \in SUBSET S
  OBVIOUS
<1>2. \A s \in SUBSET T : h[s] = IF s = {} THEN 0 ELSE f[Taken(s)] + h[s \ {Taken(s)}]
  BY <1>1, GraphAt
<1> QED
  BY <1>2 DEF SumGraph

\* and one function does satisfy it.
LEMMA GraphExists ==
  ASSUME NEW f, NEW S, IsFiniteSet(S)
  PROVE  \E g : SumGraph(f, S, g)
<1> DEFINE B == {T \in SUBSET S : ~\E g : SumGraph(f, T, g)}
<1>1. SUFFICES ASSUME B # {} PROVE FALSE
  OBVIOUS
<1>2. PICK T \in B : IsFiniteSet(T) /\ \A U \in SUBSET T : U # T => U \notin B
  <2>1. B \in SUBSET (SUBSET S)
    OBVIOUS
  <2> HIDE DEF B
  <2> QED
    BY <1>1, <2>1, LeastSubset
<1> DEFINE G(U) == CHOOSE g : SumGraph(f, U, g)
           h == [s \in SUBSET T |-> IF s = {} THEN 0 ELSE
                   f[Taken(s)] + SumOver(f, s \ {Taken(s)})]
<1>3. ASSUME NEW U \in SUBSET T, U # T
      PROVE  /\ SumGraph(f, U, G(U))
             /\ SumOver(f, U) = h[U]
  <2>1. SumGraph(f, U, G(U))
    BY <1>2, <1>3
  <2>2. SumOver(f, U) = G(U)[U]
    BY DEF SumOver
  <2>3. CASE U = {}
    BY <2>1, <2>2, <2>3, GraphAt
  <2>4. CASE U # {}
    <3> DEFINE V == U \ {Taken(U)}
    <3>1. V \in SUBSET U /\ V \in SUBSET T /\ V # T /\ IsFiniteSet(V)
      BY <1>2, <1>3, FS_Subset
    <3>2. SumGraph(f, V, G(V))
      BY <1>2, <3>1
    <3>3. G(V) = [s \in SUBSET V |-> G(U)[s]]
      <4> HIDE DEF V, G
      <4>1. SumGraph(f, V, [s \in SUBSET V |-> G(U)[s]])
        BY <2>1, <3>1, GraphRestrict
      <4> QED
      BY <3>1, <3>2, <4>1, GraphUnique
    <3>4. SumOver(f, V) = G(U)[V]
      BY <3>3 DEF SumOver
    <3>5. G(U)[U] = f[Taken(U)] + G(U)[V]
      BY <2>1, <2>4, GraphAt
    <3>6. h[U] = f[Taken(U)] + SumOver(f, V)
      BY <2>4
    <3>7. SumOver(f, U) = h[U]
      <4> HIDE DEF V, G, h
      <4> QED
        BY <2>2, <3>4, <3>5, <3>6
    <3> QED
      BY <2>1, <3>7
  <2> QED
    BY <2>1, <2>3, <2>4
<1>4. ASSUME NEW s \in SUBSET T
      PROVE  h[s] = IF s = {} THEN 0 ELSE f[Taken(s)] + h[s \ {Taken(s)}]
  <2>1. CASE s = {}
    BY <2>1
  <2>2. CASE s # {}
    <3>1. s \ {Taken(s)} \in SUBSET T /\ s \ {Taken(s)} # T
      BY <2>2, TakenIsIn
    <3>2. SumOver(f, s \ {Taken(s)}) = h[s \ {Taken(s)}]
      BY <1>3, <3>1
    <3> QED
      BY <2>2, <3>2
  <2> QED
    BY <2>1, <2>2
<1>5. SumGraph(f, T, h)
  <2> HIDE DEF G
  <2> QED
    BY <1>4 DEF SumGraph
<1> QED
  BY <1>2, <1>5

\* So the recursion holds for the sum.
LEMMA SumDef ==
  ASSUME NEW f, NEW S, IsFiniteSet(S)
  PROVE  SumOver(f, S) = IF S = {} THEN 0 ELSE f[Taken(S)] + SumOver(f, S \ {Taken(S)})
<1> DEFINE G(U) == CHOOSE g : SumGraph(f, U, g)
           V == S \ {Taken(S)}
<1>1. SumGraph(f, S, G(S))
  BY GraphExists
<1>2. IsFiniteSet(V) /\ V \in SUBSET S
  BY FS_Subset
<1>3. SumGraph(f, V, G(V))
  BY <1>2, GraphExists
<1>4. G(V) = [s \in SUBSET V |-> G(S)[s]]
  <2> HIDE DEF V, G
  <2>1. SumGraph(f, V, [s \in SUBSET V |-> G(S)[s]])
    BY <1>1, <1>2, GraphRestrict
  <2> QED
    BY <1>2, <1>3, <2>1, GraphUnique
<1>5. SumOver(f, V) = G(S)[V]
  BY <1>4 DEF SumOver
<1> QED
  BY <1>1, <1>5, GraphAt DEF SumOver

\* The sum over no index.
LEMMA SumEmpty ==
  ASSUME NEW f
  PROVE  SumFunctionOnSet(f, {}) = 0
BY FS_EmptySet, SumDef, SumIsSumOver

\* The sum without the index that is taken first.
LEMMA SumStep ==
  ASSUME NEW f, NEW S, IsFiniteSet(S), S # {}
  PROVE  SumFunctionOnSet(f, S) = f[Taken(S)] + SumFunctionOnSet(f, S \ {Taken(S)})
BY SumDef, SumIsSumOver

\* Functions that agree have the same sum.
LEMMA SumSame ==
  ASSUME NEW f, NEW g, NEW S, IsFiniteSet(S), \A x \in S : f[x] = g[x]
  PROVE  SumFunctionOnSet(f, S) = SumFunctionOnSet(g, S)
<1> DEFINE B == {T \in SUBSET S : SumFunctionOnSet(f, T) # SumFunctionOnSet(g, T)}
<1>1. SUFFICES ASSUME B # {} PROVE FALSE
  OBVIOUS
<1>2. PICK T \in B : IsFiniteSet(T) /\ \A U \in SUBSET T : U # T => U \notin B
  <2>1. B \in SUBSET (SUBSET S)
    OBVIOUS
  <2> HIDE DEF B
  <2> QED
    BY <1>1, <2>1, LeastSubset
<1>3. T # {}
  BY SumEmpty
<1> DEFINE V == T \ {Taken(T)}
<1>4. Taken(T) \in T /\ V \in SUBSET T /\ V # T
  BY <1>3, TakenIsIn
<1>5. SumFunctionOnSet(f, V) = SumFunctionOnSet(g, V)
  BY <1>2, <1>4
<1>6. /\ SumFunctionOnSet(f, T) = f[Taken(T)] + SumFunctionOnSet(f, V)
      /\ SumFunctionOnSet(g, T) = g[Taken(T)] + SumFunctionOnSet(g, V)
  BY <1>2, <1>3, SumStep
<1>7. f[Taken(T)] = g[Taken(T)]
  BY <1>4
<1> HIDE DEF V
<1> QED
  BY <1>5, <1>6, <1>7

\* A sum of integers is one.
LEMMA SumIsInt ==
  ASSUME NEW f, NEW S, IsFiniteSet(S), \A x \in S : f[x] \in Int
  PROVE  SumFunctionOnSet(f, S) \in Int
<1> DEFINE B == {T \in SUBSET S : SumFunctionOnSet(f, T) \notin Int}
<1>1. SUFFICES ASSUME B # {} PROVE FALSE
  OBVIOUS
<1>2. PICK T \in B : IsFiniteSet(T) /\ \A U \in SUBSET T : U # T => U \notin B
  <2>1. B \in SUBSET (SUBSET S)
    OBVIOUS
  <2> HIDE DEF B
  <2> QED
    BY <1>1, <2>1, LeastSubset
<1>3. T # {}
  BY SumEmpty
<1> DEFINE V == T \ {Taken(T)}
<1>4. Taken(T) \in T /\ V \in SUBSET T /\ V # T
  BY <1>3, TakenIsIn
<1>5. SumFunctionOnSet(f, V) \in Int
  BY <1>2, <1>4
<1>6. SumFunctionOnSet(f, T) = f[Taken(T)] + SumFunctionOnSet(f, V)
  BY <1>2, <1>3, SumStep
<1>7. f[Taken(T)] \in Int
  BY <1>4
<1>8. SumFunctionOnSet(f, T) \notin Int
  BY <1>2
<1> HIDE DEF V, B
<1> QED
  BY <1>5, <1>6, <1>7, <1>8

\* Any index may be taken first.
LEMMA SumTakeOut ==
  ASSUME NEW f, NEW S, IsFiniteSet(S), \A z \in S : f[z] \in Int, NEW x \in S
  PROVE  SumFunctionOnSet(f, S) = f[x] + SumFunctionOnSet(f, S \ {x})
<1> DEFINE Sum(T) == SumFunctionOnSet(f, T)
           B == {T \in SUBSET S : \E z \in T : Sum(T) # f[z] + Sum(T \ {z})}
<1>1. SUFFICES ASSUME B # {} PROVE FALSE
  OBVIOUS
<1>2. PICK T \in B : IsFiniteSet(T) /\ \A U \in SUBSET T : U # T => U \notin B
  <2>1. B \in SUBSET (SUBSET S)
    OBVIOUS
  <2> HIDE DEF B
  <2> QED
    BY <1>1, <2>1, LeastSubset
<1>3. PICK z \in T : Sum(T) # f[z] + Sum(T \ {z})
  BY <1>2
<1> DEFINE y == Taken(T)
           Both == (T \ {y}) \ {z}
<1>4. y \in T /\ Sum(T) = f[y] + Sum(T \ {y})
  BY <1>2, <1>3, SumStep, TakenIsIn
<1>5. y # z
  BY <1>3, <1>4
<1>6. Sum(T \ {y}) = f[z] + Sum(Both)
  <2>1. T \ {y} \notin B
    BY <1>2, <1>4
  <2>2. z \in T \ {y} /\ T \ {y} \in SUBSET S
    BY <1>2, <1>5
  <2> QED
    BY <2>1, <2>2
<1>7. Sum(T \ {z}) = f[y] + Sum(Both)
  <2>1. T \ {z} \notin B
    BY <1>2, <1>3
  <2>2. y \in T \ {z} /\ T \ {z} \in SUBSET S /\ (T \ {z}) \ {y} = Both
    BY <1>2, <1>4, <1>5
  <2> HIDE DEF Both, y, Sum
  <2> QED
    BY <2>1, <2>2
<1>8. f[y] \in Int /\ f[z] \in Int
  BY <1>2, <1>4
<1>9. Sum(Both) \in Int
  <2>1. Both \in SUBSET S
    BY <1>2
  <2>2. IsFiniteSet(Both) /\ \A v \in Both : f[v] \in Int
    BY <2>1, FS_Subset
  <2> HIDE DEF Both
  <2> QED
    BY <2>2, SumIsInt
<1> HIDE DEF Both, y, Sum, B
<1> QED
  BY <1>3, <1>4, <1>6, <1>7, <1>8, <1>9

\* A sum of zeros.
LEMMA SumZero ==
  ASSUME NEW f, NEW S, IsFiniteSet(S), \A x \in S : f[x] = 0
  PROVE  SumFunctionOnSet(f, S) = 0
<1> DEFINE B == {T \in SUBSET S : SumFunctionOnSet(f, T) # 0}
<1>1. SUFFICES ASSUME B # {} PROVE FALSE
  OBVIOUS
<1>2. PICK T \in B : IsFiniteSet(T) /\ \A U \in SUBSET T : U # T => U \notin B
  <2>1. B \in SUBSET (SUBSET S)
    OBVIOUS
  <2> HIDE DEF B
  <2> QED
    BY <1>1, <2>1, LeastSubset
<1>3. T # {}
  BY SumEmpty
<1> DEFINE V == T \ {Taken(T)}
<1>4. Taken(T) \in T /\ V \in SUBSET T /\ V # T
  BY <1>3, TakenIsIn
<1>5. SumFunctionOnSet(f, V) = 0
  BY <1>2, <1>4
<1>6. SumFunctionOnSet(f, T) = f[Taken(T)] + SumFunctionOnSet(f, V)
  BY <1>2, <1>3, SumStep
<1>7. f[Taken(T)] = 0 /\ SumFunctionOnSet(f, T) # 0
  BY <1>2, <1>4
<1> HIDE DEF V, B
<1> QED
  BY <1>5, <1>6, <1>7

\* Sums over disjoint sets add up.
LEMMA SumOfDisjoint ==
  ASSUME NEW f, NEW S, NEW R, IsFiniteSet(S), IsFiniteSet(R), S \cap R = {},
         \A z \in S \cup R : f[z] \in Int
  PROVE  SumFunctionOnSet(f, S \cup R) = SumFunctionOnSet(f, S) + SumFunctionOnSet(f, R)
<1> DEFINE Sum(T) == SumFunctionOnSet(f, T)
           B == {T \in SUBSET S : Sum(T \cup R) # Sum(T) + Sum(R)}
<1>1. SUFFICES ASSUME B # {} PROVE FALSE
  OBVIOUS
<1>2. PICK T \in B : IsFiniteSet(T) /\ \A U \in SUBSET T : U # T => U \notin B
  <2>1. B \in SUBSET (SUBSET S)
    OBVIOUS
  <2> HIDE DEF B
  <2> QED
    BY <1>1, <2>1, LeastSubset
<1>3. Sum(R) \in Int
  BY SumIsInt
<1>4. CASE T = {}
  <2>1. Sum(T \cup R) = Sum(R) /\ Sum(T) = 0
    BY <1>4, SumEmpty
  <2>2. Sum(T \cup R) # Sum(T) + Sum(R)
    BY <1>2
  <2> HIDE DEF Sum, B
  <2> QED
    BY <1>3, <2>1, <2>2
<1>5. CASE T # {}
  <2> DEFINE y == Taken(T)
             V == T \ {y}
  <2>1. y \in T /\ y \in S /\ V \in SUBSET S /\ V \in SUBSET T /\ V # T
    BY <1>2, <1>5, TakenIsIn
  <2>2. Sum(V \cup R) = Sum(V) + Sum(R)
    BY <1>2, <2>1
  <2>3. IsFiniteSet(T \cup R) /\ y \in T \cup R
    BY <1>2, <2>1, FS_Union
  <2>4. \A z \in T \cup R : f[z] \in Int
    BY <1>2
  <2>5. (T \cup R) \ {y} = V \cup R
    BY <2>1
  <2>6. Sum(T \cup R) = f[y] + Sum(V \cup R)
    BY <2>3, <2>4, <2>5, SumTakeOut
  <2>7. Sum(T) = f[y] + Sum(V)
    BY <1>2, <1>5, SumStep
  <2>8. f[y] \in Int /\ Sum(V) \in Int
    BY <2>1, <2>4, FS_Subset, SumIsInt
  <2>9. Sum(T \cup R) # Sum(T) + Sum(R)
    BY <1>2
  <2> HIDE DEF y, V, Sum, B
  <2> QED
    BY <1>3, <2>2, <2>6, <2>7, <2>8, <2>9
<1> QED
  BY <1>4, <1>5

\* The change of a sum when one summand, which was 0, gets a value.
LEMMA SumChangesBy ==
  ASSUME NEW f, NEW g, NEW S, IsFiniteSet(S), NEW x \in S,
         \A z \in S : f[z] \in Int /\ g[z] \in Int,
         \A z \in S \ {x} : f[z] = g[z], f[x] = 0
  PROVE  SumFunctionOnSet(g, S) = SumFunctionOnSet(f, S) + g[x]
<1>1. /\ SumFunctionOnSet(g, S) = g[x] + SumFunctionOnSet(g, S \ {x})
      /\ SumFunctionOnSet(f, S) = f[x] + SumFunctionOnSet(f, S \ {x})
  BY SumTakeOut
<1>2. IsFiniteSet(S \ {x})
  BY FS_Subset
<1>3. SumFunctionOnSet(g, S \ {x}) = SumFunctionOnSet(f, S \ {x})
  BY <1>2, SumSame
<1>4. SumFunctionOnSet(f, S \ {x}) \in Int
  BY <1>2, SumIsInt
<1> QED
  BY <1>1, <1>3, <1>4

-----------------------------------------------------------------------------
(* What orders move *)

CashOf(os) ==
  [i \in DOMAIN os |->
     IF os[i].status = "filled"
     THEN CashFlow(os[i].side, os[i].fill.amount, os[i].fill.fee) ELSE 0]

SharesOf(os, s) ==
  [i \in DOMAIN os |->
     IF os[i].status = "filled" /\ os[i].symbol = s
     THEN ShareFlow(os[i].side, os[i].quantity) ELSE 0]

\* These are the sums of PaperBook, and its fills are those of the engine.
LEMMA BookOperators ==
  /\ \A os, I : Book!CashMoved(os, I) = SumFunctionOnSet(CashOf(os), I)
  /\ \A os, I, s : Book!SharesMoved(os, I, s) = SumFunctionOnSet(SharesOf(os, s), I)
  /\ \A o, d : Book!FillAt(o, d) = FillAt(o, d)
  /\ Book!Days = Days
<1>1. ASSUME NEW os, NEW I
      PROVE  Book!CashMoved(os, I) = SumFunctionOnSet(CashOf(os), I)
  BY DEF Book!CashMoved, CashOf, Book!CashFlow, CashFlow,
         Book!SumFunctionOnSet, Book!FoldFunctionOnSet, Book!MapThenFoldSet,
         SumFunctionOnSet, FoldFunctionOnSet, MapThenFoldSet
<1>2. ASSUME NEW os, NEW I, NEW s
      PROVE  Book!SharesMoved(os, I, s) = SumFunctionOnSet(SharesOf(os, s), I)
  BY DEF Book!SharesMoved, SharesOf, Book!ShareFlow, ShareFlow,
         Book!SumFunctionOnSet, Book!FoldFunctionOnSet, Book!MapThenFoldSet,
         SumFunctionOnSet, FoldFunctionOnSet, MapThenFoldSet
<1>3. ASSUME NEW o, NEW d
      PROVE  Book!FillAt(o, d) = FillAt(o, d)
  BY DEF Book!FillAt, FillAt, Book!Amount, Amount, Book!Fee, Fee,
         Book!FillPrice, FillPrice, Book!Commission, Commission
<1>4. Book!Days = Days
  BY DEF Book!Days, Days
<1> QED
  BY <1>1, <1>2, <1>3, <1>4

\* A row whose fill is one, if it is filled.
Sound(o) == o.status = "filled" => o.fill \in FillRecords

\* What a row moves is a number, and a row that is not filled moves nothing.
LEMMA FlowOfRow ==
  ASSUME NEW os, NEW i \in DOMAIN os, os[i] \in OrderRows, Sound(os[i])
  PROVE  /\ CashOf(os)[i] \in Int
         /\ \A s \in Symbols : SharesOf(os, s)[i] \in Int
         /\ os[i].status # "filled" => /\ CashOf(os)[i] = 0
                                       /\ \A s \in Symbols : SharesOf(os, s)[i] = 0
<1> DEFINE o == os[i]
<1>1. o.quantity \in Nat
  BY QuantitiesAssumption DEF OrderRows
<1>2. o.status = "filled" => o.fill.amount \in Nat /\ o.fill.fee \in Nat
  BY DEF Sound, FillRecords
<1>3. ShareFlow(o.side, o.quantity) \in Int
  BY <1>1 DEF ShareFlow
<1>4. o.status = "filled" => CashFlow(o.side, o.fill.amount, o.fill.fee) \in Int
  BY <1>2 DEF CashFlow
<1> QED
  BY <1>3, <1>4 DEF CashOf, SharesOf

-----------------------------------------------------------------------------
(* The account implements PaperBook *)

\* The orders as decisions would leave them, and what they would move.
DecisionSets == [Numbers -> FillRecords \cup {NoFill, Unset}]

After(dec) == [i \in DOMAIN orders |-> Outcome(orders[i], dec[i])]

CashMovedBy(dec, d)      == SumFunctionOnSet(CashOf(After(dec)), Due(d))
SharesMovedBy(dec, d, s) == SumFunctionOnSet(SharesOf(After(dec), s), Due(d))

\* What a pass without a rival has decided, and what it remembers of the
\* account, come to exactly what its fills move.
Decisions(p) ==
  /\ pass[p].todo \subseteq Due(pass[p].day)
  /\ \A i \in Numbers :
       /\ pass[p].decided[i] # Unset <=> i \in Due(pass[p].day) \ pass[p].todo
       /\ pass[p].decided[i] \in FillRecords =>
            /\ pass[p].day \in TradingDays
            /\ pass[p].decided[i] = FillAt(orders[i], pass[p].day)

CashAccounted(p) ==
  LET moved == CashMovedBy(pass[p].decided, pass[p].day)
  IN  IF pass[p].locked \/ pass[p].pc = "flush"
      THEN pass[p].cash = cash + moved
      ELSE moved = 0 /\ pass[p].cash \in {Unset, cash}

SharesAccounted(p) ==
  \A s \in Symbols :
    LET moved == SharesMovedBy(pass[p].decided, pass[p].day, s)
    IN  IF s \in pass[p].wrote
        THEN pass[p].shares[s] = position[s] + moved
        ELSE moved = 0 /\ pass[p].shares[s] \in {Unset, position[s]}

Accounted(p) == Decisions(p) /\ CashAccounted(p) /\ SharesAccounted(p)

\* As far as ImplementsBook speaks of the account.
Calm == ~contested /\ "future" \notin skew

Alone == contested \/ \A p, q \in Passes : pass[p] # Idle /\ pass[q] # Idle => p = q

BookInv ==
  /\ Alone
  /\ Calm => \A p \in Passes : pass[p] # Idle =>
                 pass[p].day <= today /\ (InMatch(p) => Accounted(p))

\* Due orders exist, and are finitely many.
LEMMA DueIsFinite ==
  ASSUME TypeInv, NEW d
  PROVE  /\ Due(d) \subseteq DOMAIN orders
         /\ DOMAIN orders \subseteq Numbers
         /\ IsFiniteSet(DOMAIN orders) /\ IsFiniteSet(Due(d))
         /\ \A i \in DOMAIN orders : orders[i] \in OrderRows
<1>1. orders \in Seq(OrderRows) /\ Len(orders) <= MaxOrders
  BY DEF TypeInv, TypeOK
<1>2. DOMAIN orders = 1..Len(orders) /\ Len(orders) \in Nat
  BY <1>1, LenProperties
<1>3. Due(d) \subseteq DOMAIN orders
  BY DEF Due
<1>4. IsFiniteSet(DOMAIN orders)
  BY <1>2, FS_Interval
<1>5. IsFiniteSet(Due(d))
  BY <1>3, <1>4, FS_Subset
<1>6. DOMAIN orders \subseteq Numbers
  BY <1>1, <1>2, BoundsAssumption DEF Numbers
<1>7. \A i \in DOMAIN orders : orders[i] \in OrderRows
  BY <1>1, <1>2, ElementOfSeq
<1> QED
  BY <1>3, <1>4, <1>5, <1>6, <1>7

\* A decision on a pending row.
LEMMA OutcomeOfPending ==
  ASSUME NEW o \in OrderRows, o.status = "pending",
         NEW f \in FillRecords \cup {NoFill, Unset}
  PROVE  /\ Outcome(o, f) \in OrderRows /\ Sound(Outcome(o, f))
         /\ Outcome(o, f).symbol = o.symbol
         /\ Outcome(o, f).side = o.side
         /\ Outcome(o, f).quantity = o.quantity
         /\ f = Unset => Outcome(o, f) = o
         /\ f = NoFill => Outcome(o, f) = [o EXCEPT !.status = "rejected"]
         /\ f \in {Unset, NoFill} => Outcome(o, f).status # "filled"
         /\ f \in FillRecords =>
              /\ Outcome(o, f) = [o EXCEPT !.status = "filled", !.fill = f]
              /\ Outcome(o, f).status = "filled" /\ Outcome(o, f).fill = f
<1>1. CASE f = Unset
  BY <1>1, UnsetAssumption DEF Outcome, Sound, OrderRows
<1>2. CASE f = NoFill
  BY <1>2, UnsetAssumption DEF Outcome, Sound, OrderRows
<1>3. CASE f \in FillRecords
  BY <1>3, UnsetAssumption DEF Outcome, Sound, OrderRows
<1> QED
  BY <1>1, <1>2, <1>3

\* What a decision on a due order moves.
LEMMA FlowOfDecision ==
  ASSUME TypeInv, NEW dec \in DecisionSets, NEW d, NEW i \in Due(d)
  PROVE  /\ i \in DOMAIN After(dec) /\ i \in Numbers
         /\ CashOf(After(dec))[i] \in Int
         /\ CashOf(After(dec))[i] =
              IF dec[i] \in FillRecords
              THEN CashFlow(orders[i].side, dec[i].amount, dec[i].fee) ELSE 0
         /\ \A s \in Symbols :
              /\ SharesOf(After(dec), s)[i] \in Int
              /\ SharesOf(After(dec), s)[i] =
                   IF dec[i] \in FillRecords /\ orders[i].symbol = s
                   THEN ShareFlow(orders[i].side, orders[i].quantity) ELSE 0
<1> DEFINE f == dec[i]
           r == Outcome(orders[i], f)
<1>1. /\ i \in DOMAIN orders /\ i \in Numbers
      /\ orders[i] \in OrderRows /\ orders[i].status = "pending"
  BY DueIsFinite DEF Due
<1>2. f \in FillRecords \cup {NoFill, Unset}
  BY <1>1 DEF DecisionSets
<1>3. i \in DOMAIN After(dec) /\ After(dec)[i] = r
  BY <1>1 DEF After
<1>4. /\ r \in OrderRows /\ Sound(r)
      /\ r.symbol = orders[i].symbol /\ r.side = orders[i].side
      /\ r.quantity = orders[i].quantity
      /\ r.status = "filled" <=> f \in FillRecords
      /\ f \in FillRecords => r.fill = f
  BY <1>1, <1>2, UnsetAssumption, OutcomeOfPending
<1> HIDE DEF f, r
<1>5. /\ CashOf(After(dec))[i] \in Int
      /\ \A s \in Symbols : SharesOf(After(dec), s)[i] \in Int
  BY <1>3, <1>4, FlowOfRow
<1>6. CashOf(After(dec))[i] =
        IF f \in FillRecords THEN CashFlow(orders[i].side, f.amount, f.fee) ELSE 0
  BY <1>3, <1>4 DEF CashOf
<1>7. ASSUME NEW s \in Symbols
      PROVE  SharesOf(After(dec), s)[i] =
               IF f \in FillRecords /\ orders[i].symbol = s
               THEN ShareFlow(orders[i].side, orders[i].quantity) ELSE 0
  BY <1>3, <1>4 DEF SharesOf
<1> QED
  BY <1>1, <1>3, <1>5, <1>6, <1>7 DEF f

\* What decisions move is a number.
LEMMA MovedIsInt ==
  ASSUME TypeInv, NEW dec \in DecisionSets, NEW d
  PROVE  /\ CashMovedBy(dec, d) \in Int
         /\ \A s \in Symbols : SharesMovedBy(dec, d, s) \in Int
<1>1. CashMovedBy(dec, d) \in Int
  BY FlowOfDecision, DueIsFinite, SumIsInt DEF CashMovedBy
<1>2. \A s \in Symbols : SharesMovedBy(dec, d, s) \in Int
  BY FlowOfDecision, DueIsFinite, SumIsInt DEF SharesMovedBy
<1> QED
  BY <1>1, <1>2

\* Nothing decided, nothing moved.
LEMMA NothingMoved ==
  ASSUME TypeInv, NEW dec \in DecisionSets, NEW d, \A i \in Due(d) : dec[i] = Unset
  PROVE  /\ CashMovedBy(dec, d) = 0
         /\ \A s \in Symbols : SharesMovedBy(dec, d, s) = 0
<1>1. CashMovedBy(dec, d) = 0
  <2>1. \A i \in Due(d) : CashOf(After(dec))[i] = 0
    BY FlowOfDecision, UnsetAssumption
  <2> QED
    BY <2>1, DueIsFinite, SumZero DEF CashMovedBy
<1>2. ASSUME NEW s \in Symbols
      PROVE  SharesMovedBy(dec, d, s) = 0
  <2>1. \A i \in Due(d) : SharesOf(After(dec), s)[i] = 0
    BY FlowOfDecision, UnsetAssumption
  <2> QED
    BY <2>1, DueIsFinite, SumZero DEF SharesMovedBy
<1> QED
  BY <1>1, <1>2

\* One more decision.
LEMMA OneMoreDecision ==
  ASSUME TypeInv, NEW dec \in DecisionSets, NEW d, NEW i \in Due(d), dec[i] = Unset,
         NEW f \in FillRecords \cup {NoFill}
  PROVE  LET new == [dec EXCEPT ![i] = f]
             o   == orders[i]
         IN  /\ CashMovedBy(new, d) = CashMovedBy(dec, d)
                  + (IF f = NoFill THEN 0 ELSE CashFlow(o.side, f.amount, f.fee))
             /\ \A s \in Symbols :
                  SharesMovedBy(new, d, s) = SharesMovedBy(dec, d, s)
                    + (IF f = NoFill \/ o.symbol # s THEN 0
                       ELSE ShareFlow(o.side, o.quantity))
<1> DEFINE new == [dec EXCEPT ![i] = f]
           o   == orders[i]
<1>1. i \in Numbers /\ IsFiniteSet(Due(d))
  BY DueIsFinite
<1>2. /\ new \in DecisionSets /\ new[i] = f
      /\ \A j \in Numbers \ {i} : new[j] = dec[j]
  BY <1>1 DEF DecisionSets
<1>3. \A j \in Due(d) \ {i} : new[j] = dec[j]
  BY <1>2, FlowOfDecision
<1>4. dec[i] \notin FillRecords /\ (f = NoFill <=> f \notin FillRecords)
  BY UnsetAssumption
<1> HIDE DEF new
<1>5. CashMovedBy(new, d) = CashMovedBy(dec, d)
        + (IF f = NoFill THEN 0 ELSE CashFlow(o.side, f.amount, f.fee))
  <2> DEFINE F == CashOf(After(dec))
             G == CashOf(After(new))
  <2>1. \A j \in Due(d) : F[j] \in Int /\ G[j] \in Int
    BY <1>2, FlowOfDecision
  <2>2. \A j \in Due(d) \ {i} : F[j] = G[j]
    BY <1>2, <1>3, FlowOfDecision
  <2>3. F[i] = 0
    BY <1>4, FlowOfDecision
  <2>4. G[i] = IF f = NoFill THEN 0 ELSE CashFlow(o.side, f.amount, f.fee)
    BY <1>2, <1>4, FlowOfDecision
  <2> HIDE DEF F, G
  <2>5. SumFunctionOnSet(G, Due(d)) = SumFunctionOnSet(F, Due(d)) + G[i]
    BY <1>1, <2>1, <2>2, <2>3, SumChangesBy
  <2> QED
    BY <2>4, <2>5 DEF CashMovedBy, F, G
<1>6. ASSUME NEW s \in Symbols
      PROVE  SharesMovedBy(new, d, s) = SharesMovedBy(dec, d, s)
               + (IF f = NoFill \/ o.symbol # s THEN 0 ELSE ShareFlow(o.side, o.quantity))
  <2> DEFINE F == SharesOf(After(dec), s)
             G == SharesOf(After(new), s)
  <2>1. \A j \in Due(d) : F[j] \in Int /\ G[j] \in Int
    BY <1>2, FlowOfDecision
  <2>2. \A j \in Due(d) \ {i} : F[j] = G[j]
    BY <1>2, <1>3, FlowOfDecision
  <2>3. F[i] = 0
    BY <1>4, FlowOfDecision
  <2>4. G[i] = IF f = NoFill \/ o.symbol # s THEN 0 ELSE ShareFlow(o.side, o.quantity)
    BY <1>2, <1>4, FlowOfDecision
  <2> HIDE DEF F, G
  <2>5. SumFunctionOnSet(G, Due(d)) = SumFunctionOnSet(F, Due(d)) + G[i]
    BY <1>1, <2>1, <2>2, <2>3, SumChangesBy
  <2> QED
    BY <2>4, <2>5 DEF SharesMovedBy, F, G
<1> QED
  BY <1>5, <1>6 DEF new

\* One more decision.
With(dec, i, f) == [dec EXCEPT ![i] = f]

\* A pass without a rival sees the account as its own fills have left it.
LEMMA SeenIsAccounted ==
  ASSUME TypeInv, NEW p \in Passes, Working(p), Accounted(p)
  PROVE  LET dec == pass[p].decided
             d   == pass[p].day
         IN  /\ dec \in DecisionSets
             /\ \A c \in CashSeen(p) : c = cash + CashMovedBy(dec, d)
             /\ \A s \in Symbols : \A n \in SharesSeen(p, s) :
                  n = position[s] + SharesMovedBy(dec, d, s)
<1> DEFINE dec == pass[p].decided
           d   == pass[p].day
<1>1. pass[p] \in Matching /\ pass[p].pc = "match" /\ dec \in DecisionSets
  BY CurrentIsOrder DEF Matching, DecisionSets
<1>2. cash \in Int /\ \A s \in Symbols : position[s] \in Int
  BY DEF TypeInv, TypeOK
<1>3. ASSUME NEW c \in CashSeen(p)
      PROVE  c = cash + CashMovedBy(dec, d)
  <2>1. CASE pass[p].locked
    BY <1>3, <2>1 DEF Accounted, CashAccounted, CashSeen, Sees
  <2>2. CASE ~pass[p].locked
    BY <1>1, <1>2, <1>3, <2>2 DEF Accounted, CashAccounted, CashSeen, Sees
  <2> QED
    BY <2>1, <2>2
<1>4. ASSUME NEW s \in Symbols, NEW n \in SharesSeen(p, s)
      PROVE  n = position[s] + SharesMovedBy(dec, d, s)
  <2>1. CASE s \in pass[p].wrote
    BY <1>4, <2>1 DEF Accounted, SharesAccounted, SharesSeen, Sees
  <2>2. CASE s \notin pass[p].wrote
    BY <1>2, <1>4, <2>2 DEF Accounted, SharesAccounted, SharesSeen, Sees
  <2> QED
    BY <2>1, <2>2
<1> QED
  BY <1>1, <1>3, <1>4

\* The fields that a decision changes besides those named above.
LEMMA DecidedFields ==
  ASSUME TypeInv, NEW p \in Passes, Working(p), NEW c \in CashSeen(p),
         NEW n \in SharesSeen(p, orders[Current(p)].symbol)
  PROVE  /\ Filled(p, c, n).decided
              = With(pass[p].decided, Current(p), FillAt(orders[Current(p)], pass[p].day))
         /\ Filled(p, c, n).todo = pass[p].todo \ {Current(p)}
         /\ Filled(p, c, n).day = pass[p].day
         /\ Rejected(p, c, n).decided = With(pass[p].decided, Current(p), NoFill)
         /\ Rejected(p, c, n).todo = pass[p].todo \ {Current(p)}
         /\ Rejected(p, c, n).day = pass[p].day
         /\ Rejected(p, c, n).locked = pass[p].locked
         /\ \A s \in Symbols \ {orders[Current(p)].symbol} :
              Rejected(p, c, n).shares[s] = pass[p].shares[s]
         /\ Rejected(p, c, n).shares[orders[Current(p)].symbol]
              \in {n, pass[p].shares[orders[Current(p)].symbol]}
<1> DEFINE i == Current(p)
           o == orders[i]
           s == o.symbol
<1>1. pass[p] \in Matching /\ i \in Numbers /\ s \in Symbols
  BY CurrentIsOrder DEF OrderRows
<1>2. /\ Filled(p, c, n) =
           [pass[p] EXCEPT !.pc = "flush", !.todo = @ \ {i}, !.decided[i] = FillAt(o, pass[p].day),
                      !.cash = NewCash(o, FillAt(o, pass[p].day), c),
                      !.shares[s] = n + ShareFlow(o.side, o.quantity),
                      !.wrote = @ \cup {s}]
      /\ Rejected(p, c, n) =
           [pass[p] EXCEPT !.todo = @ \ {i}, !.decided[i] = NoFill, !.cash = c,
                           !.shares[s] = IF <<s, pass[p].day>> \in stored THEN n ELSE @]
  BY DEF Filled, Rejected
<1> HIDE DEF i, s
<1>3. /\ Filled(p, c, n).decided = With(pass[p].decided, i, FillAt(o, pass[p].day))
      /\ Filled(p, c, n).todo = pass[p].todo \ {i}
      /\ Filled(p, c, n).day = pass[p].day
  BY <1>1, <1>2 DEF Matching, With
<1>4. /\ Rejected(p, c, n).decided = With(pass[p].decided, i, NoFill)
      /\ Rejected(p, c, n).todo = pass[p].todo \ {i}
      /\ Rejected(p, c, n).day = pass[p].day
      /\ Rejected(p, c, n).locked = pass[p].locked
      /\ \A t \in Symbols \ {s} : Rejected(p, c, n).shares[t] = pass[p].shares[t]
      /\ Rejected(p, c, n).shares[s] \in {n, pass[p].shares[s]}
  BY <1>1, <1>2 DEF Matching, With
<1> QED
  BY <1>3, <1>4 DEF i, s

\* After one more decision the decisions are of due orders still.
LEMMA DecisionsGrow ==
  ASSUME TypeInv, NEW p \in Passes, Working(p), Accounted(p), Decide(p),
         NEW f \in FillRecords \cup {NoFill},
         f \in FillRecords => /\ pass[p].day \in TradingDays
                              /\ f = FillAt(orders[Current(p)], pass[p].day),
         pass'[p].decided = With(pass[p].decided, Current(p), f),
         pass'[p].todo = pass[p].todo \ {Current(p)},
         pass'[p].day = pass[p].day
  PROVE  /\ Current(p) \in Due(pass[p].day)
         /\ pass[p].decided[Current(p)] = Unset
         /\ Decisions(p)'
<1> DEFINE i == Current(p)
           d == pass[p].day
<1>1. /\ pass[p] \in Matching /\ i \in pass[p].todo /\ i \in Numbers
      /\ pass[p].decided \in DecisionSets
  BY CurrentIsOrder DEF Matching, DecisionSets
<1>2. orders' = orders
  BY DEF Decide, accountVars
<1>3. i \in Due(d) /\ pass[p].decided[i] = Unset
  BY <1>1 DEF Accounted, Decisions
<1>4. Due(d)' = Due(d)
  BY <1>2 DEF Due
<1>5. f # Unset
  BY UnsetAssumption
<1>6. /\ pass'[p].decided[i] = f
      /\ \A j \in Numbers \ {i} : pass'[p].decided[j] = pass[p].decided[j]
  BY <1>1 DEF DecisionSets, With
<1> HIDE DEF i
<1>7. ASSUME NEW j \in Numbers
      PROVE  /\ pass'[p].decided[j] # Unset <=> j \in Due(d) \ pass'[p].todo
             /\ pass'[p].decided[j] \in FillRecords =>
                  /\ d \in TradingDays
                  /\ pass'[p].decided[j] = FillAt(orders[j], d)
  <2>1. CASE j = i
    BY <1>3, <1>5, <1>6, <2>1 DEF i
  <2>2. CASE j # i
    <3>1. pass'[p].decided[j] = pass[p].decided[j]
      BY <1>6, <2>2
    <3>2. /\ pass[p].decided[j] # Unset <=> j \in Due(d) \ pass[p].todo
          /\ pass[p].decided[j] \in FillRecords =>
               d \in TradingDays /\ pass[p].decided[j] = FillAt(orders[j], d)
      BY DEF Accounted, Decisions
    <3>3. j \in pass'[p].todo <=> j \in pass[p].todo
      BY <2>2 DEF i
    <3> QED
      BY <3>1, <3>2, <3>3
  <2> QED
    BY <2>1, <2>2
<1>8. pass'[p].todo \subseteq Due(d)
  BY DEF Accounted, Decisions
<1>9. /\ pass'[p].day = d
      /\ \A j \in DOMAIN orders : orders'[j] = orders[j]
  BY <1>2
<1>10. Decisions(p)'
  BY <1>2, <1>4, <1>7, <1>8, <1>9 DEF Decisions
<1> QED
  BY <1>3, <1>10 DEF i

\* What a pass remembers still accounts for its fills after one more decision.
LEMMA DecideAccounted ==
  ASSUME TypeInv, NEW p \in Passes, Decide(p), Accounted(p)
  PROVE  Accounted(p)' /\ pass'[p].day = pass[p].day
<1> DEFINE i == Current(p)
           o == orders[i]
           d == pass[p].day
           dec == pass[p].decided
<1>1. /\ Working(p) /\ pass[p] \in Matching /\ pass[p].pc = "match"
      /\ i \in Numbers /\ o \in OrderRows /\ o.symbol \in Symbols
      /\ dec \in DecisionSets
  <2>1. Working(p)
    BY DEF Decide
  <2> QED
    BY <2>1, CurrentIsOrder DEF OrderRows, Matching, DecisionSets
<1>2. PICK c \in CashSeen(p), n \in SharesSeen(p, o.symbol) :
        \/ /\ Fills(stored, o, d, c, n)
           /\ pass' = [pass EXCEPT ![p] = Filled(p, c, n)]
        \/ pass' = [pass EXCEPT ![p] = Rejected(p, c, n)]
  BY DecideIs
<1>3. /\ c = cash + CashMovedBy(dec, d)
      /\ n = position[o.symbol] + SharesMovedBy(dec, d, o.symbol)
  BY <1>1, SeenIsAccounted
<1>4. /\ UNCHANGED <<orders, cash, position>>
      /\ \A s \in Symbols : position[s] \in Int
      /\ cash \in Int
  BY DEF Decide, accountVars, TypeInv, TypeOK
<1>5. /\ CashMovedBy(dec, d) \in Int
      /\ \A s \in Symbols : SharesMovedBy(dec, d, s) \in Int
  BY <1>1, MovedIsInt
<1>6. ASSUME NEW f \in FillRecords \cup {NoFill},
             f \in FillRecords => d \in TradingDays /\ f = FillAt(o, d),
             pass'[p].decided = With(dec, i, f),
             pass'[p].todo = pass[p].todo \ {i}, pass'[p].day = d
      PROVE  /\ Decisions(p)'
             /\ CashMovedBy(pass[p].decided, pass[p].day)' = CashMovedBy(dec, d)
                  + (IF f = NoFill THEN 0 ELSE CashFlow(o.side, f.amount, f.fee))
             /\ \A s \in Symbols :
                  SharesMovedBy(pass[p].decided, pass[p].day, s)' = SharesMovedBy(dec, d, s)
                    + (IF f = NoFill \/ o.symbol # s THEN 0
                       ELSE ShareFlow(o.side, o.quantity))
  <2>1. i \in Due(d) /\ dec[i] = Unset /\ Decisions(p)'
    BY <1>1, <1>6, DecisionsGrow
  <2>2. /\ CashMovedBy(pass[p].decided, pass[p].day)' = CashMovedBy(pass'[p].decided, d)
        /\ \A s \in Symbols : SharesMovedBy(pass[p].decided, pass[p].day, s)'
                                = SharesMovedBy(pass'[p].decided, d, s)
    BY <1>4, <1>6 DEF CashMovedBy, SharesMovedBy, After, Due
  <2>3. /\ CashMovedBy(With(dec, i, f), d) = CashMovedBy(dec, d)
             + (IF f = NoFill THEN 0 ELSE CashFlow(o.side, f.amount, f.fee))
        /\ \A s \in Symbols :
             SharesMovedBy(With(dec, i, f), d, s) = SharesMovedBy(dec, d, s)
               + (IF f = NoFill \/ o.symbol # s THEN 0
                  ELSE ShareFlow(o.side, o.quantity))
    <3>1. dec \in DecisionSets /\ i \in Due(d) /\ dec[i] = Unset
      BY <1>1, <2>1
    <3> HIDE DEF i, d, dec
    <3> QED
      BY <3>1, OneMoreDecision DEF With
  <2> HIDE DEF i, o, d, dec
  <2> QED
    BY <1>6, <2>1, <2>2, <2>3
<1>7. CASE /\ Fills(stored, o, d, c, n)
           /\ pass' = [pass EXCEPT ![p] = Filled(p, c, n)]
  <2> DEFINE f == FillAt(o, d)
             r == Filled(p, c, n)
  <2>1. /\ f \in FillRecords /\ d \in TradingDays
        /\ f.amount \in Nat /\ f.fee \in Nat
    <3>1. d \in Days /\ stored \subseteq Symbols \X TradingDays
      BY <1>1 DEF Matching, TypeInv, TypeOK
    <3>2. f \in FillRecords /\ d \in TradingDays
      BY <1>1, <1>7, <3>1, FillIsRecord
    <3> QED
      BY <3>2 DEF FillRecords
  <2>2. f # NoFill
    BY <2>1, UnsetAssumption
  <2>3. /\ r.pc = "flush" /\ r.wrote = pass[p].wrote \cup {o.symbol}
        /\ r.cash = NewCash(o, f, c)
        /\ \A s \in Symbols \ {o.symbol} : r.shares[s] = pass[p].shares[s]
        /\ r.shares[o.symbol] = n + ShareFlow(o.side, o.quantity)
    BY <1>1, <1>7, FilledFields
  <2>4. /\ r.decided = With(dec, i, f) /\ r.todo = pass[p].todo \ {i}
        /\ r.day = d
    BY <1>1, DecidedFields
  <2>5. pass'[p] = r
    BY <1>7 DEF TypeInv, TypeOK
  <2> HIDE DEF i, o, d, dec, f, r
  <2>6. /\ Decisions(p)'
        /\ CashMovedBy(pass[p].decided, pass[p].day)' = CashMovedBy(dec, d)
             + CashFlow(o.side, f.amount, f.fee)
        /\ \A s \in Symbols :
             SharesMovedBy(pass[p].decided, pass[p].day, s)' = SharesMovedBy(dec, d, s)
               + (IF o.symbol # s THEN 0 ELSE ShareFlow(o.side, o.quantity))
    BY <1>6, <2>1, <2>2, <2>4, <2>5 DEF f
  <2>7. CashFlow(o.side, f.amount, f.fee) \in Int /\ ShareFlow(o.side, o.quantity) \in Int
    <3>1. o.quantity \in Nat
      BY <1>1, QuantitiesAssumption DEF OrderRows
    <3> QED
      BY <2>1, <3>1 DEF CashFlow, ShareFlow
  <2>8. CashAccounted(p)'
    <3>1. pass'[p].cash = cash' + CashMovedBy(pass[p].decided, pass[p].day)'
      BY <1>3, <1>4, <1>5, <2>3, <2>5, <2>6, <2>7 DEF NewCash
    <3> QED
      BY <2>3, <2>5, <3>1 DEF CashAccounted
  <2>9. ASSUME NEW s \in Symbols
        PROVE  IF s \in pass'[p].wrote
               THEN pass'[p].shares[s] = position'[s]
                      + SharesMovedBy(pass[p].decided, pass[p].day, s)'
               ELSE /\ SharesMovedBy(pass[p].decided, pass[p].day, s)' = 0
                    /\ pass'[p].shares[s] \in {Unset, position'[s]}
    <3>1. CASE s = o.symbol
      BY <1>3, <1>4, <1>5, <2>3, <2>5, <2>6, <2>7, <3>1
    <3>2. CASE s # o.symbol
      <4>1. IF s \in pass[p].wrote
            THEN pass[p].shares[s] = position[s] + SharesMovedBy(dec, d, s)
            ELSE SharesMovedBy(dec, d, s) = 0 /\ pass[p].shares[s] \in {Unset, position[s]}
        BY DEF Accounted, SharesAccounted, dec, d
      <4>2. SharesMovedBy(pass[p].decided, pass[p].day, s)' = SharesMovedBy(dec, d, s)
        BY <1>5, <2>6, <3>2
      <4>3. pass'[p].shares[s] = pass[p].shares[s] /\ (s \in pass'[p].wrote <=> s \in pass[p].wrote)
        BY <2>3, <2>5, <3>2
      <4> QED
        BY <1>4, <4>1, <4>2, <4>3
    <3> QED
      BY <3>1, <3>2
  <2> QED
    BY <2>4, <2>5, <2>6, <2>8, <2>9 DEF Accounted, SharesAccounted, d
<1>8. CASE pass' = [pass EXCEPT ![p] = Rejected(p, c, n)]
  <2> DEFINE r == Rejected(p, c, n)
  <2>1. r.pc = "match" /\ r.wrote = pass[p].wrote /\ r.cash = c
    BY <1>1, RejectedFields
  <2>2. /\ r.decided = With(dec, i, NoFill) /\ r.todo = pass[p].todo \ {i}
        /\ r.day = d /\ r.locked = pass[p].locked
        /\ \A s \in Symbols \ {o.symbol} : r.shares[s] = pass[p].shares[s]
        /\ r.shares[o.symbol] \in {n, pass[p].shares[o.symbol]}
    BY <1>1, DecidedFields
  <2>3. pass'[p] = r
    BY <1>8 DEF TypeInv, TypeOK
  <2> HIDE DEF i, o, d, dec, r
  <2>4. /\ Decisions(p)'
        /\ CashMovedBy(pass[p].decided, pass[p].day)' = CashMovedBy(dec, d)
        /\ \A s \in Symbols :
             SharesMovedBy(pass[p].decided, pass[p].day, s)' = SharesMovedBy(dec, d, s)
    BY <1>5, <1>6, <2>2, <2>3, UnsetAssumption
  <2>5. CashAccounted(p)'
    <3>1. pass[p].locked \/ CashMovedBy(dec, d) = 0
      BY <1>1 DEF Accounted, CashAccounted, dec, d
    <3>2. pass'[p].cash = cash + CashMovedBy(dec, d)
      BY <1>3, <2>1, <2>3
    <3> QED
      BY <1>4, <2>1, <2>2, <2>3, <2>4, <3>1, <3>2 DEF CashAccounted
  <2>6. ASSUME NEW s \in Symbols
        PROVE  IF s \in pass'[p].wrote
               THEN pass'[p].shares[s] = position'[s]
                      + SharesMovedBy(pass[p].decided, pass[p].day, s)'
               ELSE /\ SharesMovedBy(pass[p].decided, pass[p].day, s)' = 0
                    /\ pass'[p].shares[s] \in {Unset, position'[s]}
    <3>1. IF s \in pass[p].wrote
          THEN pass[p].shares[s] = position[s] + SharesMovedBy(dec, d, s)
          ELSE SharesMovedBy(dec, d, s) = 0 /\ pass[p].shares[s] \in {Unset, position[s]}
      BY DEF Accounted, SharesAccounted, dec, d
    <3>2. \/ pass'[p].shares[s] = pass[p].shares[s]
          \/ pass'[p].shares[s] = position[s] + SharesMovedBy(dec, d, s)
      BY <1>3, <2>2, <2>3
    <3> QED
      BY <1>4, <2>1, <2>3, <2>4, <3>1, <3>2
  <2> QED
    BY <2>2, <2>3, <2>4, <2>5, <2>6 DEF Accounted, SharesAccounted, d
<1> QED
  BY <1>2, <1>7, <1>8

\* Without an overlap, the other passes are idle.
LEMMA NoRival ==
  ASSUME BookInv, ~contested, NEW p \in Passes, pass[p] # Idle
  PROVE  \A q \in Passes \ {p} : pass[q] = Idle
BY DEF BookInv, Alone

\* The histories only grow, and so does what has been skewed.
LEMMA CalmBefore ==
  ASSUME TypeInv, [Next]_vars
  PROVE  (~contested)' => ~contested
BY DEF TypeInv, TypeOK, Next, vars, Place, Begin, Decide, Flush, MatchCommit, SettleRead,
       SettleCommit, Abort, BarArrives, NextDay

LEMMA PastSkew ==
  ASSUME TypeInv, [Next]_vars
  PROVE  skew \subseteq skew'
BY DEF TypeInv, TypeOK, Next, vars, Place, Begin, Decide, Flush, MatchCommit, SettleRead,
       SettleCommit, Abort, BarArrives, NextDay

\* A step of a pass that is under way.
LEMMA PassStepBook ==
  ASSUME TypeInv, BookInv, NEW p \in Passes, pass[p] # Idle, UNCHANGED <<today, contested, skew>>,
         NEW state, pass' = [pass EXCEPT ![p] = state],
         state # Idle => state.day = pass[p].day,
         Calm /\ InMatch(p)' => Accounted(p)'
  PROVE  BookInv'
<1>1. pass'[p] = state /\ \A q \in Passes \ {p} : pass'[q] = pass[q]
  BY DEF TypeInv, TypeOK
<1>2. Alone'
  BY <1>1 DEF BookInv, Alone
<1>3. Calm' => Calm
  BY DEF Calm
<1>4. ASSUME Calm', NEW q \in Passes, pass'[q] # Idle
      PROVE  pass'[q].day <= today' /\ (InMatch(q)' => Accounted(q)')
  <2>1. q = p
    BY <1>1, <1>3, <1>4, NoRival DEF Calm
  <2>2. pass[p].day <= today
    BY <1>3, <1>4 DEF BookInv
  <2> QED
    BY <1>1, <1>3, <1>4, <2>1, <2>2
<1> QED
  BY <1>2, <1>4 DEF BookInv

\* A new order is of today, and no pass runs for a later day: none is due.
LEMMA PlaceBook ==
  ASSUME TypeInv, BookInv, NEW s \in Symbols, NEW side \in {"buy", "sell"},
         NEW q \in Quantities, Place(s, side, q)
  PROVE  BookInv'
<1> DEFINE o == [symbol |-> s, side |-> side, quantity |-> q, day |-> today,
                 status |-> "pending", fill |-> NoFill]
<1>1. /\ UNCHANGED <<cash, position, today, pass, contested, skew>>
      /\ orders' = Append(orders, o) /\ o.day = today
      /\ orders \in Seq(OrderRows) /\ o \in OrderRows
  BY DEF Place, TypeInv, TypeOK, OrderRows
<1> HIDE DEF o
<1>2. /\ DOMAIN orders = 1..Len(orders) /\ Len(orders) \in Nat
      /\ DOMAIN orders' = 1..(Len(orders) + 1)
      /\ \A i \in DOMAIN orders : orders'[i] = orders[i]
      /\ orders'[Len(orders) + 1] = o
  BY <1>1, AppendProperties, LenProperties
<1>3. ASSUME NEW p \in Passes, Calm, InMatch(p), Accounted(p), pass[p].day <= today
      PROVE  Accounted(p)'
  <2> DEFINE d == pass[p].day
             dec == pass[p].decided
  <2>1. /\ pass[p] \in Matching /\ dec \in DecisionSets /\ d \in Int /\ today \in Int
        /\ pass' = pass
    BY <1>1, <1>3 DEF TypeInv, TypeOK, PassStates, Idle, InMatch, Matching, DecisionSets, Days
  <2>2. Due(d)' = Due(d)
    BY <1>1, <1>2, <1>3, <2>1 DEF Due
  <2>3. Due(d) \subseteq DOMAIN orders /\ IsFiniteSet(Due(d))
    BY DueIsFinite
  <2>4. \A i \in Due(d) : After(dec)'[i] = After(dec)[i] /\ i \in DOMAIN After(dec)
                           /\ i \in DOMAIN (After(dec)')
    BY <1>2, <2>1, <2>3 DEF After
  <2>5. CashMovedBy(dec, d)' = CashMovedBy(dec, d)
    <3>1. \A i \in Due(d) : CashOf(After(dec))[i] = CashOf(After(dec)')[i]
      BY <2>4 DEF CashOf
    <3>2. SumFunctionOnSet(CashOf(After(dec)), Due(d))
            = SumFunctionOnSet(CashOf(After(dec)'), Due(d))
      BY <2>3, <3>1, SumSame
    <3>3. CashMovedBy(dec, d)' = SumFunctionOnSet(CashOf(After(dec)'), Due(d)')
      BY <2>1 DEF CashMovedBy
    <3> HIDE DEF d, dec
    <3> QED
      BY <2>2, <3>2, <3>3 DEF CashMovedBy
  <2>6. ASSUME NEW t \in Symbols
        PROVE  SharesMovedBy(dec, d, t)' = SharesMovedBy(dec, d, t)
    <3>1. \A i \in Due(d) : SharesOf(After(dec), t)[i] = SharesOf(After(dec)', t)[i]
      BY <2>4 DEF SharesOf
    <3>2. SumFunctionOnSet(SharesOf(After(dec), t), Due(d))
            = SumFunctionOnSet(SharesOf(After(dec)', t), Due(d))
      BY <2>3, <3>1, SumSame
    <3>3. SharesMovedBy(dec, d, t)' = SumFunctionOnSet(SharesOf(After(dec)', t), Due(d)')
      BY <2>1 DEF SharesMovedBy
    <3> HIDE DEF d, dec
    <3> QED
      BY <2>2, <3>2, <3>3 DEF SharesMovedBy
  <2>7. Decisions(p)'
    <3>1. \A i \in Due(d) : orders'[i] = orders[i]
      BY <1>2, <2>3
    <3>2. \A i \in Numbers : dec[i] \in FillRecords => i \in Due(d)
      BY <1>3, UnsetAssumption DEF Accounted, Decisions
    <3> QED
      BY <1>3, <2>1, <2>2, <3>1, <3>2 DEF Accounted, Decisions
  <2>8. CashAccounted(p)'
    BY <1>1, <1>3, <2>5 DEF Accounted, CashAccounted
  <2>9. SharesAccounted(p)'
    BY <1>1, <1>3, <2>6 DEF Accounted, SharesAccounted
  <2> QED
    BY <2>7, <2>8, <2>9 DEF Accounted
<1>4. Alone' /\ (Calm' => Calm)
  BY <1>1 DEF BookInv, Alone, Calm
<1>5. ASSUME Calm', NEW p \in Passes, pass'[p] # Idle
      PROVE  pass'[p].day <= today' /\ (InMatch(p)' => Accounted(p)')
  <2>1. pass[p].day <= today /\ (InMatch(p) => Accounted(p))
    BY <1>1, <1>4, <1>5 DEF BookInv
  <2>2. InMatch(p)' => InMatch(p)
    BY <1>1 DEF InMatch
  <2> QED
    BY <1>1, <1>3, <1>4, <1>5, <2>1, <2>2
<1> QED
  BY <1>4, <1>5 DEF BookInv

\* A pass begins with nothing decided and nothing remembered.
LEMMA BeginBook ==
  ASSUME TypeInv, BookInv, NEW p \in Passes, NEW d \in RunDays, Begin(p, d)
  PROVE  BookInv'
<1> DEFINE state ==
       [pc |-> "match", day |-> d, todo |-> Due(d), decided |-> [i \in Numbers |-> Unset],
        cash |-> Unset, shares |-> [s \in Symbols |-> Unset],
        wrote |-> {}, locked |-> FALSE]
<1>1. /\ pass'[p] = state /\ \A q \in Passes \ {p} : pass'[q] = pass[q]
      /\ UNCHANGED <<orders, cash, position, today>>
      /\ ~contested' => \A q \in Passes : pass[q] = Idle
      /\ ~contested' => ~contested
      /\ d \in Int /\ today \in Int
      /\ "future" \notin skew' => d <= today /\ "future" \notin skew
  <2>1. /\ pass'[p] = state /\ \A q \in Passes \ {p} : pass'[q] = pass[q]
        /\ UNCHANGED <<orders, cash, position, today>>
    BY DEF Begin, accountVars, TypeInv, TypeOK
  <2>2. /\ ~contested' => \A q \in Passes : pass[q] = Idle
        /\ ~contested' => ~contested
    BY DEF Begin
  <2>3. d \in Int /\ today \in Int
    BY BoundsAssumption, CalendarAssumption DEF TypeInv, TypeOK, Days
  <2>4. "future" \notin skew' => d <= today /\ "future" \notin skew
    BY <2>3 DEF Begin
  <2> QED
    BY <2>1, <2>2, <2>3, <2>4
<1>2. Alone'
  BY <1>1 DEF Alone
<1>3. Accounted(p)'
  <2> DEFINE dec == [i \in Numbers |-> Unset]
  <2>1. dec \in DecisionSets /\ \A i \in Due(d) : dec[i] = Unset
    BY DueIsFinite DEF DecisionSets
  <2>2. /\ CashMovedBy(dec, d) = 0
        /\ \A s \in Symbols : SharesMovedBy(dec, d, s) = 0
    BY <2>1, NothingMoved
  <2>3. /\ CashMovedBy(dec, d)' = CashMovedBy(dec, d) /\ Due(d)' = Due(d)
        /\ \A s \in Symbols : SharesMovedBy(dec, d, s)' = SharesMovedBy(dec, d, s)
    BY <1>1 DEF CashMovedBy, SharesMovedBy, After, Due
  <2>4. pass'[p].decided = dec /\ pass'[p].day = d
    BY <1>1
  <2>5. Decisions(p)'
    BY <1>1, <2>3, <2>4, UnsetAssumption DEF Decisions
  <2>6. CashAccounted(p)'
    BY <1>1, <2>2, <2>3, <2>4 DEF CashAccounted
  <2>7. SharesAccounted(p)'
    BY <1>1, <2>2, <2>3, <2>4 DEF SharesAccounted
  <2> QED
    BY <2>5, <2>6, <2>7 DEF Accounted
<1>4. ASSUME Calm', NEW q \in Passes, pass'[q] # Idle
      PROVE  pass'[q].day <= today' /\ (InMatch(q)' => Accounted(q)')
  <2>1. q = p
    BY <1>1, <1>4 DEF Calm
  <2> QED
    BY <1>1, <1>3, <1>4, <2>1 DEF Calm
<1> QED
  BY <1>2, <1>4 DEF BookInv

\* A state of a pass that keeps what it has read and decided.
LEMMA FlushBook ==
  ASSUME TypeInv, BookInv, NEW p \in Passes, Flush(p)
  PROVE  BookInv'
<1> DEFINE state == [pass[p] EXCEPT !.pc = "match", !.locked = TRUE]
<1>1. /\ pass[p].pc = "flush" /\ InMatch(p) /\ pass[p] # Idle
      /\ UNCHANGED <<orders, cash, position, today, contested, skew>>
  BY DEF Flush, accountVars, InMatch, Idle
<1>2. pass[p] \in Matching
  BY <1>1 DEF TypeInv, TypeOK, PassStates, Idle
<1>3. pass' = [pass EXCEPT ![p] = state]
  BY <1>2 DEF Flush, TypeInv, TypeOK
<1>4. pass'[p] = state
  BY <1>3 DEF TypeInv, TypeOK
<1>5. /\ state.day = pass[p].day /\ state.decided = pass[p].decided
      /\ state.todo = pass[p].todo /\ state.cash = pass[p].cash
      /\ state.shares = pass[p].shares /\ state.wrote = pass[p].wrote
      /\ state.locked
  BY <1>2 DEF Matching
<1> HIDE DEF state
<1>6. ASSUME Calm
      PROVE  Accounted(p)'
  <2>1. Accounted(p)
    BY <1>1, <1>6 DEF BookInv
  <2>2. /\ CashMovedBy(pass[p].decided, pass[p].day)' = CashMovedBy(pass[p].decided, pass[p].day)
        /\ \A s \in Symbols : SharesMovedBy(pass[p].decided, pass[p].day, s)'
                                = SharesMovedBy(pass[p].decided, pass[p].day, s)
        /\ Due(pass[p].day)' = Due(pass[p].day)
    BY <1>1, <1>4, <1>5 DEF CashMovedBy, SharesMovedBy, After, Due
  <2>3. Decisions(p)'
    BY <1>1, <1>4, <1>5, <2>1, <2>2 DEF Accounted, Decisions
  <2>4. CashAccounted(p)' /\ SharesAccounted(p)'
    BY <1>1, <1>4, <1>5, <2>1, <2>2 DEF Accounted, CashAccounted, SharesAccounted
  <2> QED
    BY <2>3, <2>4 DEF Accounted
<1> QED
  BY <1>1, <1>3, <1>5, <1>6, PassStepBook

\* The next decision.
LEMMA DecideBook ==
  ASSUME TypeInv, BookInv, NEW p \in Passes, Decide(p)
  PROVE  BookInv'
<1>1. /\ Working(p) /\ UNCHANGED <<today, contested, skew>>
      /\ InMatch(p) /\ pass[p] # Idle
  BY DEF Decide, Working, InMatch, Idle
<1>2. PICK state : pass' = [pass EXCEPT ![p] = state] /\ state.day = pass[p].day
  <2>1. PICK c \in CashSeen(p), n \in SharesSeen(p, orders[Current(p)].symbol) :
           \/ pass' = [pass EXCEPT ![p] = Filled(p, c, n)]
           \/ pass' = [pass EXCEPT ![p] = Rejected(p, c, n)]
    BY DecideIs
  <2>2. Filled(p, c, n).day = pass[p].day /\ Rejected(p, c, n).day = pass[p].day
    BY <1>1, DecidedFields
  <2> QED
    BY <2>1, <2>2
<1>3. Calm => Accounted(p)'
  BY <1>1, DecideAccounted DEF BookInv
<1> QED
  BY <1>1, <1>2, <1>3, PassStepBook

\* After the commit a pass has nothing left to account for.
LEMMA LaterStepBook ==
  ASSUME TypeInv, BookInv, NEW p \in Passes,
         MatchCommit(p) \/ SettleRead(p) \/ SettleCommit(p) \/ Abort(p)
  PROVE  BookInv'
<1>1. UNCHANGED <<today, contested, skew>> /\ pass[p] # Idle
  BY DEF MatchCommit, SettleRead, SettleCommit, Abort, Idle
<1>2. PICK state \in {Idle, [pc |-> "settle", day |-> pass[p].day],
                      [pc |-> "value", day |-> pass[p].day, cash |-> cash]} :
        pass' = [pass EXCEPT ![p] = state]
  <2>1. CASE SettleRead(p)
    <3>1. pass'= [pass EXCEPT ![p] = [pc |-> "value", day |-> pass[p].day, cash |-> cash]]
      BY <2>1 DEF SettleRead, TypeInv, TypeOK
    <3> QED
      BY <3>1
  <2>2. CASE MatchCommit(p) \/ SettleCommit(p) \/ Abort(p)
    BY <2>2 DEF MatchCommit, SettleCommit, Abort
  <2> QED
    BY <2>1, <2>2
<1>3. pass'[p] = state
  BY <1>2 DEF TypeInv, TypeOK
<1>4. ~InMatch(p)' /\ (state # Idle => state.day = pass[p].day)
  BY <1>2, <1>3 DEF InMatch, Idle
<1> QED
  BY <1>1, <1>2, <1>4, PassStepBook

\* Bars and days leave orders, account and passes alone.
LEMMA WorldBook ==
  ASSUME TypeInv, BookInv,
         \/ \E s \in Symbols, d \in TradingDays : BarArrives(s, d)
         \/ NextDay
         \/ UNCHANGED vars
  PROVE  BookInv'
<1>1. UNCHANGED <<orders, cash, position, pass, contested, skew>>
  BY DEF BarArrives, NextDay, vars, accountVars
<1>2. today \in Int /\ today' \in Int /\ today <= today'
  <2>1. today \in Int
    BY CalendarAssumption DEF TypeInv, TypeOK, Days
  <2>2. today' = today \/ today' = today + 1
    BY DEF BarArrives, NextDay, vars
  <2> QED
    BY <2>1, <2>2
<1>3. ASSUME NEW p \in Passes, Accounted(p)
      PROVE  Accounted(p)'
  BY <1>1, <1>3 DEF Accounted, Decisions, CashAccounted, SharesAccounted,
                    CashMovedBy, SharesMovedBy, After, Due
<1>4. Alone' /\ (Calm' <=> Calm)
  BY <1>1 DEF BookInv, Alone, Calm
<1>5. ASSUME Calm', NEW p \in Passes, pass'[p] # Idle
      PROVE  pass'[p].day <= today' /\ (InMatch(p)' => Accounted(p)')
  <2>1. pass[p].day <= today /\ (InMatch(p) => Accounted(p))
    BY <1>1, <1>4, <1>5 DEF BookInv
  <2>2. pass[p].day \in Int
    <3>1. pass[p] \in PassStates /\ pass[p] # Idle
      BY <1>1, <1>5 DEF TypeInv, TypeOK
    <3> QED
      BY <3>1, CalendarAssumption DEF PassStates, Matching, Days
  <2>3. InMatch(p)' => InMatch(p)
    BY <1>1 DEF InMatch
  <2>4. pass'[p] = pass[p]
    BY <1>1
  <2> QED
    BY <1>2, <1>3, <2>1, <2>2, <2>3, <2>4
<1> QED
  BY <1>4, <1>5 DEF BookInv

\* Every step keeps BookInv.
LEMMA NextBook ==
  ASSUME TypeInv, BookInv, [Next]_vars
  PROVE  BookInv'
<1>1. CASE \E s \in Symbols, side \in {"buy", "sell"}, q \in Quantities : Place(s, side, q)
  BY <1>1, PlaceBook
<1>2. CASE \/ \E s \in Symbols, d \in TradingDays : BarArrives(s, d)
           \/ NextDay
           \/ UNCHANGED vars
  BY <1>2, WorldBook
<1>3. ASSUME NEW p \in Passes,
             \/ \E d \in RunDays : Begin(p, d)
             \/ Decide(p)
             \/ Flush(p)
             \/ MatchCommit(p)
             \/ SettleRead(p)
             \/ SettleCommit(p)
             \/ Abort(p)
      PROVE  BookInv'
  BY <1>3, BeginBook, DecideBook, FlushBook, LaterStepBook
<1> QED
  BY <1>1, <1>2, <1>3 DEF Next

\* At the start no pass runs.
LEMMA InitBook == Init => BookInv
BY DEF Init, BookInv, Alone

\* The commit of a pass without a rival: what is due is decided, the rest is
\* as it was, and the account moves by the fills.
LEMMA CommitIsDay ==
  ASSUME TypeInv, BookInv, Calm, NEW p \in Passes, MatchCommit(p)
  PROVE  LET d == pass[p].day
         IN  /\ d \in Days
             /\ orders' = After(pass[p].decided) /\ DOMAIN orders' = DOMAIN orders
             /\ \A i \in DOMAIN orders :
                  IF i \in Due(d)
                  THEN \/ orders'[i] = [orders[i] EXCEPT !.status = "rejected"]
                       \/ /\ d \in TradingDays
                          /\ orders'[i] = [orders[i] EXCEPT !.status = "filled",
                                                            !.fill = FillAt(orders[i], d)]
                          /\ FillAt(orders[i], d) \in FillRecords
                  ELSE orders'[i] = orders[i]
             /\ cash' = cash + SumFunctionOnSet(CashOf(orders'), Due(d))
             /\ \A s \in Symbols :
                  position'[s] = position[s] + SumFunctionOnSet(SharesOf(orders', s), Due(d))
<1> DEFINE d == pass[p].day
           dec == pass[p].decided
<1>1. /\ pass[p].pc = "match" /\ pass[p].todo = {} /\ InMatch(p) /\ pass[p] # Idle
      /\ orders' = After(dec) /\ DOMAIN orders' = DOMAIN orders
  BY DEF MatchCommit, InMatch, Idle, After
<1>2. pass[p] \in Matching /\ dec \in DecisionSets /\ d \in Days
  BY <1>1 DEF TypeInv, TypeOK, PassStates, Idle, InMatch, Matching, DecisionSets
<1>3. Accounted(p)
  BY <1>1 DEF BookInv
<1>4. ASSUME NEW i \in DOMAIN orders
      PROVE  IF i \in Due(d)
             THEN \/ orders'[i] = [orders[i] EXCEPT !.status = "rejected"]
                  \/ /\ d \in TradingDays
                     /\ orders'[i] = [orders[i] EXCEPT !.status = "filled",
                                                       !.fill = FillAt(orders[i], d)]
                     /\ FillAt(orders[i], d) \in FillRecords
             ELSE orders'[i] = orders[i]
  <2>1. i \in Numbers /\ orders[i] \in OrderRows /\ dec[i] \in FillRecords \cup {NoFill, Unset}
    BY <1>2, DueIsFinite DEF DecisionSets
  <2>2. dec[i] # Unset <=> i \in Due(d)
    BY <1>1, <1>3, <2>1 DEF Accounted, Decisions
  <2>3. dec[i] \in FillRecords => d \in TradingDays /\ dec[i] = FillAt(orders[i], d)
    BY <1>3, <2>1 DEF Accounted, Decisions
  <2>4. orders'[i] = Outcome(orders[i], dec[i])
    BY <1>1 DEF After
  <2> HIDE DEF d, dec
  <2>5. CASE i \in Due(d)
    <3>1. orders[i].status = "pending"
      BY <2>5 DEF Due
    <3>2. CASE dec[i] = NoFill
      BY <2>1, <2>4, <2>5, <3>1, <3>2, OutcomeOfPending
    <3>3. CASE dec[i] \in FillRecords
      <4>1. Outcome(orders[i], dec[i]) = [orders[i] EXCEPT !.status = "filled", !.fill = dec[i]]
        BY <2>1, <3>1, <3>3, UnsetAssumption DEF Outcome
      <4> QED
        BY <2>3, <2>4, <2>5, <3>3, <4>1
    <3>4. dec[i] \in FillRecords \/ dec[i] = NoFill
      BY <2>1, <2>2, <2>5
    <3> QED
      BY <3>2, <3>3, <3>4
  <2>6. CASE i \notin Due(d)
    <3>1. dec[i] = Unset
      BY <2>2, <2>6
    <3>2. Outcome(orders[i], Unset) = orders[i]
      BY UnsetAssumption DEF Outcome
    <3> QED
      BY <2>4, <2>6, <3>1, <3>2
  <2> QED
    BY <2>5, <2>6
<1>5. cash' = cash + CashMovedBy(dec, d)
  <2>1. cash \in Int
    BY DEF TypeInv, TypeOK
  <2> QED
    BY <1>1, <1>3, <2>1 DEF MatchCommit, Accounted, CashAccounted
<1>6. ASSUME NEW s \in Symbols
      PROVE  position'[s] = position[s] + SharesMovedBy(dec, d, s)
  <2>1. position[s] \in Int
    BY DEF TypeInv, TypeOK
  <2> QED
    BY <1>3, <2>1 DEF MatchCommit, Accounted, SharesAccounted
<1>7. /\ CashMovedBy(dec, d) = SumFunctionOnSet(CashOf(orders'), Due(d))
      /\ \A s \in Symbols :
           SharesMovedBy(dec, d, s) = SumFunctionOnSet(SharesOf(orders', s), Due(d))
  BY <1>1 DEF CashMovedBy, SharesMovedBy
<1> QED
  BY <1>1, <1>2, <1>4, <1>5, <1>6, <1>7

\* To place an order is a step of PaperBook.
LEMMA PlaceIsSubmit ==
  ASSUME TypeInv, NEW s \in Symbols, NEW side \in {"buy", "sell"}, NEW q \in Quantities,
         Place(s, side, q)
  PROVE  Book!Submit
<1> DEFINE o == [symbol |-> s, side |-> side, quantity |-> q, day |-> today,
                 status |-> "pending", fill |-> NoFill]
<1>1. /\ orders' = Append(orders, o) /\ o.status = "pending" /\ UNCHANGED <<cash, position>>
      /\ orders \in Seq(OrderRows) /\ o \in OrderRows
  BY DEF Place, TypeInv, TypeOK, OrderRows
<1> HIDE DEF o
<1>2. Len(orders') = Len(orders) + 1 /\ orders'[Len(orders')] = o
  BY <1>1, AppendProperties
<1> QED
  BY <1>1, <1>2 DEF Book!Submit

\* And so is the commit of a pass without a rival.
LEMMA CommitIsTradingDay ==
  ASSUME TypeInv, BookInv, Calm, NEW p \in Passes, MatchCommit(p)
  PROVE  Book!BookNext
<1> DEFINE d == pass[p].day
<1>1. /\ d \in Days /\ DOMAIN orders' = DOMAIN orders
      /\ \A i \in DOMAIN orders :
           IF i \in Due(d)
           THEN \/ orders'[i] = [orders[i] EXCEPT !.status = "rejected"]
                \/ /\ d \in TradingDays
                   /\ orders'[i] = [orders[i] EXCEPT !.status = "filled",
                                                     !.fill = FillAt(orders[i], d)]
           ELSE orders'[i] = orders[i]
      /\ cash' = cash + SumFunctionOnSet(CashOf(orders'), Due(d))
      /\ \A s \in Symbols :
           position'[s] = position[s] + SumFunctionOnSet(SharesOf(orders', s), Due(d))
  BY CommitIsDay
<1> HIDE DEF d
<1>2. \A i \in DOMAIN orders :
        IF i \in Due(d) THEN orders'[i] \in Book!Decided(orders[i], d)
                        ELSE orders'[i] = orders[i]
  BY <1>1, BookOperators DEF Book!Decided
<1>3. cash' = cash + Book!CashMoved(orders', Due(d))
  BY <1>1, BookOperators
<1>4. position' = [s \in Symbols |-> position[s] + Book!SharesMoved(orders', Due(d), s)]
  <2>1. position' = [s \in Symbols |-> position'[s]]
    BY DEF MatchCommit
  <2>2. \A s \in Symbols : position'[s] = position[s] + Book!SharesMoved(orders', Due(d), s)
    BY <1>1, BookOperators
  <2> QED
    BY <2>1, <2>2
<1>5. Book!TradingDay(d)
  BY <1>1, <1>2, <1>3, <1>4 DEF Book!TradingDay, Due
<1> QED
  BY <1>1, <1>5, BookOperators DEF Book!BookNext

\* Until passes overlap or one is run for a day to come, the account behaves as
\* PaperBook: the sessions of match_pending, its remembered rows, flushes and
\* locks, aborted passes and repeated days add nothing to "the orders due are
\* decided at once, and the account moves by their fills".
THEOREM BookCorrect == Spec => ImplementsBook
<1>1. Init => TypeInv /\ BookInv /\ Book!BookInit
  BY InitTypeInv, InitBook DEF Init, Book!BookInit
<1>2. TypeInv /\ BookInv /\ [Next]_vars => TypeInv' /\ BookInv'
  BY NextTypeInv, NextBook
<1>3. TypeInv /\ BookInv /\ [Next]_vars
        => [contested' \/ "future" \in skew' \/ Book!BookNext]_accountVars
  <2> SUFFICES ASSUME TypeInv, BookInv, [Next]_vars, ~contested', "future" \notin skew'
               PROVE  Book!BookNext \/ UNCHANGED accountVars
    OBVIOUS
  <2>1. Calm
    BY CalmBefore, PastSkew DEF Calm
  <2>2. CASE \E s \in Symbols, side \in {"buy", "sell"}, q \in Quantities : Place(s, side, q)
    BY <2>2, PlaceIsSubmit DEF Book!BookNext
  <2>3. CASE \E p \in Passes : MatchCommit(p)
    BY <2>1, <2>3, CommitIsTradingDay
  <2>4. CASE \/ \E p \in Passes : \/ \E d \in RunDays : Begin(p, d)
                                  \/ Decide(p)
                                  \/ Flush(p)
                                  \/ SettleRead(p)
                                  \/ SettleCommit(p)
                                  \/ Abort(p)
             \/ \E s \in Symbols, d \in TradingDays : BarArrives(s, d)
             \/ NextDay
             \/ UNCHANGED vars
    BY <2>4 DEF Begin, Decide, Flush, SettleRead, SettleCommit, Abort, BarArrives, NextDay, vars
  <2> QED
    BY <2>2, <2>3, <2>4 DEF Next
<1> QED
  BY <1>1, <1>2, <1>3, PTL DEF Spec, ImplementsBook

-----------------------------------------------------------------------------
(* The account is what its fills have made of it *)

\* The filled orders are those that have a fill.
FillsInv ==
  \A i \in DOMAIN orders : orders[i].fill # NoFill <=> orders[i].status = "filled"

\* Cash and shares are the initial cash and what all fills have moved.
BalanceInv ==
  /\ cash = InitialCash + SumFunctionOnSet(CashOf(orders), DOMAIN orders)
  /\ \A s \in Symbols : position[s] = SumFunctionOnSet(SharesOf(orders, s), DOMAIN orders)

AccountInv == Calm => FillsInv /\ BalanceInv

\* What the flows of the orders are.
LEMMA OrderFlows ==
  ASSUME TypeInv, FillsInv, NEW i \in DOMAIN orders
  PROVE  /\ CashOf(orders)[i] \in Int
         /\ \A s \in Symbols : SharesOf(orders, s)[i] \in Int
         /\ orders[i].fill = NoFill => /\ CashOf(orders)[i] = 0
                                       /\ \A s \in Symbols : SharesOf(orders, s)[i] = 0
<1>1. orders[i] \in OrderRows
  BY DueIsFinite
<1>2. Sound(orders[i]) /\ (orders[i].status = "filled" => orders[i].fill # NoFill)
  BY <1>1 DEF FillsInv, Sound, OrderRows
<1> QED
  BY <1>1, <1>2, FlowOfRow

\* Orders without a fill add nothing to a sum.
LEMMA UnfilledAddNothing ==
  ASSUME TypeInv, FillsInv, NEW I \in SUBSET (DOMAIN orders),
         \A i \in (DOMAIN orders) \ I : orders[i].fill = NoFill
  PROVE  /\ SumFunctionOnSet(CashOf(orders), DOMAIN orders) = SumFunctionOnSet(CashOf(orders), I)
         /\ \A s \in Symbols : SumFunctionOnSet(SharesOf(orders, s), DOMAIN orders)
                                 = SumFunctionOnSet(SharesOf(orders, s), I)
<1> DEFINE J == (DOMAIN orders) \ I
<1>1. /\ IsFiniteSet(I) /\ IsFiniteSet(J) /\ I \cap J = {} /\ I \cup J = DOMAIN orders
      /\ I \subseteq DOMAIN orders /\ J \subseteq DOMAIN orders
  BY DueIsFinite, FS_Subset
<1>2. \A i \in J : orders[i].fill = NoFill
  OBVIOUS
<1> HIDE DEF J
<1>3. SumFunctionOnSet(CashOf(orders), DOMAIN orders) = SumFunctionOnSet(CashOf(orders), I)
  <2> DEFINE F == CashOf(orders)
  <2>1. \A i \in I \cup J : F[i] \in Int
    BY <1>1, OrderFlows
  <2>2. \A i \in J : F[i] = 0
    BY <1>1, <1>2, OrderFlows
  <2> HIDE DEF F
  <2>3. SumFunctionOnSet(F, I \cup J) = SumFunctionOnSet(F, I) + SumFunctionOnSet(F, J)
    BY <1>1, <2>1, SumOfDisjoint
  <2>4. SumFunctionOnSet(F, J) = 0 /\ SumFunctionOnSet(F, I) \in Int
    BY <1>1, <2>1, <2>2, SumZero, SumIsInt
  <2> QED
    BY <1>1, <2>3, <2>4 DEF F
<1>4. ASSUME NEW s \in Symbols
      PROVE  SumFunctionOnSet(SharesOf(orders, s), DOMAIN orders)
               = SumFunctionOnSet(SharesOf(orders, s), I)
  <2> DEFINE F == SharesOf(orders, s)
  <2>1. \A i \in I \cup J : F[i] \in Int
    BY <1>1, OrderFlows
  <2>2. \A i \in J : F[i] = 0
    BY <1>1, <1>2, OrderFlows
  <2> HIDE DEF F
  <2>3. SumFunctionOnSet(F, I \cup J) = SumFunctionOnSet(F, I) + SumFunctionOnSet(F, J)
    BY <1>1, <2>1, SumOfDisjoint
  <2>4. SumFunctionOnSet(F, J) = 0 /\ SumFunctionOnSet(F, I) \in Int
    BY <1>1, <2>1, <2>2, SumZero, SumIsInt
  <2> QED
    BY <1>1, <2>3, <2>4 DEF F
<1> QED
  BY <1>3, <1>4

\* The histories only grow, so the account was calm before, if it still is.
LEMMA CalmStays ==
  ASSUME TypeInv, [Next]_vars, Calm'
  PROVE  Calm
BY CalmBefore, PastSkew DEF Calm

\* A new order moves nothing.
LEMMA PlaceAccount ==
  ASSUME TypeInv, FillsInv, BalanceInv, NEW s \in Symbols, NEW side \in {"buy", "sell"},
         NEW q \in Quantities, Place(s, side, q)
  PROVE  FillsInv' /\ BalanceInv'
<1> DEFINE o == [symbol |-> s, side |-> side, quantity |-> q, day |-> today,
                 status |-> "pending", fill |-> NoFill]
           n == Len(orders) + 1
<1>1. /\ UNCHANGED <<cash, position>>
      /\ orders' = Append(orders, o) /\ orders \in Seq(OrderRows) /\ o \in OrderRows
      /\ o.status = "pending" /\ o.fill = NoFill
  BY DEF Place, TypeInv, TypeOK, OrderRows
<1> HIDE DEF o
<1>2. /\ DOMAIN orders' = (DOMAIN orders) \cup {n} /\ n \notin DOMAIN orders
      /\ \A i \in DOMAIN orders : orders'[i] = orders[i]
      /\ orders'[n] = o
  BY <1>1, AppendProperties, LenProperties
<1> HIDE DEF n
<1>3. FillsInv'
  BY <1>1, <1>2 DEF FillsInv
<1>4. /\ CashOf(orders')[n] = 0
      /\ \A i \in DOMAIN orders : CashOf(orders')[i] = CashOf(orders)[i]
      /\ \A t \in Symbols : SharesOf(orders', t)[n] = 0
      /\ \A t \in Symbols : \A i \in DOMAIN orders :
           SharesOf(orders', t)[i] = SharesOf(orders, t)[i]
  BY <1>1, <1>2 DEF CashOf, SharesOf
<1>5. IsFiniteSet(DOMAIN orders) /\ IsFiniteSet(DOMAIN orders')
  BY <1>2, DueIsFinite, FS_AddElement
<1>6. ASSUME NEW F, NEW G, F[n] = 0,
             \A i \in DOMAIN orders : F[i] = G[i] /\ G[i] \in Int
      PROVE  SumFunctionOnSet(F, DOMAIN orders') = SumFunctionOnSet(G, DOMAIN orders)
  <2>1. \A i \in DOMAIN orders' : F[i] \in Int
    BY <1>2, <1>6
  <2>2. SumFunctionOnSet(F, DOMAIN orders') = F[n] + SumFunctionOnSet(F, (DOMAIN orders') \ {n})
    BY <1>2, <1>5, <2>1, SumTakeOut
  <2>3. (DOMAIN orders') \ {n} = DOMAIN orders
    BY <1>2
  <2>4. SumFunctionOnSet(F, DOMAIN orders) = SumFunctionOnSet(G, DOMAIN orders)
    BY <1>5, <1>6, SumSame
  <2>5. SumFunctionOnSet(G, DOMAIN orders) \in Int
    BY <1>5, <1>6, SumIsInt
  <2> QED
    BY <1>6, <2>2, <2>3, <2>4, <2>5
<1>7. SumFunctionOnSet(CashOf(orders'), DOMAIN orders')
        = SumFunctionOnSet(CashOf(orders), DOMAIN orders)
  BY <1>4, <1>6, OrderFlows
<1>8. \A t \in Symbols : SumFunctionOnSet(SharesOf(orders', t), DOMAIN orders')
                           = SumFunctionOnSet(SharesOf(orders, t), DOMAIN orders)
  BY <1>4, <1>6, OrderFlows
<1> QED
  BY <1>1, <1>3, <1>7, <1>8 DEF BalanceInv

\* The rows after the commit of a pass without a rival.
LEMMA CommitRows ==
  ASSUME TypeInv, BookInv, Calm, FillsInv, NEW p \in Passes, NEW d, d = pass[p].day,
         MatchCommit(p)
  PROVE  /\ DOMAIN orders' = DOMAIN orders
         /\ \A i \in (DOMAIN orders) \ Due(d) : orders'[i] = orders[i]
         /\ \A i \in Due(d) :
              /\ orders[i].fill = NoFill /\ orders[i].day < d
              /\ orders'[i].day = orders[i].day
              /\ \/ orders'[i].status = "rejected" /\ orders'[i].fill = NoFill
                 \/ /\ orders'[i].status = "filled" /\ orders'[i].fill \in FillRecords
                    /\ orders'[i].fill.day = d
         /\ cash' = cash + SumFunctionOnSet(CashOf(orders'), Due(d))
         /\ \A s \in Symbols :
              position'[s] = position[s] + SumFunctionOnSet(SharesOf(orders', s), Due(d))
<1>1. /\ d \in Days /\ DOMAIN orders' = DOMAIN orders
      /\ \A i \in DOMAIN orders :
           IF i \in Due(d)
           THEN \/ orders'[i] = [orders[i] EXCEPT !.status = "rejected"]
                \/ /\ orders'[i] = [orders[i] EXCEPT !.status = "filled",
                                                     !.fill = FillAt(orders[i], d)]
                   /\ FillAt(orders[i], d) \in FillRecords
           ELSE orders'[i] = orders[i]
      /\ cash' = cash + SumFunctionOnSet(CashOf(orders'), Due(d))
      /\ \A s \in Symbols :
           position'[s] = position[s] + SumFunctionOnSet(SharesOf(orders', s), Due(d))
  BY CommitIsDay
<1>2. ASSUME NEW i \in Due(d)
      PROVE  /\ orders[i].fill = NoFill /\ orders[i].day < d
             /\ orders'[i].day = orders[i].day
             /\ \/ orders'[i].status = "rejected" /\ orders'[i].fill = NoFill
                \/ /\ orders'[i].status = "filled" /\ orders'[i].fill \in FillRecords
                   /\ orders'[i].fill.day = d
  <2>1. i \in DOMAIN orders /\ orders[i].status = "pending" /\ orders[i].day < d
    BY DEF Due
  <2>2. orders[i].fill = NoFill /\ orders[i] \in OrderRows
    BY <2>1, DueIsFinite DEF FillsInv
  <2>3. CASE orders'[i] = [orders[i] EXCEPT !.status = "rejected"]
    BY <2>1, <2>2, <2>3 DEF OrderRows
  <2>4. CASE /\ orders'[i] = [orders[i] EXCEPT !.status = "filled", !.fill = FillAt(orders[i], d)]
             /\ FillAt(orders[i], d) \in FillRecords
    <3>1. FillAt(orders[i], d).day = d
      BY DEF FillAt
    <3> QED
      BY <2>1, <2>2, <2>4, <3>1 DEF OrderRows
  <2> QED
    BY <1>1, <2>1, <2>3, <2>4
<1> QED
  BY <1>1, <1>2

\* The commit adds its fills to the sum of all.
LEMMA CommitBalance ==
  ASSUME TypeInv, BookInv, Calm, FillsInv, BalanceInv, TypeInv',
         NEW p \in Passes, MatchCommit(p)
  PROVE  FillsInv' /\ BalanceInv'
<1>0. PICK d : d = pass[p].day
  OBVIOUS
<1> DEFINE D == Due(d)
           R == (DOMAIN orders) \ D
<1>1. /\ DOMAIN orders' = DOMAIN orders
      /\ \A i \in R : orders'[i] = orders[i]
      /\ \A i \in D : /\ orders[i].fill = NoFill
                      /\ orders'[i].fill # NoFill <=> orders'[i].status = "filled"
      /\ cash' = cash + SumFunctionOnSet(CashOf(orders'), D)
      /\ \A s \in Symbols :
           position'[s] = position[s] + SumFunctionOnSet(SharesOf(orders', s), D)
  BY <1>0, CommitRows, UnsetAssumption
<1>2. /\ IsFiniteSet(D) /\ IsFiniteSet(R) /\ R \cap D = {} /\ R \cup D = DOMAIN orders
      /\ R \subseteq DOMAIN orders /\ D \subseteq DOMAIN orders
  BY DueIsFinite, FS_Subset
<1>3. \A i \in (DOMAIN orders) \ R : orders[i].fill = NoFill
  BY <1>1
<1>2a. FillsInv'
  BY <1>1, <1>2 DEF FillsInv
<1>4. \A i \in R \cup D : /\ CashOf(orders')[i] \in Int
                          /\ \A s \in Symbols : SharesOf(orders', s)[i] \in Int
  <2>1. orders' \in Seq(OrderRows)
    BY DEF TypeInv, TypeOK
  <2>2. \A i \in DOMAIN orders' : orders'[i] \in OrderRows
    BY <2>1, LenProperties, ElementOfSeq
  <2>3. \A i \in DOMAIN orders' : Sound(orders'[i])
    BY <1>2a, <2>2 DEF FillsInv, Sound, OrderRows
  <2> QED
    BY <1>1, <1>2, <2>2, <2>3, FlowOfRow
<1> HIDE DEF D, R
<1>5. cash' = InitialCash + SumFunctionOnSet(CashOf(orders'), DOMAIN orders')
  <2> DEFINE F == CashOf(orders')
             G == CashOf(orders)
  <2>1. \A i \in R : F[i] = G[i]
    BY <1>1, <1>2 DEF CashOf
  <2>2. \A i \in R \cup D : F[i] \in Int
    BY <1>4
  <2>3. cash = InitialCash + SumFunctionOnSet(G, R)
    BY <1>2, <1>3, UnfilledAddNothing DEF BalanceInv
  <2> HIDE DEF F, G
  <2>4. SumFunctionOnSet(F, R \cup D) = SumFunctionOnSet(F, R) + SumFunctionOnSet(F, D)
    BY <1>2, <2>2, SumOfDisjoint
  <2>5. SumFunctionOnSet(F, R) = SumFunctionOnSet(G, R)
    BY <1>2, <2>1, SumSame
  <2>6. SumFunctionOnSet(F, R) \in Int /\ SumFunctionOnSet(F, D) \in Int
    BY <1>2, <2>2, SumIsInt
  <2>7. cash' = cash + SumFunctionOnSet(F, D)
    BY <1>1 DEF F
  <2>8. cash' = InitialCash + SumFunctionOnSet(F, R \cup D)
    BY <2>3, <2>4, <2>5, <2>6, <2>7, CashAssumption
  <2> QED
    BY <1>1, <1>2, <2>8 DEF F
<1>6. ASSUME NEW s \in Symbols
      PROVE  position'[s] = SumFunctionOnSet(SharesOf(orders', s), DOMAIN orders')
  <2> DEFINE F == SharesOf(orders', s)
             G == SharesOf(orders, s)
  <2>1. \A i \in R : F[i] = G[i]
    BY <1>1, <1>2 DEF SharesOf
  <2>2. \A i \in R \cup D : F[i] \in Int
    BY <1>4
  <2>3. position[s] = SumFunctionOnSet(G, R)
    BY <1>2, <1>3, UnfilledAddNothing DEF BalanceInv
  <2> HIDE DEF F, G
  <2>4. SumFunctionOnSet(F, R \cup D) = SumFunctionOnSet(F, R) + SumFunctionOnSet(F, D)
    BY <1>2, <2>2, SumOfDisjoint
  <2>5. SumFunctionOnSet(F, R) = SumFunctionOnSet(G, R)
    BY <1>2, <2>1, SumSame
  <2>6. position'[s] = position[s] + SumFunctionOnSet(F, D)
    BY <1>1 DEF F
  <2>7. position'[s] = SumFunctionOnSet(F, R \cup D)
    BY <2>3, <2>4, <2>5, <2>6
  <2> QED
    BY <1>1, <1>2, <2>7 DEF F
<1> QED
  BY <1>2a, <1>5, <1>6 DEF BalanceInv

\* Every step keeps the account what its fills have made of it.
LEMMA NextAccount ==
  ASSUME TypeInv, BookInv, AccountInv, [Next]_vars
  PROVE  AccountInv'
<1> SUFFICES ASSUME Calm'
             PROVE  FillsInv' /\ BalanceInv'
  BY DEF AccountInv
<1>1. Calm /\ FillsInv /\ BalanceInv
  BY CalmStays DEF AccountInv
<1>2. CASE \E s \in Symbols, side \in {"buy", "sell"}, q \in Quantities : Place(s, side, q)
  BY <1>1, <1>2, PlaceAccount
<1>3. CASE \E p \in Passes : MatchCommit(p)
  BY <1>1, <1>3, NextTypeInv, CommitBalance
<1>4. CASE UNCHANGED accountVars
  BY <1>1, <1>4 DEF accountVars, FillsInv, BalanceInv, CashOf, SharesOf
<1>5. CASE \/ \E p \in Passes : \/ \E d \in RunDays : Begin(p, d)
                              \/ Decide(p)
                              \/ Flush(p)
                              \/ SettleRead(p)
                              \/ SettleCommit(p)
                              \/ Abort(p)
           \/ \E s \in Symbols, d \in TradingDays : BarArrives(s, d)
           \/ NextDay
           \/ UNCHANGED vars
  <2>1. UNCHANGED accountVars
    BY <1>5 DEF Begin, Decide, Flush, SettleRead, SettleCommit, Abort, BarArrives, NextDay, vars
  <2> QED
    BY <1>4, <2>1
<1> QED
  BY <1>2, <1>3, <1>5 DEF Next

\* At the start there is no fill.
LEMMA InitAccount == Init => AccountInv
<1> SUFFICES ASSUME Init
             PROVE  FillsInv /\ BalanceInv
  BY DEF AccountInv
<1>1. DOMAIN orders = {}
  BY DEF Init
<1>2. BalanceInv
  BY <1>1, SumEmpty, CashAssumption DEF Init, BalanceInv
<1> QED
  BY <1>1, <1>2 DEF FillsInv

\* The account is its fills: as long as passes do not overlap and none is run for a
\* day to come, cash and shares are the initial ones and the sums of what the fills of
\* the orders have moved, between any two steps of match_pending and settle.
THEOREM AccountCorrect == Spec => [](Calm => BalanceInv)
<1>1. Init => TypeInv /\ BookInv /\ AccountInv
  BY InitTypeInv, InitBook, InitAccount
<1>2. TypeInv /\ BookInv /\ AccountInv /\ [Next]_vars => TypeInv' /\ BookInv' /\ AccountInv'
  BY NextTypeInv, NextBook, NextAccount
<1>3. AccountInv => (Calm => BalanceInv)
  BY DEF AccountInv
<1> QED
  BY <1>1, <1>2, <1>3, PTL DEF Spec

-----------------------------------------------------------------------------
(* The nav counts the fills *)

\* As far as NavCountsFills speaks of the account.
Quiet == ~contested /\ skew = {}

\* What fills up to a day have moved.
FilledBy(d) == {i \in DOMAIN orders : orders[i].fill # NoFill /\ orders[i].fill.day <= d}

CashBy(d)      == SumFunctionOnSet(CashOf(orders), FilledBy(d))
SharesBy(d, s) == SumFunctionOnSet(SharesOf(orders, s), FilledBy(d))

\* No order placed before the day waits.
Closed(d) == \A i \in DOMAIN orders : orders[i].day < d => orders[i].status # "pending"

\* No order and no fill is of a day to come.
DatesInv ==
  \A i \in DOMAIN orders :
    /\ orders[i].day <= today
    /\ orders[i].fill # NoFill => orders[i].fill.day <= today

\* A pass finds no fill of a later day, and leaves no order of an earlier one.
PassDayInv ==
  \A p \in Passes : pass[p] # Idle =>
    /\ \A i \in DOMAIN orders : orders[i].fill # NoFill => orders[i].fill.day <= pass[p].day
    /\ ~InMatch(p) => Closed(pass[p].day)
    /\ pass[p].pc = "value" => pass[p].cash = cash

NavRow(d) ==
  /\ nav[d].cash = InitialCash + CashBy(d)
  /\ \E bars \in SUBSET stored :
       nav[d].value = Worth(bars, [s \in Symbols |-> SharesBy(d, s)], d)

\* A day that is settled is closed, so that no fill of it is to come.
NavDaysInv == \A d \in Days : nav[d] # NoNav => Closed(d) /\ d <= today /\ NavRow(d)

NavInv == Quiet => DatesInv /\ PassDayInv /\ NavDaysInv

\* A step that leaves the filled orders alone leaves their sums alone.
LEMMA SameFills ==
  ASSUME TypeInv, NEW d, FilledBy(d)' = FilledBy(d), DOMAIN orders \subseteq DOMAIN orders',
         \A i \in FilledBy(d) : orders'[i] = orders[i]
  PROVE  CashBy(d)' = CashBy(d) /\ \A s \in Symbols : SharesBy(d, s)' = SharesBy(d, s)
<1>1. FilledBy(d) \subseteq DOMAIN orders /\ IsFiniteSet(FilledBy(d))
  <2>1. FilledBy(d) \subseteq DOMAIN orders
    BY DEF FilledBy
  <2> QED
    BY <2>1, DueIsFinite, FS_Subset
<1>2. \A i \in FilledBy(d) : CashOf(orders)[i] = CashOf(orders')[i]
  BY <1>1 DEF CashOf
<1>3. \A s \in Symbols : \A i \in FilledBy(d) : SharesOf(orders, s)[i] = SharesOf(orders', s)[i]
  BY <1>1 DEF SharesOf
<1>4. SumFunctionOnSet(CashOf(orders), FilledBy(d)) = SumFunctionOnSet(CashOf(orders'), FilledBy(d))
  BY <1>1, <1>2, SumSame
<1>5. \A s \in Symbols : SumFunctionOnSet(SharesOf(orders, s), FilledBy(d))
                           = SumFunctionOnSet(SharesOf(orders', s), FilledBy(d))
  BY <1>1, <1>3, SumSame
<1> QED
  BY <1>4, <1>5 DEF CashBy, SharesBy

\* And so the nav of the day stays true, whatever bars arrive.
LEMMA NavRowStays ==
  ASSUME TypeInv, NEW d \in Days, NavRow(d), nav'[d] = nav[d], stored \subseteq stored',
         CashBy(d)' = CashBy(d), \A s \in Symbols : SharesBy(d, s)' = SharesBy(d, s)
  PROVE  NavRow(d)'
<1>1. PICK bars \in SUBSET stored :
        nav[d].value = Worth(bars, [s \in Symbols |-> SharesBy(d, s)], d)
  BY DEF NavRow
<1>2. [s \in Symbols |-> SharesBy(d, s)]' = [s \in Symbols |-> SharesBy(d, s)]
  OBVIOUS
<1>3. nav'[d].value = Worth(bars, [s \in Symbols |-> SharesBy(d, s)'], d)
  BY <1>1, <1>2
<1> QED
  BY <1>1, <1>3 DEF NavRow

\* The days of orders, fills, passes and nav rows are numbers.
LEMMA DaysAreNumbers ==
  ASSUME TypeInv
  PROVE  /\ Days \subseteq Nat /\ today \in Nat
         /\ \A i \in DOMAIN orders : orders[i].day \in Nat
         /\ \A i \in DOMAIN orders : orders[i].fill # NoFill => orders[i].fill.day \in Nat
         /\ \A p \in Passes : pass[p] # Idle => pass[p].day \in Days
<1>1. Days \subseteq Nat
  BY CalendarAssumption DEF Days
<1>2. today \in Days
  BY DEF TypeInv, TypeOK
<1>3. \A i \in DOMAIN orders : orders[i] \in OrderRows
  BY DueIsFinite
<1>4. \A i \in DOMAIN orders : orders[i].day \in Days
  BY <1>3 DEF OrderRows
<1>5. \A i \in DOMAIN orders : orders[i].fill # NoFill => orders[i].fill.day \in Days
  BY <1>3 DEF OrderRows, FillRecords
<1>6. \A p \in Passes : pass[p] # Idle => pass[p].day \in Days
  BY DEF TypeInv, TypeOK, PassStates, Matching
<1> QED
  BY <1>1, <1>2, <1>4, <1>5, <1>6

\* A step that leaves the orders and the nav alone.
LEMMA NavStays ==
  ASSUME TypeInv, DatesInv, NavDaysInv, UNCHANGED <<orders, nav>>,
         stored \subseteq stored', today' \in Nat, today <= today'
  PROVE  DatesInv' /\ NavDaysInv'
<1>1. DatesInv'
  BY DaysAreNumbers DEF DatesInv
<1>2. ASSUME NEW d \in Days, nav'[d] # NoNav
      PROVE  Closed(d)' /\ d <= today' /\ NavRow(d)'
  <2>1. Closed(d) /\ d <= today /\ NavRow(d)
    BY <1>2 DEF NavDaysInv
  <2>2. CashBy(d)' = CashBy(d) /\ \A s \in Symbols : SharesBy(d, s)' = SharesBy(d, s)
    BY DEF CashBy, SharesBy, FilledBy, CashOf, SharesOf
  <2>3. NavRow(d)'
    BY <2>1, <2>2, NavRowStays
  <2>4. Closed(d)'
    BY <2>1 DEF Closed
  <2> QED
    BY <2>1, <2>3, <2>4, DaysAreNumbers
<1> QED
  BY <1>1, <1>2 DEF NavDaysInv

\* A new order has no fill, and waits for a day after those that are settled.
LEMMA PlaceNav ==
  ASSUME TypeInv, BookInv, NavInv, NEW s \in Symbols, NEW side \in {"buy", "sell"},
         NEW q \in Quantities, Place(s, side, q)
  PROVE  NavInv'
<1> DEFINE o == [symbol |-> s, side |-> side, quantity |-> q, day |-> today,
                 status |-> "pending", fill |-> NoFill]
           n == Len(orders) + 1
<1>1. /\ UNCHANGED <<cash, position, nav, stored, today, pass, contested, skew>>
      /\ orders' = Append(orders, o)
      /\ orders \in Seq(OrderRows) /\ o \in OrderRows
      /\ o.day = today /\ o.status = "pending" /\ o.fill = NoFill
  BY DEF Place, TypeInv, TypeOK, OrderRows
<1> HIDE DEF o
<1>2. /\ DOMAIN orders = 1..Len(orders) /\ Len(orders) \in Nat
      /\ DOMAIN orders' = 1..(Len(orders) + 1)
      /\ \A i \in DOMAIN orders : orders'[i] = orders[i]
      /\ orders'[n] = o
  BY <1>1, AppendProperties, LenProperties
<1>3. DOMAIN orders' = (DOMAIN orders) \cup {n} /\ n \notin DOMAIN orders
  BY <1>2
<1> HIDE DEF n
<1>4. SUFFICES ASSUME Quiet'
               PROVE  (DatesInv /\ PassDayInv /\ NavDaysInv)'
  BY DEF NavInv
<1>5. DatesInv /\ PassDayInv /\ NavDaysInv
  BY <1>1, <1>4 DEF Quiet, NavInv
<1>6. DatesInv'
  BY <1>1, <1>2, <1>3, <1>5, DaysAreNumbers DEF DatesInv
<1>7. ASSUME NEW d, d \in Nat, d <= today, Closed(d)
       PROVE  Closed(d)'
  BY <1>1, <1>2, <1>3, <1>7, DaysAreNumbers DEF Closed
<1>8. ASSUME NEW p \in Passes, pass'[p] # Idle
       PROVE  /\ \A i \in DOMAIN orders' :
                  orders'[i].fill # NoFill => orders'[i].fill.day <= pass'[p].day
              /\ ~InMatch(p)' => Closed(pass[p].day)'
              /\ pass'[p].pc = "value" => pass'[p].cash = cash'
  <2>1. pass[p] # Idle /\ pass' = pass
    BY <1>1, <1>8
  <2>2. /\ \A i \in DOMAIN orders : orders[i].fill # NoFill => orders[i].fill.day <= pass[p].day
        /\ ~InMatch(p) => Closed(pass[p].day)
        /\ pass[p].pc = "value" => pass[p].cash = cash
    BY <1>5, <2>1 DEF PassDayInv
  <2>3. pass[p].day <= today /\ pass[p].day \in Nat
    <3>1. Calm
      BY <1>1, <1>4 DEF Quiet, Calm
    <3> QED
      BY <2>1, <3>1, DaysAreNumbers DEF BookInv
  <2>4. ~InMatch(p)' => Closed(pass[p].day)'
    <3>1. InMatch(p)' <=> InMatch(p)
      BY <2>1 DEF InMatch
    <3>2. ~InMatch(p) => \A i \in DOMAIN orders' :
                            orders'[i].day < pass[p].day => orders'[i].status # "pending"
      BY <1>7, <2>2, <2>3 DEF Closed
    <3> QED
      BY <2>1, <3>1, <3>2 DEF Closed
  <2>5. \A i \in DOMAIN orders' : orders'[i].fill # NoFill => orders'[i].fill.day <= pass'[p].day
    BY <1>1, <1>2, <1>3, <2>1, <2>2
  <2> QED
    BY <1>1, <2>1, <2>2, <2>4, <2>5
<1>9. PassDayInv'
  BY <1>8 DEF PassDayInv
<1>10. ASSUME NEW d \in Days, nav'[d] # NoNav
       PROVE  Closed(d)' /\ d <= today' /\ NavRow(d)'
  <2>1. Closed(d) /\ d <= today /\ NavRow(d) /\ d \in Nat
    BY <1>1, <1>5, <1>10, DaysAreNumbers DEF NavDaysInv
  <2>2. FilledBy(d)' = FilledBy(d)
    BY <1>1, <1>2, <1>3 DEF FilledBy
  <2>3. \A i \in FilledBy(d) : orders'[i] = orders[i]
    BY <1>2 DEF FilledBy
  <2>4. CashBy(d)' = CashBy(d) /\ \A t \in Symbols : SharesBy(d, t)' = SharesBy(d, t)
    BY <1>3, <2>2, <2>3, SameFills
  <2>5. NavRow(d)'
    BY <1>1, <2>1, <2>4, NavRowStays
  <2> QED
    BY <1>1, <1>7, <2>1, <2>5
<1>11. NavDaysInv'
  BY <1>10 DEF NavDaysInv
<1> QED
  BY <1>6, <1>9, <1>11

\* A pass for the day itself finds no fill of a later one.
LEMMA BeginNav ==
  ASSUME TypeInv, BookInv, NavInv, NEW p \in Passes, NEW d \in RunDays, Begin(p, d)
  PROVE  NavInv'
<1>1. SUFFICES ASSUME Quiet'
               PROVE  (DatesInv /\ PassDayInv /\ NavDaysInv)'
  BY DEF NavInv
<1>2. UNCHANGED <<orders, cash, position, nav, stored, today>>
  BY DEF Begin, accountVars
<1>3. Quiet /\ d = today /\ \A q \in Passes : pass[q] = Idle
  <2>1. d \in Int /\ today \in Int
    BY BoundsAssumption, CalendarAssumption DEF TypeInv, TypeOK, Days
  <2>2. Quiet /\ \A q \in Passes : pass[q] = Idle
    BY <1>1 DEF Begin, Quiet
  <2>3. skew' = {}
    BY <1>1 DEF Quiet
  <2>4. ~(d < today) /\ ~(d > today)
    BY <2>3 DEF Begin
  <2> QED
    BY <2>1, <2>2, <2>4
<1>4. DatesInv /\ NavDaysInv
  BY <1>3 DEF NavInv
<1>5. DatesInv' /\ NavDaysInv'
  BY <1>2, <1>4, NavStays, DaysAreNumbers
<1>6. /\ pass'[p].day = d /\ pass'[p].pc = "match"
      /\ \A q \in Passes \ {p} : pass'[q] = Idle
  BY <1>3 DEF Begin, TypeInv, TypeOK
<1>7. PassDayInv'
  BY <1>2, <1>3, <1>4, <1>6 DEF PassDayInv, DatesInv, InMatch
<1> QED
  BY <1>5, <1>7

\* Between the commits nothing of the account changes.
LEMMA PassStepNav ==
  ASSUME TypeInv, BookInv, NavInv, NEW p \in Passes,
         Decide(p) \/ Flush(p) \/ SettleRead(p) \/ Abort(p)
  PROVE  NavInv'
<1>1. SUFFICES ASSUME Quiet'
               PROVE  (DatesInv /\ PassDayInv /\ NavDaysInv)'
  BY DEF NavInv
<1>2. UNCHANGED <<orders, cash, position, nav, stored, today, contested, skew>>
  BY DEF Decide, Flush, SettleRead, Abort, accountVars
<1>3. DatesInv /\ PassDayInv /\ NavDaysInv
  BY <1>1, <1>2 DEF Quiet, NavInv
<1>4. DatesInv' /\ NavDaysInv'
  BY <1>2, <1>3, NavStays, DaysAreNumbers
<1>5. /\ \A q \in Passes \ {p} : pass'[q] = pass[q]
      /\ pass'[p] # Idle => /\ pass[p] # Idle /\ pass'[p].day = pass[p].day
                            /\ ~InMatch(p)' => ~InMatch(p)
                            /\ pass'[p].pc = "value" => pass'[p].cash = cash
  <2>1. CASE Decide(p)
    <3>1. Working(p)
      BY <2>1 DEF Decide
    <3>2. PICK c \in CashSeen(p), n \in SharesSeen(p, orders[Current(p)].symbol) :
             \/ /\ Fills(stored, orders[Current(p)], pass[p].day, c, n)
                /\ pass' = [pass EXCEPT ![p] = Filled(p, c, n)]
             \/ pass' = [pass EXCEPT ![p] = Rejected(p, c, n)]
      BY <2>1, DecideIs
    <3>3. /\ Filled(p, c, n).day = pass[p].day /\ Rejected(p, c, n).day = pass[p].day
          /\ Rejected(p, c, n).pc = "match"
          /\ Fills(stored, orders[Current(p)], pass[p].day, c, n) => Filled(p, c, n).pc = "flush"
      BY <3>1, DecidedFields, RejectedFields, FilledFields
    <3>4. pass[p].pc = "match"
      BY <3>1 DEF Working
    <3> QED
      BY <3>2, <3>3, <3>4 DEF TypeInv, TypeOK, InMatch, Idle
  <2>2. CASE Flush(p)
    <3>1. pass[p].pc = "flush" /\ pass[p] \in Matching
      BY <2>2 DEF Flush, TypeInv, TypeOK, PassStates, Idle
    <3>2. /\ pass'[p].pc = "match" /\ pass'[p].day = pass[p].day
          /\ \A q \in Passes \ {p} : pass'[q] = pass[q]
      BY <2>2, <3>1 DEF Flush, TypeInv, TypeOK, Matching
    <3> QED
      BY <3>1, <3>2 DEF InMatch, Idle
  <2>3. CASE SettleRead(p)
    <3>1. pass[p].pc = "settle"
      BY <2>3 DEF SettleRead
    <3>2. /\ pass'[p] = [pc |-> "value", day |-> pass[p].day, cash |-> cash]
          /\ \A q \in Passes \ {p} : pass'[q] = pass[q]
      BY <2>3 DEF SettleRead, TypeInv, TypeOK
    <3> QED
      BY <3>1, <3>2 DEF InMatch, Idle
  <2>4. CASE Abort(p)
    BY <2>4 DEF Abort, TypeInv, TypeOK
  <2> QED
    BY <2>1, <2>2, <2>3, <2>4
<1>6. ASSUME NEW q \in Passes, pass'[q] # Idle
      PROVE  /\ \A i \in DOMAIN orders' :
                  orders'[i].fill # NoFill => orders'[i].fill.day <= pass'[q].day
             /\ ~InMatch(q)' => Closed(pass[q].day)'
             /\ pass'[q].pc = "value" => pass'[q].cash = cash'
  <2>1. /\ pass[q] # Idle /\ pass'[q].day = pass[q].day
        /\ ~InMatch(q)' => ~InMatch(q)
        /\ pass'[q].pc = "value" => pass'[q].cash = cash \/ pass'[q] = pass[q]
    BY <1>5, <1>6 DEF InMatch
  <2>2. /\ \A i \in DOMAIN orders : orders[i].fill # NoFill => orders[i].fill.day <= pass[q].day
        /\ ~InMatch(q) => Closed(pass[q].day)
        /\ pass[q].pc = "value" => pass[q].cash = cash
    BY <1>3, <2>1 DEF PassDayInv
  <2>3. ~InMatch(q)' => Closed(pass[q].day)'
    BY <1>2, <2>1, <2>2 DEF Closed
  <2> QED
    BY <1>2, <2>1, <2>2, <2>3
<1>7. PassDayInv'
  BY <1>6 DEF PassDayInv
<1> QED
  BY <1>4, <1>7

\* What settle stores counts every fill, and there is none of a later day.
LEMMA SettleCommitNav ==
  ASSUME TypeInv, BookInv, AccountInv, NavInv, NEW p \in Passes, SettleCommit(p)
  PROVE  NavInv'
<1>1. SUFFICES ASSUME Quiet'
               PROVE  (DatesInv /\ PassDayInv /\ NavDaysInv)'
  BY DEF NavInv
<1>2. /\ UNCHANGED <<orders, cash, position, stored, today, contested, skew>>
      /\ pass[p].pc = "value" /\ pass[p] # Idle /\ ~InMatch(p)
      /\ pass'[p] = Idle /\ \A q \in Passes \ {p} : pass'[q] = pass[q]
  BY DEF SettleCommit, accountVars, Idle, InMatch, TypeInv, TypeOK
<1>3. DatesInv /\ PassDayInv /\ NavDaysInv /\ Calm /\ FillsInv /\ BalanceInv
  BY <1>1, <1>2 DEF Quiet, NavInv, Calm, AccountInv
<1>3a. PICK d \in Days : d = pass[p].day
  BY <1>2, DaysAreNumbers
<1>4. /\ d <= today
      /\ \A i \in DOMAIN orders : orders[i].fill # NoFill => orders[i].fill.day <= d
      /\ Closed(d) /\ pass[p].cash = cash
  BY <1>2, <1>3, <1>3a DEF PassDayInv, BookInv
<1>5. /\ nav'[d] = [cash |-> cash, value |-> Worth(stored, position, d)]
      /\ \A e \in Days \ {d} : nav'[e] = nav[e]
  BY <1>4, <1>3a DEF SettleCommit, TypeInv, TypeOK
<1>6. DatesInv'
  BY <1>2, <1>3 DEF DatesInv
<1>7. PassDayInv'
  BY <1>2, <1>3 DEF PassDayInv, InMatch, Closed
<1>8. \A e \in Days : /\ CashBy(e)' = CashBy(e)
                      /\ \A s \in Symbols : SharesBy(e, s)' = SharesBy(e, s)
                      /\ Closed(e)' <=> Closed(e)
  BY <1>2 DEF CashBy, SharesBy, FilledBy, CashOf, SharesOf, Closed
<1>9. NavRow(d)'
  <2>1. /\ FilledBy(d) \subseteq DOMAIN orders
        /\ \A i \in (DOMAIN orders) \ FilledBy(d) : orders[i].fill = NoFill
    BY <1>4 DEF FilledBy
  <2>2. /\ SumFunctionOnSet(CashOf(orders), DOMAIN orders) = CashBy(d)
        /\ \A s \in Symbols : SumFunctionOnSet(SharesOf(orders, s), DOMAIN orders) = SharesBy(d, s)
    BY <1>3, <2>1, UnfilledAddNothing DEF CashBy, SharesBy
  <2>3. cash = InitialCash + CashBy(d) /\ \A s \in Symbols : position[s] = SharesBy(d, s)
    BY <1>3, <2>2 DEF BalanceInv
  <2>4. Worth(stored, position, d) = Worth(stored, [s \in Symbols |-> SharesBy(d, s)'], d)
    <3>1. position = [s \in Symbols |-> SharesBy(d, s)']
      BY <1>8, <2>3 DEF TypeInv, TypeOK
    <3> QED
      BY <3>1
  <2>5. nav'[d].cash = InitialCash + CashBy(d)'
    BY <1>4, <1>5, <1>8, <2>3
  <2>6. /\ stored \in SUBSET stored'
        /\ nav'[d].value = Worth(stored, [s \in Symbols |-> SharesBy(d, s)'], d)
    BY <1>2, <1>5, <2>4
  <2> QED
    BY <2>5, <2>6 DEF NavRow
<1>10. ASSUME NEW e \in Days, nav'[e] # NoNav
       PROVE  Closed(e)' /\ e <= today' /\ NavRow(e)'
  <2>1. CASE e = d
    BY <1>2, <1>4, <1>8, <1>9, <2>1
  <2>2. CASE e # d
    <3>1. Closed(e) /\ e <= today /\ NavRow(e) /\ nav'[e] = nav[e]
      BY <1>3, <1>5, <1>10, <2>2 DEF NavDaysInv
    <3>2. NavRow(e)'
      BY <1>2, <1>8, <3>1, NavRowStays
    <3> QED
      BY <1>2, <1>8, <3>1, <3>2
  <2> QED
    BY <2>1, <2>2
<1> QED
  BY <1>6, <1>7, <1>10 DEF NavDaysInv

\* A later pass fills only what no settled day has counted.
LEMMA MatchCommitNav ==
  ASSUME TypeInv, BookInv, AccountInv, NavInv, NEW p \in Passes, MatchCommit(p)
  PROVE  NavInv'
<1>1. SUFFICES ASSUME Quiet'
               PROVE  (DatesInv /\ PassDayInv /\ NavDaysInv)'
  BY DEF NavInv
<1>2. /\ UNCHANGED <<nav, stored, today, contested, skew>>
      /\ pass[p].pc = "match" /\ pass[p] # Idle
      /\ pass'[p] = [pc |-> "settle", day |-> pass[p].day]
      /\ \A q \in Passes \ {p} : pass'[q] = pass[q]
  BY DEF MatchCommit, accountVars, Idle, TypeInv, TypeOK
<1>3. DatesInv /\ PassDayInv /\ NavDaysInv /\ Calm /\ ~contested /\ FillsInv
  BY <1>1, <1>2 DEF Quiet, NavInv, Calm, AccountInv
<1>4. PICK d \in Days : d = pass[p].day
  BY <1>2, DaysAreNumbers
<1>5. /\ d \in Nat /\ d <= today
      /\ \A i \in DOMAIN orders : orders[i].fill # NoFill => orders[i].fill.day <= d
  BY <1>2, <1>3, <1>4, DaysAreNumbers DEF PassDayInv, BookInv
<1>6. /\ DOMAIN orders' = DOMAIN orders
      /\ \A i \in (DOMAIN orders) \ Due(d) : orders'[i] = orders[i]
      /\ \A i \in Due(d) :
           /\ orders[i].fill = NoFill /\ orders[i].day < d
           /\ orders'[i].day = orders[i].day
           /\ \/ orders'[i].status = "rejected" /\ orders'[i].fill = NoFill
              \/ /\ orders'[i].status = "filled" /\ orders'[i].fill \in FillRecords
                 /\ orders'[i].fill.day = d
  BY <1>3, <1>4, CommitRows
<1>7. Due(d) \subseteq DOMAIN orders
  BY DueIsFinite
<1>8. ASSUME NEW i \in DOMAIN orders'
      PROVE  /\ orders'[i].day <= today'
             /\ orders'[i].fill # NoFill => /\ orders'[i].fill.day <= d
                                            /\ orders'[i].fill.day <= today'
  <2>1. CASE i \in Due(d)
    <3>1. orders'[i].fill # NoFill => orders'[i].fill.day = d
      BY <1>6, <2>1
    <3>2. orders'[i].day <= today'
      BY <1>2, <1>3, <1>6, <1>7, <2>1 DEF DatesInv
    <3> QED
      BY <1>2, <1>5, <3>1, <3>2
  <2>2. CASE i \notin Due(d)
    BY <1>2, <1>3, <1>5, <1>6, <1>8, <2>2 DEF DatesInv
  <2> QED
    BY <2>1, <2>2
<1>9. DatesInv'
  BY <1>8 DEF DatesInv
<1>10. PassDayInv'
  <2>1. \A q \in Passes \ {p} : pass'[q] = Idle
    BY <1>2, <1>3, NoRival
  <2>2. pass'[p].day = d /\ pass'[p].pc = "settle"
    BY <1>2, <1>4
  <2>3. \A i \in DOMAIN orders' : orders'[i].day < d => orders'[i].status # "pending"
    BY <1>6 DEF Due
  <2>4. Closed(pass[p].day)'
    BY <2>2, <2>3 DEF Closed
  <2>5. \A i \in DOMAIN orders' : orders'[i].fill # NoFill => orders'[i].fill.day <= pass'[p].day
    BY <1>8, <2>2
  <2> QED
    BY <2>1, <2>2, <2>4, <2>5 DEF PassDayInv
<1>11. ASSUME NEW e \in Days, nav'[e] # NoNav
       PROVE  Closed(e)' /\ e <= today' /\ NavRow(e)'
  <2>1. Closed(e) /\ e <= today /\ NavRow(e) /\ nav'[e] = nav[e] /\ e \in Nat
    BY <1>2, <1>3, <1>11, DaysAreNumbers DEF NavDaysInv
  <2>2. \A i \in Due(d) : orders[i].day >= e /\ e < d
    BY <1>5, <1>6, <1>7, <2>1, DaysAreNumbers DEF Closed, Due
  <2>3. \A i \in Due(d) : orders'[i].fill # NoFill => ~(orders'[i].fill.day <= e)
    BY <1>5, <1>6, <2>1, <2>2
  <2>4. FilledBy(e)' = FilledBy(e)
    BY <1>6, <1>7, <2>3 DEF FilledBy
  <2>5. \A i \in FilledBy(e) : orders'[i] = orders[i]
    BY <1>6 DEF FilledBy
  <2>6. CashBy(e)' = CashBy(e) /\ \A s \in Symbols : SharesBy(e, s)' = SharesBy(e, s)
    BY <1>6, <2>4, <2>5, SameFills
  <2>7. NavRow(e)'
    BY <1>2, <2>1, <2>6, NavRowStays
  <2>8. Closed(e)'
    BY <1>6, <2>1 DEF Closed
  <2> QED
    BY <1>2, <2>1, <2>7, <2>8
<1> QED
  BY <1>9, <1>10, <1>11 DEF NavDaysInv

\* Bars arrive and days pass.
LEMMA WorldNav ==
  ASSUME TypeInv, NavInv,
         \/ \E s \in Symbols, d \in TradingDays : BarArrives(s, d)
         \/ NextDay
         \/ UNCHANGED vars
  PROVE  NavInv'
<1>1. SUFFICES ASSUME Quiet'
               PROVE  (DatesInv /\ PassDayInv /\ NavDaysInv)'
  BY DEF NavInv
<1>2. UNCHANGED <<orders, cash, position, nav, pass, contested, skew>> /\ stored \subseteq stored'
  BY DEF BarArrives, NextDay, vars, accountVars
<1>3. today' \in Nat /\ today <= today'
  <2>1. today' = today \/ today' = today + 1
    BY DEF BarArrives, NextDay, vars
  <2> QED
    BY <2>1, DaysAreNumbers
<1>4. DatesInv /\ PassDayInv /\ NavDaysInv
  BY <1>1, <1>2 DEF Quiet, NavInv
<1>5. DatesInv' /\ NavDaysInv'
  BY <1>2, <1>3, <1>4, NavStays
<1>6. PassDayInv'
  BY <1>2, <1>4 DEF PassDayInv, InMatch, Closed
<1> QED
  BY <1>5, <1>6

\* Every step keeps NavInv.
LEMMA NextNav ==
  ASSUME TypeInv, BookInv, AccountInv, NavInv, [Next]_vars
  PROVE  NavInv'
<1>1. CASE \E s \in Symbols, side \in {"buy", "sell"}, q \in Quantities : Place(s, side, q)
  BY <1>1, PlaceNav
<1>2. CASE \/ \E s \in Symbols, d \in TradingDays : BarArrives(s, d)
           \/ NextDay
           \/ UNCHANGED vars
  BY <1>2, WorldNav
<1>3. ASSUME NEW p \in Passes,
             \/ \E d \in RunDays : Begin(p, d)
             \/ Decide(p)
             \/ Flush(p)
             \/ SettleRead(p)
             \/ SettleCommit(p)
             \/ Abort(p)
      PROVE  NavInv'
  BY <1>3, BeginNav, PassStepNav, SettleCommitNav
<1>4. ASSUME NEW p \in Passes, MatchCommit(p)
      PROVE  NavInv'
  BY <1>4, MatchCommitNav
<1> QED
  BY <1>1, <1>2, <1>3, <1>4 DEF Next

\* At the start nothing is filled or settled.
LEMMA InitNav == Init => NavInv
BY DEF Init, NavInv, DatesInv, PassDayInv, NavDaysInv

\* What NavRow says is what NavCountsFills asks of a day.
LEMMA NavInvImplies == NavInv => NavCountsFills
<1> SUFFICES ASSUME NavInv, ~contested, skew = {}, NEW d \in Days, nav[d] # NoNav
             PROVE  LET I == {i \in DOMAIN orders :
                                orders[i].fill # NoFill /\ orders[i].fill.day <= d}
                        shares == [s \in Symbols |-> Book!SharesMoved(orders, I, s)]
                    IN  /\ nav[d].cash = InitialCash + Book!CashMoved(orders, I)
                        /\ \E bars \in SUBSET stored : nav[d].value = Worth(bars, shares, d)
  BY DEF NavCountsFills
<1>1. NavRow(d)
  BY DEF NavInv, Quiet, NavDaysInv
<1>2. Book!CashMoved(orders, FilledBy(d)) = CashBy(d)
  BY BookOperators DEF CashBy
<1>3. [s \in Symbols |-> Book!SharesMoved(orders, FilledBy(d), s)]
        = [s \in Symbols |-> SharesBy(d, s)]
  BY BookOperators DEF SharesBy
<1> QED
  BY <1>1, <1>2, <1>3 DEF NavRow, FilledBy

\* The nav row that settle leaves for a day is the initial cash and what the
\* fills up to that day have moved, marked by bars that were stored: an order
\* filled later can never have been counted, nor one of that day be missing, also
\* when a pass is cut off between its commits or is run again.
THEOREM NavCorrect == Spec => []NavCountsFills
<1>1. Init => TypeInv /\ BookInv /\ AccountInv /\ NavInv
  BY InitTypeInv, InitBook, InitAccount, InitNav
<1>2. TypeInv /\ BookInv /\ AccountInv /\ NavInv /\ [Next]_vars
        => TypeInv' /\ BookInv' /\ AccountInv' /\ NavInv'
  BY NextTypeInv, NextBook, NextAccount, NextNav
<1> QED
  BY <1>1, <1>2, NavInvImplies, PTL DEF Spec
=============================================================================
