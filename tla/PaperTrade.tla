----------------------------- MODULE PaperTrade -----------------------------
(***************************************************************************)
(* One paper account (packages/papertrade): orders are placed at any time, *)
(* and run_day(d) matches the pending orders at the open of day d, commits,*)
(* and then settles the account at the close of d in a second transaction. *)
(*                                                                         *)
(* The daily cron and POST /run-day run on threads of their own and nobody *)
(* keeps them apart.  A pass works in one session at READ COMMITTED: it    *)
(* reads the list of pending orders once; the row of the account and each  *)
(* position when it needs them, where a row it has not written may be read *)
(* again or remembered (the orders of other accounts come in between).     *)
(* What it writes it computes from what it has read.  Its first fill locks *)
(* the row of the account until it commits.                                *)
(***************************************************************************)
EXTENDS PaperEngine, Sequences, Functions

CONSTANTS
  InitialCash,   \* accounts.initial_cash
  NoFill,        \* an order without a fill
  NoNav,         \* a day without a row in nav
  Unset,         \* what a pass has not read or not decided yet
  Quantities,    \* the quantities that are asked for
  MaxOrders,     \* bound on the orders placed
  RunDays,       \* bound on the days that run_day is called for
  Passes         \* threads that can be in run_day

ASSUME CashAssumption == InitialCash \in Nat
ASSUME QuantitiesAssumption == Quantities \subseteq Nat \ {0}
ASSUME BoundsAssumption == MaxOrders \in Nat /\ RunDays \subseteq Days
\* The code lets the fee of a sale exceed its proceeds; at the prices and
\* quantities of the exchange it does not.
ASSUME SaleAssumption ==
  \A s \in Symbols, d \in TradingDays, q \in Quantities :
    LET amount == Amount("sell", q, Market[s][d].open)
    IN  Market[s][d].open > 0 => Fee("sell", amount) <= amount
\* What there is instead of a fill or a number is neither.
FillRecords == [day : Days, amount : Nat, fee : Nat]
ASSUME UnsetAssumption ==
  NoFill \notin FillRecords /\ Unset \notin Int \cup FillRecords \cup {NoFill}

VARIABLES
  orders,      \* the orders of the account, in the order of submission
  cash,        \* accounts.cash
  position,    \* positions.quantity of each symbol
  nav,         \* the nav row of each day
  stored,      \* the bars in the datahub
  today,       \* the calendar
  pass,        \* what each thread is doing in run_day
  contested,   \* history: two passes have overlapped
  skew         \* history: passes were run for days gone by, or to come

accountVars == <<orders, cash, position>>
vars == <<accountVars, nav, stored, today, pass, contested, skew>>

Book == INSTANCE PaperBook WITH orders <- orders, cash <- cash, position <- position

-----------------------------------------------------------------------------
OrderRows ==
  [symbol : Symbols, side : {"buy", "sell"}, quantity : Quantities, day : Days,
   status : {"pending", "filled", "rejected"}, fill : FillRecords \cup {NoFill}]

Idle == [pc |-> "idle"]
Numbers == 1..MaxOrders
Matching ==
  [pc : {"match", "flush"}, day : Days, todo : SUBSET Numbers,
   decided : [Numbers -> FillRecords \cup {NoFill, Unset}],
   cash : Int \cup {Unset}, shares : [Symbols -> Int \cup {Unset}],
   wrote : SUBSET Symbols, locked : BOOLEAN]
PassStates ==
  {Idle} \cup Matching
    \cup [pc : {"settle"}, day : Days]
    \cup [pc : {"value"}, day : Days, cash : Int]

TypeOK ==
  /\ orders \in Seq(OrderRows) /\ Len(orders) <= MaxOrders
  /\ cash \in Int
  /\ position \in [Symbols -> Int]
  /\ nav \in [Days -> [cash : Int, value : [Symbols -> Int]] \cup {NoNav}]
  /\ stored \subseteq Symbols \X TradingDays
  /\ today \in Days
  /\ pass \in [Passes -> PassStates]
  /\ contested \in BOOLEAN /\ skew \subseteq {"past", "future"}

\* create_account has been called.
Init ==
  /\ orders = <<>>
  /\ cash = InitialCash
  /\ position = [s \in Symbols |-> 0]
  /\ nav = [d \in Days |-> NoNav]
  /\ stored = {}
  /\ today = 1
  /\ pass = [p \in Passes |-> Idle]
  /\ contested = FALSE
  /\ skew = {}

-----------------------------------------------------------------------------
(* Placing an order *)

\* Any sale of what is there, whole lots or not.
SellableLots(s, side, q) == q % LotSize = 0 \/ (side = "sell" /\ q <= position[s])

\* Whole lots, or a sale of exactly what is held.
WholeOrExit(s, side, q) == q % LotSize = 0 \/ (side = "sell" /\ q = position[s])

\* place_order, by hand or for an adopted signal.
Place(s, side, q) ==
  /\ Len(orders) < MaxOrders
  /\ WholeOrExit(s, side, q)
  /\ orders' = Append(orders, [symbol |-> s, side |-> side, quantity |-> q,
                               day |-> today, status |-> "pending", fill |-> NoFill])
  /\ UNCHANGED <<cash, position, nav, stored, today, pass, contested, skew>>

-----------------------------------------------------------------------------
(* match_pending *)

\* The order's own day let through.
DueSameDay(d) ==
  {i \in DOMAIN orders : orders[i].status = "pending" /\ orders[i].day <= d}

\* The pending orders that were submitted before the day.
Due(d) == {i \in DOMAIN orders : orders[i].status = "pending" /\ orders[i].day < d}

Begin(p, d) ==
  /\ pass[p] = Idle
  /\ pass' = [pass EXCEPT ![p] =
       [pc |-> "match", day |-> d, todo |-> Due(d), decided |-> [i \in Numbers |-> Unset],
        cash |-> Unset, shares |-> [s \in Symbols |-> Unset],
        wrote |-> {}, locked |-> FALSE]]
  /\ contested' = (contested \/ \E q \in Passes : pass[q] # Idle)
  /\ skew' = skew \cup (IF d < today THEN {"past"} ELSE {})
                   \cup (IF d > today THEN {"future"} ELSE {})
  /\ UNCHANGED <<accountVars, nav, stored, today>>

\* What a pass may see of a row: its own write; otherwise the committed
\* value, or the one it remembers.
Sees(own, seen, committed) == IF own THEN {seen} ELSE {committed} \cup ({seen} \ {Unset})

CashSeen(p)      == Sees(pass[p].locked, pass[p].cash, cash)
SharesSeen(p, s) == Sees(s \in pass[p].wrote, pass[p].shares[s], position[s])

Working(p) == pass[p].pc = "match" /\ pass[p].todo # {}
Current(p) == Min(pass[p].todo)

\* No bar, the price limit, not enough cash or not enough shares.  Without a
\* bar the position is not looked at.
Rejected(p, c, n) ==
  LET i == Current(p)
      s == orders[i].symbol
  IN  [pass[p] EXCEPT !.todo = @ \ {i}, !.decided[i] = NoFill, !.cash = c,
                      !.shares[s] = IF <<s, pass[p].day>> \in stored THEN n ELSE @]

\* The fee of the fill is forgotten.
NewCashNoFee(o, f, c) == c + CashFlow(o.side, f.amount, 0)

\* The cash after a fill, from what the pass has read.
NewCash(o, f, c) == c + CashFlow(o.side, f.amount, f.fee)

Filled(p, c, n) ==
  LET i == Current(p)
      o == orders[i]
      f == FillAt(o, pass[p].day)
  IN  [pass[p] EXCEPT !.pc = "flush", !.todo = @ \ {i}, !.decided[i] = f,
                      !.cash = NewCash(o, f, c),
                      !.shares[o.symbol] = n + ShareFlow(o.side, o.quantity),
                      !.wrote = @ \cup {o.symbol}]

\* The next order of the list is decided on what the pass sees.
Decide(p) ==
  /\ Working(p)
  /\ LET o == orders[Current(p)]
     IN  \E c \in CashSeen(p), n \in SharesSeen(p, o.symbol) :
           pass' = [pass EXCEPT ![p] = IF Fills(stored, o, pass[p].day, c, n)
                                       THEN Filled(p, c, n) ELSE Rejected(p, c, n)]
  /\ UNCHANGED <<accountVars, nav, stored, today, contested, skew>>

\* upsert_position flushes; the UPDATE of the account waits for the other
\* transaction, if there is one, and then overwrites.
Holds(p) == pass[p].pc \in {"match", "flush"} /\ pass[p].locked

Flush(p) ==
  /\ pass[p].pc = "flush"
  /\ \A q \in Passes \ {p} : ~Holds(q)
  /\ pass' = [pass EXCEPT ![p].pc = "match", ![p].locked = TRUE]
  /\ UNCHANGED <<accountVars, nav, stored, today, contested, skew>>

\* Only the columns that changed are written: a rejection leaves the fill.
Outcome(o, f) ==
  CASE f = Unset  -> o
    [] f = NoFill -> [o EXCEPT !.status = "rejected"]
    [] OTHER      -> [o EXCEPT !.status = "filled", !.fill = f]

\* The cash is written whether the pass has changed it or not.
MatchCommitUnread(p) ==
  /\ pass[p].pc = "match" /\ pass[p].todo = {}
  /\ cash' = pass[p].cash
  /\ position' = [s \in Symbols |-> IF s \in pass[p].wrote THEN pass[p].shares[s]
                                                           ELSE position[s]]
  /\ orders' = [i \in DOMAIN orders |-> Outcome(orders[i], pass[p].decided[i])]
  /\ pass' = [pass EXCEPT ![p] = [pc |-> "settle", day |-> pass[p].day]]
  /\ UNCHANGED <<nav, stored, today, contested, skew>>

\* The commit of what the session has changed.
MatchCommit(p) ==
  /\ pass[p].pc = "match" /\ pass[p].todo = {}
  /\ cash' = IF pass[p].locked THEN pass[p].cash ELSE cash
  /\ position' = [s \in Symbols |-> IF s \in pass[p].wrote THEN pass[p].shares[s]
                                                           ELSE position[s]]
  /\ orders' = [i \in DOMAIN orders |-> Outcome(orders[i], pass[p].decided[i])]
  /\ pass' = [pass EXCEPT ![p] = [pc |-> "settle", day |-> pass[p].day]]
  /\ UNCHANGED <<nav, stored, today, contested, skew>>

-----------------------------------------------------------------------------
(* settle *)

\* The account is read first, its positions in a later query.
SettleRead(p) ==
  /\ pass[p].pc = "settle"
  /\ pass' = [pass EXCEPT ![p] = [pc |-> "value", day |-> @.day, cash |-> cash]]
  /\ UNCHANGED <<accountVars, nav, stored, today, contested, skew>>

\* What some shares are worth at the close of a day, symbol by symbol: the
\* code stores the sum.
Worth(bars, shares, d) ==
  [s \in Symbols |-> 10000 * shares[s] * Mark(bars, s, d)]

\* upsert_nav and the commit: a row that exists is overwritten.
SettleCommit(p) ==
  /\ pass[p].pc = "value"
  /\ nav' = [nav EXCEPT ![pass[p].day] =
               [cash |-> pass[p].cash, value |-> Worth(stored, position, pass[p].day)]]
  /\ pass' = [pass EXCEPT ![p] = Idle]
  /\ UNCHANGED <<accountVars, stored, today, contested, skew>>

\* An exception, a duplicate nav row or a crash of the process: the
\* transaction is rolled back and the pass is over.
Abort(p) ==
  /\ pass[p] # Idle
  /\ pass' = [pass EXCEPT ![p] = Idle]
  /\ UNCHANGED <<accountVars, nav, stored, today, contested, skew>>

-----------------------------------------------------------------------------
(* The world *)

\* The sync stores a bar of a day that has come, in any order and never or
\* late for some.
BarArrives(s, d) ==
  /\ d <= today /\ <<s, d>> \notin stored
  /\ stored' = stored \cup {<<s, d>>}
  /\ UNCHANGED <<accountVars, nav, today, pass, contested, skew>>

NextDay ==
  /\ today < MaxDay
  /\ today' = today + 1
  /\ UNCHANGED <<accountVars, nav, stored, pass, contested, skew>>

Next ==
  \/ \E s \in Symbols, side \in {"buy", "sell"}, q \in Quantities : Place(s, side, q)
  \/ \E p \in Passes :
       \/ \E d \in RunDays : Begin(p, d)
       \/ Decide(p)
       \/ Flush(p)
       \/ MatchCommit(p)
       \/ SettleRead(p)
       \/ SettleCommit(p)
       \/ Abort(p)
  \/ \E s \in Symbols, d \in TradingDays : BarArrives(s, d)
  \/ NextDay

Spec == Init /\ [][Next]_vars

-----------------------------------------------------------------------------
(* Properties that hold *)

\* Whatever passes overlap, an account never owes: cash and shares are not
\* negative, because each pass writes only what it could afford from the row
\* it read (try_fill), and the row of the account is written whole.
NothingOverdrawn == cash >= 0 /\ \A s \in Symbols : position[s] >= 0

\* Positions are whole lots for ever: the sale of an odd lot is accepted only
\* as the exit of a position (place_order), and none comes to be odd.
WholeLots == \A s \in Symbols : position[s] % LotSize = 0

\* As long as no two passes have overlapped and none was run for a day to
\* come, the account behaves as PaperBook says, whatever is aborted half-way
\* and whatever past days are run again: orders are decided all at once and
\* once, at the open of a later day, and cash and shares move by their fills.
ImplementsBook ==
  Book!BookInit /\ [][contested' \/ "future" \in skew' \/ Book!BookNext]_accountVars

\* The nav of a day tells the account as the fills up to that day have left
\* it, marked by the bars of some moment, if passes never overlapped and each
\* ran for its own day: also when a pass dies between its two commits, or is
\* run again.
NavCountsFills ==
  ~contested /\ skew = {} =>
    \A d \in Days : nav[d] # NoNav =>
      LET I == {i \in DOMAIN orders : orders[i].fill # NoFill /\ orders[i].fill.day <= d}
          shares == [s \in Symbols |-> Book!SharesMoved(orders, I, s)]
      IN  /\ nav[d].cash = InitialCash + Book!CashMoved(orders, I)
          /\ \E bars \in SUBSET stored : nav[d].value = Worth(bars, shares, d)

-----------------------------------------------------------------------------
(* What the documents say and the code does not do *)

\* __init__.py: an order fills at the open of the next trading day, so a pass
\* of a day on which the exchange is closed decides nothing.
DecidedOnTradingDays ==
  [][\A i \in DOMAIN orders :
       skew = {} /\ orders[i].status = "pending" /\ orders'[i].status # "pending" =>
         \E p \in Passes : pass'[p] # pass[p] /\ pass[p].day \in TradingDays]_orders
=============================================================================
