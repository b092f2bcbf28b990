----------------------------- MODULE PaperBook -----------------------------
(***************************************************************************)
(* What the paper account promises ("挂单 -> 次一交易日开盘价成交", __init__.py   *)
(* of packages/papertrade), without passes, sessions or commits: a trading  *)
(* day decides every order placed before it at once, at that day's open,   *)
(* and moves cash and shares by exactly what it filled.                    *)
(***************************************************************************)
EXTENDS PaperEngine, Sequences, Functions

CONSTANTS
  InitialCash,   \* accounts.initial_cash
  NoFill         \* an order without a fill

VARIABLES
  orders,     \* the orders of the account, in the order of submission
  cash,       \* accounts.cash
  position    \* positions.quantity of each symbol

bookVars == <<orders, cash, position>>

-----------------------------------------------------------------------------
\* What the orders with the numbers in I have moved.
CashMoved(os, I) ==
  SumFunctionOnSet(
    [i \in DOMAIN os |->
       IF os[i].status = "filled"
       THEN CashFlow(os[i].side, os[i].fill.amount, os[i].fill.fee) ELSE 0], I)

SharesMoved(os, I, s) ==
  SumFunctionOnSet(
    [i \in DOMAIN os |->
       IF os[i].status = "filled" /\ os[i].symbol = s
       THEN ShareFlow(os[i].side, os[i].quantity) ELSE 0], I)

BookInit ==
  /\ orders = <<>>
  /\ cash = InitialCash
  /\ position = [s \in Symbols |-> 0]

\* A new order waits.
Submit ==
  /\ Len(orders') = Len(orders) + 1
  /\ orders' = Append(orders, orders'[Len(orders')])
  /\ orders'[Len(orders')].status = "pending"
  /\ UNCHANGED <<cash, position>>

\* What a day can make of a pending order.
Decided(o, d) ==
  {[o EXCEPT !.status = "rejected"]}
    \cup IF d \in TradingDays
         THEN {[o EXCEPT !.status = "filled", !.fill = FillAt(o, d)]} ELSE {}

TradingDay(d) ==
  LET due == {i \in DOMAIN orders : orders[i].status = "pending" /\ orders[i].day < d}
  IN  /\ DOMAIN orders' = DOMAIN orders
      /\ \A i \in DOMAIN orders :
           IF i \in due THEN orders'[i] \in Decided(orders[i], d)
                        ELSE orders'[i] = orders[i]
      /\ cash' = cash + CashMoved(orders', due)
      /\ position' = [s \in Symbols |-> position[s] + SharesMoved(orders', due, s)]

BookNext == Submit \/ \E d \in Days : TradingDay(d)

BookSpec == BookInit /\ [][BookNext]_bookVars
=============================================================================
