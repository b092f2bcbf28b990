---------------------------- MODULE PaperEngine ----------------------------
(***************************************************************************)
(* The rules of the paper account that need no database: what an order     *)
(* costs and when the market and the account let it fill (engine.py of     *)
(* packages/papertrade), over the daily bars that the datahub may store.   *)
(*                                                                         *)
(* Money is counted in ten-thousandths of the unit of the prices, so that  *)
(* slippage and fees are integers; the rounding of the code's floats and   *)
(* of its Numeric(18, 2) columns is left out.                              *)
(***************************************************************************)
EXTENDS Integers, FiniteSetsExt

CONSTANTS
  Symbols,         \* the instruments that are traded
  MaxDay,          \* the last calendar day
  TradingDays,     \* the days on which the exchange is open
  Market,          \* the bar of each symbol on each trading day
  LimitPct,        \* width of a symbol's price band, in percent
  LotSize,         \* accounts.lot_size
  SlippageBps,     \* accounts.slippage_bps, in ten-thousandths
  CommissionRate,  \* accounts.commission_rate, in hundred-thousandths
  CommissionMin,   \* accounts.commission_min
  StampTaxRate     \* accounts.stamp_tax_rate, in ten-thousandths

Days == 1..MaxDay
Bars == [open : Nat, close : Nat]

ASSUME CalendarAssumption == MaxDay \in Nat \ {0} /\ TradingDays \subseteq Days
ASSUME MarketAssumption == Market \in [Symbols -> [TradingDays -> Bars]]
ASSUME BandAssumption == LimitPct \in [Symbols -> {10, 20}]
ASSUME FeeAssumption ==
  /\ LotSize \in Nat \ {0}
  /\ SlippageBps \in 0..10000
  /\ CommissionRate \in Nat
  /\ CommissionMin \in Nat
  /\ StampTaxRate \in Nat

-----------------------------------------------------------------------------
\* apply_slippage and the amount of a fill: dearer to buy, cheaper to sell.
FillPrice(side, open) ==
  open * (IF side = "buy" THEN 10000 + SlippageBps ELSE 10000 - SlippageBps)

Amount(side, quantity, open) == quantity * FillPrice(side, open)

\* A commission with a floor, and the stamp tax on a sale.
Commission(amount) ==
  LET byRate == (amount * CommissionRate) \div 100000
  IN  IF byRate > CommissionMin THEN byRate ELSE CommissionMin

Fee(side, amount) ==
  Commission(amount) + IF side = "sell" THEN (amount * StampTaxRate) \div 10000 ELSE 0

\* The fill of an order at the open of a day.
FillAt(o, d) ==
  LET amount == Amount(o.side, o.quantity, Market[o.symbol][d].open)
  IN  [day |-> d, amount |-> amount, fee |-> Fee(o.side, amount)]

\* What a fill adds to the cash of the account, and to the shares held.
CashFlow(side, amount, fee) == IF side = "buy" THEN 0 - (amount + fee) ELSE amount - fee
ShareFlow(side, quantity)   == IF side = "buy" THEN quantity ELSE 0 - quantity

-----------------------------------------------------------------------------
(* The bars stored so far, as a set of <<symbol, day>> *)

\* get_prev_close: the close of the last bar stored before a day, 0 if none.
Before(stored, s, d) == {e \in TradingDays : e < d /\ <<s, e>> \in stored}
PrevClose(stored, s, d) ==
  IF Before(stored, s, d) = {} THEN 0
  ELSE Market[s][Max(Before(stored, s, d))].close

\* The close that marks a position: a suspended symbol keeps its last one.
Mark(stored, s, d) ==
  IF <<s, d>> \in stored THEN Market[s][d].close ELSE PrevClose(stored, s, d)

\* limit_band: nobody sells at the upper limit, nobody buys at the lower one.
AtUpperLimit(s, open, prev) == open * 100000 >= prev * (100 + LimitPct[s]) * 999
AtLowerLimit(s, open, prev) == open * 100000 <= prev * (100 - LimitPct[s]) * 1001

\* try_fill, for a sale without its test.
DeliversAnything(quantity, shares) == quantity > 0

\* try_fill: the cash pays for the purchase, the shares for the sale.
Pays(amount, cash)         == amount + Fee("buy", amount) <= cash
Delivers(quantity, shares) == quantity <= shares

\* try_fill_with_limits: whether an order fills at the open of a day, with
\* this cash and these shares.
Fills(stored, o, d, cash, shares) ==
  /\ <<o.symbol, d>> \in stored
  /\ LET open   == Market[o.symbol][d].open
         prev   == PrevClose(stored, o.symbol, d)
     IN  /\ open > 0
         /\ CASE o.side = "buy" ->
                   /\ ~(prev > 0 /\ AtUpperLimit(o.symbol, open, prev))
                   /\ Pays(Amount("buy", o.quantity, open), cash)
              [] o.side = "sell" ->
                   /\ ~(prev > 0 /\ AtLowerLimit(o.symbol, open, prev))
                   /\ Delivers(o.quantity, shares)
=============================================================================
