--------------------------------- MODULE Reports ---------------------------------
(***************************************************************************)
(* The stock screens and the pace of sales (service/app/stock.py), alert   *)
(* settings (alert_settings.py), return metrics (returns.py) and a         *)
(* settlement (settlements.py, over the view of schema/0014).              *)
(***************************************************************************)
EXTENDS Products

-------------------------------------------------------------------------------
(* STOCK_SQL *)

PACE_DAYS == 14
DEFAULT_LOW_STOCK_DAYS == 14

\* get_alert_settings: the seller's, or the default.
LowStockDays(db) == IF db.low_days = 0 THEN DEFAULT_LOW_STOCK_DAYS ELSE db.low_days

\* put_alert_settings
SettingsRefused(days) == days < 1 \/ days > 365
PutAlertSettings(db, days) == [db EXCEPT !.low_days = days]

\* Units on the lines of orders that stand, by the day of the order.
Ordered(db, lines, from, to) ==
  LET live(o) == o \in DOMAIN db.orders /\ ~db.orders[o].cancelled
                   /\ from <= db.orders[o].day /\ db.orders[o].day <= to
  IN  MapThenSumSet(LAMBDA l : OrderLine[l].quantity, {l \in lines : live(OrderLine[l].order)})

Pace(db, sku) ==
  Ordered(db, {l \in DOMAIN OrderLine : OrderLine[l].sku = sku}, Today - (PACE_DAYS - 1), Today)

\* In tenths of a day, and 0 for none: nothing sold, or nothing to sell.
DaysLeft(db, p) ==
  IF p.on_shelf > 0 /\ Pace(db, p.sku) > 0
    THEN RoundHalfUp(p.on_shelf * PACE_DAYS * 10, Pace(db, p.sku))
    ELSE 0

HasPace(db, p) == p.on_shelf > 0 /\ Pace(db, p.sku) > 0

StockState(db, p) ==
  IF p.on_shelf <= 0 THEN "out"
  ELSE IF HasPace(db, p) /\ DaysLeft(db, p) < 10 * LowStockDays(db) THEN "low"
  ELSE IF p.coming_back > 0 THEN "coming_back"
  ELSE "healthy"

\* positions(): every position with its state; what get_stock and get_product show.
Positions(db, state) ==
  {q \in {[sku |-> p.sku, state |-> StockState(db, p), days_left |-> DaysLeft(db, p)] :
            p \in db.positions} : state = None \/ q.state = state}

\* A product of one variant has a position, one of several has none.
PositionOf(db, product) ==
  LET own == {p \in Positions(db, None) : ProductOf[p.sku] = product}
  IN  IF Cardinality(own) = 1 THEN CHOOSE p \in own : TRUE ELSE None

-------------------------------------------------------------------------------
(* get_velocity: the money of one statement, the units of the next. *)

Velocity(moneyDb, unitsDb, basis, window) ==
  LET from == Today - (window - 1)
      scoped == {e \in moneyDb.ledger : InPeriod(e, [basis |-> basis, from |-> from, to |-> Today])}
  IN  [gross |-> RoundHalfUp(Amount(Within(scoped, {"gross_sales"})), window),
       net   |-> RoundHalfUp(Amount({e \in scoped : e.type \in NET_PROCEEDS_TYPES}), window),
       units |-> RoundHalfUp(100 * Ordered(unitsDb, DOMAIN OrderLine, from, Today), window)]

-------------------------------------------------------------------------------
(* get_return_metrics *)

MAX_MOST_RETURNED == 5

ReturnMetrics(db, from, to) ==
  LET period == [basis |-> "sales", from |-> from, to |-> to]
      back(skus) == MapThenSumSet(LAMBDA s : Returned(db, period, s), skus)
      of(product) == {s \in Sku : ProductOf[s] = product}
      returned == {p \in Product : back(of(p)) > 0}
      sold == MapThenSumSet(LAMBDA l : OrderLine[l].quantity,
                {e.line : e \in {e \in Within(db.ledger, {"gross_sales"}) : e.line # None /\ InPeriod(e, period)}})
      lossy == {e \in db.ledger : e.type \in RETURN_LOSS_TYPES /\ InPeriod(e, period)}
      lost(product) == -Amount({e \in lossy : e.sku # None /\ ProductOf[e.sku] = product})
      worse(p, q) == \/ back(of(p)) > back(of(q))
                     \/ back(of(p)) = back(of(q)) /\ lost(p) > lost(q)
  IN  IF from > to THEN [error |-> "validation_failed"]
      ELSE [error      |-> "none",
            units      |-> back(Sku),
            rate       |-> <<IF back(Sku) < sold THEN back(Sku) ELSE sold, sold>>,   \* 0 when nothing sold
            cost       |-> -Amount(lossy),
            write_offs |-> -Amount({e \in lossy : e.type = "write_off"}),
            most       |-> {[product |-> p, units |-> back(of(p)), cost |-> lost(p)] :
                              p \in {p \in returned :
                                Cardinality({q \in returned : worse(q, p)}) < MAX_MOST_RETURNED}}]

\* A return's cost: its entries, as the view return_reconciliation sums them; null for none.
ReturnCost(db, ret) ==
  LET lossy == {e \in db.ledger : e.ret = ret.id /\ e.type \in RETURN_LOSS_TYPES}
  IN  IF lossy = {} THEN None ELSE -Amount(lossy)

AwaitingCheck(db, ret) == Cardinality({i \in db.items : i.ret = ret.id /\ i.check = "pending"})

-------------------------------------------------------------------------------
(* get_settlement: the statement, its reconciliation, its orders; and its invoice number. *)

\* settlement_reconciliation (schema/0014): payouts and reserves are no part of a statement.
Reconciled(db, id) ==
  Amount({e \in db.ledger : <<e.statement>> = id /\ e.type \notin {"payout", "reserve"}})

SettlementDetail(rowDb, recDb, ordersDb, id) ==
  LET rows == {s \in rowDb.statements : s.id = id}
      of(db) == {e \in db.ledger : <<e.statement>> = id}
      orders == {e.order : e \in of(ordersDb)} \ {None}
  IN  IF rows = {} THEN [error |-> "settlement_not_found"]
      ELSE [error        |-> "none",
            settlement   |-> CHOOSE s \in rows : TRUE,
            net_proceeds |-> Reconciled(recDb, id),
            unexplained  |-> (CHOOSE s \in rows : TRUE).stated - Reconciled(recDb, id),
            orders       |-> [o \in orders |->
                                Amount({e \in of(ordersDb) : e.order = o /\ e.type = "sale"})]]

\* record_settlement_invoice
RecordInvoice(db, id, number) ==
  [db EXCEPT !.statements = {IF s.id = id THEN [s EXCEPT !.invoice = number] ELSE s : s \in @}]
===============================================================================
