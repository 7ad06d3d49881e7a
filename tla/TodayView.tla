------------------------------- MODULE TodayView -------------------------------
(***************************************************************************)
(* The Today screen (service/app/today_view.py): the hero, the month, Shop *)
(* Money and what needs the seller, each from statements of its own; and   *)
(* the sync screen (sync_status.py), which shares its freshness.  Times    *)
(* are hours, 0 the null; an hour has no day here.                         *)
(***************************************************************************)
EXTENDS MoneyView

CONSTANT Now      \* now_utc()

ASSUME TodayAssumption == Now \in Nat

GETTING_OLD_AFTER == 6
STALE_AFTER == 24
EXPIRING_WITHIN == 14 * 24

AWAITING_STATUSES == {"waiting_delivery", "waiting_return_refund", "delivered_awaiting_settlement"}

NET_PROCEEDS_CATEGORIES == {"gross_sales", "seller_discount", "refund"} \cup TIKTOK_FEES

freshness(synced) ==
  CASE synced = 0 -> "stale"
    [] synced # 0 /\ Now - synced < GETTING_OLD_AFTER -> "fresh"
    [] synced # 0 /\ Now - synced >= GETTING_OLD_AFTER /\ Now - synced <= STALE_AFTER -> "getting_old"
    [] OTHER -> "stale"

-------------------------------------------------------------------------------
(* Shop Money: SHOP_MONEY_SQL, over all time. *)

Postage(e) == e.category = "return_shipping" /\ e.fee = "return_shipping_fee_amount"

InShopMoney(db) ==
  {e \in db.ledger : e.category \in NET_PROCEEDS_CATEGORIES \/ Postage(e)}

\* An entry with no order, or whose order has no status, is unknown until it is settled.
StatusOf(db, e) ==
  IF e.statement # 0 THEN "settled"
  ELSE IF e.order = None \/ e.order \notin DOMAIN db.orders THEN "unknown"
  ELSE IF db.orders[e.order].status = None THEN "unknown"
  ELSE db.orders[e.order].status

ShopMoney(db) ==
  LET all  == InShopMoney(db)
      at(status) == {e \in all : StatusOf(db, e) = status}
      paid == at("settled")
  IN  [generated      |-> Amount({e \in all : ~Postage(e)}),
       paid_out       |-> Amount(paid),
       awaiting       |-> Amount(all \ paid),
       return_postage |-> Amount({e \in all : Postage(e)}),
       breakdown      |-> [status \in {s \in AWAITING_STATUSES : at(s) # {}} |-> Amount(at(status))]]

-------------------------------------------------------------------------------
(* Needs you: NEEDS_YOU_SQL and _needs_you().  db.link is the shop's connection. *)

SEVERITY_ORDER == [critical |-> 0, warning |-> 1, info |-> 2]

\* The latest run of each domain.
LatestRuns(db) ==
  {r \in db.runs : \A q \in db.runs : q.domain = r.domain => q.at <= r.at}

MonthSoFar == [basis |-> "sales", from |-> MonthOf(Today), to |-> Today]

Broken(link) ==
  \/ link.revoked \/ link.status \in {"needs_reconnect", "disconnected"}
  \/ link.access # 0 /\ link.access <= Now
  \/ link.refresh # 0 /\ link.refresh <= Now

RefreshFailed(link) ==
  link.failed /\ (link.succeeded = 0 \/ (link.attempted # 0 /\ link.attempted > link.succeeded))

NeedsYouItems(db) ==
  LET link == db.link
      unmapped == {e \in Within(db.ledger, {"unmapped_fee"}) : InPeriod(e, MonthSoFar)}
      uncosted == {s \in Sku : /\ \E e \in Within(db.ledger, {"gross_sales"}) : e.sku = s
                               /\ ~\E c \in db.costs : c.sku = s /\ c.current}
      runs(status) == Cardinality({r \in LatestRuns(db) : r.status = status})
      item(type, count, severity, stake) ==
        [type |-> type, count |-> count, severity |-> severity, at_stake |-> stake]
      when(condition) == IF condition THEN 1 ELSE 0
      linked(condition) == when(link.connected /\ condition)
      all == {item("connection_action_required", linked(Broken(link)), "critical", 0),
              item("refresh_failed", linked(RefreshFailed(link)), "critical", 0),
              item("missing_scope", IF link.connected THEN Cardinality(link.missing) ELSE 0, "critical", 0),
              item("connection_expiring",
                   linked(~Broken(link) /\ link.refresh # 0 /\ link.refresh - Now <= EXPIRING_WITHIN),
                   "warning", 0),
              item("sync_needs_reconnect", runs("needs_reconnect"), "critical", 0),
              item("sync_failed", runs("failed"), "warning", 0),
              item("sync_partial", runs("partial"), "warning", 0),
              item("first_sync_pending", when(link.synced = 0), "info", 0),
              item("stale_data", when(link.synced # 0 /\ freshness(link.synced) = "stale"), "warning", 0),
              item("open_discrepancies", Cardinality({d \in db.discs : d.status = "open"}), "warning", 0),
              item("unmapped_fees", Cardinality(unmapped), "warning", -Amount(unmapped)),
              item("returns_to_check", Cardinality({i \in db.items : i.check = "pending"}), "warning", 0),
              item("missing_costs", Cardinality(uncosted), "info", 0),
              item("out_of_stock", Cardinality({p \in db.positions : p.on_shelf <= 0}), "info", 0)}
  IN  {i \in all : i.count > 0}

\* Critical, warning, info; then the amount at stake; then the count.
Precedes(i, j) ==
  \/ SEVERITY_ORDER[i.severity] < SEVERITY_ORDER[j.severity]
  \/ /\ i.severity = j.severity
     /\ i.at_stake > j.at_stake \/ (i.at_stake = j.at_stake /\ i.count > j.count)

\* What the screen lists, each item with the number of those above it.
NeedsYou(db) ==
  LET items == NeedsYouItems(db)
  IN  {[item |-> i, above |-> Cardinality({j \in items : Precedes(j, i)})] : i \in items}

-------------------------------------------------------------------------------
(* get_today: the calculator twice, Shop Money, Needs you; six statements. *)

Hero(day) ==
  [label |-> IF day.complete THEN "gross_profit_after_returns" ELSE "net_proceeds",
   value |-> IF day.complete THEN day.after_returns ELSE day.net_proceeds,
   confidence |-> day.confidence]

\* What is kept is given when nothing keeps it from being known.
MonthFigures(month) ==
  [gross |-> month.gross_sales, net_proceeds |-> month.net_proceeds,
   kept |-> month.after_returns, kept_reason |-> month.kept_reason]

GetToday(saw, basis) ==
  LET of(from) == [basis |-> basis, from |-> from, to |-> Today]
  IN  [hero       |-> Hero(Calculate(saw[1], saw[2], of(Today))),
       month      |-> MonthFigures(Calculate(saw[3], saw[4], of(MonthOf(Today)))),
       shop_money |-> ShopMoney(saw[5]),
       needs_you  |-> NeedsYou(saw[6]),
       freshness  |-> freshness(saw[6].link.synced)]

\* get_sync_status
SyncStatus(db) ==
  LET done(domain) == {r \in db.runs : r.domain = domain /\ r.status = "completed"}
      last(domain) == IF done(domain) = {} THEN 0 ELSE Max({r.finished : r \in done(domain)})
  IN  {[domain |-> r.domain, status |-> r.status, stale |-> freshness(last(r.domain)) = "stale"] :
         r \in LatestRuns(db)}
===============================================================================
