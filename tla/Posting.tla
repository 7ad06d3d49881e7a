-------------------------------- MODULE Posting --------------------------------
(***************************************************************************)
(* How TikTok's figures become ledger entries (testdata/ingest.py, which   *)
(* stands for the sync the service does not have yet): an order's figures  *)
(* are spread over its lines, a statement settles its orders and is paid,  *)
(* a return comes back.  Each operator is the db after it.                 *)
(***************************************************************************)
EXTENDS Ledger

CONSTANTS
  TX,           \* [transaction -> [order, lines, figures, cost]], a figure is [field, tenths]
  ORDER,        \* [order -> [day, cancelled, status]], its status while no statement has it
  STATEMENT,    \* [statement -> [time, orders, extras, stated]], an extra is [category, order, fee, tenths]
  RETURN        \* [return -> [order, kind, requested, completed, items]], [sku, check, cost]

FEE_MAP ==
  [subtotal_before_discount_amount |-> "gross_sales",
   seller_discount_amount |-> "seller_discount",
   refund_subtotal_before_discount_amount |-> "refund",
   platform_commission_amount |-> "platform_commission",
   affiliate_commission_amount |-> "affiliate_commission",
   affiliate_ads_commission_amount |-> "affiliate_commission",
   affiliate_partner_commission_amount |-> "affiliate_commission",
   transaction_fee_amount |-> "transaction_fee",
   refund_administration_fee_amount |-> "return_handling_fee",
   cofunded_promotion_service_fee_amount |-> "smart_promotions_fee"]

SHIP_MAP ==
  [actual_shipping_fee_amount |-> "shipping_fee",
   customer_paid_shipping_fee_amount |-> "shipping_fee",
   shipping_fee_discount_amount |-> "shipping_fee",
   fbt_free_shipping_fee_amount |-> "fbt_shipping_fee",
   return_shipping_fee_amount |-> "return_shipping"]

REVENUE == {"gross_sales", "seller_discount", "refund"}

CategoryOf(field) ==
  IF field \in DOMAIN FEE_MAP THEN FEE_MAP[field]
  ELSE IF field \in DOMAIN SHIP_MAP THEN SHIP_MAP[field]
  ELSE "unmapped_fee"

\* What a statement has beside its orders.
EXTRA == {"platform_adjustment", "reserve_withheld", "reserve_released"}

\* Numbers, no two the same, for what an entry's identifier starts with.
ASSUME PostingAssumption ==
  /\ DOMAIN TX \cap DOMAIN STATEMENT = {} /\ DOMAIN STATEMENT \cap DOMAIN RETURN = {}
  /\ DOMAIN TX \cap DOMAIN RETURN = {}
  /\ \A t \in DOMAIN TX : TX[t].order \in DOMAIN ORDER
  \* ledger_idempotency_idx: a line has one entry of a category from a transaction.
  /\ \A t \in DOMAIN TX : \A f, g \in DOMAIN TX[t].figures :
       f # g => CategoryOf(TX[t].figures[f].field) # CategoryOf(TX[t].figures[g].field)
  /\ \A s \in DOMAIN STATEMENT : STATEMENT[s].orders \subseteq DOMAIN ORDER
  /\ DOMAIN TX \cup DOMAIN STATEMENT \cup DOMAIN RETURN \subseteq Int /\ IsFiniteSet(DOMAIN TX)
  /\ \A t \in DOMAIN TX :
       \* A transaction is of a variant of the order, and has each line of it once.
       /\ TX[t].lines \in Seq(DOMAIN OrderLine) /\ TX[t].lines # <<>> /\ IsInjective(TX[t].lines)
       /\ TX[t].cost \in Int
       /\ TX[t].figures \in Seq([field : STRING, tenths : Int])
  \* Nothing is dated after today, and a statement alone settles an order.
  /\ \A o \in DOMAIN ORDER : ORDER[o].day \in 1 .. Today
  /\ \A o \in DOMAIN ORDER : "status" \in DOMAIN ORDER[o] /\ ORDER[o].status # "settled"
  /\ None \notin DOMAIN ORDER /\ 0 \notin DOMAIN STATEMENT
  \* post() leaves out what is 0, and no adjustment or reserve of a statement is.
  /\ \A s \in DOMAIN STATEMENT :
       /\ STATEMENT[s].time \in 1 .. Today
       /\ STATEMENT[s].extras \in Seq([category : EXTRA, order : STATEMENT[s].orders \cup {None},
                                       fee : STRING, tenths : Int \ (-4 .. 4)])
  /\ \A r \in DOMAIN RETURN :
       /\ RETURN[r].requested \in Int /\ RETURN[r].completed \in 1 .. Today
       /\ RETURN[r].items \in Seq([sku : Sku, check : STRING, cost : Int])
       /\ \E l \in DOMAIN OrderLine : OrderLine[l].order = RETURN[r].order

RETURN_CATEGORIES == {"refund", "return_shipping", "return_handling_fee"}

ReturnOf(order) ==
  LET of == {r \in DOMAIN RETURN : RETURN[r].order = order}
  IN  IF of = {} THEN None ELSE <<CHOOSE r \in of : TRUE>>

\* post().  An identifier says what was posted: the transaction, its figure, the part.
Entry(id, order, category, fee, amount, day) ==
  [id |-> id, order |-> order, category |-> category, fee |-> fee,
   type |-> ENTRY_TYPE(category), amount |-> amount, line |-> None, sku |-> None,
   ret |-> IF category \in RETURN_CATEGORIES THEN ReturnOf(order) ELSE None,
   day |-> day, statement |-> 0, month |-> 0]

\* spread(): one figure over the lines of its variant.
Spread(t, category, fee, total, f) ==
  LET lines  == TX[t].lines
      parts  == Allocate(total, [i \in DOMAIN lines |-> 1])
      entry(i) == [Entry(<<t, f, i>>, TX[t].order, category, fee, parts[i], ORDER[TX[t].order].day)
                     EXCEPT !.line = lines[i], !.sku = OrderLine[lines[i]].sku]
  IN  {e \in {entry(i) : i \in DOMAIN lines} : e.amount # 0}

EntriesOf(t) ==
  LET figure(f) == TX[t].figures[f]
      category(f) == CategoryOf(figure(f).field)
      fee(f) == IF category(f) \in REVENUE THEN None ELSE figure(f).field
  IN  (UNION {Spread(t, category(f), fee(f), FromDecimalString(figure(f).tenths), f) :
                f \in DOMAIN TX[t].figures})
        \cup Spread(t, "cost_of_goods_sold", None, -TX[t].cost * Len(TX[t].lines), 0)

PostOrder(db, order) ==
  [db EXCEPT
    !.ledger = @ \cup UNION {EntriesOf(t) : t \in {t \in DOMAIN TX : TX[t].order = order}},
    !.orders = [o \in DOMAIN @ \cup {order} |-> IF o = order THEN ORDER[order] ELSE @[o]]]

\* The statement's orders are settled, cost of goods apart; its adjustments and reserves are
\* posted, and the payout as the negative of what it settled, reserves apart.
PostStatement(db, s) ==
  LET month == MonthOf(STATEMENT[s].time)
      settles(e) == e.order \in STATEMENT[s].orders /\ e.category # "cost_of_goods_sold"
      settled(e) == [e EXCEPT !.statement = s, !.month = month]
      extra(x) ==
        LET what == STATEMENT[s].extras[x]
        IN  settled(Entry(<<s, x, 0>>, what.order, what.category, what.fee, FromDecimalString(what.tenths),
                          STATEMENT[s].time))
      extras == {extra(x) : x \in DOMAIN STATEMENT[s].extras}
      derived == Amount({e \in db.ledger : settles(e)}) + Amount(Within(extras, {"platform_adjustment"}))
      payout == settled(Entry(<<s, 0, 0>>, None, "settlement", None, -derived, STATEMENT[s].time))
  IN  [db EXCEPT
        !.ledger = {IF settles(e) THEN settled(e) ELSE e : e \in @} \cup extras \cup {payout},
        !.orders = [o \in DOMAIN @ |->
                      IF o \in STATEMENT[s].orders THEN [@[o] EXCEPT !.status = "settled"] ELSE @[o]],
        !.statements = @ \cup {[id |-> <<s>>, at |-> STATEMENT[s].time, stated |-> STATEMENT[s].stated,
                                invoice |-> None]},
        !.discs = @ \cup {[id |-> e.id, at |-> STATEMENT[s].time, status |-> "open"] :
                            e \in Within(extras, {"platform_adjustment"})}]

\* REC-2: what a checked item, or a cancelled one, does to the shelf.
MovementOf(kind, check) ==
  CASE kind = "cancellation" -> "cancelled"
    [] kind # "cancellation" /\ check = "resellable" -> "return_resellable"
    [] kind # "cancellation" /\ check = "unsellable" -> "write_off"
    [] OTHER -> "none"

\* A return, its items, their movements, and what is written off, on a line of the order.
PostReturn(db, r) ==
  LET ret   == RETURN[r]
      line  == CHOOSE l \in DOMAIN OrderLine : OrderLine[l].order = ret.order
      type(i) == MovementOf(ret.kind, ret.items[i].check)
      entry(i) == [Entry(<<r, i, 0>>, ret.order, "stock_written_off", None, -ret.items[i].cost,
                         ret.completed)
                     EXCEPT !.line = line, !.sku = OrderLine[line].sku, !.ret = <<r>>]
      items == DOMAIN ret.items
  IN  [db EXCEPT
        !.returns = @ \cup {[id |-> <<r>>, at |-> ret.requested, kind |-> ret.kind, order |-> ret.order,
                             requested |-> ret.requested, completed |-> ret.completed]},
        !.items = @ \cup {[ret |-> <<r>>, sku |-> ret.items[i].sku, quantity |-> 1,
                           check |-> ret.items[i].check] : i \in items},
        !.movements = @ \cup {[id |-> <<r, i>>, at |-> ret.completed, sku |-> ret.items[i].sku,
                               type |-> type(i)] : i \in {i \in items : type(i) # "none"}},
        !.ledger = @ \cup {entry(i) : i \in {i \in items : type(i) = "write_off" /\ ret.items[i].cost # 0}}]
===============================================================================
