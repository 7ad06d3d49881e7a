-------------------------------- MODULE Products --------------------------------
(***************************************************************************)
(* The products screens (service/app/products.py): the ranking and one     *)
(* product.                                                                *)
(***************************************************************************)
EXTENDS Ledger

CONSTANT MAX_LIMIT      \* the longest page

-------------------------------------------------------------------------------
(* SQL: one row for each product with an entry in the period. *)

Scoped(db, period) == {e \in db.ledger : e.sku # None /\ InPeriod(e, period)}

\* Units follow the money: the lines behind the gross sales of the period.
Sold(db, period, sku) ==
  MapThenSumSet(LAMBDA l : OrderLine[l].quantity,
    {e.line : e \in {e \in Scoped(db, period) : e.category = "gross_sales" /\ e.sku = sku}})

\* Returns follow the London day they were refunded or asked for, on either basis.
Returned(db, period, sku) ==
  MapThenSumSet(LAMBDA i : i.quantity,
    {i \in db.items : /\ i.sku = sku
                      /\ ReturnDay(db, i) # 0
                      /\ period.from <= ReturnDay(db, i) /\ ReturnDay(db, i) <= period.to})

\* The cost in force at the end of the period.
CostInForce(db, period, sku) ==
  LET known == {c \in db.costs : c.sku = sku /\ c.from <= period.to}
  IN  {c \in known : \A d \in known : d.from <= c.from}

SkusSold(db, period, product) ==
  {s \in Sku : ProductOf[s] = product /\ Sold(db, period, s) > 0}

WithoutCost(db, period, product) ==
  {s \in SkusSold(db, period, product) : CostInForce(db, period, s) = {}}

\* Cost times the units sold and not returned, never below nothing.
Retained(db, period, product) ==
  MapThenSumSet(LAMBDA s : (CHOOSE c \in CostInForce(db, period, s) : TRUE).cost
                             * Max({Sold(db, period, s) - Returned(db, period, s), 0}),
    SkusSold(db, period, product) \ WithoutCost(db, period, product))

ProductRow(db, period, product) ==
  LET own  == {e \in Scoped(db, period) : ProductOf[e.sku] = product}
      np   == Amount({e \in own : e.type \in NET_PROCEEDS_TYPES})
      lost == Amount({e \in own : e.type \in RETURN_LOSS_TYPES})
      skus == {s \in Sku : ProductOf[s] = product}
  IN  [product       |-> product,
       units         |-> MapThenSumSet(LAMBDA s : Sold(db, period, s), skus),
       returns       |-> MapThenSumSet(LAMBDA s : Returned(db, period, s), skus),
       gross_sales   |-> Amount(Within(own, {"gross_sales"})),
       net_proceeds  |-> np,
       cost_retained |-> Retained(db, period, product),
       without_cost  |-> Cardinality(WithoutCost(db, period, product)),
       cost_known    |-> SkusSold(db, period, product) # {} /\ WithoutCost(db, period, product) = {},
       kept          |-> np - Retained(db, period, product) + lost]

ProductRows(db, period) ==
  {ProductRow(db, period, p) : p \in {ProductOf[e.sku] : e \in Scoped(db, period)}}

-------------------------------------------------------------------------------
(* list_products *)

\* The categories behind a measure, as CHAIN has them.
MeasureCategories(measure) ==
  LET upto == IF measure = "net_proceeds" THEN 3 ELSE Len(CHAIN)
  IN  IF measure = "gross_sales" THEN {"gross_sales"}
      ELSE UNION {CHAIN[i].categories : i \in 1 .. upto}

\* Mutant: the type is taken to say what counts, and a platform adjustment has another one.
UnattributedByType(db, period, measure) ==
  {e \in db.ledger : e.sku = None /\ InPeriod(e, period) /\ e.type \in NET_PROCEEDS_TYPES
                     /\ e.category \in MeasureCategories(measure)}

\* UNATTRIBUTED_SQL: what belongs to the shop and to no variant.
Unattributed(db, period, measure) ==
  Within({e \in db.ledger : e.sku = None /\ InPeriod(e, period)}, MeasureCategories(measure))

KeptBased(measure) == measure \notin {"gross_sales", "net_proceeds"}

\* What a row counts for in a ranking's totals: an amount, and nothing when it is not known.
\* A ranking by units or returns totals what is kept.
Figure(row, measure) ==
  CASE measure = "gross_sales"  -> row.gross_sales
    [] measure = "net_proceeds" -> row.net_proceeds
    [] OTHER -> IF row.cost_known THEN row.kept ELSE 0

\* A product whose figure is not known comes last.
Above(a, b, measure) ==
  LET of(row) == CASE measure = "units" -> row.units
                   [] measure = "returns" -> row.returns
                   [] OTHER -> Figure(row, measure)
      unknown(row) == measure = "kept" /\ ~row.cost_known
  IN  IF unknown(a) # unknown(b) THEN unknown(b) ELSE of(a) > of(b)

\* A page of rows, best first, and what is beside it.  Rows that tie are in the order the
\* statement gave them, any order.
Ranked(rows, loose, measure, limit, offset) ==
  LET order == CHOOSE s \in [1 .. Cardinality(rows) -> rows] :
                 /\ IsInjective(s)
                 /\ \A i, j \in DOMAIN s : Above(s[i], s[j], measure) => i < j
      page  == {order[i] : i \in {i \in DOMAIN order : offset < i /\ i <= offset + limit}}
      total == MapThenSumSet(LAMBDA row : Figure(row, measure), rows)
      shown == MapThenSumSet(LAMBDA row : Figure(row, measure), page)
  IN  [products     |-> page,
       total        |-> total,
       shown_total  |-> shown,
       others       |-> [count |-> Cardinality(rows \ page), amount |-> total - shown],
       unattributed |-> loose,
       shop_known   |-> KeptBased(measure) => \A row \in rows : row.cost_known,
       shop_total   |-> total + loose,
       next         |-> IF offset + limit < Cardinality(rows) THEN offset + limit ELSE 0]

Ranking(rowsDb, looseDb, period, measure, limit, offset) ==
  Ranked(ProductRows(rowsDb, period), Amount(Unattributed(looseDb, period, measure)),
         measure, limit, offset)

-------------------------------------------------------------------------------
(* get_product: its own lines in one transaction, and its row in another. *)

SECTIONS ==
  <<[key |-> "sales",       categories |-> {"gross_sales", "seller_discount", "refund"}],
    [key |-> "deductions",  categories |-> TIKTOK_FEES \ {"platform_adjustment"}],
    [key |-> "your_costs",  categories |-> {"seller_shipping"}],
    [key |-> "return_loss", categories |-> {"return_shipping", "stock_written_off"}]>>

\* A product that is not on the ranking's first page reads as one that sold nothing.
Headline(ranking, product) ==
  LET found == {row \in ranking.products : row.product = product}
  IN  IF found # {} THEN CHOOSE row \in found : TRUE
      ELSE [product |-> product, units |-> 0, returns |-> 0, gross_sales |-> 0,
            net_proceeds |-> 0, cost_retained |-> 0, without_cost |-> 0,
            cost_known |-> FALSE, kept |-> 0]

\* Mutant: what returns lost is taken for a part of the cost.
RetainedAndLost(row, lines) == row.net_proceeds - row.kept

\* The cost of goods is computed from the headline, not read.
RetainedOf(row, lines) ==
  row.net_proceeds - row.kept
    + Amount(Within(lines, {"return_shipping", "stock_written_off"}))

\* Sections of lines that run down from sales to what is kept.
Detailed(lines, row) ==
  LET cost(key) == IF key = "your_costs" /\ row.cost_known
                     THEN {[category |-> "cost_of_goods_sold", fee |-> None, amount |-> -RetainedOf(row, lines)]}
                     ELSE {}
      of(i) == Within(lines, SECTIONS[i].categories) \cup cost(SECTIONS[i].key)
      reached(i) == MapThenSumSet(LAMBDA j : Amount(of(j)), 1 .. i)
      each(amount) == amount \div Max({row.units, 1})
  IN  [row      |-> row,
       sections |-> [i \in {i \in DOMAIN SECTIONS : of(i) # {}} |->
                       [lines |-> of(i), subtotal |-> reached(i),
                        per_unit |-> {[l EXCEPT !.amount = each(@)] : l \in of(i)},
                        subtotal_per_unit |-> each(reached(i))]]]

\* The lines of one transaction, and the headline of the next one.
Detail(linesDb, rowsDb, looseDb, period, product) ==
  Detailed(LinesOf({e \in Scoped(linesDb, period) : ProductOf[e.sku] = product}),
           Headline(Ranking(rowsDb, looseDb, period, "kept", MAX_LIMIT, 0), product))
===============================================================================
