--------------------------------- MODULE Ledger ---------------------------------
(***************************************************************************)
(* What the screens read, the arithmetic of money.py, and the categories   *)
(* and their order, which money_view.py and products.py share.  A screen's *)
(* operators take a db, the tables of one shop as one statement sees them; *)
(* a handler of several statements takes a db for each, since another      *)
(* transaction may commit between two of them.                             *)
(*                                                                         *)
(* Amounts are pence.  Days are numbers, and so is a month, named by its   *)
(* first day; 0 is the null of a date.  One currency.                      *)
(***************************************************************************)
EXTENDS Integers, Sequences, FiniteSets, FiniteSetsExt, Functions

CONSTANTS
  None,           \* null
  ProductOf,      \* [sku -> its product]
  OrderLine,      \* [order line -> [order, sku, quantity]]
  MonthStart,     \* the first days of the months, up to the last one modelled
  Today           \* business_today(), one for the whole run (dates.py)

ASSUME LedgerAssumption ==
  /\ MonthStart \subseteq Nat \ {0} /\ 1 \in MonthStart
  /\ Today \in Nat \ {0}
  /\ IsFiniteSet(DOMAIN ProductOf)
  /\ \A l \in DOMAIN OrderLine : OrderLine[l].sku \in DOMAIN ProductOf /\ OrderLine[l].quantity \in Nat

Sku     == DOMAIN ProductOf
Product == {ProductOf[s] : s \in Sku}

MonthOf(day) == Max({m \in MonthStart : m <= day})

-------------------------------------------------------------------------------
(* money.py *)

\* n / d to the nearest integer, a half away from zero: Decimal's ROUND_HALF_UP.
RoundHalfUp(n, d) ==
  IF n >= 0 THEN (2 * n + d) \div (2 * d) ELSE -((2 * (-n) + d) \div (2 * d))

\* TikTok's string amounts, here in tenths of a penny.
FromDecimalString(tenths) == RoundHalfUp(tenths, 10)

\* Mutant: the pence that the division leaves over are not handed out.
AllocateFloor(total, weights) ==
  LET all == SumFunction(weights)
  IN  IF weights = <<>> THEN <<total>>
      ELSE [i \in DOMAIN weights |-> (total * weights[i]) \div all]

\* Largest remainder, the earlier part first among equals.
Allocate(total, weights) ==
  LET all  == SumFunction(weights)
      base == [i \in DOMAIN weights |-> (total * weights[i]) \div all]
      rest == [i \in DOMAIN weights |-> (total * weights[i]) % all]
      place(i) == Cardinality({j \in DOMAIN weights :
                                 rest[j] > rest[i] \/ (rest[j] = rest[i] /\ j < i)})
      left == total - SumFunction(base)
  IN  IF weights = <<>> THEN <<total>>
      ELSE IF all = 0 THEN [i \in DOMAIN weights |-> IF i = 1 THEN total ELSE 0]
      ELSE [i \in DOMAIN weights |-> base[i] + IF place(i) < left THEN 1 ELSE 0]

-------------------------------------------------------------------------------
(* Entries: [id, order, category, fee, type, amount, line, sku, ret, day, statement, month]; *)
(* an entry that no statement has settled has statement and month 0.                        *)

ENTRY_TYPE(category) ==
  CASE category \in {"gross_sales", "seller_discount"} -> "sale"
    [] category = "refund" -> "refund"
    [] category = "return_shipping" -> "return_cost"
    [] category = "stock_written_off" -> "write_off"
    [] category \in {"cost_of_goods_sold", "seller_shipping", "platform_adjustment"} -> "adjustment"
    [] category \in {"reserve_withheld", "reserve_released"} -> "reserve"
    [] category = "settlement" -> "payout"
    [] OTHER -> "platform_deduction"

\* A period is [basis, from, to].
DateOn(basis, e) == IF basis = "sales" THEN e.day ELSE e.month

InPeriod(e, period) ==
  LET day == DateOn(period.basis, e)
  IN  day # 0 /\ period.from <= day /\ day <= period.to

Amount(entries) == MapThenSumSet(LAMBDA e : e.amount, entries)

Within(entries, categories) == {e \in entries : e.category \in categories}

\* "group by category, tiktok_fee_type having sum(amount_minor) <> 0"
LinesOf(entries) ==
  LET group(e) == [category |-> e.category, fee |-> e.fee]
      amount(g) == Amount({e \in entries : group(e) = g})
  IN  {[category |-> g.category, fee |-> g.fee, amount |-> amount(g)] :
         g \in {g \in {group(e) : e \in entries} : amount(g) # 0}}

\* The London day of a return: refunded, or else asked for.
ReturnDay(db, item) ==
  LET r == CHOOSE r \in db.returns : r.id = item.ret
  IN  IF r.completed # 0 THEN r.completed ELSE r.requested

-------------------------------------------------------------------------------
(* The categories of the calculator, in A8.5's order. *)

TIKTOK_FEES ==
  {"platform_commission", "affiliate_commission", "transaction_fee", "smart_promotions_fee",
   "shipping_fee", "return_handling_fee", "fbt_operations_fee", "fbt_shipping_fee",
   "fbt_storage_fee", "unmapped_fee", "platform_adjustment"}

CHAIN ==
  <<[key |-> "revenue",      categories |-> {"gross_sales", "seller_discount"}],
    [key |-> "tiktok_fees",  categories |-> TIKTOK_FEES],
    [key |-> "refunds",      categories |-> {"refund"}],
    [key |-> "your_costs",   categories |-> {"seller_shipping"}],
    [key |-> "return_costs", categories |-> {"return_shipping", "stock_written_off"}]>>

PAYOUT == {"reserve_withheld", "reserve_released", "settlement"}

NET_PROCEEDS_TYPES == {"sale", "refund", "platform_deduction"}
RETURN_LOSS_TYPES  == {"return_cost", "write_off"}
===============================================================================
