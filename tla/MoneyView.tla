------------------------------- MODULE MoneyView -------------------------------
(***************************************************************************)
(* The calculator for the whole shop (service/app/money_view.py): the      *)
(* Money screen, a month's summary, where a pound of sales went, and the   *)
(* rows of an export (exports.py).  Its first statement reads the ledger's *)
(* lines, its second one the products' rows.                               *)
(***************************************************************************)
EXTENDS Products

\* Sections that stand on their own when a cost is missing.
SECTION_TOTALS == {"your_costs", "return_costs"}

\* What is answered of the period's entries, their lines, and the rows of what was sold.
View(scoped, scopedLines, sold, period) ==
  LET costed == {row \in sold : row.without_cost = 0}
      complete == costed = sold
      cogs   == IF complete THEN -MapThenSumSet(LAMBDA row : row.cost_retained, sold) ELSE 0
      goods(key) == IF key = "your_costs" /\ cogs # 0
                      THEN {[category |-> "cost_of_goods_sold", fee |-> None, amount |-> cogs]}
                      ELSE {}
      lines(i) == Within(scopedLines, CHAIN[i].categories) \cup goods(CHAIN[i].key)
      running(i) == MapThenSumSet(LAMBDA j : Amount(lines(j)), 1 .. i)
      apart(i) == CHAIN[i].key \in SECTION_TOTALS /\ ~complete
      section(i) == [key |-> CHAIN[i].key, lines |-> lines(i),
                     subtotal |-> IF apart(i) THEN Amount(lines(i)) ELSE running(i)]
      payout == Within(scopedLines, PAYOUT)
      total(categories) == Amount(Within(scoped, categories))
      net    == total(UNION {CHAIN[i].categories : i \in 1 .. 3})
      profit == net + cogs + total({"seller_shipping"})
      unsettled == {e \in scoped : e.statement = 0 /\ e.type \in NET_PROCEEDS_TYPES}
  IN  [sections      |-> {section(i) : i \in {i \in DOMAIN CHAIN : lines(i) # {}}}
                           \cup (IF payout = {} THEN {}
                                 ELSE {[key |-> "payout", lines |-> payout, subtotal |-> Amount(payout)]}),
       gross_sales   |-> total({"gross_sales"}),
       net_proceeds  |-> net,
       complete      |-> complete,      \* the next two are null when it is FALSE
       gross_profit  |-> profit,
       after_returns |-> profit + total({"return_shipping", "stock_written_off"}),
       kept_reason   |-> IF sold = {} THEN "no_sales"
                         ELSE IF ~complete THEN "incomplete_costs" ELSE "none",
       coverage      |-> <<Cardinality(costed), Cardinality(sold)>>,
       confidence    |-> IF ~complete THEN "incomplete"
                         ELSE IF period.basis = "sales" /\ unsettled # {} THEN "estimated"
                         ELSE "confirmed",
       unmapped      |-> Cardinality(Within(scoped, {"unmapped_fee"}))]

\* calculate()
Calculate(linesDb, productsDb, period) ==
  LET scoped == {e \in linesDb.ledger : InPeriod(e, period) /\ e.category # "cost_of_goods_sold"}
  IN  View(scoped, LinesOf(scoped), {row \in ProductRows(productsDb, period) : row.units > 0}, period)

\* _month_bounds(): from its first day to the day before the next one's.
MonthBounds(month, basis) ==
  [basis |-> basis, from |-> month, to |-> Min({m \in MonthStart : m > month}) - 1]

\* get_where_it_went: tenths of a penny for each pound of gross sales.
WhereItWent(view) ==
  LET size(line) == IF line.amount < 0 THEN -line.amount ELSE line.amount
      share(line) == IF view.gross_sales = 0 THEN 0
                     ELSE RoundHalfUp(size(line) * 1000, view.gross_sales)
      lines == UNION {section.lines : section \in view.sections}
  IN  {[line |-> line, pence_per_pound |-> share(line)] :
         line \in {line \in lines : line.category # "gross_sales"}}

\* _rows() of a ledger or transactions export.
ExportEntries(db, period) == {e \in db.ledger : InPeriod(e, period)}

\* _rows() of a month_summary: each line, then its section's subtotal.
ExportSummary(view) ==
  UNION {{[section |-> s.key, line |-> line.category, amount |-> line.amount] : line \in s.lines}
           \cup {[section |-> s.key, line |-> "subtotal", amount |-> s.subtotal]} :
         s \in view.sections}
===============================================================================
