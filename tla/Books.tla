---------------------------------- MODULE Books ----------------------------------
(***************************************************************************)
(* The screens over a shop's books while the books change.  A screen is    *)
(* read in several statements, each of which sees what is committed when   *)
(* it runs (READ COMMITTED, db.tenant), and what it answers is a function  *)
(* of what they saw.  The sync posts orders, statements and returns; the   *)
(* seller's other requests write costs, settings and decisions.            *)
(***************************************************************************)
EXTENDS Posting, TodayView, Tax, Lists

CONSTANTS
  Question,       \* what a seller asks for: [op, and its arguments]
  Start,          \* the tables at the start
  CostWrite,      \* [sku, cost, from]
  PositionWrite,  \* [sku, on_shelf, coming_back]
  RunWrite,       \* [domain, at, status, finished]
  LinkWrite,      \* states of the shop's connection
  SalesWrite,     \* [channel, month, gross]
  Profile, LowDays, InvoiceNumber,
  MaxWrites       \* BOUND: on the commits after the start

TABLE == {"ledger", "orders", "returns", "items", "statements", "costs", "movements", "positions",
          "discs", "notices", "runs", "link", "others", "low_days", "profile"}

\* A table with a primary key of n numbers, and a time.
Keyed(rows, n) ==
  /\ IsFiniteSet(rows)
  /\ \A r \in rows : {"at", "id"} \subseteq DOMAIN r /\ r.at \in Int /\ r.id \in [1 .. n -> Int]
  /\ \A r, s \in rows : r.id = s.id => r = s

\* A row of the ledger.
EntryOK(e) ==
  {"amount", "day", "id", "line"} \subseteq DOMAIN e /\ e.day \in Int /\ e.id \in [1 .. 3 -> Int]

\* What the schema says of the tables that are listed; a statement's discrepancies and a return's
\* movements are in the books if they are.
TablesOK(d) ==
  /\ d = [t \in TABLE |-> d[t]]
  /\ Keyed(d.statements, 1) /\ Keyed(d.returns, 1) /\ Keyed(d.notices, 1)
  /\ Keyed(d.movements, 2) /\ Keyed(d.discs, 3)
  /\ IsFiniteSet(d.ledger) /\ \A e \in d.ledger : EntryOK(e)
  /\ IsFiniteSet(d.positions) /\ \A p \in d.positions : p.sku \in Int
  /\ \A x \in d.discs : x.id[1] \in DOMAIN STATEMENT => \E s \in d.statements : s.id = <<x.id[1]>>
  /\ \A m \in d.movements : m.id[1] \in DOMAIN RETURN => \E r \in d.returns : r.id = <<m.id[1]>>

\* What was posted, whatever a statement writes on it later.
Part(e) == [id |-> e.id, line |-> e.line, amount |-> e.amount]

\* The ledger has what was posted of the orders in the books, each entry once, and of no other.
PostedOK(d) ==
  \A t \in DOMAIN TX :
    LET of == {e \in d.ledger : e.id[1] = t}
    IN  /\ {Part(e) : e \in of} =
             IF TX[t].order \in DOMAIN d.orders THEN {Part(e) : e \in EntriesOf(t)} ELSE {}
        /\ \A e, g \in of : e.id = g.id => e = g

\* What is posted of a variant: not what the seller pays for shipping, which nothing posts.
VariantCategory == {"cost_of_goods_sold"} \cup UNION {SECTIONS[i].categories : i \in {1, 2, 4}}

\* What the screens add up.
FiguresOK(d) ==
  /\ \A e \in d.ledger :
       /\ {"category", "fee", "sku", "type"} \subseteq DOMAIN e /\ e.amount \in Int
       /\ e.sku # None => /\ e.line \in DOMAIN OrderLine
                          /\ e.category \in VariantCategory /\ e.type = ENTRY_TYPE(e.category)
  /\ IsFiniteSet(d.items) /\ \A i \in d.items : i.quantity \in Int
  /\ \A c \in d.costs : "cost" \in DOMAIN c /\ c.cost \in Int

FIELD == {"id", "order", "category", "fee", "type", "amount", "line", "sku", "ret", "day", "statement", "month"}

\* What a statement posts itself, and what none ever settles.
OfStatement  == PAYOUT \cup {"platform_adjustment"}
OffStatement == {"cost_of_goods_sold", "stock_written_off"}

\* An entry as it was posted, or as a statement left it.
RecordOK(e) ==
  /\ e = [f \in FIELD |-> e[f]]
  /\ e.category \in VariantCategory \cup OfStatement /\ e.type = ENTRY_TYPE(e.category)
  /\ e.category = "return_shipping" => e.fee = "return_shipping_fee_amount"
  /\ e.day \in 1 .. Today
  /\ IF e.statement = 0 THEN e.month = 0 /\ e.category \notin OfStatement
                        ELSE e.category \notin OffStatement

\* An order is settled exactly when what was posted of it is; what is written off of an order
\* comes when no statement is left that would settle it.
SettledWith(d, e) ==
  /\ e.statement # 0 =>
       /\ \E s \in d.statements : s.id = <<e.statement>>
       /\ e.order = None \/ (e.order \in DOMAIN d.orders /\ d.orders[e.order].status = "settled")
  /\ e.statement = 0 /\ e.category \notin OffStatement /\ e.order \in DOMAIN d.orders =>
       d.orders[e.order].status # "settled"
  /\ e.category = "stock_written_off" =>
       \A s \in DOMAIN STATEMENT :
         e.order \in STATEMENT[s].orders => \E row \in d.statements : row.id = <<s>>

\* What a statement paid.
Paid(d, id) == Amount({e \in Within(d.ledger, {"settlement"}) : <<e.statement>> = id})

\* What the screens that show one figure rely on.
SettledOK(d) ==
  /\ \A e \in d.ledger : RecordOK(e) /\ SettledWith(d, e)
  /\ \A o \in DOMAIN d.orders : "status" \in DOMAIN d.orders[o]
  /\ \A s \in d.statements : s.id # <<0>> /\ Reconciled(d, s.id) = -Paid(d, s.id)
  /\ \A p, q \in d.positions : p.sku = q.sku => p = q
  /\ IsFiniteSet(d.others) /\ \A o \in d.others : o.month \in MonthStart /\ o.gross \in Int

ASSUME BooksAssumption ==
  /\ TablesOK(Start) /\ PostedOK(Start) /\ FiguresOK(Start) /\ SettledOK(Start)
  /\ \A c \in CostWrite : c.cost \in Int
  /\ \A p \in PositionWrite : p.sku \in Int
  /\ \A o \in SalesWrite : o.month \in MonthStart /\ o.gross \in Int
  /\ \A q \in Question : q # None /\ (q.op = "list" => q.list \in LIST /\ q.limit \in Nat \ {0})
  /\ \A q \in Question : "period" \in DOMAIN q => {"basis", "from", "to"} \subseteq DOMAIN q.period
  \* Null is neither a category nor the state of anything.
  /\ None \notin VariantCategory \cup OfStatement \cup {"open", "out"}

VARIABLES
  commits,    \* what the tables have been: at the start, and after each commit
  reader      \* the request being answered, or NoReader

vars == <<commits, reader>>

\* asks: the question; saw: what has been read for the answer, as positions in commits;
\* shown: the answers given so far, with what each was read from.
NoReader == [asks |-> None, saw |-> <<>>, shown |-> <<>>]

db == commits[Len(commits)]

Init ==
  /\ commits = <<Start>>
  /\ reader = NoReader

-------------------------------------------------------------------------------
(* Commits of others, each a transaction. *)

Write(tables) ==
  /\ Len(commits) <= MaxWrites
  /\ commits' = Append(commits, tables)
  /\ UNCHANGED reader

SyncOrder(o) == o \notin DOMAIN db.orders /\ Write(PostOrder(db, o))

SyncStatement(s) ==
  /\ \A row \in db.statements : row.id # <<s>>
  /\ \A o \in STATEMENT[s].orders : o \in DOMAIN db.orders /\ db.orders[o].status # "settled"
  /\ Write(PostStatement(db, s))

\* Returns come after the statements: what is written off is in none of them.
SyncReturn(r) ==
  /\ RETURN[r].order \in DOMAIN db.orders
  /\ \A s \in DOMAIN STATEMENT :
       RETURN[r].order \in STATEMENT[s].orders => \E row \in db.statements : row.id = <<s>>
  /\ \A row \in db.returns : row.id # <<r>>
  /\ Write(PostReturn(db, r))

\* A new cost supersedes the current one (SkuCosts has the whole of it).
NewCost(c) ==
  Write([db EXCEPT !.costs = {IF d.sku = c.sku THEN [d EXCEPT !.current = FALSE] ELSE d : d \in @}
                     \cup {[sku |-> c.sku, cost |-> c.cost, from |-> c.from, current |-> TRUE]}])

CountStock(p) == Write([db EXCEPT !.positions = {q \in @ : q.sku # p.sku} \cup {p}])

EndRun(run) == run \notin db.runs /\ Write([db EXCEPT !.runs = @ \cup {run}])

Relink(link) == Write([db EXCEPT !.link = link])

\* Decisions has the two handlers; here, what they leave in the tables.
Resolve(d) ==
  d.status = "open" /\ Write([db EXCEPT !.discs = (@ \ {d}) \cup {[d EXCEPT !.status = "resolved"]}])

Notice(n, status) ==
  n.status \notin {status, "done"} /\ Write([db EXCEPT !.notices = (@ \ {n}) \cup {[n EXCEPT !.status = status]}])

EnterSales(o) == Write(PutOtherSales(db, o.channel, o.month, o.gross))
SaveProfile(p) == ~ProfileRefused(p) /\ Write(PutTaxProfile(db, p))
SaveSettings(days) == ~SettingsRefused(days) /\ Write(PutAlertSettings(db, days))
SaveInvoice(s, number) == s.invoice # number /\ Write(RecordInvoice(db, s.id, number))

Commit ==
  \/ \E o \in DOMAIN ORDER : SyncOrder(o)
  \/ \E s \in DOMAIN STATEMENT : SyncStatement(s)
  \/ \E r \in DOMAIN RETURN : SyncReturn(r)
  \/ \E c \in CostWrite : NewCost(c)
  \/ \E p \in PositionWrite : CountStock(p)
  \/ \E run \in RunWrite : EndRun(run)
  \/ \E link \in LinkWrite : Relink(link)
  \/ \E d \in db.discs : Resolve(d)
  \/ \E n \in db.notices : \E status \in {"read", "done"} : Notice(n, status)
  \/ \E o \in SalesWrite : EnterSales(o)
  \/ \E p \in Profile : SaveProfile(p)
  \/ \E days \in LowDays : SaveSettings(days)
  \/ \E s \in db.statements, number \in InvoiceNumber : SaveInvoice(s, number)

-------------------------------------------------------------------------------
(* A request that reads. *)

\* How many statements a handler reads the books with.
Statements(op) ==
  CASE op = "get_today" -> 6
    [] op = "get_product" -> 5
    [] op \in {"get_vat_monitor", "get_settlement"} -> 3
    [] op \in {"list", "list_products", "get_money", "get_month_summary", "get_where_it_went", "get_export", "get_velocity"} -> 2
    [] OTHER -> 1

\* get_product: lines, the variants' current costs, positions; then list_products' two.
GetProduct(saw, q) ==
  [detail |-> Detail(saw[1], saw[4], saw[5], q.period, q.product),
   skus |-> {c \in saw[2].costs : c.current /\ ProductOf[c.sku] = q.product},
   stock |-> PositionOf(saw[3], q.product)]

\* Records are summed before a page of them is read; other lists are counted after.
ListPage(q, saw, after) ==
  LET sumFirst == q.list = "records"
      page == Page(ListRows(saw[IF sumFirst THEN 2 ELSE 1], q.list, q.filter), after, q.limit)
  IN  [rows |-> page.rows, next |-> page.next,
       beside |-> Beside(saw[IF sumFirst THEN 1 ELSE 2], q.list, q.filter)]

\* What a handler answers, of what its statements saw.
Answer(q, saw, after) ==
  CASE q.op = "list_products"     -> Ranking(saw[1], saw[2], q.period, q.measure, q.limit, q.offset)
    [] q.op = "get_product"       -> GetProduct(saw, q)
    [] q.op = "get_money"         -> Calculate(saw[1], saw[2], q.period)
    [] q.op = "get_month_summary" -> Calculate(saw[1], saw[2], MonthBounds(q.month, q.basis))
    [] q.op = "get_where_it_went" -> WhereItWent(Calculate(saw[1], saw[2], q.period))
    [] q.op = "get_export"        -> [summary |-> ExportSummary(Calculate(saw[1], saw[2], q.period)),
                                      entries |-> ExportEntries(saw[1], q.period)]
    [] q.op = "get_today"         -> GetToday(saw, q.basis)
    [] q.op = "get_needs_you"     -> NeedsYou(saw[1])
    [] q.op = "get_sync_status"   -> SyncStatus(saw[1])
    [] q.op = "get_velocity"      -> Velocity(saw[1], saw[2], q.basis, q.window)
    [] q.op = "get_return_metrics" -> ReturnMetrics(saw[1], q.from, q.to)
    [] q.op = "get_settlement"    -> SettlementDetail(saw[1], saw[2], saw[3], q.id)
    [] q.op = "get_vat_monitor"   -> VatMonitor(saw[1], saw[2], saw[3])
    [] q.op = "get_set_aside"     -> SetAside(saw[1])
    [] q.op = "get_tax_dates"     -> TaxDates(q.year)
    [] q.op = "quarterly_check"   -> QuarterlyCheck(q.gross, q.year)
    [] q.op = "list_rules"        -> Rules(q.set, q.on)
    [] q.op = "list_other_channel_sales" -> OtherSales(saw[1], q.from, q.to)
    [] q.op = "get_alert_settings" -> LowStockDays(saw[1])
    [] q.op = "list"              -> ListPage(q, saw, after)

Answering == reader # NoReader
LastShown == reader.shown[Len(reader.shown)]

\* A list goes on from the last row shown; any other answer is all there is.
After == IF reader.shown = <<>> THEN None ELSE LastShown.answer.next
Done  == reader.shown # <<>> /\ (reader.asks.op = "list" => After = None)

Ask(q) ==
  /\ ~Answering
  /\ reader' = [NoReader EXCEPT !.asks = q]
  /\ UNCHANGED commits

Read ==
  /\ Answering /\ ~Done /\ Len(reader.saw) < Statements(reader.asks.op)
  /\ reader' = [reader EXCEPT !.saw = Append(@, Len(commits))]
  /\ UNCHANGED commits

Reply ==
  /\ Answering /\ ~Done /\ Len(reader.saw) = Statements(reader.asks.op)
  /\ LET saw == [i \in DOMAIN reader.saw |-> commits[reader.saw[i]]]
         answer == Answer(reader.asks, saw, After)
     IN  reader' = [reader EXCEPT !.saw = <<>>,
                                  !.shown = Append(@, [saw |-> reader.saw, answer |-> answer])]
  /\ UNCHANGED commits

\* The seller has what was asked for, or asks for no further page.
Leave ==
  /\ reader.shown # <<>> /\ reader.saw = <<>>
  /\ reader' = NoReader
  /\ UNCHANGED commits

Next == Commit \/ (\E q \in Question : Ask(q)) \/ Read \/ Reply \/ Leave

Spec == Init /\ [][Next]_vars
-------------------------------------------------------------------------------
(* Properties. *)

Since(day) == [basis |-> "sales", from |-> day, to |-> Today]

\* Every day that anything was sold on.
AllTime == Since(1)

Periods == {q.period : q \in {q \in Question : "period" \in DOMAIN q}} \cup {AllTime}

Money(period) == Calculate(db, db, period)

\* products.py's UNATTRIBUTED_SQL: with it, the ranking adds up to the Money screen.
RankingAgrees(money, total) ==
  /\ total.gross_sales.shop_total = money.gross_sales
  /\ total.net_proceeds.shop_total = money.net_proceeds
  /\ total.kept.shop_known => money.complete /\ total.kept.shop_total = money.after_returns

Totals(period) ==
  [measure \in {"gross_sales", "net_proceeds", "kept"} |->
    Ranking(db, db, period, measure, MAX_LIMIT, 0)]

ReturnsAgree(money, returns) ==
  returns.error = "none" => returns.cost = money.gross_profit - money.after_returns

\* The pace leaves out what TikTok adjusts; the Money screen does not.
PaceAgrees(money, pace, window) ==
  LET adjusted == MapThenSumSet(LAMBDA s : Amount(Within(s.lines, {"platform_adjustment"})), money.sections)
  IN  /\ pace.gross = RoundHalfUp(money.gross_sales, window)
      /\ pace.net = RoundHalfUp(money.net_proceeds - adjusted, window)

\* Shop Money is all that was ever generated, and what is paid out is what was paid.
ShopMoneyAgrees(money, shop) ==
  /\ shop.generated = money.net_proceeds
  /\ shop.paid_out = -Amount(Within(db.ledger, {"settlement"}))

VatAgrees(money, vat, window) ==
  LET sum(of) == SumFunction([m \in DOMAIN vat.months |-> vat.months[m][of]])
  IN  vat.error = "none" =>
        /\ sum("tiktok") = money.gross_sales
        /\ sum("other") = SumFunction(OtherSales(db, window.from, window.to))

StatementsAgree ==
  \A s \in db.statements : SettlementDetail(db, db, db, s.id).net_proceeds = -Paid(db, s.id)

\* What needs the seller is what the lists it leads to hold.
NeedsAgree(items, month) ==
  LET needs(type) == MapThenSumSet(LAMBDA i : i.count, {i \in items : i.type = type})
  IN  /\ needs("open_discrepancies") = Cardinality(ListRows(db, "discrepancies", "open"))
      /\ needs("returns_to_check") = Beside(db, "returns", None)
      /\ needs("out_of_stock") = Cardinality(ListRows(db, "stock", "out"))
      /\ needs("unmapped_fees") = month.unmapped

RecordsAgree(money) ==
  \A s \in money.sections : \A category \in {l.category : l \in s.lines} \ {"cost_of_goods_sold"} :
    Beside(db, "records", category) = Amount({l \in s.lines : l.category = category})

\* Asked of the same tables, two screens that show one figure show the same amount: each
\* computes it with statements of its own.
ScreensAgree ==
  ~Answering =>
    /\ \A period \in Periods :
         /\ RankingAgrees(Money(period), Totals(period))
         /\ ReturnsAgree(Money([period EXCEPT !.basis = "sales"]), ReturnMetrics(db, period.from, period.to))
    /\ PaceAgrees(Money(Since(Today - 6)), Velocity(db, db, "sales", 7), 7)
    /\ VatAgrees(Money(Since(Min(TwelveMonths))), VatMonitor(db, db, db), Since(Min(TwelveMonths)))
    /\ NeedsAgree(NeedsYouItems(db), Money(MonthSoFar))
    /\ ShopMoneyAgrees(Money(AllTime), ShopMoney(db))
    /\ RecordsAgree(Money(AllTime))
    /\ StatementsAgree

\* A product's sections end at what its headline says is kept, when the ledger did not change
\* between the two transactions that get_product reads them in.
DetailEndsAtKept ==
  reader.asks # None /\ reader.asks.op = "get_product" /\ Done =>
    LET shown == LastShown.answer.detail
        ledger(i) == commits[LastShown.saw[i]].ledger
    IN  shown.row.cost_known /\ ledger(1) = ledger(4) =>
          shown.sections[Max(DOMAIN shown.sections)].subtotal = shown.row.kept

\* The keys of a list as page i read it, and of the rows that it showed.
Listed(i) ==
  LET page == reader.shown[i]
      read == commits[page.saw[IF reader.asks.list = "records" THEN 2 ELSE 1]]
  IN  {Key(row) : row \in ListRows(read, reader.asks.list, reader.asks.filter)}
ShownOn(i) == {Key(row) : row \in reader.shown[i].answer.rows}

Listing == reader.asks # None /\ reader.asks.op = "list"

\* Whatever is committed between two pages, a row is on one page at most; and a row that was
\* in the list all along is on one, once the seller has the last page.
PagingExact ==
  Listing =>
    LET pages == DOMAIN reader.shown
    IN  /\ \A i, j \in pages : i # j => ShownOn(i) \cap ShownOn(j) = {}
        /\ Done => \A k \in Listed(1) : (\A i \in pages : k \in Listed(i)) => \E i \in pages : k \in ShownOn(i)

\* The entries of a figure add up to the pence TikTok gave, and no two of its lines are more
\* than a penny apart, whether or not a statement has settled them.
SplitKeepsPence ==
  \A t \in {t \in DOMAIN TX : TX[t].order \in DOMAIN db.orders} : \A f \in DOMAIN TX[t].figures :
    LET parts == {e \in db.ledger : e.id[1] = t /\ e.id[2] = f}
        part(l) == Amount({e \in parts : e.line = l})
    IN  /\ Amount(parts) = FromDecimalString(TX[t].figures[f].tenths)
        /\ \A k, l \in Range(TX[t].lines) : part(k) - part(l) <= 1

-------------------------------------------------------------------------------
(* Why the pages of a list are exact, whatever the constants are. *)

HistoryOK ==
  /\ commits \in Seq(Range(commits)) /\ commits # <<>>
  /\ \A i \in DOMAIN commits : TablesOK(commits[i])

ReaderOK ==
  /\ reader = [asks |-> reader.asks, saw |-> reader.saw, shown |-> reader.shown]
  /\ reader.saw \in Seq(DOMAIN commits)
  /\ reader.shown \in Seq(Range(reader.shown))
  /\ Listing => /\ reader.asks \in Question
                /\ \A i \in DOMAIN reader.shown : reader.shown[i].saw \in [1 .. 2 -> DOMAIN commits]

Cursor(i) == reader.shown[i].answer.next

\* Every page but the last has a cursor; it is the last of its keys, and every key of a later
\* page comes after it.  What was listed all along has been shown, or comes after the last cursor.
PagesOK ==
  Listing =>
    LET pages == DOMAIN reader.shown
    IN  /\ \A i \in pages :
             /\ ShownOn(i) \subseteq KeySet(Width(reader.asks.list))
             /\ Cursor(i) = None => i = Len(reader.shown)
             /\ Cursor(i) # None =>
                  /\ Cursor(i) \in ShownOn(i)
                  /\ \A k \in ShownOn(i) : k = Cursor(i) \/ Later(k, Cursor(i))
                  /\ \A j \in pages : i < j => \A k \in ShownOn(j) : Later(Cursor(i), k)
        /\ pages # {} => \A k \in Listed(1) : (\A i \in pages : k \in Listed(i)) =>
             \/ \E i \in pages : k \in ShownOn(i)
             \/ After # None /\ Later(After, k)

PagingInv == HistoryOK /\ ReaderOK /\ PagesOK

\* Why the entries of a figure keep its pence.
SplitInv == PostedOK(db)

\* Why two screens that show one figure agree.
ScreensInv == SettledOK(db)

\* Why a detail ends at its headline: what was shown is what the handler makes of the books as
\* its statements saw them, and they could be added up.
DetailInv ==
  /\ \A i \in DOMAIN commits : FiguresOK(commits[i])
  /\ reader.asks # None /\ reader.asks.op = "get_product" =>
       \A i \in DOMAIN reader.shown :
         LET page == reader.shown[i]
         IN  /\ page.saw \in [1 .. 5 -> DOMAIN commits]
             /\ page.answer = GetProduct([k \in 1 .. 5 |-> commits[page.saw[k]]], reader.asks)
===============================================================================
