--------------------------------- MODULE MCBooks ---------------------------------
(***************************************************************************)
(* Books for TLC.  Months are two days long; today, the 28th day, is the   *)
(* second of the fourteenth month.  One order has three lines of a         *)
(* variant, over which no figure of it divides.                            *)
(***************************************************************************)
EXTENDS Books, TLC

ProductOfSku == <<"mug", "mug", "jug", "tray">>

Lines ==
  [l \in 1 .. 6 |->
     CASE l \in 1 .. 3 -> [order |-> 1, sku |-> 1, quantity |-> 1]
       [] l = 4 -> [order |-> 2, sku |-> 2, quantity |-> 2]
       [] l = 5 -> [order |-> 3, sku |-> 3, quantity |-> 1]
       [] l = 6 -> [order |-> 4, sku |-> 4, quantity |-> 1]]

Months == {2 * i + 1 : i \in 0 .. 14}

Orders ==
  <<[day |-> 26, cancelled |-> FALSE, status |-> "delivered_awaiting_settlement"],
    [day |-> 27, cancelled |-> FALSE, status |-> "waiting_delivery"],
    [day |-> 28, cancelled |-> TRUE, status |-> None],
    [day |-> 28, cancelled |-> FALSE, status |-> "waiting_delivery"]>>

Transactions ==
  11 :> [order |-> 1, lines |-> <<1, 2, 3>>, cost |-> 100,
         figures |-> <<[field |-> "subtotal_before_discount_amount", tenths |-> 10000],
                       [field |-> "seller_discount_amount", tenths |-> -505],
                       [field |-> "platform_commission_amount", tenths |-> -916]>>]
  @@
  12 :> [order |-> 2, lines |-> <<4>>, cost |-> 150,
         figures |-> <<[field |-> "subtotal_before_discount_amount", tenths |-> 20000],
                       [field |-> "refund_subtotal_before_discount_amount", tenths |-> -10000],
                       [field |-> "a_fee_with_no_name", tenths |-> -550],
                       [field |-> "return_shipping_fee_amount", tenths |-> -3000]>>]
  @@
  13 :> [order |-> 3, lines |-> <<5>>, cost |-> 200,
         figures |-> <<[field |-> "subtotal_before_discount_amount", tenths |-> 5000],
                       [field |-> "transaction_fee_amount", tenths |-> -150]>>]
  @@
  14 :> [order |-> 4, lines |-> <<6>>, cost |-> 120,
         figures |-> <<[field |-> "subtotal_before_discount_amount", tenths |-> 7000]>>]

StatementsOf ==
  21 :> [time |-> 27, orders |-> {1}, stated |-> 500,
         extras |-> <<[category |-> "platform_adjustment", order |-> 1,
                       fee |-> "PLATFORM_PENALTY", tenths |-> -5000],
                      [category |-> "reserve_withheld", order |-> None,
                       fee |-> "reserve_amount", tenths |-> -1000]>>]
  @@
  22 :> [time |-> 28, orders |-> {2}, stated |-> 645, extras |-> <<>>]

Returns ==
  31 :> [order |-> 1, kind |-> "return_refund", requested |-> 27, completed |-> 28,
         items |-> <<[sku |-> 1, check |-> "unsellable", cost |-> 100],
                     [sku |-> 1, check |-> "resellable", cost |-> 100]>>]
  @@
  32 :> [order |-> 3, kind |-> "cancellation", requested |-> 28, completed |-> 28,
         items |-> <<[sku |-> 3, check |-> "not_applicable", cost |-> 200]>>]
  @@
  33 :> [order |-> 2, kind |-> "return_refund", requested |-> 28, completed |-> 28,
         items |-> <<[sku |-> 2, check |-> "pending", cost |-> 150]>>]

Connection(status, refresh) ==
  [connected |-> TRUE, revoked |-> FALSE, status |-> status, access |-> 2000, refresh |-> refresh,
   failed |-> FALSE, attempted |-> 990, succeeded |-> 980, missing |-> {}, synced |-> 990]

Tables ==
  [ledger |-> {}, orders |-> <<>>, returns |-> {}, items |-> {}, statements |-> {},
   costs |-> {[sku |-> 1, cost |-> 100, from |-> 1, current |-> TRUE],
              [sku |-> 2, cost |-> 150, from |-> 1, current |-> TRUE]},
   movements |-> {[id |-> <<91, 0>>, at |-> 20, sku |-> 1, type |-> "manual_adjustment"],
                  [id |-> <<92, 0>>, at |-> 20, sku |-> 1, type |-> "posted"]},
   positions |-> {[sku |-> 1, on_shelf |-> 3, coming_back |-> 0],
                  [sku |-> 2, on_shelf |-> 0, coming_back |-> 1],
                  [sku |-> 3, on_shelf |-> 9, coming_back |-> 0]},
   discs |-> {[id |-> <<93, 0, 0>>, at |-> 20, status |-> "open"],
              [id |-> <<94, 0, 0>>, at |-> 27, status |-> "open"]},
   notices |-> {[id |-> <<95>>, at |-> 20, status |-> "unread"],
                [id |-> <<96>>, at |-> 20, status |-> "unread"]},
   runs |-> {[domain |-> "orders", at |-> 980, status |-> "completed", finished |-> 981]},
   link |-> Connection("connected", 5000),
   others |-> {[channel |-> "shop", month |-> 25, gross |-> 400]},
   low_days |-> 0, profile |-> None]

\* Three of the orders and one of the statements are in the books already.
AtStart == PostStatement(FoldSet(LAMBDA o, d : PostOrder(d, o), Tables, {1, 2, 3}), 21)

RuleSet ==
  {[set |-> "vat", key |-> "registration_threshold", from |-> 1, to |-> 0, amount |-> 3500, after |-> None],
   [set |-> "income_tax", key |-> "date", from |-> 1, to |-> 0, amount |-> None, after |-> 20],
   [set |-> "mtd", key |-> "threshold", from |-> 1, to |-> 20, amount |-> 3000, after |-> None]}

Sales(from, to) == [basis |-> "sales", from |-> from, to |-> to]
Cash(from, to)  == [basis |-> "cash", from |-> from, to |-> to]

List(list, filter, limit) == [op |-> "list", list |-> list, filter |-> filter, limit |-> limit]

Questions ==
  {[op |-> "list_products", period |-> Sales(27, 28), measure |-> m, limit |-> 1, offset |-> o] :
     m \in {"kept", "units", "returns"}, o \in {0, 1}}
  \cup {[op |-> "get_product", period |-> p, product |-> "mug"] : p \in {Sales(25, 28), Cash(27, 28)}}
  \cup {[op |-> op, period |-> Sales(27, 28)] : op \in {"get_money", "get_where_it_went", "get_export"}}
  \cup {[op |-> "get_month_summary", month |-> 25, basis |-> "sales"],
        [op |-> "get_today", basis |-> "sales"],
        [op |-> "get_velocity", basis |-> "sales", window |-> 7],
        [op |-> "get_return_metrics", from |-> 25, to |-> 28],
        [op |-> "get_settlement", id |-> <<21>>],
        [op |-> "get_tax_dates", year |-> None],
        [op |-> "quarterly_check", gross |-> 3000, year |-> 1],
        [op |-> "list_rules", set |-> None, on |-> 28],
        [op |-> "list_other_channel_sales", from |-> 20, to |-> 28]}
  \cup {[op |-> op] : op \in {"get_needs_you", "get_sync_status", "get_vat_monitor", "get_set_aside",
                              "get_alert_settings"}}
  \cup {List("settlements", None, 1), List("records", None, 7), List("returns", None, 1),
        List("discrepancies", "open", 1), List("notifications", "open", 1), List("movements", 1, 1),
        List("stock", None, 1), List("stock", "out", 1)}

Costs == {[sku |-> 3, cost |-> 200, from |-> 27]}
Counts == {[sku |-> 3, on_shelf |-> 0, coming_back |-> 0]}
Runs == {[domain |-> "orders", at |-> 995, status |-> "partial", finished |-> 0]}
Links == {Connection("needs_reconnect", 5000)}
OtherSalesGiven == {[channel |-> "shop", month |-> 25, gross |-> 700]}
Profiles == {[vat_registered |-> TRUE, vat_registered_from |-> d] : d \in {None, 20}}
===============================================================================
