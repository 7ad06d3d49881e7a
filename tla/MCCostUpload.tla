------------------------------ MODULE MCCostUpload ------------------------------
(* CostUpload for TLC: a file of two variants, one that names a variant three times, *)
(* the first time without a price that can be read, and one that does not open.      *)
EXTENDS CostUpload, TLC

CONSTANTS r1, r2, r3, r4, f1, f2, bad, k1, x, y

MCText == {"", "SKU", "Cost", "Post", "red", "blue", "17", "18", "5.00", "4.005", "1"}
MCTenths == ("5.00" :> 5000) @@ ("4.005" :> 4005) @@ ("1" :> 1000) @@ ("17" :> 17000) @@ ("18" :> 18000)
MCVariant ==
  <<[sku |-> x, seller |-> "red", tiktok |-> "17"], [sku |-> y, seller |-> "red", tiktok |-> "18"]>>

S(texts) == [i \in DOMAIN texts |-> Says(texts[i])]
MCTable ==
  (f1 :> <<S(<<"SKU", "Cost">>), S(<<"", "">>), S(<<"red", "5.00">>), S(<<"18", "1">>)>>) @@
  (f2 :> <<S(<<"SKU", "Cost", "Post">>), S(<<"17", "4.005">>), S(<<"red", "5.00", "1">>),
           <<Says("17"), [saved |-> "float", text |-> "1"]>>>>)

\* The second is in another currency, and maps a column that only the second file has.
MCMapping ==
  {[match_on |-> "seller_sku", key |-> "SKU", cost |-> "Cost", packing |-> "", postage |-> "",
    currency |-> "GBP"],
   [match_on |-> "tiktok_sku_id", key |-> "SKU", cost |-> "Cost", packing |-> "", postage |-> "Post",
    currency |-> "USD"]}

UploadSymmetry == Permutations(Request)
===============================================================================
