-------------------------------- MODULE CostFile --------------------------------
(***************************************************************************)
(* What a file of costs says: parse, read_amount and match of              *)
(* service/app/cost_files.py, without state.                               *)
(*                                                                         *)
(* A cell keeps the type it was saved with, and a text: what it says once  *)
(* it is stripped.  The texts that spell an amount are those of Tenths,    *)
(* which gives the amount in tenths of a penny, so that an amount of more  *)
(* than two decimals is one that ten does not divide.                      *)
(***************************************************************************)
EXTENDS Integers, Sequences

CONSTANTS
  Text, Blank,      \* what cells and headings say; Blank says nothing
  Tenths,           \* [texts that spell an amount -> its tenths of a penny]
  Variant,          \* the shop's variants: a sequence of [sku, seller, tiktok]
  MAX_ROWS

ASSUME CostFileAssumption ==
  /\ Blank \in Text \ DOMAIN Tenths
  /\ DOMAIN Tenths \subseteq Text /\ \A t \in DOMAIN Tenths : Tenths[t] \in Int
  /\ MAX_ROWS \in Nat

Saved == {"text", "int", "longint", "float"}      \* a longint has 16 digits or more
Says(text) == [saved |-> "text", text |-> text]

-------------------------------------------------------------------------------
(* parse: the first row that says anything is the heading. *)

Filled(table) == SelectSeq(table, LAMBDA row : \E i \in DOMAIN row : row[i] # Says(Blank))

Heading(table) == [i \in DOMAIN Filled(table)[1] |-> Filled(table)[1][i].text]

Columns(table) == {Heading(table)[i] : i \in DOMAIN Heading(table)}

Parses(table) ==
  /\ Filled(table) # <<>>
  /\ Blank \notin Columns(table)
  /\ \A i, j \in DOMAIN Heading(table) : Heading(table)[i] = Heading(table)[j] => i = j
  /\ Len(Filled(table)) - 1 <= MAX_ROWS

\* Rows are numbered as in a sheet whose heading is row 1.
RowNumbers(table) == 2 .. Len(Filled(table))

\* A row that ends early is filled up with blanks.
CellAt(table, n, column) ==
  LET i == CHOOSE i \in DOMAIN Heading(table) : Heading(table)[i] = column
      row == Filled(table)[n]
  IN  IF i \in DOMAIN row THEN row[i] ELSE Says(Blank)

-------------------------------------------------------------------------------
(* read_amount: pounds and pence, neither negative nor finer than a penny. *)

IsAmount(text) == text \in DOMAIN Tenths /\ Tenths[text] >= 0 /\ Tenths[text] % 10 = 0

-------------------------------------------------------------------------------
(* match, under a mapping [match_on, key, cost, packing, postage, currency]. *)

\* A column that is mapped and is not in the file raises; Blank is no column.
Mappable(table, m) ==
  \A column \in {m.key, m.cost, m.packing, m.postage} : column \in Columns(table) \cup {Blank}

\* The code in the key column, unless Excel kept it as a number and lost its end.
KeyOf(table, m, n) ==
  LET cell == CellAt(table, n, m.key)
  IN  IF cell.saved \in {"float", "longint"} THEN Blank ELSE cell.text

Named(field, text) == {i \in DOMAIN Variant : text # Blank /\ Variant[i][field] = text}

\* The first variant with the seller's code if that is what is matched on, else TikTok's.
Found(table, m, n) ==
  LET key == KeyOf(table, m, n)
  IN  IF m.match_on = "seller_sku" /\ Named("seller", key) # {}
        THEN Named("seller", key) ELSE Named("tiktok", key)

SkuOf(table, m, n) ==
  LET found == Found(table, m, n) IN Variant[CHOOSE i \in found : \A j \in found : i <= j].sku

\* The unit cost is an amount; packing and postage are, where the row has them.
Priced(table, m, n) ==
  /\ IsAmount(CellAt(table, n, m.cost).text)
  /\ \A column \in {m.packing, m.postage} \ {Blank} :
       LET text == CellAt(table, n, column).text IN text = Blank \/ IsAmount(text)

\* Mutant: what was seen on earlier rows is forgotten.
OutcomeUnseen(table, m, n) ==
  IF Found(table, m, n) # {} /\ Priced(table, m, n) THEN "matched" ELSE "unmatched"

\* A row that could not be read does not count as an earlier row of its variant.
Outcome(table, m, n) ==
  LET readable(k) == Found(table, m, k) # {} /\ Priced(table, m, k)
  IN  IF ~readable(n) THEN "unmatched"
      ELSE IF \E k \in 2 .. n - 1 : readable(k) /\ SkuOf(table, m, k) = SkuOf(table, m, n)
        THEN "duplicate"
      ELSE "matched"
===============================================================================
