------------------------------- MODULE CostProofs -------------------------------
(* Theorems about costs: of SkuCosts, for any number of writers, variants and orders in   *)
(* which requests name them; of CostUpload, for any requests, keys, files, mappings and   *)
(* bounds.                                                                                *)
EXTENDS SkuCosts, CostUpload, TLAPS

\* Nobody has a cost, and no request is open.
LEMMA CostInvInit == CostInit => CostInv
<1> SUFFICES ASSUME CostInit PROVE CostInv
  OBVIOUS
<1>1. CostTypeOK
  BY SkuCostsAssumption DEF CostInit, CostTypeOK, NothingStamped
<1>2. PlaceInv /\ HeldInv /\ RowsInv
  BY DEF CostInit, PlaceInv, HeldInv, RowsInv, Open
<1> QED
  BY <1>1, <1>2 DEF CostInv

-------------------------------------------------------------------------------
(* What the index and the book say of the current row. *)

\* The current row is the book's last line, and there is none when the book is empty.
LEMMA CurrentRow ==
  ASSUME CostInv, NEW s \in Sku
  PROVE  /\ book[s] = <<>> => LiveRow(s) = NoWriter
         /\ book[s] # <<>> => LiveRow(s) = Last(book[s]) /\ LiveRow(s) \in Writer
<1>1. CASE book[s] = <<>>
  <2>1. costRows[s] = {}
    BY <1>1 DEF CostInv, RowsInv
  <2> QED
    BY <1>1, <2>1 DEF LiveRow, Live
<1>2. CASE book[s] # <<>>
  <2>1. costRows[s] # {} /\ Live(s) = {Last(book[s])}
    BY <1>2 DEF CostInv, RowsInv
  <2>2. LiveRow(s) = Last(book[s])
    BY <2>1 DEF LiveRow, TheOne
  <2>3. Live(s) \subseteq Writer
    BY DEF CostInv, CostTypeOK, Live
  <2> QED
    BY <1>2, <2>1, <2>2, <2>3
<1> QED
  BY <1>1, <1>2

\* The current row of a variant is some writer's, or there is none.
LEMMA CurrentType == ASSUME CostInv, NEW s \in Sku PROVE LiveRow(s) \in Writer \cup {NoWriter}
BY CurrentRow

\* A write that is open is at a variant of the shop.
LEMMA AtVariant ==
  ASSUME CostInv, NEW w \in Writer, Open(w)
  PROVE  /\ VariantOf(w) \in Sku /\ lines[w] \in Seq(Sku) /\ lines[w] # <<>>
         /\ line[w] \in Nat /\ line[w] \in DOMAIN lines[w] /\ DOMAIN lines[w] = 1 .. Len(lines[w])
         /\ \A i \in DOMAIN lines[w] : lines[w][i] \in Sku
<1>1. lines[w] \in Seq(Sku) /\ lines[w] # <<>> /\ line[w] \in DOMAIN lines[w]
  BY SkuCostsAssumption DEF CostInv, PlaceInv
<1> QED
  BY <1>1 DEF VariantOf, CostInv, CostTypeOK

-------------------------------------------------------------------------------
(* One lemma for each step. *)

\* The rows and the book stand while nothing commits and nobody goes back from done.
LEMMA RowsStand ==
  ASSUME CostInv, UNCHANGED <<costRows, superseded, book>>, \A w \in Writer : step[w] = "done" => step'[w] = "done"
  PROVE  RowsInv' /\ \A s \in Sku : LiveRow(s)' = LiveRow(s)
<1>1. \A s \in Sku : Live(s)' = Live(s)
  BY DEF Live
<1>2. \A s \in Sku : LiveRow(s)' = LiveRow(s)
  BY <1>1 DEF LiveRow
<1>3. RowsInv'
  <2> SUFFICES ASSUME NEW s \in Sku
               PROVE  /\ superseded'[s] \subseteq costRows'[s]
                      /\ \A v \in costRows'[s] : step'[v] = "done"
                      /\ costRows'[s] = {} <=> book'[s] = <<>>
                      /\ costRows'[s] # {} => Live(s)' = {Last(book'[s])}
    BY DEF RowsInv
  <2>1. \A v \in costRows[s] : v \in Writer
    BY DEF CostInv, CostTypeOK
  <2> QED
    BY <1>1, <2>1 DEF CostInv, RowsInv
<1> QED
  BY <1>2, <1>3

\* What is claimed stays held when no claim is new and none is let go of by another's step.
LEMMA HeldStands ==
  ASSUME CostInv, \A v \in Writer : Open(v)' => Open(v),
         \A v \in Writer, s \in Sku : Open(v)' =>
           (Claims(v, s)' => Claims(v, s)) /\ (Holds(v, s) => Holds(v, s)')
  PROVE  HeldInv'
BY DEF CostInv, HeldInv

\* A request arrives: it has claimed no variant.
LEMMA BeginInv ==
  ASSUME CostInv, NEW w \in Writer, NEW order \in Order, NEW day \in 0 .. MaxDate, Begin(w, order, day)
  PROVE  CostInv'
<1>1. CostTypeOK'
  BY DEF CostInv, CostTypeOK, Begin, Reach
<1>2. RowsInv' /\ \A s \in Sku : LiveRow(s)' = LiveRow(s)
  <2>1. \A v \in Writer : step[v] = "done" => step'[v] = "done"
    BY DEF CostInv, CostTypeOK, Begin, Reach
  <2> QED
    BY <2>1, RowsStand DEF Begin
<1>3. order \in Seq(Sku) /\ order # <<>>
  BY SkuCostsAssumption
<1>4. 1 \in DOMAIN order
  BY <1>3
<1>5. PlaceInv'
  BY <1>4 DEF CostInv, CostTypeOK, PlaceInv, Begin, Reach, Open, NothingStamped
<1>6. HeldInv'
  <2> SUFFICES ASSUME NEW v \in Writer, Open(v)', NEW s \in Sku, Claims(v, s)'
               PROVE  Holds(v, s)'
    BY DEF HeldInv
  <2>1. CASE v = w
    <3>1. stamped'[v] = NothingStamped /\ line'[v] = 1 /\ lines'[v] = order
      BY <2>1 DEF CostInv, CostTypeOK, PlaceInv, Begin
    <3>2. \A i \in DOMAIN order : ~(i < 1)
      BY <1>3
    <3> QED
      BY <3>1, <3>2 DEF NothingStamped, Claims
  <2>2. CASE v # w
    <3>1. Open(v) /\ lines'[v] = lines[v] /\ UNCHANGED <<stamped, line, owner>>
      BY <2>2 DEF CostInv, CostTypeOK, Begin, Reach, Open
    <3>2. Claims(v, s)
      BY <3>1 DEF Claims
    <3>3. Holds(v, s)
      BY <3>1, <3>2 DEF CostInv, HeldInv
    <3> QED
      BY <1>2, <3>1, <3>3 DEF Holds
  <2> QED
    BY <2>1, <2>2
<1> QED
  BY <1>1, <1>2, <1>5, <1>6 DEF CostInv

\* A writer's update sees the current row of a variant, which it has not claimed yet.
LEMMA StartUpdateInv == ASSUME CostInv, NEW w \in Writer, StartUpdate(w) PROVE CostInv'
<1>1. VariantOf(w) \in Sku
  BY AtVariant DEF StartUpdate, Open
<1>2. CostTypeOK'
  BY <1>1, CurrentType DEF CostInv, CostTypeOK, StartUpdate, Reach
<1>3. RowsInv' /\ \A s \in Sku : LiveRow(s)' = LiveRow(s)
  <2>1. \A v \in Writer : step[v] = "done" => step'[v] = "done"
    BY DEF CostInv, CostTypeOK, StartUpdate, Reach
  <2> QED
    BY <2>1, RowsStand DEF StartUpdate
<1>4. PlaceInv'
  BY DEF CostInv, CostTypeOK, PlaceInv, StartUpdate, Reach, Open
<1>5. HeldInv'
  <2>1. \A v \in Writer : Open(v)' => Open(v)
    BY DEF CostInv, CostTypeOK, StartUpdate, Reach, Open
  <2>2. \A v \in Writer, s \in Sku : (Claims(v, s)' <=> Claims(v, s)) /\ (Holds(v, s)' <=> Holds(v, s))
    BY <1>3 DEF StartUpdate, Claims, Holds
  <2> QED
    BY <2>1, <2>2, HeldStands
<1> QED
  BY <1>2, <1>3, <1>4, <1>5 DEF CostInv

\* The row that is stamped is current, and nobody else's.
LEMMA StampInv == ASSUME CostInv, NEW w \in Writer, Stamp(w) PROVE CostInv'
<1> DEFINE s == VariantOf(w)
<1>1. Open(w) /\ s \in Sku /\ line[w] \in DOMAIN lines[w] /\ s = lines[w][line[w]]
  BY AtVariant DEF Stamp, Open, VariantOf
<1>2. RowsInv' /\ \A x \in Sku : LiveRow(x)' = LiveRow(x)
  <2>1. \A v \in Writer : step[v] = "done" => step'[v] = "done"
    BY DEF CostInv, CostTypeOK, Stamp, Reach
  <2> QED
    BY <2>1, RowsStand DEF Stamp
<1>3. \A v \in Writer : Open(v)' => Open(v)
  BY <1>1 DEF CostInv, CostTypeOK, Stamp, Reach, Open
<1>5. CASE saw[w] # NoWriter /\ saw[w] = LiveRow(s)
  <2>1. /\ owner[s] = NoWriter /\ owner' = [owner EXCEPT ![s] = w]
        /\ stamped' = [stamped EXCEPT ![w][s] = saw[w]]
        /\ UNCHANGED <<lines, line>>
    BY <1>5 DEF Stamp
  <2>2. /\ stamped'[w][s] = saw[w] /\ owner'[s] = w
        /\ \A x \in Sku : x # s => stamped'[w][x] = stamped[w][x] /\ owner'[x] = owner[x]
        /\ \A v \in Writer : v # w => stamped'[v] = stamped[v]
    BY <1>1, <2>1 DEF CostInv, CostTypeOK
  <2>3. CostTypeOK'
    <3>1. saw[w] \in Writer \cup {NoWriter}
      BY DEF CostInv, CostTypeOK
    <3>2. stamped' \in [Writer -> [Sku -> Writer \cup {NoWriter}]]
      BY <1>1, <2>1, <3>1 DEF CostInv, CostTypeOK
    <3>3. step' \in [Writer -> {"idle", "update", "stamp", "insert", "done", "failed"}]
      BY DEF CostInv, CostTypeOK, Stamp, Reach
    <3> QED
      BY <1>1, <2>1, <3>2, <3>3 DEF CostInv, CostTypeOK, Stamp
  <2>4. PlaceInv'
    <3> SUFFICES ASSUME NEW v \in Writer
                 PROVE  /\ step'[v] = "idle" => line[v] = 1 /\ stamped'[v] = NothingStamped
                        /\ Open(v)' =>
                             /\ lines[v] \in Order /\ line[v] \in DOMAIN lines[v]
                             /\ \A x \in Sku : stamped'[v][x] # NoWriter =>
                                  \E i \in DOMAIN lines[v] : x = lines[v][i]
      BY <2>1 DEF PlaceInv, Stamp
    <3>1. CASE v = w
      BY <1>1, <1>3, <2>2, <3>1 DEF CostInv, CostTypeOK, PlaceInv, Stamp, Reach
    <3>2. CASE v # w
      BY <1>3, <2>2, <3>2 DEF CostInv, CostTypeOK, PlaceInv, Stamp, Reach
    <3> QED
      BY <3>1, <3>2
  <2>5. HeldInv'
    <3> SUFFICES ASSUME NEW v \in Writer, Open(v)', NEW x \in Sku, Claims(v, x)'
                 PROVE  Holds(v, x)'
      BY DEF HeldInv
    <3>1. CASE v = w /\ x = s
      BY <1>2, <1>5, <2>2, <3>1 DEF Holds
    <3>2. CASE ~(v = w /\ x = s)
      <4>1. Claims(v, x)
        BY <2>1, <2>2, <3>2 DEF Claims
      <4>2. Holds(v, x)
        BY <1>3, <4>1 DEF CostInv, HeldInv
      \* It was not this variant: nobody had that.
      <4>3. x # s
        BY <2>1, <4>2, SkuCostsAssumption DEF Holds
      <4> QED
        BY <1>2, <2>2, <4>2, <4>3 DEF Holds
    <3> QED
      BY <3>1, <3>2
  <2> QED
    BY <1>2, <2>3, <2>4, <2>5 DEF CostInv
<1>6. CASE ~(saw[w] # NoWriter /\ saw[w] = LiveRow(s))
  <2>1. UNCHANGED <<owner, stamped, lines, line>>
    BY <1>6 DEF Stamp
  <2>2. CostTypeOK'
    BY <2>1 DEF CostInv, CostTypeOK, Stamp, Reach
  <2>3. PlaceInv'
    BY <1>3, <2>1 DEF CostInv, CostTypeOK, PlaceInv, Stamp, Reach
  <2>4. HeldInv'
    <3>1. \A v \in Writer, x \in Sku : (Claims(v, x)' <=> Claims(v, x)) /\ (Holds(v, x)' <=> Holds(v, x))
      BY <1>2, <2>1 DEF Claims, Holds
    <3> QED
      BY <1>3, <3>1, HeldStands
  <2> QED
    BY <1>2, <2>2, <2>3, <2>4 DEF CostInv
<1> QED
  BY <1>5, <1>6

\* The index let the row in: the variant is this writer's, and what it stamped is current.
LEMMA InsertInv == ASSUME CostInv, NEW w \in Writer, Insert(w) PROVE CostInv'
<1>0. VariantOf(w) \in Sku
  BY AtVariant DEF Insert, Open
<1> PICK s \in Sku : s = VariantOf(w)
  BY <1>0
<1>1. /\ Open(w) /\ s \in Sku /\ s = lines[w][line[w]] /\ line[w] \in Nat /\ lines[w] \in Seq(Sku)
      /\ line[w] \in DOMAIN lines[w] /\ DOMAIN lines[w] = 1 .. Len(lines[w])
  BY AtVariant DEF Insert, Open, VariantOf
<1>2. /\ owner[s] \in {w, NoWriter} /\ LiveRow(s) = stamped[w][s]
      /\ owner' = [owner EXCEPT ![s] = w] /\ line' = [line EXCEPT ![w] = @ + 1]
      /\ line[w] < Len(lines[w]) /\ UNCHANGED <<stamped, lines>>
  BY DEF Insert, Free, Taken
<1>3. RowsInv' /\ \A x \in Sku : LiveRow(x)' = LiveRow(x)
  <2>1. \A v \in Writer : step[v] = "done" => step'[v] = "done"
    BY DEF CostInv, CostTypeOK, Insert, Reach
  <2> QED
    BY <2>1, RowsStand DEF Insert
<1>4. \A v \in Writer : Open(v)' => Open(v)
  BY <1>1 DEF CostInv, CostTypeOK, Insert, Reach, Open
<1>6. /\ line'[w] = line[w] + 1 /\ \A v \in Writer : v # w => line'[v] = line[v]
      /\ owner'[s] = w /\ \A x \in Sku : x # s => owner'[x] = owner[x]
  BY <1>1, <1>2 DEF CostInv, CostTypeOK
<1>7. CostTypeOK'
  BY <1>1, <1>2 DEF CostInv, CostTypeOK, Insert, Reach
<1>8. line'[w] \in DOMAIN lines[w]
  BY <1>1, <1>2, <1>6
<1>9. PlaceInv'
  BY <1>2, <1>4, <1>6, <1>8 DEF CostInv, CostTypeOK, PlaceInv, Insert, Reach
<1>10. \A v \in Writer, x \in Sku : Holds(v, x) => Holds(v, x)'
  BY <1>2, <1>3, <1>6, SkuCostsAssumption DEF Holds
<1>11. Holds(w, s)'
  BY <1>1, <1>2, <1>3, <1>6 DEF Holds
<1>12. HeldInv'
  <2> SUFFICES ASSUME NEW v \in Writer, Open(v)', NEW x \in Sku, Claims(v, x)'
               PROVE  Holds(v, x)'
    BY DEF HeldInv
  <2>1. CASE v = w /\ x = s
    BY <1>11, <2>1
  <2>2. CASE v = w /\ x # s
    <3>1. ASSUME NEW i \in DOMAIN lines[w], i < line'[w], lines[w][i] = x PROVE i < line[w]
      BY <1>1, <1>6, <2>2, <3>1
    <3>2. Claims(v, x)
      BY <1>2, <2>2, <3>1 DEF Claims
    <3> QED
      BY <1>4, <1>10, <3>2 DEF CostInv, HeldInv
  <2>3. CASE v # w
    <3>1. Claims(v, x)
      BY <1>2, <1>6, <2>3 DEF Claims
    <3> QED
      BY <1>4, <1>10, <3>1 DEF CostInv, HeldInv
  <2> QED
    BY <2>1, <2>2, <2>3
<1> QED
  BY <1>3, <1>7, <1>9, <1>12 DEF CostInv

\* Whoever commits has stamped the current row of every variant it names, and of no other.
LEMMA StampedCurrent ==
  ASSUME CostInv, NEW w \in Writer, Commit(w), NEW s \in Sku
  PROVE  IF s \in {lines[w][i] : i \in DOMAIN lines[w]}
           THEN stamped[w][s] = LiveRow(s) /\ owner[s] \in {w, NoWriter}
           ELSE stamped[w][s] = NoWriter
<1>1. Open(w)
  BY DEF Commit, Open
<1>2. /\ line[w] = Len(lines[w]) /\ DOMAIN lines[w] = 1 .. Len(lines[w]) /\ Len(lines[w]) \in Nat
      /\ VariantOf(w) = lines[w][line[w]]
      /\ owner[VariantOf(w)] \in {w, NoWriter} /\ stamped[w][VariantOf(w)] = LiveRow(VariantOf(w))
  BY <1>1, AtVariant DEF Commit, Free, Taken, VariantOf
<1>3. ASSUME NEW i \in DOMAIN lines[w], s = lines[w][i]
      PROVE  stamped[w][s] = LiveRow(s) /\ owner[s] \in {w, NoWriter}
  <2>1. CASE i < line[w]
    <3>1. Claims(w, s)
      BY <1>3, <2>1 DEF Claims
    <3> QED
      BY <1>1, <3>1 DEF CostInv, HeldInv, Holds
  <2>2. CASE ~(i < line[w])
    <3>1. i = line[w]
      BY <1>2, <2>2
    <3> QED
      BY <1>2, <1>3, <3>1
  <2> QED
    BY <2>1, <2>2
<1>4. stamped[w][s] # NoWriter => \E i \in DOMAIN lines[w] : s = lines[w][i]
  BY <1>1 DEF CostInv, PlaceInv
<1> QED
  BY <1>3, <1>4

\* Every line a writer claimed becomes current, and the ones it stamped end.
LEMMA CommitInv == ASSUME CostInv, NEW w \in Writer, Commit(w) PROVE CostInv'
<1> DEFINE named == {lines[w][i] : i \in DOMAIN lines[w]}
<1>1. Open(w) /\ w \in Writer
  BY DEF Commit, Open
<1>2. /\ costRows' = [s \in Sku |-> IF s \in named THEN costRows[s] \cup {w} ELSE costRows[s]]
      /\ book' = [s \in Sku |-> IF s \in named THEN Append(book[s], w) ELSE book[s]]
      /\ superseded' = [s \in Sku |-> superseded[s] \cup ({stamped[w][s]} \ {NoWriter})]
      /\ step' = [step EXCEPT ![w] = "done"]
      /\ owner' = [s \in Sku |-> IF owner[s] = w THEN NoWriter ELSE owner[s]]
      /\ UNCHANGED <<from, lines, line, saw, stamped>>
  BY DEF Commit, End, Reach
<1>3. \A s \in Sku : /\ s \in named => stamped[w][s] = LiveRow(s) /\ owner[s] \in {w, NoWriter}
                     /\ s \notin named => stamped[w][s] = NoWriter
  BY StampedCurrent
<1>4. CostTypeOK'
  <2>1. costRows' \in [Sku -> SUBSET Writer] /\ superseded' \in [Sku -> SUBSET Writer]
    BY <1>2 DEF CostInv, CostTypeOK
  <2>2. book' \in [Sku -> Seq(Writer)]
    BY <1>2 DEF CostInv, CostTypeOK
  <2>3. owner' \in [Sku -> Writer \cup {NoWriter}]
    BY <1>2 DEF CostInv, CostTypeOK
  <2> QED
    BY <1>2, <2>1, <2>2, <2>3 DEF CostInv, CostTypeOK
<1>5. \A v \in Writer : v # w => step'[v] = step[v]
  BY <1>2 DEF CostInv, CostTypeOK
<1>6. step'[w] = "done"
  BY <1>2 DEF CostInv, CostTypeOK
<1>7. PlaceInv'
  BY <1>2, <1>5, <1>6 DEF CostInv, PlaceInv, Open
<1>8. \A s \in Sku \ named : costRows'[s] = costRows[s] /\ superseded'[s] = superseded[s] /\ book'[s] = book[s]
  BY <1>2, <1>3
<1>9. \A s \in Sku \ named : LiveRow(s)' = LiveRow(s)
  <2>1. \A s \in Sku \ named : Live(s)' = Live(s)
    BY <1>8 DEF Live
  <2> QED
    BY <2>1 DEF LiveRow
<1>10. ASSUME NEW v \in Writer, v # w, NEW s \in Sku, Holds(v, s) PROVE Holds(v, s)'
  <2>1. s \notin named
    BY <1>3, <1>10, SkuCostsAssumption DEF Holds
  <2> QED
    BY <1>2, <1>9, <1>10, <2>1 DEF Holds
<1>11. HeldInv'
  <2> SUFFICES ASSUME NEW v \in Writer, Open(v)', NEW s \in Sku, Claims(v, s)'
               PROVE  Holds(v, s)'
    BY DEF HeldInv
  <2>1. v # w /\ Open(v)
    BY <1>5, <1>6 DEF Open
  <2>2. Claims(v, s)
    BY <1>2 DEF Claims
  <2>3. Holds(v, s)
    BY <2>1, <2>2 DEF CostInv, HeldInv
  <2> QED
    BY <1>10, <2>1, <2>3
<1>12. RowsInv'
  <2> SUFFICES ASSUME NEW s \in Sku
               PROVE  /\ superseded'[s] \subseteq costRows'[s]
                      /\ \A v \in costRows'[s] : step'[v] = "done"
                      /\ costRows'[s] = {} <=> book'[s] = <<>>
                      /\ costRows'[s] # {} => Live(s)' = {Last(book'[s])}
    BY DEF RowsInv
  <2>0. \A v \in costRows[s] : v # w /\ step[v] = "done" /\ v \in Writer
    BY <1>1 DEF CostInv, CostTypeOK, RowsInv, Open
  <2>1. CASE s \notin named
    BY <1>5, <1>8, <2>0, <2>1 DEF CostInv, RowsInv, Live
  <2>2. CASE s \in named
    <3>1. /\ costRows'[s] = costRows[s] \cup {w} /\ book'[s] = Append(book[s], w)
          /\ superseded'[s] = superseded[s] \cup ({LiveRow(s)} \ {NoWriter})
      BY <1>2, <1>3, <2>2
    <3>2. book[s] \in Seq(Writer)
      BY DEF CostInv, CostTypeOK
    <3>3. book'[s] # <<>> /\ Last(book'[s]) = w
      BY <3>1, <3>2 DEF Last
    <3>4. Live(s) = {LiveRow(s)} \ {NoWriter}
      BY CurrentRow, SkuCostsAssumption DEF CostInv, RowsInv, Live
    <3>5. costRows[s] \ superseded[s] = {LiveRow(s)} \ {NoWriter} /\ superseded[s] \subseteq costRows[s]
      BY <3>4 DEF Live, CostInv, RowsInv
    <3>6. superseded'[s] = costRows[s]
      BY <3>1, <3>5
    <3>7. Live(s)' = {w}
      BY <2>0, <3>1, <3>6 DEF Live
    <3> QED
      BY <1>5, <1>6, <2>0, <3>1, <3>3, <3>6, <3>7
  <2> QED
    BY <2>1, <2>2
<1> QED
  BY <1>4, <1>7, <1>11, <1>12 DEF CostInv

\* A write that is undone takes its claims with it.
LEMMA RollbackInv == ASSUME CostInv, NEW w \in Writer, Open(w), Rollback(w) PROVE CostInv'
<1>1. /\ step' = [step EXCEPT ![w] = "failed"]
      /\ owner' = [s \in Sku |-> IF owner[s] = w THEN NoWriter ELSE owner[s]]
      /\ stamped' = [stamped EXCEPT ![w] = NothingStamped]
      /\ UNCHANGED <<from, lines, line, saw, costRows, superseded, book>>
  BY DEF Rollback, End, Reach
<1>2. CostTypeOK'
  BY <1>1 DEF CostInv, CostTypeOK, NothingStamped
<1>3. RowsInv' /\ \A s \in Sku : LiveRow(s)' = LiveRow(s)
  <2>1. \A v \in Writer : step[v] = "done" => step'[v] = "done"
    BY <1>1 DEF CostInv, CostTypeOK, Open
  <2> QED
    BY <1>1, <2>1, RowsStand
<1>4. PlaceInv'
  BY <1>1 DEF CostInv, CostTypeOK, PlaceInv, Open
<1>5. HeldInv'
  <2>1. \A v \in Writer : Open(v)' => v # w /\ Open(v) /\ stamped'[v] = stamped[v]
    BY <1>1 DEF CostInv, CostTypeOK, Open
  <2>2. \A v \in Writer, s \in Sku : Open(v)' =>
          (Claims(v, s)' => Claims(v, s)) /\ (Holds(v, s) => Holds(v, s)')
    BY <1>1, <1>3, <2>1 DEF Claims, Holds
  <2> QED
    BY <2>1, <2>2, HeldStands
<1> QED
  BY <1>2, <1>3, <1>4, <1>5 DEF CostInv

\* Who is refused, chosen or cut off was at work.
LEMMA Undone ==
  ASSUME NEW w \in Writer, InsertRefused(w) \/ DeadlockVictim(w) \/ Crash(w)
  PROVE  Open(w) /\ Rollback(w)
BY DEF InsertRefused, DeadlockVictim, Deadlock, Waits, Crash, Open

\* Every step of the service and of its surroundings keeps the inductive invariant.
LEMMA CostInvStep == CostInv /\ [CostNext]_costVars => CostInv'
<1> SUFFICES ASSUME CostInv, [CostNext]_costVars PROVE CostInv'
  OBVIOUS
<1>1. ASSUME NEW w \in Writer, NEW order \in Order, NEW day \in 0 .. MaxDate, Begin(w, order, day)
      PROVE  CostInv'
  BY <1>1, BeginInv
<1>2. ASSUME NEW w \in Writer, StartUpdate(w) \/ Stamp(w) \/ Insert(w) \/ Commit(w) PROVE CostInv'
  BY <1>2, StartUpdateInv, StampInv, InsertInv, CommitInv
<1>3. ASSUME NEW w \in Writer, InsertRefused(w) \/ DeadlockVictim(w) \/ Crash(w) PROVE CostInv'
  BY <1>3, Undone, RollbackInv
<1>4. ASSUME UNCHANGED costVars PROVE CostInv'
  <2>1. CostTypeOK' /\ PlaceInv'
    BY <1>4 DEF costVars, CostInv, CostTypeOK, PlaceInv, Open
  <2>2. RowsInv' /\ \A s \in Sku : LiveRow(s)' = LiveRow(s)
    BY <1>4, RowsStand DEF costVars
  <2>3. \A v \in Writer : Open(v)' <=> Open(v)
    BY <1>4 DEF costVars, Open
  <2>4. \A v \in Writer, s \in Sku : (Claims(v, s)' <=> Claims(v, s)) /\ (Holds(v, s)' <=> Holds(v, s))
    BY <1>4, <2>2 DEF costVars, Claims, Holds
  <2>5. HeldInv'
    BY <2>3, <2>4, HeldStands
  <2> QED
    BY <2>1, <2>2, <2>5 DEF CostInv
<1> QED
  BY <1>1, <1>2, <1>3, <1>4 DEF CostNext, ServeWriter

-------------------------------------------------------------------------------
\* Rows, stamps, claims on the index and the book at any moment of any writes: the invariant
\* the two promises below follow from.
THEOREM CostsInvariant == CostSpec => []CostInv
<1> QED
  BY CostInvInit, CostInvStep, PTL DEF CostSpec

\* costs.py, "two concurrent writes cannot both leave a current row": a variant that was ever
\* given a cost has one current cost, the last that was committed, for any number of single
\* costs and uploads at once.
THEOREM OneCostIsCurrent == CostSpec => []OneCurrentCost
<1>1. CostInv => OneCurrentCost
  BY DEF CostInv, RowsInv, OneCurrentCost
<1> QED
  BY <1>1, CostsInvariant, PTL

-------------------------------------------------------------------------------
(* The refinement of CostBook. *)

\* The empty table is the empty book.
LEMMA InitKeeps == CostInit => Book!Init
BY DEF CostInit, Book!Init, NothingStamped

\* A commit adds one line to the book of each variant it names, and tells what it replaced.
LEMMA CommitKeeps == ASSUME CostInv, NEW w \in Writer, Commit(w) PROVE Book!Next
<1> DEFINE stage == [v \in Writer |-> IF step[v] \in {"done", "failed"} THEN step[v] ELSE "open"]
           replaced == [v \in Writer |-> IF step[v] = "done" THEN stamped[v] ELSE NothingStamped]
<1>1. Open(w) /\ step[w] \notin {"done", "failed"}
  BY DEF Commit, Open
<1>2. {lines[w][i] : i \in DOMAIN lines[w]} \in SUBSET Sku
  BY <1>1, AtVariant
<1> PICK named \in SUBSET Sku : named = {lines[w][i] : i \in DOMAIN lines[w]}
  BY <1>2
<1>3. step' = [step EXCEPT ![w] = "done"] /\ UNCHANGED stamped
  BY DEF Commit, End, Reach
<1>4. \A v \in Writer : v # w => step'[v] = step[v]
  BY <1>3 DEF CostInv, CostTypeOK
<1>5. step'[w] = "done"
  BY <1>3 DEF CostInv, CostTypeOK
<1>6. stage' = [stage EXCEPT ![w] = "done"] /\ stage[w] = "open"
  BY <1>1, <1>4, <1>5
<1>7. book' = [s \in Sku |-> IF s \in named THEN Append(book[s], w) ELSE book[s]]
  BY DEF Commit
<1>8. stamped[w] = [s \in Sku |-> IF s \in named THEN Book!Current(s) ELSE NoWriter]
  <2>1. \A s \in Sku : stamped[w][s] = IF s \in named THEN Book!Current(s) ELSE NoWriter
    <3> SUFFICES ASSUME NEW s \in Sku
                 PROVE  stamped[w][s] = IF s \in named THEN Book!Current(s) ELSE NoWriter
      OBVIOUS
    <3>1. LiveRow(s) = Book!Current(s)
      BY CurrentRow DEF Book!Current, Book!Last, Last
    <3> QED
      BY <3>1, StampedCurrent
  <2>2. stamped[w] \in [Sku -> Writer \cup {NoWriter}]
    BY DEF CostInv, CostTypeOK
  <2> QED
    BY <2>1, <2>2
<1>9. replaced' = [replaced EXCEPT ![w] =
                     [s \in Sku |-> IF s \in named THEN Book!Current(s) ELSE NoWriter]]
  <2>1. replaced'[w] = stamped[w]
    BY <1>3, <1>5
  <2>2. \A v \in Writer : v # w => replaced'[v] = replaced[v]
    BY <1>3, <1>4
  <2> QED
    BY <1>8, <2>1, <2>2
<1>10. Book!Write(w, named)
  BY <1>6, <1>7, <1>9 DEF Book!Write
<1> QED
  BY <1>10 DEF Book!Next

\* A request that ends without a commit leaves the book as it was.
LEMMA RollbackKeeps == ASSUME CostInv, NEW w \in Writer, Open(w), Rollback(w) PROVE Book!Next
<1> DEFINE stage == [v \in Writer |-> IF step[v] \in {"done", "failed"} THEN step[v] ELSE "open"]
           replaced == [v \in Writer |-> IF step[v] = "done" THEN stamped[v] ELSE NothingStamped]
<1>1. /\ step' = [step EXCEPT ![w] = "failed"] /\ stamped' = [stamped EXCEPT ![w] = NothingStamped]
      /\ UNCHANGED book
  BY DEF Rollback, End, Reach
<1>2. step[w] \notin {"done", "failed"} /\ step'[w] = "failed"
  BY <1>1 DEF CostInv, CostTypeOK, Open
<1>3. \A v \in Writer : v # w => step'[v] = step[v] /\ stamped'[v] = stamped[v]
  BY <1>1 DEF CostInv, CostTypeOK
<1>4. stage' = [stage EXCEPT ![w] = "failed"] /\ stage[w] = "open"
  BY <1>2, <1>3
<1>5. replaced' = replaced
  BY <1>2, <1>3
<1>6. Book!Fail(w)
  BY <1>1, <1>4, <1>5 DEF Book!Fail
<1> QED
  BY <1>6 DEF Book!Next

\* Of a step on the way, the book shows nothing.
LEMMA OnTheWay ==
  ASSUME CostInv, NEW w \in Writer, UNCHANGED book,
         NEW place \in {"update", "stamp", "insert"}, step[w] \notin {"done", "failed"}, Reach(w, place),
         \A v \in Writer : step[v] = "done" => stamped'[v] = stamped[v]
  PROVE  UNCHANGED Book!bookVars
<1> DEFINE stage == [v \in Writer |-> IF step[v] \in {"done", "failed"} THEN step[v] ELSE "open"]
           replaced == [v \in Writer |-> IF step[v] = "done" THEN stamped[v] ELSE NothingStamped]
<1>1. step'[w] = place /\ \A v \in Writer : v # w => step'[v] = step[v]
  BY DEF CostInv, CostTypeOK, Reach
<1>2. stage' = stage
  BY <1>1
<1>3. replaced' = replaced
  BY <1>1
<1> QED
  BY <1>2, <1>3 DEF Book!bookVars

\* Every step of the writers is one of the book's, or none.
LEMMA StepKeeps == CostInv /\ [CostNext]_costVars => [Book!Next]_(Book!bookVars)
<1> SUFFICES ASSUME CostInv, [CostNext]_costVars PROVE Book!Next \/ UNCHANGED Book!bookVars
  OBVIOUS
<1>1. ASSUME NEW w \in Writer, NEW order \in Order, NEW day \in 0 .. MaxDate, Begin(w, order, day)
      PROVE  UNCHANGED Book!bookVars
  BY <1>1, OnTheWay DEF Begin
<1>2. ASSUME NEW w \in Writer, StartUpdate(w) \/ Insert(w) PROVE UNCHANGED Book!bookVars
  BY <1>2, OnTheWay DEF StartUpdate, Insert
<1>3. ASSUME NEW w \in Writer, Stamp(w) PROVE UNCHANGED Book!bookVars
  <2>1. \A v \in Writer : step[v] = "done" => stamped'[v] = stamped[v]
    BY <1>3 DEF CostInv, CostTypeOK, Stamp
  <2> QED
    BY <1>3, <2>1, OnTheWay DEF Stamp
<1>4. ASSUME NEW w \in Writer, Commit(w) PROVE Book!Next
  BY <1>4, CommitKeeps
<1>5. ASSUME NEW w \in Writer, InsertRefused(w) \/ DeadlockVictim(w) \/ Crash(w) PROVE Book!Next
  BY <1>5, Undone, RollbackKeeps
<1>6. ASSUME UNCHANGED costVars PROVE UNCHANGED Book!bookVars
  BY <1>6 DEF costVars, Book!bookVars
<1> QED
  BY <1>1, <1>2, <1>3, <1>4, <1>5, <1>6 DEF CostNext, ServeWriter

\* Concurrent writes of costs, under Postgres' snapshots, waits and unique index, are lines
\* added to a book, all of a write's or none, each telling the line it replaced (costs.py).
THEOREM CostsKeepTheBook == CostSpec => KeepsCostBook
<1> QED
  BY CostsInvariant, InitKeeps, StepKeeps, PTL DEF CostSpec, KeepsCostBook, Book!Spec

-------------------------------------------------------------------------------
(* CostUpload *)

\* Where a match that has its result can be, and any request that has ended.
Fixed == {"match_put", "match_write", "done", "failed"}

\* There is no file, no result and no request at first.
LEMMA InvInit == Init => IInv
<1> SUFFICES ASSUME Init PROVE IInv
  OBVIOUS
<1>1. TypeOK
  <2>1. NothingAsked \in [file : File \cup {NoFile}, mapping : Mapping \cup {NoMapping},
                          ids : SUBSET (Request \X Row), key : Key \cup {NoKey}]
    BY DEF NothingAsked
  <2>2. NoRows \in Result
    BY DEF NoRows, Result, Read, NothingRead
  <2>3. NothingSeen \in [mapping : Mapping \cup {NoMapping}, rows : Result]
    BY <2>2 DEF NothingSeen
  <2>4. file \in File \cup {NoFile}
    BY UploadAssumption DEF Init, Readable
  <2> QED
    BY <2>1, <2>2, <2>3, <2>4 DEF Init, TypeOK
<1>2. ResultInv
  BY DEF Init, ResultInv, Results
<1>3. HandInv /\ AskInv /\ AppliedInv /\ AppliedWasShown /\ MatchedHasRows
  BY DEF Init, HandInv, AskInv, AppliedInv, AppliedWasShown, MatchedHasRows, NothingAsked
<1> QED
  BY <1>1, <1>2, <1>3 DEF IInv

-------------------------------------------------------------------------------
(* Results. *)

\* A result that a match made has its type, and two of one match are one.
LEMMA MadeType ==
  ASSUME NEW result, Made(result), result \in Result
  PROVE  /\ result # NoRows /\ result.match # NoRequest
         /\ result.read \in Readable \X Mapping /\ result.read[1] \in Readable
BY UploadAssumption DEF Made, Matched, NoRows

\* A match makes one result.
LEMMA MadeOnce ==
  ASSUME NEW p, NEW q, Made(p), Made(q), p.match = q.match
  PROVE  p = q
BY DEF Made

\* Every result in the store or in somebody's hands is one.
LEMMA ResultType == ASSUME TypeOK, NEW result \in Results PROVE result \in Result
BY DEF TypeOK, Results

\* A result stays what it is while nobody who has ended, or holds it, changes what it read.
LEMMA MadeStays ==
  ASSUME NEW result, Made(result),
         \A r \in Request : pc[r] \in Fixed => pc'[r] \in Fixed /\ seen'[r] = seen[r]
  PROVE  Made(result)'
BY DEF Made, Fixed

-------------------------------------------------------------------------------
(* What a step that applies nothing leaves to show. *)

\* A step that applies no cost and makes no result but a match's own keeps the invariant.
LEMMA InvStands ==
  ASSUME IInv, TypeOK', UNCHANGED applied, UNCHANGED keys, shown \subseteq shown',
         \A r \in Request : pc[r] \in Fixed => pc'[r] \in Fixed /\ seen'[r] = seen[r],
         \A r \in Request : pc[r] = "done" => pc'[r] = "done" /\ ask'[r] = ask[r],
         \A result \in Results' : result \in Results \/ Made(result)',
         HandInv', AskInv', MatchedHasRows'
  PROVE  IInv'
<1>1. ResultInv'
  BY MadeStays DEF IInv, ResultInv
<1>2. AppliedInv'
  <2> SUFFICES ASSUME NEW a \in applied
               PROVE  /\ pc'[a.by] = "done"
                      /\ a.match = seen'[a.by].rows.match /\ a.read = seen'[a.by].rows.read
                      /\ a.read \in DOMAIN Matched /\ a.row \in DOMAIN Matched[a.read]
                      /\ ask'[a.by].key # NoKey => keys[ask'[a.by].key] = a.by
    BY DEF AppliedInv
  <2>1. a.by \in Request /\ pc[a.by] = "done"
    BY DEF IInv, TypeOK, AppliedInv
  <2>2. seen'[a.by] = seen[a.by] /\ ask'[a.by] = ask[a.by] /\ pc'[a.by] = "done"
    BY <2>1 DEF Fixed
  <2> QED
    BY <2>2 DEF IInv, AppliedInv
<1>3. AppliedWasShown'
  <2> SUFFICES ASSUME NEW a \in applied
               PROVE  \E result \in shown' :
                        /\ RowId(result.match, a.row) \in ask'[a.by].ids
                        /\ a.read = result.read /\ a.row \in DOMAIN Matched[result.read]
    BY DEF AppliedWasShown
  <2>1. a.by \in Request /\ pc[a.by] = "done"
    BY DEF IInv, TypeOK, AppliedInv
  <2>2. ask'[a.by] = ask[a.by]
    BY <2>1
  <2> QED
    BY <2>2 DEF IInv, AppliedWasShown
<1> QED
  BY <1>1, <1>2, <1>3 DEF IInv

\* A request arrives and asks for what it may.
LEMMA SendInv ==
  ASSUME IInv, NEW r \in Request,
         NEW place \in {"file", "mapping", "match", "apply"},
         NEW body \in [file : File \cup {NoFile}, mapping : Mapping \cup {NoMapping},
                       ids : SUBSET (Request \X Row), key : Key \cup {NoKey}],
         \A id \in body.ids : \E result \in shown : id \in Ids(result),
         Send(r, place, body)
  PROVE  IInv'
<1>1. /\ pc[r] = "idle" /\ pc' = [pc EXCEPT ![r] = place] /\ ask' = [ask EXCEPT ![r] = body]
      /\ UNCHANGED <<upload, file, rows, keys, seen, shown, applied>>
  BY DEF Send, Goto
<1>2. TypeOK'
  BY <1>1 DEF IInv, TypeOK, upload
<1>3. /\ pc'[r] = place /\ ask'[r] = body
      /\ \A q \in Request : q # r => pc'[q] = pc[q] /\ ask'[q] = ask[q]
  BY <1>1 DEF IInv, TypeOK
<1>4. \A result \in Results' : result \in Results
  BY <1>1, <1>3 DEF Results
<1>5. HandInv'
  BY <1>1, <1>3 DEF IInv, HandInv
<1>6. AskInv'
  BY <1>1, <1>3 DEF IInv, AskInv
<1>7. MatchedHasRows'
  BY <1>1 DEF IInv, MatchedHasRows, upload
<1> QED
  BY <1>1, <1>2, <1>3, <1>4, <1>5, <1>6, <1>7, InvStands DEF Fixed

\* A client sends its next request, with identifiers of results it was shown.
LEMMA AsksInv ==
  ASSUME IInv, NEW r \in Request,
         \/ \E f \in File : SendFile(r, f)
         \/ \E m \in Mapping : SendMapping(r, m)
         \/ SendMatch(r)
         \/ \E ids \in {{}} \cup UNION {SUBSET Ids(result) : result \in shown}, k \in Key :
              SendApply(r, ids, k)
  PROVE  IInv'
<1> DEFINE Body == [file : File \cup {NoFile}, mapping : Mapping \cup {NoMapping},
                    ids : SUBSET (Request \X Row), key : Key \cup {NoKey}]
<1>1. NothingAsked \in Body /\ NothingAsked.ids = {}
  BY DEF NothingAsked
<1>2. CASE \E f \in File : SendFile(r, f)
  <2>1. PICK f \in File : Send(r, "file", [NothingAsked EXCEPT !.file = f])
    BY <1>2 DEF SendFile
  <2>2. [NothingAsked EXCEPT !.file = f] \in Body /\ [NothingAsked EXCEPT !.file = f].ids = {}
    BY <1>1
  <2> QED
    BY <2>1, <2>2, SendInv
<1>3. CASE \E m \in Mapping : SendMapping(r, m)
  <2>1. PICK m \in Mapping : Send(r, "mapping", [NothingAsked EXCEPT !.mapping = m])
    BY <1>3 DEF SendMapping
  <2>2. [NothingAsked EXCEPT !.mapping = m] \in Body /\ [NothingAsked EXCEPT !.mapping = m].ids = {}
    BY <1>1
  <2> QED
    BY <2>1, <2>2, SendInv
<1>4. CASE SendMatch(r)
  BY <1>1, <1>4, SendInv DEF SendMatch
<1>5. CASE \E ids \in {{}} \cup UNION {SUBSET Ids(result) : result \in shown}, k \in Key :
             SendApply(r, ids, k)
  <2>1. PICK ids \in {{}} \cup UNION {SUBSET Ids(result) : result \in shown}, k \in Key :
          Send(r, "apply", [NothingAsked EXCEPT !.ids = ids, !.key = k])
    BY <1>5 DEF SendApply
  <2>2. \A id \in ids : \E result \in shown : id \in Ids(result)
    BY <2>1
  <2>3. \A result \in shown : Ids(result) \subseteq Request \X Row
    <3> SUFFICES ASSUME NEW result \in shown PROVE Ids(result) \subseteq Request \X Row
      OBVIOUS
    <3>1. Made(result) /\ result \in Result
      BY ResultType DEF IInv, ResultInv, Results
    <3>2. result.match \in Request /\ result.read[1] \in Readable
      BY <3>1, MadeType DEF Made
    <3>3. Rows[result.read[1]] \subseteq Row
      BY <3>2 DEF Row
    <3> QED
      BY <3>2, <3>3 DEF Ids, RowId
  <2>4. ids \subseteq Request \X Row
    BY <2>2, <2>3
  <2>5. [NothingAsked EXCEPT !.ids = ids, !.key = k] \in Body
        /\ [NothingAsked EXCEPT !.ids = ids, !.key = k].ids = ids
    BY <2>1, <2>4, <1>1 DEF NothingAsked
  <2> QED
    BY <2>1, <2>2, <2>5, SendInv
<1> QED
  BY <1>2, <1>3, <1>4, <1>5

-------------------------------------------------------------------------------
(* A step of a handler. *)

\* A step of one request that keeps what was read, put, shown and asked.
LEMMA MoveInv ==
  ASSUME IInv, TypeOK', NEW r \in Request,
         NEW place \in {"file_status", "mapping_write", "match_file", "done", "replayed", "failed"},
         pc[r] \notin {"idle", "done", "replayed", "failed"}, Goto(r, place),
         \A q \in Request : seen'[q].rows = seen[q].rows, \A q \in Request : q # r => seen'[q] = seen[q],
         pc[r] \in Fixed => seen'[r] = seen[r] /\ place \in Fixed,
         UNCHANGED <<rows, keys, ask, shown, applied>>, MatchedHasRows'
  PROVE  IInv'
<1>1. pc'[r] = place /\ \A q \in Request : q # r => pc'[q] = pc[q]
  BY DEF IInv, TypeOK, Goto
<1>2. \A result \in Results' : result \in Results
  BY <1>1 DEF Results
<1>3. HandInv'
  BY <1>1 DEF IInv, HandInv
<1>4. AskInv'
  BY DEF IInv, AskInv
<1>5. \A q \in Request : pc[q] \in Fixed => pc'[q] \in Fixed /\ seen'[q] = seen[q]
  BY <1>1
<1>6. \A q \in Request : pc[q] = "done" => pc'[q] = "done" /\ ask'[q] = ask[q]
  BY <1>1
<1> QED
  BY <1>2, <1>3, <1>4, <1>5, <1>6, InvStands

\* A handler dies with what it holds; what it has put in the store stays.
LEMMA FailInv == ASSUME IInv, NEW r \in Request, Fail(r) PROVE IInv'
<1>1. TypeOK'
  BY DEF IInv, TypeOK, Fail, Goto, upload
<1>2. MatchedHasRows'
  BY DEF IInv, MatchedHasRows, Fail, upload
<1> QED
  BY <1>1, <1>2, MoveInv DEF Fail, Fixed, upload

\* A file is stored, then its status: no result changes.
LEMMA FileInv == ASSUME IInv, NEW r \in Request, PutFile(r) \/ SetFileStatus(r) PROVE IInv'
<1>1. TypeOK'
  BY DEF IInv, TypeOK, PutFile, SetFileStatus, Goto, upload
<1>2. MatchedHasRows'
  BY DEF IInv, MatchedHasRows, PutFile, SetFileStatus, upload
<1> QED
  BY <1>1, <1>2, MoveInv DEF PutFile, SetFileStatus, Fixed, upload

\* A mapping is checked against the file's columns, then written: no result changes.
LEMMA MappingInv == ASSUME IInv, NEW r \in Request, CheckColumns(r) \/ WriteMapping(r) PROVE IInv'
<1>1. TypeOK'
  BY DEF IInv, TypeOK, CheckColumns, WriteMapping, Goto, upload
<1>2. MatchedHasRows'
  BY DEF IInv, MatchedHasRows, CheckColumns, WriteMapping, upload
<1> QED
  BY <1>1, <1>2, MoveInv DEF CheckColumns, WriteMapping, Fixed, upload

\* A match reads the mapping: it has made no result yet.
LEMMA ReadUploadInv == ASSUME IInv, NEW r \in Request, ReadUpload(r) PROVE IInv'
<1>1. pc[r] = "match" /\ seen' = [seen EXCEPT ![r].mapping = mapping] /\ Goto(r, "match_file")
      /\ UNCHANGED <<upload, file, rows, keys, ask, shown, applied>>
  BY DEF ReadUpload
<1>2. [seen[r] EXCEPT !.mapping = mapping] \in [mapping : Mapping \cup {NoMapping}, rows : Result]
  BY DEF IInv, TypeOK
<1>3. seen' \in [Request -> [mapping : Mapping \cup {NoMapping}, rows : Result]]
  BY <1>1, <1>2 DEF IInv, TypeOK
<1>4. TypeOK'
  BY <1>1, <1>3 DEF IInv, TypeOK, Goto, upload
<1>5. \A q \in Request : seen'[q].rows = seen[q].rows
  BY <1>1 DEF IInv, TypeOK
<1>6. \A q \in Request : q # r => seen'[q] = seen[q]
  BY <1>1 DEF IInv, TypeOK
<1>7. MatchedHasRows'
  BY <1>1 DEF IInv, MatchedHasRows, upload
<1> QED
  BY <1>1, <1>4, <1>5, <1>6, <1>7, MoveInv DEF Fixed

\* What a match read is a result of its own.
LEMMA RunMatchInv == ASSUME IInv, NEW r \in Request, RunMatch(r) PROVE IInv'
<1>1. PICK read : read = <<file, seen[r].mapping>>
  OBVIOUS
<1>2. pc[r] = "match_file" /\ UNCHANGED <<upload, file, rows, keys, ask, shown, applied>>
  BY DEF RunMatch
<1>3. CASE read \in DOMAIN Matched
  <2> DEFINE result == [match |-> r, read |-> read]
  <2>1. seen' = [seen EXCEPT ![r].rows = result] /\ pc' = [pc EXCEPT ![r] = "match_put"]
    BY <1>1, <1>3 DEF RunMatch, Goto
  <2>2. result \in Result
    BY <1>1 DEF IInv, TypeOK, Result, Read
  <2>3. [seen[r] EXCEPT !.rows = result] \in [mapping : Mapping \cup {NoMapping}, rows : Result]
    BY <2>2 DEF IInv, TypeOK
  <2>4. seen' \in [Request -> [mapping : Mapping \cup {NoMapping}, rows : Result]]
    BY <2>1, <2>3 DEF IInv, TypeOK
  <2>5. TypeOK'
    BY <1>2, <2>1, <2>4 DEF IInv, TypeOK, upload
  <2>6. /\ pc'[r] = "match_put" /\ seen'[r].rows = result
        /\ \A q \in Request : q # r => pc'[q] = pc[q] /\ seen'[q] = seen[q]
    BY <2>1 DEF IInv, TypeOK
  <2>7. Made(result)'
    BY <1>3, <2>6 DEF Made
  <2>8. \A p \in Results' : p \in Results \/ p = result
    BY <1>2, <2>6 DEF Results
  <2>9. HandInv'
    BY <1>2, <2>6 DEF IInv, HandInv
  <2>10. AskInv' /\ MatchedHasRows'
    BY <1>2 DEF IInv, AskInv, MatchedHasRows, upload
  <2>11. \A p \in Results' : p \in Results \/ Made(p)'
    BY <2>7, <2>8
  <2>12. \A q \in Request : pc[q] \in Fixed => pc'[q] \in Fixed /\ seen'[q] = seen[q]
    BY <1>2, <2>6 DEF Fixed
  <2>13. \A q \in Request : pc[q] = "done" => pc'[q] = "done" /\ ask'[q] = ask[q]
    BY <1>2, <2>6
  <2> QED
    BY <1>2, <2>5, <2>9, <2>10, <2>11, <2>12, <2>13, InvStands
<1>4. CASE read \notin DOMAIN Matched
  <2>1. Goto(r, "failed") /\ UNCHANGED seen
    BY <1>1, <1>4 DEF RunMatch
  <2>2. TypeOK'
    BY <1>2, <2>1 DEF IInv, TypeOK, Goto, upload
  <2>3. MatchedHasRows'
    BY <1>2 DEF IInv, MatchedHasRows, upload
  <2> QED
    BY <1>2, <2>1, <2>2, <2>3, MoveInv DEF Fixed
<1> QED
  BY <1>3, <1>4

\* A match replaces the stored result by its own.
LEMMA PutRowsInv == ASSUME IInv, NEW r \in Request, PutRows(r) PROVE IInv'
<1>1. /\ pc[r] = "match_put" /\ rows' = seen[r].rows /\ pc' = [pc EXCEPT ![r] = "match_write"]
      /\ UNCHANGED <<upload, file, keys, ask, seen, shown, applied>>
  BY DEF PutRows, Goto
<1>2. seen[r].rows \in Results
  BY <1>1 DEF Results
<1>3. seen[r].rows \in Result /\ seen[r].rows # NoRows
  BY <1>2, ResultType, MadeType DEF IInv, ResultInv
<1>4. TypeOK'
  BY <1>1, <1>3 DEF IInv, TypeOK, upload
<1>5. pc'[r] = "match_write" /\ \A q \in Request : q # r => pc'[q] = pc[q]
  BY <1>1 DEF IInv, TypeOK
<1>6. \A result \in Results' : result \in Results
  BY <1>1, <1>2, <1>5 DEF Results
<1>7. HandInv'
  BY <1>1, <1>3, <1>5 DEF IInv, HandInv
<1>8. AskInv' /\ MatchedHasRows'
  BY <1>1, <1>3 DEF IInv, AskInv, MatchedHasRows, upload
<1> QED
  BY <1>1, <1>4, <1>5, <1>6, <1>7, <1>8, InvStands DEF Fixed

\* A match says it is done, and the seller is shown what it made.
LEMMA CommitMatchInv == ASSUME IInv, NEW r \in Request, CommitMatch(r) PROVE IInv'
<1>1. /\ pc[r] = "match_write" /\ status' = "confirmed" /\ counted' = r
      /\ shown' \in {shown, shown \cup {seen[r].rows}} /\ pc' = [pc EXCEPT ![r] = "done"]
      /\ UNCHANGED <<mapping, file, rows, keys, ask, seen, applied>>
  BY DEF CommitMatch, Goto
<1>2. seen[r].rows \in Results
  BY <1>1 DEF Results
<1>3. seen[r].rows \in Result
  BY <1>2, ResultType DEF IInv
<1>4. TypeOK'
  BY <1>1, <1>3 DEF IInv, TypeOK
<1>5. pc'[r] = "done" /\ \A q \in Request : q # r => pc'[q] = pc[q]
  BY <1>1 DEF IInv, TypeOK
<1>6. \A result \in Results' : result \in Results
  BY <1>1, <1>2, <1>5 DEF Results
<1>7. HandInv' /\ MatchedHasRows'
  BY <1>1, <1>5 DEF IInv, HandInv, MatchedHasRows
<1>8. shown \subseteq shown' /\ AskInv'
  BY <1>1 DEF IInv, AskInv
<1> QED
  BY <1>1, <1>4, <1>5, <1>6, <1>7, <1>8, InvStands DEF Fixed

\* An apply is answered without applying anything: its key was used, or it is refused.
LEMMA ReplayInv == ASSUME IInv, NEW r \in Request, ReplayApply(r) \/ RefuseApply(r) PROVE IInv'
<1>1. TypeOK'
  BY DEF IInv, TypeOK, ReplayApply, RefuseApply, Goto, upload
<1>2. MatchedHasRows'
  BY DEF IInv, MatchedHasRows, ReplayApply, RefuseApply, upload
<1> QED
  BY <1>1, <1>2, MoveInv DEF ReplayApply, RefuseApply, Fixed, upload

\* An apply reads the stored result, whose rows it will write.
LEMMA ReadRowsInv == ASSUME IInv, NEW r \in Request, ReadRows(r) PROVE IInv'
<1>1. /\ pc[r] = "apply" /\ seen' = [seen EXCEPT ![r].rows = rows]
      /\ pc' = [pc EXCEPT ![r] = IF rows = NoRows THEN "failed" ELSE "apply_write"]
      /\ UNCHANGED <<upload, file, rows, keys, ask, shown, applied>>
  BY DEF ReadRows, Goto
<1>2. [seen[r] EXCEPT !.rows = rows] \in [mapping : Mapping \cup {NoMapping}, rows : Result]
  BY DEF IInv, TypeOK
<1>3. seen' \in [Request -> [mapping : Mapping \cup {NoMapping}, rows : Result]]
  BY <1>1, <1>2 DEF IInv, TypeOK
<1>4. TypeOK'
  BY <1>1, <1>3 DEF IInv, TypeOK, upload
<1>5. /\ pc'[r] = (IF rows = NoRows THEN "failed" ELSE "apply_write") /\ seen'[r].rows = rows
      /\ \A q \in Request : q # r => pc'[q] = pc[q] /\ seen'[q] = seen[q]
  BY <1>1 DEF IInv, TypeOK
<1>6. \A result \in Results' : result \in Results
  BY <1>1, <1>5 DEF Results
<1>7. HandInv' /\ AskInv' /\ MatchedHasRows'
  BY <1>1, <1>5 DEF IInv, HandInv, AskInv, MatchedHasRows, upload
<1> QED
  BY <1>1, <1>4, <1>5, <1>6, <1>7, InvStands DEF Fixed

\* What an apply takes it was asked for, of a result that was shown, and its key is new.
LEMMA CommitApplyInv == ASSUME IInv, NEW r \in Request, CommitApply(r) PROVE IInv'
<1> PICK result : result = seen[r].rows
  OBVIOUS
<1> PICK chosen : chosen = Chosen(result, ask[r].ids)
  OBVIOUS
<1> DEFINE cost(row) == [by |-> r, match |-> result.match, row |-> row, read |-> result.read]
<1>1. /\ pc[r] = "apply_write" /\ ~Stored(r) /\ status' = "applied"
      /\ applied' = applied \cup {cost(row) : row \in chosen}
      /\ keys' = IF ask[r].key = NoKey THEN keys ELSE [keys EXCEPT ![ask[r].key] = r]
      /\ pc' = [pc EXCEPT ![r] = "done"]
      /\ UNCHANGED <<mapping, counted, file, rows, ask, seen, shown>>
  BY DEF CommitApply, Goto
<1>2. result \in Results
  BY <1>1 DEF Results
<1>3. Made(result) /\ result \in Result /\ result.read \in DOMAIN Matched /\ result.match \in Request
  BY <1>2, ResultType DEF IInv, ResultInv, Made
<1>4. \A row \in chosen : /\ row \in Row /\ <<result.match, row>> \in ask[r].ids
                          /\ row \in DOMAIN Matched[result.read]
  BY DEF Chosen, RowId
<1>5. result.read \in Read
  BY <1>3 DEF Result
<1>6. pc'[r] = "done" /\ \A q \in Request : q # r => pc'[q] = pc[q]
  BY <1>1 DEF IInv, TypeOK
<1>7. TypeOK'
  <2>1. applied' \subseteq [by : Request, match : Request, row : Row, read : Read]
    <3>1. \A row \in chosen : cost(row) \in [by : Request, match : Request, row : Row, read : Read]
      BY <1>3, <1>4, <1>5
    <3>2. applied \subseteq [by : Request, match : Request, row : Row, read : Read]
      BY DEF IInv, TypeOK
    <3> HIDE DEF cost
    <3> QED
      BY <1>1, <3>1, <3>2
  <2>2. keys' \in [Key -> Request \cup {NoRequest}]
    BY <1>1 DEF IInv, TypeOK
  <2> QED
    BY <1>1, <2>1, <2>2 DEF IInv, TypeOK
<1>8. ResultInv'
  <2>1. \A p \in Results' : p \in Results
    BY <1>1, <1>6 DEF Results
  <2>2. \A q \in Request : pc[q] \in Fixed => pc'[q] \in Fixed /\ seen'[q] = seen[q]
    BY <1>1, <1>6 DEF Fixed
  <2> QED
    BY <2>1, <2>2, MadeStays DEF IInv, ResultInv
<1>9. HandInv'
  BY <1>1, <1>6 DEF IInv, HandInv
<1>10. AskInv' /\ MatchedHasRows'
  BY <1>1 DEF IInv, AskInv, HandInv, MatchedHasRows
<1>11. AppliedInv'
  <2> SUFFICES ASSUME NEW a \in applied'
               PROVE  /\ pc'[a.by] = "done"
                      /\ a.match = seen[a.by].rows.match /\ a.read = seen[a.by].rows.read
                      /\ a.read \in DOMAIN Matched /\ a.row \in DOMAIN Matched[a.read]
                      /\ ask[a.by].key # NoKey => keys'[ask[a.by].key] = a.by
    BY <1>1 DEF AppliedInv
  <2>1. CASE a \in applied
    <3>1. a.by \in Request /\ pc[a.by] = "done" /\ a.by # NoRequest
      BY <2>1, UploadAssumption DEF IInv, TypeOK, AppliedInv
    <3>2. a.by # r
      BY <1>1, <3>1
    <3>3. ask[a.by].key # NoKey => keys'[ask[a.by].key] = a.by
      <4> SUFFICES ASSUME ask[a.by].key # NoKey PROVE keys'[ask[a.by].key] = a.by
        OBVIOUS
      <4>1. keys[ask[a.by].key] = a.by
        BY <2>1 DEF IInv, AppliedInv
      <4>2. ask[r].key # NoKey => keys[ask[r].key] = NoRequest
        BY <1>1 DEF Stored
      <4>3. ask[r].key = NoKey \/ ask[r].key # ask[a.by].key
        BY <3>1, <4>1, <4>2
      <4> QED
        BY <1>1, <4>1, <4>3 DEF IInv, TypeOK
    <3> QED
      BY <1>6, <2>1, <3>1, <3>2, <3>3 DEF IInv, AppliedInv
  <2>2. CASE a \notin applied
    <3>1. PICK row \in chosen : a = cost(row)
      BY <1>1, <2>2
    <3>2. ask[r].key # NoKey => keys'[ask[r].key] = r
      <4>1. ask[r].key \in Key \cup {NoKey}
        BY DEF IInv, TypeOK
      <4> QED
        BY <1>1, <4>1 DEF IInv, TypeOK
    <3> QED
      BY <1>3, <1>4, <1>6, <3>1, <3>2
  <2> QED
    BY <2>1, <2>2
<1>12. AppliedWasShown'
  <2> SUFFICES ASSUME NEW a \in applied'
               PROVE  \E p \in shown :
                        /\ RowId(p.match, a.row) \in ask[a.by].ids
                        /\ a.read = p.read /\ a.row \in DOMAIN Matched[p.read]
    BY <1>1 DEF AppliedWasShown
  <2>1. CASE a \in applied
    BY <2>1 DEF IInv, AppliedWasShown
  <2>2. CASE a \notin applied
    <3>1. PICK row \in chosen : a = cost(row)
      BY <1>1, <2>2
    <3>2. PICK p \in shown : <<result.match, row>> \in Ids(p)
      BY <1>4 DEF IInv, AskInv
    <3>3. p.match = result.match
      BY <3>2 DEF Ids, RowId
    <3>4. Made(p)
      BY DEF IInv, ResultInv, Results
    <3>5. p = result
      BY <1>3, <3>3, <3>4, MadeOnce
    <3> QED
      BY <1>4, <3>1, <3>5 DEF RowId
  <2> QED
    BY <2>1, <2>2
<1> QED
  BY <1>7, <1>8, <1>9, <1>10, <1>11, <1>12 DEF IInv

\* Every step of the service and of its surroundings keeps the inductive invariant.
LEMMA InvStep == IInv /\ [Next]_vars => IInv'
<1> SUFFICES ASSUME IInv, [Next]_vars PROVE IInv'
  OBVIOUS
<1>1. ASSUME NEW r \in Request,
             \/ \E f \in File : SendFile(r, f)
             \/ \E m \in Mapping : SendMapping(r, m)
             \/ SendMatch(r)
             \/ \E ids \in {{}} \cup UNION {SUBSET Ids(result) : result \in shown}, k \in Key :
                  SendApply(r, ids, k)
      PROVE  IInv'
  BY <1>1, AsksInv
<1>2. ASSUME NEW r \in Request, Serve(r) PROVE IInv'
  BY <1>2, FileInv, MappingInv, ReadUploadInv, RunMatchInv, PutRowsInv, CommitMatchInv,
     ReplayInv, ReadRowsInv, CommitApplyInv DEF Serve
<1>3. ASSUME NEW r \in Request, Fail(r) PROVE IInv'
  BY <1>3, FailInv
<1>4. ASSUME UNCHANGED vars PROVE IInv'
  <2>1. TypeOK'
    BY <1>4 DEF vars, upload, IInv, TypeOK
  <2>2. \A result \in Results' : result \in Results
    BY <1>4 DEF vars, Results
  <2>3. HandInv' /\ AskInv' /\ MatchedHasRows'
    BY <1>4 DEF vars, upload, IInv, HandInv, AskInv, MatchedHasRows
  <2> QED
    BY <1>4, <2>1, <2>2, <2>3, InvStands DEF vars
<1> QED
  BY <1>1, <1>2, <1>3, <1>4 DEF Next

-------------------------------------------------------------------------------
\* The upload, its file and its stored result at any moment of any requests: the invariant
\* the promises below follow from.
THEOREM UploadInvariant == Spec => []IInv
<1> QED
  BY InvInit, InvStep, PTL DEF Spec

\* openapi, "Applies only the rows the seller confirmed": every cost written is a row of a
\* result the seller was shown, with its figures, for any number of matches and files between.
THEOREM AppliedRowsWereShown == Spec => []AppliedWasShown
<1>1. IInv => AppliedWasShown
  BY DEF IInv
<1> QED
  BY <1>1, UploadInvariant, PTL

\* An upload that reads as matched or applied has a stored result, although the store is
\* written outside the transaction that says so.
THEOREM MatchedUploadsHaveRows == Spec => []MatchedHasRows
<1>1. IInv => MatchedHasRows
  BY DEF IInv
<1> QED
  BY <1>1, UploadInvariant, PTL

\* However many applies carry a key, one of them writes costs.
THEOREM KeysApplyOnce == Spec => []KeyAppliesOnce
<1>1. IInv => KeyAppliesOnce
  BY DEF IInv, AppliedInv, KeyAppliesOnce
<1> QED
  BY <1>1, UploadInvariant, PTL

\* Two matched rows of one result are of two variants: the later one is a duplicate.
LEMMA MatchedOnce ==
  ASSUME NEW read \in DOMAIN Matched, NEW m \in DOMAIN Matched[read], NEW n \in DOMAIN Matched[read],
         Matched[read][m] = Matched[read][n]
  PROVE  m = n
<1> DEFINE table == Table[read[1]]
           mapped == read[2]
           readable(k) == Found(table, mapped, k) # {} /\ Priced(table, mapped, k)
<1>1. /\ read[1] \in Readable
      /\ Matched[read] = [k \in {k \in Rows[read[1]] : Outcome(table, mapped, k) = "matched"} |->
                            SkuOf(table, mapped, k)]
  BY DEF Matched
<1>2. \A k \in DOMAIN Matched[read] :
        k \in 2 .. Len(Filled(table)) /\ Outcome(table, mapped, k) = "matched"
        /\ Matched[read][k] = SkuOf(table, mapped, k)
  BY <1>1 DEF Rows, RowNumbers
<1>3. \A k \in DOMAIN Matched[read] : k \in Int /\ 2 <= k
  BY <1>2
<1>4. \A k \in DOMAIN Matched[read] :
        readable(k) /\ ~ \E j \in 2 .. k - 1 : readable(j) /\ SkuOf(table, mapped, j) = SkuOf(table, mapped, k)
  BY <1>2 DEF Outcome
<1>5. ~(m < n)
  <2> SUFFICES ASSUME m < n PROVE FALSE
    OBVIOUS
  <2>1. m \in 2 .. n - 1
    BY <1>3
  <2> QED
    BY <1>2, <1>4, <2>1
<1>6. ~(n < m)
  <2> SUFFICES ASSUME n < m PROVE FALSE
    OBVIOUS
  <2>1. n \in 2 .. m - 1
    BY <1>3
  <2> QED
    BY <1>2, <1>4, <2>1
<1> QED
  BY <1>3, <1>5, <1>6

\* An apply gives each variant one cost at most, for any file and any mapping of its columns.
THEOREM VariantsGetOneCost == Spec => []OneCostPerVariant
<1>1. IInv => OneCostPerVariant
  <2> SUFFICES ASSUME IInv, NEW a \in applied, NEW b \in applied,
                      a.by = b.by, Matched[a.read][a.row] = Matched[b.read][b.row]
               PROVE  a = b
    BY DEF OneCostPerVariant
  <2>1. a.match = b.match /\ a.read = b.read /\ a.read \in DOMAIN Matched
        /\ a.row \in DOMAIN Matched[a.read] /\ b.row \in DOMAIN Matched[a.read]
    BY DEF IInv, AppliedInv
  <2>2. a.row = b.row
    BY <2>1, MatchedOnce
  <2> QED
    BY <2>1, <2>2 DEF IInv, TypeOK
<1> QED
  BY <1>1, UploadInvariant, PTL
=================================================================================
