---------------------------------- MODULE Lists ----------------------------------
(***************************************************************************)
(* The lists a seller pages through: settlements, records, returns,        *)
(* discrepancies, notifications, stock movements, stock.  All of them page *)
(* by the key of the last row shown, and one statement reads one page.     *)
(* A row has its time, at, and its identifier, id, a tuple of numbers.     *)
(***************************************************************************)
EXTENDS Reports

LIST == {"settlements", "records", "returns", "discrepancies", "notifications", "movements", "stock"}

\* How many numbers the identifiers of a list have.
Width(list) ==
  CASE list \in {"records", "discrepancies"} -> 3
    [] list = "movements" -> 2
    [] OTHER -> 1

KeySet(n) == [at : Int, id : [1 .. n -> Int]]

\* The end of a list is no key.
ASSUME ListsAssumption == \A n \in 1 .. 3 : None \notin KeySet(n)

\* "order by at desc, id desc"
Later(a, b) ==
  \/ a.at > b.at
  \/ /\ a.at = b.at
     /\ \E k \in DOMAIN a.id : a.id[k] > b.id[k] /\ \A j \in 1 .. k - 1 : a.id[j] = b.id[j]

Key(row) == [at |-> row.at, id |-> row.id]

\* Mutant: the cursor is that of the row that did not fit.
PageNext(rows, after, limit) ==
  LET rest == {r \in rows : after = None \/ Later(after, r)}
      above(r) == Cardinality({q \in rest : Later(q, r)})
  IN  [rows |-> {r \in rest : above(r) < limit},
       next |-> IF Cardinality(rest) > limit THEN Key(CHOOSE r \in rest : above(r) = limit) ELSE None]

\* limit + 1 rows are read, limit of them shown; the cursor is the last row's, if there are more.
Page(rows, after, limit) ==
  LET rest == {r \in rows : after = None \/ Later(after, r)}
      above(r) == Cardinality({q \in rest : Later(q, r)})
  IN  [rows |-> {r \in rest : above(r) < limit},
       next |-> IF Cardinality(rest) > limit THEN Key(CHOOSE r \in rest : above(r) = limit - 1) ELSE None]

-------------------------------------------------------------------------------
(* The rows of a list under its filter, None for all; and what comes with each page, *)
(* from a statement of its own: a count, or for records what their entries sum to.  *)

Records(db, category) ==
  {e \in db.ledger : category = None \/ e.category = category}

ListRows(db, list, filter) ==
  CASE list = "settlements"   -> {s \in db.statements : filter = None \/ s.at >= filter}
    [] list = "records"       -> {[at |-> e.day, id |-> e.id] : e \in Records(db, filter)}
    [] list = "returns"       -> {[at |-> r.at, id |-> r.id, cost |-> ReturnCost(db, r)] :
                                 r \in {r \in db.returns : filter = None \/ AwaitingCheck(db, r) > 0}}
    [] list = "discrepancies" -> {d \in db.discs : filter = None \/ d.status = filter}
    [] list = "notifications" -> {n \in db.notices : \/ filter = None
                                                     \/ filter = "open" /\ n.status # "done"
                                                     \/ n.status = filter}
    [] list = "movements"     -> {m \in db.movements : m.sku = filter}
    \* By variant, upwards.
    [] list = "stock"         -> {[at |-> 0, id |-> <<-p.sku>>] : p \in Positions(db, filter)}

Beside(db, list, filter) ==
  CASE list = "records"       -> Amount(Records(db, filter))
    [] list = "returns"       -> Cardinality({i \in db.items : i.check = "pending"})
    [] list = "discrepancies" -> Cardinality({d \in db.discs : d.status = "open"})
    [] list = "notifications" -> Cardinality({n \in db.notices : n.status = "unread"})
    [] OTHER                  -> 0
===============================================================================
