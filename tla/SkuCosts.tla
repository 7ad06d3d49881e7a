-------------------------------- MODULE SkuCosts --------------------------------
(***************************************************************************)
(* Writing a variant's cost: putSkuCost (costs.py) and the write loop of   *)
(* applyCostUpload (cost_uploads.py), over product_costs and its index     *)
(* product_costs_current_idx, one row per sku with superseded_at null.     *)
(*                                                                         *)
(* A writer is one READ COMMITTED transaction.  For each of its variants   *)
(* it stamps the current row and inserts a new one.  The update looks for  *)
(* the current row in the snapshot of its own start, waits for whoever has *)
(* touched that row, and skips it if it is no longer current by then; the  *)
(* insert waits for whoever has an uncommitted row of the variant, and     *)
(* fails if another current row is committed.                              *)
(***************************************************************************)
EXTENDS Integers, FiniteSets, Sequences, SequencesExt

CONSTANTS
  Writer, NoWriter,   \* requests; a row is named by the writer that inserted it
  Sku,                \* the variants of one shop
  Order,              \* the orders in which a request can name variants
  MaxDate             \* BOUND: effective dates are 0 .. MaxDate

ASSUME SkuCostsAssumption ==
  /\ NoWriter \notin Writer
  /\ \A q \in Order : q \in Seq(Sku) /\ q # <<>> /\ \A i, j \in DOMAIN q : q[i] = q[j] => i = j
  /\ MaxDate \in Nat

VARIABLES
  costRows,     \* [Sku -> the committed rows]
  superseded,   \* [Sku -> those of them with superseded_at set]
  from,         \* [Writer -> effective_from of its rows]
  lines,        \* [Writer -> its variants, in the order it writes them]
  line,         \* [Writer -> the one it is at]
  saw,          \* [Writer -> the current row in the update's snapshot]
  stamped,      \* [Writer -> [Sku -> the row it has stamped, or NoWriter]]
  owner,        \* [Sku -> the writer with an uncommitted row or stamp]
  step,
  book          \* history: [Sku -> its rows in commit order]

costVars == <<costRows, superseded, from, lines, line, saw, stamped, owner, step, book>>

VariantOf(w) == lines[w][line[w]]
Live(s)      == costRows[s] \ superseded[s]
TheOne(S)    == CHOOSE w \in S : TRUE
LiveRow(s)   == IF Live(s) = {} THEN NoWriter ELSE TheOne(Live(s))
Open(w)      == step[w] \in {"update", "stamp", "insert"}

NothingStamped == [s \in Sku |-> NoWriter]

CostInit ==
  /\ costRows = [s \in Sku |-> {}] /\ superseded = [s \in Sku |-> {}]
  /\ from = [w \in Writer |-> 0]
  /\ lines = [w \in Writer |-> <<>>]
  /\ line = [w \in Writer |-> 1]
  /\ saw = [w \in Writer |-> NoWriter]
  /\ stamped = [w \in Writer |-> NothingStamped]
  /\ owner = [s \in Sku |-> NoWriter]
  /\ step = [w \in Writer |-> "idle"]
  /\ book = [s \in Sku |-> <<>>]

Reach(w, place) == step' = [step EXCEPT ![w] = place]

Begin(w, order, day) ==
  /\ step[w] = "idle"
  /\ lines' = [lines EXCEPT ![w] = order]
  /\ from' = [from EXCEPT ![w] = day]
  /\ Reach(w, "update")
  /\ UNCHANGED <<costRows, superseded, line, saw, stamped, owner, book>>

\* "update product_costs set superseded_at = now() ... where superseded_at is null"
StartUpdate(w) ==
  /\ step[w] = "update"
  /\ saw' = [saw EXCEPT ![w] = LiveRow(VariantOf(w))]
  /\ Reach(w, "stamp")
  /\ UNCHANGED <<costRows, superseded, from, lines, line, stamped, owner, book>>

\* The row seen is stamped once nobody else holds it, if it is still current then.
Stamp(w) ==
  /\ step[w] = "stamp"
  /\ LET s == VariantOf(w) IN
     IF saw[w] # NoWriter /\ saw[w] = LiveRow(s)
       THEN /\ owner[s] = NoWriter
            /\ owner' = [owner EXCEPT ![s] = w]
            /\ stamped' = [stamped EXCEPT ![w][s] = saw[w]]
       ELSE UNCHANGED <<owner, stamped>>
  /\ Reach(w, "insert")
  /\ UNCHANGED <<costRows, superseded, from, lines, line, saw, book>>

\* Mutant: a transaction that ends keeps its variants.
EndLeaks(w, status) == Reach(w, status) /\ UNCHANGED <<owner, from, lines, line, saw>>

\* The transaction ends and lets go of every variant.
End(w, status) ==
  /\ Reach(w, status)
  /\ owner' = [s \in Sku |-> IF owner[s] = w THEN NoWriter ELSE owner[s]]
  /\ UNCHANGED <<from, lines, line, saw>>

Rollback(w) ==
  /\ End(w, "failed")
  /\ stamped' = [stamped EXCEPT ![w] = NothingStamped]
  /\ UNCHANGED <<costRows, superseded, book>>

\* The index has no current row of the variant but the one this writer stamped.
Free(w) == owner[VariantOf(w)] \in {w, NoWriter}
\* Mutant: product_costs_current_idx does not exist.
NeverTaken(w) == FALSE

Taken(w) == LiveRow(VariantOf(w)) # stamped[w][VariantOf(w)]

\* Mutant: every row of an upload is committed on its own.
InsertAutocommit(w) ==
  /\ step[w] = "insert" /\ line[w] < Len(lines[w])
  /\ Free(w) /\ ~Taken(w)
  /\ costRows' = [costRows EXCEPT ![VariantOf(w)] = @ \cup {w}]
  /\ superseded' = [superseded EXCEPT ![VariantOf(w)] = @ \cup ({stamped[w][VariantOf(w)]} \ {NoWriter})]
  /\ book' = [book EXCEPT ![VariantOf(w)] = Append(@, w)]
  /\ line' = [line EXCEPT ![w] = @ + 1]
  /\ Reach(w, "update")
  /\ UNCHANGED <<from, lines, saw, stamped, owner>>

\* "insert into product_costs"
Insert(w) ==
  /\ step[w] = "insert" /\ line[w] < Len(lines[w])
  /\ Free(w) /\ ~Taken(w)
  /\ owner' = [owner EXCEPT ![VariantOf(w)] = w]
  /\ line' = [line EXCEPT ![w] = @ + 1]
  /\ Reach(w, "update")
  /\ UNCHANGED <<costRows, superseded, from, lines, saw, stamped, book>>

\* The last insert and the commit, which shows everything at once.
Commit(w) ==
  /\ step[w] = "insert" /\ line[w] = Len(lines[w])
  /\ Free(w) /\ ~Taken(w)
  /\ LET named == {lines[w][i] : i \in DOMAIN lines[w]} IN
     /\ costRows' = [s \in Sku |-> IF s \in named THEN costRows[s] \cup {w} ELSE costRows[s]]
     /\ book' = [s \in Sku |-> IF s \in named THEN Append(book[s], w) ELSE book[s]]
  /\ superseded' = [s \in Sku |-> superseded[s] \cup ({stamped[w][s]} \ {NoWriter})]
  /\ End(w, "done")
  /\ UNCHANGED stamped

\* A unique violation on product_costs_current_idx: 500, and everything is rolled back.
InsertRefused(w) ==
  /\ step[w] = "insert"
  /\ Free(w) /\ Taken(w)
  /\ Rollback(w)

\* Writers wait for each other in a ring: Postgres ends one of them.
Waits(w, v) ==
  /\ w # v
  /\ \/ step[w] = "insert"
     \/ step[w] = "stamp" /\ saw[w] # NoWriter /\ saw[w] = LiveRow(VariantOf(w))
  /\ owner[VariantOf(w)] = v

Deadlock(w) ==
  \E ring \in SUBSET Writer :
    /\ w \in ring
    /\ \A v \in ring : (\E u \in ring : Waits(v, u)) /\ (\E u \in ring : Waits(u, v))

DeadlockVictim(w) == Deadlock(w) /\ Rollback(w)

\* A check on the request fails, or the connection dies, before the commit.
Crash(w) == Open(w) /\ Rollback(w)

ServeWriter(w) ==
  StartUpdate(w) \/ Stamp(w) \/ Insert(w) \/ Commit(w) \/ InsertRefused(w) \/ DeadlockVictim(w)

CostNext ==
  \E w \in Writer :
    \/ \E order \in Order, day \in 0 .. MaxDate : Begin(w, order, day)
    \/ ServeWriter(w) \/ Crash(w)

CostSpec == CostInit /\ [][CostNext]_costVars

\* The server and Postgres finish what they accepted.
FairSpec == CostSpec /\ \A w \in Writer : WF_costVars(ServeWriter(w))

-------------------------------------------------------------------------------
(* The reader: products.SQL, cte cost, "distinct on (sku_id) ... order by sku_id,     *)
(* effective_from desc".  Rows of one effective date tie, and any may be picked.       *)

RankingCost(s, to) ==
  LET inForce == {w \in costRows[s] : from[w] <= to}
  IN  {w \in inForce : \A v \in inForce : from[v] <= from[w]}

-------------------------------------------------------------------------------
CostTypeOK ==
  /\ costRows \in [Sku -> SUBSET Writer] /\ superseded \in [Sku -> SUBSET Writer]
  /\ from \in [Writer -> 0 .. MaxDate]
  /\ lines \in [Writer -> Order \cup {<<>>}]
  /\ line \in [Writer -> Nat]
  /\ saw \in [Writer -> Writer \cup {NoWriter}]
  /\ stamped \in [Writer -> [Sku -> Writer \cup {NoWriter}]]
  /\ owner \in [Sku -> Writer \cup {NoWriter}]
  /\ step \in [Writer -> {"idle", "update", "stamp", "insert", "done", "failed"}]
  /\ book \in [Sku -> Seq(Writer)]

\* A variant that was ever given a cost has exactly one current cost, the last one that
\* was committed: costs.py, "two concurrent writes cannot both leave a current row".
OneCurrentCost ==
  \A s \in Sku : costRows[s] # {} => Live(s) = {Last(book[s])}

\* A cost in force at the end of a closed period is not replaced by one that takes effect
\* later: products.py, "entering or changing a cost now no longer rewrites a closed month".
ClosedPeriodKeeps ==
  [][\A s \in Sku, to \in 0 .. MaxDate :
       (\A w \in costRows'[s] \ costRows[s] : from[w] > to) => RankingCost(s, to)' = RankingCost(s, to)]_costVars

\* Every write ends: two that name the same variants, in whatever order, do not wait for
\* each other for ever.
EveryWriteEnds == \A w \in Writer : Open(w) ~> step[w] \in {"done", "failed"}

\* products.py, "The cost in force at the end of the period": the cost the ranking uses is
\* the last one written of those with the latest effective date.
RankingUsesCostInForce ==
  \A s \in Sku, to \in 0 .. MaxDate :
    LET latest == RankingCost(s, to)
    IN  latest # {} => latest = {Last(SelectSeq(book[s], LAMBDA w : w \in latest))}

\* The transactions, seen from outside, are lines added to a book.
Book == INSTANCE CostBook WITH
  stage <- [w \in Writer |-> IF step[w] \in {"done", "failed"} THEN step[w] ELSE "open"],
  replaced <- [w \in Writer |-> IF step[w] = "done" THEN stamped[w] ELSE NothingStamped]

\* Concurrent writes behave like writes one after another, each replacing the line before.
KeepsCostBook == Book!Spec

-------------------------------------------------------------------------------
(* What the proofs of CostProofs stand on. *)

\* A write is at one of its lines, and has stamped rows of its own variants only.
PlaceInv ==
  \A w \in Writer :
    /\ step[w] = "idle" => line[w] = 1 /\ stamped[w] = NothingStamped
    /\ Open(w) =>
         /\ lines[w] \in Order /\ line[w] \in DOMAIN lines[w]
         /\ \A s \in Sku : stamped[w][s] # NoWriter => \E i \in DOMAIN lines[w] : s = lines[w][i]

\* A writer has claimed the variants it stamped a row of and those it inserted a row of.
Claims(w, s) ==
  \/ stamped[w][s] # NoWriter
  \/ \E i \in DOMAIN lines[w] : i < line[w] /\ lines[w][i] = s

\* The variant is this writer's until it ends, and the row it stamped, if any, is current.
Holds(w, s) == owner[s] = w /\ stamped[w][s] = LiveRow(s)

HeldInv == \A w \in Writer : Open(w) => \A s \in Sku : Claims(w, s) => Holds(w, s)

\* The rows are those of the book, all but its last one superseded.
RowsInv ==
  \A s \in Sku :
    /\ superseded[s] \subseteq costRows[s]
    /\ \A w \in costRows[s] : step[w] = "done"
    /\ costRows[s] = {} <=> book[s] = <<>>
    /\ costRows[s] # {} => Live(s) = {Last(book[s])}

CostInv == CostTypeOK /\ PlaceInv /\ HeldInv /\ RowsInv
===============================================================================
