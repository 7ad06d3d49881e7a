---------------------------- MODULE StockAdjustment ----------------------------
(***************************************************************************)
(* createStockAdjustment (service/app/stock.py) over its two tables and    *)
(* the Idempotency-Key store (service/app/idempotency.py, schema/0023).    *)
(*                                                                         *)
(* Every request is one READ COMMITTED transaction (db.tenant).  A step of *)
(* the model is one statement whose result or blocking another transaction *)
(* can influence: replay, the row lock, the key's insert, the commit.      *)
(* Writes before the commit are visible to nobody, so they take effect in  *)
(* Commit; what others do see early is the lock each statement holds.      *)
(***************************************************************************)
EXTENDS Integers, FiniteSets, FiniteSetsExt

CONSTANTS
  Request,      \* HTTP requests, each sent at most once
  NoRequest,
  Key,          \* Idempotency-Key values
  NoKey,        \* the header is absent
  Sku,          \* the variants of one shop
  Quantity,     \* the quantities clients send, zero included
  MaxStock,     \* BOUND: the largest count TikTok reports
  Retain,       \* key retention in ticks ("24 hours", idempotency.RETAIN)
  MaxAge,       \* the most ticks a transaction stays open
  MaxTime       \* BOUND: the clock stops here

ASSUME RequestAssumption == NoRequest \notin Request
ASSUME KeyAssumption == NoKey \notin Key
ASSUME BodyAssumption == Sku # {} /\ Quantity # {} /\ Quantity \subseteq Int
ASSUME TimeAssumption ==
  /\ Retain \in Nat /\ MaxAge \in Nat /\ MaxTime \in Nat /\ MaxStock \in Nat
  /\ 2 * MaxAge <= Retain

VARIABLES
  clock,        \* now(), in ticks
  synced,       \* the SKUs that have a stock_positions row
  tiktok,       \* stock_positions.tiktok_stock
  adjusted,     \* stock_positions.adjusted_delta
  posLock,      \* who holds the row lock of a stock_positions row
  applied,      \* committed manual_adjustment movements, named by their request
  keyRow,       \* idempotency_keys: [by, at] or NoRow
  keyLock,      \* who has an uncommitted delete or insert of a key
  pc,           \* where each request's transaction stands
  asked,        \* what each request asked: [key, body, at]; at is the transaction's now()
  answer        \* [status, of]: the HTTP answer, and the movement it reports

tables == <<synced, tiktok, adjusted, applied, keyRow>>
locks  == <<posLock, keyLock>>
vars   == <<clock, synced, tiktok, adjusted, posLock, applied, keyRow, keyLock,
            pc, asked, answer>>

Body   == [sku : Sku, qty : Quantity]
Sent   == [key : Key \cup {NoKey}, body : Body, at : Nat]
NoRow  == [by |-> NoRequest, at |-> 0]
Unanswered == [status |-> "none", of |-> NoRequest]

Open(r)    == pc[r] \in {"begun", "keyed", "locked", "recorded"}
KeyOf(r)   == asked[r].key
SkuOf(r)   == asked[r].body.sku
QtyOf(r)   == asked[r].body.qty
OnShelf(s) == tiktok[s] + adjusted[s]

\* Mutant: the boundary of the retention is moved by one tick.
ExpiredEarly(r) == keyRow[KeyOf(r)].at <= asked[r].at - Retain

\* The delete in replay(): created_at < now() - interval '24 hours', both of them
\* transaction start times.
Expired(r) == keyRow[KeyOf(r)].at < asked[r].at - Retain

\* The row replay()'s select finds, and whether its request_hash matches.
Found(r)      == KeyOf(r) # NoKey /\ keyRow[KeyOf(r)] # NoRow /\ ~Expired(r)
\* Mutant: the digest of the body is not compared.
AnyDigest(r) == TRUE

SameDigest(r) == asked[keyRow[KeyOf(r)].by].body = asked[r].body

Init ==
  /\ clock = 0
  /\ synced = {}
  /\ tiktok = [s \in Sku |-> 0]
  /\ adjusted = [s \in Sku |-> 0]
  /\ posLock = [s \in Sku |-> NoRequest]
  /\ applied = {}
  /\ keyRow = [k \in Key |-> NoRow]
  /\ keyLock = [k \in Key |-> NoRequest]
  /\ pc = [r \in Request |-> "idle"]
  /\ asked = [r \in Request |->
                [key |-> NoKey, body |-> CHOOSE b \in Body : TRUE, at |-> 0]]
  /\ answer = [r \in Request |-> Unanswered]

\* A client sends the request and its transaction begins.
Submit(r, k, s, q) ==
  /\ pc[r] = "idle"
  /\ pc' = [pc EXCEPT ![r] = "begun"]
  /\ asked' = [asked EXCEPT ![r] =
                 [key |-> k, body |-> [sku |-> s, qty |-> q], at |-> clock]]
  /\ UNCHANGED <<clock, tables, locks, answer>>

\* Mutant: a transaction that ends keeps its row lock.
EndLeaksLock(r, status, of) ==
  /\ pc' = [pc EXCEPT ![r] = "done"]
  /\ answer' = [answer EXCEPT ![r] = [status |-> status, of |-> of]]
  /\ keyLock' = [k \in Key |-> IF keyLock[k] = r THEN NoRequest ELSE keyLock[k]]
  /\ UNCHANGED <<clock, asked, posLock>>

\* A transaction ends, by commit or rollback: its locks go and the answer is set.
End(r, status, of) ==
  /\ pc' = [pc EXCEPT ![r] = "done"]
  /\ answer' = [answer EXCEPT ![r] = [status |-> status, of |-> of]]
  /\ posLock' = [s \in Sku |-> IF posLock[s] = r THEN NoRequest ELSE posLock[s]]
  /\ keyLock' = [k \in Key |-> IF keyLock[k] = r THEN NoRequest ELSE keyLock[k]]
  /\ UNCHANGED <<clock, asked>>

Rollback(r, status) == End(r, status, NoRequest) /\ UNCHANGED tables

\* "An adjustment of zero units changes nothing", before any transaction.
RefuseZero(r) ==
  /\ pc[r] = "begun" /\ QtyOf(r) = 0
  /\ Rollback(r, "refused")

\* replay(): a live row answers the request, or refuses a different body.
ReplayStored(r) ==
  /\ pc[r] = "begun" /\ QtyOf(r) # 0
  /\ Found(r)
  /\ \/ SameDigest(r) /\ End(r, "created", keyRow[KeyOf(r)].by) /\ UNCHANGED tables
     \/ ~SameDigest(r) /\ Rollback(r, "reused")

\* replay(): nothing to give back.  An expired row is deleted, which waits for any
\* other transaction that has touched the row and then holds it.
ReplayNothing(r) ==
  /\ pc[r] = "begun" /\ QtyOf(r) # 0
  /\ ~Found(r)
  /\ IF KeyOf(r) # NoKey /\ keyRow[KeyOf(r)] # NoRow
       THEN /\ keyLock[KeyOf(r)] = NoRequest
            /\ keyLock' = [keyLock EXCEPT ![KeyOf(r)] = r]
       ELSE UNCHANGED keyLock
  /\ pc' = [pc EXCEPT ![r] = "keyed"]
  /\ UNCHANGED <<clock, tables, posLock, asked, answer>>

\* Mutant: the select leaves "for update" out.
ReadPosition(r) ==
  /\ pc[r] = "keyed"
  /\ SkuOf(r) \in synced
  /\ OnShelf(SkuOf(r)) + QtyOf(r) >= 0
  /\ pc' = [pc EXCEPT ![r] = "locked"]
  /\ UNCHANGED <<clock, tables, locks, asked, answer>>

\* select ... for update of sp: waits for the row, and reads it as last committed.
LockPosition(r) ==
  /\ pc[r] = "keyed"
  /\ SkuOf(r) \in synced
  /\ posLock[SkuOf(r)] = NoRequest
  /\ OnShelf(SkuOf(r)) + QtyOf(r) >= 0
  /\ posLock' = [posLock EXCEPT ![SkuOf(r)] = r]
  /\ pc' = [pc EXCEPT ![r] = "locked"]
  /\ UNCHANGED <<clock, tables, keyLock, asked, answer>>

\* No position yet, or the shelf would go below zero: 422, and all is rolled back.
RefusePosition(r) ==
  /\ pc[r] = "keyed"
  /\ \/ SkuOf(r) \notin synced
     \/ posLock[SkuOf(r)] = NoRequest /\ OnShelf(SkuOf(r)) + QtyOf(r) < 0
  /\ Rollback(r, "refused")

\* Mutant: the key is upserted, so another request's row is no obstacle.
UpsertKey(r) ==
  /\ pc[r] = "locked"
  /\ pc' = [pc EXCEPT ![r] = "recorded"]
  /\ UNCHANGED <<clock, tables, locks, asked, answer>>

\* record(): the key's insert waits for another transaction's insert or delete of the
\* same key; with no live row in the way it succeeds, and holds the key until the end.
RecordKey(r) ==
  /\ pc[r] = "locked"
  /\ IF KeyOf(r) = NoKey
       THEN UNCHANGED keyLock
       ELSE /\ \/ keyLock[KeyOf(r)] = r
               \/ keyLock[KeyOf(r)] = NoRequest /\ keyRow[KeyOf(r)] = NoRow
            /\ keyLock' = [keyLock EXCEPT ![KeyOf(r)] = r]
  /\ pc' = [pc EXCEPT ![r] = "recorded"]
  /\ UNCHANGED <<clock, tables, posLock, asked, answer>>

\* record(): another request with the key committed since replay() looked.  The unique
\* violation is not a Problem, so the answer is a 500 and everything is rolled back.
KeyTaken(r) ==
  /\ pc[r] = "locked"
  /\ KeyOf(r) # NoKey
  /\ keyLock[KeyOf(r)] = NoRequest /\ keyRow[KeyOf(r)] # NoRow
  /\ Rollback(r, "duplicate")

\* Mutant: the key's row is dated one retention back.
CommitBackdated(r) ==
  /\ pc[r] = "recorded"
  /\ applied' = applied \cup {r}
  /\ adjusted' = [adjusted EXCEPT ![SkuOf(r)] = @ + QtyOf(r)]
  /\ keyRow' = IF KeyOf(r) = NoKey THEN keyRow
               ELSE [keyRow EXCEPT ![KeyOf(r)] = [by |-> r, at |-> asked[r].at - Retain]]
  /\ End(r, "created", r)
  /\ UNCHANGED <<synced, tiktok>>

\* The movement, the position and the key become visible together.
Commit(r) ==
  /\ pc[r] = "recorded"
  /\ applied' = applied \cup {r}
  /\ adjusted' = [adjusted EXCEPT ![SkuOf(r)] = @ + QtyOf(r)]
  /\ keyRow' = IF KeyOf(r) = NoKey THEN keyRow
               ELSE [keyRow EXCEPT ![KeyOf(r)] = [by |-> r, at |-> asked[r].at]]
  /\ End(r, "created", r)
  /\ UNCHANGED <<synced, tiktok>>

\* Mutant: the position is written in a transaction of its own, before the movement.
CrashBetweenWrites(r) ==
  /\ pc[r] = "recorded"
  /\ adjusted' = [adjusted EXCEPT ![SkuOf(r)] = @ + QtyOf(r)]
  /\ End(r, "error", NoRequest)
  /\ UNCHANGED <<synced, tiktok, applied, keyRow>>

\* The process or its database connection dies before the commit.
Crash(r) == Open(r) /\ Rollback(r, "error")

\* TikTok's own count arrives; its update waits for the row like any other.
Sync(s, n) ==
  /\ posLock[s] = NoRequest
  /\ synced' = synced \cup {s}
  /\ tiktok' = [tiktok EXCEPT ![s] = n]
  /\ UNCHANGED <<clock, adjusted, applied, keyRow, locks, pc, asked, answer>>

\* Time passes.  No transaction stays open longer than MaxAge.
Tick ==
  /\ clock < MaxTime
  /\ \A r \in Request : Open(r) => clock - asked[r].at < MaxAge
  /\ clock' = clock + 1
  /\ UNCHANGED <<tables, locks, pc, asked, answer>>

Serve(r) ==
  \/ RefuseZero(r) \/ ReplayStored(r) \/ ReplayNothing(r)
  \/ LockPosition(r) \/ RefusePosition(r)
  \/ RecordKey(r) \/ KeyTaken(r) \/ Commit(r)

Next ==
  \/ \E r \in Request :
       \/ \E k \in Key \cup {NoKey}, s \in Sku, q \in Quantity : Submit(r, k, s, q)
       \/ Serve(r) \/ Crash(r)
  \/ \E s \in Sku, n \in 0 .. MaxStock : Sync(s, n)
  \/ Tick

Spec == Init /\ [][Next]_vars

-------------------------------------------------------------------------------
TypeOK ==
  /\ clock \in Nat
  /\ synced \subseteq Sku
  /\ tiktok \in [Sku -> Nat]
  /\ adjusted \in [Sku -> Int]
  /\ posLock \in [Sku -> Request \cup {NoRequest}]
  /\ applied \subseteq Request
  /\ keyRow \in [Key -> [by : Request \cup {NoRequest}, at : Nat]]
  /\ keyLock \in [Key -> Request \cup {NoRequest}]
  /\ pc \in [Request -> {"idle", "begun", "keyed", "locked", "recorded", "done"}]
  /\ asked \in [Request -> Sent]
  /\ answer \in [Request -> [status : {"none", "created", "refused", "reused", "duplicate", "error"},
                             of : Request \cup {NoRequest}]]

\* Two movements never come from one key, unless the key's retention has passed
\* between them: schema/0023, "would otherwise move the count twice".
OncePerKey ==
  \A p, q \in applied :
    p # q /\ KeyOf(p) = KeyOf(q) /\ KeyOf(p) # NoKey
      => \/ asked[p].at < asked[q].at - Retain
         \/ asked[q].at < asked[p].at - Retain

\* adjusted_delta is exactly the sum of the SKU's committed manual adjustments, however
\* concurrent requests interleave: no update is lost and none is counted twice.
DeltaIsLedgerSum ==
  \A s \in Sku :
    adjusted[s] = MapThenSumSet(QtyOf, {r \in applied : SkuOf(r) = s})

\* An adjustment never leaves stock on hand below zero, even when a sync lowered
\* TikTok's count or another adjustment committed while it waited for the row.
NeverBelowZero ==
  [][\A s \in Sku : adjusted'[s] # adjusted[s] => tiktok'[s] + adjusted'[s] >= 0]_vars

\* A 201 reports a committed movement that this very body asked for: its own, or the
\* one its key already made.
CreatedIsTrue ==
  \A r \in Request :
    answer[r].status = "created" =>
      LET p == answer[r].of IN
        /\ p \in applied
        /\ p = r \/ (KeyOf(p) = KeyOf(r) /\ asked[p].body = asked[r].body)

\* r waits for a lock p holds: to delete an expired key, for the position, to record a key.
WaitsFor(r, p) ==
  /\ p # r
  /\ \/ pc[r] = "begun" /\ QtyOf(r) # 0 /\ ~Found(r) /\ KeyOf(r) # NoKey
        /\ keyRow[KeyOf(r)] # NoRow /\ keyLock[KeyOf(r)] = p
     \/ pc[r] = "keyed" /\ SkuOf(r) \in synced /\ posLock[SkuOf(r)] = p
     \/ pc[r] = "locked" /\ KeyOf(r) # NoKey /\ keyLock[KeyOf(r)] = p

\* While requests are open, one of them waits for nobody.  A key's lock is taken before the
\* position's when an expired row is deleted and after it otherwise, yet no two requests
\* wait for each other: the retention is longer than any of them can stay open.
SomeoneProceeds ==
  (\E r \in Request : Open(r)) =>
    \E r \in Request : Open(r) /\ \A p \in Request : ~WaitsFor(r, p)

-------------------------------------------------------------------------------
\* idempotency.py, "A repeat with the same key returns the first result rather than
\* acting twice": a repeat of a request that was carried out is never answered with the
\* unique index's own error.
RepeatReturnsFirst ==
  \A r \in Request, p \in applied :
    /\ p # r /\ KeyOf(p) = KeyOf(r) /\ KeyOf(p) # NoKey
    /\ asked[p].body = asked[r].body
    => answer[r].status # "duplicate"

-------------------------------------------------------------------------------
\* The inductive invariant behind the safety properties, in the parts the proofs
\* (StockAdjustmentProofs) use one at a time.

\* A movement belongs to a finished request, and only a finished one has an answer.
DoneInv ==
  /\ \A p \in applied : pc[p] = "done"
  /\ \A r \in Request : pc[r] # "done" => answer[r] = Unanswered

\* Whoever holds a key is a request of that key that saw no live row, and a request
\* past record() holds its key.
KeyLockInv ==
  /\ \A k \in Key, r \in Request : keyLock[k] = r =>
       /\ KeyOf(r) = k
       /\ pc[r] \in {"keyed", "locked", "recorded"}
       /\ keyRow[k] = NoRow \/ Expired(r)
  /\ \A r \in Request :
       pc[r] = "recorded" /\ KeyOf(r) # NoKey => keyLock[KeyOf(r)] = r

\* A key's row names a movement made under the key, the latest of them.
KeyRowInv ==
  /\ \A p \in applied : KeyOf(p) # NoKey =>
       keyRow[KeyOf(p)] # NoRow /\ asked[p].at <= keyRow[KeyOf(p)].at
  /\ \A k \in Key : keyRow[k] # NoRow =>
       /\ keyRow[k].by \in applied
       /\ KeyOf(keyRow[k].by) = k
       /\ keyRow[k].at = asked[keyRow[k].by].at

\* A position is held by the one request adjusting it, whose check still holds.
PosLockInv ==
  /\ \A s \in Sku, r \in Request : posLock[s] = r =>
       SkuOf(r) = s /\ pc[r] \in {"locked", "recorded"}
  /\ \A r \in Request : pc[r] \in {"locked", "recorded"} =>
       /\ posLock[SkuOf(r)] = r
       /\ OnShelf(SkuOf(r)) + QtyOf(r) >= 0

\* No transaction is older than MaxAge; and a key's row that one of them did not see when
\* it looked was made by a transaction that was open with it.
AgeInv ==
  /\ \A r \in Request : Open(r) => asked[r].at <= clock /\ clock <= asked[r].at + MaxAge
  /\ \A r \in Request :
       /\ pc[r] \in {"keyed", "locked"} /\ KeyOf(r) # NoKey
       /\ keyLock[KeyOf(r)] # r /\ keyRow[KeyOf(r)] # NoRow
       => asked[r].at <= keyRow[KeyOf(r)].at + MaxAge
  /\ \A k \in Key, r \in Request :
       keyLock[k] = r /\ pc[r] = "keyed" => keyRow[k] # NoRow

IInv ==
  TypeOK /\ DoneInv /\ KeyLockInv /\ KeyRowInv /\ PosLockInv /\ OncePerKey /\ CreatedIsTrue

-------------------------------------------------------------------------------
\* The refinement: a transaction is open from its beginning to its end.
Once == INSTANCE AtMostOnce WITH
  stage <- [r \in Request |-> IF pc[r] = "idle" THEN "idle"
                              ELSE IF pc[r] = "done" THEN "done" ELSE "open"]

\* createStockAdjustment keeps the Idempotency-Key promise.
KeepsOncePromise == Once!Spec
===============================================================================
