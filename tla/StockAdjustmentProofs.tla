------------------------- MODULE StockAdjustmentProofs -------------------------
(***************************************************************************)
(* Proofs about StockAdjustment for any number of requests, keys and SKUs. *)
(*                                                                         *)
(* The argument.  A key's row lock (KeyLockInv) is held by the one request *)
(* that may write the key's row, so between a request's last look at the   *)
(* row and its commit nobody else changes it.  The row itself remembers    *)
(* the latest request that used the key (KeyRowInv).  A request therefore  *)
(* commits under a key only if every earlier one is expired, which is      *)
(* OncePerKey, and the same facts make each Commit a Perform step of       *)
(* AtMostOnce.                                                             *)
(***************************************************************************)
EXTENDS AdjustForm, Sums

\* The empty tables, free locks and idle requests the service starts from are well typed.
LEMMA TypeInit == Init => TypeOK
<1> USE RequestAssumption, BodyAssumption DEF RequestAssumption, BodyAssumption
<1> SUFFICES ASSUME Init PROVE TypeOK
  OBVIOUS
<1>1. \E b \in Body : TRUE
  <2>1. PICK s \in Sku, q \in Quantity : TRUE
    OBVIOUS
  <2>2. [sku |-> s, qty |-> q] \in Body
    BY DEF Body
  <2> QED
    BY <2>2
<1>2. (CHOOSE b \in Body : TRUE) \in Body
  BY <1>1
<1> QED
  BY <1>2 DEF Init, TypeOK, Sent, NoRow, Unanswered

\* Every statement of a transaction, every sync and every tick keeps the types.
LEMMA TypeStep == TypeOK /\ [Next]_vars => TypeOK'
<1> USE RequestAssumption, BodyAssumption DEF RequestAssumption, BodyAssumption
<1> SUFFICES ASSUME TypeOK, [Next]_vars PROVE TypeOK'
  OBVIOUS
<1> USE DEF TypeOK
<1>1. ASSUME NEW r \in Request, NEW k \in Key \cup {NoKey}, NEW s \in Sku,
             NEW q \in Quantity, Submit(r, k, s, q)
      PROVE  TypeOK'
  BY <1>1 DEF Submit, Sent, Body, tables, locks
<1>2. ASSUME NEW r \in Request, NEW st \in {"refused", "reused", "duplicate", "error"},
             Rollback(r, st)
      PROVE  TypeOK'
  BY <1>2 DEF Rollback, End, tables
<1>3. ASSUME NEW r \in Request, ReplayStored(r), End(r, "created", keyRow[KeyOf(r)].by),
             UNCHANGED tables
      PROVE  TypeOK'
  BY <1>3 DEF ReplayStored, End, tables, Found, KeyOf, Sent
<1>4. ASSUME NEW r \in Request, ReplayNothing(r)
      PROVE  TypeOK'
  BY <1>4 DEF ReplayNothing, KeyOf, tables
<1>5. ASSUME NEW r \in Request, LockPosition(r)
      PROVE  TypeOK'
  BY <1>5 DEF LockPosition, SkuOf, tables
<1>6. ASSUME NEW r \in Request, RecordKey(r)
      PROVE  TypeOK'
  BY <1>6 DEF RecordKey, KeyOf, tables
<1>7. ASSUME NEW r \in Request, Commit(r)
      PROVE  TypeOK'
  <2>1. SkuOf(r) \in Sku /\ QtyOf(r) \in Int /\ KeyOf(r) \in Key \cup {NoKey} /\ asked[r].at \in Nat
    BY DEF SkuOf, QtyOf, KeyOf, Sent, Body
  <2>2. adjusted' \in [Sku -> Int]
    BY <1>7, <2>1 DEF Commit
  <2>3. keyRow' \in [Key -> [by : Request \cup {NoRequest}, at : Nat]]
    BY <1>7, <2>1 DEF Commit
  <2>4. UNCHANGED <<clock, synced, tiktok, asked>> /\ applied' \subseteq Request
    BY <1>7 DEF Commit, End
  <2> QED
    BY <1>7, <2>2, <2>3, <2>4 DEF Commit, End
<1>8. ASSUME NEW s \in Sku, NEW n \in 0 .. MaxStock, Sync(s, n)
      PROVE  TypeOK'
  BY <1>8 DEF Sync, locks
<1>9. CASE Tick
  BY <1>9 DEF Tick, tables, locks
<1>10. CASE UNCHANGED vars
  BY <1>10 DEF vars
<1> QED
  BY <1>1, <1>2, <1>3, <1>4, <1>5, <1>6, <1>7, <1>8, <1>9, <1>10
     DEF Next, Serve, RefuseZero, ReplayStored, RefusePosition, KeyTaken, Crash

\* Types are preserved by every step of the service, the clients and the clock.
THEOREM TypeCorrect == Spec => []TypeOK
BY TypeInit, TypeStep, PTL DEF Spec

-------------------------------------------------------------------------------
\* Before any request is sent every part of the inductive invariant holds.
LEMMA InvInit == Init => IInv
<1> SUFFICES ASSUME Init PROVE IInv
  OBVIOUS
<1>1. TypeOK
  BY TypeInit
<1> QED
  BY <1>1, RequestAssumption
     DEF Init, IInv, DoneInv, KeyLockInv, KeyRowInv, PosLockInv, OncePerKey, CreatedIsTrue,
         NoRow, Unanswered, RequestAssumption

\* A request is sent: it was idle, so nothing refers to what it asks.
LEMMA SubmitInv ==
  ASSUME IInv, TypeOK', NEW r \in Request, NEW k \in Key \cup {NoKey}, NEW s \in Sku,
         NEW q \in Quantity, Submit(r, k, s, q)
  PROVE  IInv'
<1> USE RequestAssumption DEF RequestAssumption
<1>1. r \notin applied /\ answer[r] = Unanswered /\ applied \subseteq Request
  BY DEF IInv, TypeOK, DoneInv, Submit
<1>2. \A p \in Request \ {r} : asked'[p] = asked[p] /\ pc'[p] = pc[p]
  BY DEF IInv, TypeOK, Submit
<1>3. pc'[r] = "begun" /\ pc[r] = "idle"
  BY DEF IInv, TypeOK, Submit
<1>4. UNCHANGED <<clock, synced, tiktok, adjusted, posLock, applied, keyRow, keyLock, answer>>
  BY DEF Submit, tables, locks
<1>5. DoneInv'
  BY <1>1, <1>2, <1>3, <1>4 DEF IInv, DoneInv
<1>6. KeyLockInv'
  BY <1>2, <1>3, <1>4 DEF IInv, KeyLockInv, KeyOf, Expired
<1>7. KeyRowInv'
  <2>1. \A p \in applied : p \in Request /\ asked'[p] = asked[p]
    BY <1>1, <1>2 DEF IInv, TypeOK
  <2> QED
    BY <1>4, <2>1 DEF IInv, KeyRowInv, KeyOf
<1>8. PosLockInv'
  <2>1. \A t \in Sku : posLock[t] # r
    BY <1>3 DEF IInv, PosLockInv, DoneInv
  <2> QED
    BY <1>2, <1>3, <1>4, <2>1 DEF IInv, PosLockInv, SkuOf, QtyOf, OnShelf
<1>9. OncePerKey' /\ CreatedIsTrue'
  <2>1. \A p \in applied : p \in Request /\ asked'[p] = asked[p]
    BY <1>1, <1>2 DEF IInv, TypeOK
  <2> QED
    BY <1>1, <1>2, <1>4, <2>1 DEF IInv, OncePerKey, CreatedIsTrue, KeyOf, Unanswered
<1> QED
  BY <1>5, <1>6, <1>7, <1>8, <1>9 DEF IInv

\* A transaction ends without writing: its locks go, and the answer is one that
\* CreatedIsTrue allows.
LEMMA EndInv ==
  ASSUME IInv, TypeOK', NEW r \in Request, NEW status, NEW of,
         Open(r), End(r, status, of), UNCHANGED tables,
         status = "created" =>
           of \in applied /\ KeyOf(of) = KeyOf(r) /\ asked[of].body = asked[r].body
  PROVE  IInv'
<1> USE RequestAssumption DEF RequestAssumption
<1>1. /\ UNCHANGED <<clock, synced, tiktok, adjusted, applied, keyRow, asked>>
      /\ \A p \in Request \ {r} : pc'[p] = pc[p] /\ answer'[p] = answer[p]
      /\ pc'[r] = "done" /\ answer'[r] = [status |-> status, of |-> of]
  BY DEF IInv, TypeOK, End, tables
<1>2. /\ \A s \in Sku : posLock'[s] = IF posLock[s] = r THEN NoRequest ELSE posLock[s]
      /\ \A k \in Key : keyLock'[k] = IF keyLock[k] = r THEN NoRequest ELSE keyLock[k]
  BY DEF End
<1>3. DoneInv'
  BY <1>1 DEF IInv, TypeOK, DoneInv
<1>4. KeyLockInv'
  <2>1. ASSUME NEW p \in Request, pc'[p] = "recorded", KeyOf(p) # NoKey
        PROVE  keyLock'[KeyOf(p)] = p
    <3>1. p # r /\ KeyOf(p) \in Key /\ keyLock[KeyOf(p)] = p
      BY <2>1, <1>1 DEF IInv, TypeOK, KeyLockInv, KeyOf, Sent
    <3> QED
      BY <3>1, <1>2
  <2> QED
    BY <1>1, <1>2, <2>1 DEF IInv, KeyLockInv, KeyOf, Expired
<1>5. KeyRowInv'
  BY <1>1 DEF IInv, KeyRowInv, KeyOf
<1>6. PosLockInv'
  <2>1. ASSUME NEW p \in Request, pc'[p] \in {"locked", "recorded"}
        PROVE  posLock'[SkuOf(p)] = p
    <3>1. p # r /\ SkuOf(p) \in Sku /\ posLock[SkuOf(p)] = p
      BY <2>1, <1>1 DEF IInv, TypeOK, PosLockInv, SkuOf, Sent, Body
    <3> QED
      BY <3>1, <1>2
  <2> QED
    BY <1>1, <1>2, <2>1 DEF IInv, PosLockInv, SkuOf, QtyOf, OnShelf
<1>7. OncePerKey' /\ CreatedIsTrue'
  BY <1>1 DEF IInv, OncePerKey, CreatedIsTrue, KeyOf
<1> QED
  BY <1>3, <1>4, <1>5, <1>6, <1>7 DEF IInv

\* replay() found no live row.  If it deleted an expired one it holds the key.
LEMMA ReplayNothingInv ==
  ASSUME IInv, TypeOK', NEW r \in Request, ReplayNothing(r)
  PROVE  IInv'
<1> USE RequestAssumption, KeyAssumption DEF RequestAssumption, KeyAssumption
<1>1. /\ UNCHANGED <<clock, synced, tiktok, adjusted, applied, keyRow, asked, posLock, answer>>
      /\ \A p \in Request \ {r} : pc'[p] = pc[p]
      /\ pc[r] = "begun" /\ pc'[r] = "keyed"
  BY DEF IInv, TypeOK, ReplayNothing, tables
<1>2. DoneInv'
  BY <1>1 DEF IInv, TypeOK, DoneInv
<1>3. KeyLockInv'
  <2>1. \/ UNCHANGED keyLock
        \/ /\ KeyOf(r) \in Key /\ keyLock[KeyOf(r)] = NoRequest /\ Expired(r)
           /\ keyLock' = [keyLock EXCEPT ![KeyOf(r)] = r]
    BY DEF IInv, TypeOK, ReplayNothing, Found, KeyOf, Sent
  <2>2. CASE UNCHANGED keyLock
    BY <1>1, <2>2 DEF IInv, KeyLockInv, KeyOf, Expired
  <2>3. CASE /\ KeyOf(r) \in Key /\ keyLock[KeyOf(r)] = NoRequest /\ Expired(r)
             /\ keyLock' = [keyLock EXCEPT ![KeyOf(r)] = r]
    BY <1>1, <2>3 DEF IInv, TypeOK, KeyLockInv, KeyOf, Expired
  <2> QED
    BY <2>1, <2>2, <2>3
<1>4. KeyRowInv' /\ OncePerKey' /\ CreatedIsTrue'
  BY <1>1 DEF IInv, KeyRowInv, OncePerKey, CreatedIsTrue, KeyOf
<1>5. PosLockInv'
  BY <1>1 DEF IInv, PosLockInv, SkuOf, QtyOf, OnShelf
<1> QED
  BY <1>2, <1>3, <1>4, <1>5 DEF IInv

\* The row lock is granted, and the check is made on the row it protects.
LEMMA LockPositionInv ==
  ASSUME IInv, TypeOK', NEW r \in Request, LockPosition(r)
  PROVE  IInv'
<1> USE RequestAssumption DEF RequestAssumption
<1>1. /\ UNCHANGED <<clock, synced, tiktok, adjusted, applied, keyRow, asked, keyLock, answer>>
      /\ \A p \in Request \ {r} : pc'[p] = pc[p]
      /\ pc[r] = "keyed" /\ pc'[r] = "locked"
  BY DEF IInv, TypeOK, LockPosition, tables
<1>2. DoneInv'
  BY <1>1 DEF IInv, TypeOK, DoneInv
<1>3. KeyLockInv'
  BY <1>1 DEF IInv, KeyLockInv, KeyOf, Expired
<1>4. KeyRowInv' /\ OncePerKey' /\ CreatedIsTrue'
  BY <1>1 DEF IInv, KeyRowInv, OncePerKey, CreatedIsTrue, KeyOf
<1>5. PosLockInv'
  <2>1. SkuOf(r) \in Sku /\ posLock[SkuOf(r)] = NoRequest
        /\ posLock' = [posLock EXCEPT ![SkuOf(r)] = r]
        /\ OnShelf(SkuOf(r)) + QtyOf(r) >= 0
    BY DEF IInv, TypeOK, LockPosition, SkuOf, Sent, Body
  <2> QED
    BY <1>1, <2>1 DEF IInv, TypeOK, PosLockInv, SkuOf, QtyOf, OnShelf
<1> QED
  BY <1>2, <1>3, <1>4, <1>5 DEF IInv

\* record()'s insert went in: from here to the end the request holds its key.
LEMMA RecordKeyInv ==
  ASSUME IInv, TypeOK', NEW r \in Request, RecordKey(r)
  PROVE  IInv'
<1> USE RequestAssumption DEF RequestAssumption
<1>1. /\ UNCHANGED <<clock, synced, tiktok, adjusted, applied, keyRow, asked, posLock, answer>>
      /\ \A p \in Request \ {r} : pc'[p] = pc[p]
      /\ pc[r] = "locked" /\ pc'[r] = "recorded"
  BY DEF IInv, TypeOK, RecordKey, tables
<1>2. DoneInv'
  BY <1>1 DEF IInv, TypeOK, DoneInv
<1>3. KeyLockInv'
  <2>1. CASE KeyOf(r) = NoKey
    BY <1>1, <2>1 DEF IInv, RecordKey, KeyLockInv, KeyOf, Expired
  <2>2. CASE KeyOf(r) # NoKey
    <3>1. /\ KeyOf(r) \in Key
          /\ keyLock[KeyOf(r)] = r \/ (keyLock[KeyOf(r)] = NoRequest /\ keyRow[KeyOf(r)] = NoRow)
          /\ keyLock' = [keyLock EXCEPT ![KeyOf(r)] = r]
      BY <2>2 DEF IInv, TypeOK, RecordKey, KeyOf, Sent
    <3> QED
      BY <1>1, <3>1 DEF IInv, TypeOK, KeyLockInv, KeyOf, Expired
  <2> QED
    BY <2>1, <2>2
<1>4. KeyRowInv' /\ OncePerKey' /\ CreatedIsTrue'
  BY <1>1 DEF IInv, KeyRowInv, OncePerKey, CreatedIsTrue, KeyOf
<1>5. PosLockInv'
  BY <1>1 DEF IInv, PosLockInv, SkuOf, QtyOf, OnShelf
<1> QED
  BY <1>2, <1>3, <1>4, <1>5 DEF IInv

\* What a request about to commit knows of its key: it has no earlier movement that is
\* still remembered.
LEMMA CommitClear ==
  ASSUME IInv, NEW r \in Request, pc[r] = "recorded", KeyOf(r) # NoKey,
         NEW p \in applied, KeyOf(p) = KeyOf(r)
  PROVE  asked[p].at < asked[r].at - Retain
<1>1. KeyOf(r) \in Key /\ p \in Request
  BY DEF IInv, TypeOK, KeyOf, Sent
<1>2. keyRow[KeyOf(r)] # NoRow /\ asked[p].at <= keyRow[KeyOf(r)].at
  BY DEF IInv, KeyRowInv
<1>3. keyRow[KeyOf(r)].at < asked[r].at - Retain
  BY <1>1, <1>2 DEF IInv, KeyLockInv, Expired
<1>4. asked[p].at \in Nat /\ asked[r].at \in Nat /\ keyRow[KeyOf(r)].at \in Nat /\ Retain \in Nat
  BY <1>1, TimeAssumption DEF IInv, TypeOK, Sent, TimeAssumption
<1> QED
  BY <1>2, <1>3, <1>4

\* The movement, the position and the key appear together, and the locks go.
LEMMA CommitInv ==
  ASSUME IInv, TypeOK', NEW r \in Request, Commit(r)
  PROVE  IInv'
<1> USE RequestAssumption DEF RequestAssumption
<1>1. /\ UNCHANGED <<clock, synced, tiktok, asked>>
      /\ \A p \in Request \ {r} : pc'[p] = pc[p] /\ answer'[p] = answer[p]
      /\ pc[r] = "recorded" /\ pc'[r] = "done" /\ answer'[r] = [status |-> "created", of |-> r]
      /\ applied' = applied \cup {r}
  BY DEF IInv, TypeOK, Commit, End
<1>2. /\ \A s \in Sku : posLock'[s] = IF posLock[s] = r THEN NoRequest ELSE posLock[s]
      /\ \A k \in Key : keyLock'[k] = IF keyLock[k] = r THEN NoRequest ELSE keyLock[k]
  BY DEF Commit, End
<1>3. /\ KeyOf(r) \in Key \cup {NoKey} /\ SkuOf(r) \in Sku /\ QtyOf(r) \in Int
      /\ asked[r].at \in Nat /\ Retain \in Nat
  BY BodyAssumption, TimeAssumption
     DEF IInv, TypeOK, KeyOf, SkuOf, QtyOf, Sent, Body, BodyAssumption, TimeAssumption
<1>4. DoneInv'
  BY <1>1 DEF IInv, TypeOK, DoneInv
<1>5. \A k \in Key : keyRow'[k] = IF k = KeyOf(r) THEN [by |-> r, at |-> asked[r].at] ELSE keyRow[k]
  BY <1>3, KeyAssumption DEF IInv, TypeOK, Commit, KeyAssumption
<1>6. KeyLockInv'
  <2>1. ASSUME NEW k \in Key, NEW p \in Request, keyLock'[k] = p
        PROVE  KeyOf(p) = k /\ pc'[p] \in {"keyed", "locked", "recorded"}
               /\ (keyRow'[k] = NoRow \/ Expired(p)')
    <3>1. keyLock[k] = p /\ p # r
      BY <2>1, <1>2
    <3>2. k # KeyOf(r)
      BY <3>1, <1>1, KeyAssumption DEF IInv, KeyLockInv, KeyAssumption
    <3> QED
      BY <3>1, <3>2, <1>1, <1>5 DEF IInv, KeyLockInv, KeyOf, Expired
  <2>2. ASSUME NEW p \in Request, pc'[p] = "recorded", KeyOf(p) # NoKey
        PROVE  keyLock'[KeyOf(p)] = p
    <3>1. p # r /\ KeyOf(p) \in Key /\ keyLock[KeyOf(p)] = p
      BY <2>2, <1>1 DEF IInv, TypeOK, KeyLockInv, KeyOf, Sent
    <3> QED
      BY <3>1, <1>2
  <2> QED
    BY <1>1, <2>1, <2>2 DEF KeyLockInv, KeyOf
<1>7. KeyRowInv'
  <2>1. ASSUME NEW p \in applied', KeyOf(p) # NoKey
        PROVE  keyRow'[KeyOf(p)] # NoRow /\ asked[p].at <= keyRow'[KeyOf(p)].at
    <3>1. KeyOf(p) \in Key /\ p \in Request /\ asked[p].at \in Nat
      BY <2>1, <1>1 DEF IInv, TypeOK, KeyOf, Sent
    <3>2. CASE p = r
      BY <3>1, <3>2, <1>5, <1>3 DEF NoRow
    <3>3. CASE p # r /\ KeyOf(p) = KeyOf(r)
      <4>1. asked[p].at < asked[r].at - Retain
        BY <3>3, <1>1, <2>1, CommitClear
      <4> QED
        BY <3>1, <3>3, <4>1, <1>5, <1>3 DEF NoRow
    <3>4. CASE p # r /\ KeyOf(p) # KeyOf(r)
      BY <2>1, <3>1, <3>4, <1>1, <1>5 DEF IInv, KeyRowInv
    <3> QED
      BY <3>2, <3>3, <3>4
  <2>2. ASSUME NEW k \in Key, keyRow'[k] # NoRow
        PROVE  /\ keyRow'[k].by \in applied'
               /\ KeyOf(keyRow'[k].by) = k
               /\ keyRow'[k].at = asked[keyRow'[k].by].at
    BY <2>2, <1>1, <1>5 DEF IInv, KeyRowInv, KeyOf
  <2> QED
    BY <2>1, <2>2, <1>1 DEF KeyRowInv, KeyOf
<1>8. PosLockInv'
  <2>1. ASSUME NEW p \in Request, pc'[p] \in {"locked", "recorded"}
        PROVE  posLock'[SkuOf(p)] = p /\ tiktok[SkuOf(p)] + adjusted'[SkuOf(p)] + QtyOf(p) >= 0
    <3>1. p # r /\ SkuOf(p) \in Sku /\ posLock[SkuOf(p)] = p
          /\ tiktok[SkuOf(p)] + adjusted[SkuOf(p)] + QtyOf(p) >= 0
      BY <2>1, <1>1 DEF IInv, TypeOK, PosLockInv, SkuOf, Sent, Body, OnShelf
    <3>2. posLock[SkuOf(r)] = r
      BY <1>1 DEF IInv, PosLockInv
    <3>3. SkuOf(p) # SkuOf(r)
      BY <3>1, <3>2
    <3>4. adjusted'[SkuOf(p)] = adjusted[SkuOf(p)]
      BY <3>1, <3>3 DEF IInv, TypeOK, Commit
    <3> QED
      BY <3>1, <3>4, <1>2
  <2>2. ASSUME NEW s \in Sku, NEW p \in Request, posLock'[s] = p
        PROVE  SkuOf(p) = s /\ pc'[p] \in {"locked", "recorded"}
    <3>1. posLock[s] = p /\ p # r
      BY <2>2, <1>2
    <3> QED
      BY <3>1, <1>1 DEF IInv, PosLockInv
  <2> QED
    BY <2>1, <2>2, <1>1 DEF PosLockInv, SkuOf, QtyOf, OnShelf
<1>9. OncePerKey'
  <2>1. ASSUME NEW p \in applied, KeyOf(p) = KeyOf(r), KeyOf(p) # NoKey
        PROVE  asked[p].at < asked[r].at - Retain
    BY <2>1, <1>1, CommitClear
  <2> QED
    BY <2>1, <1>1 DEF IInv, OncePerKey, KeyOf
<1>10. CreatedIsTrue'
  BY <1>1 DEF IInv, CreatedIsTrue, KeyOf
<1> QED
  BY <1>4, <1>6, <1>7, <1>8, <1>9, <1>10 DEF IInv

\* TikTok's count changes only on a row no adjustment holds.
LEMMA SyncInv ==
  ASSUME IInv, TypeOK', NEW s \in Sku, NEW n \in 0 .. MaxStock, Sync(s, n)
  PROVE  IInv'
<1> USE RequestAssumption DEF RequestAssumption
<1>1. UNCHANGED <<clock, adjusted, applied, keyRow, posLock, keyLock, pc, asked, answer>>
  BY DEF Sync, locks
<1>2. PosLockInv'
  <2>1. ASSUME NEW p \in Request, pc[p] \in {"locked", "recorded"}
        PROVE  tiktok'[SkuOf(p)] = tiktok[SkuOf(p)]
    <3>1. posLock[SkuOf(p)] = p /\ SkuOf(p) \in Sku
      BY <2>1 DEF IInv, TypeOK, PosLockInv, SkuOf, Sent, Body
    <3> QED
      BY <3>1 DEF IInv, TypeOK, Sync
  <2> QED
    BY <1>1, <2>1 DEF IInv, PosLockInv, SkuOf, QtyOf, OnShelf
<1> QED
  BY <1>1, <1>2 DEF IInv, DoneInv, KeyLockInv, KeyRowInv, OncePerKey, CreatedIsTrue, KeyOf, Expired

\* No step of a transaction, a sync or the clock breaks the inductive invariant.
LEMMA InvStep == IInv /\ [Next]_vars => IInv'
<1> SUFFICES ASSUME IInv, [Next]_vars PROVE IInv'
  OBVIOUS
<1>1. TypeOK'
  BY TypeStep DEF IInv
<1>2. ASSUME NEW r \in Request, NEW k \in Key \cup {NoKey}, NEW s \in Sku,
             NEW q \in Quantity, Submit(r, k, s, q)
      PROVE  IInv'
  BY <1>1, <1>2, SubmitInv
<1>3. ASSUME NEW r \in Request, NEW st \in {"refused", "reused", "duplicate", "error"}, Open(r), Rollback(r, st)
      PROVE  IInv'
  BY <1>1, <1>3, EndInv DEF Rollback
<1>4. ASSUME NEW r \in Request, ReplayStored(r)
      PROVE  IInv'
  <2>1. CASE ~SameDigest(r)
    BY <1>3, <1>4, <2>1 DEF ReplayStored, Open
  <2>2. CASE SameDigest(r)
    <3>1. KeyOf(r) \in Key /\ keyRow[KeyOf(r)] # NoRow
      BY <1>4 DEF IInv, TypeOK, ReplayStored, Found, KeyOf, Sent
    <3>2. keyRow[KeyOf(r)].by \in applied /\ KeyOf(keyRow[KeyOf(r)].by) = KeyOf(r)
      BY <3>1 DEF IInv, KeyRowInv
    <3> QED
      BY <1>1, <1>4, <2>2, <3>2, EndInv DEF ReplayStored, SameDigest, Open
  <2> QED
    BY <2>1, <2>2
<1>5. ASSUME NEW r \in Request, ReplayNothing(r) \/ LockPosition(r) \/ RecordKey(r) \/ Commit(r)
      PROVE  IInv'
  BY <1>1, <1>5, ReplayNothingInv, LockPositionInv, RecordKeyInv, CommitInv
<1>6. ASSUME NEW s \in Sku, NEW n \in 0 .. MaxStock, Sync(s, n)
      PROVE  IInv'
  BY <1>1, <1>6, SyncInv
<1>7. CASE Tick \/ UNCHANGED vars
  BY <1>1, <1>7 DEF Tick, vars, tables, locks, IInv, DoneInv, KeyLockInv, KeyRowInv, PosLockInv,
     OncePerKey, CreatedIsTrue, KeyOf, SkuOf, QtyOf, OnShelf, Expired
<1> QED
  BY <1>2, <1>3, <1>4, <1>5, <1>6, <1>7
     DEF Next, Serve, RefuseZero, RefusePosition, KeyTaken, Crash, Open

\* In every reachable state: a key's row names the latest movement made under it, a held
\* key or position belongs to one request at its right stage, and no key moved the count
\* twice within its retention.
THEOREM InductiveInvariant == Spec => []IInv
BY InvInit, InvStep, PTL DEF Spec

-------------------------------------------------------------------------------
\* For any number of concurrent requests, retries and crashes, a key moves the count at
\* most once within its retention.
THEOREM OncePerKeyHolds == Spec => []OncePerKey
BY InductiveInvariant, PTL DEF IInv

\* A 201 always reports a committed movement that this body asked for.
THEOREM CreatedIsTrueHolds == Spec => []CreatedIsTrue
BY InductiveInvariant, PTL DEF IInv

\* Only Commit changes adjusted_delta, and the check made under the row lock still holds.
THEOREM NeverBelowZeroHolds == Spec => NeverBelowZero
<1>1. IInv /\ [Next]_vars =>
        [\A s \in Sku : adjusted'[s] # adjusted[s] => tiktok'[s] + adjusted'[s] >= 0]_vars
  <2> SUFFICES ASSUME IInv, Next, NEW s \in Sku, adjusted'[s] # adjusted[s]
               PROVE  tiktok'[s] + adjusted'[s] >= 0
    OBVIOUS
  <2>1. PICK r \in Request : Commit(r)
    BY DEF Next, Serve, Submit, RefuseZero, ReplayStored, ReplayNothing, LockPosition,
       RefusePosition, RecordKey, KeyTaken, Crash, Sync, Tick, Rollback, tables
  <2>2. SkuOf(r) \in Sku /\ QtyOf(r) \in Int /\ s = SkuOf(r)
    BY <2>1, BodyAssumption
       DEF Commit, IInv, TypeOK, SkuOf, QtyOf, Sent, Body, BodyAssumption
  <2>3. adjusted'[s] = adjusted[s] + QtyOf(r) /\ tiktok'[s] = tiktok[s]
    BY <2>1, <2>2 DEF Commit, IInv, TypeOK
  <2>4. tiktok[s] + adjusted[s] + QtyOf(r) >= 0
    BY <2>1, <2>2 DEF Commit, IInv, PosLockInv, OnShelf
  <2>5. tiktok[s] \in Int /\ adjusted[s] \in Int
    BY DEF IInv, TypeOK
  <2> QED
    BY <2>2, <2>3, <2>4, <2>5
<1> QED
  BY <1>1, InductiveInvariant, PTL DEF Spec, NeverBelowZero

-------------------------------------------------------------------------------
\* Nobody is open at the start, and there is no key.
LEMMA AgeInit == Init => AgeInv
BY RequestAssumption DEF Init, AgeInv, Open, RequestAssumption

\* A step that sends no request, leaves the clock and the keys' rows alone and lets go of a
\* key only with the request that held it keeps the ages.
LEMMA AgeKeeps ==
  ASSUME IInv, AgeInv, UNCHANGED <<clock, asked, keyRow>>,
         NEW r \in Request, Open(r),
         \A p \in Request \ {r} : pc'[p] = pc[p],
         \A k \in Key : keyLock'[k] # keyLock[k] =>
           \/ keyLock[k] = NoRequest /\ keyLock'[k] = r
           \/ keyLock[k] = r /\ keyLock'[k] = NoRequest,
         \A k \in Key : keyLock'[k] = r /\ pc'[r] = "keyed" => keyRow[k] # NoRow,
         pc'[r] \in {"keyed", "locked"} /\ KeyOf(r) # NoKey
           /\ keyLock'[KeyOf(r)] # r /\ keyRow[KeyOf(r)] # NoRow
           => asked[r].at <= keyRow[KeyOf(r)].at + MaxAge
  PROVE  AgeInv'
<1>1. ASSUME NEW p \in Request, Open(p)'
      PROVE  asked[p].at <= clock /\ clock <= asked[p].at + MaxAge
  BY <1>1 DEF AgeInv, Open
<1>2. ASSUME NEW p \in Request, pc'[p] \in {"keyed", "locked"}, KeyOf(p) # NoKey,
             keyLock'[KeyOf(p)] # p, keyRow[KeyOf(p)] # NoRow
      PROVE  asked[p].at <= keyRow[KeyOf(p)].at + MaxAge
  <2>1. KeyOf(p) \in Key
    BY <1>2 DEF IInv, TypeOK, KeyOf, Sent
  <2>2. CASE p # r
    BY <1>2, <2>1, <2>2, RequestAssumption DEF AgeInv, RequestAssumption
  <2>3. CASE p = r
    BY <1>2, <2>3
  <2> QED
    BY <2>2, <2>3
<1>3. ASSUME NEW k \in Key, NEW p \in Request, keyLock'[k] = p, pc'[p] = "keyed"
      PROVE  keyRow[k] # NoRow
  <2>1. CASE p # r
    BY <1>3, <2>1, RequestAssumption DEF AgeInv, RequestAssumption
  <2>2. CASE p = r
    BY <1>3, <2>2
  <2> QED
    BY <2>1, <2>2
<1> QED
  BY <1>1, <1>2, <1>3 DEF AgeInv, KeyOf

\* A new row is dated by a transaction that was still open, so it is at most MaxAge older
\* than the requests that looked before it was there.
LEMMA CommitAge ==
  ASSUME IInv, AgeInv, NEW r \in Request, Commit(r)
  PROVE  AgeInv'
<1>1. /\ UNCHANGED <<clock, asked>>
      /\ \A p \in Request \ {r} : pc'[p] = pc[p]
      /\ pc[r] = "recorded" /\ pc'[r] = "done"
  BY DEF IInv, TypeOK, Commit, End
<1>2. \A k \in Key : /\ keyLock'[k] = IF keyLock[k] = r THEN NoRequest ELSE keyLock[k]
                     /\ keyRow'[k] = IF k = KeyOf(r) THEN [by |-> r, at |-> asked[r].at]
                                     ELSE keyRow[k]
  BY KeyAssumption DEF IInv, TypeOK, Commit, End, KeyAssumption
<1>3. clock <= asked[r].at + MaxAge
  BY <1>1 DEF AgeInv, Open
<1>4. ASSUME NEW p \in Request, Open(p)'
      PROVE  asked[p].at <= clock /\ clock <= asked[p].at + MaxAge
  BY <1>1, <1>4 DEF AgeInv, Open
<1>5. ASSUME NEW p \in Request, pc'[p] \in {"keyed", "locked"}, KeyOf(p) # NoKey,
             keyLock'[KeyOf(p)] # p, keyRow'[KeyOf(p)] # NoRow
      PROVE  asked[p].at <= keyRow'[KeyOf(p)].at + MaxAge
  <2>1. KeyOf(p) \in Key /\ p # r
    BY <1>1, <1>5 DEF IInv, TypeOK, KeyOf, Sent
  <2>2. CASE KeyOf(p) = KeyOf(r)
    <3>1. asked[p].at <= clock
      BY <1>1, <1>5, <2>1 DEF AgeInv, Open
    <3>2. asked[p].at \in Nat /\ asked[r].at \in Nat /\ clock \in Nat /\ MaxAge \in Nat
      BY TimeAssumption DEF IInv, TypeOK, Sent, TimeAssumption
    <3>3. keyRow'[KeyOf(p)].at = asked[r].at
      BY <1>2, <2>1, <2>2
    <3> QED
      BY <1>3, <3>1, <3>2, <3>3
  <2>3. CASE KeyOf(p) # KeyOf(r)
    <3>1. keyRow'[KeyOf(p)] = keyRow[KeyOf(p)]
      BY <1>2, <2>1, <2>3
    <3>2. keyLock[KeyOf(p)] # p
      BY <1>2, <1>5, <2>1
    <3> QED
      BY <1>1, <1>5, <2>1, <3>1, <3>2 DEF AgeInv
  <2> QED
    BY <2>2, <2>3
<1>6. ASSUME NEW k \in Key, NEW p \in Request, keyLock'[k] = p, pc'[p] = "keyed"
      PROVE  keyRow'[k] # NoRow
  <2>1. keyLock[k] = p /\ p # r
    BY <1>1, <1>2, <1>6, RequestAssumption DEF RequestAssumption
  <2>2. keyRow[k] # NoRow
    BY <1>1, <1>6, <2>1 DEF AgeInv
  <2> QED
    BY <1>2, <2>2, RequestAssumption DEF NoRow, RequestAssumption
<1> QED
  BY <1>1, <1>4, <1>5, <1>6 DEF AgeInv, KeyOf

\* A request that has just looked holds its key unless the key had no row.
LEMMA LookAge ==
  ASSUME IInv, AgeInv, NEW r \in Request, ReplayNothing(r)
  PROVE  AgeInv'
<1>1. /\ UNCHANGED <<clock, asked, keyRow>>
      /\ \A p \in Request \ {r} : pc'[p] = pc[p]
      /\ Open(r)
  BY DEF IInv, TypeOK, ReplayNothing, tables, Open
<1>2. \A k \in Key : keyLock'[k] # keyLock[k] => keyLock[k] = NoRequest /\ keyLock'[k] = r
  BY DEF IInv, TypeOK, ReplayNothing
<1>3. KeyOf(r) # NoKey /\ keyRow[KeyOf(r)] # NoRow => keyLock'[KeyOf(r)] = r
  BY DEF IInv, TypeOK, ReplayNothing, KeyOf, Sent
<1>4. \A k \in Key : keyLock'[k] = r => keyRow[k] # NoRow
  <2>1. \A k \in Key : keyLock[k] # r
    BY DEF IInv, KeyLockInv, ReplayNothing
  <2> QED
    BY <2>1 DEF IInv, TypeOK, ReplayNothing
<1> QED
  BY <1>1, <1>2, <1>3, <1>4, AgeKeeps

\* No step lets a transaction grow too old, or a row appear unseen that is older than that.
LEMMA AgeStep == IInv /\ AgeInv /\ [Next]_vars => AgeInv'
<1> SUFFICES ASSUME IInv, AgeInv, [Next]_vars PROVE AgeInv'
  OBVIOUS
<1>1. ASSUME NEW r \in Request, NEW k \in Key \cup {NoKey}, NEW s \in Sku,
             NEW q \in Quantity, Submit(r, k, s, q)
      PROVE  AgeInv'
  <2>1. /\ UNCHANGED <<clock, keyRow, keyLock>>
        /\ \A p \in Request \ {r} : pc'[p] = pc[p] /\ asked'[p] = asked[p]
        /\ pc'[r] = "begun" /\ asked'[r].at = clock
    BY <1>1 DEF Submit, IInv, TypeOK, tables, locks
  <2>2. clock \in Nat /\ MaxAge \in Nat
    BY TimeAssumption DEF IInv, TypeOK, TimeAssumption
  <2>3. clock <= clock + MaxAge
    BY <2>2
  <2> QED
    BY <2>1, <2>2, <2>3 DEF AgeInv, Open, KeyOf
<1>2. ASSUME NEW r \in Request, NEW st, NEW of, Open(r), End(r, st, of), UNCHANGED tables
      PROVE  AgeInv'
  <2>1. /\ UNCHANGED <<clock, asked, keyRow>> /\ pc'[r] = "done"
        /\ \A p \in Request \ {r} : pc'[p] = pc[p]
        /\ \A k \in Key : keyLock'[k] # keyLock[k] => keyLock[k] = r /\ keyLock'[k] = NoRequest
    BY <1>2 DEF End, IInv, TypeOK, tables
  <2> QED
    BY <1>2, <2>1, AgeKeeps
<1>3. ASSUME NEW r \in Request, LockPosition(r)
      PROVE  AgeInv'
  <2>1. /\ UNCHANGED <<clock, asked, keyRow, keyLock>> /\ pc[r] = "keyed" /\ Open(r)
        /\ \A p \in Request \ {r} : pc'[p] = pc[p]
    BY <1>3 DEF LockPosition, IInv, TypeOK, tables, Open
  <2>2. KeyOf(r) # NoKey /\ keyLock'[KeyOf(r)] # r /\ keyRow[KeyOf(r)] # NoRow
          => asked[r].at <= keyRow[KeyOf(r)].at + MaxAge
    BY <2>1 DEF AgeInv
  <2>3. pc'[r] = "locked"
    BY <1>3 DEF LockPosition, IInv, TypeOK
  <2> QED
    BY <2>1, <2>2, <2>3, AgeKeeps
<1>4. ASSUME NEW r \in Request, RecordKey(r)
      PROVE  AgeInv'
  <2>1. /\ UNCHANGED <<clock, asked, keyRow>> /\ pc'[r] = "recorded" /\ Open(r)
        /\ \A p \in Request \ {r} : pc'[p] = pc[p]
        /\ \A k \in Key : keyLock'[k] # keyLock[k] => keyLock[k] = NoRequest /\ keyLock'[k] = r
    BY <1>4 DEF RecordKey, IInv, TypeOK, tables, Open
  <2> QED
    BY <2>1, AgeKeeps
<1>5. ASSUME NEW s \in Sku, NEW n \in 0 .. MaxStock, Sync(s, n)
      PROVE  AgeInv'
  BY <1>5 DEF Sync, locks, AgeInv, Open, KeyOf
<1>6. CASE Tick
  <2>1. ASSUME NEW r \in Request, Open(r)
        PROVE  asked[r].at <= clock' /\ clock' <= asked[r].at + MaxAge
    <3>1. asked[r].at \in Nat /\ clock \in Nat /\ MaxAge \in Nat
      BY TimeAssumption DEF IInv, TypeOK, Sent, TimeAssumption
    <3>2. clock - asked[r].at < MaxAge /\ clock' = clock + 1 /\ asked[r].at <= clock
      BY <1>6, <2>1 DEF Tick, AgeInv
    <3> QED
      BY <3>1, <3>2
  <2> QED
    BY <1>6, <2>1 DEF Tick, tables, locks, AgeInv, Open, KeyOf
<1>7. CASE UNCHANGED vars
  BY <1>7 DEF vars, AgeInv, Open, KeyOf
<1>8. ASSUME NEW r \in Request, ReplayStored(r)
      PROVE  AgeInv'
  BY <1>2, <1>8 DEF ReplayStored, Rollback, Open
<1> QED
  BY <1>1, <1>2, <1>3, <1>4, <1>5, <1>6, <1>7, <1>8, LookAge, CommitAge
     DEF Next, Serve, RefuseZero, RefusePosition, KeyTaken, Crash, Rollback, Open

\* Whoever waits to record a key does not wait for one that deleted the key's expired row
\* and still has to lock its position: the row would be both newer than the one's look and
\* a retention older than the other's.
LEMMA HolderIsPast ==
  ASSUME IInv, AgeInv, NEW r \in Request, NEW p \in Request, p # r,
         pc[r] = "locked", KeyOf(r) # NoKey, keyLock[KeyOf(r)] = p
  PROVE  KeyOf(p) = KeyOf(r) /\ pc[p] \in {"locked", "recorded"}
<1>1. KeyOf(r) \in Key
  BY DEF IInv, TypeOK, KeyOf, Sent
<1>2. /\ KeyOf(p) = KeyOf(r) /\ pc[p] \in {"keyed", "locked", "recorded"}
      /\ keyRow[KeyOf(r)] = NoRow \/ Expired(p)
  BY <1>1 DEF IInv, KeyLockInv
<1>3. ASSUME pc[p] = "keyed" PROVE FALSE
  <2>1. keyRow[KeyOf(r)] # NoRow
    BY <1>1, <1>2, <1>3 DEF AgeInv
  <2>2. asked[r].at <= keyRow[KeyOf(r)].at + MaxAge
    BY <2>1 DEF AgeInv
  <2>3. keyRow[KeyOf(r)].at < asked[p].at - Retain
    BY <1>2, <2>1 DEF Expired
  <2>4. asked[p].at <= clock /\ clock <= asked[r].at + MaxAge
    BY <1>3 DEF AgeInv, Open
  <2>5. /\ asked[p].at \in Nat /\ asked[r].at \in Nat /\ clock \in Nat
        /\ keyRow[KeyOf(r)].at \in Nat
        /\ MaxAge \in Nat /\ Retain \in Nat /\ 2 * MaxAge <= Retain
    BY <1>1, TimeAssumption DEF IInv, TypeOK, Sent, TimeAssumption
  <2> QED
    BY <2>2, <2>3, <2>4, <2>5
<1> QED
  BY <1>2, <1>3

\* A locked request proceeds, or the one that records its key does.
LEMMA LockedProceeds ==
  ASSUME IInv, AgeInv, NEW r \in Request, pc[r] \in {"locked", "recorded"}
  PROVE  \E q \in Request : Open(q) /\ \A p \in Request : ~WaitsFor(q, p)
<1>1. CASE \A p \in Request : ~WaitsFor(r, p)
  BY <1>1 DEF Open
<1>2. ASSUME NEW p \in Request, WaitsFor(r, p)
      PROVE  \E q \in Request : Open(q) /\ \A t \in Request : ~WaitsFor(q, t)
  <2>1. p # r /\ pc[r] = "locked" /\ KeyOf(r) # NoKey /\ keyLock[KeyOf(r)] = p
    BY <1>2 DEF WaitsFor
  <2>2. KeyOf(p) = KeyOf(r) /\ pc[p] \in {"locked", "recorded"}
    BY <2>1, HolderIsPast
  <2>3. \A t \in Request : ~WaitsFor(p, t)
    BY <2>1, <2>2 DEF WaitsFor
  <2> QED
    BY <2>2, <2>3 DEF Open
<1> QED
  BY <1>1, <1>2

\* A request that looks waits for one that is past its look, that for one past its
\* position, and that, at the worst, for one that can commit.
LEMMA Proceeds == IInv /\ AgeInv => SomeoneProceeds
<1> SUFFICES ASSUME IInv, AgeInv, NEW r \in Request, Open(r)
             PROVE  \E q \in Request : Open(q) /\ \A p \in Request : ~WaitsFor(q, p)
  BY DEF SomeoneProceeds
<1>1. ASSUME NEW q \in Request, pc[q] = "keyed"
      PROVE  \E t \in Request : Open(t) /\ \A p \in Request : ~WaitsFor(t, p)
  <2>1. CASE \A p \in Request : ~WaitsFor(q, p)
    BY <1>1, <2>1 DEF Open
  <2>2. ASSUME NEW p \in Request, WaitsFor(q, p)
        PROVE  pc[p] \in {"locked", "recorded"}
    <3>1. posLock[SkuOf(q)] = p /\ SkuOf(q) \in Sku
      BY <1>1, <2>2 DEF WaitsFor, IInv, TypeOK, SkuOf, Sent, Body
    <3> QED
      BY <3>1 DEF IInv, PosLockInv
  <2> QED
    BY <2>1, <2>2, LockedProceeds
<1>2. CASE pc[r] = "begun"
  <2>1. CASE \A p \in Request : ~WaitsFor(r, p)
    BY <2>1
  <2>2. ASSUME NEW p \in Request, WaitsFor(r, p)
        PROVE  pc[p] \in {"keyed", "locked", "recorded"}
    <3>1. keyLock[KeyOf(r)] = p /\ KeyOf(r) \in Key
      BY <1>2, <2>2 DEF WaitsFor, IInv, TypeOK, KeyOf, Sent
    <3> QED
      BY <3>1 DEF IInv, KeyLockInv
  <2> QED
    BY <1>1, <2>1, <2>2, LockedProceeds
<1> QED
  BY <1>1, <1>2, LockedProceeds DEF Open

\* Whatever keys and positions the open requests hold, they never all wait for one another:
\* the lock orders of replay() and record() differ, but no two requests take both.
THEOREM SomeoneProceedsHolds == Spec => []SomeoneProceeds
<1>1. Spec => [](IInv /\ AgeInv)
  BY InvInit, InvStep, AgeInit, AgeStep, PTL DEF Spec
<1> QED
  BY <1>1, Proceeds, PTL

-------------------------------------------------------------------------------
\* Before any request is sent nothing has been asked of the promise either.
LEMMA InitImplements == Init => Once!Init
<1> SUFFICES ASSUME Init PROVE Once!Init
  OBVIOUS
<1>1. TypeOK
  BY TypeInit
<1> QED
  BY <1>1 DEF Init, TypeOK, Once!Init, Once!Sent, Sent, Unanswered

\* What a step that leaves every request's stage alone is to the promise.
LEMMA InnerStep ==
  ASSUME IInv, NEW r \in Request, Open(r),
         pc' = [pc EXCEPT ![r] = "keyed"] \/ pc' = [pc EXCEPT ![r] = "locked"]
           \/ pc' = [pc EXCEPT ![r] = "recorded"],
         UNCHANGED <<asked, answer, applied>>
  PROVE  UNCHANGED Once!absVars
BY DEF Once!absVars, IInv, TypeOK, Open

\* Ending a transaction closes the request.
LEMMA EndCloses ==
  ASSUME IInv, NEW r \in Request, NEW status, NEW of, Open(r), End(r, status, of)
  PROVE  Once!Close(r, status, of)
BY DEF Once!Close, End, Open, IInv, TypeOK

\* Every step of createStockAdjustment is a step of the at-most-once promise or leaves it
\* alone: Commit performs, ReplayStored repeats, every other ending declines.
LEMMA StepImplements == IInv /\ IInv' /\ [Next]_vars => [Once!Next]_(Once!absVars)
<1> SUFFICES ASSUME IInv, IInv', [Next]_vars PROVE [Once!Next]_(Once!absVars)
  OBVIOUS
<1>1. ASSUME NEW r \in Request, NEW k \in Key \cup {NoKey}, NEW s \in Sku,
             NEW q \in Quantity, Submit(r, k, s, q)
      PROVE  Once!Ask(r)
  BY <1>1 DEF Submit, tables, locks, Once!Ask, Once!Sent, Sent, IInv, TypeOK
<1>2. ASSUME NEW r \in Request, NEW st \in {"refused", "reused", "duplicate", "error"},
             Open(r), Rollback(r, st)
      PROVE  Once!Decline(r)
  BY <1>2, EndCloses DEF Rollback, tables, Once!Decline, Once!NoEffect
<1>3. ASSUME NEW r \in Request, ReplayStored(r), SameDigest(r)
      PROVE  Once!Repeat(r)
  <2>1. KeyOf(r) \in Key /\ keyRow[KeyOf(r)] # NoRow /\ Open(r)
    BY <1>3 DEF IInv, TypeOK, ReplayStored, Found, KeyOf, Sent, Open
  <2>2. PICK p \in applied : p = keyRow[KeyOf(r)].by /\ KeyOf(p) = KeyOf(r)
    BY <2>1 DEF IInv, KeyRowInv
  <2>3. End(r, "created", p) /\ UNCHANGED applied
    BY <1>3, <2>2 DEF ReplayStored, tables
  <2>4. Once!Close(r, "created", p)
    BY <2>1, <2>3, EndCloses
  <2>5. Once!Keyed(r) /\ Once!Same(p, r)
    BY <1>3, <2>1, <2>2, KeyAssumption
       DEF Once!Keyed, Once!Same, SameDigest, KeyOf, KeyAssumption
  <2> QED
    BY <2>3, <2>4, <2>5 DEF Once!Repeat
<1>4. ASSUME NEW r \in Request, Commit(r)
      PROVE  Once!Perform(r)
  <2>1. Once!Close(r, "created", r) /\ applied' = applied \cup {r}
    BY <1>4, EndCloses DEF Commit, Open
  <2>2. Once!Keyed(r) => \A p \in applied :
          asked[p].key = asked[r].key => asked[p].at < asked[r].at - Retain
    BY <1>4, CommitClear DEF Commit, Once!Keyed, KeyOf
  <2> QED
    BY <2>1, <2>2 DEF Once!Perform
<1>5. ASSUME NEW r \in Request, ReplayNothing(r) \/ LockPosition(r) \/ RecordKey(r)
      PROVE  UNCHANGED Once!absVars
  BY <1>5, InnerStep DEF ReplayNothing, LockPosition, RecordKey, Open, tables
<1>6. ASSUME NEW s \in Sku, NEW n \in 0 .. MaxStock, Sync(s, n)
      PROVE  UNCHANGED Once!absVars
  BY <1>6 DEF Sync, Once!absVars
<1>7. CASE Tick \/ UNCHANGED vars
  BY <1>7 DEF Tick, vars, tables, Once!absVars
<1> QED
  BY <1>1, <1>2, <1>3, <1>4, <1>5, <1>6, <1>7
     DEF Next, Serve, RefuseZero, ReplayStored, RefusePosition, KeyTaken, Crash, Open, Once!Next

\* createStockAdjustment, with its tables, locks, retries and crashes, implements the
\* at-most-once promise: each step is an abstract step or leaves the promise alone.
THEOREM ImplementsAtMostOnce == Spec => KeepsOncePromise
BY InductiveInvariant, InitImplements, StepImplements, PTL DEF Spec, KeepsOncePromise, Once!Spec

-------------------------------------------------------------------------------
(* The position against the movements. *)

\* The quantities of the movements, as a function.
Amounts == [r \in Request |-> QtyOf(r)]

\* The fold that DeltaIsLedgerSum sums movements with is the sum of their quantities.
LEMMA FoldIsSum ==
  ASSUME NEW S \in SUBSET Request, IsFiniteSet(S)
  PROVE  MapThenSumSet(QtyOf, S) = SumOf(Amounts, S)
<1> DEFINE P(h) == h = [s \in SUBSET S |->
                    IF s = {} THEN 0
                    ELSE QtyOf(CHOOSE x \in s : TRUE) + h[s \ {CHOOSE x \in s : TRUE}]]
<1>1. ASSUME NEW h PROVE P(h) <=> Adds(Amounts, S, h)
  <2>1. \A s \in SUBSET S : s # {} => Amounts[OneOf(s)] = QtyOf(OneOf(s))
    BY OneIn DEF Amounts
  <2> QED
    BY <2>1 DEF Adds, OneOf
<1> HIDE DEF P
<1>2. \E h : P(h)
  BY <1>1, AddsExists
<1>3. P(CHOOSE h : P(h))
  BY <1>2
<1>4. Adds(Amounts, S, CHOOSE h : P(h))
  BY <1>1, <1>3
<1>5. Adds(Amounts, S, TheSums(Amounts, S))
  BY AddsExists DEF TheSums
<1>6. (CHOOSE h : P(h)) = TheSums(Amounts, S)
  BY <1>4, <1>5, AddsOnce
<1>7. MapThenSumSet(QtyOf, S) = (CHOOSE h : P(h))[S]
  BY DEF P, MapThenSumSet, MapThenFoldSet
<1> QED
  BY <1>6, <1>7 DEF SumOf

-------------------------------------------------------------------------------
\* The movements of a variant.
Moved(s) == {r \in applied : SkuOf(r) = s}

\* adjusted_delta against the movements, their sum taken one movement after the other.
SumInv ==
  /\ IsFiniteSet(applied)
  /\ \A s \in Sku : adjusted[s] = SumOf(Amounts, Moved(s))

\* Nothing has moved at first, and every position is at zero.
LEMMA SumInit == Init => SumInv
<1> SUFFICES ASSUME Init PROVE SumInv
  OBVIOUS
<1>1. IsFiniteSet({}) /\ SumOf(Amounts, {}) = 0
  BY FS_EmptySet, SumStep
<1>2. applied = {} /\ \A s \in Sku : adjusted[s] = 0 /\ Moved(s) = {}
  BY DEF Init, Moved
<1> QED
  BY <1>1, <1>2 DEF SumInv

\* The new movement is added to its variant's sum and to its position, and to no other.
LEMMA CommitSum ==
  ASSUME IInv, SumInv, NEW r \in Request, Commit(r)
  PROVE  SumInv'
<1>1. /\ asked' = asked /\ applied' = applied \cup {r} /\ r \notin applied
      /\ adjusted' = [adjusted EXCEPT ![SkuOf(r)] = @ + QtyOf(r)]
  BY DEF IInv, DoneInv, Commit, End
<1>2. IsFiniteSet(applied')
  BY <1>1, FS_AddElement DEF SumInv
<1>3. Amounts' = Amounts /\ \A p \in Request : SkuOf(p)' = SkuOf(p)
  BY <1>1 DEF Amounts, QtyOf, SkuOf
<1>4. applied \subseteq Request /\ adjusted \in [Sku -> Int] /\ SkuOf(r) \in Sku
      /\ \A p \in Request : Amounts[p] = QtyOf(p) /\ Amounts[p] \in Int
  BY BodyAssumption DEF IInv, TypeOK, Amounts, QtyOf, SkuOf, Sent, Body, BodyAssumption
<1>5. ASSUME NEW s \in Sku PROVE adjusted'[s] = SumOf(Amounts, Moved(s)')
  <2>1. CASE s # SkuOf(r)
    <3>1. Moved(s)' = Moved(s) /\ adjusted'[s] = adjusted[s]
      BY <1>1, <1>4, <2>1 DEF Moved, SkuOf
    <3> QED
      BY <3>1 DEF SumInv
  <2>2. CASE s = SkuOf(r)
    <3>1. Moved(s)' = Moved(s) \cup {r} /\ adjusted'[s] = adjusted[s] + QtyOf(r)
      BY <1>1, <1>4, <2>2 DEF Moved, SkuOf
    <3>2. IsFiniteSet(Moved(s)') /\ Moved(s)' \subseteq Request
      BY <1>1, <1>2, <1>4, <3>1, FS_Subset DEF Moved
    <3>3. r \in Moved(s)' /\ Moved(s)' \ {r} = Moved(s)
      BY <1>1, <3>1 DEF Moved
    <3>4. \A p \in Moved(s)' : Amounts[p] \in Int
      BY <1>4, <3>2
    <3>5. SumOf(Amounts, Moved(s)') = Amounts[r] + SumOf(Amounts, Moved(s)' \ {r})
      BY <3>2, <3>3, <3>4, SumAny
    <3>6. adjusted[s] = SumOf(Amounts, Moved(s)) /\ adjusted[s] \in Int
      BY <1>4 DEF SumInv
    <3>7. SumOf(Amounts, Moved(s)') = Amounts[r] + adjusted[s]
      BY <3>3, <3>5, <3>6
    <3>8. Amounts[r] \in Int /\ adjusted'[s] = adjusted[s] + Amounts[r]
      BY <1>4, <3>1
    <3> QED
      BY <3>6, <3>7, <3>8
  <2> QED
    BY <2>1, <2>2
<1> QED
  BY <1>2, <1>3, <1>5 DEF SumInv

\* What is asked is changed only for a request that has no movement yet.
LEMMA SumStands ==
  ASSUME IInv, SumInv, UNCHANGED <<adjusted, applied>>, \A p \in applied : asked'[p] = asked[p]
  PROVE  SumInv'
<1>1. applied \subseteq Request /\ IsFiniteSet(applied)
  BY DEF IInv, TypeOK, SumInv
<1>2. ASSUME NEW s \in Sku PROVE adjusted'[s] = SumOf(Amounts', Moved(s)')
  <2>1. Moved(s)' = Moved(s) /\ \A p \in Moved(s) : Amounts[p] = Amounts'[p]
    BY <1>1 DEF Moved, SkuOf, QtyOf, Amounts
  <2>2. IsFiniteSet(Moved(s))
    BY <1>1, FS_Subset DEF Moved
  <2>3. SumOf(Amounts, Moved(s)) = SumOf(Amounts', Moved(s))
    BY <2>1, <2>2, SumSame
  <2> QED
    BY <2>1, <2>3 DEF SumInv
<1> QED
  BY <1>1, <1>2 DEF SumInv

\* Every step of the service keeps each position at the sum of its movements.
LEMMA SumStepInv == IInv /\ SumInv /\ [Next]_vars => SumInv'
<1> SUFFICES ASSUME IInv, SumInv, [Next]_vars PROVE SumInv'
  OBVIOUS
<1>1. ASSUME NEW r \in Request, Commit(r) PROVE SumInv'
  BY <1>1, CommitSum
<1>2. ASSUME NEW r \in Request, NEW k \in Key \cup {NoKey}, NEW s \in Sku, NEW q \in Quantity,
             Submit(r, k, s, q)
      PROVE  SumInv'
  <2>1. UNCHANGED <<adjusted, applied>> /\ r \notin applied
    BY <1>2 DEF IInv, DoneInv, Submit, tables
  <2>2. \A p \in applied : asked'[p] = asked[p]
    BY <1>2, <2>1 DEF IInv, TypeOK, Submit
  <2> QED
    BY <2>1, <2>2, SumStands
<1>3. CASE UNCHANGED <<adjusted, applied, asked>>
  BY <1>3, SumStands
<1> QED
  BY <1>1, <1>2, <1>3
     DEF Next, Serve, RefuseZero, ReplayStored, ReplayNothing, LockPosition, RefusePosition,
         RecordKey, KeyTaken, Crash, Sync, Tick, Rollback, End, tables, vars

\* For any number of variants, requests and concurrent transactions, a position's
\* adjusted_delta is the sum of its variant's movements: none is lost or counted twice.
THEOREM DeltaIsLedgerSumHolds == Spec => []DeltaIsLedgerSum
<1>1. Spec => [](IInv /\ SumInv)
  BY InvInit, InvStep, SumInit, SumStepInv, PTL DEF Spec
<1>2. IInv /\ SumInv => DeltaIsLedgerSum
  <2> SUFFICES ASSUME IInv, SumInv, NEW s \in Sku
               PROVE  adjusted[s] = MapThenSumSet(QtyOf, {r \in applied : SkuOf(r) = s})
    BY DEF DeltaIsLedgerSum
  <2>1. Moved(s) \in SUBSET Request /\ IsFiniteSet(Moved(s))
    BY FS_Subset DEF Moved, IInv, TypeOK, SumInv
  <2>2. MapThenSumSet(QtyOf, Moved(s)) = SumOf(Amounts, Moved(s))
    BY <2>1, FoldIsSum
  <2> QED
    BY <2>2 DEF SumInv, Moved
<1> QED
  BY <1>1, <1>2, PTL

-------------------------------------------------------------------------------
(* The form of AdjustForm over the service. *)

\* Before the form is opened nothing was asked and nothing moved.
LEMMA FormInitInv == FormInit => FormInv
<1> SUFFICES ASSUME FormInit PROVE FormInv
  OBVIOUS
<1>1. IInv
  BY InvInit DEF FormInit
<1>2. FormTypeOK /\ FreshKeyInv
  BY DEF FormInit, Init, FormTypeOK, FreshKeyInv
<1>3. MovedInv /\ HeardInv
  BY DEF FormInit, Init, MovedInv, HeardInv
<1> QED
  BY <1>1, <1>2, <1>3 DEF FormInv

\* What the service may do to the requests of a form: it works on those that are open, and
\* the one that moves the count is answered with 201.
LEMMA ServiceStep ==
  ASSUME IInv, Service
  PROVE  /\ asked' = asked
         /\ \A r \in Request : pc'[r] = "idle" <=> pc[r] = "idle"
         /\ \A r \in Request : pc[r] = "done" => pc'[r] = "done" /\ answer'[r] = answer[r]
         /\ \/ applied' = applied
            \/ \E r \in Request : /\ pc[r] = "recorded" /\ applied' = applied \cup {r}
                                  /\ answer'[r].status = "created"
<1>1. ASSUME NEW r \in Request, NEW status, NEW of, Open(r), End(r, status, of)
      PROVE  /\ asked' = asked
             /\ \A p \in Request : pc'[p] = "idle" <=> pc[p] = "idle"
             /\ \A p \in Request : pc[p] = "done" => pc'[p] = "done" /\ answer'[p] = answer[p]
             /\ answer'[r].status = status
  BY <1>1 DEF End, Open, IInv, TypeOK
<1>2. ASSUME NEW r \in Request, Commit(r)
      PROVE  Open(r) /\ End(r, "created", r) /\ pc[r] = "recorded" /\ applied' = applied \cup {r}
  BY <1>2 DEF Commit, Open
<1>3. ASSUME NEW r \in Request, ReplayStored(r)
      PROVE  \E status, of : Open(r) /\ End(r, status, of) /\ applied' = applied
  BY <1>3 DEF ReplayStored, Open, Rollback, tables
<1>4. ASSUME NEW r \in Request, RefuseZero(r) \/ RefusePosition(r) \/ KeyTaken(r) \/ Crash(r)
      PROVE  \E status, of : Open(r) /\ End(r, status, of) /\ applied' = applied
  BY <1>4 DEF RefuseZero, RefusePosition, KeyTaken, Crash, Open, Rollback, tables
<1>5. ASSUME NEW r \in Request, ReplayNothing(r) \/ LockPosition(r) \/ RecordKey(r)
      PROVE  /\ UNCHANGED <<asked, answer, applied>>
             /\ \A p \in Request : pc'[p] = "idle" <=> pc[p] = "idle"
             /\ \A p \in Request : pc[p] = "done" => pc'[p] = "done"
  BY <1>5 DEF ReplayNothing, LockPosition, RecordKey, tables, IInv, TypeOK
<1>6. ASSUME NEW s \in Sku, NEW n \in 0 .. MaxStock, Sync(s, n)
      PROVE  UNCHANGED <<asked, answer, applied, pc>>
  BY <1>6 DEF Sync
<1>7. CASE Tick
  BY <1>7 DEF Tick, tables
<1>8. ASSUME NEW r \in Request, Serve(r) \/ Crash(r)
      PROVE  /\ asked' = asked
             /\ \A p \in Request : pc'[p] = "idle" <=> pc[p] = "idle"
             /\ \A p \in Request : pc[p] = "done" => pc'[p] = "done" /\ answer'[p] = answer[p]
             /\ \/ applied' = applied
                \/ /\ pc[r] = "recorded" /\ applied' = applied \cup {r}
                   /\ answer'[r].status = "created"
  BY <1>1, <1>2, <1>3, <1>4, <1>5, <1>8 DEF Serve
<1> QED
  BY <1>6, <1>7, <1>8 DEF Service

\* A form whose keys are fresh is never answered with somebody else's movement.
LEMMA OwnMovement ==
  ASSUME IInv, FreshKeyInv, NEW r \in Request, answer[r].status = "created"
  PROVE  r \in applied
<1>1. PICK p \in applied : p = r \/ KeyOf(p) = KeyOf(r)
  BY DEF IInv, CreatedIsTrue
<1>2. p \in Request /\ pc[p] = "done" /\ pc[r] = "done"
  BY DEF IInv, TypeOK, DoneInv, Unanswered
<1> QED
  BY <1>1, <1>2 DEF FreshKeyInv

\* Save: the form sends a request of a new key, and nothing has moved yet.
LEMMA SaveInv == ASSUME FormInv, NEW r \in Request, NEW k \in Key, Save(r, k) PROVE FormInv'
<1>1. /\ ~saved /\ awaiting = NoRequest /\ awaiting' = r /\ UNCHANGED <<told, saved>>
      /\ \A p \in Request : KeyOf(p) # k
      /\ Submit(r, k, FormSku, FormQuantity)
  BY DEF Save
<1>2. /\ pc[r] = "idle" /\ pc' = [pc EXCEPT ![r] = "begun"]
      /\ asked' = [asked EXCEPT ![r] = [key |-> k, body |-> [sku |-> FormSku, qty |-> FormQuantity],
                                        at |-> clock]]
      /\ UNCHANGED <<applied, answer>>
  BY <1>1 DEF Submit, tables
<1>3. IInv'
  <2>1. Next
    BY <1>1, WishAssumption DEF Next, WishAssumption
  <2> QED
    BY <2>1, InvStep DEF FormInv
<1>4. /\ pc'[r] = "begun" /\ KeyOf(r)' = k
      /\ \A p \in Request : p # r => pc'[p] = pc[p] /\ KeyOf(p)' = KeyOf(p)
  BY <1>2 DEF FormInv, IInv, TypeOK, KeyOf
<1>5. FormTypeOK'
  BY <1>1 DEF FormInv, FormTypeOK
<1>6. FreshKeyInv'
  <2>1. k # NoKey
    BY KeyAssumption DEF KeyAssumption
  <2>2. \A p \in Request : pc'[p] = "idle" \/ awaiting' = p => told'[p] = "nothing"
    BY <1>1, <1>2, <1>4 DEF FormInv, FreshKeyInv
  <2>3. \A p \in Request : pc'[p] # "idle" =>
          KeyOf(p)' # NoKey /\ \A q \in Request : q # p /\ pc'[q] # "idle" => KeyOf(q)' # KeyOf(p)'
    BY <1>1, <1>4, <2>1 DEF FormInv, FreshKeyInv
  <2> QED
    BY <1>1, <1>4, <2>2, <2>3 DEF FreshKeyInv, KeyOf
<1>7. MovedInv'
  BY <1>2 DEF FormInv, MovedInv
<1>8. HeardInv'
  <2> SUFFICES ASSUME \A p \in Request : told[p] # "unreachable"
               PROVE  /\ \A p \in Request : pc'[p] = "idle" \/ pc'[p] = "done" \/ p = r
                      /\ applied = {}
    BY <1>1, <1>2 DEF HeardInv
  <2>1. applied \subseteq {NoRequest} /\ applied \subseteq Request
    BY <1>1 DEF FormInv, HeardInv, IInv, TypeOK
  <2>2. \A p \in Request : pc[p] = "idle" \/ pc[p] = "done"
    BY <1>1, RequestAssumption DEF FormInv, HeardInv, RequestAssumption
  <2> QED
    BY <1>4, <2>1, <2>2, RequestAssumption DEF RequestAssumption
<1> QED
  BY <1>3, <1>5, <1>6, <1>7, <1>8 DEF FormInv

\* The form hears an answer or stops waiting: the service does not change.
LEMMA HearInv == ASSUME FormInv, NEW r \in Request, Hear(r) \/ Lose(r) PROVE FormInv'
<1>1. /\ awaiting = r /\ awaiting' = NoRequest /\ UNCHANGED vars
      /\ \/ /\ pc[r] = "done" /\ saved' = (answer[r].status = "created")
            /\ told' = [told EXCEPT ![r] = IF answer[r].status = "created" THEN "saved" ELSE "refused"]
         \/ told' = [told EXCEPT ![r] = "unreachable"] /\ saved' = saved
  BY DEF Hear, Lose
<1>2. IInv'
  BY <1>1, InvStep DEF FormInv
<1>3. pc[r] # "idle" /\ \A p \in Request : p # r => told'[p] = told[p]
  BY <1>1, RequestAssumption DEF FormInv, FreshKeyInv, FormTypeOK, RequestAssumption
<1>4. FormTypeOK'
  BY <1>1 DEF FormInv, FormTypeOK
<1>5. FreshKeyInv'
  BY <1>1, <1>3, RequestAssumption DEF FormInv, FreshKeyInv, vars, KeyOf, RequestAssumption
<1>6. MovedInv'
  BY <1>1 DEF FormInv, MovedInv, vars
<1>7. HeardInv'
  <2> SUFFICES ASSUME \A p \in Request : told'[p] # "unreachable"
               PROVE  /\ \A p \in Request : pc[p] = "idle" \/ pc[p] = "done"
                      /\ saved' => \E p \in Request : applied = {p}
                      /\ ~saved' => applied = {}
    BY <1>1 DEF HeardInv, vars
  <2>1. pc[r] = "done" /\ saved' = (answer[r].status = "created")
    BY <1>1 DEF FormInv, FormTypeOK
  <2>2. \A p \in Request : told[p] # "unreachable"
    BY <1>1, <1>3 DEF FormInv, FreshKeyInv
  <2>3. ~saved /\ applied \subseteq {r} /\ \A p \in Request : pc[p] = "idle" \/ pc[p] = "done"
    BY <1>1, <2>1, <2>2, RequestAssumption DEF FormInv, HeardInv, RequestAssumption
  <2>4. answer[r].status = "created" <=> r \in applied
    BY OwnMovement DEF FormInv, MovedInv
  <2> QED
    BY <2>1, <2>3, <2>4
<1> QED
  BY <1>2, <1>4, <1>5, <1>6, <1>7 DEF FormInv

\* The service moves the count only for the request the form waits for.
LEMMA ServiceInv == ASSUME FormInv, Service PROVE FormInv'
<1>1. UNCHANGED <<awaiting, told, saved>>
  BY DEF Service, formVars
<1>2. IInv'
  BY InvStep DEF FormInv, Service, Next
<1>3. /\ asked' = asked
      /\ \A r \in Request : pc'[r] = "idle" <=> pc[r] = "idle"
      /\ \A r \in Request : pc[r] = "done" => pc'[r] = "done" /\ answer'[r] = answer[r]
      /\ \/ applied' = applied
         \/ \E r \in Request : /\ pc[r] = "recorded" /\ applied' = applied \cup {r}
                               /\ answer'[r].status = "created"
  BY ServiceStep DEF FormInv
<1>4. applied \subseteq Request /\ \A p \in applied : pc[p] = "done"
  BY DEF FormInv, IInv, TypeOK, DoneInv
<1>5. FormTypeOK'
  BY <1>1 DEF FormInv, FormTypeOK
<1>6. FreshKeyInv'
  BY <1>1, <1>3 DEF FormInv, FormTypeOK, FreshKeyInv, KeyOf
<1>7. MovedInv'
  BY <1>3, <1>4 DEF FormInv, MovedInv
<1>8. HeardInv'
  <2> SUFFICES ASSUME \A p \in Request : told[p] # "unreachable"
               PROVE  /\ \A p \in Request : pc'[p] = "idle" \/ pc'[p] = "done" \/ awaiting = p
                      /\ saved => awaiting = NoRequest /\ \E p \in Request : applied' = {p}
                      /\ ~saved => applied' \subseteq {awaiting}
    BY <1>1 DEF HeardInv
  <2>1. /\ \A p \in Request : pc[p] = "idle" \/ pc[p] = "done" \/ awaiting = p
        /\ saved => awaiting = NoRequest /\ \E p \in Request : applied = {p}
        /\ ~saved => applied \subseteq {awaiting}
    BY DEF FormInv, HeardInv
  <2>2. ASSUME NEW r \in Request, pc[r] = "recorded" PROVE awaiting = r /\ ~saved
    BY <2>1, <2>2, RequestAssumption DEF RequestAssumption
  <2> QED
    BY <1>3, <2>1, <2>2
<1> QED
  BY <1>2, <1>5, <1>6, <1>7, <1>8 DEF FormInv

\* Every press, answer, loss and step of the service keeps the form's invariant.
LEMMA FormStep == FormInv /\ [FormNext]_<<vars, formVars>> => FormInv'
<1> SUFFICES ASSUME FormInv, [FormNext]_<<vars, formVars>> PROVE FormInv'
  OBVIOUS
<1>1. ASSUME UNCHANGED <<vars, formVars>> PROVE FormInv'
  <2>1. IInv'
    BY <1>1, InvStep DEF FormInv
  <2>2. UNCHANGED <<awaiting, told, saved, pc, asked, answer, applied>>
    BY <1>1 DEF vars, formVars
  <2> QED
    BY <2>1, <2>2 DEF FormInv, FormTypeOK, FreshKeyInv, MovedInv, HeardInv, KeyOf
<1> QED
  BY <1>1, SaveInv, HearInv, ServiceInv DEF FormNext

\* While no answer is lost, one wish moves the count at most once however often it is
\* refused, fails and is sent again, and "saved" means that it moved.
THEOREM AnsweredFormIsExactHolds == FormSpec => []AnsweredFormIsExact
<1>1. FormInv => AnsweredFormIsExact
  <2> SUFFICES ASSUME FormInv, \A r \in Request : told[r] # "unreachable"
               PROVE  Cardinality(applied) <= 1 /\ (saved => Cardinality(applied) = 1)
    BY DEF AnsweredFormIsExact
  <2>1. CASE applied = {}
    BY <2>1, FS_EmptySet DEF FormInv, HeardInv
  <2>2. ASSUME NEW r, applied = {r} PROVE Cardinality(applied) = 1
    BY <2>2, FS_Singleton
  <2>3. applied = {} \/ \E r : applied = {r}
    BY DEF FormInv, FormTypeOK, HeardInv
  <2> QED
    BY <2>1, <2>2, <2>3
<1> QED
  BY <1>1, FormInitInv, FormStep, PTL DEF FormSpec
===============================================================================
