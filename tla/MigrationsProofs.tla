---------------------------- MODULE MigrationsProofs ----------------------------
(* Theorems of Migrations: any number of runners and files, edited any number of times. *)
EXTENDS Migrations, FiniteSetTheorems, TLAPS

\* No file is applied, and no runner has started.
LEMMA InvInit == Init => IInv
<1> SUFFICES ASSUME Init PROVE IInv
  OBVIOUS
<1>1. TypeOK
  BY MigrationsAssumption DEF Init, TypeOK, File
<1>2. PlaceInv /\ InsertInv
  BY DEF Init, PlaceInv, InsertInv
<1>3. RanInv /\ AppliedInOrder
  BY MigrationsAssumption DEF Init, RanInv, AppliedInOrder, File
<1>4. SeenInv
  BY MigrationsAssumption DEF Init, SeenInv, Behind, File
<1> QED
  BY <1>1, <1>2, <1>3, <1>4 DEF IInv

-------------------------------------------------------------------------------
(* One lemma for each step. *)

\* A runner starts: it has read nothing and done nothing.
LEMMA BeginInv == ASSUME IInv, NEW r \in Runner, Begin(r) PROVE IInv'
<1>1. TypeOK'
  BY DEF IInv, TypeOK, Begin, Goto
<1>2. PlaceInv' /\ InsertInv'
  BY DEF IInv, TypeOK, Begin, Goto, PlaceInv, InsertInv
<1>3. RanInv' /\ AppliedInOrder'
  BY DEF IInv, Begin, RanInv, AppliedInOrder
<1>4. SeenInv'
  BY DEF IInv, TypeOK, Begin, Goto, SeenInv, Behind
<1> QED
  BY <1>1, <1>2, <1>3, <1>4 DEF IInv

\* Of a file that has a row, none has changed, and before the first file there is none to miss.
LEMMA CheckInv == ASSUME IInv, NEW r \in Runner, Check(r) PROVE IInv'
<1>1. TypeOK'
  BY DEF IInv, TypeOK, Check, Goto
<1>2. PlaceInv' /\ InsertInv'
  BY DEF IInv, TypeOK, Check, Goto, PlaceInv, InsertInv
<1>3. RanInv' /\ AppliedInOrder'
  BY DEF IInv, Check, RanInv, AppliedInOrder
<1>4. SeenInv'
  BY MigrationsAssumption DEF IInv, TypeOK, Check, Goto, SeenInv, Behind, PlaceInv, File
<1> QED
  BY <1>1, <1>2, <1>3, <1>4 DEF IInv

\* The files a runner passes over were in the ledger when it read it.
LEMMA TakeFileInv == ASSUME IInv, NEW r \in Runner, TakeFile(r) PROVE IInv'
<1>1. CASE Pending(r) = {}
  <2>1. TypeOK' /\ PlaceInv' /\ InsertInv'
    BY <1>1 DEF IInv, TypeOK, TakeFile, Goto, PlaceInv, InsertInv
  <2>2. RanInv' /\ AppliedInOrder'
    BY DEF IInv, TakeFile, RanInv, AppliedInOrder
  <2>3. \A g \in File : ledger[g] # Absent
    <3> SUFFICES ASSUME NEW g \in File PROVE ledger[g] # Absent
      OBVIOUS
    <3>1. g \notin Pending(r)
      BY <1>1
    <3>2. applied[r][g] # Absent \/ g <= at[r]
      BY <3>1, MigrationsAssumption DEF Pending, File, IInv, TypeOK
    <3> QED
      BY <3>2, MigrationsAssumption DEF TakeFile, IInv, TypeOK, SeenInv, Behind, File
  <2>4. SeenInv'
    BY <1>1, <2>3 DEF TakeFile, SeenInv, Behind
  <2> QED
    BY <2>1, <2>2, <2>4 DEF IInv
<1>2. ASSUME NEW f \in Pending(r), \A g \in Pending(r) : f <= g,
             at' = [at EXCEPT ![r] = f], sql' = [sql EXCEPT ![r] = disk[f]], Goto(r, "execute"),
             UNCHANGED <<disk, edits, ledger, backfilled, ran, inserting, applied, sum>>, pc[r] = "next"
      PROVE  IInv'
  <2>1. f \in File
    BY DEF Pending
  <2>2. TypeOK' /\ PlaceInv' /\ InsertInv'
    BY <1>2, <2>1, MigrationsAssumption DEF IInv, TypeOK, Goto, PlaceInv, InsertInv, File
  <2>3. RanInv' /\ AppliedInOrder'
    BY <1>2 DEF IInv, RanInv, AppliedInOrder
  <2>4. \A g \in File : g < f => ledger[g] # Absent
    <3> SUFFICES ASSUME NEW g \in File, g < f PROVE ledger[g] # Absent
      OBVIOUS
    <3>1. g \notin Pending(r)
      BY <1>2, <2>1, MigrationsAssumption DEF File
    <3>2. applied[r][g] # Absent \/ g <= at[r]
      BY <3>1, MigrationsAssumption DEF Pending, File, IInv, TypeOK
    <3> QED
      BY <1>2, <3>2, MigrationsAssumption DEF IInv, TypeOK, SeenInv, Behind, File
  <2>5. SeenInv'
    BY <1>2, <2>1, <2>4 DEF IInv, TypeOK, Goto, SeenInv, Behind
  <2> QED
    BY <2>2, <2>3, <2>5 DEF IInv
<1> QED
  BY <1>1, <1>2 DEF TakeFile

\* A file's SQL runs in a transaction that nobody else sees yet.
LEMMA ExecuteInv == ASSUME IInv, NEW r \in Runner, Execute(r) PROVE IInv'
<1>1. TypeOK'
  BY DEF IInv, TypeOK, Execute, Goto
<1>2. PlaceInv' /\ InsertInv'
  BY DEF IInv, TypeOK, Execute, Goto, PlaceInv, InsertInv
<1>3. RanInv' /\ AppliedInOrder'
  BY DEF IInv, Execute, RanInv, AppliedInOrder
<1>4. SeenInv'
  BY DEF IInv, TypeOK, Execute, Goto, SeenInv, Behind
<1> QED
  BY <1>1, <1>2, <1>3, <1>4 DEF IInv

\* The primary key has let nobody else in.
LEMMA InsertKeepsInv == ASSUME IInv, NEW r \in Runner, Insert(r) PROVE IInv'
<1> DEFINE f == at[r]
<1>1. f \in File /\ sql[r] \in Content
  BY DEF IInv, PlaceInv, Insert
<1>2. RanInv' /\ AppliedInOrder'
  BY DEF IInv, Insert, RanInv, AppliedInOrder
<1>3. SeenInv'
  BY DEF IInv, TypeOK, Insert, Goto, SeenInv, Behind
<1>4. CASE ledger[f] = Absent
  <2>1. TypeOK'
    <3>1. disk[f] \in Content
      BY <1>1 DEF IInv, TypeOK
    <3>2. inserting' \in [File -> Runner \cup {NoRunner}] /\ sum' \in [Runner -> Content \cup {Absent}]
      BY <1>1, <1>4, <3>1 DEF IInv, TypeOK, Insert
    <3>3. pc' \in [Runner -> {"idle", "check", "next", "execute", "insert", "commit",
                              "done", "refused", "failed"}]
      BY <1>4 DEF IInv, TypeOK, Insert, Goto
    <3> QED
      BY <3>2, <3>3 DEF IInv, TypeOK, Insert
  <2>2. PlaceInv'
    BY <1>1, <1>4 DEF IInv, TypeOK, Insert, Goto, PlaceInv
  <2>3. InsertInv'
    BY <1>1, <1>4, MigrationsAssumption DEF IInv, TypeOK, Insert, Goto, InsertInv, PlaceInv
  <2> QED
    BY <1>2, <1>3, <2>1, <2>2, <2>3 DEF IInv
<1>5. CASE ledger[f] # Absent
  <2>1. TypeOK' /\ PlaceInv' /\ InsertInv'
    BY <1>5 DEF IInv, TypeOK, Insert, Goto, PlaceInv, InsertInv
  <2> QED
    BY <1>2, <1>3, <2>1 DEF IInv
<1> QED
  BY <1>4, <1>5

\* The row and the SQL come together, for a file that had neither.
LEMMA CommitInv == ASSUME IInv, NEW r \in Runner, Commit(r) PROVE IInv'
<1> DEFINE f == at[r]
           e == [by |-> r, sql |-> sql[r]]
<1>1. /\ f \in File /\ sql[r] \in Content /\ sum[r] \in Content
      /\ inserting[f] = r /\ ledger[f] = Absent
  BY DEF IInv, PlaceInv, InsertInv, Commit
<1>2. ledger' = [ledger EXCEPT ![f] = sum[r]] /\ ran' = [ran EXCEPT ![f] = @ \cup {e}]
  BY DEF Commit
<1>3. sum[r] # Absent /\ e \in [by : Runner, sql : Content]
  BY <1>1, MigrationsAssumption
<1>4. ran[f] = {} /\ f \notin backfilled
  BY <1>1 DEF IInv, RanInv
<1>5. ran'[f] = {e} /\ ledger'[f] # Absent
  BY <1>1, <1>2, <1>3, <1>4 DEF IInv, TypeOK
<1>6. \A g \in File : g # f => ran'[g] = ran[g] /\ ledger'[g] = ledger[g]
  BY <1>1, <1>2 DEF IInv, TypeOK
<1>7. TypeOK'
  BY <1>1, <1>3 DEF IInv, TypeOK, Commit, Goto
<1>8. PlaceInv'
  BY DEF IInv, TypeOK, Commit, Goto, PlaceInv
<1>9. InsertInv'
  <2> SUFFICES ASSUME NEW q \in Runner, pc'[q] = "commit"
               PROVE  inserting'[at[q]] = q /\ ledger'[at[q]] = Absent /\ sum[q] \in Content
    BY DEF InsertInv, Commit
  <2>1. q # r /\ pc[q] = "commit"
    BY DEF IInv, TypeOK, Commit, Goto
  <2>2. inserting[at[q]] = q /\ ledger[at[q]] = Absent /\ sum[q] \in Content /\ at[q] \in File
    BY <2>1 DEF IInv, InsertInv, PlaceInv
  <2>3. at[q] # f
    BY <1>1, <2>1, <2>2
  <2> QED
    BY <1>1, <1>6, <2>2, <2>3 DEF IInv, TypeOK, Commit
<1>10. RanInv'
  <2> SUFFICES ASSUME NEW g \in File
               PROVE  /\ ran'[g] = {} \/ \E x \in [by : Runner, sql : Content] : ran'[g] = {x}
                      /\ ran'[g] # {} <=> ledger'[g] # Absent /\ g \notin backfilled
                      /\ g \in backfilled => ledger'[g] # Absent
    BY DEF RanInv, Commit
  <2>1. CASE g = f
    BY <1>3, <1>4, <1>5, <2>1
  <2>2. CASE g # f
    BY <1>6, <2>2 DEF IInv, RanInv
  <2> QED
    BY <2>1, <2>2
<1>11. SeenInv'
  <2> SUFFICES ASSUME NEW q \in Runner, NEW g \in File,
                      applied[q][g] # Absent \/ Behind(q, g)',
                      g # f
               PROVE  ledger[g] # Absent
    BY <1>5, <1>6 DEF SeenInv, Behind, Commit
  <2>1. CASE q = r
    BY <2>1 DEF IInv, TypeOK, Commit, Goto, SeenInv, Behind
  <2>2. CASE q # r
    BY <2>2 DEF IInv, TypeOK, Commit, Goto, SeenInv, Behind
  <2> QED
    BY <2>1, <2>2
<1>12. AppliedInOrder'
  <2> SUFFICES ASSUME NEW g \in File, NEW h \in File, g < h, ran'[h] # {}
               PROVE  ledger'[g] # Absent
    BY DEF AppliedInOrder
  <2>1. CASE g = f
    BY <1>5, <2>1
  <2>2. CASE g # f /\ h # f
    BY <1>6, <2>2 DEF IInv, AppliedInOrder
  <2>3. CASE g # f /\ h = f
    BY <1>6, <2>3 DEF IInv, SeenInv, Behind
  <2> QED
    BY <2>1, <2>2, <2>3
<1> QED
  BY <1>7, <1>8, <1>9, <1>10, <1>11, <1>12 DEF IInv

\* A runner dies: its open transaction is gone, what it committed stays.
LEMMA FailInv == ASSUME IInv, NEW r \in Runner, Fail(r) PROVE IInv'
<1>1. TypeOK'
  <2>1. inserting' \in [File -> Runner \cup {NoRunner}]
    BY DEF IInv, TypeOK, Fail
  <2> QED
    BY <2>1 DEF IInv, TypeOK, Fail, Goto
<1>2. PlaceInv'
  BY DEF IInv, TypeOK, Fail, Goto, PlaceInv
<1>3. InsertInv'
  <2> SUFFICES ASSUME NEW q \in Runner, pc'[q] = "commit"
               PROVE  inserting'[at[q]] = q /\ ledger[at[q]] = Absent /\ sum[q] \in Content
    BY DEF InsertInv, Fail
  <2>1. q # r /\ pc[q] = "commit"
    BY DEF IInv, TypeOK, Fail, Goto
  <2> QED
    BY <2>1 DEF IInv, InsertInv, PlaceInv, Fail
<1>4. RanInv' /\ AppliedInOrder'
  BY DEF IInv, Fail, RanInv, AppliedInOrder
<1>5. SeenInv'
  BY DEF IInv, TypeOK, Fail, Goto, SeenInv, Behind
<1> QED
  BY <1>1, <1>2, <1>3, <1>4, <1>5 DEF IInv

\* A file is edited under the runners: the ledger does not change.
LEMMA EditInv == ASSUME IInv, NEW f \in File, NEW content \in Content, Edit(f, content) PROVE IInv'
<1>1. TypeOK'
  BY MigrationsAssumption DEF IInv, TypeOK, Edit
<1>2. PlaceInv' /\ InsertInv' /\ RanInv' /\ SeenInv' /\ AppliedInOrder'
  BY DEF IInv, Edit, PlaceInv, InsertInv, RanInv, SeenInv, Behind, AppliedInOrder
<1> QED
  BY <1>1, <1>2 DEF IInv

\* Every step of the service and of its surroundings keeps the inductive invariant.
LEMMA InvStep == IInv /\ [Next]_vars => IInv'
<1> SUFFICES ASSUME IInv, [Next]_vars PROVE IInv'
  OBVIOUS
<1>1. ASSUME NEW r \in Runner,
             Begin(r) \/ Check(r) \/ TakeFile(r) \/ Execute(r) \/ Insert(r) \/ Commit(r) \/ Fail(r)
      PROVE  IInv'
  BY <1>1, BeginInv, CheckInv, TakeFileInv, ExecuteInv, InsertKeepsInv, CommitInv, FailInv
<1>2. ASSUME NEW f \in File, NEW content \in Content, Edit(f, content) PROVE IInv'
  BY <1>2, EditInv
<1>3. ASSUME UNCHANGED vars PROVE IInv'
  BY <1>3 DEF vars, IInv, TypeOK, PlaceInv, InsertInv, RanInv, SeenInv, Behind, AppliedInOrder
<1> QED
  BY <1>1, <1>2, <1>3 DEF Next

-------------------------------------------------------------------------------
\* What the runners, the ledger and the files are to each other, at any moment of any runs of
\* migrate.py: the invariant that the promises below follow from.
THEOREM RunnersInvariant == Spec => []IInv
<1> QED
  BY InvInit, InvStep, PTL DEF Spec

\* migrate.py, rules 1 and 3: a file's SQL is committed at most once, and exactly where the
\* ledger has a row that was not backfilled, however many runners race and fail.
THEOREM TheLedgerIsTrue == Spec => []LedgerIsTrue
<1>1. IInv => LedgerIsTrue
  <2> SUFFICES ASSUME IInv, NEW f \in File
               PROVE  Cardinality(ran[f]) <= 1 /\ (ran[f] # {} <=> ledger[f] # Absent /\ f \notin backfilled)
    BY DEF LedgerIsTrue
  <2>1. ran[f] = {} \/ \E e \in [by : Runner, sql : Content] : ran[f] = {e}
    BY DEF IInv, RanInv
  <2>2. Cardinality(ran[f]) <= 1
    <3>1. ASSUME NEW e, ran[f] = {e} PROVE Cardinality(ran[f]) <= 1
      BY <3>1, FS_Singleton
    <3>2. CASE ran[f] = {}
      BY <3>2, FS_EmptySet
    <3> QED
      BY <2>1, <3>1, <3>2
  <2> QED
    BY <2>2 DEF IInv, RanInv
<1> QED
  BY <1>1, RunnersInvariant, PTL

\* migrate.py, "the base schema first, then every numbered migration in order": when a file's
\* SQL is committed, every earlier file is in the ledger.
THEOREM FilesApplyInOrder == Spec => []AppliedInOrder
<1>1. IInv => AppliedInOrder
  BY DEF IInv
<1> QED
  BY <1>1, RunnersInvariant, PTL

\* migrate.py: a runner that ends well, after others ran beside it, leaves no file unapplied.
THEOREM DoneLeavesNothing == Spec => []DoneIsComplete
<1>1. IInv => DoneIsComplete
  BY DEF IInv, SeenInv, Behind, DoneIsComplete
<1> QED
  BY <1>1, RunnersInvariant, PTL
===============================================================================
