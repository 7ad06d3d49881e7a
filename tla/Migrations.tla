------------------------------- MODULE Migrations -------------------------------
(***************************************************************************)
(* The migration runner (service/scripts/migrate.py) over the schema files *)
(* and the ledger schema_migrations (schema/0015).                         *)
(*                                                                         *)
(* Nothing stops two runners from working at one time.  A runner reads the *)
(* ledger once, then gives every pending file a transaction of its own,    *)
(* which holds the file's SQL and its ledger row.  Files may be edited     *)
(* under it.                                                               *)
(***************************************************************************)
EXTENDS Integers, FiniteSets

CONSTANTS
  Runner, NoRunner,
  Files,            \* the schema files are 1 .. Files, in the order they apply
  Content, Absent,  \* contents of a file; Absent: no ledger row
  MaxEdits          \* BOUND: how often a file is edited

ASSUME MigrationsAssumption ==
  /\ NoRunner \notin Runner /\ Absent \notin Content
  /\ Files \in Nat /\ MaxEdits \in Nat

File == 1 .. Files

VARIABLES
  disk,         \* [File -> its content]
  edits,        \* how often a file has been edited
  ledger,       \* schema_migrations: [File -> the recorded checksum, or Absent]
  backfilled,   \* the files whose row was written by hand, "rather than by the runner"
  ran,          \* [File -> who committed its SQL, and which: [by, sql]]
  inserting,    \* [File -> the runner with an uncommitted ledger row]
  pc,
  applied,      \* [Runner -> the ledger as it read it]
  at,           \* [Runner -> the file it is at, 0 before the first]
  sql,          \* [Runner -> the content it read]
  sum           \* [Runner -> the checksum it inserted]

vars == <<disk, edits, ledger, backfilled, ran, inserting, pc, applied, at, sql, sum>>

Active(r)  == pc[r] \notin {"idle", "done", "refused", "failed"}
Changed(r) == {f \in File : applied[r][f] # Absent /\ applied[r][f] # disk[f]}
Pending(r) == {f \in File : applied[r][f] = Absent /\ f > at[r]}

Init ==
  /\ disk \in [File -> Content] /\ edits = 0
  /\ backfilled \in SUBSET File
  /\ ledger = [f \in File |-> IF f \in backfilled THEN disk[f] ELSE Absent]
  /\ ran = [f \in File |-> {}]
  /\ inserting = [f \in File |-> NoRunner]
  /\ pc = [r \in Runner |-> "idle"]
  /\ applied = [r \in Runner |-> [f \in File |-> Absent]]
  /\ at = [r \in Runner |-> 0]
  /\ sql = [r \in Runner |-> Absent] /\ sum = [r \in Runner |-> Absent]

Goto(r, place) == pc' = [pc EXCEPT ![r] = place]

\* The ledger is created if it is not there, and read once.
Begin(r) ==
  /\ pc[r] = "idle"
  /\ applied' = [applied EXCEPT ![r] = ledger]
  /\ Goto(r, "check")
  /\ UNCHANGED <<disk, edits, ledger, backfilled, ran, inserting, at, sql, sum>>

\* "Refusing to run. These applied migrations have changed on disk."
Check(r) ==
  /\ pc[r] = "check"
  /\ Goto(r, IF Changed(r) # {} THEN "refused" ELSE "next")
  /\ UNCHANGED <<disk, edits, ledger, backfilled, ran, inserting, applied, at, sql, sum>>

\* The lowest file that was pending and is still to come; read_text().
TakeFile(r) ==
  /\ pc[r] = "next"
  /\ IF Pending(r) = {}
       THEN Goto(r, "done") /\ UNCHANGED <<at, sql>>
       ELSE \E f \in Pending(r) :
              /\ \A g \in Pending(r) : f <= g
              /\ at' = [at EXCEPT ![r] = f]
              /\ sql' = [sql EXCEPT ![r] = disk[f]]
              /\ Goto(r, "execute")
  /\ UNCHANGED <<disk, edits, ledger, backfilled, ran, inserting, applied, sum>>

\* The SQL succeeds; where it does not, or waits for another runner's, see Fail.
Execute(r) ==
  /\ pc[r] = "execute"
  /\ Goto(r, "insert")
  /\ UNCHANGED <<disk, edits, ledger, backfilled, ran, inserting, applied, at, sql, sum>>

\* Mutant: "on conflict (filename) do nothing".
InsertIgnores(r) ==
  /\ pc[r] = "insert"
  /\ inserting[at[r]] = NoRunner
  /\ inserting' = [inserting EXCEPT ![at[r]] = r]
  /\ sum' = [sum EXCEPT ![r] = disk[at[r]]]
  /\ Goto(r, "commit")
  /\ UNCHANGED <<disk, edits, ledger, backfilled, ran, applied, at, sql>>

\* The ledger row: its primary key waits for another runner's row, and refuses a second
\* one.  The checksum is of the file as it is on disk now.
Insert(r) ==
  /\ pc[r] = "insert"
  /\ inserting[at[r]] = NoRunner
  /\ IF ledger[at[r]] = Absent
       THEN /\ inserting' = [inserting EXCEPT ![at[r]] = r]
            /\ sum' = [sum EXCEPT ![r] = disk[at[r]]]
            /\ Goto(r, "commit")
       ELSE Goto(r, "failed") /\ UNCHANGED <<inserting, sum>>
  /\ UNCHANGED <<disk, edits, ledger, backfilled, ran, applied, at, sql>>

Commit(r) ==
  /\ pc[r] = "commit"
  /\ ledger' = [ledger EXCEPT ![at[r]] = sum[r]]
  /\ ran' = [ran EXCEPT ![at[r]] = @ \cup {[by |-> r, sql |-> sql[r]]}]
  /\ inserting' = [inserting EXCEPT ![at[r]] = NoRunner]
  /\ Goto(r, "next")
  /\ UNCHANGED <<disk, edits, backfilled, applied, at, sql, sum>>

\* Mutant: a file that fails is left for the next run, and the runner goes on.
FailAndGoOn(r) ==
  /\ pc[r] \in {"execute", "insert", "commit"}
  /\ Goto(r, "next")
  /\ inserting' = [f \in File |-> IF inserting[f] = r THEN NoRunner ELSE inserting[f]]
  /\ UNCHANGED <<disk, edits, ledger, backfilled, ran, applied, at, sql, sum>>

\* The SQL fails, the connection or the process dies: the transaction is rolled back and
\* the runner ends.
Fail(r) ==
  /\ Active(r)
  /\ Goto(r, "failed")
  /\ inserting' = [f \in File |-> IF inserting[f] = r THEN NoRunner ELSE inserting[f]]
  /\ UNCHANGED <<disk, edits, ledger, backfilled, ran, applied, at, sql, sum>>

\* Somebody edits a file, or checks out another version of it.
Edit(f, content) ==
  /\ edits < MaxEdits
  /\ content # disk[f]
  /\ disk' = [disk EXCEPT ![f] = content]
  /\ edits' = edits + 1
  /\ UNCHANGED <<ledger, backfilled, ran, inserting, pc, applied, at, sql, sum>>

Next ==
  \/ \E r \in Runner :
       Begin(r) \/ Check(r) \/ TakeFile(r) \/ Execute(r) \/ Insert(r) \/ Commit(r) \/ Fail(r)
  \/ \E f \in File, content \in Content : Edit(f, content)

Spec == Init /\ [][Next]_vars

-------------------------------------------------------------------------------
TypeOK ==
  /\ disk \in [File -> Content] /\ edits \in 0 .. MaxEdits
  /\ ledger \in [File -> Content \cup {Absent}] /\ backfilled \subseteq File
  /\ ran \in [File -> SUBSET [by : Runner, sql : Content]]
  /\ inserting \in [File -> Runner \cup {NoRunner}]
  /\ pc \in [Runner -> {"idle", "check", "next", "execute", "insert", "commit",
                        "done", "refused", "failed"}]
  /\ applied \in [Runner -> [File -> Content \cup {Absent}]]
  /\ at \in [Runner -> 0 .. Files]
  /\ sql \in [Runner -> Content \cup {Absent}] /\ sum \in [Runner -> Content \cup {Absent}]

\* migrate.py, rules 1 and 3, with any number of runners at work: the SQL of a file is
\* committed at most once, and it is committed exactly where the ledger has a row that
\* nobody backfilled.
LedgerIsTrue ==
  \A f \in File : /\ Cardinality(ran[f]) <= 1
                  /\ ran[f] # {} <=> ledger[f] # Absent /\ f \notin backfilled

\* "The base schema first, then every numbered migration in order": no file is applied
\* before an earlier one, although runners race, fail and start again.
AppliedInOrder ==
  \A f, g \in File : f < g /\ ran[g] # {} => ledger[f] # Absent

\* A runner that ends well leaves no file of the directory unapplied, its own or those it
\* found in the ledger.
DoneIsComplete ==
  \A r \in Runner : pc[r] = "done" => \A f \in File : ledger[f] # Absent

\* schema/0015, "sha256 of the file contents at the moment it was applied": the recorded
\* checksum is that of the SQL that ran.
ChecksumIsOfWhatRan ==
  \A f \in File : \A e \in ran[f] : e.sql = ledger[f]

-------------------------------------------------------------------------------
(* What the proofs of MigrationsProofs stand on. *)

\* A runner is at a file from its text to its commit, and at none before the first.
PlaceInv ==
  \A r \in Runner :
    /\ pc[r] \in {"idle", "check"} => at[r] = 0
    /\ pc[r] \in {"execute", "insert", "commit"} => at[r] \in File /\ sql[r] \in Content

\* Whoever has an uncommitted row is the only one, and the ledger has none for the file.
InsertInv ==
  \A r \in Runner :
    pc[r] = "commit" => inserting[at[r]] = r /\ ledger[at[r]] = Absent /\ sum[r] \in Content

\* A file's SQL is committed by nobody or by one.
RanInv ==
  \A f \in File :
    /\ ran[f] = {} \/ \E e \in [by : Runner, sql : Content] : ran[f] = {e}
    /\ ran[f] # {} <=> ledger[f] # Absent /\ f \notin backfilled
    /\ f \in backfilled => ledger[f] # Absent

\* What a runner found in the ledger, and what it has left behind, is in the ledger.
Behind(r, g) == g < at[r] \/ (g = at[r] /\ pc[r] = "next") \/ pc[r] = "done"

SeenInv ==
  \A r \in Runner, g \in File :
    applied[r][g] # Absent \/ Behind(r, g) => ledger[g] # Absent

IInv == TypeOK /\ PlaceInv /\ InsertInv /\ RanInv /\ SeenInv /\ AppliedInOrder
===============================================================================
