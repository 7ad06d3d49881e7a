------------------------------- MODULE CostUpload -------------------------------
(***************************************************************************)
(* One cost upload (service/app/cost_uploads.py): its row in cost_uploads, *)
(* its file and its match result in the object store, and the costs that   *)
(* applyCostUpload writes.                                                 *)
(*                                                                         *)
(* No handler locks the row, and the object store is not in the            *)
(* transaction: a put is visible at once and is never undone.  The steps   *)
(* are therefore each read or write of the store, and the commit.          *)
(***************************************************************************)
EXTENDS CostFile, FiniteSets

CONSTANTS
  Request,              \* HTTP requests; a match is named by its request
  NoRequest,
  File, NoFile,         \* contents of the uploaded file
  Table,                \* [the files that open -> what is in their first sheet]
  Mapping, NoMapping,   \* column mappings, records as match takes them
  ShopCurrency,
  Key, NoKey            \* Idempotency-Key values of apply; NoKey \in Key if it may be absent

ASSUME UploadAssumption ==
  /\ NoRequest \notin Request /\ NoFile \notin File /\ NoMapping \notin Mapping
  /\ DOMAIN Table \subseteq File
  /\ \A m \in Mapping : Blank \notin {m.key, m.cost}

\* The files that parse, their rows, and what match makes of them under each mapping.
Readable == {f \in DOMAIN Table : Parses(Table[f])}

Rows == [f \in Readable |-> RowNumbers(Table[f])]
Row  == UNION {Rows[f] : f \in Readable}

\* [<<file, mapping>> -> [its matched rows -> their variant]]
Matched ==
  [fm \in {fm \in Readable \X Mapping : Mappable(Table[fm[1]], fm[2])} |->
    [n \in {n \in Rows[fm[1]] : Outcome(Table[fm[1]], fm[2], n) = "matched"} |->
      SkuOf(Table[fm[1]], fm[2], n)]]

VARIABLES
  status,       \* cost_uploads.status
  mapping,      \* cost_uploads.column_mapping
  counted,      \* the match whose counts the row carries
  file,         \* object {id}.csv or .xlsx
  rows,         \* object {id}-rows.json: [match, read], read = <<file, mapping>>
  keys,         \* idempotency_keys of apply: [Key -> request]
  pc,
  ask,          \* [Request -> [file, mapping, ids, key]], what the body carries
  seen,         \* [Request -> what the handler has read: [mapping, rows]]
  shown,        \* match results that reached a client: [match, read]
  applied       \* history: costs written, [by, match, row, read]

vars == <<status, mapping, counted, file, rows, keys, pc, ask, seen, shown, applied>>
upload == <<status, mapping, counted>>

NothingRead == <<NoFile, NoMapping>>
NoRows      == [match |-> NoRequest, read |-> NothingRead]
NothingSeen == [mapping |-> NoMapping, rows |-> NoRows]
NothingAsked == [file |-> NoFile, mapping |-> NoMapping, ids |-> {}, key |-> NoKey]

\* Mutant: the row's number is its identifier.
RowNumber(match, row) == <<NoRequest, row>>

\* "row_id": str(uuid4()), new at every match.
RowId(match, row) == <<match, row>>

Ids(result) ==
  {RowId(result.match, row) : row \in Rows[result.read[1]]}

\* The rows of a stored result that apply takes: confirmed by the seller, and matched.
Chosen(result, ids) ==
  {row \in Row : /\ RowId(result.match, row) \in ids
                 /\ result.read \in DOMAIN Matched /\ row \in DOMAIN Matched[result.read]}

\* createCostUpload's row, or the same upload once its file and mapping are in place.
Init ==
  /\ \/ status = "uploaded" /\ file = NoFile /\ mapping = NoMapping
     \/ status = "mapped" /\ file \in Readable /\ mapping \in Mapping
  /\ counted = NoRequest /\ rows = NoRows
  /\ keys = [k \in Key |-> NoRequest]
  /\ pc = [r \in Request |-> "idle"]
  /\ ask = [r \in Request |-> NothingAsked]
  /\ seen = [r \in Request |-> NothingSeen]
  /\ shown = {} /\ applied = {}

Goto(r, place) == pc' = [pc EXCEPT ![r] = place]

Send(r, place, body) ==
  /\ pc[r] = "idle"
  /\ Goto(r, place)
  /\ ask' = [ask EXCEPT ![r] = body]
  /\ UNCHANGED <<upload, file, rows, keys, seen, shown, applied>>

\* A handler fails or refuses: nothing of its transaction stays, what it put does.
Fail(r) ==
  /\ pc[r] \notin {"idle", "done", "replayed", "failed"}
  /\ Goto(r, "failed")
  /\ UNCHANGED <<upload, file, rows, keys, ask, seen, shown, applied>>

-------------------------------------------------------------------------------
(* upload_cost_file.  The handler is async and blocks, so one runs at a time. *)

SendFile(r, f) == Send(r, "file", [NothingAsked EXCEPT !.file = f])

PutFile(r) ==
  /\ pc[r] = "file"
  /\ \A q \in Request : pc[q] # "file_status"
  /\ file' = ask[r].file
  /\ Goto(r, "file_status")
  /\ UNCHANGED <<upload, rows, keys, ask, seen, shown, applied>>

SetFileStatus(r) ==
  /\ pc[r] = "file_status"
  /\ status' = IF ask[r].file \in Readable THEN "uploaded" ELSE "failed"
  /\ Goto(r, "done")
  /\ UNCHANGED <<mapping, counted, file, rows, keys, ask, seen, shown, applied>>

-------------------------------------------------------------------------------
(* putCostUploadMapping: file_not_ready, or no column of that name.  Only the cost *)
(* column is looked for: a key column that is not there fails the match.           *)

SendMapping(r, m) == Send(r, "mapping", [NothingAsked EXCEPT !.mapping = m])

CheckColumns(r) ==
  /\ pc[r] = "mapping"
  /\ Goto(r, IF file \in Readable /\ ask[r].mapping.cost \in Columns(Table[file])
              THEN "mapping_write" ELSE "failed")
  /\ UNCHANGED <<upload, file, rows, keys, ask, seen, shown, applied>>

WriteMapping(r) ==
  /\ pc[r] = "mapping_write"
  /\ mapping' = ask[r].mapping /\ status' = "mapped"
  /\ Goto(r, "done")
  /\ UNCHANGED <<counted, file, rows, keys, ask, seen, shown, applied>>

-------------------------------------------------------------------------------
(* matchCostUpload *)

SendMatch(r) == Send(r, "match", NothingAsked)

ReadUpload(r) ==
  /\ pc[r] = "match"
  /\ seen' = [seen EXCEPT ![r].mapping = mapping]
  /\ Goto(r, "match_file")
  /\ UNCHANGED <<upload, file, rows, keys, ask, shown, applied>>

\* Mutant: the row is committed before its result is put in the store.
RunMatchCommitsFirst(r) ==
  /\ pc[r] = "match_file"
  /\ <<file, seen[r].mapping>> \in DOMAIN Matched
  /\ status' = "confirmed" /\ counted' = r
  /\ seen' = [seen EXCEPT ![r].rows = [match |-> r, read |-> <<file, seen[r].mapping>>]]
  /\ Goto(r, "match_put")
  /\ UNCHANGED <<mapping, file, rows, keys, ask, shown, applied>>

\* _run_match: file_not_ready, not_mapped, or a column the file does not have.
RunMatch(r) ==
  /\ pc[r] = "match_file"
  /\ LET read == <<file, seen[r].mapping>> IN
     IF read \in DOMAIN Matched
       THEN /\ seen' = [seen EXCEPT ![r].rows = [match |-> r, read |-> read]]
            /\ Goto(r, "match_put")
       ELSE Goto(r, "failed") /\ UNCHANGED seen
  /\ UNCHANGED <<upload, file, rows, keys, ask, shown, applied>>

PutRows(r) ==
  /\ pc[r] = "match_put"
  /\ rows' = seen[r].rows
  /\ Goto(r, "match_write")
  /\ UNCHANGED <<upload, file, keys, ask, seen, shown, applied>>

\* The answer reaches the client, or comes after it gave up.
CommitMatch(r) ==
  /\ pc[r] = "match_write"
  /\ status' = "confirmed" /\ counted' = r
  /\ shown' \in {shown, shown \cup {seen[r].rows}}
  /\ Goto(r, "done")
  /\ UNCHANGED <<mapping, file, rows, keys, ask, seen, applied>>

-------------------------------------------------------------------------------
(* applyCostUpload: its costs are SkuCosts, its key StockAdjustment's. *)

SendApply(r, ids, k) == Send(r, "apply", [NothingAsked EXCEPT !.ids = ids, !.key = k])

Currency(result) == result.read[2].currency

Stored(r)  == ask[r].key # NoKey /\ keys[ask[r].key] # NoRequest

\* replay(): the first answer again, or idempotency_key_reused.
ReplayApply(r) ==
  /\ pc[r] = "apply" /\ Stored(r)
  /\ Goto(r, IF ask[keys[ask[r].key]].ids = ask[r].ids THEN "replayed" ELSE "failed")
  /\ UNCHANGED <<upload, file, rows, keys, ask, seen, shown, applied>>

\* The stored result is read, whatever the upload's status; without one, not_matched.
ReadRows(r) ==
  /\ pc[r] = "apply" /\ ~Stored(r)
  /\ seen' = [seen EXCEPT ![r].rows = rows]
  /\ Goto(r, IF rows = NoRows THEN "failed" ELSE "apply_write")
  /\ UNCHANGED <<upload, file, rows, keys, ask, shown, applied>>

\* A row in another currency refuses the whole request; a key used since is a 500.
RefuseApply(r) ==
  LET result == seen[r].rows IN
  /\ pc[r] = "apply_write"
  /\ Stored(r) \/ (Chosen(result, ask[r].ids) # {} /\ Currency(result) # ShopCurrency)
  /\ Goto(r, "failed")
  /\ UNCHANGED <<upload, file, rows, keys, ask, seen, shown, applied>>

\* Mutant: the key is not recorded.
CommitApplyUnkeyed(r) ==
  LET result == seen[r].rows IN
  /\ pc[r] = "apply_write"
  /\ applied' = applied \cup
       {[by |-> r, match |-> result.match, row |-> row, read |-> result.read] :
          row \in Chosen(result, ask[r].ids)}
  /\ status' = "applied"
  /\ Goto(r, "done")
  /\ UNCHANGED <<mapping, counted, file, rows, keys, ask, seen, shown>>

\* Identifiers that the stored result does not have are passed over without a word.
CommitApply(r) ==
  LET result == seen[r].rows IN
  /\ pc[r] = "apply_write" /\ ~Stored(r)
  /\ Chosen(result, ask[r].ids) # {} => Currency(result) = ShopCurrency
  /\ applied' = applied \cup
       {[by |-> r, match |-> result.match, row |-> row, read |-> result.read] :
          row \in Chosen(result, ask[r].ids)}
  /\ status' = "applied"
  /\ keys' = IF ask[r].key = NoKey THEN keys ELSE [keys EXCEPT ![ask[r].key] = r]
  /\ Goto(r, "done")
  /\ UNCHANGED <<mapping, counted, file, rows, ask, seen, shown>>

-------------------------------------------------------------------------------
Serve(r) ==
  \/ PutFile(r) \/ SetFileStatus(r)
  \/ CheckColumns(r) \/ WriteMapping(r)
  \/ ReadUpload(r) \/ RunMatch(r) \/ PutRows(r) \/ CommitMatch(r)
  \/ ReplayApply(r) \/ ReadRows(r) \/ RefuseApply(r) \/ CommitApply(r)

\* Clients name rows of a result they were shown, or none.
Next ==
  \E r \in Request :
    \/ \E f \in File : SendFile(r, f)
    \/ \E m \in Mapping : SendMapping(r, m)
    \/ SendMatch(r)
    \/ \E ids \in {{}} \cup UNION {SUBSET Ids(result) : result \in shown}, k \in Key :
         SendApply(r, ids, k)
    \/ Serve(r) \/ Fail(r)

Spec == Init /\ [][Next]_vars

-------------------------------------------------------------------------------
Read   == (File \cup {NoFile}) \X (Mapping \cup {NoMapping})
Result == [match : Request \cup {NoRequest}, read : Read]

TypeOK ==
  /\ status \in {"uploaded", "mapped", "confirmed", "applied", "failed"}
  /\ mapping \in Mapping \cup {NoMapping} /\ counted \in Request \cup {NoRequest}
  /\ file \in File \cup {NoFile} /\ rows \in Result
  /\ keys \in [Key -> Request \cup {NoRequest}]
  /\ pc \in [Request -> {"idle", "file", "file_status", "mapping", "mapping_write", "match",
                          "match_file", "match_put", "match_write", "apply", "apply_write",
                          "done", "replayed", "failed"}]
  /\ ask \in [Request -> [file : File \cup {NoFile}, mapping : Mapping \cup {NoMapping},
                           ids : SUBSET (Request \X Row), key : Key \cup {NoKey}]]
  /\ seen \in [Request -> [mapping : Mapping \cup {NoMapping}, rows : Result]]
  /\ shown \subseteq Result
  /\ applied \subseteq [by : Request, match : Request, row : Row, read : Read]

\* openapi, "Applies only the rows the seller confirmed": every cost written is a matched
\* row of a result the seller was shown, with the figures of the file and the mapping it
\* was shown for, however many matches and files came after.
AppliedWasShown ==
  \A a \in applied :
    \E result \in shown :
      /\ RowId(result.match, a.row) \in ask[a.by].ids
      /\ a.read = result.read /\ a.row \in DOMAIN Matched[result.read]

\* An upload that reads as matched or applied has a stored result to apply, although the
\* result is put outside the transaction that says so.
MatchedHasRows == status \in {"confirmed", "applied"} => rows # NoRows

\* An apply that is sent again with its key does not write the costs a second time.
KeyAppliesOnce ==
  \A a, b \in applied : ask[a.by].key = ask[b.by].key /\ ask[a.by].key # NoKey => a.by = b.by

\* An apply gives each variant one cost at most, whichever rows of whichever result it names:
\* a second row of a variant is a duplicate, and a result lives as long as no match replaces it.
OneCostPerVariant ==
  \A a, b \in applied :
    a.by = b.by /\ Matched[a.read][a.row] = Matched[b.read][b.row] => a = b

\* CostUploadFlow.jsx sends every matched row of the result on the screen, and on a 200 says
\* "Done. {result.rows_matched} costs applied": the rows it names were written.
DoneMeansApplied ==
  \A r \in Request, result \in shown :
    /\ pc[r] = "done" /\ ask[r].ids # {}
    /\ ask[r].ids = {RowId(result.match, row) : row \in DOMAIN Matched[result.read]}
    => \A row \in DOMAIN Matched[result.read] :
         \E a \in applied : a.by = r /\ a.row = row

-------------------------------------------------------------------------------
(* What the proofs of UploadProofs stand on. *)

\* A result is what one match read, and stays that once the match has it.
Made(result) ==
  /\ result.match \in Request /\ result.read \in DOMAIN Matched
  /\ pc[result.match] \in {"match_put", "match_write", "done", "failed"}
  /\ seen[result.match].rows = result

\* The results in the store, in a client's hands, and in a handler's.
Results ==
  ({rows} \ {NoRows}) \cup shown \cup
  {seen[r].rows : r \in {r \in Request : pc[r] \in {"match_put", "match_write", "apply_write"}}}

ResultInv == \A result \in Results : Made(result)

\* A match has its own result in hand; past the store, the store has one.
HandInv ==
  \A r \in Request :
    /\ pc[r] \in {"match_put", "match_write"} => seen[r].rows.match = r
    /\ pc[r] \in {"match_write", "apply_write"} => rows # NoRows

AskInv ==
  \A r \in Request : \A id \in ask[r].ids : \E result \in shown : id \in Ids(result)

\* A cost is of the result its request read, and a request's key is its own.
AppliedInv ==
  \A a \in applied :
    /\ pc[a.by] = "done"
    /\ a.match = seen[a.by].rows.match /\ a.read = seen[a.by].rows.read
    /\ a.read \in DOMAIN Matched /\ a.row \in DOMAIN Matched[a.read]
    /\ ask[a.by].key # NoKey => keys[ask[a.by].key] = a.by

IInv ==
  TypeOK /\ ResultInv /\ HandInv /\ AskInv /\ AppliedInv
    /\ AppliedWasShown /\ MatchedHasRows
===============================================================================
