--------------------------------- MODULE Exports --------------------------------
(***************************************************************************)
(* Files a seller asks for and fetches again: create_export and get_export *)
(* (exports.py), request_account_export and download_account_export        *)
(* (me.py), through the object store's client (storage.py).                *)
(*                                                                         *)
(* The store is not in the transaction.  A shop export has a row, an       *)
(* account export only the answer its key keeps.  A call of the store is   *)
(* made with a credential that all threads share in one module global, and *)
(* that the store may stop to accept at any time: a 404 means that, or     *)
(* that there is no such object, and the call is made once more with a     *)
(* credential minted for it.                                               *)
(***************************************************************************)
EXTENDS Requests

CONSTANTS
  Form,         \* what can be exported of a shop: kind, format, basis, period
  MaxEpoch      \* BOUND: how often the store drops the credentials it gave, plus one

ASSUME ExportsAssumption == MaxEpoch \in Nat \ {0}

VARIABLES
  objects,      \* the store: [id -> its content], an object is named by who put it
  exports,      \* rows of exports, by the request that inserted them
  session,      \* storage._session_key: a credential, 0 for None
  epoch,        \* the store accepts the credentials of this epoch
  cred,         \* [Request -> the credential its call uses]
  stale         \* history: requests whose call of the store met a dropped credential on its way

exportVars == <<objects, exports, session, epoch, cred, stale>>

ExportOps == {"createExport", "requestAccountExport"}
FetchOps  == {"getExport", "downloadAccountExport"}

ExportsInit ==
  /\ objects = [id \in {} |-> "none"]
  /\ exports = {}
  /\ session = 0 /\ epoch = 1
  /\ cred = [r \in Request |-> 0]
  /\ stale = {}

\* A call of the store, from its first look at the credential to its answer.
Calling(r) == pc[r] \in {"take", "call", "mint", "keep", "return", "remint", "rekeep", "rereturn", "recall"}

\* The store drops its credentials.
DropCredentials ==
  /\ epoch < MaxEpoch
  /\ epoch' = epoch + 1
  /\ stale' = stale \cup {r \in Request : Calling(r)}
  /\ UNCHANGED <<requestVars, objects, exports, session, cred>>

-------------------------------------------------------------------------------
(* storage.py *)

Unanswered == UNCHANGED <<ask, answer, recorded>>

\* _init(): the credential in the global, or a new one.
TakeSession(r) ==
  /\ pc[r] = "take"
  /\ IF session # 0
       THEN cred' = [cred EXCEPT ![r] = session] /\ Goto(r, "call")
       ELSE Goto(r, "mint") /\ UNCHANGED cred
  /\ Unanswered
  /\ UNCHANGED <<objects, exports, session, epoch, stale>>

\* The store mints a credential; its answer is on the way.
Mint(r) ==
  /\ pc[r] \in {"mint", "remint"}
  /\ cred' = [cred EXCEPT ![r] = epoch]
  /\ Goto(r, IF pc[r] = "mint" THEN "keep" ELSE "rekeep")
  /\ Unanswered
  /\ UNCHANGED <<objects, exports, session, epoch, stale>>

\* The answer is kept for everyone, over whatever another thread has kept since.  One that
\* was dropped on its way is in the way of every call that is being made.
KeepSession(r) ==
  /\ pc[r] \in {"keep", "rekeep"}
  /\ session' = cred[r]
  /\ cred' = [cred EXCEPT ![r] = 0]
  /\ stale' = IF cred[r] = epoch THEN stale ELSE stale \cup {q \in Request : Calling(q)}
  /\ Goto(r, IF pc[r] = "keep" THEN "return" ELSE "rereturn")
  /\ Unanswered
  /\ UNCHANGED <<objects, exports, epoch>>

\* "return _session_key" reads the global, which may be another's by now.
ReturnSession(r) ==
  /\ pc[r] \in {"return", "rereturn"}
  /\ cred' = [cred EXCEPT ![r] = session]
  /\ Goto(r, IF pc[r] = "return" THEN "call" ELSE "recall")
  /\ Unanswered
  /\ UNCHANGED <<objects, exports, session, epoch, stale>>

\* The object a call names: one's own to put, the one asked for to get.
Named(r) == IF ask[r].op \in ExportOps THEN r ELSE ask[r].what.id

Accepted(r) ==
  /\ cred[r] = epoch
  /\ ask[r].op \in FetchOps => Named(r) \in DOMAIN objects

PutOrGet(r) ==
  IF ask[r].op \in ExportOps
    THEN /\ objects' = [id \in DOMAIN objects \cup {r} |-> IF id = r THEN ask[r].what ELSE objects[id]]
         /\ Goto(r, "insert") /\ Unanswered
    ELSE Close(r, "fetched", Named(r)) /\ UNCHANGED <<objects, recorded>>

\* A call that got its answer has no more use for its credential.
Done(r) ==
  /\ cred' = [cred EXCEPT ![r] = 0]
  /\ stale' = stale \ {r}

\* Mutant: a second call looks at the global again, without force.
CallStoreUnforced(r) ==
  /\ pc[r] \in {"call", "recall"}
  /\ IF Accepted(r) THEN PutOrGet(r) /\ Done(r)
     ELSE IF pc[r] = "call"
       THEN /\ cred' = [cred EXCEPT ![r] = session]
            /\ Goto(r, "recall") /\ Unanswered /\ UNCHANGED <<objects, stale>>
       ELSE Refuse(r, "unavailable") /\ UNCHANGED <<objects, cred, stale>>
  /\ UNCHANGED <<exports, session, epoch>>

\* put_object, get_object: 404, once more after _init(force=True), then raise_for_status.
CallStore(r) ==
  /\ pc[r] \in {"call", "recall"}
  /\ IF Accepted(r) THEN PutOrGet(r) /\ Done(r)
     ELSE /\ IF pc[r] = "call" THEN Goto(r, "remint") /\ Unanswered
             ELSE Refuse(r, "unavailable")
          /\ UNCHANGED <<objects, cred, stale>>
  /\ UNCHANGED <<exports, session, epoch>>

-------------------------------------------------------------------------------
(* create_export and request_account_export *)

\* An account's export is of all there is: its digest is of the account alone.
Exportable(op) == IF op = "createExport" THEN Form ELSE {"account"}

SendExport(r, op, form, key) ==
  /\ Send(r, op, [form |-> form], key, "replay")
  /\ UNCHANGED exportVars

\* Mutant: the job is recorded before its file is put.
ReplayExportEarly(r) ==
  /\ ask[r].op \in ExportOps
  /\ Replay(r, "insert")
  /\ UNCHANGED exportVars

\* The file is built from the ledger when the key is new.
ReplayExport(r) ==
  /\ ask[r].op \in ExportOps
  /\ Replay(r, "take")
  /\ UNCHANGED exportVars

InsertExport(r) ==
  /\ ask[r].op \in ExportOps /\ pc[r] = "insert"
  /\ Record(r)
  /\ exports' = IF ask[r].op = "createExport" THEN exports \cup {r} ELSE exports
  /\ UNCHANGED <<objects, session, epoch, cred, stale>>

ExportKeyTaken(r) ==
  /\ ask[r].op \in ExportOps /\ pc[r] = "insert"
  /\ KeyTaken(r)
  /\ UNCHANGED exportVars

-------------------------------------------------------------------------------
(* get_export?download=1 and download_account_export *)

SendFetch(r, op, id) ==
  /\ Send(r, op, [id |-> id], NoKey, IF op = "getExport" THEN "row" ELSE "take")
  /\ UNCHANGED exportVars

\* A shop export is looked up; an account export is the path its id spells.
ReadExport(r) ==
  /\ ask[r].op = "getExport" /\ pc[r] = "row"
  /\ IF ask[r].what.id \in exports
       THEN Goto(r, "take") /\ Unanswered
       ELSE Refuse(r, "refused")
  /\ UNCHANGED exportVars

-------------------------------------------------------------------------------
\* A call of the store that is in its path fails, or the process dies.
ExportsCrash(r) ==
  /\ ask[r].op \in ExportOps \cup FetchOps /\ Open(r)
  /\ Refuse(r, "error")
  /\ Done(r)
  /\ UNCHANGED <<objects, exports, session, epoch>>

ExportsServe(r) ==
  \/ TakeSession(r) \/ Mint(r) \/ KeepSession(r) \/ ReturnSession(r) \/ CallStore(r)
  \/ ReplayExport(r) \/ InsertExport(r) \/ ExportKeyTaken(r)
  \/ ReadExport(r)

\* A browser fetches what an answered job names.
Jobs(op) == {answer[q].of : q \in {q \in Request : ask[q].op = op /\ answer[q].status = "created"}}

ExportsNext ==
  \/ \E r \in Request :
       \/ \E op \in ExportOps, key \in Key \cup {NoKey} :
            \E form \in Exportable(op) : SendExport(r, op, form, key)
       \/ \E id \in Jobs("createExport") : SendFetch(r, "getExport", id)
       \/ \E id \in Jobs("requestAccountExport") : SendFetch(r, "downloadAccountExport", id)
       \/ ExportsServe(r) \/ ExportsCrash(r)
  \/ DropCredentials

-------------------------------------------------------------------------------
\* A job that reads ready has its file, of what was asked, whatever failed in between:
\* storage.py, "exports.storage_key in the database is the source of truth for what exists".
ReadyHasObject ==
  \A r \in Request :
    ask[r].op \in ExportOps /\ (r \in exports \/ answer[r].status = "created") =>
      LET id == IF r \in exports THEN r ELSE answer[r].of
      IN  id \in DOMAIN objects /\ objects[id] = ask[r].what

\* However many threads renew the shared credential, a call of the store fails for want of
\* one only if, while it was made, the store dropped a credential or a renewal older than the
\* last drop was kept: storage.py, "re-init with force=True once before giving up".
StaleIsRecovered ==
  \A r \in Request : answer[r].status = "unavailable" => r \in stale
===============================================================================
