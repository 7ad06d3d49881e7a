------------------------------- MODULE Backoffice -------------------------------
(***************************************************************************)
(* Decisions and Exports in one service: requests of every kind share the  *)
(* pool of threads and the table of keys.                                  *)
(***************************************************************************)
EXTENDS Decisions, Exports

vars == <<requestVars, decisionVars, exportVars>>

Init == RequestsInit /\ DecisionsInit /\ ExportsInit

Next ==
  \/ DecisionsNext /\ UNCHANGED exportVars
  \/ ExportsNext /\ UNCHANGED decisionVars

Spec == Init /\ [][Next]_vars

-------------------------------------------------------------------------------
\* Every operation that takes a key, seen from outside.  Its keys are its own.
KeyedOps == {"resolve"} \cup ExportOps

KeyedOp(r) == ask[r].op \in KeyedOps

ASSUME BackofficeAssumption == NoKey \notin KeyedOps \X Key

\* The digest covers what is asked of the operation; the key belongs to the operation.
KeyedAsk(r) ==
  IF KeyedOp(r)
    THEN [key |-> IF ask[r].key = NoKey THEN NoKey ELSE <<ask[r].op, ask[r].key>>,
          body |-> ask[r].what, at |-> 0]
    ELSE [key |-> NoKey, body |-> NothingAsked.what, at |-> 0]

KeyedAnswer(r) ==
  IF ~KeyedOp(r) THEN NoAnswer
  ELSE IF answer[r].status = "unavailable" THEN [status |-> "error", of |-> NoRequest]
  ELSE answer[r]

Once == INSTANCE AtMostOnce WITH
  Key <- KeyedOps \X Key,
  Body <- [row : Row, resolution : Resolution, value : Value \cup {NoValue}]
            \cup [form : Form \cup {"account"}] \cup {NothingAsked.what},
  Retain <- 0,
  stage <- [r \in Request |-> IF ~KeyedOp(r) THEN "idle" ELSE IF pc[r] = "done" THEN "done" ELSE "open"],
  asked <- [r \in Request |-> KeyedAsk(r)],
  answer <- [r \in Request |-> KeyedAnswer(r)],
  applied <- {r \in Request : KeyedOp(r) /\ answer[r] = [status |-> "created", of |-> r]}

\* idempotency.py, "a repeat with the same key returns the first result rather than acting
\* twice", of resolutions and of both kinds of export.
KeysKeepPromise == Once!Spec

-------------------------------------------------------------------------------
(* What the proofs of BackofficeProofs stand on. *)

Ops == {"none", "update"} \cup KeyedOps \cup FetchOps

\* What a request of each operation carries.
What ==
  [none   |-> {NothingAsked.what},
   resolve |-> [row : Row, resolution : Resolution, value : Value \cup {NoValue}],
   update  |-> [row : Row, to : NoteStatus],
   createExport |-> [form : Form \cup {"account"}],
   requestAccountExport |-> [form : Form \cup {"account"}],
   getExport |-> [id : Request],
   downloadAccountExport |-> [id : Request]]

AnyWhat == UNION {What[op] : op \in Ops}

Statuses == {"none", "created", "fetched", "refused", "reused", "duplicate", "error", "unavailable"}

StorePlaces == {"take", "call", "mint", "keep", "return", "remint", "rekeep", "rereturn", "recall"}

\* Where a request of each operation can be.
Places ==
  [none   |-> {"idle"},
   resolve |-> {"replay", "lock", "commit", "done"},
   update  |-> {"lock", "commit", "done"},
   createExport |-> {"replay", "insert", "done"} \cup StorePlaces,
   requestAccountExport |-> {"replay", "insert", "done"} \cup StorePlaces,
   getExport |-> {"row", "done"} \cup StorePlaces,
   downloadAccountExport |-> {"done"} \cup StorePlaces]

TypeOK ==
  /\ pc \in [Request -> {"idle", "replay", "lock", "commit", "row", "insert", "done"} \cup StorePlaces]
  /\ ask \in [Request -> [op : Ops, what : AnyWhat, key : Key \cup {NoKey}]]
  /\ answer \in [Request -> [status : Statuses, of : Request \cup {NoRequest}]]
  /\ recorded \subseteq Request
  /\ DecisionsTypeOK
  /\ DOMAIN objects \subseteq Request /\ exports \subseteq Request /\ stale \subseteq Request
  /\ session \in Nat /\ epoch \in Nat /\ cred \in [Request -> Nat]

\* A request carries what its operation does, is where its operation can be, and has no answer
\* before it is done.
AskInv ==
  \A r \in Request :
    /\ ask[r].what \in What[ask[r].op]
    /\ pc[r] \in Places[ask[r].op]
    /\ pc[r] # "done" => answer[r] = NoAnswer
    /\ ask[r].op \notin KeyedOps => ask[r].key = NoKey

\* Between the lock and the commit the row is as the handler read it.
HeldInv ==
  \A r \in Request :
    pc[r] = "commit" =>
      /\ ask[r].op = "resolve" => held.discrepancies[ask[r].what.row] = r /\ Resolvable(r)
      /\ ask[r].op = "update" =>
           /\ held.notifications[ask[r].what.row] = r
           /\ ORDER[notes[ask[r].what.row]] <= ORDER[ask[r].what.to]

\* An object is what its request asked for; who is past the put, and what an answer names, has one.
ObjectInv ==
  /\ \A id \in DOMAIN objects : ask[id].op \in ExportOps /\ objects[id] = ask[id].what
  /\ \A r \in Request :
       /\ pc[r] = "insert" => r \in DOMAIN objects
       /\ ask[r].op \in FetchOps => ask[r].what.id \in DOMAIN objects
       /\ ask[r].op \in ExportOps /\ answer[r].status = "created" => answer[r].of \in DOMAIN objects
  /\ exports \subseteq DOMAIN objects

\* Who recorded a key did what it asked for, and every keyed effect is recorded.
RecordInv ==
  /\ \A r \in recorded :
       pc[r] = "done" /\ answer[r] = [status |-> "created", of |-> r] /\ ask[r].op \in KeyedOps
  /\ \A r \in Request :
       answer[r] = [status |-> "created", of |-> r] /\ ask[r].op \in KeyedOps /\ ask[r].key # NoKey
         => r \in recorded

\* A second call of the store has the credential of the hour, or one was dropped meanwhile.
CredInv ==
  \A r \in Request \ stale :
    /\ pc[r] \in {"rekeep", "recall"} => cred[r] = epoch
    /\ pc[r] = "rereturn" => session = epoch

IInv == TypeOK /\ AskInv /\ HeldInv /\ ObjectInv /\ RecordInv /\ CredInv /\ ReadyHasObject /\ StaleIsRecovered
===============================================================================
