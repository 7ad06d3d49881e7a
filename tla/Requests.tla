-------------------------------- MODULE Requests --------------------------------
(***************************************************************************)
(* What the back office's writing operations share: a request that carries *)
(* an Idempotency-Key or none, and the table of keys (idempotency.py).     *)
(* Every handler replays first and records last, in the transaction of its *)
(* write.  A key's row holds the digest and the answer of the request that *)
(* recorded it, so the table is a set of requests.                         *)
(*                                                                         *)
(* That a key is kept for 24 hours, and what two requests do to each other *)
(* at that boundary, is StockAdjustment's subject: here no key expires.    *)
(***************************************************************************)
EXTENDS Integers, FiniteSets, Sequences

CONSTANTS
  Request, NoRequest,
  Key, NoKey        \* the values of the header; without one, NoKey

ASSUME RequestsAssumption == NoRequest \notin Request /\ NoKey \notin Key

VARIABLES
  pc,
  ask,          \* [Request -> [op, what, key]], what the client sends
  answer,       \* [Request -> [status, of]], whose work the answer reports
  recorded      \* idempotency_keys: the requests that recorded their key

requestVars == <<pc, ask, answer, recorded>>

NothingAsked == [op |-> "none", what |-> [none |-> TRUE], key |-> NoKey]
NoAnswer     == [status |-> "none", of |-> NoRequest]

RequestsInit ==
  /\ pc = [r \in Request |-> "idle"]
  /\ ask = [r \in Request |-> NothingAsked]
  /\ answer = [r \in Request |-> NoAnswer]
  /\ recorded = {}

Goto(r, place) == pc' = [pc EXCEPT ![r] = place]

Open(r) == pc[r] \notin {"idle", "done"}

Send(r, op, what, key, place) ==
  /\ pc[r] = "idle"
  /\ ask' = [ask EXCEPT ![r] = [op |-> op, what |-> what, key |-> key]]
  /\ Goto(r, place)
  /\ UNCHANGED <<answer, recorded>>

\* The handler answers; what it did is committed or rolled back with it.
Close(r, status, of) ==
  /\ Goto(r, "done")
  /\ answer' = [answer EXCEPT ![r] = [status |-> status, of |-> of]]
  /\ UNCHANGED ask

Refuse(r, status) == Close(r, status, NoRequest) /\ UNCHANGED recorded

\* The requests that hold the key this one carries, for its operation.
Holders(r) ==
  {q \in recorded : ask[r].key # NoKey /\ ask[q].op = ask[r].op /\ ask[q].key = ask[r].key}

\* Mutant: the digest of the request is not compared.
ReplayAny(r, place) ==
  /\ pc[r] = "replay"
  /\ IF Holders(r) = {}
       THEN Goto(r, place) /\ UNCHANGED <<ask, answer, recorded>>
       ELSE \E q \in Holders(r) : Close(r, "created", q) /\ UNCHANGED recorded

\* replay(): the stored answer, idempotency_key_reused, or on with the request.
Replay(r, place) ==
  /\ pc[r] = "replay"
  /\ IF Holders(r) = {}
       THEN Goto(r, place) /\ UNCHANGED <<ask, answer, recorded>>
       ELSE \E q \in Holders(r) :
              IF ask[q].what = ask[r].what
                THEN Close(r, "created", q) /\ UNCHANGED recorded
                ELSE Refuse(r, "reused")

\* record() and the commit: the key is the first to be recorded, or there is none.
Record(r) ==
  /\ Holders(r) = {}
  /\ Close(r, "created", r)
  /\ recorded' = IF ask[r].key = NoKey THEN recorded ELSE recorded \cup {r}

\* record() meets the key of a request that committed since: 500, all rolled back.
KeyTaken(r) == Holders(r) # {} /\ Refuse(r, "duplicate")
===============================================================================
