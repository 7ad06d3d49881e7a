------------------------------- MODULE AdjustForm -------------------------------
(***************************************************************************)
(* The web form that calls createStockAdjustment (AdjustForm.jsx) over the *)
(* one way the web talks to the service (web/src/lib/api.js), composed     *)
(* with the service itself.                                                *)
(*                                                                         *)
(* One seller wishes for one adjustment and presses Save until the form    *)
(* says it was saved.  Every press carries a fresh key (newKey()).         *)
(***************************************************************************)
EXTENDS StockAdjustment

CONSTANTS
  FormSku, FormQuantity     \* the adjustment the seller wishes for

ASSUME WishAssumption == FormSku \in Sku /\ FormQuantity \in Quantity \ {0}

VARIABLES
  awaiting,     \* the request the form waits for, or NoRequest: busy
  told,         \* [Request -> what api() returned to the form]
  saved         \* the form was cleared: the seller believes it is done

formVars == <<awaiting, told, saved>>

FormInit ==
  /\ Init
  /\ awaiting = NoRequest
  /\ told = [r \in Request |-> "nothing"]
  /\ saved = FALSE

\* save(): the button is disabled while busy, the key is new at every press.
Save(r, k) ==
  /\ ~saved /\ awaiting = NoRequest
  /\ \A p \in Request : KeyOf(p) # k
  /\ Submit(r, k, FormSku, FormQuantity)
  /\ awaiting' = r
  /\ UNCHANGED <<told, saved>>

\* Mutant: every answer but a failure clears the form.
HearAnyAnswer(r) ==
  /\ awaiting = r /\ pc[r] = "done"
  /\ awaiting' = NoRequest
  /\ told' = [told EXCEPT ![r] = IF answer[r].status = "error" THEN "refused" ELSE "saved"]
  /\ saved' = (answer[r].status # "error")
  /\ UNCHANGED vars

\* api(): the answer arrives before the timer.
Hear(r) ==
  /\ awaiting = r /\ pc[r] = "done"
  /\ awaiting' = NoRequest
  /\ told' = [told EXCEPT ![r] = IF answer[r].status = "created" THEN "saved" ELSE "refused"]
  /\ saved' = (answer[r].status = "created")
  /\ UNCHANGED vars

\* api(): fetch() rejects, on its 15 second timer or on the network, whatever the
\* service has done or is still doing with the request.
Lose(r) ==
  /\ awaiting = r
  /\ awaiting' = NoRequest
  /\ told' = [told EXCEPT ![r] = "unreachable"]
  /\ UNCHANGED <<vars, saved>>

Service ==
  /\ \/ \E r \in Request : Serve(r) \/ Crash(r)
     \/ \E s \in Sku, n \in 0 .. MaxStock : Sync(s, n)
     \/ Tick
  /\ UNCHANGED formVars

FormNext ==
  \/ \E r \in Request : Hear(r) \/ Lose(r) \/ \E k \in Key : Save(r, k)
  \/ Service

FormSpec == FormInit /\ [][FormNext]_<<vars, formVars>>

-------------------------------------------------------------------------------
\* While no answer is lost, the form is exact: one wish moves the count at most once,
\* over refusals, failures and presses of Save, and "saved" means it moved.
AnsweredFormIsExact ==
  (\A r \in Request : told[r] # "unreachable")
    => /\ Cardinality(applied) <= 1
       /\ saved => Cardinality(applied) = 1

\* AdjustForm.jsx, "MyShopEdge could not be reached, so nothing was changed".
UnreachableChangesNothing ==
  \A r \in Request : told[r] = "unreachable" => r \notin applied

\* schema/0023: a key is there so that "a request retried after a dropped connection"
\* does not "move the count twice".
RetryMovesCountOnce == Cardinality(applied) <= 1

-------------------------------------------------------------------------------
(* What the proof of AnsweredFormIsExact stands on. *)

\* The form waits for a request it sent and has heard nothing of, and knows nothing of one
\* that is not sent; every request it sent has a key of its own.
FormTypeOK ==
  /\ awaiting \in Request \cup {NoRequest}
  /\ told \in [Request -> {"nothing", "saved", "refused", "unreachable"}]
  /\ saved \in BOOLEAN

FreshKeyInv ==
  /\ \A r \in Request : pc[r] = "idle" \/ awaiting = r => told[r] = "nothing"
  /\ awaiting # NoRequest => pc[awaiting] # "idle"
  /\ \A r \in Request : pc[r] # "idle" =>
       KeyOf(r) # NoKey /\ \A p \in Request : p # r /\ pc[p] # "idle" => KeyOf(p) # KeyOf(r)

\* A movement was answered with 201.
MovedInv == \A p \in applied : answer[p].status = "created"

\* While no answer is lost every other request is over, and the one that moved the count is
\* the one the form waits for or the one that cleared it.
HeardInv ==
  (\A r \in Request : told[r] # "unreachable") =>
    /\ \A r \in Request : pc[r] = "idle" \/ pc[r] = "done" \/ awaiting = r
    /\ saved => awaiting = NoRequest /\ \E r \in Request : applied = {r}
    /\ ~saved => applied \subseteq {awaiting}

FormInv == IInv /\ FormTypeOK /\ FreshKeyInv /\ MovedInv /\ HeardInv
===============================================================================
