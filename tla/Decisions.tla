-------------------------------- MODULE Decisions -------------------------------
(***************************************************************************)
(* What a seller decides about a shop's discrepancies and notices:         *)
(* discrepancies.py, notifications.py, over the tables of those names and  *)
(* change_log.  Both writers lock the row before they look at its status.  *)
(***************************************************************************)
EXTENDS Requests

CONSTANTS
  MaxRow,             \* BOUND: discrepancies are 1 .. MaxRow, and so are notices
  Kind,               \* the kinds of discrepancy
  Resolution,         \* accepted_tiktok, corrected_seller, explained
  Value, NoValue      \* what the seller's record says of the disputed fact

ASSUME DecisionsAssumption ==
  /\ MaxRow \in Nat
  /\ NoValue \notin Value
  /\ "corrected_seller" \in Resolution

VARIABLES
  disc,         \* [Row -> [kind, status, resolution, seller]]
  notes,        \* [Row -> status of the notification]
  held,         \* [table -> [Row -> the request whose transaction locks the row]]
  log           \* change_log: what each resolution replaced, by what

decisionVars == <<disc, notes, held, log>>

Row == 1 .. MaxRow

NoteStatus == {"unread", "read", "done"}
ORDER == [unread |-> 0, read |-> 1, done |-> 2]

TIKTOK_OWNED_KINDS == {"amount", "unmapped_fee"}

Fresh(kind) == [kind |-> kind, status |-> "open", resolution |-> "none", seller |-> NoValue]
Unheld == [row \in Row |-> NoRequest]

DecisionsInit ==
  /\ disc \in [Row -> {Fresh(kind) : kind \in Kind}]
  /\ notes = [row \in Row |-> "unread"]
  /\ held = [discrepancies |-> Unheld, notifications |-> Unheld]
  /\ log = <<>>

-------------------------------------------------------------------------------
(* resolve_discrepancy *)

SendResolve(r, d, resolution, value, key) ==
  /\ Send(r, "resolve", [row |-> d, resolution |-> resolution, value |-> value], key, "replay")
  /\ UNCHANGED decisionVars

\* A correction without a value, refused before the transaction.
EmptyCorrection(r) ==
  ask[r].what.resolution = "corrected_seller" /\ ask[r].what.value = NoValue

RefuseEmpty(r) ==
  /\ ask[r].op = "resolve" /\ pc[r] = "replay" /\ EmptyCorrection(r)
  /\ Refuse(r, "refused")
  /\ UNCHANGED decisionVars

ReplayResolve(r) ==
  /\ ask[r].op = "resolve" /\ pc[r] = "replay" /\ ~EmptyCorrection(r)
  /\ Replay(r, "lock")
  /\ UNCHANGED decisionVars

Hold(table, r) ==
  /\ held[table][ask[r].what.row] = NoRequest
  /\ held' = [held EXCEPT ![table][ask[r].what.row] = r]

Release(r) ==
  held' = [table \in DOMAIN held |->
            [row \in Row |-> IF held[table][row] = r THEN NoRequest ELSE held[table][row]]]

\* already_resolved, not_correctable
Resolvable(r) ==
  /\ disc[ask[r].what.row].status = "open"
  /\ ask[r].what.resolution = "corrected_seller" =>
       disc[ask[r].what.row].kind \notin TIKTOK_OWNED_KINDS

\* Mutant: the row is read without "for update".
ReadDiscrepancy(r) ==
  /\ ask[r].op = "resolve" /\ pc[r] = "lock"
  /\ IF Resolvable(r)
       THEN Goto(r, "commit") /\ UNCHANGED <<ask, answer, recorded>>
       ELSE Refuse(r, "refused")
  /\ UNCHANGED <<disc, notes, held, log>>

\* "select ... for update": waits for the row, then looks at what is committed.
LockDiscrepancy(r) ==
  /\ ask[r].op = "resolve" /\ pc[r] = "lock"
  /\ held.discrepancies[ask[r].what.row] = NoRequest
  /\ IF Resolvable(r)
       THEN Hold("discrepancies", r) /\ Goto(r, "commit") /\ UNCHANGED <<ask, answer, recorded>>
       ELSE Refuse(r, "refused") /\ UNCHANGED held
  /\ UNCHANGED <<disc, notes, log>>

\* A correction changes the seller's record and nothing else of what is disputed.
Resolved(r) ==
  [disc[ask[r].what.row] EXCEPT
    !.status = "resolved",
    !.resolution = ask[r].what.resolution,
    !.seller = IF ask[r].what.resolution = "corrected_seller" THEN ask[r].what.value ELSE @]

\* The update, the change_log entry and the key, committed together.
CommitResolve(r) ==
  LET d == ask[r].what.row IN
  /\ ask[r].op = "resolve" /\ pc[r] = "commit"
  /\ Record(r)
  /\ disc' = [disc EXCEPT ![d] = Resolved(r)]
  /\ log' = Append(log, [of |-> d, old |-> disc[d], new |-> Resolved(r)])
  /\ Release(r)
  /\ UNCHANGED <<notes>>

ResolveKeyTaken(r) ==
  /\ ask[r].op = "resolve" /\ pc[r] = "commit"
  /\ KeyTaken(r)
  /\ Release(r)
  /\ UNCHANGED <<disc, notes, log>>

-------------------------------------------------------------------------------
(* update_notification *)

SendUpdate(r, n, status) ==
  /\ Send(r, "update", [row |-> n, to |-> status], NoKey, "lock")
  /\ UNCHANGED decisionVars

LockNotification(r) ==
  /\ ask[r].op = "update" /\ pc[r] = "lock"
  /\ held.notifications[ask[r].what.row] = NoRequest
  /\ IF ORDER[ask[r].what.to] < ORDER[notes[ask[r].what.row]]
       THEN Refuse(r, "refused") /\ UNCHANGED held
       ELSE /\ Hold("notifications", r)
            /\ Goto(r, "commit") /\ UNCHANGED <<ask, answer, recorded>>
  /\ UNCHANGED <<disc, notes, log>>

CommitUpdate(r) ==
  /\ ask[r].op = "update" /\ pc[r] = "commit"
  /\ notes' = [notes EXCEPT ![ask[r].what.row] = ask[r].what.to]
  /\ Record(r)
  /\ Release(r)
  /\ UNCHANGED <<disc, log>>

-------------------------------------------------------------------------------
DecisionsServe(r) ==
  \/ RefuseEmpty(r) \/ ReplayResolve(r) \/ LockDiscrepancy(r)
  \/ CommitResolve(r) \/ ResolveKeyTaken(r)
  \/ LockNotification(r) \/ CommitUpdate(r)

\* The process or the connection dies before the commit.
DecisionsCrash(r) ==
  /\ ask[r].op \in {"resolve", "update"} /\ Open(r)
  /\ Refuse(r, "error")
  /\ Release(r)
  /\ UNCHANGED <<disc, notes, log>>

DecisionsNext ==
  \E r \in Request :
       \/ \E d \in Row, key \in Key \cup {NoKey} :
            \/ \E resolution \in Resolution : SendResolve(r, d, resolution, NoValue, key)
            \/ \E value \in Value : SendResolve(r, d, "corrected_seller", value, key)
       \/ \E n \in Row, status \in {"read", "done"} : SendUpdate(r, n, status)
       \/ DecisionsServe(r) \/ DecisionsCrash(r)

-------------------------------------------------------------------------------
DecisionsTypeOK ==
  /\ disc \in [Row -> [kind : Kind, status : {"open", "resolved"},
                       resolution : Resolution \cup {"none"}, seller : Value \cup {NoValue}]]
  /\ notes \in [Row -> NoteStatus]
  /\ held \in [{"discrepancies", "notifications"} -> [Row -> Request \cup {NoRequest}]]

\* What a seller decided stands, whatever else is decided at the same time: a resolved
\* discrepancy never changes, a notice never goes back (notifications.py, "cannot go back"),
\* and each resolution adds the one change_log entry that says what it replaced, by what
\* (discrepancies.py, "resolving closes the flag, writes a log entry each time").
DecisionsStand ==
  [][LET changed == {d \in Row : disc'[d] # disc[d]} IN
     /\ \A d \in changed : disc[d].status = "open" /\ disc'[d].status = "resolved"
     /\ \A n \in Row : ORDER[notes'[n]] >= ORDER[notes[n]]
     /\ \/ changed = {} /\ log' = log
        \/ \E d \in Row : /\ changed = {d}
                          /\ log' = Append(log, [of |-> d, old |-> disc[d], new |-> disc'[d]])
    ]_decisionVars
===============================================================================
