---------------------------- MODULE BackofficeProofs ----------------------------
(* Proofs about Backoffice for any number of requests, keys, rows and credentials. *)
EXTENDS Backoffice, TLAPS

\* What an operation carries is among what any may carry.
LEMMA WhatIsKnown == \A op \in Ops : \A w \in What[op] : w \in AnyWhat
BY DEF AnyWhat

\* Which operations come to a place.
LEMMA WhoIsThere ==
  \A op \in Ops :
    /\ "idle" \in Places[op] <=> op = "none"
    /\ "done" \in Places[op] <=> op # "none"
    /\ "replay" \in Places[op] <=> op \in KeyedOps
    /\ "lock" \in Places[op] <=> op \in {"resolve", "update"}
    /\ "commit" \in Places[op] <=> op \in {"resolve", "update"}
    /\ "insert" \in Places[op] <=> op \in ExportOps
    /\ "row" \in Places[op] <=> op = "getExport"
    /\ \A place \in StorePlaces : place \in Places[op] <=> op \in ExportOps \cup FetchOps
<1> USE DEF Places, StorePlaces, ExportOps, FetchOps, KeyedOps
<1> SUFFICES ASSUME NEW op \in Ops
             PROVE  /\ "idle" \in Places[op] <=> op = "none"
                    /\ "done" \in Places[op] <=> op # "none"
                    /\ "replay" \in Places[op] <=> op \in KeyedOps
                    /\ "lock" \in Places[op] <=> op \in {"resolve", "update"}
                    /\ "commit" \in Places[op] <=> op \in {"resolve", "update"}
                    /\ "insert" \in Places[op] <=> op \in ExportOps
                    /\ "row" \in Places[op] <=> op = "getExport"
                    /\ \A place \in StorePlaces : place \in Places[op] <=> op \in ExportOps \cup FetchOps
  OBVIOUS
<1>1. CASE op \in {"none", "resolve", "update"}
  BY <1>1
<1>2. CASE op \in ExportOps
  BY <1>2
<1>3. CASE op \in FetchOps
  BY <1>3
<1> QED
  BY <1>1, <1>2, <1>3 DEF Ops

\* What a request of each operation carries, spelt out.
LEMMA Carried ==
  ASSUME AskInv, NEW r \in Request
  PROVE  /\ ask[r].op = "resolve" =>
              ask[r].what \in [row : Row, resolution : Resolution, value : Value \cup {NoValue}]
         /\ ask[r].op = "update" => ask[r].what \in [row : Row, to : NoteStatus]
         /\ ask[r].op \in ExportOps => ask[r].what \in [form : Form \cup {"account"}]
         /\ ask[r].op \in FetchOps => ask[r].what \in [id : Request]
<1>1. ask[r].what \in What[ask[r].op]
  BY DEF AskInv
<1>2. CASE ask[r].op = "resolve"
  BY <1>1, <1>2 DEF What, ExportOps, FetchOps
<1>3. CASE ask[r].op = "update"
  BY <1>1, <1>3 DEF What, ExportOps, FetchOps
<1>4. CASE ask[r].op = "createExport"
  BY <1>1, <1>4 DEF What, ExportOps, FetchOps
<1>5. CASE ask[r].op = "requestAccountExport"
  BY <1>1, <1>5 DEF What, ExportOps, FetchOps
<1>6. CASE ask[r].op = "getExport"
  BY <1>1, <1>6 DEF What, ExportOps, FetchOps
<1>7. CASE ask[r].op = "downloadAccountExport"
  BY <1>1, <1>7 DEF What, ExportOps, FetchOps
<1> QED
  BY <1>2, <1>3, <1>4, <1>5, <1>6, <1>7 DEF ExportOps, FetchOps

\* A release gives up the rows of one request and no other.
LEMMA Released ==
  ASSUME TypeOK, NEW r \in Request, Release(r)
  PROVE  /\ held' \in [{"discrepancies", "notifications"} -> [Row -> Request \cup {NoRequest}]]
         /\ \A table \in {"discrepancies", "notifications"}, row \in Row, q \in Request \ {r} :
              held[table][row] = q => held'[table][row] = q
BY RequestsAssumption DEF Release, TypeOK, DecisionsTypeOK, RequestsAssumption

\* The empty tables and idle requests the service starts from satisfy the invariant.
LEMMA InvInit == Init => IInv
<1> SUFFICES ASSUME Init PROVE IInv
  OBVIOUS
<1> USE DEF Init, RequestsInit, DecisionsInit, ExportsInit, NothingAsked, NoAnswer
<1>1. \A r \in Request : ask[r].what \in What.none /\ ask[r].op = "none" /\ pc[r] = "idle"
  BY DEF What
<1>2. ask \in [Request -> [op : Ops, what : AnyWhat, key : Key \cup {NoKey}]]
  BY <1>1, WhatIsKnown DEF Ops, What
<1>3. TypeOK
  BY <1>2 DEF TypeOK, DecisionsTypeOK, Fresh, Unheld, NoteStatus, Statuses
<1> QED
  BY <1>1, <1>3
     DEF IInv, AskInv, HeldInv, ObjectInv, RecordInv, CredInv, ReadyHasObject, StaleIsRecovered,
         What, Places, ExportOps, FetchOps
-------------------------------------------------------------------------------
\* A request is sent: it was idle, and nothing refers to what it asks.
LEMMA SendInv ==
  ASSUME IInv, NEW r \in Request, NEW op \in Ops \ {"none"}, NEW what \in What[op],
         NEW key \in Key \cup {NoKey}, NEW place \in {"replay", "lock", "row", "take"},
         place \in Places[op], Send(r, op, what, key, place),
         op \in FetchOps => what.id \in DOMAIN objects, op \notin KeyedOps => key = NoKey,
         UNCHANGED <<decisionVars, exportVars>>
  PROVE  IInv'
<1> USE DEF Send, Goto, decisionVars, exportVars
<1>1. ask[r].op = "none" /\ pc[r] = "idle" /\ answer[r] = NoAnswer
  BY WhoIsThere DEF IInv, TypeOK, AskInv
<1>2. r \notin DOMAIN objects /\ r \notin recorded /\ r \notin exports
  BY <1>1 DEF IInv, ObjectInv, RecordInv, ExportOps, KeyedOps
<1>3. ask'[r] = [op |-> op, what |-> what, key |-> key] /\ pc'[r] = place
  BY DEF IInv, TypeOK
<1>4. \A q \in Request \ {r} : ask'[q] = ask[q] /\ pc'[q] = pc[q]
  BY DEF IInv, TypeOK
<1>5. TypeOK'
  <2>1. ask' \in [Request -> [op : Ops, what : AnyWhat, key : Key \cup {NoKey}]]
    BY WhatIsKnown DEF IInv, TypeOK
  <2> QED
    BY <2>1 DEF IInv, TypeOK, DecisionsTypeOK, StorePlaces
<1>6. AskInv'
  BY <1>1, <1>3, <1>4 DEF IInv, AskInv
<1>7. HeldInv'
  BY <1>3, <1>4 DEF IInv, HeldInv, Resolvable
<1>8. ObjectInv'
  BY <1>1, <1>2, <1>3, <1>4 DEF IInv, TypeOK, ObjectInv, NoAnswer
<1>9. RecordInv'
  BY <1>1, <1>2, <1>3, <1>4, RequestsAssumption
     DEF IInv, TypeOK, RecordInv, NoAnswer
<1>10. CredInv' /\ StaleIsRecovered'
  BY <1>3, <1>4 DEF IInv, CredInv, StaleIsRecovered
<1>11. ReadyHasObject'
  BY <1>1, <1>2, <1>3, <1>4 DEF IInv, ReadyHasObject, NoAnswer
<1> QED
  BY <1>5, <1>6, <1>7, <1>8, <1>9, <1>10, <1>11 DEF IInv

\* A request goes from one place to another and touches at most the shared credential.
LEMMA MoveInv ==
  ASSUME IInv, NEW r \in Request, NEW place, pc[r] \notin {"idle", "done"},
         place \in Places[ask[r].op], place \in {"lock"} \cup StorePlaces, Goto(r, place),
         UNCHANGED <<ask, answer, recorded, decisionVars, objects, exports, epoch>>,
         session' \in Nat, cred' \in [Request -> Nat],
         stale' \subseteq Request, stale \subseteq stale', CredInv'
  PROVE  IInv'
<1> USE DEF Goto, decisionVars
<1>1. pc'[r] = place /\ \A q \in Request \ {r} : pc'[q] = pc[q]
  BY DEF IInv, TypeOK
<1>2. place \notin {"idle", "done", "commit", "insert"}
  BY DEF StorePlaces
<1>3. TypeOK'
  BY DEF IInv, TypeOK, DecisionsTypeOK
<1>4. AskInv'
  BY <1>1, <1>2 DEF IInv, AskInv
<1>5. HeldInv'
  BY <1>1, <1>2 DEF IInv, HeldInv, Resolvable
<1>6. ObjectInv'
  BY <1>1, <1>2 DEF IInv, ObjectInv
<1>7. RecordInv'
  BY <1>1, <1>2 DEF IInv, RecordInv
<1>8. ReadyHasObject' /\ StaleIsRecovered'
  BY DEF IInv, ReadyHasObject, StaleIsRecovered
<1> QED
  BY <1>3, <1>4, <1>5, <1>6, <1>7, <1>8 DEF IInv

\* A request ends without effect: its locks and its credential are given up.
LEMMA RefuseInv ==
  ASSUME IInv, NEW r \in Request, pc[r] \notin {"idle", "done"},
         NEW status \in {"refused", "reused", "duplicate", "error", "unavailable"}, Refuse(r, status),
         UNCHANGED <<disc, notes, log, objects, exports, session, epoch>>,
         UNCHANGED held \/ Release(r),
         UNCHANGED <<cred, stale>> \/ (Done(r) /\ status # "unavailable"),
         status = "unavailable" => r \in stale
  PROVE  IInv'
<1> USE DEF Refuse, Close, Goto
<1>1. /\ pc'[r] = "done" /\ answer'[r] = [status |-> status, of |-> NoRequest]
      /\ \A q \in Request \ {r} : pc'[q] = pc[q] /\ answer'[q] = answer[q]
      /\ UNCHANGED <<ask, recorded>>
  BY DEF IInv, TypeOK
<1>2. /\ held' \in [{"discrepancies", "notifications"} -> [Row -> Request \cup {NoRequest}]]
      /\ \A table \in {"discrepancies", "notifications"}, row \in Row, q \in Request \ {r} :
           held[table][row] = q => held'[table][row] = q
  BY Released DEF IInv, TypeOK, DecisionsTypeOK
<1>3. /\ cred' \in [Request -> Nat] /\ stale' \subseteq stale
      /\ \A q \in Request \ {r} : cred'[q] = cred[q] /\ (q \in stale' <=> q \in stale)
      /\ status = "unavailable" => r \in stale'
  BY DEF Done, IInv, TypeOK
<1>4. TypeOK'
  <2>1. pc' \in [Request -> {"idle", "replay", "lock", "commit", "row", "insert", "done"} \cup StorePlaces]
    BY DEF IInv, TypeOK
  <2>2. answer' \in [Request -> [status : Statuses, of : Request \cup {NoRequest}]]
    BY DEF IInv, TypeOK, Statuses
  <2> QED
    BY <1>1, <1>2, <1>3, <2>1, <2>2 DEF IInv, TypeOK, DecisionsTypeOK
<1>5. ask[r].op # "none" /\ ask[r].op \in Ops
  <2>1. ask[r].op \in Ops /\ pc[r] \in Places[ask[r].op]
    BY DEF IInv, TypeOK, AskInv
  <2> QED
    BY <2>1 DEF Places
<1>6. AskInv'
  BY <1>1, <1>5, WhoIsThere DEF IInv, AskInv
<1>7. HeldInv'
  <2> SUFFICES ASSUME NEW q \in Request, pc'[q] = "commit" 
               PROVE /\ ask'[q].op = "resolve" => held'.discrepancies[ask'[q].what.row] = q /\ Resolvable(q)'
                     /\ ask'[q].op = "update" =>
                          /\ held'.notifications[ask'[q].what.row] = q
                          /\ ORDER[notes'[ask'[q].what.row]] <= ORDER[ask'[q].what.to]
    BY DEF HeldInv
  <2>1. q # r /\ pc[q] = "commit" /\ ask'[q] = ask[q]
    BY <1>1
  <2>2. ask[q].op \in {"resolve", "update"} => ask[q].what.row \in Row
    BY Carried DEF IInv
  <2> QED
    BY <1>2, <2>1, <2>2 DEF IInv, HeldInv, Resolvable
<1>8. ObjectInv'
  BY <1>1 DEF IInv, ObjectInv
<1>9. RecordInv'
  BY <1>1 DEF IInv, RecordInv
<1>10. CredInv'
  BY <1>1, <1>3 DEF IInv, CredInv
<1>11. StaleIsRecovered'
  BY <1>1, <1>3 DEF IInv, StaleIsRecovered
<1>12. ReadyHasObject'
  <2>1. r \in exports => r \in DOMAIN objects /\ objects[r] = ask[r].what
    BY DEF IInv, ObjectInv
  <2> QED
    BY <1>1, <2>1 DEF IInv, ReadyHasObject
<1> QED
  BY <1>4, <1>6, <1>7, <1>8, <1>9, <1>10, <1>11, <1>12 DEF IInv

\* A resolution that locks its row has it, as it is, until it commits.
LEMMA LockDiscrepancyInv ==
  ASSUME IInv, NEW r \in Request, LockDiscrepancy(r), UNCHANGED exportVars
  PROVE  IInv'
<1> USE DEF LockDiscrepancy, exportVars
<1>1. CASE ~Resolvable(r)
  BY <1>1, RefuseInv
<1>2. CASE Resolvable(r)
  <2> DEFINE d == ask[r].what.row
  <2>1. /\ d \in Row
        /\ held' = [held EXCEPT !.discrepancies[d] = r]
        /\ held.discrepancies[d] = NoRequest
    BY <1>2, Carried DEF Hold, IInv
  <2>2. /\ pc'[r] = "commit" /\ \A q \in Request \ {r} : pc'[q] = pc[q]
        /\ UNCHANGED <<ask, answer, recorded, disc, notes>>
    BY <1>2 DEF Goto, IInv, TypeOK
  <2>3. TypeOK'
    BY <1>2, <2>1 DEF IInv, TypeOK, DecisionsTypeOK, Goto
  <2>4. AskInv'
    BY <1>2, <2>2, WhoIsThere DEF IInv, TypeOK, AskInv
  <2>5. HeldInv'
    <3>1. \A q \in Request \ {r}, row \in Row :
            /\ held.discrepancies[row] = q => held'.discrepancies[row] = q
            /\ held.notifications[row] = q => held'.notifications[row] = q
      BY <2>1, RequestsAssumption DEF RequestsAssumption, IInv, TypeOK, DecisionsTypeOK
    <3>2. held'.discrepancies[d] = r
      BY <2>1 DEF IInv, TypeOK, DecisionsTypeOK
    <3>3. \A q \in Request : ask[q].op \in {"resolve", "update"} => ask[q].what.row \in Row
      BY Carried DEF IInv
    <3> QED
      BY <1>2, <2>2, <3>1, <3>2, <3>3 DEF IInv, HeldInv, Resolvable
  <2>6. ObjectInv' /\ CredInv'
    BY <2>2 DEF IInv, ObjectInv, CredInv
  <2>7. RecordInv'
    <3>1. r \notin recorded
      BY DEF IInv, RecordInv
    <3> QED
      BY <2>2, <3>1 DEF IInv, TypeOK, RecordInv
  <2>8. ReadyHasObject' /\ StaleIsRecovered'
    BY <2>2 DEF IInv, ReadyHasObject, StaleIsRecovered
  <2> QED
    BY <2>3, <2>4, <2>5, <2>6, <2>7, <2>8 DEF IInv
<1> QED
  BY <1>1, <1>2

\* A notice is locked before its status is compared with the one it is to get.
LEMMA LockNotificationInv ==
  ASSUME IInv, NEW r \in Request, LockNotification(r), UNCHANGED exportVars
  PROVE  IInv'
<1> USE DEF LockNotification, exportVars
<1> DEFINE n == ask[r].what.row
<1>1. CASE ORDER[ask[r].what.to] < ORDER[notes[n]]
  BY <1>1, RefuseInv
<1>2. CASE ~(ORDER[ask[r].what.to] < ORDER[notes[n]])
  <2>1. /\ n \in Row
        /\ held' = [held EXCEPT !.notifications[n] = r]
        /\ held.notifications[n] = NoRequest
        /\ ask[r].what.to \in NoteStatus
    BY <1>2, Carried DEF Hold, IInv
  <2>2. /\ pc'[r] = "commit" /\ \A q \in Request \ {r} : pc'[q] = pc[q]
        /\ UNCHANGED <<ask, answer, recorded, disc, notes>>
    BY <1>2 DEF Goto, IInv, TypeOK
  <2>3. TypeOK'
    BY <1>2, <2>1 DEF IInv, TypeOK, DecisionsTypeOK, Goto
  <2>4. AskInv'
    BY <1>2, <2>2, WhoIsThere DEF IInv, TypeOK, AskInv
  <2>5. HeldInv'
    <3>1. \A q \in Request \ {r}, row \in Row :
            /\ held.discrepancies[row] = q => held'.discrepancies[row] = q
            /\ held.notifications[row] = q => held'.notifications[row] = q
      BY <2>1, RequestsAssumption DEF RequestsAssumption, IInv, TypeOK, DecisionsTypeOK
    <3>2. held'.notifications[n] = r
      BY <2>1 DEF IInv, TypeOK, DecisionsTypeOK
    <3>3. \A q \in Request : ask[q].op \in {"resolve", "update"} => ask[q].what.row \in Row
      BY Carried DEF IInv
    <3>4. ORDER[notes[n]] <= ORDER[ask[r].what.to]
      BY <1>2, <2>1 DEF ORDER, NoteStatus, IInv, TypeOK, DecisionsTypeOK
    <3> QED
      BY <2>2, <3>1, <3>2, <3>3, <3>4 DEF IInv, HeldInv, Resolvable
  <2>6. ObjectInv' /\ CredInv'
    BY <2>2 DEF IInv, ObjectInv, CredInv
  <2>7. RecordInv'
    <3>1. r \notin recorded
      BY DEF IInv, RecordInv
    <3> QED
      BY <2>2, <3>1 DEF IInv, TypeOK, RecordInv
  <2>8. ReadyHasObject' /\ StaleIsRecovered'
    BY <2>2 DEF IInv, ReadyHasObject, StaleIsRecovered
  <2> QED
    BY <2>3, <2>4, <2>5, <2>6, <2>7, <2>8 DEF IInv
<1> QED
  BY <1>1, <1>2

\* A request whose effect is committed: its key is recorded, its answer is its own.
LEMMA RecordKeepsInv ==
  ASSUME IInv, NEW r \in Request, pc[r] \in {"commit", "insert"}, Record(r),
         TypeOK', HeldInv',
         UNCHANGED <<objects, session, epoch, cred, stale>>,
         exports' \in {exports, exports \cup {r}}, r \in exports' => r \in DOMAIN objects,
         ask[r].op \in ExportOps => r \in DOMAIN objects,
         ask[r].op \notin KeyedOps => ask[r].key = NoKey
  PROVE  IInv'
<1> USE DEF Record, Close, Goto
<1>1. /\ pc'[r] = "done" /\ answer'[r] = [status |-> "created", of |-> r]
      /\ \A q \in Request \ {r} : pc'[q] = pc[q] /\ answer'[q] = answer[q]
      /\ UNCHANGED ask
      /\ recorded' = IF ask[r].key = NoKey THEN recorded ELSE recorded \cup {r}
  BY DEF IInv, TypeOK
<1>2. AskInv'
  <2>1. ask[r].op \in Ops /\ pc[r] \in Places[ask[r].op]
    BY DEF IInv, TypeOK, AskInv
  <2>2. "done" \in Places[ask[r].op]
    BY <2>1, WhoIsThere DEF ExportOps
  <2> QED
    BY <1>1, <2>2 DEF IInv, AskInv
<1>3. ObjectInv'
  BY <1>1 DEF IInv, ObjectInv
<1>4. RecordInv'
  BY <1>1 DEF IInv, RecordInv
<1>5. CredInv' /\ StaleIsRecovered'
  BY <1>1 DEF IInv, CredInv, StaleIsRecovered
<1>6. ReadyHasObject'
  BY <1>1 DEF IInv, ObjectInv, ReadyHasObject
<1> QED
  BY <1>2, <1>3, <1>4, <1>5, <1>6 DEF IInv

\* A resolution commits: it has the row, so nobody else who is to commit has.
LEMMA CommitResolveInv ==
  ASSUME IInv, NEW r \in Request, CommitResolve(r), UNCHANGED exportVars
  PROVE  IInv'
<1> USE DEF CommitResolve, exportVars
<1> DEFINE d == ask[r].what.row
<1>1. /\ pc'[r] = "done" /\ \A q \in Request \ {r} : pc'[q] = pc[q]
      /\ UNCHANGED ask
  BY DEF Record, Close, Goto, IInv, TypeOK
<1>2. /\ ask[r].what \in [row : Row, resolution : Resolution, value : Value \cup {NoValue}]
      /\ \A q \in Request : ask[q].op \in {"resolve", "update"} => ask[q].what.row \in Row
  BY Carried DEF IInv
<1>3. Resolved(r) \in [kind : Kind, status : {"open", "resolved"},
                       resolution : Resolution \cup {"none"}, seller : Value \cup {NoValue}]
  <2>1. disc[d] \in [kind : Kind, status : {"open", "resolved"},
                     resolution : Resolution \cup {"none"}, seller : Value \cup {NoValue}]
    BY <1>2 DEF IInv, TypeOK, DecisionsTypeOK
  <2>2. ask[r].what.resolution \in Resolution /\ ask[r].what.value \in Value \cup {NoValue}
    BY <1>2
  <2> QED
    BY <2>1, <2>2 DEF Resolved
<1>4. TypeOK'
  <2>1. pc' \in [Request -> {"idle", "replay", "lock", "commit", "row", "insert", "done"} \cup StorePlaces]
    BY DEF Record, Close, Goto, IInv, TypeOK
  <2>2. answer' \in [Request -> [status : Statuses, of : Request \cup {NoRequest}]]
    BY DEF Record, Close, IInv, TypeOK, Statuses
  <2>3. recorded' \subseteq Request
    BY DEF Record, IInv, TypeOK
  <2>4. DecisionsTypeOK'
    BY <1>3, Released DEF IInv, TypeOK, DecisionsTypeOK
  <2> QED
    BY <1>1, <2>1, <2>2, <2>3, <2>4 DEF IInv, TypeOK
<1>5. HeldInv'
  <2>1. \A q \in Request \ {r} : pc[q] = "commit" /\ ask[q].op = "resolve" => ask[q].what.row # d
    BY DEF IInv, HeldInv
  <2>2. \A q \in Request \ {r} : pc[q] = "commit" /\ ask[q].op = "resolve" =>
          disc'[ask[q].what.row] = disc[ask[q].what.row]
    BY <1>2, <2>1 DEF IInv, TypeOK, DecisionsTypeOK
  <2> QED
    BY <1>1, <1>2, <2>2, Released DEF IInv, HeldInv, Resolvable
<1>6. ask[r].op \notin ExportOps /\ ask[r].op \in KeyedOps
  BY DEF ExportOps, KeyedOps
<1>7. r \in exports => r \in DOMAIN objects
  BY DEF IInv, ObjectInv
<1> QED
  BY <1>4, <1>5, <1>6, <1>7, RecordKeepsInv

\* A notice is moved on: it is held, so nobody else who is to move it has it.
LEMMA CommitUpdateInv ==
  ASSUME IInv, NEW r \in Request, CommitUpdate(r), UNCHANGED exportVars
  PROVE  IInv'
<1> USE DEF CommitUpdate, exportVars
<1> DEFINE n == ask[r].what.row
<1>1. /\ pc'[r] = "done" /\ \A q \in Request \ {r} : pc'[q] = pc[q]
      /\ UNCHANGED ask
  BY DEF Record, Close, Goto, IInv, TypeOK
<1>2. /\ ask[r].what \in [row : Row, to : NoteStatus]
      /\ \A q \in Request : ask[q].op \in {"resolve", "update"} => ask[q].what.row \in Row
  BY Carried DEF IInv
<1>3. TypeOK'
  <2>1. pc' \in [Request -> {"idle", "replay", "lock", "commit", "row", "insert", "done"} \cup StorePlaces]
    BY DEF Record, Close, Goto, IInv, TypeOK
  <2>2. answer' \in [Request -> [status : Statuses, of : Request \cup {NoRequest}]]
    BY DEF Record, Close, IInv, TypeOK, Statuses
  <2>3. recorded' \subseteq Request
    BY DEF Record, IInv, TypeOK
  <2>4. DecisionsTypeOK'
    BY <1>2, Released DEF IInv, TypeOK, DecisionsTypeOK
  <2> QED
    BY <1>1, <2>1, <2>2, <2>3, <2>4 DEF IInv, TypeOK
<1>4. HeldInv'
  <2>1. \A q \in Request \ {r} : pc[q] = "commit" /\ ask[q].op = "update" => ask[q].what.row # n
    BY DEF IInv, HeldInv
  <2>2. \A q \in Request \ {r} : pc[q] = "commit" /\ ask[q].op = "update" =>
          notes'[ask[q].what.row] = notes[ask[q].what.row]
    BY <1>2, <2>1 DEF IInv, TypeOK, DecisionsTypeOK
  <2> QED
    BY <1>1, <1>2, <2>2, Released DEF IInv, HeldInv, Resolvable
<1>5. ask[r].op \notin ExportOps /\ (ask[r].op \notin KeyedOps => ask[r].key = NoKey)
  BY DEF ExportOps, IInv, AskInv
<1>6. r \in exports => r \in DOMAIN objects
  BY DEF IInv, ObjectInv
<1> QED
  BY <1>3, <1>4, <1>5, <1>6, RecordKeepsInv

\* A repeated key: its first answer again, a refusal of another body, or on with the request.
LEMMA ReplayInv ==
  ASSUME IInv, NEW r \in Request, NEW place \in {"lock", "take"}, place \in Places[ask[r].op],
         ask[r].op \in KeyedOps, Replay(r, place), UNCHANGED <<decisionVars, exportVars>>
  PROVE  IInv'
<1> USE DEF Replay, decisionVars, exportVars
<1>1. CASE Holders(r) = {}
  <2>1. CredInv'
    BY <1>1 DEF Goto, IInv, TypeOK, CredInv
  <2> QED
    BY <1>1, <2>1, MoveInv DEF IInv, TypeOK, StorePlaces
<1>2. ASSUME NEW q \in Holders(r), ask[q].what # ask[r].what, Refuse(r, "reused")
      PROVE  IInv'
  BY <1>2, RefuseInv
<1>3. ASSUME NEW q \in Holders(r), ask[q].what = ask[r].what, Close(r, "created", q), UNCHANGED recorded
      PROVE  IInv'
  <2>1. /\ q \in Request /\ q \in recorded /\ q # r /\ r \notin recorded
        /\ ask[q].op = ask[r].op
    BY <1>3 DEF Holders, IInv, TypeOK, RecordInv
  <2>2. /\ pc'[r] = "done" /\ answer'[r] = [status |-> "created", of |-> q]
        /\ \A p \in Request \ {r} : pc'[p] = pc[p] /\ answer'[p] = answer[p]
        /\ UNCHANGED ask
    BY <1>3 DEF Close, Goto, IInv, TypeOK
  <2>3. TypeOK'
    <3>1. pc' \in [Request -> {"idle", "replay", "lock", "commit", "row", "insert", "done"} \cup StorePlaces]
      BY <1>3 DEF Close, Goto, IInv, TypeOK
    <3>2. answer' \in [Request -> [status : Statuses, of : Request \cup {NoRequest}]]
      BY <1>3, <2>1 DEF Close, IInv, TypeOK, Statuses
    <3> QED
      BY <1>3, <3>1, <3>2 DEF Close, IInv, TypeOK, DecisionsTypeOK
  <2>4. AskInv'
    <3>1. "done" \in Places[ask[r].op]
      BY WhoIsThere DEF Ops, KeyedOps, ExportOps
    <3> QED
      BY <2>2, <3>1 DEF IInv, AskInv
  <2>5. HeldInv'
    BY <2>2 DEF IInv, HeldInv, Resolvable
  <2>6. ObjectInv'
    <3>1. answer[q] = [status |-> "created", of |-> q]
      BY <2>1 DEF IInv, RecordInv
    <3>2. ask[r].op \in ExportOps => q \in DOMAIN objects
      BY <2>1, <3>1 DEF IInv, ObjectInv
    <3> QED
      BY <2>2, <3>2 DEF IInv, ObjectInv
  <2>7. RecordInv'
    BY <1>3, <2>1, <2>2 DEF IInv, TypeOK, RecordInv
  <2>8. CredInv' /\ StaleIsRecovered'
    BY <2>2 DEF IInv, CredInv, StaleIsRecovered
  <2>9. ReadyHasObject'
    <3>1. ask[r].op \in ExportOps => q \in DOMAIN objects /\ objects[q] = ask[r].what
      <4>1. answer[q] = [status |-> "created", of |-> q]
        BY <2>1 DEF IInv, RecordInv
      <4> QED
        BY <1>3, <2>1, <4>1 DEF IInv, ReadyHasObject
    <3>2. r \in exports => r \in DOMAIN objects /\ objects[r] = ask[r].what
      BY DEF IInv, ObjectInv
    <3> QED
      BY <2>2, <3>1, <3>2 DEF IInv, ReadyHasObject
  <2> QED
    BY <2>3, <2>4, <2>5, <2>6, <2>7, <2>8, <2>9 DEF IInv
<1>4. pc[r] = "replay"
  OBVIOUS
<1> QED
  BY <1>1, <1>2, <1>3

-------------------------------------------------------------------------------
\* The store drops its credentials: whoever is calling it has been told so.
LEMMA DropInv ==
  ASSUME IInv, DropCredentials, UNCHANGED decisionVars
  PROVE  IInv'
<1> USE DEF DropCredentials, decisionVars, requestVars
<1>1. TypeOK'
  BY DEF IInv, TypeOK, DecisionsTypeOK
<1>2. CredInv' /\ StaleIsRecovered'
  BY DEF IInv, CredInv, StaleIsRecovered, Calling
<1>3. AskInv' /\ HeldInv' /\ ObjectInv' /\ RecordInv' /\ ReadyHasObject'
  BY DEF IInv, AskInv, HeldInv, Resolvable, ObjectInv, RecordInv, ReadyHasObject
<1> QED
  BY <1>1, <1>2, <1>3 DEF IInv

\* The steps of a call of the store before its request goes out.
LEMMA SessionInv ==
  ASSUME IInv, NEW r \in Request, UNCHANGED decisionVars,
         TakeSession(r) \/ Mint(r) \/ KeepSession(r) \/ ReturnSession(r)
  PROVE  IInv'
<1> USE DEF Unanswered, decisionVars
<1>1. pc[r] \in StorePlaces /\ ask[r].op \in ExportOps \cup FetchOps
  <2>1. pc[r] \in StorePlaces
    BY DEF StorePlaces, TakeSession, Mint, KeepSession, ReturnSession
  <2> QED
    BY <2>1, WhoIsThere DEF IInv, TypeOK, AskInv
<1>2. \A place \in StorePlaces : place \in Places[ask[r].op]
  BY <1>1, WhoIsThere DEF IInv, TypeOK
<1>3. pc[r] \notin {"idle", "done"}
  BY <1>1 DEF StorePlaces
<1> USE DEF IInv, TypeOK, CredInv, Goto
<1>4. CASE TakeSession(r)
  <2>1. CredInv'
    BY <1>4 DEF TakeSession
  <2> QED
    BY <1>2, <1>3, <1>4, <2>1, MoveInv DEF TakeSession, StorePlaces
<1>5. CASE Mint(r)
  <2>1. CredInv'
    BY <1>5 DEF Mint
  <2> QED
    BY <1>2, <1>3, <1>5, <2>1, MoveInv DEF Mint, StorePlaces
<1>6. CASE KeepSession(r)
  <2>1. CredInv'
    BY <1>6 DEF KeepSession, Calling
  <2> QED
    BY <1>2, <1>3, <1>6, <2>1, MoveInv DEF KeepSession, StorePlaces
<1>7. CASE ReturnSession(r)
  <2>1. CredInv'
    BY <1>7 DEF ReturnSession
  <2> QED
    BY <1>2, <1>3, <1>7, <2>1, MoveInv DEF ReturnSession, StorePlaces
<1> QED
  BY <1>4, <1>5, <1>6, <1>7

\* A call that is accepted puts its request's file, or fetches one.
LEMMA AcceptedInv ==
  ASSUME IInv, NEW r \in Request, pc[r] \in {"call", "recall"}, ask[r].op \in ExportOps \cup FetchOps,
         PutOrGet(r), Done(r), UNCHANGED <<exports, session, epoch, decisionVars>>
  PROVE  IInv'
<1> USE DEF PutOrGet, Done, decisionVars
<1>1. /\ cred' \in [Request -> Nat] /\ stale' \subseteq stale /\ UNCHANGED <<ask, recorded>>
      /\ \A q \in Request \ {r} : cred'[q] = cred[q] /\ (q \in stale' <=> q \in stale)
  BY DEF IInv, TypeOK, Unanswered, Close
<1>2. CASE ask[r].op \in ExportOps
  <2>1. /\ pc'[r] = "insert" /\ \A q \in Request \ {r} : pc'[q] = pc[q]
        /\ objects' = [id \in DOMAIN objects \cup {r} |-> IF id = r THEN ask[r].what ELSE objects[id]]
        /\ UNCHANGED answer
    BY <1>2 DEF IInv, TypeOK, Goto, Unanswered
  <2>2. TypeOK'
    BY <1>1, <1>2, <2>1 DEF IInv, TypeOK, DecisionsTypeOK, Goto
  <2>3. AskInv'
    BY <1>1, <1>2, <2>1, WhoIsThere DEF IInv, TypeOK, AskInv
  <2>4. HeldInv'
    BY <1>1, <2>1 DEF IInv, HeldInv, Resolvable
  <2>5. ObjectInv'
    BY <1>1, <1>2, <2>1 DEF IInv, ObjectInv
  <2>6. RecordInv'
    <3>1. r \notin recorded
      BY DEF IInv, RecordInv
    <3> QED
      BY <1>1, <2>1, <3>1 DEF IInv, TypeOK, RecordInv
  <2>7. CredInv'
    BY <1>1, <2>1 DEF IInv, CredInv
  <2>8. StaleIsRecovered'
    <3>1. answer[r] = NoAnswer
      BY DEF IInv, AskInv
    <3> QED
      BY <1>1, <2>1, <3>1 DEF IInv, StaleIsRecovered, NoAnswer
  <2>9. ReadyHasObject'
    <3>1. \A id \in DOMAIN objects : id \in DOMAIN objects' /\ objects'[id] = objects[id]
      BY <2>1 DEF IInv, ObjectInv
    <3>2. answer[r].status # "created" /\ r \in DOMAIN objects' /\ objects'[r] = ask[r].what
      BY <2>1 DEF IInv, AskInv, NoAnswer
    <3> QED
      BY <1>1, <2>1, <3>1, <3>2 DEF IInv, ReadyHasObject
  <2> QED
    BY <2>2, <2>3, <2>4, <2>5, <2>6, <2>7, <2>8, <2>9 DEF IInv
<1>3. CASE ask[r].op \in FetchOps
  <2>1. ask[r].op \notin ExportOps /\ ask[r].op \notin KeyedOps /\ ask[r].what.id \in Request
    BY <1>3, Carried DEF IInv, FetchOps, ExportOps, KeyedOps
  <2>2. /\ pc'[r] = "done" /\ answer'[r] = [status |-> "fetched", of |-> ask[r].what.id]
        /\ \A q \in Request \ {r} : pc'[q] = pc[q] /\ answer'[q] = answer[q]
        /\ UNCHANGED objects
    BY <2>1 DEF Close, Goto, Named, IInv, TypeOK
  <2>3. TypeOK'
    <3>1. pc' \in [Request -> {"idle", "replay", "lock", "commit", "row", "insert", "done"} \cup StorePlaces]
      BY <2>1 DEF Close, Goto, IInv, TypeOK
    <3>2. answer' \in [Request -> [status : Statuses, of : Request \cup {NoRequest}]]
      BY <2>1 DEF Close, Named, IInv, TypeOK, Statuses
    <3> QED
      BY <1>1, <2>2, <3>1, <3>2 DEF IInv, TypeOK, DecisionsTypeOK
  <2>4. AskInv'
    <3>1. "done" \in Places[ask[r].op]
      BY <1>3, WhoIsThere DEF Ops, FetchOps
    <3> QED
      BY <1>1, <2>2, <3>1 DEF IInv, AskInv
  <2>5. HeldInv'
    BY <1>1, <2>2 DEF IInv, HeldInv, Resolvable
  <2>6. ObjectInv'
    BY <1>1, <2>2 DEF IInv, ObjectInv
  <2>7. RecordInv'
    <3>1. r \notin recorded
      BY DEF IInv, RecordInv
    <3> QED
      BY <1>1, <2>1, <2>2, <3>1 DEF IInv, TypeOK, RecordInv
  <2>8. CredInv' /\ StaleIsRecovered'
    BY <1>1, <2>2 DEF IInv, CredInv, StaleIsRecovered
  <2>9. ReadyHasObject'
    BY <1>1, <2>1, <2>2 DEF IInv, ReadyHasObject
  <2> QED
    BY <2>3, <2>4, <2>5, <2>6, <2>7, <2>8, <2>9 DEF IInv
<1> QED
  BY <1>2, <1>3

\* A call of the store: accepted, tried once more, or given up because it was in a drop's way.
LEMMA CallInv ==
  ASSUME IInv, NEW r \in Request, CallStore(r), UNCHANGED decisionVars
  PROVE  IInv'
<1> USE DEF CallStore
<1>1. ask[r].op \in ExportOps \cup FetchOps
  BY WhoIsThere DEF IInv, TypeOK, AskInv, StorePlaces
<1>2. CASE Accepted(r)
  BY <1>1, <1>2, AcceptedInv
<1>3. CASE ~Accepted(r) /\ pc[r] = "call"
  <2>1. CredInv'
    BY <1>3 DEF IInv, TypeOK, CredInv, Goto
  <2>2. "remint" \in Places[ask[r].op]
    BY <1>1, WhoIsThere DEF IInv, TypeOK, StorePlaces
  <2> QED
    BY <1>3, <2>1, <2>2, MoveInv DEF Unanswered, StorePlaces, IInv, TypeOK
<1>4. CASE ~Accepted(r) /\ pc[r] = "recall"
  <2>1. ask[r].op \in FetchOps => Named(r) \in DOMAIN objects
    BY DEF Named, ExportOps, FetchOps, IInv, ObjectInv
  <2>2. r \in stale
    BY <1>4, <2>1 DEF Accepted, IInv, CredInv
  <2> QED
    BY <1>4, <2>2, RefuseInv DEF decisionVars
<1> QED
  BY <1>2, <1>3, <1>4

-------------------------------------------------------------------------------
\* Every step of a resolution or of a notice keeps the invariant.
LEMMA DecisionsStep == IInv /\ DecisionsNext /\ UNCHANGED exportVars => IInv'
<1> SUFFICES ASSUME IInv, DecisionsNext, UNCHANGED exportVars PROVE IInv'
  OBVIOUS
<1> USE DEF decisionVars, exportVars
<1>1. ASSUME NEW r \in Request, NEW d \in Row, NEW key \in Key \cup {NoKey},
             NEW resolution \in Resolution, NEW value \in Value \cup {NoValue},
             SendResolve(r, d, resolution, value, key)
      PROVE  IInv'
  <2> DEFINE what == [row |-> d, resolution |-> resolution, value |-> value]
  <2>1. what \in What["resolve"] /\ "replay" \in Places["resolve"]
    BY DEF What, Places
  <2>2. "resolve" \in Ops \ {"none"} /\ "resolve" \notin FetchOps /\ "resolve" \in KeyedOps
    BY DEF Ops, KeyedOps, FetchOps
  <2> QED
    BY <1>1, <2>1, <2>2, SendInv DEF SendResolve
<1>2. ASSUME NEW r \in Request, NEW n \in Row, NEW status \in {"read", "done"}, SendUpdate(r, n, status)
      PROVE  IInv'
  <2> DEFINE what == [row |-> n, to |-> status]
  <2>1. what \in What["update"] /\ "lock" \in Places["update"]
    BY DEF What, Places, NoteStatus
  <2>2. "update" \in Ops \ {"none"} /\ "update" \notin FetchOps
    BY DEF Ops, FetchOps
  <2> QED
    BY <1>2, <2>1, <2>2, SendInv DEF SendUpdate
<1>3. ASSUME NEW r \in Request, RefuseEmpty(r)
      PROVE  IInv'
  BY <1>3, RefuseInv DEF RefuseEmpty
<1>4. ASSUME NEW r \in Request, ReplayResolve(r)
      PROVE  IInv'
  <2>1. "lock" \in Places[ask[r].op] /\ ask[r].op \in KeyedOps
    BY <1>4 DEF ReplayResolve, Places, KeyedOps
  <2> QED
    BY <1>4, <2>1, ReplayInv DEF ReplayResolve
<1>5. ASSUME NEW r \in Request, ResolveKeyTaken(r)
      PROVE  IInv'
  BY <1>5, RefuseInv DEF ResolveKeyTaken, KeyTaken
<1>6. ASSUME NEW r \in Request, DecisionsCrash(r)
      PROVE  IInv'
  BY <1>6, RefuseInv DEF DecisionsCrash, Open
<1> QED
  BY <1>1, <1>2, <1>3, <1>4, <1>5, <1>6, DecisionsAssumption,
     LockDiscrepancyInv, LockNotificationInv, CommitResolveInv, CommitUpdateInv
     DEF DecisionsNext, DecisionsServe, DecisionsAssumption

\* Every step of an export, of a fetch and of the store's credentials keeps the invariant.
LEMMA ExportsStep == IInv /\ ExportsNext /\ UNCHANGED decisionVars => IInv'
<1> SUFFICES ASSUME IInv, ExportsNext, UNCHANGED decisionVars PROVE IInv'
  OBVIOUS
<1> USE DEF decisionVars, exportVars
<1>1. ASSUME NEW r \in Request, NEW op \in ExportOps, NEW key \in Key \cup {NoKey},
             NEW form \in Exportable(op), SendExport(r, op, form, key)
      PROVE  IInv'
  <2> DEFINE what == [form |-> form]
  <2>1. form \in Form \cup {"account"}
    BY DEF Exportable
  <2>2. what \in What[op] /\ "replay" \in Places[op]
    <3>1. CASE op = "createExport"
      BY <2>1, <3>1 DEF What, Places
    <3>2. CASE op = "requestAccountExport"
      BY <2>1, <3>2 DEF What, Places
    <3> QED
      BY <3>1, <3>2 DEF ExportOps
  <2>3. op \in Ops \ {"none"} /\ op \notin FetchOps /\ op \in KeyedOps
    BY DEF Ops, KeyedOps, FetchOps, ExportOps
  <2> QED
    BY <1>1, <2>2, <2>3, SendInv DEF SendExport
<1>2. \A id \in Jobs("createExport") \cup Jobs("requestAccountExport") :
        id \in Request /\ id \in DOMAIN objects
  <2>1. ASSUME NEW q \in Request, ask[q].op \in ExportOps, answer[q].status = "created"
        PROVE  answer[q].of \in DOMAIN objects
    BY <2>1 DEF IInv, ObjectInv
  <2> QED
    BY <2>1 DEF Jobs, ExportOps, IInv, TypeOK
<1>3. ASSUME NEW r \in Request, NEW op \in FetchOps, NEW id \in DOMAIN objects, SendFetch(r, op, id)
      PROVE  IInv'
  <2> DEFINE what == [id |-> id]  place == IF op = "getExport" THEN "row" ELSE "take"
  <2>1. id \in Request
    BY DEF IInv, TypeOK
  <2>2. what \in What[op] /\ place \in Places[op]
    <3>1. CASE op = "getExport"
      BY <2>1, <3>1 DEF What, Places
    <3>2. CASE op = "downloadAccountExport"
      BY <2>1, <3>2 DEF What, Places, StorePlaces
    <3> QED
      BY <3>1, <3>2 DEF FetchOps
  <2>3. op \in Ops \ {"none"} /\ op \notin KeyedOps
    BY DEF Ops, KeyedOps, FetchOps, ExportOps
  <2> QED
    BY <1>3, <2>2, <2>3, SendInv DEF SendFetch
<1>4. ASSUME NEW r \in Request, ReplayExport(r)
      PROVE  IInv'
  <2>1. "take" \in Places[ask[r].op] /\ ask[r].op \in KeyedOps
    BY <1>4 DEF ReplayExport, Places, StorePlaces, KeyedOps, ExportOps
  <2> QED
    BY <1>4, <2>1, ReplayInv DEF ReplayExport
<1>5. ASSUME NEW r \in Request, ReadExport(r)
      PROVE  IInv'
  <2>1. CASE ask[r].what.id \in exports
    <3>1. "take" \in Places[ask[r].op] /\ CredInv'
      BY <1>5, <2>1 DEF ReadExport, Places, StorePlaces, IInv, TypeOK, CredInv, Goto
    <3> QED
      BY <1>5, <2>1, <3>1, MoveInv DEF ReadExport, Unanswered, StorePlaces, IInv, TypeOK
  <2>2. CASE ask[r].what.id \notin exports
    BY <1>5, <2>2, RefuseInv DEF ReadExport
  <2> QED
    BY <2>1, <2>2
<1>6. ASSUME NEW r \in Request, ExportKeyTaken(r)
      PROVE  IInv'
  BY <1>6, RefuseInv DEF ExportKeyTaken, KeyTaken
<1>7. ASSUME NEW r \in Request, ExportsCrash(r)
      PROVE  IInv'
  BY <1>7, RefuseInv DEF ExportsCrash, Open
<1>8. ASSUME NEW r \in Request, InsertExport(r)
      PROVE  IInv'
  <2>1. /\ pc'[r] = "done" /\ \A q \in Request \ {r} : pc'[q] = pc[q]
        /\ UNCHANGED ask
    BY <1>8 DEF InsertExport, Record, Close, Goto, IInv, TypeOK
  <2>2. r \in DOMAIN objects
    BY <1>8 DEF InsertExport, IInv, ObjectInv
  <2>3. TypeOK'
    <3>1. pc' \in [Request -> {"idle", "replay", "lock", "commit", "row", "insert", "done"} \cup StorePlaces]
      BY <1>8 DEF InsertExport, Record, Close, Goto, IInv, TypeOK
    <3>2. answer' \in [Request -> [status : Statuses, of : Request \cup {NoRequest}]]
      BY <1>8 DEF InsertExport, Record, Close, IInv, TypeOK, Statuses
    <3>3. recorded' \subseteq Request /\ exports' \subseteq Request
      BY <1>8 DEF InsertExport, Record, IInv, TypeOK
    <3> QED
      BY <1>8, <2>1, <3>1, <3>2, <3>3 DEF InsertExport, IInv, TypeOK, DecisionsTypeOK
  <2>4. HeldInv'
    BY <2>1 DEF IInv, HeldInv, Resolvable
  <2>5. ask[r].op \in KeyedOps
    BY <1>8 DEF InsertExport, KeyedOps
  <2> QED
    BY <1>8, <2>2, <2>3, <2>4, <2>5, RecordKeepsInv DEF InsertExport
<1> QED
  BY <1>1, <1>2, <1>3, <1>4, <1>5, <1>6, <1>7, <1>8, CallInv, SessionInv, DropInv
     DEF ExportsNext, ExportsServe, FetchOps

\* The invariant is inductive.
LEMMA InvStep == IInv /\ [Next]_vars => IInv'
<1> SUFFICES ASSUME IInv, [Next]_vars PROVE IInv'
  OBVIOUS
<1>1. CASE Next
  BY <1>1, DecisionsStep, ExportsStep DEF Next
<1>2. CASE UNCHANGED vars
  BY <1>2
     DEF vars, requestVars, decisionVars, exportVars, IInv, TypeOK, DecisionsTypeOK, AskInv, HeldInv,
         Resolvable, ObjectInv, RecordInv, CredInv, ReadyHasObject, StaleIsRecovered
<1> QED
  BY <1>1, <1>2

\* In every state the service can reach, for any number of requests, rows, keys and
\* credentials: the invariant holds.
THEOREM ServiceInvariant == Spec => []IInv
BY InvInit, InvStep, PTL DEF Spec

\* Every variable of the service keeps its type.
THEOREM BackofficeTypes == Spec => []TypeOK
<1>1. IInv => TypeOK
  BY DEF IInv
<1> QED
  BY <1>1, ServiceInvariant, PTL

\* A job that reads ready has its file, of what was asked, wherever requests of the
\* service are interrupted: ReadyHasObject.
THEOREM ReadyJobsHaveFiles == Spec => []ReadyHasObject
<1>1. IInv => ReadyHasObject
  BY DEF IInv
<1> QED
  BY <1>1, ServiceInvariant, PTL

\* A call of the store gives up for want of a credential only if one was dropped, or an older
\* one kept, while it was made, however many threads renew it: StaleIsRecovered.
THEOREM CredentialsAreRenewed == Spec => []StaleIsRecovered
<1>1. IInv => StaleIsRecovered
  BY DEF IInv
<1> QED
  BY <1>1, ServiceInvariant, PTL

-------------------------------------------------------------------------------
\* What one step may do to what sellers decided.
DecisionsStandStep ==
  LET changed == {d \in Row : disc'[d] # disc[d]} IN
     /\ \A d \in changed : disc[d].status = "open" /\ disc'[d].status = "resolved"
     /\ \A n \in Row : ORDER[notes'[n]] >= ORDER[notes[n]]
     /\ \/ changed = {} /\ log' = log
        \/ \E d \in Row : /\ changed = {d}
                          /\ log' = Append(log, [of |-> d, old |-> disc[d], new |-> disc'[d]])

\* A resolution resolves an open discrepancy, and says so.
LEMMA CommitResolveStands ==
  ASSUME IInv, NEW r \in Request, CommitResolve(r)
  PROVE  DecisionsStandStep
<1> DEFINE d == ask[r].what.row
<1>1. d \in Row /\ disc[d].status = "open"
  BY Carried DEF CommitResolve, IInv, HeldInv, Resolvable
<1>2. /\ disc' = [disc EXCEPT ![d] = Resolved(r)] /\ notes' = notes
      /\ log' = Append(log, [of |-> d, old |-> disc[d], new |-> Resolved(r)])
  BY DEF CommitResolve
<1>3. disc[d] \in [kind : Kind, status : {"open", "resolved"},
                   resolution : Resolution \cup {"none"}, seller : Value \cup {NoValue}]
  BY <1>1 DEF IInv, TypeOK, DecisionsTypeOK
<1>4. Resolved(r).status = "resolved"
  BY <1>3 DEF Resolved
<1>5. disc'[d] = Resolved(r) /\ \A e \in Row \ {d} : disc'[e] = disc[e]
  BY <1>1, <1>2 DEF IInv, TypeOK, DecisionsTypeOK
<1>6. {e \in Row : disc'[e] # disc[e]} = {d}
  BY <1>1, <1>4, <1>5
<1>7. \A n \in Row : ORDER[notes'[n]] >= ORDER[notes[n]]
  BY <1>2 DEF IInv, TypeOK, DecisionsTypeOK, ORDER, NoteStatus
<1> QED
  BY <1>1, <1>2, <1>4, <1>5, <1>6, <1>7 DEF DecisionsStandStep

\* A notice that is moved goes on.
LEMMA CommitUpdateStands ==
  ASSUME IInv, NEW r \in Request, CommitUpdate(r)
  PROVE  DecisionsStandStep
<1> DEFINE m == ask[r].what.row
<1>1. m \in Row /\ ORDER[notes[m]] <= ORDER[ask[r].what.to] /\ ask[r].what.to \in NoteStatus
  BY Carried DEF CommitUpdate, IInv, HeldInv
<1>2. notes' = [notes EXCEPT ![m] = ask[r].what.to] /\ disc' = disc /\ log' = log
  BY DEF CommitUpdate
<1>3. \A n \in Row : notes[n] \in NoteStatus
  BY DEF IInv, TypeOK, DecisionsTypeOK
<1>4. \A n \in Row : ORDER[notes'[n]] >= ORDER[notes[n]]
  BY <1>1, <1>2, <1>3 DEF IInv, TypeOK, DecisionsTypeOK, ORDER, NoteStatus
<1> QED
  BY <1>2, <1>4 DEF DecisionsStandStep

\* A step that leaves the tables of decisions alone.
LEMMA NothingDecided ==
  ASSUME IInv, UNCHANGED <<disc, notes, log>>
  PROVE  DecisionsStandStep
BY DEF IInv, TypeOK, DecisionsTypeOK, ORDER, NoteStatus, DecisionsStandStep

\* What a seller decided stands, whatever else is decided, fetched or interrupted at the
\* same time, and is logged once: DecisionsStand.
THEOREM DecisionsAreFinal == Spec => DecisionsStand
<1>1. IInv /\ [Next]_vars => DecisionsStandStep
  <2> SUFFICES ASSUME IInv, [Next]_vars PROVE DecisionsStandStep
    OBVIOUS
  <2>1. ASSUME NEW r \in Request, CommitResolve(r) \/ CommitUpdate(r)
        PROVE  DecisionsStandStep
    BY <2>1, CommitResolveStands, CommitUpdateStands
  <2>2. CASE UNCHANGED vars \/ UNCHANGED decisionVars
    BY <2>2, NothingDecided DEF vars, decisionVars
  <2>3. ASSUME NEW r \in Request,
               \/ RefuseEmpty(r) \/ ReplayResolve(r) \/ LockDiscrepancy(r) \/ ResolveKeyTaken(r)
               \/ LockNotification(r) \/ DecisionsCrash(r)
        PROVE  UNCHANGED <<disc, notes, log>>
    BY <2>3 DEF RefuseEmpty, ReplayResolve, LockDiscrepancy, ResolveKeyTaken, LockNotification,
                DecisionsCrash, decisionVars
  <2>4. ASSUME NEW r \in Request, NEW d \in Row, NEW key, NEW resolution, NEW value,
               \/ SendResolve(r, d, resolution, value, key)
               \/ SendUpdate(r, d, value)
        PROVE  UNCHANGED decisionVars
    BY <2>4 DEF SendResolve, SendUpdate
  <2>5. CASE DecisionsNext
    BY <2>1, <2>2, <2>3, <2>4, <2>5, NothingDecided DEF DecisionsNext, DecisionsServe
  <2> QED
    BY <2>2, <2>5 DEF Next
<1>2. DecisionsStandStep => [DecisionsStandStep]_decisionVars
  OBVIOUS
<1> QED
  BY <1>1, <1>2, ServiceInvariant, PTL DEF Spec, DecisionsStand, DecisionsStandStep

-------------------------------------------------------------------------------
\* Before any request is sent nothing has been asked of the promise either.
LEMMA InitKeeps == Init => Once!Init
<1> SUFFICES ASSUME Init PROVE Once!Init
  OBVIOUS
<1>1. \A r \in Request : ~KeyedOp(r) /\ answer[r] = NoAnswer
  BY DEF Init, RequestsInit, NothingAsked, KeyedOp, KeyedOps, ExportOps
<1>2. [key |-> NoKey, body |-> NothingAsked.what, at |-> 0] \in Once!Sent
  BY DEF Once!Sent
<1> QED
  BY <1>1, <1>2 DEF Once!Init, KeyedAsk, KeyedAnswer, NoAnswer

\* On the way to its answer a request does nothing that the promise speaks of.
LEMMA OnTheWay ==
  ASSUME IInv, NEW r \in Request, NEW place, Open(r), Goto(r, place), place # "done",
         UNCHANGED <<ask, answer>>
  PROVE  UNCHANGED Once!absVars
<1>1. \A q \in Request : pc'[q] = "done" <=> pc[q] = "done"
  BY DEF Open, Goto, IInv, TypeOK
<1>2. \A q \in Request :
        /\ (KeyedOp(q)' <=> KeyedOp(q)) /\ KeyedAsk(q)' = KeyedAsk(q)
        /\ KeyedAnswer(q)' = KeyedAnswer(q)
  BY DEF KeyedOp, KeyedAsk, KeyedAnswer
<1> QED
  BY <1>1, <1>2 DEF Once!absVars

\* A request whose operation takes no key is none that the promise speaks of.
LEMMA Unkeyed ==
  ASSUME IInv, NEW r \in Request, NEW status, NEW of, ~KeyedOp(r), Close(r, status, of)
  PROVE  UNCHANGED Once!absVars
<1>1. \A q \in Request \ {r} : pc'[q] = pc[q] /\ answer'[q] = answer[q]
  BY DEF Close, Goto, IInv, TypeOK
<1>2. \A q \in Request :
        (KeyedOp(q)' <=> KeyedOp(q)) /\ KeyedAsk(q)' = KeyedAsk(q) /\ KeyedAnswer(q)' = KeyedAnswer(q)
  BY <1>1 DEF Close, KeyedOp, KeyedAsk, KeyedAnswer
<1>3. \A q \in Request : KeyedOp(q) => q # r
  OBVIOUS
<1> QED
  BY <1>1, <1>2, <1>3 DEF Once!absVars

\* The answer of a keyed request closes it, and is its own effect only if it says so.
LEMMA Keyed ==
  ASSUME IInv, NEW r \in Request, NEW status, NEW of, KeyedOp(r), Open(r),
         Close(r, status, of), status = "unavailable" => of = NoRequest
  PROVE  /\ Once!Close(r, IF status = "unavailable" THEN "error" ELSE status, of)
         /\ {q \in Request : KeyedOp(q) /\ answer[q] = [status |-> "created", of |-> q]}'
              = {q \in Request : KeyedOp(q) /\ answer[q] = [status |-> "created", of |-> q]}
                  \cup IF status = "created" /\ of = r THEN {r} ELSE {}
<1>1. /\ pc'[r] = "done" /\ answer'[r] = [status |-> status, of |-> of]
      /\ \A q \in Request \ {r} : pc'[q] = pc[q] /\ answer'[q] = answer[q]
      /\ pc[r] # "done" /\ UNCHANGED ask
  BY DEF Close, Goto, Open, IInv, TypeOK
<1>2. /\ \A q \in Request : (KeyedOp(q)' <=> KeyedOp(q)) /\ KeyedAsk(q)' = KeyedAsk(q)
      /\ \A q \in Request \ {r} : KeyedAnswer(q)' = KeyedAnswer(q)
      /\ KeyedAnswer(r)' = [status |-> IF status = "unavailable" THEN "error" ELSE status, of |-> of]
  BY <1>1 DEF KeyedOp, KeyedAsk, KeyedAnswer
<1>3. answer[r] = NoAnswer
  BY <1>1 DEF IInv, AskInv
<1>4. Once!Close(r, IF status = "unavailable" THEN "error" ELSE status, of)
  BY <1>1, <1>2 DEF Once!Close
<1> QED
  BY <1>1, <1>2, <1>3, <1>4 DEF NoAnswer

\* Sending a keyed request asks for its effect; sending any other asks for nothing.
LEMMA SendKeeps ==
  ASSUME IInv, NEW r \in Request, NEW op \in Ops \ {"none"}, NEW what \in What[op],
         NEW key \in Key \cup {NoKey}, NEW place, place # "done", Send(r, op, what, key, place)
  PROVE  Once!Ask(r) \/ UNCHANGED Once!absVars
<1> USE DEF Send, Goto
<1>1. /\ ask'[r] = [op |-> op, what |-> what, key |-> key] /\ pc'[r] = place
      /\ \A q \in Request \ {r} : ask'[q] = ask[q] /\ pc'[q] = pc[q]
      /\ UNCHANGED answer
  BY DEF IInv, TypeOK
<1>2. ask[r].op = "none" /\ ~KeyedOp(r) /\ answer[r] = NoAnswer
  BY WhoIsThere DEF IInv, TypeOK, AskInv, KeyedOp, KeyedOps, ExportOps
<1>3. \A q \in Request \ {r} :
        (KeyedOp(q)' <=> KeyedOp(q)) /\ KeyedAsk(q)' = KeyedAsk(q) /\ KeyedAnswer(q)' = KeyedAnswer(q)
  BY <1>1 DEF KeyedOp, KeyedAsk, KeyedAnswer
<1>4. KeyedAnswer(r)' = KeyedAnswer(r)
  BY <1>1, <1>2 DEF KeyedAnswer, NoAnswer
<1>5. CASE op \in KeyedOps
  <2>1. KeyedOp(r)' /\ KeyedAsk(r)' = [key |-> IF key = NoKey THEN NoKey ELSE <<op, key>>,
                                       body |-> what, at |-> 0]
    BY <1>1, <1>5 DEF KeyedOp, KeyedAsk
  <2>2. what \in [row : Row, resolution : Resolution, value : Value \cup {NoValue}]
                  \cup [form : Form \cup {"account"}]
    <3>1. CASE op = "resolve"
      BY <3>1 DEF What
    <3>2. CASE op = "createExport"
      BY <3>2 DEF What
    <3>3. CASE op = "requestAccountExport"
      BY <3>3 DEF What
    <3> QED
      BY <1>5, <3>1, <3>2, <3>3 DEF KeyedOps, ExportOps
  <2>3. KeyedAsk(r)' \in Once!Sent
    BY <1>5, <2>1, <2>2 DEF Once!Sent
  <2>4. \A q \in Request : KeyedOp(q)' <=> KeyedOp(q) \/ q = r
    BY <1>3, <2>1
  <2>5. {q \in Request : KeyedOp(q) /\ answer[q] = [status |-> "created", of |-> q]}'
          = {q \in Request : KeyedOp(q) /\ answer[q] = [status |-> "created", of |-> q]}
    BY <1>1, <1>2, <2>4 DEF NoAnswer
  <2>6. \A q \in Request : KeyedAnswer(q)' = KeyedAnswer(q)
    BY <1>3, <1>4
  <2> DEFINE stage == [q \in Request |-> IF ~KeyedOp(q) THEN "idle" ELSE IF pc[q] = "done" THEN "done" ELSE "open"]
             asked == [q \in Request |-> KeyedAsk(q)]
  <2>7. stage[r] = "idle" /\ stage' = [stage EXCEPT ![r] = "open"]
    BY <1>1, <1>2, <2>4
  <2>8. asked' = [asked EXCEPT ![r] = asked'[r]] /\ asked'[r] \in Once!Sent
    BY <1>3, <2>3
  <2> QED
    BY <2>5, <2>6, <2>7, <2>8 DEF Once!Ask
<1>6. CASE op \notin KeyedOps
  <2>1. ~KeyedOp(r)' /\ KeyedAsk(r)' = KeyedAsk(r)
    BY <1>1, <1>2, <1>6 DEF KeyedOp, KeyedAsk
  <2> QED
    BY <1>1, <1>2, <1>3, <1>4, <2>1 DEF Once!absVars
<1> QED
  BY <1>5, <1>6

\* A request that is refused or interrupted has no effect and does not say it had.
LEMMA RefuseKeeps ==
  ASSUME IInv, NEW r \in Request, Open(r),
         NEW status \in {"refused", "reused", "duplicate", "error", "unavailable"}, Refuse(r, status)
  PROVE  Once!Decline(r) \/ UNCHANGED Once!absVars
<1>1. CASE KeyedOp(r)
  BY <1>1, Keyed DEF Refuse, Once!Decline, Once!NoEffect
<1>2. CASE ~KeyedOp(r)
  BY <1>2, Unkeyed DEF Refuse
<1> QED
  BY <1>1, <1>2

\* A request that commits performs its effect, for no request performed it for its key.
LEMMA RecordKeeps ==
  ASSUME IInv, NEW r \in Request, Open(r), Record(r)
  PROVE  Once!Perform(r) \/ UNCHANGED Once!absVars
<1>1. CASE KeyedOp(r)
  <2>1. ASSUME ask[r].key # NoKey, NEW p \in Request, KeyedOp(p),
               answer[p] = [status |-> "created", of |-> p], KeyedAsk(p).key = KeyedAsk(r).key
        PROVE  FALSE
    <3>1. KeyedAsk(r).key = <<ask[r].op, ask[r].key>> /\ ask[r].op \in KeyedOps /\ ask[r].key \in Key
      BY <1>1, <2>1 DEF KeyedAsk, KeyedOp, IInv, TypeOK
    <3>2. KeyedAsk(r).key # NoKey
      BY <3>1, BackofficeAssumption DEF BackofficeAssumption
    <3>3. ask[p].key # NoKey /\ KeyedAsk(p).key = <<ask[p].op, ask[p].key>>
      BY <2>1, <3>2 DEF KeyedAsk
    <3>4. ask[p].op = ask[r].op /\ ask[p].key = ask[r].key
      BY <2>1, <3>1, <3>3
    <3>5. p \in recorded
      BY <2>1, <3>3 DEF KeyedOp, IInv, RecordInv
    <3> QED
      BY <2>1, <3>4, <3>5 DEF Record, Holders
  <2>2. Once!Keyed(r) => ask[r].key # NoKey
    BY <1>1 DEF Once!Keyed, KeyedAsk
  <2> QED
    BY <1>1, <2>1, <2>2, Keyed DEF Record, Once!Perform
<1>2. CASE ~KeyedOp(r)
  BY <1>2, Unkeyed DEF Record
<1> QED
  BY <1>1, <1>2

\* A repeated key is answered with the effect it had, if it is asked for again.
LEMMA ReplayKeeps ==
  ASSUME IInv, NEW r \in Request, NEW place, place # "done", KeyedOp(r), Replay(r, place)
  PROVE  Once!Next \/ UNCHANGED Once!absVars
<1>1. Open(r)
  BY DEF Replay, Open
<1>2. CASE Holders(r) = {}
  BY <1>1, <1>2, OnTheWay DEF Replay
<1>3. ASSUME NEW q \in Holders(r), ask[q].what # ask[r].what, Refuse(r, "reused")
      PROVE  Once!Next \/ UNCHANGED Once!absVars
  BY <1>1, <1>3, RefuseKeeps DEF Once!Next
<1>4. ASSUME NEW q \in Holders(r), ask[q].what = ask[r].what, Close(r, "created", q)
      PROVE  Once!Repeat(r)
  <2>1. /\ q \in Request /\ KeyedOp(q) /\ answer[q] = [status |-> "created", of |-> q]
        /\ ask[q].op = ask[r].op /\ ask[q].key = ask[r].key /\ ask[r].key # NoKey /\ q # r
    BY <1>1, <1>4 DEF Holders, KeyedOp, Open, IInv, TypeOK, RecordInv
  <2>2. ask[r].op \in KeyedOps /\ ask[r].key \in Key
    BY <2>1 DEF KeyedOp, IInv, TypeOK
  <2>3. KeyedAsk(r).key = <<ask[r].op, ask[r].key>> /\ KeyedAsk(q) = KeyedAsk(r)
    BY <1>4, <2>1 DEF KeyedAsk
  <2>4. Once!Keyed(r) /\ Once!Same(q, r)
    BY <2>1, <2>2, <2>3, BackofficeAssumption DEF Once!Keyed, Once!Same, BackofficeAssumption
  <2>5. KeyedOp(r)
    OBVIOUS
  <2>6. Once!Close(r, "created", q)
    BY <1>1, <1>4, <2>5, Keyed
  <2>7. {p \in Request : KeyedOp(p) /\ answer[p] = [status |-> "created", of |-> p]}'
          = {p \in Request : KeyedOp(p) /\ answer[p] = [status |-> "created", of |-> p]}
    BY <1>1, <1>4, <2>1, <2>5, Keyed
  <2> QED
    BY <2>1, <2>4, <2>6, <2>7 DEF Once!Repeat
<1> QED
  BY <1>2, <1>3, <1>4 DEF Replay, Once!Next

\* A step that leaves the requests alone leaves the promise alone.
LEMMA ElsewhereKeeps == UNCHANGED requestVars => UNCHANGED Once!absVars
BY DEF requestVars, Once!absVars, KeyedOp, KeyedAsk, KeyedAnswer

\* The steps of resolutions and of notices.
LEMMA DecisionsKeep == IInv /\ DecisionsNext => Once!Next \/ UNCHANGED Once!absVars
<1> SUFFICES ASSUME IInv, DecisionsNext PROVE Once!Next \/ UNCHANGED Once!absVars
  OBVIOUS
<1>1. ASSUME NEW r \in Request, NEW d \in Row, NEW key \in Key \cup {NoKey},
             NEW resolution \in Resolution, NEW value \in Value \cup {NoValue},
             SendResolve(r, d, resolution, value, key)
      PROVE  Once!Next \/ UNCHANGED Once!absVars
  <2> DEFINE what == [row |-> d, resolution |-> resolution, value |-> value]
  <2>1. what \in What["resolve"] /\ "resolve" \in Ops \ {"none"}
    BY DEF What, Ops, KeyedOps
  <2> QED
    BY <1>1, <2>1, SendKeeps DEF SendResolve, Once!Next
<1>2. ASSUME NEW r \in Request, NEW n \in Row, NEW status \in {"read", "done"}, SendUpdate(r, n, status)
      PROVE  Once!Next \/ UNCHANGED Once!absVars
  <2> DEFINE what == [row |-> n, to |-> status]
  <2>1. what \in What["update"] /\ "update" \in Ops \ {"none"}
    BY DEF What, Ops, NoteStatus
  <2> QED
    BY <1>2, <2>1, SendKeeps DEF SendUpdate, Once!Next
<1>3. ASSUME NEW r \in Request, NEW status \in {"refused", "duplicate", "error"}, Open(r), Refuse(r, status)
      PROVE  Once!Next \/ UNCHANGED Once!absVars
  BY <1>3, RefuseKeeps DEF Once!Next
<1>4. ASSUME NEW r \in Request, ReplayResolve(r)
      PROVE  Once!Next \/ UNCHANGED Once!absVars
  BY <1>4, ReplayKeeps DEF ReplayResolve, KeyedOp, KeyedOps
<1>5. ASSUME NEW r \in Request, CommitResolve(r) \/ CommitUpdate(r)
      PROVE  Once!Next \/ UNCHANGED Once!absVars
  BY <1>5, RecordKeeps DEF CommitResolve, CommitUpdate, Open, Once!Next
<1>6. ASSUME NEW r \in Request, LockDiscrepancy(r) \/ LockNotification(r)
      PROVE  Once!Next \/ UNCHANGED Once!absVars
  <2>1. Open(r)
    BY <1>6 DEF LockDiscrepancy, LockNotification, Open
  <2>2. CASE Goto(r, "commit") /\ UNCHANGED <<ask, answer, recorded>>
    BY <2>1, <2>2, OnTheWay
  <2>3. CASE Refuse(r, "refused")
    BY <1>3, <2>1, <2>3
  <2> QED
    BY <1>6, <2>2, <2>3 DEF LockDiscrepancy, LockNotification
<1>7. ASSUME NEW r \in Request, RefuseEmpty(r) \/ ResolveKeyTaken(r) \/ DecisionsCrash(r)
      PROVE  Once!Next \/ UNCHANGED Once!absVars
  BY <1>3, <1>7 DEF RefuseEmpty, ResolveKeyTaken, KeyTaken, DecisionsCrash, Open
<1> QED
  BY <1>1, <1>2, <1>4, <1>5, <1>6, <1>7, DecisionsAssumption
     DEF DecisionsNext, DecisionsServe, DecisionsAssumption

\* The steps of exports, of fetches and of the store.
LEMMA ExportsKeep == IInv /\ ExportsNext => Once!Next \/ UNCHANGED Once!absVars
<1> SUFFICES ASSUME IInv, ExportsNext PROVE Once!Next \/ UNCHANGED Once!absVars
  OBVIOUS
<1>1. ASSUME NEW r \in Request, NEW op \in ExportOps, NEW key \in Key \cup {NoKey},
             NEW form \in Exportable(op), SendExport(r, op, form, key)
      PROVE  Once!Next \/ UNCHANGED Once!absVars
  <2> DEFINE what == [form |-> form]
  <2>1. what \in What[op]
    <3>1. CASE op = "createExport"
      BY <3>1 DEF What, Exportable
    <3>2. CASE op = "requestAccountExport"
      BY <3>2 DEF What, Exportable
    <3> QED
      BY <3>1, <3>2 DEF ExportOps
  <2>2. op \in Ops \ {"none"}
    BY DEF Ops, KeyedOps, ExportOps
  <2> QED
    BY <1>1, <2>1, <2>2, SendKeeps DEF SendExport, Once!Next
<1>2. \A id \in Jobs("createExport") \cup Jobs("requestAccountExport") : id \in Request
  BY DEF Jobs, ExportOps, IInv, TypeOK, ObjectInv
<1>3. ASSUME NEW r \in Request, NEW op \in FetchOps, NEW id \in Request, SendFetch(r, op, id)
      PROVE  Once!Next \/ UNCHANGED Once!absVars
  <2> DEFINE what == [id |-> id]
  <2>1. what \in What[op]
    <3>1. CASE op = "getExport"
      BY <3>1 DEF What
    <3>2. CASE op = "downloadAccountExport"
      BY <3>2 DEF What
    <3> QED
      BY <3>1, <3>2 DEF FetchOps
  <2>2. op \in Ops \ {"none"}
    BY DEF Ops, FetchOps
  <2> QED
    BY <1>3, <2>1, <2>2, SendKeeps DEF SendFetch, Once!Next
<1>4. ASSUME NEW r \in Request, NEW status \in {"refused", "duplicate", "error", "unavailable"},
             Open(r), Refuse(r, status)
      PROVE  Once!Next \/ UNCHANGED Once!absVars
  BY <1>4, RefuseKeeps DEF Once!Next
<1>5. ASSUME NEW r \in Request, ReplayExport(r)
      PROVE  Once!Next \/ UNCHANGED Once!absVars
  BY <1>5, ReplayKeeps DEF ReplayExport, KeyedOp, KeyedOps
<1>6. ASSUME NEW r \in Request, InsertExport(r)
      PROVE  Once!Next \/ UNCHANGED Once!absVars
  BY <1>6, RecordKeeps DEF InsertExport, Open, Once!Next
<1>7. ASSUME NEW r \in Request, TakeSession(r) \/ Mint(r) \/ KeepSession(r) \/ ReturnSession(r)
      PROVE  UNCHANGED Once!absVars
  BY <1>7, OnTheWay DEF TakeSession, Mint, KeepSession, ReturnSession, Unanswered, Open
<1>8. ASSUME NEW r \in Request, CallStore(r)
      PROVE  Once!Next \/ UNCHANGED Once!absVars
  <2>1. Open(r)
    BY <1>8 DEF CallStore, Open
  <2>2. CASE PutOrGet(r)
    <3>1. CASE ask[r].op \in ExportOps
      BY <2>1, <2>2, <3>1, OnTheWay DEF PutOrGet, Unanswered
    <3>2. CASE ask[r].op \notin ExportOps
      <4>1. ~KeyedOp(r)
        BY <1>8, <3>2, WhoIsThere DEF CallStore, KeyedOp, KeyedOps, StorePlaces, FetchOps, IInv, TypeOK, AskInv
      <4> QED
        BY <2>2, <3>2, <4>1, Unkeyed DEF PutOrGet
    <3> QED
      BY <3>1, <3>2
  <2>3. CASE Goto(r, "remint") /\ Unanswered
    BY <2>1, <2>3, OnTheWay DEF Unanswered
  <2>4. CASE Refuse(r, "unavailable")
    BY <1>4, <2>1, <2>4
  <2> QED
    BY <1>8, <2>2, <2>3, <2>4 DEF CallStore
<1>9. ASSUME NEW r \in Request, ReadExport(r)
      PROVE  Once!Next \/ UNCHANGED Once!absVars
  <2>1. Open(r)
    BY <1>9 DEF ReadExport, Open
  <2>2. CASE Goto(r, "take") /\ Unanswered
    BY <2>1, <2>2, OnTheWay DEF Unanswered
  <2>3. CASE Refuse(r, "refused")
    BY <1>4, <2>1, <2>3
  <2> QED
    BY <1>9, <2>2, <2>3 DEF ReadExport
<1>10. ASSUME NEW r \in Request, ExportKeyTaken(r) \/ ExportsCrash(r)
      PROVE  Once!Next \/ UNCHANGED Once!absVars
  BY <1>4, <1>10 DEF ExportKeyTaken, KeyTaken, ExportsCrash, Open
<1>11. CASE DropCredentials
  BY <1>11, ElsewhereKeeps DEF DropCredentials
<1> QED
  BY <1>1, <1>2, <1>3, <1>5, <1>6, <1>7, <1>8, <1>9, <1>10, <1>11 DEF ExportsNext, ExportsServe, FetchOps

\* Every step of the service is one the promise allows, or none that it speaks of: commits
\* perform, a replayed answer repeats, refusals and failures decline.
LEMMA StepKeeps == IInv /\ [Next]_vars => [Once!Next]_(Once!absVars)
BY DecisionsKeep, ExportsKeep, ElsewhereKeeps DEF Next, vars

\* Resolutions and exports, interrupted, repeated and raced as they may be, keep what
\* idempotency.py promises of a key: KeysKeepPromise.
THEOREM KeysAreHonoured == Spec => KeysKeepPromise
BY ServiceInvariant, InitKeeps, StepKeeps, PTL DEF Spec, KeysKeepPromise, Once!Spec
===============================================================================
