------------------------------ MODULE AccountProofs ------------------------------
(* Theorems about accounts: of AccountAccess, for any number of requests, subjects,      *)
(* addresses and accounts; of ShopConnection, for any number of accounts, shops, states  *)
(* and callbacks.                                                                        *)
EXTENDS AccountAccess, ShopConnection, TLAPS

\* There is no account and no request before the first sign-in.
LEMMA InvInit == Init => IInv
<1> SUFFICES ASSUME Init PROVE IInv
  OBVIOUS
<1>1. (CHOOSE c \in Claim : TRUE) \in Claim
  <2>1. PICK sub \in Subject : TRUE
    BY AccessAssumption
  <2>2. [subject |-> sub, email |-> NoEmail, refused |-> FALSE] \in Claim
    BY DEF Claim
  <2> QED
    BY <2>2
<1>2. TypeOK
  BY <1>1 DEF Init, TypeOK, Synced
<1>3. AddressInv /\ OneAccountEach
  BY DEF Init, AddressInv, OneAccountEach
<1> QED
  BY <1>2, <1>3 DEF IInv

-------------------------------------------------------------------------------
(* What the steps of a request have in common: tokens, rows and identities stand, and one *)
(* request moves.                                                                         *)

\* A request is answered anything but an account.
LEMMA RefusalInv ==
  ASSUME IInv, NEW r \in Slot,
         NEW status \in {"error", "email_unverified", "identity_syncing", "email_required",
                         "email_already_linked"},
         Answer(r, status, NoAccount), UNCHANGED <<accounts, identity, token, email, late>>
  PROVE  IInv'
<1>1. TypeOK' /\ AddressInv'
  BY DEF IInv, TypeOK, AddressInv, Answer, Goto
<1>2. OneAccountEach'
  BY DEF IInv, TypeOK, OneAccountEach, Answer, Of, SubjectOf
<1> QED
  BY <1>1, <1>2 DEF IInv

\* A request is served an account of its subject that is there.
LEMMA ServedInv ==
  ASSUME IInv, NEW r \in Slot, NEW a \in Of(SubjectOf(r)),
         Answer(r, "served", a.id), UNCHANGED <<accounts, identity, token, email, late>>
  PROVE  IInv'
<1>1. a \in accounts /\ a.subject = SubjectOf(r) /\ a.id \in Account
  BY DEF Of, IInv, TypeOK
<1>2. TypeOK' /\ AddressInv'
  BY <1>1 DEF IInv, TypeOK, AddressInv, Answer, Goto
<1>3. OneAccountEach'
  BY <1>1 DEF IInv, TypeOK, OneAccountEach, Answer, Of, SubjectOf
<1> QED
  BY <1>2, <1>3 DEF IInv

\* A request arrives with a token: it is somebody's claim, and no account changes.
LEMMA ArriveInv == ASSUME IInv, NEW r \in Slot, NEW claim \in Claim, Arrive(r, claim) PROVE IInv'
<1>1. claim.email \in Email \cup {NoEmail} /\ Closed(claim.subject) \in BOOLEAN
  BY DEF Claim, Closed
<1>2. TypeOK'
  BY <1>1 DEF IInv, TypeOK, Arrive, Goto
<1>3. AddressInv'
  BY DEF IInv, TypeOK, AddressInv, Arrive, Goto
<1>4. OneAccountEach'
  BY DEF IInv, TypeOK, OneAccountEach, Arrive, Of, SubjectOf
<1> QED
  BY <1>2, <1>3, <1>4 DEF IInv

\* An account that resolves is served; otherwise an address is looked for. No account
\* changes.
LEMMA ResolveInv == ASSUME IInv, NEW r \in Slot, Resolve(r) PROVE IInv'
<1>1. ASSUME NEW a \in Resolved(SubjectOf(r)), Answer(r, "served", a.id) PROVE IInv'
  BY <1>1, ServedInv DEF Resolve, Resolved
<1>2. ASSUME Goto(r, IF email[r] = NoEmail THEN "identity" ELSE "create"), UNCHANGED answer
      PROVE  IInv'
  <2>1. TypeOK' /\ AddressInv'
    BY <1>2 DEF IInv, TypeOK, AddressInv, Resolve, Goto
  <2>2. OneAccountEach'
    BY <1>2 DEF IInv, OneAccountEach, Resolve, Of, SubjectOf
  <2> QED
    BY <2>1, <2>2 DEF IInv
<1> QED
  BY <1>1, <1>2 DEF Resolve

\* The identity that was synced gives an address, or no account.
LEMMA LookupInv == ASSUME IInv, NEW r \in Slot, LookupIdentity(r) PROVE IInv'
<1> DEFINE found == identity[SubjectOf(r)]
<1>1. ASSUME NEW status \in {"identity_syncing", "email_required"},
             Answer(r, status, NoAccount), UNCHANGED email
      PROVE  IInv'
  BY <1>1, RefusalInv DEF LookupIdentity
<1>2. ASSUME found \in Email, email' = [email EXCEPT ![r] = found], Goto(r, "create"), UNCHANGED answer
      PROVE  IInv'
  <2>1. TypeOK' /\ AddressInv'
    BY <1>2 DEF IInv, TypeOK, AddressInv, LookupIdentity, Goto
  <2>2. OneAccountEach'
    BY <1>2 DEF IInv, OneAccountEach, LookupIdentity, Of, SubjectOf
  <2> QED
    BY <2>1, <2>2 DEF IInv
<1> QED
  BY <1>1, <1>2 DEF LookupIdentity

\* A first sign-in that finds a row of its subject is served it; another goes on to the insert
\* with the address it has.
LEMMA CreateInv == ASSUME IInv, NEW r \in Slot, Create(r) PROVE IInv'
<1>1. ASSUME NEW a \in Of(SubjectOf(r)), Answer(r, "served", a.id) PROVE IInv'
  BY <1>1, ServedInv DEF Create
<1>2. ASSUME Goto(r, "insert"), UNCHANGED answer PROVE IInv'
  <2>1. TypeOK' /\ AddressInv'
    BY <1>2 DEF IInv, TypeOK, AddressInv, Create, Goto
  <2>2. OneAccountEach'
    BY <1>2 DEF IInv, OneAccountEach, Create, Of, SubjectOf
  <2> QED
    BY <2>1, <2>2 DEF IInv
<1> QED
  BY <1>1, <1>2 DEF Create

\* Nothing shares its identifier, its subject or its address with the row that is inserted.
LEMMA NewRowInv ==
  ASSUME IInv, NEW r \in Slot, NEW id \in Account \ {a.id : a \in accounts},
         pc[r] = "insert", Of(SubjectOf(r)) = {}, \A a \in accounts : a.email # email[r],
         accounts' = accounts \cup {NewRow(r, id)},
         Answer(r, "served", id), UNCHANGED <<identity, token, email, late>>
  PROVE  IInv'
<1> DEFINE new == NewRow(r, id)
<1>1. SubjectOf(r) \in Subject /\ email[r] \in Email
  BY DEF IInv, TypeOK, AddressInv, SubjectOf, Claim
<1>2. /\ new \in [id : Account, subject : Subject, email : Email, status : Status]
      /\ new.id = id /\ new.subject = SubjectOf(r) /\ new.email = email[r]
  BY <1>1 DEF NewRow, Status
<1> HIDE DEF new
<1>3. accounts' = accounts \cup {new}
  BY DEF new
<1>4. TypeOK'
  BY <1>2, <1>3 DEF IInv, TypeOK, Answer, Goto
<1>5. AddressInv'
  BY DEF IInv, TypeOK, AddressInv, Answer, Goto
<1>6. \A a \in accounts : a.id # new.id /\ a.subject # new.subject /\ a.email # new.email
  BY <1>2 DEF Of
<1>7. \A a, b \in accounts' : a # b => a.id # b.id /\ a.subject # b.subject /\ a.email # b.email
  BY <1>3, <1>6 DEF IInv, OneAccountEach
<1>8. ASSUME NEW q \in Slot, answer'[q].status = "served"
      PROVE  \E a \in Of(SubjectOf(q))' : a.id = answer'[q].account
  <2>1. CASE q = r
    <3>1. answer'[r].account = new.id
      BY <1>2 DEF IInv, TypeOK, Answer
    <3>2. new \in accounts' /\ new.subject = SubjectOf(r)'
      BY <1>2, <1>3 DEF SubjectOf
    <3> QED
      BY <2>1, <3>1, <3>2 DEF Of
  <2>2. CASE q # r
    BY <1>3, <1>8, <2>2 DEF IInv, TypeOK, OneAccountEach, Answer, Of, SubjectOf
  <2> QED
    BY <2>1, <2>2
<1>9. OneAccountEach'
  BY <1>7, <1>8 DEF OneAccountEach
<1> QED
  BY <1>4, <1>5, <1>9 DEF IInv

\* The unique indexes let a row in only if it meets nobody, whoever came since the look.
LEMMA InsertInv == ASSUME IInv, NEW r \in Slot, Insert(r) PROVE IInv'
<1>1. ASSUME Answer(r, "email_already_linked", NoAccount), UNCHANGED accounts PROVE IInv'
  BY <1>1, RefusalInv DEF Insert
<1>2. ASSUME NEW a \in Of(SubjectOf(r)), Answer(r, "served", a.id), UNCHANGED accounts PROVE IInv'
  BY <1>2, ServedInv DEF Insert
<1>3. ASSUME Of(SubjectOf(r)) = {}, \A a \in accounts : a.email # email[r],
             NEW id \in Account \ {a.id : a \in accounts},
             accounts' = accounts \cup {NewRow(r, id)}, Answer(r, "served", id)
      PROVE  IInv'
  BY <1>3, NewRowInv DEF Insert
<1> QED
  BY <1>1, <1>2, <1>3 DEF Insert

\* What the provider says of an identity changes no account and no request.
LEMMA SyncInv ==
  ASSUME IInv, NEW sub \in Subject, NEW address \in Synced, SyncIdentity(sub, address)
  PROVE  IInv'
BY DEF IInv, TypeOK, AddressInv, OneAccountEach, SyncIdentity, request, Of, SubjectOf

\* A row that is suspended or closed is the row it was, but for its status.
LEMMA StatusInv ==
  ASSUME IInv, NEW a \in accounts, NEW status \in Status,
         accounts' = (accounts \ {a}) \cup {[a EXCEPT !.status = status]},
         UNCHANGED <<identity, request>>
  PROVE  IInv'
<1> DEFINE row == [a EXCEPT !.status = status]
<1>1. a \in [id : Account, subject : Subject, email : Email, status : Status]
  BY DEF IInv, TypeOK
<1>2. /\ row \in [id : Account, subject : Subject, email : Email, status : Status]
      /\ row.id = a.id /\ row.subject = a.subject /\ row.email = a.email
  BY <1>1
<1>3. accounts' = (accounts \ {a}) \cup {row} /\ UNCHANGED <<identity, pc, token, email, answer, late>>
  BY DEF request
<1>4. TypeOK' /\ AddressInv'
  BY <1>2, <1>3 DEF IInv, TypeOK, AddressInv
<1>5. \A b, c \in accounts' : b # c => b.id # c.id /\ b.subject # c.subject /\ b.email # c.email
  BY <1>2, <1>3 DEF IInv, OneAccountEach
<1>6. ASSUME NEW q \in Slot, answer'[q].status = "served"
      PROVE  \E b \in Of(SubjectOf(q))' : b.id = answer'[q].account
  <2>1. PICK b \in accounts : b.subject = SubjectOf(q) /\ b.id = answer[q].account
    BY <1>3, <1>6 DEF IInv, OneAccountEach, Of
  <2>2. CASE b = a
    BY <1>2, <1>3, <2>1, <2>2 DEF Of, SubjectOf
  <2>3. CASE b # a
    BY <1>3, <2>1, <2>3 DEF Of, SubjectOf
  <2> QED
    BY <2>2, <2>3
<1> QED
  BY <1>4, <1>5, <1>6 DEF IInv, OneAccountEach

\* Every step of the service and of its surroundings keeps the inductive invariant.
LEMMA InvStep == IInv /\ [Next]_vars => IInv'
<1> SUFFICES ASSUME IInv, [Next]_vars PROVE IInv'
  OBVIOUS
<1>1. ASSUME NEW r \in Slot, RefuseUnverified(r) \/ Fail(r) PROVE IInv'
  BY <1>1, RefusalInv DEF RefuseUnverified, Fail
<1>2. ASSUME NEW r \in Slot, Resolve(r) \/ LookupIdentity(r) \/ Create(r) \/ Insert(r) PROVE IInv'
  BY <1>2, ResolveInv, LookupInv, CreateInv, InsertInv
<1>3. ASSUME NEW r \in Slot, NEW claim \in Claim, Arrive(r, claim) PROVE IInv'
  BY <1>3, ArriveInv
<1>4. ASSUME NEW sub \in Subject, NEW address \in Synced, SyncIdentity(sub, address) PROVE IInv'
  BY <1>4, SyncInv
<1>5. ASSUME NEW a \in accounts, Suspend(a) \/ Close(a) PROVE IInv'
  BY <1>5, StatusInv DEF Suspend, Close, Status
<1>6. ASSUME UNCHANGED vars PROVE IInv'
  BY <1>6 DEF vars, IInv, TypeOK, AddressInv, OneAccountEach, Of, SubjectOf
<1> QED
  BY <1>1, <1>2, <1>3, <1>4, <1>5, <1>6 DEF Next, Serve

-------------------------------------------------------------------------------
\* Rows, identities, claims and answers at any moment of any requests through auth.py: the
\* invariant that the two promises below are parts of.
THEOREM AccessInvariant == Spec => []IInv
<1> QED
  BY InvInit, InvStep, PTL DEF Spec

\* However many first requests of however many sellers race: a subject has one account, an
\* address belongs to one, and who is served is served the account of its own subject.
THEOREM AccountsStayApart == Spec => []OneAccountEach
<1>1. IInv => OneAccountEach
  BY DEF IInv
<1> QED
  BY <1>1, AccessInvariant, PTL

\* No request writes a row that is there: create_account's conflict clause changes nothing in
\* it (schema/0017).  It keeps its subject and its address, and a row that was suspended or
\* deleted never opens again.
THEOREM ClosedAccountsStay == Spec => ClosedStaysClosed
<1> DEFINE Kept(a, b) == /\ b.id = a.id /\ b.subject = a.subject /\ b.email = a.email
                         /\ a.status # "active" => b.status # "active"
                         /\ a.status = "deleted" => b.status = "deleted"
           Stays == \A a \in accounts : \E b \in accounts' : Kept(a, b)
<1>1. ASSUME accounts \subseteq accounts' PROVE Stays
  BY <1>1
<1>2. ASSUME IInv, NEW a \in accounts, Suspend(a) \/ Close(a) PROVE Stays
  <2>1. PICK status \in {"suspended", "deleted"} :
          /\ accounts' = (accounts \ {a}) \cup {[a EXCEPT !.status = status]}
          /\ a.status = "deleted" => status = "deleted"
    BY <1>2 DEF Suspend, Close
  <2>2. a \in [id : Account, subject : Subject, email : Email, status : Status]
    BY <1>2 DEF IInv, TypeOK
  <2>3. Kept(a, [a EXCEPT !.status = status])
    BY <2>1, <2>2
  <2>4. ASSUME NEW b \in accounts, b # a PROVE b \in accounts' /\ Kept(b, b)
    BY <2>1, <2>4
  <2> QED
    BY <2>1, <2>3, <2>4
<1>3. ASSUME IInv, [Next]_vars PROVE [Stays]_vars
  <2>1. ASSUME NEW r \in Slot, Serve(r) \/ Fail(r) PROVE Stays
    BY <1>1, <2>1 DEF Serve, RefuseUnverified, Resolve, LookupIdentity, Create, Insert, Fail
  <2>2. ASSUME NEW r \in Slot, NEW claim \in Claim, Arrive(r, claim) PROVE Stays
    BY <1>1, <2>2 DEF Arrive
  <2>3. ASSUME NEW sub \in Subject, NEW address \in Synced, SyncIdentity(sub, address) PROVE Stays
    BY <1>1, <2>3 DEF SyncIdentity
  <2>4. ASSUME NEW a \in accounts, Suspend(a) \/ Close(a) PROVE Stays
    BY <1>2, <1>3, <2>4
  <2> QED
    BY <1>3, <2>1, <2>2, <2>3, <2>4 DEF Next
<1>4. IInv /\ [Next]_vars => [Stays]_vars
  BY <1>3
<1> QED
  BY <1>4, AccessInvariant, PTL DEF Spec, ClosedStaysClosed

-------------------------------------------------------------------------------
(* ShopConnection *)

\* There is no state, no shop and no token at first.
LEMMA ConnectionInvInit == ConnectionInit => ConnectionInv
<1> SUFFICES ASSUME ConnectionInit PROVE ConnectionInv
  OBVIOUS
<1>1. (CHOOSE q \in State : TRUE) \in State
  BY ConnectionAssumption
<1>2. ConnectionTypeOK
  BY <1>1, ConnectionAssumption DEF ConnectionInit, ConnectionTypeOK, NoState, NotClosing
<1>3. IssuedInv /\ PlaceInv /\ SpentInv /\ LockInv
  BY DEF ConnectionInit, IssuedInv, PlaceInv, SpentInv, LockInv, Issued, NotClosing
<1>4. StateSpentOnce /\ ShopHasTokens /\ DisconnectedIsRevoked
  BY DEF ConnectionInit, StateSpentOnce, ShopHasTokens, DisconnectedIsRevoked
<1> QED
  BY <1>2, <1>3, <1>4 DEF ConnectionInv

-------------------------------------------------------------------------------
(* The invariant in two halves: what callbacks and states say of each other, and what *)
(* shops, tokens and deletions do.  A step that leaves the variables of a half alone  *)
(* keeps it.                                                                          *)

StatesInv == IssuedInv /\ PlaceInv /\ SpentInv /\ StateSpentOnce
ShopsInv  == LockInv /\ ShopHasTokens /\ DisconnectedIsRevoked

\* What leaves the states and the callbacks alone keeps what is true of them.
LEMMA StatesStand == StatesInv /\ UNCHANGED <<states, at, carries>> => StatesInv'
BY DEF StatesInv, IssuedInv, PlaceInv, SpentInv, StateSpentOnce, Issued

\* What leaves the shops, the tokens and the deletions alone keeps what is true of them.
LEMMA ShopsStand == ShopsInv /\ UNCHANGED <<shops, tokens, closing>> => ShopsInv'
BY DEF ShopsInv, LockInv, ShopHasTokens, DisconnectedIsRevoked, ShopsOf

\* The inductive invariant is one about states and callbacks and one about shops and tokens.
LEMMA Halves == ConnectionInv <=> ConnectionTypeOK /\ StatesInv /\ ShopsInv
BY DEF ConnectionInv, StatesInv, ShopsInv

-------------------------------------------------------------------------------
(* States and callbacks. *)

\* A state that is issued is carried by no callback: it never was issued before.
LEMMA AuthorizeInv ==
  ASSUME ConnectionInv, NEW a \in Account, NEW q \in State, Authorize(a, q) PROVE ConnectionInv'
<1> DEFINE new == [account |-> a, expires |-> clock + StateTTL, consumed |-> FALSE]
<1>1. states' = [states EXCEPT ![q] = new] /\ UNCHANGED <<at, carries>>
  BY DEF Authorize
<1>2. ConnectionTypeOK'
  BY ConnectionAssumption DEF ConnectionInv, ConnectionTypeOK, Authorize
<1>3. IssuedInv' /\ PlaceInv' /\ StateSpentOnce'
  BY <1>1 DEF ConnectionInv, ConnectionTypeOK, IssuedInv, PlaceInv, StateSpentOnce, Issued
<1>4. SpentInv'
  <2> SUFFICES ASSUME NEW c \in Callback, carries[c].account # NoAccount
               PROVE  states'[carries[c].state] = states[carries[c].state]
    BY <1>1 DEF SpentInv, ConnectionInv
  <2>1. at[c] # "unused"
    BY DEF ConnectionInv, PlaceInv
  <2>2. carries[c].state # q /\ carries[c].state \in State
    BY <2>1 DEF Authorize, ConnectionInv, ConnectionTypeOK
  <2> QED
    BY <1>1, <2>2 DEF ConnectionInv, ConnectionTypeOK
<1>5. ShopsInv'
  BY Halves, ShopsStand DEF Authorize
<1> QED
  BY <1>2, <1>3, <1>4, <1>5 DEF ConnectionInv, StatesInv, ShopsInv

\* Nobody else past its state carries one that can still be spent.
LEMMA ConsumeInv ==
  ASSUME ConnectionInv, NEW c \in Callback, NEW q \in State, Consume(c, q) PROVE ConnectionInv'
<1> DEFINE mine == [state |-> q, account |-> states[q].account, shop |-> NoShop]
<1>1. /\ at[c] = "unused" /\ states[q] # NoState /\ ~states[q].consumed
      /\ states' = [states EXCEPT ![q].consumed = TRUE]
      /\ carries' = [carries EXCEPT ![c] = mine]
      /\ at' = [at EXCEPT ![c] = "exchange"]
  BY DEF Consume, Spendable, Issued, Reach
<1>2. states[q].account \in Account /\ states[q].account # NoAccount
  BY <1>1, ConnectionAssumption DEF ConnectionInv, IssuedInv, Issued
<1>3. ConnectionTypeOK'
  <2>1. [states[q] EXCEPT !.consumed = TRUE]
          \in [account : Account \cup {NoAccount}, expires : Nat, consumed : BOOLEAN]
    <3>1. states[q] \in [account : Account \cup {NoAccount}, expires : Nat, consumed : BOOLEAN]
      BY DEF ConnectionInv, ConnectionTypeOK
    <3> QED
      BY <3>1
  <2>2. states' \in [State -> [account : Account \cup {NoAccount}, expires : Nat, consumed : BOOLEAN]]
    BY <1>1, <2>1 DEF ConnectionInv, ConnectionTypeOK
  <2>3. mine \in [state : State, account : Account \cup {NoAccount}, shop : Shop \cup {NoShop}]
    BY <1>2
  <2> QED
    BY <1>1, <2>2, <2>3 DEF ConnectionInv, ConnectionTypeOK, Consume
<1>4. carries'[c] = mine /\ \A d \in Callback : d # c => carries'[d] = carries[d] /\ at'[d] = at[d]
  BY <1>1 DEF ConnectionInv, ConnectionTypeOK
<1>5. states'[q].consumed /\ states'[q].account = states[q].account
  BY <1>1 DEF ConnectionInv, ConnectionTypeOK
<1>6. \A p \in State : p # q => states'[p] = states[p]
  BY <1>1 DEF ConnectionInv, ConnectionTypeOK
<1>7. \A d \in Callback : d # c /\ carries[d].account # NoAccount => carries[d].state # q
  BY <1>1 DEF ConnectionInv, SpentInv
<1>8. \A d \in Callback : carries[d].state \in State
  BY DEF ConnectionInv, ConnectionTypeOK
<1>9. IssuedInv'
  BY <1>2, <1>5, <1>6 DEF ConnectionInv, IssuedInv, Issued
<1>10. PlaceInv'
  BY <1>1, <1>2, <1>4 DEF ConnectionInv, ConnectionTypeOK, PlaceInv
<1>11. SpentInv'
  BY <1>4, <1>5, <1>6, <1>7, <1>8 DEF ConnectionInv, SpentInv
<1>12. StateSpentOnce'
  BY <1>4, <1>7 DEF ConnectionInv, StateSpentOnce
<1>13. ShopsInv'
  BY Halves, ShopsStand DEF Consume
<1> QED
  BY <1>3, <1>9, <1>10, <1>11, <1>12, <1>13 DEF ConnectionInv, StatesInv, ShopsInv

\* A callback whose state is unknown, spent or expired is turned away.
LEMMA RefuseStateInv ==
  ASSUME ConnectionInv, NEW c \in Callback, NEW q \in State, RefuseState(c, q) PROVE ConnectionInv'
<1>1. /\ carries' = [carries EXCEPT ![c].state = q] /\ at' = [at EXCEPT ![c] = "state_invalid"]
      /\ UNCHANGED states
  BY DEF RefuseState, Reach
<1>2. carries[c].account = NoAccount
  BY DEF RefuseState, ConnectionInv, PlaceInv
<1>3. ConnectionTypeOK'
  <2>1. [carries[c] EXCEPT !.state = q]
          \in [state : State, account : Account \cup {NoAccount}, shop : Shop \cup {NoShop}]
    BY DEF ConnectionInv, ConnectionTypeOK
  <2>2. carries' \in [Callback -> [state : State, account : Account \cup {NoAccount},
                                   shop : Shop \cup {NoShop}]]
    BY <1>1, <2>1 DEF ConnectionInv, ConnectionTypeOK
  <2>3. at' \in [Callback -> {"unused", "state_invalid", "exchange", "store", "stored", "failed", "error"}]
    BY <1>1 DEF ConnectionInv, ConnectionTypeOK
  <2> QED
    BY <1>1, <2>2, <2>3 DEF ConnectionInv, ConnectionTypeOK, RefuseState
<1>4. carries'[c].account = NoAccount /\ \A d \in Callback : d # c => carries'[d] = carries[d]
  BY <1>1, <1>2 DEF ConnectionInv, ConnectionTypeOK
<1>5. IssuedInv' /\ PlaceInv'
  BY <1>1, <1>4 DEF ConnectionInv, ConnectionTypeOK, IssuedInv, PlaceInv, Issued
<1>6. SpentInv' /\ StateSpentOnce'
  BY <1>1, <1>4 DEF ConnectionInv, SpentInv, StateSpentOnce
<1>7. ShopsInv'
  BY Halves, ShopsStand DEF RefuseState
<1> QED
  BY <1>3, <1>5, <1>6, <1>7 DEF ConnectionInv, StatesInv, ShopsInv

\* The code is exchanged for the tokens of some shop.
LEMMA ExchangeInv ==
  ASSUME ConnectionInv, NEW c \in Callback, NEW s \in Shop, Exchange(c, s) PROVE ConnectionInv'
<1>1. /\ carries' = [carries EXCEPT ![c].shop = s] /\ at' = [at EXCEPT ![c] = "store"]
      /\ at[c] = "exchange" /\ UNCHANGED states
  BY DEF Exchange, Reach
<1>2. ConnectionTypeOK'
  <2>1. [carries[c] EXCEPT !.shop = s]
          \in [state : State, account : Account \cup {NoAccount}, shop : Shop \cup {NoShop}]
    BY DEF ConnectionInv, ConnectionTypeOK
  <2>2. carries' \in [Callback -> [state : State, account : Account \cup {NoAccount},
                                   shop : Shop \cup {NoShop}]]
    BY <1>1, <2>1 DEF ConnectionInv, ConnectionTypeOK
  <2>3. at' \in [Callback -> {"unused", "state_invalid", "exchange", "store", "stored", "failed", "error"}]
    BY <1>1 DEF ConnectionInv, ConnectionTypeOK
  <2> QED
    BY <1>1, <2>2, <2>3 DEF ConnectionInv, ConnectionTypeOK, Exchange
<1>3. \A d \in Callback : carries'[d].state = carries[d].state /\ carries'[d].account = carries[d].account
  BY <1>1 DEF ConnectionInv, ConnectionTypeOK
<1>4. IssuedInv' /\ PlaceInv'
  BY <1>1, <1>3 DEF ConnectionInv, ConnectionTypeOK, IssuedInv, PlaceInv, Issued
<1>5. SpentInv' /\ StateSpentOnce'
  BY <1>1, <1>3 DEF ConnectionInv, SpentInv, StateSpentOnce
<1>6. ShopsInv'
  BY Halves, ShopsStand DEF Exchange
<1> QED
  BY <1>2, <1>4, <1>5, <1>6 DEF ConnectionInv, StatesInv, ShopsInv

\* A callback that ends where it is: it failed, or the shop is another's.
LEMMA EndsInv ==
  ASSUME ConnectionInv, NEW c \in Callback, CallbackFails(c) \/ StoreRefused(c) PROVE ConnectionInv'
<1>1. /\ at[c] \in {"exchange", "store"}
      /\ at' = [at EXCEPT ![c] = "failed"] \/ at' = [at EXCEPT ![c] = "error"]
      /\ UNCHANGED <<clock, states, closed, shops, tokens, carries, closing>>
  BY DEF CallbackFails, StoreRefused, Reach
<1>2. ConnectionTypeOK'
  BY <1>1 DEF ConnectionInv, ConnectionTypeOK
<1>3. StatesInv'
  BY <1>1 DEF ConnectionInv, ConnectionTypeOK, StatesInv, IssuedInv, PlaceInv, SpentInv, StateSpentOnce, Issued
<1>4. ShopsInv'
  BY <1>1, Halves, ShopsStand
<1> QED
  BY <1>2, <1>3, <1>4 DEF ConnectionInv, StatesInv, ShopsInv

\* A shop that is stored has its tokens, is nobody else's, and in nobody's deletion.
LEMMA StoreShopInv == ASSUME ConnectionInv, NEW c \in Callback, StoreShop(c) PROVE ConnectionInv'
<1> DEFINE a == carries[c].account
           s == carries[c].shop
<1>1. a \in Account /\ s \in Shop /\ a # NoAccount
  BY ConnectionAssumption DEF ConnectionInv, PlaceInv, StoreShop
<1>2. /\ shops[s].owner \in {NoAccount, a}
      /\ shops' = [shops EXCEPT ![s] = [owner |-> a, status |-> "pending"]]
      /\ tokens' = [tokens EXCEPT ![s] = "live"]
      /\ at' = [at EXCEPT ![c] = "stored"] /\ at[c] = "store"
      /\ UNCHANGED <<carries, closing>>
  BY DEF StoreShop, Reach
<1>3. \A b \in Account : s \notin closing[b].shops
  BY DEF StoreShop, Locked
<1>4. states' = [q \in State |-> IF q \in Swept THEN NoState ELSE states[q]]
  BY DEF StoreShop
<1>5. NoState \in [account : Account \cup {NoAccount}, expires : Nat, consumed : BOOLEAN]
  BY DEF NoState
<1>6. ConnectionTypeOK'
  <2>1. states' \in [State -> [account : Account \cup {NoAccount}, expires : Nat, consumed : BOOLEAN]]
    BY <1>4, <1>5 DEF ConnectionInv, ConnectionTypeOK
  <2>2. shops' \in [Shop -> [owner : Account \cup {NoAccount},
                             status : {"none", "pending", "connected", "disconnected"}]]
    BY <1>1, <1>2 DEF ConnectionInv, ConnectionTypeOK
  <2>3. /\ tokens' \in [Shop -> {"none", "live", "revoked"}]
        /\ at' \in [Callback -> {"unused", "state_invalid", "exchange", "store", "stored", "failed", "error"}]
    BY <1>2 DEF ConnectionInv, ConnectionTypeOK
  <2> QED
    BY <1>2, <2>1, <2>2, <2>3 DEF ConnectionInv, ConnectionTypeOK, StoreShop
<1>7. \A q \in State : states'[q] = states[q] \/ states'[q] = NoState
  BY <1>4
<1>8. IssuedInv'
  BY <1>7 DEF ConnectionInv, IssuedInv, Issued
<1>9. PlaceInv' /\ StateSpentOnce'
  BY <1>2 DEF ConnectionInv, ConnectionTypeOK, PlaceInv, StateSpentOnce
<1>10. SpentInv'
  BY <1>2, <1>7 DEF ConnectionInv, ConnectionTypeOK, SpentInv
<1>11. LockInv'
  <2> SUFFICES ASSUME NEW b \in Account, NEW x \in closing[b].shops PROVE x \in Shop /\ shops'[x].owner = b
    BY <1>2 DEF LockInv, ShopsOf
  <2>1. x # s /\ x \in Shop /\ shops[x].owner = b
    BY <1>3 DEF ConnectionInv, LockInv, ShopsOf
  <2> QED
    BY <1>2, <2>1 DEF ConnectionInv, ConnectionTypeOK
<1>12. ShopHasTokens' /\ DisconnectedIsRevoked'
  BY <1>1, <1>2 DEF ConnectionInv, ConnectionTypeOK, ShopHasTokens, DisconnectedIsRevoked
<1> QED
  BY <1>6, <1>8, <1>9, <1>10, <1>11, <1>12 DEF ConnectionInv

-------------------------------------------------------------------------------
(* Shops, tokens and deletions. *)

\* A seller disconnects a shop: its row and its tokens change together.
LEMMA DisconnectInv ==
  ASSUME ConnectionInv, NEW a \in Account, NEW s \in Shop, Disconnect(a, s) PROVE ConnectionInv'
<1>1. /\ shops' = [shops EXCEPT ![s].status = "disconnected"]
      /\ tokens' = [tokens EXCEPT ![s] = IF @ = "none" THEN @ ELSE "revoked"]
      /\ shops[s].owner = a
  BY DEF Disconnect, ShopsOf
<1>2. tokens[s] # "none"
  BY <1>1, ConnectionAssumption DEF ConnectionInv, ShopHasTokens
<1>3. ConnectionTypeOK'
  <2>1. [shops[s] EXCEPT !.status = "disconnected"]
          \in [owner : Account \cup {NoAccount}, status : {"none", "pending", "connected", "disconnected"}]
    BY DEF ConnectionInv, ConnectionTypeOK
  <2>2. shops' \in [Shop -> [owner : Account \cup {NoAccount},
                             status : {"none", "pending", "connected", "disconnected"}]]
    BY <1>1, <2>1 DEF ConnectionInv, ConnectionTypeOK
  <2>3. tokens' \in [Shop -> {"none", "live", "revoked"}]
    BY <1>1 DEF ConnectionInv, ConnectionTypeOK
  <2> QED
    BY <1>1, <2>2, <2>3 DEF ConnectionInv, ConnectionTypeOK, Disconnect
<1>4. \A x \in Shop : shops'[x].owner = shops[x].owner
  BY <1>1 DEF ConnectionInv, ConnectionTypeOK
<1>5. LockInv'
  BY <1>4 DEF ConnectionInv, LockInv, ShopsOf, Disconnect
<1>6. ShopHasTokens' /\ DisconnectedIsRevoked'
  BY <1>1, <1>2, <1>4 DEF ConnectionInv, ConnectionTypeOK, ShopHasTokens, DisconnectedIsRevoked
<1>7. StatesInv'
  BY Halves, StatesStand DEF Disconnect
<1> QED
  BY <1>3, <1>5, <1>6, <1>7 DEF ConnectionInv, StatesInv, ShopsInv

\* The first sync makes a pending shop connected; its tokens stay.
LEMMA ConnectInv == ASSUME ConnectionInv, NEW s \in Shop, Connect(s) PROVE ConnectionInv'
<1>1. shops' = [shops EXCEPT ![s].status = "connected"] /\ UNCHANGED <<tokens, closing>>
  BY DEF Connect
<1>2. ConnectionTypeOK'
  <2>1. [shops[s] EXCEPT !.status = "connected"]
          \in [owner : Account \cup {NoAccount}, status : {"none", "pending", "connected", "disconnected"}]
    BY DEF ConnectionInv, ConnectionTypeOK
  <2>2. shops' \in [Shop -> [owner : Account \cup {NoAccount},
                             status : {"none", "pending", "connected", "disconnected"}]]
    BY <1>1, <2>1 DEF ConnectionInv, ConnectionTypeOK
  <2> QED
    BY <1>1, <2>2 DEF ConnectionInv, ConnectionTypeOK, Connect
<1>3. \A x \in Shop : shops'[x].owner = shops[x].owner
  BY <1>1 DEF ConnectionInv, ConnectionTypeOK
<1>4. ShopsInv'
  BY <1>1, <1>3 DEF ConnectionInv, ConnectionTypeOK, ShopsInv, LockInv, ShopsOf, ShopHasTokens, DisconnectedIsRevoked
<1>5. StatesInv'
  BY Halves, StatesStand DEF Connect
<1> QED
  BY <1>2, <1>4, <1>5 DEF ConnectionInv, StatesInv, ShopsInv

\* A deletion locks the account's shops.
LEMMA BeginDeleteInv == ASSUME ConnectionInv, NEW a \in Account, BeginDelete(a) PROVE ConnectionInv'
<1>1. /\ closing' = [closing EXCEPT ![a] = [on |-> TRUE, shops |-> ShopsOf(a)]]
      /\ UNCHANGED <<shops, tokens>>
  BY DEF BeginDelete
<1>2. ShopsOf(a) \subseteq Shop
  BY DEF ShopsOf
<1>3. ConnectionTypeOK'
  BY <1>1, <1>2 DEF ConnectionInv, ConnectionTypeOK, BeginDelete
<1>4. ShopsInv'
  BY <1>1 DEF ConnectionInv, ConnectionTypeOK, ShopsInv, LockInv, ShopsOf, ShopHasTokens, DisconnectedIsRevoked
<1>5. StatesInv'
  BY Halves, StatesStand DEF BeginDelete
<1> QED
  BY <1>3, <1>4, <1>5 DEF ConnectionInv, StatesInv, ShopsInv

\* A shop that is shown as disconnected is its account's, so its token goes with it.
LEMMA FinishDeleteInv == ASSUME ConnectionInv, NEW a \in Account, FinishDelete(a) PROVE ConnectionInv'
<1>1. /\ shops' = [s \in Shop |-> IF s \in closing[a].shops
                                  THEN [shops[s] EXCEPT !.status = "disconnected"] ELSE shops[s]]
      /\ tokens' = [s \in Shop |-> IF s \in ShopsOf(a) /\ tokens[s] # "none"
                                   THEN "revoked" ELSE tokens[s]]
      /\ closing' = [closing EXCEPT ![a] = NotClosing]
  BY DEF FinishDelete
<1>2. \A s \in closing[a].shops : s \in ShopsOf(a) /\ tokens[s] # "none"
  BY ConnectionAssumption DEF ConnectionInv, LockInv, ShopsOf, ShopHasTokens
<1>3. shops' \in [Shop -> [owner : Account \cup {NoAccount},
                          status : {"none", "pending", "connected", "disconnected"}]]
  BY <1>1 DEF ConnectionInv, ConnectionTypeOK
<1>4. ConnectionTypeOK'
  BY <1>1, <1>3 DEF ConnectionInv, ConnectionTypeOK, FinishDelete, NotClosing
<1>5. \A s \in Shop : shops'[s].owner = shops[s].owner
  BY <1>1 DEF ConnectionInv, ConnectionTypeOK
<1>6. LockInv'
  BY <1>1, <1>5 DEF ConnectionInv, ConnectionTypeOK, LockInv, ShopsOf, NotClosing
<1>7. ShopHasTokens'
  BY <1>1, <1>5 DEF ConnectionInv, ShopHasTokens
<1>8. DisconnectedIsRevoked'
  BY <1>1, <1>2 DEF ConnectionInv, ConnectionTypeOK, DisconnectedIsRevoked
<1>9. StatesInv'
  BY Halves, StatesStand DEF FinishDelete
<1> QED
  BY <1>4, <1>6, <1>7, <1>8, <1>9 DEF ConnectionInv, StatesInv, ShopsInv

\* A deletion is rolled back: the rows it held are as they were.
LEMMA AbortDeleteInv == ASSUME ConnectionInv, NEW a \in Account, AbortDelete(a) PROVE ConnectionInv'
<1>1. closing' = [closing EXCEPT ![a] = NotClosing] /\ UNCHANGED <<shops, tokens>>
  BY DEF AbortDelete
<1>2. ConnectionTypeOK'
  BY <1>1 DEF ConnectionInv, ConnectionTypeOK, AbortDelete, NotClosing
<1>3. ShopsInv'
  BY <1>1 DEF ConnectionInv, ConnectionTypeOK, ShopsInv, LockInv, ShopsOf, ShopHasTokens, DisconnectedIsRevoked, NotClosing
<1>4. StatesInv'
  BY Halves, StatesStand DEF AbortDelete
<1> QED
  BY <1>2, <1>3, <1>4 DEF ConnectionInv, StatesInv, ShopsInv

\* Every step of the service and of its surroundings keeps the inductive invariant.
LEMMA ConnectionInvStep == ConnectionInv /\ [ConnectionNext]_connectionVars => ConnectionInv'
<1> SUFFICES ASSUME ConnectionInv, [ConnectionNext]_connectionVars PROVE ConnectionInv'
  OBVIOUS
<1>1. ASSUME NEW a \in Account, NEW q \in State, Authorize(a, q) PROVE ConnectionInv'
  BY <1>1, AuthorizeInv
<1>2. ASSUME NEW a \in Account, NEW s \in Shop, Disconnect(a, s) PROVE ConnectionInv'
  BY <1>2, DisconnectInv
<1>3. ASSUME NEW a \in Account, BeginDelete(a) \/ FinishDelete(a) \/ AbortDelete(a) PROVE ConnectionInv'
  BY <1>3, BeginDeleteInv, FinishDeleteInv, AbortDeleteInv
<1>4. ASSUME NEW c \in Callback, NEW q \in State, Consume(c, q) \/ RefuseState(c, q) PROVE ConnectionInv'
  BY <1>4, ConsumeInv, RefuseStateInv
<1>5. ASSUME NEW c \in Callback, NEW s \in Shop, Exchange(c, s) PROVE ConnectionInv'
  BY <1>5, ExchangeInv
<1>6. ASSUME NEW c \in Callback, CallbackFails(c) \/ StoreShop(c) \/ StoreRefused(c) PROVE ConnectionInv'
  BY <1>6, EndsInv, StoreShopInv
<1>7. ASSUME NEW s \in Shop, Connect(s) PROVE ConnectionInv'
  BY <1>7, ConnectInv
<1>8. ASSUME Tick \/ UNCHANGED connectionVars PROVE ConnectionInv'
  <2>1. ConnectionTypeOK'
    BY <1>8, ConnectionAssumption DEF ConnectionInv, ConnectionTypeOK, Tick, connectionVars
  <2> QED
    BY <1>8, <2>1, Halves, StatesStand, ShopsStand DEF Tick, connectionVars, ConnectionInv, StatesInv, ShopsInv
<1> QED
  BY <1>1, <1>2, <1>3, <1>4, <1>5, <1>6, <1>7, <1>8 DEF ConnectionNext

-------------------------------------------------------------------------------
\* States, callbacks, shops, tokens and deletions at any moment: the invariant the promises
\* below follow from.
THEOREM ConnectionInvariant == ConnectionSpec => []ConnectionInv
<1> QED
  BY ConnectionInvInit, ConnectionInvStep, PTL DEF ConnectionSpec

\* schema/0021: of any number of callbacks that carry a state, one gets past it.
THEOREM StatesAreSpentOnce == ConnectionSpec => []StateSpentOnce
<1>1. ConnectionInv => StateSpentOnce
  BY DEF ConnectionInv
<1> QED
  BY <1>1, ConnectionInvariant, PTL

\* connections.py, "neither may exist alone": of a shop and its tokens.
THEOREM ShopsHaveTokens == ConnectionSpec => []ShopHasTokens
<1>1. ConnectionInv => ShopHasTokens
  BY DEF ConnectionInv
<1> QED
  BY <1>1, ConnectionInvariant, PTL

\* A shop shown as disconnected has no live token, in whatever order callbacks, disconnections
\* and deletions of any number of accounts commit.
THEOREM DisconnectedMeansRevoked == ConnectionSpec => []DisconnectedIsRevoked
<1>1. ConnectionInv => DisconnectedIsRevoked
  BY DEF ConnectionInv
<1> QED
  BY <1>1, ConnectionInvariant, PTL

\* A shop changes its owner from nobody only, and only by a callback whose state was issued
\* to the new owner: shops are never handed over (connections.py, the conflict clause under
\* row level security).
THEOREM ShopsStay == ConnectionSpec => ShopStaysWithItsSeller
<1> DEFINE Kept == \A s \in Shop : shops[s].owner # NoAccount => shops'[s].owner = shops[s].owner
           Meant == \A s \in Shop : shops'[s].owner # shops[s].owner =>
                      \E c \in Callback : /\ carries[c].shop = s
                                          /\ states[carries[c].state].account \in {NoAccount, shops'[s].owner}
<1>1. ASSUME ConnectionInv, NEW c \in Callback, StoreShop(c) PROVE Kept /\ Meant
  <2> DEFINE a == carries[c].account
             x == carries[c].shop
  <2>1. /\ a \in Account /\ a # NoAccount
        /\ x \in Shop /\ shops[x].owner \in {NoAccount, a}
        /\ shops' = [shops EXCEPT ![x] = [owner |-> a, status |-> "pending"]]
    BY <1>1, ConnectionAssumption DEF ConnectionInv, PlaceInv, StoreShop
  <2>2. shops'[x].owner = a /\ \A s \in Shop : s # x => shops'[s].owner = shops[s].owner
    <3>1. shops \in [Shop -> [owner : Account \cup {NoAccount},
                            status : {"none", "pending", "connected", "disconnected"}]]
      BY <1>1 DEF ConnectionInv, ConnectionTypeOK
    <3> QED
      BY <2>1, <3>1
  <2>3. states[carries[c].state].account \in {NoAccount, a}
    BY <1>1, <2>1 DEF ConnectionInv, SpentInv, NoState
  <2>4. Kept
    BY <2>1, <2>2
  <2>5. Meant
    BY <2>2, <2>3
  <2> QED
    BY <2>4, <2>5
<1>2. ASSUME ConnectionInv, NEW a \in Account, NEW s \in Shop, Disconnect(a, s) PROVE Kept /\ Meant
  <2>1. \A x \in Shop : shops'[x].owner = shops[x].owner
    BY <1>2 DEF ConnectionInv, ConnectionTypeOK, Disconnect
  <2> QED
    BY <2>1
<1>3. ASSUME ConnectionInv, NEW a \in Account, FinishDelete(a) PROVE Kept /\ Meant
  <2>1. \A x \in Shop : shops'[x].owner = shops[x].owner
    BY <1>3 DEF ConnectionInv, ConnectionTypeOK, FinishDelete
  <2> QED
    BY <2>1
<1>4. ASSUME ConnectionInv, NEW s \in Shop, Connect(s) PROVE Kept /\ Meant
  <2>1. \A x \in Shop : shops'[x].owner = shops[x].owner
    BY <1>4 DEF ConnectionInv, ConnectionTypeOK, Connect
  <2> QED
    BY <2>1
<1>5. ASSUME UNCHANGED shops PROVE Kept /\ Meant
  BY <1>5
<1>6. ASSUME ConnectionInv, [ConnectionNext]_connectionVars PROVE Kept /\ Meant
  <2>1. ASSUME NEW a \in Account, \/ \E q \in State : Authorize(a, q)
                                  \/ BeginDelete(a) \/ AbortDelete(a)
        PROVE  Kept /\ Meant
    BY <1>5, <2>1 DEF Authorize, BeginDelete, AbortDelete
  <2>2. ASSUME NEW c \in Callback, \/ \E q \in State : Consume(c, q) \/ RefuseState(c, q)
                                   \/ \E s \in Shop : Exchange(c, s)
                                   \/ CallbackFails(c) \/ StoreRefused(c)
        PROVE  Kept /\ Meant
    BY <1>5, <2>2 DEF Consume, RefuseState, Exchange, CallbackFails, StoreRefused
  <2>3. ASSUME Tick \/ UNCHANGED connectionVars PROVE Kept /\ Meant
    BY <1>5, <2>3 DEF Tick, connectionVars
  <2> QED
    BY <1>1, <1>2, <1>3, <1>4, <1>6, <2>1, <2>2, <2>3 DEF ConnectionNext
<1>7. ConnectionInv /\ [ConnectionNext]_connectionVars => [Kept]_connectionVars /\ [Meant]_connectionVars
  BY <1>6
<1> QED
  BY <1>7, ConnectionInvariant, PTL DEF ConnectionSpec, ShopStaysWithItsSeller

\* schema/0021: whatever time a sweep runs at, it leaves every state that a callback may spend.
THEOREM SpendablesSurvive == ConnectionSpec => SpendableSurvives
<1> DEFINE Survives == \A q \in State : Spendable(q) /\ clock' = clock => Issued(q)'
<1>1. ASSUME ConnectionInv, NEW c \in Callback, StoreShop(c) PROVE Survives
  <2> SUFFICES ASSUME NEW q \in State, Spendable(q) PROVE states'[q] # NoState
    BY DEF Issued
  <2>1. states[q].expires \in Nat /\ clock \in Nat /\ states[q].expires > clock
    BY <1>1 DEF Spendable, ConnectionInv, ConnectionTypeOK
  <2>2. ~(states[q].expires < clock - Grace)
    BY <2>1, ConnectionAssumption
  <2>3. states'[q] = states[q]
    BY <1>1, <2>2 DEF StoreShop, Swept
  <2> QED
    BY <2>3 DEF Spendable, Issued
<1>2. ASSUME ConnectionInv, NEW a \in Account, NEW p \in State, Authorize(a, p) PROVE Survives
  <2> SUFFICES ASSUME NEW q \in State, Spendable(q) PROVE states'[q] # NoState
    BY DEF Issued
  <2>1. q # p
    BY <1>2 DEF Authorize, Spendable
  <2> QED
    BY <1>2, <2>1 DEF Authorize, Spendable, Issued, ConnectionInv, ConnectionTypeOK
<1>3. ASSUME ConnectionInv, NEW c \in Callback, NEW p \in State, Consume(c, p) PROVE Survives
  <2> SUFFICES ASSUME NEW q \in State, Spendable(q) PROVE states'[q] # NoState
    BY DEF Issued
  <2>1. CASE q = p
    <3>1. states'[q].consumed
      BY <1>3, <2>1 DEF Consume, ConnectionInv, ConnectionTypeOK
    <3> QED
      BY <3>1 DEF NoState
  <2>2. CASE q # p
    BY <1>3, <2>2 DEF Consume, Spendable, Issued, ConnectionInv, ConnectionTypeOK
  <2> QED
    BY <2>1, <2>2
<1>4. ASSUME UNCHANGED states PROVE Survives
  BY <1>4 DEF Spendable, Issued
<1>5. ASSUME ConnectionInv, [ConnectionNext]_connectionVars PROVE Survives
  <2>1. ASSUME NEW a \in Account, \/ \E s \in Shop : Disconnect(a, s)
                                  \/ BeginDelete(a) \/ FinishDelete(a) \/ AbortDelete(a)
        PROVE  Survives
    BY <1>4, <2>1 DEF Disconnect, BeginDelete, FinishDelete, AbortDelete
  <2>2. ASSUME NEW c \in Callback, \/ \E q \in State : RefuseState(c, q)
                                   \/ \E s \in Shop : Exchange(c, s)
                                   \/ CallbackFails(c) \/ StoreRefused(c)
        PROVE  Survives
    BY <1>4, <2>2 DEF RefuseState, Exchange, CallbackFails, StoreRefused
  <2>3. ASSUME (\E s \in Shop : Connect(s)) \/ Tick \/ UNCHANGED connectionVars PROVE Survives
    BY <1>4, <2>3 DEF Connect, Tick, connectionVars
  <2> QED
    BY <1>1, <1>2, <1>3, <1>5, <2>1, <2>2, <2>3 DEF ConnectionNext
<1>6. ConnectionInv /\ [ConnectionNext]_connectionVars => [Survives]_connectionVars
  BY <1>5
<1> QED
  BY <1>6, ConnectionInvariant, PTL DEF ConnectionSpec, SpendableSurvives
=================================================================================
