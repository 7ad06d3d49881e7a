------------------------------ MODULE AccountAccess ------------------------------
(***************************************************************************)
(* From a verified token to an account: require_account (auth.py) over the *)
(* functions resolve_account and create_account (schema/0017).             *)
(*                                                                         *)
(* A request crosses three transactions: the lookup by subject, the        *)
(* identity the provider synced, and the insert of a first sign-in.  In    *)
(* between an operator suspends accounts, deleteMe closes them, and the    *)
(* provider changes and deletes what it synced.                            *)
(***************************************************************************)
EXTENDS Accounts, Integers, FiniteSets

CONSTANTS
  Slot,                 \* requests in progress at one time
  Subject,              \* token subjects
  Email, NoEmail        \* addresses, and the absence of one

ASSUME AccessAssumption ==
  /\ NoAccount \notin Account /\ NoEmail \notin Email
  /\ "unsynced" \notin Email \cup {NoEmail}
  /\ Subject # {}

VARIABLES
  accounts,     \* rows of accounts: [id, subject, email, status]
  identity,     \* neon_auth.users_sync: [Subject -> an address, NoEmail, or "unsynced" (no row)]
  pc,           \* [Slot -> where its request is]
  token,        \* [Slot -> claims: [subject, email, refused]]
  email,        \* [Slot -> the address found for the caller]
  answer,       \* [Slot -> [status, account]] of its last request
  late          \* history: [Slot -> the subject's account was closed before it was sent]

vars == <<accounts, identity, pc, token, email, answer, late>>
request == <<pc, token, email, answer, late>>

Status == {"active", "suspended", "deleted"}
Synced == Email \cup {NoEmail, "unsynced"}
\* refused: email_verified is present and false ("Absent is not" a refusal).
Claim  == [subject : Subject, email : Email \cup {NoEmail}, refused : BOOLEAN]

SubjectOf(r) == token[r].subject
Of(sub)      == {a \in accounts : a.subject = sub}
Closed(sub)  == \E a \in Of(sub) : a.status # "active"

\* resolve_account: "where auth_subject = p_subject and status = 'active'"
Resolved(sub) == {a \in Of(sub) : a.status = "active"}

Init ==
  /\ accounts = {}
  /\ identity = [sub \in Subject |-> "unsynced"]
  /\ pc = [r \in Slot |-> "idle"]
  /\ token = [r \in Slot |-> CHOOSE c \in Claim : TRUE]
  /\ email = [r \in Slot |-> NoEmail]
  /\ answer = [r \in Slot |-> [status |-> "none", account |-> NoAccount]]
  /\ late = [r \in Slot |-> FALSE]

Goto(r, place) == pc' = [pc EXCEPT ![r] = place]

Answer(r, status, account) ==
  /\ Goto(r, "idle")
  /\ answer' = [answer EXCEPT ![r] = [status |-> status, account |-> account]]

\* A request arrives with a token that verifies.
Arrive(r, claim) ==
  /\ pc[r] = "idle"
  /\ Goto(r, "verified")
  /\ token' = [token EXCEPT ![r] = claim]
  /\ email' = [email EXCEPT ![r] = claim.email]
  /\ answer' = [answer EXCEPT ![r] = [status |-> "none", account |-> NoAccount]]
  /\ late' = [late EXCEPT ![r] = Closed(claim.subject)]
  /\ UNCHANGED <<accounts, identity>>

\* "Present and false is a refusal.  Absent is not."
RefuseUnverified(r) ==
  /\ pc[r] = "verified" /\ token[r].refused
  /\ Answer(r, "email_unverified", NoAccount)
  /\ UNCHANGED <<accounts, identity, token, email, late>>

\* An account that resolves is served, whatever address is found for it.
Resolve(r) ==
  /\ pc[r] = "verified" /\ ~token[r].refused
  /\ \/ \E a \in Resolved(SubjectOf(r)) : Answer(r, "served", a.id)
     \/ /\ Resolved(SubjectOf(r)) = {}
        /\ Goto(r, IF email[r] = NoEmail THEN "identity" ELSE "create")
        /\ UNCHANGED answer
  /\ UNCHANGED <<accounts, identity, token, email, late>>

\* lookup_identity: no row, not yet or no more, is a race that clears, an empty address is a dead end.
LookupIdentity(r) ==
  /\ pc[r] = "identity"
  /\ LET found == identity[SubjectOf(r)] IN
     \/ found = "unsynced" /\ Answer(r, "identity_syncing", NoAccount) /\ UNCHANGED email
     \/ found = NoEmail /\ Answer(r, "email_required", NoAccount) /\ UNCHANGED email
     \/ /\ found \in Email
        /\ email' = [email EXCEPT ![r] = found]
        /\ Goto(r, "create") /\ UNCHANGED answer
  /\ UNCHANGED <<accounts, identity, token, late>>

NewRow(r, id) == [id |-> id, subject |-> SubjectOf(r), email |-> email[r], status |-> "active"]

\* Mutant: the conflict clause sets the status as the insert does.
CreateReopens(r) ==
  /\ pc[r] = "create"
  /\ \/ \E a \in Of(SubjectOf(r)) :
          /\ accounts' = (accounts \ {a}) \cup {[a EXCEPT !.status = "active"]}
          /\ Answer(r, "served", a.id)
     \/ Of(SubjectOf(r)) = {} /\ Goto(r, "insert") /\ UNCHANGED <<accounts, answer>>
  /\ UNCHANGED <<identity, token, email, late>>

\* create_account: a row of the subject that is there when the statement looks, whatever
\* its status, gives its id back; on conflict (auth_subject) changes nothing in it.
Create(r) ==
  /\ pc[r] = "create"
  /\ \/ \E a \in Of(SubjectOf(r)) : Answer(r, "served", a.id)
     \/ Of(SubjectOf(r)) = {} /\ Goto(r, "insert") /\ UNCHANGED answer
  /\ UNCHANGED <<accounts, identity, token, email, late>>

\* Mutant: nothing keeps subjects unique once the statement has looked.
InsertUnchecked(r) ==
  /\ pc[r] = "insert"
  /\ \A a \in accounts : a.email # email[r]
  /\ \E id \in Account \ {a.id : a \in accounts} :
       accounts' = accounts \cup {NewRow(r, id)} /\ Answer(r, "served", id)
  /\ UNCHANGED <<identity, token, email, late>>

\* The row goes in, with another sign-in perhaps committed since the look.  The index on
\* addresses is the older one and is tried first, and it is not what the clause is on: an
\* address that is held is refused, be it by a racing request of the same subject.
Insert(r) ==
  /\ pc[r] = "insert"
  /\ \/ /\ \E a \in accounts : a.email = email[r]
        /\ Answer(r, "email_already_linked", NoAccount)
        /\ UNCHANGED accounts
     \/ /\ \A a \in accounts : a.email # email[r]
        /\ \E a \in Of(SubjectOf(r)) : Answer(r, "served", a.id)
        /\ UNCHANGED accounts
     \/ /\ \A a \in accounts : a.email # email[r]
        /\ Of(SubjectOf(r)) = {}
        /\ \E id \in Account \ {a.id : a \in accounts} :
             accounts' = accounts \cup {NewRow(r, id)} /\ Answer(r, "served", id)
  /\ UNCHANGED <<identity, token, email, late>>

\* The service or its database fails the request.
Fail(r) ==
  /\ pc[r] # "idle"
  /\ Answer(r, "error", NoAccount)
  /\ UNCHANGED <<accounts, identity, token, email, late>>

\* The provider syncs a user into the database, with or without an address, and later
\* changes the address or deletes the row, which the lookup then takes for one not synced.
SyncIdentity(sub, address) ==
  /\ identity[sub] # address
  /\ identity' = [identity EXCEPT ![sub] = address]
  /\ UNCHANGED <<accounts, request>>

\* An operator suspends an active account.
Suspend(a) ==
  /\ a \in accounts /\ a.status = "active"
  /\ accounts' = (accounts \ {a}) \cup {[a EXCEPT !.status = "suspended"]}
  /\ UNCHANGED <<identity, request>>

\* deleteMe closes the account whatever its status.
Close(a) ==
  /\ a \in accounts
  /\ accounts' = (accounts \ {a}) \cup {[a EXCEPT !.status = "deleted"]}
  /\ UNCHANGED <<identity, request>>

Serve(r) == RefuseUnverified(r) \/ Resolve(r) \/ LookupIdentity(r) \/ Create(r) \/ Insert(r)

Next ==
  \/ \E r \in Slot : Serve(r) \/ Fail(r) \/ \E claim \in Claim : Arrive(r, claim)
  \/ \E sub \in Subject, address \in Synced : SyncIdentity(sub, address)
  \/ \E a \in accounts : Suspend(a) \/ Close(a)

Spec == Init /\ [][Next]_vars

-------------------------------------------------------------------------------
TypeOK ==
  /\ accounts \subseteq [id : Account, subject : Subject, email : Email, status : Status]
  /\ identity \in [Subject -> Synced]
  /\ pc \in [Slot -> {"idle", "verified", "identity", "create", "insert"}]
  /\ token \in [Slot -> Claim]
  /\ email \in [Slot -> Email \cup {NoEmail}]
  /\ answer \in [Slot -> [status : {"none", "served", "error", "email_unverified", "identity_syncing",
                                  "email_required", "email_already_linked"},
                         account : Account \cup {NoAccount}]]
  /\ late \in [Slot -> BOOLEAN]

\* However many first requests race, a subject has one account, an address is held by one
\* account, and every request that is served is served its own subject's account.
OneAccountEach ==
  /\ \A a, b \in accounts : a # b => a.id # b.id /\ a.subject # b.subject /\ a.email # b.email
  /\ \A r \in Slot : answer[r].status = "served" =>
       \E a \in Of(SubjectOf(r)) : a.id = answer[r].account

\* No sign-in writes an account that is there: it keeps its subject and its address, whatever
\* the provider says since, and one that was suspended or deleted never opens again.
ClosedStaysClosed ==
  [][\A a \in accounts : \E b \in accounts' :
       /\ b.id = a.id /\ b.subject = a.subject /\ b.email = a.email
       /\ a.status # "active" => b.status # "active"
       /\ a.status = "deleted" => b.status = "deleted"]_vars

\* schema/0017, "A suspended or deleted account returns null, so suspension takes effect on
\* the next request": a request sent after the account was closed is not served.
ClosedIsNotServed == \A r \in Slot : late[r] => answer[r].status # "served"

-------------------------------------------------------------------------------
(* What the proofs of AccountProofs stand on. *)

\* A request that goes on to the insert has an address.
AddressInv == \A r \in Slot : pc[r] \in {"create", "insert"} => email[r] \in Email

IInv == TypeOK /\ AddressInv /\ OneAccountEach
===============================================================================
