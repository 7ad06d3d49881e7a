-------------------------------- MODULE Billing --------------------------------
(***************************************************************************)
(* The subscription of one account (service/app/billing.py): starting the  *)
(* trial, reading it, and Stripe's webhook, over the subscriptions row     *)
(* (schema/0018) and Stripe itself, which is external.                     *)
(*                                                                         *)
(* Every call to Stripe and every database call is a step of its own, so a *)
(* request can die, or be overtaken by an event, between any two of them.  *)
(* Stripe delivers each event at least once, and in any order.             *)
(***************************************************************************)
EXTENDS Integers

CONSTANTS
  Start,        \* startTrial requests
  Plan,         \* plan slugs
  Key, NoKey,   \* what the Idempotency-Key header may carry; NoKey \in Key if it may be absent
  Cust, NoCust, \* Stripe customer ids
  Sub, NoSub,   \* Stripe subscription ids
  StripeStatus, \* the statuses Stripe gives a subscription
  SearchLags,   \* TRUE: a customer can be missing from Stripe's search for a while
  MaxEvents     \* BOUND: the number of events Stripe makes

ASSUME BillingAssumption ==
  /\ NoCust \notin Cust /\ NoSub \notin Sub
  /\ {"trialing", "past_due"} \subseteq StripeStatus
  /\ SearchLags \in BOOLEAN
  /\ MaxEvents \in Nat

VARIABLES
  row,          \* the subscriptions row: [made, plan, status, cust, sub]
  pc,           \* [Start -> where the request is]
  want,         \* [Start -> [plan, key]]
  cust,         \* [Start -> the customer the request works with]
  got,          \* [Start -> the subscription object Stripe returned]
  customers,    \* Stripe: customers of the account
  searchable,   \* Stripe: those its search finds
  keyCust,      \* Stripe: [Plan \X Key -> what customers.create answered]
  subs,         \* Stripe: [Sub -> subscription object], NoObject before it exists
  keySub,       \* Stripe: [Plan \X Key -> what subscriptions.create answered]
  events,       \* Stripe: events not acknowledged yet, [n, kind, obj]
  made,         \* Stripe: how many events have been made
  read,         \* getSubscription in progress: [at, cust, obj]
  hook,         \* the webhook in progress, past its call to Stripe: [n, obj]
  everRow,      \* history: the customers the row has carried
  everStatus    \* history: [Sub -> the statuses it has had at Stripe]

stripe  == <<customers, searchable, keyCust, subs, keySub, events, made, everStatus>>
request == <<pc, want, cust, got>>
vars    == <<row, request, stripe, read, hook, everRow>>

RowStatus == {"trialing", "active", "past_due", "canceled", "incomplete"}

\* _STATUS_MAP; a status it does not list reads as incomplete.
Mapped(s) == CASE s = "unpaid" -> "past_due"
               [] s \in {"incomplete_expired", "paused"} -> "canceled"
               [] s \in RowStatus -> s
               [] OTHER -> "incomplete"

\* A subscription object: born orders subscriptions by creation, by is the key that made it.
NoObject == [id |-> NoSub, cust |-> NoCust, plan |-> "none", status |-> "none",
             born |-> 0, by |-> NoKey]
NoRead   == [at |-> "idle", cust |-> NoCust, obj |-> NoObject]
NoHook   == [n |-> 0, obj |-> NoObject]
NoRow    == [made |-> FALSE, plan |-> "none", status |-> "incomplete",
             cust |-> NoCust, sub |-> NoSub]

\* An id Stripe has not given yet.  Ids mean nothing, so which one it is does not matter.
Fresh(ids, given) == IF ids \subseteq given THEN {} ELSE {CHOOSE x \in ids \ given : TRUE}

Created    == {s \in Sub : subs[s] # NoObject}
HasSub(c)  == \E s \in Created : subs[s].cust = c
Newest(s)  == \A t \in Created : subs[t].cust = subs[s].cust => subs[t].born <= subs[s].born
KeyIn(r)   == <<want[r].plan, want[r].key>>     \* key = f"sub:{account}:{plan}:{key}"
\* Mutant: the call to Stripe leaves its idempotency key out.
NeverAnswered(r) == FALSE

\* Stripe has answered this idempotency key before: its first answer is the answer.
CustomerAnswered(r) == want[r].key # NoKey /\ keyCust[KeyIn(r)] # NoCust
SubscriptionAnswered(r) == want[r].key # NoKey /\ keySub[KeyIn(r)] # NoObject

Starting   == {r \in Start : pc[r] \notin {"idle", "done", "failed"}}

Init ==
  /\ row = NoRow
  /\ pc = [r \in Start |-> "idle"]
  /\ want = [r \in Start |-> [plan |-> "none", key |-> NoKey]]
  /\ cust = [r \in Start |-> NoCust]
  /\ got = [r \in Start |-> NoObject]
  /\ customers = {} /\ searchable = {}
  /\ keyCust = [k \in Plan \X Key |-> NoCust]
  /\ subs = [s \in Sub |-> NoObject]
  /\ keySub = [k \in Plan \X Key |-> NoObject]
  /\ events = {} /\ made = 0
  /\ read = NoRead /\ hook = NoHook
  /\ everRow = {}
  /\ everStatus = [s \in Sub |-> {}]

-------------------------------------------------------------------------------
(* The one write path: apply_subscription_event finds the row by customer. *)

Apply(o) ==
  IF row.made /\ row.cust = o.cust
    THEN row' = [row EXCEPT !.sub = o.id, !.plan = o.plan, !.status = Mapped(o.status)]
    ELSE UNCHANGED row           \* unknown_stripe_customer

-------------------------------------------------------------------------------
(* startTrial *)

Goto(r, place) == pc' = [pc EXCEPT ![r] = place]

Begin(r, p, k) ==
  /\ pc[r] = "idle"
  /\ want' = [want EXCEPT ![r] = [plan |-> p, key |-> k]]
  /\ Goto(r, "search")
  /\ UNCHANGED <<row, cust, got, stripe, read, hook, everRow>>

\* Mutant: a customer that exists is taken to have a row.
SearchCustomerSkipsRow(r) ==
  /\ pc[r] = "search"
  /\ \/ searchable = {} /\ Goto(r, "create") /\ UNCHANGED cust
     \/ \E c \in searchable : cust' = [cust EXCEPT ![r] = c] /\ Goto(r, "subscribe")
  /\ UNCHANGED <<row, want, got, stripe, read, hook, everRow>>

\* customers.search, limit 1.
SearchCustomer(r) ==
  /\ pc[r] = "search"
  /\ \/ searchable = {} /\ Goto(r, "create") /\ UNCHANGED cust
     \/ \E c \in searchable : cust' = [cust EXCEPT ![r] = c] /\ Goto(r, "row")
  /\ UNCHANGED <<row, want, got, stripe, read, hook, everRow>>

\* customers.create: a repeated idempotency key gives the first customer back.
CreateCustomer(r) ==
  /\ pc[r] = "create"
  /\ \E c \in IF CustomerAnswered(r) THEN {keyCust[KeyIn(r)]} ELSE Fresh(Cust, customers) :
       /\ customers' = customers \cup {c}
       /\ searchable' = IF SearchLags THEN searchable ELSE searchable \cup {c}
       /\ keyCust' = IF want[r].key = NoKey THEN keyCust
                     ELSE [keyCust EXCEPT ![KeyIn(r)] = c]
       /\ cust' = [cust EXCEPT ![r] = c]
  /\ Goto(r, "row")
  /\ UNCHANGED <<row, want, got, subs, keySub, events, made, everStatus, read, hook, everRow>>

\* Mutant: the conflict clause sets the status as the insert does.
WriteRowResets(r) ==
  /\ pc[r] = "row"
  /\ row' = [NoRow EXCEPT !.made = TRUE, !.plan = want[r].plan, !.cust = cust[r], !.sub = row.sub]
  /\ everRow' = everRow \cup {cust[r]}
  /\ Goto(r, "subscribe")
  /\ UNCHANGED <<want, cust, got, stripe, read, hook>>

\* create_subscription: on conflict (account_id) the plan and the customer change, and
\* the status stays.
WriteRow(r) ==
  /\ pc[r] = "row"
  /\ row' = IF row.made THEN [row EXCEPT !.plan = want[r].plan, !.cust = cust[r]]
            ELSE [NoRow EXCEPT !.made = TRUE, !.plan = want[r].plan, !.cust = cust[r]]
  /\ everRow' = everRow \cup {cust[r]}
  /\ Goto(r, "subscribe")
  /\ UNCHANGED <<want, cust, got, stripe, read, hook>>

Event(kind, o) == [n |-> made + 1, kind |-> kind, obj |-> o]

\* subscriptions.create.  A repeated key gives the first response back, and is refused
\* when the parameters differ (another customer).
CreateSubscription(r) ==
  /\ pc[r] = "subscribe"
  /\ LET first == keySub[KeyIn(r)] IN
     \/ /\ SubscriptionAnswered(r)
        /\ IF first.cust = cust[r]
             THEN got' = [got EXCEPT ![r] = first] /\ Goto(r, "apply")
             ELSE Goto(r, "failed") /\ UNCHANGED got
        /\ UNCHANGED stripe
     \/ /\ ~SubscriptionAnswered(r)
        /\ made < MaxEvents
        /\ \E s \in Fresh(Sub, Created) :
             LET o == [id |-> s, cust |-> cust[r], plan |-> want[r].plan,
                       status |-> "trialing", born |-> made + 1, by |-> want[r].key]
             IN  /\ subs' = [subs EXCEPT ![s] = o]
                 /\ keySub' = IF want[r].key = NoKey THEN keySub
                              ELSE [keySub EXCEPT ![KeyIn(r)] = o]
                 /\ events' = events \cup {Event("subscription", o)}
                 /\ made' = made + 1
                 /\ everStatus' = [everStatus EXCEPT ![s] = {"trialing"}]
                 /\ \/ got' = [got EXCEPT ![r] = o] /\ Goto(r, "apply")
                    \/ Goto(r, "failed") /\ UNCHANGED got     \* the response is lost
        /\ UNCHANGED <<customers, searchable, keyCust>>
  /\ UNCHANGED <<row, want, cust, read, hook, everRow>>

\* Mutant: a start that Stripe accepted is recorded as paid.
ApplyStartOptimistic(r) ==
  /\ pc[r] = "apply"
  /\ row' = IF row.cust = got[r].cust THEN [row EXCEPT !.sub = got[r].id, !.status = "active"] ELSE row
  /\ Goto(r, IF row.cust = got[r].cust THEN "done" ELSE "failed")
  /\ UNCHANGED <<want, cust, got, stripe, read, hook, everRow>>

\* The returned object is written at once "rather than waiting for the webhook".
ApplyStart(r) ==
  /\ pc[r] = "apply"
  /\ Apply(got[r])
  /\ Goto(r, IF row.cust = got[r].cust THEN "done" ELSE "failed")
  /\ UNCHANGED <<want, cust, got, stripe, read, hook, everRow>>

\* A StripeError, a database error or the process dying between two calls.
FailStart(r) ==
  /\ r \in Starting
  /\ Goto(r, "failed")
  /\ UNCHANGED <<row, want, cust, got, stripe, read, hook, everRow>>

-------------------------------------------------------------------------------
(* getSubscription: a row still incomplete is refreshed from Stripe. *)

\* Mutant: only a row that names a subscription is refreshed.
ReadRowKnown ==
  /\ read.at = "idle"
  /\ row.made /\ row.status = "incomplete" /\ row.sub # NoSub
  /\ read' = [NoRead EXCEPT !.at = "list", !.cust = row.cust]
  /\ UNCHANGED <<row, request, stripe, hook, everRow>>

ReadRow ==
  /\ read.at = "idle"
  /\ row.made /\ row.status = "incomplete"
  /\ read' = [NoRead EXCEPT !.at = "list", !.cust = row.cust]
  /\ UNCHANGED <<row, request, stripe, hook, everRow>>

\* subscriptions.list, limit 1: the customer's newest subscription, if there is one.
ReadList ==
  /\ read.at = "list"
  /\ \/ /\ ~HasSub(read.cust)
        /\ read' = NoRead
     \/ \E s \in Created :
          /\ subs[s].cust = read.cust /\ Newest(s)
          /\ read' = [read EXCEPT !.at = "write", !.obj = subs[s]]
  /\ UNCHANGED <<row, request, stripe, hook, everRow>>

ReadWrite ==
  /\ read.at = "write"
  /\ Apply(read.obj)
  /\ read' = NoRead
  /\ UNCHANGED <<request, stripe, hook, everRow>>

\* Stripe does not answer the list and the page falls back to the row it has, or the
\* request dies, before the list or between the list and the write.
ReadFail ==
  /\ read.at # "idle"
  /\ read' = NoRead
  /\ UNCHANGED <<row, request, stripe, hook, everRow>>

-------------------------------------------------------------------------------
(* receiveStripeWebhook.  The handler is async and blocks, so one runs at a time. *)

\* Stripe tries an event again until a delivery of it is acknowledged.
Deliverable(e) == e \in events /\ hook = NoHook

Acknowledge(e) == events' = events \ {e} \/ UNCHANGED events

StripeButEvents == <<customers, searchable, keyCust, subs, keySub, made, everStatus>>

\* customer.subscription.*: the object in the event is what is written.
DeliverSubscription(e) ==
  /\ Deliverable(e) /\ e.kind = "subscription"
  /\ Apply(e.obj)
  /\ Acknowledge(e)
  /\ UNCHANGED <<request, StripeButEvents, read, hook, everRow>>

\* invoice.payment_failed that names its subscription: it is read back from Stripe first.
RetrieveForInvoice(e) ==
  /\ Deliverable(e) /\ e.kind = "invoice" /\ e.obj.id # NoSub
  /\ hook' = [n |-> e.n, obj |-> subs[e.obj.id]]
  /\ UNCHANGED <<row, request, stripe, read, everRow>>

ApplyInvoice(e) ==
  /\ e \in events /\ hook.n = e.n
  /\ Apply(hook.obj)
  /\ hook' = NoHook
  /\ Acknowledge(e)
  /\ UNCHANGED <<request, StripeButEvents, read, everRow>>

\* One that names only its customer writes past_due and keeps the rest.
DeliverBareInvoice(e) ==
  /\ Deliverable(e) /\ e.kind = "invoice" /\ e.obj.id = NoSub
  /\ row' = IF row.made /\ row.cust = e.obj.cust THEN [row EXCEPT !.status = "past_due"] ELSE row
  /\ Acknowledge(e)
  /\ UNCHANGED <<request, StripeButEvents, read, hook, everRow>>

\* The call to Stripe fails or the process dies, and the event will come again.
LoseHook == hook # NoHook /\ hook' = NoHook /\ UNCHANGED <<row, request, stripe, read, everRow>>

-------------------------------------------------------------------------------
(* Stripe *)

Final == {"canceled", "incomplete_expired"}

\* A subscription's status changes.  A payment that failed makes an invoice event as well,
\* which names the subscription or, on newer API versions, only the customer.
StatusChange(s, status) ==
  /\ s \in Created /\ status # subs[s].status /\ subs[s].status \notin Final
  /\ made + 1 < MaxEvents
  /\ LET o == [subs[s] EXCEPT !.status = status]
         update == Event("subscription", o)
     IN
     /\ subs' = [subs EXCEPT ![s] = o]
     /\ \/ /\ status = "past_due"
           /\ \E named \in {o, [NoObject EXCEPT !.cust = o.cust]} :
                events' = events \cup {update, [n |-> made + 2, kind |-> "invoice", obj |-> named]}
           /\ made' = made + 2
        \/ /\ status # "past_due"
           /\ events' = events \cup {update}
           /\ made' = made + 1
  /\ everStatus' = [everStatus EXCEPT ![s] = @ \cup {status}]
  /\ UNCHANGED <<row, request, customers, searchable, keyCust, keySub, read, hook, everRow>>

\* The search index catches up.
Index(c) ==
  /\ c \in customers \ searchable
  /\ searchable' = searchable \cup {c}
  /\ UNCHANGED <<row, request, customers, keyCust, subs, keySub, events, made, everStatus,
                 read, hook, everRow>>

-------------------------------------------------------------------------------
Serve(r) ==
  \/ SearchCustomer(r) \/ CreateCustomer(r) \/ WriteRow(r)
  \/ CreateSubscription(r) \/ ApplyStart(r)

Deliver(e) ==
  \/ DeliverSubscription(e) \/ RetrieveForInvoice(e) \/ ApplyInvoice(e) \/ DeliverBareInvoice(e)

Read == ReadRow \/ ReadList \/ ReadWrite \/ ReadFail

Next ==
  \/ \E r \in Start :
       \/ \E p \in Plan, k \in Key : Begin(r, p, k)
       \/ Serve(r) \/ FailStart(r)
  \/ Read
  \/ \E e \in events : Deliver(e)
  \/ LoseHook
  \/ \E s \in Sub, status \in StripeStatus : StatusChange(s, status)
  \/ \E c \in Cust : Index(c)

Spec == Init /\ [][Next]_vars

\* A seller keeps opening a page that reads the subscription, and Stripe and the database
\* do not fail every one of those requests.
FairSpec == Spec /\ WF_vars(ReadRow) /\ SF_vars(ReadList) /\ SF_vars(ReadWrite)

-------------------------------------------------------------------------------
Object == [id : Sub \cup {NoSub}, cust : Cust \cup {NoCust}, plan : Plan \cup {"none"},
           status : StripeStatus \cup {"none"}, born : 0..MaxEvents, by : Key \cup {NoKey}]

TypeOK ==
  /\ row \in [made : BOOLEAN, plan : Plan \cup {"none"}, status : RowStatus,
             cust : Cust \cup {NoCust}, sub : Sub \cup {NoSub}]
  /\ pc \in [Start -> {"idle", "search", "create", "row", "subscribe", "apply", "done", "failed"}]
  /\ want \in [Start -> [plan : Plan \cup {"none"}, key : Key \cup {NoKey}]]
  /\ cust \in [Start -> Cust \cup {NoCust}]
  /\ got \in [Start -> Object]
  /\ customers \subseteq Cust /\ searchable \subseteq customers
  /\ keyCust \in [Plan \X Key -> Cust \cup {NoCust}]
  /\ keySub \in [Plan \X Key -> Object]
  /\ subs \in [Sub -> Object]
  /\ events \subseteq [n : 1..MaxEvents, kind : {"subscription", "invoice"}, obj : Object]
  /\ made \in 0..MaxEvents
  /\ read \in [at : {"idle", "list", "write"}, cust : Cust \cup {NoCust}, obj : Object]
  /\ hook \in [n : 0..MaxEvents, obj : Object]
  /\ everRow \subseteq Cust
  /\ everStatus \in [Sub -> SUBSET StripeStatus]

Quiet == Starting = {} /\ read = NoRead /\ hook = NoHook /\ events = {}

\* Stripe once said so of the subscription, or a payment of this account failed.
Told(s, status) ==
  \/ /\ s \in Created /\ subs[s].cust \in everRow
     /\ \E t \in everStatus[s] : status = Mapped(t)
  \/ /\ status = "past_due"
     /\ \E t \in Created : subs[t].cust \in everRow /\ "past_due" \in everStatus[t]

\* Whatever the order of events, repeats and lost answers, the access a row grants is what
\* the subscription it names once had at Stripe, or stands for a payment of this account
\* that failed: the service never makes it up, nor takes it from another subscription.
StatusWasReal == row.status # "incomplete" => Told(row.sub, row.status)

\* start_trial writes the row "so a webhook that arrives the instant the subscription is
\* created finds a customer to attach to": no subscription precedes its customer's row.
RowBeforeSubscription == \A s \in Created : subs[s].cust \in everRow

\* Two subscriptions that carry one Idempotency-Key are of two plans: a start that is
\* sent again, at any point of the first, makes no second subscription of that plan.
OneSubPerKey ==
  \A s, t \in Created :
    s # t /\ subs[s].by = subs[t].by /\ subs[s].by # NoKey => subs[s].plan # subs[t].plan

\* A row that was confirmed reads as unconfirmed again only when a status of its customer's
\* subscription that is not a confirmation is written: no second start takes it back.
OnlyStripeUnconfirms ==
  [][row.status # "incomplete" /\ row'.status = "incomplete" =>
       /\ row'.cust = row.cust
       /\ row'.sub \in Created /\ subs[row'.sub].cust = row.cust
       /\ \E t \in everStatus[row'.sub] : Mapped(t) = "incomplete"]_vars

\* billing.py, the webhook: "events can arrive out of order, so every handler is
\* idempotent: each writes the subscription's current state".  When nothing is in progress
\* and every event was acknowledged, the row says what Stripe says of the subscription it names.
MirrorWhenQuiet ==
  Quiet /\ row.sub # NoSub => row.status = Mapped(subs[row.sub].status)

\* Stripe has confirmed the newest subscription of the customer.
Confirmed(c) ==
  \E s \in Created : subs[s].cust = c /\ Newest(s) /\ Mapped(subs[s].status) # "incomplete"

\* A row left incomplete by a start that died, or by an event that found it on another
\* customer, leaves that state once the seller keeps looking, if Stripe has confirmed the
\* newest subscription of its customer and nothing else moves either of them.
IncompleteHeals ==
  (row.status = "incomplete" /\ Confirmed(row.cust)) ~>
    (row.status # "incomplete" \/ ~Confirmed(row.cust))

-------------------------------------------------------------------------------
(* What the proofs of BillingProofs stand on. *)

\* What Stripe once said of a subscription: its customer never changes, its status does.
Known(o) ==
  o.id \in Created /\ subs[o.id].cust = o.cust /\ o.status \in everStatus[o.id]

\* Every object somebody has: Stripe, its answers and events, and whoever is about to write.
Held ==
  {subs[s] : s \in Sub} \cup {got[r] : r \in Start} \cup {keySub[k] : k \in Plan \X Key} \cup
  {e.obj : e \in events} \cup {read.obj, hook.obj}

HeldInv == \A o \in Held : o.id # NoSub => Known(o)

\* What is written names a subscription, or stands for a payment that failed.
PlaceInv ==
  /\ \A r \in Start :
       /\ pc[r] # "idle" => want[r].plan \in Plan /\ want[r].key \in Key
       /\ pc[r] \in {"row", "subscribe", "apply"} => cust[r] \in Cust
       /\ pc[r] \in {"subscribe", "apply"} => cust[r] \in everRow
       /\ pc[r] = "apply" => got[r].id # NoSub
  /\ read.at = "write" => read.obj.id # NoSub
  /\ hook.n # 0 => hook.obj.id # NoSub
  /\ \A e \in events : e.obj.id = NoSub =>
       e.kind = "invoice" /\ \E s \in Created : "past_due" \in everStatus[s]

\* A subscription goes by its own name, and its key's answer is about it.
KeyInv ==
  /\ \A s \in Created :
       /\ subs[s].id = s
       /\ subs[s].by # NoKey =>
            /\ <<subs[s].plan, subs[s].by>> \in Plan \X Key
            /\ keySub[<<subs[s].plan, subs[s].by>>].id = s
  /\ \A k \in Plan \X Key : keySub[k] # NoObject => keySub[k].id # NoSub

RowInv == ~row.made => row.status = "incomplete"

IInv ==
  TypeOK /\ HeldInv /\ PlaceInv /\ KeyInv /\ RowInv
    /\ RowBeforeSubscription /\ StatusWasReal
===============================================================================
