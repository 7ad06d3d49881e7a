------------------------------ MODULE BillingProofs ------------------------------
(* Theorems of Billing: any number of starts, plans, keys, customers and subscriptions, *)
(* events in any order and any number of times, and a search that lags or does not.     *)
EXTENDS Billing, TLAPS

RowType == [made : BOOLEAN, plan : Plan \cup {"none"}, status : RowStatus,
            cust : Cust \cup {NoCust}, sub : Sub \cup {NoSub}]
EventType == [n : 1..MaxEvents, kind : {"subscription", "invoice"}, obj : Object]
Places == {"idle", "search", "create", "row", "subscribe", "apply", "done", "failed"}

\* What Stripe confirmed stays confirmed, unless Stripe says otherwise.
Confirms ==
  row.status # "incomplete" /\ row'.status = "incomplete" =>
    /\ row'.cust = row.cust
    /\ row'.sub \in Created /\ subs[row'.sub].cust = row.cust
    /\ \E t \in everStatus[row'.sub] : Mapped(t) = "incomplete"

\* The row keeps its status and its subscription, or is given one it was told of.
ToldOrKept ==
  \/ row'.status = row.status /\ row'.sub = row.sub
  \/ row'.status = "incomplete"
  \/ Told(row'.sub, row'.status)

\* What stands for "no object" and "no row" is well typed and names no subscription.
LEMMA NothingType ==
  NoObject \in Object /\ NoObject.id = NoSub /\ NoRow \in RowType
<1>1. NoObject \in Object /\ NoObject.id = NoSub
  BY BillingAssumption DEF NoObject, Object
<1>2. NoRow \in RowType
  BY DEF NoRow, RowType, RowStatus
<1> QED
  BY <1>1, <1>2

\* Before anybody signs up Stripe has nothing, and nothing is on its way.
LEMMA InvInit == Init => IInv
<1> SUFFICES ASSUME Init PROVE IInv
  OBVIOUS
<1>1. TypeOK
  <2>1. NoRead \in [at : {"idle", "list", "write"}, cust : Cust \cup {NoCust}, obj : Object]
        /\ NoHook \in [n : 0..MaxEvents, obj : Object]
    BY NothingType, BillingAssumption DEF NoRead, NoHook
  <2> QED
    BY <2>1, NothingType, BillingAssumption DEF Init, TypeOK, RowType
<1>2. Created = {}
  BY DEF Init, Created
<1>3. HeldInv
  BY NothingType DEF Init, HeldInv, Held, NoRead, NoHook
<1>4. PlaceInv
  BY DEF Init, PlaceInv, NoRead, NoHook
<1>5. KeyInv /\ RowInv /\ RowBeforeSubscription /\ StatusWasReal
  BY <1>2 DEF Init, KeyInv, RowInv, NoRow, RowBeforeSubscription, StatusWasReal
<1> QED
  BY <1>1, <1>3, <1>4, <1>5 DEF IInv

-------------------------------------------------------------------------------
(* Statuses and objects. *)

\* Every status of Stripe is spelled as one of the row's, one that the map does not list too.
LEMMA MappedType == \A t \in StripeStatus : Mapped(t) \in RowStatus
BY DEF Mapped, RowStatus

\* Whatever somebody holds is an object.
LEMMA HeldType == ASSUME TypeOK, NEW o \in Held PROVE o \in Object
BY DEF TypeOK, Held

\* What Stripe once said of a subscription is typed, and its status is a real one.
LEMMA KnownType ==
  ASSUME IInv, NEW o, Known(o)
  PROVE  o.id \in Sub /\ o.status \in StripeStatus /\ o.cust \in everRow /\ Told(o.id, Mapped(o.status))
<1>1. o.id \in Created /\ o.id \in Sub /\ subs[o.id].cust = o.cust /\ o.status \in everStatus[o.id]
  BY DEF Known, Created
<1>2. o.status \in StripeStatus
  BY <1>1 DEF IInv, TypeOK
<1>3. o.cust \in everRow
  BY <1>1 DEF IInv, RowBeforeSubscription
<1> QED
  BY <1>1, <1>2, <1>3 DEF Told

\* Stripe keeps its subscriptions and their customers, and the history only grows.
LEMMA KnownStays ==
  ASSUME NEW o, Known(o),
         \A s \in Created : s \in Created' /\ subs'[s].cust = subs[s].cust /\ everStatus[s] \subseteq everStatus'[s]
  PROVE  Known(o)'
BY DEF Known

\* What a write of a known object does to the row.
LEMMA Written ==
  ASSUME IInv, NEW o \in Object, Known(o),
         IF row.made /\ row.cust = o.cust
           THEN row' = [row EXCEPT !.sub = o.id, !.plan = o.plan, !.status = Mapped(o.status)]
           ELSE row' = row
  PROVE  /\ row' \in RowType /\ RowInv'
         /\ ToldOrKept /\ Confirms
<1>1. row \in RowType
  BY DEF IInv, TypeOK, RowType
<1>2. Mapped(o.status) \in RowStatus /\ Told(o.id, Mapped(o.status))
  BY KnownType, MappedType
<1>3. CASE row.made /\ row.cust = o.cust
  <2>1. row' = [row EXCEPT !.sub = o.id, !.plan = o.plan, !.status = Mapped(o.status)]
    BY <1>3
  <2>2. o.id \in Sub \cup {NoSub} /\ o.plan \in Plan \cup {"none"}
    BY DEF Object
  <2>3. /\ row' \in RowType /\ row'.made /\ row'.status = Mapped(o.status)
        /\ row'.sub = o.id /\ row'.cust = row.cust
    BY <1>1, <1>2, <1>3, <2>1, <2>2 DEF RowType
  <2>4. Confirms
    BY <1>3, <2>3 DEF Confirms, Known
  <2> QED
    BY <1>2, <2>3, <2>4 DEF RowInv, ToldOrKept
<1>4. CASE ~(row.made /\ row.cust = o.cust)
  BY <1>1, <1>4 DEF IInv, RowInv, Confirms, ToldOrKept
<1> QED
  BY <1>3, <1>4

-------------------------------------------------------------------------------
(* A step that makes and changes no subscription. *)

\* A step that changes nothing at Stripe, brings nobody a new object and writes a real status
\* keeps the invariant.
LEMMA InvStands ==
  ASSUME IInv, TypeOK', PlaceInv', RowInv',
         UNCHANGED <<subs, keySub, everStatus>>, everRow \subseteq everRow',
         \A o \in Held' : o \in Held \/ o.id = NoSub,
         ToldOrKept
  PROVE  IInv'
<1>1. Created' = Created
  BY DEF Created
<1>2. HeldInv'
  <2>1. \A o : Known(o) => Known(o)'
    BY <1>1 DEF Known
  <2> QED
    BY <2>1 DEF IInv, HeldInv
<1>3. KeyInv' /\ RowBeforeSubscription'
  BY <1>1 DEF IInv, KeyInv, RowBeforeSubscription
<1>4. StatusWasReal'
  <2> SUFFICES ASSUME row'.status # "incomplete" PROVE Told(row.sub, row.status)'
    BY DEF StatusWasReal
  <2>1. Told(row'.sub, row'.status)
    BY DEF IInv, StatusWasReal, ToldOrKept
  <2> QED
    BY <1>1, <2>1 DEF Told
<1> QED
  BY <1>2, <1>3, <1>4 DEF IInv

\* PlaceInv after a step that makes no subscription: what is left to see.
LEMMA PlaceStands ==
  ASSUME IInv, UNCHANGED <<subs, everStatus>>, events' \subseteq events, everRow \subseteq everRow',
         \A r \in Start :
           /\ pc'[r] # "idle" => want'[r].plan \in Plan /\ want'[r].key \in Key
           /\ pc'[r] \in {"row", "subscribe", "apply"} => cust'[r] \in Cust
           /\ pc'[r] \in {"subscribe", "apply"} => cust'[r] \in everRow'
           /\ pc'[r] = "apply" => got'[r].id # NoSub,
         read'.at = "write" => read'.obj.id # NoSub,
         hook'.n # 0 => hook'.obj.id # NoSub
  PROVE  PlaceInv'
<1>1. Created' = Created
  BY DEF Created
<1> QED
  BY <1>1 DEF IInv, PlaceInv

-------------------------------------------------------------------------------
(* startTrial *)

\* A start begins: it holds nothing yet.
LEMMA BeginInv == ASSUME IInv, NEW r \in Start, NEW p \in Plan, NEW k \in Key, Begin(r, p, k) PROVE IInv'
<1>1. /\ want' = [want EXCEPT ![r] = [plan |-> p, key |-> k]] /\ pc' = [pc EXCEPT ![r] = "search"]
      /\ UNCHANGED <<row, cust, got, stripe, read, hook, everRow>>
  BY DEF Begin, Goto
<1>2. TypeOK'
  <2>1. want' \in [Start -> [plan : Plan \cup {"none"}, key : Key \cup {NoKey}]]
    BY <1>1 DEF IInv, TypeOK
  <2>2. pc' \in [Start -> Places]
    BY <1>1 DEF IInv, TypeOK, Places
  <2> QED
    BY <1>1, <2>1, <2>2 DEF IInv, TypeOK, Places, stripe
<1>3. /\ want'[r] = [plan |-> p, key |-> k] /\ pc'[r] = "search"
      /\ \A q \in Start : q # r => want'[q] = want[q] /\ pc'[q] = pc[q]
  BY <1>1 DEF IInv, TypeOK
<1>4. PlaceInv'
  BY <1>1, <1>3, PlaceStands DEF IInv, PlaceInv, stripe
<1>5. RowInv' /\ \A o \in Held' : o \in Held
  BY <1>1 DEF IInv, RowInv, Held, stripe
<1> QED
  BY <1>1, <1>2, <1>4, <1>5, InvStands DEF stripe, ToldOrKept

\* The customer is searched for at Stripe: what is found is a customer.
LEMMA SearchCustomerInv == ASSUME IInv, NEW r \in Start, SearchCustomer(r) PROVE IInv'
<1>1. PICK place \in {"create", "row"} :
        /\ pc[r] = "search" /\ pc' = [pc EXCEPT ![r] = place]
        /\ \/ place = "create" /\ UNCHANGED cust
           \/ \E c \in searchable : cust' = [cust EXCEPT ![r] = c]
        /\ UNCHANGED <<row, want, got, stripe, read, hook, everRow>>
  BY DEF SearchCustomer, Goto
<1>2. searchable \subseteq Cust
  BY DEF IInv, TypeOK
<1>3. pc' \in [Start -> Places] /\ cust' \in [Start -> Cust \cup {NoCust}]
  BY <1>1, <1>2 DEF IInv, TypeOK, Places
<1>4. TypeOK'
  BY <1>1, <1>3 DEF IInv, TypeOK, Places, stripe
<1>5. /\ pc'[r] = place
      /\ place = "row" => cust'[r] \in Cust
      /\ \A q \in Start : q # r => pc'[q] = pc[q] /\ cust'[q] = cust[q]
  BY <1>1, <1>2 DEF IInv, TypeOK
<1>6. PlaceInv'
  BY <1>1, <1>5, PlaceStands DEF IInv, PlaceInv, stripe
<1>7. RowInv' /\ \A o \in Held' : o \in Held
  BY <1>1 DEF IInv, RowInv, Held, stripe
<1> QED
  BY <1>1, <1>4, <1>6, <1>7, InvStands DEF stripe, ToldOrKept

\* A fresh id is one of the ids, and none that was given.
LEMMA FreshType == ASSUME NEW ids, NEW given, NEW x \in Fresh(ids, given) PROVE x \in ids \ given
BY DEF Fresh

\* A customer is created, or the key's answer repeated; there is no subscription of it.
LEMMA CreateCustomerInv == ASSUME IInv, NEW r \in Start, CreateCustomer(r) PROVE IInv'
<1>1. PICK c \in Cust :
        /\ pc[r] = "create" /\ pc' = [pc EXCEPT ![r] = "row"] /\ cust' = [cust EXCEPT ![r] = c]
        /\ customers' = customers \cup {c}
        /\ searchable' = IF SearchLags THEN searchable ELSE searchable \cup {c}
        /\ keyCust' = IF want[r].key = NoKey THEN keyCust ELSE [keyCust EXCEPT ![KeyIn(r)] = c]
        /\ UNCHANGED <<row, want, got, subs, keySub, events, made, everStatus, read, hook, everRow>>
  <2>1. ASSUME pc[r] = "create", CustomerAnswered(r) PROVE keyCust[KeyIn(r)] \in Cust
    BY <2>1 DEF CustomerAnswered, KeyIn, IInv, TypeOK, PlaceInv
  <2> QED
    BY <2>1, FreshType DEF CreateCustomer, Goto
<1>2. TypeOK'
  <2>1. pc' \in [Start -> Places] /\ cust' \in [Start -> Cust \cup {NoCust}]
    BY <1>1 DEF IInv, TypeOK, Places
  <2>2. keyCust' \in [Plan \X Key -> Cust \cup {NoCust}]
    BY <1>1 DEF IInv, TypeOK
  <2>3. customers' \subseteq Cust /\ searchable' \subseteq customers'
    BY <1>1 DEF IInv, TypeOK
  <2> QED
    BY <1>1, <2>1, <2>2, <2>3 DEF IInv, TypeOK, Places
<1>3. /\ pc'[r] = "row" /\ cust'[r] = c
      /\ \A q \in Start : q # r => pc'[q] = pc[q] /\ cust'[q] = cust[q]
  BY <1>1 DEF IInv, TypeOK
<1>4. PlaceInv'
  BY <1>1, <1>3, PlaceStands DEF IInv, PlaceInv
<1>5. RowInv' /\ \A o \in Held' : o \in Held
  BY <1>1 DEF IInv, RowInv, Held
<1> QED
  BY <1>1, <1>2, <1>4, <1>5, InvStands DEF ToldOrKept

\* The row has its customer before the request can ask for a subscription.
LEMMA WriteRowInv == ASSUME IInv, NEW r \in Start, WriteRow(r) PROVE IInv'
<1>1. /\ pc[r] = "row" /\ pc' = [pc EXCEPT ![r] = "subscribe"] /\ everRow' = everRow \cup {cust[r]}
      /\ row' = IF row.made THEN [row EXCEPT !.plan = want[r].plan, !.cust = cust[r]]
                ELSE [NoRow EXCEPT !.made = TRUE, !.plan = want[r].plan, !.cust = cust[r]]
      /\ UNCHANGED <<want, cust, got, stripe, read, hook>>
  BY DEF WriteRow, Goto
<1>2. cust[r] \in Cust /\ want[r].plan \in Plan
  BY <1>1 DEF IInv, PlaceInv
<1>3. row \in RowType
  BY DEF IInv, TypeOK, RowType
<1>4. /\ row' \in RowType /\ row'.made
      /\ (row'.status = row.status /\ row'.sub = row.sub) \/ row'.status = "incomplete"
  <2>1. CASE row.made
    BY <1>1, <1>2, <1>3, <2>1 DEF RowType
  <2>2. CASE ~row.made
    <3>1. row' = [NoRow EXCEPT !.made = TRUE, !.plan = want[r].plan, !.cust = cust[r]]
      BY <1>1, <2>2
    <3> QED
      BY <1>2, <3>1 DEF RowType, NoRow, RowStatus
  <2> QED
    BY <2>1, <2>2
<1>5. pc' \in [Start -> Places]
  BY <1>1 DEF IInv, TypeOK, Places
<1>6. TypeOK'
  BY <1>1, <1>2, <1>4, <1>5 DEF IInv, TypeOK, Places, RowType, stripe
<1>7. pc'[r] = "subscribe" /\ \A q \in Start : q # r => pc'[q] = pc[q]
  BY <1>1 DEF IInv, TypeOK
<1>8. PlaceInv'
  BY <1>1, <1>2, <1>7, PlaceStands DEF IInv, PlaceInv, stripe
<1>9. RowInv' /\ \A o \in Held' : o \in Held
  BY <1>1, <1>4 DEF RowInv, Held, stripe
<1> QED
  BY <1>1, <1>4, <1>6, <1>8, <1>9, InvStands DEF stripe, ToldOrKept

\* A key that Stripe has answered gets its answer again: Stripe and the row stay.
LEMMA AnsweredInv ==
  ASSUME IInv, NEW r \in Start, pc[r] = "subscribe", SubscriptionAnswered(r),
         IF keySub[KeyIn(r)].cust = cust[r]
           THEN got' = [got EXCEPT ![r] = keySub[KeyIn(r)]] /\ Goto(r, "apply")
           ELSE Goto(r, "failed") /\ UNCHANGED got,
         UNCHANGED stripe, UNCHANGED <<row, want, cust, read, hook, everRow>>
  PROVE  IInv'
<1>1. want[r].plan \in Plan /\ want[r].key \in Key /\ KeyIn(r) \in Plan \X Key
  BY DEF IInv, PlaceInv, KeyIn
<1>2. PICK first \in Object : first = keySub[KeyIn(r)]
  BY <1>1 DEF IInv, TypeOK
<1>3. first \in Held /\ first # NoObject
  BY <1>1, <1>2 DEF Held, SubscriptionAnswered
<1>4. PICK place \in {"apply", "failed"} :
        /\ pc' = [pc EXCEPT ![r] = place]
        /\ \/ place = "apply" /\ got' = [got EXCEPT ![r] = first]
           \/ place = "failed" /\ UNCHANGED got
  BY <1>2 DEF Goto
<1>5. pc' \in [Start -> Places] /\ got' \in [Start -> Object]
  BY <1>2, <1>4 DEF IInv, TypeOK, Places
<1>6. TypeOK'
  BY <1>5 DEF IInv, TypeOK, Places, stripe
<1>7. /\ pc'[r] = place
      /\ place = "apply" => got'[r] = first
      /\ got'[r] \in {got[r], first}
      /\ \A q \in Start : q # r => pc'[q] = pc[q] /\ got'[q] = got[q]
  BY <1>4 DEF IInv, TypeOK
<1>8. first.id # NoSub
  BY <1>1, <1>2, <1>3 DEF IInv, KeyInv
<1>9. PlaceInv'
  BY <1>7, <1>8, PlaceStands DEF IInv, PlaceInv, stripe
<1>10. RowInv' /\ \A o \in Held' : o \in Held
  BY <1>3, <1>7 DEF IInv, RowInv, Held, stripe
<1> QED
  BY <1>6, <1>9, <1>10, InvStands DEF stripe, ToldOrKept

\* Stripe makes a subscription that did not exist, for a key it has not answered.
LEMMA NewSubscriptionInv ==
  ASSUME IInv, NEW r \in Start, pc[r] = "subscribe", ~SubscriptionAnswered(r), made < MaxEvents,
         NEW s \in Sub \ Created, NEW o,
         o = [id |-> s, cust |-> cust[r], plan |-> want[r].plan,
              status |-> "trialing", born |-> made + 1, by |-> want[r].key],
         subs' = [subs EXCEPT ![s] = o],
         keySub' = IF want[r].key = NoKey THEN keySub ELSE [keySub EXCEPT ![KeyIn(r)] = o],
         events' = events \cup {Event("subscription", o)}, made' = made + 1,
         everStatus' = [everStatus EXCEPT ![s] = {"trialing"}],
         \/ got' = [got EXCEPT ![r] = o] /\ Goto(r, "apply")
         \/ Goto(r, "failed") /\ UNCHANGED got,
         UNCHANGED <<customers, searchable, keyCust, row, want, cust, read, hook, everRow>>
  PROVE  IInv'
<1>1. want[r].plan \in Plan /\ want[r].key \in Key /\ cust[r] \in everRow /\ cust[r] \in Cust
  BY DEF IInv, PlaceInv
<1>2. made \in Nat /\ MaxEvents \in Nat /\ made + 1 \in 1..MaxEvents /\ made + 1 \in 0..MaxEvents
  BY BillingAssumption DEF IInv, TypeOK
<1>3. o \in Object /\ o.id = s /\ o.id # NoSub /\ o # NoObject /\ o.cust = cust[r]
      /\ o.plan = want[r].plan /\ o.by = want[r].key /\ o.status = "trialing"
  <2>1. o.id = s /\ o.cust = cust[r] /\ o.plan = want[r].plan /\ o.by = want[r].key /\ o.status = "trialing"
    OBVIOUS
  <2>2. o \in Object
    BY <1>1, <1>2, BillingAssumption DEF Object
  <2>3. s # NoSub
    BY BillingAssumption
  <2> QED
    BY <2>1, <2>2, <2>3, NothingType
<1>4. /\ subs'[s] = o /\ everStatus'[s] = {"trialing"}
      /\ \A t \in Sub : t # s => subs'[t] = subs[t] /\ everStatus'[t] = everStatus[t]
  BY DEF IInv, TypeOK
<1>5. Created' = Created \cup {s}
  BY <1>3, <1>4 DEF Created
<1>6. PICK e \in EventType : e = Event("subscription", o) /\ e.obj = o /\ events' = events \cup {e}
  BY <1>2, <1>3 DEF Event, EventType
<1>7. PICK place \in {"apply", "failed"} :
        /\ pc' = [pc EXCEPT ![r] = place]
        /\ \/ place = "apply" /\ got' = [got EXCEPT ![r] = o]
           \/ place = "failed" /\ UNCHANGED got
  BY DEF Goto
<1>8. /\ pc'[r] = place /\ got'[r] \in {got[r], o}
      /\ place = "apply" => got'[r] = o
      /\ \A q \in Start : q # r => pc'[q] = pc[q] /\ got'[q] = got[q]
  BY <1>7 DEF IInv, TypeOK
<1>9. KeyIn(r) \in Plan \X Key
  BY <1>1 DEF KeyIn
<1>10. TypeOK'
  <2>1. pc' \in [Start -> Places] /\ got' \in [Start -> Object]
    BY <1>3, <1>7 DEF IInv, TypeOK, Places
  <2>2. subs' \in [Sub -> Object] /\ everStatus' \in [Sub -> SUBSET StripeStatus]
    BY <1>3, BillingAssumption DEF IInv, TypeOK
  <2>3. keySub' \in [Plan \X Key -> Object]
    BY <1>3 DEF IInv, TypeOK
  <2>4. events' \subseteq EventType
    BY <1>6 DEF IInv, TypeOK, EventType
  <2>5. made' \in 0..MaxEvents
    BY <1>2
  <2> QED
    BY <2>1, <2>2, <2>3, <2>4, <2>5 DEF IInv, TypeOK, Places, EventType
<1>11. \A t \in Created : t \in Created' /\ subs'[t].cust = subs[t].cust /\ everStatus[t] \subseteq everStatus'[t]
  BY <1>4, <1>5 DEF Created
<1>12. keySub' = keySub \/ keySub' = [keySub EXCEPT ![KeyIn(r)] = o]
  OBVIOUS
<1>13. HeldInv'
  <2>1. Known(o)'
    BY <1>3, <1>4, <1>5 DEF Known
  <2>2. \A p \in Held' : p \in Held \/ p = o
    <3>1. \A t \in Sub : subs'[t] \in Held \cup {o}
      BY <1>4 DEF Held
    <3>2. \A q \in Start : got'[q] \in Held \cup {o}
      BY <1>8 DEF Held
    <3>3. \A k \in Plan \X Key : keySub'[k] \in Held \cup {o}
      BY <1>12 DEF Held, IInv, TypeOK
    <3>4. \A f \in events' : f.obj \in Held \cup {o}
      BY <1>6 DEF Held
    <3> QED
      BY <3>1, <3>2, <3>3, <3>4 DEF Held
  <2> QED
    BY <1>11, <2>1, <2>2, KnownStays DEF IInv, HeldInv
<1>14. PlaceInv'
  <2>1. \A q \in Start :
          /\ pc'[q] # "idle" => want[q].plan \in Plan /\ want[q].key \in Key
          /\ pc'[q] \in {"row", "subscribe", "apply"} => cust[q] \in Cust
          /\ pc'[q] \in {"subscribe", "apply"} => cust[q] \in everRow
          /\ pc'[q] = "apply" => got'[q].id # NoSub
    BY <1>1, <1>3, <1>8 DEF IInv, PlaceInv
  <2>2. \A f \in events' : f.obj.id = NoSub =>
          f.kind = "invoice" /\ \E t \in Created' : "past_due" \in everStatus'[t]
    BY <1>3, <1>6, <1>11 DEF IInv, PlaceInv
  <2> QED
    BY <2>1, <2>2 DEF IInv, PlaceInv
<1>15. KeyInv'
  <2>1. ASSUME NEW t \in Created, subs[t].by # NoKey, want[r].key # NoKey
        PROVE  <<subs[t].plan, subs[t].by>> # KeyIn(r)
    <3>1. keySub[<<subs[t].plan, subs[t].by>>].id = t /\ t # NoSub
      BY <2>1, BillingAssumption DEF IInv, KeyInv, Created
    <3>2. keySub[KeyIn(r)] = NoObject
      BY <2>1 DEF SubscriptionAnswered
    <3> QED
      BY <3>1, <3>2, NothingType
  <2>2. ASSUME NEW t \in Created'
        PROVE  /\ subs'[t].id = t
               /\ subs'[t].by # NoKey =>
                    /\ <<subs'[t].plan, subs'[t].by>> \in Plan \X Key
                    /\ keySub'[<<subs'[t].plan, subs'[t].by>>].id = t
    <3>1. CASE t = s
      <4>1. subs'[t] = o /\ <<o.plan, o.by>> = KeyIn(r)
        BY <1>3, <1>4, <3>1 DEF KeyIn
      <4>2. o.by # NoKey => keySub'[KeyIn(r)] = o
        BY <1>3, <1>9 DEF IInv, TypeOK
      <4> QED
        BY <1>3, <1>9, <3>1, <4>1, <4>2
    <3>2. CASE t # s
      <4>1. t \in Created /\ subs'[t] = subs[t]
        BY <1>4, <1>5, <3>2 DEF Created
      <4>2. subs[t].by # NoKey => keySub'[<<subs[t].plan, subs[t].by>>] = keySub[<<subs[t].plan, subs[t].by>>]
        <5> SUFFICES ASSUME subs[t].by # NoKey
                     PROVE  keySub'[<<subs[t].plan, subs[t].by>>] = keySub[<<subs[t].plan, subs[t].by>>]
          OBVIOUS
        <5>1. <<subs[t].plan, subs[t].by>> \in Plan \X Key
          BY <4>1 DEF IInv, KeyInv
        <5>2. CASE want[r].key = NoKey
          BY <5>2
        <5>3. CASE want[r].key # NoKey
          <6>1. <<subs[t].plan, subs[t].by>> # KeyIn(r)
            BY <2>1, <4>1, <5>3
          <6> QED
            BY <5>1, <5>3, <6>1 DEF IInv, TypeOK
        <5> QED
          BY <5>2, <5>3
      <4> QED
        BY <4>1, <4>2 DEF IInv, KeyInv
    <3> QED
      BY <3>1, <3>2
  <2>3. \A k \in Plan \X Key : keySub'[k] # NoObject => keySub'[k].id # NoSub
    BY <1>3, <1>12 DEF IInv, TypeOK, KeyInv
  <2> QED
    BY <2>2, <2>3 DEF KeyInv
<1>16. RowInv'
  BY DEF IInv, RowInv
<1>17. RowBeforeSubscription'
  BY <1>1, <1>3, <1>4, <1>5, <1>11 DEF IInv, RowBeforeSubscription
<1>18. StatusWasReal'
  BY <1>11 DEF IInv, StatusWasReal, Told
<1> QED
  BY <1>10, <1>13, <1>14, <1>15, <1>16, <1>17, <1>18 DEF IInv

\* A subscription is created, or the key's answer repeated; either is what Stripe said of it.
LEMMA CreateSubscriptionInv == ASSUME IInv, NEW r \in Start, CreateSubscription(r) PROVE IInv'
<1>1. pc[r] = "subscribe" /\ UNCHANGED <<row, want, cust, read, hook, everRow>>
  BY DEF CreateSubscription
<1>2. CASE SubscriptionAnswered(r)
  BY <1>1, <1>2, AnsweredInv DEF CreateSubscription
<1>3. CASE ~SubscriptionAnswered(r)
  <2>1. PICK s \in Sub \ Created :
          \E o : /\ o = [id |-> s, cust |-> cust[r], plan |-> want[r].plan,
                         status |-> "trialing", born |-> made + 1, by |-> want[r].key]
                 /\ subs' = [subs EXCEPT ![s] = o]
                 /\ keySub' = IF want[r].key = NoKey THEN keySub
                              ELSE [keySub EXCEPT ![KeyIn(r)] = o]
                 /\ events' = events \cup {Event("subscription", o)} /\ made' = made + 1
                 /\ everStatus' = [everStatus EXCEPT ![s] = {"trialing"}]
                 /\ \/ got' = [got EXCEPT ![r] = o] /\ Goto(r, "apply")
                    \/ Goto(r, "failed") /\ UNCHANGED got
    BY <1>3, FreshType DEF CreateSubscription
  <2>2. made < MaxEvents /\ UNCHANGED <<customers, searchable, keyCust>>
    BY <1>3 DEF CreateSubscription
  <2>3. PICK o : /\ o = [id |-> s, cust |-> cust[r], plan |-> want[r].plan,
                         status |-> "trialing", born |-> made + 1, by |-> want[r].key]
                 /\ subs' = [subs EXCEPT ![s] = o]
                 /\ keySub' = IF want[r].key = NoKey THEN keySub
                              ELSE [keySub EXCEPT ![KeyIn(r)] = o]
                 /\ events' = events \cup {Event("subscription", o)} /\ made' = made + 1
                 /\ everStatus' = [everStatus EXCEPT ![s] = {"trialing"}]
                 /\ \/ got' = [got EXCEPT ![r] = o] /\ Goto(r, "apply")
                    \/ Goto(r, "failed") /\ UNCHANGED got
    BY <2>1
  <2> QED
    BY <1>1, <1>3, <2>2, <2>3, NewSubscriptionInv
<1> QED
  BY <1>2, <1>3

\* The start writes what Stripe answered, which is not unconfirmed.
LEMMA ApplyStartInv == ASSUME IInv, NEW r \in Start, ApplyStart(r) PROVE IInv' /\ Confirms
<1>1. pc[r] = "apply" /\ UNCHANGED <<want, cust, got, stripe, read, hook, everRow>>
  BY DEF ApplyStart
<1>2. PICK o \in Object : o = got[r]
  BY DEF IInv, TypeOK
<1>3. Known(o)
  BY <1>1, <1>2 DEF IInv, HeldInv, Held, PlaceInv
<1>4. IF row.made /\ row.cust = o.cust
        THEN row' = [row EXCEPT !.sub = o.id, !.plan = o.plan, !.status = Mapped(o.status)]
        ELSE row' = row
  BY <1>2 DEF ApplyStart, Apply
<1>5. /\ row' \in RowType /\ RowInv'
      /\ ToldOrKept /\ Confirms
  BY <1>3, <1>4, Written
<1>6. PICK place \in {"done", "failed"} : pc' = [pc EXCEPT ![r] = place]
  BY DEF ApplyStart, Goto
<1>7. pc' \in [Start -> Places] /\ pc'[r] = place /\ \A q \in Start : q # r => pc'[q] = pc[q]
  BY <1>6 DEF IInv, TypeOK, Places
<1>8. TypeOK'
  BY <1>1, <1>5, <1>7 DEF IInv, TypeOK, Places, RowType, stripe
<1>9. PlaceInv'
  BY <1>1, <1>7, PlaceStands DEF IInv, PlaceInv, stripe
<1>10. \A p \in Held' : p \in Held
  BY <1>1 DEF Held, stripe
<1> QED
  BY <1>1, <1>5, <1>8, <1>9, <1>10, InvStands DEF stripe, ToldOrKept

\* A start that fails writes nothing.
LEMMA FailStartInv == ASSUME IInv, NEW r \in Start, FailStart(r) PROVE IInv'
<1>1. /\ pc[r] # "idle" /\ pc' = [pc EXCEPT ![r] = "failed"]
      /\ UNCHANGED <<row, want, cust, got, stripe, read, hook, everRow>>
  BY DEF FailStart, Starting, Goto
<1>2. pc' \in [Start -> Places] /\ pc'[r] = "failed" /\ \A q \in Start : q # r => pc'[q] = pc[q]
  BY <1>1 DEF IInv, TypeOK, Places
<1>3. TypeOK'
  BY <1>1, <1>2 DEF IInv, TypeOK, Places, stripe
<1>4. PlaceInv'
  BY <1>1, <1>2, PlaceStands DEF IInv, PlaceInv, stripe
<1>5. RowInv' /\ \A o \in Held' : o \in Held
  BY <1>1 DEF IInv, RowInv, Held, stripe
<1> QED
  BY <1>1, <1>3, <1>4, <1>5, InvStands DEF stripe, ToldOrKept

-------------------------------------------------------------------------------
(* getSubscription *)

\* A reader of an unconfirmed row asks Stripe for the newest subscription and holds it, or
\* gives up.
LEMMA ReadInv == ASSUME IInv, ReadRow \/ ReadList \/ ReadFail PROVE IInv'
<1>1. UNCHANGED <<row, request, stripe, hook, everRow>>
  BY DEF ReadRow, ReadList, ReadFail
<1>2. /\ read' \in [at : {"idle", "list", "write"}, cust : Cust \cup {NoCust}, obj : Object]
      /\ read'.obj \in Held \cup {NoObject}
      /\ read'.at = "write" => read'.obj.id # NoSub
  <2>1. NoRead \in [at : {"idle", "list", "write"}, cust : Cust \cup {NoCust}, obj : Object]
        /\ NoRead.obj = NoObject /\ NoRead.at = "idle"
    BY NothingType DEF NoRead
  <2>2. CASE ReadRow
    <3>1. read' = [NoRead EXCEPT !.at = "list", !.cust = row.cust] /\ row.cust \in Cust \cup {NoCust}
      BY <2>2 DEF ReadRow, IInv, TypeOK
    <3> QED
      BY <2>1, <3>1
  <2>3. CASE (ReadList \/ ReadFail) /\ read' = NoRead
    BY <2>1, <2>3
  <2>4. CASE ReadList /\ read' # NoRead
    <3>1. PICK s \in Created : read' = [read EXCEPT !.at = "write", !.obj = subs[s]]
      BY <2>4 DEF ReadList
    <3>2. s \in Sub /\ subs[s].id = s /\ s # NoSub /\ subs[s] \in Object /\ subs[s] \in Held
      BY BillingAssumption DEF IInv, TypeOK, KeyInv, Created, Held
    <3> QED
      BY <3>1, <3>2 DEF IInv, TypeOK
  <2> QED
    BY <2>2, <2>3, <2>4 DEF ReadFail
<1>3. TypeOK'
  BY <1>1, <1>2 DEF IInv, TypeOK, stripe, request
<1>4. PlaceInv'
  BY <1>1, <1>2, PlaceStands DEF IInv, PlaceInv, stripe, request
<1>5. RowInv' /\ \A o \in Held' : o \in Held \/ o.id = NoSub
  BY <1>1, <1>2, NothingType DEF IInv, RowInv, Held, stripe, request
<1> QED
  BY <1>1, <1>3, <1>4, <1>5, InvStands DEF stripe, ToldOrKept

\* The refresh writes what it was answered, however old that is by now.
LEMMA ReadWriteInv == ASSUME IInv, ReadWrite PROVE IInv' /\ Confirms
<1>1. read.at = "write" /\ read' = NoRead /\ UNCHANGED <<request, stripe, hook, everRow>>
  BY DEF ReadWrite
<1>2. PICK o \in Object : o = read.obj
  BY DEF IInv, TypeOK
<1>3. Known(o)
  BY <1>1, <1>2 DEF IInv, HeldInv, Held, PlaceInv
<1>4. IF row.made /\ row.cust = o.cust
        THEN row' = [row EXCEPT !.sub = o.id, !.plan = o.plan, !.status = Mapped(o.status)]
        ELSE row' = row
  BY <1>2 DEF ReadWrite, Apply
<1>5. /\ row' \in RowType /\ RowInv'
      /\ ToldOrKept /\ Confirms
  BY <1>3, <1>4, Written
<1>6. NoRead \in [at : {"idle", "list", "write"}, cust : Cust \cup {NoCust}, obj : Object]
      /\ NoRead.at = "idle" /\ NoRead.obj.id = NoSub
  BY NothingType DEF NoRead
<1>7. TypeOK'
  BY <1>1, <1>5, <1>6 DEF IInv, TypeOK, RowType, stripe, request
<1>8. PlaceInv'
  BY <1>1, <1>6, PlaceStands DEF IInv, PlaceInv, stripe, request
<1>9. \A p \in Held' : p \in Held \/ p.id = NoSub
  BY <1>1, <1>6 DEF Held, stripe, request
<1> QED
  BY <1>1, <1>5, <1>7, <1>8, <1>9, InvStands DEF stripe, ToldOrKept

-------------------------------------------------------------------------------
(* The webhook: whatever is delivered, in whatever order, Stripe once said. *)

\* A delivery writes the row, or sets it past due, and may be acknowledged.
LEMMA DeliveredInv ==
  ASSUME IInv, row' \in RowType, RowInv', ToldOrKept,
         events' \subseteq events, hook' \in {hook, NoHook},
         UNCHANGED <<request, StripeButEvents, read, everRow>>
  PROVE  IInv'
<1>1. NoHook \in [n : 0..MaxEvents, obj : Object] /\ NoHook.n = 0 /\ NoHook.obj.id = NoSub
  BY NothingType, BillingAssumption DEF NoHook
<1>2. TypeOK'
  BY <1>1 DEF IInv, TypeOK, RowType, StripeButEvents, request
<1>3. PlaceInv'
  BY <1>1, PlaceStands DEF IInv, PlaceInv, StripeButEvents, request
<1>4. \A o \in Held' : o \in Held \/ o.id = NoSub
  BY <1>1 DEF Held, StripeButEvents, request
<1> QED
  BY <1>2, <1>3, <1>4, InvStands DEF StripeButEvents

\* A subscription event writes the object it carries, however late it comes.
LEMMA DeliverSubscriptionInv == ASSUME IInv, NEW e \in events, DeliverSubscription(e) PROVE IInv' /\ Confirms
<1>1. /\ e.kind = "subscription" /\ events' \subseteq events
      /\ UNCHANGED <<request, StripeButEvents, read, hook, everRow>>
  BY DEF DeliverSubscription, Acknowledge
<1>2. e.obj \in Object /\ Known(e.obj)
  BY <1>1 DEF IInv, TypeOK, HeldInv, Held, PlaceInv
<1>3. IF row.made /\ row.cust = e.obj.cust
        THEN row' = [row EXCEPT !.sub = e.obj.id, !.plan = e.obj.plan, !.status = Mapped(e.obj.status)]
        ELSE row' = row
  BY DEF DeliverSubscription, Apply
<1>4. /\ row' \in RowType /\ RowInv'
      /\ ToldOrKept /\ Confirms
  BY <1>2, <1>3, Written
<1> QED
  BY <1>1, <1>4, DeliveredInv

\* An invoice event sends the webhook back to Stripe for the subscription.
LEMMA RetrieveInv == ASSUME IInv, NEW e \in events, RetrieveForInvoice(e) PROVE IInv'
<1>1. /\ e.obj.id # NoSub /\ hook' = [n |-> e.n, obj |-> subs[e.obj.id]]
      /\ UNCHANGED <<row, request, stripe, read, everRow>>
  BY DEF RetrieveForInvoice
<1>2. Known(e.obj) /\ e.n \in 1..MaxEvents
  BY <1>1 DEF IInv, TypeOK, HeldInv, Held
<1>3. e.obj.id \in Created /\ e.obj.id \in Sub /\ subs[e.obj.id].id = e.obj.id
  BY <1>2 DEF IInv, KeyInv, Known, Created
<1>4. subs[e.obj.id] \in Object /\ subs[e.obj.id] \in Held
  BY <1>3 DEF IInv, TypeOK, Held
<1>5. hook' \in [n : 0..MaxEvents, obj : Object] /\ hook'.obj \in Held /\ hook'.obj.id # NoSub
  BY <1>1, <1>2, <1>3, <1>4, BillingAssumption
<1>6. TypeOK'
  BY <1>1, <1>5 DEF IInv, TypeOK, stripe, request
<1>7. PlaceInv'
  BY <1>1, <1>5, PlaceStands DEF IInv, PlaceInv, stripe, request
<1>8. RowInv' /\ \A o \in Held' : o \in Held
  BY <1>1, <1>5 DEF IInv, RowInv, Held, stripe, request
<1> QED
  BY <1>1, <1>6, <1>7, <1>8, InvStands DEF stripe, ToldOrKept

\* An invoice event writes what was retrieved, or past_due of a failed payment.
LEMMA ApplyInvoiceInv == ASSUME IInv, NEW e \in events, ApplyInvoice(e) PROVE IInv' /\ Confirms
<1>1. /\ hook.n = e.n /\ hook' = NoHook /\ events' \subseteq events
      /\ UNCHANGED <<request, StripeButEvents, read, everRow>>
  BY DEF ApplyInvoice, Acknowledge
<1>2. PICK o \in Object : o = hook.obj
  BY DEF IInv, TypeOK
<1>3. hook.n # 0
  BY <1>1 DEF IInv, TypeOK
<1>4. Known(o)
  BY <1>2, <1>3 DEF IInv, HeldInv, Held, PlaceInv
<1>5. IF row.made /\ row.cust = o.cust
        THEN row' = [row EXCEPT !.sub = o.id, !.plan = o.plan, !.status = Mapped(o.status)]
        ELSE row' = row
  BY <1>2 DEF ApplyInvoice, Apply
<1>6. /\ row' \in RowType /\ RowInv'
      /\ ToldOrKept /\ Confirms
  BY <1>4, <1>5, Written
<1> QED
  BY <1>1, <1>6, DeliveredInv

\* Of a payment that failed, some subscription of the account is past due, or was.
LEMMA BareInvoiceInv == ASSUME IInv, NEW e \in events, DeliverBareInvoice(e) PROVE IInv' /\ Confirms
<1>1. /\ e.obj.id = NoSub /\ events' \subseteq events
      /\ row' = IF row.made /\ row.cust = e.obj.cust THEN [row EXCEPT !.status = "past_due"] ELSE row
      /\ UNCHANGED <<request, StripeButEvents, read, hook, everRow>>
  BY DEF DeliverBareInvoice, Acknowledge
<1>2. PICK s \in Created : "past_due" \in everStatus[s]
  BY <1>1 DEF IInv, PlaceInv
<1>3. \A sub : Told(sub, "past_due")
  BY <1>2 DEF Told, IInv, RowBeforeSubscription
<1>4. row \in RowType
  BY DEF IInv, TypeOK, RowType
<1>5. /\ row' \in RowType /\ RowInv'
      /\ ToldOrKept /\ Confirms
  <2>1. CASE row.made /\ row.cust = e.obj.cust
    <3>1. row' = [row EXCEPT !.status = "past_due"]
      BY <1>1, <2>1
    <3>2. row' \in RowType /\ row'.made /\ row'.status = "past_due"
      BY <1>4, <2>1, <3>1 DEF RowType, RowStatus
    <3> QED
      BY <1>3, <3>2 DEF RowInv, Confirms, ToldOrKept
  <2>2. CASE ~(row.made /\ row.cust = e.obj.cust)
    BY <1>1, <1>4, <2>2 DEF IInv, RowInv, Confirms, ToldOrKept
  <2> QED
    BY <2>1, <2>2
<1> QED
  BY <1>1, <1>5, DeliveredInv

\* A webhook that dies writes nothing, and its event comes again.
LEMMA LoseHookInv == ASSUME IInv, LoseHook PROVE IInv'
<1>1. hook' = NoHook /\ UNCHANGED <<row, request, stripe, read, everRow>>
  BY DEF LoseHook
<1>2. row' \in RowType /\ RowInv'
  BY <1>1 DEF IInv, TypeOK, RowType, RowInv
<1> QED
  BY <1>1, <1>2, DeliveredInv DEF stripe, StripeButEvents, ToldOrKept

-------------------------------------------------------------------------------
(* Stripe *)

\* A subscription changes its status and nothing else, and events tell of it.
LEMMA StatusChangeInv ==
  ASSUME IInv, NEW s \in Sub, NEW status \in StripeStatus, StatusChange(s, status) PROVE IInv'
<1>1. PICK o : o = [subs[s] EXCEPT !.status = status]
  OBVIOUS
<1>2. /\ s \in Created /\ made + 1 < MaxEvents
      /\ subs' = [subs EXCEPT ![s] = o]
      /\ everStatus' = [everStatus EXCEPT ![s] = @ \cup {status}]
      /\ UNCHANGED <<row, request, customers, searchable, keyCust, keySub, read, hook, everRow>>
  BY <1>1 DEF StatusChange
<1>3. subs[s] \in Object /\ subs[s].id = s /\ s # NoSub
  BY <1>2, BillingAssumption DEF IInv, TypeOK, KeyInv
<1>4. o \in Object /\ o.id = s /\ o.cust = subs[s].cust /\ o.plan = subs[s].plan /\ o.by = subs[s].by
      /\ o.status = status /\ o # NoObject
  <2>1. o.id = s /\ o.cust = subs[s].cust /\ o.plan = subs[s].plan /\ o.by = subs[s].by /\ o.status = status
    BY <1>1, <1>3 DEF Object
  <2>2. o \in Object
    BY <1>1, <1>3 DEF Object
  <2> QED
    BY <1>3, <2>1, <2>2, NothingType
<1>5. /\ subs'[s] = o /\ everStatus'[s] = everStatus[s] \cup {status}
      /\ \A t \in Sub : t # s => subs'[t] = subs[t] /\ everStatus'[t] = everStatus[t]
  BY <1>2 DEF IInv, TypeOK
<1>6. Created' = Created
  <2>1. \A t \in Sub : subs'[t] # NoObject <=> subs[t] # NoObject
    BY <1>2, <1>4, <1>5 DEF Created
  <2> QED
    BY <2>1 DEF Created
<1>7. made \in Nat /\ MaxEvents \in Nat /\ made + 1 \in 1..MaxEvents /\ made + 2 \in 1..MaxEvents
  BY <1>2, BillingAssumption DEF IInv, TypeOK
<1>8. PICK new \in SUBSET EventType :
        /\ events' = events \cup new
        /\ \A e \in new : \/ e.obj = o
                          \/ e.kind = "invoice" /\ e.obj.id = NoSub /\ status = "past_due"
  <2> DEFINE update == Event("subscription", o)
             bare == [NoObject EXCEPT !.cust = o.cust]
             invoice(named) == [n |-> made + 2, kind |-> "invoice", obj |-> named]
  <2>1. update \in EventType /\ update.obj = o
    BY <1>4, <1>7 DEF Event, EventType
  <2>2. bare \in Object /\ bare.id = NoSub
    BY <1>4, NothingType DEF Object
  <2>3. \A named \in {o, bare} : invoice(named) \in EventType
    BY <1>4, <1>7, <2>2 DEF EventType
  <2>4. CASE status = "past_due"
    <3>1. PICK named \in {o, bare} : events' = events \cup {update, invoice(named)}
      BY <1>1, <2>4 DEF StatusChange
    <3>2. {update, invoice(named)} \in SUBSET EventType
      BY <2>1, <2>3, <3>1
    <3>3. invoice(named).kind = "invoice" /\ invoice(named).obj = named
      OBVIOUS
    <3>4. named = o \/ named.id = NoSub
      BY <2>2, <3>1
    <3> HIDE DEF update, invoice
    <3>5. \A e \in {update, invoice(named)} :
            e.obj = o \/ (e.kind = "invoice" /\ e.obj.id = NoSub /\ status = "past_due")
      BY <2>1, <2>4, <3>3, <3>4
    <3> QED
      BY <3>1, <3>2, <3>5
  <2>5. CASE status # "past_due"
    <3>1. events' = events \cup {update}
      BY <1>1, <2>5 DEF StatusChange
    <3> HIDE DEF update
    <3>2. {update} \in SUBSET EventType /\ \A e \in {update} : e.obj = o
      BY <2>1
    <3> QED
      BY <3>1, <3>2
  <2> QED
    BY <2>4, <2>5
<1>9. TypeOK'
  <2>1. made' \in 0..MaxEvents
    BY <1>7 DEF StatusChange
  <2>2. events' \subseteq EventType
    BY <1>8 DEF IInv, TypeOK, EventType
  <2>3. subs' \in [Sub -> Object] /\ everStatus' \in [Sub -> SUBSET StripeStatus]
    BY <1>2, <1>4 DEF IInv, TypeOK
  <2> QED
    BY <1>2, <2>1, <2>2, <2>3 DEF IInv, TypeOK, EventType, request
<1>10. \A t \in Created : t \in Created' /\ subs'[t].cust = subs[t].cust /\ everStatus[t] \subseteq everStatus'[t]
  BY <1>4, <1>5, <1>6 DEF Created
<1>11. HeldInv'
  <2>1. Known(o)'
    BY <1>2, <1>4, <1>5, <1>6 DEF Known
  <2>2. \A p \in Held' : p \in Held \/ p = o \/ p.id = NoSub
    <3>1. \A t \in Sub : subs'[t] \in Held \cup {o}
      BY <1>5 DEF Held
    <3>2. \A e \in events' : e.obj \in Held \/ e.obj = o \/ e.obj.id = NoSub
      BY <1>8 DEF Held
    <3> QED
      BY <1>2, <3>1, <3>2 DEF Held, request
  <2> QED
    BY <1>10, <2>1, <2>2, KnownStays DEF IInv, HeldInv
<1>12. PlaceInv'
  <2>1. \A e \in events' : e.obj.id = NoSub =>
          e.kind = "invoice" /\ \E t \in Created' : "past_due" \in everStatus'[t]
    <3> SUFFICES ASSUME NEW e \in events', e.obj.id = NoSub
                 PROVE  e.kind = "invoice" /\ \E t \in Created' : "past_due" \in everStatus'[t]
      OBVIOUS
    <3>1. CASE e \in events
      BY <1>10, <3>1 DEF IInv, PlaceInv
    <3>2. CASE e \in new
      <4>1. e.kind = "invoice" /\ status = "past_due"
        BY <1>3, <1>4, <1>8, <3>2
      <4> QED
        BY <1>2, <1>5, <1>6, <4>1
    <3> QED
      BY <1>8, <3>1, <3>2
  <2> QED
    BY <1>2, <2>1 DEF IInv, PlaceInv, request
<1>13. KeyInv'
  BY <1>2, <1>3, <1>4, <1>5, <1>6 DEF IInv, KeyInv, Created
<1>14. RowInv'
  BY <1>2 DEF IInv, RowInv
<1>15. RowBeforeSubscription'
  BY <1>2, <1>6, <1>10 DEF IInv, RowBeforeSubscription
<1>16. StatusWasReal'
  BY <1>2, <1>6, <1>10 DEF IInv, StatusWasReal, Told
<1> QED
  BY <1>9, <1>11, <1>12, <1>13, <1>14, <1>15, <1>16 DEF IInv

\* Stripe's search catches up with a customer: nobody's object changes.
LEMMA IndexInv == ASSUME IInv, NEW c \in Cust, Index(c) PROVE IInv'
<1>1. /\ searchable' = searchable \cup {c} /\ c \in customers
      /\ UNCHANGED <<row, request, customers, keyCust, subs, keySub, events, made, everStatus,
                     read, hook, everRow>>
  BY DEF Index
<1>2. TypeOK'
  BY <1>1 DEF IInv, TypeOK, request
<1>3. PlaceInv'
  BY <1>1, PlaceStands DEF IInv, PlaceInv, request
<1>4. RowInv' /\ \A o \in Held' : o \in Held
  BY <1>1 DEF IInv, RowInv, Held, request
<1> QED
  BY <1>1, <1>2, <1>3, <1>4, InvStands DEF ToldOrKept

\* Every step of the service and of its surroundings keeps the inductive invariant.
LEMMA InvStep == IInv /\ [Next]_vars => IInv'
<1> SUFFICES ASSUME IInv, [Next]_vars PROVE IInv'
  OBVIOUS
<1>1. ASSUME NEW r \in Start, \/ \E p \in Plan, k \in Key : Begin(r, p, k)
                              \/ Serve(r) \/ FailStart(r)
      PROVE  IInv'
  BY <1>1, BeginInv, SearchCustomerInv, CreateCustomerInv, WriteRowInv, CreateSubscriptionInv,
     ApplyStartInv, FailStartInv DEF Serve
<1>2. ASSUME Read PROVE IInv'
  BY <1>2, ReadInv, ReadWriteInv DEF Read
<1>3. ASSUME NEW e \in events, Deliver(e) PROVE IInv'
  BY <1>3, DeliverSubscriptionInv, RetrieveInv, ApplyInvoiceInv, BareInvoiceInv DEF Deliver
<1>4. ASSUME LoseHook PROVE IInv'
  BY <1>4, LoseHookInv
<1>5. ASSUME NEW s \in Sub, NEW status \in StripeStatus, StatusChange(s, status) PROVE IInv'
  BY <1>5, StatusChangeInv
<1>6. ASSUME NEW c \in Cust, Index(c) PROVE IInv'
  BY <1>6, IndexInv
<1>7. ASSUME UNCHANGED vars PROVE IInv'
  <2>1. TypeOK'
    BY <1>7 DEF vars, request, stripe, IInv, TypeOK
  <2>2. PlaceInv'
    BY <1>7, PlaceStands DEF vars, request, stripe, IInv, PlaceInv
  <2>3. RowInv' /\ \A o \in Held' : o \in Held
    BY <1>7 DEF vars, request, stripe, IInv, RowInv, Held
  <2> QED
    BY <1>7, <2>1, <2>2, <2>3, InvStands DEF vars, stripe, ToldOrKept
<1> QED
  BY <1>1, <1>2, <1>3, <1>4, <1>5, <1>6, <1>7 DEF Next

-------------------------------------------------------------------------------
\* The row, Stripe and what is on its way between them at any moment: the invariant that the
\* promises below follow from, whatever is lost, repeated or overtaken.
THEOREM BillingInvariant == Spec => []IInv
<1> QED
  BY InvInit, InvStep, PTL DEF Spec

\* The access a row grants is one the subscription it names once had at Stripe, or stands for
\* a failed payment of the account: no order of events and no lost answer makes it up.
THEOREM StatusesWereReal == Spec => []StatusWasReal
<1>1. IInv => StatusWasReal
  BY DEF IInv
<1> QED
  BY <1>1, BillingInvariant, PTL

\* No subscription precedes its customer's row, so that an event that arrives at once finds it.
THEOREM RowsComeFirst == Spec => []RowBeforeSubscription
<1>1. IInv => RowBeforeSubscription
  BY DEF IInv
<1> QED
  BY <1>1, BillingInvariant, PTL

\* A start that is sent again with its key makes no second subscription of its plan.
THEOREM KeysMakeOneSubscription == Spec => []OneSubPerKey
<1>1. IInv => OneSubPerKey
  <2> SUFFICES ASSUME IInv, NEW s \in Created, NEW t \in Created, subs[s].by = subs[t].by,
                      subs[s].by # NoKey, subs[s].plan = subs[t].plan
               PROVE  s = t
    BY DEF OneSubPerKey
  <2>1. keySub[<<subs[s].plan, subs[s].by>>].id = s /\ keySub[<<subs[t].plan, subs[t].by>>].id = t
    BY DEF IInv, KeyInv
  <2> QED
    BY <2>1
<1> QED
  BY <1>1, BillingInvariant, PTL

\* A row that was confirmed reads as unconfirmed again only when Stripe said so of the
\* subscription it then names: the conflict clause of create_subscription keeps the status.
THEOREM OnlyStripeUnconfirmsHolds == Spec => OnlyStripeUnconfirms
<1>1. IInv /\ [Next]_vars => [Confirms]_vars
  <2> SUFFICES ASSUME IInv, Next PROVE Confirms
    OBVIOUS
  <2>1. ASSUME NEW r \in Start, WriteRow(r) PROVE Confirms
    <3>1. row'.status = row.status \/ ~row.made
      BY <2>1 DEF WriteRow, IInv, TypeOK
    <3> QED
      BY <3>1 DEF Confirms, IInv, RowInv
  <2>2. ASSUME NEW r \in Start, ApplyStart(r) PROVE Confirms
    BY <2>2, ApplyStartInv
  <2>3. ASSUME ReadWrite PROVE Confirms
    BY <2>3, ReadWriteInv
  <2>4. ASSUME NEW e \in events, Deliver(e) PROVE Confirms
    <3>1. CASE RetrieveForInvoice(e)
      BY <3>1 DEF RetrieveForInvoice, Confirms
    <3>2. CASE DeliverSubscription(e) \/ ApplyInvoice(e) \/ DeliverBareInvoice(e)
      BY <3>2, DeliverSubscriptionInv, ApplyInvoiceInv, BareInvoiceInv
    <3> QED
      BY <2>4, <3>1, <3>2 DEF Deliver
  <2>5. ASSUME NEW r \in Start,
               \/ \E p \in Plan, k \in Key : Begin(r, p, k)
               \/ SearchCustomer(r) \/ CreateCustomer(r) \/ CreateSubscription(r) \/ FailStart(r)
        PROVE  UNCHANGED row
    BY <2>5 DEF Begin, SearchCustomer, CreateCustomer, CreateSubscription, FailStart
  <2>6. ASSUME \/ ReadRow \/ ReadList \/ ReadFail \/ LoseHook
               \/ \E s \in Sub, status \in StripeStatus : StatusChange(s, status)
               \/ \E c \in Cust : Index(c)
        PROVE  UNCHANGED row
    BY <2>6 DEF ReadRow, ReadList, ReadFail, LoseHook, StatusChange, Index
  <2> QED
    BY <2>1, <2>2, <2>3, <2>4, <2>5, <2>6 DEF Next, Serve, Read, Confirms
<1> QED
  BY <1>1, BillingInvariant, PTL DEF Spec, OnlyStripeUnconfirms, Confirms

===============================================================================
