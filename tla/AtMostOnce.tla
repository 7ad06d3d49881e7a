------------------------------ MODULE AtMostOnce ------------------------------
(***************************************************************************)
(* What the Idempotency-Key header promises of a writing operation, with   *)
(* no table, lock or transaction in sight: service/app/idempotency.py.     *)
(*                                                                         *)
(* A request asks for an effect.  The effect happens in one step, together *)
(* with the answer that reports it, and a request that repeats a key is    *)
(* answered with the effect the key already had.  Two effects under one    *)
(* key are asked for more than Retain apart.                               *)
(***************************************************************************)
EXTENDS Integers

CONSTANTS
  Request,      \* one value per HTTP request a client sends
  NoRequest,    \* not a request
  Key,          \* the values of the Idempotency-Key header
  NoKey,        \* the header is absent
  Body,         \* what is asked for, as far as the request digest tells it apart
  Retain        \* how long a key is kept

VARIABLES
  stage,        \* [Request -> {"idle", "open", "done"}]
  asked,        \* [Request -> [key, body, at]], meaningful once stage is not "idle"
  answer,       \* [Request -> [status, of]], meaningful once stage is "done"
  applied       \* the requests whose effect has happened

absVars == <<stage, asked, answer, applied>>

\* Answers that report no effect: a refusal, a reused key, two kinds of failure.
NoEffect == {"refused", "reused", "duplicate", "error"}

Sent == [key : Key \cup {NoKey}, body : Body, at : Nat]

Keyed(r) == asked[r].key # NoKey

Same(p, r) == asked[p].key = asked[r].key /\ asked[p].body = asked[r].body

Init ==
  /\ stage = [r \in Request |-> "idle"]
  /\ asked \in [Request -> Sent]
  /\ answer = [r \in Request |-> [status |-> "none", of |-> NoRequest]]
  /\ applied = {}

\* A client sends a request, whatever it asks.
Ask(r) ==
  /\ stage[r] = "idle"
  /\ stage' = [stage EXCEPT ![r] = "open"]
  /\ asked' = [asked EXCEPT ![r] = asked'[r]]
  /\ asked'[r] \in Sent
  /\ UNCHANGED <<answer, applied>>

Close(r, status, of) ==
  /\ stage[r] = "open"
  /\ stage' = [stage EXCEPT ![r] = "done"]
  /\ answer' = [answer EXCEPT ![r] = [status |-> status, of |-> of]]
  /\ UNCHANGED asked

\* The effect happens and is answered, unless the key has had one too recently.
Perform(r) ==
  /\ Close(r, "created", r)
  /\ Keyed(r) => \A p \in applied :
       asked[p].key = asked[r].key => asked[p].at < asked[r].at - Retain
  /\ applied' = applied \cup {r}

\* The key has had this effect: its answer is given again.
Repeat(r) ==
  \E p \in applied :
    /\ Keyed(r) /\ Same(p, r)
    /\ Close(r, "created", p)
    /\ UNCHANGED applied

\* Nothing happens, and the answer does not claim that anything did.
Decline(r) ==
  /\ \E status \in NoEffect : Close(r, status, NoRequest)
  /\ UNCHANGED applied

Next ==
  \E r \in Request : Ask(r) \/ Perform(r) \/ Repeat(r) \/ Decline(r)

Spec == Init /\ [][Next]_absVars
===============================================================================
