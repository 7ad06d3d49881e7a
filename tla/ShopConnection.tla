----------------------------- MODULE ShopConnection -----------------------------
(***************************************************************************)
(* Connecting a TikTok shop (connections.py, schema/0021): the state that  *)
(* authorize issues, the callback that spends it, exchanges the code and   *)
(* stores the shop with its tokens, disconnectShop, and deleteMe (me.py).  *)
(*                                                                         *)
(* A callback carries no token: the state alone says whose connection it   *)
(* is.  Between spending the state and storing the shop it makes two calls *)
(* to TikTok, and anything may happen to the account meanwhile.            *)
(***************************************************************************)
EXTENDS Accounts, Integers, FiniteSets

CONSTANTS
  Shop, NoShop,     \* TikTok shop ids
  State,            \* authorisation states, each issued at most once
  Callback,         \* callback requests, each made at most once
  StateTTL,         \* ticks a state lives ("ten minutes")
  Grace,            \* ticks after that before the sweep may delete it ("1 day")
  MaxTime           \* BOUND: the clock stops here

ASSUME ConnectionAssumption ==
  /\ NoAccount \notin Account /\ NoShop \notin Shop /\ State # {}
  /\ StateTTL \in Nat \ {0} /\ Grace \in Nat /\ MaxTime \in Nat

VARIABLES
  clock,
  states,       \* tiktok_auth_state: [State -> [account, expires, consumed]] or NoState
  closed,       \* accounts with status deleted
  shops,        \* [Shop -> [owner, status]]; owner NoAccount: no row
  tokens,       \* tiktok_connections: [Shop -> {"none", "live", "revoked"}]
  at,           \* [Callback -> where it is]
  carries,      \* [Callback -> [state, account, shop]]
  closing       \* deleteMe past its update of shops: [Account -> its shops then], or NotClosing

connectionVars == <<clock, states, closed, shops, tokens, at, carries, closing>>

NoState    == [account |-> NoAccount, expires |-> 0, consumed |-> FALSE]
NotClosing == [on |-> FALSE, shops |-> {}]

ShopsOf(a) == {s \in Shop : shops[s].owner = a}
Issued(q)  == states[q] # NoState

\* A shop's row is locked by the deletion that has updated it.
Locked(s) == \E a \in Account : s \in closing[a].shops

ConnectionInit ==
  /\ clock = 0
  /\ states = [q \in State |-> NoState]
  /\ closed = {}
  /\ shops = [s \in Shop |-> [owner |-> NoAccount, status |-> "none"]]
  /\ tokens = [s \in Shop |-> "none"]
  /\ at = [c \in Callback |-> "unused"]
  /\ carries = [c \in Callback |-> [state |-> CHOOSE q \in State : TRUE,
                                    account |-> NoAccount, shop |-> NoShop]]
  /\ closing = [a \in Account |-> NotClosing]

\* authorizeTikTok: the state's row, in the seller's own scope.  A state is random, so it
\* is never issued twice.
Authorize(a, q) ==
  /\ ~Issued(q) /\ \A c \in Callback : at[c] # "unused" => carries[c].state # q
  /\ states' = [states EXCEPT ![q] =
                  [account |-> a, expires |-> clock + StateTTL, consumed |-> FALSE]]
  /\ UNCHANGED <<clock, closed, shops, tokens, at, carries, closing>>

Reach(c, place) == at' = [at EXCEPT ![c] = place]

\* Mutant: the update does not look at consumed_at.
SpendableAgain(q) == Issued(q) /\ states[q].expires > clock

\* consume_tiktok_auth_state, a transaction of its own that reads and spends at once.
Spendable(q) == Issued(q) /\ ~states[q].consumed /\ states[q].expires > clock

Consume(c, q) ==
  /\ at[c] = "unused" /\ Spendable(q)
  /\ states' = [states EXCEPT ![q].consumed = TRUE]
  /\ carries' = [carries EXCEPT ![c] = [state |-> q, account |-> states[q].account, shop |-> NoShop]]
  /\ Reach(c, "exchange")
  /\ UNCHANGED <<clock, closed, shops, tokens, closing>>

\* An unknown, spent and expired state are one answer.
RefuseState(c, q) ==
  /\ at[c] = "unused" /\ ~Spendable(q)
  /\ carries' = [carries EXCEPT ![c].state = q]
  /\ Reach(c, "state_invalid")
  /\ UNCHANGED <<clock, states, closed, shops, tokens, closing>>

\* The code is exchanged and TikTok names the first shop of the seller behind it.
Exchange(c, s) ==
  /\ at[c] = "exchange"
  /\ carries' = [carries EXCEPT ![c].shop = s]
  /\ Reach(c, "store")
  /\ UNCHANGED <<clock, states, closed, shops, tokens, closing>>

\* TikTok does not answer, refuses, or names no shop; or the service dies.
CallbackFails(c) ==
  /\ at[c] \in {"exchange", "store"}
  /\ Reach(c, "failed")
  /\ UNCHANGED <<clock, states, closed, shops, tokens, carries, closing>>

\* Mutant: the interval is added instead of subtracted.
SweptEarly == {q \in State : Issued(q) /\ states[q].expires < clock + Grace}

\* Deleted at least Grace after they expired; a sweep deletes up to 500.
Swept == {q \in State : Issued(q) /\ states[q].expires < clock - Grace}

\* Mutant: row level security does not apply to the conflict clause.
StoreAnyShop(c) ==
  /\ at[c] = "store"
  /\ ~Locked(carries[c].shop)
  /\ shops' = [shops EXCEPT ![carries[c].shop] = [owner |-> carries[c].account, status |-> "pending"]]
  /\ tokens' = [tokens EXCEPT ![carries[c].shop] = "live"]
  /\ Reach(c, "stored")
  /\ UNCHANGED <<clock, states, closed, carries, closing>>

\* Mutant: the shop is committed before its tokens, and the service dies in between.
StoreShopAlone(c) ==
  /\ at[c] = "store"
  /\ shops[carries[c].shop].owner \in {NoAccount, carries[c].account}
  /\ shops' = [shops EXCEPT ![carries[c].shop] = [owner |-> carries[c].account, status |-> "pending"]]
  /\ Reach(c, "failed")
  /\ UNCHANGED <<clock, states, closed, tokens, carries, closing>>

\* The shop and its tokens are written together, and old states are swept.
StoreShop(c) ==
  LET a == carries[c].account
      s == carries[c].shop
  IN
  /\ at[c] = "store"
  /\ shops[s].owner \in {NoAccount, a}
  /\ ~Locked(s)
  /\ shops' = [shops EXCEPT ![s] = [owner |-> a, status |-> "pending"]]
  /\ tokens' = [tokens EXCEPT ![s] = "live"]
  /\ states' = [q \in State |-> IF q \in Swept THEN NoState ELSE states[q]]
  /\ Reach(c, "stored")
  /\ UNCHANGED <<clock, closed, carries, closing>>

\* The shop's row is another account's.  Row level security hides it from the update of the
\* conflict clause, and Postgres raises on that: the branch that answers 409 is not reached.
StoreRefused(c) ==
  /\ at[c] = "store"
  /\ shops[carries[c].shop].owner \notin {NoAccount, carries[c].account}
  /\ Reach(c, "error")
  /\ UNCHANGED <<clock, states, closed, shops, tokens, carries, closing>>

\* Mutant: the tokens are left as they are.
DisconnectRowOnly(a, s) ==
  /\ s \in ShopsOf(a) /\ ~Locked(s)
  /\ shops' = [shops EXCEPT ![s].status = "disconnected"]
  /\ UNCHANGED <<clock, states, closed, tokens, at, carries, closing>>

\* disconnectShop: the row and the token in one transaction.
Disconnect(a, s) ==
  /\ s \in ShopsOf(a) /\ ~Locked(s)
  /\ shops' = [shops EXCEPT ![s].status = "disconnected"]
  /\ tokens' = [tokens EXCEPT ![s] = IF @ = "none" THEN @ ELSE "revoked"]
  /\ UNCHANGED <<clock, states, closed, at, carries, closing>>

\* The first sync makes a pending shop connected (not in this repository).
Connect(s) ==
  /\ shops[s].status = "pending" /\ ~Locked(s)
  /\ shops' = [shops EXCEPT ![s].status = "connected"]
  /\ UNCHANGED <<clock, states, closed, tokens, at, carries, closing>>

\* deleteMe, first two updates: the shops this statement sees are locked until the commit.
BeginDelete(a) ==
  /\ ~closing[a].on
  /\ closing' = [closing EXCEPT ![a] = [on |-> TRUE, shops |-> ShopsOf(a)]]
  /\ UNCHANGED <<clock, states, closed, shops, tokens, at, carries>>

\* deleteMe, last update and commit: it sees the shops that are committed by now.
FinishDelete(a) ==
  /\ closing[a].on
  /\ closed' = closed \cup {a}
  /\ shops' = [s \in Shop |-> IF s \in closing[a].shops
                              THEN [shops[s] EXCEPT !.status = "disconnected"] ELSE shops[s]]
  /\ tokens' = [s \in Shop |-> IF s \in ShopsOf(a) /\ tokens[s] # "none"
                               THEN "revoked" ELSE tokens[s]]
  /\ closing' = [closing EXCEPT ![a] = NotClosing]
  /\ UNCHANGED <<clock, states, at, carries>>

\* The transaction of a deletion is rolled back.
AbortDelete(a) ==
  /\ closing[a].on
  /\ closing' = [closing EXCEPT ![a] = NotClosing]
  /\ UNCHANGED <<clock, states, closed, shops, tokens, at, carries>>

Tick ==
  /\ clock < MaxTime
  /\ clock' = clock + 1
  /\ UNCHANGED <<states, closed, shops, tokens, at, carries, closing>>

ConnectionNext ==
  \/ \E a \in Account :
       \/ \E q \in State : Authorize(a, q)
       \/ \E s \in Shop : Disconnect(a, s)
       \/ BeginDelete(a) \/ FinishDelete(a) \/ AbortDelete(a)
  \/ \E c \in Callback :
       \/ \E q \in State : Consume(c, q) \/ RefuseState(c, q)
       \/ \E s \in Shop : Exchange(c, s)
       \/ CallbackFails(c) \/ StoreShop(c) \/ StoreRefused(c)
  \/ \E s \in Shop : Connect(s)
  \/ Tick

ConnectionSpec == ConnectionInit /\ [][ConnectionNext]_connectionVars

-------------------------------------------------------------------------------
ConnectionTypeOK ==
  /\ clock \in 0 .. MaxTime
  /\ states \in [State -> [account : Account \cup {NoAccount}, expires : Nat, consumed : BOOLEAN]]
  /\ closed \subseteq Account
  /\ shops \in [Shop -> [owner : Account \cup {NoAccount},
                         status : {"none", "pending", "connected", "disconnected"}]]
  /\ tokens \in [Shop -> {"none", "live", "revoked"}]
  /\ at \in [Callback -> {"unused", "state_invalid", "exchange", "store", "stored", "failed", "error"}]
  /\ carries \in [Callback -> [state : State, account : Account \cup {NoAccount},
                               shop : Shop \cup {NoShop}]]
  /\ closing \in [Account -> [on : BOOLEAN, shops : SUBSET Shop]]

\* schema/0021, "A state cannot be spent twice even if two callbacks arrive together": of
\* the callbacks that carry one state, at most one gets past it.
StateSpentOnce ==
  \A c, d \in Callback :
    c # d /\ carries[c].account # NoAccount /\ carries[d].account # NoAccount
      => carries[c].state # carries[d].state

\* A shop never changes hands, and is connected only to the account that asked for the
\* state its callback carried.
ShopStaysWithItsSeller ==
  /\ [][\A s \in Shop : shops[s].owner # NoAccount => shops'[s].owner = shops[s].owner]_connectionVars
  /\ [][\A s \in Shop : shops'[s].owner # shops[s].owner =>
          \E c \in Callback : /\ carries[c].shop = s
                              /\ states[carries[c].state].account \in {NoAccount, shops'[s].owner}]_connectionVars

\* connections.py, "neither may exist alone": a shop has a row if and only if it has tokens.
ShopHasTokens == \A s \in Shop : shops[s].owner # NoAccount <=> tokens[s] # "none"

\* A shop shown as disconnected has no token in use, through every race of a callback, a
\* disconnection and a deletion.
DisconnectedIsRevoked == \A s \in Shop : shops[s].status = "disconnected" => tokens[s] = "revoked"

\* The sweep never takes a state that a callback could still spend.
SpendableSurvives ==
  [][\A q \in State : Spendable(q) /\ clock' = clock => Issued(q)']_connectionVars

\* me.py, "Every shop is disconnected and every token marked revoked, so nothing can read a
\* closed account's shop".
ClosedHasNoLiveToken ==
  \A s \in Shop : shops[s].owner \in closed => tokens[s] # "live"

\* connections.py, "That shop is already connected to another MyShopEdge account", 409: a
\* callback for a shop of another account does not end in a server error.
OtherSellersShopIsRefused == \A c \in Callback : at[c] # "error"

-------------------------------------------------------------------------------
(* What the proofs of ConnectionProofs stand on. *)

IssuedInv == \A q \in State : Issued(q) => states[q].account \in Account

\* A callback past its state has the account of it, and at the store it has a shop too.
PlaceInv ==
  \A c \in Callback :
    /\ at[c] = "unused" => carries[c].account = NoAccount
    /\ at[c] \in {"exchange", "store"} => carries[c].account \in Account
    /\ at[c] = "store" => carries[c].shop \in Shop

\* The state it carries is spent or swept, and never was another account's.
SpentInv ==
  \A c \in Callback : carries[c].account # NoAccount =>
    \/ states[carries[c].state] = NoState
    \/ states[carries[c].state].consumed /\ states[carries[c].state].account = carries[c].account

\* A deletion holds the rows of its own account's shops.
LockInv == \A a \in Account : closing[a].shops \subseteq ShopsOf(a)

ConnectionInv ==
  ConnectionTypeOK /\ IssuedInv /\ PlaceInv /\ SpentInv /\ LockInv
    /\ StateSpentOnce /\ ShopHasTokens /\ DisconnectedIsRevoked
===============================================================================
