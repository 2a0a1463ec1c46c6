----------------------------- MODULE ShownCart -----------------------------
(* The cart the customer is shown (CartProvider, cart/CartContext.jsx), and  *)
(* the carts it stands for: the guest's in the browser's storage, and one on *)
(* the server for each customer. One variant; a cart is its units. How many  *)
(* units a merge takes, and how often, is GuestCart's question.              *)
EXTENDS Naturals, FiniteSets

CONSTANTS Customers,
          Guest, Starting,  \* nobody signed in; the stored session still unresolved
          None,             \* no request
          MAX_UNITS,        \* bound: units in a cart
          MAX_MOVES         \* bound: what the customer does

VARIABLES who,      \* useAuth: who is signed in
          status,   \* CART_STATUS
          error,    \* the error of the last load, shown instead of the lines
          shown,    \* the cart in the provider's state, and whose it is
          load,     \* the request the generation counter knows as the current one
          merge,    \* the POST cart/merge that has not ended
          ops,      \* mutate: what holds each key's lock
          guest,    \* units in the browser's storage
          server,   \* units in each customer's cart
          moves,    \* what the customer did so far
          excuses   \* history: why the cart shown may not be the cart

cartVars == <<who, status, error, shown, load, merge, ops, guest, server, moves, excuses>>

Units == 0..MAX_UNITS

\* A request for a cart, and a merge's.
Loads == [kind : {"guest", "server", "merge"}, owner : Customers \cup {Guest}, seen : Units,
          served : BOOLEAN]
Merges == [owner : Customers, units : Units, served : BOOLEAN]

ASSUME ShownCartAssumption ==
  /\ Guest \notin Customers /\ Starting \notin Customers \cup {Guest}
  /\ None \notin Loads \cup Merges
  /\ MAX_UNITS \in Nat \ {0} /\ MAX_MOVES \in Nat

\* The keys of the locks: "add-<variant>" of a product's page, the line's id of the cart's.
Keys == {"add", "line"}

Free == [stage |-> "free", fresh |-> FALSE, owner |-> Guest, known |-> FALSE]

Identity == IF who \in Customers THEN who ELSE Guest

Contents(id) == IF id = Guest THEN guest ELSE server[id]

Smallest(m, n) == IF m < n THEN m ELSE n

(***************************************************************************)
(* Requests for the cart                                                   *)
(***************************************************************************)
\* hydrateGuest: the storage is read at once, and its variants are asked for. A line whose
\* variant is gone or short of stock stays, marked invalid.
GuestLoad(units) == [kind |-> "guest", owner |-> Guest, seen |-> units, served |-> TRUE]

ServerLoad(id) == [kind |-> "server", owner |-> id, seen |-> 0, served |-> FALSE]

MergeLoad(id) == [kind |-> "merge", owner |-> id, seen |-> 0, served |-> FALSE]

\* reloadCart, for who is signed in when it is called.
LoadOf(id, units) == IF id = Guest THEN GuestLoad(units) ELSE ServerLoad(id)

\* adaptCart: the cart's lines; no cart at all is a cart without lines.
Shown(request) == [owner |-> request.owner, units |-> request.seen]

\* newRequest: a new generation. Mutations under way are of an old one from now on; those
\* that awaited the request aborted here let their lock go, and one may await the new one.
NewRequest(request, awaiting) ==
  /\ load' = request
  /\ status' = "loading"
  /\ ops' = [k \in Keys |-> IF k \in awaiting THEN [Free EXCEPT !.stage = "reloading"]
                            ELSE IF ops[k].stage = "reloading" THEN Free
                            ELSE [ops[k] EXCEPT !.fresh = FALSE]]
  /\ excuses' = (IF merge # None THEN {"crossed"} ELSE {}) \cup
                (IF \E k \in Keys : ops[k].stage = "sent" THEN {"overtaken"} ELSE {})

\* GET cart reads the customer's cart; its images are asked for next, and their loss is
\* no failure.
ServeLoad ==
  /\ load # None /\ load.kind = "server" /\ ~load.served
  /\ load' = [load EXCEPT !.served = TRUE, !.seen = server[load.owner]]
  /\ UNCHANGED <<who, status, error, shown, merge, ops, guest, server, moves, excuses>>

\* The locks whose mutation awaited this request.
Settled == [k \in Keys |-> IF ops[k].stage = "reloading" THEN Free ELSE ops[k]]

LoadArrives ==
  /\ load # None /\ load.served
  /\ shown' = Shown(load)
  /\ error' = FALSE /\ status' = "ready"
  /\ load' = None /\ ops' = Settled
  /\ UNCHANGED <<who, merge, guest, server, moves, excuses>>

\* An empty guest cart asks for nothing, so nothing fails.
LoadFails ==
  /\ load # None /\ load.kind # "merge" /\ (load.kind = "guest" => load.seen > 0)
  /\ error' = TRUE /\ status' = "error"
  /\ load' = None /\ ops' = Settled
  /\ UNCHANGED <<who, shown, merge, guest, server, moves, excuses>>

(***************************************************************************)
(* The session, and the effect that follows it                             *)
(***************************************************************************)
\* A guest's lines are merged into the cart of whoever signs in; without lines the
\* cart is fetched.
Turn(id) ==
  /\ who' = id
  /\ IF id \in Customers /\ guest > 0
     THEN /\ merge = None  \* bound: one merge at a time
          /\ merge' = [owner |-> id, units |-> guest, served |-> FALSE]
          /\ NewRequest(MergeLoad(id), {})
     ELSE NewRequest(LoadOf(id, guest), {}) /\ UNCHANGED merge
  /\ UNCHANGED <<error, shown, guest, server>>

Resolve == /\ who = Starting
           /\ \E id \in Customers \cup {Guest} : Turn(id)
           /\ UNCHANGED moves

Move == moves < MAX_MOVES /\ moves' = moves + 1

LogIn == who = Guest /\ Move /\ \E c \in Customers : Turn(c)

LogOut == who \in Customers /\ Move /\ Turn(Guest)

ServeMerge ==
  /\ merge # None /\ ~merge.served
  /\ \E taken \in 0..merge.units :
       server' = [server EXCEPT ![merge.owner] = Smallest(@ + taken, MAX_UNITS)]
  /\ merge' = [merge EXCEPT !.served = TRUE]
  /\ IF load # None /\ load.kind = "merge"
     THEN load' = [load EXCEPT !.seen = server'[merge.owner]]
     ELSE UNCHANGED load
  /\ UNCHANGED <<who, status, error, shown, ops, guest, moves, excuses>>

\* The reply clears the storage or leaves what was not taken, whether or not the merge's
\* request is still the current one.
MergeArrives ==
  /\ merge # None /\ merge.served
  /\ guest' \in 0..guest
  /\ merge' = None
  /\ IF load # None /\ load.kind = "merge"
     THEN /\ shown' = Shown(load)
          /\ error' = FALSE /\ status' = "ready" /\ load' = None /\ ops' = Settled
     ELSE UNCHANGED <<shown, error, status, load, ops>>
  /\ UNCHANGED <<who, server, moves, excuses>>

MergeFails ==
  /\ merge # None
  /\ merge' = None
  /\ IF load # None /\ load.kind = "merge"
     THEN error' = TRUE /\ status' = "error" /\ load' = None /\ ops' = Settled
     ELSE UNCHANGED <<error, status, load, ops>>
  /\ UNCHANGED <<who, shown, guest, server, moves, excuses>>

(***************************************************************************)
(* The customer                                                            *)
(***************************************************************************)
\* Cart.jsx shows lines when nothing loads and no error stands.
LinesShown == status \in {"ready", "mutating"} /\ ~error

\* The buttons of a line are there while the line is shown and its key is not pending.
Offered(key) == key = "line" => LinesShown /\ shown.units > 0

\* mutate for a customer: a key whose lock is held does nothing.
Begin(key) ==
  /\ Move
  /\ who \in Customers
  /\ Offered(key) /\ ops[key].stage = "free"
  /\ ops' = [ops EXCEPT ![key] = [stage |-> "sent", fresh |-> TRUE, owner |-> who,
                                  known |-> shown.owner = who]]
  /\ status' = "mutating"
  /\ UNCHANGED <<who, error, shown, load, merge, guest, server, excuses>>

\* A guest's mutation ends where it starts, in the storage, and the cart is read again;
\* one that is refused (a line's quantity, the number of lines) only ends the mutation.
GuestMutates(key) ==
  /\ Move
  /\ who \notin Customers
  /\ Offered(key) /\ ops[key].stage = "free"
  /\ \/ /\ guest' \in IF key = "add" THEN {Smallest(guest + 1, MAX_UNITS)} ELSE Units
        /\ NewRequest(LoadOf(Guest, guest'), {key})
     \/ status' = "ready" /\ UNCHANGED <<guest, load, ops, excuses>>
  /\ UNCHANGED <<who, error, shown, merge, server>>

\* "Réessayer" of the cart's page.
Retry ==
  /\ Move
  /\ error /\ status \notin {"idle", "loading"}
  /\ NewRequest(LoadOf(Identity, guest), {})
  /\ UNCHANGED <<who, error, shown, merge, guest, server>>

\* The checkout's page asks for the cart again once the order has taken its lines.
OrderPlaced ==
  /\ Move
  /\ who \in Customers /\ server[who] > 0
  /\ server' = [server EXCEPT ![who] = 0]
  /\ NewRequest(LoadOf(who, guest), {})
  /\ UNCHANGED <<who, error, shown, merge, guest>>

(***************************************************************************)
(* mutate, from the server to its end                                      *)
(***************************************************************************)
\* The server took the mutation, and left so many units in its owner's cart.
Served(key, units) ==
  /\ ops[key].stage = "sent"
  /\ ops' = [ops EXCEPT ![key].stage = "done"]
  /\ server' = [server EXCEPT ![ops[key].owner] = units]
  /\ UNCHANGED <<who, status, error, shown, load, merge, guest, moves, excuses>>

\* POST: the stock allowed one more unit.
ServedAdd == Served("add", Smallest(server[ops["add"].owner] + 1, MAX_UNITS))

\* The line is in the cart of the customer who asks; a line shown of another's cart is not.
LineFound == ops["line"].known /\ server[ops["line"].owner] > 0

\* PATCH: another quantity, that the stock allows.
ServedQuantity == LineFound /\ \E n \in Units \ {0} : Served("line", n)

\* DELETE: the page takes a line that is not found for a line removed.
ServedRemoval == Served("line", IF LineFound THEN 0 ELSE server[ops["line"].owner])

\* Defect: a mutation that succeeded does not read the cart again.
FinishWithoutReload(key) ==
  /\ ops[key].stage = "done"
  /\ ops' = [ops EXCEPT ![key] = Free]
  /\ status' = IF ops[key].fresh THEN "ready" ELSE status
  /\ UNCHANGED <<who, error, shown, load, merge, guest, server, moves, excuses>>

\* The cart is read again, in the same step, unless a newer request overtook the mutation;
\* the lock is kept until that request ends.
Finish(key) ==
  /\ ops[key].stage = "done"
  /\ IF ops[key].fresh
     THEN NewRequest(LoadOf(ops[key].owner, guest), {key})
     ELSE /\ ops' = [ops EXCEPT ![key] = Free]
          /\ UNCHANGED <<load, status, excuses>>
  /\ UNCHANGED <<who, error, shown, merge, guest, server, moves>>

\* Defect: a mutation that failed leaves the status as it was.
MutationFailsSilently(key) ==
  /\ ops[key].stage \in {"sent", "done"}
  /\ ops' = [ops EXCEPT ![key] = Free]
  /\ excuses' = IF ops[key].stage = "done" THEN excuses \cup {"lost"} ELSE excuses
  /\ UNCHANGED <<who, status, error, shown, load, merge, guest, server, moves>>

\* Refused, or the network failed: before the server did it, or after.
MutationFails(key) ==
  /\ ops[key].stage \in {"sent", "done"}
  /\ ops' = [ops EXCEPT ![key] = Free]
  /\ status' = IF ops[key].fresh THEN "ready" ELSE status
  /\ excuses' = IF ops[key].stage = "done" THEN excuses \cup {"lost"} ELSE excuses
  /\ UNCHANGED <<who, error, shown, load, merge, guest, server, moves>>

ShownInit ==
  /\ who = Starting /\ status = "idle" /\ error = FALSE
  /\ shown = [owner |-> Guest, units |-> 0]
  /\ load = None /\ merge = None
  /\ ops = [k \in Keys |-> Free]
  /\ guest \in Units /\ server \in [Customers -> Units]
  /\ moves = 0 /\ excuses = {}

Requests == \/ ServeLoad \/ LoadArrives \/ LoadFails
            \/ ServeMerge \/ MergeArrives \/ MergeFails
            \/ ServedAdd \/ ServedQuantity \/ ServedRemoval
            \/ \E key \in Keys : Finish(key) \/ MutationFails(key)

ShownNext ==
  \/ Resolve \/ LogIn \/ LogOut \/ Retry \/ OrderPlaced
  \/ \E key \in Keys : Begin(key) \/ GuestMutates(key)
  \/ Requests

\* The stored session resolves, and every request ends: axios gives up after its timeout.
ShownFairness == WF_cartVars(Resolve) /\ WF_cartVars(Requests)
ShownSpec == ShownInit /\ [][ShownNext]_cartVars /\ ShownFairness

(***************************************************************************)
(* Properties                                                              *)
(***************************************************************************)
\* Type correctness of the provider's state.
ShownCartTypeOK ==
  /\ who \in Customers \cup {Guest, Starting}
  /\ status \in {"idle", "loading", "ready", "mutating", "error"} /\ error \in BOOLEAN
  /\ shown \in [owner : Customers \cup {Guest}, units : Units]
  /\ \A k \in Keys : /\ ops[k].stage \in {"free", "sent", "done", "reloading"}
                     /\ ops[k].owner \in Customers \cup {Guest}
                     /\ ops[k].stage = "reloading" => load # None
  /\ guest \in Units /\ server \in [Customers -> Units]
  /\ excuses \subseteq {"overtaken", "crossed", "lost"}

\* Nobody is left looking at another's cart: when no request is out, the lines shown are
\* those of whoever is signed in, whatever mutations crossed the login or the logout.
LinesAreOwn == LinesShown /\ load = None => shown.owner = Identity

Quiet == who # Starting /\ load = None /\ merge = None /\ \A k \in Keys : ops[k].stage = "free"

\* Once all has ended, the lines shown are the cart's, unless a request for the cart was
\* sent while a mutation was out, or the reply to a mutation was lost.
ShownIsTheCart ==
  Quiet /\ LinesShown /\ excuses = {} => shown.units = Contents(Identity)

\* docs/phase6-cart.md: "Après chaque mutation confirmée, le contexte recharge le panier
\* complet." So a cart is out of date after a lost reply only.
EveryMutationReloads ==
  Quiet /\ LinesShown /\ excuses \subseteq {"overtaken"} => shown.units = Contents(Identity)

\* The cart's page is never left waiting, neither for a load nor for a mutation.
BusyEnds == status \in {"idle", "loading", "mutating"} ~> status \in {"ready", "error"}

=============================================================================
