--------------------------- MODULE Contexts_proofs ---------------------------
(***************************************************************************)
(* Proofs about the contexts of the frontend, for any customers, tabs,     *)
(* tokens and bounds.                                                      *)
(*                                                                         *)
(* ShownCart: what is shown was seen by the latest request, and what the   *)
(* latest request saw is the cart, unless a mutation that will have it     *)
(* read again is done (Undone) or an excuse was noted since.               *)
(*                                                                         *)
(* Sessions: a token that is on its way to the browser has been used by    *)
(* nobody and comes once, and a request of an older generation was sent    *)
(* for a token the browser has replaced since; so a stored token was       *)
(* exchanged only by a request that is awaited, or was given up with a     *)
(* note.                                                                   *)
(***************************************************************************)
EXTENDS Sessions, ShownCart, TLAPS

-------------------------------------------------------------------------------
(* ShownCart: the invariant *)

Op == [stage : {"free", "sent", "done", "reloading"}, fresh : BOOLEAN,
       owner : Customers \cup {Guest}, known : BOOLEAN]

CartTypes ==
    /\ who \in Customers \cup {Guest, Starting} /\ error \in BOOLEAN
    /\ shown \in [owner : Customers \cup {Guest}, units : Units]
    /\ load \in Loads \cup {None} /\ merge \in Merges \cup {None}
    /\ ops \in [Keys -> Op]
    /\ guest \in Units /\ server \in [Customers -> Units]

\* A mutation of the current generation is of whoever is signed in, and one of an
\* older generation that the server may still take is an excuse.
OpsOfNow ==
    \A k \in Keys : /\ ops[k].fresh => ops[k].owner = who /\ who \in Customers
                    /\ excuses = {} /\ ops[k].stage = "sent" => ops[k].fresh

\* No mutation is done that has the cart read again.
Undone == \A k \in Keys : ~(ops[k].stage = "done" /\ ops[k].fresh)

CurrentLoad ==
    load # None =>
        /\ load.owner = Identity
        /\ load.kind = "guest" => load.owner = Guest /\ load.served
        /\ load.kind # "guest" => load.owner \in Customers
        /\ load.kind = "merge" => ~load.served /\ merge # None /\ merge.owner = load.owner

\* A merge that no current request waits for is an excuse.
MergeAwaited == excuses = {} /\ merge # None => load # None /\ load.kind = "merge"

HasSeen == load.served \/ (load.kind = "merge" /\ merge.served)

SeenIsTheCart ==
    excuses = {} /\ Undone /\ load # None /\ HasSeen => load.seen = Contents(load.owner)

LoadedIsTheCart ==
    load = None /\ ~error =>
        /\ shown.owner = Identity
        /\ who # Starting /\ excuses = {} /\ Undone => shown.units = Contents(Identity)

CartInv ==
    /\ CartTypes /\ OpsOfNow /\ CurrentLoad /\ MergeAwaited
    /\ SeenIsTheCart /\ LoadedIsTheCart

\* CartInv is enough for both properties.
LEMMA CartInvEnough == CartInv => ShownIsTheCart /\ LinesAreOwn
<1> SUFFICES ASSUME CartInv PROVE ShownIsTheCart /\ LinesAreOwn
  OBVIOUS
<1>1. Quiet => Undone
  BY DEF Quiet, Undone
<1>. QED  BY <1>1 DEF CartInv, LoadedIsTheCart, ShownIsTheCart, LinesAreOwn, LinesShown, Quiet

LEMMA IdentityType == CartTypes => Identity \in Customers \cup {Guest}
  BY DEF CartTypes, Identity

LEMMA FreeOp == Free \in Op /\ Free.stage = "free" /\ ~Free.fresh
  BY DEF Free, Op

LEMMA NoneIsNoRequest == None \notin Loads /\ None \notin Merges /\ Guest \notin Customers
  BY ShownCartAssumption DEF ShownCartAssumption

LEMMA UnitsBounded ==
    /\ 0 \in Units
    /\ \A n \in Units, m \in Nat : Smallest(n + m, MAX_UNITS) \in Units
    /\ \A n \in Units : n \in Nat /\ 0..n \subseteq Units
  BY ShownCartAssumption DEF ShownCartAssumption, Units, Smallest

\* The locks after a new request: none is of its generation.
LEMMA LocksOfOld ==
    ASSUME CartTypes, NEW request, NEW awaiting, NewRequest(request, awaiting)
    PROVE  /\ load' = request
           /\ ops' \in [Keys -> Op]
           /\ \A k \in Keys : ~ops'[k].fresh
           /\ excuses' = {} => merge = None /\ \A k \in Keys : ops'[k].stage # "sent"
<1>1. [Free EXCEPT !.stage = "reloading"] \in Op
      /\ [Free EXCEPT !.stage = "reloading"].stage = "reloading"
      /\ ~[Free EXCEPT !.stage = "reloading"].fresh
  BY DEF Free, Op
<1>2. ASSUME NEW k \in Keys
      PROVE  LET old == [ops[k] EXCEPT !.fresh = FALSE]
             IN  old \in Op /\ ~old.fresh /\ old.stage = ops[k].stage
  BY DEF CartTypes, Op
<1>3. ASSUME NEW k \in Keys
      PROVE  /\ ops'[k] \in Op /\ ~ops'[k].fresh
             /\ ops'[k].stage = "sent" => ops[k].stage = "sent"
  <2>1. ops'[k] \in {[Free EXCEPT !.stage = "reloading"], Free, [ops[k] EXCEPT !.fresh = FALSE]}
    BY DEF NewRequest
  <2>. QED  BY <1>1, <1>2, <2>1, FreeOp
<1>4. ops' = [k \in Keys |-> ops'[k]]
  BY DEF NewRequest
<1>5. excuses' = {} => merge = None /\ \A k \in Keys : ops[k].stage # "sent"
  BY DEF NewRequest
<1>. QED  BY <1>3, <1>4, <1>5 DEF NewRequest

\* A new request for the cart of whoever is signed in from now on keeps CartInv.
LEMMA RequestKeeps ==
    ASSUME CartInv, NEW request \in Loads, NEW awaiting, NewRequest(request, awaiting),
           who' \in Customers \cup {Guest, Starting}, UNCHANGED <<error, shown>>,
           merge' \in Merges \cup {None}, guest' \in Units, server' \in [Customers -> Units],
           request.owner = Identity',
           request.kind = "guest" =>
              request.owner = Guest /\ request.served /\ request.seen = guest',
           request.kind # "guest" => request.owner \in Customers /\ ~request.served,
           IF request.kind = "merge"
           THEN merge' # None /\ merge'.owner = request.owner /\ ~merge'.served
           ELSE UNCHANGED merge
    PROVE  CartInv'
<1>1. /\ load' = request /\ ops' \in [Keys -> Op]
      /\ \A k \in Keys : ~ops'[k].fresh
      /\ excuses' = {} => merge = None /\ \A k \in Keys : ops'[k].stage # "sent"
  BY LocksOfOld DEF CartInv
<1>2. load' # None
  BY <1>1, NoneIsNoRequest
<1>3. CartTypes'
  BY <1>1 DEF CartInv, CartTypes
<1>4. OpsOfNow' /\ MergeAwaited'
  BY <1>1, <1>2 DEF OpsOfNow, MergeAwaited
<1>5. CurrentLoad'
  BY <1>1, <1>2 DEF CurrentLoad
<1>6. SeenIsTheCart'
  <2>1. HasSeen' => request.kind = "guest"
    BY <1>1 DEF HasSeen
  <2>2. request.kind = "guest" => (load.seen = Contents(load.owner))'
    BY <1>1 DEF Contents
  <2>. QED  BY <2>1, <2>2 DEF SeenIsTheCart
<1>7. LoadedIsTheCart'
  BY <1>2 DEF LoadedIsTheCart
<1>. QED  BY <1>3, <1>4, <1>5, <1>6, <1>7 DEF CartInv

\* reloadCart for an identity.
LEMMA LoadOfFields ==
    ASSUME NEW id \in Customers \cup {Guest}, NEW units \in Units
    PROVE  LET request == LoadOf(id, units)
           IN  /\ request \in Loads /\ request.owner = id /\ request.kind # "merge"
               /\ request.kind = "guest" =>
                     request.owner = Guest /\ request.served /\ request.seen = units
               /\ request.kind # "guest" => request.owner \in Customers /\ ~request.served
<1>1. CASE id = Guest
  BY <1>1 DEF LoadOf, GuestLoad, Loads
<1>2. CASE id \in Customers
  BY <1>2, NoneIsNoRequest, UnitsBounded DEF LoadOf, ServerLoad, Loads
<1>. QED  BY <1>1, <1>2

LEMMA ReloadKeeps ==
    ASSUME CartInv, NEW awaiting, NEW id \in Customers \cup {Guest}, id = Identity',
           NEW units \in Units, guest' = units,
           NewRequest(LoadOf(id, units), awaiting),
           who' \in Customers \cup {Guest, Starting}, UNCHANGED <<error, shown, merge>>,
           server' \in [Customers -> Units]
    PROVE  CartInv'
<1> DEFINE request == LoadOf(id, units)
<1>1. /\ request \in Loads /\ request.owner = id /\ request.kind # "merge"
      /\ request.kind = "guest" =>
            request.owner = Guest /\ request.served /\ request.seen = units
      /\ request.kind # "guest" => request.owner \in Customers /\ ~request.served
  BY LoadOfFields
<1>2. NewRequest(request, awaiting)
  OBVIOUS
<1>3. merge' \in Merges \cup {None}
  BY DEF CartInv, CartTypes
<1>. HIDE DEF request
<1>. QED  BY <1>1, <1>2, <1>3, RequestKeeps

-------------------------------------------------------------------------------
(* ShownCart: the steps *)

\* Whoever signs in or out has the cart read, or merged, as of then.
LEMMA TurnKeeps ==
    ASSUME CartInv, NEW id \in Customers \cup {Guest}, Turn(id)
    PROVE  CartInv'
<1>1. /\ who' = id /\ UNCHANGED <<error, shown, guest, server>>
      /\ guest \in Units /\ server \in [Customers -> Units]
      /\ merge \in Merges \cup {None} /\ Identity' = id
  BY DEF Turn, CartInv, CartTypes, Identity
<1>2. CASE id \in Customers /\ guest > 0
  <2> DEFINE m == [owner |-> id, units |-> guest, served |-> FALSE]
             request == MergeLoad(id)
  <2>1. merge' = m /\ NewRequest(request, {})
    BY <1>2 DEF Turn
  <2>2. m \in Merges /\ m.owner = id /\ ~m.served
    BY <1>1, <1>2 DEF Merges
  <2>3. /\ request \in Loads /\ request.owner = id /\ request.kind = "merge"
        /\ ~request.served
    BY <1>2, UnitsBounded DEF MergeLoad, Loads
  <2>. HIDE DEF m, request
  <2>. QED  BY <1>1, <1>2, <2>1, <2>2, <2>3, NoneIsNoRequest, RequestKeeps
<1>3. CASE ~(id \in Customers /\ guest > 0)
  <2>1. NewRequest(LoadOf(id, guest), {}) /\ UNCHANGED merge
    BY <1>3 DEF Turn
  <2>. QED  BY <1>1, <2>1, ReloadKeeps
<1>. QED  BY <1>2, <1>3

\* What the customer does.
LEMMA CustomerKeeps ==
    ASSUME CartInv, Resolve \/ LogIn \/ LogOut \/ Retry \/ OrderPlaced
    PROVE  CartInv'
<1>0. /\ guest \in Units /\ server \in [Customers -> Units]
      /\ who \in Customers \cup {Guest, Starting}
      /\ Identity \in Customers \cup {Guest}
  BY IdentityType DEF CartInv, CartTypes
<1>1. CASE Resolve \/ LogIn \/ LogOut
  BY <1>1, TurnKeeps DEF Resolve, LogIn, LogOut
<1>2. CASE Retry
  <2>1. /\ NewRequest(LoadOf(Identity, guest), {})
        /\ UNCHANGED <<who, error, shown, merge, guest, server>>
    BY <1>2 DEF Retry
  <2>2. Identity' = Identity
    BY <2>1 DEF Identity
  <2> DEFINE id == Identity
  <2>. HIDE DEF id
  <2>3. id \in Customers \cup {Guest} /\ NewRequest(LoadOf(id, guest), {}) /\ id = Identity'
    BY <1>0, <2>1, <2>2 DEF id
  <2>. QED  BY <1>0, <2>1, <2>3, ReloadKeeps
<1>3. CASE OrderPlaced
  <2>1. /\ who \in Customers /\ server' = [server EXCEPT ![who] = 0]
        /\ NewRequest(LoadOf(who, guest), {})
        /\ UNCHANGED <<who, error, shown, merge, guest>>
    BY <1>3 DEF OrderPlaced
  <2>2. Identity' = who /\ server' \in [Customers -> Units]
    BY <1>0, <2>1, UnitsBounded DEF Identity
  <2>. QED  BY <1>0, <2>1, <2>2, ReloadKeeps
<1>. QED  BY <1>1, <1>2, <1>3

\* One lock changes hands, and perhaps a customer's cart with it.
LEMMA LockKeeps ==
    ASSUME CartInv, NEW k \in Keys, NEW op \in Op, ops' = [ops EXCEPT ![k] = op],
           UNCHANGED <<who, error, shown, load, merge, guest>>,
           server' \in [Customers -> Units],
           op.fresh => op.owner = who /\ who \in Customers,
           excuses' = {} =>
              /\ excuses = {} /\ (op.stage = "sent" => op.fresh)
              /\ server' = server \/ (op.stage = "done" /\ op.fresh)
              /\ ops[k].stage = "done" /\ ops[k].fresh => op.stage = "done" /\ op.fresh
    PROVE  CartInv'
<1>1. /\ ops' \in [Keys -> Op] /\ ops'[k] = op
      /\ \A q \in Keys \ {k} : ops'[q] = ops[q]
  BY DEF CartInv, CartTypes
<1>2. CartTypes' /\ OpsOfNow'
  BY <1>1 DEF CartInv, CartTypes, OpsOfNow
<1>3. Identity' = Identity /\ (HasSeen' <=> HasSeen)
  BY DEF Identity, HasSeen
<1>4. excuses' = {} /\ Undone' => excuses = {} /\ Undone /\ UNCHANGED server
  BY <1>1 DEF Undone
<1>5. CurrentLoad' /\ MergeAwaited'
  BY <1>3 DEF CartInv, CurrentLoad, MergeAwaited
<1>6. SeenIsTheCart'
  BY <1>3, <1>4 DEF CartInv, SeenIsTheCart, Contents
<1>7. LoadedIsTheCart'
  BY <1>3, <1>4 DEF CartInv, LoadedIsTheCart, Contents
<1>. QED  BY <1>2, <1>5, <1>6, <1>7 DEF CartInv

\* A mutation begins, is served or ends without the cart being read.
LEMMA MutationKeeps ==
    ASSUME CartInv, NEW k \in Keys,
           \/ Begin(k)
           \/ \E units : /\ Served(k, units)
                         /\ ops[k].owner \in Customers => units \in Units
           \/ Finish(k) /\ ~ops[k].fresh
           \/ MutationFails(k)
    PROVE  CartInv'
<1>0. /\ ops \in [Keys -> Op] /\ server \in [Customers -> Units] /\ OpsOfNow
      /\ shown \in [owner : Customers \cup {Guest}, units : Units]
  BY DEF CartInv, CartTypes
<1>1. CASE Begin(k)
  <2> DEFINE op == [stage |-> "sent", fresh |-> TRUE, owner |-> who, known |-> shown.owner = who]
  <2>1. /\ who \in Customers /\ ops[k].stage = "free" /\ ops' = [ops EXCEPT ![k] = op]
        /\ UNCHANGED <<who, error, shown, load, merge, guest, server, excuses>>
    BY <1>1 DEF Begin
  <2>2. op \in Op /\ op.fresh /\ op.owner = who /\ op.stage = "sent"
    BY <2>1 DEF Op
  <2>. HIDE DEF op
  <2>3. \E o \in Op : /\ o.fresh /\ o.owner = who /\ o.stage = "sent"
                      /\ ops' = [ops EXCEPT ![k] = o]
    BY <2>1, <2>2
  <2>. QED  BY <1>0, <2>1, <2>3, LockKeeps
<1>2. ASSUME NEW units, Served(k, units), ops[k].owner \in Customers => units \in Units
      PROVE  CartInv'
  <2>1. /\ ops[k].stage = "sent" /\ ops' = [ops EXCEPT ![k].stage = "done"]
        /\ server' = [server EXCEPT ![ops[k].owner] = units]
        /\ UNCHANGED <<who, error, shown, load, merge, guest, excuses>>
    BY <1>2 DEF Served
  <2>2. PICK op \in Op : /\ op.stage = "done" /\ op.owner = ops[k].owner
                         /\ op.fresh <=> ops[k].fresh
                         /\ ops' = [ops EXCEPT ![k] = op]
    <3> DEFINE o == [ops[k] EXCEPT !.stage = "done"]
    <3>1. o \in Op /\ o.stage = "done" /\ o.owner = ops[k].owner /\ (o.fresh <=> ops[k].fresh)
      BY <1>0 DEF Op
    <3>2. ops' = [ops EXCEPT ![k] = o]
      BY <2>1
    <3>. HIDE DEF o
    <3>. QED  BY <3>1, <3>2
  <2>3. server' \in [Customers -> Units]
    BY <1>0, <1>2, <2>1
  <2>4. /\ op.fresh => op.owner = who /\ who \in Customers
        /\ excuses = {} => op.fresh
    BY <1>0, <2>1, <2>2 DEF OpsOfNow
  <2>. QED  BY <2>1, <2>2, <2>3, <2>4, LockKeeps
<1>3. CASE Finish(k) /\ ~ops[k].fresh
  <2>1. /\ ops' = [ops EXCEPT ![k] = Free]
        /\ UNCHANGED <<who, error, shown, load, merge, guest, server, excuses>>
    BY <1>3 DEF Finish
  <2>. QED  BY <1>0, <1>3, <2>1, FreeOp, LockKeeps
<1>4. CASE MutationFails(k)
  <2>1. /\ ops' = [ops EXCEPT ![k] = Free]
        /\ UNCHANGED <<who, error, shown, load, merge, guest, server>>
        /\ excuses' = {} => excuses = {} /\ ops[k].stage # "done"
    BY <1>4 DEF MutationFails
  <2>. QED  BY <1>0, <2>1, FreeOp, LockKeeps
<1>. QED  BY <1>1, <1>2, <1>3, <1>4

\* What the server does with a mutation.
LEMMA ServedKeeps ==
    ASSUME CartInv, ServedAdd \/ ServedQuantity \/ ServedRemoval
    PROVE  CartInv'
<1>0. server \in [Customers -> Units]
  BY DEF CartInv, CartTypes
<1>1. CASE ServedAdd
  <2> DEFINE units == Smallest(server[ops["add"].owner] + 1, MAX_UNITS)
  <2>1. Served("add", units)
    BY <1>1 DEF ServedAdd
  <2>2. ops["add"].owner \in Customers => units \in Units
    BY <1>0, UnitsBounded
  <2>. HIDE DEF units
  <2>. QED  BY <2>1, <2>2, MutationKeeps DEF Keys
<1>2. CASE ServedQuantity
  <2>1. PICK n \in Units : Served("line", n)
    BY <1>2 DEF ServedQuantity
  <2>. QED  BY <2>1, MutationKeeps DEF Keys
<1>3. CASE ServedRemoval
  <2> DEFINE units == IF LineFound THEN 0 ELSE server[ops["line"].owner]
  <2>1. Served("line", units)
    BY <1>3 DEF ServedRemoval
  <2>2. ops["line"].owner \in Customers => units \in Units
    BY <1>0, UnitsBounded
  <2>. HIDE DEF units
  <2>. QED  BY <2>1, <2>2, MutationKeeps DEF Keys
<1>. QED  BY <1>1, <1>2, <1>3

\* A mutation that is done has the cart read; a guest's, at once.
LEMMA ReloadSteps ==
    ASSUME CartInv, NEW k \in Keys, (Finish(k) /\ ops[k].fresh) \/ GuestMutates(k)
    PROVE  CartInv'
<1>0. /\ guest \in Units /\ server \in [Customers -> Units]
      /\ who \in Customers \cup {Guest, Starting} /\ OpsOfNow
  BY DEF CartInv, CartTypes
<1>1. CASE Finish(k) /\ ops[k].fresh
  <2>1. ops[k].owner = who /\ who \in Customers
    BY <1>0, <1>1 DEF OpsOfNow
  <2>2. /\ NewRequest(LoadOf(who, guest), {k})
        /\ UNCHANGED <<who, error, shown, merge, guest, server>>
    BY <1>1, <2>1 DEF Finish
  <2>3. Identity' = who
    BY <2>1, <2>2 DEF Identity
  <2>. QED  BY <1>0, <2>1, <2>2, <2>3, ReloadKeeps
<1>2. CASE GuestMutates(k)
  <2>1. /\ who \notin Customers /\ UNCHANGED <<who, error, shown, merge, server>>
        /\ \/ /\ guest' \in IF k = "add" THEN {Smallest(guest + 1, MAX_UNITS)} ELSE Units
              /\ NewRequest(LoadOf(Guest, guest'), {k})
           \/ UNCHANGED <<guest, load, ops, excuses>>
    BY <1>2 DEF GuestMutates
  <2>2. CASE UNCHANGED <<guest, load, ops, excuses>>
    BY <2>1, <2>2 DEF CartInv, CartTypes, OpsOfNow, CurrentLoad, MergeAwaited, SeenIsTheCart,
                      LoadedIsTheCart, Undone, HasSeen, Contents, Identity
  <2>3. CASE /\ guest' \in IF k = "add" THEN {Smallest(guest + 1, MAX_UNITS)} ELSE Units
             /\ NewRequest(LoadOf(Guest, guest'), {k})
    <3>1. guest' \in Units
      BY <1>0, <2>3, UnitsBounded
    <3>2. PICK units \in Units : guest' = units
      BY <3>1
    <3>3. Identity' = Guest /\ NewRequest(LoadOf(Guest, units), {k})
      BY <2>1, <2>3, <3>2 DEF Identity
    <3>. QED  BY <1>0, <2>1, <3>2, <3>3, ReloadKeeps
  <2>. QED  BY <2>1, <2>2, <2>3
<1>. QED  BY <1>1, <1>2

\* The locks let go with a request are of mutations that ended before.
LEMMA SettledLocks ==
    ASSUME CartTypes, ops' = Settled
    PROVE  /\ ops' \in [Keys -> Op]
           /\ \A k \in Keys : ops'[k] = ops[k] \/ ops'[k] = Free
           /\ Undone' <=> Undone
<1>1. ASSUME NEW k \in Keys
      PROVE  ops'[k] = IF ops[k].stage = "reloading" THEN Free ELSE ops[k]
  BY DEF Settled
<1>2. \A k \in Keys : ops[k] \in Op
  BY DEF CartTypes
<1>3. \A k \in Keys : ops'[k] \in Op
  BY <1>1, <1>2, FreeOp
<1>4. ops' \in [Keys -> Op]
  BY <1>3 DEF Settled
<1>5. Undone' <=> Undone
  BY <1>1, FreeOp DEF Undone
<1>. QED  BY <1>1, <1>4, <1>5, FreeOp

\* A request ends: what it saw is shown, or its failure.
LEMMA LoadEnds ==
    ASSUME CartInv, load # None, load' = None, ops' = Settled,
           UNCHANGED <<who, server, excuses>>,
           guest' \in Units, guest' = guest \/ load.owner # Guest,
           \/ HasSeen /\ shown' = Shown(load) /\ error' = FALSE
           \/ shown' = shown /\ error' = TRUE,
           IF load.kind = "merge" THEN merge' = None ELSE merge' = merge
    PROVE  CartInv'
<1>0. CartTypes /\ OpsOfNow /\ CurrentLoad /\ MergeAwaited /\ SeenIsTheCart /\ LoadedIsTheCart
  BY DEF CartInv
<1>1. /\ ops' \in [Keys -> Op]
      /\ \A k \in Keys : ops'[k] = ops[k] \/ ops'[k] = Free
      /\ Undone' <=> Undone
  BY <1>0, SettledLocks
<1>2. load \in Loads /\ load.owner = Identity /\ Identity' = Identity
  BY <1>0 DEF CartTypes, CurrentLoad, Identity
<1>3. /\ Shown(load) \in [owner : Customers \cup {Guest}, units : Units]
      /\ Shown(load).owner = Identity /\ Shown(load).units = load.seen
  BY <1>2 DEF Loads, Shown
<1>4. CartTypes'
  BY <1>0, <1>1, <1>3 DEF CartTypes
<1>5. OpsOfNow' /\ CurrentLoad' /\ MergeAwaited' /\ SeenIsTheCart'
  <2>1. OpsOfNow'
    <3> SUFFICES ASSUME NEW k \in Keys
                 PROVE  /\ ops'[k].fresh => ops'[k].owner = who' /\ who' \in Customers
                        /\ excuses' = {} /\ ops'[k].stage = "sent" => ops'[k].fresh
      BY DEF OpsOfNow
    <3>1. /\ ops[k].fresh => ops[k].owner = who /\ who \in Customers
          /\ excuses = {} /\ ops[k].stage = "sent" => ops[k].fresh
      BY <1>0 DEF OpsOfNow
    <3>2. CASE ops'[k] = ops[k]
      BY <3>1, <3>2
    <3>3. CASE ops'[k] = Free
      BY <3>3, FreeOp
    <3>. QED  BY <1>1, <3>2, <3>3
  <2>2. excuses' = {} => merge' = None
    BY <1>0 DEF MergeAwaited
  <2>. QED  BY <2>1, <2>2 DEF CurrentLoad, MergeAwaited, SeenIsTheCart
<1>6. LoadedIsTheCart'
  <2>1. CASE HasSeen /\ shown' = Shown(load)
    <3>1. excuses = {} /\ Undone => load.seen = Contents(load.owner)
      BY <1>0, <2>1 DEF SeenIsTheCart
    <3>2. Contents(Identity)' = Contents(load.owner)
      BY <1>2 DEF Contents
    <3>. QED  BY <1>1, <1>2, <1>3, <2>1, <3>1, <3>2 DEF LoadedIsTheCart
  <2>2. CASE error' = TRUE
    BY <2>2 DEF LoadedIsTheCart
  <2>. QED  BY <2>1, <2>2
<1>. QED  BY <1>4, <1>5, <1>6 DEF CartInv

\* Requests for the cart.
LEMMA LoadKeeps ==
    ASSUME CartInv, ServeLoad \/ LoadArrives \/ LoadFails
    PROVE  CartInv'
<1>0. CartTypes /\ OpsOfNow /\ CurrentLoad /\ MergeAwaited /\ SeenIsTheCart /\ LoadedIsTheCart
  BY DEF CartInv
<1>1. CASE ServeLoad
  <2>1. /\ load # None /\ load.kind = "server"
        /\ load' = [load EXCEPT !.served = TRUE, !.seen = server[load.owner]]
        /\ UNCHANGED <<who, error, shown, merge, ops, guest, server, excuses>>
    BY <1>1 DEF ServeLoad
  <2>2. load \in Loads /\ load.owner \in Customers /\ load.owner = Identity
    BY <1>0, <2>1 DEF CartTypes, CurrentLoad
  <2>3. server[load.owner] \in Units
    BY <1>0, <2>2 DEF CartTypes
  <2>4. /\ load' \in Loads /\ load'.seen = server[load.owner] /\ load'.owner = load.owner
        /\ load'.kind = "server"
    BY <2>1, <2>2, <2>3 DEF Loads
  <2>5. load' # None /\ Identity' = Identity
    BY <2>1, <2>4, NoneIsNoRequest DEF Identity
  <2>6. CartTypes' /\ OpsOfNow' /\ CurrentLoad'
    BY <1>0, <2>1, <2>2, <2>4, <2>5 DEF CartTypes, OpsOfNow, CurrentLoad
  <2>7. MergeAwaited' /\ LoadedIsTheCart'
    BY <1>0, <2>1, <2>5 DEF MergeAwaited, LoadedIsTheCart
  <2>8. (load.seen = Contents(load.owner))'
    BY <2>1, <2>2, <2>4, NoneIsNoRequest DEF Contents
  <2>. QED  BY <2>6, <2>7, <2>8 DEF CartInv, SeenIsTheCart
<1>2. CASE LoadArrives
  <2>1. /\ load # None /\ load.served /\ load' = None /\ ops' = Settled
        /\ shown' = Shown(load) /\ error' = FALSE
        /\ UNCHANGED <<who, merge, guest, server, excuses>>
    BY <1>2 DEF LoadArrives
  <2>2. load.kind # "merge" /\ guest' \in Units
    BY <1>0, <2>1 DEF CurrentLoad, CartTypes
  <2>. QED  BY <2>1, <2>2, LoadEnds DEF HasSeen
<1>3. CASE LoadFails
  <2>1. /\ load # None /\ load.kind # "merge" /\ load' = None /\ ops' = Settled
        /\ error' = TRUE /\ UNCHANGED <<who, shown, merge, guest, server, excuses>>
    BY <1>3 DEF LoadFails
  <2>2. guest' \in Units
    BY <1>0, <2>1 DEF CartTypes
  <2>. QED  BY <2>1, <2>2, LoadEnds
<1>. QED  BY <1>1, <1>2, <1>3

\* A merge nobody's request waits for: what is shown is excused.
LEMMA CrossedMerge ==
    ASSUME CartInv, merge # None, load = None \/ load.kind # "merge",
           UNCHANGED <<who, error, shown, load, ops, excuses>>,
           merge' \in Merges \cup {None}, guest' \in Units, server' \in [Customers -> Units]
    PROVE  CartInv'
<1>1. excuses # {} /\ Identity' = Identity
  BY DEF CartInv, MergeAwaited, Identity
<1>2. CartTypes' /\ OpsOfNow' /\ CurrentLoad'
  BY <1>1 DEF CartInv, CartTypes, OpsOfNow, CurrentLoad
<1>. QED  BY <1>1, <1>2 DEF CartInv, MergeAwaited, SeenIsTheCart, LoadedIsTheCart

\* The merge.
LEMMA MergeKeeps ==
    ASSUME CartInv, ServeMerge \/ MergeArrives \/ MergeFails
    PROVE  CartInv'
<1>0. CartTypes /\ OpsOfNow /\ CurrentLoad /\ MergeAwaited /\ SeenIsTheCart /\ LoadedIsTheCart
  BY DEF CartInv
<1>1. CASE ServeMerge
  <2>1. PICK taken \in 0..merge.units :
           server' = [server EXCEPT ![merge.owner] = Smallest(@ + taken, MAX_UNITS)]
    BY <1>1 DEF ServeMerge
  <2>2. /\ merge # None /\ merge' = [merge EXCEPT !.served = TRUE]
        /\ UNCHANGED <<who, error, shown, ops, guest, excuses>>
    BY <1>1 DEF ServeMerge
  <2>3. merge \in Merges /\ merge.owner \in Customers /\ merge.units \in Units
    BY <1>0, <2>2 DEF CartTypes, Merges
  <2>4. merge' \in Merges /\ merge'.served /\ merge'.owner = merge.owner
    BY <2>2, <2>3 DEF Merges
  <2>5. taken \in Nat /\ server[merge.owner] \in Units
    BY <1>0, <2>3, UnitsBounded DEF CartTypes
  <2>6. server' \in [Customers -> Units] /\ guest' \in Units
    <3>1. Smallest(server[merge.owner] + taken, MAX_UNITS) \in Units
      BY <2>5, UnitsBounded
    <3>. QED  BY <1>0, <2>1, <2>2, <2>3, <3>1 DEF CartTypes
  <2>7. CASE load # None /\ load.kind = "merge"
    <3>1. /\ load' = [load EXCEPT !.seen = server'[merge.owner]] /\ load \in Loads
          /\ load.owner = merge.owner /\ load.owner = Identity /\ ~load.served
      BY <1>0, <1>1, <2>7 DEF ServeMerge, CartTypes, CurrentLoad
    <3>2. server'[merge.owner] \in Units
      BY <2>3, <2>6
    <3>3. /\ load' \in Loads /\ load'.seen = server'[merge.owner] /\ load'.kind = "merge"
          /\ load'.owner = merge.owner /\ ~load'.served
      BY <2>7, <3>1, <3>2 DEF Loads
    <3>4. load' # None /\ merge' # None /\ Identity' = Identity
      BY <2>2, <2>4, <3>3, NoneIsNoRequest DEF Identity
    <3>5. CartTypes' /\ OpsOfNow' /\ CurrentLoad'
      BY <1>0, <2>2, <2>3, <2>4, <2>6, <3>1, <3>3, <3>4 DEF CartTypes, OpsOfNow, CurrentLoad
    <3>6. MergeAwaited' /\ LoadedIsTheCart'
      BY <3>3, <3>4 DEF MergeAwaited, LoadedIsTheCart
    <3>7. (load.seen = Contents(load.owner))'
      BY <2>3, <3>3, NoneIsNoRequest DEF Contents
    <3>. QED  BY <3>5, <3>6, <3>7 DEF CartInv, SeenIsTheCart
  <2>8. CASE ~(load # None /\ load.kind = "merge")
    <3>1. load' = load
      BY <1>1, <2>8 DEF ServeMerge
    <3>. QED  BY <2>2, <2>4, <2>6, <2>8, <3>1, CrossedMerge
  <2>. QED  BY <2>7, <2>8
<1>2. CASE MergeArrives \/ MergeFails
  <2>1. /\ merge # None /\ merge' = None /\ UNCHANGED <<who, server, excuses>>
        /\ guest' \in 0..guest \/ guest' = guest
    BY <1>2 DEF MergeArrives, MergeFails
  <2>2. guest' \in Units /\ server' \in [Customers -> Units]
    BY <1>0, <2>1, UnitsBounded DEF CartTypes
  <2>3. CASE load # None /\ load.kind = "merge"
    <3>1. /\ load' = None /\ ops' = Settled
          /\ \/ merge.served /\ shown' = Shown(load) /\ error' = FALSE
             \/ shown' = shown /\ error' = TRUE
      BY <1>2, <2>3 DEF MergeArrives, MergeFails
    <3>2. load.owner # Guest
      BY <1>0, <2>3, NoneIsNoRequest DEF CurrentLoad
    <3>. QED  BY <2>1, <2>2, <2>3, <3>1, <3>2, LoadEnds DEF HasSeen
  <2>4. CASE ~(load # None /\ load.kind = "merge")
    <3>1. UNCHANGED <<error, shown, load, ops>>
      BY <1>2, <2>4 DEF MergeArrives, MergeFails
    <3>. QED  BY <2>1, <2>2, <2>4, <3>1, CrossedMerge
  <2>. QED  BY <2>3, <2>4
<1>. QED  BY <1>1, <1>2

LEMMA CartInvariance == ShownSpec => []CartInv
<1>1. ShownInit => CartInv
  <2> SUFFICES ASSUME ShownInit PROVE CartInv
    OBVIOUS
  <2>1. CartTypes
    BY FreeOp, UnitsBounded DEF ShownInit, CartTypes
  <2>2. OpsOfNow /\ CurrentLoad /\ MergeAwaited /\ SeenIsTheCart
    BY FreeOp DEF ShownInit, OpsOfNow, CurrentLoad, MergeAwaited, SeenIsTheCart
  <2>3. LoadedIsTheCart
    BY ShownCartAssumption DEF ShownInit, LoadedIsTheCart, Identity, ShownCartAssumption
  <2>. QED  BY <2>1, <2>2, <2>3 DEF CartInv
<1>2. CartInv /\ [ShownNext]_cartVars => CartInv'
  <2> SUFFICES ASSUME CartInv, [ShownNext]_cartVars PROVE CartInv'
    OBVIOUS
  <2>1. CASE UNCHANGED cartVars
    BY <2>1 DEF cartVars, CartInv, CartTypes, OpsOfNow, CurrentLoad, MergeAwaited, SeenIsTheCart,
                LoadedIsTheCart, Undone, HasSeen, Contents, Identity
  <2>2. CASE Requests
    BY <2>2, LoadKeeps, MergeKeeps, ServedKeeps, MutationKeeps, ReloadSteps DEF Requests
  <2>. QED  BY <2>1, <2>2, CustomerKeeps, MutationKeeps, ReloadSteps DEF ShownNext
<1>. QED  BY <1>1, <1>2, PTL DEF ShownSpec

\* However mutations, merges, logins and failures cross, with any number of customers:
\* once all has ended without an excuse, the units shown are the cart's.
THEOREM CartShown == ShownSpec => []ShownIsTheCart
  BY CartInvariance, CartInvEnough, PTL

\* And whatever the excuses, they are those of whoever is signed in.
THEOREM OwnLines == ShownSpec => []LinesAreOwn
  BY CartInvariance, CartInvEnough, PTL

-------------------------------------------------------------------------------
(* Sessions: the invariant *)

Tasks == {"idle", "restore", "restore-me", "login", "login-ok", "login-no", "login-me",
          "password"}
TabRecord == [status : AUTH_STATUS, access : Int, fresh : BOOLEAN, promise : Int,
              task : Tasks, carry : Int]
FlightRecord == [tab : Tabs, token : Int, next : Int,
                 phase : {"sent", "checked", "rotated", "refused"},
                 waits : BOOLEAN, current : BOOLEAN]

\* Whose token comes with a login is who it came with before.
LoginsKept ==
    \A t \in Tabs : tab'[t].task = "login-ok" =>
                      tab[t].task = "login-ok" /\ tab'[t].carry = tab[t].carry

SessionShapes ==
    /\ account \in [verified : BOOLEAN, suspended : BOOLEAN, active : BOOLEAN, version : Nat]
    /\ issued \in Seq(Nat) /\ black \subseteq Tokens
    /\ stored \in {0} \cup Tokens /\ posts \subseteq Tokens \ {stored}
    /\ tab \in [Tabs -> TabRecord] /\ flights \subseteq FlightRecord
    /\ \A f \in flights : f.token \in Tokens
    /\ lost \in BOOLEAN

\* A token that was exchanged or signed out, not revoked.
Spent(n) == n \in black /\ n \notin revoked

\* Tokens on their way to the browser.
Brings(f, n) == f \in flights /\ f.phase = "rotated" /\ f.next = n
Holds(t, n) == t \in Tabs /\ tab[t].task = "login-ok" /\ tab[t].carry = n

\* The browser has not had it, so nobody has used it up.
Unseen(n) ==
    /\ n \in Tokens /\ n # stored /\ n \notin posts /\ ~Spent(n)
    /\ \A f \in flights : f.token # n

ComingUnseen ==
    \A n \in Int : (\E f \in flights : Brings(f, n)) \/ (\E t \in Tabs : Holds(t, n)) => Unseen(n)

OneHolder ==
    \A n \in Int :
        /\ \A f, g \in flights : Brings(f, n) /\ Brings(g, n) => f = g
        /\ \A t, u \in Tabs : Holds(t, n) /\ Holds(u, n) => t = u
        /\ \A f \in flights, t \in Tabs : ~(Brings(f, n) /\ Holds(t, n))

\* Requests of an older generation were for a token the browser has replaced, and one
\* given up for the stored token is remembered.
OldFlights ==
    \A f \in flights : f.token = stored => IF f.waits THEN f.current ELSE lost

StoredSpent ==
    stored # 0 /\ Spent(stored) => lost \/ \E f \in flights : f.token = stored /\ f.waits

SessionInv ==
    /\ SessionShapes /\ ComingUnseen /\ OneHolder
    /\ OldFlights /\ StoredSpent

\* A request whose answer the tab would take.
Awaited(f) == f.waits /\ f.current

\* Where nothing is stored, a tab that kept nothing when it was cleared has no access and
\* awaits nothing.
NothingHeld ==
    /\ signedOut => stored = 0
    /\ stored = 0 => \A t \in Tabs \ apart :
          /\ tab[t].access = NoAccess
          /\ \A f \in flights : f.tab = t => ~Awaited(f)

\* Both properties of the session.
LEMMA SessionInvEnough == SessionInv => StoredTokenIsLive
  BY DEF SessionInv, SessionShapes, StoredSpent, Spent, StoredTokenIsLive, Live, Refreshable

LEMMA HeldEnough == NothingHeld => LogoutIsKept
  BY DEF NothingHeld, LogoutIsKept

\* The revocations under way.
RevocationRecord == [stage : {"idle", "read", "listed", "done"},
                     asks : {"nobody", "password", "reset"},
                     version : Nat, left : SUBSET Int]
RevokingShapes ==
    /\ revoking \in [Revokers -> RevocationRecord]
    /\ \A r \in Revokers : revoking[r].left \subseteq Tokens

LEMMA TokensAreNumbers == Tokens \subseteq Int
  BY DEF Tokens

LEMMA TokenNumbers ==
    ASSUME issued \in Seq(Nat)
    PROVE  Tokens \subseteq Nat \ {0} /\ \A n \in Tokens : issued[n] \in Nat
  BY DEF Tokens

-------------------------------------------------------------------------------
(* Sessions: the server *)

\* Nothing is issued, and nothing is used up but by a revocation.
NoneSpent ==
    /\ account' \in [verified : BOOLEAN, suspended : BOOLEAN, active : BOOLEAN, version : Nat]
    /\ issued' = issued /\ black' \subseteq Tokens
    /\ \A n \in Tokens : Spent(n)' => Spent(n)

LEMMA RestSpendsNone ==
    ASSUME SessionInv, UNCHANGED tokenVars \/ UNCHANGED accountVars
    PROVE  NoneSpent
  BY DEF SessionInv, SessionShapes, tokenVars, accountVars, NoneSpent, Spent

LEMMA RevokeSpendsNone ==
    ASSUME SessionInv, RevokingShapes, NEW r \in Revokers, Revoke(r) \/ Suspend(r)
    PROVE  NoneSpent
<1>1. /\ account \in [verified : BOOLEAN, suspended : BOOLEAN, active : BOOLEAN, version : Nat]
      /\ black \subseteq Tokens /\ revoking[r].left \subseteq Tokens
  BY DEF SessionInv, SessionShapes, RevokingShapes
<1>2. PICK v \in Nat : v = revoking[r].version + 1
  BY DEF RevokingShapes, RevocationRecord
<1>3. CASE ListTokens(r) \/ RevocationDies(r)
  BY <1>3, RestSpendsNone DEF ListTokens, RevocationDies
<1>4. CASE BlacklistNext(r)
  <2>1. PICK n \in revoking[r].left :
           /\ black' = black \cup {n} /\ revoked' = revoked \cup ({n} \ black)
           /\ UNCHANGED <<account, issued>>
    BY <1>4 DEF BlacklistNext
  <2>. QED  BY <1>1, <2>1 DEF NoneSpent, Spent
<1>5. CASE WriteVersion(r)
  <2>1. account' = [account EXCEPT !.version = v] /\ UNCHANGED <<issued, black, revoked>>
    BY <1>2, <1>5 DEF WriteVersion
  <2>. QED  BY <1>1, <2>1 DEF NoneSpent, Spent
<1>6. CASE Suspend(r)
  <2>1. /\ account' = [account EXCEPT !.suspended = TRUE, !.version = v]
        /\ black' = black \cup Tokens /\ revoked' = revoked \cup (Tokens \ black)
        /\ issued' = issued
    BY <1>2, <1>6 DEF Suspend
  <2>. QED  BY <1>1, <2>1 DEF NoneSpent, Spent
<1>. QED  BY <1>3, <1>4, <1>5, <1>6 DEF Revoke

LEMMA AdministrationSpendsNone ==
    ASSUME SessionInv, RevokingShapes, Administration
    PROVE  NoneSpent
<1>1. account \in [verified : BOOLEAN, suspended : BOOLEAN, active : BOOLEAN, version : Nat]
      /\ black \subseteq Tokens
  BY DEF SessionInv, SessionShapes
<1>2. CASE VerifyEmail \/ Unsuspend \/ ToggleActive
  <2>1. UNCHANGED <<issued, black, revoked>>
    BY <1>2 DEF VerifyEmail, Unsuspend, ToggleActive
  <2>2. account' \in [verified : BOOLEAN, suspended : BOOLEAN, active : BOOLEAN, version : Nat]
    <3>1. \/ account' = [account EXCEPT !.verified = TRUE]
          \/ account' = [account EXCEPT !.suspended = FALSE]
          \/ account' = [account EXCEPT !.active = ~account.active]
      BY <1>2 DEF VerifyEmail, Unsuspend, ToggleActive
    <3>2. (~account.active) \in BOOLEAN
      OBVIOUS
    <3>. QED  BY <1>1, <3>1, <3>2
  <2>. QED  BY <1>1, <2>1, <2>2 DEF NoneSpent, Spent
<1>3. CASE \E r \in Revokers : Revoke(r) \/ Suspend(r)
  BY <1>3, RevokeSpendsNone
<1>. QED  BY <1>2, <1>3 DEF Administration, Revokers

\* The revocations under way keep their types.
LEMMA RevokingKept ==
    ASSUME SessionInv, RevokingShapes, NEW r \in Revokers, NEW q \in RevocationRecord,
           q.left \subseteq Tokens, issued' = issued,
           revoking' = [revoking EXCEPT ![r] = q]
    PROVE  RevokingShapes'
<1>1. Tokens' = Tokens
  BY DEF Tokens
<1>. QED  BY <1>1 DEF RevokingShapes

LEMMA UnaskedKept ==
    ASSUME SessionInv, RevokingShapes, NEW t \in Tabs, revoking' = Unasked(t), issued' = issued
    PROVE  RevokingShapes'
<1>1. t \in Revokers /\ revoking[t] \in RevocationRecord /\ revoking[t].left \subseteq Tokens
  BY DEF RevokingShapes, Revokers
<1>2. NoRevocation \in RevocationRecord /\ NoRevocation.left = {}
  BY DEF NoRevocation, RevocationRecord
<1>3. LET q == [revoking[t] EXCEPT !.asks = "nobody"]
      IN  q \in RevocationRecord /\ q.left = revoking[t].left
  BY <1>1 DEF RevocationRecord
<1>4. \/ revoking' = [revoking EXCEPT ![t] = NoRevocation]
      \/ revoking' = [revoking EXCEPT ![t] = [revoking[t] EXCEPT !.asks = "nobody"]]
  BY DEF Unasked
<1>. QED  BY <1>1, <1>2, <1>3, <1>4, RevokingKept

LEMMA RevocationKept ==
    ASSUME SessionInv, RevokingShapes, NEW r \in Revokers,
           \/ \E asks \in {"nobody", "password", "reset"} : ReadVersion(r, asks)
           \/ Revoke(r) \/ Suspend(r)
    PROVE  RevokingShapes'
<1>1. /\ revoking[r] \in RevocationRecord /\ revoking[r].left \subseteq Tokens
      /\ account.version \in Nat
  BY DEF RevokingShapes, SessionInv, SessionShapes
<1>2. NoRevocation \in RevocationRecord /\ NoRevocation.left = {}
  BY DEF NoRevocation, RevocationRecord
<1>3. ASSUME NEW asks \in {"nobody", "password", "reset"}, ReadVersion(r, asks)
      PROVE  RevokingShapes'
  <2>1. PICK v \in Nat : v = account.version
    BY <1>1
  <2> DEFINE q == [stage |-> "read", asks |-> asks, version |-> v, left |-> {}]
  <2>2. q \in RevocationRecord /\ q.left = {}
    BY DEF RevocationRecord
  <2>3. revoking' = [revoking EXCEPT ![r] = q] /\ issued' = issued
    BY <1>3, <2>1 DEF ReadVersion, tokenVars
  <2>. HIDE DEF q
  <2>. QED  BY <2>2, <2>3, RevokingKept
<1>4. CASE ListTokens(r)
  <2>1. PICK left \in SUBSET Tokens : left = Tokens \ black
    OBVIOUS
  <2> DEFINE q == [revoking[r] EXCEPT !.stage = "listed", !.left = left]
  <2>2. q \in RevocationRecord /\ q.left = left
    BY <1>1, TokensAreNumbers DEF RevocationRecord
  <2>3. revoking' = [revoking EXCEPT ![r] = q] /\ issued' = issued
    BY <1>1, <1>4, <2>1 DEF ListTokens, tokenVars, RevocationRecord, RevokingShapes
  <2>. HIDE DEF q
  <2>. QED  BY <2>2, <2>3, RevokingKept
<1>5. CASE BlacklistNext(r)
  <2>1. PICK n \in revoking[r].left :
           /\ revoking' = [revoking EXCEPT ![r].left = @ \ {n}] /\ issued' = issued
    BY <1>5 DEF BlacklistNext
  <2>2. PICK left : left = revoking[r].left \ {n}
    OBVIOUS
  <2> DEFINE q == [revoking[r] EXCEPT !.left = left]
  <2>3. q \in RevocationRecord /\ q.left = left /\ left \subseteq Tokens
    BY <1>1, <2>2 DEF RevocationRecord
  <2>4. revoking' = [revoking EXCEPT ![r] = q]
    BY <2>1, <2>2 DEF RevokingShapes
  <2>. HIDE DEF q
  <2>. QED  BY <2>1, <2>3, <2>4, RevokingKept
<1>6. CASE WriteVersion(r)
  <2>1. LET q == [revoking[r] EXCEPT !.stage = "done"]
        IN  q \in RevocationRecord /\ q.left = revoking[r].left
    BY <1>1 DEF RevocationRecord
  <2>2. /\ issued' = issued
        /\ \/ revoking' = [revoking EXCEPT ![r] = NoRevocation]
           \/ revoking' = [revoking EXCEPT ![r] = [revoking[r] EXCEPT !.stage = "done"]]
    BY <1>6 DEF WriteVersion
  <2>. QED  BY <1>1, <1>2, <2>1, <2>2, RevokingKept
<1>7. CASE RevocationDies(r) \/ Suspend(r)
  <2>1. revoking' = [revoking EXCEPT ![r] = NoRevocation] /\ issued' = issued
    BY <1>7 DEF RevocationDies, Suspend, tokenVars
  <2>. QED  BY <1>2, <2>1, RevokingKept
<1>. QED  BY <1>3, <1>4, <1>5, <1>6, <1>7 DEF Revoke

\* A token that was not issued before.
LEMMA NewToken ==
    ASSUME SessionInv, NEW v \in Nat, issued' = Append(issued, v)
    PROVE  LET n == Len(issued) + 1
           IN  /\ issued' \in Seq(Nat) /\ Tokens' = Tokens \cup {n} /\ n \in Nat \ {0}
               /\ n \notin Tokens /\ issued'[n] = v
               /\ \A m \in Tokens : issued'[m] = issued[m]
<1>1. issued \in Seq(Nat) /\ Len(issued) \in Nat
  BY DEF SessionInv, SessionShapes
<1>2. Len(issued') = Len(issued) + 1 /\ issued' \in Seq(Nat)
  BY <1>1
<1>3. Tokens' = 1 .. (Len(issued) + 1) /\ Tokens = 1 .. Len(issued)
  BY <1>2 DEF Tokens
<1>4. \A m \in Tokens : issued'[m] = issued[m]
  BY <1>1, <1>3
<1>5. issued'[Len(issued) + 1] = v
  BY <1>1
<1>. QED  BY <1>1, <1>2, <1>3, <1>4, <1>5

-------------------------------------------------------------------------------
(* Sessions: the browser *)

\* A tab's requests of a generation that is over.
LEMMA AgedFlights ==
    ASSUME flights \subseteq FlightRecord, NEW t \in Tabs
    PROVE  /\ NextGeneration(t) \subseteq FlightRecord
           /\ \A g \in NextGeneration(t) :
                 \E f \in flights : /\ g = IF f.tab = t THEN [f EXCEPT !.current = FALSE] ELSE f
                                  /\ g.tab = f.tab /\ g.token = f.token /\ g.phase = f.phase
                                  /\ g.next = f.next /\ (g.waits <=> f.waits)
                                  /\ IF f.tab = t THEN ~g.current ELSE g = f
<1>1. ASSUME NEW f \in flights
      PROVE  LET g == IF f.tab = t THEN [f EXCEPT !.current = FALSE] ELSE f
             IN  /\ g \in FlightRecord
                 /\ g.tab = f.tab /\ g.token = f.token /\ g.phase = f.phase
                 /\ g.next = f.next /\ (g.waits <=> f.waits)
                 /\ IF f.tab = t THEN ~g.current ELSE g = f
  BY DEF FlightRecord
<1>. QED  BY <1>1 DEF NextGeneration

\* Requests that bring different tokens still do when a generation is over.
LEMMA AgedHolders ==
    ASSUME SessionInv, NEW t \in Tabs, flights' \subseteq NextGeneration(t), LoginsKept
    PROVE  /\ OneHolder'
           /\ \A n : (\E g \in flights' : Brings(g, n)') => \E f \in flights : Brings(f, n)
           /\ \A n, u : Holds(u, n)' => Holds(u, n)
<1>1. flights \subseteq FlightRecord /\ OneHolder
  BY DEF SessionInv, SessionShapes
<1>2. \A g \in flights' :
         \E f \in flights : /\ g = IF f.tab = t THEN [f EXCEPT !.current = FALSE] ELSE f
                          /\ g.phase = f.phase /\ g.next = f.next
  BY <1>1, AgedFlights
<1>3. ASSUME NEW g \in flights', NEW n, g.phase = "rotated" /\ g.next = n
      PROVE  \E f \in flights : /\ Brings(f, n)
                              /\ g = IF f.tab = t THEN [f EXCEPT !.current = FALSE] ELSE f
  BY <1>2, <1>3 DEF Brings
<1>4. \A n, u : Holds(u, n)' => Holds(u, n)
  BY DEF Holds, LoginsKept
<1>5. ASSUME NEW n \in Int, NEW g \in flights', NEW h \in flights',
             g.phase = "rotated" /\ g.next = n, h.phase = "rotated" /\ h.next = n
      PROVE  g = h
  <2>1. PICK f \in flights : /\ Brings(f, n)
                             /\ g = IF f.tab = t THEN [f EXCEPT !.current = FALSE] ELSE f
    BY <1>3, <1>5
  <2>2. PICK e \in flights : /\ Brings(e, n)
                             /\ h = IF e.tab = t THEN [e EXCEPT !.current = FALSE] ELSE e
    BY <1>3, <1>5
  <2>3. f = e
    BY <1>1, <2>1, <2>2 DEF OneHolder
  <2>. QED  BY <2>1, <2>2, <2>3
<1>6. \A g, n : Brings(g, n)' <=> g \in flights' /\ g.phase = "rotated" /\ g.next = n
  BY DEF Brings
<1>7. OneHolder'
  <2>1. ASSUME NEW n \in Int, NEW g \in flights', NEW u \in Tabs, Brings(g, n)', Holds(u, n)'
        PROVE  FALSE
    BY <1>1, <1>3, <1>4, <1>6, <2>1 DEF OneHolder
  <2>2. ASSUME NEW n \in Int, NEW u \in Tabs, NEW w \in Tabs, Holds(u, n)', Holds(w, n)'
        PROVE  u = w
    BY <1>1, <1>4, <2>2 DEF OneHolder
  <2>. QED  BY <1>5, <1>6, <2>1, <2>2 DEF OneHolder
<1>. QED  BY <1>3, <1>4, <1>6, <1>7

\* The browser stores no session any more.
LEMMA SessionCleared ==
    ASSUME SessionInv, NoneSpent, NEW t \in Tabs, stored' = 0, lost' = FALSE,
           flights' \subseteq NextGeneration(t), posts' \subseteq posts \cup ({stored} \ {0}),
           tab' \in [Tabs -> TabRecord], LoginsKept
    PROVE  SessionInv'
<1>1. SessionShapes /\ ComingUnseen
  BY DEF SessionInv
<1>2. /\ Tokens' = Tokens /\ issued' = issued
      /\ account' \in [verified : BOOLEAN, suspended : BOOLEAN, active : BOOLEAN, version : Nat]
      /\ black' \subseteq Tokens /\ \A n \in Tokens : Spent(n)' => Spent(n)
  BY DEF NoneSpent, Tokens
<1>3. Tokens \subseteq Nat \ {0}
  BY <1>1, TokenNumbers DEF SessionShapes
<1>4. /\ flights' \subseteq FlightRecord
      /\ \A g \in flights' : \E f \in flights : g.token = f.token
  BY <1>1, AgedFlights DEF SessionShapes
<1>5. SessionShapes'
  <2>1. posts' \subseteq Tokens \ {0}
    BY <1>1, <1>3 DEF SessionShapes
  <2>. QED  BY <1>1, <1>2, <1>4, <2>1 DEF SessionShapes
<1>6. /\ OneHolder'
      /\ \A n : (\E g \in flights' : Brings(g, n)') => \E f \in flights : Brings(f, n)
      /\ \A n, u : Holds(u, n)' => Holds(u, n)
  BY AgedHolders
<1>7. ComingUnseen'
  <2> SUFFICES ASSUME NEW n \in Int,
                      (\E f \in flights' : Brings(f, n)') \/ (\E u \in Tabs : Holds(u, n)')
               PROVE  Unseen(n)'
    BY DEF ComingUnseen
  <2>1. Unseen(n)
    BY <1>1, <1>6 DEF ComingUnseen
  <2>. QED  BY <1>2, <1>3, <1>4, <2>1 DEF Unseen
<1>8. OldFlights' /\ StoredSpent'
  BY <1>1, <1>3, <1>4 DEF OldFlights, StoredSpent, SessionShapes
<1>. QED  BY <1>2, <1>5, <1>6, <1>7, <1>8 DEF SessionInv

\* The browser keeps what it stores; a request that was waited for is given up with a
\* note, and one that starts or goes on is for the stored token or one before it.
LEMMA SessionKept ==
    ASSUME SessionInv, NoneSpent, stored' = stored, posts' \subseteq posts, lost' \in BOOLEAN,
           lost => lost', tab' \in [Tabs -> TabRecord], LoginsKept,
           flights' \subseteq FlightRecord,
           \A g \in flights' : \/ g \in flights
                              \/ /\ g.phase # "rotated" /\ g.token \in Tokens
                                 /\ g.token = stored \/ \E f \in flights : g.token = f.token
                                 /\ g.token = stored => IF g.waits THEN g.current ELSE lost',
           stored # 0 => \A f \in flights :
              f.token = stored /\ f.waits =>
                 lost' \/ \E g \in flights' : g.token = stored /\ g.waits
    PROVE  SessionInv'
<1>1. SessionShapes /\ ComingUnseen /\ OneHolder /\ OldFlights /\ StoredSpent
  BY DEF SessionInv
<1>2. /\ Tokens' = Tokens /\ issued' = issued
      /\ account' \in [verified : BOOLEAN, suspended : BOOLEAN, active : BOOLEAN, version : Nat]
      /\ black' \subseteq Tokens /\ \A n \in Tokens : Spent(n)' => Spent(n)
  BY DEF NoneSpent, Tokens
<1>3. SessionShapes'
  BY <1>1, <1>2 DEF SessionShapes
<1>4. \A g, n : Brings(g, n)' => Brings(g, n)
  BY DEF Brings
<1>5. \A n, u : Holds(u, n)' => Holds(u, n)
  BY DEF Holds, LoginsKept
<1>6. OneHolder'
  <2>1. \A g : g \in flights' /\ ~(g \in flights) => \A n : ~Brings(g, n)'
    BY <1>4 DEF Brings
  <2>. QED  BY <1>1, <1>4, <1>5, <2>1 DEF OneHolder
<1>7. ComingUnseen'
  <2> SUFFICES ASSUME NEW n \in Int,
                      (\E f \in flights' : Brings(f, n)') \/ (\E u \in Tabs : Holds(u, n)')
               PROVE  Unseen(n)'
    BY DEF ComingUnseen
  <2>1. Unseen(n)
    BY <1>1, <1>4, <1>5 DEF ComingUnseen, Brings
  <2>2. \A f \in flights' : f.token # n
    BY <2>1 DEF Unseen
  <2>. QED  BY <1>2, <2>1, <2>2 DEF Unseen
<1>8. OldFlights'
  BY <1>1 DEF OldFlights
<1>9. StoredSpent'
  <2>1. stored # 0 => stored \in Tokens
    BY <1>1 DEF SessionShapes
  <2>2. stored # 0 /\ Spent(stored)' => Spent(stored)
    BY <1>2, <2>1 DEF Spent
  <2>. QED  BY <1>1, <2>2 DEF StoredSpent
<1>. QED  BY <1>2, <1>3, <1>6, <1>7, <1>8, <1>9 DEF SessionInv

\* One tab changes what it keeps, and no token comes with a login.
LEMMA TabMoves ==
    ASSUME tab \in [Tabs -> TabRecord], NEW t \in Tabs, NEW r \in TabRecord,
           tab' = [tab EXCEPT ![t] = r],
           r.task = "login-ok" => tab[t].task = "login-ok" /\ r.carry = tab[t].carry
    PROVE  tab' \in [Tabs -> TabRecord] /\ LoginsKept
<1>1. /\ tab' \in [Tabs -> TabRecord] /\ tab'[t] = r
      /\ \A u \in Tabs \ {t} : tab'[u] = tab[u]
  OBVIOUS
<1>. QED  BY <1>1 DEF LoginsKept

\* clearSession keeps the invariant, with a logout request or without.
LEMMA ClearKeeps ==
    ASSUME SessionInv, NoneSpent, NEW t \in Tabs, NEW s \in AUTH_STATUS,
           NEW task \in Tasks, NEW carry \in Int, Clear(t, s, task, carry),
           task = "login-ok" => tab[t].task = "login-ok" /\ carry = tab[t].carry,
           posts' \subseteq posts \cup ({stored} \ {0})
    PROVE  SessionInv'
<1>1. tab \in [Tabs -> TabRecord]
  BY DEF SessionInv, SessionShapes
<1>2. /\ stored' = 0 /\ lost' = FALSE /\ flights' = NextGeneration(t)
      /\ tab' = [tab EXCEPT ![t].access = NoAccess, ![t].fresh = FALSE, ![t].promise = 0,
                            ![t].status = s, ![t].task = task, ![t].carry = carry]
  BY DEF Clear
<1>3. PICK nothing \in Int, none \in Int : nothing = NoAccess /\ none = 0
  BY DEF NoAccess
<1>4. tab' \in [Tabs -> TabRecord] /\ LoginsKept
  <2> DEFINE r == [tab[t] EXCEPT !.access = nothing, !.fresh = FALSE, !.promise = none,
                                 !.status = s, !.task = task, !.carry = carry]
  <2>1. r \in TabRecord /\ r.task = task /\ r.carry = carry
    BY <1>1 DEF TabRecord
  <2>2. tab' = [tab EXCEPT ![t] = r]
    BY <1>1, <1>2, <1>3 DEF TabRecord
  <2>. HIDE DEF r
  <2>. QED  BY <1>1, <2>1, <2>2, TabMoves
<1>. QED  BY <1>2, <1>4, SessionCleared

LEMMA ClearingSteps ==
    ASSUME SessionInv, NEW t \in Tabs,
           \/ Login(t) \/ LoginFailed(t) \/ ProfileRefused(t) \/ Logout(t)
           \/ PasswordChanged(t)
           \/ ProfileLost(t) /\ tab[t].task = "login-me"
    PROVE  SessionInv'
<1>1. /\ tab[t].status \in AUTH_STATUS /\ "anonymous" \in AUTH_STATUS
      /\ tab[t].task \in Tasks /\ tab[t].carry \in Int
  BY DEF SessionInv, SessionShapes, TabRecord, AUTH_STATUS
<1>2. 0 \in Int /\ "login" \in Tasks /\ "idle" \in Tasks
  BY DEF Tasks
<1>3. CASE Login(t)
  BY <1>1, <1>2, <1>3, RestSpendsNone, ClearKeeps DEF Login
<1>4. CASE LoginFailed(t) \/ ProfileRefused(t)
  BY <1>1, <1>2, <1>4, RestSpendsNone, ClearKeeps DEF LoginFailed, ProfileRefused
<1>5. CASE Logout(t)
  BY <1>1, <1>2, <1>5, RestSpendsNone, ClearKeeps DEF Logout
<1>6. CASE PasswordChanged(t)
  BY <1>1, <1>2, <1>6, RestSpendsNone, ClearKeeps DEF PasswordChanged
<1>7. CASE ProfileLost(t) /\ tab[t].task = "login-me"
  BY <1>1, <1>2, <1>7, RestSpendsNone, ClearKeeps DEF ProfileLost
<1>. QED  BY <1>3, <1>4, <1>5, <1>6, <1>7

\* A refused refresh ends the session of the tab that waits for it.
LEMMA RefusedKeeps ==
    ASSUME SessionInv, NEW f \in flights, Refused(f)
    PROVE  SessionInv'
<1>1. tab \in [Tabs -> TabRecord] /\ f.tab \in Tabs
  BY DEF SessionInv, SessionShapes, FlightRecord
<1>2. PICK t \in Tabs : t = f.tab
  BY <1>1
<1>3. PICK nothing \in Int, none \in Int, s \in AUTH_STATUS :
         nothing = NoAccess /\ none = 0 /\ s = "anonymous"
  BY DEF NoAccess, AUTH_STATUS
<1>4. PICK task \in Tasks :
         task = AfterRestore(t, "idle")
  BY <1>1 DEF AfterRestore, TabRecord, Tasks
<1>5. /\ stored' = 0 /\ lost' = FALSE /\ flights' \subseteq NextGeneration(t)
      /\ UNCHANGED <<accountVars, posts>>
      /\ tab' = [tab EXCEPT ![t].access = nothing, ![t].fresh = FALSE, ![t].promise = none,
                            ![t].status = s, ![t].task = task]
  BY <1>2, <1>3, <1>4 DEF Refused
<1> DEFINE r == [tab[t] EXCEPT !.access = nothing, !.fresh = FALSE, !.promise = none,
                               !.status = s, !.task = task]
<1>6. r \in TabRecord /\ r.carry = tab[t].carry /\ r.task = task
  BY <1>1 DEF TabRecord
<1>7. tab' = [tab EXCEPT ![t] = r]
  BY <1>1, <1>5 DEF TabRecord
<1>8. task = "login-ok" => tab[t].task = "login-ok"
  BY <1>4 DEF AfterRestore
<1>. HIDE DEF r
<1>9. tab' \in [Tabs -> TabRecord] /\ LoginsKept
  BY <1>1, <1>6, <1>7, <1>8, TabMoves
<1>. QED  BY <1>5, <1>9, RestSpendsNone, SessionCleared

\* A step of one tab that asks nothing of the refresh requests.
LEMMA TabKeeps ==
    ASSUME SessionInv, NoneSpent, UNCHANGED <<stored, flights, posts, lost>>,
           tab' \in [Tabs -> TabRecord], LoginsKept
    PROVE  SessionInv'
<1>1. lost \in BOOLEAN /\ flights \subseteq FlightRecord
  BY DEF SessionInv, SessionShapes
<1>. QED  BY <1>1, SessionKept

LEMMA TabSteps ==
    ASSUME SessionInv, NEW t \in Tabs,
           \/ Expire(t) \/ ProfileLoaded(t) \/ ChangePassword(t) \/ PasswordServed(t)
           \/ PasswordFailed(t) \/ ResetServed(t) \/ ResetPage(t)
           \/ ProfileLost(t) /\ tab[t].task # "login-me"
           \/ LoginServed(t) /\ UNCHANGED accountVars
    PROVE  SessionInv'
<1>1. tab \in [Tabs -> TabRecord] /\ SessionShapes
  BY DEF SessionInv, SessionShapes
<1>0. PICK none \in Int, nothing \in Int, s \in AUTH_STATUS, s2 \in AUTH_STATUS :
         none = 0 /\ nothing = NoAccess /\ s = "authenticated" /\ s2 = "anonymous"
  BY DEF AUTH_STATUS, NoAccess
<1>2. CASE Expire(t)
  <2>1. tab' = [tab EXCEPT ![t].fresh = FALSE] /\ UNCHANGED <<accountVars, stored, flights, posts, lost>>
    BY <1>2 DEF Expire
  <2>2. tab' \in [Tabs -> TabRecord] /\ LoginsKept
    BY <1>1, <2>1 DEF LoginsKept, TabRecord
  <2>. QED  BY <2>1, <2>2, RestSpendsNone, TabKeeps
<1>3. CASE ProfileLoaded(t)
  <2>1. /\ tab' = [tab EXCEPT ![t].status = s, ![t].task = "idle", ![t].carry = none]
        /\ UNCHANGED <<accountVars, stored, flights, posts, lost>>
    BY <1>0, <1>3 DEF ProfileLoaded
  <2> DEFINE r == [tab[t] EXCEPT !.status = s, !.task = "idle", !.carry = none]
  <2>2. r \in TabRecord /\ r.task # "login-ok"
    BY <1>1 DEF TabRecord, Tasks
  <2>3. tab' = [tab EXCEPT ![t] = r]
    BY <1>1, <2>1 DEF TabRecord
  <2>. HIDE DEF r
  <2>4. tab' \in [Tabs -> TabRecord] /\ LoginsKept
    BY <1>1, <2>2, <2>3, TabMoves
  <2>. QED  BY <2>1, <2>4, RestSpendsNone, TabKeeps
<1>4. CASE ChangePassword(t)
  <2>1. /\ tab' = [tab EXCEPT ![t].task = "password", ![t].carry = tab[t].access]
        /\ UNCHANGED <<accountVars, stored, flights, posts, lost>>
    BY <1>4 DEF ChangePassword
  <2>2. tab' \in [Tabs -> TabRecord] /\ LoginsKept
    BY <1>1, <2>1 DEF LoginsKept, TabRecord, Tasks
  <2>. QED  BY <2>1, <2>2, RestSpendsNone, TabKeeps
<1>5. CASE PasswordServed(t)
  <2>1. /\ tab[t].task = "password" /\ tab' = [tab EXCEPT ![t].carry = nothing]
        /\ UNCHANGED <<tokenVars, stored, flights, posts, lost>>
    BY <1>0, <1>5 DEF PasswordServed, ReadVersion
  <2>2. tab' \in [Tabs -> TabRecord] /\ LoginsKept
    BY <1>1, <2>1 DEF LoginsKept, TabRecord
  <2>. QED  BY <2>1, <2>2, RestSpendsNone, TabKeeps
<1>6. CASE PasswordFailed(t)
  <2>1. /\ tab' = [tab EXCEPT ![t].task = "idle", ![t].carry = none]
        /\ UNCHANGED <<tokenVars, stored, flights, posts, lost>>
    BY <1>0, <1>6 DEF PasswordFailed
  <2>2. tab' \in [Tabs -> TabRecord] /\ LoginsKept
    BY <1>1, <2>1 DEF LoginsKept, TabRecord, Tasks
  <2>. QED  BY <2>1, <2>2, RestSpendsNone, TabKeeps
<1>7. CASE ProfileLost(t) /\ tab[t].task # "login-me"
  <2>1. PICK q \in {s, s2} :
        /\ tab' = [tab EXCEPT ![t].task = "idle", ![t].carry = none, ![t].status = q]
        /\ UNCHANGED <<accountVars, stored, flights, posts, lost>>
    <3>1. (IF tab[t].fresh THEN "authenticated" ELSE "anonymous") \in {s, s2}
      BY <1>0
    <3>. QED  BY <1>0, <1>7, <3>1 DEF ProfileLost
  <2> DEFINE r == [tab[t] EXCEPT !.task = "idle", !.carry = none, !.status = q]
  <2>2. r \in TabRecord /\ r.task # "login-ok"
    BY <1>1 DEF TabRecord, Tasks
  <2>3. tab' = [tab EXCEPT ![t] = r]
    BY <1>1, <2>1 DEF TabRecord
  <2>. HIDE DEF r
  <2>4. tab' \in [Tabs -> TabRecord] /\ LoginsKept
    BY <1>1, <2>2, <2>3, TabMoves
  <2>. QED  BY <2>1, <2>4, RestSpendsNone, TabKeeps
<1>8. CASE LoginServed(t) /\ UNCHANGED accountVars
  <2>1. /\ tab' = [tab EXCEPT ![t].task = "login-no"]
        /\ UNCHANGED <<accountVars, stored, flights, posts, lost>>
    <3>1. ~IssueToken
      <4>1. issued \in Seq(Nat) /\ account.version \in Nat
        BY <1>1 DEF SessionShapes
      <4>2. issued' = issued
        BY <1>8 DEF accountVars, tokenVars
      <4>3. Len(Append(issued, account.version)) # Len(issued)
        BY <4>1
      <4>. QED  BY <4>2, <4>3 DEF IssueToken
    <3>. QED  BY <1>8, <3>1 DEF LoginServed
  <2>2. tab' \in [Tabs -> TabRecord] /\ LoginsKept
    BY <1>1, <2>1 DEF LoginsKept, TabRecord, Tasks
  <2>. QED  BY <2>1, <2>2, RestSpendsNone, TabKeeps
<1>9. CASE ResetServed(t) \/ ResetPage(t)
  <2>1. CASE UNCHANGED <<tokenVars, stored, tab, flights, posts, lost>>
    <3>1. LoginsKept
      BY <2>1 DEF LoginsKept
    <3>. QED  BY <1>1, <2>1, <3>1, RestSpendsNone, TabKeeps
  <2>2. CASE /\ Clear(t, tab[t].status, tab[t].task, tab[t].carry)
             /\ UNCHANGED <<tokenVars, posts>>
    <3>1. PICK s0 \in AUTH_STATUS, task \in Tasks, carry \in Int :
             s0 = tab[t].status /\ task = tab[t].task /\ carry = tab[t].carry
      BY <1>1 DEF TabRecord
    <3>2. Clear(t, s0, task, carry)
      BY <2>2, <3>1
    <3>. QED  BY <2>2, <3>1, <3>2, RestSpendsNone, ClearKeeps
  <2>. QED  BY <1>9, <2>1, <2>2 DEF ResetServed, ResetPage, ReadVersion
<1>. QED  BY <1>2, <1>3, <1>4, <1>5, <1>6, <1>7, <1>8, <1>9

\* Requests that were given up.
LEMMA UnwaitedFlights ==
    ASSUME SessionInv, NEW fs \in SUBSET flights
    PROVE  \A g \in Unwaited(fs) :
              /\ g \in FlightRecord /\ g.phase # "rotated" /\ ~g.waits
              /\ g.token \in Tokens
              /\ \E f \in fs : g.token = f.token /\ g.tab = f.tab
<1>1. SessionShapes
  BY DEF SessionInv
<1>2. ASSUME NEW f \in fs, f.phase \in {"sent", "checked"}
      PROVE  LET g == [f EXCEPT !.waits = FALSE]
             IN  /\ g \in FlightRecord /\ g.phase = f.phase /\ ~g.waits
                 /\ g.token = f.token /\ g.tab = f.tab /\ f.token \in Tokens
  <2>1. f \in flights /\ f \in FlightRecord
    BY <1>1 DEF SessionShapes
  <2>2. [f EXCEPT !.waits = FALSE] \in FlightRecord
    BY <2>1 DEF FlightRecord
  <2>. QED  BY <1>1, <2>1, <2>2 DEF SessionShapes, FlightRecord
<1>. QED  BY <1>2 DEF Unwaited

LEMMA GivenUpNoted ==
    ASSUME SessionInv, NEW fs \in SUBSET flights, lost' = GivenUp(fs)
    PROVE  /\ lost' \in BOOLEAN /\ (lost => lost')
           /\ stored # 0 => \A f \in fs : f.token = stored => lost'
<1>1. lost \in BOOLEAN
  BY DEF SessionInv, SessionShapes
<1>. QED  BY <1>1 DEF GivenUp

\* A request for the stored token.
LEMMA NewFlightFields ==
    ASSUME SessionInv, stored # 0, NEW t \in Tabs
    PROVE  LET g == NewFlight(t)
           IN  /\ g \in FlightRecord /\ g.phase = "sent" /\ g.token = stored
               /\ g.waits /\ g.current /\ g.token \in Tokens
<1>1. stored \in Tokens /\ stored \in Int
  BY TokenNumbers DEF SessionInv, SessionShapes
<1>2. PICK none \in Int : none = 0
  OBVIOUS
<1>3. NewFlight(t) = [tab |-> t, token |-> stored, next |-> none, phase |-> "sent",
                      waits |-> TRUE, current |-> TRUE]
  BY <1>2 DEF NewFlight
<1>. QED  BY <1>1, <1>3 DEF FlightRecord

LEMMA RestoreKeeps ==
    ASSUME SessionInv, NEW t \in Tabs, Restore(t)
    PROVE  SessionInv'
<1> DEFINE mine == {f \in flights : f.tab = t}
           rest == (flights \ mine) \cup Unwaited(mine)
<1>1. SessionShapes
  BY DEF SessionInv
<1>2. /\ lost' = GivenUp(mine) /\ UNCHANGED <<tokenVars, stored, posts>>
      /\ \/ stored = 0 /\ flights' = rest /\ tab' = [tab EXCEPT ![t] = NoSession]
         \/ /\ stored # 0 /\ flights' = rest \cup {NewFlight(t)}
            /\ tab' = [tab EXCEPT ![t] = [NoSession EXCEPT
                           !.status = "initializing", !.promise = stored, !.task = "restore"]]
  BY DEF Restore
<1>3. /\ mine \in SUBSET flights /\ rest = (flights \ mine) \cup Unwaited(mine)
  OBVIOUS
<1>. HIDE DEF mine, rest
<1>4. \A g \in Unwaited(mine) :
         /\ g \in FlightRecord /\ g.phase # "rotated" /\ ~g.waits /\ g.token \in Tokens
         /\ \E f \in mine : g.token = f.token
  BY <1>3, UnwaitedFlights
<1>5. /\ lost' \in BOOLEAN /\ (lost => lost')
      /\ stored # 0 => \A f \in mine : f.token = stored => lost'
  BY <1>2, <1>3, GivenUpNoted
<1>6. stored # 0 =>
         LET g == NewFlight(t)
         IN  /\ g \in FlightRecord /\ g.phase = "sent" /\ g.token = stored
             /\ g.waits /\ g.current /\ g.token \in Tokens
  BY NewFlightFields
<1>7. 0 \notin Tokens /\ stored \in Int
  BY <1>1, TokenNumbers DEF SessionShapes
<1>8. flights' \subseteq FlightRecord
  BY <1>1, <1>2, <1>3, <1>4, <1>6 DEF SessionShapes
<1>9. ASSUME NEW g \in flights', g \notin flights
      PROVE  /\ g.phase # "rotated" /\ g.token \in Tokens
             /\ g.token = stored \/ \E f \in flights : g.token = f.token
             /\ g.token = stored => IF g.waits THEN g.current ELSE lost'
  <2>1. CASE g \in Unwaited(mine)
    <3>1. PICK f \in mine : g.token = f.token
      BY <1>4, <2>1
    <3>2. g.token = stored => stored # 0
      BY <1>4, <1>7, <2>1
    <3>. QED  BY <1>3, <1>4, <1>5, <2>1, <3>1, <3>2
  <2>2. CASE stored # 0 /\ g = NewFlight(t)
    BY <1>6, <2>2
  <2>. QED  BY <1>2, <1>3, <1>9, <2>1, <2>2
<1>10. stored # 0 => \A f \in flights :
          f.token = stored /\ f.waits =>
             lost' \/ \E g \in flights' : g.token = stored /\ g.waits
  BY <1>2, <1>3, <1>5
<1>11. tab' \in [Tabs -> TabRecord] /\ LoginsKept
  <2>1. tab \in [Tabs -> TabRecord]
    BY <1>1 DEF SessionShapes
  <2>2. PICK none \in Int, nothing \in Int : none = 0 /\ nothing = NoAccess
    BY DEF NoAccess
  <2>3. PICK s \in AUTH_STATUS, i \in AUTH_STATUS : s = "anonymous" /\ i = "initializing"
    BY DEF AUTH_STATUS
  <2>4. CASE stored = 0
    <3> DEFINE r == [status |-> s, access |-> nothing, fresh |-> FALSE,
                     promise |-> none, task |-> "idle", carry |-> none]
    <3>1. r \in TabRecord /\ r.task # "login-ok"
      BY DEF TabRecord, Tasks
    <3>2. tab' = [tab EXCEPT ![t] = r]
      BY <1>2, <2>2, <2>3, <2>4 DEF NoSession
    <3>. HIDE DEF r
    <3>. QED  BY <2>1, <3>1, <3>2, TabMoves
  <2>5. CASE stored # 0
    <3> DEFINE r == [status |-> i, access |-> nothing, fresh |-> FALSE,
                     promise |-> stored, task |-> "restore", carry |-> none]
    <3>1. r \in TabRecord /\ r.task # "login-ok"
      BY <1>7 DEF TabRecord, Tasks
    <3>2. tab' = [tab EXCEPT ![t] = r]
      BY <1>2, <2>2, <2>3, <2>5 DEF NoSession
    <3>. HIDE DEF r
    <3>3. \E q \in TabRecord : q.task # "login-ok" /\ tab' = [tab EXCEPT ![t] = q]
      BY <3>1, <3>2
    <3>. QED  BY <2>1, <3>3, TabMoves
  <2>. QED  BY <2>4, <2>5
<1>. QED  BY <1>2, <1>5, <1>8, <1>9, <1>10, <1>11, RestSpendsNone, SessionKept

LEMMA RefreshKeeps ==
    ASSUME SessionInv, NEW t \in Tabs, RefreshSession(t)
    PROVE  SessionInv'
<1>1. SessionShapes
  BY DEF SessionInv
<1>2. /\ stored # 0 /\ tab' = [tab EXCEPT ![t].promise = stored]
      /\ flights' = flights \cup {NewFlight(t)} /\ tab[t].task = "idle"
      /\ UNCHANGED <<accountVars, stored, posts, lost>>
  BY DEF RefreshSession
<1>3. LET g == NewFlight(t)
      IN  /\ g \in FlightRecord /\ g.phase = "sent" /\ g.token = stored
          /\ g.waits /\ g.current /\ g.token \in Tokens
  BY <1>2, NewFlightFields
<1>4. tab' \in [Tabs -> TabRecord] /\ LoginsKept
  <2>1. tab \in [Tabs -> TabRecord] /\ stored \in Int
    BY <1>1, TokenNumbers DEF SessionShapes
  <2> DEFINE r == [tab[t] EXCEPT !.promise = stored]
  <2>2. r \in TabRecord /\ r.task # "login-ok"
    BY <1>2, <2>1 DEF TabRecord
  <2>3. tab' = [tab EXCEPT ![t] = r]
    BY <1>2, <2>1 DEF TabRecord
  <2>. HIDE DEF r
  <2>4. \E q \in TabRecord : q.task # "login-ok" /\ tab' = [tab EXCEPT ![t] = q]
    BY <2>2, <2>3
  <2>. QED  BY <2>1, <2>4, TabMoves
<1>5. flights' \subseteq FlightRecord /\ lost \in BOOLEAN
  BY <1>1, <1>2, <1>3 DEF SessionShapes
<1>. QED  BY <1>2, <1>3, <1>4, <1>5, RestSpendsNone, SessionKept

\* The server reads the account and the token.
LEMMA CheckKeeps ==
    ASSUME SessionInv, NEW f \in flights, Check(f)
    PROVE  SessionInv'
<1>1. SessionShapes /\ OldFlights
  BY DEF SessionInv
<1>2. /\ f.phase = "sent" /\ UNCHANGED <<accountVars, stored, tab, posts, lost>>
      /\ flights' = (flights \ {f}) \cup
            (IF Refreshable(f.token) THEN {[f EXCEPT !.phase = "checked"]}
                                     ELSE Answer(f, "refused", 0))
  BY DEF Check
<1>3. f \in FlightRecord /\ f.token \in Tokens
  BY <1>1 DEF SessionShapes
<1>4. PICK none \in Int : none = 0
  OBVIOUS
<1>5. \E g \in FlightRecord :
         /\ g.phase # "rotated" /\ g.token = f.token
         /\ (g.waits <=> f.waits) /\ (g.current <=> f.current)
         /\ flights' = (flights \ {f}) \cup {g} \/ (~f.waits /\ flights' = flights \ {f})
  <2> DEFINE c == [f EXCEPT !.phase = "checked"]
             r == [f EXCEPT !.phase = "refused", !.next = none]
  <2>1. /\ c \in FlightRecord /\ c.phase # "rotated" /\ c.token = f.token
        /\ (c.waits <=> f.waits) /\ (c.current <=> f.current)
    BY <1>3 DEF FlightRecord
  <2>2. /\ r \in FlightRecord /\ r.phase # "rotated" /\ r.token = f.token
        /\ (r.waits <=> f.waits) /\ (r.current <=> f.current)
    BY <1>3 DEF FlightRecord
  <2>3. \/ flights' = (flights \ {f}) \cup {c}
        \/ flights' = (flights \ {f}) \cup {r}
        \/ ~f.waits /\ flights' = flights \ {f}
    BY <1>2, <1>4 DEF Answer
  <2>. HIDE DEF c, r
  <2>. QED  BY <2>1, <2>2, <2>3
<1>6. PICK g \in FlightRecord :
         /\ g.phase # "rotated" /\ g.token = f.token
         /\ (g.waits <=> f.waits) /\ (g.current <=> f.current)
         /\ flights' = (flights \ {f}) \cup {g} \/ (~f.waits /\ flights' = flights \ {f})
  BY <1>5
<1>7. flights' \subseteq FlightRecord /\ lost \in BOOLEAN /\ tab' \in [Tabs -> TabRecord]
  BY <1>1, <1>2, <1>6 DEF SessionShapes
<1>8. LoginsKept
  BY <1>2 DEF LoginsKept
<1>9. \A h \in flights' : h \in flights \/ h = g
  BY <1>6
<1>10. g.token = stored => IF g.waits THEN g.current ELSE lost'
  BY <1>1, <1>2, <1>6 DEF OldFlights
<1>11. \A h \in flights : h.token = stored /\ h.waits =>
          \E e \in flights' : e.token = stored /\ e.waits
  BY <1>6
<1>. QED  BY <1>2, <1>3, <1>6, <1>7, <1>8, <1>9, <1>10, <1>11, RestSpendsNone, SessionKept

\* The answer of an older generation is dropped.
LEMMA DiscardKeeps ==
    ASSUME SessionInv, NEW f \in flights, Discard(f)
    PROVE  SessionInv'
<1>1. SessionShapes /\ OldFlights
  BY DEF SessionInv
<1>2. /\ f.waits /\ ~f.current /\ flights' = flights \ {f}
      /\ tab' = [tab EXCEPT ![f.tab].task = AfterRestore(f.tab, "idle")]
      /\ UNCHANGED <<accountVars, stored, posts, lost>>
  BY DEF Discard
<1>3. f.token # stored
  BY <1>1, <1>2 DEF OldFlights
<1>4. tab \in [Tabs -> TabRecord] /\ f.tab \in Tabs
  BY <1>1 DEF SessionShapes, FlightRecord
<1>5. PICK t \in Tabs : t = f.tab
  BY <1>4
<1>6. PICK task \in Tasks :
         task = AfterRestore(t, "idle")
  BY <1>4 DEF AfterRestore, TabRecord, Tasks
<1>7. tab' \in [Tabs -> TabRecord] /\ LoginsKept
  <2> DEFINE r == [tab[t] EXCEPT !.task = task]
  <2>1. r \in TabRecord /\ r.carry = tab[t].carry /\ r.task = task
    BY <1>4 DEF TabRecord
  <2>2. tab' = [tab EXCEPT ![t] = r]
    BY <1>2, <1>4, <1>5, <1>6 DEF TabRecord
  <2>3. task = "login-ok" => tab[t].task = "login-ok"
    BY <1>6 DEF AfterRestore
  <2>. HIDE DEF r
  <2>. QED  BY <1>4, <2>1, <2>2, <2>3, TabMoves
<1>8. flights' \subseteq FlightRecord /\ lost \in BOOLEAN
  BY <1>1, <1>2 DEF SessionShapes
<1>. QED  BY <1>2, <1>3, <1>7, <1>8, RestSpendsNone, SessionKept

\* No answer came: the tab gives the request up.
LEMMA FailKeeps ==
    ASSUME SessionInv, NEW f \in flights, Fail(f)
    PROVE  SessionInv'
<1>1. SessionShapes
  BY DEF SessionInv
<1>2. /\ flights' = (flights \ {f}) \cup Unwaited({f}) /\ lost' = GivenUp({f})
      /\ UNCHANGED <<accountVars, stored, posts>>
  BY DEF Fail
<1>3. {f} \in SUBSET flights
  OBVIOUS
<1>4. \A g \in Unwaited({f}) :
         /\ g \in FlightRecord /\ g.phase # "rotated" /\ ~g.waits /\ g.token \in Tokens
         /\ g.token = f.token
  BY <1>3, UnwaitedFlights
<1>5. /\ lost' \in BOOLEAN /\ (lost => lost')
      /\ stored # 0 /\ f.token = stored => lost'
  BY <1>2, <1>3, GivenUpNoted
<1>6. tab \in [Tabs -> TabRecord] /\ f.tab \in Tabs /\ 0 \notin Tokens
  BY <1>1, TokenNumbers DEF SessionShapes, FlightRecord
<1>7. PICK t \in Tabs : t = f.tab
  BY <1>6
<1>8. PICK task \in Tasks :
         task = AfterRestore(t, "idle")
  BY <1>6 DEF AfterRestore, TabRecord, Tasks
<1>9. PICK n \in Int : n = IF f.current THEN 0 ELSE tab[t].promise
  BY <1>6 DEF TabRecord
<1>10. PICK s \in AUTH_STATUS : s = IF tab[t].task = "restore" THEN "anonymous" ELSE tab[t].status
  BY <1>6 DEF TabRecord, AUTH_STATUS
<1>11. tab' = [tab EXCEPT ![t].promise = n, ![t].status = s, ![t].task = task]
  BY <1>6, <1>7, <1>8, <1>9, <1>10 DEF Fail
<1>12. tab' \in [Tabs -> TabRecord] /\ LoginsKept
  <2> DEFINE r == [tab[t] EXCEPT !.promise = n, !.status = s, !.task = task]
  <2>1. r \in TabRecord /\ r.carry = tab[t].carry /\ r.task = task
    BY <1>6 DEF TabRecord
  <2>2. tab' = [tab EXCEPT ![t] = r]
    BY <1>6, <1>11 DEF TabRecord
  <2>3. task = "login-ok" => tab[t].task = "login-ok"
    BY <1>8 DEF AfterRestore
  <2>. HIDE DEF r
  <2>. QED  BY <1>6, <2>1, <2>2, <2>3, TabMoves
<1>13. flights' \subseteq FlightRecord
  BY <1>1, <1>2, <1>4 DEF SessionShapes
<1>14. \A g \in flights' :
          \/ g \in flights
          \/ /\ g.phase # "rotated" /\ g.token \in Tokens
             /\ \E h \in flights : g.token = h.token
             /\ g.token = stored => ~g.waits /\ lost'
  <2>1. \A g \in Unwaited({f}) : g.token = stored => stored # 0 /\ f.token = stored
    BY <1>4, <1>6
  <2>. QED  BY <1>2, <1>4, <1>5, <2>1
<1>15. stored # 0 => \A h \in flights :
          h.token = stored /\ h.waits =>
             lost' \/ \E g \in flights' : g.token = stored /\ g.waits
  BY <1>2, <1>5
<1>. QED  BY <1>2, <1>5, <1>12, <1>13, <1>14, <1>15, RestSpendsNone, SessionKept

-------------------------------------------------------------------------------
(* Sessions: tokens come and are stored *)

\* On its way to the browser.
Coming(n) == (\E f \in flights : Brings(f, n)) \/ (\E t \in Tabs : Holds(t, n))

LEMMA ComingFacts ==
    ASSUME SessionInv
    PROVE  \A n \in Int : Coming(n) => Unseen(n)
  BY DEF SessionInv, ComingUnseen, Coming

\* A token is issued, and those it replaces are used up.
LEMMA IssuedKeeps ==
    ASSUME SessionInv, NEW v \in Nat, issued' = Append(issued, v),
           NEW spent \in SUBSET Tokens, black' = black \cup spent,
           UNCHANGED <<account, revoked, stored, posts, lost>>,
           \A m \in Int : Coming(m) => m \notin spent,
           tab' \in [Tabs -> TabRecord], flights' \subseteq FlightRecord,
           \A g \in flights' : \E f \in flights : g.token = f.token,
           \A m \in Int : Coming(m)' => Coming(m) \/ m = Len(issued) + 1,
           OneHolder', OldFlights', StoredSpent'
    PROVE  SessionInv'
<1>1. SessionShapes
  BY DEF SessionInv
<1>2. PICK n \in Nat \ {0} :
         /\ n = Len(issued) + 1 /\ issued' \in Seq(Nat) /\ Tokens' = Tokens \cup {n}
         /\ n \notin Tokens /\ issued'[n] = v
         /\ \A m \in Tokens : issued'[m] = issued[m]
  BY NewToken
<1>3. /\ stored \in {0} \cup Tokens /\ posts \subseteq Tokens \ {stored} /\ black \subseteq Tokens
      /\ \A f \in flights : f.token \in Tokens
      /\ account \in [verified : BOOLEAN, suspended : BOOLEAN, active : BOOLEAN, version : Nat]
      /\ lost \in BOOLEAN
  BY <1>1 DEF SessionShapes
<1>4. SessionShapes'
  BY <1>2, <1>3 DEF SessionShapes
<1>6. ComingUnseen'
  <2> SUFFICES ASSUME NEW m \in Int, Coming(m)'
               PROVE  Unseen(m)'
    BY DEF ComingUnseen, Coming
  <2>1. CASE m = n
    <3>1. m \notin black'
      BY <1>2, <1>3, <2>1
    <3>. QED  BY <1>2, <1>3, <2>1, <3>1 DEF Unseen, Spent
  <2>2. CASE m # n
    <3>1. Unseen(m) /\ m \notin spent
      BY <1>2, <2>2, ComingFacts
    <3>2. ~Spent(m)'
      BY <1>2, <3>1 DEF Unseen, Spent
    <3>3. \A g \in flights' : g.token # m
      BY <3>1 DEF Unseen
    <3>. QED  BY <1>2, <3>1, <3>2, <3>3 DEF Unseen
  <2>. QED  BY <2>1, <2>2
<1>. QED  BY <1>4, <1>6 DEF SessionInv

\* The server lets the customer in.
LEMMA LoginServedKeeps ==
    ASSUME SessionInv, NEW t \in Tabs, LoginServed(t)
    PROVE  SessionInv'
<1>1. SessionShapes /\ OneHolder /\ OldFlights /\ StoredSpent
  BY DEF SessionInv
<1>2. CASE UNCHANGED accountVars
  BY <1>2, TabSteps
<1>3. CASE ~UNCHANGED accountVars
  <2>1. /\ tab[t].task = "login" /\ issued' = Append(issued, account.version)
        /\ UNCHANGED <<account, black, revoked, stored, flights, posts, lost>>
        /\ tab' = [tab EXCEPT ![t].task = "login-ok", ![t].carry = Len(issued) + 1]
    BY <1>3 DEF LoginServed, IssueToken
  <2>2. PICK v \in Nat : v = account.version
    BY <1>1 DEF SessionShapes
  <2>3. PICK n \in Nat \ {0} :
           /\ n = Len(issued) + 1 /\ issued' \in Seq(Nat) /\ Tokens' = Tokens \cup {n}
           /\ n \notin Tokens /\ \A m \in Tokens : issued'[m] = issued[m]
    BY <2>1, <2>2, NewToken
  <2>4. /\ tab \in [Tabs -> TabRecord] /\ flights \subseteq FlightRecord
        /\ stored \in {0} \cup Tokens
    BY <1>1 DEF SessionShapes
  <2> DEFINE r == [tab[t] EXCEPT !.task = "login-ok", !.carry = n]
  <2>5. r \in TabRecord /\ r.task = "login-ok" /\ r.carry = n
    BY <2>4, n \in Int DEF TabRecord, Tasks
  <2>6. tab' = [tab EXCEPT ![t] = r]
    BY <2>1, <2>3, <2>4 DEF TabRecord
  <2>. HIDE DEF r
  <2>7. /\ tab' \in [Tabs -> TabRecord] /\ tab'[t] = r
        /\ \A u \in Tabs \ {t} : tab'[u] = tab[u]
    BY <2>4, <2>5, <2>6
  <2>8. \A m, g : Brings(g, m)' <=> Brings(g, m)
    BY <2>1 DEF Brings
  <2>9. \A m, u : Holds(u, m)' <=> (u # t /\ Holds(u, m)) \/ (u = t /\ m = n)
    BY <2>1, <2>5, <2>7 DEF Holds
  <2>10. \A m \in Int : Coming(m) => m \in Tokens
    BY ComingFacts DEF Unseen
  <2>11. \A m \in Int : Coming(m)' => Coming(m) \/ m = n
    BY <2>1, <2>8, <2>9 DEF Coming
  <2>12. /\ \A f : ~Brings(f, n) /\ \A u : ~Holds(u, n)
    <3>1. ~Coming(n)
      BY <2>3, <2>10
    <3>. QED  BY <3>1 DEF Coming, Brings, Holds
  <2>13. OneHolder'
    BY <1>1, <2>1, <2>8, <2>9, <2>12 DEF OneHolder
  <2>14. OldFlights' /\ StoredSpent'
    <3>1. stored # 0 /\ Spent(stored)' => Spent(stored)
      BY <2>1, <2>3, <2>4 DEF Spent
    <3>. QED  BY <1>1, <2>1, <3>1 DEF OldFlights, StoredSpent
  <2> DEFINE spent == {}
  <2>15. /\ spent \in SUBSET Tokens /\ black' = black \cup spent
         /\ \A m \in Int : m \notin spent
    BY <2>1
  <2>16. \A g \in flights' : \E f \in flights : g.token = f.token
    BY <2>1
  <2>17. issued' = Append(issued, v)
    BY <2>1, <2>2
  <2>. HIDE DEF spent
  <2>. QED  BY <2>1, <2>3, <2>4, <2>7, <2>11, <2>13, <2>14, <2>15, <2>16, <2>17, IssuedKeeps
<1>. QED  BY <1>2, <1>3

\* The server exchanges a token, and the answer sets out if it is awaited.
LEMMA ExchangeKeeps ==
    ASSUME SessionInv, NEW f \in flights, Exchange(f)
    PROVE  SessionInv'
<1>1. SessionShapes /\ OneHolder /\ OldFlights /\ StoredSpent
  BY DEF SessionInv
<1>2. /\ f \in FlightRecord /\ f.token \in Tokens /\ f.phase = "checked"
      /\ flights \subseteq FlightRecord /\ tab \in [Tabs -> TabRecord] /\ lost \in BOOLEAN
      /\ UNCHANGED <<stored, tab, posts, lost>>
  BY <1>1 DEF SessionShapes, Exchange
<1>3. CASE Rotate(f.token, issued[f.token])
           /\ flights' = (flights \ {f}) \cup Answer(f, "rotated", Len(issued) + 1)
  <2>1. /\ f.token \notin black /\ black' = black \cup {f.token}
        /\ UNCHANGED <<account, revoked>>
        /\ issued' = Append(issued, issued[f.token])
    BY <1>3 DEF Rotate
  <2>2. PICK v \in Nat : v = issued[f.token]
    BY <1>1, <1>2, TokenNumbers DEF SessionShapes
  <2>3. PICK n \in Nat \ {0} :
           /\ n = Len(issued) + 1 /\ issued' \in Seq(Nat) /\ Tokens' = Tokens \cup {n}
           /\ n \notin Tokens /\ \A m \in Tokens : issued'[m] = issued[m]
    BY <2>1, <2>2, NewToken
  <2> DEFINE g == [f EXCEPT !.phase = "rotated", !.next = n]
  <2>4. /\ g \in FlightRecord /\ g.phase = "rotated" /\ g.next = n /\ g.token = f.token
        /\ (g.waits <=> f.waits) /\ (g.current <=> f.current)
    BY <1>2, n \in Int DEF FlightRecord
  <2>5. flights' = (flights \ {f}) \cup (IF f.waits THEN {g} ELSE {})
    BY <1>3, <2>3 DEF Answer
  <2>. HIDE DEF g
  <2>6. \A h, m : Brings(h, m)' => Brings(h, m) \/ (h = g /\ m = n)
    BY <2>4, <2>5 DEF Brings
  <2>7. \A u, m : Holds(u, m)' <=> Holds(u, m)
    BY <1>2 DEF Holds
  <2>8. \A m \in Int : Coming(m) => m \in Tokens /\ m # f.token
    BY ComingFacts DEF Unseen
  <2>9. \A m \in Int : Coming(m)' => Coming(m) \/ m = n
    BY <2>6, <2>7 DEF Coming, Brings
  <2>10. \A h : ~Brings(h, n) /\ \A u : ~Holds(u, n)
    <3>1. ~Coming(n)
      BY <2>3, <2>8
    <3>. QED  BY <3>1 DEF Coming, Brings, Holds
  <2>11. OneHolder'
    <3>1. \A h \in flights', m \in Int : Brings(h, m)' => (h \in flights /\ Brings(h, m)) \/ (h = g /\ m = n)
      BY <2>6 DEF Brings
    <3>. QED  BY <1>1, <2>7, <2>10, <3>1 DEF OneHolder
  <2>12. OldFlights'
    BY <1>1, <1>2, <2>4, <2>5 DEF OldFlights
  <2>13. StoredSpent'
    <3>1. stored # 0 /\ stored # f.token /\ Spent(stored)' => Spent(stored)
      BY <1>1, <1>2, <2>1, <2>3 DEF Spent, SessionShapes
    <3>2. CASE stored = f.token
      BY <1>1, <1>2, <2>4, <2>5, <3>2 DEF StoredSpent, OldFlights
    <3>3. CASE stored # f.token
      BY <1>1, <1>2, <2>5, <3>1, <3>3 DEF StoredSpent
    <3>. QED  BY <3>2, <3>3
  <2>14. flights' \subseteq FlightRecord /\ \A h \in flights' : \E e \in flights : h.token = e.token
    BY <1>2, <2>4, <2>5
  <2>15. {f.token} \in SUBSET Tokens /\ \A m \in Int : Coming(m) => m \notin {f.token}
    BY <1>2, <2>8
  <2> DEFINE spent == {f.token}
  <2>16. spent \in SUBSET Tokens /\ black' = black \cup spent /\ \A m \in Int : Coming(m) => m \notin spent
    BY <2>1, <2>15
  <2>. HIDE DEF spent
  <2>17. issued' = Append(issued, v)
    BY <2>1, <2>2
  <2>18. \A m \in Int : Coming(m)' => Coming(m) \/ m = Len(issued) + 1
    BY <2>3, <2>9
  <2>. QED  BY <1>2, <2>1, <2>11, <2>12, <2>13, <2>14, <2>16, <2>17, <2>18, IssuedKeeps
<1>4. CASE /\ f.token \in black /\ UNCHANGED accountVars
           /\ flights' = (flights \ {f}) \cup Answer(f, "refused", 0)
  <2>1. PICK none \in Int : none = 0
    OBVIOUS
  <2> DEFINE g == [f EXCEPT !.phase = "refused", !.next = none]
  <2>2. /\ g \in FlightRecord /\ g.phase # "rotated" /\ g.token = f.token
        /\ (g.waits <=> f.waits) /\ (g.current <=> f.current)
    BY <1>2 DEF FlightRecord
  <2>3. flights' = (flights \ {f}) \cup (IF f.waits THEN {g} ELSE {})
    BY <1>4, <2>1 DEF Answer
  <2>. HIDE DEF g
  <2>4. flights' \subseteq FlightRecord /\ LoginsKept
    BY <1>2, <2>2, <2>3 DEF LoginsKept
  <2>5. \A h \in flights' :
           \/ h \in flights
           \/ /\ h.phase # "rotated" /\ h.token \in Tokens
              /\ \E e \in flights : h.token = e.token
              /\ h.token = stored => IF h.waits THEN h.current ELSE lost'
    BY <1>1, <1>2, <2>2, <2>3 DEF OldFlights
  <2>6. \A h \in flights : h.token = stored /\ h.waits =>
           \E e \in flights' : e.token = stored /\ e.waits
    BY <2>2, <2>3
  <2>. QED  BY <1>2, <1>4, <2>4, <2>5, <2>6, RestSpendsNone, SessionKept
<1>. QED  BY <1>3, <1>4 DEF Exchange

\* The browser stores a token it has not had before.
LEMMA StoreKeeps ==
    ASSUME SessionInv, NEW n \in Int, Unseen(n), stored' = n, lost' = FALSE,
           UNCHANGED <<accountVars, posts>>, tab' \in [Tabs -> TabRecord],
           flights' \subseteq FlightRecord,
           \A g \in flights' : \E f \in flights : g.token = f.token,
           \A m \in Int : Coming(m)' => Coming(m) /\ m # n, OneHolder'
    PROVE  SessionInv'
<1>1. SessionShapes
  BY DEF SessionInv
<1>2. /\ Tokens' = Tokens /\ UNCHANGED <<account, issued, black, revoked, posts>>
  BY DEF Tokens, accountVars, tokenVars
<1>3. /\ n \in Tokens /\ n \notin posts /\ \A g \in flights' : g.token # n
  BY DEF Unseen
<1>4. SessionShapes'
  BY <1>1, <1>2, <1>3 DEF SessionShapes
<1>6. ComingUnseen'
  <2> SUFFICES ASSUME NEW m \in Int, Coming(m)'
               PROVE  Unseen(m)'
    BY DEF ComingUnseen, Coming
  <2>1. Unseen(m) /\ m # n
    BY ComingFacts
  <2>. QED  BY <1>2, <2>1 DEF Unseen, Spent
<1>7. OldFlights' /\ StoredSpent'
  <2>1. ~Spent(n)
    BY DEF Unseen
  <2>. QED  BY <1>2, <1>3, <2>1 DEF OldFlights, StoredSpent, Spent
<1>. QED  BY <1>4, <1>6, <1>7 DEF SessionInv

\* The token that came with the login is stored.
LEMMA LoggedInKeeps ==
    ASSUME SessionInv, NEW t \in Tabs, LoggedIn(t)
    PROVE  SessionInv'
<1>1. /\ SessionShapes /\ OneHolder /\ flights \subseteq FlightRecord
      /\ tab \in [Tabs -> TabRecord]
  BY DEF SessionInv, SessionShapes
<1>2. PICK n \in Int : n = tab[t].carry
  BY <1>1 DEF TabRecord
<1>3. /\ Holds(t, n) /\ stored' = n /\ lost' = FALSE /\ flights' = NextGeneration(t)
      /\ UNCHANGED <<accountVars, posts>>
      /\ tab' = [tab EXCEPT ![t].access = issued[n], ![t].fresh = TRUE,
                            ![t].task = "login-me", ![t].carry = issued[n]]
  BY <1>2 DEF LoggedIn, Establish, Holds
<1>4. Unseen(n)
  BY <1>3, ComingFacts DEF Coming
<1>5. PICK v \in Int : v = issued[n]
  BY <1>1, <1>4, TokenNumbers DEF SessionShapes, Unseen
<1> DEFINE r == [tab[t] EXCEPT !.access = v, !.fresh = TRUE, !.task = "login-me", !.carry = v]
<1>6. r \in TabRecord /\ r.task = "login-me"
  BY <1>1 DEF TabRecord, Tasks
<1>7. tab' = [tab EXCEPT ![t] = r]
  BY <1>1, <1>3, <1>5 DEF TabRecord
<1>. HIDE DEF r
<1>8. /\ tab' \in [Tabs -> TabRecord] /\ tab'[t] = r /\ LoginsKept
      /\ \A u \in Tabs \ {t} : tab'[u] = tab[u]
  <2>1. tab' \in [Tabs -> TabRecord] /\ LoginsKept
    BY <1>1, <1>6, <1>7, TabMoves
  <2>2. tab'[t] = r /\ \A u \in Tabs \ {t} : tab'[u] = tab[u]
    BY <1>1, <1>7
  <2>. QED  BY <2>1, <2>2
<1>9. /\ OneHolder'
      /\ \A m : (\E g \in flights' : Brings(g, m)') => \E f \in flights : Brings(f, m)
  BY <1>3, <1>8, AgedHolders
<1>10. \A m, u : Holds(u, m)' => u # t /\ Holds(u, m)
  BY <1>6, <1>8 DEF Holds
<1>11. \A m \in Int : Coming(m)' => Coming(m) /\ m # n
  <2> SUFFICES ASSUME NEW m \in Int, Coming(m)'
               PROVE  Coming(m) /\ m # n
    OBVIOUS
  <2>1. (\E f \in flights : Brings(f, m)) \/ (\E u \in Tabs \ {t} : Holds(u, m))
    BY <1>9, <1>10 DEF Coming
  <2>. QED  BY <1>1, <1>3, <2>1 DEF Coming, OneHolder
<1>12. /\ flights' \subseteq FlightRecord
       /\ \A g \in flights' : \E f \in flights : g.token = f.token
  BY <1>1, <1>3, AgedFlights
<1>. QED  BY <1>3, <1>4, <1>8, <1>9, <1>11, <1>12, StoreKeeps

\* The token that replaces the one exchanged is stored.
LEMMA TakeKeeps ==
    ASSUME SessionInv, NEW f \in flights, Take(f)
    PROVE  SessionInv'
<1>1. /\ SessionShapes /\ OneHolder /\ flights \subseteq FlightRecord
      /\ tab \in [Tabs -> TabRecord] /\ f \in FlightRecord
  BY DEF SessionInv, SessionShapes
<1>2. PICK n \in Int, t \in Tabs : n = f.next /\ t = f.tab
  BY <1>1 DEF FlightRecord
<1>3. /\ Brings(f, n) /\ stored' = n /\ lost' = FALSE /\ flights' = flights \ {f}
      /\ UNCHANGED <<accountVars, posts>>
  BY <1>2 DEF Take, Brings
<1>4. Unseen(n)
  BY <1>3, ComingFacts DEF Coming
<1>5. PICK v \in Int : v = issued[n]
  BY <1>1, <1>4, TokenNumbers DEF SessionShapes, Unseen
<1>6. PICK none \in Int : none = 0
  OBVIOUS
<1>7. PICK task \in Tasks :
         task = AfterRestore(t, "restore-me")
  BY <1>1 DEF AfterRestore, TabRecord, Tasks
<1>8. PICK c \in Int : c = IF tab[t].task = "restore" THEN v ELSE tab[t].carry
  BY <1>1 DEF TabRecord
<1> DEFINE r == [tab[t] EXCEPT !.access = v, !.fresh = TRUE, !.promise = none,
                               !.task = task, !.carry = c]
<1>9. r \in TabRecord /\ r.task = task /\ r.carry = c
  BY <1>1 DEF TabRecord
<1>10. tab' = [tab EXCEPT ![t] = r]
  <2>1. tab' = [tab EXCEPT ![t].access = v, ![t].fresh = TRUE, ![t].promise = none,
                           ![t].task = task, ![t].carry = c]
    BY <1>2, <1>5, <1>6, <1>7, <1>8 DEF Take
  <2>. QED  BY <1>1, <2>1 DEF TabRecord
<1>. HIDE DEF r
<1>11. task = "login-ok" => tab[t].task = "login-ok" /\ c = tab[t].carry
  BY <1>7, <1>8 DEF AfterRestore
<1>12. tab' \in [Tabs -> TabRecord] /\ LoginsKept
  BY <1>1, <1>9, <1>10, <1>11, TabMoves
<1>13. \A m, g : Brings(g, m)' => Brings(g, m) /\ g # f
  BY <1>3 DEF Brings
<1>14. \A m, u : Holds(u, m)' => Holds(u, m)
  BY <1>12 DEF Holds, LoginsKept
<1>15. OneHolder'
  <2>1. \A g \in flights' : g \in flights
    BY <1>3
  <2>. QED  BY <1>1, <1>13, <1>14, <2>1 DEF OneHolder
<1>16. \A m \in Int : Coming(m)' => Coming(m) /\ m # n
  <2> SUFFICES ASSUME NEW m \in Int, Coming(m)'
               PROVE  Coming(m) /\ m # n
    OBVIOUS
  <2>1. (\E g \in flights \ {f} : Brings(g, m)) \/ (\E u \in Tabs : Holds(u, m))
    BY <1>3, <1>13, <1>14 DEF Coming
  <2>. QED  BY <1>1, <1>3, <2>1 DEF Coming, OneHolder
<1>17. /\ flights' \subseteq FlightRecord
       /\ \A g \in flights' : \E h \in flights : g.token = h.token
  BY <1>1, <1>3
<1>. QED  BY <1>3, <1>4, <1>12, <1>15, <1>16, <1>17, StoreKeeps

\* The server hears of a logout.
LEMMA LogoutServedKeeps ==
    ASSUME SessionInv, NEW n \in Tokens, LogoutServed(n)
    PROVE  SessionInv'
<1>1. SessionShapes /\ OneHolder /\ OldFlights /\ StoredSpent
  BY DEF SessionInv
<1>2. /\ n \in posts /\ posts' = posts \ {n} /\ black' = black \cup {n}
      /\ UNCHANGED <<account, issued, revoked, stored, tab, flights, lost>> /\ Tokens' = Tokens
  BY DEF LogoutServed, Blacklist, Tokens
<1>3. n # stored
  BY <1>1, <1>2 DEF SessionShapes
<1>4. SessionShapes'
  BY <1>1, <1>2 DEF SessionShapes
<1>5. (\A g, m : Brings(g, m)' <=> Brings(g, m)) /\ (\A u, m : Holds(u, m)' <=> Holds(u, m))
  BY <1>2 DEF Brings, Holds
<1>6. ComingUnseen'
  <2> SUFFICES ASSUME NEW m \in Int, Coming(m)'
               PROVE  Unseen(m)'
    BY DEF ComingUnseen, Coming
  <2>1. Unseen(m)
    BY <1>2, <1>5, ComingFacts DEF Coming
  <2>. QED  BY <1>2, <2>1 DEF Unseen, Spent
<1>7. OneHolder' /\ OldFlights'
  BY <1>1, <1>2, <1>5 DEF OneHolder, OldFlights
<1>8. StoredSpent'
  BY <1>1, <1>2, <1>3 DEF StoredSpent, Spent
<1>. QED  BY <1>4, <1>6, <1>7, <1>8 DEF SessionInv

-------------------------------------------------------------------------------
(* Sessions: the theorems *)

LEMMA SessionInitially == Init => SessionInv
<1> SUFFICES ASSUME Init PROVE SessionInv
  OBVIOUS
<1>1. /\ account = [verified |-> FALSE, suspended |-> FALSE, active |-> TRUE, version |-> 0]
      /\ issued = <<>> /\ black = {} /\ stored = 0 /\ tab = [t \in Tabs |-> NoSession]
      /\ flights = {} /\ posts = {} /\ lost = FALSE
  BY DEF Init, AccountsInit
<1>2. Tokens = {} /\ issued \in Seq(Nat)
  BY <1>1 DEF Tokens
<1>3. NoSession \in TabRecord /\ NoSession.task = "idle"
  BY DEF NoSession, TabRecord, Tasks, NoAccess, AUTH_STATUS
<1>4. SessionShapes
  BY <1>1, <1>2, <1>3 DEF SessionShapes
<1>6. (\A f, n : ~Brings(f, n)) /\ \A t, n : ~Holds(t, n)
  BY <1>1, <1>3 DEF Brings, Holds
<1>7. ComingUnseen /\ OneHolder
  BY <1>6 DEF ComingUnseen, OneHolder
<1>8. OldFlights /\ StoredSpent
  BY <1>1 DEF OldFlights, StoredSpent
<1>. QED  BY <1>4, <1>7, <1>8 DEF SessionInv

LEMMA SessionStep == SessionInv /\ RevokingShapes /\ [Next]_vars => SessionInv'
<1> SUFFICES ASSUME SessionInv, RevokingShapes, [Next]_vars PROVE SessionInv'
  OBVIOUS
<1>1. CASE AdministrationStep \/ UNCHANGED vars
  <2>1. /\ UNCHANGED <<stored, tab, flights, posts, lost>>
        /\ UNCHANGED tokenVars \/ Administration
    BY <1>1 DEF AdministrationStep, ReadVersion, vars, accountVars
  <2>2. tab' \in [Tabs -> TabRecord] /\ LoginsKept
    BY <2>1 DEF SessionInv, SessionShapes, LoginsKept
  <2>. QED  BY <2>1, <2>2, RestSpendsNone, AdministrationSpendsNone, TabKeeps
<1>2. ASSUME NEW t \in Tabs,
             \/ Restore(t) \/ Expire(t) \/ RefreshSession(t)
             \/ Login(t) \/ LoginServed(t) \/ LoggedIn(t) \/ LoginFailed(t)
             \/ ProfileAnswered(t) \/ Logout(t) \/ ResetServed(t) \/ ResetPage(t)
             \/ ChangePassword(t) \/ PasswordServed(t) \/ PasswordChanged(t)
             \/ PasswordFailed(t)
      PROVE  SessionInv'
  <2>1. CASE Restore(t) \/ RefreshSession(t) \/ LoginServed(t) \/ LoggedIn(t)
    BY <2>1, RestoreKeeps, RefreshKeeps, LoginServedKeeps, LoggedInKeeps
  <2>2. CASE \/ Expire(t) \/ ChangePassword(t) \/ PasswordServed(t) \/ PasswordFailed(t)
             \/ ProfileLoaded(t) \/ ResetServed(t) \/ ResetPage(t)
             \/ ProfileLost(t) /\ tab[t].task # "login-me"
    BY <2>2, TabSteps
  <2>3. CASE \/ Login(t) \/ LoginFailed(t) \/ Logout(t) \/ PasswordChanged(t)
             \/ ProfileRefused(t)
             \/ ProfileLost(t) /\ tab[t].task = "login-me"
    BY <2>3, ClearingSteps
  <2>. QED  BY <1>2, <2>1, <2>2, <2>3 DEF ProfileAnswered
<1>3. ASSUME NEW f \in flights, Check(f) \/ Exchange(f) \/ RefreshAnswered(f)
      PROVE  SessionInv'
  BY <1>3, CheckKeeps, ExchangeKeeps, TakeKeeps, DiscardKeeps, RefusedKeeps, FailKeeps
     DEF RefreshAnswered
<1>. QED  BY <1>1, <1>2, <1>3, LogoutServedKeeps DEF Next

\* The tokens of a revocation were issued.
LEMMA RevokingUnmoved ==
    ASSUME SessionInv, RevokingShapes, revoking' = revoking,
           issued' = issued \/ \E v \in Nat : issued' = Append(issued, v)
    PROVE  RevokingShapes'
<1>1. Tokens \subseteq Tokens'
  BY NewToken DEF Tokens
<1>. QED  BY <1>1 DEF RevokingShapes

LEMMA RevokingStep == SessionInv /\ RevokingShapes /\ [Next]_vars => RevokingShapes'
<1> SUFFICES ASSUME SessionInv, RevokingShapes, [Next]_vars PROVE RevokingShapes'
  OBVIOUS
<1>1. issued \in Seq(Nat) /\ account.version \in Nat /\ \A f \in flights : f.token \in Tokens
  BY DEF SessionInv, SessionShapes
<1>2. CASE AdministrationStep
  <2>1. CASE VerifyEmail \/ Unsuspend \/ ToggleActive
    BY <2>1, RevokingUnmoved DEF VerifyEmail, Unsuspend, ToggleActive
  <2>2. CASE \E r \in Revokers : ReadVersion(r, "nobody") \/ Revoke(r) \/ Suspend(r)
    BY <2>2, RevocationKept
  <2>. QED  BY <1>2, <2>1, <2>2 DEF AdministrationStep, Administration, Revokers
<1>3. ASSUME NEW t \in Tabs,
             \/ Restore(t) \/ PasswordServed(t) \/ PasswordChanged(t) \/ PasswordFailed(t)
             \/ ResetServed(t) \/ ResetPage(t)
      PROVE  RevokingShapes'
  <2>1. CASE PasswordServed(t) \/ ResetServed(t)
    BY <2>1, RevocationKept DEF PasswordServed, ResetServed, Revokers
  <2>2. CASE Restore(t) \/ PasswordChanged(t) \/ PasswordFailed(t) \/ ResetPage(t)
    <3>1. revoking' = Unasked(t) /\ issued' = issued
      BY <2>2 DEF Restore, PasswordChanged, PasswordFailed, ResetPage, tokenVars
    <3>. QED  BY <3>1, UnaskedKept
  <2>. QED  BY <1>3, <2>1, <2>2
<1>4. ASSUME NEW t \in Tabs, LoginServed(t)
      PROVE  RevokingShapes'
  <2>1. UNCHANGED accountVars \/ (revoking' = revoking /\ issued' = Append(issued, account.version))
    BY <1>4 DEF LoginServed, IssueToken
  <2>. QED  BY <1>1, <2>1, RevokingUnmoved DEF accountVars, tokenVars
<1>5. ASSUME NEW f \in flights, Exchange(f)
      PROVE  RevokingShapes'
  <2>1. \/ UNCHANGED accountVars
        \/ revoking' = revoking /\ issued' = Append(issued, issued[f.token])
    BY <1>5 DEF Exchange, Rotate
  <2>2. issued[f.token] \in Nat
    BY <1>1, TokenNumbers
  <2>. QED  BY <2>1, <2>2, RevokingUnmoved DEF accountVars, tokenVars
<1>6. ASSUME NEW t \in Tabs,
             \/ Expire(t) \/ RefreshSession(t) \/ Login(t) \/ LoggedIn(t) \/ LoginFailed(t)
             \/ ProfileAnswered(t) \/ Logout(t) \/ ChangePassword(t)
      PROVE  revoking' = revoking /\ issued' = issued
  BY <1>6 DEF Expire, RefreshSession, Login, LoggedIn, LoginFailed, ProfileAnswered,
              ProfileLoaded, ProfileRefused, ProfileLost, Logout, ChangePassword,
              accountVars, tokenVars
<1>7. ASSUME NEW f \in flights, Check(f) \/ RefreshAnswered(f)
      PROVE  revoking' = revoking /\ issued' = issued
  BY <1>7 DEF Check, RefreshAnswered, Take, Discard, Refused, Fail, accountVars, tokenVars
<1>8. ASSUME UNCHANGED vars \/ \E n \in Tokens : LogoutServed(n)
      PROVE  revoking' = revoking /\ issued' = issued
  BY <1>8 DEF vars, LogoutServed, Blacklist, accountVars, tokenVars
<1>. QED  BY <1>2, <1>3, <1>4, <1>5, <1>6, <1>7, <1>8, RevokingUnmoved DEF Next

THEOREM SessionInvariance == Spec => [](SessionInv /\ RevokingShapes)
<1>1. Init => SessionInv /\ RevokingShapes
  BY SessionInitially DEF Init, AccountsInit, RevokingShapes, RevocationRecord, NoRevocation
<1>2. SessionInv /\ RevokingShapes /\ [Next]_vars => (SessionInv /\ RevokingShapes)'
  BY SessionStep, RevokingStep
<1>. QED  BY <1>1, <1>2, PTL DEF Spec

\* With any number of tabs, tokens and requests, and however answers, reloads, logins
\* and revocations cross: the browser stores no token it has used up itself.
THEOREM TokenLives == Spec => []StoredTokenIsLive
  BY SessionInvariance, SessionInvEnough, PTL

-------------------------------------------------------------------------------
(* Sessions: what is held between a logout and the next login *)

\* No tab gains access, and no request becomes current, where nothing is stored.
LEMMA HeldKept ==
    ASSUME NothingHeld, UNCHANGED <<stored, signedOut, apart>>,
           stored = 0 => /\ \A t \in Tabs : tab'[t].access \in {tab[t].access, NoAccess}
                        /\ \A g \in flights' : Awaited(g) =>
                              \E f \in flights : f.tab = g.tab /\ Awaited(f)
    PROVE  NothingHeld'
  BY DEF NothingHeld, Awaited

\* What the other tabs keep when one has cleared the session is noted.
LEMMA HeldCleared ==
    ASSUME SessionInv, NEW t \in Tabs, stored' = 0, apart' = Apart(t),
           tab'[t].access = NoAccess, \A u \in Tabs \ {t} : tab'[u].access = tab[u].access,
           flights' \subseteq NextGeneration(t)
    PROVE  NothingHeld'
<1>1. flights \subseteq FlightRecord
  BY DEF SessionInv, SessionShapes
<1>2. ASSUME NEW u \in Tabs, u \notin Apart(t)
      PROVE  /\ tab'[u].access = NoAccess
             /\ \A g \in flights' : g.tab = u => ~Awaited(g)
  <2>1. tab'[u].access = NoAccess
    BY <1>2 DEF Apart
  <2>2. ASSUME NEW g \in flights', g.tab = u
        PROVE  ~Awaited(g)
    <3>1. PICK f \in flights : /\ g.tab = f.tab /\ IF f.tab = t THEN ~g.current ELSE g = f
      BY <1>1, AgedFlights
    <3>. QED  BY <1>2, <2>2, <3>1 DEF Apart, Awaited
  <2>. QED  BY <2>1, <2>2
<1>. QED  BY <1>2 DEF NothingHeld, Awaited

LEMMA ClearHolds ==
    ASSUME SessionInv, NEW t \in Tabs, NEW s, NEW task, NEW carry, Clear(t, s, task, carry)
    PROVE  NothingHeld'
<1>1. tab \in [Tabs -> TabRecord]
  BY DEF SessionInv, SessionShapes
<1>2. /\ stored' = 0 /\ flights' = NextGeneration(t) /\ apart' = Apart(t)
      /\ tab' = [tab EXCEPT ![t].access = NoAccess, ![t].fresh = FALSE, ![t].promise = 0,
                            ![t].status = s, ![t].task = task, ![t].carry = carry]
  BY DEF Clear
<1>3. tab'[t].access = NoAccess /\ \A u \in Tabs \ {t} : tab'[u] = tab[u]
  BY <1>1, <1>2 DEF TabRecord
<1>. QED  BY <1>2, <1>3, HeldCleared

\* The page is loaded: the tab has nothing, and asks only for what is stored.
LEMMA RestoreHolds ==
    ASSUME SessionInv, NothingHeld, NEW t \in Tabs, Restore(t)
    PROVE  NothingHeld'
<1> DEFINE mine == {f \in flights : f.tab = t}
           rest == (flights \ mine) \cup Unwaited(mine)
<1>1. tab \in [Tabs -> TabRecord] /\ flights \subseteq FlightRecord
  BY DEF SessionInv, SessionShapes
<1>2. /\ UNCHANGED <<stored, signedOut>> /\ apart' = apart \ {t}
      /\ stored = 0 => flights' = rest /\ tab' = [tab EXCEPT ![t] = NoSession]
  BY DEF Restore
<1>3. \A f \in mine : ~[f EXCEPT !.waits = FALSE].waits
  BY <1>1 DEF FlightRecord
<1>4. \A g \in rest : Awaited(g) => g \in flights /\ g.tab # t
  BY <1>3 DEF Unwaited, Awaited
<1>5. ASSUME stored = 0, NEW u \in Tabs, u \notin apart \/ u = t
      PROVE  /\ tab'[u].access = NoAccess
             /\ \A f \in flights' : f.tab = u => ~Awaited(f)
  <2>1. tab'[u].access = NoAccess
    BY <1>1, <1>2, <1>5 DEF NothingHeld, NoSession
  <2>. QED  BY <1>2, <1>4, <1>5, <2>1 DEF NothingHeld
<1>. HIDE DEF mine, rest
<1>. QED  BY <1>2, <1>5 DEF NothingHeld, Awaited

\* Steps of a tab.
LEMMA TabHolds ==
    ASSUME SessionInv, NothingHeld, NEW t \in Tabs,
           \/ Restore(t) \/ Expire(t) \/ RefreshSession(t)
           \/ Login(t) \/ LoginServed(t) \/ LoggedIn(t) \/ LoginFailed(t)
           \/ ProfileAnswered(t) \/ Logout(t) \/ ResetServed(t) \/ ResetPage(t)
           \/ ChangePassword(t) \/ PasswordServed(t) \/ PasswordChanged(t)
           \/ PasswordFailed(t)
    PROVE  NothingHeld'
<1>1. tab \in [Tabs -> TabRecord] /\ flights \subseteq FlightRecord /\ SessionShapes
  BY DEF SessionInv, SessionShapes
<1>2. CASE \/ Login(t) \/ LoginFailed(t) \/ ProfileRefused(t) \/ Logout(t)
           \/ PasswordChanged(t)
           \/ ResetPage(t) /\ ~UNCHANGED <<stored, tab, flights, lost, apart>>
           \/ ProfileLost(t) /\ tab[t].task = "login-me"
  <2>1. \E s, task, carry : Clear(t, s, task, carry)
    BY <1>2 DEF Login, LoginFailed, ProfileRefused, Logout, ResetPage, PasswordChanged, ProfileLost
  <2>. QED  BY <2>1, ClearHolds
<1>3. CASE \/ Expire(t) \/ LoginServed(t) \/ ProfileLoaded(t) \/ ChangePassword(t)
           \/ PasswordServed(t) \/ PasswordFailed(t) \/ ResetServed(t)
           \/ ResetPage(t) /\ UNCHANGED <<stored, tab, flights, lost, apart>>
           \/ ProfileLost(t) /\ tab[t].task # "login-me"
  <2>1. UNCHANGED <<stored, flights, signedOut, apart>>
    BY <1>3 DEF Expire, LoginServed, ProfileLoaded, ChangePassword, PasswordServed,
                PasswordFailed, ResetServed, ResetPage, ProfileLost
  <2>2. \A u \in Tabs : tab'[u].access = tab[u].access
    <3>1. CASE Expire(t)
      <4>1. tab' = [tab EXCEPT ![t].fresh = FALSE]
        BY <3>1 DEF Expire
      <4>. QED  BY <1>1, <4>1 DEF TabRecord
    <3>2. CASE LoginServed(t)
      <4>1. \E task, c : tab' = [tab EXCEPT ![t].task = task, ![t].carry = c]
                         \/ tab' = [tab EXCEPT ![t].task = task]
        BY <3>2 DEF LoginServed
      <4>. QED  BY <1>1, <4>1 DEF TabRecord
    <3>3. CASE ProfileLoaded(t) \/ ChangePassword(t)
      BY <1>1, <3>3 DEF ProfileLoaded, ChangePassword, TabRecord
    <3>4. CASE PasswordServed(t) \/ PasswordFailed(t)
      BY <1>1, <3>4 DEF PasswordServed, PasswordFailed, TabRecord
    <3>5. CASE ProfileLost(t) /\ tab[t].task # "login-me"
      <4>1. PICK s : tab' = [tab EXCEPT ![t].task = "idle", ![t].carry = 0, ![t].status = s]
        BY <3>5 DEF ProfileLost
      <4>. QED  BY <1>1, <4>1 DEF TabRecord
    <3>6. CASE \/ ResetServed(t)
               \/ ResetPage(t) /\ UNCHANGED <<stored, tab, flights, lost, apart>>
      BY <3>6 DEF ResetServed
    <3>. QED  BY <1>3, <3>1, <3>2, <3>3, <3>4, <3>5, <3>6
  <2>. QED  BY <2>1, <2>2, HeldKept
<1>4. CASE LoggedIn(t)
  <2>1. stored' = tab[t].carry /\ signedOut' = FALSE
    BY <1>4 DEF LoggedIn, Establish
  <2>2. tab[t].carry \in Tokens
    <3>1. Holds(t, tab[t].carry) /\ tab[t].carry \in Int
      BY <1>1, <1>4 DEF LoggedIn, Holds, TabRecord
    <3>. QED  BY <3>1, ComingFacts DEF Coming, Unseen
  <2>. QED  BY <1>1, <2>1, <2>2, TokenNumbers DEF NothingHeld, SessionShapes
<1>5. CASE RefreshSession(t)
  <2>1. stored # 0 /\ UNCHANGED <<stored, signedOut, apart>>
    BY <1>5 DEF RefreshSession
  <2>. QED  BY <2>1, HeldKept
<1>6. CASE Restore(t)
  BY <1>6, RestoreHolds
<1>. QED  BY <1>2, <1>3, <1>4, <1>5, <1>6 DEF ProfileAnswered

\* What becomes of a refresh request.
LEMMA RequestHolds ==
    ASSUME SessionInv, NothingHeld, NEW f \in flights,
           Check(f) \/ Exchange(f) \/ RefreshAnswered(f)
    PROVE  NothingHeld'
<1>1. /\ tab \in [Tabs -> TabRecord] /\ flights \subseteq FlightRecord /\ SessionShapes
      /\ f \in FlightRecord /\ f.tab \in Tabs
  BY DEF SessionInv, SessionShapes, FlightRecord
<1>2. PICK t \in Tabs : t = f.tab
  BY <1>1
<1>3. CASE Check(f) \/ Exchange(f)
  <2>1. UNCHANGED <<stored, tab, signedOut, apart>>
    BY <1>3 DEF Check, Exchange
  <2>2. \A p, n : \A g \in Answer(f, p, n) : g.tab = f.tab /\ (Awaited(g) => Awaited(f))
    BY <1>1 DEF Answer, FlightRecord, Awaited
  <2>3. LET g == [f EXCEPT !.phase = "checked"]
        IN  g.tab = f.tab /\ (Awaited(g) => Awaited(f))
    BY <1>1 DEF FlightRecord, Awaited
  <2>4. \/ flights' = (flights \ {f}) \cup {[f EXCEPT !.phase = "checked"]}
        \/ \E p, n : flights' = (flights \ {f}) \cup Answer(f, p, n)
    BY <1>3 DEF Check, Exchange
  <2>5. \A g \in flights' : Awaited(g) => \E h \in flights : h.tab = g.tab /\ Awaited(h)
    BY <2>2, <2>3, <2>4
  <2>. QED  BY <2>1, <2>5, HeldKept
<1>4. CASE Take(f)
  <2>1. /\ Awaited(f) /\ stored' = f.next
        /\ signedOut' = (signedOut /\ t \notin apart)
    BY <1>2, <1>4 DEF Take, Awaited
  <2>2. ~signedOut'
    BY <1>2, <2>1 DEF NothingHeld
  <2>3. f.next \in Tokens
    <3>1. Brings(f, f.next) /\ f.next \in Int
      BY <1>1, <1>4 DEF Take, Brings, FlightRecord
    <3>. QED  BY <3>1, ComingFacts DEF Coming, Unseen
  <2>. QED  BY <1>1, <2>1, <2>2, <2>3, TokenNumbers DEF NothingHeld, SessionShapes
<1>5. CASE Discard(f)
  <2>1. /\ UNCHANGED <<stored, signedOut, apart>> /\ flights' \subseteq flights
        /\ \A u \in Tabs : tab'[u].access = tab[u].access
    BY <1>1, <1>5 DEF Discard, TabRecord
  <2>. QED  BY <2>1, HeldKept
<1>6. CASE Refused(f)
  <2>1. /\ stored' = 0 /\ flights' \subseteq NextGeneration(t) /\ apart' = Apart(t)
        /\ tab'[t].access = NoAccess /\ \A u \in Tabs \ {t} : tab'[u].access = tab[u].access
    BY <1>1, <1>2, <1>6 DEF Refused, TabRecord
  <2>. QED  BY <2>1, HeldCleared
<1>7. CASE Fail(f)
  <2>1. /\ UNCHANGED <<stored, signedOut, apart>>
        /\ flights' = (flights \ {f}) \cup Unwaited({f})
    BY <1>7 DEF Fail
  <2>2. \A u \in Tabs : tab'[u].access = tab[u].access
    BY <1>1, <1>2, <1>7 DEF Fail, TabRecord
  <2>3. \A g \in Unwaited({f}) : ~g.waits
    BY <1>1 DEF Unwaited, FlightRecord
  <2>4. \A g \in flights' : Awaited(g) => \E h \in flights : h.tab = g.tab /\ Awaited(h)
    BY <2>1, <2>3 DEF Awaited
  <2>. QED  BY <2>1, <2>2, <2>4, HeldKept
<1>. QED  BY <1>3, <1>4, <1>5, <1>6, <1>7 DEF RefreshAnswered

LEMMA HeldStep == SessionInv /\ NothingHeld /\ [Next]_vars => NothingHeld'
<1> SUFFICES ASSUME SessionInv, NothingHeld, [Next]_vars PROVE NothingHeld'
  OBVIOUS
<1>1. CASE AdministrationStep \/ UNCHANGED vars \/ \E n \in Tokens : LogoutServed(n)
  <2>1. UNCHANGED <<stored, tab, flights, signedOut, apart>>
    BY <1>1 DEF AdministrationStep, LogoutServed, vars
  <2>. QED  BY <2>1, HeldKept
<1>. QED  BY <1>1, TabHolds, RequestHolds DEF Next

\* With any number of tabs: between a logout and the next login nothing is stored, unless
\* another tab that had the session stores what it waited for, and a tab that had
\* nothing when the session was cleared has nothing, however late the answers come.
THEOREM LogoutKept == Spec => []LogoutIsKept
<1>1. Init => NothingHeld
  BY DEF Init, NothingHeld, NoSession
<1>2. SessionInv /\ NothingHeld /\ [Next]_vars => NothingHeld'
  BY HeldStep
<1>3. NothingHeld => LogoutIsKept
  BY HeldEnough
<1>. QED  BY <1>1, <1>2, <1>3, SessionInvariance, PTL DEF Spec
===============================================================================
