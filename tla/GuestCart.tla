------------------------------- MODULE GuestCart -------------------------------
(***************************************************************************)
(* The guest cart a browser keeps in its local storage (cartStorage.js)    *)
(* and its merge into the customer's cart (mergeStoredCart in              *)
(* CartContext.jsx, merge_guest_items on the server).                      *)
(*                                                                         *)
(* The storage belongs to every tab of the browser; a tab is signed in or  *)
(* not on its own.  Reading and writing the storage is synchronous, so one *)
(* action each; the merge request is a message between two of them, whose  *)
(* answer may be late or lost and which may be executed after the tab gave *)
(* it up.  The server executes it under the customer's row lock.           *)
(***************************************************************************)
EXTENDS Integers, FiniteSets, FiniteSetsExt

CONSTANTS
    Variants,
    Tabs,
    Keys,          \* merge keys
    MaxQuantity,   \* the limit of a line, in the browser and on the server
    MaxStock,
    MaxEdits,      \* bound on the edits of the guest cart
    MaxChanges     \* bound on the changes of cart and stock on the server

ASSUME GuestAssumption ==
    /\ MaxQuantity \in Nat \ {0}
    /\ MaxStock \in Nat
    /\ MaxEdits \in Nat
    /\ MaxChanges \in Nat
    /\ "none" \notin Keys
    /\ IsFiniteSet(Keys)

VARIABLES
    storage,    \* the guest cart: its quantities and its pending_merge_key
    signed,     \* the tabs that are signed in
    merge,      \* the merge each tab waits for, and its answer
    inbox,      \* merge requests that may still be executed
    cart,       \* quantities of the customer's cart on the server
    stock,      \* units that can be sold; 0 also for an inactive variant
    receipt,    \* CartMergeReceipt by key
    edits, changes

\* History.
VARIABLES
    put,        \* units the customer put into the guest cart, net of removals
    unkeyed,    \* an edit dropped the key of a merge whose outcome was open
    overwritten \* an answer was written over another guest cart than the one it
                \* was asked for, or what it had left of it

history == <<unkeyed, overwritten>>
browserVars == <<storage, signed, merge, put, history, edits>>
serverVars == <<cart, stock, receipt, changes>>
guestVars == <<storage, signed, merge, inbox, cart, stock, receipt, put, history,
               edits, changes>>

-------------------------------------------------------------------------------

Quantity == 0 .. MaxQuantity
Quantities == [Variants -> Quantity]
Nothing == [v \in Variants |-> 0]

NoMerge == [stage |-> "idle", key |-> "none", items |-> Nothing, accepted |-> Nothing]
NoReceipt == [items |-> Nothing, accepted |-> Nothing]

GuestInit ==
    /\ storage = [items |-> Nothing, key |-> "none"]
    /\ signed = {}
    /\ merge = [t \in Tabs |-> NoMerge]
    /\ inbox = {}
    /\ cart = Nothing
    /\ stock = [v \in Variants |-> MaxStock]
    /\ receipt = [k \in Keys |-> NoReceipt]
    /\ put = Nothing
    /\ unkeyed = FALSE
    /\ overwritten = FALSE
    /\ edits = 0
    /\ changes = 0

Merging == {t \in Tabs : merge[t].stage # "idle"}

-------------------------------------------------------------------------------
(* The guest cart.                                                         *)

SignIn(t) ==
    /\ t \notin signed
    /\ signed' = signed \cup {t}
    /\ UNCHANGED <<storage, merge, inbox, serverVars, put, history, edits>>

\* A merge the tab waits for is not aborted.
SignOut(t) ==
    /\ t \in signed
    /\ signed' = signed \ {t}
    /\ UNCHANGED <<storage, merge, inbox, serverVars, put, history, edits>>

\* Every edit drops the merge key: the content it stood for is gone.
EditKeepsKey(v, q) == [storage EXCEPT !.items[v] = q]
Edit(v, q) == [items |-> [storage.items EXCEPT ![v] = q], key |-> "none"]

\* addGuestLine caps the sum; updateGuestLine sets the line, removeGuestLine
\* and clear empty it.
EditGuestCart(t, v) ==
    /\ t \notin signed
    /\ edits < MaxEdits
    /\ edits' = edits + 1
    /\ \E q \in Quantity :
          /\ \/ \E n \in 1 .. MaxQuantity : q = Min({MaxQuantity, storage.items[v] + n})
             \/ storage.items[v] > 0
          /\ storage' = Edit(v, q)
          /\ put' = [put EXCEPT ![v] = @ + q - storage.items[v]]
    /\ unkeyed' = (unkeyed \/ storage.key # "none")
    /\ UNCHANGED <<signed, merge, inbox, serverVars, overwritten>>

-------------------------------------------------------------------------------
(* The merge, in the browser.                                              *)

FreshKeys == {k \in Keys : /\ receipt[k] = NoReceipt
                           /\ storage.key # k
                           /\ \A t \in Tabs : merge[t].key # k
                           /\ \A m \in inbox : m.key # k}

\* mergeStoredCart up to its request: ensureMergeKey keeps a pending key.
StartMerge(t) ==
    /\ t \in signed
    /\ merge[t].stage = "idle"
    /\ storage.items # Nothing
    /\ \E k \in Keys :
          /\ IF storage.key = "none" THEN k \in FreshKeys ELSE k = storage.key
          /\ storage' = [storage EXCEPT !.key = k]
          /\ merge' = [merge EXCEPT ![t] = [NoMerge EXCEPT
                          !.stage = "sent", !.key = k, !.items = storage.items]]
          /\ inbox' = inbox \cup {[key |-> k, items |-> storage.items]}
    /\ UNCHANGED <<signed, serverVars, put, history, edits>>

\* A timeout, a network failure or a refusal: storage and key are kept.
GiveUp(t) ==
    /\ merge[t].stage = "sent"
    /\ merge' = [merge EXCEPT ![t] = NoMerge]
    /\ UNCHANGED <<storage, signed, inbox, serverVars, put, history, edits>>

\* What mergeStoredCart leaves: what it sent, less what was accepted.
RemainingUnadjusted(m) == [v \in Variants |-> IF m.accepted[v] > 0 THEN 0 ELSE m.items[v]]
Remaining(m) == [v \in Variants |-> m.items[v] - m.accepted[v]]

ApplyAnswer(t) ==
    /\ merge[t].stage = "answered"
    /\ storage' = [items |-> Remaining(merge[t]), key |-> "none"]
    /\ merge' = [merge EXCEPT ![t] = NoMerge]
    /\ overwritten' = (overwritten \/ (storage.key # merge[t].key /\ storage' # storage))
    /\ UNCHANGED <<signed, inbox, serverVars, put, unkeyed, edits>>

-------------------------------------------------------------------------------
(* The merge, on the server.                                               *)

Available(v) == IF stock[v] > cart[v] THEN stock[v] - cart[v] ELSE 0

\* A line is accepted up to the stock, and refused by add_variant when the
\* line of the cart would pass its limit.
Accepted(m, v) ==
    LET n == Min({m.items[v], Available(v)})
    IN  IF cart[v] + n <= MaxQuantity THEN n ELSE 0

\* The answer reaches a tab that waits for it, or nobody.
Answer(m, accepted) ==
    /\ \/ UNCHANGED merge
       \/ \E t \in Tabs : /\ merge[t] = [NoMerge EXCEPT !.stage = "sent", !.key = m.key,
                                                        !.items = m.items]
                          /\ merge' = [merge EXCEPT ![t].stage = "answered",
                                                    ![t].accepted = accepted]
    /\ inbox' = inbox \ {m}
    /\ UNCHANGED <<storage, signed, put, history, edits, stock, changes>>

\* A receipt of this key with other items is a conflict: nothing changes, and
\* the tab gives up.
HasReceipt(m) == receipt[m.key].items = m.items

Replay(m) ==
    /\ HasReceipt(m)
    /\ Answer(m, receipt[m.key].accepted)
    /\ UNCHANGED <<cart, receipt>>

Merge(m) ==
    /\ ~HasReceipt(m)
    /\ receipt[m.key] = NoReceipt
    /\ LET accepted == [v \in Variants |-> Accepted(m, v)]
       IN  /\ cart' = [v \in Variants |-> cart[v] + accepted[v]]
           /\ receipt' = [receipt EXCEPT ![m.key] = [items |-> m.items, accepted |-> accepted]]
           /\ Answer(m, accepted)

\* The customer's cart becomes an order, or its lines are removed.
EmptyCart ==
    /\ changes < MaxChanges
    /\ changes' = changes + 1
    /\ cart' = Nothing
    /\ UNCHANGED <<browserVars, inbox, stock, receipt>>

StockChanges(v) ==
    /\ changes < MaxChanges
    /\ changes' = changes + 1
    /\ \E n \in 0 .. MaxStock : stock' = [stock EXCEPT ![v] = n]
    /\ UNCHANGED <<browserVars, inbox, cart, receipt>>

GuestNext ==
    \/ \E t \in Tabs : SignIn(t) \/ SignOut(t) \/ StartMerge(t) \/ GiveUp(t) \/ ApplyAnswer(t)
    \/ \E t \in Tabs, v \in Variants : EditGuestCart(t, v)
    \/ \E m \in inbox : Replay(m) \/ Merge(m)
    \/ EmptyCart
    \/ \E v \in Variants : StockChanges(v)

GuestSpec == GuestInit /\ [][GuestNext]_guestVars

-------------------------------------------------------------------------------
(* Properties.                                                             *)

\* Quantities, merges and receipts keep their types; nothing is accepted that
\* was not sent.
GuestTypeOK ==
    /\ storage \in [items: Quantities, key: Keys \cup {"none"}]
    /\ signed \subseteq Tabs
    /\ merge \in [Tabs -> [stage: {"idle", "sent", "answered"}, key: Keys \cup {"none"},
                           items: Quantities, accepted: Quantities]]
    /\ inbox \subseteq [key: Keys, items: Quantities]
    /\ cart \in Quantities
    /\ stock \in [Variants -> 0 .. MaxStock]
    /\ receipt \in [Keys -> [items: Quantities, accepted: Quantities]]
    /\ \A k \in Keys, v \in Variants : receipt[k].accepted[v] <= receipt[k].items[v]

\* A key stands for one content, in the storage, in every tab, on the way and
\* on the server: repeating a merge whose answer was lost settles it, and is
\* never taken for another one (idempotency_conflict).
KeyHasOneContent ==
    LET pending == {[key |-> merge[t].key, items |-> merge[t].items] : t \in Merging}
        stored == IF storage.key = "none" THEN {} ELSE {storage}
        sent == pending \cup stored \cup inbox
    IN  /\ \A a, b \in sent : a.key = b.key => a.items = b.items
        /\ \A a \in sent : receipt[a.key] # NoReceipt => receipt[a.key].items = a.items

\* Every unit put into the guest cart is there or was merged once, whatever answers
\* are lost, however often and late the requests are executed and how many tabs
\* merge it; units merged under the key that is still pending are the ones the
\* storage still holds.  Two things break the count: an edit that drops the key of a
\* merge whose outcome is open, and the late answer of a merge that writes what was
\* left of it over a guest cart that has been merged or edited since.
UnitsAreCounted ==
    ~unkeyed /\ ~overwritten => \A v \in Variants :
       put[v] = storage.items[v]
                  + SumFunctionOnSet([k \in Keys |-> receipt[k].accepted[v]],
                                     Keys \ {storage.key})

\* A merge never brings a line above the stock or the limit of a line.
MergeWithinStock ==
    [][\A v \in Variants : cart'[v] > cart[v] => cart'[v] <= Min({stock[v], MaxQuantity})]_guestVars

\* Only the quantities the server confirmed leave the storage when a merge is
\* answered (phase6-cart.md:70-71).  It is false: ApplyAnswer writes what it
\* sent, and an edit made in between is lost.
OnlyConfirmedLeave ==
    [][\A t \in Tabs : ApplyAnswer(t) => \A v \in Variants :
          storage'.items[v] >= storage.items[v] - merge[t].accepted[v]]_guestVars
===============================================================================
