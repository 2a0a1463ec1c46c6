------------------------------ MODULE Shop_proofs ------------------------------
(***************************************************************************)
(* Proofs about the guest cart and the shop's pages: about GuestCart, for  *)
(* any number of tabs, keys and variants and any limits, and about         *)
(* Storefront and ProductPage, for any catalogue, page size and bounds.    *)
(*                                                                         *)
(* GuestInv adds to the types what the browser relies on when it writes    *)
(* the rest of a merge: the answer it got accepts no more than was sent.   *)
(* That a key stands for one content is then kept by every step, because a *)
(* new key is fresh and an edit drops the key.                             *)
(*                                                                         *)
(* CountInv is what keeps the count of the units: while no key was dropped *)
(* by an edit and no answer overwrote another guest cart, only the pending *)
(* key can still be given a receipt, and as a key stands for one content   *)
(* the storage holds what is merged under it.                              *)
(*                                                                         *)
(* BrowseInv is about the pages: the request that is not aborted asks for  *)
(* the query in the address bar, the text field differs from it only when  *)
(* typed in or about to be set, and the selection and its quantity are     *)
(* ones the offer sent with the product allows.                            *)
(***************************************************************************)
EXTENDS GuestCart, ProductPage, Sums

-------------------------------------------------------------------------------

\* The smaller of two numbers.
LEMMA MinOfTwo ==
    ASSUME NEW a \in Int, NEW b \in Int
    PROVE  /\ Min({a, b}) \in {a, b}
           /\ Min({a, b}) <= a /\ Min({a, b}) <= b
<1>1. \E x \in {a, b} : \A y \in {a, b} : x <= y
  <2>1. CASE a <= b
    BY <2>1
  <2>2. CASE b <= a
    BY <2>2
  <2>. QED  BY <2>1, <2>2
<1>2. /\ Min({a, b}) \in {a, b}
      /\ \A y \in {a, b} : Min({a, b}) <= y
  BY <1>1 DEF Min
<1>. QED  BY <1>2

\* An answer accepts no more than was sent.
AcceptedFits == \A t \in Tabs, v \in Variants : merge[t].accepted[v] <= merge[t].items[v]

\* The quantities of an empty cart, and of a tab that merges nothing.
LEMMA Empties ==
    /\ Nothing \in Quantities /\ \A v \in Variants : Nothing[v] = 0
    /\ NoMerge.stage = "idle" /\ NoMerge.key = "none"
    /\ NoMerge.items = Nothing /\ NoMerge.accepted = Nothing
  BY GuestAssumption DEF Nothing, Quantities, Quantity, NoMerge

\* What the server accepts of a line fits the request, the stock and the line.
LEMMA AcceptedBounds ==
    ASSUME GuestTypeOK, NEW m \in inbox, NEW v \in Variants
    PROVE  /\ Accepted(m, v) \in Quantity
           /\ Accepted(m, v) <= m.items[v]
           /\ cart[v] + Accepted(m, v) \in Quantity
           /\ Accepted(m, v) > 0 => cart[v] + Accepted(m, v) <= stock[v]
<1>1. /\ m.items[v] \in 0 .. MaxQuantity /\ cart[v] \in 0 .. MaxQuantity
      /\ stock[v] \in 0 .. MaxStock
  BY DEF GuestTypeOK, Quantities, Quantity
<1>2. MaxQuantity \in Nat /\ MaxStock \in Nat
  BY GuestAssumption DEF GuestAssumption
<1>3. /\ Available(v) \in Nat
      /\ Available(v) > 0 => cart[v] + Available(v) = stock[v]
  BY <1>1, <1>2 DEF Available
<1> DEFINE n == Min({m.items[v], Available(v)})
<1>4. n \in {m.items[v], Available(v)} /\ n <= m.items[v] /\ n <= Available(v)
  <2>1. m.items[v] \in Int /\ Available(v) \in Int
    BY <1>1, <1>2, <1>3
  <2>. HIDE DEF n
  <2>2. n = Min({m.items[v], Available(v)})
    BY DEF n
  <2>. QED  BY <2>1, <2>2, MinOfTwo
<1>5. Accepted(m, v) = IF cart[v] + n <= MaxQuantity THEN n ELSE 0
  BY DEF Accepted
<1>. HIDE DEF n
<1>6. n \in 0 .. MaxQuantity
  BY <1>1, <1>2, <1>3, <1>4
<1>7. CASE cart[v] + n <= MaxQuantity
  <2>1. Accepted(m, v) = n
    BY <1>5, <1>7
  <2>2. cart[v] + n \in Quantity /\ n \in Quantity
    BY <1>1, <1>2, <1>6, <1>7 DEF Quantity
  <2>3. n > 0 => cart[v] + n <= stock[v]
    BY <1>1, <1>2, <1>3, <1>4, <1>6
  <2>. QED  BY <1>4, <2>1, <2>2, <2>3
<1>8. CASE ~(cart[v] + n <= MaxQuantity)
  <2>1. Accepted(m, v) = 0
    BY <1>5, <1>8
  <2>. QED  BY <1>1, <1>2, <2>1 DEF Quantity
<1>. QED  BY <1>7, <1>8

-------------------------------------------------------------------------------
(* Types *)

MergeRow == [stage: {"idle", "sent", "answered"}, key: Keys \cup {"none"},
             items: Quantities, accepted: Quantities]

\* What GuestTypeOK and AcceptedFits say of the tabs.
Merges == merge \in [Tabs -> MergeRow] /\ AcceptedFits

\* Writing the merge of one tab.
LEMMA MergeWritten ==
    ASSUME Merges, NEW t \in Tabs, NEW row \in MergeRow,
           \A v \in Variants : row.accepted[v] <= row.items[v],
           merge' = [merge EXCEPT ![t] = row]
    PROVE  Merges'
  BY DEF Merges, AcceptedFits

\* A tab that merges nothing.
LEMMA NoMergeRow ==
    NoMerge \in MergeRow /\ \A v \in Variants : NoMerge.accepted[v] <= NoMerge.items[v]
<1>1. NoMerge \in MergeRow
  BY Empties DEF NoMerge, MergeRow
<1>. QED  BY <1>1, Empties

\* An answer reaches a tab that sent the same items.
LEMMA AnswerMerges ==
    ASSUME Merges, NEW m \in inbox, m \in [key: Keys, items: Quantities],
           NEW accepted \in Quantities, \A v \in Variants : accepted[v] <= m.items[v],
           Answer(m, accepted)
    PROVE  Merges'
<1>1. CASE UNCHANGED merge
  BY <1>1 DEF Merges, AcceptedFits
<1>2. ASSUME NEW t \in Tabs,
             merge[t] = [NoMerge EXCEPT !.stage = "sent", !.key = m.key, !.items = m.items],
             merge' = [merge EXCEPT ![t].stage = "answered", ![t].accepted = accepted]
      PROVE  Merges'
  <2> DEFINE row == [merge[t] EXCEPT !.stage = "answered", !.accepted = accepted]
  <2>1. merge[t] \in MergeRow /\ merge[t].items = m.items
    BY <1>2, NoMergeRow DEF Merges, MergeRow
  <2>2. row \in MergeRow /\ row.accepted = accepted /\ row.items = m.items
    BY <2>1 DEF MergeRow
  <2>3. merge' = [merge EXCEPT ![t] = row]
    BY <1>2 DEF Merges
  <2>. HIDE DEF row
  <2>. QED  BY <2>2, <2>3, MergeWritten
<1>. QED  BY <1>1, <1>2 DEF Answer

\* Each step of a browser keeps the types.
LEMMA BrowserTypes ==
    ASSUME GuestTypeOK, AcceptedFits, NEW t \in Tabs,
           \/ SignIn(t) \/ SignOut(t) \/ StartMerge(t) \/ GiveUp(t) \/ ApplyAnswer(t)
           \/ \E v \in Variants : EditGuestCart(t, v)
    PROVE  (GuestTypeOK /\ AcceptedFits)'
<1>0. /\ Merges /\ storage \in [items: Quantities, key: Keys \cup {"none"}]
      /\ merge[t] \in MergeRow
  BY DEF GuestTypeOK, Merges, MergeRow
<1>1. UNCHANGED serverVars
  BY DEF SignIn, SignOut, StartMerge, GiveUp, ApplyAnswer, EditGuestCart
<1>2. CASE SignIn(t) \/ SignOut(t)
  BY <1>1, <1>2 DEF SignIn, SignOut, GuestTypeOK, AcceptedFits, serverVars
<1>3. CASE StartMerge(t)
  <2>1. PICK k \in Keys :
          /\ storage' = [storage EXCEPT !.key = k]
          /\ merge' = [merge EXCEPT ![t] = [NoMerge EXCEPT
                          !.stage = "sent", !.key = k, !.items = storage.items]]
          /\ inbox' = inbox \cup {[key |-> k, items |-> storage.items]}
    BY <1>3 DEF StartMerge
  <2> DEFINE row == [NoMerge EXCEPT !.stage = "sent", !.key = k, !.items = storage.items]
  <2>2. storage' \in [items: Quantities, key: Keys \cup {"none"}]
    BY <1>0, <2>1
  <2>3. inbox' \subseteq [key: Keys, items: Quantities]
    BY <1>0, <2>1 DEF GuestTypeOK
  <2>4. row \in MergeRow /\ row.accepted = Nothing /\ row.items = storage.items
    BY <1>0, NoMergeRow, Empties DEF MergeRow
  <2>5. \A v \in Variants : Nothing[v] <= storage.items[v]
    BY <1>0, Empties DEF Quantities, Quantity
  <2>6. merge' = [merge EXCEPT ![t] = row]
    BY <2>1
  <2>7. Merges'
    <3>. HIDE DEF row
    <3>. QED  BY <1>0, <2>4, <2>5, <2>6, MergeWritten
  <2>. QED  BY <1>1, <1>3, <2>2, <2>3, <2>7
            DEF StartMerge, GuestTypeOK, AcceptedFits, Merges, MergeRow, serverVars
<1>4. CASE GiveUp(t)
  <2>1. Merges'
    BY <1>0, <1>4, NoMergeRow, MergeWritten DEF GiveUp
  <2>. QED  BY <1>1, <1>4, <2>1
            DEF GiveUp, GuestTypeOK, Merges, MergeRow, serverVars
<1>5. CASE ApplyAnswer(t)
  <2>1. Merges'
    BY <1>0, <1>5, NoMergeRow, MergeWritten DEF ApplyAnswer
  <2>2. Remaining(merge[t]) \in Quantities
    <3>1. ASSUME NEW v \in Variants
          PROVE  merge[t].items[v] - merge[t].accepted[v] \in Quantity
      <4>1. merge[t].items[v] \in 0 .. MaxQuantity /\ merge[t].accepted[v] \in 0 .. MaxQuantity
        BY <1>0 DEF MergeRow, Quantities, Quantity
      <4>2. merge[t].accepted[v] <= merge[t].items[v]
        BY DEF AcceptedFits
      <4>. QED  BY <4>1, <4>2, GuestAssumption DEF Quantity
    <3>. QED  BY <3>1 DEF Remaining, Quantities
  <2>. QED  BY <1>1, <1>5, <2>1, <2>2
            DEF ApplyAnswer, GuestTypeOK, Merges, MergeRow, serverVars
<1>6. ASSUME NEW v \in Variants, EditGuestCart(t, v)
      PROVE  (GuestTypeOK /\ AcceptedFits)'
  <2>1. PICK q \in Quantity : storage' = Edit(v, q)
    BY <1>6 DEF EditGuestCart
  <2>2. [storage.items EXCEPT ![v] = q] \in Quantities
    BY <1>0 DEF Quantities
  <2>3. storage' \in [items: Quantities, key: Keys \cup {"none"}]
    BY <2>1, <2>2 DEF Edit
  <2>. QED  BY <1>1, <1>6, <2>3 DEF EditGuestCart, GuestTypeOK, AcceptedFits, serverVars
<1>. QED  BY <1>2, <1>3, <1>4, <1>5, <1>6

\* Each step of the server keeps the types.
LEMMA ServerTypes ==
    ASSUME GuestTypeOK, AcceptedFits,
           \/ \E m \in inbox : Replay(m) \/ Merge(m)
           \/ EmptyCart \/ \E v \in Variants : StockChanges(v)
    PROVE  (GuestTypeOK /\ AcceptedFits)'
<1>0. Merges
  BY DEF GuestTypeOK, Merges, MergeRow
<1>1. ASSUME NEW m \in inbox, Replay(m)
      PROVE  (GuestTypeOK /\ AcceptedFits)'
  <2>1. m \in [key: Keys, items: Quantities]
    BY DEF GuestTypeOK
  <2>2. /\ receipt[m.key].accepted \in Quantities
        /\ \A v \in Variants : receipt[m.key].accepted[v] <= m.items[v]
    BY <1>1, <2>1 DEF GuestTypeOK, Replay, HasReceipt
  <2>3. Merges'
    BY <1>0, <1>1, <2>1, <2>2, AnswerMerges DEF Replay
  <2>. QED  BY <1>1, <2>3 DEF Replay, Answer, GuestTypeOK, Merges, MergeRow
<1>2. ASSUME NEW m \in inbox, Merge(m)
      PROVE  (GuestTypeOK /\ AcceptedFits)'
  <2> DEFINE accepted == [v \in Variants |-> Accepted(m, v)]
  <2>1. m \in [key: Keys, items: Quantities]
    BY DEF GuestTypeOK
  <2>2. /\ accepted \in Quantities
        /\ \A v \in Variants : accepted[v] <= m.items[v]
    BY AcceptedBounds DEF Quantities
  <2>3. /\ cart' = [v \in Variants |-> cart[v] + accepted[v]]
        /\ receipt' = [receipt EXCEPT ![m.key] = [items |-> m.items, accepted |-> accepted]]
        /\ Answer(m, accepted)
    BY <1>2 DEF Merge
  <2>4. cart' \in Quantities
    BY <2>3, AcceptedBounds DEF Quantities
  <2>. HIDE DEF accepted
  <2>5. receipt' \in [Keys -> [items: Quantities, accepted: Quantities]]
    BY <2>1, <2>2, <2>3 DEF GuestTypeOK
  <2>6. \A k \in Keys, v \in Variants : receipt'[k].accepted[v] <= receipt'[k].items[v]
    <3>1. /\ receipt'[m.key].accepted = accepted /\ receipt'[m.key].items = m.items
          /\ \A k \in Keys \ {m.key} : receipt'[k] = receipt[k]
      BY <2>1, <2>3 DEF GuestTypeOK
    <3>. QED  BY <2>2, <3>1 DEF GuestTypeOK
  <2>7. Merges'
    BY <1>0, <2>1, <2>2, <2>3, AnswerMerges
  <2>. QED  BY <2>3, <2>4, <2>5, <2>6, <2>7
            DEF Answer, GuestTypeOK, Merges, MergeRow
<1>3. CASE EmptyCart
  BY <1>3, Empties DEF EmptyCart, GuestTypeOK, AcceptedFits, browserVars
<1>4. ASSUME NEW v \in Variants, StockChanges(v)
      PROVE  (GuestTypeOK /\ AcceptedFits)'
  BY <1>4 DEF StockChanges, GuestTypeOK, AcceptedFits, browserVars
<1>. QED  BY <1>1, <1>2, <1>3, <1>4

-------------------------------------------------------------------------------
(* A key and its content *)

\* That something with this key and these items is stored, waited for or on
\* its way.
Sent(k, items) ==
    \/ storage.key = k /\ k # "none" /\ storage.items = items
    \/ \E t \in Merging : merge[t].key = k /\ merge[t].items = items
    \/ \E m \in inbox : m.key = k /\ m.items = items

\* KeyHasOneContent without its sets.
OneContent ==
    /\ \A k, a, b : Sent(k, a) /\ Sent(k, b) => a = b
    /\ \A k, a : Sent(k, a) /\ receipt[k] # NoReceipt => receipt[k].items = a

LEMMA ContentRead == OneContent => KeyHasOneContent
<1> SUFFICES ASSUME OneContent PROVE KeyHasOneContent
  OBVIOUS
<1> DEFINE pending == {[key |-> merge[t].key, items |-> merge[t].items] : t \in Merging}
           stored == IF storage.key = "none" THEN {} ELSE {storage}
           sent == pending \cup stored \cup inbox
<1>1. \A a \in sent : Sent(a.key, a.items)
  BY DEF Sent
<1>2. \A a, b \in sent : a.key = b.key => a.items = b.items
  BY <1>1 DEF OneContent
<1>3. \A a \in sent : receipt[a.key] # NoReceipt => receipt[a.key].items = a.items
  BY <1>1 DEF OneContent
<1>. QED  BY <1>2, <1>3 DEF KeyHasOneContent

\* A step that sends nothing new and gives no receipt keeps the contents.
LEMMA NothingSent ==
    ASSUME OneContent, receipt' = receipt,
           \A k, a : Sent(k, a)' => Sent(k, a)
    PROVE  OneContent'
  BY DEF OneContent

\* An answer sends nothing.
LEMMA AnswerSends ==
    ASSUME Merges, NEW m \in inbox, NEW accepted, Answer(m, accepted)
    PROVE  \A k, a : Sent(k, a)' => Sent(k, a)
<1>1. UNCHANGED storage /\ inbox' = inbox \ {m}
  BY DEF Answer
<1>2. \A t \in Merging' : /\ t \in Merging
                          /\ merge'[t].key = merge[t].key /\ merge'[t].items = merge[t].items
  <2>1. CASE UNCHANGED merge
    BY <2>1 DEF Merging
  <2>2. ASSUME NEW t \in Tabs,
               merge[t] = [NoMerge EXCEPT !.stage = "sent", !.key = m.key, !.items = m.items],
               merge' = [merge EXCEPT ![t].stage = "answered", ![t].accepted = accepted]
        PROVE  \A u \in Merging' : /\ u \in Merging
                                   /\ merge'[u].key = merge[u].key
                                   /\ merge'[u].items = merge[u].items
    <3>1. merge[t] \in MergeRow /\ merge[t].stage = "sent"
      BY <2>2, NoMergeRow DEF Merges, MergeRow
    <3>2. merge' = [merge EXCEPT ![t] = [merge[t] EXCEPT !.stage = "answered",
                                                         !.accepted = accepted]]
      BY <2>2 DEF Merges
    <3>3. /\ merge'[t].key = merge[t].key /\ merge'[t].items = merge[t].items
          /\ \A u \in Tabs \ {t} : merge'[u] = merge[u]
      BY <3>1, <3>2 DEF Merges, MergeRow
    <3>. QED  BY <3>1, <3>3 DEF Merging
  <2>. QED  BY <2>1, <2>2 DEF Answer
<1>. QED  BY <1>1, <1>2 DEF Sent

\* The browser's steps keep the contents.
LEMMA BrowserContent ==
    ASSUME GuestTypeOK, OneContent, NEW t \in Tabs,
           \/ SignIn(t) \/ SignOut(t) \/ StartMerge(t) \/ GiveUp(t) \/ ApplyAnswer(t)
           \/ \E v \in Variants : EditGuestCart(t, v)
    PROVE  OneContent'
<1>0. /\ merge \in [Tabs -> MergeRow] /\ "none" \notin Keys
      /\ storage \in [items: Quantities, key: Keys \cup {"none"}]
  BY GuestAssumption DEF GuestTypeOK, Merges, MergeRow, GuestAssumption
<1>1. receipt' = receipt
  BY DEF SignIn, SignOut, StartMerge, GiveUp, ApplyAnswer, EditGuestCart, serverVars
<1>2. CASE SignIn(t) \/ SignOut(t)
  <2>1. \A k, a : Sent(k, a)' => Sent(k, a)
    BY <1>2 DEF SignIn, SignOut, Sent, Merging
  <2>. QED  BY <1>1, <2>1, NothingSent
<1>3. CASE StartMerge(t)
  <2>1. PICK k \in Keys :
          /\ IF storage.key = "none" THEN k \in FreshKeys ELSE k = storage.key
          /\ storage' = [storage EXCEPT !.key = k]
          /\ merge' = [merge EXCEPT ![t] = [NoMerge EXCEPT
                          !.stage = "sent", !.key = k, !.items = storage.items]]
          /\ inbox' = inbox \cup {[key |-> k, items |-> storage.items]}
    BY <1>3 DEF StartMerge
  <2>2. storage'.key = k /\ storage'.items = storage.items
    BY <1>0, <2>1
  <2>3. /\ merge'[t].key = k /\ merge'[t].items = storage.items
        /\ \A u \in Tabs \ {t} : merge'[u] = merge[u]
    BY <1>0, <2>1, NoMergeRow DEF MergeRow
  <2>4. \A j, a : Sent(j, a)' => Sent(j, a) \/ (j = k /\ a = storage.items)
    BY <2>1, <2>2, <2>3 DEF Sent, Merging
  <2>5. /\ \A a : Sent(k, a) => a = storage.items
        /\ receipt[k] # NoReceipt => receipt[k].items = storage.items
    <3>1. CASE storage.key = "none"
      <4>1. k \in FreshKeys
        BY <2>1, <3>1
      <4>. QED  BY <1>0, <2>1, <3>1, <4>1 DEF FreshKeys, Sent, Merging
    <3>2. CASE storage.key # "none"
      <4>1. Sent(k, storage.items)
        BY <1>0, <2>1, <3>2 DEF Sent
      <4>. QED  BY <4>1 DEF OneContent
    <3>. QED  BY <3>1, <3>2
  <2>. QED  BY <1>1, <2>4, <2>5 DEF OneContent
<1>4. CASE GiveUp(t) \/ ApplyAnswer(t)
  <2>1. merge' = [merge EXCEPT ![t] = NoMerge] /\ inbox' = inbox
    BY <1>4 DEF GiveUp, ApplyAnswer
  <2>2. storage' = storage \/ storage'.key = "none"
    BY <1>4 DEF GiveUp, ApplyAnswer
  <2>3. /\ t \notin Merging'
        /\ \A u \in Tabs \ {t} : merge'[u] = merge[u]
    BY <1>0, <2>1, Empties DEF Merging
  <2>4. \A k, a : Sent(k, a)' => Sent(k, a)
    BY <2>1, <2>2, <2>3 DEF Sent, Merging
  <2>. QED  BY <1>1, <2>4, NothingSent
<1>5. ASSUME NEW v \in Variants, EditGuestCart(t, v)
      PROVE  OneContent'
  <2>1. storage'.key = "none" /\ UNCHANGED <<merge, inbox>>
    BY <1>5 DEF EditGuestCart, Edit
  <2>2. \A k, a : Sent(k, a)' => Sent(k, a)
    BY <2>1 DEF Sent, Merging
  <2>. QED  BY <1>1, <2>2, NothingSent
<1>. QED  BY <1>2, <1>3, <1>4, <1>5

\* The server's steps keep the contents.
LEMMA ServerContent ==
    ASSUME GuestTypeOK, AcceptedFits, OneContent,
           \/ \E m \in inbox : Replay(m) \/ Merge(m)
           \/ EmptyCart \/ \E v \in Variants : StockChanges(v)
    PROVE  OneContent'
<1>0. Merges /\ receipt \in [Keys -> [items: Quantities, accepted: Quantities]]
  BY DEF GuestTypeOK, Merges, MergeRow
<1>1. ASSUME NEW m \in inbox, Replay(m)
      PROVE  OneContent'
  <2>1. \A k, a : Sent(k, a)' => Sent(k, a)
    BY <1>0, <1>1, AnswerSends DEF Replay
  <2>. QED  BY <1>1, <2>1, NothingSent DEF Replay
<1>2. ASSUME NEW m \in inbox, Merge(m)
      PROVE  OneContent'
  <2> DEFINE accepted == [v \in Variants |-> Accepted(m, v)]
  <2>1. /\ receipt' = [receipt EXCEPT ![m.key] = [items |-> m.items, accepted |-> accepted]]
        /\ Answer(m, accepted)
    BY <1>2 DEF Merge
  <2>. HIDE DEF accepted
  <2>2. m.key \in Keys
    BY DEF GuestTypeOK
  <2>3. \A k, a : Sent(k, a)' => Sent(k, a)
    BY <1>0, <2>1, AnswerSends
  <2>4. Sent(m.key, m.items)
    BY DEF Sent
  <2>5. receipt'[m.key].items = m.items /\ \A k : k # m.key => receipt'[k] = receipt[k]
    BY <1>0, <2>1, <2>2
  <2>. QED  BY <2>3, <2>4, <2>5 DEF OneContent
<1>3. CASE EmptyCart \/ \E v \in Variants : StockChanges(v)
  <2>1. UNCHANGED <<storage, merge, inbox, receipt>>
    BY <1>3 DEF EmptyCart, StockChanges, browserVars
  <2>2. \A k, a : Sent(k, a)' => Sent(k, a)
    BY <2>1 DEF Sent, Merging
  <2>. QED  BY <2>1, <2>2, NothingSent
<1>. QED  BY <1>1, <1>2, <1>3

-------------------------------------------------------------------------------
(* The invariant *)

GuestInv == GuestTypeOK /\ AcceptedFits /\ OneContent

\* GuestInv holds initially.
LEMMA GuestInitInv == GuestInit => GuestInv
<1> SUFFICES ASSUME GuestInit PROVE GuestInv
  OBVIOUS
<1>1. /\ MaxQuantity \in Nat /\ MaxStock \in Nat /\ MaxStock \in 0 .. MaxStock
  BY GuestAssumption DEF GuestAssumption
<1>2. NoReceipt \in [items: Quantities, accepted: Quantities]
      /\ \A v \in Variants : NoReceipt.accepted[v] <= NoReceipt.items[v]
  BY Empties DEF NoReceipt
<1>3. \A t \in Tabs : merge[t] = NoMerge
  BY DEF GuestInit
<1>4. GuestTypeOK
  BY <1>1, <1>2, Empties, NoMergeRow DEF GuestInit, GuestTypeOK, MergeRow
<1>5. AcceptedFits
  BY <1>3, NoMergeRow DEF AcceptedFits
<1>6. \A k, a : ~Sent(k, a)
  BY <1>3, Empties DEF GuestInit, Sent, Merging
<1>. QED  BY <1>4, <1>5, <1>6 DEF GuestInv, OneContent

\* Every step preserves GuestInv.
LEMMA GuestStepInv == GuestInv /\ [GuestNext]_guestVars => GuestInv'
<1> SUFFICES ASSUME GuestInv, [GuestNext]_guestVars PROVE GuestInv'
  OBVIOUS
<1>0. GuestTypeOK /\ AcceptedFits /\ OneContent
  BY DEF GuestInv
<1>1. CASE UNCHANGED guestVars
  <2>1. OneContent'
    <3>1. \A k, a : Sent(k, a)' => Sent(k, a)
      BY <1>1 DEF guestVars, Sent, Merging
    <3>. QED  BY <1>0, <1>1, <3>1, NothingSent DEF guestVars
  <2>. QED  BY <1>0, <1>1, <2>1 DEF GuestInv, guestVars, GuestTypeOK, AcceptedFits
<1>2. ASSUME NEW t \in Tabs,
             \/ SignIn(t) \/ SignOut(t) \/ StartMerge(t) \/ GiveUp(t) \/ ApplyAnswer(t)
             \/ \E v \in Variants : EditGuestCart(t, v)
      PROVE  GuestInv'
  BY <1>0, <1>2, BrowserTypes, BrowserContent DEF GuestInv
<1>3. CASE \/ \E m \in inbox : Replay(m) \/ Merge(m)
           \/ EmptyCart \/ \E v \in Variants : StockChanges(v)
  BY <1>0, <1>3, ServerTypes, ServerContent DEF GuestInv
<1>. QED  BY <1>1, <1>2, <1>3 DEF GuestNext

\* GuestInv always holds.
LEMMA GuestInvariance == GuestSpec => []GuestInv
  BY GuestInitInv, GuestStepInv, PTL DEF GuestSpec

-------------------------------------------------------------------------------
(* The units put into the guest cart *)

\* That the server settled these items under this key.
Settles(k, items) == receipt[k].items = items

\* What a tab waits for or has been answered, and what is on its way.
Asked ==
    /\ \A t \in Merging :
          /\ merge[t].key \in Keys /\ merge[t].items # Nothing
          /\ merge[t].stage = "answered" =>
                /\ Settles(merge[t].key, merge[t].items)
                /\ merge[t].accepted = receipt[merge[t].key].accepted
    /\ \A m \in inbox : m.items # Nothing

\* Units of a variant merged under the keys that are no longer pending.
Merged(v) == SumFunctionOnSet([k \in Keys |-> receipt[k].accepted[v]], Keys \ {storage.key})

\* Where the units are as long as no edit dropped a key and no late answer
\* overwrote the guest cart: only the pending key can still be given a receipt.
Ledger ==
    /\ put \in [Variants -> Int]
    /\ \A v \in Variants : put[v] = storage.items[v] + Merged(v)
    /\ \A t \in Merging : merge[t].key = storage.key \/ Settles(merge[t].key, merge[t].items)
    /\ \A m \in inbox : m.key = storage.key \/ Settles(m.key, m.items)

CountInv == Asked /\ (~unkeyed /\ ~overwritten => Ledger)

\* A key that is settled is not settled again: its items are not empty.
LEMMA SettledOnce ==
    ASSUME GuestTypeOK, NEW m \in inbox, Merge(m), NEW k, NEW items, items # Nothing,
           Settles(k, items)
    PROVE  k # m.key /\ receipt'[k] = receipt[k]
<1>1. receipt[m.key] = NoReceipt /\ receipt[m.key].items = Nothing
  BY DEF Merge, NoReceipt
<1>2. k # m.key
  BY <1>1 DEF Settles
<1>3. receipt'[k] = receipt[k]
  <2>1. CASE k \in Keys
    BY <1>2, <2>1 DEF Merge, GuestTypeOK
  <2>2. CASE k \notin Keys
    <3>1. m.key \in Keys
      BY DEF GuestTypeOK
    <3>. QED  BY <2>2, <3>1 DEF Settles, Merge, GuestTypeOK
  <2>. QED  BY <2>1, <2>2
<1>. QED  BY <1>2, <1>3

\* The browser asks with items, and writes no answer.
LEMMA BrowserAsked ==
    ASSUME GuestTypeOK, Asked, NEW t \in Tabs,
           \/ SignIn(t) \/ SignOut(t) \/ StartMerge(t) \/ GiveUp(t) \/ ApplyAnswer(t)
           \/ \E v \in Variants : EditGuestCart(t, v)
    PROVE  Asked'
<1>0. /\ merge \in [Tabs -> MergeRow]
      /\ storage \in [items: Quantities, key: Keys \cup {"none"}]
  BY DEF GuestTypeOK, MergeRow
<1>1. receipt' = receipt
  BY DEF SignIn, SignOut, StartMerge, GiveUp, ApplyAnswer, EditGuestCart, serverVars
<1>2. CASE \/ SignIn(t) \/ SignOut(t)
           \/ \E v \in Variants : EditGuestCart(t, v)
  <2>1. UNCHANGED <<merge, inbox>>
    BY <1>2 DEF SignIn, SignOut, EditGuestCart
  <2>. QED  BY <1>1, <2>1 DEF Asked, Merging, Settles
<1>3. CASE StartMerge(t)
  <2>1. PICK k \in Keys :
          /\ merge' = [merge EXCEPT ![t] = [NoMerge EXCEPT
                          !.stage = "sent", !.key = k, !.items = storage.items]]
          /\ inbox' = inbox \cup {[key |-> k, items |-> storage.items]}
    BY <1>3 DEF StartMerge
  <2>2. /\ merge'[t].key = k /\ merge'[t].items = storage.items /\ merge'[t].stage = "sent"
        /\ \A u \in Tabs \ {t} : merge'[u] = merge[u]
    BY <1>0, <2>1, NoMergeRow DEF MergeRow
  <2>3. storage.items # Nothing
    BY <1>3 DEF StartMerge
  <2>. QED  BY <1>1, <2>1, <2>2, <2>3 DEF Asked, Merging, Settles
<1>4. CASE GiveUp(t) \/ ApplyAnswer(t)
  <2>1. merge' = [merge EXCEPT ![t] = NoMerge] /\ inbox' = inbox
    BY <1>4 DEF GiveUp, ApplyAnswer
  <2>2. t \notin Merging' /\ \A u \in Tabs \ {t} : merge'[u] = merge[u]
    BY <1>0, <2>1, Empties DEF Merging
  <2>. QED  BY <1>1, <2>1, <2>2 DEF Asked, Merging, Settles
<1>. QED  BY <1>2, <1>3, <1>4

\* What an answer changes for the tabs.
LEMMA AnswerReaches ==
    ASSUME GuestTypeOK, NEW m \in inbox, NEW accepted, Answer(m, accepted),
           NEW t \in Merging'
    PROVE  /\ t \in Merging
           /\ merge'[t].key = merge[t].key /\ merge'[t].items = merge[t].items
           /\ \/ merge'[t] = merge[t]
              \/ /\ merge[t].key = m.key /\ merge[t].items = m.items
                 /\ merge'[t].accepted = accepted
<1>0. merge \in [Tabs -> MergeRow]
  BY DEF GuestTypeOK, MergeRow
<1>1. CASE UNCHANGED merge
  BY <1>1 DEF Merging
<1>2. ASSUME NEW u \in Tabs,
             merge[u] = [NoMerge EXCEPT !.stage = "sent", !.key = m.key, !.items = m.items],
             merge' = [merge EXCEPT ![u].stage = "answered", ![u].accepted = accepted]
      PROVE  /\ t \in Merging
             /\ merge'[t].key = merge[t].key /\ merge'[t].items = merge[t].items
             /\ \/ merge'[t] = merge[t]
                \/ /\ merge[t].key = m.key /\ merge[t].items = m.items
                   /\ merge'[t].accepted = accepted
  <2>1. /\ merge[u] \in MergeRow /\ merge[u].stage = "sent"
        /\ merge[u].key = m.key /\ merge[u].items = m.items
    BY <1>0, <1>2, NoMergeRow DEF MergeRow
  <2>2. merge' = [merge EXCEPT ![u] = [merge[u] EXCEPT !.stage = "answered",
                                                       !.accepted = accepted]]
    BY <1>0, <1>2
  <2>3. /\ merge'[u].key = merge[u].key /\ merge'[u].items = merge[u].items
        /\ merge'[u].accepted = accepted
        /\ \A w \in Tabs \ {u} : merge'[w] = merge[w]
    BY <1>0, <2>1, <2>2 DEF MergeRow
  <2>4. t \in Tabs
    BY DEF Merging
  <2>5. CASE t = u
    BY <2>1, <2>3, <2>4, <2>5 DEF Merging
  <2>6. CASE t # u
    BY <2>3, <2>4, <2>6 DEF Merging
  <2>. QED  BY <2>5, <2>6
<1>. QED  BY <1>1, <1>2 DEF Answer

\* The server answers what it settled.
LEMMA ServerAsked ==
    ASSUME GuestTypeOK, Asked,
           \/ \E m \in inbox : Replay(m) \/ Merge(m)
           \/ EmptyCart \/ \E v \in Variants : StockChanges(v)
    PROVE  Asked'
<1>1. ASSUME NEW m \in inbox, Replay(m)
      PROVE  Asked'
  <2>1. /\ Answer(m, receipt[m.key].accepted) /\ receipt' = receipt
        /\ Settles(m.key, m.items) /\ inbox' \subseteq inbox
    BY <1>1 DEF Replay, HasReceipt, Settles, Answer
  <2>2. ASSUME NEW t \in Merging'
        PROVE  /\ merge'[t].key \in Keys /\ merge'[t].items # Nothing'
               /\ merge'[t].stage = "answered" =>
                     /\ Settles(merge[t].key, merge[t].items)'
                     /\ merge'[t].accepted = receipt'[merge'[t].key].accepted
    <3>1. /\ t \in Merging
          /\ merge'[t].key = merge[t].key /\ merge'[t].items = merge[t].items
          /\ \/ merge'[t] = merge[t]
             \/ /\ merge[t].key = m.key /\ merge[t].items = m.items
                /\ merge'[t].accepted = receipt[m.key].accepted
      BY <2>1, AnswerReaches
    <3>. QED  BY <2>1, <3>1 DEF Asked, Settles, Nothing
  <2>. QED  BY <2>1, <2>2 DEF Asked
<1>2. ASSUME NEW m \in inbox, Merge(m)
      PROVE  Asked'
  <2> DEFINE accepted == [v \in Variants |-> Accepted(m, v)]
  <2>1. /\ receipt' = [receipt EXCEPT ![m.key] = [items |-> m.items, accepted |-> accepted]]
        /\ Answer(m, accepted) /\ inbox' \subseteq inbox
    BY <1>2 DEF Merge, Answer
  <2>. HIDE DEF accepted
  <2>2. receipt'[m.key].items = m.items /\ receipt'[m.key].accepted = accepted
    BY <2>1 DEF GuestTypeOK
  <2>3. ASSUME NEW t \in Merging'
        PROVE  /\ merge'[t].key \in Keys /\ merge'[t].items # Nothing'
               /\ merge'[t].stage = "answered" =>
                     /\ receipt'[merge'[t].key].items = merge'[t].items
                     /\ merge'[t].accepted = receipt'[merge'[t].key].accepted
    <3>1. /\ t \in Merging
          /\ merge'[t].key = merge[t].key /\ merge'[t].items = merge[t].items
          /\ \/ merge'[t] = merge[t]
             \/ /\ merge[t].key = m.key /\ merge[t].items = m.items
                /\ merge'[t].accepted = accepted
      BY <2>1, AnswerReaches
    <3>2. merge[t].key \in Keys /\ merge[t].items # Nothing
      BY <3>1 DEF Asked
    <3>3. CASE merge'[t] = merge[t] /\ merge[t].stage = "answered"
      <4>1. /\ Settles(merge[t].key, merge[t].items)
            /\ merge[t].accepted = receipt[merge[t].key].accepted
        BY <3>1, <3>3 DEF Asked
      <4>2. receipt'[merge[t].key] = receipt[merge[t].key]
        BY <1>2, <3>2, <4>1, SettledOnce
      <4>. QED  BY <3>1, <3>2, <3>3, <4>1, <4>2 DEF Settles, Nothing
    <3>4. CASE /\ merge[t].key = m.key /\ merge[t].items = m.items
               /\ merge'[t].accepted = accepted
      BY <2>2, <3>1, <3>2, <3>4 DEF Nothing
    <3>. QED  BY <3>1, <3>2, <3>3, <3>4 DEF Nothing
  <2>. QED  BY <2>1, <2>3 DEF Asked, Settles
<1>3. CASE EmptyCart \/ \E v \in Variants : StockChanges(v)
  <2>1. UNCHANGED <<merge, inbox, receipt>>
    BY <1>3 DEF EmptyCart, StockChanges, browserVars
  <2>. QED  BY <2>1 DEF Asked, Merging, Settles
<1>. QED  BY <1>1, <1>2, <1>3

\* Taking the units of one key out of the units merged under all of them.
LEMMA MergedUnder ==
    ASSUME GuestTypeOK, NEW k \in Keys, NEW v \in Variants
    PROVE  LET w == [j \in Keys |-> receipt[j].accepted[v]]
           IN  SumFunctionOnSet(w, Keys) = receipt[k].accepted[v] + SumFunctionOnSet(w, Keys \ {k})
<1> DEFINE w == [j \in Keys |-> receipt[j].accepted[v]]
<1>1. \A j \in Keys : w[j] \in Int
  BY DEF GuestTypeOK, Quantities, Quantity
<1>2. IsFiniteSet(Keys)
  BY GuestAssumption DEF GuestAssumption
<1>3. w[k] = receipt[k].accepted[v]
  OBVIOUS
<1>. HIDE DEF w
<1>4. SumFunctionOnSet(w, Keys) = w[k] + SumFunctionOnSet(w, Keys \ {k})
  BY <1>1, <1>2, SumRemove
<1>. QED  BY <1>3, <1>4 DEF w

\* The units merged under the keys that are not pending are a number.
LEMMA MergedInt ==
    ASSUME GuestTypeOK, NEW v \in Variants
    PROVE  Merged(v) \in Int
<1> DEFINE w == [j \in Keys |-> receipt[j].accepted[v]]
           S == Keys \ {storage.key}
<1>1. \A j \in S : w[j] \in Int
  BY DEF GuestTypeOK, Quantities, Quantity
<1>2. IsFiniteSet(S)
  BY GuestAssumption, FS_Subset DEF GuestAssumption
<1>. HIDE DEF w, S
<1>3. SumFunctionOnSet(w, S) \in Int
  BY <1>1, <1>2, SumInt
<1>. QED  BY <1>3 DEF Merged, w, S

\* A step that touches neither storage nor tabs, requests and receipts keeps
\* the count.
LEMMA LedgerUnchanged ==
    ASSUME Ledger, UNCHANGED <<storage, merge, inbox, receipt, put>>
    PROVE  Ledger'
<1>1. \A v \in Variants : Merged(v)' = Merged(v)
  BY DEF Merged
<1>. QED  BY <1>1 DEF Ledger, Merging, Settles

\* As long as neither flag is set, the browser's steps keep the count.
LEMMA BrowserLedger ==
    ASSUME GuestTypeOK, OneContent, Asked, ~unkeyed /\ ~overwritten => Ledger,
           ~unkeyed', ~overwritten', NEW t \in Tabs,
           \/ SignIn(t) \/ SignOut(t) \/ StartMerge(t) \/ GiveUp(t) \/ ApplyAnswer(t)
           \/ \E v \in Variants : EditGuestCart(t, v)
    PROVE  Ledger'
<1>0. /\ merge \in [Tabs -> MergeRow] /\ "none" \notin Keys
      /\ storage \in [items: Quantities, key: Keys \cup {"none"}]
      /\ inbox \subseteq [key: Keys, items: Quantities]
  BY GuestAssumption DEF GuestTypeOK, MergeRow, GuestAssumption
<1>1. receipt' = receipt
  BY DEF SignIn, SignOut, StartMerge, GiveUp, ApplyAnswer, EditGuestCart, serverVars
<1>2. Ledger
  BY DEF SignIn, SignOut, StartMerge, GiveUp, ApplyAnswer, EditGuestCart, history
<1>3. CASE SignIn(t) \/ SignOut(t)
  <2>1. UNCHANGED <<storage, merge, inbox, put>>
    BY <1>3 DEF SignIn, SignOut
  <2>. QED  BY <1>1, <1>2, <2>1, LedgerUnchanged
<1>4. CASE GiveUp(t)
  <2>1. UNCHANGED <<storage, inbox, put>> /\ merge' = [merge EXCEPT ![t] = NoMerge]
    BY <1>4 DEF GiveUp
  <2>2. t \notin Merging' /\ \A u \in Tabs \ {t} : merge'[u] = merge[u]
    BY <1>0, <2>1, Empties DEF Merging
  <2>3. \A v \in Variants : Merged(v)' = Merged(v)
    BY <1>1, <2>1 DEF Merged
  <2>4. ASSUME NEW u \in Merging'
        PROVE  merge'[u].key = storage'.key \/ Settles(merge[u].key, merge[u].items)'
    <3>1. u \in Merging /\ merge'[u] = merge[u]
      BY <2>2 DEF Merging
    <3>2. merge[u].key = storage.key \/ Settles(merge[u].key, merge[u].items)
      BY <1>2, <3>1 DEF Ledger
    <3>. QED  BY <1>1, <2>1, <3>1, <3>2 DEF Settles
  <2>. QED  BY <1>1, <1>2, <2>1, <2>3, <2>4 DEF Ledger, Settles
<1>5. CASE StartMerge(t)
  <2>1. PICK k \in Keys :
          /\ IF storage.key = "none" THEN k \in FreshKeys ELSE k = storage.key
          /\ storage' = [storage EXCEPT !.key = k]
          /\ merge' = [merge EXCEPT ![t] = [NoMerge EXCEPT
                          !.stage = "sent", !.key = k, !.items = storage.items]]
          /\ inbox' = inbox \cup {[key |-> k, items |-> storage.items]}
    BY <1>5 DEF StartMerge
  <2>2. storage'.key = k /\ storage'.items = storage.items /\ put' = put
    BY <1>0, <1>5, <2>1 DEF StartMerge
  <2>3. /\ merge'[t].key = k /\ merge'[t].items = storage.items
        /\ \A u \in Tabs \ {t} : merge'[u] = merge[u]
    BY <1>0, <2>1, NoMergeRow DEF MergeRow
  <2>5. ASSUME NEW u \in Merging'
        PROVE  merge'[u].key = storage'.key \/ Settles(merge[u].key, merge[u].items)'
    <3>1. CASE u = t
      BY <2>2, <2>3, <3>1
    <3>2. CASE u # t
      <4>1. u \in Merging /\ merge'[u] = merge[u]
        BY <2>3, <3>2 DEF Merging
      <4>2. merge[u].key \in Keys
            /\ (merge[u].key = storage.key \/ Settles(merge[u].key, merge[u].items))
        BY <1>2, <4>1 DEF Ledger, Asked
      <4>. QED  BY <1>0, <1>1, <2>1, <2>2, <4>1, <4>2 DEF Settles
    <3>. QED  BY <3>1, <3>2
  <2>6. \A m \in inbox' : m.key = storage'.key \/ Settles(m.key, m.items)'
    BY <1>0, <1>1, <1>2, <2>1, <2>2 DEF Ledger, Settles
  <2>7. ASSUME NEW v \in Variants
        PROVE  Merged(v)' = Merged(v)
    <3>1. CASE storage.key # "none"
      BY <1>1, <2>1, <2>2, <3>1 DEF Merged
    <3>2. CASE storage.key = "none"
      <4> DEFINE w == [j \in Keys |-> receipt[j].accepted[v]]
      <4>1. receipt[k].accepted[v] = 0
        BY <2>1, <3>2, Empties DEF FreshKeys, NoReceipt
      <4>2. SumFunctionOnSet(w, Keys) = receipt[k].accepted[v]
                                          + SumFunctionOnSet(w, Keys \ {k})
        BY MergedUnder
      <4>3. Merged(v) = SumFunctionOnSet(w, Keys)
        <5>1. Keys \ {storage.key} = Keys
          BY <1>0, <3>2
        <5>. QED  BY <5>1 DEF Merged
      <4>4. Merged(v)' = SumFunctionOnSet(w, Keys \ {k})
        BY <1>1, <2>2 DEF Merged
      <4>5. SumFunctionOnSet(w, Keys \ {k}) \in Int
        <5>1. IsFiniteSet(Keys \ {k}) /\ \A j \in Keys \ {k} : w[j] \in Int
          BY GuestAssumption, FS_Subset DEF GuestAssumption, GuestTypeOK, Quantities, Quantity
        <5>. HIDE DEF w
        <5>. QED  BY <5>1, SumInt
      <4>. HIDE DEF w
      <4>. QED  BY <4>1, <4>2, <4>3, <4>4, <4>5
    <3>. QED  BY <3>1, <3>2
  <2>. QED  BY <1>2, <2>2, <2>5, <2>6, <2>7 DEF Ledger
<1>6. CASE ApplyAnswer(t)
  <2> DEFINE k == merge[t].key
  <2>1. /\ storage' = [items |-> Remaining(merge[t]), key |-> "none"]
        /\ merge' = [merge EXCEPT ![t] = NoMerge] /\ merge[t].stage = "answered"
        /\ UNCHANGED <<inbox, put>> /\ t \in Merging
    BY <1>6 DEF ApplyAnswer, Merging
  <2>2. /\ k \in Keys /\ Settles(k, merge[t].items) /\ merge[t].accepted = receipt[k].accepted
        /\ merge[t].items # Nothing
    BY <2>1 DEF Asked
  <2>3. storage.key = k \/ storage' = storage
    BY <1>6 DEF ApplyAnswer
  <2>4. t \notin Merging' /\ \A u \in Tabs \ {t} : merge'[u] = merge[u]
    BY <1>0, <2>1, Empties DEF Merging
  <2>5. /\ storage'.key = "none"
        /\ \A v \in Variants : storage'.items[v] = merge[t].items[v] - receipt[k].accepted[v]
    BY <2>1, <2>2 DEF Remaining
  \* Whoever holds this key, in a tab, on the way or in the storage, holds these items.
  <2>6. \A items : Sent(k, items) => items = merge[t].items
    <3>1. Sent(k, merge[t].items)
      BY <2>1 DEF Sent
    <3>. QED  BY <3>1 DEF OneContent
  <2>7. \A u \in Merging' : Settles(merge[u].key, merge[u].items)'
    <3>1. ASSUME NEW u \in Merging'
          PROVE  Settles(merge[u].key, merge[u].items)'
      <4>1. u \in Merging /\ merge'[u] = merge[u]
        BY <2>4 DEF Merging
      <4>2. merge[u].key \in Keys
            /\ (merge[u].key = storage.key \/ Settles(merge[u].key, merge[u].items))
        BY <1>2, <4>1 DEF Ledger, Asked
      <4>3. CASE merge[u].key = k
        <5>1. Sent(k, merge[u].items)
          BY <4>1, <4>3 DEF Sent
        <5>. QED  BY <1>1, <2>2, <2>6, <4>1, <4>3, <5>1 DEF Settles
      <4>4. CASE merge[u].key # k
        BY <1>0, <1>1, <2>3, <2>5, <4>1, <4>2, <4>4 DEF Settles
      <4>. QED  BY <4>3, <4>4
    <3>. QED  BY <3>1
  <2>8. \A m \in inbox' : Settles(m.key, m.items)'
    <3>1. ASSUME NEW m \in inbox'
          PROVE  Settles(m.key, m.items)'
      <4>1. m \in inbox /\ m.key \in Keys /\ (m.key = storage.key \/ Settles(m.key, m.items))
        BY <1>0, <1>2, <2>1 DEF Ledger
      <4>2. CASE m.key = k
        <5>1. Sent(k, m.items)
          BY <4>1, <4>2 DEF Sent
        <5>. QED  BY <1>1, <2>2, <2>6, <4>2, <5>1 DEF Settles
      <4>3. CASE m.key # k
        BY <1>0, <1>1, <2>3, <2>5, <4>1, <4>3 DEF Settles
      <4>. QED  BY <4>2, <4>3
    <3>. QED  BY <3>1
  <2>9. ASSUME NEW v \in Variants
        PROVE  put'[v] = storage'.items[v] + Merged(v)'
    <3>1. CASE storage' = storage
      <4>1. Merged(v)' = Merged(v)
        BY <1>1, <3>1 DEF Merged
      <4>. QED  BY <1>2, <2>1, <3>1, <4>1 DEF Ledger
    <3>2. CASE storage.key = k
      <4> DEFINE w == [j \in Keys |-> receipt[j].accepted[v]]
      <4>1. SumFunctionOnSet(w, Keys) = receipt[k].accepted[v]
                                          + SumFunctionOnSet(w, Keys \ {k})
        BY <2>2, MergedUnder
      <4>2. Merged(v) = SumFunctionOnSet(w, Keys \ {k})
        BY <3>2 DEF Merged
      <4>3. Merged(v)' = SumFunctionOnSet(w, Keys)
        <5>1. Keys \ {storage'.key} = Keys
          BY <1>0, <2>5
        <5>. QED  BY <1>1, <5>1 DEF Merged
      <4>4. /\ put[v] = storage.items[v] + Merged(v) /\ Merged(v) \in Int
            /\ storage.items[v] \in Int /\ receipt[k].accepted[v] \in Int
        BY <1>0, <1>2, <2>2, MergedInt DEF Ledger, GuestTypeOK, Quantities, Quantity
      <4>5. storage.items = merge[t].items
        <5>1. Sent(k, storage.items)
          BY <1>0, <2>2, <3>2 DEF Sent
        <5>. QED  BY <2>6, <5>1
      <4>6. put'[v] = put[v] /\ storage'.items[v] = storage.items[v] - receipt[k].accepted[v]
        BY <2>1, <2>5, <4>5
      <4>. HIDE DEF w, k
      <4>. QED  BY <4>1, <4>2, <4>3, <4>4, <4>6
    <3>. QED  BY <2>3, <3>1, <3>2
  <2>. QED  BY <1>2, <2>1, <2>7, <2>8, <2>9 DEF Ledger
<1>7. ASSUME NEW v \in Variants, EditGuestCart(t, v)
      PROVE  Ledger'
  <2>1. PICK q \in Quantity : /\ storage' = Edit(v, q)
                              /\ put' = [put EXCEPT ![v] = @ + q - storage.items[v]]
    BY <1>7 DEF EditGuestCart
  <2>2. storage.key = "none" /\ UNCHANGED <<merge, inbox>>
    BY <1>7 DEF EditGuestCart
  <2>3. storage'.key = "none" /\ storage'.items = [storage.items EXCEPT ![v] = q]
    BY <2>1 DEF Edit
  <2>4. put \in [Variants -> Int] /\ storage.items \in [Variants -> Int] /\ q \in Int
    BY <1>0, <1>2 DEF Ledger, Quantities, Quantity
  <2>5. put' \in [Variants -> Int]
    BY <2>1, <2>4
  <2>6. ASSUME NEW u \in Variants
        PROVE  put'[u] = storage'.items[u] + Merged(u)'
    <3>1. Merged(u)' = Merged(u) /\ Merged(u) \in Int /\ put[u] = storage.items[u] + Merged(u)
      BY <1>1, <1>2, <2>2, <2>3, MergedInt DEF Merged, Ledger
    <3>2. CASE u = v
      BY <2>1, <2>3, <2>4, <3>1, <3>2
    <3>3. CASE u # v
      BY <2>1, <2>3, <2>4, <3>1, <3>3
    <3>. QED  BY <3>2, <3>3
  <2>. QED  BY <1>1, <1>2, <2>2, <2>3, <2>5, <2>6 DEF Ledger, Merging, Settles
<1>. QED  BY <1>3, <1>4, <1>5, <1>6, <1>7

\* As long as neither flag is set, the server's steps keep the count: only the
\* pending key can be given a receipt, and its units are still in the storage.
LEMMA ServerLedger ==
    ASSUME GuestTypeOK, Asked, ~unkeyed /\ ~overwritten => Ledger,
           ~unkeyed', ~overwritten',
           \/ \E m \in inbox : Replay(m) \/ Merge(m)
           \/ EmptyCart \/ \E v \in Variants : StockChanges(v)
    PROVE  Ledger'
<1>0. "none" \notin Keys /\ inbox \subseteq [key: Keys, items: Quantities]
  BY GuestAssumption DEF GuestTypeOK, GuestAssumption
<1>1. UNCHANGED <<storage, put, unkeyed, overwritten>>
  BY DEF Replay, Merge, Answer, EmptyCart, StockChanges, browserVars, history
<1>2. Ledger
  BY <1>1
<1>3. ASSUME NEW m \in inbox, Replay(m)
      PROVE  Ledger'
  <2>1. /\ Answer(m, receipt[m.key].accepted) /\ receipt' = receipt /\ inbox' \subseteq inbox
    BY <1>3 DEF Replay, Answer
  <2>2. \A v \in Variants : Merged(v)' = Merged(v)
    BY <1>1, <2>1 DEF Merged
  <2>3. ASSUME NEW t \in Merging'
        PROVE  merge'[t].key = storage'.key \/ Settles(merge[t].key, merge[t].items)'
    <3>1. t \in Merging /\ merge'[t].key = merge[t].key /\ merge'[t].items = merge[t].items
      BY <2>1, AnswerReaches
    <3>2. merge[t].key = storage.key \/ Settles(merge[t].key, merge[t].items)
      BY <1>2, <3>1 DEF Ledger
    <3>. QED  BY <1>1, <2>1, <3>1, <3>2 DEF Settles
  <2>. QED  BY <1>1, <1>2, <2>1, <2>2, <2>3 DEF Ledger, Settles
<1>4. ASSUME NEW m \in inbox, Merge(m)
      PROVE  Ledger'
  <2> DEFINE accepted == [v \in Variants |-> Accepted(m, v)]
  <2>1. /\ receipt' = [receipt EXCEPT ![m.key] = [items |-> m.items, accepted |-> accepted]]
        /\ Answer(m, accepted) /\ inbox' \subseteq inbox
    BY <1>4 DEF Merge, Answer
  <2>. HIDE DEF accepted
  <2>2. m.items # Nothing /\ ~Settles(m.key, m.items)
    BY <1>4 DEF Asked, Merge, HasReceipt, Settles
  <2>3. m.key = storage.key /\ m.key \in Keys /\ storage.key # "none"
    BY <1>0, <1>2, <2>2 DEF Ledger
  <2>4. \A k \in Keys \ {m.key} : receipt'[k] = receipt[k]
    BY <2>1, <2>3 DEF GuestTypeOK
  <2>5. ASSUME NEW v \in Variants
        PROVE  Merged(v)' = Merged(v)
    <3> DEFINE w == [k \in Keys |-> receipt[k].accepted[v]]
               x == [k \in Keys |-> receipt'[k].accepted[v]]
               S == Keys \ {storage.key}
    <3>1. \A k \in S : w[k] = x[k]
      BY <2>3, <2>4
    <3>2. IsFiniteSet(S)
      BY GuestAssumption, FS_Subset DEF GuestAssumption
    <3>3. Merged(v) = SumFunctionOnSet(w, S) /\ Merged(v)' = SumFunctionOnSet(x, S)
      BY <1>1 DEF Merged
    <3>. HIDE DEF w, x, S
    <3>. QED  BY <3>1, <3>2, <3>3, SumAgrees
  <2>6. ASSUME NEW t \in Merging'
        PROVE  merge'[t].key = storage'.key \/ Settles(merge[t].key, merge[t].items)'
    <3>1. t \in Merging /\ merge'[t].key = merge[t].key /\ merge'[t].items = merge[t].items
      BY <2>1, AnswerReaches
    <3>2. /\ merge[t].key \in Keys
          /\ merge[t].key = storage.key \/ Settles(merge[t].key, merge[t].items)
      BY <1>2, <3>1 DEF Ledger, Asked
    <3>. QED  BY <1>1, <2>3, <2>4, <3>1, <3>2 DEF Settles
  <2>7. ASSUME NEW n \in inbox'
        PROVE  n.key = storage'.key \/ Settles(n.key, n.items)'
    <3>1. n \in inbox /\ n.key \in Keys /\ (n.key = storage.key \/ Settles(n.key, n.items))
      BY <1>0, <1>2, <2>1 DEF Ledger
    <3>. QED  BY <1>1, <2>3, <2>4, <3>1 DEF Settles
  <2>. QED  BY <1>1, <1>2, <2>5, <2>6, <2>7 DEF Ledger
<1>5. CASE EmptyCart \/ \E v \in Variants : StockChanges(v)
  <2>1. UNCHANGED <<merge, inbox, receipt>>
    BY <1>5 DEF EmptyCart, StockChanges, browserVars
  <2>. QED  BY <1>1, <1>2, <2>1, LedgerUnchanged
<1>. QED  BY <1>3, <1>4, <1>5

\* CountInv holds initially: nothing was put into the guest cart.
LEMMA CountInit == GuestInit => CountInv
<1> SUFFICES ASSUME GuestInit PROVE CountInv
  OBVIOUS
<1>1. Merging = {} /\ inbox = {} /\ put = Nothing /\ storage.items = Nothing
      /\ storage.key = "none"
  BY Empties DEF GuestInit, Merging
<1>2. ASSUME NEW v \in Variants
      PROVE  Merged(v) = 0
  <2> DEFINE w == [k \in Keys |-> receipt[k].accepted[v]]
             S == Keys \ {storage.key}
  <2>1. \A k \in S : w[k] = 0
    BY Empties DEF GuestInit, NoReceipt
  <2>2. IsFiniteSet(S)
    BY GuestAssumption, FS_Subset DEF GuestAssumption
  <2>. HIDE DEF w, S
  <2>3. SumFunctionOnSet(w, S) = 0
    BY <2>1, <2>2, SumZero
  <2>. QED  BY <2>3 DEF w, S, Merged
<1>3. Nothing \in [Variants -> Int]
  BY DEF Nothing
<1>4. Asked
  BY <1>1 DEF Asked
<1>5. Ledger
  BY <1>1, <1>2, <1>3, Empties DEF Ledger
<1>. QED  BY <1>4, <1>5 DEF CountInv

\* Every step preserves CountInv.
LEMMA CountStep == GuestInv /\ CountInv /\ [GuestNext]_guestVars => CountInv'
<1> SUFFICES ASSUME GuestInv, CountInv, [GuestNext]_guestVars PROVE CountInv'
  OBVIOUS
<1>0. GuestTypeOK /\ OneContent /\ Asked /\ (~unkeyed /\ ~overwritten => Ledger)
  BY DEF GuestInv, CountInv
<1>1. CASE UNCHANGED guestVars
  <2>1. Asked'
    BY <1>0, <1>1 DEF guestVars, Asked, Merging, Settles
  <2>. QED  BY <1>0, <1>1, <2>1, LedgerUnchanged DEF CountInv, guestVars, history
<1>2. ASSUME NEW t \in Tabs,
             \/ SignIn(t) \/ SignOut(t) \/ StartMerge(t) \/ GiveUp(t) \/ ApplyAnswer(t)
             \/ \E v \in Variants : EditGuestCart(t, v)
      PROVE  CountInv'
  BY <1>0, <1>2, BrowserAsked, BrowserLedger DEF CountInv
<1>3. CASE \/ \E m \in inbox : Replay(m) \/ Merge(m)
           \/ EmptyCart \/ \E v \in Variants : StockChanges(v)
  BY <1>0, <1>3, ServerAsked, ServerLedger DEF CountInv
<1>. QED  BY <1>1, <1>2, <1>3 DEF GuestNext

-------------------------------------------------------------------------------
(* The properties *)

\* Quantities, merges and receipts keep their types: no storage holds a negative
\* quantity and no cart more than the limit of a line.
THEOREM GuestTypes == GuestSpec => []GuestTypeOK
  BY GuestInvariance, PTL DEF GuestInv

\* A merge key stands for one content in the storage, in every tab, on the way
\* and on the server, whatever requests are repeated, late or lost.
THEOREM OneContentPerKey == GuestSpec => []KeyHasOneContent
  BY GuestInvariance, ContentRead, PTL DEF GuestInv

\* Every unit put into the guest cart is in the storage or was merged once,
\* whatever answers are lost and however often and late the requests are executed,
\* in any number of tabs, as long as no edit dropped the key of a merge whose
\* outcome was open and no answer was written over a guest cart that had been
\* merged or edited since it was asked for.
THEOREM EveryUnitIsCounted == GuestSpec => []UnitsAreCounted
<1>1. CountInv => UnitsAreCounted
  BY DEF CountInv, Ledger, Merged, UnitsAreCounted
<1>2. GuestSpec => []CountInv
  BY GuestInvariance, CountInit, CountStep, PTL DEF GuestSpec
<1>. QED  BY <1>1, <1>2, PTL

\* A merge never brings a line of the cart above the stock or its limit.
THEOREM StockRespected == GuestSpec => MergeWithinStock
<1>1. ASSUME GuestInv, [GuestNext]_guestVars
      PROVE  [\A v \in Variants : cart'[v] > cart[v]
                 => cart'[v] <= Min({stock[v], MaxQuantity})]_guestVars
  <2> SUFFICES ASSUME NEW v \in Variants, cart'[v] > cart[v]
               PROVE  cart'[v] <= Min({stock[v], MaxQuantity})
    OBVIOUS
  <2>1. /\ GuestTypeOK /\ cart[v] \in Quantity /\ stock[v] \in 0 .. MaxStock
        /\ MaxQuantity \in Nat /\ MaxStock \in Nat
    BY <1>1, GuestAssumption DEF GuestInv, GuestTypeOK, Quantities, GuestAssumption
  <2>2. cart'[v] # cart[v]
    BY <2>1 DEF Quantity
  <2>3. ~EmptyCart
    BY <2>1, Empties DEF EmptyCart, Quantity
  <2>4. \E m \in inbox : Merge(m)
    BY <1>1, <2>2, <2>3 DEF GuestNext, guestVars, serverVars, SignIn, SignOut, StartMerge,
       GiveUp, ApplyAnswer, EditGuestCart, Replay, StockChanges
  <2>5. PICK m \in inbox : cart'[v] = cart[v] + Accepted(m, v)
    BY <2>4 DEF Merge
  <2>6. /\ Accepted(m, v) \in Quantity /\ cart[v] + Accepted(m, v) \in Quantity
        /\ Accepted(m, v) > 0 => cart[v] + Accepted(m, v) <= stock[v]
    BY <2>1, AcceptedBounds
  <2>7. cart'[v] <= stock[v] /\ cart'[v] <= MaxQuantity
    BY <2>1, <2>5, <2>6 DEF Quantity
  <2>8. stock[v] \in Int /\ MaxQuantity \in Int
    BY <2>1
  <2>. QED  BY <2>7, <2>8, MinOfTwo
<1>. QED  BY <1>1, GuestInvariance, PTL DEF GuestSpec, MergeWithinStock
-------------------------------------------------------------------------------
(* The shop's page: the list *)

ListRequest == [query : Query, current : BOOLEAN]
ShownList == [loading : BOOLEAN, products : SUBSET Products, count : Nat, error : BOOLEAN]

\* The list and its requests: the one that is current asks for the query in the URL.
ListInv ==
    /\ query \in Query /\ shown \in ShownList /\ requests \subseteq ListRequest
    /\ answers \in Query \cup {None}
    /\ \A r \in requests : r.current => r.query = query
    /\ ListIsTheQuerys

\* The field and the filters' options.
FieldInv ==
    /\ input \in Text /\ sync \in BOOLEAN /\ typed \in BOOLEAN
    /\ facets \in {"loading", "shown", "failed"}
    /\ SearchIsTyped

ShelfInv == active \subseteq Products /\ open \subseteq Categories

\* A list has one page at least.
LEMMA SomePage == ASSUME NEW n \in Nat PROVE Pages(n) \in Nat \ {0}
<1>1. CASE n = 0
  BY <1>1 DEF Pages
<1>2. CASE n # 0
  <2>1. PAGE \in Nat \ {0}
    BY CatalogueAssumption DEF CatalogueAssumption
  <2>2. PICK k \in Nat \ {0} : k = PAGE
    BY <2>1
  <2>3. (n + k - 1) \div k \in Nat \ {0}
    BY <1>2
  <2>. QED  BY <1>2, <2>2, <2>3 DEF Pages
<1>. QED  BY <1>1, <1>2

\* The correction of a page lands on a query with the same text and filter.
LEMMA Lands ==
    ASSUME NEW q \in Query, shown \in ShownList
    PROVE  Corrected(q) \in Query /\ Corrected(q).search = q.search
<1>1. CASE Corrected(q) = q
  BY <1>1
<1>2. CASE Corrected(q) # q
  <2>1. Corrected(q) = [q EXCEPT !.page = Pages(shown.count)] /\ q.page > Pages(shown.count)
    BY <1>2 DEF Corrected
  <2>2. PICK k \in Nat \ {0} : k = Pages(shown.count)
    BY SomePage DEF ShownList
  <2>3. q.page \in 1 .. MAX_PAGE /\ MAX_PAGE \in Nat
    BY CatalogueAssumption DEF Query, CatalogueAssumption
  <2>4. k \in 1 .. MAX_PAGE
    BY <2>1, <2>2, <2>3
  <2>. QED  BY <2>1, <2>2, <2>4 DEF Query
<1>. QED  BY <1>1, <1>2

\* No superseded request is current.
LEMMA Supersedes ==
    ASSUME requests \subseteq ListRequest
    PROVE  Superseded \subseteq ListRequest /\ \A r \in Superseded : ~r.current
<1>1. ASSUME NEW r \in requests
      PROVE  [r EXCEPT !.current = FALSE] \in ListRequest
             /\ ~[r EXCEPT !.current = FALSE].current
  BY DEF ListRequest
<1>. QED  BY <1>1 DEF Superseded

\* What a page shows after a reply, after an error and before the first reply.
LEMMA Shows ==
    /\ Waiting \in ShownList /\ Waiting.loading
    /\ [Waiting EXCEPT !.loading = FALSE] \in ShownList
    /\ [Waiting EXCEPT !.loading = FALSE].products = {}
    /\ Showing(Refused) \in ShownList /\ Showing(Refused).products = {}
    /\ ~Showing(Refused).loading
  BY DEF Waiting, ShownList, Showing, Refused

\* The effect that runs when the query changes leaves the list empty, and at
\* most the request for the new query current.
LEMMA Fetched ==
    ASSUME ListInv, NEW q \in Query, Fetch(q), query' = q
    PROVE  ListInv'
<1>1. Superseded \subseteq ListRequest /\ \A r \in Superseded : ~r.current
  BY Supersedes DEF ListInv
<1>2. CASE q.filter = Inverted
  <2>1. /\ shown' = Showing(Refused) /\ requests' = Superseded /\ answers' = q
    BY <1>2 DEF Fetch
  <2>. QED  BY <1>1, <2>1, Shows DEF ListInv, ListIsTheQuerys
<1>3. CASE q.filter # Inverted
  <2>1. /\ shown' = [shown EXCEPT !.loading = TRUE, !.products = {}, !.error = FALSE]
        /\ requests' = Superseded \cup {Request(q)} /\ answers' = None
    BY <1>3 DEF Fetch
  <2>2. shown' \in ShownList /\ shown'.loading
    BY <2>1 DEF ListInv, ShownList
  <2>3. Request(q) \in ListRequest /\ Request(q).query = q
    BY DEF Request, ListRequest
  <2>. QED  BY <1>1, <2>1, <2>2, <2>3 DEF ListInv, ListIsTheQuerys
<1>. QED  BY <1>2, <1>3

\* A change of the URL keeps what the list says of the query, and the field's
\* text that of the query or of the customer.
LEMMA Navigates ==
    ASSUME ListInv, NEW q \in Query, Navigate(q)
    PROVE  /\ ListInv'
           /\ query' = Corrected(q)
           /\ FieldInv /\ UNCHANGED <<input, facets>> => FieldInv'
<1>1. /\ query' = Corrected(q) /\ query' \in Query
      /\ query'.search = q.search
      /\ IF q = query /\ query' = q THEN UNCHANGED <<shown, requests, answers>> ELSE Fetch(query')
      /\ sync' = (sync \/ query'.search # query.search)
      /\ typed' = (typed /\ query'.search = query.search)
  BY Lands DEF Navigate, ListInv
<1>2. ListInv'
  <2>1. CASE q = query /\ query' = q
    BY <1>1, <2>1 DEF ListInv, ListIsTheQuerys
  <2>2. CASE ~(q = query /\ query' = q)
    <3>1. PICK landed \in Query : landed = query'
      BY <1>1
    <3>. QED  BY <1>1, <2>2, <3>1, Fetched
  <2>. QED  BY <2>1, <2>2
<1>3. ASSUME FieldInv, UNCHANGED <<input, facets>>
      PROVE  FieldInv'
  BY <1>1, <1>3 DEF FieldInv, SearchIsTyped, TextOf
<1>. QED  BY <1>1, <1>2, <1>3

\* A new page shows the text of its query and waits for the list.
LEMMA Visits ==
    ASSUME ListInv, NEW q \in Query, Visit(q)
    PROVE  ListInv' /\ FieldInv'
<1>1. Superseded \subseteq ListRequest /\ \A r \in Superseded : ~r.current
  BY Supersedes DEF ListInv
<1>2. query' = q /\ input' = TextOf(q) /\ sync' = FALSE /\ typed' = FALSE /\ facets' = "loading"
  BY DEF Visit
<1>3. TextOf(q) \in Text
  BY DEF TextOf, Text, Query
<1>4. FieldInv'
  BY <1>2, <1>3 DEF FieldInv, SearchIsTyped, TextOf
<1>5. CASE q.filter = Inverted
  <2>1. shown' = Showing(Refused) /\ requests' = Superseded /\ answers' = q
    BY <1>5 DEF Visit
  <2>. QED  BY <1>1, <1>2, <1>4, <2>1, Shows DEF ListInv, ListIsTheQuerys
<1>6. CASE q.filter # Inverted
  <2>1. shown' = Waiting /\ requests' = Superseded \cup {Request(q)} /\ answers' = None
    BY <1>6 DEF Visit
  <2>2. Request(q) \in ListRequest /\ Request(q).query = q
    BY DEF Request, ListRequest
  <2>. QED  BY <1>1, <1>2, <1>4, <2>1, <2>2, Shows DEF ListInv, ListIsTheQuerys
<1>. QED  BY <1>5, <1>6

\* A reply holds products that match the query it was asked for.
LEMMA ReplyMatches ==
    ASSUME ShelfInv, NEW q \in Query, NEW reply \in {Listed(q), Refused}
    PROVE  /\ Showing(reply) \in ShownList
           /\ \A p \in Showing(reply).products : Matches(p, q)
<1>1. CASE reply = Refused
  BY <1>1, Shows
<1>2. CASE reply = Listed(q) /\ reply # Refused
  <2> DEFINE found == {p \in Visible : Matches(p, q)}
  <2>1. reply = [products |-> OnPage(found, q.page), count |-> Cardinality(found),
                 error |-> FALSE]
    BY <1>2 DEF Listed
  <2>2. found \subseteq Products /\ IsFiniteSet(Products)
    BY CatalogueAssumption DEF ShelfInv, Visible, CatalogueAssumption
  <2>3. Cardinality(found) \in Nat
    BY <2>2, FS_Subset, FS_CardinalityType
  <2>4. OnPage(found, q.page) \subseteq found
    BY DEF OnPage
  <2>5. \A p \in found : Matches(p, q)
    OBVIOUS
  <2>. HIDE DEF found
  <2>. QED  BY <2>1, <2>2, <2>3, <2>4, <2>5 DEF Showing, ShownList
<1>. QED  BY <1>1, <1>2

\* The reply of the current request, or of one that is not.
LEMMA Arrives ==
    ASSUME ShelfInv, ListInv, NEW r \in requests, Arrive(r)
    PROVE  ListInv'
<1>1. r \in ListRequest /\ r.query \in Query
  BY DEF ListInv, ListRequest
<1>2. query' = query /\ requests' \subseteq requests
  BY DEF Arrive
<1>3. CASE r.current
  <2>1. PICK reply \in Replies(r) : shown' = Showing(reply)
    BY <1>3 DEF Arrive
  <2>2. PICK q \in Query : q = r.query
    BY <1>1
  <2>3. reply \in {Listed(q), Refused}
    BY <2>1, <2>2 DEF Replies
  <2>4. Showing(reply) \in ShownList /\ \A p \in Showing(reply).products : Matches(p, q)
    BY <2>3, ReplyMatches
  <2>5. answers' = q /\ q = query
    BY <1>3, <2>2 DEF Arrive, ListInv
  <2>. QED  BY <1>2, <2>1, <2>4, <2>5 DEF ListInv, ListIsTheQuerys
<1>4. CASE ~r.current
  BY <1>2, <1>4 DEF Arrive, ListInv, ListIsTheQuerys
<1>. QED  BY <1>3, <1>4

\* A change of the query by a user, a link or the timer.
LEMMA QueryChanges ==
    ASSUME ListInv, FieldInv
    PROVE  /\ [query EXCEPT !.search = input.word, !.page = 1] \in Query
           /\ \A f \in Categories \cup {None, Inverted} :
                 [query EXCEPT !.filter = f, !.page = 1] \in Query
           /\ \A k \in 1 .. MAX_PAGE : [query EXCEPT !.page = k] \in Query
           /\ [search |-> None, filter |-> None, page |-> 1] \in Query
<1>1. 1 \in 1 .. MAX_PAGE
  BY CatalogueAssumption DEF CatalogueAssumption
<1>2. query \in Query /\ input.word \in Words \cup {None}
  BY DEF ListInv, FieldInv, Text
<1>3. PICK word \in Words \cup {None} : word = input.word
  BY <1>2
<1>4. [query EXCEPT !.search = word, !.page = 1] \in Query
  BY <1>1, <1>2 DEF Query
<1>. QED  BY <1>1, <1>2, <1>3, <1>4 DEF Query

\* What the customer does on the shop's page.
LEMMA CustomerKeepsShop ==
    ASSUME ListInv, FieldInv, Customer
    PROVE  ListInv' /\ FieldInv'
<1>1. ASSUME NEW text \in Text, Type(text)
      PROVE  ListInv' /\ FieldInv'
  BY <1>1 DEF Type, ListInv, ListIsTheQuerys, FieldInv, SearchIsTyped
<1>2. CASE Submit
  BY <1>2, QueryChanges, Navigates DEF Submit
<1>3. CASE ClearFilters
  <2>1. PICK q \in Query : q = [search |-> None, filter |-> None, page |-> 1]
    BY QueryChanges
  <2>2. ListInv' /\ query' = Corrected(q)
    BY <1>3, <2>1, Navigates DEF ClearFilters
  <2>3. query'.search = None
    BY <2>1, <2>2, Lands DEF ListInv
  <2>4. /\ input' = [word |-> None, blank |-> FALSE] /\ facets' = facets
        /\ sync' \in BOOLEAN /\ typed' \in BOOLEAN
    BY <1>3 DEF ClearFilters, Navigate, FieldInv
  <2>. QED  BY <2>2, <2>3, <2>4 DEF FieldInv, SearchIsTyped, TextOf, Text
<1>4. CASE Retry
  <2>1. PICK q \in Query : q = query
    BY DEF ListInv
  <2>2. Fetch(q) /\ query' = q
    BY <1>4, <2>1 DEF Retry
  <2>. QED  BY <1>4, <2>2, Fetched DEF Retry, FieldInv, SearchIsTyped
<1>5. ASSUME NEW f \in Categories \cup {None, Inverted}, ChangeFilter(f)
      PROVE  ListInv' /\ FieldInv'
  BY <1>5, QueryChanges, Navigates DEF ChangeFilter
<1>6. ASSUME NEW k \in 1 .. MAX_PAGE, ChangePage(k)
      PROVE  ListInv' /\ FieldInv'
  BY <1>6, QueryChanges, Navigates DEF ChangePage
<1>7. ASSUME NEW q \in Query, Follow(q)
      PROVE  ListInv' /\ FieldInv'
  BY <1>7, Navigates DEF Follow
<1>8. ASSUME NEW q \in Query, Visit(q)
      PROVE  ListInv' /\ FieldInv'
  BY <1>8, Visits
<1>. QED  BY <1>1, <1>2, <1>3, <1>4, <1>5, <1>6, <1>7, <1>8 DEF Customer

\* Timers and replies.
LEMMA BrowserKeepsShop ==
    ASSUME ShelfInv, ListInv, FieldInv, Browser
    PROVE  ListInv' /\ FieldInv'
<1>1. CASE Sync
  <2>1. TextOf(query) \in Text
    BY DEF ListInv, TextOf, Text, Query
  <2>. QED  BY <1>1, <2>1 DEF Sync, ListInv, ListIsTheQuerys, FieldInv, SearchIsTyped, TextOf
<1>2. CASE Debounce
  BY <1>2, QueryChanges, Navigates DEF Debounce
<1>3. CASE FacetsEnd
  BY <1>3 DEF FacetsEnd, ListInv, ListIsTheQuerys, FieldInv, SearchIsTyped, TextOf
<1>4. ASSUME NEW r \in requests, Arrive(r)
      PROVE  ListInv' /\ FieldInv'
  BY <1>4, Arrives DEF Arrive, FieldInv, SearchIsTyped, TextOf
<1>. QED  BY <1>1, <1>2, <1>3, <1>4 DEF Browser

-------------------------------------------------------------------------------
(* The product's page *)

AllVariants == UNION {VariantsOf[p] : p \in Products}
ColorSet == {v.color : v \in AllVariants} \cup {None}
SizeSet == {v.size : v \in AllVariants} \cup {None}
OfferSet == UNION {Offers(p) : p \in Products}

ProductView ==
    [wanted: Products \cup {None}, product: Products \cup {None},
     offer: OfferSet \cup {<<>>}, color: ColorSet, size: SizeSet,
     quantity: 1 .. MAX_STOCK, kept: BOOLEAN,
     loading: BOOLEAN, error: BOOLEAN, adding: BOOLEAN]

\* The choice stays sellable while the page still waits for the products like it.
Sellable ==
    view.product # None /\ view.color # None
        => Selected # {} /\ Selected \subseteq InStock(view.offer)

\* Only a quantity kept from another product passes what the variant's stock meets;
\* before the product arrives, that is the quantity there is.
Meets ==
    \/ view.wanted = None \/ view.kept
    \/ view.product # None /\ view.quantity <= maxQuantity

ViewInv ==
    /\ view \in ProductView /\ view.product \in {None, view.wanted}
    /\ Sellable /\ Meets

BrowseInv == ShelfInv /\ ListInv /\ FieldInv /\ ViewInv

\* A variant of an offer: one of a product, told by its colour and its size.
LEMMA OfferedVariant ==
    ASSUME NEW offer \in OfferSet \cup {<<>>}, NEW v \in DOMAIN offer
    PROVE  /\ v \in AllVariants /\ v.color \in ColorSet /\ v.size \in SizeSet
           /\ v = [color |-> v.color, size |-> v.size]
           /\ offer[v] \in 0 .. MAX_STOCK
<1>1. offer # <<>>
  OBVIOUS
<1>2. PICK p \in Products : offer \in Offers(p)
  BY <1>1 DEF OfferSet
<1>3. v \in VariantsOf[p] /\ offer[v] \in 0 .. MAX_STOCK
  BY <1>2 DEF Offers
<1>4. v \in AllVariants
  BY <1>3 DEF AllVariants
<1>. QED  BY <1>3, <1>4, ProductPageAssumption DEF ProductPageAssumption, ColorSet, SizeSet
\* A colour and a size in stock select one variant.
LEMMA OneSelected ==
    ASSUME NEW offer \in OfferSet \cup {<<>>}, NEW v \in InStock(offer)
    PROVE  {w \in DOMAIN offer : w.color = v.color /\ w.size = v.size} = {v}
<1>1. v \in DOMAIN offer
  BY DEF InStock
<1>2. ASSUME NEW w \in DOMAIN offer, w.color = v.color, w.size = v.size
      PROVE  w = v
  <2>1. w = [color |-> w.color, size |-> w.size] /\ v = [color |-> v.color, size |-> v.size]
    BY <1>1, OfferedVariant
  <2>. QED  BY <1>2, <2>1
<1>. QED  BY <1>1, <1>2

\* The quantity the page allows for the colour and size of an offer.
Allowed(offer, c, s) ==
    LET selected == {v \in DOMAIN offer : v.color = c /\ v.size = s}
    IN  IF selected \cap InStock(offer) = {} THEN 1 ELSE offer[CHOOSE v \in selected : TRUE]

\* It is one unit at least.
LEMMA SomeAllowed ==
    ASSUME NEW offer \in OfferSet \cup {<<>>}, NEW c, NEW s
    PROVE  Allowed(offer, c, s) \in Nat /\ 1 <= Allowed(offer, c, s)
<1> DEFINE selected == {v \in DOMAIN offer : v.color = c /\ v.size = s}
<1>1. CASE selected \cap InStock(offer) = {}
  BY <1>1 DEF Allowed
<1>2. ASSUME NEW v \in selected \cap InStock(offer)
      PROVE  Allowed(offer, c, s) \in Nat /\ 1 <= Allowed(offer, c, s)
  <2>1. selected = {v}
    BY <1>2, OneSelected
  <2>2. Allowed(offer, c, s) = offer[v]
    BY <2>1, <1>2 DEF Allowed
  <2>3. offer[v] \in 0 .. MAX_STOCK /\ offer[v] > 0 /\ MAX_STOCK \in Nat
    BY <1>2, OfferedVariant, ProductPageAssumption DEF InStock, ProductPageAssumption
  <2>. QED  BY <2>2, <2>3
<1>. QED  BY <1>1, <1>2

\* A choice made anew starts with one unit.
LEMMA OneUnit ==
    ASSUME view' \in ProductView, view'.quantity = 1, view'.product # None
    PROVE  Meets'
<1>1. PICK offer, c, s : offer = view'.offer /\ c = view'.color /\ s = view'.size
  OBVIOUS
<1>2. offer \in OfferSet \cup {<<>>}
  BY <1>1 DEF ProductView
<1>3. maxQuantity' = Allowed(offer, c, s)
  BY <1>1 DEF maxQuantity, Selected, Allowed
<1>4. 1 <= Allowed(offer, c, s)
  BY <1>2, SomeAllowed
<1>. QED  BY <1>3, <1>4 DEF Meets

\* A choice made among what is in stock can be sold.
LEMMA ChoiceMade ==
    ASSUME NEW offer \in OfferSet \cup {<<>>}, NEW v \in InStock(offer),
           view'.offer = offer, view'.color = v.color, view'.size = v.size
    PROVE  Sellable'
<1>1. Selected' = {v}
  BY OneSelected DEF Selected
<1>. QED  BY <1>1 DEF Sellable, InStock

\* One that is kept stays so, and so does what its quantity meets.
LEMMA ChoiceKept ==
    ASSUME view'.product = view.product, view'.offer = view.offer,
           view'.color = view.color, view'.size = view.size
    PROVE  /\ Sellable => Sellable'
           /\ maxQuantity' = maxQuantity
           /\ Meets /\ view'.wanted = view.wanted /\ view'.quantity = view.quantity
              /\ view'.kept = view.kept => Meets'
<1>1. maxQuantity' = maxQuantity
  BY DEF maxQuantity, Selected
<1>2. Sellable => Sellable'
  BY DEF Sellable, Selected, InStock
<1>. QED  BY <1>1, <1>2 DEF Meets

\* The product arrives: only a variant in stock is chosen for the customer.
LEMMA DetailKeepsView ==
    ASSUME ShelfInv, ViewInv, DetailArrives
    PROVE  ViewInv'
<1>1. CASE view' = [view EXCEPT !.loading = FALSE, !.error = TRUE]
  <2>1. view' \in ProductView /\ view'.product = view.product /\ view'.wanted = view.wanted
        /\ view'.offer = view.offer /\ view'.color = view.color /\ view'.size = view.size
        /\ view'.quantity = view.quantity /\ view'.kept = view.kept
    BY <1>1 DEF ViewInv, ProductView
  <2>. QED  BY <2>1, ChoiceKept DEF DetailArrives, ViewInv
<1>2. CASE view' # [view EXCEPT !.loading = FALSE, !.error = TRUE]
  <2>1. PICK offer \in Offers(view.wanted) :
           view' = [view EXCEPT !.product = view.wanted, !.offer = offer,
                                !.color = InitialSelection(offer).color,
                                !.size = InitialSelection(offer).size]
    BY <1>2 DEF DetailArrives
  <2>2. view.wanted \in Products
    BY <1>2 DEF DetailArrives, Retrievable, Visible, ShelfInv
  <2>3. offer \in OfferSet \cup {<<>>}
    BY <2>1, <2>2 DEF OfferSet
  <2>4. PICK choice : choice = InitialSelection(offer)
    OBVIOUS
  <2>5. choice \in InStock(offer) \/ choice = [color |-> None, size |-> None]
    <3>1. CASE Cardinality(InStock(offer)) = 1
      <4>1. InStock(offer) # {}
        BY <3>1, FS_EmptySet
      <4>. QED  BY <2>4, <3>1, <4>1 DEF InitialSelection
    <3>. QED  BY <2>4, <3>1 DEF InitialSelection
  <2>6. choice.color \in ColorSet /\ choice.size \in SizeSet
    <3>1. CASE choice \in InStock(offer)
      BY <2>3, <3>1, OfferedVariant DEF InStock
    <3>. QED  BY <2>5, <3>1 DEF ColorSet, SizeSet
  <2>7. PICK c \in ColorSet, s \in SizeSet : c = choice.color /\ s = choice.size
    BY <2>6
  <2>8. PICK p \in Products : p = view.wanted
    BY <2>2
  <2>9. view' = [view EXCEPT !.product = p, !.offer = offer, !.color = c, !.size = s]
    BY <2>1, <2>4, <2>7, <2>8
  <2>10. /\ view' \in ProductView /\ view'.product = p /\ view'.wanted = p
         /\ view'.offer = offer /\ view'.color = c /\ view'.size = s
         /\ view'.kept = view.kept
    BY <2>3, <2>8, <2>9 DEF ViewInv, ProductView
  <2>11. Sellable'
    <3>1. CASE choice \in InStock(offer)
      BY <2>3, <2>7, <2>10, <3>1, ChoiceMade
    <3>2. CASE choice = [color |-> None, size |-> None]
      BY <2>7, <2>10, <3>2 DEF Sellable
    <3>. QED  BY <2>5, <3>1, <3>2
  <2>12. Meets'
    BY <1>2, <2>8, <2>10 DEF DetailArrives, ViewInv, Meets
  <2>. QED  BY <2>10, <2>11, <2>12 DEF DetailArrives, ViewInv
<1>. QED  BY <1>1, <1>2

\* What the customer chooses on the page.
LEMMA ChoosingKeepsView ==
    ASSUME ViewInv, NEW n,
           SelectColor(n) \/ SelectSize(n) \/ (n \in 1 .. MAX_STOCK /\ ChangeQuantity(n))
    PROVE  ViewInv'
<1>0. /\ view \in ProductView /\ 1 \in 1 .. MAX_STOCK
      /\ view.offer \in OfferSet \cup {<<>>}
  BY ProductPageAssumption DEF ViewInv, ProductView, ProductPageAssumption
<1>1. CASE SelectColor(n)
  <2>1. PICK v \in InStock(view.offer) :
           /\ v.color = n
           /\ view' = [view EXCEPT !.color = n, !.size = v.size, !.quantity = 1, !.kept = FALSE]
    BY <1>1 DEF SelectColor
  <2>2. v.color \in ColorSet /\ v.size \in SizeSet
    BY <1>0, OfferedVariant DEF InStock
  <2>3. PICK c \in ColorSet, s \in SizeSet : c = v.color /\ s = v.size
    BY <2>2
  <2>4. view' = [view EXCEPT !.color = c, !.size = s, !.quantity = 1, !.kept = FALSE]
    BY <2>1, <2>3
  <2>5. /\ view' \in ProductView /\ view'.product = view.product /\ view'.wanted = view.wanted
        /\ view'.offer = view.offer /\ view'.color = c /\ view'.size = s
        /\ view'.quantity = 1
    BY <1>0, <2>4 DEF ProductView
  <2>6. PICK offer \in OfferSet \cup {<<>>} : offer = view.offer
    BY <1>0
  <2>7. Sellable'
    BY <2>3, <2>5, <2>6, ChoiceMade
  <2>8. Meets'
    BY <1>1, <2>5, OneUnit DEF SelectColor, PageShown
  <2>. QED  BY <1>1, <2>5, <2>7, <2>8 DEF SelectColor, ViewInv
<1>2. CASE SelectSize(n)
  <2>1. PICK v \in InStock(view.offer) : v.size = n /\ view.color \in {None, v.color}
    BY <1>2 DEF SelectSize, SizeEnabled
  <2>2. v.size \in SizeSet
    BY <1>0, OfferedVariant DEF InStock
  <2>3. PICK s \in SizeSet : s = v.size
    BY <2>2
  <2>4. view' = [view EXCEPT !.size = s, !.quantity = 1, !.kept = FALSE]
    BY <1>2, <2>1, <2>3 DEF SelectSize
  <2>5. /\ view' \in ProductView /\ view'.product = view.product /\ view'.wanted = view.wanted
        /\ view'.offer = view.offer /\ view'.color = view.color /\ view'.size = s
        /\ view'.quantity = 1
    BY <1>0, <2>4 DEF ProductView
  <2>6. PICK offer \in OfferSet \cup {<<>>} : offer = view.offer
    BY <1>0
  <2>7. Sellable'
    <3>1. CASE view.color = None
      BY <2>5, <3>1 DEF Sellable
    <3>2. CASE view.color = v.color
      BY <2>3, <2>5, <2>6, <3>2, ChoiceMade
    <3>. QED  BY <2>1, <3>1, <3>2
  <2>8. Meets'
    BY <1>2, <2>5, OneUnit DEF SelectSize, PageShown
  <2>. QED  BY <1>2, <2>5, <2>7, <2>8 DEF SelectSize, ViewInv
<1>3. CASE n \in 1 .. MAX_STOCK /\ ChangeQuantity(n)
  <2>1. PICK k \in BOOLEAN : k = (view.kept /\ n > maxQuantity)
    OBVIOUS
  <2>2. view' = [view EXCEPT !.quantity = n, !.kept = k]
    BY <1>3, <2>1 DEF ChangeQuantity
  <2>3. /\ view' \in ProductView /\ view'.product = view.product /\ view'.wanted = view.wanted
        /\ view'.offer = view.offer /\ view'.color = view.color /\ view'.size = view.size
        /\ view'.quantity = n /\ view'.kept = k
    BY <1>0, <1>3, <2>2 DEF ProductView
  <2>4. maxQuantity \in Nat
    <3>1. maxQuantity = Allowed(view.offer, view.color, view.size)
      BY DEF maxQuantity, Selected, Allowed
    <3>. QED  BY <1>0, <3>1, SomeAllowed
  <2>5. maxQuantity' = maxQuantity /\ Sellable'
    BY <2>3, ChoiceKept DEF ViewInv
  \* A quantity above the stock can only have been lowered.
  <2>6. Meets'
    <3>1. CASE n <= maxQuantity
      BY <1>3, <2>3, <2>5, <3>1 DEF ChangeQuantity, PageShown, Meets
    <3>2. CASE n > maxQuantity
      <4>1. n = view.quantity - 1 /\ view.quantity \in Nat
        BY <1>0, <1>3, <2>4, <3>2 DEF ChangeQuantity, ProductView
      <4>2. view.quantity > maxQuantity
        BY <2>4, <3>2, <4>1
      <4>3. view.wanted = None \/ view.kept
        BY <2>4, <4>1, <4>2 DEF ViewInv, Meets
      <4>. QED  BY <2>1, <2>3, <3>2, <4>3 DEF Meets
    <3>. QED  BY <1>3, <2>4, <3>1, <3>2
  <2>. QED  BY <1>3, <2>3, <2>5, <2>6 DEF ChangeQuantity, ViewInv
<1>. QED  BY <1>1, <1>2, <1>3

\* A step that only changes whether the page waits, fails or adds.
LEMMA ProgressKeepsView ==
    ASSUME ViewInv, NEW b \in BOOLEAN, NEW e \in BOOLEAN, NEW a \in BOOLEAN,
           view' = [view EXCEPT !.loading = b, !.error = e, !.adding = a]
    PROVE  /\ view' \in ProductView /\ view'.product \in {None, view'.wanted}
           /\ Sellable' /\ Meets'
<1>1. /\ view' \in ProductView /\ view'.product = view.product /\ view'.wanted = view.wanted
      /\ view'.offer = view.offer /\ view'.color = view.color /\ view'.size = view.size
      /\ view'.quantity = view.quantity /\ view'.kept = view.kept
  BY DEF ViewInv, ProductView
<1>. QED  BY <1>1, ChoiceKept DEF ViewInv

\* The additions and the second reply.
LEMMA AddingKeepsView ==
    ASSUME ViewInv, AddToCart \/ RelatedArrives \/ \E a \in adds : AddEnds(a)
    PROVE  ViewInv'
<1>0. view \in ProductView /\ view.loading \in BOOLEAN /\ view.error \in BOOLEAN
      /\ view.adding \in BOOLEAN
  BY DEF ViewInv, ProductView
<1>1. \E b \in BOOLEAN, e \in BOOLEAN, a \in BOOLEAN :
         view' = [view EXCEPT !.loading = b, !.error = e, !.adding = a]
  <2>1. /\ view = [view EXCEPT !.loading = view.loading, !.error = view.error,
                               !.adding = view.adding]
        /\ [view EXCEPT !.adding = TRUE] =
              [view EXCEPT !.loading = view.loading, !.error = view.error, !.adding = TRUE]
        /\ [view EXCEPT !.error = TRUE] =
              [view EXCEPT !.loading = view.loading, !.error = TRUE, !.adding = view.adding]
    BY <1>0 DEF ProductView
  <2>2. ASSUME NEW failed \in BOOLEAN
        PROVE  /\ [view EXCEPT !.loading = FALSE, !.error = failed] =
                     [view EXCEPT !.loading = FALSE, !.error = failed, !.adding = view.adding]
               /\ [view EXCEPT !.adding = FALSE, !.error = @ \/ failed] =
                     [view EXCEPT !.loading = view.loading, !.error = view.error \/ failed,
                                  !.adding = FALSE]
    BY <1>0 DEF ProductView
  <2>3. CASE AddToCart
    BY <1>0, <2>1, <2>3 DEF AddToCart
  <2>4. CASE RelatedArrives
    BY <1>0, <2>2, <2>4 DEF RelatedArrives
  <2>5. CASE \E a \in adds : AddEnds(a)
    BY <1>0, <2>1, <2>2, <2>5 DEF AddEnds
  <2>. QED  BY <2>3, <2>4, <2>5
<1>. QED  BY <1>1, ProgressKeepsView DEF ViewInv

\* Opening a product keeps the quantity and the choice of the last one, which
\* nothing can be added with before the product arrives.
LEMMA OpeningKeeps ==
    ASSUME BrowseInv, NEW p \in Products, OpenProduct(p)
    PROVE  ListInv' /\ FieldInv' /\ ViewInv'
<1>1. view' = Wanting(p) /\ adds' = adds
  BY DEF OpenProduct
<1>2. view' \in ProductView /\ view'.product = None /\ view'.kept
  BY <1>1 DEF BrowseInv, ViewInv, ProductView, Wanting
<1>3. ViewInv'
  BY <1>1, <1>2 DEF BrowseInv, ViewInv, Sellable, Meets
<1>4. PICK q \in Query : q = [search |-> None, filter |-> None, page |-> 1]
  BY QueryChanges DEF BrowseInv
<1>5. /\ query' = q /\ answers' = q /\ requests' = {}
      /\ shown' = [Waiting EXCEPT !.loading = FALSE]
      /\ input' = TextOf(q) /\ sync' = FALSE /\ typed' = FALSE /\ facets' = "shown"
  BY <1>4 DEF OpenProduct
<1>6. TextOf(q) \in Text
  BY DEF TextOf, Text, Query
<1>7. ListInv'
  BY <1>5, Shows DEF ListInv, ListIsTheQuerys
<1>8. FieldInv'
  BY <1>5, <1>6 DEF FieldInv, SearchIsTyped, TextOf
<1>. QED  BY <1>3, <1>7, <1>8

\* Leaving for the shop: nothing is shown of a product.
LEMMA LeavingKeeps ==
    ASSUME BrowseInv, NEW q \in Query, BackToShop(q)
    PROVE  ListInv' /\ FieldInv' /\ ViewInv'
<1>1. ListInv' /\ FieldInv'
  BY Visits DEF BackToShop, BrowseInv
<1>2. view' = Unmounted
  BY DEF BackToShop
<1>3. 1 \in 1 .. MAX_STOCK
  BY ProductPageAssumption DEF ProductPageAssumption
<1>4. Unmounted \in ProductView /\ Unmounted.product = None /\ Unmounted.wanted = None
  BY <1>3 DEF Unmounted, ProductView, ColorSet, SizeSet
<1>. QED  BY <1>1, <1>2, <1>4 DEF ViewInv, Sellable, Meets

\* The shop and the product's page keep BrowseInv.
LEMMA BrowseInvariance == BrowseSpec => []BrowseInv
<1>1. BrowseInit => BrowseInv
  <2> SUFFICES ASSUME BrowseInit PROVE BrowseInv
    OBVIOUS
  <2>1. PICK q \in Query : query = q /\ input = TextOf(q) /\ requests = {Request(q)}
    BY DEF BrowseInit, Init
  <2>2. Request(q) \in ListRequest /\ Request(q).query = q /\ TextOf(q) \in Text
    BY DEF Request, ListRequest, TextOf, Text, Query
  <2>3. /\ shown = Waiting /\ sync = FALSE /\ typed = FALSE /\ facets = "loading"
        /\ answers = None /\ view = Unmounted /\ adds = {}
        /\ active = Products /\ open = Categories
    BY DEF BrowseInit, Init, CatalogueInit
  <2>4. ListInv
    BY <2>1, <2>2, <2>3, Shows DEF ListInv, ListIsTheQuerys
  <2>5. FieldInv
    BY <2>1, <2>2, <2>3 DEF FieldInv, SearchIsTyped
  <2>6. 1 \in 1 .. MAX_STOCK
    BY ProductPageAssumption DEF ProductPageAssumption
  <2>7. Unmounted \in ProductView /\ Unmounted.product = None /\ Unmounted.wanted = None
    BY <2>6 DEF Unmounted, ProductView, ColorSet, SizeSet
  <2>8. ViewInv
    BY <2>3, <2>7 DEF ViewInv, Sellable, Meets
  <2>. QED  BY <2>3, <2>4, <2>5, <2>8 DEF BrowseInv, ShelfInv
<1>2. BrowseInv /\ [BrowseNext]_allVars => BrowseInv'
  <2> SUFFICES ASSUME BrowseInv, [BrowseNext]_allVars PROVE BrowseInv'
    OBVIOUS
  <2>0. ShelfInv /\ ListInv /\ FieldInv /\ ViewInv
    BY DEF BrowseInv
  <2>1. ASSUME UNCHANGED page
        PROVE  ListInv' /\ FieldInv'
    BY <2>0, <2>1 DEF page, ListInv, ListIsTheQuerys, FieldInv, SearchIsTyped
  <2>2. ASSUME UNCHANGED browse
        PROVE  ViewInv'
    BY <2>0, <2>2 DEF browse, ViewInv, Sellable, Meets, maxQuantity, Selected
  <2>3. ASSUME UNCHANGED catalogue
        PROVE  ShelfInv'
    BY <2>0, <2>3 DEF catalogue, ShelfInv
  <2>4. CASE (Customer \/ Browser) /\ UNCHANGED <<catalogue, browse>>
    BY <2>0, <2>2, <2>3, <2>4, CustomerKeepsShop, BrowserKeepsShop DEF BrowseInv
  <2>5. ASSUME NEW p \in Products, OpenProduct(p), UNCHANGED catalogue
        PROVE  BrowseInv'
    BY <2>3, <2>5, OpeningKeeps DEF BrowseInv
  <2>6. ASSUME NEW q \in Query, BackToShop(q), UNCHANGED catalogue
        PROVE  BrowseInv'
    BY <2>3, <2>6, LeavingKeeps DEF BrowseInv
  <2>7. CASE OnProductPage /\ UNCHANGED vars
    <3>1. ShelfInv' /\ ListInv' /\ FieldInv'
      BY <2>1, <2>3, <2>7 DEF vars
    <3>2. ViewInv'
      BY <2>0, <2>7, DetailKeepsView, ChoosingKeepsView, AddingKeepsView
         DEF OnProductPage, ProductCustomer
    <3>. QED  BY <3>1, <3>2 DEF BrowseInv
  <2>8. CASE Staff /\ UNCHANGED <<page, browse>>
    <3>1. ShelfInv'
      BY <2>0, <2>8 DEF Staff, EditProducts, EditCategories, archive_product,
         reactivate_product, archive_category, reactivate_category, ShelfInv
    <3>. QED  BY <2>1, <2>2, <2>8, <3>1 DEF BrowseInv
  <2>9. CASE UNCHANGED allVars
    BY <2>1, <2>2, <2>3, <2>9 DEF allVars, vars, BrowseInv
  <2>. QED  BY <2>4, <2>5, <2>6, <2>7, <2>8, <2>9 DEF BrowseNext
<1>. QED  BY <1>1, <1>2, PTL DEF BrowseSpec

\* The list shown answers the query in the URL and holds only products that
\* match it, whatever replies cross, are late or fail, on a catalogue of any
\* size that the staff changes meanwhile.
THEOREM QuerysList == BrowseSpec => []ListIsTheQuerys
  BY BrowseInvariance, PTL DEF BrowseInv, ListInv

\* The text of the search field is the query's unless the customer wrote it while the
\* query had the search it has, or the timer that brings it back is set: a link or Back
\* to another search is not undone by a text left in the field.
THEOREM OnlyTypedSearches == BrowseSpec => []SearchIsTyped
  BY BrowseInvariance, PTL DEF BrowseInv, FieldInv

\* What the enabled options lead to can be sold: the colour and size chosen are
\* those of a variant that is in stock, and the quantity, unless it was kept from
\* another product, is one its stock meets, for any variants of any product.
THEOREM SellableChoice == BrowseSpec => []ChoiceIsSellable
<1>1. BrowseInv => ChoiceIsSellable
  BY DEF BrowseInv, ViewInv, Sellable, Meets, ChoiceIsSellable, PageShown
<1>. QED  BY <1>1, BrowseInvariance, PTL
===============================================================================
