-------------------------------- MODULE Amounts --------------------------------
(***************************************************************************)
(* The money of an order: what a cart is shown to cost, what the checkout  *)
(* freezes (FinancialSnapshotService, _build_preview), what the database   *)
(* accepts and what the invoice sent to LigdiCash asks for.                *)
(*                                                                         *)
(* An amount is a Decimal with two places, kept here in hundredths of a    *)
(* franc; the provider is sent whole francs.  A nullable amount is a       *)
(* sequence of at most one.                                                *)
(***************************************************************************)
EXTENDS Integers, Sequences
LOCAL INSTANCE FiniteSetsExt

MAX_CART_ITEM_QUANTITY == 99
FEES == {3000 * 100, 1500 * 100}    \* of DELIVERY_METHODS

xof_integer(amount) == amount % 100 = 0
format_amount(amount) == amount \div 100

Sum(f) == MapThenSumSet(LAMBDA i : f[i], DOMAIN f)

-------------------------------------------------------------------------------
(* The cart *)

CartLine(Amount, Quantity) ==
    [unit_price: Amount,        \* the price when the line was added
     quantity: Quantity,
     price: {<<>>} \cup {<<a>> : a \in Amount},     \* of the variant
     product_price: Amount]

effective_price(line) == IF line.price = <<>> THEN line.product_price ELSE line.price[1]

\* What the cart page shows.
get_total(line) == line.unit_price * line.quantity
get_cart_total(cart) == Sum([i \in DOMAIN cart |-> get_total(cart[i])])

-------------------------------------------------------------------------------
(* The freeze *)

money(amounts) == \A a \in amounts : xof_integer(a)

LineCoherent(unit_price, quantity, discount) ==
    /\ money({unit_price, discount})
    /\ unit_price >= 0 /\ quantity >= 1
    /\ discount \in 0 .. unit_price * quantity
line_subtotal(unit_price, quantity, discount) == unit_price * quantity - discount

OrderCoherent(subtotal, shipping, discount) ==
    /\ money({subtotal, shipping, discount})
    /\ subtotal >= 0 /\ shipping >= 0
    /\ discount \in 0 .. subtotal + shipping
order_total(subtotal, shipping, discount) == subtotal + shipping - discount

price_changed(line) == line.unit_price # effective_price(line)

Frozen(line) ==
    [quantity |-> line.quantity, unit_price |-> effective_price(line), discount |-> 0,
     subtotal |-> line_subtotal(effective_price(line), line.quantity, 0)]

Preview(cart, fee) ==
    LET lines == [i \in DOMAIN cart |-> Frozen(cart[i])]
        subtotal == Sum([i \in DOMAIN lines |-> lines[i].subtotal])
    IN  [lines |-> lines, subtotal |-> subtotal, shipping |-> fee, discount |-> 0,
         total |-> order_total(subtotal, fee, 0)]

\* The preview is given, and with it the order that freezes it.
Accepted(cart, fee) ==
    /\ cart # <<>>
    /\ \A i \in DOMAIN cart :
          /\ cart[i].quantity <= MAX_CART_ITEM_QUANTITY
          /\ LineCoherent(effective_price(cart[i]), cart[i].quantity, 0)
    /\ OrderCoherent(Preview(cart, fee).subtotal, fee, 0)

-------------------------------------------------------------------------------
(* The check constraints of the tables *)

Storable(amount) == amount >= 0 /\ xof_integer(amount)
LineStorable(line) ==
    /\ line.quantity >= 1
    /\ Storable(line.unit_price) /\ Storable(line.discount) /\ Storable(line.subtotal)
OrderStorable(order) ==
    /\ Storable(order.subtotal) /\ Storable(order.shipping)
    /\ Storable(order.discount) /\ Storable(order.total)
PaymentStorable(amount) == xof_integer(amount)

-------------------------------------------------------------------------------
(* The invoice *)

Item(quantity, unit_price) ==
    [quantity |-> quantity, unit_price |-> unit_price, total_price |-> unit_price * quantity]

_build_create_payload(order) ==
    [items |-> [i \in DOMAIN order.lines |->
                   Item(order.lines[i].quantity, format_amount(order.lines[i].unit_price))]
               \o IF order.shipping = 0 THEN <<>> ELSE <<Item(1, format_amount(order.shipping))>>,
     total_amount |-> format_amount(order.total)]

-------------------------------------------------------------------------------
(* What the amounts must satisfy, for a cart and a delivery fee *)

\* Every order the checkout accepts can be stored, with its payment, and is worth
\* a payment: no amount is refused by the database after the freeze began.
AcceptedIsStorable(cart, fee) ==
    Accepted(cart, fee) =>
        LET order == Preview(cart, fee)
        IN  /\ \A i \in DOMAIN order.lines : LineStorable(order.lines[i])
            /\ OrderStorable(order)
            /\ PaymentStorable(order.total) /\ order.total > 0

\* The items of the invoice, in whole francs, add up to the amount the payment
\* asks for: no line is rounded apart from the total.
InvoiceAddsUp(cart, fee) ==
    Accepted(cart, fee) =>
        LET invoice == _build_create_payload(Preview(cart, fee))
        IN  invoice.total_amount
              = Sum([i \in DOMAIN invoice.items |-> invoice.items[i].total_price])

\* A customer pays for the lines what the cart showed, or was told of a price.
ShownOrWarned(cart, fee) ==
    Accepted(cart, fee) =>
        \/ \E i \in DOMAIN cart : price_changed(cart[i])
        \/ Preview(cart, fee).subtotal = get_cart_total(cart)
===============================================================================
