----------------------------- MODULE PosCheckout -----------------------------
(***************************************************************************)
(* TokoKu POS: the cart and the checkout of src/js/pos.js, with the stock  *)
(* operations of src/js/products.js, over the IndexedDB stores of          *)
(* src/js/db.js.                                                           *)
(*                                                                         *)
(* Every IndexedDB request is a transaction of its own and requests on a   *)
(* store take effect in the order they are made, so a request takes effect *)
(* in the action that makes it; what a handler does with its result is a   *)
(* later action, and the user, other tabs and other handlers act between.  *)
(* A put() on a store starts when the reads before it were answered.       *)
(* Amounts of money follow from the lines of a sale and are left out.      *)
(***************************************************************************)
EXTENDS Integers, Sequences, FiniteSets

CONSTANTS Products,     \* product ids
          TrxIds,       \* transaction ids: random, so they may collide
          Payers,       \* calls of processPayment() that may be open at once
          Methods,      \* payment methods
          MaxStock,     \* bound: units of a product
          MaxPending,   \* bound: taps on products not yet answered
          MaxVisits     \* bound: operations of the inventory tab

ASSUME ConstantsAssumption ==
    /\ Methods \subseteq {"cash", "qris", "debt"} /\ "cash" \in Methods
    /\ MaxStock \in Nat /\ MaxPending \in Nat /\ MaxVisits \in Nat

None    == [product |-> "none"]
Levels  == (-MaxStock)..MaxStock  \* of stock; the product form takes negative ones
Gone    == -MaxStock - 1           \* the result undefined of a get()

VARIABLES
    shelf,      \* the products store: stock by product id
    sales,      \* the transactions store: lines and method by id
    debts,      \* the debts store: ids of the sales it was filled from
    cart,       \* pos.cart, a sequence of lines
    modal,      \* the checkout modal is open
    method,     \* pos.paymentMethod
    pending,    \* addToCart() calls waiting for their product, in order
    pay,        \* pay[k]: call k of processPayment()
    adjusting,  \* a saveStockAdjustment() waiting for its product
    form,       \* the product form that is open, with the stock it shows
    visits,     \* history: operations begun in the inventory tab
    book,       \* history: units that should be on the shelf, of every
                \* product no one has interfered with
    shaky       \* history: sales whose payment was interfered with

memory == <<cart, modal, method, pending, pay>>
stores == <<shelf, sales, debts>>
office == <<adjusting, form, visits>>
vars   == <<memory, stores, office, book, shaky>>

Idle  == [at |-> "idle"]
Line  == [product : Products, qty : 1..MaxStock, maxStock : 0..MaxStock]
Lines(c) == {c[i] : i \in 1..Len(c)}

\* The lines of a cart as quantities.
Qty(c) == [p \in Products |->
             IF \E l \in Lines(c) : l.product = p
             THEN (CHOOSE l \in Lines(c) : l.product = p).qty ELSE 0]

Init ==
    /\ shelf = [p \in Products |-> MaxStock]
    /\ sales = << >> /\ debts = {}
    /\ cart = << >> /\ modal = FALSE /\ method = "cash"
    /\ pending = << >> /\ pay = [k \in Payers |-> Idle]
    /\ adjusting = None /\ form = None /\ visits = 0
    /\ book = shelf /\ shaky = {}

-----------------------------------------------------------------------------
(* Helpers.                                                                *)

\* A store after the record v is put under the key k.
Put(f, k, v) == [x \in DOMAIN f \cup {k} |-> IF x = k THEN v ELSE f[x]]

Read(p) == IF p \in DOMAIN shelf THEN shelf[p] ELSE Gone
Larger(a, b) == IF a > b THEN a ELSE b

Active     == {k \in Payers : pay[k].at # "idle"}
SoldBy(k)  == {p \in Products : sales[pay[k].trx].items[p] > 0}
Selling(p) == \E k \in Active : p \in SoldBy(k)

\* A payment depends on pos.cart until its loop is over, unless the array it
\* iterates was replaced by a new one.
Iterates(k)  == pay[k].at \in {"read", "written"} /\ pay[k].alias
Watched      == \E k \in Active : pay[k].at = "stored" \/ Iterates(k)
InCart       == {l.product : l \in Lines(cart)}

\* The products of D were interfered with: nothing is said of them any more.
Without(D) == [p \in DOMAIN book \ D |-> book[p]]

\* pos.cart is changed in place: c is its new value, and a payment that holds
\* the line of p sees the quantity q of that object.
Mutate(c, p, q) ==
    /\ cart' = c
    /\ pay' = [k \in Payers |->
                 IF pay[k].at = "read" /\ pay[k].held /\ pay[k].line.product = p
                 THEN IF q > 0 THEN [pay[k] EXCEPT !.line.qty = q]
                               ELSE [pay[k] EXCEPT !.held = FALSE]
                 ELSE pay[k]]
    /\ book' = Without(IF Watched THEN InCart \cup {p} ELSE {})

\* A payment after pos.cart was assigned a new array.
Detached(k) == IF Iterates(k)
               THEN [pay[k] EXCEPT !.alias = FALSE, !.array = cart, !.held = FALSE]
               ELSE pay[k]

-----------------------------------------------------------------------------
(* The cart.                                                               *)

\* addToCart(): a tap on a product, which reads it.
Tap(p) ==
    /\ ~modal /\ Len(pending) < MaxPending
    /\ pending' = Append(pending, [product |-> p, stock |-> Read(p)])
    /\ UNCHANGED <<stores, cart, modal, method, pay, office, book, shaky>>

\* The lines of a product.
LinesOf(p) == {i \in 1..Len(cart) : cart[i].product = p}

\* Whether a quantity is within a stock.
\* Mutant: the quantity before the tap is compared.
FitsBefore(q, n) == q <= n + 1
Fits(q, n) == q <= n

\* addToCart(), resumed: one more in its line, or a new line.
Added ==
    /\ pending # << >>
    /\ pending' = Tail(pending)
    /\ LET p == Head(pending).product
           n == Head(pending).stock
       IN  \/ /\ n > 0 /\ LinesOf(p) = {}
              /\ Mutate(Append(cart, [product |-> p, qty |-> 1, maxStock |-> n]), p, 1)
           \/ \E i \in LinesOf(p) :
                /\ n > 0 /\ Fits(cart[i].qty + 1, n)
                /\ Mutate([cart EXCEPT ![i].qty = @ + 1], p, cart[i].qty + 1)
           \/ /\ n <= 0 \/ \E i \in LinesOf(p) : ~Fits(cart[i].qty + 1, n)
              /\ UNCHANGED <<cart, pay, book>>
    /\ UNCHANGED <<stores, modal, method, office, shaky>>

Removed(i) == SubSeq(cart, 1, i - 1) \o SubSeq(cart, i + 1, Len(cart))

\* changeItemQty(): the limit is the stock the line was created with.
ChangeQty(i, delta) ==
    LET l == cart[i] IN
    /\ modal
    /\ l.qty + delta <= l.maxStock \/ l.qty + delta <= 0
    /\ Mutate(IF l.qty + delta <= 0 THEN Removed(i)
              ELSE [cart EXCEPT ![i].qty = @ + delta], l.product, l.qty + delta)
    /\ UNCHANGED <<stores, modal, method, pending, office, shaky>>

\* openCheckoutModal() and its two ways out; clearCart().
OpenCheckout ==
    /\ ~modal /\ cart # << >>
    /\ modal' = TRUE /\ method' = "cash"
    /\ shaky' = shaky \cup IF method = "cash" THEN {} ELSE {pay[k].trx : k \in Active}
    /\ UNCHANGED <<stores, cart, pending, pay, office, book>>

Dismiss ==
    /\ modal /\ modal' = FALSE
    /\ UNCHANGED <<stores, cart, method, pending, pay, office, book, shaky>>

ClearCart ==
    /\ modal /\ modal' = FALSE
    /\ cart' = << >> /\ pay' = [k \in Payers |-> Detached(k)]
    /\ book' = Without(UNION {SoldBy(k) : k \in {j \in Active : pay[j].at = "stored"}})
    /\ UNCHANGED <<stores, method, pending, office, shaky>>

ChooseMethod(m) ==
    /\ modal /\ m # method /\ method' = m
    /\ shaky' = shaky \cup {pay[k].trx : k \in Active}
    /\ UNCHANGED <<stores, cart, modal, pending, pay, office, book>>

-----------------------------------------------------------------------------
(* processPayment().                                                       *)

\* The sale is stored under a random id; add() refuses one that exists, and
\* the call ends there.
Pay(k, id) ==
    /\ modal /\ cart # << >> /\ pay[k] = Idle
    /\ id \notin DOMAIN sales
    /\ sales' = Put(sales, id, [items |-> Qty(cart), method |-> method])
    /\ book' = [p \in {q \in DOMAIN book : q \notin InCart \/ ~Selling(q)} |->
                   book[p] - Qty(cart)[p]]
    /\ pay' = [pay EXCEPT ![k] = [at |-> "stored", trx |-> id]]
    /\ UNCHANGED <<shelf, debts, cart, modal, method, pending, office, shaky>>

\* The array call k iterates, and the index it has reached.
ArrayOf(k) == IF pay[k].at = "stored" \/ pay[k].alias THEN cart ELSE pay[k].array
\* Mutants: the index is not advanced; the first line is skipped.
NextOfSame(k) == IF pay[k].at = "stored" THEN 1 ELSE pay[k].i
NextOfLate(k) == IF pay[k].at = "stored" THEN 2 ELSE pay[k].i + 1
NextOf(k)  == IF pay[k].at = "stored" THEN 1 ELSE pay[k].i + 1

Turn(k) == pay[k].at \in {"stored", "written"}

\* The loop reads the product of the next line.
ReadProduct(k) ==
    /\ Turn(k) /\ NextOf(k) <= Len(ArrayOf(k))
    /\ LET l == ArrayOf(k)[NextOf(k)]
           alias == pay[k].at = "stored" \/ pay[k].alias
       IN pay' = [pay EXCEPT ![k] =
                    [at |-> "read", trx |-> @.trx, i |-> NextOf(k), alias |-> alias,
                     array |-> IF alias THEN << >> ELSE @.array, held |-> alias,
                     line |-> l, stock |-> Read(l.product)]]
    /\ UNCHANGED <<stores, cart, modal, method, pending, office, book, shaky>>

\* The stock after the sale of q units of a product read with stock n.
\* Mutant: the floor is forgotten.
RemainingNoFloor(n, q) == n - q
Remaining(n, q) == Larger(0, n - q)

\* The product is written back, if it was there.
WriteStock(k) ==
    LET p == pay[k].line.product
        q == pay[k].line.qty
        n == pay[k].stock
    IN
    /\ pay[k].at = "read" /\ pending = << >>
    /\ pay' = [pay EXCEPT ![k].at = "written"]
    /\ IF n = Gone THEN shelf' = shelf
                   ELSE shelf' = Put(shelf, p, Remaining(n, q))
    /\ UNCHANGED <<sales, debts, cart, modal, method, pending, office, book, shaky>>

\* The end of the call: the modal closes and the cart is a new array.
Leaves(k) ==
    /\ modal' = FALSE /\ cart' = << >>
    /\ pay' = [[j \in Payers |-> Detached(j)] EXCEPT ![k] = Idle]
    /\ book' = Without(UNION {SoldBy(j) : j \in {j \in Active \ {k} : pay[j].at = "stored"}})
    /\ UNCHANGED <<shelf, sales, method, pending, office, shaky>>

\* The payment method asked for when the loop is over.
\* Mutant: the question is forgotten.
OwesAnyway(k) == TRUE
Owes(k) == method = "debt"

StoreDebt(k) ==
    /\ Turn(k) /\ NextOf(k) > Len(ArrayOf(k)) /\ Owes(k)
    /\ debts' = debts \cup {pay[k].trx}
    /\ pay' = [pay EXCEPT ![k] = [at |-> "owed", trx |-> @.trx]]
    /\ UNCHANGED <<shelf, sales, cart, modal, method, pending, office, book, shaky>>

FinishPaid(k) ==
    /\ Turn(k) /\ NextOf(k) > Len(ArrayOf(k)) /\ ~Owes(k)
    /\ Leaves(k)
    /\ UNCHANGED debts

FinishOwed(k) ==
    /\ pay[k].at = "owed"
    /\ Leaves(k)
    /\ UNCHANGED debts

\* The next request of the call fails (storage quota): it ends there, the
\* sale stays and the cart too.
RequestFails(k) ==
    /\ \/ Turn(k) /\ (NextOf(k) <= Len(ArrayOf(k)) \/ Owes(k))
       \/ pay[k].at = "read"
    /\ book' = Without(SoldBy(k))
    /\ shaky' = shaky \cup {pay[k].trx}
    /\ pay' = [pay EXCEPT ![k] = Idle]
    /\ UNCHANGED <<stores, cart, modal, method, pending, office>>

PayStep(k) ==
    ReadProduct(k) \/ WriteStock(k) \/ StoreDebt(k) \/ FinishPaid(k) \/ FinishOwed(k)

-----------------------------------------------------------------------------
(* The inventory tab, which another browser tab may show.                  *)

Visit == visits < MaxVisits /\ visits' = visits + 1

\* The product p is stored with stock n by an operator who saw seen, and b is
\* then what should be there. It is an interference when the stock had changed
\* since it was seen, while p is sold, or below what a cart was filled from.
Restock(p, seen, n, b) ==
    /\ shelf' = Put(shelf, p, n)
    /\ book' = [q \in DOMAIN Without(IF \/ Read(p) # seen
                                        \/ Selling(p)
                                        \/ n < seen /\ p \in InCart
                                     THEN {p} ELSE {}) |->
                   IF q = p THEN b ELSE book[q]]

\* saveStockAdjustment() reads the product; a stock that becomes too large is
\* beyond the bound.
AdjustedTo(kind, n, q) == CASE kind = "in"  -> n + q
                            [] kind = "out" -> Larger(0, n - q)
                            [] kind = "set" -> q

Adjust(p, kind, q) ==
    /\ adjusting = None /\ p \in DOMAIN shelf
    /\ AdjustedTo(kind, shelf[p], q) <= MaxStock
    /\ Visit
    /\ adjusting' = [product |-> p, stock |-> shelf[p],
                     to |-> AdjustedTo(kind, shelf[p], q)]
    /\ UNCHANGED <<stores, memory, form, book, shaky>>

\* ... and writes it back.
Adjusted ==
    /\ adjusting # None /\ pending = << >>
    /\ Restock(adjusting.product, adjusting.stock, adjusting.to, adjusting.to)
    /\ adjusting' = None
    /\ UNCHANGED <<sales, debts, memory, form, visits, shaky>>

\* openProductFormModal() shows the stock; saveProduct() stores what the form
\* says, edited or not; deleteProduct() removes the product.
OpenForm(p) ==
    /\ form = None /\ p \in DOMAIN shelf
    /\ Visit
    /\ form' = [product |-> p, stock |-> shelf[p]]
    /\ UNCHANGED <<stores, memory, adjusting, book, shaky>>

SaveProduct(n) ==
    /\ form # None /\ pending = << >>
    /\ Restock(form.product, form.stock, n, n)
    /\ form' = None
    /\ UNCHANGED <<sales, debts, memory, adjusting, visits, shaky>>

DeleteProduct ==
    /\ form # None /\ pending = << >>
    /\ shelf' = [p \in DOMAIN shelf \ {form.product} |-> shelf[p]]
    /\ book' = Without({form.product})
    /\ form' = None
    /\ UNCHANGED <<sales, debts, memory, adjusting, visits, shaky>>

\* The page is reloaded, closed or killed: only the stores survive.
Reload ==
    /\ cart' = << >> /\ modal' = FALSE /\ method' = "cash"
    /\ pending' = << >> /\ pay' = [k \in Payers |-> Idle]
    /\ book' = Without(UNION {SoldBy(k) : k \in Active})
    /\ shaky' = shaky \cup {pay[k].trx : k \in Active}
    /\ UNCHANGED <<stores, office>>

Next ==
    \/ \E p \in Products : Tap(p) \/ OpenForm(p)
    \/ Added \/ OpenCheckout \/ Dismiss \/ ClearCart
    \/ \E i \in 1..Len(cart), delta \in {-1, 1} : ChangeQty(i, delta)
    \/ \E m \in Methods : ChooseMethod(m)
    \/ \E k \in Payers : PayStep(k) \/ RequestFails(k) \/ \E id \in TrxIds : Pay(k, id)
    \/ \E p \in Products, kind \in {"in", "out", "set"}, q \in 0..MaxStock :
          Adjust(p, kind, q)
    \/ Adjusted \/ DeleteProduct
    \/ \E n \in Levels : SaveProduct(n)
    \/ Reload

Spec == Init /\ [][Next]_vars

\* A request that was made is answered, in the order of requests; nothing is
\* assumed of the user.
Fairness == WF_vars(Added) /\ \A k \in Payers : SF_vars(PayStep(k))

FairSpec == Spec /\ Fairness

-----------------------------------------------------------------------------
(* Properties.                                                             *)

TypeOK ==
    /\ shelf \in [DOMAIN shelf -> Levels] /\ DOMAIN shelf \subseteq Products
    /\ debts \subseteq DOMAIN sales /\ DOMAIN sales \subseteq TrxIds
    /\ Lines(cart) \subseteq Line
    /\ \A id \in DOMAIN sales : sales[id] \in [items : [Products -> 0..MaxStock],
                                              method : Methods]
    /\ modal \in BOOLEAN /\ method \in Methods
    /\ {pending[i].product : i \in 1..Len(pending)} \subseteq Products
    /\ Len(pending) <= MaxPending
    /\ \A k \in Active : pay[k].trx \in DOMAIN sales
    /\ DOMAIN book \subseteq Products /\ visits \in 0..MaxVisits

Quiet == Active = {}

\* Between payments the shelf holds what was delivered less what the stored
\* sales took, however taps, payments and stock counts interleave, for every
\* product no one interfered with (saw stale, sold twice, cut short). The loop
\* of pos.js:553 then never needs its Math.max(0, ...).
StockMatchesSales ==
    Quiet => \A p \in DOMAIN book \cap DOMAIN shelf : shelf[p] = book[p]

\* Between payments a cart asks for no more than the shelf holds, although
\* addToCart() compares with a stock it read earlier and changeItemQty() with
\* the one of an even earlier tap.
CartCanBeServed ==
    Quiet => \A l \in Lines(cart) :
               l.product \in DOMAIN book \cap DOMAIN shelf => l.qty <= shelf[l.product]

\* A sale whose payment is over is in the debts store exactly when it was made
\* on credit, unless the payment was cut short or the method was changed
\* while it ran.
DebtMatchesSale ==
    \A id \in DOMAIN sales \ shaky :
        (\A k \in Active : pay[k].trx # id) => (sales[id].method = "debt" <=> id \in debts)

\* A call of processPayment() ends, although its loop iterates a cart that the
\* user may change meanwhile.
PaymentEnds == \A k \in Payers : pay[k] # Idle ~> pay[k] = Idle
=============================================================================
