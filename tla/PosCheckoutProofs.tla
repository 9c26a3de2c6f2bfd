--------------------------- MODULE PosCheckoutProofs ---------------------------
(***************************************************************************)
(* Proofs about PosCheckout: what the stores hold between payments, for    *)
(* every number of products, sales and open payments.                      *)
(***************************************************************************)
EXTENDS PosCheckout, SequenceTheorems, TLAPS

-----------------------------------------------------------------------------
(* Types.                                                                  *)

Stocks   == 0..MaxStock
Answers  == {Gone} \cup Levels
Sale     == [items : [Products -> Stocks], method : Methods]
Tapped   == [product : Products, stock : Answers]
Counted  == [product : Products, stock : Levels, to : Levels]
Shown    == [product : Products, stock : Levels]
Looping  == [at : {"read", "written"}, trx : TrxIds, i : Nat \ {0}, alias : BOOLEAN,
             array : Seq(Line), held : BOOLEAN, line : Line, stock : Answers]
Resting  == [at : {"stored", "owed"}, trx : TrxIds]

\* A cart has one line for a product.
Distinct(c) == \A i, j \in 1..Len(c) : c[i].product = c[j].product => i = j

StoresOK ==
    /\ DOMAIN shelf \subseteq Products /\ shelf \in [DOMAIN shelf -> Levels]
    /\ DOMAIN sales \subseteq TrxIds /\ sales \in [DOMAIN sales -> Sale]
    /\ debts \subseteq DOMAIN sales

CartOK == cart \in Seq(Line) /\ Distinct(cart)

TillOK ==
    /\ modal \in BOOLEAN /\ method \in Methods
    /\ pending \in Seq(Tapped) /\ Len(pending) <= MaxPending

PayOK ==
    /\ pay \in [Payers -> {Idle} \cup Resting \cup Looping]
    /\ \A k \in Active : pay[k].trx \in DOMAIN sales
    /\ \A k \in Payers : pay[k].at = "read" => (pay[k].held => pay[k].alias)
    /\ \A k \in Payers : pay[k].at \in {"read", "written"} => Distinct(pay[k].array)

OfficeOK ==
    /\ adjusting \in {None} \cup Counted
    /\ form \in {None} \cup Shown
    /\ visits \in 0..MaxVisits

BookOK == DOMAIN book \subseteq Products /\ book \in [DOMAIN book -> Int]

TypeInv == StoresOK /\ CartOK /\ TillOK /\ PayOK /\ OfficeOK /\ BookOK

-----------------------------------------------------------------------------
(* The sale and its debt.                                                  *)

DebtInv ==
    /\ \A j, k \in Active : pay[j].trx = pay[k].trx => j = k
    /\ \A k \in Active : pay[k].trx \notin shaky =>
          IF pay[k].at = "owed"
          THEN pay[k].trx \in debts /\ sales[pay[k].trx].method = "debt"
          ELSE pay[k].trx \notin debts /\ sales[pay[k].trx].method = method
    /\ DebtMatchesSale

-----------------------------------------------------------------------------
(* The shelf.                                                              *)

Items(k) == sales[pay[k].trx].items

\* What is left to write for product p by payment k: the line it has read, and
\* the lines it has not come to.
AtLine(k, p) == pay[k].at = "read" /\ pay[k].line.product = p
Coming(k, p) ==
    IF pay[k].at \in {"stored", "read", "written"}
    THEN {j \in NextOf(k)..Len(ArrayOf(k)) : ArrayOf(k)[j].product = p} ELSE {}
Owing(k, p) == IF AtLine(k, p) \/ Coming(k, p) # {} THEN Items(k)[p] ELSE 0

\* Payment k, and what it still owes to the shelf of p.
Sound(k, p) ==
    /\ \A j \in Coming(k, p) : ArrayOf(k)[j].qty = Items(k)[p]
    /\ \A i, j \in Coming(k, p) : i = j
    /\ AtLine(k, p) => /\ pay[k].line.qty = Items(k)[p] /\ pay[k].stock = shelf[p]
                       /\ Coming(k, p) = {}
    /\ pay[k].at = "stored" /\ Items(k)[p] > 0 => Coming(k, p) # {}
    /\ Items(k)[p] > 0 => book[p] >= 0 /\ shelf[p] = book[p] + Owing(k, p)

Fresh == \A i \in 1..Len(pending) : pending[i].stock = Read(pending[i].product)

Served(p) ==
    \A i \in 1..Len(cart) : cart[i].product = p =>
        cart[i].qty <= shelf[p] /\ cart[i].maxStock <= shelf[p]

Counts(p) ==
    /\ p \in DOMAIN shelf
    /\ ~Selling(p) => shelf[p] = book[p] /\ Served(p)
    /\ \A j, k \in Active : p \in SoldBy(j) /\ p \in SoldBy(k) => j = k
    /\ \A k \in Active : Sound(k, p)

StockInv == Fresh /\ \A p \in DOMAIN book : Counts(p)

-----------------------------------------------------------------------------
(* What the helpers return.                                                *)

LEMMA PayShape ==
    ASSUME TypeInv, NEW k \in Payers
    PROVE  /\ pay[k].at \in {"idle", "stored", "owed", "read", "written"}
           /\ pay[k].at = "idle" <=> pay[k] = Idle
           /\ pay[k].at \in {"stored", "owed"} => pay[k] \in Resting
           /\ pay[k].at \in {"read", "written"} => pay[k] \in Looping
<1>1. pay[k] \in {Idle} \cup Resting \cup Looping
  BY DEF TypeInv, PayOK
<1>2. CASE pay[k] = Idle
  BY <1>2 DEF Idle
<1>3. CASE pay[k] \in Resting
  BY <1>3 DEF Idle, Resting
<1>4. CASE pay[k] \in Looping
  BY <1>4 DEF Idle, Looping
<1>. QED
  BY <1>1, <1>2, <1>3, <1>4

LEMMA CartLines ==
    ASSUME TypeInv
    PROVE  /\ Len(cart) \in Nat
           /\ \A i \in 1..Len(cart) :
                /\ cart[i] \in Line /\ cart[i].product \in Products
                /\ cart[i].qty \in 1..MaxStock /\ cart[i].maxStock \in Stocks
                /\ cart[i].product \in InCart
           /\ \A p \in InCart : \E i \in 1..Len(cart) : cart[i].product = p
<1>1. cart \in Seq(Line) /\ Len(cart) \in Nat
  BY LenProperties DEF TypeInv, CartOK
<1>2. \A i \in 1..Len(cart) : cart[i] \in Line
  BY <1>1, ElementOfSeq
<1>. QED
  BY <1>1, <1>2 DEF Line, Stocks, InCart, Lines

LEMMA QtyOfCart ==
    ASSUME TypeInv
    PROVE  /\ Qty(cart) \in [Products -> Stocks]
           /\ \A i \in 1..Len(cart) : Qty(cart)[cart[i].product] = cart[i].qty
           /\ \A p \in Products : Qty(cart)[p] > 0 <=> p \in InCart
           /\ \A p \in Products : p \notin InCart => Qty(cart)[p] = 0
<1>1. ASSUME NEW i \in 1..Len(cart)
      PROVE  Qty(cart)[cart[i].product] = cart[i].qty
  <2>1. \A l \in Lines(cart) : l.product = cart[i].product => l = cart[i]
    BY DEF Lines, TypeInv, CartOK, Distinct
  <2>2. cart[i] \in Lines(cart) /\ cart[i].product \in Products
    BY CartLines DEF Lines
  <2>3. (CHOOSE l \in Lines(cart) : l.product = cart[i].product) = cart[i]
    BY <2>1, <2>2
  <2>. QED
    BY <2>2, <2>3 DEF Qty
<1>2. ASSUME NEW p \in Products, p \notin InCart PROVE Qty(cart)[p] = 0
  BY <1>2 DEF Qty, InCart
<1>3. ASSUME NEW p \in Products
      PROVE  Qty(cart)[p] \in Stocks /\ (Qty(cart)[p] > 0 <=> p \in InCart)
  <2>1. CASE p \in InCart
    <3>1. PICK i \in 1..Len(cart) : cart[i].product = p
      BY <2>1, CartLines
    <3>. QED
      BY <1>1, <2>1, <3>1, CartLines DEF Stocks
  <2>2. CASE p \notin InCart
    BY <1>2, <2>2, ConstantsAssumption DEF Stocks
  <2>. QED
    BY <2>1, <2>2
<1>4. Qty(cart) = [p \in Products |-> Qty(cart)[p]]
  BY DEF Qty
<1>. QED
  BY <1>1, <1>2, <1>3, <1>4

\* The cart without its line i.
LEMMA CartRemoved ==
    ASSUME TypeInv, NEW i \in 1..Len(cart)
    PROVE  /\ Removed(i) \in Seq(Line) /\ Distinct(Removed(i))
           /\ \A j \in 1..Len(Removed(i)) : \E l \in 1..Len(cart) : Removed(i)[j] = cart[l]
<1>1. cart \in Seq(Line) /\ Len(cart) \in Nat /\ Distinct(cart) /\ i \in Nat
  BY CartLines DEF TypeInv, CartOK
<1>2. PICK a \in Seq(Line) : /\ a = SubSeq(cart, 1, i - 1) /\ Len(a) = i - 1
                             /\ \A j \in 1..(i - 1) : a[j] = cart[j]
  <2>1. /\ SubSeq(cart, 1, i - 1) \in Seq(Line) /\ Len(SubSeq(cart, 1, i - 1)) = i - 1
        /\ \A j \in 1..(i - 1) : SubSeq(cart, 1, i - 1)[j] = cart[j]
    BY <1>1, SubSeqProperties
  <2>. QED
    BY <2>1
<1>3. PICK b \in Seq(Line) : /\ b = SubSeq(cart, i + 1, Len(cart)) /\ Len(b) = Len(cart) - i
                             /\ \A j \in 1..(Len(cart) - i) : b[j] = cart[i + j]
  <2>1. /\ SubSeq(cart, i + 1, Len(cart)) \in Seq(Line)
        /\ Len(SubSeq(cart, i + 1, Len(cart))) = Len(cart) - i
        /\ \A j \in 1..(Len(cart) - i) : SubSeq(cart, i + 1, Len(cart))[j] = cart[i + j]
    BY <1>1, SubSeqProperties
  <2>. QED
    BY <2>1
<1>4. PICK w \in Seq(Line) : /\ w = Removed(i) /\ Len(w) = Len(a) + Len(b)
                             /\ \A j \in 1..(Len(a) + Len(b)) :
                                   w[j] = IF j <= Len(a) THEN a[j] ELSE b[j - Len(a)]
  <2>1. Removed(i) = a \o b
    BY <1>2, <1>3 DEF Removed
  <2>2. /\ a \o b \in Seq(Line) /\ Len(a \o b) = Len(a) + Len(b)
        /\ \A j \in 1..(Len(a) + Len(b)) :
              (a \o b)[j] = IF j <= Len(a) THEN a[j] ELSE b[j - Len(a)]
    BY ConcatProperties
  <2>. QED
    BY <2>1, <2>2
<1>8. Len(w) = Len(cart) - 1 /\ Len(a) + Len(b) = Len(cart) - 1
  <2>1. Len(w) = Len(a) + Len(b) /\ Len(a) = i - 1 /\ Len(b) = Len(cart) - i
    BY <1>2, <1>3, <1>4
  <2>. QED
    BY <1>1, <2>1
<1>5. ASSUME NEW j \in 1..(Len(cart) - 1)
      PROVE  w[j] = IF j < i THEN cart[j] ELSE cart[j + 1]
  <2>1. CASE j < i
    <3>1. j <= Len(a) /\ j \in 1..(i - 1) /\ j \in 1..(Len(a) + Len(b))
      BY <1>1, <1>2, <1>8, <2>1
    <3>. QED
      BY <1>2, <1>4, <2>1, <3>1
  <2>2. CASE ~(j < i)
    <3>1. /\ ~(j <= Len(a)) /\ j - Len(a) = j - i + 1 /\ j \in 1..(Len(a) + Len(b))
          /\ j - i + 1 \in 1..(Len(cart) - i) /\ i + (j - i + 1) = j + 1
      BY <1>1, <1>2, <1>8, <2>2
    <3>2. w[j] = b[j - i + 1]
      BY <1>4, <3>1
    <3>. QED
      BY <1>3, <2>2, <3>1, <3>2
  <2>. QED
    BY <2>1, <2>2
<1>6. Distinct(w)
  <2>. SUFFICES ASSUME NEW j \in 1..(Len(cart) - 1), NEW l \in 1..(Len(cart) - 1),
                       w[j].product = w[l].product
                PROVE  j = l
    BY <1>8 DEF Distinct
  <2>0. /\ j \in 1..Len(cart) /\ j + 1 \in 1..Len(cart)
        /\ l \in 1..Len(cart) /\ l + 1 \in 1..Len(cart)
    BY <1>1
  <2>1. PICK x \in 1..Len(cart) : w[j] = cart[x] /\ x = IF j < i THEN j ELSE j + 1
    BY <1>5, <2>0
  <2>2. PICK y \in 1..Len(cart) : w[l] = cart[y] /\ y = IF l < i THEN l ELSE l + 1
    BY <1>5, <2>0
  <2>3. x = y
    BY <1>1, <2>1, <2>2 DEF Distinct
  <2>. QED
    BY <1>1, <2>1, <2>2, <2>3
<1>7. ASSUME NEW j \in 1..(Len(cart) - 1) PROVE \E l \in 1..Len(cart) : w[j] = cart[l]
  <2>1. j \in 1..Len(cart) /\ j + 1 \in 1..Len(cart)
    BY <1>1
  <2>. QED
    BY <1>5, <2>1
<1>. QED
  BY <1>4, <1>6, <1>7, <1>8

\* The cart with one more line, and with another quantity in its line i.
LEMMA CartAppended ==
    ASSUME TypeInv, NEW l \in Line, l.product \notin InCart
    PROVE  /\ Append(cart, l) \in Seq(Line) /\ Distinct(Append(cart, l))
           /\ Len(Append(cart, l)) = Len(cart) + 1
           /\ \A j \in 1..Len(cart) : Append(cart, l)[j] = cart[j]
           /\ Append(cart, l)[Len(cart) + 1] = l
<1>1. cart \in Seq(Line) /\ Len(cart) \in Nat /\ Distinct(cart)
  BY CartLines DEF TypeInv, CartOK
<1>2. PICK w \in Seq(Line) : /\ w = Append(cart, l) /\ Len(w) = Len(cart) + 1
                             /\ \A j \in 1..Len(cart) : w[j] = cart[j]
                             /\ w[Len(cart) + 1] = l
  BY <1>1, AppendProperties
<1>3. \A j \in 1..(Len(cart) + 1) : j \in 1..Len(cart) \/ j = Len(cart) + 1
  BY <1>1
<1>4. \A j \in 1..Len(cart) : w[j].product # l.product
  BY <1>2, CartLines
<1>5. Distinct(w)
  BY <1>1, <1>2, <1>3, <1>4 DEF Distinct
<1>. QED
  BY <1>2, <1>5

LEMMA CartChanged ==
    ASSUME TypeInv, NEW i \in 1..Len(cart), NEW q \in 1..MaxStock
    PROVE  \E c \in Seq(Line) :
           /\ c = [cart EXCEPT ![i].qty = q] /\ Distinct(c) /\ Len(c) = Len(cart)
           /\ \A j \in 1..Len(cart) :
                 /\ c[j].product = cart[j].product /\ c[j].maxStock = cart[j].maxStock
                 /\ c[j].qty = IF j = i THEN q ELSE cart[j].qty
                 /\ j # i => c[j] = cart[j]
<1>1. cart \in Seq(Line) /\ Len(cart) \in Nat /\ Distinct(cart)
  BY CartLines DEF TypeInv, CartOK
<1>2. PICK l \in Line : /\ l = [cart[i] EXCEPT !.qty = q] /\ l.product = cart[i].product
                        /\ l.maxStock = cart[i].maxStock /\ l.qty = q
  <2>1. PICK x \in Line : x = cart[i]
    BY CartLines
  <2>2. [x EXCEPT !.qty = q] \in Line
    BY DEF Line
  <2>3. /\ [x EXCEPT !.qty = q].product = x.product /\ [x EXCEPT !.qty = q].qty = q
        /\ [x EXCEPT !.qty = q].maxStock = x.maxStock
    BY DEF Line
  <2>. QED
    BY <2>1, <2>2, <2>3
<1>3. PICK c : c = [cart EXCEPT ![i] = l]
  OBVIOUS
<1>4. c = [cart EXCEPT ![i].qty = q]
  BY <1>1, <1>2, <1>3
<1>5. c \in Seq(Line) /\ Len(c) = Len(cart)
        /\ \A j \in 1..Len(cart) : c[j] = IF j = i THEN l ELSE cart[j]
  BY <1>1, <1>3, ExceptSeq
<1>6. \A j \in 1..Len(c) : c[j].product = cart[j].product
  BY <1>2, <1>5
<1>7. Distinct(c)
  BY <1>1, <1>5, <1>6 DEF Distinct
<1>8. \A j \in 1..Len(cart) :
         /\ c[j].product = cart[j].product /\ c[j].maxStock = cart[j].maxStock
         /\ c[j].qty = IF j = i THEN q ELSE cart[j].qty
         /\ j # i => c[j] = cart[j]
  BY <1>2, <1>5
<1>. QED
  BY <1>4, <1>5, <1>7, <1>8

LEMMA BookWithout ==
    ASSUME BookOK, NEW D
    PROVE  /\ Without(D) \in [DOMAIN book \ D -> Int] /\ DOMAIN book \ D \subseteq Products
           /\ DOMAIN Without(D) = DOMAIN book \ D
           /\ \A p \in DOMAIN Without(D) : Without(D)[p] = book[p]
BY DEF BookOK, Without

LEMMA MutateType ==
    ASSUME TypeInv, NEW c \in Seq(Line), Distinct(c), NEW p \in Products,
           NEW q \in Int, q <= MaxStock, Mutate(c, p, q), sales' = sales
    PROVE  /\ CartOK' /\ PayOK' /\ BookOK'
           /\ \A k \in Payers : pay'[k].at = pay[k].at
           /\ \A k \in Payers : pay[k].at # "idle" => pay'[k].trx = pay[k].trx
<1>1. CartOK'
  BY DEF Mutate, CartOK
<1>2. BookOK'
  <2>1. PICK D : book' = Without(D)
    BY DEF Mutate
  <2>. QED
    BY <2>1, BookWithout DEF BookOK, TypeInv
<1>3. ASSUME NEW k \in Payers
      PROVE  \/ pay'[k] = pay[k]
             \/ /\ pay[k] \in Looping /\ pay'[k] \in Looping /\ pay[k].at = "read"
                /\ pay'[k].at = pay[k].at /\ pay'[k].trx = pay[k].trx
                /\ pay'[k].alias = pay[k].alias /\ pay'[k].array = pay[k].array
                /\ pay'[k].held => pay[k].held
  <2>1. CASE pay[k].at = "read" /\ pay[k].held /\ pay[k].line.product = p
    <3>1. PICK x \in Looping : x = pay[k]
      BY <2>1, PayShape
    <3>2. CASE q > 0
      <4>1. pay'[k] = [x EXCEPT !.line.qty = q]
        BY <2>1, <3>1, <3>2 DEF Mutate
      <4>2. q \in 1..MaxStock
        BY <3>2, ConstantsAssumption
      <4>3. PICK l \in Line : l = x.line
        BY DEF Looping
      <4>4. PICK l2 \in Line : l2 = [l EXCEPT !.qty = q]
        BY <4>2 DEF Line
      <4>5. [x EXCEPT !.line.qty = q] = [x EXCEPT !.line = l2]
        BY <4>3, <4>4 DEF Looping
      <4>. QED
        BY <2>1, <3>1, <4>1, <4>5, SMTT(30) DEF Looping
    <3>3. CASE ~(q > 0)
      <4>1. pay'[k] = [x EXCEPT !.held = FALSE]
        BY <2>1, <3>1, <3>3 DEF Mutate
      <4>2. PICK z : z = [x EXCEPT !.held = FALSE]
        OBVIOUS
      <4>3. /\ z \in Looping /\ ~z.held /\ z.at = x.at /\ z.trx = x.trx
            /\ z.array = x.array /\ z.alias = x.alias
        BY <4>2 DEF Looping
      <4>. QED
        BY <2>1, <3>1, <4>1, <4>2, <4>3
    <3>. QED
      BY <3>2, <3>3
  <2>2. CASE ~(pay[k].at = "read" /\ pay[k].held /\ pay[k].line.product = p)
    BY <2>2 DEF Mutate
  <2>. QED
    BY <2>1, <2>2
<1>4. \A k \in Payers : pay'[k] \in {Idle} \cup Resting \cup Looping
  BY <1>3 DEF TypeInv, PayOK
<1>5. pay' = [k \in Payers |-> pay'[k]]
  BY DEF Mutate
<1>6. pay' \in [Payers -> {Idle} \cup Resting \cup Looping]
  BY <1>4, <1>5
<1>7. \A k \in Payers : pay'[k].at = pay[k].at
  BY <1>3
<1>8. \A k \in Payers : pay[k].at # "idle" => pay'[k].trx = pay[k].trx
  BY <1>3
<1>. QED
  BY <1>1, <1>2, <1>3, <1>6, <1>7, <1>8 DEF TypeInv, PayOK, Active

LEMMA DetachedType ==
    ASSUME TypeInv, NEW k \in Payers
    PROVE  /\ Detached(k) \in {Idle} \cup Resting \cup Looping
           /\ Detached(k).at = pay[k].at
           /\ pay[k].at # "idle" => Detached(k).trx = pay[k].trx
           /\ Detached(k).at = "read" => (Detached(k).held => Detached(k).alias)
           /\ Detached(k).at \in {"read", "written"} => Distinct(Detached(k).array)
<1>1. CASE Iterates(k)
  <2>1. PICK x \in Looping : x = pay[k]
    BY <1>1, PayShape DEF Iterates
  <2>2. PICK y : y = [x EXCEPT !.alias = FALSE, !.array = cart, !.held = FALSE]
    OBVIOUS
  <2>3. cart \in Seq(Line) /\ Distinct(cart)
    BY DEF TypeInv, CartOK
  <2>4. /\ y \in Looping /\ y.at = x.at /\ y.trx = x.trx /\ y.array = cart
        /\ y.held = FALSE /\ x.at # "idle"
    BY <2>2, <2>3 DEF Looping
  <2>. QED
    BY <1>1, <2>1, <2>2, <2>3, <2>4 DEF Detached
<1>2. CASE ~Iterates(k)
  BY <1>2 DEF Detached, TypeInv, PayOK
<1>. QED
  BY <1>1, <1>2

LEMMA ReadType ==
    ASSUME TypeInv, NEW p
    PROVE  Read(p) \in Answers /\ (p \in DOMAIN shelf => Read(p) = shelf[p] /\ Read(p) \in Levels)
BY DEF TypeInv, StoresOK, Read, Answers

LEMMA PutType ==
    ASSUME NEW S, NEW f, f \in [DOMAIN f -> S], NEW x, NEW v \in S
    PROVE  /\ Put(f, x, v) \in [DOMAIN f \cup {x} -> S] /\ Put(f, x, v)[x] = v
           /\ DOMAIN Put(f, x, v) = DOMAIN f \cup {x}
           /\ \A y \in DOMAIN f : y # x => Put(f, x, v)[y] = f[y]
BY DEF Put

\* addToCart() and changeItemQty() keep a line for a product, within the stock.
LEMMA AddedType ==
    ASSUME TypeInv, Added
    PROVE  TypeInv' /\ (\/ UNCHANGED <<cart, pay, book>>
                       \/ \E p \in Products, q \in 1..MaxStock : Mutate(cart', p, q))
<1>0. pending \in Seq(Tapped) /\ pending # << >> /\ pending' = Tail(pending)
        /\ UNCHANGED <<stores, modal, method, office>>
  BY DEF Added, TypeInv, TillOK
<1>1. Head(pending) \in Tapped /\ Tail(pending) \in Seq(Tapped)
        /\ Len(Tail(pending)) = Len(pending) - 1 /\ Len(pending) \in Nat
  BY <1>0, HeadTailProperties, LenProperties
<1>2. PICK p \in Products : p = Head(pending).product
  BY <1>1 DEF Tapped
<1>3. PICK n \in Answers : n = Head(pending).stock
  BY <1>1 DEF Tapped
<1>4. TillOK' /\ StoresOK' /\ OfficeOK'
  BY <1>0, <1>1, ConstantsAssumption DEF TypeInv, TillOK, StoresOK, OfficeOK, stores, office
<1>5. n > 0 => n \in 1..MaxStock
  BY <1>3, ConstantsAssumption DEF Answers, Levels, Stocks, Gone
<1>6. ASSUME NEW c \in Seq(Line), Distinct(c), NEW q \in 1..MaxStock, Mutate(c, p, q)
      PROVE  TypeInv' /\ \E y \in Products, z \in 1..MaxStock : Mutate(cart', y, z)
  <2>1. CartOK' /\ PayOK' /\ BookOK'
    BY <1>0, <1>6, MutateType, ConstantsAssumption DEF stores
  <2>2. cart' = c
    BY <1>6 DEF Mutate
  <2>. QED
    BY <1>4, <1>6, <2>1, <2>2 DEF TypeInv
<1>7. CASE n > 0 /\ LinesOf(p) = {}
             /\ Mutate(Append(cart, [product |-> p, qty |-> 1, maxStock |-> n]), p, 1)
  <2>1. PICK l \in Line : l = [product |-> p, qty |-> 1, maxStock |-> n] /\ l.product = p
    BY <1>5, <1>7, ConstantsAssumption DEF Line
  <2>2. p \notin InCart
    BY <1>7, CartLines DEF LinesOf
  <2>3. Append(cart, l) \in Seq(Line) /\ Distinct(Append(cart, l))
    BY <2>1, <2>2, CartAppended
  <2>4. 1 \in 1..MaxStock /\ Mutate(Append(cart, l), p, 1)
    BY <1>5, <1>7, <2>1, ConstantsAssumption
  <2>. QED
    BY <1>6, <2>3, <2>4
<1>8. CASE \E i \in LinesOf(p) :
             /\ n > 0 /\ Fits(cart[i].qty + 1, n)
             /\ Mutate([cart EXCEPT ![i].qty = @ + 1], p, cart[i].qty + 1)
  <2>1. PICK i \in 1..Len(cart) :
             /\ n > 0 /\ Fits(cart[i].qty + 1, n)
             /\ Mutate([cart EXCEPT ![i].qty = @ + 1], p, cart[i].qty + 1)
    BY <1>8 DEF LinesOf
  <2>2. PICK q \in 1..MaxStock : q = cart[i].qty + 1
    BY <1>5, <2>1, CartLines, ConstantsAssumption DEF Fits
  <2>3. [cart EXCEPT ![i].qty = @ + 1] = [cart EXCEPT ![i].qty = q]
    BY <2>2
  <2>4. PICK c \in Seq(Line) : c = [cart EXCEPT ![i].qty = q] /\ Distinct(c)
    BY CartChanged
  <2>5. Mutate(c, p, q)
    BY <2>1, <2>2, <2>3, <2>4
  <2>. QED
    BY <1>6, <2>4, <2>5
<1>9. CASE UNCHANGED <<cart, pay, book>>
  <2>1. CartOK' /\ PayOK' /\ BookOK'
    BY <1>0, <1>9 DEF TypeInv, CartOK, PayOK, Active, BookOK, stores
  <2>. QED
    BY <1>4, <1>9, <2>1 DEF TypeInv
<1>. QED
  BY <1>2, <1>3, <1>7, <1>8, <1>9 DEF Added

LEMMA ChangeQtyType ==
    ASSUME TypeInv, NEW i \in 1..Len(cart), NEW delta \in {-1, 1}, ChangeQty(i, delta)
    PROVE  TypeInv'
<1>0. UNCHANGED <<stores, modal, method, pending, office>>
  BY DEF ChangeQty
<1>1. TillOK' /\ StoresOK' /\ OfficeOK'
  BY <1>0 DEF TypeInv, TillOK, StoresOK, OfficeOK, stores, office
<1>2. PICK q \in Int : q = cart[i].qty + delta
  BY CartLines
<1>3. cart[i].product \in Products /\ q <= MaxStock
  BY <1>2, CartLines, ConstantsAssumption DEF ChangeQty, Stocks
<1>4. CartOK' /\ PayOK' /\ BookOK'
  <2>1. CASE q <= 0
    <3>1. Mutate(Removed(i), cart[i].product, q)
      BY <1>2, <2>1 DEF ChangeQty
    <3>. QED
      BY <1>0, <1>3, <3>1, CartRemoved, MutateType DEF stores
  <2>2. CASE ~(q <= 0)
    <3>1. Mutate([cart EXCEPT ![i].qty = @ + delta], cart[i].product, q)
      BY <1>2, <2>2 DEF ChangeQty
    <3>2. [cart EXCEPT ![i].qty = @ + delta] = [cart EXCEPT ![i].qty = q]
      BY <1>2
    <3>3. q \in 1..MaxStock
      BY <1>3, <2>2, ConstantsAssumption
    <3>. QED
      BY <1>0, <1>3, <3>1, <3>2, <3>3, CartChanged, MutateType DEF stores
  <2>. QED
    BY <2>1, <2>2
<1>. QED
  BY <1>1, <1>4 DEF TypeInv

\* The buttons of the till.
LEMMA ButtonType ==
    ASSUME TypeInv, \/ \E p \in Products : Tap(p)
                    \/ OpenCheckout \/ Dismiss
                    \/ \E m \in Methods : ChooseMethod(m)
    PROVE  TypeInv'
<1>1. UNCHANGED <<stores, cart, pay, office, book>>
  BY DEF Tap, OpenCheckout, Dismiss, ChooseMethod
<1>2. StoresOK' /\ CartOK' /\ PayOK' /\ OfficeOK' /\ BookOK'
  BY <1>1 DEF TypeInv, StoresOK, CartOK, PayOK, Active, OfficeOK, BookOK, stores, office
<1>3. TillOK'
  <2>1. ASSUME NEW p \in Products, Tap(p) PROVE TillOK'
    <3>1. PICK t \in Tapped : t = [product |-> p, stock |-> Read(p)]
      BY ReadType DEF Tapped
    <3>2. Append(pending, t) \in Seq(Tapped) /\ Len(Append(pending, t)) = Len(pending) + 1
            /\ Len(pending) \in Nat
      BY AppendProperties, LenProperties DEF TypeInv, TillOK
    <3>3. pending' = Append(pending, t) /\ Len(pending) < MaxPending
            /\ UNCHANGED <<modal, method>>
      BY <2>1, <3>1 DEF Tap
    <3>. QED
      BY <3>2, <3>3, ConstantsAssumption DEF TypeInv, TillOK
  <2>2. ASSUME OpenCheckout \/ Dismiss \/ \E m \in Methods : ChooseMethod(m) PROVE TillOK'
    BY <2>2, ConstantsAssumption DEF TypeInv, TillOK, OpenCheckout, Dismiss, ChooseMethod
  <2>. QED
    BY <2>1, <2>2
<1>. QED
  BY <1>2, <1>3 DEF TypeInv

\* The cart becomes a new, empty array; the payments that go on keep theirs.
LEMMA EmptiedType ==
    ASSUME TypeInv, cart' = << >>, sales' = sales, NEW I \in SUBSET Payers,
           pay' \in [Payers -> {Idle} \cup Resting \cup Looping],
           \A k \in Payers : pay'[k] = IF k \in I THEN Idle ELSE Detached(k)
    PROVE  CartOK' /\ PayOK'
<1>1. CartOK'
  BY EmptySeq DEF CartOK, Distinct
<1>2. ASSUME NEW k \in Payers
      PROVE  /\ pay'[k].at # "idle" => pay[k].at # "idle" /\ pay'[k].trx = pay[k].trx
             /\ pay'[k].at = "read" => (pay'[k].held => pay'[k].alias)
             /\ pay'[k].at \in {"read", "written"} => Distinct(pay'[k].array)
  BY DetachedType DEF Idle
<1>. QED
  BY <1>1, <1>2 DEF TypeInv, PayOK, Active

LEMMA ClearCartType ==
    ASSUME TypeInv, ClearCart
    PROVE  TypeInv'
<1>1. UNCHANGED <<stores, method, pending, office>> /\ modal' = FALSE
  BY DEF ClearCart
<1>2. StoresOK' /\ OfficeOK' /\ TillOK'
  BY <1>1 DEF TypeInv, StoresOK, OfficeOK, TillOK, stores, office
<1>3. BookOK'
  BY BookWithout DEF ClearCart, BookOK, TypeInv
<1>4. CartOK' /\ PayOK'
  <2>1. \A k \in Payers : Detached(k) \in {Idle} \cup Resting \cup Looping
    BY DetachedType
  <2>2. /\ cart' = << >> /\ sales' = sales
        /\ pay' \in [Payers -> {Idle} \cup Resting \cup Looping]
        /\ \A k \in Payers : pay'[k] = Detached(k)
    BY <1>1, <2>1 DEF ClearCart, stores
  <2>. QED
    BY <2>2, EmptiedType
<1>. QED
  BY <1>2, <1>3, <1>4 DEF TypeInv

LEMMA ReloadType ==
    ASSUME TypeInv, Reload
    PROVE  TypeInv'
<1>1. /\ UNCHANGED <<stores, office>> /\ modal' = FALSE /\ method' = "cash"
      /\ pending' = << >> /\ cart' = << >> /\ pay' = [k \in Payers |-> Idle]
  BY DEF Reload
<1>2. StoresOK' /\ OfficeOK'
  BY <1>1 DEF TypeInv, StoresOK, OfficeOK, stores, office
<1>5. TillOK'
  <2>1. pending' \in Seq(Tapped) /\ Len(pending') = 0
    BY <1>1, EmptySeq
  <2>2. modal' \in BOOLEAN /\ method' \in Methods
    BY <1>1, ConstantsAssumption
  <2>. QED
    BY <2>1, <2>2, ConstantsAssumption DEF TillOK
<1>3. BookOK'
  BY BookWithout DEF Reload, BookOK, TypeInv
<1>4. CartOK' /\ PayOK'
  BY <1>1, EmptiedType DEF stores
<1>. QED
  BY <1>2, <1>3, <1>4, <1>5 DEF TypeInv

LEMMA LeavesType ==
    ASSUME TypeInv, NEW k \in Payers, Leaves(k), debts' = debts
    PROVE  TypeInv'
<1>1. UNCHANGED <<stores, method, pending, office>> /\ modal' = FALSE
  BY DEF Leaves, stores
<1>2. StoresOK' /\ OfficeOK' /\ TillOK'
  BY <1>1 DEF TypeInv, StoresOK, OfficeOK, TillOK, stores, office
<1>3. BookOK'
  BY BookWithout DEF Leaves, BookOK, TypeInv
<1>4. CartOK' /\ PayOK'
  <2>1. \A j \in Payers : Detached(j) \in {Idle} \cup Resting \cup Looping
    BY DetachedType
  <2>2. /\ cart' = << >> /\ sales' = sales
        /\ pay' \in [Payers -> {Idle} \cup Resting \cup Looping]
        /\ \A j \in Payers : pay'[j] = IF j \in {k} THEN Idle ELSE Detached(j)
    BY <1>1, <2>1 DEF Leaves, stores
  <2>. QED
    BY <2>2, EmptiedType
<1>. QED
  BY <1>2, <1>3, <1>4 DEF TypeInv

\* The inventory tab.
LEMMA RestockType ==
    ASSUME TypeInv, NEW p \in Products, NEW seen, NEW n \in Levels, Restock(p, seen, n, n),
           UNCHANGED <<sales, debts>>
    PROVE  StoresOK' /\ BookOK'
<1>1. StoresOK'
  <2>1. PICK f : f = Put(shelf, p, n) /\ f \in [DOMAIN shelf \cup {p} -> Levels]
    BY PutType DEF TypeInv, StoresOK
  <2>2. shelf' = f /\ DOMAIN f = DOMAIN shelf \cup {p}
    BY <2>1 DEF Restock
  <2>. QED
    BY <2>1, <2>2 DEF TypeInv, StoresOK
<1>2. PICK D : book' = [q \in DOMAIN Without(D) |-> IF q = p THEN n ELSE book[q]]
  BY DEF Restock
<1>3. DOMAIN book' \subseteq Products /\ n \in Int
        /\ \A q \in DOMAIN Without(D) : book[q] \in Int
  <2>1. BookOK /\ n \in Int
    BY ConstantsAssumption DEF TypeInv, Levels
  <2>2. DOMAIN book' = DOMAIN Without(D)
    BY <1>2
  <2>. QED
    BY <2>1, <2>2 DEF BookOK, Without
<1>. QED
  BY <1>1, <1>2, <1>3 DEF BookOK

LEMMA OfficeType ==
    ASSUME TypeInv,
           \/ \E p \in Products, kind \in {"in", "out", "set"}, q \in Stocks : Adjust(p, kind, q)
           \/ \E p \in Products : OpenForm(p)
           \/ Adjusted \/ DeleteProduct \/ \E n \in Levels : SaveProduct(n)
    PROVE  TypeInv'
<1>1. UNCHANGED memory /\ sales' = sales /\ debts' = debts
  BY DEF Adjust, OpenForm, Adjusted, DeleteProduct, SaveProduct, stores
<1>2. CartOK' /\ PayOK' /\ TillOK'
  BY <1>1 DEF TypeInv, CartOK, PayOK, Active, TillOK, memory
<1>3. CASE \E p \in Products, kind \in {"in", "out", "set"}, q \in Stocks : Adjust(p, kind, q)
  <2>1. PICK p \in Products, kind \in {"in", "out", "set"}, q \in Stocks : Adjust(p, kind, q)
    BY <1>3
  <2>2. shelf[p] \in Levels /\ AdjustedTo(kind, shelf[p], q) \in Levels
    BY <2>1, ConstantsAssumption
       DEF Adjust, AdjustedTo, Larger, Stocks, Levels, TypeInv, StoresOK
  <2>3. adjusting' \in Counted /\ visits' \in 0..MaxVisits
    BY <2>1, <2>2, ConstantsAssumption DEF Adjust, Visit, Counted, TypeInv, OfficeOK
  <2>4. UNCHANGED <<shelf, form, book>>
    BY <2>1 DEF Adjust, stores
  <2>. QED
    BY <1>1, <1>2, <2>3, <2>4 DEF TypeInv, StoresOK, OfficeOK, BookOK
<1>4. CASE \E p \in Products : OpenForm(p)
  <2>1. PICK p \in Products : OpenForm(p)
    BY <1>4
  <2>2. form' \in Shown /\ visits' \in 0..MaxVisits
    BY <2>1, ConstantsAssumption DEF OpenForm, Visit, Shown, TypeInv, OfficeOK, StoresOK
  <2>3. UNCHANGED <<shelf, adjusting, book>>
    BY <2>1 DEF OpenForm, stores
  <2>. QED
    BY <1>1, <1>2, <2>2, <2>3 DEF TypeInv, StoresOK, OfficeOK, BookOK
<1>5. CASE Adjusted
  <2>1. adjusting \in Counted
    BY <1>5 DEF Adjusted, TypeInv, OfficeOK
  <2>2. StoresOK' /\ BookOK'
    BY <1>1, <1>5, <2>1, RestockType DEF Adjusted, Counted
  <2>3. OfficeOK'
    BY <1>5 DEF Adjusted, TypeInv, OfficeOK
  <2>. QED
    BY <1>2, <2>2, <2>3 DEF TypeInv
<1>6. CASE \E n \in Levels : SaveProduct(n)
  <2>1. form \in Shown
    BY <1>6 DEF SaveProduct, TypeInv, OfficeOK
  <2>2. StoresOK' /\ BookOK'
    BY <1>1, <1>6, <2>1, RestockType DEF SaveProduct, Shown
  <2>3. OfficeOK'
    BY <1>6 DEF SaveProduct, TypeInv, OfficeOK
  <2>. QED
    BY <1>2, <2>2, <2>3 DEF TypeInv
<1>7. CASE DeleteProduct
  <2>1. StoresOK'
    BY <1>1, <1>7 DEF DeleteProduct, TypeInv, StoresOK
  <2>2. BookOK'
    BY <1>7, BookWithout DEF DeleteProduct, TypeInv, BookOK
  <2>3. OfficeOK'
    BY <1>7 DEF DeleteProduct, TypeInv, OfficeOK
  <2>. QED
    BY <1>2, <2>1, <2>2, <2>3 DEF TypeInv
<1>. QED
  BY <1>3, <1>4, <1>5, <1>6, <1>7

\* The array that a payment iterates.
LEMMA ArrayType ==
    ASSUME TypeInv, NEW k \in Payers, pay[k].at \in {"stored", "read", "written"}
    PROVE  /\ ArrayOf(k) \in Seq(Line) /\ Distinct(ArrayOf(k)) /\ Len(ArrayOf(k)) \in Nat
           /\ NextOf(k) \in Nat \ {0}
           /\ \A j \in 1..Len(ArrayOf(k)) : /\ ArrayOf(k)[j] \in Line
                                           /\ ArrayOf(k)[j].product \in Products
                                           /\ ArrayOf(k)[j].qty \in 1..MaxStock
<1>1. pay[k].at # "stored" => pay[k] \in Looping
  BY PayShape
<1>2. ArrayOf(k) \in Seq(Line) /\ Distinct(ArrayOf(k)) /\ NextOf(k) \in Nat \ {0}
  BY <1>1 DEF ArrayOf, NextOf, Looping, TypeInv, CartOK, PayOK
<1>3. Len(ArrayOf(k)) \in Nat /\ \A j \in 1..Len(ArrayOf(k)) : ArrayOf(k)[j] \in Line
  BY <1>2, LenProperties, ElementOfSeq
<1>. QED
  BY <1>2, <1>3 DEF Line

LEMMA PayType ==
    ASSUME TypeInv, StockInv, NEW k \in Payers, NEW id \in TrxIds, Pay(k, id)
    PROVE  TypeInv'
<1>1. UNCHANGED <<shelf, debts, cart, modal, method, pending, office>>
  BY DEF Pay
<1>2. PICK v \in Sale : v = [items |-> Qty(cart), method |-> method]
  BY QtyOfCart DEF Sale, TypeInv, TillOK
<1>3. /\ sales' \in [DOMAIN sales \cup {id} -> Sale] /\ DOMAIN sales' = DOMAIN sales \cup {id}
  <2>1. sales' = Put(sales, id, v)
    BY <1>2 DEF Pay
  <2>2. sales \in [DOMAIN sales -> Sale]
    BY DEF TypeInv, StoresOK
  <2>3. PICK f : /\ f = Put(sales, id, v) /\ f \in [DOMAIN sales \cup {id} -> Sale]
                 /\ DOMAIN f = DOMAIN sales \cup {id}
    <3>1. /\ Put(sales, id, v) \in [DOMAIN sales \cup {id} -> Sale]
          /\ DOMAIN Put(sales, id, v) = DOMAIN sales \cup {id}
      BY <1>2, <2>2 DEF Put
    <3>. QED
      BY <3>1
  <2>. QED
    BY <2>1, <2>3
<1>4. StoresOK' /\ OfficeOK' /\ TillOK' /\ CartOK'
  BY <1>1, <1>3 DEF TypeInv, StoresOK, OfficeOK, TillOK, CartOK, office
<1>5. PICK x \in Resting : x = [at |-> "stored", trx |-> id] /\ x.at = "stored" /\ x.trx = id
  <2>1. [at |-> "stored", trx |-> id] \in Resting
    BY DEF Resting
  <2>. QED
    BY <2>1
<1>6. PayOK'
  <2>1. /\ pay' \in [Payers -> {Idle} \cup Resting \cup Looping]
        /\ \A j \in Payers : pay'[j] = IF j = k THEN x ELSE pay[j]
    BY <1>5 DEF Pay, TypeInv, PayOK
  <2>. QED
    BY <1>3, <1>5, <2>1 DEF TypeInv, PayOK, Active
<1>7. BookOK'
  <2>1. ASSUME NEW p \in DOMAIN book, p \notin InCart \/ ~Selling(p)
        PROVE  book[p] - Qty(cart)[p] \in Int
    <3>1. book[p] \in Int /\ p \in Products
      BY DEF TypeInv, BookOK
    <3>2. CASE p \notin InCart
      BY <3>1, <3>2, QtyOfCart
    <3>3. CASE p \in InCart
      <4>1. PICK i \in 1..Len(cart) : cart[i].product = p
        BY <3>3, CartLines
      <4>2. cart[i].qty <= book[p] /\ cart[i].qty \in 1..MaxStock
        BY <2>1, <3>3, <4>1, CartLines DEF StockInv, Counts, Served
      <4>3. Qty(cart)[p] = cart[i].qty
        BY <4>1, QtyOfCart
      <4>. QED
        BY <3>1, <4>2, <4>3, ConstantsAssumption
    <3>. QED
      BY <3>2, <3>3
  <2>2. book' = [p \in {q \in DOMAIN book : q \notin InCart \/ ~Selling(q)} |->
                    book[p] - Qty(cart)[p]]
    BY DEF Pay
  <2>. QED
    BY <2>1, <2>2 DEF TypeInv, BookOK
<1>. QED
  BY <1>4, <1>6, <1>7 DEF TypeInv

LEMMA LoopType ==
    ASSUME TypeInv, NEW k \in Payers, ReadProduct(k) \/ WriteStock(k)
    PROVE  TypeInv'
<1>1. UNCHANGED <<sales, debts, cart, modal, method, pending, office, book>>
  BY DEF ReadProduct, WriteStock, stores
<1>2. OfficeOK' /\ TillOK' /\ CartOK' /\ BookOK'
  BY <1>1 DEF TypeInv, OfficeOK, TillOK, CartOK, BookOK, office
<1>3. ASSUME NEW x \in Looping, x.trx = pay[k].trx, pay[k].at # "idle", x.held => x.alias,
             Distinct(x.array), pay' = [pay EXCEPT ![k] = x]
      PROVE  PayOK'
  <2>1. /\ pay' \in [Payers -> {Idle} \cup Resting \cup Looping]
        /\ \A j \in Payers : pay'[j] = IF j = k THEN x ELSE pay[j]
    BY <1>3 DEF TypeInv, PayOK
  <2>. QED
    BY <1>1, <1>3, <2>1 DEF TypeInv, PayOK, Active
<1>4. CASE ReadProduct(k)
  <2>1. /\ pay[k].at \in {"stored", "written"} /\ NextOf(k) \in 1..Len(ArrayOf(k))
    BY <1>4, ArrayType DEF ReadProduct, Turn
  <2>2. PICK l \in Line : l = ArrayOf(k)[NextOf(k)]
    BY <2>1, ArrayType
  <2>3. PICK b \in BOOLEAN : b = (pay[k].at = "stored" \/ pay[k].alias)
    BY <2>1, PayShape DEF Looping
  <2>4. PICK a \in Seq(Line) : a = (IF b THEN << >> ELSE pay[k].array) /\ Distinct(a)
    <3>1. << >> \in Seq(Line) /\ Distinct(<< >>)
      BY EmptySeq DEF Distinct
    <3>2. ~b => pay[k].array \in Seq(Line) /\ Distinct(pay[k].array)
      BY <2>1, <2>3, PayShape DEF Looping, TypeInv, PayOK
    <3>. QED
      BY <3>1, <3>2
  <2>5. PICK n \in Answers : n = Read(l.product)
    BY ReadType
  <2>6. PICK t \in TrxIds : t = pay[k].trx
    BY <2>1, PayShape DEF Looping, Resting
  <2>7. PICK x : x = [at |-> "read", trx |-> t, i |-> NextOf(k), alias |-> b, array |-> a,
                      held |-> b, line |-> l, stock |-> n]
    OBVIOUS
  <2>8. /\ x \in Looping /\ x.trx = t /\ x.array = a /\ (x.held => x.alias)
    BY <2>1, <2>7, ArrayType DEF Looping
  <2>9. pay' = [pay EXCEPT ![k] = x]
    BY <1>4, <2>2, <2>3, <2>4, <2>5, <2>6, <2>7 DEF ReadProduct
  <2>10. PayOK'
    BY <1>3, <2>1, <2>4, <2>6, <2>8, <2>9
  <2>. QED
    BY <1>1, <1>2, <1>4, <2>10 DEF TypeInv, StoresOK, ReadProduct, stores
<1>5. CASE WriteStock(k)
  <2>1. PICK y \in Looping : y = pay[k] /\ y.at = "read"
    BY <1>5, PayShape DEF WriteStock
  <2>2. PICK x \in Looping : x = [y EXCEPT !.at = "written"]
    BY DEF Looping
  <2>3. x.trx = y.trx /\ x.array = y.array /\ x.held = y.held /\ x.alias = y.alias
    BY <2>2 DEF Looping
  <2>4. pay' = [pay EXCEPT ![k] = x]
    BY <1>5, <2>1, <2>2 DEF WriteStock
  <2>5. PayOK'
    BY <1>3, <2>1, <2>3, <2>4 DEF TypeInv, PayOK
  <2>6. y.line.product \in Products /\ y.line.qty \in Nat /\ y.stock \in Answers
    BY ConstantsAssumption DEF Looping, Line
  <2>7. y.stock # Gone => Remaining(y.stock, y.line.qty) \in Levels
    BY <2>6, ConstantsAssumption DEF Remaining, Larger, Answers, Levels, Stocks, Gone
  <2>8. StoresOK'
    <3>1. CASE y.stock = Gone
      BY <1>1, <1>5, <2>1, <3>1 DEF WriteStock, TypeInv, StoresOK
    <3>2. CASE y.stock # Gone
      <4>1. PICK f : /\ f = Put(shelf, y.line.product, Remaining(y.stock, y.line.qty))
                     /\ f \in [DOMAIN shelf \cup {y.line.product} -> Levels]
        BY <2>7, <3>2, PutType DEF TypeInv, StoresOK
      <4>2. shelf' = f /\ DOMAIN f = DOMAIN shelf \cup {y.line.product}
        BY <1>5, <2>1, <3>2, <4>1 DEF WriteStock
      <4>. QED
        BY <1>1, <2>6, <4>1, <4>2 DEF TypeInv, StoresOK
    <3>. QED
      BY <3>1, <3>2
  <2>. QED
    BY <1>2, <2>5, <2>8 DEF TypeInv
<1>. QED
  BY <1>4, <1>5

LEMMA EndType ==
    ASSUME TypeInv, NEW k \in Payers, StoreDebt(k) \/ RequestFails(k)
    PROVE  TypeInv'
<1>1. UNCHANGED <<shelf, sales, cart, modal, method, pending, office>>
  BY DEF StoreDebt, RequestFails, stores
<1>2. OfficeOK' /\ TillOK' /\ CartOK'
  BY <1>1 DEF TypeInv, OfficeOK, TillOK, CartOK, office
<1>3. CASE StoreDebt(k)
  <2>1. pay[k].at \in {"stored", "written"}
    BY <1>3 DEF StoreDebt, Turn
  <2>2. pay[k].trx \in TrxIds /\ pay[k].trx \in DOMAIN sales
    BY <2>1, PayShape DEF Looping, Resting, TypeInv, PayOK, Active
  <2>3. PICK x \in Resting : x = [at |-> "owed", trx |-> pay[k].trx] /\ x.trx = pay[k].trx
                             /\ x.at = "owed"
    <3>1. [at |-> "owed", trx |-> pay[k].trx] \in Resting
      BY <2>2 DEF Resting
    <3>. QED
      BY <3>1
  <2>4. /\ pay' \in [Payers -> {Idle} \cup Resting \cup Looping]
        /\ \A j \in Payers : pay'[j] = IF j = k THEN x ELSE pay[j]
    BY <1>3, <2>3 DEF StoreDebt, TypeInv, PayOK
  <2>5. PayOK'
    BY <1>1, <2>2, <2>3, <2>4 DEF TypeInv, PayOK, Active
  <2>6. StoresOK' /\ BookOK'
    BY <1>1, <1>3, <2>2 DEF StoreDebt, TypeInv, StoresOK, BookOK
  <2>. QED
    BY <1>2, <2>5, <2>6 DEF TypeInv
<1>4. CASE RequestFails(k)
  <2>1. /\ pay' \in [Payers -> {Idle} \cup Resting \cup Looping]
        /\ \A j \in Payers : pay'[j] = IF j = k THEN Idle ELSE pay[j]
    BY <1>4 DEF RequestFails, TypeInv, PayOK
  <2>2. PayOK'
    BY <1>1, <2>1 DEF TypeInv, PayOK, Active, Idle
  <2>3. BookOK'
    BY <1>4, BookWithout DEF RequestFails, TypeInv, BookOK
  <2>4. StoresOK'
    BY <1>1, <1>4 DEF RequestFails, TypeInv, StoresOK, stores
  <2>. QED
    BY <1>2, <2>2, <2>3, <2>4 DEF TypeInv
<1>. QED
  BY <1>3, <1>4

LEMMA InitType == Init => TypeInv
<1>. SUFFICES ASSUME Init PROVE TypeInv
  OBVIOUS
<1>0. << >> \in Seq(Line) /\ << >> \in Seq(Tapped) /\ Len(<< >>) = 0
        /\ DOMAIN << >> = {}
  BY EmptySeq
<1>1. StoresOK /\ BookOK
  BY <1>0, ConstantsAssumption DEF Init, StoresOK, BookOK, Levels
<1>2. CartOK /\ TillOK
  <2>1. cart \in Seq(Line) /\ Distinct(cart)
    BY <1>0 DEF Init, Distinct
  <2>2. pending \in Seq(Tapped) /\ Len(pending) = 0
    BY <1>0 DEF Init
  <2>3. modal \in BOOLEAN /\ method \in Methods
    BY ConstantsAssumption DEF Init
  <2>. QED
    BY <2>1, <2>2, <2>3, ConstantsAssumption DEF CartOK, TillOK
<1>3. PayOK /\ OfficeOK
  BY ConstantsAssumption DEF Init, PayOK, Idle, Active, OfficeOK
<1>. QED
  BY <1>1, <1>2, <1>3 DEF TypeInv

LEMMA NextTypes == TypeInv /\ StockInv /\ [Next]_vars => TypeInv'
<1>. SUFFICES ASSUME TypeInv, StockInv, [Next]_vars PROVE TypeInv'
  OBVIOUS
<1>1. CASE UNCHANGED vars
  BY <1>1 DEF vars, memory, stores, office, TypeInv, StoresOK, CartOK, TillOK, PayOK,
       Active, OfficeOK, BookOK
<1>. QED
  BY <1>1, AddedType, ChangeQtyType, ButtonType, ClearCartType, ReloadType, LeavesType,
     OfficeType, PayType, LoopType, EndType
     DEF Next, PayStep, FinishPaid, FinishOwed, Stocks

LEMMA TypeHolds == TypeInv => TypeOK
<1>. SUFFICES ASSUME TypeInv PROVE TypeOK
  OBVIOUS
<1>1. /\ shelf \in [DOMAIN shelf -> Levels] /\ DOMAIN shelf \subseteq Products
      /\ debts \subseteq DOMAIN sales /\ DOMAIN sales \subseteq TrxIds
      /\ \A id \in DOMAIN sales : sales[id] \in [items : [Products -> 0..MaxStock],
                                                method : Methods]
  BY DEF TypeInv, StoresOK, Stocks, Sale
<1>2. Lines(cart) \subseteq Line
  BY CartLines DEF Lines
<1>3. {pending[i].product : i \in 1..Len(pending)} \subseteq Products
  <2>1. \A i \in 1..Len(pending) : pending[i] \in Tapped
    BY ElementOfSeq DEF TypeInv, TillOK
  <2>. QED
    BY <2>1 DEF Tapped
<1>. QED
  BY <1>1, <1>2, <1>3 DEF TypeOK, TypeInv, TillOK, PayOK, BookOK, OfficeOK

-----------------------------------------------------------------------------
(* The debts store.                                                        *)

\* A step that stores no sale and no debt: a payment that it ends is settled,
\* or was cut short, and a change of the method is noted.
LEMMA DebtKept ==
    ASSUME TypeInv, DebtInv, UNCHANGED <<sales, debts>>, shaky \subseteq shaky',
           method' = method \/ \A k \in Active : pay[k].trx \in shaky',
           \A k \in Payers : pay'[k].at # "idle" =>
              /\ pay[k].at # "idle" /\ pay'[k].trx = pay[k].trx
              /\ pay'[k].at = "owed" <=> pay[k].at = "owed",
           \A k \in Payers : pay[k].at # "idle" /\ pay'[k].at = "idle" =>
              pay[k].trx \in shaky' \/ pay[k].at = "owed" \/ method # "debt"
    PROVE  DebtInv'
<1>1. \A j, k \in Active' : pay'[j].trx = pay'[k].trx => j = k
  BY DEF DebtInv, Active
<1>2. ASSUME NEW k \in Active', pay'[k].trx \notin shaky'
      PROVE  IF pay'[k].at = "owed"
             THEN pay'[k].trx \in debts' /\ sales'[pay'[k].trx].method = "debt"
             ELSE pay'[k].trx \notin debts' /\ sales'[pay'[k].trx].method = method'
  BY <1>2 DEF DebtInv, Active
<1>3. ASSUME NEW id \in DOMAIN sales' \ shaky', \A k \in Active' : pay'[k].trx # id
      PROVE  sales'[id].method = "debt" <=> id \in debts'
  <2>1. CASE \A k \in Active : pay[k].trx # id
    BY <1>3, <2>1 DEF DebtInv, DebtMatchesSale
  <2>2. CASE \E k \in Active : pay[k].trx = id
    <3>1. PICK k \in Active : pay[k].trx = id
      BY <2>2
    <3>2. pay'[k].at = "idle"
      BY <1>3, <3>1 DEF Active
    <3>. QED
      BY <1>3, <3>1, <3>2 DEF DebtInv, Active
  <2>. QED
    BY <2>1, <2>2
<1>. QED
  BY <1>1, <1>2, <1>3 DEF DebtInv, DebtMatchesSale

LEMMA PayDebt ==
    ASSUME TypeInv, DebtInv, NEW k \in Payers, NEW id \in TrxIds, Pay(k, id)
    PROVE  DebtInv'
<1>1. /\ pay[k].at = "idle" /\ pay'[k].at = "stored" /\ pay'[k].trx = id
      /\ \A j \in Payers : j # k => pay'[j] = pay[j]
      /\ UNCHANGED <<debts, method, shaky>>
  BY DEF Pay, Idle, TypeInv, PayOK
<1>2. /\ id \notin DOMAIN sales /\ DOMAIN sales' = DOMAIN sales \cup {id}
      /\ sales'[id].method = method
      /\ \A x \in DOMAIN sales : sales'[x] = sales[x]
  BY DEF Pay, Put
<1>3. \A j \in Active : pay[j].trx \in DOMAIN sales /\ j # k
  BY <1>1 DEF TypeInv, PayOK, Active
<1>4. id \notin debts
  BY <1>2 DEF TypeInv, StoresOK
<1>5. Active' = Active \cup {k}
  BY <1>1 DEF Active
<1>6. \A i, j \in Active' : pay'[i].trx = pay'[j].trx => i = j
  <2>1. \A j \in Active : pay'[j].trx = pay[j].trx /\ pay[j].trx # id /\ j # k
    BY <1>1, <1>2, <1>3 DEF Active
  <2>2. \A i, j \in Active : pay[i].trx = pay[j].trx => i = j
    BY DEF DebtInv
  <2>. QED
    BY <1>1, <1>5, <2>1, <2>2
<1>7. ASSUME NEW j \in Active', pay'[j].trx \notin shaky'
      PROVE  IF pay'[j].at = "owed"
             THEN pay'[j].trx \in debts' /\ sales'[pay'[j].trx].method = "debt"
             ELSE pay'[j].trx \notin debts' /\ sales'[pay'[j].trx].method = method'
  <2>1. CASE j = k
    BY <1>1, <1>2, <1>4, <2>1
  <2>2. CASE j # k
    BY <1>1, <1>2, <1>3, <1>5, <1>7, <2>2 DEF DebtInv, Active
  <2>. QED
    BY <2>1, <2>2
<1>8. DebtMatchesSale'
  <2>. SUFFICES ASSUME NEW x \in DOMAIN sales', x \notin shaky',
                       \A j \in Active' : pay'[j].trx # x
                PROVE  sales'[x].method = "debt" <=> x \in debts'
    BY DEF DebtMatchesSale
  <2>1. x # id /\ x \in DOMAIN sales
    BY <1>1, <1>2, <1>5
  <2>2. \A j \in Active : pay[j].trx # x
    BY <1>1, <1>3, <1>5 DEF Active
  <2>. QED
    BY <1>1, <1>2, <2>1, <2>2 DEF DebtInv, DebtMatchesSale
<1>. QED
  BY <1>6, <1>7, <1>8 DEF DebtInv

LEMMA StoreDebtDebt ==
    ASSUME TypeInv, DebtInv, NEW k \in Payers, StoreDebt(k)
    PROVE  DebtInv'
<1>1. /\ pay[k].at \in {"stored", "written"} /\ method = "debt"
      /\ pay'[k].at = "owed" /\ pay'[k].trx = pay[k].trx
      /\ \A j \in Payers : j # k => pay'[j] = pay[j]
      /\ UNCHANGED <<sales, method, shaky>> /\ debts' = debts \cup {pay[k].trx}
  BY DEF StoreDebt, Turn, Owes, TypeInv, PayOK
<1>2. Active' = Active /\ \A j \in Payers : j \in Active => pay'[j].trx = pay[j].trx
  BY <1>1 DEF Active
<1>3. \A i, j \in Active' : pay'[i].trx = pay'[j].trx => i = j
  BY <1>2 DEF DebtInv, Active
<1>4. ASSUME NEW j \in Active', pay'[j].trx \notin shaky'
      PROVE  IF pay'[j].at = "owed"
             THEN pay'[j].trx \in debts' /\ sales'[pay'[j].trx].method = "debt"
             ELSE pay'[j].trx \notin debts' /\ sales'[pay'[j].trx].method = method'
  <2>1. CASE j = k
    BY <1>1, <1>2, <1>4, <2>1 DEF DebtInv
  <2>2. CASE j # k
    <3>1. pay[j].trx # pay[k].trx
      BY <1>1, <1>2, <2>2 DEF DebtInv, Active
    <3>. QED
      BY <1>1, <1>2, <1>4, <2>2, <3>1 DEF DebtInv, Active
  <2>. QED
    BY <2>1, <2>2
<1>5. DebtMatchesSale'
  BY <1>1, <1>2 DEF DebtInv, DebtMatchesSale, Active
<1>. QED
  BY <1>3, <1>4, <1>5 DEF DebtInv

LEMMA InitDebt == Init => DebtInv
BY DEF Init, DebtInv, DebtMatchesSale, Active, Idle

LEMMA NextDebt == TypeInv /\ DebtInv /\ [Next]_vars => DebtInv'
<1>. SUFFICES ASSUME TypeInv, DebtInv, [Next]_vars PROVE DebtInv'
  OBVIOUS
<1>0. \A k \in Payers : pay[k].at # "idle" => k \in Active
  BY DEF Active
<1>1. ASSUME UNCHANGED <<sales, debts, method, pay>>, shaky \subseteq shaky' PROVE DebtInv'
  BY <1>1, DebtKept
<1>2. CASE UNCHANGED vars
  BY <1>1, <1>2 DEF vars, memory, stores
<1>3. ASSUME \/ \E p \in Products : Tap(p) \/ OpenForm(p)
             \/ Dismiss \/ Adjusted \/ DeleteProduct
             \/ \E p \in Products, kind \in {"in", "out", "set"}, q \in 0..MaxStock :
                    Adjust(p, kind, q)
             \/ \E n \in Levels : SaveProduct(n)
      PROVE  DebtInv'
  <2>1. UNCHANGED <<sales, debts, method, pay, shaky>>
    BY <1>3 DEF Tap, OpenForm, Dismiss, Adjusted, DeleteProduct, Adjust, SaveProduct, stores,
         memory
  <2>. QED
    BY <1>1, <2>1
<1>4. ASSUME OpenCheckout \/ \E m \in Methods : ChooseMethod(m) PROVE DebtInv'
  <2>1. /\ UNCHANGED <<sales, debts, pay>> /\ shaky \subseteq shaky'
        /\ method' = method \/ \A k \in Active : pay[k].trx \in shaky'
    BY <1>4 DEF OpenCheckout, ChooseMethod, stores
  <2>. QED
    BY <2>1, DebtKept
<1>5. ASSUME Added \/ \E i \in 1..Len(cart), delta \in {-1, 1} : ChangeQty(i, delta)
      PROVE  DebtInv'
  <2>1. UNCHANGED <<sales, debts, method, shaky>>
    BY <1>5 DEF Added, ChangeQty, stores
  <2>2. UNCHANGED pay \/ \E c, p, q : Mutate(c, p, q)
    BY <1>5 DEF Added, ChangeQty
  <2>3. ASSUME NEW k \in Payers
        PROVE  pay'[k].at = pay[k].at /\ (pay[k].at # "idle" => pay'[k].trx = pay[k].trx)
    <3>1. CASE UNCHANGED pay
      BY <3>1
    <3>2. ASSUME NEW c, NEW p, NEW q, Mutate(c, p, q)
          PROVE  pay'[k].at = pay[k].at /\ (pay[k].at # "idle" => pay'[k].trx = pay[k].trx)
      <4>1. CASE pay[k].at = "read"
        BY <3>2, <4>1, PayShape DEF Mutate, Looping
      <4>2. CASE pay[k].at # "read"
        BY <3>2, <4>2 DEF Mutate
      <4>. QED
        BY <4>1, <4>2
    <3>. QED
      BY <2>2, <3>1, <3>2
  <2>. QED
    BY <2>1, <2>3, DebtKept
<1>6. ASSUME ClearCart PROVE DebtInv'
  BY <1>6, DetachedType, DebtKept DEF ClearCart, stores
<1>7. ASSUME NEW k \in Payers, ReadProduct(k) \/ WriteStock(k) PROVE DebtInv'
  <2>1. /\ UNCHANGED <<sales, debts, method, shaky>>
        /\ pay[k].at \in {"stored", "read", "written"}
        /\ pay'[k].at \in {"read", "written"} /\ pay'[k].trx = pay[k].trx
        /\ \A j \in Payers : j # k => pay'[j] = pay[j]
    BY <1>7, PayShape DEF ReadProduct, WriteStock, Turn, stores, TypeInv, PayOK, Looping
  <2>. QED
    BY <2>1, DebtKept
<1>8. ASSUME NEW k \in Payers, FinishPaid(k) \/ FinishOwed(k) PROVE DebtInv'
  <2>1. /\ UNCHANGED <<sales, debts, method, shaky>>
        /\ \A j \in Payers : pay'[j] = IF j = k THEN Idle ELSE Detached(j)
        /\ pay[k].at = "owed" \/ method # "debt"
    BY <1>8 DEF FinishPaid, FinishOwed, Leaves, Owes
  <2>. QED
    BY <2>1, DetachedType, DebtKept DEF Idle
<1>9. ASSUME NEW k \in Payers, RequestFails(k) PROVE DebtInv'
  <2>1. /\ UNCHANGED <<sales, debts, method>> /\ shaky' = shaky \cup {pay[k].trx}
        /\ \A j \in Payers : pay'[j] = IF j = k THEN Idle ELSE pay[j]
    BY <1>9 DEF RequestFails, stores, TypeInv, PayOK
  <2>. QED
    BY <2>1, DebtKept DEF Idle
<1>10. ASSUME Reload PROVE DebtInv'
  <2>1. /\ UNCHANGED <<sales, debts>> /\ \A k \in Payers : pay'[k].at = "idle"
        /\ shaky' = shaky \cup {pay[k].trx : k \in Active}
    BY <1>10 DEF Reload, stores, Idle
  <2>. QED
    BY <1>0, <2>1, DebtKept
<1>. QED
  BY <1>2, <1>3, <1>4, <1>5, <1>6, <1>7, <1>8, <1>9, <1>10, PayDebt, StoreDebtDebt
     DEF Next, PayStep

-----------------------------------------------------------------------------
(* The shelf.                                                              *)

LEMMA SoldItems ==
    ASSUME TypeInv, NEW k \in Active, NEW p \in Products
    PROVE  /\ Items(k)[p] \in Stocks /\ Items(k)[p] \in Nat
           /\ p \in SoldBy(k) <=> Items(k)[p] > 0
<1>1. sales[pay[k].trx] \in Sale
  BY DEF TypeInv, StoresOK, PayOK
<1>2. Items(k)[p] \in Stocks
  BY <1>1 DEF Items, Sale
<1>. QED
  BY <1>2, ConstantsAssumption DEF SoldBy, Items, Stocks

\* A payment that did not move, and whose product nobody touched.
LEMMA SoundKept ==
    ASSUME NEW k \in Payers, NEW p, Sound(k, p), pay'[k] = pay[k],
           sales'[pay[k].trx] = sales[pay[k].trx],
           pay[k].at = "stored" \/ Iterates(k) => cart' = cart,
           shelf'[p] = shelf[p], book'[p] = book[p]
    PROVE  Sound(k, p)'
<1>1. pay[k].at \in {"stored", "read", "written"} =>
        ArrayOf(k)' = ArrayOf(k) /\ NextOf(k)' = NextOf(k)
  BY DEF ArrayOf, NextOf, Iterates
<1>2. Coming(k, p)' = Coming(k, p)
  BY <1>1 DEF Coming
<1>3. Items(k)' = Items(k) /\ (AtLine(k, p)' <=> AtLine(k, p))
  BY DEF Items, AtLine
<1>4. Owing(k, p)' = Owing(k, p)
  BY <1>2, <1>3 DEF Owing
<1>5. \A j \in Coming(k, p) : ArrayOf(k)'[j] = ArrayOf(k)[j]
  BY <1>1 DEF Coming
<1>. QED
  BY <1>2, <1>3, <1>4, <1>5 DEF Sound

LEMMA CountsKept ==
    ASSUME NEW p, Counts(p), UNCHANGED <<sales, cart, pay>>, book'[p] = book[p],
           p \in DOMAIN shelf', shelf'[p] = shelf[p]
    PROVE  Counts(p)'
<1>1. /\ (Selling(p)' <=> Selling(p)) /\ Active' = Active
      /\ \A k \in Active : SoldBy(k)' = SoldBy(k)
  BY DEF Selling, Active, SoldBy
<1>2. Served(p)' <=> Served(p)
  BY DEF Served
<1>3. \A k \in Active : Sound(k, p)'
  BY SoundKept DEF Counts, Active
<1>. QED
  BY <1>1, <1>2, <1>3 DEF Counts

\* A product that is not in the cart has no line to come in a payment that
\* iterates the cart.
LEMMA NothingComing ==
    ASSUME TypeInv, NEW k \in Payers, pay[k].at = "stored" \/ Iterates(k),
           NEW p, p \notin InCart
    PROVE  Coming(k, p) = {}
<1>1. /\ ArrayOf(k) = cart /\ NextOf(k) \in Nat \ {0}
      /\ pay[k].at \in {"stored", "read", "written"}
  BY ArrayType DEF ArrayOf, Iterates
<1>2. \A j \in NextOf(k)..Len(cart) : j \in 1..Len(cart)
  BY <1>1, CartLines
<1>. QED
  BY <1>1, <1>2, CartLines DEF Coming

LEMMA MutateCounts ==
    ASSUME TypeInv, NEW c \in Seq(Line), NEW x \in Products, NEW q,
           Mutate(c, x, q), UNCHANGED <<sales, shelf>>,
           \A j \in 1..Len(c) : c[j].product = x \/ c[j].product \in InCart,
           NEW p \in DOMAIN book', Counts(p), p \in Products,
           ~Watched /\ ~Selling(p) =>
              \A j \in 1..Len(c) : c[j].product = p =>
                 c[j].qty <= shelf[p] /\ c[j].maxStock <= shelf[p],
           \A k \in Payers : pay'[k].at = pay[k].at,
           \A k \in Payers : pay[k].at # "idle" => pay'[k].trx = pay[k].trx
    PROVE  Counts(p)'
<1>0. cart' = c
  BY DEF Mutate
<1>1. book'[p] = book[p] /\ (Watched => p \notin InCart /\ p # x)
  <2>1. PICK D : D = (IF Watched THEN InCart \cup {x} ELSE {}) /\ book' = Without(D)
    BY DEF Mutate
  <2>2. p \notin D /\ book'[p] = book[p]
    BY <2>1 DEF Without
  <2>. QED
    BY <2>1, <2>2
<1>2. /\ Active' = Active /\ (Selling(p)' <=> Selling(p))
      /\ \A k \in Active : SoldBy(k)' = SoldBy(k)
  BY DEF Active, Selling, SoldBy
<1>3. ~Selling(p)' => Served(p)'
  <2>1. CASE Watched
    BY <1>0, <1>1, <2>1 DEF Served
  <2>2. CASE ~Watched
    BY <1>0, <1>2, <2>2 DEF Served
  <2>. QED
    BY <2>1, <2>2
<1>4. ASSUME NEW k \in Active PROVE Sound(k, p)'
  <2>1. Sound(k, p) /\ k \in Payers
    BY DEF Counts, Active
  <2>2. CASE ~(pay[k].at = "stored" \/ Iterates(k))
    <3>1. pay'[k] = pay[k]
      BY <2>1, <2>2 DEF Mutate, Iterates, TypeInv, PayOK
    <3>. QED
      BY <1>1, <2>1, <2>2, <3>1, SoundKept
  <2>3. CASE pay[k].at = "stored" \/ Iterates(k)
    <3>1. Watched
      BY <2>3 DEF Watched
    <3>2. p \notin InCart /\ p # x /\ \A j \in 1..Len(c) : c[j].product # p
      BY <1>1, <3>1
    <3>3. Coming(k, p) = {}
      BY <2>1, <2>3, <3>2, NothingComing
    <3>4. /\ pay'[k].at = pay[k].at /\ pay'[k].trx = pay[k].trx
          /\ pay[k].at # "stored" => pay'[k].i = pay[k].i /\ pay'[k].alias = pay[k].alias
          /\ pay[k].at = "read" => /\ pay'[k].line.product = pay[k].line.product
                                   /\ pay'[k].stock = pay[k].stock
                                   /\ pay[k].line.product = p => pay'[k].line = pay[k].line
      <4>1. CASE pay'[k] = pay[k]
        BY <4>1
      <4>2. CASE pay'[k] # pay[k]
        <5>1. PICK y \in Looping : y = pay[k] /\ y.at = "read"
          BY <2>1, <4>2, PayShape DEF Mutate
        <5>2. y.line.product = x
          BY <2>1, <4>2, <5>1 DEF Mutate
        <5>3. pay'[k] = [y EXCEPT !.line.qty = q] \/ pay'[k] = [y EXCEPT !.held = FALSE]
          BY <2>1, <4>2, <5>1 DEF Mutate
        <5>4. PICK l \in Line : l = y.line
          BY DEF Looping
        <5>5. [l EXCEPT !.qty = q].product = l.product
          BY DEF Line
        <5>6. PICK z : z = pay'[k]
          OBVIOUS
        <5>7. /\ z.at = y.at /\ z.trx = y.trx /\ z.i = y.i /\ z.alias = y.alias
              /\ z.stock = y.stock /\ z.line \in {l, [l EXCEPT !.qty = q]}
          BY <5>3, <5>4, <5>6 DEF Looping
        <5>8. z.line.product = x
          BY <5>2, <5>4, <5>5, <5>7
        <5>. QED
          BY <3>2, <5>1, <5>2, <5>6, <5>7, <5>8
      <4>. QED
        BY <4>1, <4>2
    <3>5. Coming(k, p)' = {}
      <4>1. /\ ArrayOf(k)' = c /\ NextOf(k)' = NextOf(k) /\ NextOf(k) \in Nat \ {0}
        BY <1>0, <2>1, <2>3, <3>4, ArrayType DEF ArrayOf, NextOf, Iterates
      <4>2. Len(c) \in Nat
        BY LenProperties
      <4>3. \A j \in NextOf(k)..Len(c) : j \in 1..Len(c)
        BY <4>1, <4>2
      <4>. QED
        BY <3>2, <4>1, <4>3 DEF Coming
    <3>6. Items(k)' = Items(k) /\ (AtLine(k, p)' <=> AtLine(k, p))
      BY <3>4 DEF Items, AtLine
    <3>7. Owing(k, p)' = Owing(k, p)
      BY <3>3, <3>5, <3>6 DEF Owing
    <3>. QED
      BY <1>1, <2>1, <3>3, <3>4, <3>5, <3>6, <3>7 DEF Sound, AtLine
  <2>. QED
    BY <2>2, <2>3
<1>. QED
  BY <1>1, <1>2, <1>3, <1>4 DEF Counts

\* The payments that go on when the cart becomes a new array.
LEMMA DetachedSound ==
    ASSUME TypeInv, NEW k \in Active, NEW p \in Products, Sound(k, p), cart' = << >>,
           pay'[k] = Detached(k), UNCHANGED sales, shelf'[p] = shelf[p], book'[p] = book[p],
           pay[k].at = "stored" => p \notin SoldBy(k)
    PROVE  Sound(k, p)'
<1>0. k \in Payers
  BY DEF Active
<1>1. CASE Iterates(k)
  <2>1. PICK y \in Looping : y = pay[k]
    BY <1>0, <1>1, PayShape DEF Iterates
  <2>2. PICK z : z = pay'[k]
    OBVIOUS
  <2>3. z = [y EXCEPT !.alias = FALSE, !.array = cart, !.held = FALSE]
    BY <1>1, <2>1, <2>2 DEF Detached
  <2>4. /\ z.at = y.at /\ z.trx = y.trx /\ z.i = y.i /\ z.line = y.line
        /\ z.stock = y.stock /\ z.array = cart /\ z.alias = FALSE
    BY <2>3 DEF Looping
  <2>5. /\ y.at \in {"read", "written"} /\ y.at # "stored" /\ y.alias
    BY <1>1, <2>1 DEF Iterates
  <2>6. ArrayOf(k)' = ArrayOf(k) /\ NextOf(k)' = NextOf(k)
    BY <2>1, <2>2, <2>4, <2>5 DEF ArrayOf, NextOf
  <2>7. Coming(k, p)' = Coming(k, p)
    BY <2>1, <2>2, <2>4, <2>5, <2>6 DEF Coming
  <2>8. Items(k)' = Items(k) /\ (AtLine(k, p)' <=> AtLine(k, p))
    BY <2>1, <2>2, <2>4 DEF Items, AtLine
  <2>9. Owing(k, p)' = Owing(k, p)
    BY <2>7, <2>8 DEF Owing
  <2>. QED
    BY <2>1, <2>2, <2>4, <2>5, <2>6, <2>7, <2>8, <2>9 DEF Sound
<1>2. CASE ~Iterates(k) /\ pay[k].at # "stored"
  BY <1>0, <1>2, SoundKept DEF Detached
<1>3. CASE pay[k].at = "stored"
  <2>1. pay'[k] = pay[k] /\ Items(k)' = Items(k) /\ ~AtLine(k, p)' /\ ~(Items(k)[p] > 0)
    BY <1>3, SoldItems DEF Detached, Iterates, Items, AtLine
  <2>2. ArrayOf(k)' = << >> /\ NextOf(k)' = 1
    BY <1>3, <2>1 DEF ArrayOf, NextOf
  <2>3. Len(<< >>) = 0
    BY EmptySeq
  <2>4. Coming(k, p)' = {}
    BY <2>2, <2>3 DEF Coming
  <2>. QED
    BY <1>3, <2>1, <2>4 DEF Sound
<1>. QED
  BY <1>1, <1>2, <1>3

\* The cart is emptied, and the payments of I are over.
LEMMA EmptiedCounts ==
    ASSUME TypeInv, NEW p \in Products, Counts(p), cart' = << >>, NEW I \in SUBSET Payers,
           \A k \in Payers : pay'[k] = IF k \in I THEN Idle ELSE Detached(k),
           UNCHANGED <<sales, shelf>>, book'[p] = book[p],
           \A k \in Active \ I : pay[k].at = "stored" => p \notin SoldBy(k),
           \A k \in Active \cap I : p \in SoldBy(k) => shelf[p] = book[p]
    PROVE  Counts(p)'
<1>1. \A k \in Payers \ I : /\ pay'[k].at = pay[k].at
                            /\ pay[k].at # "idle" => pay'[k].trx = pay[k].trx
  BY DetachedType
<1>2. Active' = Active \ I /\ \A k \in Active \ I : SoldBy(k)' = SoldBy(k)
  BY <1>1 DEF Active, SoldBy, Idle
<1>3. ASSUME NEW k \in Active' PROVE Sound(k, p)'
  <2>1. k \in Active /\ pay'[k] = Detached(k) /\ Sound(k, p)
    BY <1>2 DEF Active, Counts
  <2>. QED
    BY <1>2, <2>1, DetachedSound
<1>4. Served(p)'
  <2>1. Len(<< >>) = 0
    BY EmptySeq
  <2>. QED
    BY <2>1 DEF Served
<1>5. ASSUME ~Selling(p)' PROVE shelf[p] = book[p]
  <2>1. CASE Selling(p)
    <3>1. PICK k \in Active : p \in SoldBy(k)
      BY <2>1 DEF Selling
    <3>2. k \in I
      BY <1>2, <1>5, <3>1 DEF Selling
    <3>. QED
      BY <3>1, <3>2
  <2>2. CASE ~Selling(p)
    BY <2>2 DEF Counts
  <2>. QED
    BY <2>1, <2>2
<1>6. \A j, k \in Active' : p \in SoldBy(j)' /\ p \in SoldBy(k)' => j = k
  BY <1>2 DEF Counts
<1>. QED
  BY <1>3, <1>4, <1>5, <1>6 DEF Counts

\* A payment that has come to the end of its loop owes nothing.
LEMMA LoopOver ==
    ASSUME TypeInv, NEW k \in Payers, NEW p \in Products, p \in DOMAIN book, Counts(p),
           \/ pay[k].at = "owed"
           \/ Turn(k) /\ NextOf(k) > Len(ArrayOf(k))
    PROVE  Coming(k, p) = {} /\ (p \in SoldBy(k) => shelf[p] = book[p])
<1>1. k \in Active /\ Sound(k, p)
  BY DEF Active, Turn, Counts
<1>2. Coming(k, p) = {} /\ ~AtLine(k, p)
  <2>1. CASE pay[k].at = "owed"
    BY <2>1 DEF Coming, AtLine
  <2>2. CASE Turn(k) /\ NextOf(k) > Len(ArrayOf(k))
    <3>1. NextOf(k) \in Nat /\ Len(ArrayOf(k)) \in Nat
      BY <2>2, ArrayType DEF Turn
    <3>2. NextOf(k)..Len(ArrayOf(k)) = {}
      BY <2>2, <3>1
    <3>. QED
      BY <2>2, <3>2 DEF Coming, AtLine, Turn
  <2>. QED
    BY <2>1, <2>2
<1>3. p \in SoldBy(k) => shelf[p] = book[p] + 0
  BY <1>1, <1>2, SoldItems DEF Sound, Owing
<1>4. book[p] \in Int
  BY DEF TypeInv, BookOK
<1>. QED
  BY <1>2, <1>3, <1>4

\* What is read of the products is what they hold: a product is written only
\* when every tap before was answered.
LEMMA NextFresh == TypeInv /\ Fresh /\ [Next]_vars => Fresh'
<1>. SUFFICES ASSUME TypeInv, Fresh, [Next]_vars PROVE Fresh'
  OBVIOUS
<1>0. pending \in Seq(Tapped) /\ Len(pending) \in Nat
  BY LenProperties DEF TypeInv, TillOK
<1>1. ASSUME pending' = << >> PROVE Fresh'
  <2>1. Len(pending') = 0
    BY <1>1, EmptySeq
  <2>. QED
    BY <2>1 DEF Fresh
<1>2. ASSUME UNCHANGED <<pending, shelf>> PROVE Fresh'
  BY <1>2 DEF Fresh, Read
<1>3. ASSUME NEW p \in Products, Tap(p) PROVE Fresh'
  <2>1. PICK t \in Tapped : t = [product |-> p, stock |-> Read(p)]
    BY ReadType DEF Tapped
  <2>2. pending' = Append(pending, t) /\ shelf' = shelf
    BY <1>3, <2>1 DEF Tap, stores
  <2>3. /\ Len(pending') = Len(pending) + 1 /\ pending'[Len(pending) + 1] = t
        /\ \A i \in 1..Len(pending) : pending'[i] = pending[i]
    BY <1>0, <2>2, AppendProperties
  <2>4. \A x : Read(x)' = Read(x)
    BY <2>2 DEF Read
  <2>5. ASSUME NEW i \in 1..Len(pending') PROVE pending'[i].stock = Read(pending'[i].product)
    <3>1. i \in 1..Len(pending) \/ i = Len(pending) + 1
      BY <1>0, <2>3
    <3>2. CASE i \in 1..Len(pending)
      BY <2>3, <3>2 DEF Fresh
    <3>3. CASE i = Len(pending) + 1
      BY <2>1, <2>3, <3>3
    <3>. QED
      BY <3>1, <3>2, <3>3
  <2>. QED
    BY <2>4, <2>5 DEF Fresh
<1>4. ASSUME Added PROVE Fresh'
  <2>1. pending # << >> /\ pending' = Tail(pending) /\ shelf' = shelf
    BY <1>4 DEF Added, stores
  <2>2. /\ Len(pending') = Len(pending) - 1
        /\ \A i \in 1..Len(pending') : pending'[i] = pending[i + 1]
    BY <1>0, <2>1, HeadTailProperties
  <2>3. \A i \in 1..Len(pending') : i + 1 \in 1..Len(pending)
    BY <1>0, <2>2
  <2>4. \A x : Read(x)' = Read(x)
    BY <2>1 DEF Read
  <2>. QED
    BY <2>2, <2>3, <2>4 DEF Fresh
<1>5. CASE Reload
  BY <1>1, <1>5 DEF Reload
<1>6. ASSUME \/ Adjusted \/ DeleteProduct
             \/ \E n \in Levels : SaveProduct(n)
             \/ \E k \in Payers : WriteStock(k)
      PROVE  Fresh'
  BY <1>1, <1>6 DEF Adjusted, DeleteProduct, SaveProduct, WriteStock, memory
<1>7. ASSUME \/ UNCHANGED vars \/ OpenCheckout \/ Dismiss \/ ClearCart
             \/ \E p \in Products : OpenForm(p)
             \/ \E i \in 1..Len(cart), delta \in {-1, 1} : ChangeQty(i, delta)
             \/ \E m \in Methods : ChooseMethod(m)
             \/ \E p \in Products, kind \in {"in", "out", "set"}, q \in 0..MaxStock :
                  Adjust(p, kind, q)
             \/ \E k \in Payers : \/ ReadProduct(k) \/ StoreDebt(k) \/ FinishPaid(k)
                                  \/ FinishOwed(k) \/ RequestFails(k)
                                  \/ \E id \in TrxIds : Pay(k, id)
      PROVE  Fresh'
  <2>1. UNCHANGED <<pending, shelf>>
    BY <1>7 DEF vars, memory, stores, OpenCheckout, Dismiss, ClearCart, OpenForm, ChangeQty,
         ChooseMethod, Adjust, ReadProduct, StoreDebt, FinishPaid, FinishOwed, Leaves,
         RequestFails, Pay
  <2>. QED
    BY <1>2, <2>1
<1>. QED
  BY <1>3, <1>4, <1>5, <1>6, <1>7 DEF Next, PayStep

\* A line of the cart is added, changed or removed, within what is on the shelf
\* of a product no one sells.
LEMMA LineCounts ==
    ASSUME TypeInv, StockInv, NEW c \in Seq(Line), Distinct(c), NEW x \in Products,
           NEW q \in Int, q <= MaxStock, Mutate(c, x, q), UNCHANGED stores,
           \A j \in 1..Len(c) :
              \/ \E i \in 1..Len(cart) : c[j] = cart[i]
              \/ /\ c[j].product = x
                 /\ x \in DOMAIN book /\ ~Selling(x) =>
                       c[j].qty <= shelf[x] /\ c[j].maxStock <= shelf[x],
           NEW p \in DOMAIN book'
    PROVE  Counts(p)'
<1>1. UNCHANGED <<sales, shelf>>
  BY DEF stores
<1>2. \A k \in Payers : pay'[k].at = pay[k].at
  BY <1>1, MutateType
<1>3. ASSUME NEW k \in Payers, pay[k].at # "idle" PROVE pay'[k].trx = pay[k].trx
  <2>1. CASE pay[k].at = "read"
    BY <2>1, PayShape DEF Mutate, Looping
  <2>2. CASE pay[k].at # "read"
    BY <2>2 DEF Mutate
  <2>. QED
    BY <2>1, <2>2
<1>4. p \in DOMAIN book /\ p \in Products /\ Counts(p)
  BY DEF Mutate, Without, TypeInv, BookOK, StockInv
<1>5. \A j \in 1..Len(c) : c[j].product = x \/ c[j].product \in InCart
  BY CartLines
<1>6. ASSUME ~Selling(p), NEW j \in 1..Len(c), c[j].product = p
      PROVE  c[j].qty <= shelf[p] /\ c[j].maxStock <= shelf[p]
  <2>1. Served(p)
    BY <1>4, <1>6 DEF Counts
  <2>2. CASE \E i \in 1..Len(cart) : c[j] = cart[i]
    BY <1>6, <2>1, <2>2 DEF Served
  <2>3. CASE ~\E i \in 1..Len(cart) : c[j] = cart[i]
    BY <1>4, <1>6, <2>3
  <2>. QED
    BY <2>2, <2>3
<1>. QED
  BY <1>1, <1>2, <1>3, <1>4, <1>5, <1>6, MutateCounts

LEMMA AddedCounts ==
    ASSUME TypeInv, StockInv, Added, NEW p \in DOMAIN book'
    PROVE  Counts(p)'
<1>1. UNCHANGED stores
  BY DEF Added
<1>2. pending \in Seq(Tapped) /\ pending # << >>
  BY DEF Added, TypeInv, TillOK
<1>3. Head(pending) \in Tapped /\ Head(pending) = pending[1] /\ 1 \in 1..Len(pending)
  BY <1>2, HeadTailProperties, LenProperties, EmptySeq
<1>4. PICK x \in Products : x = Head(pending).product
  BY <1>3 DEF Tapped
<1>5. PICK n \in Answers : n = Head(pending).stock
  BY <1>3 DEF Tapped
<1>6. n = Read(x)
  BY <1>3, <1>4, <1>5 DEF StockInv, Fresh
<1>7. x \in DOMAIN book => n = shelf[x]
  BY <1>6 DEF StockInv, Counts, Read
<1>8. n > 0 => n \in 1..MaxStock
  BY <1>5, ConstantsAssumption DEF Answers, Levels, Stocks, Gone
<1>9. CASE n > 0 /\ LinesOf(x) = {}
             /\ Mutate(Append(cart, [product |-> x, qty |-> 1, maxStock |-> n]), x, 1)
  <2>1. PICK l \in Line : /\ l = [product |-> x, qty |-> 1, maxStock |-> n]
                          /\ l.product = x /\ l.qty = 1 /\ l.maxStock = n
    BY <1>8, <1>9, ConstantsAssumption DEF Line
  <2>2. x \notin InCart
    BY <1>9, CartLines DEF LinesOf
  <2>3. PICK c \in Seq(Line) :
          /\ c = Append(cart, l) /\ Distinct(c) /\ Len(c) = Len(cart) + 1
          /\ \A j \in 1..Len(cart) : c[j] = cart[j]
          /\ c[Len(cart) + 1] = l
    BY <2>2, <2>1, CartAppended
  <2>4. Mutate(c, x, 1) /\ 1 \in Int /\ 1 <= MaxStock
    BY <1>8, <1>9, <2>1, <2>3, ConstantsAssumption
  <2>5. \A j \in 1..Len(c) : j \in 1..Len(cart) \/ j = Len(cart) + 1
    BY <2>3, CartLines
  <2>6. x \in DOMAIN book => l.qty <= shelf[x] /\ l.maxStock <= shelf[x]
    BY <1>7, <1>8, <1>9, <2>1
  <2>7. \A j \in 1..Len(c) :
          \/ \E i \in 1..Len(cart) : c[j] = cart[i]
          \/ /\ c[j].product = x
             /\ x \in DOMAIN book /\ ~Selling(x) =>
                   c[j].qty <= shelf[x] /\ c[j].maxStock <= shelf[x]
    BY <2>1, <2>3, <2>5, <2>6
  <2>. QED
    BY <1>1, <2>3, <2>4, <2>7, LineCounts
<1>10. CASE \E i \in LinesOf(x) :
             /\ n > 0 /\ Fits(cart[i].qty + 1, n)
             /\ Mutate([cart EXCEPT ![i].qty = @ + 1], x, cart[i].qty + 1)
  <2>1. PICK i \in 1..Len(cart) :
             /\ n > 0 /\ Fits(cart[i].qty + 1, n) /\ cart[i].product = x
             /\ Mutate([cart EXCEPT ![i].qty = @ + 1], x, cart[i].qty + 1)
    BY <1>10 DEF LinesOf
  <2>2. PICK q \in 1..MaxStock : q = cart[i].qty + 1 /\ q <= n
    BY <1>8, <2>1, CartLines, ConstantsAssumption DEF Fits
  <2>3. [cart EXCEPT ![i].qty = @ + 1] = [cart EXCEPT ![i].qty = q]
    BY <2>2
  <2>4. PICK c \in Seq(Line) :
          /\ c = [cart EXCEPT ![i].qty = q] /\ Distinct(c) /\ Len(c) = Len(cart)
          /\ \A j \in 1..Len(cart) :
                /\ c[j].product = cart[j].product /\ c[j].maxStock = cart[j].maxStock
                /\ c[j].qty = IF j = i THEN q ELSE cart[j].qty
                /\ j # i => c[j] = cart[j]
    BY CartChanged
  <2>5. Mutate(c, x, q) /\ q \in Int /\ q <= MaxStock
    BY <2>1, <2>2, <2>3, <2>4, ConstantsAssumption
  <2>7. x \in DOMAIN book /\ ~Selling(x) => c[i].qty <= shelf[x] /\ c[i].maxStock <= shelf[x]
    <3>1. x \in DOMAIN book /\ ~Selling(x) => cart[i].maxStock <= shelf[x]
      BY <2>1 DEF StockInv, Counts, Served
    <3>. QED
      BY <1>7, <2>2, <2>4, <3>1
  <2>8. \A j \in 1..Len(c) :
          \/ \E h \in 1..Len(cart) : c[j] = cart[h]
          \/ /\ c[j].product = x
             /\ x \in DOMAIN book /\ ~Selling(x) =>
                   c[j].qty <= shelf[x] /\ c[j].maxStock <= shelf[x]
    BY <2>1, <2>4, <2>7
  <2>. QED
    BY <1>1, <2>4, <2>5, <2>8, LineCounts
<1>11. CASE UNCHANGED <<cart, pay, book>>
  BY <1>1, <1>11, CountsKept DEF StockInv, Counts, stores
<1>. QED
  BY <1>4, <1>5, <1>9, <1>10, <1>11 DEF Added

LEMMA ChangeQtyCounts ==
    ASSUME TypeInv, StockInv, NEW i \in 1..Len(cart), NEW delta \in {-1, 1},
           ChangeQty(i, delta), NEW p \in DOMAIN book'
    PROVE  Counts(p)'
<1>0. UNCHANGED stores
  BY DEF ChangeQty
<1>1. PICK x \in Products : x = cart[i].product
  BY CartLines
<1>2. PICK q \in Int : q = cart[i].qty + delta
  BY CartLines
<1>3. q <= MaxStock /\ (q <= cart[i].maxStock \/ q <= 0)
  BY <1>2, CartLines, ConstantsAssumption DEF ChangeQty, Stocks
<1>4. CASE q <= 0
  <2>1. Mutate(Removed(i), x, q)
    BY <1>1, <1>2, <1>4 DEF ChangeQty
  <2>2. PICK c \in Seq(Line) :
          /\ c = Removed(i) /\ Distinct(c)
          /\ \A j \in 1..Len(c) : \E l \in 1..Len(cart) : c[j] = cart[l]
    BY CartRemoved
  <2>. QED
    BY <1>0, <1>3, <2>1, <2>2, LineCounts
<1>5. CASE ~(q <= 0)
  <2>1. Mutate([cart EXCEPT ![i].qty = @ + delta], x, q)
    BY <1>1, <1>2, <1>5 DEF ChangeQty
  <2>2. [cart EXCEPT ![i].qty = @ + delta] = [cart EXCEPT ![i].qty = q]
    BY <1>2
  <2>3. q \in 1..MaxStock
    BY <1>3, <1>5, ConstantsAssumption
  <2>4. PICK c \in Seq(Line) :
          /\ c = [cart EXCEPT ![i].qty = q] /\ Distinct(c) /\ Len(c) = Len(cart)
          /\ \A j \in 1..Len(cart) :
                /\ c[j].product = cart[j].product /\ c[j].maxStock = cart[j].maxStock
                /\ c[j].qty = IF j = i THEN q ELSE cart[j].qty
                /\ j # i => c[j] = cart[j]
    BY <2>3, CartChanged
  <2>5. Mutate(c, x, q)
    BY <2>1, <2>2, <2>4
  <2>7. x \in DOMAIN book /\ ~Selling(x) => c[i].qty <= shelf[x] /\ c[i].maxStock <= shelf[x]
    <3>1. x \in DOMAIN book /\ ~Selling(x) => cart[i].maxStock <= shelf[x] /\ shelf[x] \in Int
      BY <1>1, ConstantsAssumption
         DEF StockInv, Counts, Served, TypeInv, StoresOK, Levels
    <3>2. cart[i].maxStock \in Int /\ q <= cart[i].maxStock
      BY <1>3, <1>5, CartLines, ConstantsAssumption DEF Stocks
    <3>. QED
      BY <2>4, <3>1, <3>2
  <2>8. \A j \in 1..Len(c) :
          \/ \E h \in 1..Len(cart) : c[j] = cart[h]
          \/ /\ c[j].product = x
             /\ x \in DOMAIN book /\ ~Selling(x) =>
                   c[j].qty <= shelf[x] /\ c[j].maxStock <= shelf[x]
    BY <1>1, <2>4, <2>7
  <2>. QED
    BY <1>0, <1>3, <2>4, <2>5, <2>8, LineCounts
<1>. QED
  BY <1>4, <1>5

\* The cart becomes a new array.
LEMMA ClearCartCounts ==
    ASSUME TypeInv, StockInv, ClearCart, NEW p \in DOMAIN book'
    PROVE  Counts(p)'
<1>1. /\ cart' = << >> /\ UNCHANGED <<sales, shelf>>
      /\ \A k \in Payers : pay'[k] = Detached(k)
  BY DEF ClearCart, stores
<1>2. PICK D : /\ D = UNION {SoldBy(k) : k \in {j \in Active : pay[j].at = "stored"}}
               /\ book' = Without(D)
  BY DEF ClearCart
<1>3. p \in DOMAIN book /\ p \in Products /\ book'[p] = book[p] /\ Counts(p) /\ p \notin D
  BY <1>2 DEF Without, StockInv, TypeInv, BookOK
<1>4. \A k \in Active : pay[k].at = "stored" => p \notin SoldBy(k)
  BY <1>2, <1>3
<1>5. PICK I \in SUBSET Payers : I = {}
  OBVIOUS
<1>6. /\ \A k \in Payers : pay'[k] = IF k \in I THEN Idle ELSE Detached(k)
      /\ \A k \in Active \ I : pay[k].at = "stored" => p \notin SoldBy(k)
      /\ \A k \in Active \cap I : p \in SoldBy(k) => shelf[p] = book[p]
  BY <1>1, <1>4, <1>5
<1>. QED
  BY <1>1, <1>3, <1>6, EmptiedCounts

LEMMA LeavesCounts ==
    ASSUME TypeInv, StockInv, NEW k \in Payers, FinishPaid(k) \/ FinishOwed(k),
           NEW p \in DOMAIN book'
    PROVE  Counts(p)'
<1>1. /\ cart' = << >> /\ UNCHANGED <<sales, shelf>>
      /\ \A j \in Payers : pay'[j] = IF j \in {k} THEN Idle ELSE Detached(j)
  BY DEF FinishPaid, FinishOwed, Leaves
<1>2. PICK D : /\ D = UNION {SoldBy(j) : j \in {j \in Active \ {k} : pay[j].at = "stored"}}
               /\ book' = Without(D)
  BY DEF FinishPaid, FinishOwed, Leaves
<1>3. p \in DOMAIN book /\ p \in Products /\ book'[p] = book[p] /\ Counts(p) /\ p \notin D
  BY <1>2 DEF Without, StockInv, TypeInv, BookOK
<1>4. \A j \in Active \ {k} : pay[j].at = "stored" => p \notin SoldBy(j)
  BY <1>2, <1>3
<1>5. p \in SoldBy(k) => shelf[p] = book[p]
  BY <1>3, LoopOver DEF FinishPaid, FinishOwed
<1>. QED
  BY <1>1, <1>3, <1>4, <1>5, EmptiedCounts

LEMMA ReloadCounts ==
    ASSUME TypeInv, StockInv, Reload, NEW p \in DOMAIN book'
    PROVE  Counts(p)'
<1>1. /\ cart' = << >> /\ UNCHANGED <<sales, shelf>>
      /\ \A j \in Payers : pay'[j] = IF j \in Payers THEN Idle ELSE Detached(j)
  BY DEF Reload, stores
<1>2. PICK D : D = UNION {SoldBy(k) : k \in Active} /\ book' = Without(D)
  BY DEF Reload
<1>3. p \in DOMAIN book /\ p \in Products /\ book'[p] = book[p] /\ Counts(p) /\ p \notin D
  BY <1>2 DEF Without, StockInv, TypeInv, BookOK
<1>4. \A k \in Active : p \notin SoldBy(k)
  BY <1>2, <1>3
<1>5. Active \subseteq Payers
  BY DEF Active
<1>. QED
  BY <1>1, <1>3, <1>4, <1>5, EmptiedCounts


\* A payment that did not move and does not sell the product: what happens to
\* the product is nothing to it.
LEMMA UnsoldSound ==
    ASSUME TypeInv, NEW k \in Active, NEW p \in Products, Sound(k, p), p \notin SoldBy(k),
           pay'[k] = pay[k], sales'[pay[k].trx] = sales[pay[k].trx], cart' = cart
    PROVE  Sound(k, p)'
<1>0. k \in Payers /\ Items(k)[p] = 0
  BY SoldItems DEF Active
<1>1. Coming(k, p) = {}
  <2>1. ASSUME NEW j \in Coming(k, p) PROVE FALSE
    <3>1. /\ pay[k].at \in {"stored", "read", "written"}
          /\ j \in NextOf(k)..Len(ArrayOf(k)) /\ ArrayOf(k)[j].qty = 0
      BY <1>0, <2>1 DEF Coming, Sound
    <3>2. j \in 1..Len(ArrayOf(k))
      BY <1>0, <3>1, ArrayType
    <3>. QED
      BY <1>0, <3>1, <3>2, ArrayType, ConstantsAssumption
  <2>. QED
    BY <2>1
<1>2. ~AtLine(k, p)
  <2>1. SUFFICES ASSUME AtLine(k, p) PROVE FALSE
    OBVIOUS
  <2>2. pay[k].line \in Line /\ pay[k].line.qty = 0
    BY <1>0, <2>1, PayShape DEF AtLine, Looping, Sound
  <2>. QED
    BY <2>2, ConstantsAssumption DEF Line
<1>3. pay[k].at \in {"stored", "read", "written"} =>
        ArrayOf(k)' = ArrayOf(k) /\ NextOf(k)' = NextOf(k)
  BY DEF ArrayOf, NextOf
<1>4. Coming(k, p)' = {} /\ Items(k)' = Items(k) /\ ~AtLine(k, p)'
  BY <1>1, <1>2, <1>3 DEF Coming, Items, AtLine
<1>. QED
  BY <1>0, <1>4 DEF Sound

\* One payment goes on, and touches no product but those it sells.
LEMMA StepCounts ==
    ASSUME TypeInv, NEW k \in Payers, NEW p \in Products, Counts(p), book'[p] = book[p],
           UNCHANGED <<cart, sales>>, p \in DOMAIN shelf',
           shelf'[p] = shelf[p] \/ p \in SoldBy(k),
           pay[k].at # "idle", pay'[k].at # "idle", pay'[k].trx = pay[k].trx,
           \A j \in Payers \ {k} : pay'[j] = pay[j],
           Sound(k, p)'
    PROVE  Counts(p)'
<1>1. /\ Active' = Active /\ k \in Active /\ (Selling(p)' <=> Selling(p))
      /\ \A j \in Active : SoldBy(j)' = SoldBy(j)
  BY DEF Active, Selling, SoldBy
<1>2. ASSUME NEW j \in Active PROVE Sound(j, p)'
  <2>1. j \in Payers /\ Sound(j, p)
    BY DEF Active, Counts
  <2>2. CASE j = k
    BY <2>2
  <2>3. CASE j # k /\ shelf'[p] = shelf[p]
    BY <2>1, <2>3, SoundKept
  <2>4. CASE j # k /\ p \in SoldBy(k)
    <3>1. p \notin SoldBy(j)
      BY <1>1, <2>4 DEF Counts
    <3>. QED
      BY <2>1, <2>4, <3>1, UnsoldSound
  <2>. QED
    BY <2>2, <2>3, <2>4
<1>3. ASSUME ~Selling(p) PROVE shelf'[p] = book'[p] /\ Served(p)'
  <2>1. shelf'[p] = shelf[p]
    BY <1>1, <1>3 DEF Selling
  <2>. QED
    BY <1>3, <2>1 DEF Counts, Served
<1>. QED
  BY <1>1, <1>2, <1>3 DEF Counts

LEMMA StoreDebtCounts ==
    ASSUME TypeInv, StockInv, NEW k \in Payers, StoreDebt(k), NEW p \in DOMAIN book'
    PROVE  Counts(p)'
<1>1. /\ UNCHANGED <<shelf, sales, cart, book>> /\ pay[k].at \in {"stored", "written"}
      /\ pay'[k] = [at |-> "owed", trx |-> pay[k].trx]
      /\ \A j \in Payers \ {k} : pay'[j] = pay[j]
  BY DEF StoreDebt, Turn, TypeInv, PayOK
<1>2. p \in DOMAIN book /\ p \in Products /\ Counts(p) /\ p \in DOMAIN shelf'
  BY <1>1 DEF StockInv, TypeInv, BookOK, Counts
<1>3. k \in Active /\ Items(k)[p] \in Nat /\ (Items(k)[p] > 0 => shelf[p] = book[p])
  BY <1>1, <1>2, SoldItems, LoopOver DEF StoreDebt, Active
<1>4. pay'[k].at = "owed" /\ Items(k)' = Items(k) /\ Coming(k, p)' = {} /\ ~AtLine(k, p)'
  BY <1>1 DEF Items, Coming, AtLine
<1>5. Owing(k, p)' = 0 /\ book[p] \in Int
  BY <1>2, <1>4 DEF Owing, TypeInv, BookOK
<1>6. Items(k)'[p] > 0 => book'[p] >= 0 /\ shelf'[p] = book'[p] + Owing(k, p)'
  <2>1. Items(k)[p] > 0 => book[p] >= 0
    BY <1>2, <1>3 DEF Counts, Sound
  <2>. QED
    BY <1>1, <1>3, <1>4, <1>5, <2>1
<1>7. Sound(k, p)'
  BY <1>4, <1>6 DEF Sound
<1>. QED
  BY <1>1, <1>2, <1>7, StepCounts

LEMMA ReadCounts ==
    ASSUME TypeInv, StockInv, NEW k \in Payers, ReadProduct(k), NEW p \in DOMAIN book'
    PROVE  Counts(p)'
<1>0. /\ NextOf(k) \in Nat \ {0} /\ ArrayOf(k) \in Seq(Line) /\ Len(ArrayOf(k)) \in Nat
      /\ NextOf(k) \in 1..Len(ArrayOf(k))
      /\ \A j \in 1..Len(ArrayOf(k)) : ArrayOf(k)[j] \in Line
  BY ArrayType DEF ReadProduct, Turn
<1>1. PICK n \in Nat \ {0}, a \in Seq(Line), b \in BOOLEAN :
        /\ n = NextOf(k) /\ a = ArrayOf(k) /\ n \in 1..Len(a) /\ Len(a) \in Nat
        /\ b <=> pay[k].at = "stored" \/ pay[k].alias
        /\ \A j \in 1..Len(a) : a[j] \in Line
  BY <1>0
<1>2. PICK y : y = [at |-> "read", trx |-> pay[k].trx, i |-> n, alias |-> b,
                    array |-> IF b THEN << >> ELSE pay[k].array, held |-> b,
                    line |-> a[n], stock |-> Read(a[n].product)]
  OBVIOUS
<1>3. /\ UNCHANGED <<shelf, sales, cart, book>> /\ pay[k].at \in {"stored", "written"}
      /\ pay'[k] = y /\ \A j \in Payers \ {k} : pay'[j] = pay[j]
  BY <1>1, <1>2 DEF ReadProduct, Turn, stores, TypeInv, PayOK
<1>4. /\ p \in DOMAIN book /\ p \in Products /\ Counts(p) /\ p \in DOMAIN shelf'
      /\ k \in Active /\ Sound(k, p)
  BY <1>3 DEF StockInv, TypeInv, BookOK, Counts, Active
<1>5. /\ y.at = "read" /\ y.trx = pay[k].trx /\ y.i = n /\ y.line = a[n]
      /\ y.stock = Read(a[n].product) /\ y.alias = b
      /\ ~b => y.array = pay[k].array
  BY <1>2
<1>6. ArrayOf(k)' = a /\ NextOf(k)' = n + 1
  BY <1>1, <1>3, <1>5 DEF ArrayOf, NextOf
<1>7. /\ Coming(k, p) = {j \in n..Len(a) : a[j].product = p}
      /\ Coming(k, p)' = {j \in (n + 1)..Len(a) : a[j].product = p}
  BY <1>1, <1>3, <1>5, <1>6 DEF Coming
<1>8. Items(k)' = Items(k) /\ (AtLine(k, p)' <=> a[n].product = p) /\ ~AtLine(k, p)
  BY <1>3, <1>5 DEF Items, AtLine
<1>9. CASE a[n].product = p
  <2>1. n \in Coming(k, p)
    BY <1>1, <1>7, <1>9
  <2>2. Coming(k, p)' = {}
    <3>1. ASSUME NEW j \in Coming(k, p)' PROVE FALSE
      <4>1. j \in Coming(k, p) /\ j # n
        BY <1>1, <1>7
      <4>. QED
        BY <1>4, <2>1, <4>1 DEF Sound
    <3>. QED
      BY <3>1
  <2>3. a[n].qty = Items(k)[p] /\ y.stock = shelf[p]
    BY <1>1, <1>4, <1>5, <1>9, <2>1, ReadType DEF Sound, Counts
  <2>4. Owing(k, p)' = Owing(k, p)
    BY <1>8, <1>9, <2>1 DEF Owing
  <2>5. Sound(k, p)'
    BY <1>3, <1>4, <1>5, <1>8, <2>2, <2>3, <2>4 DEF Sound
  <2>. QED
    BY <1>3, <1>4, <1>5, <2>5, StepCounts
<1>10. CASE a[n].product # p
  <2>1. Coming(k, p)' = Coming(k, p)
    BY <1>1, <1>7, <1>10
  <2>2. Owing(k, p)' = Owing(k, p)
    BY <1>8, <1>10, <2>1 DEF Owing
  <2>3. \A j \in Coming(k, p) : ArrayOf(k)'[j] = ArrayOf(k)[j]
    BY <1>1, <1>6
  <2>4. Sound(k, p)'
    BY <1>3, <1>4, <1>5, <1>8, <1>10, <2>1, <2>2, <2>3 DEF Sound
  <2>. QED
    BY <1>3, <1>4, <1>5, <2>4, StepCounts
<1>. QED
  BY <1>9, <1>10

LEMMA WriteCounts ==
    ASSUME TypeInv, StockInv, NEW k \in Payers, WriteStock(k), NEW p \in DOMAIN book'
    PROVE  Counts(p)'
<1>1. PICK y \in Looping : y = pay[k] /\ y.at = "read"
  BY PayShape DEF WriteStock
<1>2. PICK z : z = [y EXCEPT !.at = "written"]
  OBVIOUS
<1>3. /\ UNCHANGED <<sales, cart, book>> /\ pay'[k] = z
      /\ \A j \in Payers \ {k} : pay'[j] = pay[j]
  BY <1>1, <1>2 DEF WriteStock, TypeInv, PayOK
<1>4. /\ p \in DOMAIN book /\ p \in Products /\ Counts(p) /\ p \in DOMAIN shelf
      /\ k \in Active /\ Sound(k, p) /\ book[p] \in Int
  BY <1>1, <1>3 DEF StockInv, TypeInv, BookOK, Counts, Active
<1>5. /\ z.at = "written" /\ z.trx = y.trx /\ z.i = y.i /\ z.alias = y.alias
      /\ z.array = y.array
  BY <1>2 DEF Looping
<1>6. ArrayOf(k)' = ArrayOf(k) /\ NextOf(k)' = NextOf(k)
  BY <1>1, <1>3, <1>5 DEF ArrayOf, NextOf
<1>7. Coming(k, p)' = Coming(k, p) /\ Items(k)' = Items(k) /\ ~AtLine(k, p)'
  BY <1>1, <1>3, <1>5, <1>6 DEF Coming, Items, AtLine
<1>8. Items(k)[p] \in Nat
  BY <1>4, SoldItems
<1>9. CASE y.line.product = p
  <2>1. /\ AtLine(k, p) /\ Coming(k, p) = {} /\ y.line.qty = Items(k)[p]
        /\ y.stock = shelf[p]
    BY <1>1, <1>4, <1>9 DEF AtLine, Sound
  <2>2. Items(k)[p] > 0
    BY <1>1, <2>1, ConstantsAssumption DEF Looping, Line
  <2>3. shelf[p] = book[p] + Items(k)[p] /\ book[p] \in Nat
    BY <1>4, <2>1, <2>2 DEF Sound, Owing
  <2>4. shelf[p] # Gone
    BY <1>4, <1>8, <2>3, ConstantsAssumption DEF Gone
  <2>5. shelf' = Put(shelf, p, Remaining(shelf[p], Items(k)[p]))
    BY <1>1, <1>9, <2>1, <2>4 DEF WriteStock
  <2>6. Remaining(shelf[p], Items(k)[p]) = book[p]
    BY <1>4, <1>8, <2>3 DEF Remaining, Larger
  <2>7. p \in DOMAIN shelf' /\ shelf'[p] = book[p]
    BY <2>5, <2>6 DEF Put
  <2>8. Owing(k, p)' = 0
    BY <1>7, <2>1 DEF Owing
  <2>9. book'[p] >= 0 /\ shelf'[p] = book'[p] + Owing(k, p)'
    BY <1>3, <1>4, <2>3, <2>7, <2>8
  <2>10. Sound(k, p)'
    BY <1>3, <1>5, <1>7, <2>1, <2>9 DEF Sound
  <2>11. p \in SoldBy(k)
    BY <1>4, <2>2, SoldItems
  <2>. QED
    BY <1>1, <1>3, <1>4, <1>5, <2>7, <2>10, <2>11, StepCounts
<1>10. CASE y.line.product # p
  <2>1. p \in DOMAIN shelf' /\ shelf'[p] = shelf[p]
    BY <1>1, <1>4, <1>10 DEF WriteStock, Put
  <2>2. ~AtLine(k, p)
    BY <1>1, <1>10 DEF AtLine
  <2>3. Owing(k, p)' = Owing(k, p)
    BY <1>7, <2>2 DEF Owing
  <2>4. Sound(k, p)'
    BY <1>3, <1>4, <1>5, <1>6, <1>7, <2>1, <2>3 DEF Sound
  <2>. QED
    BY <1>1, <1>3, <1>4, <1>5, <2>1, <2>4, StepCounts
<1>. QED
  BY <1>9, <1>10

LEMMA FailsCounts ==
    ASSUME TypeInv, StockInv, NEW k \in Payers, RequestFails(k), NEW p \in DOMAIN book'
    PROVE  Counts(p)'
<1>1. /\ UNCHANGED <<shelf, sales, cart>> /\ book' = Without(SoldBy(k))
      /\ pay'[k] = Idle /\ \A j \in Payers \ {k} : pay'[j] = pay[j]
  BY DEF RequestFails, stores, TypeInv, PayOK
<1>2. /\ p \in DOMAIN book /\ p \in Products /\ book'[p] = book[p] /\ Counts(p)
      /\ p \notin SoldBy(k)
  BY <1>1 DEF Without, StockInv, TypeInv, BookOK
<1>3. Active' = Active \ {k} /\ \A j \in Active \ {k} : SoldBy(j)' = SoldBy(j)
  BY <1>1 DEF Active, SoldBy, Idle
<1>4. Selling(p)' <=> Selling(p)
  BY <1>2, <1>3 DEF Selling
<1>5. ASSUME NEW j \in Active' PROVE Sound(j, p)'
  <2>1. j \in Payers \ {k} /\ Sound(j, p)
    BY <1>2, <1>3 DEF Active, Counts
  <2>. QED
    BY <1>1, <1>2, <2>1, SoundKept
<1>. QED
  BY <1>1, <1>2, <1>3, <1>4, <1>5 DEF Counts, Served


LEMMA PayCounts ==
    ASSUME TypeInv, StockInv, NEW k \in Payers, NEW id \in TrxIds, Pay(k, id),
           NEW p \in DOMAIN book'
    PROVE  Counts(p)'
<1>1. /\ UNCHANGED <<shelf, cart>> /\ pay[k] = Idle /\ id \notin DOMAIN sales
      /\ pay'[k] = [at |-> "stored", trx |-> id]
      /\ \A j \in Payers \ {k} : pay'[j] = pay[j]
  BY DEF Pay, TypeInv, PayOK
<1>2. PICK v : v = [items |-> Qty(cart), method |-> method]
  OBVIOUS
<1>3. /\ sales'[id] = v /\ v.items = Qty(cart)
      /\ \A x \in DOMAIN sales : sales'[x] = sales[x]
  BY <1>1, <1>2 DEF Pay, Put
<1>4. /\ p \in DOMAIN book /\ (p \notin InCart \/ ~Selling(p))
      /\ book'[p] = book[p] - Qty(cart)[p]
  BY DEF Pay
<1>5. /\ p \in Products /\ Counts(p) /\ p \in DOMAIN shelf /\ book[p] \in Int
      /\ shelf[p] \in Int /\ Qty(cart)[p] \in Nat
  <2>1. p \in Products /\ Counts(p) /\ p \in DOMAIN shelf /\ book[p] \in Int
    BY <1>4 DEF StockInv, Counts, TypeInv, BookOK
  <2>2. shelf[p] \in Int
    BY <2>1, ConstantsAssumption DEF TypeInv, StoresOK, Levels
  <2>3. Qty(cart)[p] \in Nat
    BY <2>1, QtyOfCart, ConstantsAssumption DEF Stocks
  <2>. QED
    BY <2>1, <2>2, <2>3
<1>6. p \notin InCart => book'[p] = book[p]
  BY <1>4, <1>5, QtyOfCart
<1>7. Active' = Active \cup {k} /\ k \notin Active
  BY <1>1 DEF Active, Idle
<1>8. ASSUME NEW j \in Active
      PROVE  /\ j \in Payers \ {k} /\ pay'[j] = pay[j] /\ SoldBy(j)' = SoldBy(j)
             /\ sales'[pay[j].trx] = sales[pay[j].trx]
  <2>1. j \in Payers \ {k} /\ pay'[j] = pay[j] /\ pay[j].trx \in DOMAIN sales
    BY <1>1, <1>7 DEF Active, TypeInv, PayOK
  <2>. QED
    BY <1>3, <2>1 DEF SoldBy
<1>9. Items(k)' = Qty(cart) /\ (p \in SoldBy(k)' <=> p \in InCart)
  <2>1. Items(k)' = Qty(cart)
    BY <1>1, <1>3 DEF Items
  <2>2. SoldBy(k)' = {x \in Products : Qty(cart)[x] > 0}
    BY <1>1, <1>3 DEF SoldBy
  <2>. QED
    BY <1>5, <2>1, <2>2, QtyOfCart
<1>10. /\ ArrayOf(k)' = cart /\ NextOf(k)' = 1 /\ ~AtLine(k, p)' /\ pay'[k].at = "stored"
       /\ Coming(k, p)' = {j \in 1..Len(cart) : cart[j].product = p}
  BY <1>1 DEF ArrayOf, NextOf, AtLine, Coming
<1>11. Sound(k, p)'
  <2>1. \A i, j \in Coming(k, p)' : i = j
    BY <1>10 DEF TypeInv, CartOK, Distinct
  <2>2. \A j \in Coming(k, p)' : cart[j].qty = Qty(cart)[p]
    BY <1>10, QtyOfCart
  <2>3. Qty(cart)[p] > 0 => p \in InCart /\ Coming(k, p)' # {}
    BY <1>5, <1>10, QtyOfCart, CartLines
  <2>4. Qty(cart)[p] > 0 => Owing(k, p)' = Qty(cart)[p]
    BY <1>9, <2>3 DEF Owing
  <2>5. Qty(cart)[p] > 0 => shelf[p] = book[p]
    BY <1>4, <1>5, <2>3 DEF Counts
  <2>6. Qty(cart)[p] > 0 => book'[p] >= 0 /\ shelf'[p] = book'[p] + Owing(k, p)'
    <3>1. Qty(cart)[p] > 0 => Qty(cart)[p] <= shelf[p]
      <4>1. SUFFICES ASSUME Qty(cart)[p] > 0 PROVE Qty(cart)[p] <= shelf[p]
        OBVIOUS
      <4>2. p \in InCart /\ Served(p)
        BY <1>4, <1>5, <2>3, <4>1 DEF Counts
      <4>3. PICK i \in 1..Len(cart) : cart[i].product = p
        BY <1>10, <2>3, <4>1
      <4>. QED
        BY <4>2, <4>3, QtyOfCart DEF Served
    <3>. QED
      BY <1>1, <1>4, <1>5, <2>4, <2>5, <3>1
  <2>. QED
    BY <1>9, <1>10, <2>1, <2>2, <2>3, <2>6 DEF Sound
<1>12. ASSUME NEW j \in Active PROVE Sound(j, p)'
  <2>1. Sound(j, p) /\ j \in Payers
    BY <1>5, <1>8 DEF Counts
  <2>2. CASE p \notin InCart
    BY <1>1, <1>6, <1>8, <2>1, <2>2, SoundKept
  <2>3. CASE ~Selling(p)
    BY <1>1, <1>5, <1>8, <2>1, <2>3, UnsoldSound DEF Selling
  <2>. QED
    BY <1>4, <2>2, <2>3
<1>13. ASSUME ~Selling(p)' PROVE shelf'[p] = book'[p] /\ Served(p)'
  <2>1. p \notin InCart /\ ~Selling(p)
    BY <1>7, <1>8, <1>9, <1>13 DEF Selling
  <2>. QED
    BY <1>1, <1>5, <1>6, <2>1 DEF Counts, Served
<1>14. ASSUME NEW i \in Active', NEW j \in Active', p \in SoldBy(i)', p \in SoldBy(j)'
       PROVE  i = j
  <2>1. CASE i \in Active /\ j \in Active
    BY <1>5, <1>8, <1>14, <2>1 DEF Counts
  <2>2. ASSUME NEW h \in Active, p \in SoldBy(h)', p \in SoldBy(k)' PROVE FALSE
    BY <1>4, <1>8, <1>9, <2>2 DEF Selling
  <2>. QED
    BY <1>7, <1>14, <2>1, <2>2
<1>15. \A j \in Active' : Sound(j, p)'
  BY <1>7, <1>11, <1>12
<1>. QED
  BY <1>1, <1>5, <1>13, <1>14, <1>15 DEF Counts

\* The inventory tab.
LEMMA RestockCounts ==
    ASSUME TypeInv, StockInv, NEW x \in Products, NEW seen \in Int, NEW n \in Levels,
           Restock(x, seen, n, n), UNCHANGED <<sales, memory>>, NEW p \in DOMAIN book'
    PROVE  Counts(p)'
<1>1. UNCHANGED <<cart, pay>>
  BY DEF memory
<1>2. PICK D : /\ book' = [q \in DOMAIN Without(D) |-> IF q = x THEN n ELSE book[q]]
               /\ Read(x) # seen \/ Selling(x) \/ (n < seen /\ x \in InCart) => D = {x}
  BY DEF Restock
<1>3. p \in DOMAIN book /\ p \in Products /\ p \notin D /\ book'[p] = IF p = x THEN n ELSE book[p]
  BY <1>2 DEF Without, TypeInv, BookOK
<1>4. Counts(p) /\ p \in DOMAIN shelf
  BY <1>3 DEF StockInv, Counts
<1>5. p \in DOMAIN shelf' /\ shelf'[p] = IF p = x THEN n ELSE shelf[p]
  BY <1>4 DEF Restock, Put
<1>6. CASE p # x
  BY <1>1, <1>3, <1>4, <1>5, <1>6, CountsKept
<1>7. CASE p = x
  <2>1. shelf[p] = seen /\ ~Selling(p) /\ ~(n < seen /\ p \in InCart)
    BY <1>2, <1>3, <1>4, <1>7 DEF Read
  <2>2. Active' = Active /\ ~Selling(p)' /\ \A j \in Active : SoldBy(j)' = SoldBy(j)
    BY <1>1, <2>1 DEF Active, Selling, SoldBy
  <2>3. ASSUME NEW i \in 1..Len(cart), cart[i].product = p
        PROVE  cart[i].qty <= n /\ cart[i].maxStock <= n
    <3>1. cart[i].qty <= seen /\ cart[i].maxStock <= seen
      BY <1>4, <2>1, <2>3 DEF Counts, Served
    <3>2. p \in InCart /\ cart[i].qty \in Nat /\ cart[i].maxStock \in Nat
      BY <2>3, CartLines, ConstantsAssumption DEF Stocks
    <3>. QED
      BY <2>1, <3>1, <3>2, ConstantsAssumption DEF Levels
  <2>4. Served(p)' /\ shelf'[p] = book'[p]
    BY <1>1, <1>3, <1>5, <1>7, <2>3 DEF Served
  <2>5. ASSUME NEW k \in Active PROVE Sound(k, p)'
    <3>1. Sound(k, p) /\ p \notin SoldBy(k)
      BY <1>4, <2>1 DEF Counts, Selling
    <3>. QED
      BY <1>1, <1>3, <3>1, UnsoldSound
  <2>. QED
    BY <1>5, <2>2, <2>4, <2>5 DEF Counts, Selling
<1>. QED
  BY <1>6, <1>7

LEMMA OfficeCounts ==
    ASSUME TypeInv, StockInv,
           Adjusted \/ DeleteProduct \/ \E n \in Levels : SaveProduct(n),
           NEW p \in DOMAIN book'
    PROVE  Counts(p)'
<1>1. CASE Adjusted
  <2>1. PICK a \in Counted : a = adjusting
    BY <1>1 DEF Adjusted, TypeInv, OfficeOK
  <2>2. /\ Restock(a.product, a.stock, a.to, a.to) /\ UNCHANGED <<sales, memory>>
        /\ a.product \in Products /\ a.stock \in Int /\ a.to \in Levels
    BY <1>1, <2>1, ConstantsAssumption DEF Adjusted, Counted, Levels
  <2>. QED
    BY <2>2, RestockCounts
<1>2. CASE \E n \in Levels : SaveProduct(n)
  <2>1. PICK a \in Shown, n \in Levels : a = form /\ SaveProduct(n)
    BY <1>2 DEF SaveProduct, TypeInv, OfficeOK
  <2>2. /\ Restock(a.product, a.stock, n, n) /\ UNCHANGED <<sales, memory>>
        /\ a.product \in Products /\ a.stock \in Int
    BY <2>1, ConstantsAssumption DEF SaveProduct, Shown, Levels
  <2>. QED
    BY <2>2, RestockCounts
<1>3. CASE DeleteProduct
  <2>1. PICK x : /\ x = form.product /\ shelf' = [q \in DOMAIN shelf \ {x} |-> shelf[q]]
                 /\ book' = Without({x}) /\ UNCHANGED <<sales, cart, pay>>
    BY <1>3 DEF DeleteProduct, memory
  <2>2. p \in DOMAIN book /\ p # x /\ book'[p] = book[p]
    BY <2>1 DEF Without
  <2>3. Counts(p) /\ p \in DOMAIN shelf
    BY <2>2 DEF StockInv, Counts
  <2>. QED
    BY <2>1, <2>2, <2>3, CountsKept
<1>. QED
  BY <1>1, <1>2, <1>3

LEMMA InitStock == Init => StockInv
<1>. SUFFICES ASSUME Init PROVE StockInv
  OBVIOUS
<1>1. Fresh /\ Active = {}
  BY EmptySeq DEF Init, Fresh, Active, Idle
<1>2. Len(cart) = 0
  BY EmptySeq DEF Init
<1>3. \A p \in DOMAIN book : p \in DOMAIN shelf /\ shelf[p] = book[p] /\ Served(p)
  BY <1>2 DEF Init, Served
<1>. QED
  BY <1>1, <1>3 DEF StockInv, Counts

LEMMA NextStock == TypeInv /\ StockInv /\ [Next]_vars => StockInv'
<1>. SUFFICES ASSUME TypeInv, StockInv, [Next]_vars, NEW p \in DOMAIN book'
              PROVE  Counts(p)'
  BY NextFresh DEF StockInv
<1>1. ASSUME \/ UNCHANGED vars \/ OpenCheckout \/ Dismiss
             \/ \E x \in Products : Tap(x) \/ OpenForm(x)
             \/ \E m \in Methods : ChooseMethod(m)
             \/ \E x \in Products, kind \in {"in", "out", "set"}, q \in 0..MaxStock :
                  Adjust(x, kind, q)
      PROVE  Counts(p)'
  <2>1. UNCHANGED <<sales, cart, pay, book, shelf>>
    BY <1>1 DEF vars, memory, stores, OpenCheckout, Dismiss, Tap, OpenForm, ChooseMethod, Adjust
  <2>2. Counts(p) /\ p \in DOMAIN shelf
    BY <2>1 DEF StockInv, Counts
  <2>. QED
    BY <2>1, <2>2, CountsKept
<1>. QED
  BY <1>1, AddedCounts, ChangeQtyCounts, ClearCartCounts, LeavesCounts, ReloadCounts,
     StoreDebtCounts, ReadCounts, WriteCounts, FailsCounts, PayCounts, OfficeCounts
     DEF Next, PayStep

-----------------------------------------------------------------------------
(* The theorems.                                                           *)

LEMMA Holds == Spec => [](TypeInv /\ StockInv /\ DebtInv)
<1>1. Init => TypeInv /\ StockInv /\ DebtInv
  BY InitType, InitStock, InitDebt
<1>2. TypeInv /\ StockInv /\ DebtInv /\ [Next]_vars => (TypeInv /\ StockInv /\ DebtInv)'
  BY NextTypes, NextStock, NextDebt
<1>. QED
  BY <1>1, <1>2, PTL DEF Spec

\* The stores, the cart and the payments keep their types, and a sale that is
\* being paid is stored (pos.js, db.js).
THEOREM TypesAreKept == Spec => []TypeOK
  BY Holds, TypeHolds, PTL

\* Between payments the shelf holds what was delivered less what the stored
\* sales took, for every product no one interfered with: the loop of
\* processPayment() writes back what it read while taps, payments and stock
\* counts interleave.
THEOREM StockIsRight == Spec => []StockMatchesSales
<1>1. TypeInv /\ StockInv => StockMatchesSales
  BY DEF StockMatchesSales, StockInv, Counts, Quiet, Selling
<1>. QED
  BY <1>1, Holds, PTL

\* Between payments a cart asks for no more than the shelf holds, although
\* addToCart() and changeItemQty() compare with a stock that was read earlier.
THEOREM CartsAreServed == Spec => []CartCanBeServed
<1>1. TypeInv /\ StockInv => CartCanBeServed
  <2>. SUFFICES ASSUME TypeInv, StockInv, Quiet, NEW l \in Lines(cart), l.product \in DOMAIN book
                PROVE  l.qty <= shelf[l.product]
    BY DEF CartCanBeServed
  <2>1. PICK i \in 1..Len(cart) : l = cart[i]
    BY DEF Lines
  <2>2. Served(l.product)
    BY DEF StockInv, Counts, Quiet, Selling
  <2>. QED
    BY <2>1, <2>2 DEF Served
<1>. QED
  BY <1>1, Holds, PTL

\* A sale whose payment is over is in the debts store exactly when it was made
\* on credit, unless the payment was cut short or the method was changed while
\* it ran: processPayment() asks for the method again after its loop.
THEOREM DebtsAreRight == Spec => []DebtMatchesSale
<1>1. DebtInv => DebtMatchesSale
  BY DEF DebtInv
<1>. QED
  BY <1>1, Holds, PTL


=============================================================================
