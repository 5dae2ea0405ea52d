--------------------------- MODULE Quantities_proofs ---------------------------
(***************************************************************************)
(* Proofs about the quantities: what orders do as they fill, which         *)
(* planned intent a broker order belongs to, the balancing of the two      *)
(* sides, and the profit ledger.  Each part has an invariant of its own,   *)
(* and the last section joins them for the module's specification.         *)
(***************************************************************************)
EXTENDS Quantities, Planning_proofs

-----------------------------------------------------------------------------
LEMMA SameList ==
    ASSUME NEW S, NEW a \in Seq(S), NEW T, NEW b \in Seq(T), DOMAIN a = DOMAIN b,
           \A i \in DOMAIN a : a[i] = b[i]
    PROVE  a = b
<1>1. a = [i \in DOMAIN a |-> a[i]] /\ b = [i \in DOMAIN b |-> b[i]]
  OBVIOUS
<1>2. QED
  BY <1>1

-----------------------------------------------------------------------------
(***************************************************************************)
(* What the batches that are not filled yet ask for.                       *)
(***************************************************************************)
Parts(bs, K) == [b \in DOMAIN bs |-> Amount(bs[b], K)]

Total(bs, K) == SumFunction(Parts(bs, K))

LEMMA PartsOf ==
    ASSUME NEW S, OrderLike(S), NEW bs \in Seq(Seq(S)), NEW K
    PROVE  /\ Parts(bs, K) \in Seq(Int) /\ DOMAIN Parts(bs, K) = DOMAIN bs
           /\ \A b \in DOMAIN bs : /\ bs[b] \in Seq(S)
                                   /\ Parts(bs, K)[b] = Amount(bs[b], K)
                                   /\ Parts(bs, K)[b] \in Nat
           /\ IsFiniteSet(DOMAIN bs) /\ Total(bs, K) \in Nat
<1>1. DOMAIN bs = 1 .. Len(bs) /\ Len(bs) \in Nat /\ \A b \in DOMAIN bs : bs[b] \in Seq(S)
  OBVIOUS
<1>2. \A b \in DOMAIN bs : Amount(bs[b], K) \in Nat /\ Amount(bs[b], K) \in Int
  BY <1>1, AmountsType
<1>3. Parts(bs, K) \in Seq(Int)
  BY <1>1, <1>2 DEF Parts
<1>4. /\ DOMAIN Parts(bs, K) = DOMAIN bs
      /\ \A b \in DOMAIN bs : Parts(bs, K)[b] = Amount(bs[b], K)
  BY DEF Parts
<1>5. IsFiniteSet(DOMAIN bs)
  BY <1>1, FS_Interval
<1>6. SumFunctionOnSet(Parts(bs, K), DOMAIN bs) \in Nat
  BY <1>2, <1>4, <1>5, SumNat
<1>7. QED
  BY <1>1, <1>2, <1>3, <1>4, <1>5, <1>6 DEF Total, SumFunction

LEMMA PartsType ==
    ASSUME NEW bs \in Seq(Seq(Orders)), NEW K
    PROVE  /\ Parts(bs, K) \in Seq(Int) /\ DOMAIN Parts(bs, K) = DOMAIN bs
           /\ \A b \in DOMAIN bs : /\ bs[b] \in Seq(Orders)
                                   /\ Parts(bs, K)[b] = Amount(bs[b], K)
                                   /\ Parts(bs, K)[b] \in Nat
           /\ IsFiniteSet(DOMAIN bs) /\ Total(bs, K) \in Nat
BY PartsOf, OrdersAreOrderLike

LEMMA NoAmount == \A K : Amount(<<>>, K) = 0
<1> TAKE K
<1>1. Amounts(<<>>, K) = <<>>
  BY DEF Amounts
<1>2. QED
  BY <1>1, SeqSumEmpty DEF Amount

\* Batches that are empty ask for nothing.
LEMMA NonEmptyTotal ==
    ASSUME NEW bs \in Seq(Seq(Orders)), NEW K
    PROVE  /\ NonEmpty(bs) \in Seq(Seq(Orders))
           /\ Total(NonEmpty(bs), K) = Total(bs, K)
           /\ \A b \in DOMAIN NonEmpty(bs) : \E c \in DOMAIN bs : NonEmpty(bs)[b] = bs[c]
<1> DEFINE P == {b \in DOMAIN bs : bs[b] # <<>>}
           ne == Entries(bs, P)
           v == Parts(ne, K)
           w == Parts(bs, K)
<1>1. /\ ne \in Seq(Seq(Orders)) /\ P \cap DOMAIN bs = P
      /\ \A b \in DOMAIN ne : \E c \in P : ne[b] = bs[c]
  <2>1. P \cap DOMAIN bs = P
    OBVIOUS
  <2> HIDE DEF P
  <2>2. QED
    BY <2>1, EntriesOf
<1>2. /\ DOMAIN w = DOMAIN bs /\ IsFiniteSet(DOMAIN bs)
      /\ \A b \in DOMAIN bs : w[b] = Amount(bs[b], K) /\ w[b] \in Int
  BY PartsType
<1>3. DOMAIN v = DOMAIN ne /\ \A b \in DOMAIN v : v[b] = Amount(ne[b], K)
  BY DEF Parts
<1>4. \A b \in DOMAIN bs \ P : w[b] = 0
  BY <1>2, NoAmount
<1>5. P \in SUBSET DOMAIN bs
  OBVIOUS
<1> HIDE DEF v, w, P
<1>6. SumFunction(v) = SumFunctionOnSet(w, P \cap DOMAIN bs)
  <2>1. \A i \in P \cap DOMAIN bs : w[i] \in Int
    BY <1>2
  <2>2. \A k \in DOMAIN v : \A i \in P \cap DOMAIN bs : ne[k] = bs[i] => v[k] = w[i]
    BY <1>2, <1>3
  <2>3. QED
    BY <1>3, <2>1, <2>2, EntriesSum
<1>7. SumFunctionOnSet(w, DOMAIN bs) = SumFunctionOnSet(w, P)
  BY <1>2, <1>4, <1>5, SumRestrict
<1>8. Total(ne, K) = Total(bs, K)
  BY <1>1, <1>2, <1>6, <1>7 DEF Total, SumFunction, v, w
<1>9. NonEmpty(bs) = ne
  BY DEF NonEmpty, P
<1> HIDE DEF ne
<1>10. QED
  BY <1>1, <1>5, <1>8, <1>9

LEMMA FirstNonEmpty ==
    ASSUME NEW bs \in Seq(Seq(Orders)), bs # <<>>, bs[1] # <<>>
    PROVE  NonEmpty(bs) # <<>> /\ NonEmpty(bs)[1] = bs[1]
<1> DEFINE P == {b \in DOMAIN bs : bs[b] # <<>>}
           ne == Entries(bs, P)
<1>1. PICK m : Selection(Seq(Orders), bs, P, Len(bs), ne, m)
  BY EntriesSelection
<1>2. 1 \in P \cap (1 .. Len(bs))
  OBVIOUS
<1> HIDE DEF P, ne
<1>3. ne \in Seq(Seq(Orders)) /\ \A k \in DOMAIN ne : m[k] \in Nat /\ m[k] >= 1
  BY <1>1 DEF Selection
<1>4. PICK k \in DOMAIN ne : m[k] = 1
  BY <1>1, <1>2 DEF Selection
<1>5. 1 \in DOMAIN ne /\ k \in Nat /\ k >= 1
  BY <1>3
<1>6. k = 1
  <2>1. ASSUME 1 < k PROVE FALSE
    <3>1. m[1] < m[k]
      BY <1>1, <1>5, <2>1 DEF Selection
    <3>2. QED
      BY <1>3, <1>4, <1>5, <3>1
  <2>2. QED
    BY <1>5, <2>1
<1>7. ne[1] = bs[1]
  BY <1>1, <1>4, <1>6 DEF Selection
<1>8. QED
  BY <1>3, <1>5, <1>7 DEF NonEmpty, ne, P

LEMMA TotalOfTail ==
    ASSUME NEW S, OrderLike(S), NEW bs \in Seq(Seq(S)), bs # <<>>, NEW K
    PROVE  Total(bs, K) = Amount(bs[1], K) + Total(Tail(bs), K)
<1> DEFINE v == Parts(bs, K)
<1>1. v \in Seq(Int) /\ DOMAIN v = DOMAIN bs /\ \A b \in DOMAIN bs : v[b] = Amount(bs[b], K)
  BY PartsOf
<1>2. v # <<>> /\ Len(v) = Len(bs) /\ Head(v) = Amount(bs[1], K)
  <2> HIDE DEF v
  <2>1. QED
    BY <1>1
<1>3. Tail(v) = Parts(Tail(bs), K)
  <2>1. /\ Tail(bs) \in Seq(Seq(S)) /\ DOMAIN Tail(bs) = 1 .. Len(bs) - 1
        /\ \A b \in 1 .. Len(bs) - 1 : Tail(bs)[b] = bs[b + 1] /\ b + 1 \in DOMAIN bs
    OBVIOUS
  <2> HIDE DEF v
  <2>2. /\ Tail(v) \in Seq(Int) /\ DOMAIN Tail(v) = 1 .. Len(bs) - 1
        /\ \A b \in 1 .. Len(bs) - 1 : Tail(v)[b] = v[b + 1]
    BY <1>1, <1>2
  <2>3. /\ Parts(Tail(bs), K) \in Seq(Int) /\ DOMAIN Parts(Tail(bs), K) = 1 .. Len(bs) - 1
        /\ \A b \in 1 .. Len(bs) - 1 : Parts(Tail(bs), K)[b] = Amount(Tail(bs)[b], K)
    <3>1. PICK t \in Seq(Seq(S)) : t = Tail(bs) /\ DOMAIN t = 1 .. Len(bs) - 1
      BY <2>1
    <3>2. /\ Parts(t, K) \in Seq(Int) /\ DOMAIN Parts(t, K) = DOMAIN t
          /\ \A b \in DOMAIN t : Parts(t, K)[b] = Amount(t[b], K)
      BY PartsOf
    <3>3. QED
      BY <3>1, <3>2
  <2>4. \A b \in 1 .. Len(bs) - 1 : Tail(v)[b] = Parts(Tail(bs), K)[b]
    BY <1>1, <2>1, <2>2, <2>3
  <2>5. QED
    BY <2>2, <2>3, <2>4, SameList
<1>4. SumFunction(v) = Head(v) + SumFunction(Tail(v))
  BY <1>1, <1>2, SeqSumTail
<1>5. QED
  BY <1>2, <1>3, <1>4 DEF Total

LEMMA TotalTail ==
    ASSUME NEW bs \in Seq(Seq(Orders)), bs # <<>>, NEW K
    PROVE  Total(bs, K) = Amount(bs[1], K) + Total(Tail(bs), K)
BY TotalOfTail, OrdersAreOrderLike

\* The batches after an order of the first has filled.
WithoutOrder(orders, i) == Entries(orders, DOMAIN orders \ {i})

AfterFill(bs, i) == NonEmpty(<<WithoutOrder(bs[1], i)>> \o Tail(bs))

LEMMA FillTotal ==
    ASSUME NEW bs \in Seq(Seq(Orders)), bs # <<>>, NEW i \in DOMAIN bs[1], NEW K
    PROVE  /\ AfterFill(bs, i) \in Seq(Seq(Orders))
           /\ Total(AfterFill(bs, i), K) = Total(bs, K) - AmountOf(bs[1][i], K)
           /\ AmountOf(bs[1][i], K) <= Total(bs, K)
           /\ \A b \in DOMAIN AfterFill(bs, i) : \A k \in DOMAIN AfterFill(bs, i)[b] :
                 \E c \in DOMAIN bs : \E l \in DOMAIN bs[c] :
                     AfterFill(bs, i)[b][k] = bs[c][l]
           /\ Amount(WithoutOrder(bs[1], i), K) = Amount(bs[1], K) - AmountOf(bs[1][i], K)
           /\ WithoutOrder(bs[1], i) # <<>> =>
                 AfterFill(bs, i) # <<>> /\ AfterFill(bs, i)[1] = WithoutOrder(bs[1], i)
<1> DEFINE first == bs[1]
           D == DOMAIN first
           P == D \ {i}
           rest == Entries(first, P)
           left == <<rest>> \o Tail(bs)
           w == Amounts(first, K)
<1>1. first \in Seq(Orders) /\ Tail(bs) \in Seq(Seq(Orders)) /\ 1 \in DOMAIN bs
  OBVIOUS
<1>2. /\ DOMAIN w = D /\ IsFiniteSet(D) /\ w[i] = AmountOf(first[i], K)
      /\ \A k \in D : w[k] \in Int /\ w[k] \in Nat
  BY <1>1, AmountsType, OrdersAreOrderLike
<1>3. /\ rest \in Seq(Orders)
      /\ \A k \in DOMAIN rest : \E l \in D : rest[k] = first[l]
  <2> HIDE DEF P
  <2>1. /\ rest \in Seq(Orders)
        /\ \A k \in DOMAIN rest : \E l \in P \cap D : rest[k] = first[l]
    BY <1>1, EntriesOf
  <2>2. QED
    BY <2>1
<1>4. Amount(rest, K) = Amount(first, K) - AmountOf(first[i], K)
      /\ AmountOf(first[i], K) <= Amount(first, K)
  <2>1. Amount(rest, K) = SumFunctionOnSet(w, P \cap D) /\ P \cap D = D \ {i}
    <3> HIDE DEF P
    <3>1. Amount(rest, K) = SumFunctionOnSet(w, P \cap D)
      BY <1>1, AmountEntries, OrdersAreOrderLike
    <3>2. QED
      BY <3>1 DEF P
  <2>2. Amount(first, K) = SumFunctionOnSet(w, D)
    BY <1>2 DEF Amount, SumFunction
  <2> HIDE DEF w, D
  <2>3. SumFunctionOnSet(w, D) = w[i] + SumFunctionOnSet(w, D \ {i})
    BY <1>2, SumRemove, SMTT(30) DEF D
  <2>4. SumFunctionOnSet(w, D \ {i}) \in Int
    BY <1>2, FS_Subset, SumInt
  <2>5. w[i] <= SumFunctionOnSet(w, D)
    BY <1>2, SumNat DEF D
  <2>6. w[i] \in Int
    BY <1>2 DEF D
  <2>7. Amount(rest, K) = SumFunctionOnSet(w, D \ {i}) /\ w[i] = AmountOf(first[i], K)
    BY <1>2, <2>1
  <2> HIDE DEF rest, first
  <2>8. QED
    BY <2>2, <2>3, <2>4, <2>5, <2>6, <2>7
<1> HIDE DEF rest, w
<1>5. /\ left \in Seq(Seq(Orders)) /\ left # <<>> /\ left[1] = rest /\ Tail(left) = Tail(bs)
      /\ \A c \in DOMAIN left : left[c] = rest \/ \E d \in DOMAIN bs : left[c] = bs[d]
  <2> DEFINE T == Tail(bs)
  <2>1. /\ DOMAIN T = 1 .. Len(T) /\ Len(T) \in Nat /\ T \in Seq(Seq(Orders))
        /\ \A c \in DOMAIN T : T[c] = bs[c + 1] /\ c + 1 \in DOMAIN bs
    BY <1>1
  <2> HIDE DEF T
  <2>2. /\ left = <<rest>> \o T
    BY DEF T
  <2> HIDE DEF left
  <2>3. /\ left \in Seq(Seq(Orders)) /\ Len(left) = 1 + Len(T) /\ left[1] = rest
        /\ DOMAIN left = 1 .. Len(left)
        /\ \A c \in 2 .. Len(left) : left[c] = T[c - 1] /\ c - 1 \in DOMAIN T
    BY <1>3, <2>1, <2>2
  <2>4. left # <<>> /\ Tail(left) = T
    <3>1. left # <<>> /\ Tail(left) \in Seq(Seq(Orders))
          /\ DOMAIN Tail(left) = 1 .. Len(left) - 1
          /\ \A c \in 1 .. Len(left) - 1 : Tail(left)[c] = left[c + 1]
      BY <2>1, <2>3
    <3>2. DOMAIN Tail(left) = DOMAIN T
      BY <2>1, <2>3, <3>1
    <3>3. ASSUME NEW c \in DOMAIN T PROVE Tail(left)[c] = T[c]
      <4>1. c \in 1 .. Len(left) - 1 /\ c + 1 \in 2 .. Len(left) /\ (c + 1) - 1 = c
        <5>1. c \in 1 .. Len(T) /\ Len(T) \in Nat /\ Len(left) = 1 + Len(T)
          BY <2>1, <2>3
        <5>2. QED
          BY <5>1
      <4>2. QED
        BY <2>3, <3>1, <4>1
    <3>4. QED
      BY <2>1, <3>1, <3>2, <3>3, SameList
  <2>5. ASSUME NEW c \in DOMAIN left, c # 1 PROVE \E d \in DOMAIN bs : left[c] = bs[d]
    <3>1. c \in 2 .. Len(left)
      BY <2>1, <2>3, <2>5
    <3>2. left[c] = T[c - 1] /\ c - 1 \in DOMAIN T
      BY <2>3, <3>1
    <3>3. QED
      BY <2>1, <3>2
  <2>6. QED
    BY <2>3, <2>4, <2>5 DEF T
<1> HIDE DEF left
<1>6. Total(left, K) = Amount(rest, K) + Total(Tail(bs), K)
  BY <1>5, TotalTail
<1>7. Total(bs, K) = Amount(first, K) + Total(Tail(bs), K)
  BY TotalTail
<1>8. /\ Amount(first, K) \in Nat /\ Total(Tail(bs), K) \in Nat
      /\ AmountOf(first[i], K) \in Nat
  BY <1>1, <1>2, AmountsType, OrdersAreOrderLike, PartsType
<1>9. Total(left, K) = Total(bs, K) - AmountOf(first[i], K)
      /\ AmountOf(first[i], K) <= Total(bs, K)
  BY <1>4, <1>6, <1>7, <1>8
<1>10. /\ NonEmpty(left) \in Seq(Seq(Orders)) /\ Total(NonEmpty(left), K) = Total(left, K)
       /\ \A b \in DOMAIN NonEmpty(left) : \E c \in DOMAIN left : NonEmpty(left)[b] = left[c]
  BY <1>5, NonEmptyTotal
<1>11. NonEmpty(left) = AfterFill(bs, i) /\ rest = WithoutOrder(bs[1], i)
  BY DEF AfterFill, WithoutOrder, left, rest
<1>12. ASSUME NEW b \in DOMAIN AfterFill(bs, i), NEW k \in DOMAIN AfterFill(bs, i)[b]
       PROVE  \E c \in DOMAIN bs : \E l \in DOMAIN bs[c] : AfterFill(bs, i)[b][k] = bs[c][l]
  <2>1. PICK c \in DOMAIN left : AfterFill(bs, i)[b] = left[c]
    BY <1>10, <1>11
  <2>2. CASE left[c] = rest
    <3>1. PICK l \in D : rest[k] = first[l]
      BY <1>3, <1>12, <2>1, <2>2
    <3>2. QED
      BY <1>1, <2>1, <2>2, <3>1
  <2>3. CASE left[c] # rest
    BY <1>5, <1>12, <2>1, <2>3
  <2>4. QED
    BY <2>2, <2>3
<1>13. rest # <<>> => NonEmpty(left) # <<>> /\ NonEmpty(left)[1] = rest
  BY <1>5, FirstNonEmpty
<1>14. QED
  BY <1>4, <1>9, <1>10, <1>11, <1>12, <1>13

-----------------------------------------------------------------------------
(***************************************************************************)
(* Whole lots.                                                             *)
(***************************************************************************)
LEMMA Division ==
    ASSUME NEW q \in Nat, NEW d \in Nat \ {0}
    PROVE  q \div d \in Nat /\ (q \div d) * d <= q /\ q < (q \div d) * d + d
OBVIOUS

\* n is k lots for some k.
LEMMA WholeLots ==
    ASSUME NEW n \in Int, NEW d \in Nat \ {0}
    PROVE  n % d = 0 <=> \E k \in Int : n = k * d
<1>1. ASSUME n % d = 0 PROVE n = (n \div d) * d
  BY <1>1
<1>2. n \div d \in Int
  OBVIOUS
<1>3. ASSUME NEW k \in Int PROVE (k * d) % d = 0
  OBVIOUS
<1>4. QED
  BY <1>1, <1>2, <1>3

LEMMA WholeDifference ==
    ASSUME NEW m \in Int, NEW n \in Int, NEW d \in Nat \ {0}, m % d = 0, n % d = 0
    PROVE  (m - n) % d = 0 /\ (-m) % d = 0
<1>1. PICK j \in Int, k \in Int : m = j * d /\ n = k * d
  BY WholeLots
<1>2. m - n = (j - k) * d /\ -m = (-j) * d /\ j - k \in Int /\ -j \in Int
  BY <1>1
<1>3. QED
  BY <1>2, WholeLots

Whole(orders) == \A i \in DOMAIN orders : orders[i].qty % Lot[orders[i].ticker] = 0

LEMMA FirstHalfWhole ==
    ASSUME NEW o \in Orders
    PROVE  FirstHalf(o) \in Int /\ FirstHalf(o) % Lot[o.ticker] = 0
<1>1. o.qty \in Nat /\ Lot[o.ticker] \in Nat \ {0}
  BY PlanningAssumption DEF Orders
<1>2. PICK h \in Nat : h = o.qty \div 2
  BY <1>1, Division
<1>3. PICK k \in Nat : k = h \div Lot[o.ticker]
  BY <1>1, <1>2, Division
<1>4. FirstHalf(o) = k * Lot[o.ticker]
  BY <1>2, <1>3 DEF FirstHalf
<1>5. QED
  BY <1>1, <1>4, WholeLots, SMTT(30)

\* Both parts of a split order are whole lots when the order is.
LEMMA PartsWhole ==
    ASSUME NEW orders \in Seq(Orders), Whole(orders)
    PROVE  Whole(Immediate(orders)) /\ Whole(Delayed(orders))
<1>1. \A i \in DOMAIN orders : orders[i] \in Orders
  OBVIOUS
<1>2. ASSUME NEW o \in Orders, NEW n \in Int
      PROVE  [o EXCEPT !.qty = n].ticker = o.ticker /\ [o EXCEPT !.qty = n].qty = n
  BY DEF Orders
<1>3. ASSUME NEW i \in DOMAIN Immediate(orders)
      PROVE  Immediate(orders)[i].qty % Lot[Immediate(orders)[i].ticker] = 0
  <2>1. i \in DOMAIN orders /\ orders[i] \in Orders
    BY <1>1, <1>3, ImmediateOf, OrdersAreOrderLike
  <2>2. CASE IsSplit(orders[i])
    <3>1. Immediate(orders)[i] = [orders[i] EXCEPT !.qty = FirstHalf(orders[i])]
      BY <2>1, <2>2, ImmediateOf, OrdersAreOrderLike
    <3>2. QED
      BY <1>2, <2>1, <3>1, FirstHalfWhole
  <2>3. CASE ~IsSplit(orders[i])
    <3>1. Immediate(orders)[i] = orders[i]
      BY <2>1, <2>3, ImmediateOf, OrdersAreOrderLike
    <3>2. QED
      BY <2>1, <3>1 DEF Whole
  <2>4. QED
    BY <2>2, <2>3
<1>4. ASSUME NEW k \in DOMAIN Delayed(orders)
      PROVE  Delayed(orders)[k].qty % Lot[Delayed(orders)[k].ticker] = 0
  <2>1. PICK i \in DOMAIN orders : Delayed(orders)[k] = SecondHalf(orders[i])
    BY <1>4, DelayedOf, OrdersAreOrderLike
  <2>2. orders[i] \in Orders /\ orders[i].qty % Lot[orders[i].ticker] = 0
    BY <1>1 DEF Whole
  <2>3. orders[i].qty \in Int /\ Lot[orders[i].ticker] \in Nat \ {0}
    BY <2>2, PlanningAssumption DEF Orders
  <2>4. FirstHalf(orders[i]) \in Int /\ FirstHalf(orders[i]) % Lot[orders[i].ticker] = 0
    BY <2>2, FirstHalfWhole
  <2>5. (orders[i].qty - FirstHalf(orders[i])) % Lot[orders[i].ticker] = 0
    BY <2>2, <2>3, <2>4, WholeDifference
  <2>6. orders[i].qty - FirstHalf(orders[i]) \in Int
    BY <2>3, <2>4
  <2>7. QED
    BY <1>2, <2>1, <2>2, <2>5, <2>6 DEF SecondHalf
<1>5. QED
  BY <1>3, <1>4 DEF Whole

-----------------------------------------------------------------------------
(***************************************************************************)
(* The share of a position that the close leaves.                          *)
(***************************************************************************)
NearShare(h, q, a, lot) ==
    /\ h \in Nat /\ h <= q
    /\ 200 * h - 2 * a * q <= 100 * lot
    /\ 2 * a * q - 200 * h <= 100 * lot
    /\ a = 0 => h = 0
    /\ a = 100 => h = q

LEMMA HeldShare ==
    ASSUME NEW k \in Nat, NEW lot \in Nat \ {0}, NEW a \in 0 .. 100,
           NEW q, q = k * lot, NEW h, h = q - CloseQuantity(q, a, lot)
    PROVE  NearShare(h, q, a, lot)
<1>1. q \in Nat
  OBVIOUS
<1>2. PICK aq \in Nat : aq = a * q
  BY <1>1
<1>3. 2 * q * a = 2 * aq /\ 2 * a * q = 2 * aq
  BY <1>1, <1>2
<1> DEFINE n == 2 * aq + 100 * lot
           d == 200 * lot
<1>4. n \in Nat /\ d \in Nat \ {0}
  OBVIOUS
<1>5. PICK e \in Nat : /\ e = n \div d /\ e * d <= n /\ n < e * d + d
  <2> HIDE DEF n, d
  <2>1. QED
    BY <1>4, Division
<1>6. PICK el \in Nat : el = e * lot
  OBVIOUS
<1>7. e * d = 200 * el
  BY <1>6
<1>8. 200 * el <= 2 * aq + 100 * lot /\ 2 * aq + 100 * lot < 200 * el + 200 * lot
  BY <1>5, <1>7
<1>9. HoldTarget(q, a, lot) = Least(q, el)
  BY <1>3, <1>5, <1>6 DEF HoldTarget
<1> DEFINE m == Least(q, el)
<1>10. m \in Nat /\ m <= q /\ (m = q \/ m = el) /\ (m = q => q <= el)
  BY <1>1, <1>6 DEF Least
<1>11. ((q - m) \div lot) * lot = q - m
  <2>1. (q - m) % lot = 0
    <3>1. CASE m = q
      <4>1. q - m = 0 * lot
        BY <1>1, <3>1
      <4>2. q - m \in Int /\ 0 \in Int
        BY <1>1, <1>10
      <4> HIDE DEF m
      <4>3. QED
        BY <4>1, <4>2, WholeLots
    <3>2. CASE m = el
      <4>1. q - m = (k - e) * lot /\ k - e \in Int /\ q - m \in Int
        BY <1>1, <1>6, <3>2
      <4> HIDE DEF m
      <4>2. QED
        BY <4>1, WholeLots
    <3>3. QED
      BY <1>10, <3>1, <3>2
  <2> HIDE DEF m
  <2>2. PICK x \in Int : x = q - m
    BY <1>1, <1>10
  <2>3. (x \div lot) * lot = x
    BY <2>1, <2>2
  <2>4. QED
    BY <2>2, <2>3
<1>12. CloseQuantity(q, a, lot) = q - m
  <2>1. CloseQuantity(q, a, lot) = Greatest(0, Least(q - m, q))
    BY <1>9, <1>11 DEF CloseQuantity
  <2> HIDE DEF m
  <2>2. QED
    BY <1>1, <1>10, <2>1 DEF Greatest, Least
<1> HIDE DEF m
<1>13. h = m
  BY <1>1, <1>10, <1>12
<1>14. aq <= 100 * q
  <2>1. (100 - a) * q >= 0 /\ (100 - a) * q = 100 * q - a * q
    BY <1>1
  <2>2. QED
    BY <1>1, <1>2, <2>1
<1>15. /\ 200 * m - 2 * aq <= 100 * lot
       /\ 2 * aq - 200 * m <= 100 * lot
  <2>1. CASE m = el
    BY <1>8, <2>1
  <2>2. CASE m = q
    BY <1>1, <1>8, <1>10, <1>14, <2>2
  <2>3. QED
    BY <1>10, <2>1, <2>2
<1>16. a = 0 => m = 0
  <2> HAVE a = 0
  <2>1. aq = 0
    BY <1>1, <1>2
  <2>2. 200 * el <= 100 * lot
    BY <1>8, <2>1
  <2>3. e = 0
    <3>1. ASSUME e >= 1 PROVE FALSE
      <4>1. (e - 1) * lot >= 0 /\ (e - 1) * lot = el - lot
        BY <1>6, <3>1
      <4>2. QED
        BY <2>2, <4>1
    <3>2. QED
      BY <3>1
  <2>4. el = 0
    BY <1>6, <2>3
  <2>5. QED
    BY <1>1, <1>10, <2>4
<1>17. a = 100 => m = q
  <2> HAVE a = 100
  <2>1. aq = 100 * q
    BY <1>1, <1>2
  <2>2. 200 * q + 100 * lot < 200 * el + 200 * lot
    BY <1>1, <1>8, <2>1
  <2>3. k <= e
    <3>1. ASSUME e + 1 <= k PROVE FALSE
      <4>1. (k - (e + 1)) * lot >= 0 /\ (k - (e + 1)) * lot = q - (el + lot)
        BY <1>6, <3>1
      <4>2. QED
        BY <1>1, <2>2, <4>1
    <3>2. QED
      BY <3>1
  <2>4. (e - k) * lot >= 0 /\ (e - k) * lot = el - q
    BY <1>6, <2>3
  <2>5. q <= el
    BY <1>1, <2>4
  <2>6. QED
    BY <1>1, <1>10, <2>5
<1>18. 2 * a * q = 2 * aq
  BY <1>3
<1>19. QED
  BY <1>10, <1>13, <1>15, <1>16, <1>17, <1>18 DEF NearShare

-----------------------------------------------------------------------------
(***************************************************************************)
(* Planned fills: the invariant.  What is still to be filled is what       *)
(* separates the position from where the plan leads, all on one side, and  *)
(* consists of whole lots.                                                 *)
(***************************************************************************)
Bought(bs, t) == Total(bs, AskOf(t, "BUY"))
Sold(bs, t) == Total(bs, AskOf(t, "SELL"))

\* What the close leaves of a position.
Kept(c, a, lot) ==
    IF c > 0 THEN c - CloseQuantity(c, a, lot)
    ELSE IF c < 0 THEN c + CloseQuantity(-c, a, lot) ELSE 0

Goal(t) ==
    IF job = "decision" THEN target[t] ELSE Kept(current[t], alpha, Lot[t])

FillsTyped ==
    /\ job \in {"decision", "close"} /\ alpha \in 0 .. 100
    /\ current \in [TickerSet -> Int] /\ target \in [TickerSet -> Int]
    /\ position \in [TickerSet -> Int]
    /\ batches \in Seq(Seq(Orders))

LeadsToGoal ==
    \A t \in TickerSet : position[t] + Bought(batches, t) - Sold(batches, t) = Goal(t)

OneWay ==
    job = "decision" => \A t \in TickerSet :
        IF target[t] >= current[t]
        THEN Sold(batches, t) = 0 /\ Bought(batches, t) <= target[t] - current[t]
        ELSE Bought(batches, t) = 0 /\ Sold(batches, t) <= current[t] - target[t]

\* The first batch out is what separates every position from what is retained.
Repaying ==
    /\ batches # <<>>
    /\ \A t \in TickerSet :
          position[t] + Ask(batches[1], t, "BUY") - Ask(batches[1], t, "SELL")
              = Retained(current[t], target[t])

Repaid ==
    \A t \in TickerSet : OnTheWay(position[t], Retained(current[t], target[t]), target[t])

RepaysFirst == job = "decision" => Repaying \/ Repaid

FillsInv == FillsTyped /\ LeadsToGoal /\ OneWay /\ OrdersAreWholeLots /\ RepaysFirst

LEMMA TotalOfNone == \A K : Total(<<>>, K) = 0
<1> TAKE K
<1>1. Parts(<<>>, K) = <<>>
  BY DEF Parts
<1>2. QED
  BY <1>1, SeqSumEmpty DEF Total

LEMMA TotalOfTwo ==
    ASSUME NEW a \in Seq(Orders), NEW b \in Seq(Orders), NEW K
    PROVE  /\ NonEmpty(<<a, b>>) \in Seq(Seq(Orders))
           /\ Total(NonEmpty(<<a, b>>), K) = Amount(a, K) + Amount(b, K)
<1>1. /\ <<b>> \in Seq(Seq(Orders)) /\ <<a, b>> \in Seq(Seq(Orders))
      /\ Tail(<<b>>) = <<>> /\ Tail(<<a, b>>) = <<b>>
      /\ <<b>> # <<>> /\ <<a, b>> # <<>>
      /\ <<a, b>>[1] = a /\ <<b>>[1] = b
  OBVIOUS
<1>2. /\ Total(<<a, b>>, K) = Amount(a, K) + Total(<<b>>, K)
      /\ Total(<<b>>, K) = Amount(b, K) + Total(<<>>, K)
  BY <1>1, TotalTail
<1>3. Amount(a, K) \in Nat /\ Amount(b, K) \in Nat
  BY AmountsType, OrdersAreOrderLike
<1>4. /\ NonEmpty(<<a, b>>) \in Seq(Seq(Orders))
      /\ Total(NonEmpty(<<a, b>>), K) = Total(<<a, b>>, K)
  <2>1. <<a, b>> \in Seq(Seq(Orders))
    BY <1>1
  <2>2. QED
    BY <2>1, NonEmptyTotal
<1>5. Total(<<>>, K) = 0
  BY TotalOfNone
<1>6. QED
  BY <1>2, <1>3, <1>4, <1>5

LEMMA TotalOfThree ==
    ASSUME NEW a \in Seq(Orders), NEW b \in Seq(Orders), NEW c \in Seq(Orders), NEW K
    PROVE  /\ NonEmpty(<<a, b, c>>) \in Seq(Seq(Orders))
           /\ Total(NonEmpty(<<a, b, c>>), K) = Amount(a, K) + Amount(b, K) + Amount(c, K)
<1>1. /\ <<c>> \in Seq(Seq(Orders)) /\ <<b, c>> \in Seq(Seq(Orders))
      /\ <<a, b, c>> \in Seq(Seq(Orders))
      /\ Tail(<<c>>) = <<>> /\ Tail(<<b, c>>) = <<c>> /\ Tail(<<a, b, c>>) = <<b, c>>
      /\ <<c>> # <<>> /\ <<b, c>> # <<>> /\ <<a, b, c>> # <<>>
      /\ <<a, b, c>>[1] = a /\ <<b, c>>[1] = b /\ <<c>>[1] = c
  OBVIOUS
<1>2. /\ Total(<<a, b, c>>, K) = Amount(a, K) + Total(<<b, c>>, K)
      /\ Total(<<b, c>>, K) = Amount(b, K) + Total(<<c>>, K)
      /\ Total(<<c>>, K) = Amount(c, K) + Total(<<>>, K)
  BY <1>1, TotalTail
<1>3. Amount(a, K) \in Nat /\ Amount(b, K) \in Nat /\ Amount(c, K) \in Nat
  BY AmountsType, OrdersAreOrderLike
<1>4. /\ NonEmpty(<<a, b, c>>) \in Seq(Seq(Orders))
      /\ Total(NonEmpty(<<a, b, c>>), K) = Total(<<a, b, c>>, K)
  <2>1. <<a, b, c>> \in Seq(Seq(Orders))
    BY <1>1
  <2>2. QED
    BY <2>1, NonEmptyTotal
<1>5. Total(<<>>, K) = 0
  BY TotalOfNone
<1>6. QED
  BY <1>2, <1>3, <1>4, <1>5

LEMMA ProductSign ==
    ASSUME NEW d \in Int, NEW y \in Int
    PROVE  d * y < 0 <=> (d < 0 /\ y > 0) \/ (d > 0 /\ y < 0)
<1>1. ASSUME NEW m \in Nat, NEW n \in Nat
      PROVE  /\ m * n \in Nat /\ (m = 0 \/ n = 0 => m * n = 0)
             /\ (m > 0 /\ n > 0 => m * n > 0)
  OBVIOUS
<1>2. CASE d >= 0 /\ y >= 0
  <2>1. d * y \in Nat
    BY <1>1, <1>2
  <2>2. QED
    BY <1>2, <2>1
<1>3. CASE d < 0 /\ y < 0
  <2>1. PICK m \in Nat, n \in Nat : d = -m /\ y = -n
    <3>1. -d \in Nat /\ -y \in Nat /\ d = -(-d) /\ y = -(-y)
      BY <1>3
    <3>2. QED
      BY <3>1
  <2>2. d * y = m * n
    BY <2>1
  <2>3. m * n \in Nat
    BY <1>1
  <2>4. QED
    BY <1>3, <2>2, <2>3
<1>4. CASE d >= 0 /\ y < 0
  <2>1. PICK m \in Nat, n \in Nat : d = m /\ y = -n
    <3>1. d \in Nat /\ -y \in Nat /\ y = -(-y)
      BY <1>4
    <3>2. QED
      BY <3>1
  <2>2. PICK k \in Nat : k = m * n
    BY <1>1
  <2>3. d * y = -k
    BY <2>1, <2>2
  <2>4. /\ m = 0 \/ n = 0 => k = 0
        /\ m > 0 /\ n > 0 => k > 0
    BY <1>1, <2>2
  <2>5. QED
    BY <1>4, <2>1, <2>3, <2>4
<1>5. CASE d < 0 /\ y >= 0
  <2>1. PICK m \in Nat, n \in Nat : d = -m /\ y = n
    <3>1. -d \in Nat /\ y \in Nat /\ d = -(-d)
      BY <1>5
    <3>2. QED
      BY <3>1
  <2>2. PICK k \in Nat : k = m * n
    BY <1>1
  <2>3. d * y = -k
    BY <2>1, <2>2
  <2>4. /\ m = 0 \/ n = 0 => k = 0
        /\ m > 0 /\ n > 0 => k > 0
    BY <1>1, <2>2
  <2>5. QED
    BY <1>5, <2>1, <2>3, <2>4
<1>6. QED
  BY <1>2, <1>3, <1>4, <1>5

\* The quantities that repay and that open make up the change.
LEMMA ChangeParts ==
    ASSUME NEW tgt \in [TickerSet -> Int], NEW cur \in [TickerSet -> Int],
           NEW t \in TickerSet,
           NEW close, close = CloseQty(tgt, cur, t), NEW new, new = NewQty(tgt, cur, t),
           NEW d, d = Delta(tgt, cur, t)
    PROVE  /\ d \in Int /\ d = tgt[t] - cur[t] /\ close \in Nat /\ new \in Nat
           /\ close + new = Abs(d)
           /\ close = 0 \/ close = Abs(d) \/ close = Abs(cur[t])
           /\ cur[t] + Directed(d, close) = Retained(cur[t], tgt[t])
<1>1. d \in Int /\ close \in Nat /\ new \in Nat
  BY ChangeType
<1>2. new = Abs(d) - close
  BY DEF NewQty
<1>3. Abs(d) \in Int
  BY <1>1 DEF Abs
<1>4. close = 0 \/ close = Abs(d) \/ close = Abs(cur[t])
  BY DEF CloseQty, Least
<1>5. cur[t] + Directed(d, close) = Retained(cur[t], tgt[t])
  <2>1. PICK x \in Int, y \in Int : x = tgt[t] /\ y = cur[t]
    OBVIOUS
  <2>2. d = x - y /\ close = IF d * y < 0 THEN Least(Abs(d), Abs(y)) ELSE 0
    BY <2>1 DEF Delta, CloseQty
  <2>3. d * y < 0 <=> (d < 0 /\ y > 0) \/ (d > 0 /\ y < 0)
    BY <1>1, ProductSign
  <2>4. PICK k \in Int : k = d * y
    BY <1>1
  <2>5. /\ k < 0 <=> (d < 0 /\ y > 0) \/ (d > 0 /\ y < 0)
        /\ close = IF k < 0 THEN Least(Abs(d), Abs(y)) ELSE 0
    BY <2>2, <2>3, <2>4
  <2>6. y + Directed(d, close) = Retained(y, x)
    BY <1>1, <2>2, <2>5 DEF Directed, Retained, Least, Greatest, Abs
  <2>7. QED
    BY <2>1, <2>6
<1>6. QED
  BY <1>1, <1>2, <1>3, <1>4, <1>5 DEF Delta

LEMMA DecisionAsks ==
    ASSUME NEW tgt \in [TickerSet -> Int], NEW cur \in [TickerSet -> Int]
    PROVE  /\ CloseOrders(tgt, cur) \in Seq(Orders) /\ NewOrders(tgt, cur) \in Seq(Orders)
           /\ \A t \in TickerSet :
                 /\ Ask(CloseOrders(tgt, cur), t, "BUY") + Ask(NewOrders(tgt, cur), t, "BUY")
                        = IF tgt[t] > cur[t] THEN tgt[t] - cur[t] ELSE 0
                 /\ Ask(CloseOrders(tgt, cur), t, "SELL") + Ask(NewOrders(tgt, cur), t, "SELL")
                        = IF tgt[t] < cur[t] THEN cur[t] - tgt[t] ELSE 0
                 /\ cur[t] + Ask(CloseOrders(tgt, cur), t, "BUY")
                         - Ask(CloseOrders(tgt, cur), t, "SELL") = Retained(cur[t], tgt[t])
           /\ (\A t \in TickerSet : cur[t] % Lot[t] = 0 /\ tgt[t] % Lot[t] = 0) =>
                 Whole(CloseOrders(tgt, cur)) /\ Whole(NewOrders(tgt, cur))
<1> DEFINE change == [t \in TickerSet |-> Directed(Delta(tgt, cur, t), CloseQty(tgt, cur, t))]
           opening == [t \in TickerSet |-> Directed(Delta(tgt, cur, t), NewQty(tgt, cur, t))]
<1>1. ASSUME NEW t \in TickerSet
      PROVE  /\ change[t] = Directed(Delta(tgt, cur, t), CloseQty(tgt, cur, t))
             /\ opening[t] = Directed(Delta(tgt, cur, t), NewQty(tgt, cur, t))
  OBVIOUS
<1>2. CloseOrders(tgt, cur) = OrdersFor(change) /\ NewOrders(tgt, cur) = OrdersFor(opening)
  BY DEF CloseOrders, NewOrders
<1> HIDE DEF change, opening
<1>3. ASSUME NEW t \in TickerSet
      PROVE  /\ change[t] \in Int /\ opening[t] \in Int
             /\ (IF change[t] > 0 THEN change[t] ELSE 0) + (IF opening[t] > 0 THEN opening[t] ELSE 0)
                    = IF tgt[t] > cur[t] THEN tgt[t] - cur[t] ELSE 0
             /\ (IF change[t] < 0 THEN -change[t] ELSE 0) + (IF opening[t] < 0 THEN -opening[t] ELSE 0)
                    = IF tgt[t] < cur[t] THEN cur[t] - tgt[t] ELSE 0
             /\ cur[t] + (IF change[t] > 0 THEN change[t] ELSE 0)
                     - (IF change[t] < 0 THEN -change[t] ELSE 0) = Retained(cur[t], tgt[t])
             /\ cur[t] % Lot[t] = 0 /\ tgt[t] % Lot[t] = 0 =>
                    Abs(change[t]) % Lot[t] = 0 /\ Abs(opening[t]) % Lot[t] = 0
  <2>1. PICK d \in Int, close \in Nat, new \in Nat :
            /\ d = tgt[t] - cur[t] /\ close + new = Abs(d)
            /\ close = 0 \/ close = Abs(d) \/ close = Abs(cur[t])
            /\ change[t] = Directed(d, close) /\ opening[t] = Directed(d, new)
            /\ cur[t] + Directed(d, close) = Retained(cur[t], tgt[t])
    BY <1>1, ChangeParts
  <2>2. PICK x \in Int, y \in Int : x = tgt[t] /\ y = cur[t]
    OBVIOUS
  <2>3. PICK c \in Int, o \in Int : c = change[t] /\ o = opening[t]
    BY <2>1 DEF Directed
  <2>4. d = x - y /\ close + new = Abs(d) /\ c = Directed(d, close) /\ o = Directed(d, new)
    BY <2>1, <2>2, <2>3
  <2>5. /\ (IF c > 0 THEN c ELSE 0) + (IF o > 0 THEN o ELSE 0) = IF x > y THEN x - y ELSE 0
        /\ (IF c < 0 THEN -c ELSE 0) + (IF o < 0 THEN -o ELSE 0) = IF x < y THEN y - x ELSE 0
        /\ Abs(c) = close /\ Abs(o) = new /\ new = Abs(d) - close
    BY <2>4 DEF Directed, Abs
  <2>6. ASSUME y % Lot[t] = 0, x % Lot[t] = 0
        PROVE  close % Lot[t] = 0 /\ new % Lot[t] = 0
    <3>1. PICK l \in Nat \ {0} : l = Lot[t]
      BY PlanningAssumption
    <3>2. /\ d % l = 0 /\ (-d) % l = 0 /\ (-y) % l = 0 /\ y % l = 0
          /\ d \in Int /\ -d \in Int /\ -y \in Int
      BY <2>4, <2>6, <3>1, WholeDifference
    <3>3. Abs(d) % l = 0 /\ Abs(y) % l = 0 /\ Abs(d) \in Int /\ Abs(y) \in Int
      BY <3>2 DEF Abs
    <3>4. 0 % l = 0
      BY <3>1
    <3>5. close % l = 0
      BY <2>1, <2>2, <3>3, <3>4
    <3>6. (Abs(d) - close) % l = 0
      BY <3>1, <3>3, <3>5, WholeDifference
    <3>7. QED
      BY <2>5, <3>1, <3>5, <3>6
  <2>7. cur[t] + (IF change[t] > 0 THEN change[t] ELSE 0)
            - (IF change[t] < 0 THEN -change[t] ELSE 0) = Retained(cur[t], tgt[t])
    <3>1. PICK g : g = Retained(cur[t], tgt[t])
      OBVIOUS
    <3>2. y + c = g
      BY <2>1, <2>2, <2>3, <3>1
    <3>3. y + (IF c > 0 THEN c ELSE 0) - (IF c < 0 THEN -c ELSE 0) = y + c
      OBVIOUS
    <3>4. QED
      BY <2>2, <2>3, <3>1, <3>2, <3>3
  <2>8. QED
    BY <2>2, <2>3, <2>5, <2>6, <2>7
<1>4. /\ OrdersFor(change) \in Seq(Orders) /\ OrdersFor(opening) \in Seq(Orders)
      /\ \A t \in TickerSet : change[t] \in Int /\ opening[t] \in Int
  BY <1>3, OrdersForType
<1>5. ASSUME NEW t \in TickerSet
      PROVE  /\ Ask(OrdersFor(change), t, "BUY") = IF change[t] > 0 THEN change[t] ELSE 0
             /\ Ask(OrdersFor(opening), t, "BUY") = IF opening[t] > 0 THEN opening[t] ELSE 0
             /\ Ask(OrdersFor(change), t, "SELL") = IF change[t] < 0 THEN -change[t] ELSE 0
             /\ Ask(OrdersFor(opening), t, "SELL") = IF opening[t] < 0 THEN -opening[t] ELSE 0
  BY <1>4, OrdersForAsk
<1>6. ASSUME \A t \in TickerSet : cur[t] % Lot[t] = 0 /\ tgt[t] % Lot[t] = 0
      PROVE  Whole(OrdersFor(change)) /\ Whole(OrdersFor(opening))
  <2>1. \A t \in TickerSet : Abs(change[t]) % Lot[t] = 0 /\ Abs(opening[t]) % Lot[t] = 0
    BY <1>3, <1>6
  <2>2. \A k \in DOMAIN OrdersFor(change) :
            /\ OrdersFor(change)[k].ticker \in TickerSet
            /\ OrdersFor(change)[k].qty = Abs(change[OrdersFor(change)[k].ticker])
    BY <1>4, OrdersForEach
  <2>3. \A k \in DOMAIN OrdersFor(opening) :
            /\ OrdersFor(opening)[k].ticker \in TickerSet
            /\ OrdersFor(opening)[k].qty = Abs(opening[OrdersFor(opening)[k].ticker])
    BY <1>4, OrdersForEach
  <2>4. QED
    BY <2>1, <2>2, <2>3 DEF Whole
<1>7. QED
  BY <1>2, <1>3, <1>4, <1>5, <1>6

LEMMA CloseAsks ==
    ASSUME NEW cur \in [TickerSet -> Int], NEW a \in 0 .. 100,
           NEW closes, closes = DayCloseOrders(Positions(cur), a, a)
    PROVE  /\ closes \in Seq(Orders)
           /\ \A t \in TickerSet :
                 cur[t] + Ask(closes, t, "BUY") - Ask(closes, t, "SELL")
                     = Kept(cur[t], a, Lot[t])
           /\ (\A t \in TickerSet : cur[t] % Lot[t] = 0) => Whole(closes)
<1> DEFINE list == OrdersFor(cur)
<1>1. /\ list \in Seq(Orders) /\ OnePerTicker(list) /\ a \in Nat
      /\ closes = DayCloseOrders(list, a, a)
  <2>1. a \in Nat
    OBVIOUS
  <2>2. OrdersFor(cur) \in Seq(Orders) /\ OnePerTicker(OrdersFor(cur))
    BY OrdersForType
  <2>3. QED
    BY <2>1, <2>2 DEF Positions
<1>2. /\ \A e \in DOMAIN list : /\ list[e].ticker \in TickerSet /\ cur[list[e].ticker] # 0
                                /\ list[e].side = SideOf(cur[list[e].ticker])
                                /\ list[e].qty = Abs(cur[list[e].ticker])
      /\ \A t \in TickerSet : cur[t] # 0 => \E e \in DOMAIN list : list[e].ticker = t
  BY OrdersForEach
<1> HIDE DEF list
<1>3. closes \in Seq(Orders)
  BY <1>1, DayCloseOrdersType
<1>4. ASSUME NEW t \in TickerSet
      PROVE  cur[t] + Ask(closes, t, "BUY") - Ask(closes, t, "SELL") = Kept(cur[t], a, Lot[t])
  <2>1. PICK c \in Int : c = cur[t]
    OBVIOUS
  <2>2. CASE c = 0
    <3>1. \A e \in DOMAIN list : list[e].ticker # t
      BY <1>2, <2>1, <2>2
    <3>2. Ask(closes, t, "BUY") = 0 /\ Ask(closes, t, "SELL") = 0
      BY <1>1, <3>1, DayCloseAsk DEF Sides
    <3>3. QED
      BY <2>1, <2>2, <3>2 DEF Kept
  <2>3. CASE c # 0
    <3>1. PICK e \in DOMAIN list : list[e].ticker = t
      BY <1>2, <2>1, <2>3
    <3>2. list[e].side = SideOf(c) /\ list[e].qty = Abs(c)
      BY <1>2, <2>1, <3>1
    <3>3. /\ Ask(closes, t, "BUY") = IF list[e].side = "BUY" THEN 0
                                     ELSE CloseQuantity(list[e].qty, a, Lot[t])
          /\ Ask(closes, t, "SELL") = IF list[e].side = "SELL" THEN 0
                                      ELSE CloseQuantity(list[e].qty, a, Lot[t])
      BY <1>1, <3>1, DayCloseAsk DEF Sides
    <3>4. CloseQuantity(Abs(c), a, Lot[t]) \in Nat
      <4>1. Abs(c) \in Nat /\ Lot[t] \in Nat \ {0}
        BY PlanningAssumption DEF Abs
      <4>2. QED
        BY <1>1, <4>1, CloseQuantityType
    <3>5. CASE c > 0
      <4>1. SideOf(c) = "BUY" /\ Abs(c) = c
        BY <3>5 DEF SideOf, Abs
      <4>2. Kept(c, a, Lot[t]) = c - CloseQuantity(c, a, Lot[t])
        BY <3>5 DEF Kept
      <4>3. QED
        BY <2>1, <3>2, <3>3, <3>4, <4>1, <4>2
    <3>6. CASE c < 0
      <4>1. SideOf(c) = "SELL" /\ Abs(c) = -c
        BY <3>6 DEF SideOf, Abs
      <4>2. Kept(c, a, Lot[t]) = c + CloseQuantity(-c, a, Lot[t])
        BY <3>6 DEF Kept
      <4>3. QED
        BY <2>1, <3>2, <3>3, <3>4, <4>1, <4>2
    <3>7. QED
      BY <2>3, <3>5, <3>6
  <2>4. QED
    BY <2>2, <2>3
<1>5. ASSUME \A t \in TickerSet : cur[t] % Lot[t] = 0 PROVE Whole(closes)
  <2>1. ASSUME NEW k \in DOMAIN closes PROVE closes[k].qty % Lot[closes[k].ticker] = 0
    <3>1. PICK e \in DOMAIN list : closes[k] = CloseOf(list[e], a)
      BY <1>1, <2>1, DayCloseEach
    <3>2. PICK t \in TickerSet : t = list[e].ticker
      BY <1>2
    <3>3. PICK q \in Nat, l \in Nat \ {0} : q = Abs(cur[t]) /\ l = Lot[t]
      BY PlanningAssumption DEF Abs
    <3>4. closes[k].ticker = t /\ closes[k].qty = CloseQuantity(q, a, l)
      BY <1>2, <3>1, <3>2, <3>3 DEF CloseOf, Order
    <3>5. PICK h \in Int : h = HoldTarget(q, a, l)
      <4>1. PICK e2 \in Nat : e2 = (2 * q * a + 100 * l) \div (200 * l)
        <5>1. 2 * q * a + 100 * l \in Nat /\ 200 * l \in Nat \ {0}
          BY <1>1
        <5>2. QED
          BY <5>1, Division
      <4>2. QED
        BY <4>1 DEF HoldTarget, Least
    <3>6. PICK x \in Int : x = (q - h) \div l
      OBVIOUS
    <3>7. closes[k].qty = Greatest(0, Least(x * l, q))
      BY <3>4, <3>5, <3>6 DEF CloseQuantity
    <3>8. q % l = 0
      <4>1. cur[t] % l = 0 /\ (-cur[t]) % l = 0
        <5>1. cur[t] \in Int /\ cur[t] % l = 0
          BY <1>5, <3>3
        <5>2. QED
          BY <5>1, WholeDifference
      <4>2. QED
        BY <3>3, <4>1 DEF Abs
    <3>9. (x * l) % l = 0 /\ 0 % l = 0
      <4>1. x * l \in Int
        OBVIOUS
      <4>2. QED
        BY <4>1, WholeLots
    <3>10. closes[k].qty = 0 \/ closes[k].qty = x * l \/ closes[k].qty = q
      BY <3>7 DEF Greatest, Least
    <3>11. QED
      BY <3>3, <3>4, <3>8, <3>9, <3>10
  <2>2. QED
    BY <2>1 DEF Whole
<1>6. QED
  BY <1>3, <1>4, <1>5

WholeBatches(bs) == \A b \in DOMAIN bs : Whole(bs[b])

LEMMA FillsInitInv == Init => FillsInv
<1> SUFFICES ASSUME Init PROVE FillsInv
  OBVIOUS
<1>1. /\ current \in [TickerSet -> Int] /\ position = current
  BY DEF Init, Holdings
<1>2. CASE /\ job = "decision" /\ target \in Holdings /\ alpha = 0
           /\ batches = DecisionBatches(target, current)
  <2> DEFINE closes == CloseOrders(target, current)
             news == NewOrders(target, current)
             now == Immediate(news)
             later == Delayed(news)
  <2>1. target \in [TickerSet -> Int]
    BY <1>2 DEF Holdings
  <2>2. /\ closes \in Seq(Orders) /\ news \in Seq(Orders)
        /\ \A t \in TickerSet :
              /\ Ask(closes, t, "BUY") + Ask(news, t, "BUY")
                     = IF target[t] > current[t] THEN target[t] - current[t] ELSE 0
              /\ Ask(closes, t, "SELL") + Ask(news, t, "SELL")
                     = IF target[t] < current[t] THEN current[t] - target[t] ELSE 0
              /\ current[t] + Ask(closes, t, "BUY") - Ask(closes, t, "SELL")
                     = Retained(current[t], target[t])
        /\ (\A t \in TickerSet : current[t] % Lot[t] = 0 /\ target[t] % Lot[t] = 0) =>
              Whole(closes) /\ Whole(news)
    BY <1>1, <2>1, DecisionAsks
  <2>3. batches = NonEmpty(<<closes, now, later>>)
    BY <1>2 DEF DecisionBatches
  <2> HIDE DEF closes, news
  <2>4. /\ now \in Seq(Orders) /\ later \in Seq(Orders)
        /\ \A K : Amount(now, K) + Amount(later, K) = Amount(news, K)
    BY <2>2, ImmediateOf, DelayedOf, SplitKeepsAmounts, OrdersAreOrderLike
  <2>5. Whole(news) => Whole(now) /\ Whole(later)
    BY <2>2, PartsWhole
  <2> HIDE DEF now, later
  <2>6. /\ batches \in Seq(Seq(Orders))
        /\ \A K : Total(batches, K) = Amount(closes, K) + Amount(now, K) + Amount(later, K)
    BY <2>2, <2>3, <2>4, TotalOfThree
  <2>7. \A K : Amount(closes, K) \in Nat /\ Amount(now, K) \in Nat /\ Amount(later, K) \in Nat
    BY <2>2, <2>4, AmountsType, OrdersAreOrderLike
  <2>8. \A K : Total(batches, K) = Amount(closes, K) + Amount(news, K)
    <3> TAKE K
    <3>1. Total(batches, K) = Amount(closes, K) + Amount(now, K) + Amount(later, K)
      BY <2>6
    <3>2. Amount(now, K) + Amount(later, K) = Amount(news, K)
      BY <2>4
    <3>3. Amount(closes, K) \in Nat /\ Amount(now, K) \in Nat /\ Amount(later, K) \in Nat
      BY <2>7
    <3>4. QED
      BY <3>1, <3>2, <3>3
  <2>9. ASSUME NEW t \in TickerSet
        PROVE  /\ Bought(batches, t) = IF target[t] > current[t] THEN target[t] - current[t] ELSE 0
               /\ Sold(batches, t) = IF target[t] < current[t] THEN current[t] - target[t] ELSE 0
    BY <2>2, <2>8 DEF Bought, Sold, Ask
  <2>10. FillsTyped
    BY <1>1, <1>2, <2>1, <2>6 DEF FillsTyped
  <2>11. \A t \in TickerSet : target[t] \in Int /\ current[t] \in Int
    BY <1>1, <2>1
  <2>12. LeadsToGoal
    <3>1. ASSUME NEW t \in TickerSet
          PROVE  position[t] + Bought(batches, t) - Sold(batches, t) = Goal(t)
      <4>1. Goal(t) = target[t] /\ position[t] = current[t]
        BY <1>1, <1>2 DEF Goal
      <4>2. QED
        BY <2>9, <2>11, <4>1
    <3>2. QED
      BY <3>1 DEF LeadsToGoal
  <2>13. OneWay
    BY <2>9, <2>11 DEF OneWay
  <2>14. OrdersAreWholeLots
    <3> SUFFICES ASSUME \A t \in TickerSet : current[t] % Lot[t] = 0 /\ target[t] % Lot[t] = 0
                 PROVE  WholeBatches(batches)
      BY DEF OrdersAreWholeLots, WholeBatches, Whole
    <3>1. Whole(closes) /\ Whole(now) /\ Whole(later)
      BY <2>2, <2>5
    <3> DEFINE all == <<closes, now, later>>
    <3>2. /\ all \in Seq(Seq(Orders)) /\ \A c \in DOMAIN all : Whole(all[c])
      BY <2>2, <2>4, <3>1
    <3> HIDE DEF all
    <3>3. \A b \in DOMAIN NonEmpty(all) : \E c \in DOMAIN all : NonEmpty(all)[b] = all[c]
      BY <3>2, NonEmptyTotal
    <3>4. batches = NonEmpty(all)
      BY <2>3 DEF all
    <3>5. QED
      BY <3>2, <3>3, <3>4 DEF WholeBatches
  <2>15. RepaysFirst
    <3>1. CASE closes = <<>>
      <4>1. ASSUME NEW t \in TickerSet
            PROVE  OnTheWay(position[t], Retained(current[t], target[t]), target[t])
        <5>1. Ask(closes, t, "BUY") = 0 /\ Ask(closes, t, "SELL") = 0
          BY <3>1, NoAmount DEF Ask
        <5>2. position[t] = Retained(current[t], target[t]) /\ position[t] = current[t]
          BY <1>1, <2>2, <2>11, <5>1
        <5>3. QED
          BY <2>11, <5>2 DEF OnTheWay, Least, Greatest
      <4>2. QED
        BY <4>1 DEF RepaysFirst, Repaid
    <3>2. CASE closes # <<>>
      <4> DEFINE all == <<closes, now, later>>
      <4>1. all \in Seq(Seq(Orders)) /\ all # <<>> /\ all[1] = closes
        BY <2>2, <2>4
      <4> HIDE DEF all
      <4>2. NonEmpty(all) # <<>> /\ NonEmpty(all)[1] = closes
        BY <3>2, <4>1, FirstNonEmpty
      <4>3. batches # <<>> /\ batches[1] = closes
        BY <2>3, <4>2 DEF all
      <4>4. QED
        BY <1>1, <2>2, <4>3 DEF RepaysFirst, Repaying
    <3>3. QED
      BY <3>1, <3>2
  <2>16. QED
    BY <2>10, <2>12, <2>13, <2>14, <2>15 DEF FillsInv
<1>3. CASE /\ job = "close" /\ target = current /\ alpha \in Alphas
           /\ batches = CloseBatches(current, alpha)
  <2> DEFINE closes == DayCloseOrders(Positions(current), alpha, alpha)
             now == Immediate(closes)
             later == Delayed(closes)
  <2>1. alpha \in 0 .. 100
    BY <1>3, FillsAssumption
  <2>2. /\ closes \in Seq(Orders)
        /\ \A t \in TickerSet :
              current[t] + Ask(closes, t, "BUY") - Ask(closes, t, "SELL")
                  = Kept(current[t], alpha, Lot[t])
        /\ (\A t \in TickerSet : current[t] % Lot[t] = 0) => Whole(closes)
    BY <1>1, <2>1, CloseAsks
  <2>3. batches = NonEmpty(<<now, later>>)
    BY <1>3 DEF CloseBatches
  <2> HIDE DEF closes
  <2>4. /\ now \in Seq(Orders) /\ later \in Seq(Orders)
        /\ \A K : Amount(now, K) + Amount(later, K) = Amount(closes, K)
    BY <2>2, ImmediateOf, DelayedOf, SplitKeepsAmounts, OrdersAreOrderLike
  <2>5. Whole(closes) => Whole(now) /\ Whole(later)
    BY <2>2, PartsWhole
  <2> HIDE DEF now, later
  <2>6. /\ batches \in Seq(Seq(Orders))
        /\ \A K : Total(batches, K) = Amount(closes, K)
    BY <2>3, <2>4, TotalOfTwo
  <2>7. FillsTyped
    BY <1>1, <1>3, <2>1, <2>6 DEF FillsTyped
  <2>8. LeadsToGoal
    BY <1>1, <1>3, <2>2, <2>6 DEF LeadsToGoal, Bought, Sold, Ask, Goal
  <2>9. OneWay
    BY <1>3 DEF OneWay
  <2>10. OrdersAreWholeLots
    <3> SUFFICES ASSUME \A t \in TickerSet : current[t] % Lot[t] = 0 /\ target[t] % Lot[t] = 0
                 PROVE  WholeBatches(batches)
      BY DEF OrdersAreWholeLots, WholeBatches, Whole
    <3>1. Whole(now) /\ Whole(later)
      BY <2>2, <2>5
    <3> DEFINE all == <<now, later>>
    <3>2. /\ all \in Seq(Seq(Orders)) /\ \A c \in DOMAIN all : Whole(all[c])
      BY <2>4, <3>1
    <3> HIDE DEF all
    <3>3. \A b \in DOMAIN NonEmpty(all) : \E c \in DOMAIN all : NonEmpty(all)[b] = all[c]
      BY <3>2, NonEmptyTotal
    <3>4. batches = NonEmpty(all)
      BY <2>3 DEF all
    <3>5. QED
      BY <3>2, <3>3, <3>4 DEF WholeBatches
  <2>11. RepaysFirst
    BY <1>3 DEF RepaysFirst
  <2>12. QED
    BY <2>7, <2>8, <2>9, <2>10, <2>11 DEF FillsInv
<1>4. QED
  BY <1>2, <1>3 DEF Init

\* A step towards the target, from where the repayment ends, stays on that way.
LEMMA WayToGoal ==
    ASSUME NEW x \in Int, NEW c \in Int, NEW p \in Int, NEW q \in Int,
           NEW b \in Nat, NEW s \in Nat, q + b - s = x,
           IF x >= c THEN s = 0 /\ q >= p ELSE b = 0 /\ q <= p,
           q = Retained(c, x) \/ OnTheWay(p, Retained(c, x), x)
    PROVE  OnTheWay(q, Retained(c, x), x)
BY DEF OnTheWay, Retained, Least, Greatest

LEMMA FillsNextInv == FillsInv /\ [Next]_vars => FillsInv'
<1> SUFFICES ASSUME FillsInv, [Next]_vars PROVE FillsInv'
  OBVIOUS
<1>0. FillsTyped /\ LeadsToGoal /\ OneWay /\ OrdersAreWholeLots /\ RepaysFirst
  BY DEF FillsInv
<1>1. CASE UNCHANGED vars
  BY <1>0, <1>1
     DEF vars, FillsInv, FillsTyped, LeadsToGoal, OneWay, OrdersAreWholeLots, Goal,
         RepaysFirst, Repaying, Repaid
<1>2. CASE Next
  <2>1. PICK i \in DOMAIN batches[1] : Fill(i) /\ batches # <<>>
    BY <1>2 DEF Next
  <2> DEFINE o == batches[1][i]
  <2>2. /\ position' = [position EXCEPT ![o.ticker] = @ + Signed(o)]
        /\ batches' = AfterFill(batches, i)
        /\ UNCHANGED <<job, current, target, alpha>>
    BY <2>1 DEF Fill, AfterFill, WithoutOrder
  <2>3. batches \in Seq(Seq(Orders)) /\ o \in Orders /\ o \in Asked
    <3>1. batches \in Seq(Seq(Orders)) /\ batches[1] \in Seq(Orders)
      BY <1>0, <2>1 DEF FillsTyped
    <3>2. o \in Orders
      BY <2>1, <3>1
    <3>3. QED
      BY <3>1, <3>2 DEF Orders, Asked
  <2>4. /\ batches' \in Seq(Seq(Orders))
        /\ \A K : /\ Total(batches', K) = Total(batches, K) - AmountOf(o, K)
                  /\ AmountOf(o, K) <= Total(batches, K)
                  /\ Total(batches, K) \in Nat
        /\ \A b \in DOMAIN batches' : \A k \in DOMAIN batches'[b] :
              \E c \in DOMAIN batches : \E l \in DOMAIN batches[c] :
                  batches'[b][k] = batches[c][l]
    <3>1. /\ AfterFill(batches, i) \in Seq(Seq(Orders))
          /\ \A b \in DOMAIN AfterFill(batches, i) : \A k \in DOMAIN AfterFill(batches, i)[b] :
                \E c \in DOMAIN batches : \E l \in DOMAIN batches[c] :
                    AfterFill(batches, i)[b][k] = batches[c][l]
      BY <2>1, <2>3, FillTotal
    <3>2. \A K : /\ Total(AfterFill(batches, i), K) = Total(batches, K) - AmountOf(o, K)
                 /\ AmountOf(o, K) <= Total(batches, K)
      BY <2>1, <2>3, FillTotal
    <3>3. \A K : Total(batches, K) \in Nat
      BY <2>3, PartsType
    <3>4. batches' = AfterFill(batches, i)
      BY <2>2
    <3>5. QED
      BY <3>1, <3>2, <3>3, <3>4
  <2> HIDE DEF o
  <2>5. o.ticker \in TickerSet /\ o.qty \in Nat \ {0} /\ o.side \in {"BUY", "SELL"}
    BY <2>3 DEF Orders, Sides
  <2>6. ASSUME NEW t \in TickerSet
        PROVE  /\ Bought(batches', t) = Bought(batches, t)
                      - (IF o.ticker = t /\ o.side = "BUY" THEN o.qty ELSE 0)
               /\ Sold(batches', t) = Sold(batches, t)
                      - (IF o.ticker = t /\ o.side = "SELL" THEN o.qty ELSE 0)
               /\ Bought(batches, t) \in Nat /\ Sold(batches, t) \in Nat
               /\ Bought(batches', t) \in Nat /\ Sold(batches', t) \in Nat
    <3>1. /\ AmountOf(o, AskOf(t, "BUY")) = IF o.ticker = t /\ o.side = "BUY" THEN o.qty ELSE 0
          /\ AmountOf(o, AskOf(t, "SELL")) = IF o.ticker = t /\ o.side = "SELL" THEN o.qty ELSE 0
      BY <2>3, AskOfOrder
    <3>2. /\ Bought(batches', t) = Bought(batches, t) - AmountOf(o, AskOf(t, "BUY"))
          /\ Sold(batches', t) = Sold(batches, t) - AmountOf(o, AskOf(t, "SELL"))
          /\ Bought(batches, t) \in Nat /\ Sold(batches, t) \in Nat
      BY <2>4 DEF Bought, Sold
    <3>3. Bought(batches', t) \in Nat /\ Sold(batches', t) \in Nat
      BY <2>4, PartsType DEF Bought, Sold
    <3>4. QED
      BY <3>1, <3>2, <3>3
  <2>7. /\ position' \in [TickerSet -> Int]
        /\ \A t \in TickerSet : position'[t] = position[t]
              + (IF o.ticker = t THEN IF o.side = "BUY" THEN o.qty ELSE -o.qty ELSE 0)
    <3>1. position \in [TickerSet -> Int]
      BY <1>0 DEF FillsTyped
    <3>2. Signed(o) \in Int /\ Signed(o) = IF o.side = "BUY" THEN o.qty ELSE -o.qty
      BY <2>5 DEF Signed
    <3>3. position' = [position EXCEPT ![o.ticker] = position[o.ticker] + Signed(o)]
      BY <2>2
    <3>4. QED
      BY <2>5, <3>1, <3>2, <3>3
  <2>8. FillsTyped'
    BY <1>0, <2>2, <2>4, <2>7 DEF FillsTyped
  <2>9. \A t \in TickerSet : Goal(t)' = Goal(t)
    BY <2>2 DEF Goal
  <2>10. LeadsToGoal'
    <3>1. ASSUME NEW t \in TickerSet
          PROVE  position'[t] + Bought(batches', t) - Sold(batches', t) = Goal(t)
      <4>1. position[t] \in Int /\ position[t] + Bought(batches, t) - Sold(batches, t) = Goal(t)
        BY <1>0 DEF FillsTyped, LeadsToGoal
      <4>2. QED
        BY <2>5, <2>6, <2>7, <4>1
    <3>2. QED
      BY <2>9, <3>1 DEF LeadsToGoal
  <2>11. OneWay'
    <3> SUFFICES ASSUME job = "decision", NEW t \in TickerSet
                 PROVE  IF target[t] >= current[t]
                        THEN Sold(batches', t) = 0 /\ Bought(batches', t) <= target[t] - current[t]
                        ELSE Bought(batches', t) = 0 /\ Sold(batches', t) <= current[t] - target[t]
      BY <2>2 DEF OneWay
    <3>1. IF target[t] >= current[t]
          THEN Sold(batches, t) = 0 /\ Bought(batches, t) <= target[t] - current[t]
          ELSE Bought(batches, t) = 0 /\ Sold(batches, t) <= current[t] - target[t]
      BY <1>0 DEF OneWay
    <3>2. target[t] \in Int /\ current[t] \in Int
      BY <1>0 DEF FillsTyped
    <3>3. QED
      BY <2>5, <2>6, <3>1, <3>2
  <2>12. OrdersAreWholeLots'
    <3> SUFFICES ASSUME \A t \in TickerSet : current[t] % Lot[t] = 0 /\ target[t] % Lot[t] = 0,
                        NEW b \in DOMAIN batches', NEW k \in DOMAIN batches'[b]
                 PROVE  batches'[b][k].qty % Lot[batches'[b][k].ticker] = 0
      BY <2>2 DEF OrdersAreWholeLots
    <3>0. PICK c \in DOMAIN batches : \E l \in DOMAIN batches[c] : batches'[b][k] = batches[c][l]
      BY <2>4
    <3>1. PICK l \in DOMAIN batches[c] : batches'[b][k] = batches[c][l]
      BY <3>0
    <3>2. batches[c][l].qty % Lot[batches[c][l].ticker] = 0
      BY <1>0 DEF OrdersAreWholeLots
    <3>3. QED
      BY <3>1, <3>2
  <2>13. RepaysFirst'
    <3> SUFFICES ASSUME job = "decision" PROVE Repaying' \/ Repaid'
      BY <2>2 DEF RepaysFirst
    <3>1. Repaying \/ Repaid
      BY <1>0 DEF RepaysFirst
    <3>2. UNCHANGED <<current, target>>
      BY <2>2
    <3>3. ASSUME NEW t \in TickerSet,
                 \/ position'[t] = Retained(current[t], target[t])
                 \/ OnTheWay(position[t], Retained(current[t], target[t]), target[t])
          PROVE  OnTheWay(position'[t], Retained(current[t], target[t]), target[t])
      <4>1. PICK x \in Int, c \in Int, p \in Int, q \in Int :
                x = target[t] /\ c = current[t] /\ p = position[t] /\ q = position'[t]
        BY <1>0, <2>7 DEF FillsTyped
      <4>2. PICK b \in Nat, s \in Nat : b = Bought(batches', t) /\ s = Sold(batches', t)
        BY <2>6
      <4>3. q + b - s = x
        BY <2>2, <2>10, <4>1, <4>2 DEF LeadsToGoal, Goal
      <4>4. IF x >= c THEN s = 0 ELSE b = 0
        BY <2>2, <2>11, <4>1, <4>2 DEF OneWay
      <4>5. IF x >= c THEN q >= p ELSE q <= p
        <5>1. IF x >= c THEN Sold(batches, t) = 0 ELSE Bought(batches, t) = 0
          BY <1>0, <4>1 DEF OneWay
        <5>2. q = p + (IF o.ticker = t THEN IF o.side = "BUY" THEN o.qty ELSE -o.qty ELSE 0)
          BY <2>7, <4>1
        <5>3. CASE o.ticker = t
          BY <2>5, <2>6, <5>1, <5>2, <5>3
        <5>4. CASE o.ticker # t
          BY <5>2, <5>4
        <5>5. QED
          BY <5>3, <5>4
      <4>6. q = Retained(c, x) \/ OnTheWay(p, Retained(c, x), x)
        BY <3>3, <4>1
      <4>7. OnTheWay(q, Retained(c, x), x)
        BY <4>3, <4>4, <4>5, <4>6, WayToGoal
      <4>8. QED
        BY <4>1, <4>7
    <3>4. CASE Repaid
      BY <3>2, <3>3, <3>4 DEF Repaid
    <3>5. CASE Repaying
      <4> DEFINE rest == WithoutOrder(batches[1], i)
      <4>1. ASSUME NEW t \in TickerSet, NEW side \in Sides
            PROVE  Ask(rest, t, side) = Ask(batches[1], t, side)
                       - (IF o.ticker = t /\ o.side = side THEN o.qty ELSE 0)
        <5>1. Amount(rest, AskOf(t, side))
                  = Amount(batches[1], AskOf(t, side)) - AmountOf(o, AskOf(t, side))
          BY <2>1, <2>3, FillTotal DEF o
        <5>2. AmountOf(o, AskOf(t, side)) = IF o.ticker = t /\ o.side = side THEN o.qty ELSE 0
          BY <2>3, <4>1, AskOfOrder
        <5>3. QED
          BY <5>1, <5>2 DEF Ask
      <4>2. rest # <<>> => batches' # <<>> /\ batches'[1] = rest
        <5>1. rest # <<>> => AfterFill(batches, i) # <<>> /\ AfterFill(batches, i)[1] = rest
          BY <2>1, <2>3, FillTotal
        <5>2. QED
          BY <2>2, <5>1
      <4>3. batches[1] \in Seq(Orders)
        BY <2>1, <2>3
      <4>4. ASSUME NEW t \in TickerSet
            PROVE  position'[t] + Ask(rest, t, "BUY") - Ask(rest, t, "SELL")
                       = Retained(current[t], target[t])
        <5>1. PICK b \in Nat, s \in Nat :
                  b = Ask(batches[1], t, "BUY") /\ s = Ask(batches[1], t, "SELL")
          BY <4>3, AmountsType, OrdersAreOrderLike DEF Ask
        <5>2. PICK p \in Int : p = position[t]
          BY <1>0 DEF FillsTyped
        <5>3. p + b - s = Retained(current[t], target[t])
          BY <3>5, <5>1, <5>2 DEF Repaying
        <5>4. /\ Ask(rest, t, "BUY")
                     = b - (IF o.ticker = t /\ o.side = "BUY" THEN o.qty ELSE 0)
              /\ Ask(rest, t, "SELL")
                     = s - (IF o.ticker = t /\ o.side = "SELL" THEN o.qty ELSE 0)
          BY <4>1, <5>1 DEF Sides
        <5>5. position'[t] = p + (IF o.ticker = t THEN IF o.side = "BUY" THEN o.qty ELSE -o.qty
                                                 ELSE 0)
          BY <2>7, <5>2
        <5>6. PICK g : g = Retained(current[t], target[t])
          OBVIOUS
        <5>7. position'[t] + Ask(rest, t, "BUY") - Ask(rest, t, "SELL") = g
          BY <2>5, <5>3, <5>4, <5>5, <5>6
        <5>8. QED
          BY <5>6, <5>7
      <4>5. CASE rest # <<>>
        BY <3>2, <4>2, <4>4, <4>5 DEF Repaying
      <4>6. CASE rest = <<>>
        <5>1. ASSUME NEW t \in TickerSet PROVE position'[t] = Retained(current[t], target[t])
          <6>1. Ask(rest, t, "BUY") = 0 /\ Ask(rest, t, "SELL") = 0
            BY <4>6, NoAmount DEF Ask
          <6>2. position'[t] \in Int
            BY <2>7
          <6>3. QED
            BY <4>4, <6>1, <6>2
        <5>2. QED
          BY <3>2, <3>3, <5>1 DEF Repaid
      <4>7. QED
        BY <4>5, <4>6
    <3>6. QED
      BY <3>1, <3>4, <3>5
  <2>14. QED
    BY <2>8, <2>10, <2>11, <2>12, <2>13 DEF FillsInv
<1>3. QED
  BY <1>1, <1>2

\* The invariant says that plans are exact.
LEMMA FillsInvExact == FillsInv => PlansAreExact
<1> SUFFICES ASSUME FillsInv PROVE PlansAreExact
  OBVIOUS
<1>1. FillsTyped /\ LeadsToGoal /\ OrdersAreWholeLots
  BY DEF FillsInv
<1>2. ASSUME batches = <<>>, NEW t \in TickerSet PROVE position[t] = Goal(t)
  <2>1. Bought(batches, t) = 0 /\ Sold(batches, t) = 0
    BY <1>2, TotalOfNone DEF Bought, Sold
  <2>2. position[t] \in Int /\ position[t] + Bought(batches, t) - Sold(batches, t) = Goal(t)
    BY <1>1 DEF FillsTyped, LeadsToGoal
  <2>3. QED
    BY <2>1, <2>2
<1>3. ReachesTarget
  <2> SUFFICES ASSUME job = "decision", batches = <<>> PROVE position = target
    BY DEF ReachesTarget
  <2>1. \A t \in TickerSet : position[t] = target[t]
    BY <1>2 DEF Goal
  <2>2. QED
    BY <1>1, <2>1 DEF FillsTyped
<1>4. LeavesOvernightShare
  <2> SUFFICES ASSUME job = "close", batches = <<>>, NEW t \in TickerSet,
                      current[t] % Lot[t] = 0
               PROVE  /\ position[t] * current[t] >= 0
                      /\ Abs(200 * Abs(position[t]) - 2 * alpha * Abs(current[t]))
                             <= 100 * Lot[t]
                      /\ alpha = 0 => position[t] = 0
                      /\ alpha = 100 => position[t] = current[t]
    BY DEF LeavesOvernightShare
  <2>1. PICK c \in Int, l \in Nat \ {0}, a \in 0 .. 100, p \in Int :
            c = current[t] /\ l = Lot[t] /\ a = alpha /\ p = position[t]
    BY <1>1, PlanningAssumption DEF FillsTyped
  <2>2. p = Kept(c, a, l)
    BY <1>2, <2>1 DEF Goal
  <2>3. c % l = 0 /\ (-c) % l = 0
    <3>1. c % l = 0
      BY <2>1
    <3>2. QED
      BY <3>1, WholeDifference
  <2>4. PICK q \in Nat : q = Abs(c)
    BY DEF Abs
  <2>5. PICK h \in Int : h = q - CloseQuantity(q, a, l)
    <3>0. a \in Nat
      OBVIOUS
    <3>1. CloseQuantity(q, a, l) \in Nat
      BY <3>0, CloseQuantityType
    <3>2. QED
      BY <3>1
  <2>6. PICK k \in Nat : q = k * l
    <3>1. q % l = 0
      BY <2>3, <2>4 DEF Abs
    <3>2. PICK j \in Int : q = j * l
      <4>1. q \in Int
        OBVIOUS
      <4>2. QED
        BY <3>1, <4>1, WholeLots
    <3>3. j >= 0
      <4>1. ASSUME j <= -1 PROVE FALSE
        <5>1. (-1 - j) * l >= 0 /\ (-1 - j) * l = -l - q
          BY <3>2, <4>1
        <5>2. QED
          BY <5>1
      <4>2. QED
        BY <4>1
    <3>4. QED
      BY <3>2, <3>3
  <2>7. /\ h \in Nat /\ h <= q
        /\ 200 * h - 2 * a * q <= 100 * l /\ 2 * a * q - 200 * h <= 100 * l
        /\ a = 0 => h = 0
        /\ a = 100 => h = q
    <3>1. NearShare(h, q, a, l)
      BY <2>5, <2>6, HeldShare
    <3>2. QED
      BY <3>1 DEF NearShare
  <2>8. /\ Abs(p) = h
        /\ c >= 0 => p = h
        /\ c < 0 => p = -h
    <3>1. CASE c > 0
      <4>1. q = c /\ p = c - CloseQuantity(c, a, l)
        BY <2>2, <2>4, <3>1 DEF Kept, Abs
      <4>2. p = h
        BY <2>5, <4>1
      <4>3. QED
        BY <2>7, <3>1, <4>2 DEF Abs
    <3>2. CASE c < 0
      <4>1. q = -c /\ p = c + CloseQuantity(-c, a, l)
        BY <2>2, <2>4, <3>2 DEF Kept, Abs
      <4>2. CloseQuantity(q, a, l) = q - h
        <5>0. a \in Nat
          OBVIOUS
        <5>1. CloseQuantity(q, a, l) \in Nat
          BY <5>0, CloseQuantityType
        <5>2. QED
          BY <2>5, <5>1
      <4>3. p = -h
        BY <4>1, <4>2
      <4>4. QED
        BY <2>7, <3>2, <4>3 DEF Abs
    <3>3. CASE c = 0
      <4>1. q = 0 /\ p = 0
        BY <2>2, <2>4, <3>3 DEF Kept, Abs
      <4>2. QED
        BY <2>7, <3>3, <4>1 DEF Abs
    <3>4. QED
      BY <3>1, <3>2, <3>3
  <2>9. p * c >= 0
    <3>1. CASE c >= 0
      BY <2>7, <2>8, <3>1
    <3>2. CASE c < 0
      <4>1. p * c = h * (-c) /\ -c \in Nat
        BY <2>7, <2>8, <3>2
      <4>2. QED
        BY <2>7, <4>1
    <3>3. QED
      BY <3>1, <3>2
  <2>10. PICK x \in Int : x = 2 * a * q
    BY <2>4
  <2>11. Abs(200 * h - x) <= 100 * l
    BY <2>7, <2>10 DEF Abs
  <2>12. Abs(200 * Abs(p) - 2 * a * Abs(c)) <= 100 * l
    BY <2>4, <2>8, <2>10, <2>11
  <2>13. (a = 0 => p = 0) /\ (a = 100 => p = c)
    BY <2>4, <2>7, <2>8 DEF Abs
  <2>14. QED
    BY <2>1, <2>9, <2>12, <2>13
<1>5. QED
  BY <1>1, <1>3, <1>4 DEF PlansAreExact

\* And that a decision repays first, and that no position passes its target.
LEMMA FillsInvWithin == FillsInv => PlanNeverOvershoots
<1> SUFFICES ASSUME FillsInv, job = "decision" PROVE PlanNeverOvershoots
  BY DEF PlanNeverOvershoots
<1>1. CASE Repaid
  BY <1>1 DEF Repaid, PlanNeverOvershoots
<1>2. CASE Repaying
  <2>1. ASSUME NEW t \in TickerSet
        PROVE  OnTheWay(position[t], current[t], Retained(current[t], target[t]))
    <3>1. PICK x \in Int, c \in Int, p \in Int : x = target[t] /\ c = current[t] /\ p = position[t]
      BY DEF FillsInv, FillsTyped
    <3>2. PICK b \in Nat, s \in Nat : b = Bought(batches, t) /\ s = Sold(batches, t)
      BY PartsType DEF FillsInv, FillsTyped, Bought, Sold
    <3>3. batches \in Seq(Seq(Orders)) /\ batches # <<>>
      BY <1>2 DEF FillsInv, FillsTyped, Repaying
    <3>4. batches[1] \in Seq(Orders) /\ Tail(batches) \in Seq(Seq(Orders))
      BY <3>3
    <3>5. PICK b1 \in Nat, s1 \in Nat :
              b1 = Ask(batches[1], t, "BUY") /\ s1 = Ask(batches[1], t, "SELL")
      BY <3>4, AmountsType, OrdersAreOrderLike DEF Ask
    <3>6. b1 <= b /\ s1 <= s
      <4>1. /\ Bought(batches, t) = Ask(batches[1], t, "BUY") + Total(Tail(batches), AskOf(t, "BUY"))
            /\ Sold(batches, t) = Ask(batches[1], t, "SELL") + Total(Tail(batches), AskOf(t, "SELL"))
        BY <3>3, TotalTail DEF Bought, Sold, Ask
      <4>2. /\ Total(Tail(batches), AskOf(t, "BUY")) \in Nat
            /\ Total(Tail(batches), AskOf(t, "SELL")) \in Nat
        BY <3>4, PartsType
      <4>3. QED
        BY <3>2, <3>5, <4>1, <4>2
    <3>7. p + b - s = x
      BY <3>1, <3>2 DEF FillsInv, LeadsToGoal, Goal
    <3>8. IF x >= c THEN s = 0 /\ b <= x - c ELSE b = 0 /\ s <= c - x
      BY <3>1, <3>2 DEF FillsInv, OneWay
    <3>9. p + b1 - s1 = Retained(c, x)
      BY <1>2, <3>1, <3>5 DEF Repaying
    <3>10. OnTheWay(p, c, Retained(c, x))
      BY <3>6, <3>7, <3>8, <3>9 DEF OnTheWay, Retained, Least, Greatest
    <3>11. QED
      BY <3>1, <3>10
  <2>2. QED
    BY <2>1 DEF PlanNeverOvershoots
<1>3. QED
  BY <1>1, <1>2 DEF FillsInv, RepaysFirst

LEMMA WithinReduces ==
    ASSUME FillsInv, PlanNeverOvershoots
    PROVE  ReductionOnlyReduces
<1> SUFFICES ASSUME job = "decision", IsReductionOnly(target, current), NEW t \in TickerSet
             PROVE  position[t] * current[t] >= 0 /\ Abs(position[t]) <= Abs(current[t])
  BY DEF ReductionOnlyReduces
<1>1. PICK x \in Int, c \in Int, p \in Int : x = target[t] /\ c = current[t] /\ p = position[t]
  BY DEF FillsInv, FillsTyped
<1>2. p >= Least(c, x) /\ p <= Greatest(c, x)
  <2>1. OnTheWay(p, c, Retained(c, x)) \/ OnTheWay(p, Retained(c, x), x)
    BY <1>1 DEF PlanNeverOvershoots
  <2>2. QED
    BY <2>1 DEF OnTheWay, Retained, Least, Greatest
<1>3. x = 0 \/ (c # 0 /\ x * c > 0 /\ Abs(x) <= Abs(c))
  BY <1>1 DEF IsReductionOnly
<1>4. (c >= 0 /\ x >= 0 /\ x <= c) \/ (c <= 0 /\ x <= 0 /\ c <= x)
  BY <1>3 DEF Abs
<1>5. (c >= 0 /\ p >= 0 /\ p <= c) \/ (c <= 0 /\ p <= 0 /\ c <= p)
  BY <1>2, <1>4 DEF Least, Greatest
<1>6. p * c >= 0
  <2>1. CASE c >= 0 /\ p >= 0
    BY <2>1
  <2>2. CASE c <= 0 /\ p <= 0
    <3>1. p * c = (-p) * (-c) /\ -p \in Nat /\ -c \in Nat
      BY <2>2
    <3>2. QED
      BY <3>1
  <2>3. QED
    BY <1>5, <2>1, <2>2
<1>7. Abs(p) <= Abs(c)
  BY <1>5 DEF Abs
<1>8. QED
  BY <1>1, <1>6, <1>7

-----------------------------------------------------------------------------
(***************************************************************************)
(* Recorded results: orders that carry the intent they are a part of.      *)
(***************************************************************************)
Tags == [ticker : TickerSet, side : Sides, qty : Nat \ {0}, intent : Nat]
Sent == [id : Nat, ticker : TickerSet, side : Sides, qty : Nat \ {0}, intent : Nat]

\* The parts of intent i.
OfIntent(i) == {x \in Tags : x.qty = 1 /\ x.intent = i}

LEMMA TagsAreOrderLike == OrderLike(Tags)
BY DEF OrderLike, Tags

LEMMA AmountOfIntent ==
    ASSUME NEW o \in Tags, NEW i
    PROVE  /\ AmountOf(o, OfIntent(i)) = IF o.intent = i THEN o.qty ELSE 0
           /\ Kind(o) \in OfIntent(i) <=> o.intent = i
<1>1. Kind(o) \in Tags /\ Kind(o).qty = 1 /\ Kind(o).intent = o.intent
  BY DEF Kind, Tags
<1>2. Kind(o) \in OfIntent(i) <=> o.intent = i
  BY <1>1 DEF OfIntent
<1>3. QED
  BY <1>2 DEF AmountOf

\* What is still to be sent of a kind is at least each part of that kind, and
\* nothing when there is none.
LEMMA TotalOfKind ==
    ASSUME NEW S, OrderLike(S), NEW bs \in Seq(Seq(S)), NEW K
    PROVE  /\ \A b \in DOMAIN bs : \A j \in DOMAIN bs[b] :
                 AmountOf(bs[b][j], K) <= Total(bs, K)
           /\ (\A b \in DOMAIN bs : \A j \in DOMAIN bs[b] : Kind(bs[b][j]) \notin K)
                 => Total(bs, K) = 0
<1> DEFINE v == Parts(bs, K)
<1>1. /\ IsFiniteSet(DOMAIN bs) /\ DOMAIN v = DOMAIN bs
      /\ \A b \in DOMAIN bs : v[b] = Amount(bs[b], K) /\ v[b] \in Nat /\ bs[b] \in Seq(S)
  BY PartsOf
<1>2. Total(bs, K) = SumFunctionOnSet(v, DOMAIN bs)
  BY <1>1 DEF Total, SumFunction
<1> HIDE DEF v
<1>3. ASSUME NEW b \in DOMAIN bs
      PROVE  /\ \A j \in DOMAIN bs[b] : AmountOf(bs[b][j], K) <= v[b]
             /\ (\A j \in DOMAIN bs[b] : Kind(bs[b][j]) \notin K) => v[b] = 0
  <2> DEFINE w == Amounts(bs[b], K)
  <2>1. /\ IsFiniteSet(DOMAIN bs[b]) /\ DOMAIN w = DOMAIN bs[b]
        /\ \A j \in DOMAIN bs[b] : w[j] = AmountOf(bs[b][j], K) /\ w[j] \in Nat
    BY <1>1, AmountsType
  <2>2. v[b] = SumFunctionOnSet(w, DOMAIN bs[b])
    BY <1>1, <2>1 DEF Amount, SumFunction
  <2> HIDE DEF w
  <2>3. \A j \in DOMAIN bs[b] : w[j] <= SumFunctionOnSet(w, DOMAIN bs[b])
    BY <2>1, SumNat
  <2>4. ASSUME \A j \in DOMAIN bs[b] : Kind(bs[b][j]) \notin K PROVE v[b] = 0
    <3>1. \A j \in DOMAIN bs[b] : w[j] = 0
      BY <2>1, <2>4 DEF AmountOf
    <3>2. QED
      BY <2>1, <2>2, <3>1, SumZero
  <2>5. QED
    BY <2>1, <2>2, <2>3, <2>4
<1>4. \A b \in DOMAIN bs : v[b] <= SumFunctionOnSet(v, DOMAIN bs)
      /\ SumFunctionOnSet(v, DOMAIN bs) \in Nat
  BY <1>1, SumNat
<1>5. ASSUME NEW b \in DOMAIN bs, NEW j \in DOMAIN bs[b]
      PROVE  AmountOf(bs[b][j], K) <= Total(bs, K)
  <2>1. bs[b][j] \in S
    BY <1>1
  <2>2. AmountOf(bs[b][j], K) \in Nat
    BY <2>1 DEF OrderLike, AmountOf
  <2>3. AmountOf(bs[b][j], K) <= v[b] /\ v[b] <= Total(bs, K) /\ v[b] \in Nat
        /\ Total(bs, K) \in Nat
    BY <1>1, <1>2, <1>3, <1>4
  <2>4. QED
    BY <2>2, <2>3
<1>6. ASSUME \A b \in DOMAIN bs : \A j \in DOMAIN bs[b] : Kind(bs[b][j]) \notin K
      PROVE  Total(bs, K) = 0
  <2>1. \A b \in DOMAIN bs : v[b] = 0
    BY <1>3, <1>6
  <2>2. QED
    BY <1>1, <1>2, <2>1, SumZero
<1>7. QED
  BY <1>5, <1>6

\* A part belongs to an intent of its ticker and side.
PartOf(p, o) ==
    o.intent \in DOMAIN p /\ p[o.intent].ticker = o.ticker /\ p[o.intent].side = o.side

Own(rs) == [k \in DOMAIN rs |-> rs[k].intent]

SentOf(rs, i) == Share(rs, Own(rs), i, DOMAIN rs)

\* The results and what is still to be sent make up every intent.
Progress(p, un, rs) ==
    /\ p \in Seq(Intent) /\ un \in Seq(Seq(Tags)) /\ rs \in Seq(Sent)
    /\ \A b \in DOMAIN un : \A j \in DOMAIN un[b] : PartOf(p, un[b][j])
    /\ \A k \in DOMAIN rs : PartOf(p, rs[k]) /\ rs[k].id \in {NoId, k}
    /\ \A i \in DOMAIN p : SentOf(rs, i) + Total(un, OfIntent(i)) = p[i].qty

\* The first part belongs to an earlier intent of the same ticker and side.
Before(o, q) == o.intent < q.intent /\ o.ticker = q.ticker /\ o.side = q.side

\* The parts of each ticker and side go out in the order of their intents, so
\* that earlier intents of a result's kind are used up by earlier results.
InOrder(p, un, rs) ==
    /\ \A b, c \in DOMAIN un : \A j \in DOMAIN un[b], l \in DOMAIN un[c] :
          Before(un[c][l], un[b][j]) => c < b \/ (c = b /\ l < j)
    /\ \A k \in DOMAIN rs, i \in DOMAIN p :
          i < Own(rs)[k] /\ p[i].ticker = rs[k].ticker /\ p[i].side = rs[k].side
              => Share(rs, Own(rs), i, 1 .. k - 1) >= p[i].qty

\* Nothing that is sent in two parts is followed by a close of its kind.
Orderly(p) ==
    \A i, k \in DOMAIN p :
        i < k /\ p[i].ticker = p[k].ticker /\ p[i].side = p[k].side
              /\ p[k].purpose = "close"
            => ~IsSplit(p[i])

\* Of two intents of one ticker the first repays and the other opens.
LEMMA EarlierRepays ==
    ASSUME NEW p, WellFormed(p), NEW i \in DOMAIN p, NEW h \in DOMAIN p, i < h,
           p[i].ticker = p[h].ticker
    PROVE  p[i].purpose = "close" /\ p[h].purpose = "new"
<1>1. /\ p[i].purpose \in {"close", "new"} /\ p[h].purpose \in {"close", "new"}
      /\ i \in Nat /\ h \in Nat
  <2>1. p \in Seq(Intent)
    BY DEF WellFormed
  <2>2. p[i] \in Intent /\ p[h] \in Intent /\ i \in Nat /\ h \in Nat
    BY <2>1
  <2>3. QED
    BY <2>2 DEF Intent
<1>2. i # h /\ ~(h < i)
  BY <1>1
<1>3. p[i].purpose # p[h].purpose
  BY <1>2 DEF WellFormed
<1>4. ~(p[h].purpose = "close" /\ p[i].purpose = "new")
  BY <1>2 DEF WellFormed
<1>5. QED
  BY <1>1, <1>3, <1>4

LEMMA SentIsPart ==
    ASSUME NEW rs \in Seq(Sent)
    PROVE  /\ DOMAIN rs = 1 .. Len(rs) /\ Len(rs) \in Nat
           /\ \A k \in DOMAIN rs : rs[k] \in Sent /\ rs[k].qty \in Nat \ {0}
                                   /\ rs[k].qty \in Nat
           /\ \A i : /\ SentOf(rs, i) \in Nat
                     /\ SentOf(rs, i) = SumFunction(ShareOf(rs, Own(rs), i))
                     /\ ShareOf(rs, Own(rs), i) \in Seq(Int)
                     /\ DOMAIN ShareOf(rs, Own(rs), i) = DOMAIN rs
                     /\ \A k \in DOMAIN rs :
                           /\ ShareOf(rs, Own(rs), i)[k]
                                  = IF rs[k].intent = i THEN rs[k].qty ELSE 0
                           /\ ShareOf(rs, Own(rs), i)[k] \in Nat
<1>1. /\ DOMAIN rs = 1 .. Len(rs) /\ Len(rs) \in Nat
      /\ \A k \in DOMAIN rs : rs[k] \in Sent
  OBVIOUS
<1>2. \A k \in DOMAIN rs : rs[k].qty \in Nat \ {0} /\ rs[k].qty \in Nat
  BY <1>1 DEF Sent
<1>3. ASSUME NEW i
      PROVE  /\ ShareOf(rs, Own(rs), i) = [k \in DOMAIN rs |-> IF rs[k].intent = i
                                                              THEN rs[k].qty ELSE 0]
             /\ SentOf(rs, i) \in Nat
  <2>1. ShareOf(rs, Own(rs), i) = [k \in DOMAIN rs |-> IF rs[k].intent = i
                                                      THEN rs[k].qty ELSE 0]
    BY DEF ShareOf, Own
  <2>2. \A K \in SUBSET (DOMAIN rs) : Share(rs, Own(rs), i, K) \in Nat
    BY <1>2, ShareType
  <2>3. QED
    BY <2>1, <2>2 DEF SentOf
<1>4. ASSUME NEW i
      PROVE  /\ SentOf(rs, i) \in Nat
             /\ SentOf(rs, i) = SumFunction(ShareOf(rs, Own(rs), i))
             /\ ShareOf(rs, Own(rs), i) \in Seq(Int)
             /\ DOMAIN ShareOf(rs, Own(rs), i) = DOMAIN rs
             /\ \A k \in DOMAIN rs :
                   /\ ShareOf(rs, Own(rs), i)[k]
                          = IF rs[k].intent = i THEN rs[k].qty ELSE 0
                   /\ ShareOf(rs, Own(rs), i)[k] \in Nat
  <2>1. PICK f : f = ShareOf(rs, Own(rs), i)
    OBVIOUS
  <2>2. f = [k \in DOMAIN rs |-> IF rs[k].intent = i THEN rs[k].qty ELSE 0]
    BY <1>3, <2>1
  <2>3. DOMAIN f = 1 .. Len(rs) /\ \A k \in DOMAIN rs :
            f[k] = (IF rs[k].intent = i THEN rs[k].qty ELSE 0) /\ f[k] \in Nat /\ f[k] \in Int
    BY <1>1, <1>2, <2>2
  <2>4. f \in Seq(Int)
    BY <1>1, <2>2, <2>3
  <2>5. SentOf(rs, i) = SumFunction(f)
    BY <1>1, <2>1, <2>3 DEF SentOf, Share, SumFunction
  <2>6. QED
    BY <1>1, <1>3, <2>1, <2>3, <2>4, <2>5
<1>5. QED
  BY <1>1, <1>2, <1>4

LEMMA Joined ==
    ASSUME NEW S, NEW v \in Seq(S), NEW w \in Seq(S), NEW m, m = Len(v), NEW n, n = Len(w)
    PROVE  /\ v \o w \in Seq(S) /\ DOMAIN (v \o w) = 1 .. m + n
           /\ \A k \in 1 .. m : (v \o w)[k] = v[k]
           /\ \A j \in 1 .. n : (v \o w)[m + j] = w[j]
OBVIOUS

\* What a batch asks for is in the results once it was sent.
LEMMA SentWith ==
    ASSUME NEW rs \in Seq(Sent), NEW batch \in Seq(Tags), NEW sent \in Seq(Sent),
           DOMAIN sent = DOMAIN batch,
           \A j \in DOMAIN sent : /\ sent[j].ticker = batch[j].ticker
                                  /\ sent[j].side = batch[j].side
                                  /\ sent[j].qty = batch[j].qty
                                  /\ sent[j].intent = batch[j].intent,
           NEW i
    PROVE  SentOf(rs \o sent, i) = SentOf(rs, i) + Amount(batch, OfIntent(i))
<1> DEFINE all == rs \o sent
           f == ShareOf(rs, Own(rs), i)
           g == ShareOf(all, Own(all), i)
           w == Amounts(batch, OfIntent(i))
<1>1. /\ all \in Seq(Sent) /\ Len(all) = Len(rs) + Len(sent)
      /\ Len(rs) \in Nat /\ Len(sent) \in Nat /\ Len(batch) = Len(sent)
      /\ DOMAIN all = 1 .. Len(rs) + Len(sent)
      /\ DOMAIN rs = 1 .. Len(rs) /\ DOMAIN sent = 1 .. Len(sent)
      /\ \A k \in DOMAIN rs : all[k] = rs[k]
      /\ \A j \in DOMAIN sent : all[Len(rs) + j] = sent[j]
  OBVIOUS
<1> HIDE DEF all
<1>2. /\ f \in Seq(Int) /\ DOMAIN f = 1 .. Len(rs) /\ SentOf(rs, i) = SumFunction(f)
      /\ \A k \in 1 .. Len(rs) : f[k] = IF rs[k].intent = i THEN rs[k].qty ELSE 0
  BY <1>1, SentIsPart
<1>3. /\ g \in Seq(Int) /\ DOMAIN g = 1 .. Len(rs) + Len(sent)
      /\ SentOf(all, i) = SumFunction(g)
      /\ \A k \in 1 .. Len(rs) + Len(sent) :
            g[k] = IF all[k].intent = i THEN all[k].qty ELSE 0
  BY <1>1, SentIsPart
<1>4. /\ w \in Seq(Int) /\ DOMAIN w = 1 .. Len(sent)
      /\ \A j \in 1 .. Len(sent) : w[j] = IF sent[j].intent = i THEN sent[j].qty ELSE 0
  <2>1. /\ w \in Seq(Int) /\ DOMAIN w = DOMAIN batch
        /\ \A j \in DOMAIN batch : batch[j] \in Tags /\ w[j] = AmountOf(batch[j], OfIntent(i))
    BY AmountsType, TagsAreOrderLike
  <2> HIDE DEF w
  <2>2. \A j \in DOMAIN batch : w[j] = IF batch[j].intent = i THEN batch[j].qty ELSE 0
    BY <2>1, AmountOfIntent
  <2>3. QED
    BY <1>1, <2>1, <2>2
<1> HIDE DEF f, g, w
<1>5. /\ f \o w \in Seq(Int) /\ DOMAIN (f \o w) = 1 .. Len(rs) + Len(sent)
      /\ \A k \in 1 .. Len(rs) : (f \o w)[k] = f[k]
      /\ \A j \in 1 .. Len(sent) : (f \o w)[Len(rs) + j] = w[j]
  <2>1. Len(f) = Len(rs) /\ Len(w) = Len(sent)
    BY <1>1, <1>2, <1>4
  <2>2. f \in Seq(Int) /\ w \in Seq(Int)
    BY <1>2, <1>4
  <2>3. /\ f \o w \in Seq(Int) /\ DOMAIN (f \o w) = 1 .. Len(f) + Len(w)
        /\ \A k \in 1 .. Len(f) : (f \o w)[k] = f[k]
        /\ \A j \in 1 .. Len(w) : (f \o w)[Len(f) + j] = w[j]
    BY <2>2, Joined
  <2>4. QED
    BY <2>1, <2>3
<1>6. \A k \in 1 .. Len(rs) + Len(sent) : g[k] = (f \o w)[k]
  <2> TAKE k \in 1 .. Len(rs) + Len(sent)
  <2>1. CASE k \in 1 .. Len(rs)
    <3>1. all[k] = rs[k] /\ (f \o w)[k] = f[k]
      BY <1>1, <1>5, <2>1
    <3>2. g[k] = IF all[k].intent = i THEN all[k].qty ELSE 0
      BY <1>3
    <3>3. f[k] = IF rs[k].intent = i THEN rs[k].qty ELSE 0
      BY <1>2, <2>1
    <3>4. QED
      BY <3>1, <3>2, <3>3
  <2>2. CASE k \notin 1 .. Len(rs)
    <3>1. PICK j \in 1 .. Len(sent) : k = Len(rs) + j
      <4>1. k - Len(rs) \in 1 .. Len(sent) /\ k = Len(rs) + (k - Len(rs))
        BY <1>1, <2>2
      <4>2. QED
        BY <4>1
    <3>2. all[k] = sent[j] /\ (f \o w)[k] = w[j]
      BY <1>1, <1>5, <3>1
    <3>3. g[k] = IF all[k].intent = i THEN all[k].qty ELSE 0
      BY <1>3
    <3>4. w[j] = IF sent[j].intent = i THEN sent[j].qty ELSE 0
      BY <1>4
    <3>5. QED
      BY <3>2, <3>3, <3>4
  <2>3. QED
    BY <2>1, <2>2
<1>7. g = f \o w
  BY <1>3, <1>5, <1>6, SameList
<1>8. SumFunction(g) = SumFunction(f) + SumFunction(w)
  BY <1>2, <1>4, <1>7, SeqSumConcat
<1>9. QED
  BY <1>2, <1>3, <1>8 DEF Amount, w, all

\* Sending the next batch, whatever identifiers come back, keeps the progress.
LEMMA SendingKeeps ==
    ASSUME NEW p, NEW un, NEW rs, Progress(p, un, rs), un # <<>>,
           NEW sent \in Seq(Sent), DOMAIN sent = DOMAIN Head(un),
           \A j \in DOMAIN sent : /\ sent[j].ticker = Head(un)[j].ticker
                                  /\ sent[j].side = Head(un)[j].side
                                  /\ sent[j].qty = Head(un)[j].qty
                                  /\ sent[j].intent = Head(un)[j].intent
                                  /\ sent[j].id \in {NoId, Len(rs) + j}
    PROVE  Progress(p, Tail(un), rs \o sent)
<1> DEFINE all == rs \o sent
           rest == Tail(un)
           n == Len(rs)
<1>1. /\ p \in Seq(Intent) /\ un \in Seq(Seq(Tags)) /\ rs \in Seq(Sent)
      /\ \A b \in DOMAIN un : \A j \in DOMAIN un[b] : PartOf(p, un[b][j])
      /\ \A k \in DOMAIN rs : PartOf(p, rs[k]) /\ rs[k].id \in {NoId, k}
      /\ \A i \in DOMAIN p : SentOf(rs, i) + Total(un, OfIntent(i)) = p[i].qty
  BY DEF Progress
<1>2. /\ rest \in Seq(Seq(Tags)) /\ Head(un) = un[1] /\ un[1] \in Seq(Tags)
      /\ 1 \in DOMAIN un /\ DOMAIN un = 1 .. Len(un) /\ Len(un) \in Nat
      /\ DOMAIN rest = 1 .. Len(un) - 1
      /\ \A b \in DOMAIN rest : rest[b] = un[b + 1] /\ b + 1 \in DOMAIN un /\ b \in Nat
  BY <1>1
<1>3. /\ all \in Seq(Sent) /\ n \in Nat /\ Len(sent) \in Nat
      /\ DOMAIN all = 1 .. n + Len(sent)
      /\ DOMAIN rs = 1 .. n /\ DOMAIN sent = 1 .. Len(sent)
      /\ \A k \in DOMAIN rs : all[k] = rs[k]
      /\ \A j \in DOMAIN sent : all[n + j] = sent[j]
  BY <1>1
<1> HIDE DEF all, rest, n
<1>4. ASSUME NEW k \in DOMAIN all, k \notin DOMAIN rs
      PROVE  \E j \in DOMAIN sent : k = n + j
  <2>1. k - n \in DOMAIN sent /\ k = n + (k - n)
    BY <1>3, <1>4
  <2>2. QED
    BY <2>1
<1>5. \A b \in DOMAIN rest : \A j \in DOMAIN rest[b] : PartOf(p, rest[b][j])
  BY <1>1, <1>2
<1>6. ASSUME NEW k \in DOMAIN all PROVE PartOf(p, all[k]) /\ all[k].id \in {NoId, k}
  <2>1. CASE k \in DOMAIN rs
    BY <1>1, <1>3, <2>1
  <2>2. CASE k \notin DOMAIN rs
    <3>1. PICK j \in DOMAIN sent : k = n + j
      BY <1>4, <2>2
    <3>2. all[k] = sent[j]
      BY <1>3, <3>1
    <3>3. PartOf(p, un[1][j])
      BY <1>1, <1>2
    <3>4. PartOf(p, sent[j])
      BY <1>2, <3>3 DEF PartOf
    <3>5. QED
      BY <3>1, <3>2, <3>4 DEF n
  <2>3. QED
    BY <2>1, <2>2
<1>7. ASSUME NEW i \in DOMAIN p
      PROVE  /\ SentOf(all, i) + Total(rest, OfIntent(i)) = p[i].qty
             /\ SentOf(rs, i) \in Nat
  <2>1. SentOf(all, i) = SentOf(rs, i) + Amount(un[1], OfIntent(i))
    <3>1. PICK batch \in Seq(Tags) : batch = un[1] /\ batch = Head(un)
      BY <1>2
    <3>2. /\ DOMAIN sent = DOMAIN batch
          /\ \A j \in DOMAIN sent : /\ sent[j].ticker = batch[j].ticker
                                    /\ sent[j].side = batch[j].side
                                    /\ sent[j].qty = batch[j].qty
                                    /\ sent[j].intent = batch[j].intent
      BY <3>1
    <3>3. rs \in Seq(Sent)
      BY <1>1
    <3>4. SentOf(rs \o sent, i) = SentOf(rs, i) + Amount(batch, OfIntent(i))
      BY <3>2, <3>3, SentWith
    <3>5. QED
      BY <3>1, <3>4 DEF all
  <2>2. Total(un, OfIntent(i)) = Amount(un[1], OfIntent(i)) + Total(rest, OfIntent(i))
    BY <1>1, TotalOfTail, TagsAreOrderLike DEF rest
  <2>3. SentOf(rs, i) \in Nat /\ Amount(un[1], OfIntent(i)) \in Nat
        /\ Total(rest, OfIntent(i)) \in Nat
    <3>1. SentOf(rs, i) \in Nat
      BY <1>1, SentIsPart
    <3>2. Amount(un[1], OfIntent(i)) \in Nat
      BY <1>2, AmountsType, TagsAreOrderLike
    <3>3. Total(rest, OfIntent(i)) \in Nat
      BY <1>2, PartsOf, TagsAreOrderLike
    <3>4. QED
      BY <3>1, <3>2, <3>3
  <2>4. SentOf(rs, i) + Total(un, OfIntent(i)) = p[i].qty
    BY <1>1
  <2>5. QED
    BY <2>1, <2>2, <2>3, <2>4
<1>8. QED
  BY <1>1, <1>2, <1>3, <1>5, <1>6, <1>7 DEF Progress, all, rest

\* It also keeps the order: what was not sent of an earlier intent of a part's
\* kind went out in the same batch before it.
LEMMA SendingInOrder ==
    ASSUME NEW p, NEW un, NEW rs, Progress(p, un, rs), InOrder(p, un, rs), un # <<>>,
           NEW sent \in Seq(Sent), DOMAIN sent = DOMAIN Head(un),
           \A j \in DOMAIN sent : /\ sent[j].ticker = Head(un)[j].ticker
                                  /\ sent[j].side = Head(un)[j].side
                                  /\ sent[j].qty = Head(un)[j].qty
                                  /\ sent[j].intent = Head(un)[j].intent
                                  /\ sent[j].id \in {NoId, Len(rs) + j}
    PROVE  InOrder(p, Tail(un), rs \o sent)
<1> DEFINE all == rs \o sent
           rest == Tail(un)
           n == Len(rs)
<1>1. /\ p \in Seq(Intent) /\ un \in Seq(Seq(Tags)) /\ rs \in Seq(Sent)
      /\ \A b \in DOMAIN un : \A j \in DOMAIN un[b] : PartOf(p, un[b][j])
  BY DEF Progress
<1>2. /\ rest \in Seq(Seq(Tags)) /\ Head(un) = un[1] /\ un[1] \in Seq(Tags)
      /\ 1 \in DOMAIN un /\ DOMAIN un = 1 .. Len(un) /\ Len(un) \in Nat
      /\ DOMAIN rest = 1 .. Len(un) - 1
      /\ \A b \in DOMAIN rest : rest[b] = un[b + 1] /\ b + 1 \in DOMAIN un /\ b \in Nat
  BY <1>1
<1>3. /\ all \in Seq(Sent) /\ n \in Nat /\ Len(sent) \in Nat
      /\ DOMAIN all = 1 .. n + Len(sent)
      /\ DOMAIN rs = 1 .. n /\ DOMAIN sent = 1 .. Len(sent)
      /\ \A k \in DOMAIN rs : all[k] = rs[k]
      /\ \A j \in DOMAIN sent : all[n + j] = sent[j]
  BY <1>1
<1>4. Progress(p, rest, all)
  BY SendingKeeps
<1> HIDE DEF all, rest, n
<1>5. ASSUME NEW k \in DOMAIN all, k \notin DOMAIN rs
      PROVE  \E j \in DOMAIN sent : k = n + j
  <2>1. k - n \in DOMAIN sent /\ k = n + (k - n)
    BY <1>3, <1>5
  <2>2. QED
    BY <2>1
<1>6. \A b, c \in DOMAIN rest : \A j \in DOMAIN rest[b], l \in DOMAIN rest[c] :
          Before(rest[c][l], rest[b][j]) => c < b \/ (c = b /\ l < j)
  <2> TAKE b, c \in DOMAIN rest
  <2> TAKE j \in DOMAIN rest[b], l \in DOMAIN rest[c]
  <2>1. HAVE Before(rest[c][l], rest[b][j])
  <2>2. PICK d \in DOMAIN un, e \in DOMAIN un :
            d = b + 1 /\ e = c + 1 /\ un[d] = rest[b] /\ un[e] = rest[c]
    BY <1>2
  <2>3. j \in DOMAIN un[d] /\ l \in DOMAIN un[e] /\ Before(un[e][l], un[d][j])
    BY <2>1, <2>2
  <2>4. e < d \/ (e = d /\ l < j)
    BY <2>3 DEF InOrder
  <2>5. QED
    BY <1>2, <2>2, <2>4
<1>7. ASSUME NEW k \in DOMAIN all, NEW i \in DOMAIN p,
             i < Own(all)[k], p[i].ticker = all[k].ticker, p[i].side = all[k].side
      PROVE  Share(all, Own(all), i, 1 .. k - 1) >= p[i].qty
  <2>1. CASE k \in DOMAIN rs
    <3>1. /\ 1 .. k - 1 \subseteq DOMAIN rs /\ IsFiniteSet(1 .. k - 1)
          /\ Own(all)[k] = Own(rs)[k] /\ all[k] = rs[k]
      <4>1. k \in Nat /\ k - 1 \in Int /\ 1 .. k - 1 \subseteq 1 .. n
        BY <1>3, <2>1
      <4>2. IsFiniteSet(1 .. k - 1)
        BY <4>1, FS_Interval
      <4>3. QED
        BY <1>3, <2>1, <4>1, <4>2 DEF Own
    <3>2. Share(rs, Own(rs), i, 1 .. k - 1) >= p[i].qty
      BY <1>7, <2>1, <3>1 DEF InOrder
    <3>3. Share(all, Own(all), i, 1 .. k - 1) = Share(rs, Own(rs), i, 1 .. k - 1)
      <4> DEFINE f == ShareOf(rs, Own(rs), i)
                 g == ShareOf(all, Own(all), i)
      <4>1. \A h \in DOMAIN rs :
                f[h] = (IF rs[h].intent = i THEN rs[h].qty ELSE 0) /\ f[h] \in Nat
        BY <1>1, SentIsPart
      <4>2. \A h \in DOMAIN all : g[h] = IF all[h].intent = i THEN all[h].qty ELSE 0
        BY <1>3, SentIsPart
      <4>3. \A h \in DOMAIN rs : g[h] = f[h] /\ f[h] \in Int
        BY <1>3, <4>1, <4>2
      <4> HIDE DEF f, g
      <4>4. \A h \in 1 .. k - 1 : g[h] \in Int /\ g[h] = f[h]
        BY <3>1, <4>3
      <4>5. SumFunctionOnSet(g, 1 .. k - 1) = SumFunctionOnSet(f, 1 .. k - 1)
        BY <3>1, <4>4, SumSame
      <4>6. QED
        BY <4>5 DEF Share, f, g
    <3>4. QED
      BY <3>2, <3>3
  <2>2. CASE k \notin DOMAIN rs
    <3>1. PICK j \in DOMAIN sent : k = n + j
      BY <1>5, <2>2
    <3>2. /\ all[k] = sent[j] /\ Own(all)[k] = un[1][j].intent /\ j \in DOMAIN un[1]
          /\ p[i].ticker = un[1][j].ticker /\ p[i].side = un[1][j].side
          /\ i < un[1][j].intent
      BY <1>2, <1>3, <1>7, <3>1 DEF Own
    <3>3. ASSUME NEW c \in DOMAIN un, NEW l \in DOMAIN un[c], un[c][l].intent = i
          PROVE  c = 1 /\ l < j
      <4>1. un[c][l].ticker = p[i].ticker /\ un[c][l].side = p[i].side
        BY <1>1, <3>3 DEF PartOf
      <4>2. Before(un[c][l], un[1][j])
        BY <3>2, <3>3, <4>1 DEF Before
      <4>3. c < 1 \/ (c = 1 /\ l < j)
        BY <1>2, <3>2, <4>2 DEF InOrder
      <4>4. QED
        BY <1>2, <4>3
    <3>4. Total(rest, OfIntent(i)) = 0
      <4>1. ASSUME NEW c \in DOMAIN rest, NEW l \in DOMAIN rest[c]
            PROVE  Kind(rest[c][l]) \notin OfIntent(i)
        <5>1. PICK e \in DOMAIN un : e = c + 1 /\ un[e] = rest[c] /\ e # 1
          BY <1>2
        <5>2. rest[c][l].intent # i
          BY <3>3, <5>1
        <5>3. rest[c][l] \in Tags
          BY <1>2
        <5>4. PICK o \in Tags : o = rest[c][l]
          BY <5>3
        <5>5. QED
          BY <5>2, <5>4, AmountOfIntent
      <4>2. QED
        BY <1>2, <4>1, TotalOfKind, TagsAreOrderLike
    <3>5. SentOf(all, i) = p[i].qty
      <4>1. SentOf(all, i) + Total(rest, OfIntent(i)) = p[i].qty
        BY <1>4 DEF Progress
      <4>2. SentOf(all, i) \in Nat
        BY <1>3, SentIsPart
      <4>3. QED
        BY <3>4, <4>1, <4>2
    <3>6. SentOf(all, i) = Share(all, Own(all), i, 1 .. k - 1)
      <4> DEFINE g == ShareOf(all, Own(all), i)
      <4>1. \A h \in DOMAIN all :
                g[h] = (IF all[h].intent = i THEN all[h].qty ELSE 0) /\ g[h] \in Nat
        BY <1>3, SentIsPart
      <4> HIDE DEF g
      <4>2. 1 .. k - 1 \in SUBSET (DOMAIN all) /\ IsFiniteSet(DOMAIN all)
        <5>1. PICK m \in Nat : m = n + Len(sent)
          BY <1>3
        <5>2. IsFiniteSet(1 .. m)
          BY FS_Interval
        <5>3. DOMAIN all = 1 .. m /\ j \in 1 .. Len(sent) /\ k <= m
          BY <1>3, <3>1, <5>1
        <5>4. QED
          BY <1>3, <3>1, <5>2, <5>3
      <4>3. ASSUME NEW h \in DOMAIN all \ (1 .. k - 1) PROVE g[h] = 0
        <5>1. h \notin DOMAIN rs
          BY <1>3, <3>1, <4>3
        <5>2. PICK l \in DOMAIN sent : h = n + l
          BY <1>5, <5>1
        <5>3. ~(l < j)
          BY <1>3, <3>1, <4>3, <5>2
        <5>4. l \in DOMAIN un[1] /\ all[h].intent = un[1][l].intent
          BY <1>2, <1>3, <5>2
        <5>5. all[h].intent # i
          BY <1>2, <3>3, <5>3, <5>4
        <5>6. QED
          BY <4>1, <5>5
      <4>4. SumFunctionOnSet(g, DOMAIN all) = SumFunctionOnSet(g, 1 .. k - 1)
        <5>1. PICK A, D : A = 1 .. k - 1 /\ D = DOMAIN all
          OBVIOUS
        <5>2. A \in SUBSET D /\ IsFiniteSet(D)
          BY <4>2, <5>1
        <5>3. \A h \in A : g[h] \in Int /\ g[h] = g[h]
          BY <4>1, <5>1, <5>2
        <5>4. \A h \in D \ A : g[h] = 0
          BY <4>3, <5>1
        <5>5. SumFunctionOnSet(g, D) = SumFunctionOnSet(g, A)
          BY <5>2, <5>3, <5>4, SumRestrict
        <5>6. QED
          BY <5>1, <5>5
      <4>5. QED
        BY <4>4 DEF SentOf, Share, g
    <3>7. p[i].qty \in Nat
      <4>1. p[i] \in Intent
        BY <1>1
      <4>2. QED
        BY <4>1 DEF Intent
    <3>8. QED
      BY <3>5, <3>6, <3>7
  <2>3. QED
    BY <2>1, <2>2
<1>8. QED
  BY <1>6, <1>7 DEF InOrder, all, rest

\* A list of results that continues one whose orders are all stored can be
\* packed.
LEMMA ProgressPacks ==
    ASSUME NEW p, NEW un, NEW rs, Progress(p, un, rs), InOrder(p, un, rs), NEW s,
           NEW old \in Seq(Sent), Stored(s, old, Own(old)),
           DOMAIN old \subseteq DOMAIN rs, \A k \in DOMAIN old : rs[k] = old[k]
    PROVE  Packing(p, s, rs, Own(rs))
<1>1. /\ un \in Seq(Seq(Tags)) /\ rs \in Seq(Sent)
      /\ \A k \in DOMAIN rs : PartOf(p, rs[k]) /\ rs[k].id \in {NoId, k}
      /\ \A i \in DOMAIN p : SentOf(rs, i) + Total(un, OfIntent(i)) = p[i].qty
      /\ \A k \in DOMAIN rs, i \in DOMAIN p :
            i < Own(rs)[k] /\ p[i].ticker = rs[k].ticker /\ p[i].side = rs[k].side
                => Share(rs, Own(rs), i, 1 .. k - 1) >= p[i].qty
  BY DEF Progress, InOrder
<1>2. \A k \in DOMAIN rs : Own(rs)[k] = rs[k].intent /\ rs[k].intent \in DOMAIN p
  BY <1>1 DEF Own, PartOf
<1>3. Own(rs) \in [DOMAIN rs -> DOMAIN p]
  BY <1>2 DEF Own
<1>4. \A k \in DOMAIN rs : /\ p[Own(rs)[k]].ticker = rs[k].ticker
                           /\ p[Own(rs)[k]].side = rs[k].side
  BY <1>1, <1>2 DEF PartOf
<1>5. \A h, k \in DOMAIN rs : rs[h].id = rs[k].id /\ rs[h].id # NoId => h = k
  BY <1>1
<1>6. s = [id \in DOMAIN s |-> s[id]]
  BY DEF Stored
<1>7. ASSUME NEW id \in DOMAIN s
      PROVE  \E k \in DOMAIN rs : /\ rs[k].id = id /\ id # NoId
                                  /\ s[id] = [intent |-> Own(rs)[k], qty |-> rs[k].qty]
  <2>1. PICK k \in DOMAIN old : old[k].id = id /\ id # NoId
    BY <1>7 DEF Stored
  <2>2. s[id] = [intent |-> Own(old)[k], qty |-> old[k].qty]
    BY <2>1 DEF Stored
  <2>3. k \in DOMAIN rs /\ rs[k] = old[k]
    BY <2>1
  <2>4. Own(old)[k] = Own(rs)[k]
    BY <2>1, <2>3 DEF Own
  <2>5. QED
    BY <2>1, <2>2, <2>3, <2>4
<1>8. ASSUME NEW i \in DOMAIN p
      PROVE  p[i].qty \in Int /\ Share(rs, Own(rs), i, DOMAIN rs) <= p[i].qty
  <2>1. SentOf(rs, i) \in Nat
    BY <1>1, SentIsPart
  <2>2. Total(un, OfIntent(i)) \in Nat
    BY <1>1, PartsOf, TagsAreOrderLike
  <2>3. SentOf(rs, i) + Total(un, OfIntent(i)) = p[i].qty
    BY <1>1
  <2>4. QED
    BY <2>1, <2>2, <2>3 DEF SentOf
<1>9. QED
  BY <1>1, <1>3, <1>4, <1>5, <1>6, <1>7, <1>8 DEF Packing

\* Whatever the lots, a stored order is one of the results, with its quantity,
\* and is counted for an intent of the plan.
Known(p, s, rs) ==
    /\ s = [id \in DOMAIN s |-> s[id]]
    /\ \A id \in DOMAIN s : /\ id # NoId /\ id \in DOMAIN rs /\ rs[id].id = id
                            /\ s[id].qty = rs[id].qty /\ s[id].intent \in DOMAIN p

\* The invariant of the recording.
RecordingInv ==
    /\ Progress(plan, unsent, results)
    /\ Known(plan, saved, results)
    /\ Orderly(plan) => InOrder(plan, unsent, results) /\ Stored(saved, results, Own(results))
    /\ alive \in BOOLEAN

\* A call with results stores nothing else.
LEMMA KnownExtends ==
    ASSUME NEW p \in Seq(Intent), NEW rs \in Seq(Sent),
           \A k \in DOMAIN rs : rs[k].id \in {NoId, k},
           NEW s, Known(p, s, rs), NEW list \in Seq(Sent),
           \A k \in DOMAIN list : \E h \in DOMAIN rs : list[k] = rs[h]
    PROVE  Known(p, RecordResultSet(p, s, list), rs)
<1> DEFINE next == RecordResultSet(p, s, list)
<1>1. DOMAIN p \subseteq Nat \ {0} /\ s = [id \in DOMAIN s |-> s[id]]
  BY DEF Known
<1>2. Extension(p, s, list, next)
  BY <1>1, RecordingExtends
<1> HIDE DEF next
<1>3. ASSUME NEW id \in DOMAIN next
      PROVE  /\ id # NoId /\ id \in DOMAIN rs /\ rs[id].id = id
             /\ next[id].qty = rs[id].qty /\ next[id].intent \in DOMAIN p
  <2>1. CASE id \in DOMAIN s
    BY <1>2, <2>1 DEF Extension, Known
  <2>2. CASE id \notin DOMAIN s
    <3>1. PICK k \in DOMAIN list :
              list[k].id = id /\ next[id].qty = list[k].qty /\ next[id].intent \in DOMAIN p
      BY <1>2, <1>3, <2>2 DEF Extension
    <3>2. id # NoId
      BY <1>2, <1>3, <2>2 DEF Extension
    <3>3. PICK h \in DOMAIN rs : list[k] = rs[h]
      OBVIOUS
    <3>4. h = id
      BY <3>1, <3>2, <3>3
    <3>5. QED
      BY <3>1, <3>2, <3>3, <3>4
  <2>3. QED
    BY <2>1, <2>2
<1>4. next = [id \in DOMAIN next |-> next[id]]
  BY <1>2 DEF Extension
<1>5. QED
  BY <1>3, <1>4 DEF Known, next

\* Calls with known orders and orders without an identifier keep the invariant:
\* where orders went out in order, they store nothing new.
LEMMA RecordingAgain ==
    ASSUME RecordingInv, NEW list \in Seq(Sent),
           \A k \in DOMAIN list : \E h \in DOMAIN results : list[k] = results[h],
           saved' = RecordResultSet(plan, saved, list),
           UNCHANGED <<plan, unsent, results, alive>>
    PROVE  RecordingInv'
<1>1. /\ plan \in Seq(Intent) /\ results \in Seq(Sent)
      /\ \A k \in DOMAIN results : results[k].id \in {NoId, k}
      /\ Known(plan, saved, results)
  BY DEF RecordingInv, Progress
<1>2. Known(plan, saved', results)
  BY <1>1, KnownExtends
<1>3. ASSUME Orderly(plan) PROVE saved' = saved
  <2>1. DOMAIN plan \subseteq Nat \ {0} /\ saved = [id \in DOMAIN saved |-> saved[id]]
    BY <1>1 DEF Known
  <2>2. \A k \in DOMAIN list : list[k].id = NoId \/ list[k].id \in DOMAIN saved
    BY <1>3 DEF RecordingInv, Stored
  <2>3. QED
    BY <2>1, <2>2, RecordingKnown
<1>4. /\ plan' = plan /\ unsent' = unsent /\ results' = results /\ alive' = alive
  OBVIOUS
<1>5. QED
  BY <1>2, <1>3, <1>4 DEF RecordingInv

LEMMA SomeEntries ==
    ASSUME NEW positions
    PROVE  results \in Seq(Sent) =>
              /\ Entries(results, positions) \in Seq(Sent)
              /\ \A k \in DOMAIN Entries(results, positions) :
                    \E h \in DOMAIN results : Entries(results, positions)[k] = results[h]
<1> SUFFICES ASSUME results \in Seq(Sent)
             PROVE  /\ Entries(results, positions) \in Seq(Sent)
                    /\ \A k \in DOMAIN Entries(results, positions) :
                          \E h \in DOMAIN results :
                              Entries(results, positions)[k] = results[h]
  OBVIOUS
<1>1. /\ Entries(results, positions) \in Seq(Sent)
      /\ \A k \in DOMAIN Entries(results, positions) :
            \E h \in positions \cap DOMAIN results : Entries(results, positions)[k] = results[h]
  BY EntriesOf
<1>2. QED
  BY <1>1

LEMMA SummaryIsKnown ==
    ASSUME results \in Seq(Sent)
    PROVE  /\ Summary \in Seq(Sent)
           /\ \A k \in DOMAIN Summary : \E h \in DOMAIN results : Summary[k] = results[h]
<1> DEFINE Of(purpose, sides) ==
               Entries(results, {k \in DOMAIN results :
                                    /\ plan[results[k].intent].purpose = purpose
                                    /\ results[k].side \in sides})
<1>0. ASSUME NEW purpose, NEW sides
      PROVE  /\ Of(purpose, sides) \in Seq(Sent)
             /\ \A k \in DOMAIN Of(purpose, sides) :
                   \E h \in DOMAIN results : Of(purpose, sides)[k] = results[h]
  BY SomeEntries
<1>2. Summary = Of("new", {"BUY"}) \o Of("new", {"SELL"}) \o Of("close", {"BUY", "SELL"})
  BY DEF Summary
<1> HIDE DEF Of
<1>1. PICK a \in Seq(Sent), b \in Seq(Sent), c \in Seq(Sent) :
          /\ a = Of("new", {"BUY"}) /\ b = Of("new", {"SELL"}) /\ c = Of("close", {"BUY", "SELL"})
          /\ \A k \in DOMAIN a : \E h \in DOMAIN results : a[k] = results[h]
          /\ \A k \in DOMAIN b : \E h \in DOMAIN results : b[k] = results[h]
          /\ \A k \in DOMAIN c : \E h \in DOMAIN results : c[k] = results[h]
  BY <1>0
<1>3. ASSUME NEW v \in Seq(Sent), NEW w \in Seq(Sent),
             \A k \in DOMAIN v : \E h \in DOMAIN results : v[k] = results[h],
             \A k \in DOMAIN w : \E h \in DOMAIN results : w[k] = results[h]
      PROVE  /\ v \o w \in Seq(Sent)
             /\ \A k \in DOMAIN (v \o w) : \E h \in DOMAIN results : (v \o w)[k] = results[h]
  <2>1. /\ v \o w \in Seq(Sent)
        /\ DOMAIN (v \o w) = 1 .. Len(v) + Len(w)
        /\ \A k \in 1 .. Len(v) : (v \o w)[k] = v[k]
        /\ \A j \in 1 .. Len(w) : (v \o w)[Len(v) + j] = w[j]
    BY Joined
  <2>2. DOMAIN v = 1 .. Len(v) /\ DOMAIN w = 1 .. Len(w) /\ Len(v) \in Nat /\ Len(w) \in Nat
    OBVIOUS
  <2>3. ASSUME NEW k \in 1 .. Len(v) + Len(w)
        PROVE  \E h \in DOMAIN results : (v \o w)[k] = results[h]
    <3>1. CASE k \in 1 .. Len(v)
      BY <1>3, <2>1, <2>2, <3>1
    <3>2. CASE k \notin 1 .. Len(v)
      <4>1. PICK j \in 1 .. Len(w) : k = Len(v) + j
        <5>1. k - Len(v) \in 1 .. Len(w) /\ k = Len(v) + (k - Len(v))
          BY <2>2, <3>2
        <5>2. QED
          BY <5>1
      <4>2. (v \o w)[k] = w[j]
        BY <2>1, <4>1
      <4>3. QED
        BY <1>3, <2>2, <4>2
    <3>3. QED
      BY <3>1, <3>2
  <2>4. QED
    BY <2>1, <2>3
<1>4. PICK d \in Seq(Sent) : /\ d = a \o b
                             /\ \A k \in DOMAIN d : \E h \in DOMAIN results : d[k] = results[h]
  <2>1. /\ a \o b \in Seq(Sent)
        /\ \A k \in DOMAIN (a \o b) : \E h \in DOMAIN results : (a \o b)[k] = results[h]
    BY <1>1, <1>3
  <2>2. QED
    BY <2>1
<1>5. /\ d \o c \in Seq(Sent)
      /\ \A k \in DOMAIN (d \o c) : \E h \in DOMAIN results : (d \o c)[k] = results[h]
  BY <1>1, <1>3, <1>4
<1>6. Summary = d \o c
  BY <1>1, <1>2, <1>4
<1>7. QED
  BY <1>5, <1>6

\* Orders with the positions of their intents.
LEMMA TaggedType ==
    ASSUME NEW orders \in Seq(Orders), NEW base \in Nat
    PROVE  /\ Tagged(orders, base) \in Seq(Tags)
           /\ DOMAIN Tagged(orders, base) = DOMAIN orders
           /\ DOMAIN orders = 1 .. Len(orders) /\ Len(orders) \in Nat
           /\ \A k \in DOMAIN orders :
                 /\ orders[k] \in Orders
                 /\ Tagged(orders, base)[k].ticker = orders[k].ticker
                 /\ Tagged(orders, base)[k].side = orders[k].side
                 /\ Tagged(orders, base)[k].qty = orders[k].qty
                 /\ Tagged(orders, base)[k].intent = base + k
<1> DEFINE tags == Tagged(orders, base)
<1>1. /\ DOMAIN orders = 1 .. Len(orders) /\ Len(orders) \in Nat
      /\ \A k \in DOMAIN orders : orders[k] \in Orders /\ base + k \in Nat
  OBVIOUS
<1>2. tags = [k \in DOMAIN orders |->
                 [ticker |-> orders[k].ticker, side |-> orders[k].side,
                  qty |-> orders[k].qty, intent |-> base + k]]
  BY DEF Tagged
<1>3. \A k \in DOMAIN orders :
          [ticker |-> orders[k].ticker, side |-> orders[k].side,
           qty |-> orders[k].qty, intent |-> base + k] \in Tags
  BY <1>1 DEF Orders, Tags
<1> HIDE DEF tags
<1>4. tags \in Seq(Tags)
  BY <1>1, <1>2, <1>3
<1>5. QED
  BY <1>1, <1>2, <1>4 DEF tags

\* They ask for every intent once.
LEMMA TaggedAsk ==
    ASSUME NEW orders \in Seq(Orders), NEW base \in Nat, NEW i \in Nat
    PROVE  Amount(Tagged(orders, base), OfIntent(i))
               = IF i - base \in DOMAIN orders THEN orders[i - base].qty ELSE 0
<1> DEFINE tags == Tagged(orders, base)
           w == Amounts(tags, OfIntent(i))
<1>1. /\ tags \in Seq(Tags) /\ DOMAIN tags = DOMAIN orders
      /\ DOMAIN orders = 1 .. Len(orders) /\ Len(orders) \in Nat
      /\ \A k \in DOMAIN orders : /\ tags[k].qty = orders[k].qty
                                  /\ tags[k].intent = base + k
  BY TaggedType
<1> HIDE DEF tags
<1>2. /\ DOMAIN w = DOMAIN orders /\ IsFiniteSet(DOMAIN orders)
      /\ \A k \in DOMAIN orders : /\ w[k] = AmountOf(tags[k], OfIntent(i))
                                  /\ w[k] \in Nat /\ tags[k] \in Tags
  BY <1>1, AmountsType, TagsAreOrderLike
<1> HIDE DEF w
<1>3. \A k \in DOMAIN orders : w[k] = IF base + k = i THEN orders[k].qty ELSE 0
  BY <1>1, <1>2, AmountOfIntent
<1>4. SumFunctionOnSet(w, DOMAIN orders)
          = IF i - base \in DOMAIN orders THEN orders[i - base].qty ELSE 0
  <2>1. CASE i - base \in DOMAIN orders
    <3>1. PICK e \in DOMAIN orders : e = i - base
      BY <2>1
    <3>2. \A k \in DOMAIN orders \ {e} : w[k] = 0
      BY <1>1, <1>3, <3>1
    <3>3. w[e] = orders[e].qty /\ w[e] \in Int
      BY <1>1, <1>2, <1>3, <3>1
    <3>4. SumFunctionOnSet(w, DOMAIN orders) = SumFunctionOnSet(w, {e})
      <4>1. {e} \in SUBSET DOMAIN orders /\ \A k \in {e} : w[k] \in Int /\ w[k] = w[k]
        BY <3>3
      <4>2. QED
        BY <1>2, <3>2, <4>1, SumRestrict
    <3>5. SumFunctionOnSet(w, {e}) = w[e]
      BY <3>3, SumSingleton
    <3>6. QED
      BY <2>1, <3>1, <3>3, <3>4, <3>5
  <2>2. CASE i - base \notin DOMAIN orders
    <3>1. \A k \in DOMAIN orders : w[k] = 0
      BY <1>1, <1>3, <2>2
    <3>2. QED
      BY <1>2, <2>2, <3>1, SumZero
  <2>3. QED
    BY <2>1, <2>2
<1>5. QED
  BY <1>2, <1>4 DEF Amount, SumFunction, w, tags

\* Splitting leaves every part its ticker, side and intent.
LEMMA PartsKeepTags ==
    ASSUME NEW tags \in Seq(Tags)
    PROVE  /\ Immediate(tags) \in Seq(Tags) /\ Delayed(tags) \in Seq(Tags)
           /\ \A k \in DOMAIN Immediate(tags) : \E h \in DOMAIN tags :
                 /\ Immediate(tags)[k].ticker = tags[h].ticker
                 /\ Immediate(tags)[k].side = tags[h].side
                 /\ Immediate(tags)[k].intent = tags[h].intent
           /\ \A k \in DOMAIN Delayed(tags) : \E h \in DOMAIN tags :
                 /\ Delayed(tags)[k].ticker = tags[h].ticker
                 /\ Delayed(tags)[k].side = tags[h].side
                 /\ Delayed(tags)[k].intent = tags[h].intent
           /\ \A i : Amount(Immediate(tags), OfIntent(i)) + Amount(Delayed(tags), OfIntent(i))
                         = Amount(tags, OfIntent(i))
<1>1. \A h \in DOMAIN tags : tags[h] \in Tags
  OBVIOUS
<1>2. ASSUME NEW o \in Tags, NEW n
      PROVE  /\ [o EXCEPT !.qty = n].ticker = o.ticker /\ [o EXCEPT !.qty = n].side = o.side
             /\ [o EXCEPT !.qty = n].intent = o.intent
  BY DEF Tags
<1>3. /\ Immediate(tags) \in Seq(Tags) /\ DOMAIN Immediate(tags) = DOMAIN tags
      /\ \A k \in DOMAIN tags :
            Immediate(tags)[k] = IF IsSplit(tags[k])
                                 THEN [tags[k] EXCEPT !.qty = FirstHalf(tags[k])]
                                 ELSE tags[k]
  BY ImmediateOf, TagsAreOrderLike
<1>4. /\ Delayed(tags) \in Seq(Tags)
      /\ \A k \in DOMAIN Delayed(tags) : \E h \in DOMAIN tags :
            IsSplit(tags[h]) /\ Delayed(tags)[k] = SecondHalf(tags[h])
  BY DelayedOf, TagsAreOrderLike
<1>5. ASSUME NEW k \in DOMAIN Immediate(tags)
      PROVE  \E h \in DOMAIN tags :
                 /\ Immediate(tags)[k].ticker = tags[h].ticker
                 /\ Immediate(tags)[k].side = tags[h].side
                 /\ Immediate(tags)[k].intent = tags[h].intent
  <2>1. PICK h \in DOMAIN tags : h = k
    BY <1>3
  <2>2. /\ Immediate(tags)[k].ticker = tags[h].ticker
        /\ Immediate(tags)[k].side = tags[h].side
        /\ Immediate(tags)[k].intent = tags[h].intent
    <3>1. CASE IsSplit(tags[h])
      <4>1. Immediate(tags)[k] = [tags[h] EXCEPT !.qty = FirstHalf(tags[h])]
        BY <1>3, <2>1, <3>1
      <4>2. QED
        BY <1>1, <1>2, <4>1
    <3>2. CASE ~IsSplit(tags[h])
      BY <1>3, <2>1, <3>2
    <3>3. QED
      BY <3>1, <3>2
  <2>3. QED
    BY <2>2
<1>6. ASSUME NEW k \in DOMAIN Delayed(tags)
      PROVE  \E h \in DOMAIN tags :
                 /\ Delayed(tags)[k].ticker = tags[h].ticker
                 /\ Delayed(tags)[k].side = tags[h].side
                 /\ Delayed(tags)[k].intent = tags[h].intent
  <2>1. PICK h \in DOMAIN tags : Delayed(tags)[k] = SecondHalf(tags[h])
    BY <1>4
  <2>2. QED
    BY <1>1, <1>2, <2>1 DEF SecondHalf
<1>7. \A i : Amount(Immediate(tags), OfIntent(i)) + Amount(Delayed(tags), OfIntent(i))
                = Amount(tags, OfIntent(i))
  BY SplitKeepsAmounts, TagsAreOrderLike
<1>8. QED
  BY <1>3, <1>4, <1>5, <1>6, <1>7

LEMMA TotalOfTwoLists ==
    ASSUME NEW S, OrderLike(S), NEW a \in Seq(S), NEW b \in Seq(S), NEW K
    PROVE  Total(<<a, b>>, K) = Amount(a, K) + Amount(b, K)
<1>1. /\ <<b>> \in Seq(Seq(S)) /\ <<a, b>> \in Seq(Seq(S))
      /\ Tail(<<b>>) = <<>> /\ Tail(<<a, b>>) = <<b>>
      /\ <<b>> # <<>> /\ <<a, b>> # <<>>
      /\ <<a, b>>[1] = a /\ <<b>>[1] = b
  OBVIOUS
<1>2. /\ Total(<<a, b>>, K) = Amount(a, K) + Total(<<b>>, K)
      /\ Total(<<b>>, K) = Amount(b, K) + Total(<<>>, K)
  BY <1>1, TotalOfTail
<1>3. Amount(a, K) \in Nat /\ Amount(b, K) \in Nat
  BY AmountsType
<1>4. Total(<<>>, K) = 0
  BY TotalOfNone
<1>5. QED
  BY <1>2, <1>3, <1>4

LEMMA TotalOfThreeLists ==
    ASSUME NEW S, OrderLike(S), NEW a \in Seq(S), NEW b \in Seq(S), NEW c \in Seq(S), NEW K
    PROVE  Total(<<a, b, c>>, K) = Amount(a, K) + Amount(b, K) + Amount(c, K)
<1>1. /\ <<a, b, c>> \in Seq(Seq(S)) /\ Tail(<<a, b, c>>) = <<b, c>>
      /\ <<a, b, c>> # <<>> /\ <<a, b, c>>[1] = a
  OBVIOUS
<1>2. Total(<<a, b, c>>, K) = Amount(a, K) + Total(<<b, c>>, K)
  BY <1>1, TotalOfTail
<1>3. Total(<<b, c>>, K) = Amount(b, K) + Amount(c, K)
  BY TotalOfTwoLists
<1>4. Amount(a, K) \in Nat /\ Amount(b, K) \in Nat /\ Amount(c, K) \in Nat
  BY AmountsType
<1>5. QED
  BY <1>2, <1>3, <1>4

LEMMA NoResults ==
    /\ <<>> \in Seq(Sent) /\ DOMAIN <<>> = {}
    /\ \A i : SentOf(<<>>, i) = 0
    /\ Stored(<<>>, <<>>, Own(<<>>))
    /\ \A p : Known(p, <<>>, <<>>)
<1>1. <<>> \in Seq(Sent) /\ DOMAIN <<>> = {}
  OBVIOUS
<1>2. ASSUME NEW i PROVE SentOf(<<>>, i) = 0
  BY SumEmpty DEF SentOf, Share
<1>3. <<>> = [id \in DOMAIN <<>> |-> <<>>[id]]
  OBVIOUS
<1>4. QED
  BY <1>1, <1>2, <1>3 DEF Stored, Known

\* The parts of a whole plan that nothing was sent of.
LEMMA DecisionProgress ==
    ASSUME NEW tgt \in [TickerSet -> Int], NEW cur \in [TickerSet -> Int],
           NEW p, p = DecisionPlan(tgt, cur),
           NEW un, un = DecisionParts(CloseOrders(tgt, cur), NewOrders(tgt, cur))
    PROVE  Progress(p, un, <<>>) /\ InOrder(p, un, <<>>)
<1> DEFINE closes == CloseOrders(tgt, cur)
           news == NewOrders(tgt, cur)
<1>1. WellFormed(p) /\ p = Intents(closes, "close") \o Intents(news, "new")
  BY DecisionPlanType DEF DecisionPlan
<1>2. closes \in Seq(Orders) /\ news \in Seq(Orders)
  BY DecisionAsks
<1>3. un = DecisionParts(closes, news)
  OBVIOUS
<1> HIDE DEF closes, news
<1>4. /\ DOMAIN closes = 1 .. Len(closes) /\ Len(closes) \in Nat
      /\ DOMAIN news = 1 .. Len(news) /\ Len(news) \in Nat
  BY <1>2
<1>5. /\ DOMAIN p = 1 .. Len(closes) + Len(news)
      /\ \A k \in DOMAIN closes :
            /\ p[k].ticker = closes[k].ticker /\ p[k].side = closes[k].side
            /\ p[k].qty = closes[k].qty /\ p[k].purpose = "close"
      /\ \A k \in DOMAIN news :
            /\ p[Len(closes) + k].ticker = news[k].ticker
            /\ p[Len(closes) + k].side = news[k].side
            /\ p[Len(closes) + k].qty = news[k].qty
            /\ p[Len(closes) + k].purpose = "new"
  <2>1. PICK a \in Seq(Intent), b \in Seq(Intent) :
            /\ a = Intents(closes, "close") /\ b = Intents(news, "new")
            /\ Len(a) = Len(closes) /\ Len(b) = Len(news)
            /\ \A k \in DOMAIN closes : /\ a[k].ticker = closes[k].ticker
                                        /\ a[k].side = closes[k].side
                                        /\ a[k].qty = closes[k].qty
                                        /\ a[k].purpose = "close"
            /\ \A k \in DOMAIN news : /\ b[k].ticker = news[k].ticker
                                      /\ b[k].side = news[k].side
                                      /\ b[k].qty = news[k].qty
                                      /\ b[k].purpose = "new"
    <3>1. \A purpose \in {"close", "new"} : \A orders \in Seq(Orders) :
              /\ Intents(orders, purpose) \in Seq(Intent)
              /\ Len(Intents(orders, purpose)) = Len(orders)
              /\ \A k \in DOMAIN orders :
                    /\ Intents(orders, purpose)[k].ticker = orders[k].ticker
                    /\ Intents(orders, purpose)[k].side = orders[k].side
                    /\ Intents(orders, purpose)[k].qty = orders[k].qty
                    /\ Intents(orders, purpose)[k].purpose = purpose
      BY IntentsType
    <3>2. QED
      BY <1>2, <3>1
  <2>2. /\ DOMAIN (a \o b) = 1 .. Len(closes) + Len(news)
        /\ \A k \in 1 .. Len(closes) : (a \o b)[k] = a[k]
        /\ \A k \in 1 .. Len(news) : (a \o b)[Len(closes) + k] = b[k]
    <3>1. PICK m \in Nat, n \in Nat :
              m = Len(closes) /\ n = Len(news) /\ m = Len(a) /\ n = Len(b)
      BY <1>4, <2>1
    <3>2. /\ DOMAIN (a \o b) = 1 .. m + n
          /\ \A k \in 1 .. m : (a \o b)[k] = a[k]
          /\ \A k \in 1 .. n : (a \o b)[m + k] = b[k]
      BY <3>1, Joined
    <3>3. QED
      BY <3>1, <3>2
  <2>3. p = a \o b
    BY <1>1, <2>1
  <2>4. DOMAIN p = 1 .. Len(closes) + Len(news)
    BY <2>2, <2>3
  <2>5. \A k \in DOMAIN closes : p[k] = a[k]
    BY <1>4, <2>2, <2>3
  <2>6. \A k \in DOMAIN news : p[Len(closes) + k] = b[k]
    BY <1>4, <2>2, <2>3
  <2>7. ASSUME NEW k \in DOMAIN closes
        PROVE  /\ p[k].ticker = closes[k].ticker /\ p[k].side = closes[k].side
               /\ p[k].qty = closes[k].qty /\ p[k].purpose = "close"
    BY <2>1, <2>5
  <2>8. ASSUME NEW k \in DOMAIN news
        PROVE  /\ p[Len(closes) + k].ticker = news[k].ticker
               /\ p[Len(closes) + k].side = news[k].side
               /\ p[Len(closes) + k].qty = news[k].qty
               /\ p[Len(closes) + k].purpose = "new"
    BY <2>1, <2>6
  <2>9. QED
    BY <2>4, <2>7, <2>8
<1> DEFINE first == Tagged(closes, 0)
           rest == Tagged(news, Len(closes))
<1>6. /\ first \in Seq(Tags) /\ DOMAIN first = DOMAIN closes
      /\ \A k \in DOMAIN closes : /\ first[k].ticker = closes[k].ticker
                                  /\ first[k].side = closes[k].side
                                  /\ first[k].intent = 0 + k
      /\ rest \in Seq(Tags) /\ DOMAIN rest = DOMAIN news
      /\ \A k \in DOMAIN news : /\ rest[k].ticker = news[k].ticker
                                /\ rest[k].side = news[k].side
                                /\ rest[k].intent = Len(closes) + k
  <2>1. \A base \in Nat : \A orders \in Seq(Orders) :
            /\ Tagged(orders, base) \in Seq(Tags)
            /\ DOMAIN Tagged(orders, base) = DOMAIN orders
            /\ \A k \in DOMAIN orders :
                  /\ Tagged(orders, base)[k].ticker = orders[k].ticker
                  /\ Tagged(orders, base)[k].side = orders[k].side
                  /\ Tagged(orders, base)[k].intent = base + k
    BY TaggedType
  <2>2. QED
    BY <1>2, <1>4, <2>1
<1>7. un = <<first, Immediate(rest), Delayed(rest)>>
  BY <1>3 DEF DecisionParts
<1>8. \A i \in Nat :
          /\ Amount(first, OfIntent(i)) = IF i - 0 \in DOMAIN closes THEN closes[i - 0].qty ELSE 0
          /\ Amount(rest, OfIntent(i)) = IF i - Len(closes) \in DOMAIN news
                                         THEN news[i - Len(closes)].qty ELSE 0
  BY <1>2, <1>4, TaggedAsk
<1> HIDE DEF first, rest
<1>9. PICK now \in Seq(Tags), later \in Seq(Tags) :
          /\ now = Immediate(rest) /\ later = Delayed(rest)
          /\ \A k \in DOMAIN now : \E h \in DOMAIN rest :
                /\ now[k].ticker = rest[h].ticker /\ now[k].side = rest[h].side
                /\ now[k].intent = rest[h].intent
          /\ \A k \in DOMAIN later : \E h \in DOMAIN rest :
                /\ later[k].ticker = rest[h].ticker /\ later[k].side = rest[h].side
                /\ later[k].intent = rest[h].intent
          /\ \A i : Amount(now, OfIntent(i)) + Amount(later, OfIntent(i))
                        = Amount(rest, OfIntent(i))
  <2>1. /\ Immediate(rest) \in Seq(Tags) /\ Delayed(rest) \in Seq(Tags)
        /\ \A k \in DOMAIN Immediate(rest) : \E h \in DOMAIN rest :
              /\ Immediate(rest)[k].ticker = rest[h].ticker
              /\ Immediate(rest)[k].side = rest[h].side
              /\ Immediate(rest)[k].intent = rest[h].intent
        /\ \A k \in DOMAIN Delayed(rest) : \E h \in DOMAIN rest :
              /\ Delayed(rest)[k].ticker = rest[h].ticker
              /\ Delayed(rest)[k].side = rest[h].side
              /\ Delayed(rest)[k].intent = rest[h].intent
        /\ \A i : Amount(Immediate(rest), OfIntent(i)) + Amount(Delayed(rest), OfIntent(i))
                      = Amount(rest, OfIntent(i))
    BY <1>6, PartsKeepTags
  <2>2. QED
    BY <2>1
<1>10. /\ un = <<first, now, later>> /\ un \in Seq(Seq(Tags)) /\ DOMAIN un = {1, 2, 3}
       /\ un[1] = first /\ un[2] = now /\ un[3] = later
  BY <1>6, <1>7, <1>9
<1>11. \A k \in DOMAIN first : PartOf(p, first[k]) /\ p[first[k].intent].purpose = "close"
  BY <1>4, <1>5, <1>6 DEF PartOf
<1>12. \A k \in DOMAIN rest : PartOf(p, rest[k]) /\ p[rest[k].intent].purpose = "new"
  BY <1>4, <1>5, <1>6 DEF PartOf
<1>13. /\ \A k \in DOMAIN now : PartOf(p, now[k]) /\ p[now[k].intent].purpose = "new"
       /\ \A k \in DOMAIN later : PartOf(p, later[k]) /\ p[later[k].intent].purpose = "new"
  <2>1. ASSUME NEW k \in DOMAIN now
        PROVE  PartOf(p, now[k]) /\ p[now[k].intent].purpose = "new"
    <3>1. PICK h \in DOMAIN rest : /\ now[k].ticker = rest[h].ticker
                                   /\ now[k].side = rest[h].side
                                   /\ now[k].intent = rest[h].intent
      BY <1>9
    <3>2. PartOf(p, rest[h]) /\ p[rest[h].intent].purpose = "new"
      BY <1>12
    <3>3. QED
      BY <3>1, <3>2 DEF PartOf
  <2>2. ASSUME NEW k \in DOMAIN later
        PROVE  PartOf(p, later[k]) /\ p[later[k].intent].purpose = "new"
    <3>1. PICK h \in DOMAIN rest : /\ later[k].ticker = rest[h].ticker
                                   /\ later[k].side = rest[h].side
                                   /\ later[k].intent = rest[h].intent
      BY <1>9
    <3>2. PartOf(p, rest[h]) /\ p[rest[h].intent].purpose = "new"
      BY <1>12
    <3>3. QED
      BY <3>1, <3>2 DEF PartOf
  <2>3. QED
    BY <2>1, <2>2
<1>14. \A b \in DOMAIN un : \A j \in DOMAIN un[b] : PartOf(p, un[b][j])
  BY <1>10, <1>11, <1>13
<1>15. \A b, c \in DOMAIN un : \A j \in DOMAIN un[b], l \in DOMAIN un[c] :
           p[un[b][j].intent].purpose = "new" /\ p[un[c][l].intent].purpose = "close"
               => c < b
  BY <1>10, <1>11, <1>13
<1>16. ASSUME NEW i \in DOMAIN p
       PROVE  SentOf(<<>>, i) + Total(un, OfIntent(i)) = p[i].qty
  <2>1. i \in Nat /\ i \in 1 .. Len(closes) + Len(news)
    BY <1>4, <1>5
  <2>2. Total(un, OfIntent(i))
            = Amount(first, OfIntent(i)) + Amount(now, OfIntent(i)) + Amount(later, OfIntent(i))
    BY <1>6, <1>10, TotalOfThreeLists, TagsAreOrderLike
  <2>3. /\ Amount(first, OfIntent(i)) \in Nat /\ Amount(now, OfIntent(i)) \in Nat
        /\ Amount(later, OfIntent(i)) \in Nat
    BY <1>6, AmountsType, TagsAreOrderLike
  <2>4. Amount(now, OfIntent(i)) + Amount(later, OfIntent(i)) = Amount(rest, OfIntent(i))
    BY <1>9
  <2>5. Amount(first, OfIntent(i)) + Amount(rest, OfIntent(i)) = p[i].qty
    <3>1. CASE i \in DOMAIN closes
      <4>1. i - 0 = i /\ i - Len(closes) \notin DOMAIN news
        BY <1>4, <2>1, <3>1
      <4>2. Amount(first, OfIntent(i)) = closes[i].qty /\ Amount(rest, OfIntent(i)) = 0
        BY <1>8, <2>1, <3>1, <4>1
      <4>3. p[i].qty = closes[i].qty /\ closes[i].qty \in Nat
        <5>1. closes[i] \in Orders
          BY <1>2, <3>1
        <5>2. closes[i].qty \in Nat
          BY <5>1 DEF Orders
        <5>3. QED
          BY <1>5, <3>1, <5>2
      <4>4. QED
        BY <4>2, <4>3
    <3>2. CASE i \notin DOMAIN closes
      <4>1. PICK k \in DOMAIN news : i = Len(closes) + k /\ i - Len(closes) = k
        <5>1. i - Len(closes) \in DOMAIN news /\ i = Len(closes) + (i - Len(closes))
          BY <1>4, <2>1, <3>2
        <5>2. QED
          BY <5>1
      <4>2. i - 0 = i
        BY <2>1
      <4>3. Amount(first, OfIntent(i)) = 0 /\ Amount(rest, OfIntent(i)) = news[k].qty
        BY <1>8, <2>1, <3>2, <4>1, <4>2
      <4>4. p[i].qty = news[k].qty /\ news[k].qty \in Nat
        <5>1. news[k] \in Orders
          BY <1>2
        <5>2. news[k].qty \in Nat
          BY <5>1 DEF Orders
        <5>3. QED
          BY <1>5, <4>1, <5>2
      <4>5. QED
        BY <4>3, <4>4
    <3>3. QED
      BY <3>1, <3>2
  <2>6. SentOf(<<>>, i) = 0
    BY NoResults
  <2>7. Amount(rest, OfIntent(i)) \in Nat
    BY <1>6, AmountsType, TagsAreOrderLike
  <2>8. QED
    BY <2>2, <2>3, <2>4, <2>5, <2>6, <2>7
<1>17. p \in Seq(Intent)
  BY <1>1 DEF WellFormed
<1>18. Progress(p, un, <<>>)
  BY <1>10, <1>14, <1>16, <1>17, NoResults DEF Progress
<1>19. ASSUME NEW b \in DOMAIN un, NEW c \in DOMAIN un,
              NEW j \in DOMAIN un[b], NEW l \in DOMAIN un[c], Before(un[c][l], un[b][j])
       PROVE  c < b
  <2>1. PICK i \in DOMAIN p, h \in DOMAIN p :
            i = un[c][l].intent /\ h = un[b][j].intent /\ i < h /\ p[i].ticker = p[h].ticker
    BY <1>14, <1>19 DEF Before, PartOf
  <2>2. p[i].purpose = "close" /\ p[h].purpose = "new"
    <3>1. WellFormed(p) /\ i < h /\ p[i].ticker = p[h].ticker
      BY <1>1, <2>1
    <3>2. QED
      BY <3>1, EarlierRepays
  <2>3. QED
    BY <1>15, <2>1, <2>2
<1>20. InOrder(p, un, <<>>)
  BY <1>19, NoResults DEF InOrder
<1>21. QED
  BY <1>18, <1>20

LEMMA CloseProgress ==
    ASSUME NEW closes \in Seq(Orders),
           NEW p, p = Intents(closes, "close"), NEW un, un = CloseParts(closes)
    PROVE  Progress(p, un, <<>>) /\ (Orderly(p) => InOrder(p, un, <<>>))
<1>1. /\ p \in Seq(Intent) /\ DOMAIN p = DOMAIN closes
      /\ \A k \in DOMAIN closes :
            /\ p[k].ticker = closes[k].ticker /\ p[k].side = closes[k].side
            /\ p[k].qty = closes[k].qty /\ p[k].purpose = "close"
  BY IntentsType
<1>2. DOMAIN closes = 1 .. Len(closes) /\ Len(closes) \in Nat
      /\ \A k \in DOMAIN closes : closes[k] \in Orders
  OBVIOUS
<1> DEFINE first == Tagged(closes, 0)
<1>3. /\ first \in Seq(Tags) /\ DOMAIN first = DOMAIN closes
      /\ \A k \in DOMAIN closes : /\ first[k].ticker = closes[k].ticker
                                  /\ first[k].side = closes[k].side
                                  /\ first[k].qty = closes[k].qty
                                  /\ first[k].intent = 0 + k
  BY TaggedType
<1>4. \A i \in Nat :
          Amount(first, OfIntent(i)) = IF i - 0 \in DOMAIN closes THEN closes[i - 0].qty ELSE 0
  BY TaggedAsk
<1>5. un = <<Immediate(first), Delayed(first)>>
  BY DEF CloseParts
<1> HIDE DEF first
<1>6. PICK now \in Seq(Tags), later \in Seq(Tags) :
          /\ now = Immediate(first) /\ later = Delayed(first)
          /\ \A k \in DOMAIN now : \E h \in DOMAIN first :
                /\ now[k].ticker = first[h].ticker /\ now[k].side = first[h].side
                /\ now[k].intent = first[h].intent
          /\ \A k \in DOMAIN later : \E h \in DOMAIN first :
                /\ later[k].ticker = first[h].ticker /\ later[k].side = first[h].side
                /\ later[k].intent = first[h].intent
          /\ \A i : Amount(now, OfIntent(i)) + Amount(later, OfIntent(i))
                        = Amount(first, OfIntent(i))
  <2>1. /\ Immediate(first) \in Seq(Tags) /\ Delayed(first) \in Seq(Tags)
        /\ \A k \in DOMAIN Immediate(first) : \E h \in DOMAIN first :
              /\ Immediate(first)[k].ticker = first[h].ticker
              /\ Immediate(first)[k].side = first[h].side
              /\ Immediate(first)[k].intent = first[h].intent
        /\ \A k \in DOMAIN Delayed(first) : \E h \in DOMAIN first :
              /\ Delayed(first)[k].ticker = first[h].ticker
              /\ Delayed(first)[k].side = first[h].side
              /\ Delayed(first)[k].intent = first[h].intent
        /\ \A i : Amount(Immediate(first), OfIntent(i)) + Amount(Delayed(first), OfIntent(i))
                      = Amount(first, OfIntent(i))
    BY <1>3, PartsKeepTags
  <2>2. QED
    BY <2>1
<1>7. /\ un = <<now, later>> /\ un \in Seq(Seq(Tags)) /\ DOMAIN un = {1, 2}
      /\ un[1] = now /\ un[2] = later
  BY <1>5, <1>6
<1>8. \A k \in DOMAIN first : PartOf(p, first[k]) /\ p[first[k].intent].purpose = "close"
  BY <1>1, <1>2, <1>3 DEF PartOf
<1>9. /\ \A k \in DOMAIN now : PartOf(p, now[k]) /\ p[now[k].intent].purpose = "close"
      /\ \A k \in DOMAIN later : PartOf(p, later[k]) /\ p[later[k].intent].purpose = "close"
  <2>1. ASSUME NEW k \in DOMAIN now
        PROVE  PartOf(p, now[k]) /\ p[now[k].intent].purpose = "close"
    <3>1. PICK h \in DOMAIN first : /\ now[k].ticker = first[h].ticker
                                   /\ now[k].side = first[h].side
                                   /\ now[k].intent = first[h].intent
      BY <1>6
    <3>2. PartOf(p, first[h]) /\ p[first[h].intent].purpose = "close"
      BY <1>8
    <3>3. QED
      BY <3>1, <3>2 DEF PartOf
  <2>2. ASSUME NEW k \in DOMAIN later
        PROVE  PartOf(p, later[k]) /\ p[later[k].intent].purpose = "close"
    <3>1. PICK h \in DOMAIN first : /\ later[k].ticker = first[h].ticker
                                   /\ later[k].side = first[h].side
                                   /\ later[k].intent = first[h].intent
      BY <1>6
    <3>2. PartOf(p, first[h]) /\ p[first[h].intent].purpose = "close"
      BY <1>8
    <3>3. QED
      BY <3>1, <3>2 DEF PartOf
  <2>3. QED
    BY <2>1, <2>2
<1>10. \A b \in DOMAIN un : \A j \in DOMAIN un[b] :
           PartOf(p, un[b][j]) /\ p[un[b][j].intent].purpose # "new"
  BY <1>7, <1>9
<1>11. ASSUME NEW i \in DOMAIN p
       PROVE  SentOf(<<>>, i) + Total(un, OfIntent(i)) = p[i].qty
  <2>1. i \in Nat /\ i - 0 = i /\ i \in DOMAIN closes
    BY <1>1, <1>2
  <2>2. Total(un, OfIntent(i)) = Amount(now, OfIntent(i)) + Amount(later, OfIntent(i))
    BY <1>7, TotalOfTwoLists, TagsAreOrderLike
  <2>3. Amount(first, OfIntent(i)) = closes[i].qty
    BY <1>4, <2>1
  <2>4. p[i].qty = closes[i].qty /\ closes[i].qty \in Nat
    <3>1. closes[i] \in Orders
      BY <1>2, <2>1
    <3>2. closes[i].qty \in Nat
      BY <3>1 DEF Orders
    <3>3. QED
      BY <1>1, <2>1, <3>2
  <2>5. SentOf(<<>>, i) = 0
    BY NoResults
  <2>6. Total(un, OfIntent(i)) = closes[i].qty
    BY <1>6, <2>2, <2>3
  <2>7. QED
    BY <2>4, <2>5, <2>6
<1>12. Progress(p, un, <<>>)
  BY <1>1, <1>7, <1>10, <1>11, NoResults DEF Progress
<1>13. ASSUME Orderly(p) PROVE InOrder(p, un, <<>>)
  <2>1. /\ DOMAIN now = DOMAIN first
        /\ \A k \in DOMAIN now : now[k].intent = k
        /\ \A k \in DOMAIN later : \E h \in DOMAIN first :
              IsSplit(first[h]) /\ later[k].intent = h
    <3>1. /\ DOMAIN Immediate(first) = DOMAIN first
          /\ \A k \in DOMAIN first :
                Immediate(first)[k] = IF IsSplit(first[k])
                                      THEN [first[k] EXCEPT !.qty = FirstHalf(first[k])]
                                      ELSE first[k]
      BY <1>3, ImmediateOf, TagsAreOrderLike
    <3>2. \A k \in DOMAIN Delayed(first) : \E h \in DOMAIN first :
              IsSplit(first[h]) /\ Delayed(first)[k] = SecondHalf(first[h])
      BY <1>3, DelayedOf, TagsAreOrderLike
    <3>3. \A h \in DOMAIN first : first[h] \in Tags /\ first[h].intent = h
      BY <1>2, <1>3
    <3>4. ASSUME NEW o \in Tags, NEW m PROVE [o EXCEPT !.qty = m].intent = o.intent
      BY DEF Tags
    <3>5. ASSUME NEW k \in DOMAIN now PROVE now[k].intent = k
      <4>1. PICK o \in Tags : o = first[k] /\ o.intent = k
        BY <1>6, <3>1, <3>3
      <4>2. now[k] = o \/ now[k] = [o EXCEPT !.qty = FirstHalf(o)]
        BY <1>6, <3>1, <4>1
      <4>3. QED
        BY <3>4, <4>1, <4>2, ZenonT(30)
    <3>6. ASSUME NEW k \in DOMAIN later
          PROVE  \E h \in DOMAIN first : IsSplit(first[h]) /\ later[k].intent = h
      <4>1. PICK h \in DOMAIN first : IsSplit(first[h]) /\ later[k] = SecondHalf(first[h])
        BY <1>6, <3>2
      <4>2. PICK o \in Tags : o = first[h] /\ o.intent = h
        BY <3>3
      <4>3. later[k].intent = h
        BY <3>4, <4>1, <4>2 DEF SecondHalf
      <4>4. QED
        BY <4>1, <4>3
    <3>7. QED
      BY <1>6, <3>1, <3>5, <3>6
  <2>2. ASSUME NEW h \in DOMAIN first, NEW k \in DOMAIN first, h < k,
               p[h].ticker = p[k].ticker, p[h].side = p[k].side
        PROVE  ~IsSplit(first[h])
    <3>1. h \in DOMAIN p /\ k \in DOMAIN p /\ p[k].purpose = "close"
      BY <1>1, <1>3
    <3>2. ~IsSplit(p[h])
      BY <1>13, <2>2, <3>1 DEF Orderly
    <3>3. p[h].ticker = first[h].ticker /\ p[h].qty = first[h].qty
      BY <1>1, <1>3
    <3>4. QED
      BY <3>2, <3>3 DEF IsSplit, FirstHalf
  <2>3. ASSUME NEW b \in DOMAIN un, NEW c \in DOMAIN un,
               NEW j \in DOMAIN un[b], NEW l \in DOMAIN un[c], Before(un[c][l], un[b][j])
        PROVE  c < b \/ (c = b /\ l < j)
    <3>1. PICK i \in DOMAIN p, h \in DOMAIN p :
              /\ i = un[c][l].intent /\ h = un[b][j].intent /\ i < h
              /\ p[i].ticker = p[h].ticker /\ p[i].side = p[h].side
      BY <1>10, <2>3 DEF Before, PartOf
    <3>2. ~IsSplit(first[i])
      BY <1>1, <1>3, <2>2, <3>1
    <3>3. un[c] # later \/ c # 2
      <4> SUFFICES ASSUME c = 2 PROVE FALSE
        OBVIOUS
      <4>1. l \in DOMAIN later /\ later[l].intent = i
        BY <1>7, <3>1
      <4>2. QED
        BY <2>1, <3>2, <4>1
    <3>4. c = 1
      BY <1>7, <3>3
    <3>5. CASE b = 1
      <4>1. l = i /\ j = h
        BY <1>7, <2>1, <3>1, <3>4, <3>5
      <4>2. QED
        BY <3>1, <3>4, <3>5, <4>1
    <3>6. CASE b = 2
      BY <3>4, <3>6
    <3>7. QED
      BY <1>7, <3>5, <3>6
  <2>4. QED
    BY <2>3, NoResults DEF InOrder
<1>14. QED
  BY <1>12, <1>13

\* The batch that goes out, with whatever identifiers come back.
SentOut(rs, batch, identified) ==
    [i \in DOMAIN batch |->
        Result(batch[i], IF i \in identified THEN Len(rs) + i ELSE NoId)]

LEMMA SentBatch ==
    ASSUME NEW rs \in Seq(Sent), NEW batch \in Seq(Tags), NEW identified,
           NEW out, out = SentOut(rs, batch, identified)
    PROVE  /\ out \in Seq(Sent) /\ DOMAIN out = DOMAIN batch
           /\ \A j \in DOMAIN out : /\ out[j].ticker = batch[j].ticker
                                    /\ out[j].side = batch[j].side
                                    /\ out[j].qty = batch[j].qty
                                    /\ out[j].intent = batch[j].intent
                                    /\ out[j].id \in {NoId, Len(rs) + j}
                                    /\ out[j].id = IF j \in identified
                                                   THEN Len(rs) + j ELSE NoId
<1> DEFINE Id(i) == IF i \in identified THEN Len(rs) + i ELSE NoId
           sent == [i \in DOMAIN batch |-> Result(batch[i], Id(i))]
<1>1. /\ DOMAIN batch = 1 .. Len(batch) /\ Len(batch) \in Nat /\ Len(rs) \in Nat
      /\ \A j \in DOMAIN batch : batch[j] \in Tags /\ Len(rs) + j \in Nat
  OBVIOUS
<1>2. \A j \in DOMAIN batch : Id(j) \in {NoId, Len(rs) + j} /\ Id(j) \in Nat
  BY <1>1 DEF NoId
<1>3. \A j \in DOMAIN batch : Id(j) = IF j \in identified THEN Len(rs) + j ELSE NoId
  OBVIOUS
<1> HIDE DEF Id
<1>4. \A j \in DOMAIN batch :
          /\ Result(batch[j], Id(j)) \in Sent
          /\ Result(batch[j], Id(j)).ticker = batch[j].ticker
          /\ Result(batch[j], Id(j)).side = batch[j].side
          /\ Result(batch[j], Id(j)).qty = batch[j].qty
          /\ Result(batch[j], Id(j)).intent = batch[j].intent
          /\ Result(batch[j], Id(j)).id = Id(j)
  BY <1>1, <1>2 DEF Result, Tags, Sent
<1>5. DOMAIN sent = DOMAIN batch /\ \A j \in DOMAIN batch : sent[j] = Result(batch[j], Id(j))
  OBVIOUS
<1>6. sent \in Seq(Sent)
  BY <1>1, <1>4
<1> HIDE DEF sent
<1>7. /\ sent \in Seq(Sent) /\ DOMAIN sent = DOMAIN batch
      /\ \A j \in DOMAIN sent : /\ sent[j].ticker = batch[j].ticker
                                /\ sent[j].side = batch[j].side
                                /\ sent[j].qty = batch[j].qty
                                /\ sent[j].intent = batch[j].intent
                                /\ sent[j].id \in {NoId, Len(rs) + j}
                                /\ sent[j].id = IF j \in identified
                                                THEN Len(rs) + j ELSE NoId
  BY <1>2, <1>3, <1>4, <1>5, <1>6
<1>8. out = sent
  BY DEF SentOut, sent, Id
<1>9. QED
  BY <1>7, <1>8

\* Results that continue a list whose orders are all stored, none of them
\* identified, are stored as well.
LEMMA StoredWithout ==
    ASSUME NEW s, NEW old \in Seq(Sent), Stored(s, old, Own(old)),
           NEW all \in Seq(Sent), DOMAIN old \subseteq DOMAIN all,
           \A k \in DOMAIN old : all[k] = old[k],
           \A k \in DOMAIN all \ DOMAIN old : all[k].id = NoId
    PROVE  Stored(s, all, Own(all))
<1>1. s = [id \in DOMAIN s |-> s[id]]
  BY DEF Stored
<1>2. ASSUME NEW k \in DOMAIN all, all[k].id # NoId
      PROVE  k \in DOMAIN old /\ all[k] = old[k] /\ Own(all)[k] = Own(old)[k]
  <2>1. k \in DOMAIN old
    BY <1>2
  <2>2. QED
    BY <2>1 DEF Own
<1>3. ASSUME NEW id
      PROVE  id \in DOMAIN s <=> \E k \in DOMAIN all : all[k].id = id /\ id # NoId
  <2>1. id \in DOMAIN s <=> \E k \in DOMAIN old : old[k].id = id /\ id # NoId
    BY DEF Stored
  <2>2. QED
    BY <1>2, <2>1
<1>4. ASSUME NEW k \in DOMAIN all, all[k].id # NoId
      PROVE  s[all[k].id] = [intent |-> Own(all)[k], qty |-> all[k].qty]
  <2>1. k \in DOMAIN old /\ all[k] = old[k] /\ Own(all)[k] = Own(old)[k]
    BY <1>2, <1>4
  <2>2. s[old[k].id] = [intent |-> Own(old)[k], qty |-> old[k].qty]
    BY <1>4, <2>1 DEF Stored
  <2>3. QED
    BY <2>1, <2>2
<1>5. QED
  BY <1>1, <1>3, <1>4 DEF Stored

LEMMA BatchOut ==
    ASSUME RecordingInv, unsent # <<>>
    PROVE  /\ Head(unsent) \in Seq(Tags) /\ results \in Seq(Sent) /\ Len(results) \in Nat
           /\ DOMAIN results = 1 .. Len(results)
<1>1. unsent \in Seq(Seq(Tags)) /\ results \in Seq(Sent)
  BY DEF RecordingInv, Progress
<1>2. QED
  BY <1>1

LEMMA RecordingStartsInv == RecordingInit => RecordingInv
<1> SUFFICES ASSUME RecordingInit PROVE RecordingInv
  OBVIOUS
<1>1. results = <<>> /\ saved = <<>> /\ alive = TRUE
  BY DEF RecordingInit
<1>2. Progress(plan, unsent, <<>>) /\ (Orderly(plan) => InOrder(plan, unsent, <<>>))
  <2>1. CASE \E tgt \in Targets, cur \in Inventories :
                /\ plan = DecisionPlan(tgt, cur)
                /\ unsent = DecisionParts(CloseOrders(tgt, cur), NewOrders(tgt, cur))
    <3>1. PICK tgt \in Targets, cur \in Inventories :
                /\ plan = DecisionPlan(tgt, cur)
                /\ unsent = DecisionParts(CloseOrders(tgt, cur), NewOrders(tgt, cur))
      BY <2>1
    <3>2. tgt \in [TickerSet -> Int] /\ cur \in [TickerSet -> Int]
      BY RecordingAssumption
    <3>3. QED
      BY <3>1, <3>2, DecisionProgress
  <2>2. CASE \E list \in BrokerLots :
                /\ plan = Intents(DayCloseOrders(list, 0, 0), "close")
                /\ unsent = CloseParts(DayCloseOrders(list, 0, 0))
    <3>1. PICK list \in BrokerLots :
                /\ plan = Intents(DayCloseOrders(list, 0, 0), "close")
                /\ unsent = CloseParts(DayCloseOrders(list, 0, 0))
      BY <2>2
    <3>2. list \in Seq(Orders)
      <4>1. [ticker : TickerSet, side : {"BUY", "SELL"}, qty : Nat \ {0}] = Orders
        BY DEF Orders, Sides
      <4>2. QED
        BY <4>1, RecordingAssumption
    <3>3. PICK closes : closes = DayCloseOrders(list, 0, 0)
      OBVIOUS
    <3>4. closes \in Seq(Orders)
      BY <3>2, <3>3, DayCloseOrdersType
    <3>5. QED
      BY <3>1, <3>3, <3>4, CloseProgress
  <2>3. QED
    BY <2>1, <2>2 DEF RecordingInit
<1>3. QED
  BY <1>1, <1>2, NoResults DEF RecordingInv

LEMMA RecordingNextInv == RecordingInv /\ [RecordingNext]_recordingVars => RecordingInv'
<1> SUFFICES ASSUME RecordingInv, [RecordingNext]_recordingVars PROVE RecordingInv'
  OBVIOUS
<1> USE DEF recordingVars
<1>1. ASSUME SubmitBatch PROVE RecordingInv'
  <2>1. /\ Head(unsent) \in Seq(Tags) /\ results \in Seq(Sent) /\ Len(results) \in Nat
        /\ DOMAIN results = 1 .. Len(results) /\ unsent # <<>>
    BY <1>1, BatchOut DEF SubmitBatch
  <2>2. PICK identified, sent :
            /\ sent = [i \in DOMAIN Head(unsent) |->
                          Result(Head(unsent)[i],
                                 IF i \in identified THEN Len(results) + i ELSE NoId)]
            /\ results' = results \o sent
            /\ saved' = RecordResultSet(plan, saved, results')
    BY <1>1 DEF SubmitBatch
  <2>3. PICK batch \in Seq(Tags) : batch = Head(unsent)
    BY <2>1
  <2>4. /\ sent \in Seq(Sent) /\ DOMAIN sent = DOMAIN Head(unsent)
        /\ \A j \in DOMAIN sent : /\ sent[j].ticker = Head(unsent)[j].ticker
                                  /\ sent[j].side = Head(unsent)[j].side
                                  /\ sent[j].qty = Head(unsent)[j].qty
                                  /\ sent[j].intent = Head(unsent)[j].intent
                                  /\ sent[j].id \in {NoId, Len(results) + j}
    <3>1. sent = SentOut(results, batch, identified)
      BY <2>2, <2>3 DEF SentOut
    <3>2. /\ sent \in Seq(Sent) /\ DOMAIN sent = DOMAIN batch
          /\ \A j \in DOMAIN sent : /\ sent[j].ticker = batch[j].ticker
                                    /\ sent[j].side = batch[j].side
                                    /\ sent[j].qty = batch[j].qty
                                    /\ sent[j].intent = batch[j].intent
                                    /\ sent[j].id \in {NoId, Len(results) + j}
      BY <2>1, <3>1, SentBatch
    <3>3. QED
      BY <2>3, <3>2
  <2>5. /\ Progress(plan, Tail(unsent), results \o sent)
        /\ Orderly(plan) => InOrder(plan, Tail(unsent), results \o sent)
    <3>1. /\ Progress(plan, unsent, results)
          /\ Orderly(plan) => InOrder(plan, unsent, results)
      BY DEF RecordingInv
    <3>2. Progress(plan, Tail(unsent), results \o sent)
      BY <2>1, <2>4, <3>1, SendingKeeps
    <3>3. Orderly(plan) => InOrder(plan, Tail(unsent), results \o sent)
      BY <2>1, <2>4, <3>1, SendingInOrder
    <3>4. QED
      BY <3>2, <3>3
  <2>6. /\ results \o sent \in Seq(Sent) /\ DOMAIN results \subseteq DOMAIN (results \o sent)
        /\ \A k \in DOMAIN results : (results \o sent)[k] = results[k]
    BY <2>1, <2>4
  <2>7. PICK all \in Seq(Sent) : all = results \o sent
    BY <2>6
  <2>8. /\ plan \in Seq(Intent) /\ DOMAIN plan \subseteq Nat \ {0}
        /\ saved' = RecordResultSet(plan, saved, all)
        /\ \A k \in DOMAIN all : all[k].id \in {NoId, k}
    <3>1. plan \in Seq(Intent)
      BY DEF RecordingInv, Progress
    <3>2. \A k \in DOMAIN all : all[k].id \in {NoId, k}
      BY <2>5, <2>7 DEF Progress
    <3>3. DOMAIN plan \subseteq Nat \ {0}
      BY <3>1
    <3>4. saved' = RecordResultSet(plan, saved, all)
      BY <2>2, <2>7
    <3>5. QED
      BY <3>1, <3>2, <3>3, <3>4
  <2>9. Known(plan, saved', all)
    <3>1. Known(plan, saved, all)
      BY <2>6, <2>7 DEF RecordingInv, Known
    <3>2. \A k \in DOMAIN all : \E h \in DOMAIN all : all[k] = all[h]
      OBVIOUS
    <3>3. QED
      BY <2>8, <3>1, <3>2, KnownExtends
  <2>10. ASSUME Orderly(plan) PROVE Stored(saved', all, Own(all))
    <3>1. Stored(saved, results, Own(results))
      BY <2>10 DEF RecordingInv
    <3>2. InOrder(plan, Tail(unsent), all)
      BY <2>5, <2>7, <2>10
    <3>3. Packing(plan, saved, all, Own(all))
      BY <2>1, <2>5, <2>6, <2>7, <3>1, <3>2, ProgressPacks
    <3>4. \A k \in DOMAIN all : all[k].qty \in Nat \ {0}
      BY SentIsPart
    <3>5. QED
      BY <2>8, <3>3, <3>4, RecordingPacks
  <2>11. unsent' = Tail(unsent) /\ plan' = plan /\ alive' = alive /\ results' = all
    BY <1>1, <2>2, <2>7 DEF SubmitBatch
  <2>12. QED
    BY <2>5, <2>7, <2>9, <2>10, <2>11 DEF RecordingInv
<1>2. ASSUME RecordSummary PROVE RecordingInv'
  <2>1. results \in Seq(Sent)
    BY DEF RecordingInv, Progress
  <2>2. /\ Summary \in Seq(Sent)
        /\ \A k \in DOMAIN Summary : \E h \in DOMAIN results : Summary[k] = results[h]
    BY <2>1, SummaryIsKnown
  <2>3. PICK list \in Seq(Sent) :
            /\ list = Summary
            /\ \A k \in DOMAIN list : \E h \in DOMAIN results : list[k] = results[h]
    BY <2>2
  <2>4. QED
    BY <1>2, <2>3, RecordingAgain DEF RecordSummary
<1>3. ASSUME Crash PROVE RecordingInv'
  <2>1. CASE UNCHANGED <<plan, unsent, results, saved>>
    BY <1>3, <2>1 DEF RecordingInv, Crash
  <2>2. CASE /\ unsent # <<>>
             /\ results' = results \o
                   [i \in DOMAIN Head(unsent) |-> Result(Head(unsent)[i], NoId)]
             /\ unsent' = Tail(unsent)
             /\ UNCHANGED <<plan, saved>>
    <3>1. /\ Head(unsent) \in Seq(Tags) /\ results \in Seq(Sent) /\ Len(results) \in Nat
          /\ DOMAIN results = 1 .. Len(results) /\ unsent # <<>>
      BY <2>2, BatchOut
    <3>2. PICK batch \in Seq(Tags) : batch = Head(unsent)
      BY <3>1
    <3> DEFINE none == {}
    <3>3. PICK sent : /\ sent = SentOut(results, batch, none)
                      /\ results' = results \o sent
      <4>1. [i \in DOMAIN batch |-> Result(batch[i], NoId)] = SentOut(results, batch, none)
        BY DEF SentOut
      <4>2. results' = results \o [i \in DOMAIN batch |-> Result(batch[i], NoId)]
        BY <2>2, <3>2
      <4>3. QED
        BY <4>1, <4>2
    <3> HIDE DEF none
    <3>4. /\ sent \in Seq(Sent) /\ DOMAIN sent = DOMAIN batch
          /\ \A j \in DOMAIN sent : /\ sent[j].ticker = batch[j].ticker
                                    /\ sent[j].side = batch[j].side
                                    /\ sent[j].qty = batch[j].qty
                                    /\ sent[j].intent = batch[j].intent
                                    /\ sent[j].id \in {NoId, Len(results) + j}
          /\ \A j \in DOMAIN sent : sent[j].id = NoId
      <4>1. PICK ids : ids = none
        OBVIOUS
      <4>2. sent = SentOut(results, batch, ids)
        BY <3>3, <4>1
      <4>3. /\ sent \in Seq(Sent) /\ DOMAIN sent = DOMAIN batch
            /\ \A j \in DOMAIN sent : /\ sent[j].ticker = batch[j].ticker
                                      /\ sent[j].side = batch[j].side
                                      /\ sent[j].qty = batch[j].qty
                                      /\ sent[j].intent = batch[j].intent
                                      /\ sent[j].id \in {NoId, Len(results) + j}
        BY <3>1, <4>2, SentBatch
      <4>4. \A j \in DOMAIN sent : sent[j].id = NoId
        BY <3>3, <4>3 DEF SentOut, Result, none
      <4>5. QED
        BY <4>3, <4>4
    <3>5. /\ Progress(plan, Tail(unsent), results \o sent)
          /\ Orderly(plan) => InOrder(plan, Tail(unsent), results \o sent)
      <4>1. /\ Progress(plan, unsent, results)
            /\ Orderly(plan) => InOrder(plan, unsent, results)
        BY DEF RecordingInv
      <4>2. /\ DOMAIN sent = DOMAIN Head(unsent)
            /\ \A j \in DOMAIN sent : /\ sent[j].ticker = Head(unsent)[j].ticker
                                      /\ sent[j].side = Head(unsent)[j].side
                                      /\ sent[j].qty = Head(unsent)[j].qty
                                      /\ sent[j].intent = Head(unsent)[j].intent
                                      /\ sent[j].id \in {NoId, Len(results) + j}
        BY <3>2, <3>4
      <4>3. Progress(plan, Tail(unsent), results \o sent)
        BY <3>1, <3>4, <4>1, <4>2, SendingKeeps
      <4>4. Orderly(plan) => InOrder(plan, Tail(unsent), results \o sent)
        BY <3>1, <3>4, <4>1, <4>2, SendingInOrder
      <4>5. QED
        BY <4>3, <4>4
    <3>6. PICK n \in Nat : n = Len(sent) /\ DOMAIN sent = 1 .. n
      BY <3>4
    <3>7. PICK all \in Seq(Sent) :
              /\ all = results \o sent
              /\ DOMAIN all = 1 .. Len(results) + n
              /\ \A k \in 1 .. Len(results) : all[k] = results[k]
              /\ \A j \in 1 .. n : all[Len(results) + j] = sent[j]
      <4>1. /\ results \o sent \in Seq(Sent)
            /\ DOMAIN (results \o sent) = 1 .. Len(results) + Len(sent)
            /\ \A k \in 1 .. Len(results) : (results \o sent)[k] = results[k]
            /\ \A j \in 1 .. Len(sent) : (results \o sent)[Len(results) + j] = sent[j]
        BY <3>1, <3>4, Joined
      <4>2. QED
        BY <3>6, <4>1
    <3>8. \A k \in DOMAIN all \ DOMAIN results : all[k].id = NoId
      <4> TAKE k \in DOMAIN all \ DOMAIN results
      <4>1. PICK j \in 1 .. n : k = Len(results) + j
        <5>1. k - Len(results) \in 1 .. n /\ k = Len(results) + (k - Len(results))
          BY <3>1, <3>6, <3>7
        <5>2. QED
          BY <5>1
      <4>2. all[k] = sent[j] /\ sent[j].id = NoId
        BY <3>4, <3>6, <3>7, <4>1
      <4>3. QED
        BY <4>2
    <3>9. DOMAIN results \subseteq DOMAIN all /\ \A k \in DOMAIN results : all[k] = results[k]
      BY <3>1, <3>6, <3>7
    <3>10. /\ Known(plan, saved, all)
           /\ Orderly(plan) => Stored(saved, all, Own(all))
      <4>1. Known(plan, saved, all)
        BY <3>9 DEF RecordingInv, Known
      <4>2. Orderly(plan) => Stored(saved, results, Own(results))
        BY DEF RecordingInv
      <4>3. Orderly(plan) => Stored(saved, all, Own(all))
        BY <3>1, <3>8, <3>9, <4>2, StoredWithout
      <4>4. QED
        BY <4>1, <4>3
    <3>11. unsent' = Tail(unsent) /\ plan' = plan /\ saved' = saved /\ results' = all
           /\ alive' = FALSE
      BY <1>3, <2>2, <3>3, <3>7 DEF Crash
    <3>12. QED
      BY <3>5, <3>7, <3>10, <3>11 DEF RecordingInv
  <2>3. QED
    BY <1>3, <2>1, <2>2 DEF Crash
<1>4. ASSUME Recover PROVE RecordingInv'
  <2>1. results \in Seq(Sent)
    BY DEF RecordingInv, Progress
  <2>2. PICK list \in Seq(Sent) :
            /\ list = Entries(results, Identified)
            /\ \A k \in DOMAIN list : \E h \in DOMAIN results : list[k] = results[h]
    BY <2>1, SomeEntries
  <2>3. QED
    BY <1>4, <2>2, RecordingAgain DEF Recover
<1>5. CASE UNCHANGED recordingVars
  <2>1. /\ plan' = plan /\ unsent' = unsent /\ results' = results /\ saved' = saved
        /\ alive' = alive
    BY <1>5
  <2>2. QED
    BY <2>1 DEF RecordingInv
<1>6. QED
  BY <1>1, <1>2, <1>3, <1>4, <1>5 DEF RecordingNext

LEMMA InTurnIsOrderly == InTurn = Orderly(plan)
BY DEF InTurn, Orderly

\* The plan of every decision is in turn, and so is that of a close of one lot
\* per ticker: the condition of the attribution leaves out closes of several
\* lots only.
THEOREM PlansAreInTurn ==
    /\ \A aim, have \in [TickerSet -> Int] : Orderly(DecisionPlan(aim, have))
    /\ \A list \in Seq(Orders) :
          OnePerTicker(list) => Orderly(Intents(DayCloseOrders(list, 0, 0), "close"))
<1>1. ASSUME NEW p, WellFormed(p) PROVE Orderly(p)
  <2>1. \A i, k \in DOMAIN p : i < k /\ p[i].ticker = p[k].ticker => p[k].purpose = "new"
    BY <1>1, EarlierRepays
  <2>2. QED
    BY <2>1 DEF Orderly
<1>2. ASSUME NEW aim \in [TickerSet -> Int], NEW have \in [TickerSet -> Int]
      PROVE  Orderly(DecisionPlan(aim, have))
  BY <1>1, DecisionPlanType
<1>3. ASSUME NEW list \in Seq(Orders), OnePerTicker(list)
      PROVE  Orderly(Intents(DayCloseOrders(list, 0, 0), "close"))
  <2>1. PICK closes : closes = DayCloseOrders(list, 0, 0)
    OBVIOUS
  <2>2. closes \in Seq(Orders) /\ OnePerTicker(closes)
    BY <1>3, <2>1, DayCloseOrdersType
  <2>3. QED
    BY <1>1, <2>1, <2>2, ClosesWellFormed
<1>4. QED
  BY <1>2, <1>3

LEMMA PartsAttributed == RecordingInv => PartsKeepTheirIntent
<1> SUFFICES ASSUME RecordingInv, Orderly(plan), NEW i \in Identified
             PROVE  /\ results[i].id \in DOMAIN saved
                    /\ saved[results[i].id].intent = results[i].intent
  BY InTurnIsOrderly DEF PartsKeepTheirIntent
<1>1. i \in DOMAIN results /\ results[i].id # NoId
  BY DEF Identified
<1>2. Stored(saved, results, Own(results))
  BY DEF RecordingInv
<1>3. results[i].id \in DOMAIN saved
  BY <1>1, <1>2 DEF Stored
<1>4. saved[results[i].id] = [intent |-> Own(results)[i], qty |-> results[i].qty]
  BY <1>1, <1>2 DEF Stored
<1>5. QED
  BY <1>1, <1>3, <1>4 DEF Own

LEMMA IntentsExtended ==
    ASSUME RecordingInv, [RecordingNext]_recordingVars, NEW id \in DOMAIN saved
    PROVE  id \in DOMAIN saved' /\ saved'[id] = saved[id]
<1>1. saved = [x \in DOMAIN saved |-> saved[x]] /\ plan \in Seq(Intent) /\ results \in Seq(Sent)
  BY DEF RecordingInv, Progress, Known
<1>2. DOMAIN plan \subseteq Nat \ {0}
  BY <1>1
<1>3. ASSUME NEW list \in Seq(Sent), saved' = RecordResultSet(plan, saved, list)
      PROVE  id \in DOMAIN saved' /\ saved'[id] = saved[id]
  <2>1. Extension(plan, saved, list, saved')
    BY <1>1, <1>2, <1>3, RecordingExtends
  <2>2. QED
    BY <2>1 DEF Extension
<1>4. CASE SubmitBatch
  <2>1. RecordingInv'
    BY RecordingNextInv
  <2>2. results' \in Seq(Sent)
    BY <2>1 DEF RecordingInv, Progress
  <2>3. saved' = RecordResultSet(plan, saved, results')
    BY <1>4 DEF SubmitBatch
  <2>4. QED
    BY <1>3, <2>2, <2>3
<1>5. CASE RecordSummary
  <2>1. Summary \in Seq(Sent)
    BY <1>1, SummaryIsKnown
  <2>2. QED
    BY <1>3, <1>5, <2>1 DEF RecordSummary
<1>6. CASE Recover
  <2>1. Entries(results, Identified) \in Seq(Sent)
    BY <1>1, SomeEntries
  <2>2. QED
    BY <1>3, <1>6, <2>1 DEF Recover
<1>7. CASE Crash \/ UNCHANGED recordingVars
  BY <1>7 DEF Crash, recordingVars
<1>8. QED
  BY <1>4, <1>5, <1>6, <1>7 DEF RecordingNext

\* The store counts of an intent what was identified of it, where orders go out
\* in order.
LEMMA IdentifiedShare ==
    ASSUME RecordingInv, Orderly(plan), NEW i \in DOMAIN plan
    PROVE  Allocated(plan, saved)[i] = Share(results, Own(results), i, Identified)
<1>1. /\ Progress(plan, unsent, results) /\ InOrder(plan, unsent, results)
      /\ Stored(saved, results, Own(results)) /\ results \in Seq(Sent)
  BY DEF RecordingInv, Progress
<1>2. Packing(plan, saved, results, Own(results))
  BY <1>1, ProgressPacks
<1>3. \A k \in DOMAIN results : results[k].qty \in Nat
  BY <1>1, SentIsPart
<1>4. QuantityOf(saved, i)
          = Share(results, Own(results), i, Counted(saved, results, 0))
  BY <1>1, <1>2, <1>3, StoredShare
<1>5. Counted(saved, results, 0) = Identified
  <2>1. \A k \in DOMAIN results : ~(k <= 0)
    BY <1>1
  <2>2. \A k \in DOMAIN results : results[k].id \in DOMAIN saved <=> results[k].id # NoId
    BY <1>1 DEF Stored
  <2>3. QED
    BY <2>1, <2>2 DEF Counted, Identified
<1>6. QED
  BY <1>4, <1>5 DEF Allocated

\* Whatever the lots, the store counts no more than what was identified: when it
\* counts the whole plan, every part was sent and every order is known.
LEMMA IdentifiedMeansKnown ==
    ASSUME RecordingInv, FullyIdentified(plan, saved)
    PROVE  AllKnown
<1>1. /\ plan \in Seq(Intent) /\ unsent \in Seq(Seq(Tags)) /\ results \in Seq(Sent)
      /\ \A b \in DOMAIN unsent : \A j \in DOMAIN unsent[b] : PartOf(plan, unsent[b][j])
      /\ \A k \in DOMAIN results : PartOf(plan, results[k])
      /\ \A i \in DOMAIN plan : SentOf(results, i) + Total(unsent, OfIntent(i)) = plan[i].qty
      /\ Known(plan, saved, results)
  BY DEF RecordingInv, Progress
<1> DEFINE I == DOMAIN plan
           R == DOMAIN results
           S == DOMAIN saved
           size == [k \in R |-> results[k].qty]
           own == [k \in R |-> results[k].intent]
           given == [k \in S |-> saved[k].intent]
           asked == [i \in I |-> plan[i].qty]
           sent == [i \in I |-> SentOf(results, i)]
<1>2. IsFiniteSet(I) /\ IsFiniteSet(R) /\ S \in SUBSET R /\ IsFiniteSet(S)
  <2>1. /\ I = 1 .. Len(plan) /\ Len(plan) \in Nat
        /\ R = 1 .. Len(results) /\ Len(results) \in Nat
    BY <1>1
  <2>2. IsFiniteSet(I) /\ IsFiniteSet(R)
    BY <2>1, FS_Interval
  <2>3. S \in SUBSET R
    BY <1>1 DEF Known
  <2>4. QED
    BY <2>2, <2>3, FS_Subset
<1>3. /\ \A k \in R : /\ size[k] = results[k].qty /\ size[k] \in Nat \ {0}
                      /\ size[k] \in Nat /\ size[k] \in Int
                      /\ own[k] = results[k].intent /\ own[k] \in I
      /\ \A k \in S : /\ given[k] = saved[k].intent /\ given[k] \in I
                      /\ size[k] = saved[k].qty /\ size[k] \in Int
      /\ \A i \in I : /\ asked[i] = plan[i].qty /\ asked[i] \in Nat /\ asked[i] \in Int
                      /\ sent[i] = SentOf(results, i) /\ sent[i] \in Nat /\ sent[i] \in Int
                      /\ Total(unsent, OfIntent(i)) \in Nat
                      /\ sent[i] + Total(unsent, OfIntent(i)) = asked[i]
                      /\ sent[i] <= asked[i]
  <2>1. ASSUME NEW k \in R
        PROVE  /\ size[k] = results[k].qty /\ size[k] \in Nat \ {0}
               /\ size[k] \in Nat /\ size[k] \in Int
               /\ own[k] = results[k].intent /\ own[k] \in I
    <3>1. results[k].qty \in Nat \ {0} /\ results[k].qty \in Nat
      BY <1>1, SentIsPart
    <3>2. results[k].intent \in I
      BY <1>1 DEF PartOf
    <3>3. QED
      BY <3>1, <3>2
  <2>2. ASSUME NEW k \in S
        PROVE  /\ given[k] = saved[k].intent /\ given[k] \in I
               /\ size[k] = saved[k].qty /\ size[k] \in Int
    <3>1. k \in R /\ saved[k].qty = results[k].qty /\ saved[k].intent \in I
      BY <1>1 DEF Known
    <3>2. QED
      BY <2>1, <3>1
  <2>3. ASSUME NEW i \in I
        PROVE  /\ asked[i] = plan[i].qty /\ asked[i] \in Nat /\ asked[i] \in Int
               /\ sent[i] = SentOf(results, i) /\ sent[i] \in Nat /\ sent[i] \in Int
               /\ Total(unsent, OfIntent(i)) \in Nat
               /\ sent[i] + Total(unsent, OfIntent(i)) = asked[i]
               /\ sent[i] <= asked[i]
    <3>1. plan[i].qty \in Nat
      <4>1. plan[i] \in Intent
        BY <1>1
      <4>2. QED
        BY <4>1 DEF Intent
    <3>2. SentOf(results, i) \in Nat
      BY <1>1, SentIsPart
    <3>3. Total(unsent, OfIntent(i)) \in Nat
      BY <1>1, PartsOf, TagsAreOrderLike
    <3>4. SentOf(results, i) + Total(unsent, OfIntent(i)) = plan[i].qty
      BY <1>1
    <3>5. QED
      BY <3>1, <3>2, <3>3, <3>4
  <2>4. QED
    BY <2>1, <2>2, <2>3
<1>4. SumFunctionOnSet(asked, I) = SumFunctionOnSet(size, S)
  <2>1. SumFunctionOnSet(ByClass(S, I, given, size, S), I) = SumFunctionOnSet(size, S)
    <3>1. \A k \in S : given[k] \in I /\ size[k] \in Int
      BY <1>3
    <3> HIDE DEF S, I, given, size
    <3>2. QED
      BY <1>2, <3>1, SumByClass
  <2>2. ASSUME NEW i \in I PROVE asked[i] = ByClass(S, I, given, size, S)[i]
    <3>1. asked[i] = QuantityOf(saved, i)
      BY <1>3 DEF FullyIdentified, Allocated
    <3>2. [k \in S |-> IF saved[k].intent = i THEN saved[k].qty ELSE 0]
              = ClassOf(S, given, size, i)
      <4>1. \A k \in S : (IF saved[k].intent = i THEN saved[k].qty ELSE 0)
                            = (IF given[k] = i THEN size[k] ELSE 0)
        BY <1>3
      <4> HIDE DEF S, given, size
      <4>2. QED
        BY <4>1 DEF ClassOf
    <3>3. QuantityOf(saved, i) = SumFunctionOnSet(ClassOf(S, given, size, i), S)
      <4>1. QuantityOf(saved, i)
                = SumFunction([k \in S |-> IF saved[k].intent = i THEN saved[k].qty ELSE 0])
        BY DEF QuantityOf
      <4>2. PICK f : f = [k \in S |-> IF saved[k].intent = i THEN saved[k].qty ELSE 0]
        OBVIOUS
      <4>3. SumFunction(f) = SumFunctionOnSet(f, S)
        BY <4>2 DEF SumFunction
      <4>4. QED
        BY <3>2, <4>1, <4>2, <4>3
    <3>4. QED
      BY <3>1, <3>3 DEF ByClass
  <2>3. SumFunctionOnSet(asked, I) = SumFunctionOnSet(ByClass(S, I, given, size, S), I)
    BY <1>2, <1>3, <2>2, SumSame
  <2>4. QED
    BY <2>1, <2>3
<1>5. SumFunctionOnSet(sent, I) = SumFunctionOnSet(size, R)
  <2>1. SumFunctionOnSet(ByClass(R, I, own, size, R), I) = SumFunctionOnSet(size, R)
    <3>1. \A k \in R : own[k] \in I /\ size[k] \in Int
      BY <1>3
    <3> HIDE DEF R, I, own, size
    <3>2. QED
      BY <1>2, <3>1, SumByClass
  <2>2. ASSUME NEW i \in I PROVE sent[i] = ByClass(R, I, own, size, R)[i]
    <3>1. ShareOf(results, Own(results), i) = ClassOf(R, own, size, i)
      BY DEF ShareOf, Own, ClassOf
    <3>2. sent[i] = SumFunctionOnSet(ShareOf(results, Own(results), i), R)
      BY <1>3 DEF SentOf, Share
    <3>3. QED
      BY <3>1, <3>2 DEF ByClass
  <2>3. SumFunctionOnSet(sent, I) = SumFunctionOnSet(ByClass(R, I, own, size, R), I)
    BY <1>2, <1>3, <2>2, SumSame
  <2>4. QED
    BY <2>1, <2>3
<1>6. /\ \A i \in I : sent[i] = asked[i]
      /\ \A k \in R \ S : size[k] = 0
  <2> HIDE DEF I, R, S, size, asked, sent
  <2>1. /\ SumFunctionOnSet(size, S) <= SumFunctionOnSet(size, R)
        /\ SumFunctionOnSet(size, S) = SumFunctionOnSet(size, R)
               => \A k \in R \ S : size[k] = 0
    BY <1>2, <1>3, SumSubset
  <2>2. SumFunctionOnSet(sent, I) <= SumFunctionOnSet(asked, I)
    BY <1>2, <1>3, SumMonotone
  <2>3. /\ SumFunctionOnSet(size, S) \in Int /\ SumFunctionOnSet(size, R) \in Int
    BY <1>2, <1>3, SumInt
  <2>4. /\ SumFunctionOnSet(size, S) = SumFunctionOnSet(size, R)
        /\ SumFunctionOnSet(sent, I) = SumFunctionOnSet(asked, I)
    BY <1>4, <1>5, <2>1, <2>2, <2>3
  <2>5. \A i \in I : sent[i] = asked[i]
    BY <1>2, <1>3, <2>4, SumEqual
  <2>6. QED
    BY <2>1, <2>4, <2>5
<1>7. ASSUME NEW b \in DOMAIN unsent PROVE unsent[b] = <<>>
  <2>1. ASSUME NEW j \in DOMAIN unsent[b] PROVE FALSE
    <3>1. PICK o \in Tags : o = unsent[b][j]
      BY <1>1
    <3>2. PICK i \in I : i = o.intent
      BY <1>1, <3>1 DEF PartOf
    <3>3. AmountOf(o, OfIntent(i)) = o.qty /\ o.qty \in Nat \ {0}
      BY <3>2, AmountOfIntent DEF Tags
    <3>4. AmountOf(o, OfIntent(i)) <= Total(unsent, OfIntent(i))
      BY <1>1, <3>1, TotalOfKind, TagsAreOrderLike
    <3>5. Total(unsent, OfIntent(i)) = 0
      BY <1>3, <1>6
    <3>6. QED
      BY <3>3, <3>4, <3>5
  <2>2. unsent[b] \in Seq(Tags)
    BY <1>1
  <2>3. DOMAIN unsent[b] = {}
    BY <2>1
  <2>4. QED
    BY <2>2, <2>3
<1>8. ASSUME NEW k \in R PROVE results[k].id # NoId
  <2>1. k \in S
    BY <1>3, <1>6
  <2>2. QED
    BY <1>1, <2>1 DEF Known
<1>9. QED
  BY <1>7, <1>8 DEF AllKnown, AllSent, Identified

\* Where orders go out in order, the store counts all that is known.
LEMMA KnownMeansIdentified ==
    ASSUME RecordingInv, Orderly(plan), AllKnown
    PROVE  FullyIdentified(plan, saved)
<1>1. /\ unsent \in Seq(Seq(Tags)) /\ results \in Seq(Sent)
      /\ \A i \in DOMAIN plan : SentOf(results, i) + Total(unsent, OfIntent(i)) = plan[i].qty
  BY DEF RecordingInv, Progress
<1>2. \A b \in DOMAIN unsent : \A j \in DOMAIN unsent[b] : FALSE
  BY DEF AllKnown, AllSent
<1>3. ASSUME NEW i \in DOMAIN plan PROVE Allocated(plan, saved)[i] = plan[i].qty
  <2>1. Total(unsent, OfIntent(i)) = 0
    BY <1>1, <1>2, TotalOfKind, TagsAreOrderLike
  <2>2. Allocated(plan, saved)[i] = Share(results, Own(results), i, Identified)
    BY IdentifiedShare
  <2>3. Allocated(plan, saved)[i] = SentOf(results, i)
    BY <2>2 DEF SentOf, AllKnown
  <2>4. SentOf(results, i) \in Nat
    BY <1>1, SentIsPart
  <2>5. QED
    BY <1>1, <2>1, <2>3, <2>4
<1>4. QED
  BY <1>3 DEF FullyIdentified

LEMMA ExactlyIdentified == RecordingInv => FullyIdentifiedExactly
BY IdentifiedMeansKnown, KnownMeansIdentified, InTurnIsOrderly DEF FullyIdentifiedExactly

-----------------------------------------------------------------------------
(***************************************************************************)
(* Balancing: what is allocated to the two sides.                          *)
(***************************************************************************)
LEMMA SumScaled ==
    ASSUME NEW f, NEW g, NEW S, IsFiniteSet(S), NEW k \in Int,
           \A x \in S : f[x] \in Int /\ g[x] = k * f[x]
    PROVE  SumFunctionOnSet(g, S) = k * SumFunctionOnSet(f, S)
<1> DEFINE G == {T \in SUBSET S : SumFunctionOnSet(g, T) = k * SumFunctionOnSet(f, T)}
<1>1. {} \in G
  BY SumEmpty
<1>2. ASSUME NEW T \in SUBSET S, T \in G, NEW x \in S \ T PROVE T \cup {x} \in G
  <2>1. IsFiniteSet(T) /\ T \cup {x} \in SUBSET S
    BY FS_Subset
  <2>2. k * f[x] \in Int
    BY <1>2
  <2>3. /\ SumFunctionOnSet(f, T \cup {x}) = f[x] + SumFunctionOnSet(f, T)
        /\ SumFunctionOnSet(g, T \cup {x}) = g[x] + SumFunctionOnSet(g, T)
    BY <2>1, <2>2, SumInsert
  <2>4. SumFunctionOnSet(f, T) \in Int
    BY <2>1, SumInt
  <2>5. PICK a \in Int, b \in Int : a = f[x] /\ b = SumFunctionOnSet(f, T)
    BY <2>4
  <2>6. g[x] = k * a /\ SumFunctionOnSet(g, T) = k * b
    BY <1>2, <2>5
  <2>7. k * (a + b) = k * a + k * b
    OBVIOUS
  <2>8. SumFunctionOnSet(g, T \cup {x}) = k * SumFunctionOnSet(f, T \cup {x})
    BY <2>3, <2>5, <2>6, <2>7
  <2>9. QED
    BY <2>1, <2>8
<1>3. S \in G
  <2> HIDE DEF G
  <2>1. QED
    BY <1>1, <1>2, FiniteSetInduction
<1>4. QED
  BY <1>3

OnSide(w, side) == {i \in 1 .. Size : IF side = "BUY" THEN w[i] > 0 ELSE w[i] < 0}
ValueOf(p, l) == [i \in 1 .. Size |-> l[i] * p[i]]
TotalOf(w, p, l, side) == SumFunctionOnSet(ValueOf(p, l), OnSide(w, side))
ShareOfWeight(w) == [i \in 1 .. Size |-> Balancing!Magnitude(w[i])]
BudgetOf(w, side) == Scale * SumFunctionOnSet(ShareOfWeight(w), OnSide(w, side))

LEMMA SidesOf ==
    ASSUME NEW w \in [1 .. Size -> Int], NEW p \in [1 .. Size -> Nat],
           NEW l \in [1 .. Size -> Nat], NEW side \in {"BUY", "SELL"}
    PROVE  /\ IsFiniteSet(OnSide(w, side)) /\ OnSide(w, side) \in SUBSET (1 .. Size)
           /\ \A i \in 1 .. Size : /\ ValueOf(p, l)[i] = l[i] * p[i]
                                   /\ ValueOf(p, l)[i] \in Nat
                                   /\ ShareOfWeight(w)[i] = Balancing!Magnitude(w[i])
                                   /\ ShareOfWeight(w)[i] \in Nat
           /\ TotalOf(w, p, l, side) \in Nat
           /\ BudgetOf(w, side) \in Nat
           /\ OnSide(w, "BUY") \cap OnSide(w, "SELL") = {}
<1>1. IsFiniteSet(1 .. Size) /\ OnSide(w, side) \in SUBSET (1 .. Size)
  BY BalancingAssumption, FS_Interval DEF OnSide
<1>2. IsFiniteSet(OnSide(w, side))
  BY <1>1, FS_Subset
<1>3. \A i \in 1 .. Size : l[i] \in Nat /\ p[i] \in Nat /\ w[i] \in Int
  OBVIOUS
<1>4. \A i \in 1 .. Size : l[i] * p[i] \in Nat /\ Balancing!Magnitude(w[i]) \in Nat
  <2> TAKE i \in 1 .. Size
  <2>1. PICK a \in Nat, b \in Nat, c \in Int : a = l[i] /\ b = p[i] /\ c = w[i]
    BY <1>3
  <2>2. a * b \in Nat /\ Balancing!Magnitude(c) \in Nat
    BY DEF Balancing!Magnitude
  <2>3. QED
    BY <2>1, <2>2
<1>5. \A i \in 1 .. Size : /\ ValueOf(p, l)[i] = l[i] * p[i]
                           /\ ValueOf(p, l)[i] \in Nat
                           /\ ShareOfWeight(w)[i] = Balancing!Magnitude(w[i])
                           /\ ShareOfWeight(w)[i] \in Nat
  BY <1>4 DEF ValueOf, ShareOfWeight
<1>6. TotalOf(w, p, l, side) \in Nat
  <2>1. \A i \in OnSide(w, side) : ValueOf(p, l)[i] \in Nat
    BY <1>1, <1>5
  <2>2. QED
    BY <1>2, <2>1, SumNat DEF TotalOf
<1>7. BudgetOf(w, side) \in Nat
  <2>1. \A i \in OnSide(w, side) : ShareOfWeight(w)[i] \in Nat
    BY <1>1, <1>5
  <2>2. SumFunctionOnSet(ShareOfWeight(w), OnSide(w, side)) \in Nat
    BY <1>2, <2>1, SumNat
  <2>3. PICK s \in Nat : s = SumFunctionOnSet(ShareOfWeight(w), OnSide(w, side))
    BY <2>2
  <2>4. Scale * s \in Nat
    BY BalancingAssumption
  <2>5. QED
    BY <2>3, <2>4 DEF BudgetOf
<1>8. OnSide(w, "BUY") \cap OnSide(w, "SELL") = {}
  BY <1>3 DEF OnSide
<1>9. QED
  BY <1>1, <1>2, <1>5, <1>6, <1>7, <1>8

Moved(l, i, d) == [l EXCEPT ![i] = @ + d]

LotEffect(w, p, l, n, side, other, x) ==
    /\ n \in [1 .. Size -> Nat]
    /\ TotalOf(w, p, n, side) = TotalOf(w, p, l, side) + x
    /\ TotalOf(w, p, n, other) = TotalOf(w, p, l, other)

\* One lot more or less of one ticker changes its side's total by its price.
LEMMA OneLot ==
    ASSUME NEW w \in [1 .. Size -> Int], NEW p \in [1 .. Size -> Nat],
           NEW l \in [1 .. Size -> Nat], NEW side \in {"BUY", "SELL"},
           NEW other \in {"BUY", "SELL"}, other # side,
           NEW i \in OnSide(w, side), NEW d \in {-1, 1}, l[i] + d \in Nat
    PROVE  LotEffect(w, p, l, Moved(l, i, d), side, other, d * p[i])
<1> DEFINE n == Moved(l, i, d)
<1>1. i \in 1 .. Size
  BY DEF OnSide
<1>2. n \in [1 .. Size -> Nat] /\ n[i] = l[i] + d
      /\ \A j \in 1 .. Size : j # i => n[j] = l[j]
  BY <1>1 DEF Moved
<1> DEFINE S == OnSide(w, side)
           O == OnSide(w, other)
           f == ValueOf(p, l)
           g == ValueOf(p, n)
<1> HIDE DEF n
<1>3. /\ IsFiniteSet(S) /\ IsFiniteSet(O) /\ S \in SUBSET (1 .. Size)
      /\ O \in SUBSET (1 .. Size)
      /\ \A j \in 1 .. Size : f[j] = l[j] * p[j] /\ f[j] \in Nat
      /\ \A j \in 1 .. Size : g[j] = n[j] * p[j] /\ g[j] \in Nat
  <2>1. \A v \in [1 .. Size -> Nat], z \in {"BUY", "SELL"} :
            /\ IsFiniteSet(OnSide(w, z)) /\ OnSide(w, z) \in SUBSET (1 .. Size)
            /\ \A j \in 1 .. Size : /\ ValueOf(p, v)[j] = v[j] * p[j]
                                    /\ ValueOf(p, v)[j] \in Nat
    BY SidesOf, ZenonT(30)
  <2>2. QED
    BY <1>2, <2>1
<1>4. i \notin O
  BY <1>1 DEF OnSide
<1>5. /\ TotalOf(w, p, l, side) = SumFunctionOnSet(f, S)
      /\ TotalOf(w, p, n, side) = SumFunctionOnSet(g, S)
      /\ TotalOf(w, p, l, other) = SumFunctionOnSet(f, O)
      /\ TotalOf(w, p, n, other) = SumFunctionOnSet(g, O)
  BY DEF TotalOf
<1> HIDE DEF f, g, O
<1>6. \A j \in 1 .. Size : j # i => f[j] = g[j]
  BY <1>2, <1>3
<1>7. g[i] - f[i] = d * p[i]
  <2>1. PICK a \in Nat, b \in Nat : a = l[i] /\ b = p[i]
    BY <1>1
  <2>2. (a + d) * b - a * b = d * b
    BY <2>1
  <2>3. QED
    BY <1>1, <1>2, <1>3, <2>1, <2>2
<1>8. SumFunctionOnSet(g, S) = SumFunctionOnSet(f, S) + (g[i] - f[i])
  <2>1. PICK F, H, T : F = f /\ H = g /\ T = S
    OBVIOUS
  <2>2. \A j \in T : F[j] \in Int /\ H[j] \in Int
    BY <1>3, <2>1
  <2>3. \A j \in T \ {i} : F[j] = H[j]
    BY <1>3, <1>6, <2>1
  <2>4. i \in T /\ IsFiniteSet(T)
    BY <1>3, <2>1
  <2>5. SumFunctionOnSet(H, T) = SumFunctionOnSet(F, T) + (H[i] - F[i])
    BY <2>2, <2>3, <2>4, SumChange
  <2>6. QED
    BY <2>1, <2>5
<1>9. SumFunctionOnSet(f, O) = SumFunctionOnSet(g, O)
  <2>1. \A j \in O : f[j] \in Int /\ f[j] = g[j]
    BY <1>3, <1>4, <1>6
  <2>2. QED
    BY <1>3, <2>1, SumSame
<1>10. QED
  BY <1>2, <1>5, <1>7, <1>8, <1>9 DEF LotEffect, n

\* Whole lots within every ticker's share stay within the budget.
LEMMA WholeLotsWithin ==
    ASSUME NEW w \in [1 .. Size -> Int], NEW p \in [1 .. Size -> Nat],
           NEW l \in [1 .. Size -> Nat], NEW side \in {"BUY", "SELL"},
           \A i \in 1 .. Size : l[i] * p[i] <= Scale * Balancing!Magnitude(w[i])
    PROVE  TotalOf(w, p, l, side) <= BudgetOf(w, side)
<1> DEFINE S == OnSide(w, side)
           f == ValueOf(p, l)
           s == ShareOfWeight(w)
<1>1. PICK g : g = [i \in 1 .. Size |-> Scale * s[i]]
  OBVIOUS
<1>2. /\ IsFiniteSet(S) /\ S \in SUBSET (1 .. Size)
      /\ \A i \in 1 .. Size : f[i] = l[i] * p[i] /\ f[i] \in Nat
      /\ \A i \in 1 .. Size : s[i] = Balancing!Magnitude(w[i]) /\ s[i] \in Nat
  BY SidesOf
<1>3. TotalOf(w, p, l, side) = SumFunctionOnSet(f, S)
      /\ BudgetOf(w, side) = Scale * SumFunctionOnSet(s, S)
  BY DEF TotalOf, BudgetOf
<1> HIDE DEF S, f, s
<1>4. \A i \in S : s[i] \in Int /\ g[i] = Scale * s[i]
  BY <1>1, <1>2
<1>5. \A i \in S : f[i] \in Int /\ g[i] \in Int /\ f[i] <= g[i]
  <2> TAKE i \in S
  <2>1. PICK a \in Nat : a = s[i] /\ a = Balancing!Magnitude(w[i])
    BY <1>2
  <2>2. Scale * a \in Int
    BY BalancingAssumption
  <2>3. g[i] = Scale * a /\ f[i] <= Scale * a /\ f[i] \in Int
    BY <1>2, <1>4, <2>1
  <2>4. QED
    BY <2>2, <2>3
<1>6. SumFunctionOnSet(g, S) = Scale * SumFunctionOnSet(s, S)
  <2>0. PICK F, T : F = s /\ T = S
    OBVIOUS
  <2>1. PICK k \in Int : F = s /\ T = S /\ k = Scale
    BY <2>0, BalancingAssumption
  <2>2. IsFiniteSet(T) /\ \A i \in T : F[i] \in Int /\ g[i] = k * F[i]
    BY <1>2, <1>4, <2>1
  <2>3. SumFunctionOnSet(g, T) = k * SumFunctionOnSet(F, T)
    BY <2>2, SumScaled
  <2>4. QED
    BY <2>1, <2>3
<1>7. SumFunctionOnSet(f, S) <= SumFunctionOnSet(g, S)
  BY <1>2, <1>5, SumMonotone
<1>8. QED
  BY <1>3, <1>6, <1>7

-----------------------------------------------------------------------------
(***************************************************************************)
(* The invariant of the balancing loop.  While it is over the limit, every *)
(* step so far took at least the smallest price off the net, which never   *)
(* exceeded a budget: that bounds the steps.                               *)
(***************************************************************************)
BalancingTyped ==
    /\ weight \in [1 .. Size -> Int] /\ lotPrice \in [1 .. Size -> Nat]
    /\ lots \in [1 .. Size -> Nat] /\ netLimit \in Nat
    /\ steps \in Nat /\ balancing \in BOOLEAN

BooksAgree == \A side \in {"BUY", "SELL"} :
           /\ TotalOf(weight, lotPrice, lots, side) <= BudgetOf(weight, side)
           /\ remaining[side] = BudgetOf(weight, side) - TotalOf(weight, lotPrice, lots, side)

RemainingTyped == remaining = [side \in {"BUY", "SELL"} |-> remaining[side]]

FineLots == \A i \in 1 .. Size : lotPrice[i] <= 2 * netLimit

Smallest(k, b) ==
    /\ \A i \in 1 .. Size : lotPrice[i] > 0 => k <= lotPrice[i]
    /\ \A side \in {"BUY", "SELL"} : BudgetOf(weight, side) <= b

FewSteps ==
    FineLots =>
        /\ Balancing!OverLimit => \A k \in Nat \ {0}, b \in Nat :
              Smallest(k, b) => Balancing!Magnitude(Balancing!Net) + k * steps <= b
        /\ Balancing!EnoughSteps => steps < MaxSteps /\ (~balancing => ~Balancing!OverLimit)

BalancingInv == BalancingTyped /\ RemainingTyped /\ BooksAgree /\ FewSteps

\* The module of the loop sums with an instance of the same definition.
LEMMA OneSum ==
    \A f, S : Balancing!SumFunctionOnSet(f, S) = SumFunctionOnSet(f, S)
BY DEF SumFunctionOnSet, FoldFunctionOnSet, MapThenFoldSet, Balancing!SumFunctionOnSet,
       Balancing!FoldFunctionOnSet, Balancing!MapThenFoldSet

LEMMA SidesHere ==
    /\ Balancing!Total("BUY") = TotalOf(weight, lotPrice, lots, "BUY")
    /\ Balancing!Total("SELL") = TotalOf(weight, lotPrice, lots, "SELL")
    /\ Balancing!Budget("BUY") = BudgetOf(weight, "BUY")
    /\ Balancing!Budget("SELL") = BudgetOf(weight, "SELL")
<1>1. /\ Balancing!On("BUY") = OnSide(weight, "BUY")
      /\ Balancing!On("SELL") = OnSide(weight, "SELL")
  BY DEF Balancing!On, Balancing!Indices, OnSide
<1>2. Balancing!Value = ValueOf(lotPrice, lots)
  BY DEF Balancing!Value, Balancing!Indices, ValueOf
<1>3. Balancing!Share = ShareOfWeight(weight)
  BY DEF Balancing!Share, Balancing!Indices, ShareOfWeight
<1>4. Balancing!Total("BUY") = TotalOf(weight, lotPrice, lots, "BUY")
  BY <1>1, <1>2, OneSum DEF Balancing!Total, TotalOf
<1>5. Balancing!Budget("BUY") = BudgetOf(weight, "BUY")
  BY <1>1, <1>3, OneSum DEF Balancing!Budget, BudgetOf
<1>6. Balancing!Total("SELL") = TotalOf(weight, lotPrice, lots, "SELL")
  BY <1>1, <1>2, OneSum DEF Balancing!Total, TotalOf
<1>7. Balancing!Budget("SELL") = BudgetOf(weight, "SELL")
  BY <1>1, <1>3, OneSum DEF Balancing!Budget, BudgetOf
<1>8. QED
  BY <1>4, <1>5, <1>6, <1>7

LEMMA SidesNext ==
    /\ (Balancing!Total("BUY"))' = TotalOf(weight', lotPrice', lots', "BUY")
    /\ (Balancing!Total("SELL"))' = TotalOf(weight', lotPrice', lots', "SELL")
    /\ (Balancing!Budget("BUY"))' = BudgetOf(weight', "BUY")
    /\ (Balancing!Budget("SELL"))' = BudgetOf(weight', "SELL")
<1>1. /\ (Balancing!On("BUY"))' = OnSide(weight', "BUY")
      /\ (Balancing!On("SELL"))' = OnSide(weight', "SELL")
  BY DEF Balancing!On, Balancing!Indices, OnSide
<1>2. (Balancing!Value)' = ValueOf(lotPrice', lots')
  BY DEF Balancing!Value, Balancing!Indices, ValueOf
<1>3. (Balancing!Share)' = ShareOfWeight(weight')
  BY DEF Balancing!Share, Balancing!Indices, ShareOfWeight
<1>4. (Balancing!Total("BUY"))' = TotalOf(weight', lotPrice', lots', "BUY")
  BY <1>1, <1>2, OneSum DEF Balancing!Total, TotalOf
<1>5. (Balancing!Budget("BUY"))' = BudgetOf(weight', "BUY")
  BY <1>1, <1>3, OneSum DEF Balancing!Budget, BudgetOf
<1>6. (Balancing!Total("SELL"))' = TotalOf(weight', lotPrice', lots', "SELL")
  BY <1>1, <1>2, OneSum DEF Balancing!Total, TotalOf
<1>7. (Balancing!Budget("SELL"))' = BudgetOf(weight', "SELL")
  BY <1>1, <1>3, OneSum DEF Balancing!Budget, BudgetOf
<1>8. QED
  BY <1>4, <1>5, <1>6, <1>7

LEMMA KeptIsWithin == BalancingInv => Balancing!WithinBudget
<1> SUFFICES ASSUME BalancingInv, NEW side \in {"BUY", "SELL"}
             PROVE  /\ Balancing!Total(side) <= Balancing!Budget(side)
                    /\ remaining[side] = Balancing!Budget(side) - Balancing!Total(side)
  BY DEF Balancing!WithinBudget, Balancing!Sides
<1>1. /\ TotalOf(weight, lotPrice, lots, side) <= BudgetOf(weight, side)
      /\ remaining[side] = BudgetOf(weight, side) - TotalOf(weight, lotPrice, lots, side)
  BY DEF BalancingInv, BooksAgree
<1>2. CASE side = "BUY"
  BY <1>1, <1>2, SidesHere
<1>3. CASE side = "SELL"
  BY <1>1, <1>3, SidesHere
<1>4. QED
  BY <1>2, <1>3

\* The larger side of a difference has a lot to give.
LEMMA NeverStuckHere ==
    ASSUME BalancingTyped, Balancing!OverLimit
    PROVE  Balancing!CanRemove # {}
<1> DEFINE side == Balancing!Larger
           S == OnSide(weight, side)
           v == ValueOf(lotPrice, lots)
<1>1. side \in {"BUY", "SELL"}
  BY DEF Balancing!Larger
<1>2. /\ IsFiniteSet(S) /\ S \in SUBSET (1 .. Size)
      /\ \A i \in 1 .. Size : v[i] = lots[i] * lotPrice[i] /\ v[i] \in Nat
      /\ \A z \in {"BUY", "SELL"} : TotalOf(weight, lotPrice, lots, z) \in Nat
  <2>1. \A z \in {"BUY", "SELL"} :
            /\ IsFiniteSet(OnSide(weight, z)) /\ OnSide(weight, z) \in SUBSET (1 .. Size)
            /\ \A i \in 1 .. Size : v[i] = lots[i] * lotPrice[i] /\ v[i] \in Nat
            /\ TotalOf(weight, lotPrice, lots, z) \in Nat
    BY SidesOf DEF BalancingTyped
  <2> HIDE DEF v, side
  <2>2. QED
    BY <1>1, <2>1
<1>3. TotalOf(weight, lotPrice, lots, side) # 0
  <2>1. PICK b \in Nat, s \in Nat : /\ b = TotalOf(weight, lotPrice, lots, "BUY")
                                    /\ s = TotalOf(weight, lotPrice, lots, "SELL")
    BY <1>2
  <2>2. Balancing!Net = b - s
    BY <2>1, SidesHere DEF Balancing!Net
  <2>3. b - s # 0
    <3>1. netLimit \in Nat /\ Balancing!Magnitude(b - s) > netLimit
      BY <2>2 DEF Balancing!OverLimit, BalancingTyped
    <3>2. QED
      BY <3>1 DEF Balancing!Magnitude
  <2>4. CASE b - s > 0
    <3>1. side = "BUY"
      BY <2>2, <2>4 DEF Balancing!Larger
    <3> HIDE DEF side
    <3>2. QED
      BY <2>1, <2>4, <3>1
  <2>5. CASE ~(b - s > 0)
    <3>1. side = "SELL"
      BY <2>2, <2>5 DEF Balancing!Larger
    <3> HIDE DEF side
    <3>2. QED
      BY <2>1, <2>3, <2>5, <3>1
  <2>6. QED
    BY <2>4, <2>5
<1>4. PICK i \in S : v[i] # 0
  <2>1. TotalOf(weight, lotPrice, lots, side) = SumFunctionOnSet(v, S)
    BY DEF TotalOf
  <2> HIDE DEF v, S
  <2>2. QED
    BY <1>2, <1>3, <2>1, SumZero
<1>5. lots[i] > 0 /\ lotPrice[i] > 0
  <2>1. i \in 1 .. Size
    BY <1>2
  <2>2. PICK a \in Nat, b \in Nat : a = lots[i] /\ b = lotPrice[i]
    BY <2>1 DEF BalancingTyped
  <2>3. a * b # 0
    BY <1>2, <1>4, <2>1, <2>2
  <2>4. a # 0 /\ b # 0
    BY <2>3
  <2>5. QED
    BY <2>2, <2>4
<1>6. i \in Balancing!CanRemove
  BY <1>5 DEF Balancing!CanRemove, Balancing!Priced, Balancing!On, Balancing!Indices, OnSide
<1>7. QED
  BY <1>6

LEMMA NeverStuckInv == BalancingInv => Balancing!NeverStuck
BY NeverStuckHere DEF BalancingInv, Balancing!NeverStuck, Balancing!Candidates

LEMMA FewStepsConverge == BalancingInv => Balancing!FineLotsConverge
<1> SUFFICES ASSUME BalancingInv, \A i \in Balancing!Indices : lotPrice[i] <= 2 * netLimit,
                    Balancing!EnoughSteps
             PROVE  (~balancing => ~Balancing!OverLimit) /\ steps < MaxSteps
  BY DEF Balancing!FineLotsConverge
<1>1. FineLots
  BY DEF FineLots, Balancing!Indices
<1>2. QED
  BY <1>1 DEF BalancingInv, FewSteps

LEMMA BalancingInvConverges == BalancingInv => BalancingConverges
BY KeptIsWithin, NeverStuckInv, FewStepsConverge
   DEF BalancingConverges, Balancing!BalancingConverges

\* The best of some candidates is one of them.
LEMMA BestIsCandidate ==
    ASSUME BalancingTyped, NEW C \in SUBSET (1 .. Size), C # {}
    PROVE  Balancing!Best(C) \in C
<1>1. \A i \in C : Balancing!NetAfter(i) \in Nat /\ i \in Nat
  <2> TAKE i \in C
  <2>1. PICK n \in Int, p \in Nat : n = Balancing!Net /\ p = lotPrice[i]
    <3>1. Balancing!Net \in Int
      <4>1. \A z \in {"BUY", "SELL"} : TotalOf(weight, lotPrice, lots, z) \in Nat
        BY SidesOf DEF BalancingTyped
      <4>2. PICK b \in Nat, s \in Nat : /\ b = TotalOf(weight, lotPrice, lots, "BUY")
                                        /\ s = TotalOf(weight, lotPrice, lots, "SELL")
        BY <4>1
      <4>3. QED
        BY <4>2, SidesHere DEF Balancing!Net
    <3>2. lotPrice[i] \in Nat
      BY DEF BalancingTyped
    <3>3. QED
      BY <3>1, <3>2
  <2>2. Balancing!NetAfter(i) = Balancing!Magnitude(Balancing!Magnitude(n) - p)
    BY <2>1 DEF Balancing!NetAfter
  <2>3. Balancing!Magnitude(Balancing!Magnitude(n) - p) \in Nat
    BY DEF Balancing!Magnitude
  <2>4. QED
    BY <2>2, <2>3
<1> DEFINE After == {Balancing!NetAfter(i) : i \in C}
<1>2. PICK x \in After : \A y \in After : x <= y
  <2>1. After \in SUBSET Nat /\ After # {}
    BY <1>1
  <2> HIDE DEF After
  <2>2. QED
    BY <2>1, LeastNat
<1> DEFINE Bests == {i \in C : Balancing!NetAfter(i) = x}
<1>3. PICK i \in Bests : \A j \in Bests : i <= j
  <2>1. Bests \in SUBSET Nat /\ Bests # {}
    BY <1>1, <1>2
  <2> HIDE DEF Bests
  <2>2. QED
    BY <2>1, LeastNat
<1>4. i \in C /\ Balancing!NetAfter(i) = x
  BY <1>3
<1>5. ASSUME NEW j \in C
      PROVE  \/ Balancing!NetAfter(i) < Balancing!NetAfter(j)
             \/ Balancing!NetAfter(i) = Balancing!NetAfter(j) /\ i <= j
  <2>1. Balancing!NetAfter(j) \in Nat /\ x \in Nat /\ x <= Balancing!NetAfter(j)
    BY <1>1, <1>2
  <2>2. Balancing!NetAfter(j) = x => i <= j
    BY <1>3
  <2>3. QED
    BY <1>4, <2>1, <2>2
<1>6. QED
  BY <1>4, <1>5 DEF Balancing!Best

LEMMA BalancingStarts == Balancing!Init => BalancingInv
<1> SUFFICES ASSUME Balancing!Init PROVE BalancingInv
  OBVIOUS
<1>1. /\ weight \in [1 .. Size -> Int] /\ lotPrice \in [1 .. Size -> Nat]
      /\ netLimit \in Nat /\ steps = 0 /\ balancing = TRUE
      /\ lots = [i \in 1 .. Size |-> Balancing!InitialLots(i)]
  BY BalancingAssumption DEF Balancing!Init, Balancing!Indices
<1>2. ASSUME NEW i \in 1 .. Size
      PROVE  /\ Balancing!InitialLots(i) \in Nat
             /\ Balancing!InitialLots(i) * lotPrice[i]
                    <= Scale * Balancing!Magnitude(weight[i])
  <2>1. PICK w \in Int, p \in Nat : w = weight[i] /\ p = lotPrice[i]
    BY <1>1
  <2>2. PICK m \in Nat : m = Scale * Balancing!Magnitude(w)
    <3>1. PICK a \in Nat : a = Balancing!Magnitude(w)
      BY DEF Balancing!Magnitude
    <3>2. Scale * a \in Nat
      BY BalancingAssumption
    <3>3. QED
      BY <3>1, <3>2
  <2>3. CASE w = 0 \/ p = 0
    <3>1. Balancing!InitialLots(i) = 0
      BY <2>1, <2>3 DEF Balancing!InitialLots
    <3>2. 0 * p = 0
      OBVIOUS
    <3>3. QED
      BY <2>1, <2>2, <3>1, <3>2
  <2>4. CASE w # 0 /\ p # 0
    <3>1. Balancing!InitialLots(i) = m \div p
      BY <2>1, <2>2, <2>4 DEF Balancing!InitialLots
    <3>2. PICK q \in Int : q = m \div p /\ p * q <= m /\ m < p * (q + 1)
      <4>1. m \div p \in Int /\ p * (m \div p) <= m /\ m < p * ((m \div p) + 1)
        BY <2>4
      <4>2. QED
        BY <4>1
    <3>3. q \in Nat
      <4> SUFFICES ASSUME q < 0 PROVE FALSE
        OBVIOUS
      <4>1. q + 1 <= 0
        OBVIOUS
      <4>2. PICK z \in Nat : q + 1 = -z
        <5>1. -(q + 1) \in Nat /\ q + 1 = -(-(q + 1))
          BY <4>1
        <5>2. QED
          BY <5>1
      <4>3. p * (-z) = -(p * z) /\ p * z \in Nat
        OBVIOUS
      <4>4. QED
        BY <3>2, <4>2, <4>3
    <3>4. q * p = p * q
      OBVIOUS
    <3>5. QED
      BY <2>1, <2>2, <3>1, <3>2, <3>3, <3>4
  <2>5. QED
    BY <2>3, <2>4
<1>3. lots \in [1 .. Size -> Nat] /\ \A i \in 1 .. Size : lots[i] = Balancing!InitialLots(i)
  BY <1>1, <1>2
<1>4. BalancingTyped
  BY <1>1, <1>3 DEF BalancingTyped
<1>5. \A side \in {"BUY", "SELL"} :
          TotalOf(weight, lotPrice, lots, side) <= BudgetOf(weight, side)
  <2>1. \A i \in 1 .. Size : lots[i] * lotPrice[i] <= Scale * Balancing!Magnitude(weight[i])
    BY <1>2, <1>3
  <2>2. QED
    BY <1>1, <1>3, <2>1, WholeLotsWithin
<1>6. remaining = [side \in {"BUY", "SELL"} |-> Balancing!Budget(side) - Balancing!Total(side)]
  BY DEF Balancing!Init, Balancing!Sides
<1>7. RemainingTyped
  BY <1>6 DEF RemainingTyped
<1>8. /\ remaining["BUY"] = BudgetOf(weight, "BUY") - TotalOf(weight, lotPrice, lots, "BUY")
      /\ remaining["SELL"] = BudgetOf(weight, "SELL") - TotalOf(weight, lotPrice, lots, "SELL")
  BY <1>6, SidesHere
<1>9. BooksAgree
  BY <1>5, <1>8 DEF BooksAgree
<1>10. FewSteps
  <2>1. \A z \in {"BUY", "SELL"} : TotalOf(weight, lotPrice, lots, z) \in Nat
                                   /\ BudgetOf(weight, z) \in Nat
    BY <1>1, <1>3, SidesOf
  <2>2. PICK b \in Nat, s \in Nat : /\ b = TotalOf(weight, lotPrice, lots, "BUY")
                                    /\ s = TotalOf(weight, lotPrice, lots, "SELL")
    BY <2>1
  <2>3. Balancing!Net = b - s
    BY <2>2, SidesHere DEF Balancing!Net
  <2>4. ASSUME NEW k \in Nat \ {0}, NEW c \in Nat, Smallest(k, c)
        PROVE  Balancing!Magnitude(Balancing!Net) + k * steps <= c
    <3>1. b <= c /\ s <= c
      BY <1>5, <2>1, <2>2, <2>4 DEF Smallest
    <3>2. k * steps = 0
      BY <1>1
    <3>3. Balancing!Magnitude(b - s) <= c /\ Balancing!Magnitude(b - s) \in Nat
      BY <3>1 DEF Balancing!Magnitude
    <3>4. QED
      BY <2>3, <3>2, <3>3
  <2>5. steps < MaxSteps
    BY <1>1, BalancingAssumption
  <2>6. QED
    BY <1>1, <2>4, <2>5 DEF FewSteps
<1>11. QED
  BY <1>4, <1>7, <1>9, <1>10 DEF BalancingInv

LEMMA NetHere ==
    ASSUME BalancingTyped
    PROVE  /\ Balancing!Net \in Int
           /\ Balancing!Net = TotalOf(weight, lotPrice, lots, "BUY")
                                  - TotalOf(weight, lotPrice, lots, "SELL")
           /\ \A z \in {"BUY", "SELL"} : /\ TotalOf(weight, lotPrice, lots, z) \in Nat
                                         /\ BudgetOf(weight, z) \in Nat
<1>1. \A z \in {"BUY", "SELL"} : /\ TotalOf(weight, lotPrice, lots, z) \in Nat
                                 /\ BudgetOf(weight, z) \in Nat
  BY SidesOf DEF BalancingTyped
<1>2. Balancing!Net = TotalOf(weight, lotPrice, lots, "BUY")
                          - TotalOf(weight, lotPrice, lots, "SELL")
  BY SidesHere DEF Balancing!Net
<1>3. QED
  BY <1>1, <1>2

\* A move of a lot no larger than the band either ends within the limit or
\* takes the whole price off the net.
LEMMA MovedFewSteps ==
    ASSUME BalancingInv, Balancing!OverLimit, balancing, NEW i \in 1 .. Size, lotPrice[i] > 0,
           (Balancing!Magnitude(Balancing!Net))' = Balancing!NetAfter(i),
           weight' = weight, lotPrice' = lotPrice, netLimit' = netLimit,
           steps' = steps + 1, balancing' = balancing
    PROVE  FewSteps'
<1> SUFFICES ASSUME FineLots'
             PROVE  /\ (Balancing!OverLimit)' => \A k \in Nat \ {0}, b \in Nat :
                          Smallest(k, b)' =>
                              (Balancing!Magnitude(Balancing!Net))' + k * steps' <= b
                    /\ (Balancing!EnoughSteps)' =>
                          steps' < MaxSteps /\ (~balancing' => ~(Balancing!OverLimit)')
  BY DEF FewSteps
<1>1. FineLots
  BY DEF FineLots
<1>2. PICK n \in Nat, p \in Nat \ {0}, l \in Nat, s \in Nat :
          /\ n = Balancing!Magnitude(Balancing!Net) /\ p = lotPrice[i] /\ l = netLimit
          /\ s = steps
  <2>1. Balancing!Magnitude(Balancing!Net) \in Nat
    <3>1. PICK z \in Int : z = Balancing!Net
      BY NetHere DEF BalancingInv
    <3>2. Balancing!Magnitude(z) \in Nat
      BY DEF Balancing!Magnitude
    <3>3. QED
      BY <3>1, <3>2
  <2>2. lotPrice[i] \in Nat \ {0} /\ netLimit \in Nat /\ steps \in Nat
    BY DEF BalancingInv, BalancingTyped
  <2>3. QED
    BY <2>1, <2>2
<1>3. n > l /\ p <= 2 * l
  BY <1>1, <1>2 DEF Balancing!OverLimit, FineLots
<1>4. (Balancing!Magnitude(Balancing!Net))' = Balancing!Magnitude(n - p)
  BY <1>2 DEF Balancing!NetAfter
<1>5. (Balancing!OverLimit)' <=> Balancing!Magnitude(n - p) > l
  BY <1>2, <1>4 DEF Balancing!OverLimit
<1>6. (Balancing!OverLimit)' => Balancing!Magnitude(n - p) = n - p
  BY <1>3, <1>5 DEF Balancing!Magnitude
<1>7. ASSUME NEW k \in Nat \ {0}, NEW b \in Nat, Smallest(k, b)
      PROVE  n + k * s <= b
  BY <1>1, <1>2, <1>7 DEF BalancingInv, FewSteps
<1>8. ASSUME (Balancing!OverLimit)', NEW k \in Nat \ {0}, NEW b \in Nat, Smallest(k, b)'
      PROVE  (Balancing!Magnitude(Balancing!Net))' + k * steps' <= b
  <2>1. Smallest(k, b)
    BY <1>8 DEF Smallest
  <2>2. n + k * s <= b
    BY <1>7, <2>1
  <2>3. k <= p
    BY <1>2, <2>1 DEF Smallest
  <2>4. PICK m \in Nat : m = k * s
    OBVIOUS
  <2>5. k * (s + 1) = m + k
    BY <2>4
  <2>6. (n - p) + (m + k) <= b
    BY <2>2, <2>3, <2>4
  <2>7. QED
    BY <1>2, <1>4, <1>6, <1>8, <2>5, <2>6
<1>9. ASSUME (Balancing!EnoughSteps)' PROVE steps' < MaxSteps
  <2> DEFINE Paid == {lotPrice[j] : j \in {j \in 1 .. Size : lotPrice[j] > 0}}
  <2>1. PICK k \in Paid : \A x \in Paid : k <= x
    <3>1. Paid \in SUBSET Nat
      BY DEF BalancingInv, BalancingTyped
    <3>2. lotPrice[i] \in Paid
      OBVIOUS
    <3> HIDE DEF Paid
    <3>3. QED
      BY <3>1, <3>2, LeastNat
  <2>2. PICK j \in 1 .. Size : lotPrice[j] > 0 /\ k = lotPrice[j]
    BY <2>1
  <2>3. k \in Nat \ {0} /\ MaxSteps - 1 \in Nat
    BY <2>2, BalancingAssumption DEF BalancingInv, BalancingTyped
  <2>4. Balancing!EnoughSteps
    <3>1. /\ (Balancing!Budget("BUY"))' = Balancing!Budget("BUY")
          /\ (Balancing!Budget("SELL"))' = Balancing!Budget("SELL")
      BY SidesHere, SidesNext
    <3>2. QED
      BY <1>9, <3>1 DEF Balancing!EnoughSteps, Balancing!Sides, Balancing!Indices
  <2>5. PICK b \in Nat : b = k * (MaxSteps - 1)
    BY <2>3
  <2>6. Smallest(k, b)
    <3>1. /\ Balancing!Budget("BUY") <= k * (MaxSteps - 1)
          /\ Balancing!Budget("SELL") <= k * (MaxSteps - 1)
      BY <2>2, <2>4 DEF Balancing!EnoughSteps, Balancing!Sides, Balancing!Indices
    <3>2. \A side \in {"BUY", "SELL"} : BudgetOf(weight, side) <= b
      BY <2>5, <3>1, SidesHere
    <3>3. \A h \in 1 .. Size : lotPrice[h] > 0 => k <= lotPrice[h]
      BY <2>1
    <3>4. QED
      BY <3>2, <3>3 DEF Smallest
  <2>7. n + k * s <= b
    BY <1>7, <2>3, <2>6
  <2>8. PICK t \in Nat : t = MaxSteps - 1
    BY <2>3
  <2>9. s < t
    <3> SUFFICES ASSUME s >= t PROVE FALSE
      OBVIOUS
    <3>1. PICK e \in Nat : s = t + e
      <4>1. s - t \in Nat /\ s = t + (s - t)
        OBVIOUS
      <4>2. QED
        BY <4>1
    <3>2. k * s = k * t + k * e /\ k * e \in Nat /\ k * t \in Nat
      BY <2>3, <3>1
    <3>3. QED
      BY <1>3, <2>5, <2>7, <2>8, <3>2
  <2>10. QED
    BY <1>2, <2>8, <2>9, BalancingAssumption
<1>10. QED
  BY <1>8, <1>9

\* Moving one lot keeps the invariant.
LEMMA LotMoved ==
    ASSUME BalancingInv, Balancing!OverLimit, balancing, NEW d \in {-1, 1},
           NEW side \in {"BUY", "SELL"}, NEW other \in {"BUY", "SELL"}, other # side,
           side = IF d = 1 THEN Balancing!Smaller ELSE Balancing!Larger,
           NEW i \in OnSide(weight, side), lotPrice[i] > 0, lots[i] + d \in Nat,
           d * lotPrice[i] <= remaining[side],
           lots' = [lots EXCEPT ![i] = @ + d],
           remaining' = [remaining EXCEPT ![side] = @ - d * lotPrice[i]],
           steps' = steps + 1, balancing' = balancing,
           weight' = weight, lotPrice' = lotPrice, netLimit' = netLimit
    PROVE  BalancingInv'
<1>1. /\ BalancingTyped /\ RemainingTyped /\ BooksAgree
      /\ weight \in [1 .. Size -> Int] /\ lotPrice \in [1 .. Size -> Nat]
      /\ lots \in [1 .. Size -> Nat]
  BY DEF BalancingInv, BalancingTyped
<1>2. /\ lots' \in [1 .. Size -> Nat]
      /\ TotalOf(weight, lotPrice, lots', side)
             = TotalOf(weight, lotPrice, lots, side) + d * lotPrice[i]
      /\ TotalOf(weight, lotPrice, lots', other) = TotalOf(weight, lotPrice, lots, other)
  <2>1. PICK w \in [1 .. Size -> Int], p \in [1 .. Size -> Nat], l \in [1 .. Size -> Nat] :
            w = weight /\ p = lotPrice /\ l = lots
    BY <1>1
  <2>2. PICK n : n = Moved(l, i, d)
    OBVIOUS
  <2>3. i \in OnSide(w, side) /\ l[i] + d \in Nat
    BY <2>1
  <2>4. LotEffect(w, p, l, n, side, other, d * p[i])
    BY <2>2, <2>3, OneLot
  <2>5. lots' = n
    BY <2>1, <2>2 DEF Moved
  <2>6. QED
    BY <2>1, <2>4, <2>5 DEF LotEffect
<1>3. PICK a \in Nat, o \in Nat, p \in Nat, x \in Int :
          /\ a = TotalOf(weight, lotPrice, lots, side)
          /\ o = TotalOf(weight, lotPrice, lots, other)
          /\ p = lotPrice[i] /\ x = d * p
  <2>1. i \in 1 .. Size
    BY DEF OnSide
  <2>2. PICK p \in Nat : p = lotPrice[i]
    BY <1>1, <2>1
  <2>3. d * p \in Int
    OBVIOUS
  <2>4. QED
    BY <1>1, <2>2, <2>3, NetHere
<1>4. BalancingTyped'
  BY <1>1, <1>2 DEF BalancingTyped
<1>5. RemainingTyped' /\ remaining'[side] = remaining[side] - x
      /\ remaining'[other] = remaining[other]
  <2>1. remaining = [z \in {"BUY", "SELL"} |-> remaining[z]]
    BY <1>1 DEF RemainingTyped
  <2>2. remaining' = [z \in {"BUY", "SELL"} |->
                         IF z = side THEN remaining[z] - x ELSE remaining[z]]
    BY <1>3, <2>1
  <2>3. QED
    BY <2>2 DEF RemainingTyped
<1>6. BooksAgree'
  <2>1. \A z \in {"BUY", "SELL"} : z = side \/ z = other
    OBVIOUS
  <2>2. PICK b \in Nat, c \in Nat : b = BudgetOf(weight, side) /\ c = BudgetOf(weight, other)
    BY <1>1, NetHere
  <2>3. /\ remaining[side] = b - a /\ remaining[other] = c - o /\ o <= c
    BY <1>1, <1>3, <2>2 DEF BooksAgree
  <2>4. /\ TotalOf(weight, lotPrice, lots', side) = a + x
        /\ TotalOf(weight, lotPrice, lots', other) = o
    BY <1>2, <1>3
  <2>5. /\ a + x <= b /\ remaining'[side] = b - (a + x) /\ remaining'[other] = c - o
    BY <1>3, <1>5, <2>3
  <2>6. \A z \in {"BUY", "SELL"} :
            /\ TotalOf(weight, lotPrice, lots', z) <= BudgetOf(weight, z)
            /\ remaining'[z] = BudgetOf(weight, z) - TotalOf(weight, lotPrice, lots', z)
    <3> TAKE z \in {"BUY", "SELL"}
    <3>1. CASE z = side
      BY <2>2, <2>4, <2>5, <3>1
    <3>2. CASE z = other
      BY <2>2, <2>3, <2>4, <2>5, <3>2
    <3>3. QED
      BY <2>1, <3>1, <3>2
  <2>7. QED
    BY <2>6 DEF BooksAgree
<1>7. (Balancing!Magnitude(Balancing!Net))' = Balancing!NetAfter(i)
  <2>1. Balancing!Net = TotalOf(weight, lotPrice, lots, "BUY")
                            - TotalOf(weight, lotPrice, lots, "SELL")
    BY <1>1, NetHere
  <2>2. (Balancing!Net)' = TotalOf(weight, lotPrice, lots', "BUY")
                               - TotalOf(weight, lotPrice, lots', "SELL")
    BY SidesNext DEF Balancing!Net
  <2>3. PICK n \in Int, m \in Int : n = Balancing!Net /\ m = (Balancing!Net)'
    <3>1. Balancing!Net \in Int
      BY <1>1, NetHere
    <3>2. (Balancing!Net)' \in Int
      <4>1. \A z \in {"BUY", "SELL"} : TotalOf(weight, lotPrice, lots', z) \in Nat
        BY <1>1, <1>2, SidesOf
      <4>2. QED
        BY <2>2, <4>1
    <3>3. QED
      BY <3>1, <3>2
  <2>4. Balancing!NetAfter(i) = Balancing!Magnitude(Balancing!Magnitude(n) - p)
    BY <1>3, <2>3 DEF Balancing!NetAfter
  <2>5. m = IF n > 0 THEN n - p ELSE n + p
    <3>1. CASE side = "BUY"
      <4>1. other = "SELL" /\ n = a - o /\ m = (a + x) - o
        BY <1>2, <1>3, <2>1, <2>2, <2>3, <3>1
      <4>2. IF n > 0 THEN d = -1 ELSE d = 1
        BY <2>3, <3>1 DEF Balancing!Smaller, Balancing!Larger
      <4>3. QED
        BY <1>3, <4>1, <4>2
    <3>2. CASE side = "SELL"
      <4>1. other = "BUY" /\ n = o - a /\ m = o - (a + x)
        BY <1>2, <1>3, <2>1, <2>2, <2>3, <3>2
      <4>2. IF n > 0 THEN d = 1 ELSE d = -1
        BY <2>3, <3>2 DEF Balancing!Smaller, Balancing!Larger
      <4>3. QED
        BY <1>3, <4>1, <4>2
    <3>3. QED
      BY <3>1, <3>2
  <2>6. Balancing!Magnitude(m) = Balancing!Magnitude(Balancing!Magnitude(n) - p)
    BY <2>5 DEF Balancing!Magnitude
  <2>7. (Balancing!Magnitude(Balancing!Net))' = Balancing!Magnitude(m)
    BY <2>3 DEF Balancing!Magnitude
  <2>8. QED
    BY <2>4, <2>6, <2>7
<1>8. FewSteps'
  <2>1. i \in 1 .. Size
    BY DEF OnSide
  <2>2. QED
    BY <1>7, <2>1, MovedFewSteps
<1>9. QED
  BY <1>4, <1>5, <1>6, <1>8 DEF BalancingInv

LEMMA BalancingNextInv ==
    BalancingInv /\ [Balancing!Next]_balancingVars => BalancingInv'
<1> SUFFICES ASSUME BalancingInv, [Balancing!Next]_balancingVars PROVE BalancingInv'
  OBVIOUS
<1>0. /\ BalancingTyped /\ lots \in [1 .. Size -> Nat] /\ lotPrice \in [1 .. Size -> Nat]
      /\ weight \in [1 .. Size -> Int]
  BY DEF BalancingInv, BalancingTyped
<1>1. ASSUME Balancing!AddLot PROVE BalancingInv'
  <2>1. PICK side \in {"BUY", "SELL"}, other \in {"BUY", "SELL"} :
            side = Balancing!Smaller /\ other # side
    BY DEF Balancing!Smaller
  <2>2. PICK i : i = Balancing!Best(Balancing!CanAdd)
    OBVIOUS
  <2>3. PICK d \in {-1, 1} : d = 1
    OBVIOUS
  <2>4. /\ balancing /\ Balancing!OverLimit /\ Balancing!CanAdd # {}
        /\ lots' = [lots EXCEPT ![i] = @ + 1]
        /\ remaining' = [remaining EXCEPT ![side] = @ - lotPrice[i]]
        /\ steps' = steps + 1 /\ balancing' = balancing
        /\ weight' = weight /\ lotPrice' = lotPrice /\ netLimit' = netLimit
    BY <1>1, <2>1, <2>2 DEF Balancing!AddLot, Balancing!Goes
  <2>5. i \in Balancing!CanAdd
    <3>1. Balancing!CanAdd \in SUBSET (1 .. Size)
      BY DEF Balancing!CanAdd, Balancing!Priced, Balancing!On, Balancing!Indices
    <3>2. QED
      BY <1>0, <2>2, <2>4, <3>1, BestIsCandidate
  <2>6. i \in OnSide(weight, side) /\ lotPrice[i] > 0 /\ lotPrice[i] <= remaining[side]
    BY <2>1, <2>5 DEF Balancing!CanAdd, Balancing!Priced, Balancing!On, Balancing!Indices,
                      OnSide
  <2>7. lots[i] \in Nat /\ lotPrice[i] \in Nat /\ i \in 1 .. Size /\ remaining[side] \in Int
        /\ remaining[side] >= 0
    <3>1. i \in 1 .. Size
      BY <2>6 DEF OnSide
    <3>2. /\ TotalOf(weight, lotPrice, lots, side) <= BudgetOf(weight, side)
          /\ remaining[side]
                 = BudgetOf(weight, side) - TotalOf(weight, lotPrice, lots, side)
      BY DEF BalancingInv, BooksAgree
    <3>3. TotalOf(weight, lotPrice, lots, side) \in Nat /\ BudgetOf(weight, side) \in Nat
      BY <1>0, NetHere
    <3>4. remaining[side] \in Int /\ remaining[side] >= 0
      BY <3>2, <3>3
    <3>5. QED
      BY <1>0, <3>1, <3>4
  <2>8. lots[i] + d \in Nat /\ d * lotPrice[i] <= remaining[side]
    <3>1. PICK p \in Nat, r \in Int, l \in Nat : p = lotPrice[i] /\ r = remaining[side] /\ l = lots[i]
      BY <2>7
    <3>2. QED
      BY <2>3, <2>6, <2>7, <3>1
  <2>9. side = IF d = 1 THEN Balancing!Smaller ELSE Balancing!Larger
    BY <2>1, <2>3
  <2>10. /\ lots' = [lots EXCEPT ![i] = @ + d]
         /\ remaining' = [remaining EXCEPT ![side] = @ - d * lotPrice[i]]
    <3>1. lots[i] + 1 = lots[i] + d
      BY <2>3, <2>7
    <3>2. remaining[side] - lotPrice[i] = remaining[side] - d * lotPrice[i]
      BY <2>3, <2>7
    <3>3. QED
      BY <2>4, <3>1, <3>2
  <2>11. QED
    BY <2>1, <2>4, <2>6, <2>8, <2>9, <2>10, LotMoved
<1>2. ASSUME Balancing!RemoveLot PROVE BalancingInv'
  <2>1. PICK side \in {"BUY", "SELL"}, other \in {"BUY", "SELL"} :
            side = Balancing!Larger /\ other # side
    BY DEF Balancing!Larger
  <2>2. PICK i : i = Balancing!Best(Balancing!CanRemove)
    OBVIOUS
  <2>3. PICK d \in {-1, 1} : d = -1
    OBVIOUS
  <2>4. /\ balancing /\ Balancing!OverLimit /\ Balancing!CanRemove # {}
        /\ lots' = [lots EXCEPT ![i] = @ - 1]
        /\ remaining' = [remaining EXCEPT ![side] = @ + lotPrice[i]]
        /\ steps' = steps + 1 /\ balancing' = balancing
        /\ weight' = weight /\ lotPrice' = lotPrice /\ netLimit' = netLimit
    BY <1>2, <2>1, <2>2 DEF Balancing!RemoveLot, Balancing!Goes
  <2>5. i \in Balancing!CanRemove
    <3>1. Balancing!CanRemove \in SUBSET (1 .. Size)
      BY DEF Balancing!CanRemove, Balancing!Priced, Balancing!On, Balancing!Indices
    <3>2. QED
      BY <1>0, <2>2, <2>4, <3>1, BestIsCandidate
  <2>6. i \in OnSide(weight, side) /\ lotPrice[i] > 0 /\ lots[i] > 0
    BY <2>1, <2>5 DEF Balancing!CanRemove, Balancing!Priced, Balancing!On, Balancing!Indices,
                      OnSide
  <2>7. lots[i] \in Nat /\ lotPrice[i] \in Nat /\ i \in 1 .. Size /\ remaining[side] \in Int
        /\ remaining[side] >= 0
    <3>1. i \in 1 .. Size
      BY <2>6 DEF OnSide
    <3>2. /\ TotalOf(weight, lotPrice, lots, side) <= BudgetOf(weight, side)
          /\ remaining[side]
                 = BudgetOf(weight, side) - TotalOf(weight, lotPrice, lots, side)
      BY DEF BalancingInv, BooksAgree
    <3>3. TotalOf(weight, lotPrice, lots, side) \in Nat /\ BudgetOf(weight, side) \in Nat
      BY <1>0, NetHere
    <3>4. remaining[side] \in Int /\ remaining[side] >= 0
      BY <3>2, <3>3
    <3>5. QED
      BY <1>0, <3>1, <3>4
  <2>8. lots[i] + d \in Nat /\ d * lotPrice[i] <= remaining[side]
    <3>1. PICK p \in Nat, r \in Int, l \in Nat : p = lotPrice[i] /\ r = remaining[side] /\ l = lots[i]
      BY <2>7
    <3>2. QED
      BY <2>3, <2>6, <2>7, <3>1
  <2>9. side = IF d = 1 THEN Balancing!Smaller ELSE Balancing!Larger
    BY <2>1, <2>3
  <2>10. /\ lots' = [lots EXCEPT ![i] = @ + d]
         /\ remaining' = [remaining EXCEPT ![side] = @ - d * lotPrice[i]]
    <3>1. lots[i] - 1 = lots[i] + d
      BY <2>3, <2>7
    <3>2. remaining[side] + lotPrice[i] = remaining[side] - d * lotPrice[i]
      BY <2>3, <2>7
    <3>3. QED
      BY <2>4, <3>1, <3>2
  <2>11. QED
    BY <2>1, <2>4, <2>6, <2>8, <2>9, <2>10, LotMoved
<1>3. ASSUME UNCHANGED <<weight, lotPrice, netLimit, lots, remaining, steps>>,
             balancing' \in BOOLEAN,
             FineLots /\ Balancing!EnoughSteps /\ ~balancing' => ~Balancing!OverLimit
      PROVE  BalancingInv'
  <2>1. /\ (Balancing!Budget("BUY"))' = Balancing!Budget("BUY")
        /\ (Balancing!Budget("SELL"))' = Balancing!Budget("SELL")
        /\ (Balancing!Total("BUY"))' = Balancing!Total("BUY")
        /\ (Balancing!Total("SELL"))' = Balancing!Total("SELL")
    BY <1>3, SidesHere, SidesNext
  <2>2. /\ (Balancing!Net)' = Balancing!Net
        /\ (Balancing!OverLimit)' <=> Balancing!OverLimit
        /\ (Balancing!EnoughSteps)' <=> Balancing!EnoughSteps
        /\ FineLots' <=> FineLots
    BY <1>3, <2>1 DEF Balancing!Net, Balancing!OverLimit, Balancing!EnoughSteps,
                      Balancing!Sides, Balancing!Indices, FineLots
  <2>3. BalancingTyped' /\ RemainingTyped' /\ BooksAgree'
    BY <1>3 DEF BalancingInv, BalancingTyped, RemainingTyped, BooksAgree
  <2>4. FewSteps'
    <3>1. \A k, b : Smallest(k, b)' <=> Smallest(k, b)
      BY <1>3 DEF Smallest
    <3>2. ASSUME FineLots, Balancing!OverLimit, NEW k \in Nat \ {0}, NEW b \in Nat,
                 Smallest(k, b)
          PROVE  Balancing!Magnitude(Balancing!Net) + k * steps <= b
      BY <3>2 DEF BalancingInv, FewSteps
    <3>3. ASSUME FineLots, Balancing!EnoughSteps PROVE steps < MaxSteps
      BY <3>3 DEF BalancingInv, FewSteps
    <3>4. (Balancing!Magnitude(Balancing!Net))' = Balancing!Magnitude(Balancing!Net)
      BY <2>2 DEF Balancing!Magnitude
    <3>5. QED
      BY <1>3, <2>2, <3>1, <3>2, <3>3, <3>4 DEF FewSteps
  <2>5. QED
    BY <2>3, <2>4 DEF BalancingInv
<1>4. ASSUME Balancing!Stop PROVE BalancingInv'
  <2>1. UNCHANGED <<weight, lotPrice, netLimit, lots, remaining, steps>> /\ balancing' = FALSE
    BY <1>4 DEF Balancing!Stop
  <2>2. ASSUME FineLots, Balancing!EnoughSteps PROVE ~Balancing!OverLimit
    <3>1. steps < MaxSteps
      BY <2>2 DEF BalancingInv, FewSteps
    <3>2. steps # MaxSteps
      BY <3>1, BalancingAssumption
    <3>3. Balancing!OverLimit => Balancing!Candidates # {}
      BY <1>0, NeverStuckHere DEF Balancing!Candidates
    <3>4. QED
      BY <1>4, <3>2, <3>3 DEF Balancing!Stop
  <2>3. QED
    BY <1>3, <2>1, <2>2
<1>5. CASE UNCHANGED balancingVars
  <2>1. UNCHANGED <<weight, lotPrice, netLimit, lots, remaining, steps>> /\ balancing' = balancing
    BY <1>5 DEF balancingVars
  <2>2. balancing' \in BOOLEAN
    BY <1>0, <2>1 DEF BalancingTyped
  <2>3. FineLots /\ Balancing!EnoughSteps /\ ~balancing' => ~Balancing!OverLimit
    BY <2>1 DEF BalancingInv, FewSteps
  <2>4. QED
    BY <1>3, <2>1, <2>2, <2>3
<1>6. QED
  BY <1>1, <1>2, <1>4, <1>5 DEF Balancing!Next

-----------------------------------------------------------------------------
(***************************************************************************)
(* The profit ledger.  A list of lots has a net quantity and, at a mark, a *)
(* worth; both are sums over the lots.                                     *)
(***************************************************************************)
LedgerSides == {"BUY", "SELL"}
Lots == [side : LedgerSides, quantity : Nat, price : Int, fee : Int]
OpenLots == [side : LedgerSides, quantity : Nat \ {0}, price : Int, fee : Int]

SignOf(side) == IF side = "BUY" THEN 1 ELSE -1
NetOf(lot) == SignOf(lot.side) * lot.quantity
WorthOf(lot, mark) == lot.quantity * (SignOf(lot.side) * (mark - lot.price) - lot.fee)

Nets(l) == [i \in DOMAIN l |-> NetOf(l[i])]
Worths(l, mark) == [i \in DOMAIN l |-> WorthOf(l[i], mark)]

Net(l) == SumFunction(Nets(l))
Worth(l, mark) == SumFunction(Worths(l, mark))

LEMMA LotValues ==
    ASSUME NEW lot \in Lots, NEW mark \in Int
    PROVE  /\ lot.quantity \in Nat /\ lot.price \in Int /\ lot.fee \in Int
           /\ lot.side \in LedgerSides /\ SignOf(lot.side) \in {-1, 1}
           /\ NetOf(lot) \in Int /\ WorthOf(lot, mark) \in Int
<1>1. lot.quantity \in Nat /\ lot.price \in Int /\ lot.fee \in Int /\ lot.side \in LedgerSides
  BY DEF Lots
<1>2. SignOf(lot.side) \in {-1, 1}
  BY DEF SignOf
<1>3. PICK q \in Nat, p \in Int, f \in Int, s \in Int :
          q = lot.quantity /\ p = lot.price /\ f = lot.fee /\ s = SignOf(lot.side)
  BY <1>1, <1>2
<1>4. s * q \in Int /\ q * (s * (mark - p) - f) \in Int
  <2>1. s * (mark - p) \in Int
    OBVIOUS
  <2>2. s * (mark - p) - f \in Int
    BY <2>1
  <2>3. QED
    BY <2>2
<1>5. QED
  BY <1>1, <1>2, <1>3, <1>4 DEF NetOf, WorthOf

LEMMA OpenLotsAreLots == OpenLots \subseteq Lots
BY DEF OpenLots, Lots

LEMMA ValuesOfLots ==
    ASSUME NEW l \in Seq(Lots), NEW mark \in Int
    PROVE  /\ DOMAIN l = 1 .. Len(l) /\ Len(l) \in Nat /\ IsFiniteSet(DOMAIN l)
           /\ Nets(l) \in Seq(Int) /\ DOMAIN Nets(l) = DOMAIN l
           /\ Worths(l, mark) \in Seq(Int) /\ DOMAIN Worths(l, mark) = DOMAIN l
           /\ \A i \in DOMAIN l : /\ l[i] \in Lots
                                  /\ Nets(l)[i] = NetOf(l[i]) /\ Nets(l)[i] \in Int
                                  /\ Worths(l, mark)[i] = WorthOf(l[i], mark)
                                  /\ Worths(l, mark)[i] \in Int
           /\ Net(l) \in Int /\ Worth(l, mark) \in Int
<1>1. DOMAIN l = 1 .. Len(l) /\ Len(l) \in Nat /\ \A i \in DOMAIN l : l[i] \in Lots
  OBVIOUS
<1>2. IsFiniteSet(DOMAIN l)
  BY <1>1, FS_Interval
<1>3. \A i \in DOMAIN l : NetOf(l[i]) \in Int /\ WorthOf(l[i], mark) \in Int
  BY <1>1, LotValues
<1>4. Nets(l) \in Seq(Int)
  BY <1>1, <1>3 DEF Nets
<1>5. Worths(l, mark) \in Seq(Int)
  BY <1>1, <1>3 DEF Worths
<1>6. /\ DOMAIN Nets(l) = DOMAIN l /\ DOMAIN Worths(l, mark) = DOMAIN l
      /\ \A i \in DOMAIN l : Nets(l)[i] = NetOf(l[i]) /\ Worths(l, mark)[i] = WorthOf(l[i], mark)
  BY DEF Nets, Worths
<1>7. Net(l) \in Int /\ Worth(l, mark) \in Int
  BY <1>4, <1>5, SeqSumInt DEF Net, Worth
<1>8. QED
  BY <1>1, <1>2, <1>3, <1>4, <1>5, <1>6, <1>7

LEMMA LotsJoined ==
    ASSUME NEW a \in Seq(Lots), NEW b \in Seq(Lots), NEW mark \in Int
    PROVE  /\ Net(a \o b) = Net(a) + Net(b)
           /\ Worth(a \o b, mark) = Worth(a, mark) + Worth(b, mark)
<1>1. PICK c \in Seq(Lots), m \in Nat, n \in Nat :
          /\ c = a \o b /\ m = Len(a) /\ n = Len(b)
          /\ DOMAIN a = 1 .. m /\ DOMAIN b = 1 .. n /\ DOMAIN c = 1 .. m + n
          /\ \A i \in 1 .. m : c[i] = a[i]
          /\ \A j \in 1 .. n : c[m + j] = b[j]
  <2>1. /\ a \o b \in Seq(Lots) /\ DOMAIN (a \o b) = 1 .. Len(a) + Len(b)
        /\ \A i \in 1 .. Len(a) : (a \o b)[i] = a[i]
        /\ \A j \in 1 .. Len(b) : (a \o b)[Len(a) + j] = b[j]
    BY Joined
  <2>2. DOMAIN a = 1 .. Len(a) /\ DOMAIN b = 1 .. Len(b) /\ Len(a) \in Nat /\ Len(b) \in Nat
    OBVIOUS
  <2>3. QED
    BY <2>1, <2>2
<1>2. ASSUME NEW va \in Seq(Int), NEW vb \in Seq(Int), NEW vc \in Seq(Int),
             DOMAIN va = 1 .. m, DOMAIN vb = 1 .. n, DOMAIN vc = 1 .. m + n,
             \A i \in 1 .. m : vc[i] = va[i],
             \A j \in 1 .. n : vc[m + j] = vb[j]
      PROVE  SumFunction(vc) = SumFunction(va) + SumFunction(vb)
  <2>1. Len(va) = m /\ Len(vb) = n
    BY <1>2
  <2>2. PICK w : w = va \o vb
    OBVIOUS
  <2>20. /\ w \in Seq(Int) /\ DOMAIN w = 1 .. m + n
         /\ \A i \in 1 .. m : w[i] = va[i]
         /\ \A j \in 1 .. n : w[m + j] = vb[j]
    <3>1. /\ va \o vb \in Seq(Int) /\ DOMAIN (va \o vb) = 1 .. Len(va) + Len(vb)
          /\ \A i \in 1 .. Len(va) : (va \o vb)[i] = va[i]
          /\ \A j \in 1 .. Len(vb) : (va \o vb)[Len(va) + j] = vb[j]
      BY Joined
    <3>2. QED
      BY <2>1, <2>2, <3>1
  <2>3. \A i \in 1 .. m + n : vc[i] = w[i]
    <3> TAKE i \in 1 .. m + n
    <3>1. CASE i \in 1 .. m
      BY <1>2, <2>20, <3>1
    <3>2. CASE i \notin 1 .. m
      <4>1. PICK j \in 1 .. n : i = m + j
        <5>1. i - m \in 1 .. n /\ i = m + (i - m)
          BY <3>2
        <5>2. QED
          BY <5>1
      <4>2. QED
        BY <1>2, <2>20, <4>1
    <3>3. QED
      BY <3>1, <3>2
  <2>4. vc = w
    BY <1>2, <2>2, <2>20, <2>3, SameList
  <2>5. QED
    BY <2>2, <2>4, SeqSumConcat
<1>3. Net(c) = Net(a) + Net(b)
  <2>1. PICK x \in Seq(Int), y \in Seq(Int), z \in Seq(Int) :
            x = Nets(a) /\ y = Nets(b) /\ z = Nets(c)
    BY ValuesOfLots
  <2>2. /\ DOMAIN x = 1 .. m /\ DOMAIN y = 1 .. n /\ DOMAIN z = 1 .. m + n
        /\ \A i \in 1 .. m : z[i] = x[i]
        /\ \A j \in 1 .. n : z[m + j] = y[j]
    BY <1>1, <2>1 DEF Nets
  <2>3. QED
    BY <1>2, <2>1, <2>2, ZenonT(30) DEF Net
<1>4. Worth(c, mark) = Worth(a, mark) + Worth(b, mark)
  <2>1. PICK x \in Seq(Int), y \in Seq(Int), z \in Seq(Int) :
            x = Worths(a, mark) /\ y = Worths(b, mark) /\ z = Worths(c, mark)
    BY ValuesOfLots
  <2>2. /\ DOMAIN x = 1 .. m /\ DOMAIN y = 1 .. n /\ DOMAIN z = 1 .. m + n
        /\ \A i \in 1 .. m : z[i] = x[i]
        /\ \A j \in 1 .. n : z[m + j] = y[j]
    BY <1>1, <2>1 DEF Worths
  <2>3. QED
    BY <1>2, <2>1, <2>2, ZenonT(30) DEF Worth
<1>5. QED
  BY <1>1, <1>3, <1>4

\* Leaving out lots of quantity zero changes neither.
LEMMA LotsSelected ==
    ASSUME NEW r \in Seq(Lots), NEW positions,
           \A i \in DOMAIN r : i \in positions <=> r[i].quantity > 0,
           NEW e, e = Entries(r, positions), NEW mark \in Int
    PROVE  /\ e \in Seq(OpenLots)
           /\ Net(e) = Net(r) /\ Worth(e, mark) = Worth(r, mark)
           /\ \A k \in DOMAIN e : \E i \in DOMAIN r : i \in positions /\ e[k] = r[i]
<1> DEFINE P == positions \cap DOMAIN r
<1>1. /\ e \in Seq(Lots)
      /\ \A k \in DOMAIN e : \E i \in P : e[k] = r[i]
  BY EntriesOf
<1>2. e \in Seq(OpenLots)
  <2>1. DOMAIN e = 1 .. Len(e) /\ Len(e) \in Nat /\ e = [k \in 1 .. Len(e) |-> e[k]]
    BY <1>1
  <2>2. ASSUME NEW k \in DOMAIN e PROVE e[k] \in OpenLots
    <3>1. PICK i \in P : e[k] = r[i]
      BY <1>1
    <3>2. r[i] \in Lots /\ r[i].quantity > 0
      <4>1. i \in DOMAIN r /\ i \in positions
        OBVIOUS
      <4>2. QED
        BY <4>1
    <3>3. r[i] \in OpenLots
      BY <3>2 DEF Lots, OpenLots
    <3>4. QED
      BY <3>1, <3>3
  <2>3. QED
    BY <2>1, <2>2
<1>3. /\ IsFiniteSet(DOMAIN r) /\ \A i \in DOMAIN r : r[i] \in Lots
      /\ \A i \in DOMAIN r : Nets(r)[i] = NetOf(r[i]) /\ Nets(r)[i] \in Int
                             /\ Worths(r, mark)[i] = WorthOf(r[i], mark)
                             /\ Worths(r, mark)[i] \in Int
  BY ValuesOfLots
<1>4. \A i \in DOMAIN r \ P : NetOf(r[i]) = 0 /\ WorthOf(r[i], mark) = 0
  <2> TAKE i \in DOMAIN r \ P
  <2>1. r[i].quantity = 0
    <3>1. r[i].quantity \in Nat /\ ~(r[i].quantity > 0)
      BY <1>3, LotValues
    <3>2. QED
      BY <3>1
  <2>2. PICK s \in Int, p \in Int, f \in Int :
            s = SignOf(r[i].side) /\ p = r[i].price /\ f = r[i].fee
    <3>1. PICK lot \in Lots : lot = r[i]
      BY <1>3
    <3>2. /\ SignOf(lot.side) \in {-1, 1} /\ lot.price \in Int /\ lot.fee \in Int
      BY LotValues
    <3>3. SignOf(lot.side) \in Int
      BY <3>2
    <3>4. QED
      BY <3>1, <3>2, <3>3
  <2>3. s * 0 = 0 /\ 0 * (s * (mark - p) - f) = 0
    <3>1. PICK z \in Int : z = s * (mark - p) - f
      <4>1. s * (mark - p) \in Int
        OBVIOUS
      <4>2. QED
        BY <4>1
    <3>2. 0 * z = 0 /\ s * 0 = 0
      OBVIOUS
    <3>3. QED
      BY <3>1, <3>2
  <2>4. QED
    BY <2>1, <2>2, <2>3 DEF NetOf, WorthOf
<1>5. ASSUME NEW v, NEW w, DOMAIN v = DOMAIN e, \A i \in DOMAIN r : w[i] \in Int,
             \A k \in DOMAIN e, i \in DOMAIN r : e[k] = r[i] => v[k] = w[i],
             \A i \in DOMAIN r \ P : w[i] = 0
      PROVE  SumFunction(v) = SumFunctionOnSet(w, DOMAIN r)
  <2>1. SumFunction(v) = SumFunctionOnSet(w, P)
    BY <1>5, EntriesSum
  <2>2. SumFunctionOnSet(w, DOMAIN r) = SumFunctionOnSet(w, P)
    <3>1. P \in SUBSET DOMAIN r /\ \A i \in P : w[i] \in Int /\ w[i] = w[i]
      BY <1>5
    <3> HIDE DEF P
    <3>2. QED
      BY <1>3, <1>5, <3>1, SumRestrict
  <2>3. QED
    BY <2>1, <2>2
<1>6. Net(e) = Net(r)
  <2>1. PICK v, w : v = Nets(e) /\ w = Nets(r)
    OBVIOUS
  <2>10. DOMAIN w = DOMAIN r
    BY <2>1 DEF Nets
  <2>2. /\ DOMAIN v = DOMAIN e
        /\ \A k \in DOMAIN e : v[k] = NetOf(e[k])
        /\ \A i \in DOMAIN r : w[i] = NetOf(r[i]) /\ w[i] \in Int
    BY <1>3, <2>1 DEF Nets
  <2>3. /\ \A k \in DOMAIN e, i \in DOMAIN r : e[k] = r[i] => v[k] = w[i]
        /\ \A i \in DOMAIN r \ P : w[i] = 0
    BY <1>4, <2>2
  <2> HIDE DEF P
  <2>4. SumFunction(v) = SumFunctionOnSet(w, DOMAIN r)
    BY <1>5, <2>2, <2>3
  <2>5. QED
    BY <2>1, <2>10, <2>4 DEF Net, SumFunction
<1>7. Worth(e, mark) = Worth(r, mark)
  <2>1. PICK v, w : v = Worths(e, mark) /\ w = Worths(r, mark)
    OBVIOUS
  <2>10. DOMAIN w = DOMAIN r
    BY <2>1 DEF Worths
  <2>2. /\ DOMAIN v = DOMAIN e
        /\ \A k \in DOMAIN e : v[k] = WorthOf(e[k], mark)
        /\ \A i \in DOMAIN r : w[i] = WorthOf(r[i], mark) /\ w[i] \in Int
    BY <1>3, <2>1 DEF Worths
  <2>3. /\ \A k \in DOMAIN e, i \in DOMAIN r : e[k] = r[i] => v[k] = w[i]
        /\ \A i \in DOMAIN r \ P : w[i] = 0
    BY <1>4, <2>2
  <2> HIDE DEF P
  <2>4. SumFunction(v) = SumFunctionOnSet(w, DOMAIN r)
    BY <1>5, <2>2, <2>3
  <2>5. QED
    BY <2>1, <2>10, <2>4 DEF Worth, SumFunction
<1>8. QED
  BY <1>1, <1>2, <1>6, <1>7

LEMMA OneSelection ==
    \A s, p : Ledger!Entries(s, p) = Entries(s, p)
BY DEF Entries, Ledger!Entries

LEMMA OneLedgerSum ==
    \A f, n : Ledger!Sum(f, n) = SumFunctionOnSet(f, 1 .. n)
BY DEF SumFunctionOnSet, FoldFunctionOnSet, MapThenFoldSet, Ledger!SumFunctionOnSet,
       Ledger!FoldFunctionOnSet, Ledger!MapThenFoldSet, Ledger!Sum

LEMMA SumUpTo ==
    ASSUME NEW f, NEW n \in Nat, \A i \in 1 .. n + 1 : f[i] \in Int
    PROVE  SumFunctionOnSet(f, 1 .. n + 1) = SumFunctionOnSet(f, 1 .. n) + f[n + 1]
<1>1. 1 .. n + 1 = (1 .. n) \cup {n + 1} /\ n + 1 \notin 1 .. n
  OBVIOUS
<1>2. PICK S, e : S = 1 .. n /\ e = n + 1
  OBVIOUS
<1>3. IsFiniteSet(S) /\ e \notin S /\ \A x \in S \cup {e} : f[x] \in Int
  BY <1>1, <1>2, FS_Interval
<1>4. SumFunctionOnSet(f, S \cup {e}) = f[e] + SumFunctionOnSet(f, S)
  BY <1>3, SumInsert
<1>5. SumFunctionOnSet(f, S) \in Int /\ f[e] \in Int
  BY <1>3, SumInt
<1>6. f[n + 1] + SumFunctionOnSet(f, 1 .. n) = SumFunctionOnSet(f, 1 .. n) + f[n + 1]
  <2>1. PICK x \in Int, y \in Int : x = f[n + 1] /\ y = SumFunctionOnSet(f, 1 .. n)
    BY <1>2, <1>5
  <2>2. QED
    BY <2>1
<1>7. SumFunctionOnSet(f, 1 .. n + 1) = f[n + 1] + SumFunctionOnSet(f, 1 .. n)
  BY <1>1, <1>2, <1>4
<1>8. QED
  BY <1>6, <1>7

\* A quantity given to the oldest lots first: it closes as much as there is, and
\* leaves nothing of itself unless it has closed every lot.
GivenOldestFirst(N, q, Q, m) ==
    \A i \in 1 .. N :
        /\ Q[i] \in Nat
        /\ m[i] = IF q - SumFunctionOnSet(Q, 1 .. i - 1) > 0
                  THEN Ledger!Lesser(q - SumFunctionOnSet(Q, 1 .. i - 1), Q[i])
                  ELSE 0

ClosedOldestFirst(N, q, Q, m) ==
    /\ \A i \in 1 .. N : m[i] \in Nat /\ m[i] <= Q[i]
    /\ SumFunctionOnSet(m, 1 .. N) \in Nat
    /\ SumFunctionOnSet(m, 1 .. N) <= q
    /\ SumFunctionOnSet(m, 1 .. N) < q => \A i \in 1 .. N : m[i] = Q[i]

LEMMA OldestFirst ==
    ASSUME NEW N \in Nat, NEW q \in Nat, NEW Q, NEW m, GivenOldestFirst(N, q, Q, m)
    PROVE  ClosedOldestFirst(N, q, Q, m)
<1>0. \A i \in 1 .. N :
          /\ Q[i] \in Nat
          /\ m[i] = IF q - SumFunctionOnSet(Q, 1 .. i - 1) > 0
                    THEN Ledger!Lesser(q - SumFunctionOnSet(Q, 1 .. i - 1), Q[i])
                    ELSE 0
  BY DEF GivenOldestFirst
<1> DEFINE A(n) == SumFunctionOnSet(Q, 1 .. n)
           M(n) == SumFunctionOnSet(m, 1 .. n)
<1>1. \A n \in Nat : n <= N => A(n) \in Nat
  <2> TAKE n \in Nat
  <2>1. IsFiniteSet(1 .. n)
    BY FS_Interval
  <2>2. ASSUME n <= N PROVE A(n) \in Nat
    <3>1. \A i \in 1 .. n : Q[i] \in Nat
      BY <1>0, <2>2
    <3>2. PICK S : S = 1 .. n
      OBVIOUS
    <3>3. SumFunctionOnSet(Q, S) \in Nat
      BY <2>1, <3>1, <3>2, SumNat
    <3>4. QED
      BY <3>2, <3>3
  <2>3. QED
    BY <2>2
<1>2. \A i \in 1 .. N : m[i] \in Nat /\ m[i] <= Q[i]
  <2> TAKE i \in 1 .. N
  <2>1. i - 1 \in Nat /\ i - 1 <= N
    OBVIOUS
  <2>2. PICK a \in Nat : a = A(i - 1)
    BY <1>1, <2>1
  <2>3. Q[i] \in Nat /\ m[i] = IF q - a > 0 THEN Ledger!Lesser(q - a, Q[i]) ELSE 0
    BY <1>0, <2>2
  <2>4. QED
    BY <2>3 DEF Ledger!Lesser
<1>3. A(0) = 0 /\ M(0) = 0
  <2>1. 1 .. 0 = {}
    OBVIOUS
  <2>2. QED
    BY <2>1, SumEmpty
<1>4. ASSUME NEW n \in Nat, n + 1 <= N
      PROVE  A(n + 1) = A(n) + Q[n + 1] /\ M(n + 1) = M(n) + m[n + 1]
  <2>1. \A i \in 1 .. n + 1 : Q[i] \in Int /\ m[i] \in Int
    BY <1>0, <1>2, <1>4
  <2>2. QED
    BY <2>1, SumUpTo
<1>5. ASSUME NEW n \in Nat, n + 1 <= N
      PROVE  m[n + 1] = IF q - A(n) > 0 THEN Ledger!Lesser(q - A(n), Q[n + 1]) ELSE 0
  <2>1. n + 1 \in 1 .. N /\ (n + 1) - 1 = n
    BY <1>5
  <2>2. QED
    BY <1>0, <2>1
<1>50. \A n \in Nat : n + 1 <= N => Q[n + 1] \in Nat
  BY <1>0
<1> HIDE DEF A, M
<1> DEFINE G == {n \in Nat : n <= N => M(n) = Ledger!Lesser(q, A(n))}
<1>6. 0 \in G
  BY <1>3 DEF Ledger!Lesser
<1>7. ASSUME NEW n \in Nat, n \in G PROVE n + 1 \in G
  <2>1. ASSUME n + 1 <= N PROVE M(n + 1) = Ledger!Lesser(q, A(n + 1))
    <3>1. M(n) = Ledger!Lesser(q, A(n))
      BY <1>7, <2>1
    <3>2. PICK a \in Nat, b \in Nat : a = A(n) /\ b = Q[n + 1]
      BY <1>1, <1>50, <2>1
    <3>3. /\ M(n + 1) = Ledger!Lesser(q, a)
                            + (IF q - a > 0 THEN Ledger!Lesser(q - a, b) ELSE 0)
          /\ A(n + 1) = a + b
      BY <1>4, <1>5, <2>1, <3>1, <3>2
    <3>4. QED
      BY <3>3 DEF Ledger!Lesser
  <2>2. QED
    BY <2>1
<1>8. N \in G
  <2> HIDE DEF G
  <2>1. QED
    BY <1>6, <1>7, NatSetInduction
<1>9. M(N) = Ledger!Lesser(q, A(N)) /\ A(N) \in Nat
  BY <1>1, <1>8
<1>10. ASSUME M(N) < q PROVE \A i \in 1 .. N : m[i] = Q[i]
  <2>1. M(N) = A(N)
    BY <1>9, <1>10 DEF Ledger!Lesser
  <2>2. PICK S : S = 1 .. N
    OBVIOUS
  <2>3. /\ IsFiniteSet(S)
        /\ \A i \in S : m[i] \in Int /\ Q[i] \in Int /\ m[i] <= Q[i]
    <3>1. IsFiniteSet(1 .. N)
      BY FS_Interval
    <3>2. \A i \in 1 .. N : m[i] \in Int /\ Q[i] \in Int
      BY <1>0, <1>2
    <3>3. QED
      BY <1>2, <2>2, <3>1, <3>2
  <2>4. SumFunctionOnSet(m, S) = SumFunctionOnSet(Q, S)
    BY <2>1, <2>2 DEF A, M
  <2>5. \A i \in S : m[i] = Q[i]
    BY <2>3, <2>4, SumEqual
  <2>6. QED
    BY <2>2, <2>5
<1>11. QED
  BY <1>2, <1>9, <1>10 DEF A, M, Ledger!Lesser, ClosedOldestFirst

OneSided(l) == \A i, j \in DOMAIN l : l[i].side = l[j].side

\* What a fill closes of each lot: lots of the other side only, and all of them
\* when something is left of the fill.
Matching(l, fill, m) ==
    /\ m \in [1 .. Len(l) -> Nat]
    /\ \A i \in 1 .. Len(l) : /\ m[i] <= l[i].quantity
                              /\ m[i] > 0 => l[i].side # fill.side
    /\ SumFunctionOnSet(m, 1 .. Len(l)) \in Nat
    /\ SumFunctionOnSet(m, 1 .. Len(l)) <= fill.quantity
    /\ SumFunctionOnSet(m, 1 .. Len(l)) < fill.quantity
           => \A i \in 1 .. Len(l) : l[i].side = fill.side \/ m[i] = l[i].quantity

LEMMA MatchedHere ==
    ASSUME NEW fill \in OpenLots, open \in Seq(OpenLots), OneSided(open)
    PROVE  Matching(open, fill, Ledger!Matched(fill))
<1>1. PICK N \in Nat, q \in Nat : N = Len(open) /\ q = fill.quantity
  BY DEF OpenLots
<1>2. PICK Q : Q = [i \in DOMAIN open |-> open[i].quantity]
  OBVIOUS
<1>3. PICK m : m = Ledger!Matched(fill)
  OBVIOUS
<1>4. DOMAIN open = 1 .. N /\ \A i \in 1 .. N : open[i] \in OpenLots
  BY <1>1
<1>5. \A i \in 1 .. N : Q[i] = open[i].quantity /\ Q[i] \in Nat /\ open[i].side \in LedgerSides
  BY <1>2, <1>4 DEF OpenLots
<1>6. /\ m = [i \in 1 .. N |-> m[i]]
      /\ \A i \in 1 .. N :
            m[i] = IF i <= Ledger!Opposite(fill) /\ q - SumFunctionOnSet(Q, 1 .. i - 1) > 0
                   THEN Ledger!Lesser(q - SumFunctionOnSet(Q, 1 .. i - 1), Q[i]) ELSE 0
  BY <1>1, <1>2, <1>3, <1>4, <1>5, OneLedgerSum DEF Ledger!Matched
<1>7. CASE \E i \in 1 .. N : open[i].side = fill.side
  <2>1. \A i \in 1 .. N : open[i].side = fill.side
    BY <1>4, <1>7 DEF OneSided
  <2>2. Ledger!Opposite(fill) = 0
    <3>1. PICK same : same = {i \in DOMAIN open : open[i].side = fill.side}
      OBVIOUS
    <3>2. same = 1 .. N /\ 1 \in same
      BY <1>4, <1>7, <2>1, <3>1
    <3>3. PICK c : c = CHOOSE i \in same : \A j \in same : i <= j
      OBVIOUS
    <3>4. \E i \in same : \A j \in same : i <= j
      BY <3>2
    <3>5. c \in same /\ \A j \in same : c <= j
      BY <3>3, <3>4
    <3>6. c = 1
      BY <3>2, <3>5
    <3>7. Ledger!Opposite(fill) = c - 1
      BY <3>1, <3>2, <3>3 DEF Ledger!Opposite
    <3>8. QED
      BY <3>6, <3>7
  <2>3. \A i \in 1 .. N : m[i] = 0
    BY <1>6, <2>2
  <2>4. SumFunctionOnSet(m, 1 .. N) = 0
    <3>1. PICK S : S = 1 .. N
      OBVIOUS
    <3>2. IsFiniteSet(S) /\ \A i \in S : m[i] = 0
      BY <2>3, <3>1, FS_Interval
    <3>3. QED
      BY <3>1, <3>2, SumZero
  <2>5. m \in [1 .. N -> Nat]
    BY <1>6, <2>3
  <2>6. \A i \in 1 .. N : m[i] <= open[i].quantity
    BY <1>5, <2>3
  <2>7. QED
    BY <1>1, <1>3, <2>1, <2>3, <2>4, <2>5, <2>6 DEF Matching
<1>8. CASE \A i \in 1 .. N : open[i].side # fill.side
  <2>1. Ledger!Opposite(fill) = N
    <3>1. {i \in DOMAIN open : open[i].side = fill.side} = {}
      BY <1>4, <1>8
    <3>2. QED
      BY <1>1, <3>1 DEF Ledger!Opposite
  <2>2. GivenOldestFirst(N, q, Q, m)
    BY <1>5, <1>6, <2>1 DEF GivenOldestFirst
  <2>3. ClosedOldestFirst(N, q, Q, m)
    BY <2>2, OldestFirst
  <2>4. m \in [1 .. N -> Nat]
    BY <1>6, <2>3 DEF ClosedOldestFirst
  <2>5. QED
    BY <1>1, <1>3, <1>5, <1>8, <2>3, <2>4 DEF Matching, ClosedOldestFirst
<1>9. QED
  BY <1>7, <1>8

\* What one lot's part of a fill changes: its net quantity, and its worth with
\* the profit that is realized.
LEMMA OneLotClosed ==
    ASSUME NEW s \in {-1, 1}, NEW S \in {-1, 1}, NEW Q \in Nat, NEW p \in Int, NEW f \in Int,
           NEW P \in Int, NEW F \in Int, NEW mark \in Int, NEW m \in Nat, m > 0 => s # S
    PROVE  /\ s * (Q - m) = s * Q + S * m
           /\ (Q - m) * (s * (mark - p) - f) + m * (s * (P - p) - f - F)
                  = Q * (s * (mark - p) - f) + (S * (mark - P) - F) * m
<1>1. CASE m = 0
  <2>1. PICK a \in Int, b \in Int, c \in Int :
            a = s * (mark - p) - f /\ b = s * (P - p) - f - F /\ c = S * (mark - P) - F
    OBVIOUS
  <2>2. (Q - 0) * a + 0 * b = Q * a + c * 0
    OBVIOUS
  <2>3. s * (Q - 0) = s * Q + S * 0
    OBVIOUS
  <2>4. QED
    BY <1>1, <2>1, <2>2, <2>3
<1>2. CASE m # 0
  <2>1. S = - s
    BY <1>2
  <2>2. CASE s = 1
    BY <2>1, <2>2
  <2>3. CASE s = -1
    BY <2>1, <2>3
  <2>4. QED
    BY <2>2, <2>3
<1>3. QED
  BY <1>1, <1>2

Left(l, fill, m) == fill.quantity - SumFunctionOnSet(m, 1 .. Len(l))

\* The lots after a fill, without leaving out the closed ones.
Closed(l, m) == [i \in DOMAIN l |-> [l[i] EXCEPT !.quantity = @ - m[i]]]

ProfitOf(l, fill, m) ==
    [i \in DOMAIN l |->
        m[i] * (SignOf(l[i].side) * (fill.price - l[i].price) - l[i].fee - fill.fee)]

ClosedLots(l, fill, m, r) ==
    /\ r \in Seq(Lots) /\ Len(r) = Len(l) /\ DOMAIN r = DOMAIN l
    /\ \A i \in DOMAIN l : /\ r[i].side = l[i].side
                           /\ r[i].quantity = l[i].quantity - m[i]
                           /\ r[i].price = l[i].price /\ r[i].fee = l[i].fee
    /\ Net(r) = Net(l) + SignOf(fill.side) * SumFunctionOnSet(m, 1 .. Len(l))

LEMMA LotsClosed ==
    ASSUME NEW l \in Seq(OpenLots), NEW fill \in OpenLots, NEW m, Matching(l, fill, m)
    PROVE  ClosedLots(l, fill, m, Closed(l, m))
<1>1. PICK N \in Nat : N = Len(l) /\ DOMAIN l = 1 .. N
  OBVIOUS
<1>2. PICK r : r = Closed(l, m)
  OBVIOUS
<1>3. \A i \in 1 .. N : l[i] \in OpenLots /\ m[i] \in Nat /\ m[i] <= l[i].quantity
                        /\ (m[i] > 0 => l[i].side # fill.side)
  BY <1>1 DEF Matching
<1>4. \A i \in 1 .. N : /\ r[i].side = l[i].side
                        /\ r[i].quantity = l[i].quantity - m[i]
                        /\ r[i].price = l[i].price /\ r[i].fee = l[i].fee
                        /\ r[i] \in Lots
  <2> TAKE i \in 1 .. N
  <2>1. r[i] = [l[i] EXCEPT !.quantity = l[i].quantity - m[i]]
    BY <1>1, <1>2 DEF Closed
  <2>2. l[i].quantity - m[i] \in Nat
    BY <1>3 DEF OpenLots
  <2>3. QED
    BY <1>3, <2>1, <2>2 DEF OpenLots, Lots
<1>5. r \in Seq(Lots) /\ Len(r) = N /\ DOMAIN r = 1 .. N
  <2>1. r = [i \in 1 .. N |-> r[i]]
    BY <1>1, <1>2 DEF Closed
  <2>2. QED
    BY <1>4, <2>1
<1>6. l \in Seq(Lots)
  BY OpenLotsAreLots
<1>7. PICK S \in {-1, 1}, sum \in Int :
          S = SignOf(fill.side) /\ sum = SumFunctionOnSet(m, 1 .. N)
  BY <1>1 DEF SignOf, Matching
<1>8. PICK u, v, g, D : /\ u = Nets(l) /\ v = Nets(r) /\ g = [i \in 1 .. N |-> S * m[i]]
                        /\ D = 1 .. N
  OBVIOUS
<1>9. /\ IsFiniteSet(D)
      /\ \A i \in D : u[i] = NetOf(l[i]) /\ v[i] = NetOf(r[i])
                      /\ u[i] \in Int /\ v[i] \in Int /\ g[i] = S * m[i]
      /\ DOMAIN u = D /\ DOMAIN v = D
  <2>1. /\ IsFiniteSet(DOMAIN l) /\ DOMAIN Nets(l) = DOMAIN l
        /\ \A i \in DOMAIN l : Nets(l)[i] = NetOf(l[i]) /\ Nets(l)[i] \in Int
    BY <1>6, 0 \in Int, ValuesOfLots
  <2>2. /\ DOMAIN Nets(r) = DOMAIN r
        /\ \A i \in DOMAIN r : Nets(r)[i] = NetOf(r[i]) /\ Nets(r)[i] \in Int
    BY <1>5, 0 \in Int, ValuesOfLots
  <2>3. QED
    BY <1>1, <1>5, <1>8, <2>1, <2>2
<1>10. \A i \in D : g[i] \in Int /\ v[i] = u[i] + g[i]
  <2> TAKE i \in D
  <2>1. PICK s \in {-1, 1}, Q \in Nat, k \in Nat :
            s = SignOf(l[i].side) /\ Q = l[i].quantity /\ k = m[i]
    BY <1>3, <1>8 DEF OpenLots, SignOf
  <2>2. k > 0 => s # S
    <3>1. l[i].side \in LedgerSides /\ fill.side \in LedgerSides
      BY <1>3, <1>8 DEF OpenLots
    <3>2. k > 0 => l[i].side # fill.side
      BY <1>3, <1>8, <2>1
    <3>3. l[i].side # fill.side => SignOf(l[i].side) # SignOf(fill.side)
      BY <3>1 DEF SignOf, LedgerSides
    <3>4. QED
      BY <1>7, <2>1, <3>2, <3>3
  <2>3. s * (Q - k) = s * Q + S * k
    BY <2>2, 0 \in Int, OneLotClosed
  <2>4. u[i] = s * Q /\ v[i] = s * (Q - k) /\ g[i] = S * k
    BY <1>4, <1>8, <1>9, <2>1 DEF NetOf
  <2>5. S * k \in Int
    OBVIOUS
  <2>6. QED
    BY <2>3, <2>4, <2>5
<1>11. SumFunctionOnSet(g, D) = S * SumFunctionOnSet(m, D)
  <2>1. \A i \in D : m[i] \in Int /\ g[i] = S * m[i]
    <3>1. \A i \in D : m[i] \in Nat
      BY <1>3, <1>8
    <3>2. \A i \in D : g[i] = S * m[i]
      BY <1>9
    <3>3. QED
      BY <3>1, <3>2
  <2>2. PICK M : M = m
    OBVIOUS
  <2>3. PICK k \in Int : k = S
    OBVIOUS
  <2>4. \A i \in D : M[i] \in Int /\ g[i] = k * M[i]
    BY <2>1, <2>2, <2>3
  <2>5. SumFunctionOnSet(g, D) = k * SumFunctionOnSet(M, D)
    BY <1>9, <2>4, SumScaled
  <2>6. QED
    BY <2>2, <2>3, <2>5
<1>12. SumFunctionOnSet(v, D) = SumFunctionOnSet(u, D) + SumFunctionOnSet(g, D)
  BY <1>9, <1>10, SumPlus
<1>13. Net(r) = Net(l) + S * sum
  BY <1>7, <1>8, <1>9, <1>11, <1>12 DEF Net, SumFunction
<1>14. QED
  BY <1>1, <1>2, <1>4, <1>5, <1>7, <1>13 DEF ClosedLots

\* The worth of one share of a fill.
ShareWorth(fill, mark) == SignOf(fill.side) * (mark - fill.price) - fill.fee

WorthKept(l, fill, m, r, mark) ==
    LET profit == SumFunctionOnSet(ProfitOf(l, fill, m), 1 .. Len(l))
    IN  /\ profit \in Int
        /\ Worth(r, mark) + profit
               = Worth(l, mark) + ShareWorth(fill, mark) * SumFunctionOnSet(m, 1 .. Len(l))

\* Closing lots realizes what their worth at the mark loses, but for the share
\* of the fill that closes them.
LEMMA WorthClosed ==
    ASSUME NEW l \in Seq(OpenLots), NEW fill \in OpenLots, NEW m, Matching(l, fill, m),
           NEW mark \in Int
    PROVE  WorthKept(l, fill, m, Closed(l, m), mark)
<1>1. PICK N \in Nat : N = Len(l) /\ DOMAIN l = 1 .. N
  OBVIOUS
<1>2. PICK r : r = Closed(l, m)
  OBVIOUS
<1>3. \A i \in 1 .. N : l[i] \in OpenLots /\ m[i] \in Nat
                        /\ (m[i] > 0 => l[i].side # fill.side)
  BY <1>1 DEF Matching
<1>4. /\ r \in Seq(Lots) /\ DOMAIN r = 1 .. N
      /\ \A i \in 1 .. N : /\ r[i].side = l[i].side
                           /\ r[i].quantity = l[i].quantity - m[i]
                           /\ r[i].price = l[i].price /\ r[i].fee = l[i].fee
  BY <1>1, <1>2, LotsClosed DEF ClosedLots
<1>5. l \in Seq(Lots)
  BY OpenLotsAreLots
<1>6. PICK S \in {-1, 1}, P \in Int, F \in Int :
          S = SignOf(fill.side) /\ P = fill.price /\ F = fill.fee
  BY DEF SignOf, OpenLots
<1>7. PICK K \in Int : K = S * (mark - P) - F
  <2>1. PICK x \in Int : x = mark - P
    OBVIOUS
  <2>2. S * x - F \in Int
    OBVIOUS
  <2>3. QED
    BY <2>1, <2>2
<1>8. PICK u, v, g, h, D :
          /\ u = Worths(l, mark) /\ v = Worths(r, mark) /\ h = ProfitOf(l, fill, m)
          /\ g = [i \in 1 .. N |-> K * m[i]] /\ D = 1 .. N
  OBVIOUS
<1>9. /\ IsFiniteSet(D)
      /\ \A i \in D : u[i] = WorthOf(l[i], mark) /\ v[i] = WorthOf(r[i], mark)
                      /\ u[i] \in Int /\ v[i] \in Int /\ g[i] = K * m[i]
      /\ DOMAIN u = D /\ DOMAIN v = D
  <2>1. /\ IsFiniteSet(DOMAIN l) /\ DOMAIN Worths(l, mark) = DOMAIN l
        /\ \A i \in DOMAIN l : Worths(l, mark)[i] = WorthOf(l[i], mark)
                               /\ Worths(l, mark)[i] \in Int
    BY <1>5, ValuesOfLots
  <2>2. /\ DOMAIN Worths(r, mark) = DOMAIN r
        /\ \A i \in DOMAIN r : Worths(r, mark)[i] = WorthOf(r[i], mark)
                               /\ Worths(r, mark)[i] \in Int
    BY <1>4, ValuesOfLots
  <2>3. QED
    BY <1>1, <1>4, <1>8, <2>1, <2>2
<1>10. \A i \in D : g[i] \in Int /\ h[i] \in Int /\ v[i] + h[i] = u[i] + g[i]
  <2> TAKE i \in D
  <2>1. PICK s \in {-1, 1}, Q \in Nat, k \in Nat, p \in Int, f \in Int :
            s = SignOf(l[i].side) /\ Q = l[i].quantity /\ k = m[i]
            /\ p = l[i].price /\ f = l[i].fee
    BY <1>3, <1>8 DEF OpenLots, SignOf
  <2>2. k > 0 => s # S
    <3>1. l[i].side \in LedgerSides /\ fill.side \in LedgerSides
      BY <1>3, <1>8 DEF OpenLots
    <3>2. k > 0 => l[i].side # fill.side
      BY <1>3, <1>8, <2>1
    <3>3. l[i].side # fill.side => SignOf(l[i].side) # SignOf(fill.side)
      BY <3>1 DEF SignOf, LedgerSides
    <3>4. QED
      BY <1>6, <2>1, <3>2, <3>3
  <2>3. (Q - k) * (s * (mark - p) - f) + k * (s * (P - p) - f - F)
            = Q * (s * (mark - p) - f) + (S * (mark - P) - F) * k
    BY <2>2, OneLotClosed
  <2>4. /\ u[i] = Q * (s * (mark - p) - f)
        /\ v[i] = (Q - k) * (s * (mark - p) - f)
        /\ g[i] = K * k
    BY <1>4, <1>8, <1>9, <2>1 DEF WorthOf
  <2>5. h[i] = k * (s * (P - p) - f - F)
    BY <1>1, <1>6, <1>8, <2>1 DEF ProfitOf
  <2>6. K * k \in Int
    OBVIOUS
  <2>7. k * (s * (P - p) - f - F) \in Int
    <3>1. PICK x \in Int : x = s * (P - p)
      OBVIOUS
    <3>2. PICK y \in Int : y = x - f - F
      OBVIOUS
    <3>3. k * y \in Int
      OBVIOUS
    <3>4. QED
      BY <3>1, <3>2, <3>3
  <2>8. QED
    BY <1>7, <2>3, <2>4, <2>5, <2>6, <2>7
<1>11. SumFunctionOnSet(g, D) = K * SumFunctionOnSet(m, D)
  <2>1. PICK M : M = m
    OBVIOUS
  <2>2. \A i \in D : M[i] \in Int /\ g[i] = K * M[i]
    BY <1>3, <1>8, <1>9, <2>1
  <2>3. SumFunctionOnSet(g, D) = K * SumFunctionOnSet(M, D)
    BY <1>9, <2>2, SumScaled
  <2>4. QED
    BY <2>1, <2>3
<1>12. PICK w : w = [i \in D |-> v[i] + h[i]]
  OBVIOUS
<1>13. \A i \in D : w[i] = v[i] + h[i] /\ w[i] = u[i] + g[i]
  BY <1>10, <1>12
<1>14. SumFunctionOnSet(w, D) = SumFunctionOnSet(v, D) + SumFunctionOnSet(h, D)
  BY <1>9, <1>10, <1>13, SumPlus
<1>15. SumFunctionOnSet(w, D) = SumFunctionOnSet(u, D) + SumFunctionOnSet(g, D)
  BY <1>9, <1>10, <1>13, SumPlus
<1>16. SumFunctionOnSet(h, D) \in Int
  BY <1>9, <1>10, SumInt
<1>17. /\ Worth(l, mark) = SumFunctionOnSet(u, D)
       /\ Worth(r, mark) = SumFunctionOnSet(v, D)
  BY <1>8, <1>9 DEF Worth, SumFunction
<1>18. ShareWorth(fill, mark) = K
  BY <1>6, <1>7 DEF ShareWorth
<1>19. QED
  BY <1>1, <1>2, <1>8, <1>11, <1>14, <1>15, <1>16, <1>17, <1>18 DEF WorthKept

Applied(l, fill, m, n) ==
    /\ n \in Seq(OpenLots) /\ OneSided(n)
    /\ Net(n) = Net(l) + SignOf(fill.side) * fill.quantity
    /\ \A mark \in Int :
          Worth(n, mark) + SumFunctionOnSet(ProfitOf(l, fill, m), 1 .. Len(l))
              = Worth(l, mark) + ShareWorth(fill, mark) * fill.quantity

StillOpen(l, m) == Entries(Closed(l, m), {i \in DOMAIN l : l[i].quantity > m[i]})
NewlyOpen(l, fill, m) ==
    IF Left(l, fill, m) > 0 THEN <<[fill EXCEPT !.quantity = Left(l, fill, m)]>> ELSE <<>>

\* What is left of a fill is a lot of its own, or nothing.
LEMMA LotOpened ==
    ASSUME NEW l, NEW fill \in OpenLots, NEW m, Matching(l, fill, m), NEW mark \in Int
    PROVE  /\ NewlyOpen(l, fill, m) \in Seq(OpenLots)
           /\ \A j \in DOMAIN NewlyOpen(l, fill, m) :
                 /\ NewlyOpen(l, fill, m)[j].side = fill.side
                 /\ Left(l, fill, m) > 0
           /\ Net(NewlyOpen(l, fill, m)) = SignOf(fill.side) * Left(l, fill, m)
           /\ Worth(NewlyOpen(l, fill, m), mark) = ShareWorth(fill, mark) * Left(l, fill, m)
<1>1. PICK q \in Nat, sum \in Nat, left \in Nat :
          /\ q = fill.quantity /\ sum = SumFunctionOnSet(m, 1 .. Len(l))
          /\ left = Left(l, fill, m) /\ left = q - sum
  BY DEF Matching, OpenLots, Left
<1>2. PICK o : o = NewlyOpen(l, fill, m)
  OBVIOUS
<1>3. PICK S \in {-1, 1}, P \in Int, F \in Int :
          S = SignOf(fill.side) /\ P = fill.price /\ F = fill.fee
  BY DEF SignOf, OpenLots
<1>4. CASE left > 0
  <2>1. PICK lot : lot = [fill EXCEPT !.quantity = left]
    OBVIOUS
  <2>2. /\ lot \in OpenLots /\ lot.side = fill.side /\ lot.quantity = left
        /\ lot.price = P /\ lot.fee = F
    BY <1>3, <1>4, <2>1 DEF OpenLots
  <2>3. o = <<lot>>
    BY <1>1, <1>2, <1>4, <2>1 DEF NewlyOpen
  <2>4. o \in Seq(OpenLots) /\ DOMAIN o = {1} /\ o[1] = lot
    BY <2>2, <2>3
  <2>5. /\ NetOf(lot) = S * left
        /\ WorthOf(lot, mark) = left * (S * (mark - P) - F)
    BY <1>3, <2>2 DEF NetOf, WorthOf
  <2>6. PICK k \in Int : k = S * (mark - P) - F
    <3>1. PICK x \in Int : x = mark - P
      OBVIOUS
    <3>2. S * x - F \in Int
      OBVIOUS
    <3>3. QED
      BY <3>1, <3>2
  <2>7. NetOf(lot) \in Int /\ WorthOf(lot, mark) = k * left /\ WorthOf(lot, mark) \in Int
    <3>1. left * k = k * left /\ k * left \in Int /\ S * left \in Int
      OBVIOUS
    <3>2. QED
      BY <2>5, <2>6, <3>1
  <2>8. Net(o) = NetOf(lot)
    <3>1. PICK v : v = Nets(o)
      OBVIOUS
    <3>2. DOMAIN v = {1} /\ v[1] = NetOf(lot)
      BY <2>4, <3>1 DEF Nets
    <3>3. v[1] \in Int
      BY <2>7, <3>2
    <3>4. SumFunctionOnSet(v, {1}) = v[1]
      BY <3>3, SumSingleton
    <3>5. QED
      BY <3>1, <3>2, <3>4 DEF Net, SumFunction
  <2>9. Worth(o, mark) = WorthOf(lot, mark)
    <3>1. PICK v : v = Worths(o, mark)
      OBVIOUS
    <3>2. DOMAIN v = {1} /\ v[1] = WorthOf(lot, mark)
      BY <2>4, <3>1 DEF Worths
    <3>3. v[1] \in Int
      BY <2>7, <3>2
    <3>4. SumFunctionOnSet(v, {1}) = v[1]
      BY <3>3, SumSingleton
    <3>5. QED
      BY <3>1, <3>2, <3>4 DEF Worth, SumFunction
  <2>10. ShareWorth(fill, mark) = k
    BY <1>3, <2>6 DEF ShareWorth
  <2>11. \A j \in DOMAIN o : o[j].side = fill.side /\ left > 0
    BY <1>4, <2>2, <2>4
  <2>12. QED
    BY <1>1, <1>2, <1>3, <2>4, <2>5, <2>7, <2>8, <2>9, <2>10, <2>11
<1>5. CASE left = 0
  <2>1. o = <<>>
    <3>1. ~(Left(l, fill, m) > 0)
      BY <1>1, <1>5
    <3>2. QED
      BY <1>2, <3>1 DEF NewlyOpen
  <2>2. Nets(<<>>) = <<>> /\ Worths(<<>>, mark) = <<>>
    BY DEF Nets, Worths
  <2>3. Net(o) = 0 /\ Worth(o, mark) = 0
    BY <2>1, <2>2, SeqSumEmpty DEF Net, Worth
  <2>4. PICK k \in Int : k = ShareWorth(fill, mark)
    <3>1. PICK x \in Int : x = mark - P
      OBVIOUS
    <3>2. S * x - F \in Int
      OBVIOUS
    <3>3. QED
      BY <1>3, <3>1, <3>2 DEF ShareWorth
  <2>5. S * 0 = 0 /\ k * 0 = 0
    OBVIOUS
  <2>6. QED
    BY <1>1, <1>2, <1>3, <1>5, <2>1, <2>3, <2>4, <2>5
<1>6. QED
  BY <1>1, <1>4, <1>5

LEMMA FillApplied ==
    ASSUME NEW l \in Seq(OpenLots), OneSided(l), NEW fill \in OpenLots, NEW m,
           Matching(l, fill, m)
    PROVE  Applied(l, fill, m, StillOpen(l, m) \o NewlyOpen(l, fill, m))
<1>1. PICK r, e, o : r = Closed(l, m) /\ e = StillOpen(l, m) /\ o = NewlyOpen(l, fill, m)
  OBVIOUS
<1>2. PICK positions : positions = {i \in DOMAIN l : l[i].quantity > m[i]}
  OBVIOUS
<1>3. ClosedLots(l, fill, m, r)
  BY <1>1, LotsClosed
<1>4. r \in Seq(Lots) /\ e = Entries(r, positions)
  BY <1>1, <1>2, <1>3 DEF StillOpen, ClosedLots
<1>5. \A i \in DOMAIN r : i \in positions <=> r[i].quantity > 0
  <2>1. DOMAIN r = DOMAIN l /\ \A i \in DOMAIN l : r[i].quantity = l[i].quantity - m[i]
    BY <1>3 DEF ClosedLots
  <2>2. DOMAIN l = 1 .. Len(l) /\ \A i \in DOMAIN l : l[i] \in OpenLots
    OBVIOUS
  <2>3. \A i \in DOMAIN l : l[i].quantity \in Nat /\ m[i] \in Nat
    BY <2>2 DEF OpenLots, Matching
  <2>4. QED
    BY <1>2, <2>1, <2>3
<1>6. /\ e \in Seq(OpenLots) /\ Net(e) = Net(r)
      /\ \A k \in DOMAIN e : \E i \in DOMAIN r : i \in positions /\ e[k] = r[i]
  BY <1>4, <1>5, 0 \in Int, LotsSelected
<1>7. \A mark \in Int : Worth(e, mark) = Worth(r, mark)
  BY <1>4, <1>5, LotsSelected
<1>8. /\ o \in Seq(OpenLots)
      /\ \A j \in DOMAIN o : o[j].side = fill.side /\ Left(l, fill, m) > 0
      /\ Net(o) = SignOf(fill.side) * Left(l, fill, m)
  BY <1>1, 0 \in Int, LotOpened
<1>9. \A mark \in Int : Worth(o, mark) = ShareWorth(fill, mark) * Left(l, fill, m)
  BY <1>1, LotOpened
<1>10. PICK n : n = e \o o
  OBVIOUS
<1>11. /\ n \in Seq(OpenLots) /\ DOMAIN n = 1 .. Len(e) + Len(o)
       /\ \A k \in 1 .. Len(e) : n[k] = e[k]
       /\ \A j \in 1 .. Len(o) : n[Len(e) + j] = o[j]
  <2>1. /\ e \o o \in Seq(OpenLots) /\ DOMAIN (e \o o) = 1 .. Len(e) + Len(o)
        /\ \A k \in 1 .. Len(e) : (e \o o)[k] = e[k]
        /\ \A j \in 1 .. Len(o) : (e \o o)[Len(e) + j] = o[j]
    BY <1>6, <1>8, Joined
  <2>2. QED
    BY <1>10, <2>1
<1>12. OneSided(n)
  <2>1. PICK side : \A k \in DOMAIN n : n[k].side = side
    <3>1. \A k \in DOMAIN e : \E i \in DOMAIN l : l[i].quantity > m[i] /\ e[k].side = l[i].side
      BY <1>2, <1>3, <1>6 DEF ClosedLots
    <3>2. DOMAIN e = 1 .. Len(e) /\ DOMAIN o = 1 .. Len(o) /\ Len(e) \in Nat /\ Len(o) \in Nat
      BY <1>6, <1>8
    <3>3. ASSUME NEW k \in DOMAIN n PROVE k \in DOMAIN e \/ \E j \in DOMAIN o : n[k] = o[j]
      <4>1. k \in 1 .. Len(e) + Len(o)
        BY <1>11
      <4>2. CASE k <= Len(e)
        BY <3>2, <4>1, <4>2
      <4>3. CASE ~(k <= Len(e))
        <5>1. k - Len(e) \in 1 .. Len(o) /\ k = Len(e) + (k - Len(e))
          BY <3>2, <4>1, <4>3
        <5>2. QED
          BY <1>11, <3>2, <5>1
      <4>4. QED
        BY <4>2, <4>3
    <3>4. CASE Left(l, fill, m) > 0
      <4>1. SumFunctionOnSet(m, 1 .. Len(l)) < fill.quantity
        <5>1. PICK q \in Nat, sum \in Nat :
                  q = fill.quantity /\ sum = SumFunctionOnSet(m, 1 .. Len(l))
          BY DEF Matching, OpenLots
        <5>2. QED
          BY <3>4, <5>1 DEF Left
      <4>2. \A i \in DOMAIN l : l[i].side = fill.side \/ m[i] = l[i].quantity
        BY <4>1 DEF Matching
      <4>3. \A i \in DOMAIN l : l[i].quantity > m[i] => l[i].side = fill.side
        <5>1. \A i \in DOMAIN l : l[i].quantity \in Nat
          <6>1. \A i \in DOMAIN l : l[i] \in OpenLots
            OBVIOUS
          <6>2. QED
            BY <6>1 DEF OpenLots
        <5>2. QED
          BY <4>2, <5>1
      <4>4. \A k \in DOMAIN n : n[k].side = fill.side
        BY <1>8, <1>11, <3>1, <3>2, <3>3, <4>3
      <4>5. QED
        BY <4>4
    <3>5. CASE ~(Left(l, fill, m) > 0)
      <4>1. \A k \in DOMAIN n : k \in DOMAIN e /\ n[k] = e[k]
        BY <1>8, <1>11, <3>2, <3>3, <3>5
      <4>2. \A k \in DOMAIN n : \E i \in DOMAIN l : n[k].side = l[i].side
        BY <3>1, <4>1
      <4>3. \A k, j \in DOMAIN n : n[k].side = n[j].side
        BY <4>2 DEF OneSided
      <4>4. CASE DOMAIN n = {}
        BY <4>4
      <4>5. CASE DOMAIN n # {}
        <5>1. PICK j \in DOMAIN n : TRUE
          BY <4>5
        <5>2. \A k \in DOMAIN n : n[k].side = n[j].side
          BY <4>3
        <5>3. QED
          BY <5>2
      <4>6. QED
        BY <4>4, <4>5
    <3>6. QED
      BY <3>4, <3>5
  <2>2. QED
    BY <2>1 DEF OneSided
<1>13. PICK q \in Nat, sum \in Nat, left \in Nat :
           /\ q = fill.quantity /\ sum = SumFunctionOnSet(m, 1 .. Len(l))
           /\ left = Left(l, fill, m) /\ left = q - sum
  BY DEF Matching, OpenLots, Left
<1>14. e \in Seq(Lots) /\ o \in Seq(Lots) /\ l \in Seq(Lots)
  BY <1>6, <1>8, OpenLotsAreLots
<1>15. Net(n) = Net(l) + SignOf(fill.side) * fill.quantity
  <2>1. PICK S \in {-1, 1}, a \in Int : S = SignOf(fill.side) /\ a = Net(l)
    BY <1>14, 0 \in Int, ValuesOfLots DEF SignOf
  <2>2. Net(n) = Net(e) + Net(o)
    BY <1>10, <1>14, 0 \in Int, LotsJoined
  <2>3. Net(e) = a + S * sum
    BY <1>3, <1>6, <1>13, <2>1 DEF ClosedLots
  <2>4. Net(o) = S * left
    BY <1>8, <1>13, <2>1
  <2>5. (a + S * sum) + S * left = a + S * q
    <3>1. sum + left = q
      BY <1>13
    <3>2. S * (sum + left) = S * sum + S * left
      OBVIOUS
    <3>3. PICK x \in Int, y \in Int : x = S * sum /\ y = S * left
      OBVIOUS
    <3>4. QED
      BY <3>1, <3>2, <3>3
  <2>6. QED
    BY <1>13, <2>1, <2>2, <2>3, <2>4, <2>5
<1>16. ASSUME NEW mark \in Int
       PROVE  Worth(n, mark) + SumFunctionOnSet(ProfitOf(l, fill, m), 1 .. Len(l))
                  = Worth(l, mark) + ShareWorth(fill, mark) * fill.quantity
  <2>1. WorthKept(l, fill, m, r, mark)
    BY <1>1, WorthClosed
  <2>2. PICK K \in Int : K = ShareWorth(fill, mark)
    <3>1. PICK S \in {-1, 1}, P \in Int, F \in Int :
              S = SignOf(fill.side) /\ P = fill.price /\ F = fill.fee
      BY DEF SignOf, OpenLots
    <3>2. PICK x \in Int : x = mark - P
      OBVIOUS
    <3>3. S * x - F \in Int
      OBVIOUS
    <3>4. QED
      BY <3>1, <3>2, <3>3 DEF ShareWorth
  <2>3. PICK a \in Int, b \in Int, c \in Int, d \in Int :
            /\ a = Worth(l, mark) /\ b = Worth(e, mark) /\ c = Worth(o, mark)
            /\ d = SumFunctionOnSet(ProfitOf(l, fill, m), 1 .. Len(l))
    BY <1>14, <2>1, ValuesOfLots DEF WorthKept
  <2>4. b + d = a + K * sum
    BY <1>7, <1>13, <2>1, <2>2, <2>3 DEF WorthKept
  <2>5. c = K * left
    BY <1>9, <1>13, <2>2, <2>3
  <2>6. Worth(n, mark) = b + c
    BY <1>10, <1>14, <2>3, LotsJoined
  <2>7. (b + c) + d = a + K * q
    <3>1. sum + left = q
      BY <1>13
    <3>2. K * (sum + left) = K * sum + K * left
      OBVIOUS
    <3>3. PICK x \in Int, y \in Int : x = K * sum /\ y = K * left
      OBVIOUS
    <3>4. K * q = x + y
      BY <3>1, <3>2, <3>3
    <3>5. QED
      BY <2>4, <2>5, <3>3, <3>4
  <2>8. QED
    BY <1>13, <2>2, <2>3, <2>6, <2>7
<1>17. QED
  BY <1>1, <1>10, <1>11, <1>12, <1>15, <1>16 DEF Applied

-----------------------------------------------------------------------------
(***************************************************************************)
(* The ledger's invariant: the open lots are of one side, amount to the    *)
(* position, and at any mark their worth and the realized profit are what  *)
(* liquidating would leave.                                                *)
(***************************************************************************)
LedgerTyped ==
    /\ open \in Seq(OpenLots)
    /\ realized \in Int /\ held \in Int /\ cash \in Int

LedgerInv ==
    /\ LedgerTyped
    /\ OneSided(open)
    /\ Net(open) = held
    /\ \A mark \in Int : realized + Worth(open, mark) = cash + held * mark

LEMMA NoLots == \A mark : Net(<<>>) = 0 /\ Worth(<<>>, mark) = 0
<1> TAKE mark
<1>1. Nets(<<>>) = <<>> /\ Worths(<<>>, mark) = <<>>
  BY DEF Nets, Worths
<1>2. QED
  BY <1>1, SeqSumEmpty DEF Net, Worth

LEMMA NoLotsInv ==
    open = <<>> /\ realized = 0 /\ held = 0 /\ cash = 0 => LedgerInv
<1> SUFFICES ASSUME open = <<>>, realized = 0, held = 0, cash = 0 PROVE LedgerInv
  OBVIOUS
<1>1. LedgerTyped /\ OneSided(open)
  BY DEF LedgerTyped, OneSided
<1>2. \A mark \in Int : 0 + 0 = 0 + 0 * mark
  OBVIOUS
<1>3. QED
  BY <1>1, <1>2, NoLots DEF LedgerInv

LEMMA LedgerStarts == Ledger!Init => LedgerInv
BY NoLotsInv DEF Ledger!Init

LEMMA LedgerNextInv == LedgerInv /\ [Ledger!Next]_ledgerVars => LedgerInv'
<1> SUFFICES ASSUME LedgerInv, [Ledger!Next]_ledgerVars PROVE LedgerInv'
  OBVIOUS
<1>1. /\ open \in Seq(OpenLots) /\ OneSided(open) /\ Net(open) = held
      /\ realized \in Int /\ held \in Int /\ cash \in Int
      /\ \A mark \in Int : realized + Worth(open, mark) = cash + held * mark
  BY DEF LedgerInv, LedgerTyped
<1>2. ASSUME NEW fill \in OpenLots, Ledger!ApplyFill(fill) PROVE LedgerInv'
  <2>1. PICK m : m = Ledger!Matched(fill)
    OBVIOUS
  <2>2. Matching(open, fill, m)
    BY <1>1, <2>1, MatchedHere
  <2>3. PICK l \in Seq(OpenLots), N \in Nat : l = open /\ N = Len(open) /\ DOMAIN open = 1 .. N
    BY <1>1
  <2>4. Ledger!Reduced(m) = StillOpen(l, m)
    BY <2>3, OneSelection DEF Ledger!Reduced, StillOpen, Closed
  <2>5. Ledger!Opened(fill, m) = NewlyOpen(l, fill, m)
    BY <2>3, OneLedgerSum DEF Ledger!Opened, NewlyOpen, Left
  <2>6. Ledger!Profit(fill, m) = ProfitOf(l, fill, m)
    BY <2>3 DEF Ledger!Profit, ProfitOf, Ledger!Sign, SignOf
  <2>7. /\ open' = Ledger!Reduced(m) \o Ledger!Opened(fill, m)
        /\ realized' = realized + Ledger!Sum(Ledger!Profit(fill, m), N)
        /\ held' = held + Ledger!Sign(fill.side) * fill.quantity
        /\ cash' = cash - fill.quantity * (Ledger!Sign(fill.side) * fill.price + fill.fee)
    BY <1>2, <2>1, <2>3 DEF Ledger!ApplyFill
  <2>8. PICK S \in {-1, 1}, P \in Int, F \in Int, q \in Nat :
            S = SignOf(fill.side) /\ P = fill.price /\ F = fill.fee /\ q = fill.quantity
    BY DEF SignOf, OpenLots
  <2>9. PICK n : n = StillOpen(l, m) \o NewlyOpen(l, fill, m)
    OBVIOUS
  <2>10. PICK d : d = SumFunctionOnSet(ProfitOf(l, fill, m), 1 .. N)
    OBVIOUS
  <2>11. Applied(l, fill, m, n)
    BY <1>1, <2>2, <2>3, <2>9, FillApplied
  <2>12. d \in Int
    <3>1. WorthKept(l, fill, m, Closed(l, m), 0)
      BY <2>2, <2>3, 0 \in Int, WorthClosed
    <3>2. QED
      BY <2>3, <2>10, <3>1 DEF WorthKept
  <2>13. /\ open' = n /\ realized' = realized + d
         /\ held' = held + S * q /\ cash' = cash - q * (S * P + F)
    <3>1. Ledger!Sign(fill.side) = S
      BY <2>8 DEF Ledger!Sign, SignOf
    <3>2. Ledger!Sum(Ledger!Profit(fill, m), N) = d
      BY <2>6, <2>10, OneLedgerSum
    <3>3. open' = n
      BY <2>4, <2>5, <2>7, <2>9
    <3>4. QED
      BY <2>7, <2>8, <3>1, <3>2, <3>3
  <2>14. realized' \in Int /\ held' \in Int /\ cash' \in Int
    <3>1. PICK x \in Int, y \in Int : x = S * q /\ y = S * P
      OBVIOUS
    <3>2. PICK z \in Int : z = q * (y + F)
      OBVIOUS
    <3>3. realized + d \in Int /\ held + x \in Int /\ cash - z \in Int
      BY <1>1, <2>12
    <3>4. QED
      BY <2>13, <3>1, <3>2, <3>3
  <2>15. n \in Seq(OpenLots) /\ OneSided(n) /\ Net(n) = held'
    BY <1>1, <2>3, <2>8, <2>11, <2>13 DEF Applied
  <2>16. ASSUME NEW mark \in Int PROVE realized' + Worth(n, mark) = cash' + held' * mark
    <3>1. PICK K \in Int : K = S * (mark - P) - F /\ K = ShareWorth(fill, mark)
      <4>1. PICK x \in Int : x = mark - P
        OBVIOUS
      <4>2. S * x - F \in Int
        OBVIOUS
      <4>3. QED
        BY <2>8, <4>1, <4>2 DEF ShareWorth
    <3>2. PICK a \in Int, b \in Int : a = Worth(open, mark) /\ b = Worth(n, mark)
      <4>1. open \in Seq(Lots) /\ n \in Seq(Lots)
        <5>1. \A s \in Seq(OpenLots) : s \in Seq(Lots)
          BY OpenLotsAreLots
        <5>2. QED
          BY <1>1, <2>15, <5>1
      <4>2. QED
        BY <4>1, ValuesOfLots
    <3>3. b + d = a + K * q
      BY <2>3, <2>8, <2>10, <2>11, <3>1, <3>2 DEF Applied
    <3>4. realized + a = cash + held * mark
      BY <1>1, <3>2
    <3>5. PICK r \in Int, c \in Int, h \in Int : r = realized /\ c = cash /\ h = held
      BY <1>1
    <3>6. (r + d) + b = (c - q * (S * P + F)) + (h + S * q) * mark
      <4>1. K * q = (S * q) * mark - q * (S * P + F)
        <5>1. CASE S = 1
          BY <3>1, <5>1
        <5>2. CASE S = -1
          BY <3>1, <5>2
        <5>3. QED
          BY <5>1, <5>2
      <4>2. (h + S * q) * mark = h * mark + (S * q) * mark
        <5>1. PICK x \in Int : x = S * q
          OBVIOUS
        <5>2. (h + x) * mark = h * mark + x * mark
          OBVIOUS
        <5>3. QED
          BY <5>1, <5>2
      <4>3. PICK u \in Int, v \in Int, w \in Int, k \in Int :
                u = h * mark /\ v = (S * q) * mark /\ w = q * (S * P + F) /\ k = K * q
        <5>1. PICK x \in Int, y \in Int : x = S * q /\ y = S * P
          OBVIOUS
        <5>2. h * mark \in Int /\ x * mark \in Int /\ q * (y + F) \in Int /\ K * q \in Int
          OBVIOUS
        <5>3. QED
          BY <5>1, <5>2
      <4>4. (r + d) + b = (c - w) + (u + v)
        <5>1. r + a = c + u /\ b + d = a + k /\ k = v - w
          BY <3>3, <3>4, <3>5, <4>1, <4>3
        <5>2. QED
          BY <2>12, <5>1
      <4>5. QED
        BY <4>2, <4>3, <4>4
    <3>7. QED
      BY <2>13, <3>2, <3>5, <3>6
  <2>17. QED
    BY <2>13, <2>14, <2>15, <2>16 DEF LedgerInv, LedgerTyped
<1>3. ASSUME Ledger!Next PROVE LedgerInv'
  <2>1. PICK side \in LedgerSides, q \in Quantities, p \in Prices, f \in Fees :
            Ledger!ApplyFill([side |-> side, quantity |-> q, price |-> p, fee |-> f])
    BY <1>3 DEF Ledger!Next, LedgerSides
  <2>2. PICK fill : fill = [side |-> side, quantity |-> q, price |-> p, fee |-> f]
    OBVIOUS
  <2>3. fill \in OpenLots
    BY <2>2, LedgerAssumption DEF OpenLots
  <2>4. QED
    BY <1>2, <2>1, <2>2, <2>3
<1>4. CASE UNCHANGED ledgerVars
  BY <1>1, <1>4 DEF LedgerInv, LedgerTyped, ledgerVars
<1>5. QED
  BY <1>3, <1>4

LEMMA LedgerInvEquity == LedgerInv => ProfitIsEquity
<1> SUFFICES ASSUME LedgerInv PROVE ProfitIsEquity
  OBVIOUS
<1>1. /\ open \in Seq(OpenLots) /\ OneSided(open) /\ Net(open) = held
      /\ \A mark \in Int : realized + Worth(open, mark) = cash + held * mark
  BY DEF LedgerInv, LedgerTyped
<1>2. PICK N \in Nat : N = Len(open) /\ DOMAIN open = 1 .. N
  BY <1>1
<1>3. Ledger!LotsAreThePosition
  <2>1. PICK v : v = Nets(open)
    OBVIOUS
  <2>2. v = [i \in DOMAIN open |-> Ledger!Sign(open[i].side) * open[i].quantity]
        /\ DOMAIN v = 1 .. N
    BY <1>2, <2>1 DEF Nets, NetOf, Ledger!Sign, SignOf
  <2>3. SumFunctionOnSet(v, 1 .. N) = held
    BY <1>1, <2>1, <2>2 DEF Net, SumFunction
  <2>4. Ledger!Sum(v, N) = held
    BY <2>3, OneLedgerSum
  <2>5. QED
    BY <1>1, <1>2, <2>2, <2>4 DEF Ledger!LotsAreThePosition, OneSided
<1>4. ASSUME NEW mark \in Prices
      PROVE  realized + Ledger!Unrealized(mark) = cash + held * mark
  <2>1. mark \in Int
    BY LedgerAssumption
  <2>2. PICK v : v = Worths(open, mark)
    OBVIOUS
  <2>3. /\ v = [i \in DOMAIN open |->
                   open[i].quantity * (Ledger!Sign(open[i].side) * (mark - open[i].price)
                                           - open[i].fee)]
        /\ DOMAIN v = 1 .. N
    BY <1>2, <2>2 DEF Worths, WorthOf, Ledger!Sign, SignOf
  <2>4. Ledger!Unrealized(mark) = Worth(open, mark)
    <3>1. Ledger!Unrealized(mark) = Ledger!Sum(v, N)
      BY <1>2, <2>3 DEF Ledger!Unrealized
    <3>2. Worth(open, mark) = SumFunctionOnSet(v, 1 .. N)
      BY <2>2, <2>3 DEF Worth, SumFunction
    <3>3. QED
      BY <3>1, <3>2, OneLedgerSum
  <2>5. QED
    BY <1>1, <2>1, <2>4
<1>5. QED
  BY <1>3, <1>4 DEF ProfitIsEquity, Ledger!ProfitIsEquity

-----------------------------------------------------------------------------
(***************************************************************************)
(* The whole: one of the four parts moves, the others keep their invariant *)
(* at rest.                                                                *)
(***************************************************************************)
LEMMA FillsRest == FillsAtRest => FillsInv
<1> SUFFICES ASSUME FillsAtRest PROVE FillsInv
  OBVIOUS
<1>1. /\ job = "close" /\ alpha = 0 /\ batches = <<>>
      /\ current = [t \in TickerSet |-> 0] /\ target = current /\ position = current
  BY DEF FillsAtRest
<1>2. FillsTyped
  <2>1. current \in [TickerSet -> Int] /\ <<>> \in Seq(Seq(Orders)) /\ 0 \in 0 .. 100
    BY <1>1
  <2>2. QED
    BY <1>1, <2>1 DEF FillsTyped
<1>3. LeadsToGoal
  <2>1. ASSUME NEW t \in TickerSet
        PROVE  position[t] + Bought(batches, t) - Sold(batches, t) = Goal(t)
    <3>1. position[t] = 0 /\ current[t] = 0
      BY <1>1
    <3>2. Bought(batches, t) = 0 /\ Sold(batches, t) = 0
      BY <1>1, TotalOfNone DEF Bought, Sold
    <3>3. Goal(t) = 0
      BY <1>1, <3>1 DEF Goal, Kept
    <3>4. QED
      BY <3>1, <3>2, <3>3
  <2>2. QED
    BY <2>1 DEF LeadsToGoal
<1>4. OneWay /\ RepaysFirst
  BY <1>1 DEF OneWay, RepaysFirst
<1>5. OrdersAreWholeLots
  BY <1>1 DEF OrdersAreWholeLots
<1>6. QED
  BY <1>2, <1>3, <1>4, <1>5 DEF FillsInv

LEMMA RecordingRest == RecordingAtRest => RecordingInv
<1> SUFFICES ASSUME RecordingAtRest PROVE RecordingInv
  OBVIOUS
<1>1. plan = <<>> /\ unsent = <<>> /\ results = <<>> /\ saved = <<>> /\ alive = FALSE
  BY DEF RecordingAtRest
<1>2. <<>> \in Seq(Intent) /\ DOMAIN <<>> = {}
  OBVIOUS
<1>3. Progress(<<>>, <<>>, <<>>) /\ InOrder(<<>>, <<>>, <<>>)
  BY <1>2 DEF Progress, InOrder
<1>4. QED
  BY <1>1, <1>3, NoResults DEF RecordingInv

LEMMA BalancingRest == BalancingAtRest => BalancingInv
<1> SUFFICES ASSUME BalancingAtRest PROVE BalancingInv
  OBVIOUS
<1>1. /\ weight = [i \in 1 .. Size |-> 0] /\ lotPrice = weight /\ netLimit = 0
      /\ lots = weight /\ remaining = [side \in {"BUY", "SELL"} |-> 0]
      /\ steps = 0 /\ balancing = FALSE
  BY DEF BalancingAtRest
<1>2. BalancingTyped /\ RemainingTyped
  <2>1. weight \in [1 .. Size -> Int]
    BY <1>1
  <2>2. lotPrice \in [1 .. Size -> Nat] /\ lots \in [1 .. Size -> Nat]
    BY <1>1
  <2>3. netLimit \in Nat /\ steps \in Nat /\ balancing \in BOOLEAN
    BY <1>1
  <2>4. RemainingTyped
    BY <1>1 DEF RemainingTyped
  <2>5. QED
    BY <2>1, <2>2, <2>3, <2>4 DEF BalancingTyped
<1>3. \A side \in {"BUY", "SELL"} : TotalOf(weight, lotPrice, lots, side) = 0
                                    /\ BudgetOf(weight, side) = 0
  <2> TAKE side \in {"BUY", "SELL"}
  <2>1. OnSide(weight, side) = {}
    BY <1>1 DEF OnSide
  <2>2. SumFunctionOnSet(ValueOf(lotPrice, lots), OnSide(weight, side)) = 0
        /\ SumFunctionOnSet(ShareOfWeight(weight), OnSide(weight, side)) = 0
    BY <2>1, SumEmpty
  <2>3. Scale * 0 = 0
    BY BalancingAssumption
  <2>4. QED
    BY <2>2, <2>3 DEF TotalOf, BudgetOf
<1>4. BooksAgree
  BY <1>1, <1>3 DEF BooksAgree
<1>5. ~Balancing!OverLimit
  <2>1. Balancing!Net = 0
    BY <1>2, <1>3, NetHere
  <2>2. QED
    BY <1>1, <2>1 DEF Balancing!OverLimit, Balancing!Magnitude
<1>6. steps < MaxSteps
  BY <1>1, BalancingAssumption
<1>7. FewSteps
  BY <1>5, <1>6 DEF FewSteps
<1>8. QED
  BY <1>2, <1>4, <1>7 DEF BalancingInv

LEMMA LedgerRest == LedgerAtRest => LedgerInv
BY NoLotsInv DEF LedgerAtRest

QuantitiesInv == FillsInv /\ RecordingInv /\ BalancingInv /\ LedgerInv

quantitiesVars == <<vars, recordingVars, balancingVars, ledgerVars>>

LEMMA QuantitiesStart == QuantitiesInit => QuantitiesInv
<1>1. CASE Init /\ RecordingAtRest /\ BalancingAtRest /\ LedgerAtRest
  BY <1>1, FillsInitInv, RecordingRest, BalancingRest, LedgerRest DEF QuantitiesInv
<1>2. CASE FillsAtRest /\ RecordingInit /\ BalancingAtRest /\ LedgerAtRest
  BY <1>2, FillsRest, RecordingStartsInv, BalancingRest, LedgerRest DEF QuantitiesInv
<1>3. CASE FillsAtRest /\ RecordingAtRest /\ Balancing!Init /\ LedgerAtRest
  BY <1>3, FillsRest, RecordingRest, BalancingStarts, LedgerRest DEF QuantitiesInv
<1>4. CASE FillsAtRest /\ RecordingAtRest /\ BalancingAtRest /\ Ledger!Init
  BY <1>4, FillsRest, RecordingRest, BalancingRest, LedgerStarts DEF QuantitiesInv
<1>5. QED
  BY <1>1, <1>2, <1>3, <1>4 DEF QuantitiesInit

\* A step of one part, or a stutter, is a step or a stutter of each.
LEMMA QuantitiesSteps ==
    [QuantitiesNext]_quantitiesVars =>
        /\ [Next]_vars /\ [RecordingNext]_recordingVars
        /\ [Balancing!Next]_balancingVars /\ [Ledger!Next]_ledgerVars
BY DEF QuantitiesNext, quantitiesVars

LEMMA QuantitiesStep ==
    QuantitiesInv /\ [QuantitiesNext]_quantitiesVars => QuantitiesInv'
BY QuantitiesSteps, FillsNextInv, RecordingNextInv, BalancingNextInv, LedgerNextInv
   DEF QuantitiesInv

\* Every part keeps its invariant.
LEMMA QuantitiesInvariant == QuantitiesSpec => []QuantitiesInv
<1>1. QuantitiesInit => QuantitiesInv
  BY QuantitiesStart
<1>2. QuantitiesInv /\ [QuantitiesNext]_quantitiesVars => QuantitiesInv'
  BY QuantitiesStep
<1>3. QED
  BY <1>1, <1>2, PTL DEF QuantitiesSpec, quantitiesVars

\* Whatever the tickers, lots, inventories, targets and overnight shares: filled
\* completely in any order within their batches, the orders of a decision bring
\* every ticker to its target, those of the close job leave every whole-lot
\* position within half a lot of its overnight share, and all are whole lots
\* when the inventories are.
THEOREM PlansExact == QuantitiesSpec => []PlansAreExact
<1>1. QuantitiesInv => PlansAreExact
  BY FillsInvExact DEF QuantitiesInv
<1>2. QED
  BY <1>1, QuantitiesInvariant, PTL

\* While a close of any ticker of a decision is open, every position is on the
\* way from its inventory to what is retained of it; once none is, on the way
\* from there to its target.
THEOREM NeverOvershoots == QuantitiesSpec => []PlanNeverOvershoots
<1>1. QuantitiesInv => PlanNeverOvershoots
  BY FillsInvWithin DEF QuantitiesInv
<1>2. QED
  BY <1>1, QuantitiesInvariant, PTL

\* A target that passes the risk stop's test never adds exposure while its
\* orders fill.
THEOREM ReductionsReduce == QuantitiesSpec => []ReductionOnlyReduces
<1>1. QuantitiesInv => ReductionOnlyReduces
  BY FillsInvWithin, WithinReduces DEF QuantitiesInv
<1>2. QED
  BY <1>1, QuantitiesInvariant, PTL

\* The first-fit attribution of broker orders to planned quantities finds the
\* intent an order is a part of, across batches, lost responses, the summary's
\* order, a crash and recoveries, for every plan that is in turn.
THEOREM PartsAreAttributed == QuantitiesSpec => []PartsKeepTheirIntent
<1>1. QuantitiesInv => PartsKeepTheirIntent
  BY PartsAttributed DEF QuantitiesInv
<1>2. QED
  BY <1>1, QuantitiesInvariant, PTL

\* Whatever lots a plan closes, a recovery finds it fully identified only when
\* every part of it was sent and no response was lost; for every plan that is in
\* turn it does so then.
THEOREM IdentifiedExactly == QuantitiesSpec => []FullyIdentifiedExactly
<1>1. QuantitiesInv => FullyIdentifiedExactly
  BY ExactlyIdentified DEF QuantitiesInv
<1>2. QED
  BY <1>1, QuantitiesInvariant, PTL

\* No later call moves a broker order to another intent or forgets it.
THEOREM IntentsRetained == QuantitiesSpec => IntentRetained
<1>1. QuantitiesInv /\ [QuantitiesNext]_quantitiesVars
          => [\A id \in DOMAIN saved : id \in DOMAIN saved' /\ saved'[id] = saved[id]]_recordingVars
  <2>1. RecordingInv /\ [RecordingNext]_recordingVars
            => \A id \in DOMAIN saved : id \in DOMAIN saved' /\ saved'[id] = saved[id]
    BY IntentsExtended
  <2>2. QED
    BY <2>1, QuantitiesSteps DEF QuantitiesInv
<1>2. QED
  BY <1>1, QuantitiesInvariant, PTL DEF QuantitiesSpec, quantitiesVars, IntentRetained

\* For any weights, prices, budgets and limits: the balancing loop keeps both
\* sides within their budgets, never runs out of moves over the limit, and with
\* lots no coarser than the band and enough iterations ends within it.
THEOREM BalancingWithinBudget == QuantitiesSpec => []BalancingConverges
<1>1. QuantitiesInv => BalancingConverges
  BY BalancingInvConverges DEF QuantitiesInv
<1>2. QED
  BY <1>1, QuantitiesInvariant, PTL

\* After any number of fills the open lots are the net of the fills, and
\* realized and unrealized profit are what liquidating at the mark would leave.
THEOREM LedgerIsEquity == QuantitiesSpec => []ProfitIsEquity
<1>1. QuantitiesInv => ProfitIsEquity
  BY LedgerInvEquity DEF QuantitiesInv
<1>2. QED
  BY <1>1, QuantitiesInvariant, PTL
=============================================================================
