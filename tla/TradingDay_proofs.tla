------------------------- MODULE TradingDay_proofs --------------------------
(***************************************************************************)
(* From orders that are sent to a trading day that is settled: how much a  *)
(* run sends and in which order, what the store has recorded of it, when   *)
(* it is completed, and that the day is a run of TradingDay.               *)
(***************************************************************************)
EXTENDS OrderExecution_proofs

-----------------------------------------------------------------------------
(***************************************************************************)
(* How much of its plan a run may still send.                              *)
(***************************************************************************)

(***************************************************************************)
(* What a queue of batches asks for.                                       *)
(***************************************************************************)
QueueWeights(queue, G) == [b \in DOMAIN queue |-> QtyOf(queue[b].orders, G)]
QueueQty(queue, G) == SumFunction(QueueWeights(queue, G))

LEMMA IntentQty ==
    ASSUME NEW orders \in Seq(Intent)
    PROVE  \A i \in DOMAIN orders : orders[i] \in Intent /\ orders[i].qty \in Nat \ {0}
<1>1. \A i \in DOMAIN orders : orders[i] \in Intent
  OBVIOUS
<1>2. QED
  BY <1>1 DEF Intent

LEMMA QueueType ==
    ASSUME NEW queue \in Seq(BatchRec), NEW G
    PROVE  /\ QueueWeights(queue, G) \in Seq(Int)
           /\ \A b \in DOMAIN queue : QueueWeights(queue, G)[b] \in Nat
           /\ QueueQty(queue, G) \in Nat
<1>1. ASSUME NEW b \in DOMAIN queue PROVE QtyOf(queue[b].orders, G) \in Nat
  <2>1. queue[b] \in BatchRec
    OBVIOUS
  <2>2. queue[b].orders \in Seq(Intent)
    BY <2>1 DEF BatchRec
  <2>3. \A i \in DOMAIN queue[b].orders : queue[b].orders[i].qty \in Nat
    BY <2>2, IntentQty
  <2>4. QED
    BY <2>2, <2>3, QtyNat
<1> DEFINE v == QueueWeights(queue, G)
<1>2. /\ DOMAIN v = 1 .. Len(queue) /\ Len(queue) \in Nat
      /\ \A b \in DOMAIN v : v[b] \in Nat /\ v[b] \in Int
      /\ v = [b \in 1 .. Len(queue) |-> v[b]]
  BY <1>1 DEF QueueWeights
<1> HIDE DEF v
<1>3. v \in Seq(Int)
  BY <1>2
<1>4. IsFiniteSet(DOMAIN v)
  BY <1>3, SeqSumInt
<1>5. SumFunctionOnSet(v, DOMAIN v) \in Nat
  BY <1>2, <1>4, SumNat
<1>6. DOMAIN v = DOMAIN queue
  BY DEF v, QueueWeights
<1>7. QED
  BY <1>2, <1>3, <1>5, <1>6 DEF QueueQty, SumFunction, v

LEMMA QueueEmpty == \A G : QueueQty(<<>>, G) = 0
<1>1. \A G : QueueWeights(<<>>, G) = <<>>
  BY DEF QueueWeights
<1>2. QED
  BY <1>1, SeqSumEmpty DEF QueueQty

LEMMA QueueHead ==
    ASSUME NEW queue \in Seq(BatchRec), queue # <<>>, NEW G
    PROVE  QueueQty(queue, G) = QtyOf(queue[1].orders, G) + QueueQty(Tail(queue), G)
<1> DEFINE v == QueueWeights(queue, G)
<1>1. v \in Seq(Int)
  BY QueueType
<1>2. v # <<>> /\ Head(v) = QtyOf(queue[1].orders, G)
  <2>1. 1 \in DOMAIN queue
    OBVIOUS
  <2>2. v[1] = QtyOf(queue[1].orders, G) /\ DOMAIN v = DOMAIN queue
    BY <2>1 DEF QueueWeights
  <2>3. v # <<>>
    BY <2>1, <2>2
  <2>4. QED
    BY <1>1, <2>2, <2>3
<1>3. Tail(v) = QueueWeights(Tail(queue), G)
  <2>1. /\ Len(v) = Len(queue) /\ Len(queue) \in Nat \ {0}
        /\ \A b \in 1 .. Len(queue) : v[b] = QtyOf(queue[b].orders, G)
    BY DEF QueueWeights
  <2> HIDE DEF v
  <2>2. ASSUME NEW S, NEW s \in Seq(S), s # <<>>
        PROVE  /\ DOMAIN Tail(s) = 1 .. Len(s) - 1
               /\ Tail(s) = [b \in 1 .. Len(s) - 1 |-> Tail(s)[b]]
               /\ \A b \in 1 .. Len(s) - 1 : Tail(s)[b] = s[b + 1]
    <3>1. Tail(s) \in Seq(S) /\ Len(Tail(s)) = Len(s) - 1
      BY <2>2
    <3>2. \A b \in 1 .. Len(s) - 1 : Tail(s)[b] = s[b + 1]
      BY <2>2
    <3>3. DOMAIN Tail(s) = 1 .. Len(s) - 1
      BY <3>1
    <3>5. Tail(s) = [b \in 1 .. Len(s) - 1 |-> Tail(s)[b]]
      <4>1. \A t \in Seq(S) : t = [b \in 1 .. Len(t) |-> t[b]]
        OBVIOUS
      <4>2. QED
        BY <3>1, <4>1
    <3>4. QED
      BY <3>2, <3>3, <3>5
  <2>5. /\ Tail(v) = [b \in 1 .. Len(v) - 1 |-> Tail(v)[b]]
        /\ \A b \in 1 .. Len(v) - 1 : Tail(v)[b] = v[b + 1]
    BY <1>1, <1>2, <2>2
  <2>6. /\ DOMAIN Tail(queue) = 1 .. Len(queue) - 1
        /\ \A b \in 1 .. Len(queue) - 1 : Tail(queue)[b] = queue[b + 1]
    BY <2>2
  <2>3. \A b \in 1 .. Len(queue) - 1 : Tail(v)[b] = QtyOf(Tail(queue)[b].orders, G)
    BY <2>1, <2>5, <2>6
  <2>4. QED
    BY <2>1, <2>3, <2>5, <2>6 DEF QueueWeights
<1>4. SumFunction(v) = Head(v) + SumFunction(Tail(v))
  <2> HIDE DEF v
  <2>1. QED
    BY <1>1, <1>2, SeqSumTail
<1>5. QED
  BY <1>2, <1>3, <1>4 DEF QueueQty

\* Leaving out empty batches leaves out nothing.
LEMMA QueueEntries ==
    ASSUME NEW all \in Seq(BatchRec), NEW G
    PROVE  QueueQty(Entries(all, {b \in DOMAIN all : all[b].orders # <<>>}), G)
               = QueueQty(all, G)
<1> DEFINE P == {b \in DOMAIN all : all[b].orders # <<>>}
           e == Entries(all, P)
           v == QueueWeights(e, G)
           w == QueueWeights(all, G)
<1>1. /\ DOMAIN w = DOMAIN all /\ DOMAIN v = DOMAIN e
      /\ \A b \in DOMAIN all : w[b] = QtyOf(all[b].orders, G) /\ w[b] \in Int
      /\ \A b \in DOMAIN e : v[b] = QtyOf(e[b].orders, G)
  <2>1. \A b \in DOMAIN all : w[b] \in Nat
    BY QueueType
  <2>2. QED
    BY <2>1 DEF QueueWeights
<1>2. \A b \in DOMAIN all : b \notin P => w[b] = 0
  <2>1. ASSUME NEW b \in DOMAIN all, b \notin P PROVE w[b] = 0
    <3>1. all[b].orders = <<>>
      BY <2>1
    <3>2. QED
      BY <1>1, <3>1, QtyEmpty
  <2>2. QED
    BY <2>1
<1>3. IsFiniteSet(DOMAIN all) /\ P \cap DOMAIN all = P /\ P \subseteq DOMAIN all
  <2>1. DOMAIN all = 1 .. Len(all) /\ Len(all) \in Nat
    OBVIOUS
  <2>2. QED
    BY <2>1, FS_Interval
<1> HIDE DEF P, v, w
<1>4. SumFunction(v) = SumFunctionOnSet(w, P \cap DOMAIN all)
  <2>1. \A k \in DOMAIN v : \A i \in P \cap DOMAIN all : Entries(all, P)[k] = all[i] => v[k] = w[i]
    BY <1>1
  <2>2. \A i \in P \cap DOMAIN all : w[i] \in Int
    BY <1>1
  <2>3. DOMAIN v = DOMAIN Entries(all, P)
    BY <1>1
  <2>4. QED
    BY <2>1, <2>2, <2>3, EntriesSum
<1>5. SumFunctionOnSet(w, DOMAIN all) = SumFunctionOnSet(w, P)
  <2>1. \A x \in P : w[x] \in Int /\ w[x] = w[x]
    BY <1>1, <1>3
  <2>2. \A x \in DOMAIN all \ P : w[x] = 0
    BY <1>2
  <2>3. QED
    BY <1>3, <2>1, <2>2, SumRestrict
<1>6. QED
  BY <1>1, <1>3, <1>4, <1>5 DEF QueueQty, SumFunction, v, w, P

LEMMA PartsQty ==
    ASSUME NEW plan \in Seq(Intent), NEW G
    PROVE  /\ QtyOf(Part(plan, "close"), G) + QtyOf(Part(plan, "new"), G) = QtyOf(plan, G)
           /\ OnlyCloses(plan) => QtyOf(Part(plan, "close"), G) = QtyOf(plan, G)
<1> DEFINE P == {i \in DOMAIN plan : plan[i].purpose = "close"}
           Q == {i \in DOMAIN plan : plan[i].purpose = "new"}
<1>1. \A i \in DOMAIN plan : plan[i].qty \in Nat /\ plan[i].purpose \in {"close", "new"}
  <2>1. \A i \in DOMAIN plan : plan[i] \in Intent
    OBVIOUS
  <2>2. QED
    BY <2>1 DEF Intent
<1>2. P \cap Q \cap DOMAIN plan = {} /\ DOMAIN plan \subseteq P \cup Q
  BY <1>1
<1>3. Part(plan, "close") = Entries(plan, P) /\ Part(plan, "new") = Entries(plan, Q)
  BY DEF Part
<1>4. OnlyCloses(plan) => Q \cap DOMAIN plan = {}
  BY DEF OnlyCloses
<1> HIDE DEF P, Q
<1>5. QtyOf(Part(plan, "close"), G) + QtyOf(Part(plan, "new"), G) = QtyOf(plan, G)
  BY <1>1, <1>2, <1>3, QtyParts
<1>6. ASSUME OnlyCloses(plan) PROVE QtyOf(Part(plan, "close"), G) = QtyOf(plan, G)
  <2>1. QtyOf(Entries(plan, Q), G) = SumFunctionOnSet(Weighted(plan, G), Q \cap DOMAIN plan)
    BY <1>1, QtyEntries
  <2>2. QtyOf(Part(plan, "new"), G) = 0
    BY <1>3, <1>4, <1>6, <2>1, SumEmpty
  <2>3. Part(plan, "close") \in Seq(Intent)
    BY PartType
  <2>4. QtyOf(Part(plan, "close"), G) \in Nat
    BY <2>3, IntentQty, QtyNat
  <2>5. QED
    BY <1>5, <2>2, <2>4
<1>7. QED
  BY <1>5, <1>6

\* A queue of two or three batches, batch by batch.
QueueSum(a, b, c, G) ==
    /\ QueueQty(<<a, b>>, G) = QtyOf(a.orders, G) + QtyOf(b.orders, G)
    /\ QueueQty(<<a, b, c>>, G)
          = QtyOf(a.orders, G) + QtyOf(b.orders, G) + QtyOf(c.orders, G)

LEMMA QueueOf ==
    ASSUME NEW a \in BatchRec, NEW b \in BatchRec, NEW c \in BatchRec, NEW G
    PROVE  QueueSum(a, b, c, G)
<1>1. /\ <<b>> \in Seq(BatchRec) /\ <<c>> \in Seq(BatchRec)
      /\ <<a, b>> \in Seq(BatchRec) /\ <<b, c>> \in Seq(BatchRec)
      /\ <<a, b, c>> \in Seq(BatchRec)
  OBVIOUS
<1>2. /\ Tail(<<b>>) = <<>> /\ Tail(<<c>>) = <<>>
      /\ Tail(<<a, b>>) = <<b>> /\ Tail(<<b, c>>) = <<c>> /\ Tail(<<a, b, c>>) = <<b, c>>
  OBVIOUS
<1>3. /\ <<b>> # <<>> /\ <<c>> # <<>> /\ <<a, b>> # <<>> /\ <<b, c>> # <<>>
      /\ <<a, b, c>> # <<>>
      /\ <<b>>[1] = b /\ <<c>>[1] = c /\ <<a, b>>[1] = a /\ <<b, c>>[1] = b
      /\ <<a, b, c>>[1] = a
  OBVIOUS
<1>4. \A x \in BatchRec : QtyOf(x.orders, G) \in Nat
  <2>1. ASSUME NEW x \in BatchRec PROVE QtyOf(x.orders, G) \in Nat
    <3>1. x.orders \in Seq(Intent)
      BY DEF BatchRec
    <3>2. QED
      BY <3>1, IntentQty, QtyNat
  <2>2. QED
    BY <2>1
<1>5. /\ QueueQty(<<b>>, G) = QtyOf(b.orders, G)
      /\ QueueQty(<<c>>, G) = QtyOf(c.orders, G)
  <2>1. /\ QueueQty(<<b>>, G) = QtyOf(b.orders, G) + QueueQty(<<>>, G)
        /\ QueueQty(<<c>>, G) = QtyOf(c.orders, G) + QueueQty(<<>>, G)
    BY <1>1, <1>2, <1>3, QueueHead
  <2>2. QED
    BY <1>4, <2>1, QueueEmpty
<1>6. QueueQty(<<b, c>>, G) = QtyOf(b.orders, G) + QueueQty(<<c>>, G)
  BY <1>1, <1>2, <1>3, QueueHead
<1>7. QueueQty(<<a, b>>, G) = QtyOf(a.orders, G) + QueueQty(<<b>>, G)
  BY <1>1, <1>2, <1>3, QueueHead
<1>8. QueueQty(<<a, b, c>>, G) = QtyOf(a.orders, G) + QueueQty(<<b, c>>, G)
  BY <1>1, <1>2, <1>3, QueueHead
<1>9. QED
  BY <1>4, <1>5, <1>6, <1>7, <1>8 DEF QueueSum

\* The batches ask for what the plan asks for, of every group of its orders.
LEMMA BatchesQty ==
    ASSUME NEW j, NEW plan \in Seq(Intent), j \in CloseJobs => OnlyCloses(plan), NEW G
    PROVE  QueueQty(Batches(j, plan), G) = QtyOf(plan, G)
<1> DEFINE closes == Part(plan, "close")
           news == Part(plan, "new")
           all == AllBatches(j, plan)
<1>1. closes \in Seq(Intent) /\ news \in Seq(Intent)
  BY PartType
<1>2. /\ QtyOf(closes, G) + QtyOf(news, G) = QtyOf(plan, G)
      /\ OnlyCloses(plan) => QtyOf(closes, G) = QtyOf(plan, G)
  BY PartsQty
<1>3. /\ QtyOf(Immediate(closes), G) + QtyOf(Delayed(closes), G) = QtyOf(closes, G)
      /\ QtyOf(Immediate(news), G) + QtyOf(Delayed(news), G) = QtyOf(news, G)
  BY <1>1, SplitConserves
<1>4. /\ Immediate(closes) \in Seq(Intent) /\ Delayed(closes) \in Seq(Intent)
      /\ Immediate(news) \in Seq(Intent) /\ Delayed(news) \in Seq(Intent)
  BY <1>1, ImmediateType, DelayedType
<1>5. \A orders \in Seq(Intent) : QtyOf(orders, G) \in Nat
  BY IntentQty, QtyNat
<1>6. all \in Seq(BatchRec)
  BY AllBatchesType
<1>7. QueueQty(Batches(j, plan), G) = QueueQty(all, G)
  <2> HIDE DEF all
  <2>1. Batches(j, plan) = Entries(all, {b \in DOMAIN all : all[b].orders # <<>>})
    BY BatchesAre DEF all
  <2>2. QED
    BY <1>6, <2>1, QueueEntries
<1>8. CASE j \in CloseJobs
  <2> DEFINE a == Batch("close", Immediate(closes))
             b == Batch("delayed", Delayed(closes))
  <2>1. /\ all = <<a, b>> /\ a \in BatchRec /\ b \in BatchRec
        /\ a.orders = Immediate(closes) /\ b.orders = Delayed(closes)
    BY <1>4, <1>8 DEF AllBatches, Batch, BatchRec, Kinds
  <2> HIDE DEF a, b, all, closes, news
  <2>2. QueueQty(<<a, b>>, G) = QtyOf(a.orders, G) + QtyOf(b.orders, G)
    <3>1. QueueSum(a, b, b, G)
      BY <2>1, QueueOf
    <3>2. QED
      BY <3>1 DEF QueueSum
  <2>3. QED
    BY <1>2, <1>3, <1>7, <1>8, <2>1, <2>2
<1>9. CASE j \notin CloseJobs
  <2> DEFINE a == Batch("close", closes)
             b == Batch("new", Immediate(news))
             c == Batch("delayed", Delayed(news))
  <2>1. /\ all = <<a, b, c>> /\ a \in BatchRec /\ b \in BatchRec /\ c \in BatchRec
        /\ a.orders = closes /\ b.orders = Immediate(news) /\ c.orders = Delayed(news)
    BY <1>1, <1>4, <1>9 DEF AllBatches, Batch, BatchRec, Kinds
  <2> HIDE DEF a, b, c, all, closes, news
  <2>2. QueueQty(<<a, b, c>>, G)
            = QtyOf(a.orders, G) + QtyOf(b.orders, G) + QtyOf(c.orders, G)
    <3>1. QueueSum(a, b, c, G)
      BY <2>1, QueueOf
    <3>2. QED
      BY <3>1 DEF QueueSum
  <2>3. /\ QtyOf(closes, G) \in Nat /\ QtyOf(news, G) \in Nat
        /\ QtyOf(b.orders, G) \in Nat /\ QtyOf(c.orders, G) \in Nat
    BY <1>1, <1>4, <1>5, <2>1
  <2>4. QED
    BY <1>2, <1>3, <1>7, <2>1, <2>2, <2>3
<1>10. QED
  BY <1>8, <1>9

-----------------------------------------------------------------------------
(***************************************************************************)
(* What has reached the broker.                                            *)
(***************************************************************************)
\* Tickers and sides, and the intents of some of them.
Pairs == TickerSet \X Sides
Group(T) == {KeyOf(o) : o \in {i \in Intent : <<i.ticker, i.side>> \in T}}

LEMMA GroupKey ==
    ASSUME NEW o \in Intent, NEW T
    PROVE  KeyOf(o) \in Group(T) <=> <<o.ticker, o.side>> \in T
<1>1. ASSUME KeyOf(o) \in Group(T) PROVE <<o.ticker, o.side>> \in T
  <2>1. PICK i \in Intent : <<i.ticker, i.side>> \in T /\ KeyOf(o) = KeyOf(i)
    BY <1>1 DEF Group
  <2>2. o.ticker = i.ticker /\ o.side = i.side
    BY <2>1 DEF KeyOf
  <2>3. QED
    BY <2>1, <2>2
<1>2. ASSUME <<o.ticker, o.side>> \in T PROVE KeyOf(o) \in Group(T)
  BY <1>2 DEF Group
<1>3. QED
  BY <1>1, <1>2

SentWeight(o, j, T) == IF o.job = j /\ <<o.ticker, o.side>> \in T THEN o.qty ELSE 0
SentWeights(b, j, T) == [id \in DOMAIN b |-> SentWeight(b[id], j, T)]
SentIn(b, j, T) == SumFunction(SentWeights(b, j, T))

LEMMA SentType ==
    ASSUME NEW b \in Seq(BookOrder), NEW j, NEW T
    PROVE  /\ DOMAIN SentWeights(b, j, T) = DOMAIN b /\ IsFiniteSet(DOMAIN b)
           /\ \A id \in DOMAIN b : /\ SentWeights(b, j, T)[id] = SentWeight(b[id], j, T)
                                   /\ SentWeights(b, j, T)[id] \in Nat
           /\ SentIn(b, j, T) = SumFunctionOnSet(SentWeights(b, j, T), DOMAIN b)
           /\ SentIn(b, j, T) \in Nat
<1>1. DOMAIN b = 1 .. Len(b) /\ Len(b) \in Nat
  OBVIOUS
<1>2. ASSUME NEW id \in DOMAIN b PROVE SentWeight(b[id], j, T) \in Nat
  <2>1. b[id] \in BookOrder
    OBVIOUS
  <2>2. b[id].qty \in Nat
    BY <2>1 DEF BookOrder
  <2>3. QED
    BY <2>2 DEF SentWeight
<1>3. IsFiniteSet(DOMAIN b)
  BY <1>1, FS_Interval
<1> DEFINE v == SentWeights(b, j, T)
<1>4. DOMAIN v = DOMAIN b /\ \A id \in DOMAIN b : v[id] = SentWeight(b[id], j, T) /\ v[id] \in Nat
  BY <1>2 DEF SentWeights
<1>5. SentIn(b, j, T) = SumFunctionOnSet(v, DOMAIN v)
  BY DEF SentIn, SumFunction
<1> HIDE DEF v
<1>6. SumFunctionOnSet(v, DOMAIN b) \in Nat
  BY <1>3, <1>4, SumNat
<1>7. QED
  BY <1>3, <1>4, <1>5, <1>6 DEF v

LEMMA SentSame ==
    ASSUME BookOK, BookOK', BookKept, NEW j, NEW T
    PROVE  SentIn(book', j, T) = SentIn(book, j, T)
<1> DEFINE v == SentWeights(book, j, T)
           w == SentWeights(book', j, T)
<1>1. /\ IsFiniteSet(DOMAIN book) /\ DOMAIN book' = DOMAIN book
      /\ \A id \in DOMAIN book : v[id] = SentWeight(book[id], j, T) /\ v[id] \in Int
      /\ SentIn(book, j, T) = SumFunctionOnSet(v, DOMAIN book)
  BY SentType DEF BookOK, BookKept
<1>2. /\ \A id \in DOMAIN book' : w[id] = SentWeight(book'[id], j, T)
      /\ SentIn(book', j, T) = SumFunctionOnSet(w, DOMAIN book')
  BY SentType DEF BookOK
<1>3. \A id \in DOMAIN book : SentWeight(book'[id], j, T) = SentWeight(book[id], j, T)
  BY DEF BookKept, BookGrows, SameOrder, SentWeight
<1> HIDE DEF v, w
<1>4. \A id \in DOMAIN book : v[id] \in Int /\ v[id] = w[id]
  BY <1>1, <1>2, <1>3
<1>5. SumFunctionOnSet(v, DOMAIN book) = SumFunctionOnSet(w, DOMAIN book)
  BY <1>1, <1>4, SumSame
<1>6. QED
  BY <1>1, <1>2, <1>5

\* Equal weights add up to a multiple.
Times(n, w) == n * w

LEMMA SumCopies ==
    ASSUME NEW B \in Nat, NEW n \in Nat, NEW w \in Nat, NEW f,
           NEW S, S = B + 1 .. B + n, \A x \in S : f[x] = w
    PROVE  SumFunctionOnSet(f, S) = Times(n, w)
<1> DEFINE G == {k \in Nat : k <= n => SumFunctionOnSet(f, B + 1 .. B + k) = k * w}
<1>1. 0 \in G
  <2>1. B + 1 .. B + 0 = {} /\ 0 * w = 0
    OBVIOUS
  <2>2. SumFunctionOnSet(f, B + 1 .. B + 0) = 0
    BY <2>1, SumEmpty
  <2>3. QED
    BY <2>1, <2>2
<1>2. ASSUME NEW k \in Nat, k \in G PROVE k + 1 \in G
  <2> SUFFICES ASSUME k + 1 <= n
               PROVE  SumFunctionOnSet(f, B + 1 .. B + (k + 1)) = (k + 1) * w
    OBVIOUS
  <2>1. SumFunctionOnSet(f, B + 1 .. B + k) = k * w
    BY <1>2
  <2>2. /\ B + 1 .. B + (k + 1) = (B + 1 .. B + k) \cup {B + (k + 1)}
        /\ B + (k + 1) \notin B + 1 .. B + k
    OBVIOUS
  <2>3. IsFiniteSet(B + 1 .. B + k)
    BY FS_Interval
  <2>4. \A x \in (B + 1 .. B + k) \cup {B + (k + 1)} : f[x] = w /\ f[x] \in Int
    OBVIOUS
  <2>5. SumFunctionOnSet(f, (B + 1 .. B + k) \cup {B + (k + 1)}) = w + k * w
    <3> DEFINE A == B + 1 .. B + k
               e == B + (k + 1)
    <3>1. IsFiniteSet(A) /\ e \notin A /\ f[e] = w /\ \A x \in A \cup {e} : f[x] \in Int
      BY <2>2, <2>3, <2>4
    <3>2. SumFunctionOnSet(f, A) = k * w
      BY <2>1
    <3> HIDE DEF A, e
    <3>3. SumFunctionOnSet(f, A \cup {e}) = f[e] + SumFunctionOnSet(f, A)
      BY <3>1, SumInsert
    <3>4. SumFunctionOnSet(f, A \cup {e}) = w + k * w
      BY <3>1, <3>2, <3>3
    <3>5. QED
      BY <3>4 DEF A, e
  <2>6. w + k * w = (k + 1) * w
    OBVIOUS
  <2>7. QED
    BY <2>2, <2>5, <2>6
<1>3. Nat \subseteq G
  <2> HIDE DEF G
  <2>1. QED
    BY <1>1, <1>2, NatSetInduction
<1>4. QED
  BY <1>3 DEF Times

LEMMA SentMore ==
    ASSUME BookOK, NEW p \in Procs, NEW n, NEW r, SendMoves(p, n, r), NEW j, NEW T
    PROVE  /\ n \in Nat /\ SentWeight(Sent(p, NextOrder(p)), j, T) \in Nat
           /\ SentIn(book', j, T)
                 = SentIn(book, j, T) + Times(n, SentWeight(Sent(p, NextOrder(p)), j, T))
<1> DEFINE v == SentWeights(book, j, T)
           w == SentWeights(book', j, T)
           o == Sent(p, NextOrder(p))
           c == SentWeight(o, j, T)
           B == Len(book)
           A == 1 .. B
           N == B + 1 .. B + n
<1>1. /\ n \in Nat /\ o \in BookOrder /\ B \in Nat /\ BookOK'
      /\ DOMAIN book = A /\ DOMAIN book' = 1 .. B + n
      /\ \A id \in A : book'[id] = book[id]
      /\ \A id \in N : book'[id] = o
  BY DEF SendMoves, SendsOrders, BookOK
<1>2. c \in Nat
  <2>1. o.qty \in Nat
    BY <1>1 DEF BookOrder
  <2> HIDE DEF o
  <2>2. QED
    BY <2>1 DEF SentWeight
<1> HIDE DEF o
<1>3. /\ \A id \in A : v[id] = SentWeight(book[id], j, T) /\ v[id] \in Int
      /\ SentIn(book, j, T) = SumFunctionOnSet(v, A) /\ SentIn(book, j, T) \in Nat
  BY <1>1, SentType DEF BookOK
<1>4. /\ \A id \in 1 .. B + n : w[id] = SentWeight(book'[id], j, T) /\ w[id] \in Int
      /\ SentIn(book', j, T) = SumFunctionOnSet(w, 1 .. B + n)
  BY <1>1, SentType DEF BookOK
<1>5. A \cup N = 1 .. B + n /\ A \cap N = {} /\ IsFiniteSet(A) /\ IsFiniteSet(N)
  <2>1. IsFiniteSet(A) /\ IsFiniteSet(N)
    BY <1>1, FS_Interval
  <2>2. QED
    BY <1>1, <2>1
<1>6. (\A id \in A : w[id] = v[id]) /\ (\A id \in N : w[id] = c)
  <2> HIDE DEF v, w
  <2>1. QED
    BY <1>1, <1>3, <1>4, <1>5
<1> HIDE DEF v, w, c, B
<1>7. SumFunctionOnSet(w, N) = Times(n, c)
  <2>1. n \in Nat /\ B \in Nat /\ c \in Nat /\ N = B + 1 .. B + n /\ \A id \in N : w[id] = c
    BY <1>1, <1>2, <1>6
  <2> HIDE DEF N
  <2>2. QED
    BY <2>1, SumCopies
<1> HIDE DEF A, N
<1>8. SumFunctionOnSet(w, A) = SumFunctionOnSet(v, A)
  BY <1>3, <1>5, <1>6, SumSame
<1>9. SumFunctionOnSet(w, A \cup N) = SumFunctionOnSet(w, A) + SumFunctionOnSet(w, N)
  BY <1>4, <1>5, SumUnion
<1>10. QED
  BY <1>1, <1>2, <1>3, <1>4, <1>5, <1>7, <1>8, <1>9 DEF c, o

\* A job that was not submitted has nothing at the broker.
LEMMA SentNone ==
    ASSUME BookOK, BookJobs, NEW j, run[j].status \notin Store!Submitted, NEW T
    PROVE  SentIn(book, j, T) = 0
<1>1. \A id \in DOMAIN book : SentWeight(book[id], j, T) = 0
  BY DEF BookJobs, SentWeight
<1>2. \A id \in DOMAIN book : SentWeights(book, j, T)[id] = 0
  BY <1>1 DEF SentWeights
<1>3. IsFiniteSet(DOMAIN book) /\ SentIn(book, j, T) = SumFunctionOnSet(SentWeights(book, j, T), DOMAIN book)
  BY SentType DEF BookOK
<1>4. QED
  BY <1>2, <1>3, SumZero

-----------------------------------------------------------------------------
(***************************************************************************)
(* What a process may still send.                                          *)
(***************************************************************************)
\* What a list asks for after its first n orders.
RestOf(orders, n, G) == SumFunctionOnSet(Weighted(orders, G), n + 1 .. Len(orders))

Unsent(p, G) ==
    (IF pc[p] = "send"
     THEN RestOf(CurrentBatch(p).orders, Len(work[p].batch), G) ELSE 0)
    + (IF work[p].queue = <<>> THEN 0 ELSE QueueQty(Tail(work[p].queue), G))

LEMMA RestIs ==
    ASSUME NEW orders \in Seq(Intent), NEW G
    PROVE  /\ \A n \in Nat : RestOf(orders, n, G) \in Nat
           /\ RestOf(orders, 0, G) = QtyOf(orders, G)
           /\ RestOf(orders, Len(orders), G) = 0
           /\ \A n \in Nat : n < Len(orders) =>
                 RestOf(orders, n, G) = Weight(orders[n + 1], G) + RestOf(orders, n + 1, G)
<1> DEFINE v == Weighted(orders, G)
           N == Len(orders)
<1>1. /\ DOMAIN orders = 1 .. N /\ N \in Nat
      /\ DOMAIN v = 1 .. N
      /\ \A i \in 1 .. N : v[i] = Weight(orders[i], G) /\ v[i] \in Nat
  BY IntentQty, WeightsType
<1>2. /\ QtyOf(orders, G) = SumFunctionOnSet(v, DOMAIN v)
      /\ \A n : RestOf(orders, n, G) = SumFunctionOnSet(v, n + 1 .. N)
  BY DEF QtyOf, SumFunction, RestOf
<1> HIDE DEF v, N
<1>3. ASSUME NEW n \in Nat PROVE RestOf(orders, n, G) \in Nat
  <2>1. IsFiniteSet(n + 1 .. N)
    BY <1>1, FS_Interval
  <2>2. \A i \in n + 1 .. N : v[i] \in Nat
    BY <1>1
  <2>3. QED
    BY <1>2, <2>1, <2>2, SumNat
<1>4. RestOf(orders, 0, G) = QtyOf(orders, G)
  <2>1. 0 + 1 .. N = 1 .. N
    OBVIOUS
  <2>2. QED
    BY <1>1, <1>2, <2>1
<1>5. RestOf(orders, N, G) = 0
  <2>1. N + 1 .. N = {}
    BY <1>1
  <2>2. QED
    BY <1>2, <2>1, SumEmpty
<1>6. ASSUME NEW n \in Nat, n < N
      PROVE  RestOf(orders, n, G) = Weight(orders[n + 1], G) + RestOf(orders, n + 1, G)
  <2> DEFINE S == n + 1 .. N
             e == n + 1
  <2>1. IsFiniteSet(S) /\ e \in S /\ \A i \in S : v[i] \in Int
    <3>1. IsFiniteSet(S)
      BY <1>1, FS_Interval
    <3>2. QED
      BY <1>1, <1>6, <3>1
  <2>2. S \ {e} = e + 1 .. N
    BY <1>1
  <2>3. v[e] = Weight(orders[n + 1], G)
    BY <1>1, <1>6
  <2> HIDE DEF S, e
  <2>4. SumFunctionOnSet(v, S) = v[e] + SumFunctionOnSet(v, S \ {e})
    BY <2>1, SumRemove
  <2>5. QED
    BY <1>2, <2>2, <2>3, <2>4 DEF S, e
<1>7. QED
  BY <1>3, <1>4, <1>5, <1>6 DEF N

LEMMA UnsentType ==
    ASSUME WorkTyped, NEW p \in Procs, WorkOK(p), NEW G
    PROVE  Unsent(p, G) \in Nat
<1>1. CASE work[p].queue = <<>>
  <2>1. pc[p] # "send"
    BY <1>1 DEF WorkOK
  <2>2. QED
    BY <1>1, <2>1 DEF Unsent
<1>2. CASE work[p].queue # <<>>
  <2>1. /\ work[p].queue \in Seq(BatchRec) /\ Tail(work[p].queue) \in Seq(BatchRec)
        /\ CurrentBatch(p).orders \in Seq(Intent) /\ Len(work[p].batch) \in Nat
    <3>1. work[p] \in WorkRec
      BY DEF WorkTyped
    <3>2. work[p].queue \in Seq(BatchRec)
      BY <3>1 DEF WorkRec
    <3>3. Tail(work[p].queue) \in Seq(BatchRec)
      BY <1>2, <3>2
    <3>4. CurrentBatch(p).orders \in Seq(Intent) /\ work[p].batch \in Seq(ResultRec)
      BY <1>2, HeadType
    <3>5. QED
      BY <3>2, <3>3, <3>4
  <2>2. RestOf(CurrentBatch(p).orders, Len(work[p].batch), G) \in Nat
    BY <2>1, RestIs
  <2>3. QueueQty(Tail(work[p].queue), G) \in Nat
    BY <2>1, QueueType
  <2>4. QED
    BY <1>2, <2>2, <2>3 DEF Unsent
<1>3. QED
  BY <1>1, <1>2

\* The next batch: all of it is unsent.
LEMMA UnsentFresh ==
    ASSUME NEW p \in Procs, NEW queue \in Seq(BatchRec), NEW G,
           work'[p].queue = queue, work'[p].batch = <<>>,
           queue = <<>> => pc'[p] = "close", queue # <<>> => pc'[p] = "send"
    PROVE  Unsent(p, G)' = QueueQty(queue, G)
<1>1. CASE queue = <<>>
  BY <1>1, QueueEmpty DEF Unsent
<1>2. CASE queue # <<>>
  <2>1. queue[1] \in BatchRec /\ Tail(queue) \in Seq(BatchRec) /\ Head(queue) = queue[1]
    BY <1>2
  <2>2. queue[1].orders \in Seq(Intent)
    BY <2>1 DEF BatchRec
  <2>3. RestOf(queue[1].orders, 0, G) = QtyOf(queue[1].orders, G)
    BY <2>2, RestIs
  <2>4. QueueQty(queue, G) = QtyOf(queue[1].orders, G) + QueueQty(Tail(queue), G)
    BY <1>2, QueueHead
  <2>5. Unsent(p, G)' = RestOf(queue[1].orders, Len(<<>>), G) + QueueQty(Tail(queue), G)
    BY <1>2, <2>1 DEF Unsent, CurrentBatch
  <2>6. Len(<<>>) = 0
    OBVIOUS
  <2>7. QED
    BY <2>3, <2>4, <2>5, <2>6
<1>3. QED
  BY <1>1, <1>2

LEMMA UnsentStart ==
    ASSUME WorkTyped, PcTyped, NEW p \in Procs, WorkOK(p), StartSubmission(p), NEW G
    PROVE  /\ Unsent(p, G)' = QtyOf(work[p].plan, G)
           /\ work'[p].plan = work[p].plan /\ Alone(p)
<1>1. /\ WorkTyped' /\ Alone(p) /\ SamePlan(p)
      /\ work'[p].queue = Batches(JobOf[p], work[p].plan)
      /\ work'[p].batch = work[p].batch
      /\ pc'[p] = IF work'[p].queue = <<>> THEN "close" ELSE "send"
  BY StartWork
<1>2. pc[p] = "start" /\ Planned(p) /\ ~Started(p)
  BY DEF StartSubmission, Planned, Started
<1>3. /\ WellFormed(work[p].plan) /\ work[p].batch = <<>>
      /\ IsClose(p) => OnlyCloses(work[p].plan)
  BY <1>2 DEF WorkOK
<1> DEFINE queue == Batches(JobOf[p], work[p].plan)
<1>4. queue \in Seq(BatchRec)
  BY <1>3, BatchesType DEF WellFormed
<1>5. QueueQty(queue, G) = QtyOf(work[p].plan, G)
  BY <1>3, BatchesQty DEF WellFormed, IsClose
<1>6. Unsent(p, G)' = QueueQty(queue, G)
  <2>1. /\ work'[p].queue = queue /\ work'[p].batch = <<>>
        /\ queue = <<>> => pc'[p] = "close"
        /\ queue # <<>> => pc'[p] = "send"
    BY <1>1, <1>3
  <2> HIDE DEF queue
  <2>2. QED
    BY <1>4, <2>1, UnsentFresh
<1>7. QED
  BY <1>1, <1>5, <1>6 DEF SamePlan

LEMMA UnsentSend ==
    ASSUME WorkTyped, NEW p \in Procs, WorkOK(p), NEW n, NEW r, SendMoves(p, n, r), NEW G
    PROVE  /\ Unsent(p, G) = Weight(NextOrder(p), G) + Unsent(p, G)'
           /\ Unsent(p, G)' \in Nat
           /\ NextOrder(p) \in Intent
<1> DEFINE orders == CurrentBatch(p).orders
           N == Len(work[p].batch)
<1>1. /\ pc[p] = "send" /\ pc'[p] = "send" /\ work[p].queue # <<>> /\ N < Len(orders)
      /\ work'[p].queue = work[p].queue /\ work'[p].batch = Append(work[p].batch, r)
      /\ NextOrder(p) \in Intent
  BY DEF SendMoves, SendsOrders
<1>2. orders \in Seq(Intent) /\ work[p].batch \in Seq(ResultRec)
  BY <1>1, HeadType
<1>3. N \in Nat /\ Len(work'[p].batch) = N + 1
  BY <1>1, <1>2
<1>4. CurrentBatch(p)' = CurrentBatch(p)
  BY <1>1 DEF CurrentBatch
<1>5. NextOrder(p) = orders[N + 1]
  BY DEF NextOrder
<1> DEFINE Q == QueueQty(Tail(work[p].queue), G)
<1>6. /\ Unsent(p, G) = RestOf(orders, N, G) + Q
      /\ Unsent(p, G)' = RestOf(orders, N + 1, G) + Q
  BY <1>1, <1>3, <1>4 DEF Unsent
<1> HIDE DEF orders, N
<1>7. /\ RestOf(orders, N, G) = Weight(orders[N + 1], G) + RestOf(orders, N + 1, G)
      /\ RestOf(orders, N, G) \in Nat /\ RestOf(orders, N + 1, G) \in Nat
  <2>1. orders \in Seq(Intent) /\ N \in Nat /\ N + 1 \in Nat /\ N < Len(orders)
    BY <1>1, <1>2, <1>3 DEF orders, N
  <2>2. QED
    BY <2>1, RestIs
<1>8. Weight(orders[N + 1], G) \in Nat
  <2>1. orders[N + 1].qty \in Nat
    BY <1>1, <1>5 DEF Intent
  <2>2. QED
    BY <2>1, WeightType
<1>9. Q \in Nat
  <2>1. work[p].queue \in Seq(BatchRec)
    BY DEF WorkTyped, WorkRec
  <2>2. Tail(work[p].queue) \in Seq(BatchRec)
    BY <1>1, <2>1
  <2>3. QED
    BY <2>2, QueueType
<1> HIDE DEF Q
<1>10. QED
  BY <1>1, <1>5, <1>6, <1>7, <1>8, <1>9

\* Nothing else a process does gives it more to send.
LEMMA UnsentMove ==
    ASSUME WorkTyped, PcTyped, BookOK, NEW p \in Procs, WorkOK(p), ProcStep(p),
           Started(p), Started(p)',
           \A n, r : ~SendMoves(p, n, r), NEW G
    PROVE  /\ Unsent(p, G)' <= Unsent(p, G) /\ Unsent(p, G)' \in Nat
           /\ SamePlan(p) /\ Alone(p)
<1> DEFINE Goal == /\ Unsent(p, G)' <= Unsent(p, G) /\ Unsent(p, G)' \in Nat
                   /\ SamePlan(p) /\ Alone(p)
<1>0. Unsent(p, G) \in Nat
  BY UnsentType
<1>1. ASSUME UNCHANGED <<pc, work>> PROVE Goal
  BY <1>0, <1>1 DEF Unsent, CurrentBatch, SamePlan, Alone
<1>2. CASE BatchReturns(p)
  <2>1. /\ Alone(p) /\ pc'[p] = "persist" /\ SamePlan(p) /\ work'[p].queue = work[p].queue
    BY <1>2, ReturnsStep
  <2>2. pc[p] = "send" /\ work[p].queue # <<>> /\ Len(work[p].batch) = Len(CurrentBatch(p).orders)
    BY <1>2 DEF BatchReturns, WorkOK
  <2>3. RestOf(CurrentBatch(p).orders, Len(work[p].batch), G) = 0
    BY <2>2, HeadType, RestIs
  <2>4. QueueQty(Tail(work[p].queue), G) = Unsent(p, G)' /\ Unsent(p, G)' \in Nat
    <3>1. Unsent(p, G)' = 0 + QueueQty(Tail(work[p].queue), G)
      BY <2>1, <2>2 DEF Unsent
    <3>2. Unsent(p, G) = 0 + QueueQty(Tail(work[p].queue), G)
      BY <2>2, <2>3 DEF Unsent
    <3>3. QueueQty(Tail(work[p].queue), G) \in Nat
      <4>1. work[p].queue \in Seq(BatchRec)
        BY DEF WorkTyped, WorkRec
      <4>2. Tail(work[p].queue) \in Seq(BatchRec)
        BY <2>2, <4>1
      <4>3. QED
        BY <4>2, QueueType
    <3>4. QED
      BY <3>1, <3>3
  <2>5. Unsent(p, G) = 0 + QueueQty(Tail(work[p].queue), G)
    BY <2>2, <2>3 DEF Unsent
  <2>6. Unsent(p, G) = Unsent(p, G)'
    <3>1. \A x \in Nat : 0 + x = x
      OBVIOUS
    <3>2. QED
      BY <2>4, <2>5, <3>1
  <2>7. QED
    BY <1>0, <2>1, <2>6
<1>3. CASE Persist(p)
  <2>1. pc[p] = "persist" /\ pc'[p] = "poll" /\ UNCHANGED work
        /\ \A q \in Procs \ {p} : pc'[q] = pc[q]
    BY <1>3, GotoStep DEF Persist
  <2>2. Unsent(p, G)' = Unsent(p, G)
    BY <2>1 DEF Unsent
  <2>3. QED
    BY <1>0, <2>1, <2>2 DEF SamePlan, Alone
<1>4. CASE PollEnds(p)
  <2>1. pc[p] = "poll" /\ work[p].queue # <<>>
    BY <1>4 DEF PollEnds, WorkOK
  <2>2. /\ WorkTyped' /\ Alone(p) /\ SamePlan(p) /\ work'[p].batch = <<>>
        /\ \/ work'[p].queue = Tail(work[p].queue)
           \/ work'[p].queue = <<>>
        /\ pc'[p] = IF work'[p].queue = <<>> THEN "close" ELSE "send"
    BY <1>4, <2>1, PollStep
  <2>3. work[p].queue \in Seq(BatchRec) /\ Tail(work[p].queue) \in Seq(BatchRec)
    <3>1. work[p].queue \in Seq(BatchRec)
      BY DEF WorkTyped, WorkRec
    <3>2. QED
      BY <2>1, <3>1
  <2>4. Unsent(p, G)' = QueueQty(work'[p].queue, G)
    <3>1. PICK queue : queue = work'[p].queue
      OBVIOUS
    <3>2. <<>> \in Seq(BatchRec)
      OBVIOUS
    <3>3. queue \in Seq(BatchRec)
      BY <2>2, <2>3, <3>1, <3>2
    <3>4. /\ work'[p].batch = <<>>
          /\ queue = <<>> => pc'[p] = "close"
          /\ queue # <<>> => pc'[p] = "send"
      BY <2>2, <3>1
    <3>5. Unsent(p, G)' = QueueQty(queue, G)
      BY <3>1, <3>3, <3>4, UnsentFresh
    <3>6. QED
      BY <3>1, <3>5
  <2>5. Unsent(p, G) = 0 + QueueQty(Tail(work[p].queue), G)
    BY <2>1 DEF Unsent
  <2>6. QueueQty(Tail(work[p].queue), G) \in Nat
    BY <2>3, QueueType
  <2>7. QueueQty(work'[p].queue, G) = QueueQty(Tail(work[p].queue), G)
        \/ QueueQty(work'[p].queue, G) = 0
    BY <2>2, QueueEmpty
  <2>8. QED
    BY <2>2, <2>4, <2>5, <2>6, <2>7
<1>5. CASE ClosingStep(p)
  <2>1. pc[p] = "close" /\ Planned(p)
    BY <1>5 DEF ClosingStep, RecordAll, MarkIncomplete, Report, FetchFills,
                VerifyPositions, RecordCheckpoint, Settle, AtStep, Started, Planned
  <2>2. work[p].start \in Inventories
    BY <2>1 DEF WorkOK
  <2>3. Alone(p) /\ ClosingMoves(p)
    BY <1>5, <2>2, ClosingStepMoves
  <2>4. /\ pc'[p] = pc[p] /\ work'[p].queue = work[p].queue /\ SamePlan(p)
    BY <2>3 DEF ClosingMoves, SameOrders
  <2>5. Unsent(p, G)' = Unsent(p, G)
    BY <2>1, <2>4 DEF Unsent
  <2>6. QED
    BY <1>0, <2>3, <2>4, <2>5
<1>6. CASE ~BatchReturns(p) /\ ~Persist(p) /\ ~PollEnds(p) /\ ~ClosingStep(p)
  <2>1. ASSUME NEW outcome \in SubmitOutcomes, NEW m \in Unanswered, Send(p, outcome, m)
        PROVE  FALSE
    BY <2>1, SendIs
  <2>2. CASE Finish(p)
    <3>1. pc'[p] = "done"
      BY <2>2, ExitStep DEF Finish
    <3>2. QED
      BY <3>1 DEF Started
  <2>3. QED
    BY <1>6, <2>1, <2>2 DEF ProcStep, ClosingStep, Started, Begin, ReadPositions, EnterLease,
       Prepare, RecordPlan, StartSubmission, GiveUp
<1>7. QED
  BY <1>2, <1>3, <1>4, <1>5, <1>6

-----------------------------------------------------------------------------
(***************************************************************************)
(* The budget: what a run has sent and what its process may still send.    *)
(***************************************************************************)
Within(a, x, q) == a + Copies * x <= Copies * q

BudgetOf(j) ==
    run[j].status \in Store!Submitted =>
        \A T : Within(SentIn(book, j, T), 0, QtyOf(run[j].intents, Group(T)))

BudgetLeft(p) ==
    Started(p) =>
        \A T : Within(SentIn(book, JobOf[p], T), Unsent(p, Group(T)),
                      QtyOf(work[p].plan, Group(T)))

LEMMA CopiesAre == Copies = 1 \/ Copies = 3
BY DEF Copies, Attempts

LEMMA WithinLess ==
    ASSUME NEW a \in Nat, NEW x \in Nat, NEW y \in Nat, NEW q \in Nat
    PROVE  /\ Within(a, x, q) /\ y <= x => Within(a, y, q)
           /\ x <= q => Within(0, x, q)
<1>1. CASE Copies = 1
  BY <1>1 DEF Within
<1>2. CASE Copies = 3
  BY <1>2 DEF Within
<1>3. QED
  BY <1>1, <1>2, CopiesAre

LEMMA WithinSend ==
    ASSUME NEW a \in Nat, NEW n \in Nat, n <= Copies, NEW w \in Nat, NEW x \in Nat,
           NEW q \in Nat, Within(a, w + x, q)
    PROVE  Within(a + Times(n, w), x, q)
<1>1. n = 0 \/ n = 1 \/ n = 2 \/ n = 3
  BY CopiesAre
<1>2. /\ n = 0 => Times(n, w) = 0
      /\ n = 1 => Times(n, w) = w
      /\ n = 2 => Times(n, w) = w + w
      /\ n = 3 => Times(n, w) = w + w + w
  BY DEF Times
<1>3. CASE Copies = 1
  BY <1>1, <1>2, <1>3 DEF Within
<1>4. CASE Copies = 3
  BY <1>1, <1>2, <1>4 DEF Within
<1>5. QED
  BY <1>3, <1>4, CopiesAre

LEMMA PlanQty ==
    ASSUME NEW plan, WellFormed(plan), NEW G
    PROVE  QtyOf(plan, G) \in Nat
BY IntentQty, QtyNat DEF WellFormed

\* One order is sent: its process pays for it.
LEMMA BudgetPays ==
    ASSUME WorkTyped, BookOK, NEW p \in Procs, WorkOK(p), BudgetLeft(p),
           NEW n, NEW r, SendMoves(p, n, r)
    PROVE  /\ BudgetLeft(p)'
           /\ \A T : Within(SentIn(book', JobOf[p], T), 0, QtyOf(work[p].plan, Group(T)))
<1> DEFINE o == NextOrder(p)
<1>1. /\ Started(p) /\ Started(p)' /\ Planned(p) /\ n <= Copies /\ o \in Intent
      /\ work'[p].plan = work[p].plan
  BY UnsentSend DEF SendMoves, SamePlan, Started, Planned
<1>2. ASSUME NEW T
      PROVE  /\ Within(SentIn(book', JobOf[p], T), Unsent(p, Group(T))',
                       QtyOf(work[p].plan, Group(T)))
             /\ Within(SentIn(book', JobOf[p], T), 0, QtyOf(work[p].plan, Group(T)))
  <2> DEFINE a == SentIn(book, JobOf[p], T)
             b == SentIn(book', JobOf[p], T)
             q == QtyOf(work[p].plan, Group(T))
             x == Unsent(p, Group(T))
             y == Unsent(p, Group(T))'
             w == Weight(o, Group(T))
             v == SentWeight(Sent(p, o), JobOf[p], T)
  <2>1. n \in Nat /\ v \in Nat /\ b = a + Times(n, v)
    BY SentMore
  <2>2. a \in Nat
    BY SentType DEF BookOK
  <2>3. q \in Nat
    BY <1>1, PlanQty DEF WorkOK
  <2>4. x \in Nat /\ y \in Nat
    BY UnsentType, UnsentSend
  <2>5. x = w + y
    BY UnsentSend
  <2>6. v = w
    <3>1. KeyOf(o) \in Group(T) <=> <<o.ticker, o.side>> \in T
      BY <1>1, GroupKey
    <3>2. /\ Sent(p, o).job = JobOf[p] /\ Sent(p, o).ticker = o.ticker
          /\ Sent(p, o).side = o.side /\ Sent(p, o).qty = o.qty
      BY DEF Sent
    <3>3. QED
      BY <3>1, <3>2 DEF SentWeight, Weight
  <2>7. Within(a, x, q)
    BY <1>1 DEF BudgetLeft
  <2> HIDE DEF a, b, q, x, y, w, v
  <2>8. Within(a + Times(n, w), y, q)
    BY <1>1, <2>1, <2>2, <2>3, <2>4, <2>5, <2>6, <2>7, WithinSend
  <2>9. b \in Nat
    <3>1. BookOK'
      BY DEF SendMoves
    <3>2. QED
      BY <3>1, SentType DEF b, BookOK
  <2>10. Within(b, y, q)
    BY <2>1, <2>6, <2>8
  <2>11. Within(b, 0, q)
    BY <2>3, <2>4, <2>9, <2>10, WithinLess
  <2>12. QED
    BY <2>10, <2>11 DEF b, y, q
<1>3. QED
  BY <1>1, <1>2 DEF BudgetLeft

LEMMA StartFrom ==
    ASSUME RunTyped, NEW p \in Procs, StartSubmission(p)
    PROVE  run[JobOf[p]].status = "prepared" /\ run[JobOf[p]].status \notin Store!Submitted
<1>1. Store!Transition(JobOf[p], {"prepared"}, "executing") /\ JobOf[p] \in Jobs
  BY ExecutionAssumption DEF StartSubmission, Store!MarkSubmissionStarted
<1>2. run[JobOf[p]].status = "prepared"
  BY <1>1, TransitionStep
<1>3. QED
  BY <1>2 DEF Store!Submitted, Store!Ambiguous

BudgetOK == (\A j \in Jobs : BudgetOf(j)) /\ (\A p \in Procs : BudgetLeft(p))

\* What holds of the budgets in the steps that send nothing.
LEMMA BudgetKept ==
    ASSUME TypesInv, TypesInv', BudgetOK, [Next]_vars, BookKept
    PROVE  BudgetOK'
<1>1. /\ BookOK /\ BookOK' /\ BookJobs /\ WorkTyped /\ PcTyped /\ RunTyped /\ StartedInv
      /\ \A p \in Procs : WorkOK(p)
      /\ \A p \in Procs : WorkOK(p)'
      /\ \A j \in Jobs : RowOK(j)'
  BY DEF TypesInv, IInv
<1>2. \A j \in Jobs : \A T : /\ SentIn(book', j, T) = SentIn(book, j, T)
                             /\ SentIn(book, j, T) \in Nat
  BY <1>1, SentSame, SentType DEF BookOK
<1>3. ASSUME NEW j \in Jobs PROVE BudgetOf(j)'
  <2> SUFFICES ASSUME run'[j].status \in Store!Submitted, NEW T
               PROVE  Within(SentIn(book', j, T), 0, QtyOf(run'[j].intents, Group(T)))
    BY StoreBridge DEF BudgetOf, Store!Submitted, Store!Ambiguous
  <2>1. CASE run[j].status \in Store!Submitted
    <3>1. run'[j].intents = run[j].intents
      BY <1>1, <2>1, NextStore, StoreKeeps DEF TypesInv
    <3>2. Within(SentIn(book, j, T), 0, QtyOf(run[j].intents, Group(T)))
      BY <2>1 DEF BudgetOK, BudgetOf
    <3>3. QED
      BY <1>2, <3>1, <3>2
  <2>2. CASE run[j].status \notin Store!Submitted
    <3>1. SentIn(book, j, T) = 0
      BY <1>1, <2>2, SentNone
    <3>2. WellFormed(run'[j].intents)
      BY <1>1 DEF RowOK, Store!Submitted, Store!Ambiguous
    <3>3. QtyOf(run'[j].intents, Group(T)) \in Nat
      BY <3>2, PlanQty
    <3>4. 0 <= QtyOf(run'[j].intents, Group(T))
      BY <3>3
    <3>5. QED
      BY <1>2, <3>1, <3>3, <3>4, WithinLess
  <2>3. QED
    BY <2>1, <2>2
<1>4. ASSUME NEW p \in Procs, Started(p)' PROVE BudgetLeft(p)'
  <2> SUFFICES ASSUME NEW T
               PROVE  Within(SentIn(book', JobOf[p], T), Unsent(p, Group(T))',
                             QtyOf(work'[p].plan, Group(T)))
    BY DEF BudgetLeft
  <2>0. JobOf[p] \in Jobs
    BY ExecutionAssumption
  <2>1. CASE pc'[p] = pc[p] /\ work'[p] = work[p]
    <3>1. Unsent(p, Group(T))' = Unsent(p, Group(T)) /\ Started(p)
      BY <1>4, <2>1 DEF Unsent, CurrentBatch, Started
    <3>2. Within(SentIn(book, JobOf[p], T), Unsent(p, Group(T)), QtyOf(work[p].plan, Group(T)))
      BY <3>1 DEF BudgetOK, BudgetLeft
    <3>3. QED
      BY <1>2, <2>0, <2>1, <3>1, <3>2
  <2>2. CASE ProcStep(p)
    <3>2. CASE \E n, r : SendMoves(p, n, r)
      <4>1. PICK n, r : SendMoves(p, n, r)
        BY <3>2
      <4>2. BudgetLeft(p)'
        BY <1>1, <4>1, BudgetPays DEF BudgetOK
      <4>3. QED
        BY <1>4, <4>2 DEF BudgetLeft
    <3>3. CASE Started(p) /\ \A n, r : ~SendMoves(p, n, r)
      <4>1. /\ Unsent(p, Group(T))' <= Unsent(p, Group(T)) /\ Unsent(p, Group(T))' \in Nat
            /\ SamePlan(p)
        BY <1>1, <1>4, <2>2, <3>3, UnsentMove
      <4>2. Unsent(p, Group(T)) \in Nat
        BY <1>1, UnsentType
      <4>3. Within(SentIn(book, JobOf[p], T), Unsent(p, Group(T)), QtyOf(work[p].plan, Group(T)))
        BY <3>3 DEF BudgetOK, BudgetLeft
      <4>4. WellFormed(work[p].plan)
        BY <1>1, <3>3 DEF WorkOK, Planned
      <4>5. QtyOf(work[p].plan, Group(T)) \in Nat
        BY <4>4, PlanQty
      <4>6. Within(SentIn(book, JobOf[p], T), Unsent(p, Group(T))', QtyOf(work[p].plan, Group(T)))
        BY <1>2, <2>0, <4>1, <4>2, <4>3, <4>5, WithinLess
      <4>7. QED
        BY <1>2, <2>0, <4>1, <4>6 DEF SamePlan
    <3>4. CASE ~Started(p)
      <4>1. StartSubmission(p)
        BY <1>1, <1>4, <3>4, NextLeaseInv DEF TypesInv, IInv, StartStep
      <4>2. SentIn(book, JobOf[p], T) = 0
        BY <1>1, <4>1, StartFrom, SentNone
      <4>3. /\ Unsent(p, Group(T))' = QtyOf(work[p].plan, Group(T))
            /\ work'[p].plan = work[p].plan
        BY <1>1, <4>1, UnsentStart
      <4>4. WellFormed(work[p].plan)
        BY <1>1, <4>1 DEF WorkOK, Planned, StartSubmission
      <4>5. QtyOf(work[p].plan, Group(T)) \in Nat
        BY <4>4, PlanQty
      <4>6. Within(0, QtyOf(work[p].plan, Group(T)), QtyOf(work[p].plan, Group(T)))
        BY <4>5, WithinLess
      <4>7. QED
        BY <1>2, <2>0, <4>2, <4>3, <4>6
    <3>5. QED
      BY <3>2, <3>3, <3>4
  <2>3. \/ pc'[p] = pc[p] /\ work'[p] = work[p]
        \/ ProcStep(p)
    <3>1. CASE pc' = pc /\ work' = work
      BY <3>1
    <3>2. ASSUME NEW q \in Procs, Alone(q), ProcStep(q) \/ Crash(q)
          PROVE  (pc'[p] = pc[p] /\ work'[p] = work[p]) \/ ProcStep(p)
      <4>1. CASE q = p
        <5>1. ~Crash(p)
          <6>1. Crash(p) => pc'[p] = "done"
            BY <1>1 DEF Crash, Goto, PcTyped
          <6>2. QED
            BY <1>4, <6>1 DEF Started
        <5>2. QED
          BY <3>2, <4>1, <5>1
      <4>2. CASE q # p
        BY <3>2, <4>2 DEF Alone
      <4>3. QED
        BY <4>1, <4>2
    <3>3. QED
      BY <1>1, <3>1, <3>2, WorkStep
  <2>4. QED
    BY <2>1, <2>2, <2>3
<1>5. QED
  BY <1>3, <1>4 DEF BudgetOK, BudgetLeft

LEMMA BudgetStep ==
    ASSUME TypesInv, TypesInv', BudgetOK, [Next]_vars
    PROVE  BudgetOK'
<1>1. /\ BookOK /\ BookOK' /\ WorkTyped /\ PcTyped /\ StartedInv
      /\ \A p \in Procs : WorkOK(p)
      /\ \A p \in Procs : PlanSaved(p)
  BY DEF TypesInv, IInv
<1>2. ASSUME NEW p \in Procs, NEW n, NEW r, SendMoves(p, n, r) PROVE BudgetOK'
  <2>1. /\ BudgetLeft(p)'
        /\ \A T : Within(SentIn(book', JobOf[p], T), 0, QtyOf(work[p].plan, Group(T)))
    BY <1>1, <1>2, BudgetPays DEF BudgetOK
  <2>2. /\ run' = run /\ Alone(p) /\ Started(p) /\ JobOf[p] \in Jobs
        /\ run[JobOf[p]].intents = work[p].plan
    BY <1>1, <1>2, ExecutionAssumption DEF SendMoves, PlanSaved
  <2>3. \A j \in Jobs : \A T : j # JobOf[p] => SentIn(book', j, T) = SentIn(book, j, T)
    <3>1. ASSUME NEW j \in Jobs, NEW T, j # JobOf[p]
          PROVE  SentIn(book', j, T) = SentIn(book, j, T)
      <4>1. /\ n \in Nat
            /\ SentIn(book', j, T)
                  = SentIn(book, j, T) + Times(n, SentWeight(Sent(p, NextOrder(p)), j, T))
        BY <1>1, <1>2, SentMore
      <4>2. SentWeight(Sent(p, NextOrder(p)), j, T) = 0
        BY <3>1 DEF SentWeight, Sent
      <4>3. Times(n, 0) = 0
        BY <4>1 DEF Times
      <4>4. SentIn(book, j, T) \in Nat
        BY <1>1, SentType DEF BookOK
      <4>5. QED
        BY <4>1, <4>2, <4>3, <4>4
    <3>2. QED
      BY <3>1
  <2>4. ASSUME NEW j \in Jobs PROVE BudgetOf(j)'
    <3>1. CASE j = JobOf[p]
      BY <2>1, <2>2, <3>1 DEF BudgetOf
    <3>2. CASE j # JobOf[p]
      <4>1. BudgetOf(j)
        BY DEF BudgetOK
      <4>2. QED
        BY <2>2, <2>3, <3>2, <4>1 DEF BudgetOf, Store!Submitted, Store!Ambiguous
    <3>3. QED
      BY <3>1, <3>2
  <2>5. ASSUME NEW q \in Procs, q # p PROVE BudgetLeft(q)'
    <3> SUFFICES ASSUME Started(q)', NEW T
                 PROVE  Within(SentIn(book', JobOf[q], T), Unsent(q, Group(T))',
                               QtyOf(work'[q].plan, Group(T)))
      BY DEF BudgetLeft
    <3>1. pc'[q] = pc[q] /\ work'[q] = work[q]
      BY <2>2, <2>5 DEF Alone
    <3>2. Started(q) /\ Unsent(q, Group(T))' = Unsent(q, Group(T))
      BY <3>1 DEF Started, Unsent, CurrentBatch
    <3>3. JobOf[q] # JobOf[p] /\ JobOf[q] \in Jobs
      BY <1>1, <2>2, <2>5, <3>2, ExecutionAssumption DEF StartedInv
    <3>4. Within(SentIn(book, JobOf[q], T), Unsent(q, Group(T)), QtyOf(work[q].plan, Group(T)))
      BY <3>2 DEF BudgetOK, BudgetLeft
    <3>5. QED
      BY <2>3, <3>1, <3>2, <3>3, <3>4
  <2>6. QED
    BY <2>1, <2>4, <2>5 DEF BudgetOK
<1>3. CASE BookKept
  BY <1>3, BudgetKept
<1>4. QED
  BY <1>1, <1>2, <1>3, BookStep

\* A run asks the broker for no more than its plan, of every group of orders,
\* times the copies a repeated request may leave; and its process never has more
\* to send than the plan allows on top of what was sent.
LEMMA BudgetInvariant == Spec => [](TypesInv /\ BudgetOK)
<1>1. Init => BudgetOK
  <2> SUFFICES ASSUME Init PROVE BudgetOK
    OBVIOUS
  <2>1. \A j \in Jobs : run[j].status \notin Store!Submitted
    BY DEF Init, Store!Absent, Store!Submitted, Store!Ambiguous
  <2>2. \A p \in Procs : ~Started(p)
    BY DEF Init, Started
  <2>3. QED
    BY <2>1, <2>2 DEF BudgetOK, BudgetOf, BudgetLeft
<1>2. TypesInv /\ TypesInv' /\ BudgetOK /\ [Next]_vars => BudgetOK'
  BY BudgetStep
<1>3. QED
  BY <1>1, <1>2, TypesInvariant, PTL DEF Spec

\* What has reached the broker of one ticker and side.
LEMMA SentIsGroup ==
    ASSUME BookOK, NEW j, NEW t, NEW side
    PROVE  SentQty(j, t, side) = SentIn(book, j, {<<t, side>>})
<1>1. \A id \in DOMAIN book :
          SentWeight(book[id], j, {<<t, side>>})
              = IF book[id].job = j /\ book[id].ticker = t /\ book[id].side = side
                THEN book[id].qty ELSE 0
  BY DEF SentWeight
<1>2. SentWeights(book, j, {<<t, side>>})
          = [id \in DOMAIN book |->
                IF book[id].job = j /\ book[id].ticker = t /\ book[id].side = side
                THEN book[id].qty ELSE 0]
  BY <1>1 DEF SentWeights
<1>3. QED
  BY <1>2 DEF SentQty, SentIn

LEMMA QtyInIsGroup ==
    ASSUME NEW orders \in Seq(Intent), NEW t, NEW side
    PROVE  QtyIn(orders, t, side) = QtyOf(orders, Group({<<t, side>>}))
<1>1. \A i \in DOMAIN orders : orders[i] \in Intent
  OBVIOUS
<1>2. \A i \in DOMAIN orders :
          KeyOf(orders[i]) \in Group({<<t, side>>})
              <=> orders[i].ticker = t /\ orders[i].side = side
  <2>1. ASSUME NEW i \in DOMAIN orders
        PROVE  KeyOf(orders[i]) \in Group({<<t, side>>})
                   <=> orders[i].ticker = t /\ orders[i].side = side
    <3>1. KeyOf(orders[i]) \in Group({<<t, side>>})
              <=> <<orders[i].ticker, orders[i].side>> \in {<<t, side>>}
      BY <1>1, GroupKey
    <3>2. QED
      BY <3>1
  <2>2. QED
    BY <2>1
<1>3. Weighted(orders, Group({<<t, side>>}))
          = [i \in DOMAIN orders |->
                IF orders[i].ticker = t /\ orders[i].side = side
                THEN orders[i].qty ELSE 0]
  BY <1>2 DEF Weighted, Weight
<1>4. QED
  BY <1>3 DEF QtyIn, QtyOf

\* At most the repetitions of one request multiply what a run asks for.
SentWithinCopies ==
    \A j \in Jobs, t \in TickerSet, side \in Sides :
        SentQty(j, t, side) > 0 =>
            /\ run[j].status \in Store!Submitted
            /\ SentQty(j, t, side) <= Copies * QtyIn(run[j].intents, t, side)

LEMMA BudgetMeans == TypesInv /\ BudgetOK => SentWithinCopies
<1> SUFFICES ASSUME TypesInv, BudgetOK, NEW j \in Jobs, NEW t, NEW side,
                    SentQty(j, t, side) > 0
             PROVE  /\ run[j].status \in Store!Submitted
                    /\ SentQty(j, t, side) <= Copies * QtyIn(run[j].intents, t, side)
  BY DEF SentWithinCopies
<1>1. BookOK /\ BookJobs /\ RowOK(j)
  BY DEF TypesInv
<1>2. SentQty(j, t, side) = SentIn(book, j, {<<t, side>>})
  BY <1>1, SentIsGroup
<1>3. run[j].status \in Store!Submitted
  BY <1>1, <1>2, SentNone
<1>4. run[j].intents \in Seq(Intent)
  BY <1>1, <1>3 DEF RowOK, WellFormed
<1>5. QtyIn(run[j].intents, t, side) = QtyOf(run[j].intents, Group({<<t, side>>}))
  BY <1>4, QtyInIsGroup
<1>6. Within(SentIn(book, j, {<<t, side>>}), 0, QtyOf(run[j].intents, Group({<<t, side>>})))
  BY <1>3 DEF BudgetOK, BudgetOf
<1>7. SentIn(book, j, {<<t, side>>}) \in Nat
  BY <1>1, SentType DEF BookOK
<1>8. SentQty(j, t, side) <= Copies * QtyIn(run[j].intents, t, side)
  <2>1. Copies * 0 = 0 /\ \A x \in Nat : x + 0 = x
    BY CopiesAre
  <2>2. QED
    BY <1>2, <1>5, <1>6, <1>7, <2>1 DEF Within
<1>9. QED
  BY <1>3, <1>8

\* Whatever process is restarted, whatever response is lost and whoever holds the
\* lease: only the client's own repetition of one request can exceed the plan.
THEOREM RepeatsBoundSends == Spec => []SentWithinCopies
BY BudgetInvariant, BudgetMeans, PTL

\* No order goes to the broker twice when a request is never repeated after its
\* response was lost.
THEOREM SentOnce ==
    ASSUME Broker = "tachibana" \/ "lost" \notin SubmitOutcomes
    PROVE  Spec => []NeverSentTwice
<1>1. Copies = 1
  BY DEF Copies, Attempts
<1>2. TypesInv /\ BudgetOK => NeverSentTwice
  <2> SUFFICES ASSUME TypesInv, BudgetOK, NEW j \in Jobs, NEW t \in TickerSet,
                      NEW side \in {"BUY", "SELL"}, SentQty(j, t, side) > 0
               PROVE  /\ run[j].status \in Store!Submitted
                      /\ SentQty(j, t, side) <= QtyIn(run[j].intents, t, side)
    BY DEF NeverSentTwice
  <2>1. /\ run[j].status \in Store!Submitted
        /\ SentQty(j, t, side) <= Copies * QtyIn(run[j].intents, t, side)
    BY BudgetMeans DEF SentWithinCopies, Sides
  <2>2. RowOK(j)
    BY DEF TypesInv
  <2>3. run[j].intents \in Seq(Intent)
    BY <2>1, <2>2 DEF RowOK, WellFormed
  <2>4. QtyIn(run[j].intents, t, side) \in Nat
    <3>1. QtyIn(run[j].intents, t, side) = QtyOf(run[j].intents, Group({<<t, side>>}))
      BY <2>3, QtyInIsGroup
    <3> DEFINE orders == run[j].intents
    <3>2. orders \in Seq(Intent)
      BY <2>3
    <3> HIDE DEF orders
    <3>3. \A i \in DOMAIN orders : orders[i].qty \in Nat
      BY <3>2, IntentQty
    <3>4. QtyOf(orders, Group({<<t, side>>})) \in Nat
      BY <3>2, <3>3, QtyNat
    <3>5. QED
      BY <3>1, <3>4 DEF orders
  <2>5. \A x \in Nat : 1 * x = x
    OBVIOUS
  <2>6. QED
    BY <1>1, <2>1, <2>4, <2>5
<1>3. QED
  BY <1>2, BudgetInvariant, PTL

-----------------------------------------------------------------------------
(***************************************************************************)
(* The gates between the batches of a run.                                 *)
(***************************************************************************)

\* In one step a process that may call the broker stands still, or moves alone.
LEMMA ProcessMoves ==
    ASSUME TypesInv, [Next]_vars, NEW p \in Procs, Started(p)'
    PROVE  \/ pc'[p] = pc[p] /\ work'[p] = work[p]
           \/ ProcStep(p) /\ Alone(p)
<1>1. PcTyped /\ WorkTyped /\ BookOK /\ \A q \in Procs : WorkOK(q)
  BY DEF TypesInv, IInv
<1>2. CASE pc' = pc /\ work' = work
  BY <1>2
<1>3. ASSUME NEW q \in Procs, Alone(q), ProcStep(q) \/ Crash(q)
      PROVE  \/ pc'[p] = pc[p] /\ work'[p] = work[p]
             \/ ProcStep(p) /\ Alone(p)
  <2>1. CASE q = p
    <3>1. Crash(p) => pc'[p] = "done"
      BY <1>1 DEF Crash, Goto, PcTyped
    <3>2. ~Crash(p)
      BY <3>1 DEF Started
    <3>3. QED
      BY <1>3, <2>1, <3>2
  <2>2. CASE q # p
    BY <1>3, <2>2 DEF Alone
  <2>3. QED
    BY <2>1, <2>2
<1>4. QED
  BY <1>1, <1>2, <1>3, WorkStep

-----------------------------------------------------------------------------
(***************************************************************************)
(* The identifiers of the results a process holds.                         *)
(***************************************************************************)
Distinct(s) ==
    \A i, k \in DOMAIN s : s[i].id = s[k].id /\ s[i].id # NoId => i = k
Apart(s, t) ==
    \A i \in DOMAIN s, k \in DOMAIN t : s[i].id = t[k].id => s[i].id = NoId

\* The statuses a broker answers with before it is polled.
Answered(batch) == \A i \in DOMAIN batch : batch[i].status \in {"SUBMITTED", "FAILED"}

Working(p) == pc[p] \in {"send", "persist", "poll"}

IdsOK(p) ==
    /\ Working(p) /\ (\/ Broker = "tachibana" \/ pc[p] = "send"
                      \/ Len(work[p].batch) = Len(CurrentBatch(p).orders))
          => Distinct(work[p].batch)
    /\ Working(p) /\ (\/ pc[p] = "send"
                      \/ Broker = "tachibana" /\ CurrentBatch(p).kind = "close")
          => Answered(work[p].batch)
    /\ Broker = "tachibana" =>
          Distinct(work[p].results) /\ Apart(work[p].results, work[p].batch)

LEMMA NoResults ==
    /\ Distinct(<<>>) /\ Answered(<<>>)
    /\ \A s : Apart(s, <<>>) /\ Apart(<<>>, s)
<1>1. DOMAIN <<>> = {}
  OBVIOUS
<1>2. QED
  BY <1>1 DEF Distinct, Answered, Apart

\* One more result, whose identifier is new.
LEMMA DistinctAppend ==
    ASSUME NEW s \in Seq(ResultRec), NEW r \in ResultRec, Distinct(s),
           \A i \in DOMAIN s : s[i].id # r.id \/ r.id = NoId
    PROVE  Distinct(Append(s, r))
<1> DEFINE t == Append(s, r)
<1>1. /\ Len(s) \in Nat /\ DOMAIN s = 1 .. Len(s) /\ DOMAIN t = 1 .. Len(s) + 1
      /\ \A i \in 1 .. Len(s) : t[i] = s[i]
      /\ t[Len(s) + 1] = r
  OBVIOUS
<1> HIDE DEF t
<1>2. \A i \in DOMAIN t : i \in DOMAIN s \/ i = Len(s) + 1
  BY <1>1
<1>3. Distinct(t)
  <2> SUFFICES ASSUME NEW i \in DOMAIN t, NEW k \in DOMAIN t,
                      t[i].id = t[k].id, t[i].id # NoId
               PROVE  i = k
    BY DEF Distinct
  <2>1. CASE i \in DOMAIN s /\ k \in DOMAIN s
    BY <1>1, <2>1 DEF Distinct
  <2>2. CASE i = Len(s) + 1 \/ k = Len(s) + 1
    BY <1>1, <1>2, <2>2
  <2>3. QED
    BY <1>2, <2>1, <2>2
<1>4. QED
  BY <1>3 DEF t

\* Two lists one after the other.
LEMMA DistinctConcat ==
    ASSUME NEW s \in Seq(ResultRec), NEW t \in Seq(ResultRec), Distinct(s), Distinct(t),
           Apart(s, t)
    PROVE  Distinct(s \o t)
<1> DEFINE u == s \o t
<1>1. PICK v : v = u
  OBVIOUS
<1>2. /\ Len(s) \in Nat /\ Len(t) \in Nat
      /\ DOMAIN s = 1 .. Len(s) /\ DOMAIN t = 1 .. Len(t)
  OBVIOUS
<1> HIDE DEF u
<1>3. /\ DOMAIN v = 1 .. Len(s) + Len(t)
      /\ \A i \in 1 .. Len(s) : v[i] = s[i]
      /\ \A i \in (Len(s) + 1) .. (Len(s) + Len(t)) :
             i - Len(s) \in 1 .. Len(t) /\ v[i] = t[i - Len(s)]
  BY <1>1, ConcatIs DEF u
<1>4. \A i \in DOMAIN v : i \in 1 .. Len(s) \/ i \in (Len(s) + 1) .. (Len(s) + Len(t))
  BY <1>2, <1>3
<1>5. ASSUME NEW i \in DOMAIN v, NEW k \in DOMAIN v, v[i].id = v[k].id, v[i].id # NoId
      PROVE  i = k
  <2>1. CASE i \in 1 .. Len(s) /\ k \in 1 .. Len(s)
    BY <1>2, <1>3, <1>5, <2>1 DEF Distinct
  <2>2. CASE /\ i \in (Len(s) + 1) .. (Len(s) + Len(t))
             /\ k \in (Len(s) + 1) .. (Len(s) + Len(t))
    <3>1. i - Len(s) = k - Len(s)
      BY <1>2, <1>3, <1>5, <2>2 DEF Distinct
    <3>2. QED
      BY <1>2, <2>2, <3>1
  <2>3. CASE i \in 1 .. Len(s) /\ k \in (Len(s) + 1) .. (Len(s) + Len(t))
    BY <1>2, <1>3, <1>5, <2>3 DEF Apart
  <2>4. CASE k \in 1 .. Len(s) /\ i \in (Len(s) + 1) .. (Len(s) + Len(t))
    BY <1>2, <1>3, <1>5, <2>4 DEF Apart
  <2>5. QED
    BY <1>4, <2>1, <2>2, <2>3, <2>4
<1>6. QED
  BY <1>1, <1>5 DEF Distinct, u

\* The steps of a process that may call the broker, or may from this step on.
StartMove(p) ==
    /\ StartSubmission(p) /\ ~Started(p)
    /\ work[p].batch = <<>> /\ work[p].results = <<>>
    /\ work'[p].batch = <<>> /\ work'[p].results = <<>>
    /\ work'[p].queue = Batches(JobOf[p], work[p].plan)
    /\ work'[p].todo = Closing(JobOf[p])
    /\ pc'[p] = IF work'[p].queue = <<>> THEN "close" ELSE "send"
    /\ UNCHANGED <<saved, rec, book>>

CloseMove(p) ==
    /\ ClosingStep(p) /\ ClosingMoves(p) /\ ClosingData(p)
    /\ pc[p] = "close" /\ pc'[p] = "close"

LEMMA StartedMoves ==
    ASSUME TypesInv, NEW p \in Procs, ProcStep(p), Started(p)'
    PROVE  \/ StartMove(p)
           \/ \E n, r : SendMoves(p, n, r)
           \/ BatchReturns(p)
           \/ Persist(p)
           \/ PollEnds(p)
           \/ CloseMove(p)
<1>1. PcTyped /\ WorkTyped /\ BookOK /\ WorkOK(p)
  BY DEF TypesInv, IInv
<1>2. CASE StartSubmission(p)
  <2>1. pc[p] = "start" /\ ~Started(p)
    BY <1>2 DEF StartSubmission, Started
  <2>2. work[p].batch = <<>> /\ work[p].results = <<>>
    BY <1>1, <2>1 DEF WorkOK
  <2>3. /\ work'[p].queue = Batches(JobOf[p], work[p].plan)
        /\ work'[p].batch = work[p].batch /\ work'[p].results = work[p].results
        /\ work'[p].todo = Closing(JobOf[p])
        /\ pc'[p] = IF work'[p].queue = <<>> THEN "close" ELSE "send"
    BY <1>1, <1>2, StartWork
  <2>4. QED
    BY <1>2, <2>1, <2>2, <2>3 DEF StartMove, StartSubmission
<1>3. ASSUME NEW outcome \in SubmitOutcomes, NEW m \in Unanswered, Send(p, outcome, m)
      PROVE  \E n, r : SendMoves(p, n, r)
  BY <1>1, <1>3, SendIs
<1>4. CASE ClosingStep(p)
  <2>1. pc[p] = "close" /\ Planned(p)
    BY <1>4 DEF ClosingStep, RecordAll, MarkIncomplete, Report, FetchFills,
                VerifyPositions, RecordCheckpoint, Settle, AtStep, Planned, Started
  <2>2. work[p].start \in Inventories
    BY <1>1, <2>1 DEF WorkOK
  <2>3. ClosingMoves(p) /\ ClosingData(p)
    BY <1>1, <1>4, <2>2, ClosingStepMoves
  <2>4. QED
    BY <1>4, <2>1, <2>3 DEF CloseMove, ClosingMoves
<1>5. CASE Begin(p) \/ ReadPositions(p) \/ EnterLease(p) \/ Prepare(p) \/ RecordPlan(p)
           \/ GiveUp(p) \/ Finish(p)
  <2>1. CASE Begin(p) \/ EnterLease(p) \/ Prepare(p) \/ RecordPlan(p)
    <3>1. \E label \in {"lease", "positions", "prepare", "plan", "start"} : Goto(p, label)
      BY <2>1 DEF Begin, EnterLease, Prepare, RecordPlan
    <3>2. QED
      BY <1>1, <3>1, GotoStep DEF Started
  <2>2. CASE ReadPositions(p)
    <3>1. pc'[p] \in {"done", "prepare", "lease"}
      BY <1>1, <2>2, ReadStep
    <3>2. QED
      BY <3>1 DEF Started
  <2>3. CASE GiveUp(p) \/ Finish(p)
    <3>1. pc'[p] = "done"
      BY <1>1, <2>3, ExitStep DEF GiveUp, Finish
    <3>2. QED
      BY <3>1 DEF Started
  <2>4. QED
    BY <1>5, <2>1, <2>2, <2>3
<1>6. QED
  BY <1>2, <1>3, <1>4, <1>5 DEF ProcStep, ClosingStep

-----------------------------------------------------------------------------
\* Sending: the new identifier is none of those that the process knows.
LEMMA IdsSend ==
    ASSUME TypesInv, NEW p \in Procs, IdsOK(p), NEW n, NEW r, SendMoves(p, n, r)
    PROVE  IdsOK(p)'
<1> DEFINE old == work[p].batch
           res == work[p].results
<1>1. /\ pc[p] = "send" /\ pc'[p] = "send"
      /\ work'[p].results = res /\ work'[p].batch = Append(old, r)
      /\ r \in ResultRec
      /\ \/ r.id = NoId /\ r.status = "FAILED"
         \/ r.id = Len(book) + n /\ n > 0 /\ r.status = "SUBMITTED"
      /\ n \in Nat
  BY DEF SendMoves, SendsOrders
<1>2. old \in Seq(ResultRec) /\ res \in Seq(ResultRec) /\ book \in Seq(BookOrder)
  BY DEF TypesInv, WorkTyped, WorkRec, BookOK
<1>3. /\ \A i \in DOMAIN old : old[i].id # NoId => old[i].id \in DOMAIN book
      /\ \A i \in DOMAIN res : res[i].id # NoId => res[i].id \in DOMAIN book
  BY DEF TypesInv, ResultsOK, ResultIn
<1>4. /\ \A i \in DOMAIN old : old[i].id # r.id \/ r.id = NoId
      /\ \A i \in DOMAIN res : res[i].id # r.id \/ r.id = NoId
  <2>1. r.id = NoId \/ r.id \notin DOMAIN book
    BY <1>1, <1>2
  <2>2. QED
    BY <1>3, <2>1
<1>5. Distinct(old) /\ Answered(old)
  BY <1>1 DEF IdsOK, Working
<1> HIDE DEF old, res
<1>6. Distinct(Append(old, r))
  BY <1>1, <1>2, <1>4, <1>5, DistinctAppend
<1>7. \A i \in DOMAIN Append(old, r) :
          (i \in DOMAIN old /\ Append(old, r)[i] = old[i]) \/ Append(old, r)[i] = r
  BY <1>1, <1>2
<1>8. Answered(Append(old, r))
  BY <1>1, <1>5, <1>7 DEF Answered
<1>9. Broker = "tachibana" => Distinct(res) /\ Apart(res, Append(old, r))
  <2> HAVE Broker = "tachibana"
  <2>1. Distinct(res) /\ Apart(res, old)
    BY DEF IdsOK, res, old
  <2>2. QED
    BY <1>4, <1>7, <2>1 DEF Apart
<1>10. QED
  BY <1>1, <1>6, <1>8, <1>9 DEF IdsOK, Working

LEMMA IdsReturns ==
    ASSUME TypesInv, NEW p \in Procs, IdsOK(p), BatchReturns(p)
    PROVE  IdsOK(p)'
<1> DEFINE old == work[p].batch
           new == work'[p].batch
           res == work[p].results
<1>1. /\ pc[p] = "send" /\ Len(old) = Len(CurrentBatch(p).orders)
  BY DEF BatchReturns
<1>2. /\ WorkTyped' /\ pc'[p] = "persist"
      /\ work'[p].queue = work[p].queue /\ work'[p].results = res
      /\ BatchHandedBack(p)
  BY ReturnsStep DEF TypesInv, IInv
<1>3. old \in Seq(ResultRec) /\ new \in Seq(ResultRec)
  BY <1>2 DEF TypesInv, WorkTyped, WorkRec
<1>4. CurrentBatch(p)' = CurrentBatch(p)
  BY <1>2 DEF CurrentBatch
<1>5. Distinct(old) /\ Answered(old)
  BY <1>1 DEF IdsOK, Working
<1>6. \A k \in DOMAIN new : \E i \in DOMAIN old : new[k].id = old[i].id
  BY <1>2 DEF BatchHandedBack
<1>7. Broker = "tachibana" \/ Len(new) = Len(old) =>
          /\ DOMAIN new = DOMAIN old
          /\ \A i \in DOMAIN old : new[i].id = old[i].id
          /\ \A i \in DOMAIN old : new[i].status = old[i].status \/ NeedsRollback(p)
  <2> HAVE Broker = "tachibana" \/ Len(new) = Len(old)
  <2>1. /\ Len(new) = Len(old)
        /\ \A i \in DOMAIN old : new[i].id = old[i].id
        /\ \A i \in DOMAIN old : new[i].status = old[i].status \/ NeedsRollback(p)
    BY <1>2 DEF BatchHandedBack
  <2>2. QED
    BY <1>3, <2>1
<1> HIDE DEF old, new, res
<1>8. Broker = "tachibana" \/ Len(new) = Len(CurrentBatch(p).orders) => Distinct(new)
  BY <1>1, <1>5, <1>7 DEF Distinct
<1>9. Broker = "tachibana" /\ CurrentBatch(p).kind = "close" => Answered(new)
  <2> HAVE Broker = "tachibana" /\ CurrentBatch(p).kind = "close"
  <2>1. ~NeedsRollback(p)
    BY DEF NeedsRollback
  <2>2. QED
    BY <1>5, <1>7, <2>1 DEF Answered
<1>10. Broker = "tachibana" => Distinct(res) /\ Apart(res, new)
  <2> HAVE Broker = "tachibana"
  <2>1. Distinct(res) /\ Apart(res, old)
    BY DEF IdsOK, res, old
  <2>2. QED
    BY <1>6, <2>1 DEF Apart
<1>11. QED
  BY <1>2, <1>4, <1>8, <1>9, <1>10 DEF IdsOK, Working, new

LEMMA IdsPoll ==
    ASSUME TypesInv, NEW p \in Procs, IdsOK(p), PollEnds(p)
    PROVE  IdsOK(p)'
<1> DEFINE old == work[p].batch
           res == work[p].results
<1>1. pc[p] = "poll" /\ work[p].queue # <<>>
  BY DEF PollEnds, TypesInv, WorkOK
<1>2. /\ WorkTyped' /\ work'[p].batch = <<>>
      /\ \E batch : BatchPolled(old, batch) /\ work'[p].results = res \o batch
      /\ pc'[p] \in {"close", "send"}
  BY <1>1, PollStep DEF TypesInv, IInv
<1>3. PICK b : BatchPolled(old, b) /\ work'[p].results = res \o b
  BY <1>2
<1>4. old \in Seq(ResultRec) /\ res \in Seq(ResultRec)
  BY DEF TypesInv, WorkTyped, WorkRec
<1>5. /\ b \in Seq(ResultRec) /\ DOMAIN b = DOMAIN old
      /\ \A i \in DOMAIN old : b[i].id = old[i].id
  <2>1. /\ b \in Seq(ResultRec) /\ Len(b) = Len(old)
        /\ \A i \in DOMAIN old : b[i].id = old[i].id
    BY <1>3 DEF BatchPolled
  <2>2. QED
    BY <1>4, <2>1
<1>6. Broker = "tachibana" => Distinct(work'[p].results)
  <2> HAVE Broker = "tachibana"
  <2>1. Distinct(res) /\ Apart(res, old) /\ Distinct(old)
    BY <1>1 DEF IdsOK, Working
  <2> HIDE DEF old, res
  <2>2. Distinct(b) /\ Apart(res, b)
    BY <1>5, <2>1 DEF Distinct, Apart
  <2>3. QED
    BY <1>3, <1>4, <1>5, <2>1, <2>2, DistinctConcat
<1>7. /\ Distinct(work'[p].batch) /\ Answered(work'[p].batch)
      /\ Apart(work'[p].results, work'[p].batch)
  BY <1>2, NoResults
<1>8. QED
  BY <1>6, <1>7 DEF IdsOK

LEMMA IdsStep ==
    ASSUME TypesInv, TypesInv', [Next]_vars, NEW p \in Procs, IdsOK(p)
    PROVE  IdsOK(p)'
<1>1. CASE work'[p].batch = <<>> /\ work'[p].results = <<>>
  BY <1>1, NoResults DEF IdsOK
<1>2. CASE ~Started(p)'
  <2>1. WorkOK(p)'
    BY DEF TypesInv
  <2>2. QED
    BY <1>1, <1>2, <2>1 DEF WorkOK
<1>3. CASE SameOrders(p) /\ pc'[p] = pc[p]
  BY <1>3 DEF SameOrders, IdsOK, Working, CurrentBatch
<1>4. CASE ProcStep(p) /\ Started(p)'
  <2>1. CASE StartMove(p)
    BY <1>1, <2>1 DEF StartMove
  <2>2. CASE \E n, r : SendMoves(p, n, r)
    BY <2>2, IdsSend
  <2>3. CASE BatchReturns(p)
    BY <2>3, IdsReturns
  <2>4. CASE Persist(p)
    <3>1. pc[p] = "persist" /\ pc'[p] = "poll" /\ work' = work
      BY <2>4, GotoStep DEF Persist, TypesInv, IInv
    <3>2. QED
      BY <3>1 DEF IdsOK, Working, CurrentBatch
  <2>5. CASE PollEnds(p)
    BY <2>5, IdsPoll
  <2>6. CASE CloseMove(p)
    BY <1>3, <2>6 DEF CloseMove, ClosingMoves
  <2>7. QED
    BY <1>4, <2>1, <2>2, <2>3, <2>4, <2>5, <2>6, StartedMoves
<1>5. QED
  BY <1>2, <1>3, <1>4, ProcessMoves DEF SameOrders

-----------------------------------------------------------------------------
(***************************************************************************)
(* What is filled of a batch.                                              *)
(***************************************************************************)
FilledWeight(o, j, kind, t, side) ==
    IF o.job = j /\ o.kind = kind /\ o.ticker = t /\ o.side = side THEN o.filled ELSE 0
FilledWeights(b, j, kind, t, side) ==
    [id \in DOMAIN b |-> FilledWeight(b[id], j, kind, t, side)]
FilledAt(b, j, kind, t, side) == SumFunction(FilledWeights(b, j, kind, t, side))

LEMMA FilledIs ==
    ASSUME NEW j, NEW kind, NEW t, NEW side
    PROVE  FilledIn(j, kind, t, side) = FilledAt(book, j, kind, t, side)
<1>1. \A id \in DOMAIN book :
          FilledWeight(book[id], j, kind, t, side)
              = IF book[id].job = j /\ book[id].kind = kind
                   /\ book[id].ticker = t /\ book[id].side = side
                THEN book[id].filled ELSE 0
  BY DEF FilledWeight
<1>2. FilledWeights(book, j, kind, t, side)
          = [id \in DOMAIN book |->
                IF book[id].job = j /\ book[id].kind = kind
                   /\ book[id].ticker = t /\ book[id].side = side
                THEN book[id].filled ELSE 0]
  BY <1>1 DEF FilledWeights
<1>3. QED
  BY <1>2 DEF FilledIn, FilledAt

LEMMA FilledType ==
    ASSUME NEW b \in Seq(BookOrder), NEW j, NEW kind, NEW t, NEW side
    PROVE  /\ DOMAIN FilledWeights(b, j, kind, t, side) = DOMAIN b
           /\ IsFiniteSet(DOMAIN b)
           /\ \A id \in DOMAIN b :
                 /\ FilledWeights(b, j, kind, t, side)[id]
                       = FilledWeight(b[id], j, kind, t, side)
                 /\ FilledWeights(b, j, kind, t, side)[id] \in Nat
           /\ FilledAt(b, j, kind, t, side)
                 = SumFunctionOnSet(FilledWeights(b, j, kind, t, side), DOMAIN b)
           /\ FilledAt(b, j, kind, t, side) \in Nat
<1> DEFINE w == FilledWeights(b, j, kind, t, side)
<1>1. /\ DOMAIN w = DOMAIN b
      /\ \A id \in DOMAIN b : w[id] = FilledWeight(b[id], j, kind, t, side)
  BY DEF FilledWeights
<1>2. IsFiniteSet(DOMAIN b)
  <2>1. DOMAIN b = 1 .. Len(b) /\ Len(b) \in Nat
    OBVIOUS
  <2>2. QED
    BY <2>1, FS_Interval
<1>3. \A id \in DOMAIN b : w[id] \in Nat
  <2>1. \A id \in DOMAIN b : b[id].filled \in Nat
    <3>1. \A id \in DOMAIN b : b[id] \in BookOrder
      OBVIOUS
    <3>2. QED
      BY <3>1 DEF BookOrder
  <2>2. QED
    BY <1>1, <2>1 DEF FilledWeight
<1>4. FilledAt(b, j, kind, t, side) = SumFunctionOnSet(w, DOMAIN b)
  BY <1>1 DEF FilledAt, SumFunction
<1> HIDE DEF w
<1>5. SumFunctionOnSet(w, DOMAIN b) \in Nat
  BY <1>2, <1>3, SumNat
<1>6. QED
  BY <1>1, <1>2, <1>3, <1>4, <1>5 DEF w

\* Fills only grow.
LEMMA FilledGrows ==
    ASSUME BookOK, BookOK', BookGrows, NEW j, NEW kind, NEW t, NEW side
    PROVE  FilledAt(book, j, kind, t, side) <= FilledAt(book', j, kind, t, side)
<1> DEFINE v == FilledWeights(book, j, kind, t, side)
           w == FilledWeights(book', j, kind, t, side)
           S == DOMAIN book
           T == DOMAIN book'
<1>1. /\ IsFiniteSet(S) /\ \A id \in S : v[id] \in Nat
      /\ \A id \in S : v[id] = FilledWeight(book[id], j, kind, t, side)
      /\ FilledAt(book, j, kind, t, side) = SumFunctionOnSet(v, S)
  BY FilledType DEF BookOK
<1>2. /\ IsFiniteSet(T) /\ \A id \in T : w[id] \in Nat
      /\ \A id \in T : w[id] = FilledWeight(book'[id], j, kind, t, side)
      /\ FilledAt(book', j, kind, t, side) = SumFunctionOnSet(w, T)
  BY FilledType DEF BookOK
<1>3. S \subseteq T /\ \A id \in S : v[id] <= w[id]
  <2>1. ASSUME NEW id \in S PROVE id \in T /\ v[id] <= w[id]
    <3>1. /\ id \in T /\ SameOrder(book[id], book'[id])
          /\ book[id].filled <= book'[id].filled
      BY DEF BookGrows
    <3>2. /\ v[id] = FilledWeight(book[id], j, kind, t, side)
          /\ w[id] = FilledWeight(book'[id], j, kind, t, side)
      BY <1>1, <1>2, <3>1
    <3> HIDE DEF v, w, S, T
    <3>3. QED
      BY <3>1, <3>2 DEF FilledWeight, SameOrder
  <2>2. QED
    BY <2>1
<1> HIDE DEF v, w, S, T
<1>4. SumFunctionOnSet(v, S) <= SumFunctionOnSet(w, S)
  BY <1>1, <1>2, <1>3, SumMonotone
<1>5. SumFunctionOnSet(w, S) <= SumFunctionOnSet(w, T)
  BY <1>2, <1>3, SumSubset
<1>6. /\ SumFunctionOnSet(v, S) \in Int /\ SumFunctionOnSet(w, S) \in Int
      /\ SumFunctionOnSet(w, T) \in Int
  BY <1>1, <1>2, <1>3, SumInt
<1>7. QED
  BY <1>1, <1>2, <1>4, <1>5, <1>6

\* When all orders of a list were reported filled, the broker has filled what
\* the list asks for.
LEMMA FilledCovers ==
    ASSUME BookOK, NEW j, NEW kind, NEW orders \in Seq(Intent), NEW b \in Seq(ResultRec),
           Answers(b, orders), Len(b) = Len(orders), Distinct(b), AllFilled(b),
           \A i \in DOMAIN b : ResultIn(book, j, b[i]) /\ KindIn(book, kind, b[i]),
           NEW t, NEW side
    PROVE  QtyIn(orders, t, side) <= FilledAt(book, j, kind, t, side)
<1> DEFINE S == DOMAIN orders
           f == [i \in DOMAIN orders |->
                    IF orders[i].ticker = t /\ orders[i].side = side
                    THEN orders[i].qty ELSE 0]
           g == FilledWeights(book, j, kind, t, side)
           B == DOMAIN book
           m == [i \in S |-> b[i].id]
           T == {b[i].id : i \in S}
<1>1. DOMAIN b = S /\ IsFiniteSet(S)
  <2>1. /\ DOMAIN b = 1 .. Len(b) /\ S = 1 .. Len(orders) /\ Len(orders) \in Nat
    OBVIOUS
  <2>2. QED
    BY <2>1, FS_Interval
<1>2. /\ IsFiniteSet(B) /\ \A id \in B : g[id] \in Nat
      /\ \A id \in B : g[id] = FilledWeight(book[id], j, kind, t, side)
      /\ FilledAt(book, j, kind, t, side) = SumFunctionOnSet(g, B)
  BY FilledType DEF BookOK
<1>3. QtyIn(orders, t, side) = SumFunctionOnSet(f, S)
  BY DEF QtyIn, SumFunction
<1>4. \A i \in S : f[i] \in Nat
  <2>1. \A i \in S : orders[i].qty \in Nat
    BY IntentQty
  <2>2. QED
    BY <2>1
<1>5. ASSUME NEW i \in S
      PROVE  b[i].id \in B /\ g[b[i].id] = f[i] /\ b[i].id # NoId
  <2>1. b[i].status = "FILLED" /\ Matches(b[i], orders[i])
    BY <1>1 DEF AllFilled, Answers
  <2>2. /\ b[i].id # NoId /\ b[i].id \in B
        /\ book[b[i].id].job = j /\ Matches(b[i], book[b[i].id])
        /\ book[b[i].id].filled = book[b[i].id].qty
        /\ book[b[i].id].kind = kind
    BY <1>1, <2>1 DEF ResultIn, KindIn
  <2>3. g[b[i].id] = FilledWeight(book[b[i].id], j, kind, t, side)
    BY <1>2, <2>2
  <2> HIDE DEF g, B
  <2>4. QED
    BY <2>1, <2>2, <2>3 DEF FilledWeight, Matches
<1>6. \A x, y \in S : b[x].id = b[y].id => x = y
  BY <1>1, <1>5 DEF Distinct
<1>7. /\ m \in [S -> T]
      /\ \A x, y \in S : m[x] = m[y] => x = y
      /\ \A y \in T : \E x \in S : m[x] = y
      /\ \A x \in S : f[x] \in Int /\ g[m[x]] = f[x]
      /\ T \subseteq B
  <2>1. \A x \in S : m[x] = b[x].id
    OBVIOUS
  <2>2. \A x \in S : f[x] \in Int
    BY <1>4
  <2> HIDE DEF f, g, B
  <2>3. QED
    BY <1>5, <1>6, <2>1, <2>2
<1> HIDE DEF f, g, m, S, T, B
<1>8. SumFunctionOnSet(g, T) = SumFunctionOnSet(f, S)
  BY <1>1, <1>7, SumRenamed
<1>9. SumFunctionOnSet(g, T) <= SumFunctionOnSet(g, B)
  BY <1>2, <1>7, SumSubset
<1>10. QED
  BY <1>2, <1>3, <1>8, <1>9

-----------------------------------------------------------------------------
(***************************************************************************)
(* The gate behind a batch of closes.                                      *)
(***************************************************************************)
\* The runs that must not go on before their first batch is filled: those that
\* close the day with either broker, with Tachibana also the decisions.
Gated(j) == j \in CloseJobs \/ Broker = "tachibana"

ClosesFilled(b, j, plan) ==
    \A k \in DOMAIN Batches(j, plan) : Batches(j, plan)[k].kind = "close" =>
        \A t \in TickerSet, side \in Sides :
            QtyIn(Batches(j, plan)[k].orders, t, side) <= FilledAt(b, j, "close", t, side)

LEMMA PlanOrders ==
    ASSUME NEW plan \in Seq(Intent), NEW j, NEW k \in DOMAIN Batches(j, plan)
    PROVE  /\ Batches(j, plan)[k] \in BatchRec
           /\ Batches(j, plan)[k].orders \in Seq(Intent)
           /\ Batches(j, plan)[k].orders # <<>>
<1>1. /\ Batches(j, plan) \in Seq(BatchRec)
      /\ Batches(j, plan)[k].orders # <<>>
  BY BatchesType
<1>2. Batches(j, plan)[k] \in BatchRec
  BY <1>1
<1>3. QED
  BY <1>1, <1>2 DEF BatchRec

LEMMA ClosesStay ==
    ASSUME BookOK, BookOK', BookGrows, NEW j, NEW plan \in Seq(Intent),
           ClosesFilled(book, j, plan)
    PROVE  ClosesFilled(book', j, plan)
<1> SUFFICES ASSUME NEW k \in DOMAIN Batches(j, plan),
                    Batches(j, plan)[k].kind = "close",
                    NEW t \in TickerSet, NEW side \in Sides
             PROVE  QtyIn(Batches(j, plan)[k].orders, t, side)
                        <= FilledAt(book', j, "close", t, side)
  BY DEF ClosesFilled
<1>1. QtyIn(Batches(j, plan)[k].orders, t, side) <= FilledAt(book, j, "close", t, side)
  BY DEF ClosesFilled
<1>2. FilledAt(book, j, "close", t, side) <= FilledAt(book', j, "close", t, side)
  BY FilledGrows
<1>3. FilledAt(book, j, "close", t, side) \in Nat /\ FilledAt(book', j, "close", t, side) \in Nat
  BY FilledType DEF BookOK
<1>4. QtyIn(Batches(j, plan)[k].orders, t, side) \in Nat
  <2>1. Batches(j, plan)[k].orders \in Seq(Intent)
    BY PlanOrders
  <2> DEFINE orders == Batches(j, plan)[k].orders
  <2>2. QtyIn(orders, t, side) = QtyOf(orders, Group({<<t, side>>}))
    BY <2>1, QtyInIsGroup
  <2> HIDE DEF orders
  <2>3. orders \in Seq(Intent)
    BY <2>1 DEF orders
  <2>4. \A i \in DOMAIN orders : orders[i].qty \in Nat
    BY <2>3, IntentQty
  <2>5. QtyOf(orders, Group({<<t, side>>})) \in Nat
    BY <2>3, <2>4, QtyNat
  <2>6. QED
    BY <2>2, <2>5 DEF orders
<1>5. QED
  BY <1>1, <1>2, <1>3, <1>4

\* The batch that is sent is the one batch of its kind.
LEMMA CurrentIs ==
    ASSUME WorkTyped, NEW p \in Procs, WorkOK(p), Working(p)
    PROVE  /\ CurrentBatch(p).orders \in Seq(Intent) /\ CurrentBatch(p).orders # <<>>
           /\ \A k \in DOMAIN Batches(JobOf[p], work[p].plan) :
                 Batches(JobOf[p], work[p].plan)[k].kind = CurrentBatch(p).kind
                     => Batches(JobOf[p], work[p].plan)[k] = CurrentBatch(p)
<1> DEFINE all == Batches(JobOf[p], work[p].plan)
           queue == work[p].queue
           c == Len(all) - Len(queue) + 1
<1>1. Started(p) /\ Planned(p) /\ queue # <<>>
  BY DEF Working, WorkOK, Started, Planned
<1>2. work[p].plan \in Seq(Intent) /\ queue \in Seq(BatchRec) /\ Suffix(queue, all)
  BY <1>1 DEF WorkOK, WellFormed, WorkTyped, WorkRec
<1>3. /\ all \in Seq(BatchRec)
      /\ \A b, d \in DOMAIN all : b < d => KindOrder(all[b].kind) < KindOrder(all[d].kind)
  BY <1>2, BatchesType
<1>4. CurrentBatch(p) = queue[1]
  BY <1>1, HeadType
<1> HIDE DEF all, queue
<1>5. c \in DOMAIN all /\ queue[1] = all[c]
  <2>1. Len(queue) \in Nat \ {0} /\ Len(all) \in Nat /\ Len(queue) <= Len(all)
    BY <1>1, <1>2, <1>3 DEF Suffix
  <2>2. 1 \in DOMAIN queue /\ c \in 1 .. Len(all) /\ DOMAIN all = 1 .. Len(all)
    BY <1>2, <1>3, <2>1
  <2>3. QED
    BY <1>2, <2>2 DEF Suffix
<1>6. \A k \in DOMAIN all : all[k].kind = all[c].kind => k = c
  <2>1. DOMAIN all \subseteq Int
    BY <1>3
  <2>2. \A b \in DOMAIN all : KindOrder(all[b].kind) \in Int
    BY DEF KindOrder
  <2>3. ASSUME NEW k \in DOMAIN all, all[k].kind = all[c].kind, k # c PROVE FALSE
    <3>1. k < c \/ c < k
      BY <1>5, <2>1, <2>3
    <3>2. KindOrder(all[k].kind) = KindOrder(all[c].kind)
      BY <2>3
    <3>3. QED
      BY <1>3, <1>5, <2>2, <3>1, <3>2
  <2>4. QED
    BY <2>3
<1>7. all[c].orders \in Seq(Intent) /\ all[c].orders # <<>>
  BY <1>2, <1>5, PlanOrders DEF all
<1>8. QED
  BY <1>4, <1>5, <1>6, <1>7 DEF all

\* A gate that opens behind closes leaves them filled.
LEMMA GateFills ==
    ASSUME TypesInv, NEW p \in Procs, IdsOK(p), PollEnds(p), work'[p].queue # <<>>,
           CurrentBatch(p).kind = "close", Gated(JobOf[p])
    PROVE  ClosesFilled(book, JobOf[p], work[p].plan)
<1> DEFINE old == work[p].batch
           orders == CurrentBatch(p).orders
           j == JobOf[p]
<1>1. /\ pc[p] = "poll" /\ Working(p) /\ work[p].queue # <<>>
      /\ PcTyped /\ WorkTyped /\ BookOK /\ WorkOK(p) /\ ResultsOK(p)
  BY DEF PollEnds, Working, TypesInv, WorkOK, IInv
<1>2. PICK b : /\ BatchPolled(old, b)
               /\ work'[p].queue = IF GateOpen(p, old, b) THEN Tail(work[p].queue) ELSE <<>>
  BY <1>1, PollStep
<1>3. GateOpen(p, old, b)
  BY <1>2
<1>4. old \in Seq(ResultRec)
  BY <1>1 DEF WorkTyped, WorkRec
<1>5. /\ b \in Seq(ResultRec) /\ Len(b) = Len(old) /\ DOMAIN b = DOMAIN old
      /\ \A i \in DOMAIN old :
            /\ b[i].id = old[i].id /\ b[i].ticker = old[i].ticker
            /\ b[i].side = old[i].side /\ b[i].qty = old[i].qty
            /\ \/ b[i].status = old[i].status
               \/ /\ old[i].status = "SUBMITTED" /\ ~book[old[i].id].live
                  /\ b[i].status = TrueStatus(old[i].id)
  <2>1. b \in Seq(ResultRec) /\ Len(b) = Len(old)
    BY <1>2 DEF BatchPolled
  <2>2. DOMAIN b = DOMAIN old
    BY <1>4, <2>1
  <2>3. QED
    BY <1>2, <2>1, <2>2 DEF BatchPolled
<1>6. /\ orders \in Seq(Intent) /\ orders # <<>>
      /\ \A k \in DOMAIN Batches(j, work[p].plan) :
            Batches(j, work[p].plan)[k].kind = "close"
                => Batches(j, work[p].plan)[k].orders = orders
  BY <1>1, CurrentIs
<1>7. Len(b) = Len(orders) /\ AllFilled(b)
  <2>1. CASE IsClose(p)
    BY <1>3, <2>1 DEF GateOpen
  <2>2. CASE ~IsClose(p)
    <3>1. Broker = "tachibana"
      BY <2>2 DEF IsClose, Gated
    <3>2. Len(old) = Len(orders)
      BY <1>1, <3>1 DEF WorkOK
    <3>3. /\ \A i \in DOMAIN b : b[i].status # "FAILED"
          /\ PendingIn(old) # {} => AllFilled(b)
      BY <1>3, <2>2 DEF GateOpen
    <3>4. Answered(old)
      BY <1>1, <3>1 DEF IdsOK
    <3>5. \A i \in DOMAIN old : old[i].status = "SUBMITTED"
      BY <1>5, <3>3, <3>4 DEF Answered
    <3>6. DOMAIN old # {}
      <4>1. Len(orders) \in Nat \ {0}
        BY <1>6
      <4>2. DOMAIN old = 1 .. Len(old)
        BY <1>4
      <4>3. 1 \in 1 .. Len(old)
        BY <3>2, <4>1
      <4>4. QED
        BY <4>2, <4>3
    <3>7. PendingIn(old) # {}
      BY <3>5, <3>6 DEF PendingIn
    <3>8. QED
      BY <1>5, <3>2, <3>3, <3>7
  <2>3. QED
    BY <2>1, <2>2
<1>8. Distinct(old) /\ Answers(old, orders)
  <2>1. Len(old) = Len(orders)
    BY <1>5, <1>7
  <2>2. QED
    BY <1>1, <2>1 DEF IdsOK, WorkOK
<1>9. \A i \in DOMAIN b : ResultIn(book, j, b[i]) /\ KindIn(book, "close", b[i])
  <2>1. BookGrows
    BY <1>1, BookSame DEF PollEnds, BookKept
  <2>2. book' = book
    BY DEF PollEnds
  <2>3. ASSUME NEW i \in DOMAIN b
        PROVE  ResultIn(book', j, b[i]) /\ KindIn(book', "close", b[i])
    <3>1. i \in DOMAIN old /\ ResultIn(book, j, old[i]) /\ KindIn(book, "close", old[i])
      BY <1>1, <1>5 DEF ResultsOK
    <3>2. /\ b[i].id = old[i].id /\ b[i].ticker = old[i].ticker
          /\ b[i].side = old[i].side /\ b[i].qty = old[i].qty
          /\ \/ b[i].status = old[i].status
             \/ /\ old[i].status = "SUBMITTED" /\ ~book[old[i].id].live
                /\ b[i].status = TrueStatus(old[i].id)
      BY <1>5, <3>1
    <3>3. QED
      BY <2>1, <3>1, <3>2, ResultRetold
  <2>4. QED
    BY <2>2, <2>3
<1> HIDE DEF old, orders, j
<1>10. Distinct(b) /\ Answers(b, orders)
  BY <1>5, <1>8 DEF Distinct, Answers, Matches
<1>11. ASSUME NEW t \in TickerSet, NEW side \in Sides
       PROVE  QtyIn(orders, t, side) <= FilledAt(book, j, "close", t, side)
  BY <1>1, <1>5, <1>6, <1>7, <1>9, <1>10, FilledCovers
<1>12. QED
  BY <1>6, <1>11 DEF ClosesFilled, j

-----------------------------------------------------------------------------
(***************************************************************************)
(* Behind the gate: the process, and the orders at the broker.             *)
(***************************************************************************)
PastGate(p) ==
    Working(p) /\ CurrentBatch(p).kind # "close" /\ Gated(JobOf[p])
        => ClosesFilled(book, JobOf[p], work[p].plan)

GateHeld(j) ==
    Gated(j) /\ (\E id \in DOMAIN book : book[id].job = j /\ book[id].kind # "close")
        => ClosesFilled(book, j, run[j].intents)

\* A run that starts with another batch has nothing to close.
LEMMA NoCloses ==
    ASSUME NEW plan \in Seq(Intent), NEW j, Batches(j, plan) # <<>>,
           Batches(j, plan)[1].kind # "close", NEW b
    PROVE  ClosesFilled(b, j, plan)
<1> DEFINE all == Batches(j, plan)
<1>1. /\ all \in Seq(BatchRec)
      /\ \A k, d \in DOMAIN all : k < d => KindOrder(all[k].kind) < KindOrder(all[d].kind)
  BY BatchesType
<1>2. all # <<>> /\ all[1].kind # "close"
  OBVIOUS
<1> HIDE DEF all
<1>3. ASSUME NEW k \in DOMAIN all, all[k].kind = "close" PROVE FALSE
  <2>1. 1 \in DOMAIN all /\ 1 < k
    BY <1>1, <1>2, <1>3
  <2>2. KindOrder(all[1].kind) < KindOrder(all[k].kind)
    BY <1>1, <2>1
  <2>3. KindOrder(all[k].kind) = 1 /\ KindOrder(all[1].kind) \in {2, 3}
    BY <1>2, <1>3 DEF KindOrder
  <2>4. QED
    BY <2>2, <2>3
<1>4. QED
  BY <1>3 DEF ClosesFilled, all

LEMMA PastGateStep ==
    ASSUME TypesInv, TypesInv', [Next]_vars, NEW p \in Procs, IdsOK(p), PastGate(p)
    PROVE  PastGate(p)'
<1> SUFFICES ASSUME Working(p)', CurrentBatch(p)'.kind # "close", Gated(JobOf[p])
             PROVE  ClosesFilled(book', JobOf[p], work'[p].plan)
  BY DEF PastGate, Gated
<1>1. /\ PcTyped /\ WorkTyped /\ BookOK /\ BookOK' /\ WorkOK(p)
      /\ \A q \in Procs : WorkOK(q)
      /\ Started(p)'
  BY DEF TypesInv, IInv, Working, Started
<1>2. BookGrows
  BY <1>1, BookStep
<1>3. CASE /\ Working(p) /\ CurrentBatch(p).kind # "close"
           /\ work'[p].plan = work[p].plan
  <2>1. ClosesFilled(book, JobOf[p], work[p].plan)
    BY <1>3 DEF PastGate
  <2>2. work[p].plan \in Seq(Intent)
    BY <1>1 DEF WorkTyped, WorkRec
  <2>3. QED
    BY <1>1, <1>2, <1>3, <2>1, <2>2, ClosesStay
<1>4. CASE pc'[p] = pc[p] /\ work'[p] = work[p]
  BY <1>3, <1>4 DEF Working, CurrentBatch
<1>5. CASE ProcStep(p)
  <2>1. CASE StartMove(p)
    <3>1. work'[p].plan = work[p].plan
      BY <1>1, <2>1, StartWork DEF StartMove, SamePlan
    <3>2. work[p].plan \in Seq(Intent)
      BY <1>1 DEF WorkTyped, WorkRec
    <3> DEFINE all == Batches(JobOf[p], work[p].plan)
    <3>3. work'[p].queue = all /\ all # <<>>
      <4>1. pc'[p] # "close"
        BY DEF Working
      <4>2. QED
        BY <2>1, <4>1 DEF StartMove
    <3>4. all \in Seq(BatchRec)
      BY <3>2, BatchesType
    <3>5. CurrentBatch(p)' = all[1]
      BY <3>3, <3>4 DEF CurrentBatch
    <3> HIDE DEF all
    <3>6. all[1].kind # "close"
      BY <3>5
    <3>7. QED
      BY <3>1, <3>2, <3>3, <3>6, NoCloses DEF all
  <2>2. CASE \E n, r : SendMoves(p, n, r)
    <3>1. Working(p) /\ work'[p].queue = work[p].queue /\ work'[p].plan = work[p].plan
      BY <2>2 DEF SendMoves, Working, SamePlan
    <3>2. CurrentBatch(p)' = CurrentBatch(p)
      BY <3>1 DEF CurrentBatch
    <3>3. QED
      BY <1>3, <3>1, <3>2
  <2>3. CASE BatchReturns(p)
    <3>1. work'[p].queue = work[p].queue /\ work'[p].plan = work[p].plan
      BY <1>1, <2>3, ReturnsStep DEF SamePlan
    <3>2. CurrentBatch(p)' = CurrentBatch(p) /\ Working(p)
      BY <2>3, <3>1 DEF CurrentBatch, BatchReturns, Working
    <3>3. QED
      BY <1>3, <3>1, <3>2
  <2>4. CASE Persist(p)
    <3>1. work' = work /\ Working(p)
      BY <2>4 DEF Persist, Working
    <3>2. CurrentBatch(p)' = CurrentBatch(p)
      BY <3>1 DEF CurrentBatch
    <3>3. QED
      BY <1>3, <3>1, <3>2
  <2>5. CASE PollEnds(p)
    <3>1. Working(p) /\ work[p].queue # <<>>
      BY <1>1, <2>5 DEF PollEnds, Working, WorkOK
    <3>2. work'[p].plan = work[p].plan
      BY <1>1, <2>5, <3>1, PollStep DEF SamePlan
    <3>3. CASE CurrentBatch(p).kind # "close"
      BY <1>3, <3>1, <3>2, <3>3
    <3>4. CASE CurrentBatch(p).kind = "close"
      <4>1. work'[p].queue # <<>>
        <5>1. WorkOK(p)'
          BY DEF TypesInv
        <5>2. QED
          BY <5>1 DEF WorkOK, Working
      <4>2. ClosesFilled(book, JobOf[p], work[p].plan)
        BY <2>5, <3>4, <4>1, GateFills
      <4>3. book' = book
        BY <2>5 DEF PollEnds
      <4>4. QED
        BY <3>2, <4>2, <4>3
    <3>5. QED
      BY <3>3, <3>4
  <2>6. CASE CloseMove(p)
    BY <2>6 DEF CloseMove, Working
  <2>7. QED
    BY <1>1, <1>5, <2>1, <2>2, <2>3, <2>4, <2>5, <2>6, StartedMoves
<1>6. QED
  BY <1>1, <1>4, <1>5, ProcessMoves

\* An order behind the gate is sent by a process behind the gate.
LEMMA GateHeldStep ==
    ASSUME TypesInv, TypesInv', [Next]_vars, \A p \in Procs : PastGate(p),
           NEW j \in Jobs, GateHeld(j)
    PROVE  GateHeld(j)'
<1> SUFFICES ASSUME Gated(j), NEW id \in DOMAIN book', book'[id].job = j,
                    book'[id].kind # "close"
             PROVE  ClosesFilled(book', j, run'[j].intents)
  BY DEF GateHeld, Gated
<1>1. /\ PcTyped /\ WorkTyped /\ BookOK /\ BookOK' /\ BookJobs
      /\ \A q \in Procs : WorkOK(q)
      /\ RowOK(j)
  BY DEF TypesInv, IInv
<1>2. BookGrows /\ (BookKept \/ \E p \in Procs : \E n, r : SendMoves(p, n, r))
  BY <1>1, BookStep
<1>3. ASSUME ClosesFilled(book, j, run[j].intents), run[j].status \in Store!Submitted
      PROVE  ClosesFilled(book', j, run'[j].intents)
  <2>1. run'[j].intents = run[j].intents
    BY <1>1, <1>3, NextStore, StoreKeeps DEF TypesInv
  <2>2. run[j].intents \in Seq(Intent)
    BY <1>1, <1>3 DEF RowOK, WellFormed
  <2>3. QED
    BY <1>1, <1>2, <1>3, <2>1, <2>2, ClosesStay
<1>4. CASE id \in DOMAIN book
  <2>1. book[id].job = j /\ book[id].kind # "close"
    BY <1>2, <1>4 DEF BookGrows, SameOrder
  <2>2. ClosesFilled(book, j, run[j].intents)
    BY <1>4, <2>1 DEF GateHeld
  <2>3. run[j].status \in Store!Submitted
    BY <1>1, <1>4, <2>1 DEF BookJobs
  <2>4. QED
    BY <1>3, <2>2, <2>3
<1>5. CASE id \notin DOMAIN book
  <2>1. PICK p \in Procs : \E n, r : SendMoves(p, n, r)
    BY <1>2, <1>5 DEF BookKept
  <2>2. /\ book'[id] = Sent(p, NextOrder(p)) /\ Started(p) /\ Working(p)
    BY <1>5, <2>1 DEF SendMoves, SentBy, Working
  <2>3. JobOf[p] = j /\ CurrentBatch(p).kind # "close"
    BY <2>2 DEF Sent
  <2>4. ClosesFilled(book, j, work[p].plan)
    BY <2>2, <2>3 DEF PastGate
  <2>5. run[j].intents = work[p].plan /\ run[j].status \in Store!Submitted
    BY <2>2, <2>3 DEF TypesInv, PlanSaved, IInv, StartedInv
  <2>6. QED
    BY <1>3, <2>4, <2>5
<1>6. QED
  BY <1>4, <1>5

GatesOK ==
    /\ \A p \in Procs : IdsOK(p) /\ PastGate(p)
    /\ \A j \in Jobs : GateHeld(j)

\* With each process behind its gate, and each order behind its run's.
LEMMA GatesInvariant == Spec => [](TypesInv /\ GatesOK)
<1>1. Init => GatesOK
  <2> SUFFICES ASSUME Init PROVE GatesOK
    OBVIOUS
  <2>1. \A p \in Procs : ~Working(p) /\ work[p].batch = <<>> /\ work[p].results = <<>>
    BY DEF Init, Working, NoWork
  <2>2. \A p \in Procs : IdsOK(p) /\ PastGate(p)
    BY <2>1, NoResults DEF IdsOK, PastGate
  <2>3. DOMAIN book = {}
    BY DEF Init
  <2>4. QED
    BY <2>2, <2>3 DEF GatesOK, GateHeld
<1>2. TypesInv /\ TypesInv' /\ GatesOK /\ [Next]_vars => GatesOK'
  BY IdsStep, PastGateStep, GateHeldStep DEF GatesOK
<1>3. QED
  BY <1>1, <1>2, TypesInvariant, PTL DEF Spec

LEMMA GateMeans ==
    ASSUME GatesOK, NEW j \in Jobs, Gated(j), NEW id \in OrdersOf(j),
           book[id].kind # "close"
    PROVE  BatchFilled(j, "close")
<1>1. ClosesFilled(book, j, run[j].intents)
  BY DEF GatesOK, GateHeld, OrdersOf
<1>2. QED
  BY <1>1, FilledIs DEF ClosesFilled, BatchFilled, Sides

\* A decision opens nothing before what it closes is repaid.
THEOREM ClosesBeforeNew ==
    ASSUME Broker = "tachibana" PROVE Spec => []NewAfterCloses
<1>1. GatesOK => NewAfterCloses
  <2> SUFFICES ASSUME GatesOK, NEW j \in Jobs \ CloseJobs,
                      HasSent(j, "new") \/ HasSent(j, "delayed")
               PROVE  BatchFilled(j, "close")
    BY DEF NewAfterCloses
  <2>1. \E id \in OrdersOf(j) : book[id].kind # "close"
    BY DEF HasSent
  <2>2. QED
    BY <2>1, GateMeans DEF Gated
<1>2. QED
  BY <1>1, GatesInvariant, PTL

\* The second half of a large close waits for the whole first batch, with either
\* broker.
THEOREM DelayedAfterFirst == Spec => []DelayedCloseAfterFirst
<1>1. GatesOK => DelayedCloseAfterFirst
  <2> SUFFICES ASSUME GatesOK, NEW j \in CloseJobs, HasSent(j, "delayed")
               PROVE  BatchFilled(j, "close")
    BY DEF DelayedCloseAfterFirst
  <2>1. \E id \in OrdersOf(j) : book[id].kind # "close"
    BY DEF HasSent
  <2>2. QED
    BY <2>1, GateMeans, ExecutionAssumption DEF Gated
<1>2. QED
  BY <1>1, GatesInvariant, PTL

-----------------------------------------------------------------------------
(***************************************************************************)
(* What the store has recorded of a run's orders (with Tachibana, whose    *)
(* client reports every order of a batch): each identified order, under    *)
(* the intent it is a part of.                                             *)
(***************************************************************************)

(***************************************************************************)
(* The intents that the orders of a batch are parts of.                    *)
(***************************************************************************)
LEMMA KeyUnique ==
    ASSUME NEW plan, WellFormed(plan), NEW i \in DOMAIN plan, NEW k \in DOMAIN plan,
           KeyOf(plan[i]) = KeyOf(plan[k])
    PROVE  i = k
BY DEF WellFormed, KeyOf

LEMMA KeyQty ==
    ASSUME NEW plan, WellFormed(plan), NEW i \in DOMAIN plan
    PROVE  QtyOf(plan, {KeyOf(plan[i])}) = plan[i].qty
<1> DEFINE G == {KeyOf(plan[i])}
           w == Weighted(plan, G)
           S == DOMAIN plan
<1>1. plan \in Seq(Intent)
  BY DEF WellFormed
<1>2. \A k \in S : plan[k].qty \in Nat
  BY <1>1, IntentQty
<1>3. /\ DOMAIN w = S /\ IsFiniteSet(S)
      /\ \A k \in S : w[k] = Weight(plan[k], G) /\ w[k] \in Nat
  BY <1>1, <1>2, WeightsType
<1>4. QtyOf(plan, G) = SumFunctionOnSet(w, S)
  BY <1>3 DEF QtyOf, SumFunction
<1>5. w[i] = plan[i].qty /\ \A k \in S \ {i} : w[k] = 0
  <2>1. w[i] = plan[i].qty
    BY <1>3 DEF Weight
  <2>2. ASSUME NEW k \in S \ {i} PROVE w[k] = 0
    <3>1. KeyOf(plan[k]) # KeyOf(plan[i])
      BY KeyUnique
    <3>2. QED
      BY <1>3, <3>1 DEF Weight
  <2>3. QED
    BY <2>1, <2>2
<1> HIDE DEF w, S
<1>6. SumFunctionOnSet(w, S) = SumFunctionOnSet(w, {i})
  <2>1. i \in S
    BY DEF S
  <2>2. QED
    BY <1>3, <1>5, <2>1, SumRestrict
<1>7. SumFunctionOnSet(w, {i}) = w[i]
  <2>1. w[i] \in Int
    BY <1>3 DEF S
  <2>2. QED
    BY <2>1, SumSingleton
<1>8. QED
  BY <1>4, <1>5, <1>6, <1>7

\* Every order of the list is a part of an intent of the given purpose.
FromPlan(orders, plan, purpose) ==
    \A k \in DOMAIN orders :
        /\ orders[k].purpose = purpose
        /\ \E i \in DOMAIN plan : KeyOf(orders[k]) = KeyOf(plan[i])

LEMMA PartFrom ==
    ASSUME NEW plan \in Seq(Intent), NEW purpose
    PROVE  Part(plan, purpose) \in Seq(Intent) /\ FromPlan(Part(plan, purpose), plan, purpose)
<1>1. /\ Part(plan, purpose) \in Seq(Intent)
      /\ \A k \in DOMAIN Part(plan, purpose) :
            /\ Part(plan, purpose)[k].purpose = purpose
            /\ \E i \in DOMAIN plan : Part(plan, purpose)[k] = plan[i]
  BY PartType
<1>2. QED
  BY <1>1 DEF FromPlan

LEMMA SplitFrom ==
    ASSUME NEW orders \in Seq(Intent), NEW plan, NEW purpose, FromPlan(orders, plan, purpose)
    PROVE  /\ FromPlan(Immediate(orders), plan, purpose)
           /\ FromPlan(Delayed(orders), plan, purpose)
<1>1. ASSUME NEW o \in Intent, NEW qty
      PROVE  /\ KeyOf([o EXCEPT !.qty = qty]) = KeyOf(o)
             /\ [o EXCEPT !.qty = qty].purpose = o.purpose
  BY DEF Intent, KeyOf
<1>2. \A i \in DOMAIN orders : orders[i] \in Intent
  OBVIOUS
<1>3. FromPlan(Immediate(orders), plan, purpose)
  <2>1. ASSUME NEW k \in DOMAIN Immediate(orders)
        PROVE  /\ k \in DOMAIN orders
               /\ KeyOf(Immediate(orders)[k]) = KeyOf(orders[k])
               /\ Immediate(orders)[k].purpose = orders[k].purpose
    <3>1. /\ k \in DOMAIN orders
          /\ \/ Immediate(orders)[k] = [orders[k] EXCEPT !.qty = FirstHalf(orders[k])]
             \/ Immediate(orders)[k] = orders[k]
      BY ImmediateType
    <3>2. PICK o \in Intent : o = orders[k]
      BY <1>2, <3>1
    <3>3. CASE Immediate(orders)[k] = orders[k]
      BY <3>1, <3>3
    <3>4. CASE Immediate(orders)[k] = [o EXCEPT !.qty = FirstHalf(o)]
      <4>1. /\ KeyOf([o EXCEPT !.qty = FirstHalf(o)]) = KeyOf(o)
            /\ [o EXCEPT !.qty = FirstHalf(o)].purpose = o.purpose
        BY <1>1
      <4>2. QED
        BY <3>1, <3>2, <3>4, <4>1
    <3>5. QED
      BY <3>1, <3>2, <3>3, <3>4
  <2>2. QED
    BY <2>1 DEF FromPlan
<1>4. FromPlan(Delayed(orders), plan, purpose)
  <2>1. ASSUME NEW k \in DOMAIN Delayed(orders)
        PROVE  \E i \in DOMAIN orders : /\ KeyOf(Delayed(orders)[k]) = KeyOf(orders[i])
                                        /\ Delayed(orders)[k].purpose = orders[i].purpose
    <3>1. PICK i \in DOMAIN orders :
              Delayed(orders)[k] = [orders[i] EXCEPT !.qty = orders[i].qty - FirstHalf(orders[i])]
      BY DelayedType
    <3>2. PICK o \in Intent : o = orders[i]
      BY <1>2
    <3>3. /\ KeyOf([o EXCEPT !.qty = o.qty - FirstHalf(o)]) = KeyOf(o)
          /\ [o EXCEPT !.qty = o.qty - FirstHalf(o)].purpose = o.purpose
      BY <1>1
    <3>4. QED
      BY <3>1, <3>2, <3>3
  <2>2. QED
    BY <2>1 DEF FromPlan
<1>5. QED
  BY <1>3, <1>4

\* The purpose of the orders of a batch.
PurposeOf(j, kind) == IF kind = "close" \/ j \in CloseJobs THEN "close" ELSE "new"

LEMMA BatchFrom ==
    ASSUME NEW j, NEW plan \in Seq(Intent), NEW b \in DOMAIN Batches(j, plan)
    PROVE  FromPlan(Batches(j, plan)[b].orders, plan, PurposeOf(j, Batches(j, plan)[b].kind))
<1> DEFINE all == AllBatches(j, plan)
           closes == Part(plan, "close")
           news == Part(plan, "new")
<1>1. /\ closes \in Seq(Intent) /\ news \in Seq(Intent)
      /\ FromPlan(closes, plan, "close") /\ FromPlan(news, plan, "new")
  BY PartFrom
<1>2. /\ FromPlan(Immediate(closes), plan, "close") /\ FromPlan(Delayed(closes), plan, "close")
      /\ FromPlan(Immediate(news), plan, "new") /\ FromPlan(Delayed(news), plan, "new")
  BY <1>1, SplitFrom
<1>3. \A c \in DOMAIN all : FromPlan(all[c].orders, plan, PurposeOf(j, all[c].kind))
  <2>1. CASE j \in CloseJobs
    <3>1. all = <<Batch("close", Immediate(closes)), Batch("delayed", Delayed(closes))>>
      BY <2>1 DEF AllBatches
    <3> HIDE DEF all, closes, news
    <3>2. /\ DOMAIN all = {1, 2}
          /\ all[1].orders = Immediate(closes) /\ all[2].orders = Delayed(closes)
      BY <3>1 DEF Batch
    <3>3. \A c : PurposeOf(j, all[c].kind) = "close"
      BY <2>1 DEF PurposeOf
    <3>4. QED
      BY <1>2, <3>2, <3>3
  <2>2. CASE j \notin CloseJobs
    <3>1. all = <<Batch("close", closes), Batch("new", Immediate(news)),
                  Batch("delayed", Delayed(news))>>
      BY <2>2 DEF AllBatches
    <3> HIDE DEF all, closes, news
    <3>2. /\ DOMAIN all = {1, 2, 3}
          /\ all[1].orders = closes /\ all[2].orders = Immediate(news)
          /\ all[3].orders = Delayed(news)
          /\ all[1].kind = "close" /\ all[2].kind = "new" /\ all[3].kind = "delayed"
      BY <3>1 DEF Batch
    <3>3. /\ PurposeOf(j, all[1].kind) = "close" /\ PurposeOf(j, all[2].kind) = "new"
          /\ PurposeOf(j, all[3].kind) = "new"
      BY <2>2, <3>2 DEF PurposeOf
    <3>4. QED
      BY <1>1, <1>2, <3>2, <3>3
  <2>3. QED
    BY <2>1, <2>2
<1>4. \E c \in DOMAIN all : Batches(j, plan)[b] = all[c]
  <2> DEFINE P == {c \in DOMAIN all : all[c].orders # <<>>}
  <2>1. Batches(j, plan) = Entries(all, P)
    BY BatchesAre
  <2>2. all \in Seq(BatchRec)
    BY AllBatchesType
  <2> HIDE DEF all, P
  <2>3. \A k \in DOMAIN Entries(all, P) : \E c \in P \cap DOMAIN all : Entries(all, P)[k] = all[c]
    BY <2>2, EntriesOf
  <2>4. QED
    BY <2>1, <2>3
<1>5. QED
  BY <1>3, <1>4

-----------------------------------------------------------------------------
(***************************************************************************)
(* Shares of a longer list, and of a list whose statuses changed.          *)
(***************************************************************************)
\* t is s with other statuses.
Retold(s, t) ==
    /\ DOMAIN t = DOMAIN s
    /\ \A k \in DOMAIN s :
          /\ t[k].id = s[k].id /\ t[k].ticker = s[k].ticker
          /\ t[k].side = s[k].side /\ t[k].qty = s[k].qty

LEMMA ShareRetold ==
    ASSUME NEW s, NEW t, Retold(s, t), NEW own, NEW i, NEW K
    PROVE  Share(t, own, i, K) = Share(s, own, i, K)
<1>1. ShareOf(t, own, i) = ShareOf(s, own, i)
  BY DEF Retold, ShareOf
<1>2. QED
  BY <1>1 DEF Share

\* The first n entries are the same.
Agree(own, more, n) == \A k \in 1 .. n : more[k] = own[k]

\* own, extended to the results of one more batch by the intents of its orders.
Extends(own, s, more, t, orders, plan) ==
    /\ more \in [DOMAIN t -> DOMAIN plan]
    /\ Agree(own, more, Len(s))
    /\ \A k \in 1 .. Len(orders) : KeyOf(plan[more[Len(s) + k]]) = KeyOf(orders[k])

LEMMA ResultQty ==
    ASSUME NEW s \in Seq(ResultRec)
    PROVE  /\ \A k \in DOMAIN s : s[k] \in ResultRec /\ s[k].qty \in Nat \ {0}
           /\ Len(s) \in Nat /\ DOMAIN s = 1 .. Len(s) /\ IsFiniteSet(DOMAIN s)
<1>1. \A k \in DOMAIN s : s[k] \in ResultRec
  OBVIOUS
<1>2. Len(s) \in Nat /\ DOMAIN s = 1 .. Len(s)
  OBVIOUS
<1>3. IsFiniteSet(1 .. Len(s))
  BY <1>2, FS_Interval
<1>4. QED
  BY <1>1, <1>2, <1>3 DEF ResultRec

\* t goes on where s ends.
Prefix(s, t) == \A k \in 1 .. Len(s) : k \in DOMAIN t /\ t[k] = s[k]

LEMMA PrefixConcat ==
    ASSUME NEW s \in Seq(ResultRec), NEW batch \in Seq(ResultRec)
    PROVE  Prefix(s, s \o batch)
<1>1. PICK t : t = s \o batch
  OBVIOUS
<1>2. DOMAIN t = 1 .. Len(s) + Len(batch)
  BY <1>1, ConcatIs
<1>3. \A k \in 1 .. Len(s) : t[k] = s[k]
  BY <1>1, ConcatIs
<1>4. Len(s) \in Nat /\ Len(batch) \in Nat
  OBVIOUS
<1>5. QED
  BY <1>1, <1>2, <1>3, <1>4 DEF Prefix

\* What the earlier results ask for of an intent stays what it was.
LEMMA SharePrefix ==
    ASSUME NEW s \in Seq(ResultRec), NEW t, Prefix(s, t), NEW own, NEW more, Agree(own, more, Len(s)), NEW i,
           NEW K \in SUBSET (1 .. Len(s))
    PROVE  Share(t, more, i, K) = Share(s, own, i, K)
<1> DEFINE f == ShareOf(s, own, i)
           g == ShareOf(t, more, i)
<1>1. /\ Len(s) \in Nat /\ DOMAIN s = 1 .. Len(s) /\ IsFiniteSet(DOMAIN s)
      /\ \A k \in DOMAIN s : s[k].qty \in Nat
  BY ResultQty
<1>2. \A k \in 1 .. Len(s) : k \in DOMAIN t /\ t[k] = s[k]
  BY DEF Prefix
<1>3. \A k \in K : f[k] \in Int /\ f[k] = g[k]
  <2>1. ASSUME NEW k \in K PROVE f[k] \in Int /\ f[k] = g[k]
    <3>1. k \in DOMAIN s /\ k \in DOMAIN t /\ t[k] = s[k] /\ more[k] = own[k]
      BY <1>1, <1>2 DEF Agree
    <3>2. /\ f[k] = IF own[k] = i THEN s[k].qty ELSE 0
          /\ g[k] = IF more[k] = i THEN t[k].qty ELSE 0
      BY <3>1 DEF ShareOf
    <3>3. QED
      BY <1>1, <3>1, <3>2
  <2>2. QED
    BY <2>1
<1>4. IsFiniteSet(K)
  BY <1>1, FS_Subset
<1> HIDE DEF f, g
<1>5. SumFunctionOnSet(f, K) = SumFunctionOnSet(g, K)
  BY <1>3, <1>4, SumSame
<1>6. QED
  BY <1>5 DEF Share, f, g

\* Sums over an interval and over the interval moved by l.
LEMMA SumShifted ==
    ASSUME NEW l \in Nat, NEW n \in Nat, NEW f, NEW g,
           \A k \in 1 .. n : f[k] \in Int /\ g[l + k] = f[k]
    PROVE  SumFunctionOnSet(g, (l + 1) .. (l + n)) = SumFunctionOnSet(f, 1 .. n)
<1> DEFINE S == 1 .. n
           T == (l + 1) .. (l + n)
           m == [k \in S |-> l + k]
<1>1. m \in [S -> T]
  OBVIOUS
<1>2. \A x, y \in S : m[x] = m[y] => x = y
  OBVIOUS
<1>3. \A y \in T : \E x \in S : m[x] = y
  <2> TAKE y \in T
  <2>1. y - l \in S /\ m[y - l] = y
    OBVIOUS
  <2>2. QED
    BY <2>1
<1>4. \A x \in S : f[x] \in Int /\ g[m[x]] = f[x]
  OBVIOUS
<1>5. IsFiniteSet(S)
  BY FS_Interval
<1> HIDE DEF S, T, m
<1>6. SumFunctionOnSet(g, T) = SumFunctionOnSet(f, S)
  BY <1>1, <1>2, <1>3, <1>4, <1>5, SumRenamed
<1>7. QED
  BY <1>6 DEF S, T

\* s and the answers to a batch of orders, with the intents of both.
Tells(s, batch, t, orders, plan, own, more) ==
    /\ s \in Seq(ResultRec) /\ batch \in Seq(ResultRec) /\ t = s \o batch
    /\ orders \in Seq(Intent) /\ Answers(batch, orders) /\ Len(batch) = Len(orders)
    /\ WellFormed(plan) /\ Extends(own, s, more, t, orders, plan)

AddsUp(x, y, z) == x = y + z

\* One more batch adds what it asks for of the intent.
LEMMA ShareMore ==
    ASSUME NEW s, NEW batch, NEW t, NEW orders, NEW plan, NEW own, NEW more,
           Tells(s, batch, t, orders, plan, own, more), NEW i \in DOMAIN plan,
           NEW G, G = {KeyOf(plan[i])}
    PROVE  AddsUp(Share(t, more, i, DOMAIN t), Share(s, own, i, DOMAIN s), QtyOf(orders, G))
<1> USE DEF Tells, AddsUp
<1> SUFFICES ASSUME s \in Seq(ResultRec), batch \in Seq(ResultRec), t = s \o batch,
                    orders \in Seq(Intent), Answers(batch, orders), Len(batch) = Len(orders),
                    WellFormed(plan), Extends(own, s, more, t, orders, plan)
             PROVE  Share(t, more, i, DOMAIN t)
                        = Share(s, own, i, DOMAIN s) + QtyOf(orders, {KeyOf(plan[i])})
  OBVIOUS
<1> HIDE DEF Tells, AddsUp
<1>0. PICK l, n : l = Len(s) /\ n = Len(batch)
  OBVIOUS
<1>1. /\ l \in Nat /\ DOMAIN s = 1 .. l /\ IsFiniteSet(1 .. l)
      /\ \A k \in 1 .. l : s[k].qty \in Nat
  BY <1>0, ResultQty
<1>2. /\ t \in Seq(ResultRec) /\ DOMAIN t = 1 .. l + n /\ n \in Nat
      /\ \A k \in (l + 1) .. (l + n) : k - l \in 1 .. n /\ t[k] = batch[k - l]
  <2>1. DOMAIN t = 1 .. Len(s) + Len(batch) /\ t \in Seq(ResultRec)
    BY ConcatIs
  <2>2. \A k \in (Len(s) + 1) .. (Len(s) + Len(batch)) :
              k - Len(s) \in 1 .. Len(batch) /\ t[k] = batch[k - Len(s)]
    BY ConcatIs
  <2>3. Len(batch) \in Nat
    OBVIOUS
  <2>4. QED
    BY <1>0, <2>1, <2>2, <2>3
<1>3. PICK A, B, O : /\ A = 1 .. l /\ B = (l + 1) .. (l + n) /\ O = 1 .. n
                     /\ O = DOMAIN orders
  <2>1. DOMAIN orders = 1 .. n
    BY <1>0
  <2>2. QED
    BY <2>1
<1>4. DOMAIN t = A \cup B /\ A \cap B = {} /\ A \in SUBSET (1 .. Len(s)) /\ DOMAIN s = A
  BY <1>0, <1>1, <1>2, <1>3
<1>5. /\ \A k \in DOMAIN t : t[k].qty \in Nat
      /\ IsFiniteSet(DOMAIN t)
  BY <1>2, ResultQty
<1>6. PICK g : g = ShareOf(t, more, i)
  OBVIOUS
<1>7. \A k \in DOMAIN t : g[k] = (IF more[k] = i THEN t[k].qty ELSE 0) /\ g[k] \in Int
  BY <1>5, <1>6 DEF ShareOf
<1>8. Share(t, more, i, DOMAIN t) = SumFunctionOnSet(g, A) + SumFunctionOnSet(g, B)
  <2>1. IsFiniteSet(A) /\ IsFiniteSet(B)
    BY <1>4, <1>5, FS_Subset
  <2>2. SumFunctionOnSet(g, A \cup B) = SumFunctionOnSet(g, A) + SumFunctionOnSet(g, B)
    BY <1>4, <1>7, <2>1, SumUnion
  <2>3. QED
    BY <1>4, <1>6, <2>2 DEF Share
<1>9. SumFunctionOnSet(g, A) = Share(s, own, i, DOMAIN s)
  <2>0. Prefix(s, t)
    BY PrefixConcat
  <2>1. Agree(own, more, Len(s))
    BY DEF Extends
  <2>2. Share(t, more, i, A) = Share(s, own, i, A)
    BY <1>4, <2>1, <2>0, SharePrefix
  <2>3. QED
    BY <1>4, <1>6, <2>2 DEF Share
<1>10. PICK w : w = Weighted(orders, {KeyOf(plan[i])})
  OBVIOUS
<1>11. /\ IsFiniteSet(O) /\ DOMAIN w = O
       /\ \A k \in O : w[k] = Weight(orders[k], {KeyOf(plan[i])}) /\ w[k] \in Nat
  <2>1. \A k \in O : orders[k].qty \in Nat
    BY <1>3, IntentQty
  <2>2. QED
    BY <1>3, <1>10, <2>1, WeightsType
<1>12. QtyOf(orders, {KeyOf(plan[i])}) = SumFunctionOnSet(w, O)
  BY <1>10, <1>11 DEF QtyOf, SumFunction
<1>13. ASSUME NEW k \in O PROVE l + k \in B /\ g[l + k] = w[k]
  <2>1. l + k \in B /\ (l + k) - l = k /\ l + k \in DOMAIN t
    BY <1>1, <1>2, <1>3
  <2>2. t[l + k] = batch[k]
    BY <1>2, <1>3, <2>1
  <2>3. batch[k].qty = orders[k].qty
    <3>1. k \in DOMAIN batch
      BY <1>0, <1>3
    <3>2. QED
      BY <3>1 DEF Answers, Matches
  <2>4. more[l + k] \in DOMAIN plan /\ KeyOf(plan[more[l + k]]) = KeyOf(orders[k])
    <3>1. k \in 1 .. Len(orders)
      BY <1>0, <1>3
    <3>2. QED
      BY <1>0, <2>1, <3>1 DEF Extends
  <2>5. more[l + k] = i <=> KeyOf(orders[k]) = KeyOf(plan[i])
    BY <2>4, KeyUnique
  <2>6. g[l + k] = IF more[l + k] = i THEN t[l + k].qty ELSE 0
    BY <1>7, <2>1
  <2>7. w[k] = Weight(orders[k], {KeyOf(plan[i])})
    BY <1>11
  <2>8. QED
    BY <2>1, <2>2, <2>3, <2>5, <2>6, <2>7 DEF Weight
<1>14. \A k \in 1 .. n : w[k] \in Int /\ g[l + k] = w[k]
  BY <1>3, <1>11, <1>13
<1>15. SumFunctionOnSet(g, B) = SumFunctionOnSet(w, O)
  <2>1. SumFunctionOnSet(g, (l + 1) .. (l + n)) = SumFunctionOnSet(w, 1 .. n)
    BY <1>1, <1>2, <1>14, SumShifted
  <2>2. QED
    BY <1>3, <2>1
<1>16. QED
  BY <1>8, <1>9, <1>12, <1>15

-----------------------------------------------------------------------------
(***************************************************************************)
(* The account a process gives of its run: own names the intent of every   *)
(* result that the store was told of, and ahead are the batches it was not *)
(* told of yet.                                                            *)
(***************************************************************************)
Owns(plan, known, own) ==
    /\ own \in [DOMAIN known -> DOMAIN plan]
    /\ \A k \in DOMAIN known : /\ plan[own[k]].ticker = known[k].ticker
                               /\ plan[own[k]].side = known[k].side

\* What is told of and what is ahead stay within each intent, and make it up
\* while no batch was skipped.
Planful(plan, known, own, ahead, all) ==
    \A i \in DOMAIN plan :
        /\ Share(known, own, i, DOMAIN known) + QueueQty(ahead, {KeyOf(plan[i])})
              <= plan[i].qty
        /\ all => Share(known, own, i, DOMAIN known) + QueueQty(ahead, {KeyOf(plan[i])})
                     = plan[i].qty

\* An order of an intent comes after all orders of earlier intents of its ticker
\* and side.
InOrder(plan, known, own) ==
    \A k \in DOMAIN known, i \in DOMAIN plan :
        i < own[k] /\ plan[i].ticker = known[k].ticker /\ plan[i].side = known[k].side
            => Share(known, own, i, 1 .. k - 1) >= plan[i].qty

Accounts(plan, known, own, ahead, s, all) ==
    /\ Owns(plan, known, own) /\ Stored(s, known, own)
    /\ Planful(plan, known, own, ahead, all) /\ InOrder(plan, known, own)

\* A run that starts: nothing is known and all is ahead.
LEMMA AccountsStart ==
    ASSUME NEW plan, WellFormed(plan), NEW ahead,
           \A i \in DOMAIN plan : QueueQty(ahead, {KeyOf(plan[i])})
                                      = QtyOf(plan, {KeyOf(plan[i])}),
           NEW s, s = [id \in DOMAIN s |-> s[id]], DOMAIN s = {}, NEW all
    PROVE  Accounts(plan, <<>>, <<>>, ahead, s, all)
<1>1. DOMAIN <<>> = {} /\ <<>> \in [DOMAIN <<>> -> DOMAIN plan]
  OBVIOUS
<1>2. Owns(plan, <<>>, <<>>) /\ Stored(s, <<>>, <<>>) /\ InOrder(plan, <<>>, <<>>)
  BY <1>1 DEF Owns, Stored, InOrder
<1>3. \A i : Share(<<>>, <<>>, i, DOMAIN <<>>) = 0
  BY <1>1, SumEmpty DEF Share
<1>4. \A i \in DOMAIN plan : QueueQty(ahead, {KeyOf(plan[i])}) = plan[i].qty /\ plan[i].qty \in Int
  <2>1. \A i \in DOMAIN plan : plan[i].qty \in Int
    BY IntentQty DEF WellFormed
  <2>2. QED
    BY <2>1, KeyQty
<1>5. Planful(plan, <<>>, <<>>, ahead, all)
  BY <1>3, <1>4 DEF Planful
<1>6. QED
  BY <1>2, <1>5 DEF Accounts

\* Statuses do not matter to the account.
LEMMA AccountsRetold ==
    ASSUME NEW plan, NEW known, NEW own, NEW ahead, NEW s, NEW all,
           Accounts(plan, known, own, ahead, s, all), NEW t, Retold(known, t)
    PROVE  Accounts(plan, t, own, ahead, s, all)
<1>1. DOMAIN t = DOMAIN known
  BY DEF Retold
<1>2. \A i, K : Share(t, own, i, K) = Share(known, own, i, K)
  BY ShareRetold
<1>3. Owns(plan, t, own) /\ Stored(s, t, own)
  BY DEF Accounts, Owns, Stored, Retold
<1>4. Planful(plan, t, own, ahead, all)
  BY <1>1, <1>2 DEF Accounts, Planful
<1>5. InOrder(plan, t, own)
  BY <1>1, <1>2 DEF Accounts, InOrder, Retold
<1>6. QED
  BY <1>3, <1>4, <1>5 DEF Accounts

\* Batches that are skipped.
LEMMA AccountsLess ==
    ASSUME NEW plan, WellFormed(plan), NEW known \in Seq(ResultRec), NEW own,
           NEW ahead \in Seq(BatchRec), NEW s, NEW all,
           Accounts(plan, known, own, ahead, s, all)
    PROVE  Accounts(plan, known, own, <<>>, s, FALSE)
<1>1. ASSUME NEW i \in DOMAIN plan
      PROVE  Share(known, own, i, DOMAIN known) + QueueQty(<<>>, {KeyOf(plan[i])}) <= plan[i].qty
  <2>1. Share(known, own, i, DOMAIN known) \in Nat
    BY ResultQty, ShareType
  <2>2. QueueQty(ahead, {KeyOf(plan[i])}) \in Nat
    BY QueueType
  <2>3. QueueQty(<<>>, {KeyOf(plan[i])}) = 0
    BY QueueEmpty
  <2>4. plan[i].qty \in Int
    BY IntentQty DEF WellFormed
  <2>5. Share(known, own, i, DOMAIN known) + QueueQty(ahead, {KeyOf(plan[i])}) <= plan[i].qty
    BY DEF Accounts, Planful
  <2>6. QED
    BY <2>1, <2>2, <2>3, <2>4, <2>5
<1>2. QED
  BY <1>1 DEF Accounts, Planful

-----------------------------------------------------------------------------
(***************************************************************************)
(* One more batch is told to the store.                                    *)
(***************************************************************************)
\* own, extended by the intents that the orders are parts of.
Chosen(o, plan) == CHOOSE i \in DOMAIN plan : KeyOf(plan[i]) = KeyOf(o)
More(own, n, orders, plan, t) ==
    [k \in DOMAIN t |-> IF k <= n THEN own[k] ELSE Chosen(orders[k - n], plan)]

LEMMA MoreExtends ==
    ASSUME NEW s \in Seq(ResultRec), NEW batch \in Seq(ResultRec), NEW t, t = s \o batch,
           NEW orders, Len(batch) = Len(orders), DOMAIN orders = 1 .. Len(orders),
           NEW plan, NEW purpose, FromPlan(orders, plan, purpose),
           NEW own \in [DOMAIN s -> DOMAIN plan]
    PROVE  Extends(own, s, More(own, Len(s), orders, plan, t), t, orders, plan)
<1> DEFINE more == More(own, Len(s), orders, plan, t)
<1>0. DOMAIN t = 1 .. Len(s) + Len(batch)
  BY ConcatIs
<1>1. Len(s) \in Nat /\ DOMAIN s = 1 .. Len(s) /\ Len(batch) \in Nat
  OBVIOUS
<1>2. \A k \in DOMAIN orders : /\ Chosen(orders[k], plan) \in DOMAIN plan
                               /\ KeyOf(plan[Chosen(orders[k], plan)]) = KeyOf(orders[k])
  BY DEF FromPlan, Chosen
<1>3. ASSUME NEW k \in DOMAIN t PROVE more[k] \in DOMAIN plan
  <2>1. CASE k <= Len(s)
    <3>1. k \in DOMAIN s
      BY <1>0, <1>1, <2>1
    <3>2. QED
      BY <2>1, <3>1 DEF More
  <2>2. CASE ~(k <= Len(s))
    <3>1. k - Len(s) \in DOMAIN orders
      BY <1>0, <1>1, <2>2
    <3>2. more[k] = Chosen(orders[k - Len(s)], plan)
      BY <2>2 DEF More
    <3>3. QED
      BY <1>2, <3>1, <3>2
  <2>3. QED
    BY <2>1, <2>2
<1>4. \A k \in 1 .. Len(s) : k \in DOMAIN t /\ more[k] = own[k]
  BY <1>0, <1>1 DEF More
<1>5. ASSUME NEW k \in 1 .. Len(orders)
      PROVE  KeyOf(plan[more[Len(s) + k]]) = KeyOf(orders[k])
  <2>1. /\ Len(s) + k \in DOMAIN t /\ ~(Len(s) + k <= Len(s)) /\ (Len(s) + k) - Len(s) = k
        /\ k \in DOMAIN orders
    BY <1>0, <1>1
  <2>2. more[Len(s) + k] = Chosen(orders[k], plan)
    BY <2>1 DEF More
  <2>3. QED
    BY <1>2, <2>1, <2>2
<1>6. more \in [DOMAIN t -> DOMAIN plan]
  <2>1. more = [k \in DOMAIN t |-> more[k]]
    BY DEF More
  <2> HIDE DEF more
  <2>2. QED
    BY <1>3, <2>1
<1>7. QED
  BY <1>4, <1>5, <1>6 DEF Extends, Agree

\* Nothing of the closes is ahead of a batch of new orders.
NothingOf(plan, purpose, queue) ==
    \A i \in DOMAIN plan : plan[i].purpose # purpose /\ purpose = "new"
        => QueueQty(queue, {KeyOf(plan[i])}) = 0

\* One batch of the queue, its answers, and what the store knew before.
Reported(plan, known, batch, queue, purpose) ==
    /\ known \in Seq(ResultRec) /\ batch \in Seq(ResultRec)
    /\ queue \in Seq(BatchRec) /\ queue # <<>>
    /\ Answers(batch, queue[1].orders) /\ Len(batch) = Len(queue[1].orders)
    /\ FromPlan(queue[1].orders, plan, purpose)
    /\ NothingOf(plan, purpose, queue)
    /\ Distinct(known \o batch)

LEMMA MorePacks ==
    ASSUME NEW plan, WellFormed(plan), NEW known, NEW batch, NEW queue, NEW purpose,
           Reported(plan, known, batch, queue, purpose), NEW own, NEW s,
           Accounts(plan, known, own, queue, s, TRUE),
           NEW t, t = known \o batch, NEW more,
           Extends(own, known, more, t, queue[1].orders, plan)
    PROVE  /\ Owns(plan, t, more) /\ Planful(plan, t, more, Tail(queue), TRUE)
           /\ InOrder(plan, t, more)
<1> DEFINE orders == queue[1].orders
<1>1. /\ known \in Seq(ResultRec) /\ batch \in Seq(ResultRec)
      /\ queue \in Seq(BatchRec) /\ queue # <<>>
      /\ Answers(batch, orders) /\ Len(batch) = Len(orders)
      /\ FromPlan(orders, plan, purpose) /\ NothingOf(plan, purpose, queue)
  BY DEF Reported
<1>2. orders \in Seq(Intent)
  <2>1. queue[1] \in BatchRec
    BY <1>1
  <2>2. QED
    BY <2>1 DEF BatchRec
<1> HIDE DEF orders
<1>3. /\ t \in Seq(ResultRec) /\ DOMAIN t = 1 .. Len(known) + Len(batch)
      /\ \A k \in 1 .. Len(known) : t[k] = known[k]
  <2>1. t \in Seq(ResultRec)
    BY <1>1
  <2>2. known \in Seq(ResultRec) /\ batch \in Seq(ResultRec)
    BY <1>1
  <2>3. DOMAIN t = 1 .. Len(known) + Len(batch)
    BY <2>2, ConcatIs
  <2>4. \A k \in 1 .. Len(known) : t[k] = known[k]
    BY <2>2, ConcatIs
  <2>5. QED
    BY <2>1, <2>3, <2>4
<1>4. \A k \in (Len(known) + 1) .. (Len(known) + Len(batch)) :
          k - Len(known) \in 1 .. Len(batch) /\ t[k] = batch[k - Len(known)]
  BY <1>1, ConcatIs
<1>5. /\ Len(known) \in Nat /\ DOMAIN known = 1 .. Len(known) /\ Len(batch) \in Nat
      /\ DOMAIN batch = 1 .. Len(batch) /\ DOMAIN orders = 1 .. Len(batch)
  BY <1>1, <1>2
<1>6. /\ more \in [DOMAIN t -> DOMAIN plan]
      /\ \A k \in 1 .. Len(known) : more[k] = own[k]
      /\ \A k \in 1 .. Len(orders) : KeyOf(plan[more[Len(known) + k]]) = KeyOf(orders[k])
  BY DEF Extends, Agree, orders
<1>7. Owns(plan, known, own) /\ InOrder(plan, known, own)
      /\ Planful(plan, known, own, queue, TRUE)
  BY DEF Accounts
\* Old results stay where they are, new ones are parts of their own intents.
<1>8. ASSUME NEW k \in DOMAIN t
      PROVE  \/ k \in DOMAIN known /\ t[k] = known[k] /\ more[k] = own[k] /\ k <= Len(known)
             \/ /\ k > Len(known) /\ KeyOf(plan[more[k]]) = KeyOf(orders[k - Len(known)])
                /\ k - Len(known) \in DOMAIN orders
                /\ Matches(t[k], orders[k - Len(known)])
  <2>1. CASE k <= Len(known)
    BY <1>3, <1>5, <1>6, <2>1
  <2>2. CASE k > Len(known)
    <3>1. PICK h \in 1 .. Len(batch) : h = k - Len(known) /\ k = Len(known) + h /\ t[k] = batch[h]
      BY <1>3, <1>4, <1>5, <2>2
    <3>2. KeyOf(plan[more[k]]) = KeyOf(orders[h])
      BY <1>1, <1>6, <3>1
    <3>3. Matches(batch[h], orders[h])
      BY <1>1, <1>5 DEF Answers
    <3>4. QED
      BY <1>5, <2>2, <3>1, <3>2, <3>3
  <2>3. QED
    BY <1>3, <1>5, <2>1, <2>2
<1>9. Owns(plan, t, more)
  <2>1. ASSUME NEW k \in DOMAIN t
        PROVE  plan[more[k]].ticker = t[k].ticker /\ plan[more[k]].side = t[k].side
    BY <1>7, <1>8 DEF Owns, KeyOf, Matches
  <2>2. QED
    BY <1>6, <2>1 DEF Owns
<1>10. Planful(plan, t, more, Tail(queue), TRUE)
  <2>1. ASSUME NEW i \in DOMAIN plan
        PROVE  Share(t, more, i, DOMAIN t) + QueueQty(Tail(queue), {KeyOf(plan[i])})
                   = plan[i].qty /\ plan[i].qty \in Int
    <3>1. Share(t, more, i, DOMAIN t)
              = Share(known, own, i, DOMAIN known) + QtyOf(orders, {KeyOf(plan[i])})
      <4>1. Extends(own, known, more, t, orders, plan)
        BY DEF orders
      <4>2. Tells(known, batch, t, orders, plan, own, more)
        BY <1>1, <1>2, <4>1 DEF Tells
      <4>3. PICK G : G = {KeyOf(plan[i])}
        OBVIOUS
      <4>4. AddsUp(Share(t, more, i, DOMAIN t), Share(known, own, i, DOMAIN known),
                   QtyOf(orders, G))
        BY <4>2, <4>3, ShareMore
      <4>5. QED
        BY <4>3, <4>4 DEF AddsUp
    <3>2. QueueQty(queue, {KeyOf(plan[i])})
              = QtyOf(orders, {KeyOf(plan[i])}) + QueueQty(Tail(queue), {KeyOf(plan[i])})
      BY <1>1, QueueHead DEF orders
    <3>3. Share(known, own, i, DOMAIN known) + QueueQty(queue, {KeyOf(plan[i])}) = plan[i].qty
      BY <1>7 DEF Planful
    <3>4. PICK x, y, z : /\ x = Share(known, own, i, DOMAIN known)
                         /\ y = QtyOf(orders, {KeyOf(plan[i])})
                         /\ z = QueueQty(Tail(queue), {KeyOf(plan[i])})
      OBVIOUS
    <3>5. x \in Int
      <4>1. Share(known, own, i, DOMAIN known) \in Nat
        BY <1>1, ResultQty, ShareType
      <4>2. QED
        BY <3>4, <4>1
    <3>6. y \in Int
      <4>1. QtyOf(orders, {KeyOf(plan[i])}) \in Nat
        BY <1>2, IntentQty, QtyNat
      <4>2. QED
        BY <3>4, <4>1
    <3>7. z \in Int
      <4>1. Tail(queue) \in Seq(BatchRec)
        BY <1>1
      <4>2. QueueQty(Tail(queue), {KeyOf(plan[i])}) \in Nat
        BY <4>1, QueueType
      <4>3. QED
        BY <3>4, <4>2
    <3>8. plan[i].qty \in Int
      BY IntentQty DEF WellFormed
    <3>9. QED
      BY <3>1, <3>2, <3>3, <3>4, <3>5, <3>6, <3>7, <3>8
  <2>2. QED
    BY <2>1 DEF Planful
<1>11. ASSUME NEW k \in DOMAIN t, NEW i \in DOMAIN plan, i < more[k],
              plan[i].ticker = t[k].ticker, plan[i].side = t[k].side
       PROVE  Share(t, more, i, 1 .. k - 1) >= plan[i].qty
  <2>1. CASE k \in DOMAIN known /\ t[k] = known[k] /\ more[k] = own[k] /\ k <= Len(known)
    <3>1. Share(known, own, i, 1 .. k - 1) >= plan[i].qty
      BY <1>7, <1>11, <2>1 DEF InOrder
    <3>2. PICK K \in SUBSET (1 .. Len(known)) : K = 1 .. k - 1
      BY <1>5, <2>1
    <3>3. Prefix(known, t) /\ Agree(own, more, Len(known))
      BY <1>1, PrefixConcat DEF Extends
    <3>4. Share(t, more, i, K) = Share(known, own, i, K)
      BY <1>1, <3>3, SharePrefix
    <3>5. QED
      BY <3>1, <3>2, <3>4
  <2>2. CASE /\ k > Len(known) /\ KeyOf(plan[more[k]]) = KeyOf(orders[k - Len(known)])
             /\ k - Len(known) \in DOMAIN orders
             /\ Matches(t[k], orders[k - Len(known)])
    <3>1. /\ more[k] \in DOMAIN plan /\ plan[more[k]].ticker = plan[i].ticker
          /\ plan[more[k]].purpose = purpose
      BY <1>1, <1>6, <1>11, <2>2 DEF KeyOf, Matches, FromPlan
    <3>2. \A h \in DOMAIN plan : plan[h] \in Intent /\ h \in Nat
      BY DEF WellFormed
    <3>3. plan[i].purpose # purpose
      BY <1>11, <3>1, <3>2 DEF WellFormed
    <3>4. purpose = "new"
      <4>1. plan[i].purpose \in {"close", "new"} /\ purpose \in {"close", "new"}
        BY <3>1, <3>2 DEF Intent
      <4>2. purpose = "close" /\ plan[i].purpose = "new" => more[k] < i
        BY <3>1 DEF WellFormed
      <4>3. QED
        BY <1>11, <3>1, <3>2, <3>3, <4>1, <4>2
    <3>5. QueueQty(queue, {KeyOf(plan[i])}) = 0
      BY <1>1, <3>3, <3>4 DEF NothingOf
    <3>6. Share(known, own, i, DOMAIN known) = plan[i].qty
      <4>1. Share(known, own, i, DOMAIN known) + QueueQty(queue, {KeyOf(plan[i])}) = plan[i].qty
        BY <1>7 DEF Planful
      <4>2. Share(known, own, i, DOMAIN known) \in Nat
        BY <1>1, ResultQty, ShareType
      <4>3. QED
        BY <3>5, <4>1, <4>2
    <3>7. Share(t, more, i, 1 .. Len(known)) = Share(known, own, i, 1 .. Len(known))
      <4>1. Prefix(known, t) /\ Agree(own, more, Len(known))
        BY <1>1, PrefixConcat DEF Extends
      <4>2. QED
        BY <1>1, <4>1, SharePrefix
    <3>8. Share(t, more, i, 1 .. Len(known)) <= Share(t, more, i, 1 .. k - 1)
      <4>1. 1 .. k - 1 \in SUBSET (DOMAIN t)
        BY <1>3, <1>5, <2>2
      <4>2. 1 .. Len(known) \in SUBSET (1 .. k - 1)
        BY <1>3, <1>5, <2>2
      <4>3. \A h \in DOMAIN t : t[h].qty \in Nat
        BY <1>3, ResultQty
      <4>4. QED
        BY <1>3, <4>1, <4>2, <4>3, ShareType
    <3>9. QED
      BY <1>5, <3>6, <3>7, <3>8
  <2>3. QED
    BY <1>8, <2>1, <2>2
<1>12. QED
  BY <1>9, <1>10, <1>11 DEF InOrder

\* The batch is told to the store: each of its identified orders is attributed
\* to the intent it is a part of.
LEMMA AccountsMore ==
    ASSUME NEW plan, WellFormed(plan), NEW known, NEW batch, NEW queue, NEW purpose,
           Reported(plan, known, batch, queue, purpose), NEW own, NEW s,
           Accounts(plan, known, own, queue, s, TRUE),
           NEW t, t = known \o batch, NEW next, next = RecordResultSet(plan, s, t)
    PROVE  \E more : Accounts(plan, t, more, Tail(queue), next, TRUE)
<1> DEFINE orders == queue[1].orders
<1>1. /\ known \in Seq(ResultRec) /\ batch \in Seq(ResultRec)
      /\ queue \in Seq(BatchRec) /\ queue # <<>>
      /\ Len(batch) = Len(orders) /\ FromPlan(orders, plan, purpose)
      /\ Distinct(t)
  BY DEF Reported
<1>2. DOMAIN orders = 1 .. Len(orders)
  <2>1. queue[1] \in BatchRec
    BY <1>1
  <2>2. orders \in Seq(Intent)
    BY <2>1 DEF BatchRec
  <2>3. QED
    BY <2>2
<1>3. Owns(plan, known, own) /\ Stored(s, known, own)
  BY DEF Accounts
<1>4. PICK more : more = More(own, Len(known), orders, plan, t)
  OBVIOUS
<1>5. Extends(own, known, more, t, orders, plan)
  <2> HIDE DEF orders
  <2>1. own \in [DOMAIN known -> DOMAIN plan]
    BY <1>3 DEF Owns
  <2>2. known \in Seq(ResultRec) /\ batch \in Seq(ResultRec)
    BY <1>1
  <2>3. QED
    BY <1>1, <1>2, <1>4, <2>1, <2>2, MoreExtends
<1>6. /\ Owns(plan, t, more) /\ Planful(plan, t, more, Tail(queue), TRUE)
      /\ InOrder(plan, t, more)
  BY <1>5, MorePacks
<1>7. t \in Seq(ResultRec)
  BY <1>1
<1>8. \A k \in DOMAIN t : t[k] \in ResultRec /\ t[k].qty \in Nat \ {0}
  BY <1>7, ResultQty
<1>9. \A k \in DOMAIN known : k \in DOMAIN t /\ t[k] = known[k] /\ more[k] = own[k]
  <2>1. Prefix(known, t) /\ Agree(own, more, Len(known))
    BY <1>1, <1>5, PrefixConcat DEF Extends
  <2>2. DOMAIN known = 1 .. Len(known)
    BY <1>1
  <2>3. QED
    BY <2>1, <2>2 DEF Prefix, Agree
<1>10. Packing(plan, s, t, more)
  <2>1. /\ more \in [DOMAIN t -> DOMAIN plan]
        /\ \A k \in DOMAIN t : /\ plan[more[k]].ticker = t[k].ticker
                               /\ plan[more[k]].side = t[k].side
    BY <1>6 DEF Owns
  <2>2. \A h, k \in DOMAIN t : t[h].id = t[k].id /\ t[h].id # NoId => h = k
    BY <1>1 DEF Distinct
  <2>3. s = [id \in DOMAIN s |-> s[id]]
    BY <1>3 DEF Stored
  <2>4. ASSUME NEW id \in DOMAIN s
        PROVE  \E k \in DOMAIN t : /\ t[k].id = id /\ id # NoId
                                   /\ s[id] = [intent |-> more[k], qty |-> t[k].qty]
    <3>1. PICK k \in DOMAIN known : known[k].id = id /\ id # NoId
      BY <1>3 DEF Stored
    <3>2. s[id] = [intent |-> own[k], qty |-> known[k].qty]
      BY <1>3, <3>1 DEF Stored
    <3>3. QED
      BY <1>9, <3>1, <3>2
  <2>5. ASSUME NEW i \in DOMAIN plan
        PROVE  plan[i].qty \in Int /\ Share(t, more, i, DOMAIN t) <= plan[i].qty
    <3>1. plan[i].qty \in Int
      BY IntentQty DEF WellFormed
    <3>2. Share(t, more, i, DOMAIN t) + QueueQty(Tail(queue), {KeyOf(plan[i])}) <= plan[i].qty
      BY <1>6 DEF Planful
    <3>3. Tail(queue) \in Seq(BatchRec)
      BY <1>1
    <3>4. QueueQty(Tail(queue), {KeyOf(plan[i])}) \in Nat
      BY <3>3, QueueType
    <3>5. Share(t, more, i, DOMAIN t) \in Nat
      BY <1>7, <1>8, ShareType
    <3>6. QED
      BY <3>1, <3>2, <3>4, <3>5
  <2>6. \A k \in DOMAIN t, i \in DOMAIN plan :
            i < more[k] /\ plan[i].ticker = t[k].ticker /\ plan[i].side = t[k].side
                => Share(t, more, i, 1 .. k - 1) >= plan[i].qty
    BY <1>6 DEF InOrder
  <2>7. QED
    BY <2>1, <2>2, <2>3, <2>4, <2>5, <2>6 DEF Packing
<1>11. Stored(next, t, more)
  <2>1. DOMAIN plan \subseteq Nat \ {0}
    BY DEF WellFormed
  <2>2. \A k \in DOMAIN t : t[k].qty \in Nat \ {0}
    BY <1>8
  <2>3. QED
    BY <1>7, <1>10, <2>1, <2>2, RecordingPacks
<1>12. QED
  BY <1>6, <1>11 DEF Accounts

-----------------------------------------------------------------------------
(***************************************************************************)
(* The account of a process.                                               *)
(***************************************************************************)
Known(p) == IF pc[p] = "poll" THEN work[p].results \o work[p].batch ELSE work[p].results
Ahead(p) == IF pc[p] = "poll" THEN Tail(work[p].queue) ELSE work[p].queue

AccountOK(p) ==
    Broker = "tachibana" /\ Started(p) =>
        \E own : Accounts(work[p].plan, Known(p), own, Ahead(p), saved[JobOf[p]],
                          pc[p] # "close")

\* A queue that starts with new orders holds no close any more.
LEMMA NothingLeft ==
    ASSUME WorkTyped, NEW p \in Procs, WorkOK(p), Working(p)
    PROVE  /\ FromPlan(CurrentBatch(p).orders, work[p].plan,
                       PurposeOf(JobOf[p], CurrentBatch(p).kind))
           /\ NothingOf(work[p].plan, PurposeOf(JobOf[p], CurrentBatch(p).kind),
                        work[p].queue)
<1> DEFINE j == JobOf[p]
           plan == work[p].plan
           all == Batches(j, plan)
           queue == work[p].queue
<1>1. /\ Suffix(queue, all) /\ queue # <<>> /\ plan \in Seq(Intent)
      /\ queue \in Seq(BatchRec)
  <2>1. Started(p)
    BY DEF Working, Started
  <2>2. WellFormed(plan) /\ Suffix(queue, all)
    BY <2>1 DEF WorkOK, Planned
  <2>3. queue # <<>>
    BY DEF Working, WorkOK
  <2>4. queue \in Seq(BatchRec)
    <3>1. work[p] \in WorkRec
      BY DEF WorkTyped
    <3>2. QED
      BY <3>1 DEF WorkRec
  <2>5. QED
    BY <2>2, <2>3, <2>4 DEF WellFormed
<1>2. CurrentBatch(p) = queue[1]
  BY <1>1 DEF CurrentBatch
<1>3. /\ all \in Seq(BatchRec)
      /\ \A b, c \in DOMAIN all : b < c => KindOrder(all[b].kind) < KindOrder(all[c].kind)
  BY <1>1, BatchesType
<1> HIDE DEF queue, plan, all, j
<1>4. /\ DOMAIN queue = 1 .. Len(queue) /\ Len(queue) \in Nat \ {0}
      /\ DOMAIN all = 1 .. Len(all) /\ Len(all) \in Nat
  BY <1>1, <1>3
<1>5. PICK n \in Nat : /\ n = Len(all) - Len(queue)
                       /\ \A b \in DOMAIN queue : n + b \in DOMAIN all /\ queue[b] = all[n + b]
  <2>1. PICK n : n = Len(all) - Len(queue)
    OBVIOUS
  <2>2. n \in Nat /\ \A b \in DOMAIN queue : n + b \in DOMAIN all
    <3>1. Len(queue) <= Len(all)
      BY <1>1 DEF Suffix
    <3>2. QED
      BY <1>4, <2>1, <3>1
  <2>3. \A b \in DOMAIN queue : queue[b] = all[n + b]
    BY <1>1, <2>1 DEF Suffix
  <2>4. QED
    BY <2>1, <2>2, <2>3
<1>6. \A b \in DOMAIN queue : FromPlan(queue[b].orders, plan, PurposeOf(j, queue[b].kind))
  <2> TAKE b \in DOMAIN queue
  <2>1. n + b \in DOMAIN all /\ queue[b] = all[n + b]
    BY <1>5
  <2>2. \A c \in DOMAIN all : FromPlan(all[c].orders, plan, PurposeOf(j, all[c].kind))
    BY <1>1, BatchFrom DEF all
  <2>3. QED
    BY <2>1, <2>2
<1>7. ASSUME PurposeOf(j, queue[1].kind) = "new", NEW b \in DOMAIN queue
      PROVE  PurposeOf(j, queue[b].kind) = "new"
  <2>1. j \notin CloseJobs /\ queue[1].kind # "close"
    BY <1>7 DEF PurposeOf
  <2>2. CASE b = 1
    BY <1>7, <2>2
  <2>3. CASE b # 1
    <3>1. 1 \in DOMAIN queue /\ n + 1 < n + b
      BY <1>4, <2>3
    <3>2. KindOrder(queue[1].kind) < KindOrder(queue[b].kind)
      BY <1>3, <1>5, <3>1
    <3>3. queue[b].kind # "close"
      BY <2>1, <3>2 DEF KindOrder
    <3>4. QED
      BY <2>1, <3>3 DEF PurposeOf
  <2>4. QED
    BY <2>2, <2>3
<1>8. ASSUME NEW i \in DOMAIN plan, PurposeOf(j, queue[1].kind) = "new",
             plan[i].purpose # "new"
      PROVE  QueueQty(queue, {KeyOf(plan[i])}) = 0
  <2> DEFINE G == {KeyOf(plan[i])}
             w == QueueWeights(queue, G)
  <2>1. ASSUME NEW b \in DOMAIN queue PROVE QtyOf(queue[b].orders, G) = 0
    <3> DEFINE orders == queue[b].orders
               v == Weighted(orders, G)
    <3>1. FromPlan(orders, plan, "new")
      BY <1>6, <1>7, <1>8
    <3>2. \A k \in DOMAIN orders : KeyOf(orders[k]) # KeyOf(plan[i])
      BY <1>8, <3>1 DEF FromPlan, KeyOf
    <3>3. orders \in Seq(Intent)
      <4>1. queue[b] \in BatchRec
        BY <1>1
      <4>2. QED
        BY <4>1 DEF BatchRec
    <3>4. IsFiniteSet(DOMAIN orders) /\ DOMAIN v = DOMAIN orders
      <4>1. \A k \in DOMAIN orders : orders[k].qty \in Nat
        BY <3>3, IntentQty
      <4> HIDE DEF orders, v, G
      <4>2. QED
        BY <3>3, <4>1, WeightsType DEF v
    <3>5. \A k \in DOMAIN orders : v[k] = 0
      BY <3>2 DEF Weighted, Weight
    <3> HIDE DEF orders, v, G
    <3>6. SumFunctionOnSet(v, DOMAIN orders) = 0
      BY <3>4, <3>5, SumZero
    <3>7. QED
      BY <3>4, <3>6 DEF QtyOf, SumFunction, orders, v
  <2>2. IsFiniteSet(DOMAIN queue)
    BY <1>4, FS_Interval
  <2>3. DOMAIN w = DOMAIN queue /\ \A b \in DOMAIN queue : w[b] = 0
    BY <2>1 DEF QueueWeights
  <2> HIDE DEF w, G
  <2>4. SumFunctionOnSet(w, DOMAIN queue) = 0
    BY <2>2, <2>3, SumZero
  <2>5. QED
    BY <2>3, <2>4 DEF QueueQty, SumFunction, w, G
<1>9. FromPlan(queue[1].orders, plan, PurposeOf(j, queue[1].kind))
  BY <1>4, <1>6
<1>10. NothingOf(plan, PurposeOf(j, queue[1].kind), queue)
  BY <1>8 DEF NothingOf
<1>11. QED
  BY <1>2, <1>9, <1>10 DEF plan, queue, j

LEMMA AccountSame ==
    ASSUME NEW p \in Procs, AccountOK(p), Started(p),
           work'[p].plan = work[p].plan, Known(p)' = Known(p), Ahead(p)' = Ahead(p),
           saved'[JobOf[p]] = saved[JobOf[p]], pc'[p] = "close" <=> pc[p] = "close"
    PROVE  AccountOK(p)'
<1>1. (pc'[p] # "close") = (pc[p] # "close")
  OBVIOUS
<1>2. ASSUME Broker = "tachibana"
      PROVE  \E own : Accounts(work'[p].plan, Known(p)', own, Ahead(p)', saved'[JobOf[p]],
                               pc'[p] # "close")
  <2>1. PICK own : Accounts(work[p].plan, Known(p), own, Ahead(p), saved[JobOf[p]],
                            pc[p] # "close")
    BY <1>2 DEF AccountOK
  <2>2. QED
    BY <1>1, <2>1
<1>3. QED
  BY <1>2 DEF AccountOK

\* The variables of a process that may call the broker.
LEMMA StartedWork ==
    ASSUME TypesInv, NEW p \in Procs, Started(p)
    PROVE  /\ work[p].plan \in Seq(Intent) /\ WellFormed(work[p].plan)
           /\ run[JobOf[p]].intents = work[p].plan
           /\ work[p].queue \in Seq(BatchRec) /\ work[p].batch \in Seq(ResultRec)
           /\ work[p].results \in Seq(ResultRec) /\ JobOf[p] \in Jobs
           /\ saved = [j \in Jobs |-> saved[j]]
           /\ run[JobOf[p]].status \in Store!Submitted
<1>1. work[p] \in WorkRec
  BY DEF TypesInv, WorkTyped
<1>2. /\ work[p].queue \in Seq(BatchRec) /\ work[p].batch \in Seq(ResultRec)
      /\ work[p].results \in Seq(ResultRec)
  BY <1>1 DEF WorkRec
<1>3. WellFormed(work[p].plan)
  BY DEF TypesInv, WorkOK, Planned
<1>4. run[JobOf[p]].intents = work[p].plan
  BY DEF TypesInv, PlanSaved
<1>5. run[JobOf[p]].status \in Store!Submitted
  BY DEF TypesInv, IInv, StartedInv
<1>6. JobOf[p] \in Jobs
  BY ExecutionAssumption
<1>7. saved = [j \in Jobs |-> saved[j]]
  BY DEF TypesInv, SavedOK
<1>8. QED
  BY <1>2, <1>3, <1>4, <1>5, <1>6, <1>7 DEF WellFormed

\* What is known of a process is in the store: to record it again changes nothing.
LEMMA KnownStored ==
    ASSUME TypesInv, NEW p \in Procs, Broker = "tachibana", AccountOK(p), RecordAll(p)
    PROVE  saved' = saved
<1>1. pc[p] = "close" /\ Started(p)
  BY DEF RecordAll, AtStep, Started
<1> DEFINE j == JobOf[p]
           plan == work[p].plan
           known == work[p].results
<1>2. PICK own : Accounts(plan, known, own, Ahead(p), saved[j], pc[p] # "close")
  BY <1>1 DEF AccountOK, Known
<1>3. /\ WellFormed(plan) /\ run[j].intents = plan /\ known \in Seq(ResultRec)
      /\ j \in Jobs /\ saved = [k \in Jobs |-> saved[k]]
  BY <1>1, StartedWork
<1>4. saved' = [saved EXCEPT ![j] = RecordResultSet(plan, saved[j], known)]
  BY <1>3 DEF RecordAll, RecordResults
<1> HIDE DEF plan, known, j
<1>5. RecordResultSet(plan, saved[j], known) = saved[j]
  <2>1. PICK s : s = saved[j]
    OBVIOUS
  <2>2. s = [id \in DOMAIN s |-> s[id]]
    BY <1>2, <2>1 DEF Accounts, Stored
  <2>3. \A k \in DOMAIN known : known[k].id = NoId \/ known[k].id \in DOMAIN s
    BY <1>2, <2>1 DEF Accounts, Stored
  <2>4. DOMAIN plan \subseteq Nat \ {0}
    BY <1>3 DEF WellFormed
  <2>5. RecordResultSet(plan, s, known) = s
    BY <1>3, <2>2, <2>3, <2>4, RecordingKnown
  <2>6. QED
    BY <2>1, <2>5
<1>6. QED
  BY <1>3, <1>4, <1>5

\* Only the report of a batch tells the store something new.
LEMMA SavedMoves ==
    ASSUME TypesInv, [Next]_vars, Broker = "tachibana", \A q \in Procs : AccountOK(q)
    PROVE  \/ saved' = saved
           \/ \E q \in Procs : Persist(q) /\ \A j \in Jobs \ {JobOf[q]} : saved'[j] = saved[j]
<1>1. CASE \E q \in Procs : RecordAll(q)
  BY <1>1, KnownStored
<1>2. CASE RecoverRecord
  <2>1. saved' = saved
    BY <1>2, SavedByRecovery DEF TypesInv
  <2>2. QED
    BY <2>1
<1>3. CASE \E q \in Procs : Persist(q)
  <2>1. PICK q \in Procs : Persist(q)
    BY <1>3
  <2>2. saved = [k \in Jobs |-> saved[k]]
    BY DEF TypesInv, SavedOK
  <2>3. \A j \in Jobs \ {JobOf[q]} : saved'[j] = saved[j]
    BY <2>1, <2>2 DEF Persist, RecordResults
  <2>4. QED
    BY <2>1, <2>3
<1>4. CASE /\ \A q \in Procs : ~RecordAll(q) /\ ~Persist(q)
           /\ ~RecoverRecord
  <2>1. saved' = saved
    BY <1>4, ZenonT(60) DEF Next, vars, ProcStep, RecoveryStep, Begin, ReadPositions, EnterLease, Prepare,
                RecordPlan, StartSubmission, GiveUp, Send, BatchReturns, PollEnds,
                MarkIncomplete, Report, FetchFills, VerifyPositions, RecordCheckpoint, Settle,
                Finish, RecoverBegin, RecoverOrders, RecoverWith, RecoverPositions, RecoverCheckpoint,
                RecoverSettle, RecoverEnd, Crash, RecoverCrash, LeaseExpires, LeaseLapses,
                Market, Fill, Expire
  <2>2. QED
    BY <2>1
<1>5. QED
  BY <1>1, <1>2, <1>3, <1>4

-----------------------------------------------------------------------------
(***************************************************************************)
(* The steps of a process, one by one.                                     *)
(***************************************************************************)
LEMMA AccountStart ==
    ASSUME TypesInv, NEW p \in Procs, StartMove(p)
    PROVE  AccountOK(p)'
<1> DEFINE j == JobOf[p]
           plan == work[p].plan
           s == saved[j]
<1>1. /\ pc[p] = "start" /\ run[j].status \notin Store!Submitted
      /\ work'[p].results = <<>> /\ work'[p].queue = Batches(j, plan)
      /\ pc'[p] # "poll" /\ saved' = saved
  <2>1. pc[p] = "start"
    BY DEF StartMove, StartSubmission
  <2>2. run[j].status \notin Store!Submitted
    BY StartFrom DEF TypesInv, IInv, StartMove
  <2>3. QED
    BY <2>1, <2>2 DEF StartMove
<1>2. WellFormed(plan) /\ (j \in CloseJobs => OnlyCloses(plan)) /\ plan \in Seq(Intent)
  BY <1>1 DEF TypesInv, WorkOK, Planned, IsClose, WellFormed
<1>3. work'[p].plan = plan
  BY StartWork DEF TypesInv, IInv, StartMove, SamePlan
<1>4. s = [id \in DOMAIN s |-> s[id]] /\ DOMAIN s = {}
  <2>1. j \in Jobs
    BY ExecutionAssumption
  <2>2. SavedIn(book, run[j].intents, s, j)
    BY <2>1 DEF TypesInv, SavedOK
  <2>3. BookJobs
    BY DEF TypesInv
  <2>4. \A id \in DOMAIN s : id \in DOMAIN book /\ book[id].job = j
    BY <2>2 DEF SavedIn
  <2>5. DOMAIN s = {}
    BY <1>1, <2>3, <2>4 DEF BookJobs
  <2>6. QED
    BY <2>2, <2>5 DEF SavedIn
<1>5. \A i \in DOMAIN plan : QueueQty(Batches(j, plan), {KeyOf(plan[i])})
                                 = QtyOf(plan, {KeyOf(plan[i])})
  BY <1>2, BatchesQty
<1>6. Accounts(plan, <<>>, <<>>, Batches(j, plan), s, pc'[p] # "close")
  <2> HIDE DEF plan, s, j
  <2>1. QED
    BY <1>2, <1>4, <1>5, AccountsStart
<1>7. Known(p)' = <<>> /\ Ahead(p)' = Batches(j, plan)
  BY <1>1 DEF Known, Ahead
<1>8. QED
  BY <1>1, <1>3, <1>6, <1>7 DEF AccountOK

LEMMA AccountSend ==
    ASSUME TypesInv, NEW p \in Procs, AccountOK(p), NEW n, NEW r, SendMoves(p, n, r)
    PROVE  AccountOK(p)'
<1>1. /\ pc[p] = "send" /\ pc'[p] = "send" /\ Started(p) /\ work'[p].plan = work[p].plan
      /\ work'[p].queue = work[p].queue /\ work'[p].results = work[p].results
      /\ saved' = saved
  BY DEF SendMoves, SamePlan
<1>2. Known(p)' = Known(p) /\ Ahead(p)' = Ahead(p)
  BY <1>1 DEF Known, Ahead
<1>3. QED
  BY <1>1, <1>2, AccountSame

LEMMA AccountReturns ==
    ASSUME TypesInv, NEW p \in Procs, AccountOK(p), BatchReturns(p)
    PROVE  AccountOK(p)'
<1>1. /\ pc'[p] = "persist" /\ work'[p].plan = work[p].plan
      /\ work'[p].queue = work[p].queue /\ work'[p].results = work[p].results
  BY ReturnsStep DEF TypesInv, IInv, SamePlan
<1>2. pc[p] = "send" /\ saved' = saved /\ Started(p)
  BY DEF BatchReturns, Started
<1>3. Known(p)' = Known(p) /\ Ahead(p)' = Ahead(p)
  BY <1>1, <1>2 DEF Known, Ahead
<1>4. QED
  BY <1>1, <1>2, <1>3, AccountSame

LEMMA AccountClose ==
    ASSUME TypesInv, NEW p \in Procs, AccountOK(p), CloseMove(p), saved' = saved
    PROVE  AccountOK(p)'
<1>1. /\ pc[p] = "close" /\ pc'[p] = "close" /\ Started(p) /\ work'[p].plan = work[p].plan
      /\ work'[p].queue = work[p].queue /\ work'[p].results = work[p].results
  BY DEF CloseMove, ClosingMoves, SamePlan, SameOrders, Started
<1>2. Known(p)' = Known(p) /\ Ahead(p)' = Ahead(p)
  BY <1>1 DEF Known, Ahead
<1>3. QED
  BY <1>1, <1>2, AccountSame

LEMMA AccountPersist ==
    ASSUME TypesInv, NEW p \in Procs, IdsOK(p), AccountOK(p), Persist(p)
    PROVE  AccountOK(p)'
<1> DEFINE j == JobOf[p]
           plan == work[p].plan
           known == work[p].results
           batch == work[p].batch
           queue == work[p].queue
           purpose == PurposeOf(j, CurrentBatch(p).kind)
<1>1. /\ pc[p] = "persist" /\ Started(p) /\ Working(p) /\ work' = work
  BY DEF Persist, Started, Working
<1>2. pc'[p] = "poll"
  BY GotoStep DEF TypesInv, IInv, Persist
<1>3. /\ WellFormed(plan) /\ run[j].intents = plan /\ known \in Seq(ResultRec)
      /\ batch \in Seq(ResultRec) /\ queue \in Seq(BatchRec)
      /\ j \in Jobs /\ saved = [k \in Jobs |-> saved[k]]
  BY <1>1, StartedWork
<1>4. queue # <<>> /\ CurrentBatch(p) = queue[1]
  BY <1>1, <1>3 DEF TypesInv, WorkOK, Working, CurrentBatch
<1>5. saved'[j] = RecordResultSet(plan, saved[j], known \o batch)
  BY <1>3 DEF Persist, RecordResults
<1>6. ASSUME Broker = "tachibana"
      PROVE  \E more : Accounts(plan, known \o batch, more, Tail(queue), saved'[j], TRUE)
  <2>1. Answers(batch, queue[1].orders) /\ Len(batch) = Len(queue[1].orders)
    BY <1>1, <1>4, <1>6 DEF TypesInv, WorkOK
  <2>2. FromPlan(queue[1].orders, plan, purpose) /\ NothingOf(plan, purpose, queue)
    BY <1>1, <1>4, NothingLeft DEF TypesInv
  <2>3. Distinct(known \o batch)
    <3>1. Distinct(known) /\ Distinct(batch) /\ Apart(known, batch)
      BY <1>1, <1>6 DEF IdsOK
    <3> HIDE DEF known, batch
    <3>2. QED
      BY <1>3, <3>1, DistinctConcat
  <2>4. PICK own : Accounts(plan, known, own, queue, saved[j], TRUE)
    <3>1. /\ Known(p) = known /\ Ahead(p) = queue /\ (pc[p] # "close") = TRUE
      BY <1>1 DEF Known, Ahead
    <3>2. PICK own : Accounts(plan, Known(p), own, Ahead(p), saved[j], pc[p] # "close")
      BY <1>1, <1>6 DEF AccountOK
    <3>3. QED
      BY <3>1, <3>2
  <2> HIDE DEF known, batch, queue, plan, purpose, j
  <2>5. Reported(plan, known, batch, queue, purpose)
    BY <1>3, <1>4, <2>1, <2>2, <2>3 DEF Reported
  <2>6. QED
    BY <1>3, <1>5, <2>4, <2>5, AccountsMore
<1>7. /\ Known(p)' = known \o batch /\ Ahead(p)' = Tail(queue)
      /\ (pc'[p] # "close") = TRUE /\ work'[p].plan = plan
  BY <1>1, <1>2 DEF Known, Ahead
<1>8. QED
  BY <1>6, <1>7 DEF AccountOK

LEMMA AccountPoll ==
    ASSUME TypesInv, NEW p \in Procs, AccountOK(p), PollEnds(p)
    PROVE  AccountOK(p)'
<1> DEFINE plan == work[p].plan
           known == work[p].results
           batch == work[p].batch
           queue == work[p].queue
           s == saved[JobOf[p]]
<1>1. pc[p] = "poll" /\ Started(p) /\ saved' = saved
  BY DEF PollEnds, Started
<1>2. /\ WellFormed(plan) /\ known \in Seq(ResultRec) /\ batch \in Seq(ResultRec)
      /\ queue \in Seq(BatchRec)
  BY <1>1, StartedWork
<1>3. queue # <<>>
  BY <1>1 DEF TypesInv, WorkOK
<1>4. /\ work'[p].plan = plan
      /\ pc'[p] = IF work'[p].queue = <<>> THEN "close" ELSE "send"
  BY <1>3, PollStep DEF TypesInv, IInv, SamePlan
<1>5. PICK told : /\ BatchPolled(batch, told)
                  /\ work'[p].results = known \o told
                  /\ work'[p].queue = IF GateOpen(p, batch, told) THEN Tail(queue) ELSE <<>>
  BY <1>3, PollStep DEF TypesInv, IInv
<1>6. /\ told \in Seq(ResultRec) /\ Retold(known \o batch, known \o told)
  <2>1. /\ told \in Seq(ResultRec) /\ Len(told) = Len(batch)
        /\ \A i \in DOMAIN batch : /\ told[i].id = batch[i].id /\ told[i].ticker = batch[i].ticker
                                   /\ told[i].side = batch[i].side /\ told[i].qty = batch[i].qty
    BY <1>5 DEF BatchPolled
  <2> HIDE DEF known, batch
  <2>2. PICK a, b : a = known \o batch /\ b = known \o told
    OBVIOUS
  <2>3. DOMAIN a = 1 .. Len(known) + Len(batch)
    BY <1>2, <2>2, ConcatIs
  <2>4. DOMAIN b = 1 .. Len(known) + Len(told)
    <3>1. known \in Seq(ResultRec) /\ told \in Seq(ResultRec)
      BY <1>2, <2>1
    <3>2. QED
      BY <2>2, <3>1, ConcatIs
  <2>5. \A k \in 1 .. Len(known) : a[k] = known[k]
    BY <1>2, <2>2, ConcatIs
  <2>6. \A k \in 1 .. Len(known) : b[k] = known[k]
    BY <1>2, <2>1, <2>2, ConcatIs
  <2>7. \A k \in (Len(known) + 1) .. (Len(known) + Len(batch)) :
            k - Len(known) \in 1 .. Len(batch) /\ a[k] = batch[k - Len(known)]
    BY <1>2, <2>2, ConcatIs
  <2>8. \A k \in (Len(known) + 1) .. (Len(known) + Len(told)) :
            k - Len(known) \in 1 .. Len(told) /\ b[k] = told[k - Len(known)]
    BY <1>2, <2>1, <2>2, ConcatIs
  <2>9. ASSUME NEW k \in DOMAIN a
        PROVE  /\ b[k].id = a[k].id /\ b[k].ticker = a[k].ticker
               /\ b[k].side = a[k].side /\ b[k].qty = a[k].qty
    <3>1. Len(known) \in Nat /\ Len(batch) \in Nat /\ DOMAIN batch = 1 .. Len(batch)
      BY <1>2
    <3>2. CASE k \in 1 .. Len(known)
      BY <2>5, <2>6, <3>2
    <3>3. CASE k \in (Len(known) + 1) .. (Len(known) + Len(batch))
      <4>1. Len(told) = Len(batch)
        BY <2>1
      <4>2. PICK j \in 1 .. Len(batch) : j = k - Len(known) /\ a[k] = batch[j]
        BY <2>7, <3>3
      <4>3. b[k] = told[j]
        BY <2>8, <3>3, <4>1, <4>2
      <4>4. j \in DOMAIN batch
        BY <3>1, <4>2
      <4>5. QED
        BY <2>1, <4>2, <4>3, <4>4
    <3>4. QED
      BY <2>3, <3>1, <3>2, <3>3
  <2>10. QED
    BY <2>1, <2>2, <2>3, <2>4, <2>9 DEF Retold
<1>7. ASSUME Broker = "tachibana"
      PROVE  \E own : Accounts(plan, known \o told, own, work'[p].queue, s, pc'[p] # "close")
  <2>1. PICK own : Accounts(plan, known \o batch, own, Tail(queue), s, TRUE)
    <3>1. /\ Known(p) = known \o batch /\ Ahead(p) = Tail(queue) /\ (pc[p] # "close") = TRUE
      BY <1>1 DEF Known, Ahead
    <3>2. PICK own : Accounts(plan, Known(p), own, Ahead(p), s, pc[p] # "close")
      BY <1>1, <1>7 DEF AccountOK
    <3>3. QED
      BY <3>1, <3>2
  <2> HIDE DEF known, batch, queue, plan, s
  <2>2. PICK a, b : a = known \o batch /\ b = known \o told
    OBVIOUS
  <2>3. Accounts(plan, b, own, Tail(queue), s, TRUE)
    BY <1>6, <2>1, <2>2, AccountsRetold
  <2>4. b \in Seq(ResultRec) /\ Tail(queue) \in Seq(BatchRec)
    BY <1>2, <1>3, <1>6, <2>2
  <2>5. Accounts(plan, b, own, <<>>, s, FALSE)
    BY <1>2, <2>3, <2>4, AccountsLess
  <2>6. CASE work'[p].queue = <<>>
    <3>1. (pc'[p] # "close") = FALSE
      BY <1>4, <2>6
    <3>2. QED
      BY <2>2, <2>5, <2>6, <3>1
  <2>7. CASE work'[p].queue # <<>>
    <3>1. work'[p].queue = Tail(queue)
      BY <1>5, <2>7
    <3>2. (pc'[p] # "close") = TRUE
      BY <1>4, <2>7
    <3>3. QED
      BY <2>2, <2>3, <3>1, <3>2
  <2>8. QED
    BY <2>6, <2>7
<1>8. /\ Known(p)' = known \o told /\ Ahead(p)' = work'[p].queue
  <2>1. pc'[p] # "poll"
    BY <1>4
  <2>2. QED
    BY <1>5, <2>1 DEF Known, Ahead
<1>9. QED
  BY <1>1, <1>4, <1>7, <1>8 DEF AccountOK

LEMMA AccountStep ==
    ASSUME TypesInv, [Next]_vars, \A q \in Procs : IdsOK(q) /\ AccountOK(q), NEW p \in Procs
    PROVE  AccountOK(p)'
<1> SUFFICES ASSUME Broker = "tachibana", Started(p)' PROVE AccountOK(p)'
  BY DEF AccountOK
<1>1. \/ saved' = saved
      \/ \E q \in Procs : Persist(q) /\ \A j \in Jobs \ {JobOf[q]} : saved'[j] = saved[j]
  BY SavedMoves
<1>2. CASE pc'[p] = pc[p] /\ work'[p] = work[p]
  <2>1. Started(p)
    BY <1>2 DEF Started
  <2>2. saved'[JobOf[p]] = saved[JobOf[p]]
    <3>1. CASE saved' = saved
      BY <3>1
    <3>2. CASE \E q \in Procs : Persist(q) /\ \A j \in Jobs \ {JobOf[q]} : saved'[j] = saved[j]
      <4>1. PICK q \in Procs : Persist(q) /\ \A j \in Jobs \ {JobOf[q]} : saved'[j] = saved[j]
        BY <3>2
      <4>2. pc[q] = "persist" /\ Started(q)
        BY <4>1 DEF Persist, Started
      <4>3. pc'[q] = "poll"
        BY <4>1, GotoStep DEF TypesInv, IInv, Persist
      <4>4. JobOf[q] # JobOf[p]
        BY <1>2, <2>1, <4>2, <4>3 DEF TypesInv, IInv, StartedInv
      <4>5. QED
        BY <4>1, <4>4, ExecutionAssumption
    <3>3. QED
      BY <1>1, <3>1, <3>2
  <2>3. Known(p)' = Known(p) /\ Ahead(p)' = Ahead(p)
    BY <1>2 DEF Known, Ahead
  <2>4. QED
    BY <1>2, <2>1, <2>2, <2>3, AccountSame
<1>3. CASE ProcStep(p)
  <2>1. CASE StartMove(p)
    BY <2>1, AccountStart
  <2>2. CASE \E n, r : SendMoves(p, n, r)
    BY <2>2, AccountSend
  <2>3. CASE BatchReturns(p)
    BY <2>3, AccountReturns
  <2>4. CASE Persist(p)
    BY <2>4, AccountPersist
  <2>5. CASE PollEnds(p)
    BY <2>5, AccountPoll
  <2>6. CASE CloseMove(p)
    <3>1. saved' = saved
      <4>1. CASE RecordAll(p)
        BY <4>1, KnownStored
      <4>2. CASE ~RecordAll(p)
        BY <2>6, <4>2 DEF CloseMove, ClosingStep, MarkIncomplete, Report, FetchFills,
                          VerifyPositions, RecordCheckpoint, Settle
      <4>3. QED
        BY <4>1, <4>2
    <3>2. QED
      BY <2>6, <3>1, AccountClose
  <2>7. QED
    BY <1>3, <2>1, <2>2, <2>3, <2>4, <2>5, <2>6, StartedMoves
<1>4. QED
  BY <1>2, <1>3, ProcessMoves

AccountsOK == \A p \in Procs : IdsOK(p) /\ AccountOK(p)

\* The store always has the orders that its processes have reported, each under
\* the intent that it is a part of.
LEMMA AccountsInvariant == Spec => [](TypesInv /\ AccountsOK)
<1>1. Init => AccountsOK
  <2> SUFFICES ASSUME Init, NEW p \in Procs PROVE IdsOK(p) /\ AccountOK(p)
    BY DEF AccountsOK
  <2>1. pc[p] = "idle" /\ work[p] = NoWork
    BY DEF Init
  <2>2. work[p].results = <<>> /\ work[p].batch = <<>>
    BY <2>1 DEF NoWork
  <2>3. IdsOK(p)
    BY <2>1, <2>2, NoResults DEF IdsOK, Working
  <2>4. AccountOK(p)
    BY <2>1 DEF AccountOK, Started
  <2>5. QED
    BY <2>3, <2>4
<1>2. TypesInv /\ TypesInv' /\ AccountsOK /\ [Next]_vars => AccountsOK'
  <2> SUFFICES ASSUME TypesInv, TypesInv', AccountsOK, [Next]_vars, NEW p \in Procs
               PROVE  IdsOK(p)' /\ AccountOK(p)'
    BY DEF AccountsOK
  <2>1. IdsOK(p)'
    BY IdsStep DEF AccountsOK
  <2>2. AccountOK(p)'
    BY AccountStep DEF AccountsOK
  <2>3. QED
    BY <2>1, <2>2
<1>3. QED
  BY <1>1, <1>2, TypesInvariant, PTL DEF Spec

-----------------------------------------------------------------------------
(***************************************************************************)
(* A run is completed when nothing is left of it: all of its plan reached  *)
(* the broker, every order is attributed, and none can still fill.         *)
(***************************************************************************)

(***************************************************************************)
(* The whole plan, and all orders of a job.                                *)
(***************************************************************************)
All == Group(Pairs)

OrdersIn(b, j) == {id \in DOMAIN b : b[id].job = j}

\* What the orders of the job ask for: each counts.
LEMMA OrdersCount ==
    ASSUME NEW b \in Seq(BookOrder), NEW j
    PROVE  \A id \in DOMAIN b :
              /\ id \in OrdersIn(b, j) <=> SentWeights(b, j, Pairs)[id] > 0
              /\ b[id].job = j => SentWeights(b, j, Pairs)[id] = b[id].qty
<1> TAKE id \in DOMAIN b
<1>1. b[id] \in BookOrder
  OBVIOUS
<1>2. b[id].ticker \in TickerSet /\ b[id].side \in Sides /\ b[id].qty \in Nat \ {0}
  BY <1>1 DEF BookOrder, Sides
<1>3. <<b[id].ticker, b[id].side>> \in Pairs
  BY <1>2 DEF Pairs
<1>4. SentWeights(b, j, Pairs)[id] = IF b[id].job = j THEN b[id].qty ELSE 0
  BY <1>3 DEF SentWeights, SentWeight
<1> QED
  BY <1>2, <1>4 DEF OrdersIn

\* The total of a plan is what it asks for of all tickers and sides.
LEMMA TotalIs ==
    ASSUME NEW plan, WellFormed(plan)
    PROVE  /\ TotalQty(plan) = QtyOf(plan, All)
           /\ Weighted(plan, All) = [i \in DOMAIN plan |-> plan[i].qty]
           /\ QtyOf(plan, All) = SumFunctionOnSet(Weighted(plan, All), DOMAIN plan)
           /\ QtyOf(plan, All) \in Nat
           /\ IsFiniteSet(DOMAIN plan)
           /\ \A i \in DOMAIN plan : plan[i].qty \in Nat \ {0}
<1>1. plan \in Seq(Intent) /\ \A i \in DOMAIN plan : plan[i] \in Intent
  BY DEF WellFormed
<1>2. \A i \in DOMAIN plan : /\ plan[i].qty \in Nat \ {0}
                             /\ plan[i].ticker \in TickerSet /\ plan[i].side \in Sides
  BY <1>1 DEF Intent, Sides
<1>3. \A i \in DOMAIN plan : KeyOf(plan[i]) \in All
  <2> TAKE i \in DOMAIN plan
  <2>1. <<plan[i].ticker, plan[i].side>> \in Pairs
    BY <1>2 DEF Pairs
  <2> QED
    BY <2>1, <1>1, GroupKey DEF All
<1>4. Weighted(plan, All) = [i \in DOMAIN plan |-> plan[i].qty]
  BY <1>3 DEF Weighted, Weight
<1>5. QtyOf(plan, All) \in Nat
  BY PlanQty
<1>6. IsFiniteSet(DOMAIN plan)
  BY <1>1, <1>2, WeightsType
<1>7. QtyOf(plan, All) = SumFunctionOnSet(Weighted(plan, All), DOMAIN plan)
  BY DEF QtyOf, SumFunction, Weighted
<1>8. TotalQty(plan) = QtyOf(plan, All)
  BY <1>4 DEF TotalQty, QtyOf
<1> QED
  BY <1>2, <1>4, <1>5, <1>6, <1>7, <1>8

\* What is attributed, intent by intent and order by order.
LEMMA AttributedTotal ==
    ASSUME BookOK, NEW j, NEW plan, WellFormed(plan), NEW s, SavedIn(book, plan, s, j),
           NEW f, f = [i \in DOMAIN plan |-> QuantityOf(s, i)],
           NEW w, w = SentWeights(book, j, Pairs)
    PROVE  /\ DOMAIN s \subseteq OrdersIn(book, j) /\ IsFiniteSet(DOMAIN s)
           /\ SumFunctionOnSet(f, DOMAIN plan) = SumFunctionOnSet(w, DOMAIN s)
           /\ \A i \in DOMAIN plan : QuantityOf(s, i) \in Nat
<1> DEFINE c == [id \in DOMAIN s |-> s[id].intent]
           q == [id \in DOMAIN s |-> s[id].qty]
<1>1. DOMAIN s \subseteq OrdersIn(book, j)
  BY DEF SavedIn, OrdersIn
<1>2. book \in Seq(BookOrder)
  BY DEF BookOK
<1>3. IsFiniteSet(DOMAIN book)
  BY <1>2, SentType
<1>4. IsFiniteSet(DOMAIN s)
  BY <1>1, <1>3, FS_Subset DEF OrdersIn
<1>5. \A id \in DOMAIN s : /\ c[id] \in DOMAIN plan /\ q[id] = book[id].qty
                           /\ q[id] = w[id] /\ q[id] \in Nat
  <2> TAKE id \in DOMAIN s
  <2>1. /\ id \in DOMAIN book /\ book[id].job = j /\ s[id].intent \in DOMAIN plan
        /\ s[id].qty = book[id].qty
    BY DEF SavedIn
  <2>2. book[id] \in BookOrder
    BY <2>1, <1>2
  <2>3. book[id].qty \in Nat
    BY <2>2 DEF BookOrder
  <2>4. w[id] = book[id].qty
    BY <2>1, <1>2, OrdersCount
  <2> QED
    BY <2>1, <2>3, <2>4
<1>6. \A i : QuantityOf(s, i) = SumFunctionOnSet(ClassOf(DOMAIN s, c, q, i), DOMAIN s)
  <2> TAKE i
  <2>1. ClassOf(DOMAIN s, c, q, i)
            = [id \in DOMAIN s |-> IF s[id].intent = i THEN s[id].qty ELSE 0]
    BY DEF ClassOf
  <2> QED
    BY <2>1 DEF QuantityOf, SumFunction
<1>7. f = ByClass(DOMAIN s, DOMAIN plan, c, q, DOMAIN s)
  BY <1>6 DEF ByClass
<1>8. IsFiniteSet(DOMAIN plan)
  BY TotalIs
<1> HIDE DEF c, q
<1>9. SumFunctionOnSet(f, DOMAIN plan) = SumFunctionOnSet(q, DOMAIN s)
  BY <1>4, <1>5, <1>7, <1>8, SumByClass
<1>10. SumFunctionOnSet(q, DOMAIN s) = SumFunctionOnSet(w, DOMAIN s)
  BY <1>4, <1>5, SumSame
<1>11. \A i \in DOMAIN plan : QuantityOf(s, i) \in Nat
  <2> TAKE i \in DOMAIN plan
  <2>1. \A id \in DOMAIN s : ClassOf(DOMAIN s, c, q, i)[id] \in Nat
    BY <1>5 DEF ClassOf
  <2> QED
    BY <2>1, <1>4, <1>6, SumNat
<1> QED
  BY <1>1, <1>4, <1>9, <1>10, <1>11

-----------------------------------------------------------------------------
(***************************************************************************)
(* Settled: nothing to send, nothing unknown, nothing that may still fill. *)
(***************************************************************************)
Spent(b, j, plan) == Copies * QtyOf(plan, All) <= SentIn(b, j, Pairs)

SettledIn(b, plan, s, j) ==
    /\ FullyIdentified(plan, s)
    /\ DOMAIN s = OrdersIn(b, j)
    /\ \A id \in DOMAIN s : ~b[id].live
    /\ Spent(b, j, plan)

SettledRow(j) ==
    /\ run[j].status \in Store!Submitted
    /\ SettledIn(book, run[j].intents, saved[j], j)

\* When the attributed orders make up the whole plan and a request was never
\* repeated, or there was nothing to send, there are no other orders.
LEMMA AllSaved ==
    ASSUME BookOK, NEW j, NEW plan, WellFormed(plan), NEW s, SavedIn(book, plan, s, j),
           FullyIdentified(plan, s), Copies = 1 \/ DOMAIN s = {},
           Within(SentIn(book, j, Pairs), 0, QtyOf(plan, All)),
           \A id \in DOMAIN s : ~book[id].live
    PROVE  SettledIn(book, plan, s, j)
<1> DEFINE f == [i \in DOMAIN plan |-> QuantityOf(s, i)]
           w == SentWeights(book, j, Pairs)
<1>1. book \in Seq(BookOrder)
  BY DEF BookOK
<1>2. /\ DOMAIN s \subseteq OrdersIn(book, j) /\ IsFiniteSet(DOMAIN s)
      /\ SumFunctionOnSet(f, DOMAIN plan) = SumFunctionOnSet(w, DOMAIN s)
  BY AttributedTotal
<1>3. f = Weighted(plan, All)
  <2>1. \A i \in DOMAIN plan : QuantityOf(s, i) = plan[i].qty
    BY DEF FullyIdentified, Allocated
  <2> QED
    BY <2>1, TotalIs
<1>4. SumFunctionOnSet(w, DOMAIN s) = QtyOf(plan, All)
  BY <1>2, <1>3, TotalIs
<1>5. /\ IsFiniteSet(DOMAIN book) /\ \A id \in DOMAIN book : w[id] \in Nat
      /\ SentIn(book, j, Pairs) = SumFunctionOnSet(w, DOMAIN book)
      /\ SentIn(book, j, Pairs) \in Nat
  BY <1>1, SentType
<1>6. QtyOf(plan, All) \in Nat
  BY TotalIs
<1>7. DOMAIN s = {} => QtyOf(plan, All) = 0
  BY <1>4, SumEmpty
<1>8. SentIn(book, j, Pairs) <= QtyOf(plan, All) /\ Copies * QtyOf(plan, All) = QtyOf(plan, All)
  BY <1>5, <1>6, <1>7, CopiesAre DEF Within
<1> HIDE DEF f, w
<1>9. DOMAIN s \in SUBSET DOMAIN book
  BY <1>2 DEF OrdersIn
<1>10. SumFunctionOnSet(w, DOMAIN s) <= SumFunctionOnSet(w, DOMAIN book)
  BY <1>5, <1>9, SumSubset
<1>11. SumFunctionOnSet(w, DOMAIN s) = SumFunctionOnSet(w, DOMAIN book)
  BY <1>4, <1>5, <1>6, <1>8, <1>10
<1>12. \A id \in DOMAIN book \ DOMAIN s : w[id] = 0
  BY <1>5, <1>9, <1>11, SumSubset
<1>13. OrdersIn(book, j) \subseteq DOMAIN s
  <2> SUFFICES ASSUME NEW id \in OrdersIn(book, j), id \notin DOMAIN s
               PROVE  FALSE
    OBVIOUS
  <2>1. id \in DOMAIN book
    BY DEF OrdersIn
  <2>2. w[id] > 0
    BY <2>1, <1>1, OrdersCount DEF w
  <2> QED
    BY <2>1, <2>2, <1>12
<1>14. Spent(book, j, plan)
  BY <1>4, <1>5, <1>8, <1>11 DEF Spent
<1> QED
  BY <1>2, <1>13, <1>14 DEF SettledIn

\* The process of a settled run has nothing to send.
LEMMA SettledUnsent ==
    ASSUME TypesInv, NEW p \in Procs, Started(p), BudgetLeft(p), SettledRow(JobOf[p])
    PROVE  Unsent(p, All) = 0
<1>1. run[JobOf[p]].intents = work[p].plan
  BY StartedWork
<1>2. WellFormed(work[p].plan)
  BY StartedWork
<1>3. QtyOf(work[p].plan, All) \in Nat
  BY <1>2, TotalIs
<1>4. Unsent(p, All) \in Nat
  BY UnsentType DEF TypesInv
<1>5. SentIn(book, JobOf[p], Pairs) \in Nat
  BY SentType DEF TypesInv, BookOK
<1>6. Within(SentIn(book, JobOf[p], Pairs), Unsent(p, All), QtyOf(work[p].plan, All))
  BY DEF BudgetLeft, All
<1>7. Copies * QtyOf(work[p].plan, All) <= SentIn(book, JobOf[p], Pairs)
  BY <1>1 DEF SettledRow, SettledIn, Spent
<1> QED
  BY <1>3, <1>4, <1>5, <1>6, <1>7, CopiesAre DEF Within

\* To send an order takes something unsent.
LEMMA SendingUnsent ==
    ASSUME TypesInv, NEW p \in Procs, NEW n, NEW r, SendMoves(p, n, r)
    PROVE  Unsent(p, All) > 0
<1>1. /\ Unsent(p, All) = Weight(NextOrder(p), All) + Unsent(p, All)'
      /\ Unsent(p, All)' \in Nat /\ NextOrder(p) \in Intent
  BY UnsentSend DEF TypesInv
<1>2. /\ NextOrder(p).qty \in Nat \ {0}
      /\ <<NextOrder(p).ticker, NextOrder(p).side>> \in Pairs
  BY <1>1 DEF Intent, Pairs, Sides
<1>3. KeyOf(NextOrder(p)) \in All
  BY <1>1, <1>2, GroupKey DEF All
<1>4. Weight(NextOrder(p), All) = NextOrder(p).qty
  BY <1>3 DEF Weight
<1> QED
  BY <1>1, <1>2, <1>4

\* The orders of a settled run stay as they are.
LEMMA SettledOrders ==
    ASSUME TypesInv, TypesInv', BudgetOK, [Next]_vars, NEW j \in Jobs, SettledRow(j)
    PROVE  /\ OrdersIn(book', j) = OrdersIn(book, j)
           /\ SentIn(book', j, Pairs) = SentIn(book, j, Pairs)
           /\ \A id \in OrdersIn(book, j) : book'[id] = book[id]
<1>1. BookOK /\ BookOK' /\ WorkTyped /\ PcTyped /\ (\A p \in Procs : WorkOK(p))
  BY DEF TypesInv, IInv
<1>2. /\ BookGrows
      /\ BookKept \/ \E p \in Procs : \E n, r : SendMoves(p, n, r)
  BY <1>1, BookStep
<1>3. /\ OrdersIn(book', j) = OrdersIn(book, j)
      /\ SentIn(book', j, Pairs) = SentIn(book, j, Pairs)
  <2>1. CASE BookKept
    <3>1. SentIn(book', j, Pairs) = SentIn(book, j, Pairs)
      BY <1>1, <2>1, SentSame
    <3>2. OrdersIn(book', j) = OrdersIn(book, j)
      BY <2>1 DEF BookKept, BookGrows, SameOrder, OrdersIn
    <3> QED
      BY <3>1, <3>2
  <2>2. ASSUME NEW p \in Procs, NEW n, NEW r, SendMoves(p, n, r)
        PROVE  /\ OrdersIn(book', j) = OrdersIn(book, j)
               /\ SentIn(book', j, Pairs) = SentIn(book, j, Pairs)
    <3>1. Unsent(p, All) > 0
      BY <2>2, SendingUnsent
    <3>2. Started(p)
      BY <2>2 DEF SendMoves
    <3>3. JobOf[p] # j
      <4>1. JobOf[p] = j => Unsent(p, All) = 0
        BY <3>2, SettledUnsent DEF BudgetOK
      <4> QED
        BY <3>1, <4>1
    <3>4. Sent(p, NextOrder(p)).job # j
      BY <3>3 DEF Sent
    <3>5. SentWeight(Sent(p, NextOrder(p)), j, Pairs) = 0
      BY <3>4 DEF SentWeight
    <3>6. /\ n \in Nat
          /\ SentIn(book', j, Pairs) = SentIn(book, j, Pairs) + Times(n, 0)
      BY <2>2, <1>1, <3>5, SentMore
    <3>7. SentIn(book, j, Pairs) \in Nat
      BY <1>1, SentType DEF BookOK
    <3>8. SentIn(book', j, Pairs) = SentIn(book, j, Pairs)
      BY <3>6, <3>7 DEF Times
    <3>9. /\ DOMAIN book' = 1 .. Len(book) + n
          /\ \A id \in DOMAIN book : book'[id] = book[id]
          /\ \A id \in (Len(book) + 1) .. (Len(book) + n) : book'[id] = Sent(p, NextOrder(p))
      BY <2>2 DEF SendMoves
    <3>10. book \in Seq(BookOrder)
      BY <1>1 DEF BookOK
    <3>11. DOMAIN book = 1 .. Len(book) /\ Len(book) \in Nat
      BY <3>10
    <3>12. \A id \in DOMAIN book' : id \in DOMAIN book \/ book'[id].job # j
      BY <3>6, <3>9, <3>11, <3>4
    <3>13. DOMAIN book \subseteq DOMAIN book'
      BY <3>6, <3>9, <3>11
    <3>14. OrdersIn(book', j) = OrdersIn(book, j)
      BY <3>9, <3>12, <3>13 DEF OrdersIn
    <3> QED
      BY <3>8, <3>14
  <2> QED
    BY <1>2, <2>1, <2>2
<1>4. \A id \in OrdersIn(book, j) : book'[id] = book[id]
  <2> TAKE id \in OrdersIn(book, j)
  <2>1. id \in DOMAIN book /\ ~book[id].live
    BY DEF SettledRow, SettledIn, OrdersIn
  <2> QED
    BY <2>1, <1>2 DEF BookGrows
<1> QED
  BY <1>3, <1>4

\* So does all that makes it settled, whatever the processes do.
LEMMA SettledStays ==
    ASSUME TypesInv, TypesInv', BudgetOK, [Next]_vars, NEW j \in Jobs, SettledRow(j)
    PROVE  SettledRow(j)'
<1>1. BookOK /\ BookOK' /\ WorkTyped /\ PcTyped /\ (\A p \in Procs : WorkOK(p))
      /\ Store!TypeOK /\ RecOK /\ StartedInv /\ SavedOK'
  BY DEF TypesInv, IInv
<1>2. /\ BookGrows
      /\ BookKept \/ \E p \in Procs : \E n, r : SendMoves(p, n, r)
  BY <1>1, BookStep
<1>3. SavedGrow
  BY SavedStep DEF TypesInv, IInv
<1>4. /\ run'[j].intents = run[j].intents
      /\ run'[j].status \in Store!Submitted
  BY <1>1, NextStore, StoreKeeps DEF SettledRow
<1>5. /\ OrdersIn(book', j) = OrdersIn(book, j)
      /\ SentIn(book', j, Pairs) = SentIn(book, j, Pairs)
  BY SettledOrders
<1>6. saved'[j] = saved[j]
  <2>1. SavedIn(book', run'[j].intents, saved'[j], j)
    BY <1>1 DEF SavedOK
  <2>2. DOMAIN saved'[j] \subseteq OrdersIn(book', j)
    BY <2>1 DEF SavedIn, OrdersIn
  <2>3. KeptIn(saved[j], saved'[j])
    BY <1>3 DEF SavedGrow
  <2>4. DOMAIN saved'[j] = DOMAIN saved[j]
    BY <2>2, <2>3, <1>5 DEF KeptIn, SettledRow, SettledIn
  <2>5. SavedIn(book, run[j].intents, saved[j], j)
    BY DEF TypesInv, SavedOK
  <2>6. /\ saved'[j] = [id \in DOMAIN saved'[j] |-> saved'[j][id]]
        /\ saved[j] = [id \in DOMAIN saved[j] |-> saved[j][id]]
    BY <2>1, <2>5 DEF SavedIn
  <2> QED
    BY <2>3, <2>4, <2>6 DEF KeptIn
<1>7. \A id \in DOMAIN saved[j] : ~book'[id].live
  <2> TAKE id \in DOMAIN saved[j]
  <2>1. id \in DOMAIN book /\ ~book[id].live
    BY DEF SettledRow, SettledIn, OrdersIn
  <2> QED
    BY <2>1, <1>2 DEF BookGrows
<1>8. SettledIn(book', run[j].intents, saved[j], j)
  BY <1>5, <1>7 DEF SettledRow, SettledIn, Spent
<1> QED
  BY <1>4, <1>6, <1>8 DEF SettledRow

-----------------------------------------------------------------------------
(***************************************************************************)
(* A process that has confirmed its run.                                   *)
(***************************************************************************)
\* A full account of a run is a packing of its results.
LEMMA AccountsPack ==
    ASSUME NEW plan, WellFormed(plan), NEW known \in Seq(ResultRec), NEW own, NEW s,
           Accounts(plan, known, own, <<>>, s, FALSE), Distinct(known)
    PROVE  /\ Packing(plan, s, known, own)
           /\ \A i \in DOMAIN plan : QuantityOf(s, i) <= plan[i].qty
<1>1. Owns(plan, known, own) /\ Stored(s, known, own) /\ InOrder(plan, known, own)
      /\ Planful(plan, known, own, <<>>, FALSE)
  BY DEF Accounts
<1>2. \A k \in DOMAIN known : known[k].qty \in Nat
  BY ResultQty
<1>3. \A i \in DOMAIN plan : /\ Share(known, own, i, DOMAIN known) \in Nat
                             /\ Share(known, own, i, DOMAIN known) <= plan[i].qty
  <2> TAKE i \in DOMAIN plan
  <2>1. Share(known, own, i, DOMAIN known) \in Nat
    BY <1>2, ShareType
  <2>2. QueueQty(<<>>, {KeyOf(plan[i])}) = 0
    BY QueueEmpty
  <2>3. Share(known, own, i, DOMAIN known) + QueueQty(<<>>, {KeyOf(plan[i])}) <= plan[i].qty
    BY <1>1 DEF Planful
  <2> QED
    BY <2>1, <2>2, <2>3
<1>4. \A id \in DOMAIN s : \E k \in DOMAIN known :
          /\ known[k].id = id /\ id # NoId
          /\ s[id] = [intent |-> own[k], qty |-> known[k].qty]
  <2> TAKE id \in DOMAIN s
  <2>1. PICK k \in DOMAIN known : known[k].id = id /\ id # NoId
    BY <1>1 DEF Stored
  <2>2. s[id] = [intent |-> own[k], qty |-> known[k].qty]
    BY <1>1, <2>1 DEF Stored
  <2> QED
    BY <2>1, <2>2
<1>5. \A i \in DOMAIN plan : plan[i].qty \in Int
  BY TotalIs
<1>6. s = [id \in DOMAIN s |-> s[id]]
  BY <1>1 DEF Stored
<1>7. Packing(plan, s, known, own)
  BY <1>1, <1>3, <1>4, <1>5, <1>6 DEF Packing, Owns, InOrder, Distinct
<1>8. \A i \in DOMAIN plan : QuantityOf(s, i) <= plan[i].qty
  <2> TAKE i \in DOMAIN plan
  <2>1. QuantityOf(s, i) = Share(known, own, i, Counted(s, known, 0))
    BY <1>2, <1>7, StoredShare
  <2>2. Counted(s, known, 0) \in SUBSET DOMAIN known
    BY DEF Counted
  <2>3. /\ Share(known, own, i, Counted(s, known, 0)) \in Nat
        /\ Share(known, own, i, Counted(s, known, 0)) <= Share(known, own, i, DOMAIN known)
    BY <1>2, <2>2, ShareType
  <2> QED
    BY <2>1, <2>3, <1>3, <1>5
<1> QED
  BY <1>7, <1>8

\* Results that are reported filled.
FilledOnes(s) == {k \in DOMAIN s : s[k].status = "FILLED"}
FilledIds(s) == {s[k].id : k \in FilledOnes(s)}

\* What is reported filled are different orders of the job, each ended.
LEMMA FilledOrders ==
    ASSUME BookOK, NEW j, NEW s \in Seq(ResultRec), Distinct(s),
           \A k \in DOMAIN s : ResultIn(book, j, s[k])
    PROVE  /\ FilledIds(s) \subseteq OrdersIn(book, j)
           /\ \A id \in FilledIds(s) : id # NoId /\ ~book[id].live
           /\ FilledQty(s) = SumFunctionOnSet(SentWeights(book, j, Pairs), FilledIds(s))
<1> DEFINE K == FilledOnes(s)
           F == FilledIds(s)
           w == SentWeights(book, j, Pairs)
           g == [k \in DOMAIN s |-> IF s[k].status = "FILLED" THEN s[k].qty ELSE 0]
           m == [k \in K |-> s[k].id]
<1>1. /\ \A k \in DOMAIN s : s[k] \in ResultRec /\ s[k].qty \in Nat \ {0}
      /\ IsFiniteSet(DOMAIN s)
  BY ResultQty
<1>2. book \in Seq(BookOrder)
  BY DEF BookOK
<1>3. \A k \in K : /\ k \in DOMAIN s /\ s[k].id # NoId /\ s[k].id \in DOMAIN book
                   /\ book[s[k].id].job = j /\ book[s[k].id].qty = s[k].qty
                   /\ ~book[s[k].id].live
  BY DEF FilledOnes, ResultIn, Matches
<1>4. F \subseteq OrdersIn(book, j) /\ \A id \in F : id # NoId /\ ~book[id].live
  BY <1>3 DEF OrdersIn, FilledIds
<1>5. \A k \in K : g[k] \in Int /\ w[m[k]] = g[k]
  <2> TAKE k \in K
  <2>1. g[k] = s[k].qty /\ m[k] = s[k].id /\ g[k] \in Int
    BY <1>1, <1>3 DEF FilledOnes
  <2>2. w[s[k].id] = book[s[k].id].qty
    BY <1>2, <1>3, OrdersCount
  <2> QED
    BY <2>1, <2>2, <1>3
<1>6. m \in [K -> F]
  BY DEF FilledIds
<1>7. \A x, y \in K : m[x] = m[y] => x = y
  BY <1>3 DEF Distinct
<1>8. \A y \in F : \E x \in K : m[x] = y
  BY DEF FilledIds
<1>9. K \in SUBSET DOMAIN s
  BY DEF FilledOnes
<1>10. IsFiniteSet(K)
  BY <1>1, <1>9, FS_Subset
<1>11. FilledQty(s) = SumFunctionOnSet(g, DOMAIN s)
  BY DEF FilledQty, SumFunction
<1>12. \A k \in DOMAIN s \ K : g[k] = 0
  BY DEF FilledOnes
<1> HIDE DEF K, g, m, F, w
<1>13. SumFunctionOnSet(g, DOMAIN s) = SumFunctionOnSet(g, K)
  BY <1>1, <1>5, <1>9, <1>12, SumRestrict, SMTT(30)
<1>14. SumFunctionOnSet(w, F) = SumFunctionOnSet(g, K)
  BY <1>5, <1>6, <1>7, <1>8, <1>10, SumRenamed
<1> QED
  BY <1>4, <1>11, <1>13, <1>14 DEF F, w

\* Every order of the plan was reported filled: then every order of the job is
\* one of those, and attributed.
LEMMA ConfirmedOrders ==
    ASSUME BookOK, NEW j, NEW plan, WellFormed(plan), NEW known \in Seq(ResultRec),
           Distinct(known), \A k \in DOMAIN known : ResultIn(book, j, known[k]),
           NEW own, NEW s, SavedIn(book, plan, s, j),
           Accounts(plan, known, own, <<>>, s, FALSE),
           FilledQty(known) = TotalQty(plan), Copies = 1,
           Within(SentIn(book, j, Pairs), 0, QtyOf(plan, All))
    PROVE  SettledIn(book, plan, s, j)
<1> DEFINE F == FilledIds(known)
           w == SentWeights(book, j, Pairs)
           f == [i \in DOMAIN plan |-> QuantityOf(s, i)]
<1>1. /\ F \subseteq OrdersIn(book, j) /\ \A id \in F : id # NoId /\ ~book[id].live
      /\ FilledQty(known) = SumFunctionOnSet(w, F)
  BY FilledOrders
<1>2. F \subseteq DOMAIN s
  <2> SUFFICES ASSUME NEW k \in FilledOnes(known)
               PROVE  known[k].id \in DOMAIN s
    BY DEF FilledIds
  <2>1. k \in DOMAIN known /\ known[k].id # NoId
    BY <1>1 DEF FilledOnes, FilledIds
  <2>2. Stored(s, known, own)
    BY DEF Accounts
  <2> QED
    BY <2>1, <2>2 DEF Stored
<1>3. book \in Seq(BookOrder)
  BY DEF BookOK
<1>4. /\ DOMAIN s \subseteq OrdersIn(book, j) /\ IsFiniteSet(DOMAIN s)
      /\ SumFunctionOnSet(f, DOMAIN plan) = SumFunctionOnSet(w, DOMAIN s)
      /\ \A i \in DOMAIN plan : QuantityOf(s, i) \in Nat
  BY AttributedTotal
<1>5. \A id \in DOMAIN s : /\ id \in DOMAIN book /\ id \in OrdersIn(book, j)
                           /\ w[id] \in Nat /\ w[id] > 0
  <2> TAKE id \in DOMAIN s
  <2>1. id \in DOMAIN book /\ id \in OrdersIn(book, j)
    BY <1>4 DEF OrdersIn
  <2>2. w[id] \in Nat
    BY <2>1, <1>3, SentType
  <2>3. w[id] > 0
    BY <2>1, <1>3, OrdersCount
  <2> QED
    BY <2>1, <2>2, <2>3
<1>6. /\ TotalQty(plan) = SumFunctionOnSet(Weighted(plan, All), DOMAIN plan)
      /\ IsFiniteSet(DOMAIN plan) /\ TotalQty(plan) \in Nat
  BY TotalIs
<1>7. \A i \in DOMAIN plan : /\ f[i] \in Int /\ Weighted(plan, All)[i] \in Int
                             /\ f[i] <= Weighted(plan, All)[i]
                             /\ Weighted(plan, All)[i] = plan[i].qty
                             /\ f[i] = QuantityOf(s, i)
  <2> TAKE i \in DOMAIN plan
  <2>1. QuantityOf(s, i) <= plan[i].qty
    BY AccountsPack
  <2>2. Weighted(plan, All)[i] = plan[i].qty /\ plan[i].qty \in Nat
    BY TotalIs
  <2>3. f[i] = QuantityOf(s, i) /\ QuantityOf(s, i) \in Nat
    BY <1>4
  <2> QED
    BY <2>1, <2>2, <2>3
<1> HIDE DEF F, w, f
<1>8. SumFunctionOnSet(f, DOMAIN plan) <= SumFunctionOnSet(Weighted(plan, All), DOMAIN plan)
  <2> DEFINE h == Weighted(plan, All)
  <2>1. \A i \in DOMAIN plan : f[i] \in Int /\ h[i] \in Int /\ f[i] <= h[i]
    BY <1>7
  <2> HIDE DEF h
  <2>2. SumFunctionOnSet(f, DOMAIN plan) <= SumFunctionOnSet(h, DOMAIN plan)
    BY <2>1, <1>6, SumMonotone
  <2> QED
    BY <2>2 DEF h
<1>9. SumFunctionOnSet(w, F) <= SumFunctionOnSet(w, DOMAIN s)
  BY <1>2, <1>4, <1>5, SumSubset
<1>10. SumFunctionOnSet(w, DOMAIN s) \in Nat
  BY <1>4, <1>5, SumNat
<1>11. /\ SumFunctionOnSet(w, F) = SumFunctionOnSet(w, DOMAIN s)
       /\ SumFunctionOnSet(f, DOMAIN plan) = SumFunctionOnSet(Weighted(plan, All), DOMAIN plan)
  <2>1. TotalQty(plan) = SumFunctionOnSet(w, F)
    BY <1>1
  <2>2. SumFunctionOnSet(f, DOMAIN plan) = SumFunctionOnSet(w, DOMAIN s)
    BY <1>4
  <2>3. TotalQty(plan) = SumFunctionOnSet(Weighted(plan, All), DOMAIN plan) /\ TotalQty(plan) \in Nat
    BY <1>6
  <2> QED
    BY <2>1, <2>2, <2>3, <1>8, <1>9, <1>10
<1>12. DOMAIN s \subseteq F
  <2>1. \A id \in DOMAIN s \ F : w[id] = 0
    BY <1>2, <1>4, <1>5, <1>11, SumSubset
  <2> QED
    BY <2>1, <1>5
<1>13. FullyIdentified(plan, s)
  <2> DEFINE h == Weighted(plan, All)
  <2>1. \A i \in DOMAIN plan : f[i] \in Int /\ h[i] \in Int /\ f[i] <= h[i]
    BY <1>7
  <2>2. SumFunctionOnSet(f, DOMAIN plan) = SumFunctionOnSet(h, DOMAIN plan)
    BY <1>11
  <2>3. \A i \in DOMAIN plan : h[i] = plan[i].qty /\ f[i] = QuantityOf(s, i)
    BY <1>7
  <2> HIDE DEF h
  <2>4. \A i \in DOMAIN plan : f[i] = h[i]
    BY <2>1, <2>2, <1>6, SumEqual
  <2> QED
    BY <2>3, <2>4 DEF FullyIdentified, Allocated
<1>14. \A id \in DOMAIN s : ~book[id].live
  BY <1>1, <1>12
<1> QED
  BY <1>13, <1>14, AllSaved

-----------------------------------------------------------------------------
(***************************************************************************)
(* What a process still has to do after its last batch.                    *)
(***************************************************************************)
Without(todo, step) == \A i \in DOMAIN todo : todo[i] # step

TodoOK(p) ==
    /\ Working(p) => work[p].todo = Closing(JobOf[p])
    /\ Started(p) => Suffix(work[p].todo, Closing(JobOf[p]))

\* With kabu the comparison of positions is an error of any run with results.
VerifiedOK(p) ==
    Broker = "kabu" /\ Started(p) /\ ~work[p].errors /\ Without(work[p].todo, "snapshot")
        => pc[p] = "close" /\ work[p].results = <<>>

\* The steps of the list from position n on.
From(all, n, todo) ==
    /\ Len(todo) = Len(all) - n + 1
    /\ \A i \in 1 .. Len(todo) : todo[i] = all[n - 1 + i]

LEMMA SuffixFrom ==
    ASSUME NEW all \in Seq(Steps), NEW todo \in Seq(Steps), Suffix(todo, all), todo # <<>>
    PROVE  \E n \in 1 .. Len(all) : From(all, n, todo) /\ Head(todo) = all[n]
<1>1. /\ DOMAIN todo = 1 .. Len(todo) /\ Len(todo) \in Nat /\ Len(todo) >= 1
      /\ Head(todo) = todo[1] /\ Len(all) \in Nat
  OBVIOUS
<1>2. /\ Len(todo) <= Len(all)
      /\ \A i \in 1 .. Len(todo) : todo[i] = all[Len(all) - Len(todo) + i]
  BY <1>1 DEF Suffix
<1>3. PICK n \in 1 .. Len(all) : n = Len(all) - Len(todo) + 1
  BY <1>1, <1>2
<1>4. \A i \in 1 .. Len(todo) : todo[i] = all[n - 1 + i]
  BY <1>1, <1>2, <1>3
<1>5. Len(todo) = Len(all) - n + 1
  BY <1>1, <1>3
<1>6. Head(todo) = all[n]
  BY <1>1, <1>3, <1>4
<1> QED
  BY <1>4, <1>5, <1>6 DEF From

\* The order of a process' last steps: prices, positions, checkpoint, end.
Ordered(todo) ==
    /\ Head(todo) \in {"checkpoint", "settle"} => Without(todo, "snapshot")
    /\ Without(todo, "snapshot") => Without(todo, "fills")
    /\ Head(todo) = "fills" => ~Without(Tail(todo), "snapshot")
    /\ Head(todo) = "settle" => Tail(todo) = <<>>

LEMMA ClosingIs ==
    ASSUME NEW j
    PROVE  /\ ~Without(Closing(j), "snapshot") /\ ~Without(Closing(j), "fills")
           /\ \A todo \in Seq(Steps) :
                 todo # <<>> /\ Suffix(todo, Closing(j)) => Ordered(todo)
<1>1. CASE j \in CloseJobs
  <2>1. Closing(j) = <<"fills", "record", "report", "mark",
                       "snapshot", "checkpoint", "settle">>
    BY <1>1 DEF Closing
  <2>2. /\ Len(Closing(j)) = 7 /\ DOMAIN Closing(j) = 1 .. 7
        /\ Closing(j)[1] = "fills" /\ Closing(j)[2] = "record"
        /\ Closing(j)[3] = "report" /\ Closing(j)[4] = "mark"
        /\ Closing(j)[5] = "snapshot" /\ Closing(j)[6] = "checkpoint"
        /\ Closing(j)[7] = "settle"
    BY <2>1
  <2>3. ~Without(Closing(j), "snapshot") /\ ~Without(Closing(j), "fills")
    BY <2>2 DEF Without
  <2>4. ASSUME NEW todo \in Seq(Steps), todo # <<>>, Suffix(todo, Closing(j))
        PROVE  Ordered(todo)
    <3>1. Closing(j) \in Seq(Steps)
      BY ClosingType
    <3>2. PICK n \in 1 .. 7 : From(Closing(j), n, todo) /\ Head(todo) = Closing(j)[n]
      BY <2>2, <2>4, <3>1, SuffixFrom
    <3>3. /\ DOMAIN todo = 1 .. 8 - n /\ Len(todo) = 8 - n
          /\ \A i \in 1 .. 8 - n : todo[i] = Closing(j)[n - 1 + i]
      <4>1. Len(todo) = 8 - n
        BY <2>2, <3>2 DEF From
      <4>2. DOMAIN todo = 1 .. Len(todo)
        BY <2>4
      <4> QED
        BY <3>2, <4>1, <4>2 DEF From
    <3>4. /\ Tail(todo) \in Seq(Steps) /\ Len(Tail(todo)) = 7 - n
          /\ \A i \in 1 .. 7 - n : Tail(todo)[i] = todo[i + 1]
      BY <2>4, <3>3
    <3>5. DOMAIN Tail(todo) = 1 .. 7 - n
      BY <3>4
    <3>6. CASE n <= 5
      <4>1. PICK i \in 1 .. 8 - n : i = 6 - n
        BY <3>6
      <4>2. todo[i] = "snapshot"
        BY <2>2, <3>3, <4>1
      <4>3. ~Without(todo, "snapshot")
        BY <3>3, <4>1, <4>2 DEF Without
      <4>4. Head(todo) \notin {"checkpoint", "settle"}
        BY <2>2, <3>2, <3>6
      <4>5. Head(todo) = "fills" => ~Without(Tail(todo), "snapshot")
        <5>1. SUFFICES ASSUME Head(todo) = "fills" PROVE ~Without(Tail(todo), "snapshot")
          OBVIOUS
        <5>2. n = 1
          BY <2>2, <3>2, <5>1
        <5>3. PICK k \in 1 .. 7 - n : k = i - 1
          BY <4>1, <5>2
        <5>4. Tail(todo)[k] = "snapshot"
          BY <3>4, <4>1, <4>2, <5>3
        <5> QED
          BY <3>5, <5>3, <5>4 DEF Without
      <4> QED
        BY <4>3, <4>4, <4>5 DEF Ordered
    <3>7. CASE n > 5
      <4>1. \A i \in 1 .. 8 - n : todo[i] # "snapshot" /\ todo[i] # "fills"
        BY <2>2, <3>2, <3>3, <3>7
      <4>2. Without(todo, "snapshot") /\ Without(todo, "fills")
        BY <3>3, <4>1 DEF Without
      <4>3. Head(todo) # "fills"
        BY <2>2, <3>2, <3>7
      <4>4. Head(todo) = "settle" => Tail(todo) = <<>>
        <5>1. SUFFICES ASSUME Head(todo) = "settle" PROVE Tail(todo) = <<>>
          OBVIOUS
        <5>2. n = 7
          BY <2>2, <3>2, <5>1
        <5>3. PICK rest \in Seq(Steps) : rest = Tail(todo)
          BY <3>4
        <5>4. Len(rest) = 0
          BY <3>4, <5>2, <5>3
        <5> QED
          BY <5>3, <5>4
      <4> QED
        BY <4>2, <4>3, <4>4 DEF Ordered
    <3> QED
      BY <3>6, <3>7
  <2> QED
    BY <2>3, <2>4
<1>2. CASE j \notin CloseJobs
  <2>1. Closing(j) = <<"record", "mark", "report", "fills",
                       "snapshot", "record", "checkpoint", "settle">>
    BY <1>2 DEF Closing
  <2>2. /\ Len(Closing(j)) = 8 /\ DOMAIN Closing(j) = 1 .. 8
        /\ Closing(j)[1] = "record" /\ Closing(j)[2] = "mark"
        /\ Closing(j)[3] = "report" /\ Closing(j)[4] = "fills"
        /\ Closing(j)[5] = "snapshot" /\ Closing(j)[6] = "record"
        /\ Closing(j)[7] = "checkpoint" /\ Closing(j)[8] = "settle"
    BY <2>1
  <2>3. ~Without(Closing(j), "snapshot") /\ ~Without(Closing(j), "fills")
    BY <2>2 DEF Without
  <2>4. ASSUME NEW todo \in Seq(Steps), todo # <<>>, Suffix(todo, Closing(j))
        PROVE  Ordered(todo)
    <3>1. Closing(j) \in Seq(Steps)
      BY ClosingType
    <3>2. PICK n \in 1 .. 8 : From(Closing(j), n, todo) /\ Head(todo) = Closing(j)[n]
      BY <2>2, <2>4, <3>1, SuffixFrom
    <3>3. /\ DOMAIN todo = 1 .. 9 - n /\ Len(todo) = 9 - n
          /\ \A i \in 1 .. 9 - n : todo[i] = Closing(j)[n - 1 + i]
      <4>1. Len(todo) = 9 - n
        BY <2>2, <3>2 DEF From
      <4>2. DOMAIN todo = 1 .. Len(todo)
        BY <2>4
      <4> QED
        BY <3>2, <4>1, <4>2 DEF From
    <3>4. /\ Tail(todo) \in Seq(Steps) /\ Len(Tail(todo)) = 8 - n
          /\ \A i \in 1 .. 8 - n : Tail(todo)[i] = todo[i + 1]
      BY <2>4, <3>3
    <3>5. DOMAIN Tail(todo) = 1 .. 8 - n
      BY <3>4
    <3>6. CASE n <= 5
      <4>1. PICK i \in 1 .. 9 - n : i = 6 - n
        BY <3>6
      <4>2. todo[i] = "snapshot"
        BY <2>2, <3>3, <4>1
      <4>3. ~Without(todo, "snapshot")
        BY <3>3, <4>1, <4>2 DEF Without
      <4>4. Head(todo) \notin {"checkpoint", "settle"}
        BY <2>2, <3>2, <3>6
      <4>5. Head(todo) = "fills" => ~Without(Tail(todo), "snapshot")
        <5>1. SUFFICES ASSUME Head(todo) = "fills" PROVE ~Without(Tail(todo), "snapshot")
          OBVIOUS
        <5>2. n = 4
          BY <2>2, <3>2, <5>1
        <5>3. PICK k \in 1 .. 8 - n : k = i - 1
          BY <4>1, <5>2
        <5>4. Tail(todo)[k] = "snapshot"
          BY <3>4, <4>1, <4>2, <5>3
        <5> QED
          BY <3>5, <5>3, <5>4 DEF Without
      <4> QED
        BY <4>3, <4>4, <4>5 DEF Ordered
    <3>7. CASE n > 5
      <4>1. \A i \in 1 .. 9 - n : todo[i] # "snapshot" /\ todo[i] # "fills"
        BY <2>2, <3>2, <3>3, <3>7
      <4>2. Without(todo, "snapshot") /\ Without(todo, "fills")
        BY <3>3, <4>1 DEF Without
      <4>3. Head(todo) # "fills"
        BY <2>2, <3>2, <3>7
      <4>4. Head(todo) = "settle" => Tail(todo) = <<>>
        <5>1. SUFFICES ASSUME Head(todo) = "settle" PROVE Tail(todo) = <<>>
          OBVIOUS
        <5>2. n = 8
          BY <2>2, <3>2, <5>1
        <5>3. PICK rest \in Seq(Steps) : rest = Tail(todo)
          BY <3>4
        <5>4. Len(rest) = 0
          BY <3>4, <5>2, <5>3
        <5> QED
          BY <5>3, <5>4
      <4> QED
        BY <4>2, <4>3, <4>4 DEF Ordered
    <3> QED
      BY <3>6, <3>7
  <2> QED
    BY <2>3, <2>4
<1> QED
  BY <1>1, <1>2

\* The list is laid out by mark_submission_started, and only a closing step takes
\* one off.
LEMMA TodoStays ==
    ASSUME TypesInv, TypesInv', NEW p \in Procs, TodoOK(p), ProcStep(p), Alone(p), Started(p)'
    PROVE  CloseMove(p) \/ work'[p].todo = Closing(JobOf[p])
<1>1. PcTyped /\ WorkTyped /\ WorkTyped' /\ BookOK /\ WorkOK(p) /\ WorkOK(p)'
  BY DEF TypesInv, IInv
<1>2. CASE StartMove(p)
  BY <1>2 DEF StartMove
<1>3. ASSUME Working(p), work'[p].todo = work[p].todo
      PROVE  work'[p].todo = Closing(JobOf[p])
  BY <1>3 DEF TodoOK
<1>4. ASSUME NEW n, NEW r, SendMoves(p, n, r)
      PROVE  work'[p].todo = Closing(JobOf[p])
  <2>1. Working(p) /\ pc[p] = "send" /\ pc'[p] = "send" /\ work[p].queue # <<>>
    BY <1>4 DEF SendMoves, Working
  <2>2. PICK outcome \in SubmitOutcomes, unanswered \in Unanswered :
            Send(p, outcome, unanswered)
    <3>1. /\ ~Begin(p) /\ ~ReadPositions(p) /\ ~EnterLease(p)
          /\ ~Prepare(p) /\ ~RecordPlan(p) /\ ~StartSubmission(p) /\ ~GiveUp(p)
          /\ ~Persist(p) /\ ~PollEnds(p)
      BY <2>1 DEF Begin, ReadPositions, EnterLease, Prepare, RecordPlan, StartSubmission,
                  GiveUp, Persist, PollEnds
    <3>2. /\ ~RecordAll(p) /\ ~MarkIncomplete(p) /\ ~Report(p) /\ ~FetchFills(p)
          /\ ~VerifyPositions(p) /\ ~RecordCheckpoint(p) /\ ~Settle(p) /\ ~Finish(p)
      BY <2>1 DEF RecordAll, MarkIncomplete, Report, FetchFills, VerifyPositions,
                  RecordCheckpoint, Settle, Finish, AtStep
    <3>3. ~BatchReturns(p)
      <4>1. BatchReturns(p) => pc'[p] = "persist"
        BY <1>1, ReturnsStep
      <4> QED
        BY <4>1, <2>1
    <3> QED
      BY <3>1, <3>2, <3>3 DEF ProcStep
  <2>3. work'[p].todo = work[p].todo
    BY <1>1, <2>1, <2>2, SendStep
  <2> QED
    BY <2>1, <2>3, <1>3
<1>5. CASE BatchReturns(p)
  <2>1. work'[p].todo = work[p].todo
    BY <1>1, <1>5, ReturnsStep
  <2>2. Working(p)
    BY <1>5 DEF BatchReturns, Working
  <2> QED
    BY <2>1, <2>2, <1>3
<1>6. CASE Persist(p)
  BY <1>6, <1>3 DEF Persist, Working
<1>7. CASE PollEnds(p)
  <2>1. Working(p)
    BY <1>7 DEF PollEnds, Working
  <2>2. work[p].queue # <<>>
    BY <2>1, <1>1 DEF WorkOK, Working
  <2>3. work'[p].todo = work[p].todo
    BY <1>1, <1>7, <2>2, PollStep
  <2> QED
    BY <2>1, <2>3, <1>3
<1> QED
  BY <1>2, <1>4, <1>5, <1>6, <1>7, StartedMoves

\* A step that is neither the first of the list nor in its rest is not in it.
LEMMA WithoutTail ==
    ASSUME NEW todo \in Seq(Steps), todo # <<>>, NEW step, Head(todo) # step,
           Without(Tail(todo), step)
    PROVE  Without(todo, step)
<1>1. Tail(todo) \in Seq(Steps) /\ Len(Tail(todo)) = Len(todo) - 1
  OBVIOUS
<1>2. /\ DOMAIN todo = 1 .. Len(todo) /\ DOMAIN Tail(todo) = 1 .. Len(Tail(todo))
      /\ Len(todo) \in Nat
  BY <1>1
<1>3. \A i \in DOMAIN todo : i = 1 \/ todo[i] = Tail(todo)[i - 1]
  BY <1>1, <1>2
<1>4. Head(todo) = todo[1]
  OBVIOUS
<1> SUFFICES ASSUME NEW i \in DOMAIN todo
             PROVE  todo[i] # step
  BY DEF Without
<1>5. CASE i = 1
  BY <1>5, <1>4
<1>6. CASE i # 1
  <2>1. i - 1 \in DOMAIN Tail(todo)
    BY <1>6, <1>1, <1>2
  <2> QED
    BY <2>1, <1>6, <1>3 DEF Without
<1> QED
  BY <1>5, <1>6

LEMMA TodoMoves ==
    ASSUME TypesInv, TypesInv', [Next]_vars, NEW p \in Procs, TodoOK(p), VerifiedOK(p)
    PROVE  TodoOK(p)' /\ VerifiedOK(p)'
<1> SUFFICES ASSUME Started(p)'
             PROVE  TodoOK(p)' /\ VerifiedOK(p)'
  BY DEF TodoOK, VerifiedOK, Working, Started
<1>1. CASE pc'[p] = pc[p] /\ work'[p] = work[p]
  BY <1>1 DEF TodoOK, VerifiedOK, Working, Started
<1>2. ASSUME ProcStep(p), Alone(p)
      PROVE  TodoOK(p)' /\ VerifiedOK(p)'
  <2>1. PcTyped /\ WorkTyped /\ WorkTyped' /\ BookOK /\ WorkOK(p) /\ WorkOK(p)'
    BY DEF TypesInv, IInv
  <2>2. work[p].todo \in Seq(Steps) /\ work'[p].todo \in Seq(Steps)
    <3>1. work[p] \in WorkRec /\ work'[p] \in WorkRec
      BY <2>1 DEF WorkTyped
    <3> QED
      BY <3>1 DEF WorkRec
  <2>3. Closing(JobOf[p]) \in Seq(Steps)
    BY ClosingType
  <2>4. CASE work'[p].todo = Closing(JobOf[p])
    <3>1. ~Without(work'[p].todo, "snapshot")
      BY <2>4, ClosingIs
    <3>2. Suffix(work'[p].todo, Closing(JobOf[p]))
      BY <2>4, <2>3, SuffixSelf
    <3> QED
      BY <2>4, <3>1, <3>2 DEF TodoOK, VerifiedOK
  <2>5. CASE CloseMove(p)
    <3>1. /\ pc[p] = "close" /\ pc'[p] = "close" /\ work[p].todo # <<>>
          /\ work'[p].todo = Tail(work[p].todo) /\ work'[p].results = work[p].results
          /\ work[p].errors => work'[p].errors
      BY <2>5 DEF CloseMove, ClosingMoves, SameOrders
    <3>2. ClosingData(p)
      BY <2>5 DEF CloseMove
    <3>3. Suffix(work[p].todo, Closing(JobOf[p]))
      BY <3>1 DEF TodoOK, Started
    <3>4. Suffix(work'[p].todo, Closing(JobOf[p]))
      BY <3>1, <3>3, <2>2, <2>3, SuffixTail
    <3>5. TodoOK(p)'
      BY <3>1, <3>4 DEF TodoOK, Working
    <3>6. ASSUME Broker = "kabu", ~work'[p].errors, Without(work'[p].todo, "snapshot")
          PROVE  work'[p].results = <<>>
      <4>1. CASE Head(work[p].todo) = "snapshot"
        <5>1. \A i \in DOMAIN work[p].results : FALSE
          BY <3>2, <3>6, <4>1 DEF ClosingData
        <5>2. work[p].results \in Seq(ResultRec)
          BY <2>1 DEF WorkTyped, WorkRec
        <5>3. DOMAIN work[p].results = 1 .. Len(work[p].results) /\ Len(work[p].results) \in Nat
          BY <5>2
        <5>4. Len(work[p].results) = 0
          BY <5>1, <5>3
        <5>5. work[p].results = <<>>
          BY <5>2, <5>4
        <5> QED
          BY <5>5, <3>1
      <4>2. CASE Head(work[p].todo) # "snapshot"
        <5>1. Without(work[p].todo, "snapshot")
          BY <2>2, <3>1, <3>6, <4>2, WithoutTail
        <5> QED
          BY <5>1, <3>1, <3>6 DEF VerifiedOK, Started
      <4> QED
        BY <4>1, <4>2
    <3> QED
      BY <3>1, <3>5, <3>6 DEF VerifiedOK
  <2> QED
    BY <1>2, <2>4, <2>5, TodoStays
<1> QED
  BY <1>1, <1>2, ProcessMoves

-----------------------------------------------------------------------------
(***************************************************************************)
(* Who may complete a run: its process and recovery, once it is settled.   *)
(***************************************************************************)
LEMMA BudgetSpent ==
    ASSUME TypesInv, BudgetOK, NEW j \in Jobs, run[j].status \in Store!Submitted
    PROVE  /\ WellFormed(run[j].intents)
           /\ SavedIn(book, run[j].intents, saved[j], j)
           /\ Within(SentIn(book, j, Pairs), 0, QtyOf(run[j].intents, All))
<1>1. WellFormed(run[j].intents)
  BY DEF TypesInv, RowOK
<1>2. SavedIn(book, run[j].intents, saved[j], j)
  BY DEF TypesInv, SavedOK
<1>3. Within(SentIn(book, j, Pairs), 0, QtyOf(run[j].intents, All))
  BY DEF BudgetOK, BudgetOf, All
<1> QED
  BY <1>1, <1>2, <1>3

\* A run without intents asks for nothing and has no attribution.
LEMMA NothingSaved ==
    ASSUME NEW plan, WellFormed(plan), TotalQty(plan) = 0, NEW s, NEW j,
           SavedIn(book, plan, s, j)
    PROVE  FullyIdentified(plan, s) /\ DOMAIN s = {}
<1>1. /\ QtyOf(plan, All) = 0
      /\ QtyOf(plan, All) = SumFunctionOnSet(Weighted(plan, All), DOMAIN plan)
      /\ Weighted(plan, All) = [i \in DOMAIN plan |-> plan[i].qty]
      /\ IsFiniteSet(DOMAIN plan) /\ \A i \in DOMAIN plan : plan[i].qty \in Nat \ {0}
  BY TotalIs
<1>2. \A i \in DOMAIN plan : Weighted(plan, All)[i] \in Nat /\ Weighted(plan, All)[i] > 0
  BY <1>1
<1>3. \A i \in DOMAIN plan :
          Weighted(plan, All)[i] <= SumFunctionOnSet(Weighted(plan, All), DOMAIN plan)
  <2> DEFINE h == Weighted(plan, All)
  <2>1. \A i \in DOMAIN plan : h[i] \in Nat
    BY <1>2
  <2> HIDE DEF h
  <2>2. \A i \in DOMAIN plan : h[i] <= SumFunctionOnSet(h, DOMAIN plan)
    BY <2>1, <1>1, SumNat
  <2> QED
    BY <2>2 DEF h
<1>4. \A i \in DOMAIN plan : FALSE
  BY <1>1, <1>2, <1>3
<1>5. FullyIdentified(plan, s)
  BY <1>4 DEF FullyIdentified
<1>6. DOMAIN s = {}
  BY <1>4 DEF SavedIn
<1> QED
  BY <1>5, <1>6

\* A process whose results fill the plan: with kabu none does, but of a plan
\* without orders.
Quiet(p) ==
    /\ pc[p] = "close" /\ Complete(p)
    /\ Broker = "tachibana" \/ work[p].results = <<>>

LEMMA QuietSettled ==
    ASSUME TypesInv, BudgetOK, NEW p \in Procs, IdsOK(p), AccountOK(p), Quiet(p)
    PROVE  SettledRow(JobOf[p]) /\ ResultIds(p) = OrdersIn(book, JobOf[p])
<1>1. pc[p] = "close" /\ Started(p)
  BY DEF Quiet, Started
<1>2. /\ WellFormed(work[p].plan) /\ run[JobOf[p]].intents = work[p].plan
      /\ work[p].results \in Seq(ResultRec) /\ JobOf[p] \in Jobs
      /\ run[JobOf[p]].status \in Store!Submitted
  BY <1>1, StartedWork
<1>3. /\ SavedIn(book, work[p].plan, saved[JobOf[p]], JobOf[p])
      /\ Within(SentIn(book, JobOf[p], Pairs), 0, QtyOf(work[p].plan, All))
  BY <1>2, BudgetSpent
<1>4. FilledQty(work[p].results) = TotalQty(work[p].plan)
  BY DEF Quiet, Complete
<1>5. BookOK
  BY DEF TypesInv
<1>6. CASE Broker = "tachibana"
  <2>1. Copies = 1
    BY <1>6 DEF Copies, Attempts
  <2>2. Distinct(work[p].results)
    BY <1>6 DEF IdsOK
  <2>3. \A k \in DOMAIN work[p].results : ResultIn(book, JobOf[p], work[p].results[k])
    BY DEF TypesInv, ResultsOK
  <2>4. work[p].queue = <<>>
    BY <1>1 DEF TypesInv, WorkOK
  <2>5. Known(p) = work[p].results /\ Ahead(p) = <<>> /\ (pc[p] # "close") = FALSE
    BY <1>1, <2>4 DEF Known, Ahead
  <2>6. PICK own : Accounts(work[p].plan, work[p].results, own, <<>>, saved[JobOf[p]], FALSE)
    BY <1>1, <1>6, <2>5 DEF AccountOK
  <2>7. SettledIn(book, work[p].plan, saved[JobOf[p]], JobOf[p])
    BY <1>2, <1>3, <1>4, <1>5, <2>1, <2>2, <2>3, <2>6, ConfirmedOrders
  <2>8. ResultIds(p) = DOMAIN saved[JobOf[p]]
    BY <2>6 DEF Accounts, Stored, ResultIds
  <2> QED
    BY <1>2, <2>7, <2>8 DEF SettledRow, SettledIn
<1>7. CASE Broker = "kabu"
  <2>3. work[p].results = <<>>
    BY <1>7 DEF Quiet
  <2>4. FilledQty(work[p].results) = 0
    <3> DEFINE g == [k \in DOMAIN work[p].results |->
                        IF work[p].results[k].status = "FILLED" THEN work[p].results[k].qty
                        ELSE 0]
    <3>1. FilledQty(work[p].results) = SumFunctionOnSet(g, DOMAIN g)
      BY DEF FilledQty, SumFunction
    <3>2. DOMAIN g = {}
      BY <2>3
    <3> QED
      BY <3>1, <3>2, SumEmpty
  <2>5. FullyIdentified(work[p].plan, saved[JobOf[p]]) /\ DOMAIN saved[JobOf[p]] = {}
    BY <1>2, <1>3, <1>4, <2>4, NothingSaved
  <2>6. SettledIn(book, work[p].plan, saved[JobOf[p]], JobOf[p])
    BY <1>2, <1>3, <1>5, <2>5, AllSaved
  <2>7. ResultIds(p) = DOMAIN saved[JobOf[p]]
    BY <2>3, <2>5 DEF ResultIds
  <2> QED
    BY <1>2, <2>6, <2>7 DEF SettledRow, SettledIn
<1> QED
  BY <1>6, <1>7, ExecutionAssumption

\* A process confirms, records and completes settled runs only.
LEMMA ProcessSettles ==
    ASSUME TypesInv, BudgetOK, NEW p \in Procs, IdsOK(p), AccountOK(p), TodoOK(p),
           VerifiedOK(p), RecordCheckpoint(p) \/ Settle(p), Confirmed(p)
    PROVE  Quiet(p) /\ SettledRow(JobOf[p])
<1>1. /\ pc[p] = "close" /\ work[p].todo # <<>> /\ Started(p)
      /\ Head(work[p].todo) \in {"checkpoint", "settle"}
  BY DEF RecordCheckpoint, Settle, AtStep, Started
<1>2. work[p].todo \in Seq(Steps)
  <2>1. work[p] \in WorkRec
    BY DEF TypesInv, WorkTyped
  <2> QED
    BY <2>1 DEF WorkRec
<1>3. Without(work[p].todo, "snapshot")
  BY <1>1, <1>2, ClosingIs DEF TodoOK, Ordered
<1>4. Complete(p) /\ ~work[p].errors
  BY DEF Confirmed
<1>5. Broker = "kabu" => work[p].results = <<>>
  BY <1>1, <1>3, <1>4 DEF VerifiedOK
<1>6. Quiet(p)
  BY <1>1, <1>4, <1>5, ExecutionAssumption DEF Quiet
<1> QED
  BY <1>6, QuietSettled

\* Recovery without error is about a settled run.
LEMMA RecoverySettles ==
    ASSUME TypesInv, BudgetOK, NEW j \in Jobs, run[j].status \in Store!Submitted,
           FullyIdentified(run[j].intents, saved[j]),
           \A id \in DOMAIN saved[j] : ~book[id].live /\ Broker # "kabu"
    PROVE  SettledRow(j)
<1>1. /\ WellFormed(run[j].intents)
      /\ SavedIn(book, run[j].intents, saved[j], j)
      /\ Within(SentIn(book, j, Pairs), 0, QtyOf(run[j].intents, All))
  BY BudgetSpent
<1>2. Copies = 1 \/ DOMAIN saved[j] = {}
  <2>1. CASE Broker = "tachibana"
    BY <2>1 DEF Copies, Attempts
  <2>2. CASE Broker = "kabu"
    BY <2>2
  <2> QED
    BY <2>1, <2>2, ExecutionAssumption
<1>3. BookOK
  BY DEF TypesInv
<1>4. SettledIn(book, run[j].intents, saved[j], j)
  BY <1>1, <1>2, <1>3, AllSaved
<1> QED
  BY <1>4 DEF SettledRow

RecSettled == Recovering /\ ~rec.errors => SettledRow(rec.job)

DoneOK(j) ==
    run[j].status = "completed" \/ run[j].checkpoint = CleanComplete => SettledRow(j)

LEMMA RecSettledStep ==
    ASSUME TypesInv, TypesInv', BudgetOK, [Next]_vars, RecSettled
    PROVE  RecSettled'
<1> SUFFICES ASSUME Recovering', ~rec'.errors
             PROVE  SettledRow(rec.job)'
  BY DEF RecSettled
<1>1. RecOK /\ RecOK'
  BY DEF TypesInv
<1>2. ASSUME Recovering, ~rec.errors, rec'.job = rec.job
      PROVE  SettledRow(rec.job)'
  <2>1. PICK j \in Jobs : j = rec.job
    BY <1>1, <1>2 DEF RecOK
  <2>2. SettledRow(j)
    BY <1>2, <2>1 DEF RecSettled
  <2>3. SettledRow(j)'
    BY <2>2, SettledStays
  <2> QED
    BY <1>2, <2>1, <2>3
<1>3. CASE rec' = rec
  BY <1>2, <1>3 DEF Recovering
<1>4. ASSUME NEW j \in Jobs, RecoverOrders(j)
      PROVE  SettledRow(rec.job)'
  <2>1. CASE run[j].status \notin Store!Ambiguous
    <3>1. rec' = [rec EXCEPT !.todo = @ \ {j}] /\ rec.pc = "next"
      BY <1>4, <2>1 DEF RecoverOrders, RecoverWith
    <3>2. rec \in RecRec
      BY <1>1 DEF RecOK
    <3>3. rec'.pc = "next"
      BY <3>1, <3>2 DEF RecRec
    <3> QED
      BY <3>3 DEF Recovering
  <2>2. CASE run[j].status \in Store!Ambiguous
    <3> DEFINE ids == DOMAIN saved[j]
               unproven == \/ ~FullyIdentified(run[j].intents, saved[j])
                           \/ \E id \in ids : book[id].live \/ Broker = "kabu"
    <3>1. PICK fails \in QueryFails :
              rec' = [pc |-> "positions", todo |-> rec.todo \ {j}, job |-> j,
                      known |-> ids, expected |-> Plus(run[j].start, FilledBy(ids)),
                      errors |-> unproven \/ fails]
      BY <1>4, <2>2 DEF RecoverOrders, RecoverWith
    <3>2. rec'.job = j /\ rec'.errors = (unproven \/ fails)
      BY <3>1
    <3>3. ~unproven
      BY <3>2
    <3>4. run[j].status \in Store!Submitted
      BY <2>2 DEF Store!Submitted
    <3>5. SettledRow(j)
      BY <3>3, <3>4, RecoverySettles
    <3>6. SettledRow(j)'
      BY <3>5, SettledStays
    <3> QED
      BY <3>2, <3>6
  <2> QED
    BY <2>1, <2>2
<1>5. CASE RecoverPositions
  <2>1. PICK fails \in QueryFails :
            rec' = [rec EXCEPT !.pc = "record",
                               !.errors = @ \/ fails \/ Position # rec.expected]
    BY <1>5 DEF RecoverPositions
  <2>2. rec \in RecRec /\ rec.pc = "positions"
    BY <1>1, <1>5 DEF RecOK, RecoverPositions
  <2>3. /\ rec'.job = rec.job
        /\ rec'.errors = (rec.errors \/ fails \/ Position # rec.expected)
    BY <2>1, <2>2 DEF RecRec
  <2> QED
    BY <1>2, <2>2, <2>3 DEF Recovering
<1>6. CASE RecoverRecord \/ RecoverCheckpoint
  <2>1. rec \in RecRec /\ rec.pc \in {"record", "checkpoint"}
    BY <1>1, <1>6 DEF RecOK, RecoverRecord, RecoverCheckpoint
  <2>2. \E label : rec' = [rec EXCEPT !.pc = label]
    BY <1>6 DEF RecoverRecord, RecoverCheckpoint
  <2>3. rec'.job = rec.job /\ rec'.errors = rec.errors
    BY <2>1, <2>2 DEF RecRec
  <2> QED
    BY <1>2, <2>1, <2>3 DEF Recovering
<1>7. CASE RecoverBegin \/ RecoverSettle \/ RecoverEnd \/ RecoverCrash
  <2>1. rec \in RecRec
    BY <1>1 DEF RecOK
  <2>2. rec'.pc \in {"idle", "next"}
    <3>1. CASE RecoverBegin
      <4>1. rec' = [rec EXCEPT !.pc = "next", !.todo = Candidates]
        BY <3>1 DEF RecoverBegin
      <4> HIDE DEF Candidates
      <4> QED
        BY <4>1, <2>1 DEF RecRec
    <3>2. CASE RecoverSettle
      BY <3>2 DEF RecoverSettle, NoRecovery
    <3>3. CASE RecoverEnd \/ RecoverCrash
      BY <3>3 DEF RecoverEnd, RecoverCrash, NoRecovery
    <3> QED
      BY <1>7, <3>1, <3>2, <3>3
  <2> QED
    BY <2>2 DEF Recovering
<1>8. CASE /\ ~RecoverBegin /\ ~RecoverSettle /\ ~RecoverEnd /\ ~RecoverCrash
           /\ ~RecoverRecord /\ ~RecoverCheckpoint /\ ~RecoverPositions
           /\ \A j \in Jobs : ~RecoverOrders(j)
  <2>1. rec' = rec
    BY <1>8, ZenonT(60) DEF Next, vars, RecoveryStep, ProcStep, Begin, ReadPositions, EnterLease, Prepare,
                RecordPlan, StartSubmission, GiveUp, Send, BatchReturns, Persist, PollEnds,
                RecordAll, MarkIncomplete, Report, FetchFills, VerifyPositions,
                RecordCheckpoint, Settle, Finish, AtStep, Crash, LeaseExpires, LeaseLapses,
                Market, Fill, Expire
  <2> QED
    BY <1>3, <2>1
<1> QED
  BY <1>4, <1>5, <1>6, <1>7, <1>8

\* A checkpoint that lets a run complete, and the completion, are of a settled
\* run.
LEMMA DoneStep ==
    ASSUME TypesInv, TypesInv', BudgetOK, [Next]_vars, RecSettled,
           \A p \in Procs : IdsOK(p) /\ AccountOK(p) /\ TodoOK(p) /\ VerifiedOK(p),
           NEW j \in Jobs, DoneOK(j)
    PROVE  DoneOK(j)'
<1>1. Store!TypeOK /\ RecOK /\ StartedInv /\ WorkTyped /\ (\A p \in Procs : WorkOK(p))
  BY DEF TypesInv, IInv
<1>2. SettledRow(j) => SettledRow(j)'
  BY SettledStays
<1>3. CASE run'[j].checkpoint = CleanComplete
  <2>1. RowMoves(j)
    BY <1>1, NextRows
  <2>2. CASE run[j].checkpoint = CleanComplete
    BY <1>2, <2>2 DEF DoneOK
  <2>3. ASSUME NEW p \in Procs, RecordCheckpoint(p), JobOf[p] = j, Confirmed(p)
        PROVE  DoneOK(j)'
    <3>1. SettledRow(j)
      BY <2>3, ProcessSettles
    <3> QED
      BY <1>2, <3>1 DEF DoneOK
  <2>4. CASE RecoverCheckpoint /\ rec.job = j /\ ~rec.errors
    <3>1. Recovering
      BY <2>4 DEF RecoverCheckpoint, Recovering
    <3>2. SettledRow(j)
      BY <2>4, <3>1 DEF RecSettled
    <3> QED
      BY <1>2, <3>2 DEF DoneOK
  <2> QED
    BY <1>3, <2>1, <2>2, <2>3, <2>4 DEF RowMoves
<1>4. CASE run'[j].status = "completed"
  <2>1. CASE run[j].status = "completed"
    BY <1>2, <2>1 DEF DoneOK
  <2>2. CASE run[j].status # "completed"
    <3>1. Store!Next \/ run' = run
      BY <1>1, NextStore
    <3>2. run[j].checkpoint.outcome = "complete" /\ run[j].checkpoint.clean
      BY <1>1, <1>4, <2>2, <3>1, StoreKeeps
    <3>3. run[j] \in Store!Rows
      BY <1>1 DEF Store!TypeOK
    <3>4. run[j].checkpoint \in Store!Checkpoints
      BY <3>3 DEF Store!Rows
    <3>5. run[j].checkpoint = CleanComplete
      BY <3>2, <3>4 DEF Store!Checkpoints, CleanComplete
    <3> QED
      BY <1>2, <3>5 DEF DoneOK
  <2> QED
    BY <2>1, <2>2
<1> QED
  BY <1>3, <1>4 DEF DoneOK

-----------------------------------------------------------------------------
(***************************************************************************)
(* One process at a time has something to send.                            *)
(***************************************************************************)
HasUnsent(p) == Started(p) /\ Unsent(p, All) > 0

OneUnsent == \A p, q \in Procs : HasUnsent(p) /\ HasUnsent(q) => p = q

\* A process gets something to send by starting its submission only.
LEMMA UnsentStep ==
    ASSUME TypesInv, TypesInv', [Next]_vars, NEW p \in Procs, HasUnsent(p)'
    PROVE  HasUnsent(p) \/ (StartSubmission(p) /\ Alone(p))
<1>1. Started(p)'
  BY DEF HasUnsent
<1>2. WorkTyped /\ PcTyped /\ BookOK /\ WorkOK(p)
  BY DEF TypesInv, IInv
<1>3. Unsent(p, All) \in Nat
  BY <1>2, UnsentType
<1>4. CASE pc'[p] = pc[p] /\ work'[p] = work[p]
  BY <1>4 DEF HasUnsent, Started, Unsent, CurrentBatch
<1>5. ASSUME ProcStep(p), Alone(p), Started(p)
      PROVE  HasUnsent(p)
  <2>1. ASSUME NEW n, NEW r, SendMoves(p, n, r)
        PROVE  HasUnsent(p)
    BY <1>5, <2>1, SendingUnsent DEF HasUnsent
  <2>2. CASE \A n, r : ~SendMoves(p, n, r)
    <3>1. Unsent(p, All)' <= Unsent(p, All) /\ Unsent(p, All)' \in Nat
      BY <1>1, <1>2, <1>5, <2>2, UnsentMove
    <3> QED
      BY <1>3, <1>5, <3>1 DEF HasUnsent
  <2> QED
    BY <2>1, <2>2
<1>6. ASSUME ProcStep(p), Alone(p), ~Started(p)
      PROVE  StartSubmission(p)
  <2>1. CASE StartMove(p)
    BY <2>1 DEF StartMove
  <2>2. CASE ~StartMove(p)
    <3>1. \/ \E n, r : SendMoves(p, n, r)
          \/ BatchReturns(p) \/ Persist(p) \/ PollEnds(p) \/ CloseMove(p)
      BY <1>1, <1>6, <2>2, StartedMoves
    <3> QED
      BY <1>6, <3>1 DEF SendMoves, BatchReturns, Persist, PollEnds, CloseMove, Started
  <2> QED
    BY <2>1, <2>2
<1> QED
  BY <1>1, <1>4, <1>5, <1>6, ProcessMoves

LEMMA OneUnsentStep ==
    ASSUME TypesInv, TypesInv', BudgetOK, [Next]_vars, \A j \in Jobs : DoneOK(j), OneUnsent
    PROVE  OneUnsent'
<1>1. ASSUME NEW p \in Procs, NEW q \in Procs, p # q, StartSubmission(p), HasUnsent(q)
      PROVE  FALSE
  <2>1. Started(q) /\ Unsent(q, All) > 0
    BY <1>1 DEF HasUnsent
  <2>2. JobOf[q] \in Jobs /\ run[JobOf[q]].status \in Store!Submitted
    BY <2>1, StartedWork
  <2>3. run[JobOf[p]].status \notin Store!Submitted
    BY <1>1, StartFrom DEF TypesInv, IInv
  <2>4. JobOf[q] # JobOf[p]
    BY <2>2, <2>3
  <2>5. ~Store!UnresolvedRun(JobOf[p])
    BY <1>1 DEF StartSubmission, Store!MarkSubmissionStarted
  <2>6. run[JobOf[q]].status \notin Store!Ambiguous
    BY <2>2, <2>4, <2>5 DEF Store!UnresolvedRun
  <2>7. run[JobOf[q]].status = "completed"
    BY <2>2, <2>6 DEF Store!Submitted
  <2>8. SettledRow(JobOf[q])
    BY <2>2, <2>7 DEF DoneOK
  <2>9. Unsent(q, All) = 0
    BY <2>1, <2>8, SettledUnsent DEF BudgetOK
  <2> QED
    BY <2>1, <2>9
<1>2. ASSUME NEW p \in Procs, NEW q \in Procs, HasUnsent(p)', HasUnsent(q)', p # q
      PROVE  FALSE
  <2>1. HasUnsent(p) \/ (StartSubmission(p) /\ Alone(p))
    BY <1>2, UnsentStep
  <2>2. HasUnsent(q) \/ (StartSubmission(q) /\ Alone(q))
    BY <1>2, UnsentStep
  <2>3. CASE HasUnsent(p) /\ HasUnsent(q)
    BY <1>2, <2>3 DEF OneUnsent
  <2>4. CASE StartSubmission(p) /\ HasUnsent(q)
    BY <1>1, <1>2, <2>4
  <2>5. CASE StartSubmission(q) /\ HasUnsent(p)
    BY <1>1, <1>2, <2>5
  <2>6. CASE StartSubmission(p) /\ Alone(p) /\ StartSubmission(q)
    <3>1. pc[q] = "start" /\ pc'[q] = pc[q]
      BY <1>2, <2>6 DEF StartSubmission, Alone
    <3> QED
      BY <1>2, <3>1 DEF HasUnsent, Started
  <2> QED
    BY <2>1, <2>2, <2>3, <2>4, <2>5, <2>6
<1> QED
  BY <1>2 DEF OneUnsent

-----------------------------------------------------------------------------
(***************************************************************************)
(* All of it together.                                                     *)
(***************************************************************************)
SettledOK ==
    /\ BudgetOK /\ AccountsOK /\ RecSettled /\ OneUnsent
    /\ \A p \in Procs : TodoOK(p) /\ VerifiedOK(p)
    /\ \A j \in Jobs : DoneOK(j)

\* A run is completed, or may be, only when it is settled; and only one run has
\* something left to send.
LEMMA SettledInvariant == Spec => [](TypesInv /\ SettledOK)
<1>1. Init => /\ RecSettled /\ OneUnsent
              /\ \A p \in Procs : TodoOK(p) /\ VerifiedOK(p)
              /\ \A j \in Jobs : DoneOK(j)
  <2> SUFFICES ASSUME Init
               PROVE  /\ RecSettled /\ OneUnsent
                      /\ \A p \in Procs : TodoOK(p) /\ VerifiedOK(p)
                      /\ \A j \in Jobs : DoneOK(j)
    OBVIOUS
  <2>1. RecSettled
    BY DEF Init, NoRecovery, RecSettled, Recovering
  <2>2. \A p \in Procs : ~Started(p) /\ ~Working(p)
    BY DEF Init, Started, Working
  <2>3. OneUnsent /\ \A p \in Procs : TodoOK(p) /\ VerifiedOK(p)
    BY <2>2 DEF OneUnsent, HasUnsent, TodoOK, VerifiedOK
  <2>4. \A j \in Jobs : DoneOK(j)
    <3> TAKE j \in Jobs
    <3>1. run[j].status = "absent" /\ run[j].checkpoint = Store!NoCheckpoint
      BY DEF Init, Store!Absent
    <3>2. Store!NoCheckpoint # CleanComplete
      BY DEF Store!NoCheckpoint, CleanComplete
    <3> QED
      BY <3>1, <3>2 DEF DoneOK
  <2> QED
    BY <2>1, <2>3, <2>4
<1> DEFINE Rest == /\ RecSettled /\ OneUnsent
                   /\ \A p \in Procs : TodoOK(p) /\ VerifiedOK(p)
                   /\ \A j \in Jobs : DoneOK(j)
<1>2. TypesInv /\ TypesInv' /\ BudgetOK /\ AccountsOK /\ Rest /\ [Next]_vars => Rest'
  <2> SUFFICES ASSUME TypesInv, TypesInv', BudgetOK, AccountsOK, Rest, [Next]_vars
               PROVE  Rest'
    OBVIOUS
  <2>1. RecSettled'
    BY RecSettledStep
  <2>2. \A p \in Procs : TodoOK(p)' /\ VerifiedOK(p)'
    BY TodoMoves
  <2>3. \A j \in Jobs : DoneOK(j)'
    <3> TAKE j \in Jobs
    <3>1. \A p \in Procs : IdsOK(p) /\ AccountOK(p) /\ TodoOK(p) /\ VerifiedOK(p)
      BY DEF AccountsOK
    <3> QED
      BY <3>1, DoneStep
  <2>4. OneUnsent'
    BY OneUnsentStep
  <2> QED
    BY <2>1, <2>2, <2>3, <2>4
<1>3. Init => Rest
  BY <1>1
<1>4. TypesInv /\ BudgetOK /\ AccountsOK /\ Rest => TypesInv /\ SettledOK
  BY DEF SettledOK
<1> HIDE DEF Rest
<1> QED
  BY <1>2, <1>3, <1>4, BudgetInvariant, AccountsInvariant, PTL DEF Spec

\* Whoever completes a run, its process or recovery, and whatever crashed before:
\* its whole plan has reached the broker, every order of it is attributed in the
\* store, and none of them can still fill.  With either broker.
THEOREM CompletedSettled == Spec => []CompletedMeansSettled
<1>1. TypesInv /\ SettledOK => CompletedMeansSettled
  <2> SUFFICES ASSUME SettledOK, NEW j \in Jobs, run[j].status = "completed"
               PROVE  /\ FullyIdentified(run[j].intents, saved[j])
                      /\ DOMAIN saved[j] = OrdersOf(j)
                      /\ \A id \in OrdersOf(j) : ~book[id].live
    BY DEF CompletedMeansSettled
  <2>1. SettledIn(book, run[j].intents, saved[j], j)
    BY DEF SettledOK, DoneOK, SettledRow
  <2>2. OrdersOf(j) = OrdersIn(book, j)
    BY DEF OrdersOf, OrdersIn
  <2> QED
    BY <2>1, <2>2 DEF SettledIn
<1> QED
  BY <1>1, SettledInvariant, PTL

\* Two processes are never both about to send an order, also when a live process
\* lost its lease: the store admits the second when the first run is settled, and
\* then its process has nothing left to send.
THEOREM OneSender == Spec => []SendingIsExclusive
<1>1. TypesInv /\ SettledOK => SendingIsExclusive
  <2> SUFFICES ASSUME TypesInv, SettledOK, NEW p \in Procs, Sending(p)
               PROVE  HasUnsent(p)
    BY DEF SendingIsExclusive, SettledOK, OneUnsent
  <2>1. pc[p] = "send" /\ Len(work[p].batch) < Len(CurrentBatch(p).orders) /\ Started(p)
    BY DEF Sending, Started
  <2>2. WorkTyped /\ WorkOK(p)
    BY DEF TypesInv
  <2>3. work[p].queue # <<>>
    BY <2>1, <2>2 DEF WorkOK
  <2>4. CurrentBatch(p).orders \in Seq(Intent) /\ work[p].batch \in Seq(ResultRec)
    BY <2>2, <2>3, HeadType
  <2>5. PICK orders \in Seq(Intent) : orders = CurrentBatch(p).orders
    BY <2>4
  <2>6. PICK n \in Nat : n = Len(work[p].batch)
    BY <2>4
  <2>7. n + 1 \in DOMAIN orders /\ n < Len(orders)
    BY <2>1, <2>5, <2>6
  <2>8. /\ RestOf(orders, n, All) = Weight(orders[n + 1], All) + RestOf(orders, n + 1, All)
        /\ RestOf(orders, n + 1, All) \in Nat
    <3>1. \A k \in Nat : RestOf(orders, k, All) \in Nat
      BY RestIs
    <3>2. \A k \in Nat : k < Len(orders) =>
              RestOf(orders, k, All) = Weight(orders[k + 1], All) + RestOf(orders, k + 1, All)
      BY RestIs
    <3> QED
      BY <2>7, <3>1, <3>2
  <2>9. orders[n + 1] \in Intent
    BY <2>5, <2>7
  <2>10. /\ orders[n + 1].qty \in Nat \ {0}
         /\ <<orders[n + 1].ticker, orders[n + 1].side>> \in Pairs
    BY <2>9 DEF Intent, Pairs, Sides
  <2>11. KeyOf(orders[n + 1]) \in All
    BY <2>9, <2>10, GroupKey DEF All
  <2>12. Weight(orders[n + 1], All) = orders[n + 1].qty
    BY <2>11 DEF Weight
  <2>13. RestOf(orders, n, All) \in Nat /\ RestOf(orders, n, All) > 0
    BY <2>8, <2>10, <2>12
  <2>14. work[p].queue \in Seq(BatchRec)
    BY <2>2 DEF WorkTyped, WorkRec
  <2>15. Tail(work[p].queue) \in Seq(BatchRec)
    BY <2>3, <2>14
  <2>16. QueueQty(Tail(work[p].queue), All) \in Nat
    BY <2>15, QueueType
  <2>17. Unsent(p, All) = RestOf(orders, n, All) + QueueQty(Tail(work[p].queue), All)
    BY <2>1, <2>3, <2>5, <2>6 DEF Unsent
  <2> QED
    BY <2>1, <2>13, <2>16, <2>17 DEF HasUnsent
<1> QED
  BY <1>1, SettledInvariant, PTL

-----------------------------------------------------------------------------
(***************************************************************************)
(* The subsystem keeps the promise of TradingDay while no live process     *)
(* loses its lease: nothing moves the inventory but the open run, and a    *)
(* run is only closed when its start and its own fills explain what is     *)
(* held.                                                                   *)
(***************************************************************************)

(***************************************************************************)
(* Fills of a set of orders, ticker by ticker.                             *)
(***************************************************************************)
Gain(o) == Signed([o EXCEPT !.qty = o.filled])

GainIn(b, ids, t, id) == IF id \in ids /\ b[id].ticker = t THEN Gain(b[id]) ELSE 0
Gains(b, ids, t) == [id \in DOMAIN b |-> GainIn(b, ids, t, id)]
NetOf(b, ids, t) == SumFunction(Gains(b, ids, t))
Net(b, ids) == [t \in TickerSet |-> NetOf(b, ids, t)]

\* Today's inventory and the fills of a run, in these terms.
DayNet(b) == Plus(Opening, Net(b, DOMAIN b))
RunNet(b, j) == Net(b, OrdersIn(b, j))

LEMMA NetIs ==
    /\ \A ids : FilledBy(ids) = Net(book, ids)
    /\ Position = DayNet(book) /\ Position' = DayNet(book')
    /\ \A j : FilledBy(OrdersOf(j)) = RunNet(book, j)
    /\ \A j : FilledBy(OrdersOf(j))' = RunNet(book', j)
<1>1. \A ids : FilledBy(ids) = Net(book, ids)
  BY DEF FilledBy, Net, NetOf, Gains, GainIn, Gain
<1>2. Position = DayNet(book)
  BY <1>1 DEF Position, DayNet
<1>3. Position' = DayNet(book')
  BY DEF Position, DayNet, FilledBy, Net, NetOf, Gains, GainIn, Gain, Plus
<1>4. \A j : FilledBy(OrdersOf(j)) = RunNet(book, j)
  BY <1>1 DEF RunNet, OrdersOf, OrdersIn
<1>5. \A j : FilledBy(OrdersOf(j))' = RunNet(book', j)
  BY DEF RunNet, OrdersOf, OrdersIn, FilledBy, Net, NetOf, Gains, GainIn, Gain
<1> QED
  BY <1>1, <1>2, <1>3, <1>4, <1>5

LEMMA GainType ==
    ASSUME NEW o \in BookOrder
    PROVE  /\ Gain(o) \in Int /\ (o.filled = 0 => Gain(o) = 0)
           /\ \A c \in BookOrder : c.side = o.side /\ c.filled = o.filled => Gain(c) = Gain(o)
BY DEF Gain, Signed, BookOrder

LEMMA NetType ==
    ASSUME NEW b \in Seq(BookOrder), NEW ids, NEW t
    PROVE  /\ DOMAIN Gains(b, ids, t) = DOMAIN b /\ IsFiniteSet(DOMAIN b)
           /\ \A id \in DOMAIN b : /\ Gains(b, ids, t)[id] = GainIn(b, ids, t, id)
                                   /\ GainIn(b, ids, t, id) \in Int
           /\ NetOf(b, ids, t) = SumFunctionOnSet(Gains(b, ids, t), DOMAIN b)
           /\ NetOf(b, ids, t) \in Int
<1>1. DOMAIN b = 1 .. Len(b) /\ Len(b) \in Nat
  OBVIOUS
<1>2. ASSUME NEW id \in DOMAIN b PROVE GainIn(b, ids, t, id) \in Int
  <2>1. b[id] \in BookOrder
    OBVIOUS
  <2> QED
    BY <2>1, GainType DEF GainIn
<1>3. IsFiniteSet(DOMAIN b)
  BY <1>1, FS_Interval
<1> DEFINE v == Gains(b, ids, t)
<1>4. DOMAIN v = DOMAIN b /\ \A id \in DOMAIN b : v[id] = GainIn(b, ids, t, id) /\ v[id] \in Int
  BY <1>2 DEF Gains
<1>5. NetOf(b, ids, t) = SumFunctionOnSet(v, DOMAIN v)
  BY DEF NetOf, SumFunction
<1> HIDE DEF v
<1>6. SumFunctionOnSet(v, DOMAIN b) \in Int
  BY <1>3, <1>4, SumInt
<1> QED
  BY <1>3, <1>4, <1>5, <1>6, <1>2 DEF v

\* c is b, with more orders that have no fills.
NoFills(b, c) ==
    /\ \A id \in DOMAIN b :
          /\ id \in DOMAIN c /\ SameOrder(b[id], c[id]) /\ c[id].filled = b[id].filled
    /\ \A id \in DOMAIN c \ DOMAIN b : c[id].filled = 0

PartOf(f, g, S, A) ==
    /\ IsFiniteSet(S) /\ A \in SUBSET S
    /\ \A x \in A : f[x] \in Int /\ g[x] = f[x]
    /\ \A x \in S \ A : g[x] = 0

LEMMA PartSum ==
    \A f, g, S, A : PartOf(f, g, S, A) => SumFunctionOnSet(g, S) = SumFunctionOnSet(f, A)
BY SumRestrict DEF PartOf

LEMMA NetSame ==
    ASSUME NEW b \in Seq(BookOrder), NEW c \in Seq(BookOrder), NoFills(b, c), NEW ids, NEW more,
           \A id \in DOMAIN b : id \in ids <=> id \in more
    PROVE  Net(c, more) = Net(b, ids)
<1> SUFFICES ASSUME NEW t \in TickerSet PROVE NetOf(c, more, t) = NetOf(b, ids, t)
  BY DEF Net
<1> DEFINE f == Gains(b, ids, t)
           g == Gains(c, more, t)
<1>1. /\ IsFiniteSet(DOMAIN b) /\ NetOf(b, ids, t) = SumFunctionOnSet(f, DOMAIN b)
      /\ \A id \in DOMAIN b : f[id] = GainIn(b, ids, t, id) /\ f[id] \in Int
  BY NetType
<1>2. /\ IsFiniteSet(DOMAIN c) /\ NetOf(c, more, t) = SumFunctionOnSet(g, DOMAIN c)
      /\ \A id \in DOMAIN c : g[id] = GainIn(c, more, t, id)
  BY NetType
<1> HIDE DEF f, g
<1>3. \A id \in DOMAIN b : f[id] \in Int /\ g[id] = f[id]
  <2> TAKE id \in DOMAIN b
  <2>1. b[id] \in BookOrder /\ id \in DOMAIN c /\ SameOrder(b[id], c[id])
        /\ c[id].filled = b[id].filled
    BY DEF NoFills
  <2>2. c[id] \in BookOrder
    BY <2>1
  <2>3. Gain(c[id]) = Gain(b[id])
    BY <2>1, <2>2, GainType DEF SameOrder
  <2> QED
    BY <1>1, <1>2, <2>1, <2>3 DEF GainIn, SameOrder
<1>4. \A id \in DOMAIN c \ DOMAIN b : g[id] = 0
  <2> TAKE id \in DOMAIN c \ DOMAIN b
  <2>1. c[id] \in BookOrder /\ c[id].filled = 0
    BY DEF NoFills
  <2>2. Gain(c[id]) = 0
    BY <2>1, GainType
  <2> QED
    BY <1>2, <2>2 DEF GainIn
<1>5. DOMAIN b \subseteq DOMAIN c
  BY DEF NoFills
<1>6. PartOf(f, g, DOMAIN c, DOMAIN b)
  BY <1>2, <1>3, <1>4, <1>5 DEF PartOf
<1>7. SumFunctionOnSet(g, DOMAIN c) = SumFunctionOnSet(f, DOMAIN b)
  BY <1>6, PartSum
<1> QED
  BY <1>1, <1>2, <1>7

\* One order is filled further: every set it is in gains the same.
Gained(b, c, ids, gain) ==
    Net(c, ids) = [t \in TickerSet |-> Net(b, ids)[t] + gain[t]]

LEMMA NetFill ==
    ASSUME NEW b \in Seq(BookOrder), NEW c \in Seq(BookOrder), NEW e \in DOMAIN b,
           DOMAIN c = DOMAIN b, \A id \in DOMAIN b : SameOrder(b[id], c[id]),
           \A id \in DOMAIN b \ {e} : c[id] = b[id]
    PROVE  \E gain \in Inventories : \A ids :
              /\ e \in ids => Gained(b, c, ids, gain)
              /\ e \notin ids => Net(c, ids) = Net(b, ids)
<1> DEFINE gain == [t \in TickerSet |->
                       IF b[e].ticker = t THEN Gain(c[e]) - Gain(b[e]) ELSE 0]
<1>1. b[e] \in BookOrder /\ c[e] \in BookOrder /\ c[e].ticker = b[e].ticker
  BY DEF SameOrder
<1>2. Gain(b[e]) \in Int /\ Gain(c[e]) \in Int
  BY <1>1, GainType
<1>3. gain \in Inventories
  BY <1>2 DEF Inventories
<1>4. ASSUME NEW ids, NEW t \in TickerSet
      PROVE  /\ NetOf(b, ids, t) \in Int
             /\ NetOf(c, ids, t) = NetOf(b, ids, t) + (IF e \in ids THEN gain[t] ELSE 0)
  <2> DEFINE f == Gains(b, ids, t)
             g == Gains(c, ids, t)
  <2>1. /\ IsFiniteSet(DOMAIN b) /\ NetOf(b, ids, t) = SumFunctionOnSet(f, DOMAIN b)
        /\ NetOf(b, ids, t) \in Int
        /\ \A id \in DOMAIN b : f[id] = GainIn(b, ids, t, id) /\ f[id] \in Int
    BY NetType
  <2>2. /\ NetOf(c, ids, t) = SumFunctionOnSet(g, DOMAIN c)
        /\ \A id \in DOMAIN c : g[id] = GainIn(c, ids, t, id) /\ g[id] \in Int
    BY NetType
  <2> HIDE DEF f, g
  <2>3. PICK S : S = DOMAIN b
    OBVIOUS
  <2>4. \A id \in S : f[id] \in Int /\ g[id] \in Int
    BY <2>1, <2>2, <2>3
  <2>5. \A id \in S \ {e} : f[id] = g[id]
    BY <2>1, <2>2, <2>3 DEF GainIn
  <2>6. SumFunctionOnSet(g, S) = SumFunctionOnSet(f, S) + (g[e] - f[e])
    BY <2>1, <2>3, <2>4, <2>5, SumChange
  <2>7. g[e] - f[e] = IF e \in ids THEN gain[t] ELSE 0
    BY <2>1, <2>2, <1>1, <1>2 DEF GainIn
  <2> QED
    BY <2>1, <2>2, <2>3, <2>6, <2>7
<1> HIDE DEF gain
<1>5. ASSUME NEW ids, e \in ids PROVE Gained(b, c, ids, gain)
  BY <1>4, <1>5 DEF Gained, Net
<1>6. ASSUME NEW ids, e \notin ids PROVE Net(c, ids) = Net(b, ids)
  <2>1. \A t \in TickerSet : NetOf(c, ids, t) = NetOf(b, ids, t)
    <3> TAKE t \in TickerSet
    <3>1. NetOf(b, ids, t) \in Int /\ NetOf(c, ids, t) = NetOf(b, ids, t) + 0
      BY <1>4, <1>6
    <3> QED
      BY <3>1
  <2> QED
    BY <2>1 DEF Net
<1> QED
  BY <1>3, <1>5, <1>6

-----------------------------------------------------------------------------
(***************************************************************************)
(* A step fills one order further, or none.                                *)
(***************************************************************************)
FillOne == \E id \in DOMAIN book : \E qty : qty \in Nat /\ Fill(id, qty)

LEMMA FillStep ==
    ASSUME TypesInv, TypesInv', [Next]_vars
    PROVE  FillOne \/ NoFills(book, book')
<1>1. PcTyped /\ WorkTyped /\ BookOK /\ BookOK' /\ \A p \in Procs : WorkOK(p)
  BY DEF TypesInv, IInv
<1>2. book \in Seq(BookOrder)
  BY <1>1 DEF BookOK
<1>3. CASE book' = book
  BY <1>3 DEF NoFills, SameOrder
<1>4. ASSUME book' = [id \in DOMAIN book |-> book'[id]],
             \A id \in DOMAIN book : SameOrder(book[id], book'[id])
                                     /\ book'[id].filled = book[id].filled
      PROVE  NoFills(book, book')
  BY <1>4 DEF NoFills
<1>5. ASSUME NEW p \in Procs, BatchReturns(p)
      PROVE  NoFills(book, book')
  <2>1. PICK cancelled : book' = [id \in DOMAIN book |->
                                    IF id \in cancelled
                                    THEN [book[id] EXCEPT !.live = FALSE]
                                    ELSE book[id]]
    BY <1>5 DEF BatchReturns
  <2>2. \A id \in DOMAIN book : SameOrder(book[id], book'[id])
                                /\ book'[id].filled = book[id].filled
    <3> TAKE id \in DOMAIN book
    <3>1. book[id] \in BookOrder
      BY <1>2
    <3>2. book'[id] = IF id \in cancelled THEN [book[id] EXCEPT !.live = FALSE] ELSE book[id]
      BY <2>1
    <3> QED
      BY <3>1, <3>2 DEF BookOrder, SameOrder
  <2>3. book' = [id \in DOMAIN book |-> book'[id]]
    BY <2>1
  <2> QED
    BY <1>4, <2>2, <2>3
<1>6. ASSUME NEW id \in DOMAIN book, Expire(id)
      PROVE  NoFills(book, book')
  <2>1. book' = [book EXCEPT ![id].live = FALSE]
    BY <1>6 DEF Expire
  <2>2. \A other \in DOMAIN book : SameOrder(book[other], book'[other])
                                   /\ book'[other].filled = book[other].filled
    <3> TAKE other \in DOMAIN book
    <3>1. book[other] \in BookOrder
      BY <1>2
    <3>2. book'[other] = IF other = id THEN [book[other] EXCEPT !.live = FALSE] ELSE book[other]
      BY <2>1, <1>2
    <3> QED
      BY <3>1, <3>2 DEF BookOrder, SameOrder
  <2>3. book' = [other \in DOMAIN book |-> book'[other]]
    BY <2>1, <1>2
  <2> QED
    BY <1>4, <2>2, <2>3
<1>7. ASSUME NEW id \in DOMAIN book, NEW qty \in 1 .. book[id].qty, Fill(id, qty)
      PROVE  FillOne
  <2>0. book[id] \in BookOrder
    BY <1>2
  <2>1. book[id].qty \in Nat
    BY <2>0 DEF BookOrder
  <2>2. qty \in Nat
    BY <2>1
  <2> QED
    BY <1>7, <2>2 DEF FillOne
<1>8. ASSUME NEW p \in Procs, NEW n, NEW r, SendMoves(p, n, r)
      PROVE  NoFills(book, book')
  <2>1. /\ n \in Nat /\ DOMAIN book' = 1 .. Len(book) + n
        /\ \A id \in DOMAIN book : book'[id] = book[id]
        /\ \A id \in (Len(book) + 1) .. (Len(book) + n) : book'[id] = Sent(p, NextOrder(p))
    BY <1>8 DEF SendMoves, SendsOrders
  <2>2. DOMAIN book = 1 .. Len(book) /\ Len(book) \in Nat
    BY <1>2
  <2>3. Sent(p, NextOrder(p)).filled = 0
    BY DEF Sent
  <2>4. DOMAIN book \subseteq DOMAIN book'
    BY <2>1, <2>2
  <2>5. \A id \in DOMAIN book' \ DOMAIN book : book'[id].filled = 0
    BY <2>1, <2>2, <2>3
  <2> QED
    BY <2>1, <2>4, <2>5 DEF NoFills, SameOrder
<1>9. ASSUME NEW p \in Procs, NEW outcome \in SubmitOutcomes, NEW unanswered \in Unanswered,
             Send(p, outcome, unanswered)
      PROVE  NoFills(book, book')
  <2>1. PICK n, r : SendMoves(p, n, r)
    BY <1>1, <1>9, SendIs
  <2> QED
    BY <1>8, <2>1
<1>10. CASE /\ \A p \in Procs : ~BatchReturns(p)
            /\ \A p \in Procs : \A outcome \in SubmitOutcomes, unanswered \in Unanswered :
                   ~Send(p, outcome, unanswered)
            /\ ~Market
  <2>1. book' = book
    BY <1>10 DEF Next, vars, RecoveryStep, ProcStep, Begin, ReadPositions, EnterLease, Prepare,
                 RecordPlan, StartSubmission, GiveUp, Persist, PollEnds,
                 RecordAll, MarkIncomplete, Report, FetchFills, VerifyPositions,
                 RecordCheckpoint, Settle, Finish, AtStep, Crash, LeaseExpires, LeaseLapses,
                 RecoverBegin, RecoverOrders, RecoverWith, RecoverPositions, RecoverRecord,
                 RecoverCheckpoint, RecoverSettle, RecoverEnd, RecoverCrash
  <2> QED
    BY <1>3, <2>1
<1> QED
  BY <1>5, <1>6, <1>7, <1>9, <1>10 DEF Market

-----------------------------------------------------------------------------
(***************************************************************************)
(* What a step does to the status of a run.                                *)
(***************************************************************************)
\* p may still send, record or settle.
Active(p) == Started(p) /\ (pc[p] = "close" => work[p].todo # <<>>)

\* p, or recovery, completes the run of j.
Completes(p, j) == Settle(p) /\ Confirmed(p) /\ JobOf[p] = j
Resolves(j) == RecoverSettle /\ ~rec.errors /\ rec.job = j

StatusMoves(j) ==
    \/ run'[j].status = run[j].status
    \/ run[j].status \notin Store!Submitted /\ run'[j].status \notin Store!Submitted
    \/ \E p \in Procs : StartSubmission(p) /\ JobOf[p] = j
    \/ /\ run'[j].status = "reconciliation_required"
       /\ \/ \E p \in Procs : Active(p) /\ JobOf[p] = j
          \/ Recovering /\ rec.job = j
    \/ /\ run'[j].status = "completed"
       /\ (\E p \in Procs : Completes(p, j)) \/ Resolves(j)

\* Operations that submit and complete nothing.
LEMMA PlainStatus ==
    ASSUME RunTyped, NEW k \in Jobs, NEW j \in Jobs,
           \/ \E d : Store!PrepareRun(k, d)
           \/ \E d, inv : Store!RecordPlan(k, d, inv)
           \/ \E outcome, clean : Store!RecordReconciliation(k, outcome, clean)
    PROVE  StatusMoves(j)
<1>1. ASSUME NEW d, Store!CreateRun(k, d) PROVE StatusMoves(j)
  <2>1. /\ run[k].status = "absent"
        /\ run' = [run EXCEPT ![k] = [status |-> "prepared", decision |-> d, intents |-> None,
                                      start |-> None, checkpoint |-> Store!NoCheckpoint]]
    BY <1>1 DEF Store!CreateRun
  <2>2. run'[k].status = "prepared" /\ (j # k => run'[j].status = run[j].status)
    BY <2>1 DEF RunTyped
  <2> QED
    BY <2>1, <2>2 DEF StatusMoves, Store!Submitted, Store!Ambiguous
<1>2. ASSUME NEW d, Store!ResumeRun(k, d) PROVE StatusMoves(j)
  <2>1. Store!Transition(k, Store!Resumable, "prepared")
    BY <1>2 DEF Store!ResumeRun
  <2>2. /\ run'[k].status = "prepared" /\ run[k].status \in Store!Resumable
        /\ j # k => run'[j].status = run[j].status
    BY <2>1, TransitionStep
  <2> QED
    BY <2>2 DEF StatusMoves, Store!Submitted, Store!Ambiguous, Store!Resumable
<1>3. ASSUME NEW d, NEW inv, Store!RecordPlan(k, d, inv) PROVE StatusMoves(j)
  <2>1. run' = [run EXCEPT ![k] = [status |-> run[k].status, decision |-> run[k].decision,
                                   intents |-> d, start |-> inv,
                                   checkpoint |-> run[k].checkpoint]]
    BY <1>3 DEF Store!RecordPlan
  <2>2. run'[j].status = run[j].status
    BY <2>1 DEF RunTyped
  <2> QED
    BY <2>2 DEF StatusMoves
<1>4. ASSUME NEW outcome, NEW clean, Store!RecordReconciliation(k, outcome, clean)
      PROVE  StatusMoves(j)
  <2>1. PICK checkpoint : run' = [run EXCEPT ![k].checkpoint = checkpoint]
    BY <1>4 DEF Store!RecordReconciliation
  <2>2. run'[j].status = run[j].status
    BY <2>1 DEF RunTyped
  <2> QED
    BY <2>2 DEF StatusMoves
<1> QED
  BY <1>1, <1>2, <1>3, <1>4 DEF Store!PrepareRun

LEMMA NextStatus ==
    ASSUME TypesInv, [Next]_vars, NEW j \in Jobs
    PROVE  StatusMoves(j)
<1>0. RunTyped /\ RecOK
  BY DEF TypesInv, IInv
<1>1. CASE run' = run
  BY <1>1 DEF StatusMoves
<1>2. ASSUME NEW p \in Procs, ProcStep(p)
      PROVE  StatusMoves(j)
  <2> DEFINE k == JobOf[p]
  <2>0. k \in Jobs
    BY ExecutionAssumption
  <2>1. CASE Prepare(p) \/ RecordPlan(p) \/ Report(p) \/ RecordCheckpoint(p)
    <3>1. \/ \E d : Store!PrepareRun(k, d)
          \/ \E d, inv : Store!RecordPlan(k, d, inv)
          \/ \E outcome, clean : Store!RecordReconciliation(k, outcome, clean)
      BY <2>1 DEF Prepare, RecordPlan, Report, RecordCheckpoint
    <3> QED
      BY <1>0, <2>0, <3>1, PlainStatus
  <2>2. CASE StartSubmission(p)
    <3>1. Store!Transition(k, {"prepared"}, "executing")
      BY <2>2 DEF StartSubmission, Store!MarkSubmissionStarted
    <3>2. j # k => run'[j].status = run[j].status
      BY <1>0, <3>1, TransitionStep
    <3> QED
      BY <2>2, <3>2 DEF StatusMoves
  <2>3. CASE MarkIncomplete(p) \/ Settle(p)
    <3>1. Active(p)
      BY <2>3 DEF MarkIncomplete, Settle, AtStep, Active, Started
    <3>2. ASSUME Store!MarkReconciliationRequired(k) PROVE StatusMoves(j)
      <4>1. Store!Transition(k, {"prepared"} \cup Store!Submitted, "reconciliation_required")
        BY <3>2 DEF Store!MarkReconciliationRequired
      <4>2. /\ j # k => run'[j].status = run[j].status
            /\ run'[k].status = "reconciliation_required"
        BY <1>0, <2>0, <4>1, TransitionStep
      <4> QED
        BY <3>1, <4>2 DEF StatusMoves
    <3>3. ASSUME Settle(p), Confirmed(p), Store!MarkCompleted(k) PROVE StatusMoves(j)
      <4>1. Store!Transition(k, Store!Ambiguous, "completed")
        BY <3>3 DEF Store!MarkCompleted
      <4>2. /\ j # k => run'[j].status = run[j].status
            /\ run'[k].status = "completed"
        BY <1>0, <2>0, <4>1, TransitionStep
      <4> QED
        BY <3>3, <4>2 DEF StatusMoves, Completes
    <3>4. \/ run' = run
          \/ Store!MarkReconciliationRequired(k)
          \/ Settle(p) /\ Confirmed(p) /\ Store!MarkCompleted(k)
      <4>1. CASE MarkIncomplete(p)
        BY <4>1 DEF MarkIncomplete
      <4>2. CASE Settle(p) /\ ~Confirmed(p)
        BY <4>2 DEF Settle
      <4>3. CASE Settle(p) /\ Confirmed(p)
        BY <4>3 DEF Settle
      <4> QED
        BY <2>3, <4>1, <4>2, <4>3
    <3> QED
      BY <1>1, <3>2, <3>3, <3>4
  <2> QED
    BY <1>1, <1>2, <2>1, <2>2, <2>3
       DEF ProcStep, Begin, ReadPositions, EnterLease, GiveUp, Send, BatchReturns,
           Persist, PollEnds, RecordAll, FetchFills, VerifyPositions, Finish
<1>3. CASE RecoverCheckpoint
  <2>1. rec.job \in Jobs
    BY <1>0, <1>3 DEF RecOK, Recovering, RecoverCheckpoint
  <2>2. \E outcome, clean : Store!RecordReconciliation(rec.job, outcome, clean)
    BY <1>3 DEF RecoverCheckpoint
  <2> QED
    BY <1>0, <2>1, <2>2, PlainStatus
<1>4. CASE RecoverSettle
  <2>1. rec.job \in Jobs /\ Recovering
    BY <1>0, <1>4 DEF RecOK, Recovering, RecoverSettle
  <2>2. CASE rec.errors
    <3>1. Store!Transition(rec.job, {"prepared"} \cup Store!Submitted, "reconciliation_required")
      BY <1>4, <2>2 DEF RecoverSettle, Store!MarkReconciliationRequired
    <3>2. /\ j # rec.job => run'[j].status = run[j].status
          /\ run'[rec.job].status = "reconciliation_required"
      BY <1>0, <2>1, <3>1, TransitionStep
    <3> QED
      BY <2>1, <3>2 DEF StatusMoves
  <2>3. CASE ~rec.errors
    <3>1. run' = run \/ Store!Transition(rec.job, Store!Ambiguous, "completed")
      BY <1>4, <2>3 DEF RecoverSettle, Store!MarkCompleted
    <3>2. ASSUME Store!Transition(rec.job, Store!Ambiguous, "completed")
          PROVE  StatusMoves(j)
      <4>1. /\ j # rec.job => run'[j].status = run[j].status
            /\ run'[rec.job].status = "completed"
        BY <1>0, <2>1, <3>2, TransitionStep
      <4> QED
        BY <1>4, <2>3, <4>1 DEF StatusMoves, Resolves
    <3> QED
      BY <1>1, <3>1, <3>2
  <2> QED
    BY <2>2, <2>3
<1>5. CASE ~RecoverCheckpoint /\ ~RecoverSettle /\ ~(\E p \in Procs : ProcStep(p))
  BY <1>1, <1>5
     DEF Next, vars, Crash, RecoverCrash, LeaseExpires, LeaseLapses, Market, Expire, Fill,
         RecoveryStep, RecoverBegin, RecoverOrders, RecoverWith, RecoverPositions, RecoverRecord,
         RecoverEnd
<1> QED
  BY <1>2, <1>3, <1>4, <1>5

-----------------------------------------------------------------------------
(***************************************************************************)
(* The lease also keeps recovery and the processes apart, so that nobody   *)
(* works on a run that is not open any more.                               *)
(***************************************************************************)
RecLease == ~Overrun /\ rec.pc # "idle" => lease = Recovery

LEMMA RecLeaseStep ==
    ASSUME TypesInv, [Next]_vars, RecLease
    PROVE  RecLease'
<1> SUFFICES ASSUME ~Overrun, rec'.pc # "idle" PROVE lease' = Recovery
  BY DEF RecLease
<1>1. \A p \in Procs : p # Recovery
  BY ExecutionAssumption
<1>2. Free # Recovery
  BY DEF Free, Recovery
<1>3. CASE rec' = rec /\ lease' = lease
  BY <1>3 DEF RecLease
<1>4. ASSUME NEW p \in Procs, Begin(p) \/ EnterLease(p) PROVE lease' = Recovery
  <2>1. rec' = rec /\ (lease' = lease \/ lease = Free \/ lease = p)
    BY <1>4 DEF Begin, EnterLease
  <2> QED
    BY <1>1, <1>2, <1>3, <2>1 DEF RecLease
<1>5. ASSUME NEW p \in Procs, Crash(p) PROVE lease' = Recovery
  <2>1. rec' = rec /\ (lease' = lease \/ lease = p)
    BY <1>5 DEF Crash
  <2> QED
    BY <1>1, <1>3, <2>1 DEF RecLease
<1>6. ASSUME NEW p \in Procs, ReadPositions(p) \/ GiveUp(p) \/ Finish(p) PROVE lease' = Recovery
  <2>1. rec' = rec
    BY <1>6 DEF ReadPositions, GiveUp, Finish
  <2>2. lease' = lease \/ lease' = IF lease = p THEN Free ELSE lease
    BY <1>6 DEF ReadPositions, GiveUp, Finish, Exit
  <2> QED
    BY <1>1, <1>3, <2>1, <2>2 DEF RecLease
<1>7. CASE RecoverBegin
  BY <1>7 DEF RecoverBegin
<1>8. CASE RecoverEnd \/ RecoverCrash
  BY <1>8 DEF RecoverEnd, RecoverCrash, NoRecovery
<1>9. CASE LeaseExpires
  <2>1. rec' = rec /\ ~HolderAlive
    BY <1>9 DEF LeaseExpires
  <2> QED
    BY <2>1 DEF RecLease, HolderAlive
<1>10. CASE LeaseLapses
  BY <1>10 DEF LeaseLapses
<1>11. CASE \E j \in Jobs : RecoverOrders(j)
  BY <1>11 DEF RecoverOrders, RecoverWith, RecLease
<1>12. CASE RecoverPositions \/ RecoverRecord \/ RecoverCheckpoint \/ RecoverSettle
  BY <1>12 DEF RecoverPositions, RecoverRecord, RecoverCheckpoint, RecoverSettle, RecLease
<1>13. CASE /\ ~RecoverBegin /\ ~RecoverSettle /\ ~RecoverEnd /\ ~RecoverCrash
            /\ ~RecoverRecord /\ ~RecoverCheckpoint /\ ~RecoverPositions
            /\ ~LeaseExpires /\ ~LeaseLapses
            /\ \A j \in Jobs : ~RecoverOrders(j)
            /\ \A p \in Procs : /\ ~Begin(p) /\ ~EnterLease(p) /\ ~Crash(p)
                                /\ ~ReadPositions(p) /\ ~GiveUp(p) /\ ~Finish(p)
  <2>1. rec' = rec /\ lease' = lease
    BY <1>13, ZenonT(60) DEF Next, vars, RecoveryStep, ProcStep, Prepare,
                 RecordPlan, StartSubmission, Send, BatchReturns, Persist, PollEnds,
                 RecordAll, MarkIncomplete, Report, FetchFills, VerifyPositions,
                 RecordCheckpoint, Settle, AtStep, Market, Fill, Expire
  <2> QED
    BY <1>3, <2>1
<1> QED
  BY <1>4, <1>5, <1>6, <1>7, <1>8, <1>9, <1>10, <1>11, <1>12, <1>13

\* Whoever works on a run works on the one open run.
OpenOK ==
    /\ RecLease
    /\ \A p \in Procs : Active(p) => run[JobOf[p]].status \in Store!Ambiguous
    /\ Recovering => run[rec.job].status \in Store!Ambiguous
    /\ \A j, k \in Jobs : run[j].status \in Store!Ambiguous /\ run[k].status \in Store!Ambiguous
                              => j = k

\* While no live process loses its lease: one process, or recovery.
LEMMA OneWorks ==
    ASSUME TypesInv, RecLease, ~Overrun
    PROVE  /\ \A p, q \in Procs : Started(p) /\ Started(q) => p = q
           /\ \A p \in Procs : Started(p) => rec.pc = "idle"
<1>1. \A p \in Procs : Started(p) => lease = p
  BY DEF TypesInv, IInv, LeaseInv, Inside
<1>2. \A p \in Procs : p # Recovery
  BY ExecutionAssumption
<1> QED
  BY <1>1, <1>2 DEF RecLease

\* A completed run is not opened again.
LEMMA ClosedStays ==
    ASSUME TypesInv, TypesInv', OpenOK, [Next]_vars, NEW j \in Jobs
    PROVE  run'[j].status \in Store!Ambiguous =>
               \/ run[j].status \in Store!Ambiguous
               \/ \E p \in Procs : StartSubmission(p) /\ JobOf[p] = j
<1> SUFFICES ASSUME run'[j].status \in Store!Ambiguous,
                    ~(\E p \in Procs : StartSubmission(p) /\ JobOf[p] = j)
             PROVE  run[j].status \in Store!Ambiguous
  OBVIOUS
<1>1. StatusMoves(j)
  BY NextStatus
<1>2. run'[j].status \in Store!Submitted /\ run'[j].status # "completed"
  BY DEF Store!Submitted, Store!Ambiguous
<1> QED
  BY <1>1, <1>2 DEF StatusMoves, OpenOK

\* What a process at the end of its list does.
LEMMA SettleEnds ==
    ASSUME TypesInv, TypesInv', [Next]_vars, NEW p \in Procs, TodoOK(p), Settle(p)
    PROVE  pc'[p] = "close" /\ work'[p].todo = <<>>
<1>1. Started(p) /\ pc[p] = "close" /\ work[p].todo # <<>> /\ Head(work[p].todo) = "settle"
      /\ pc'[p] = "close"
  BY DEF Settle, AtStep, Started
<1>2. WorkTyped /\ PcTyped /\ BookOK /\ WorkOK(p) /\ work[p].start \in Inventories
  <2>1. WorkTyped /\ PcTyped /\ BookOK /\ WorkOK(p)
    BY DEF TypesInv, IInv
  <2> QED
    BY <1>1, <2>1 DEF WorkOK, Planned
<1>3. work'[p].todo = Tail(work[p].todo)
  BY <1>2, ClosingStepMoves DEF ClosingStep, ClosingMoves
<1>4. work[p].todo \in Seq(Steps)
  BY <1>2 DEF WorkTyped, WorkRec
<1>5. Suffix(work[p].todo, Closing(JobOf[p]))
  BY <1>1 DEF TodoOK
<1>6. Ordered(work[p].todo)
  BY <1>1, <1>4, <1>5, ClosingIs
<1> QED
  BY <1>1, <1>3, <1>6 DEF Ordered

\* Recovery goes on with its run, or takes up an open one.
GoesOn ==
    /\ Recovering /\ ~RecoverSettle
    /\ rec'.job = rec.job /\ rec'.expected = rec.expected
    /\ rec.errors => rec'.errors
    /\ \/ rec'.pc = "positions" <=> rec.pc = "positions"
       \/ book' = book /\ (~rec'.errors => Position = rec.expected)

TakesUp(j) ==
    /\ run[j].status \in Store!Ambiguous
    /\ rec'.job = j /\ rec'.pc = "positions"
    /\ rec'.expected = Plus(run[j].start, FilledBy(DOMAIN saved[j]))
    /\ UNCHANGED <<run, saved, book>>

LEMMA RecMoves ==
    ASSUME TypesInv, [Next]_vars, Recovering'
    PROVE  GoesOn \/ \E j \in Jobs : TakesUp(j)
<1>1. RecOK /\ rec \in RecRec
  BY DEF TypesInv, RecOK
<1>2. ASSUME rec' = rec, ~RecoverSettle
      PROVE  GoesOn
  BY <1>2 DEF GoesOn, Recovering
<1>3. ASSUME NEW j \in Jobs, RecoverOrders(j)
      PROVE  TakesUp(j)
  <2>1. CASE run[j].status \notin Store!Ambiguous
    <3>1. rec' = [rec EXCEPT !.todo = @ \ {j}] /\ rec.pc = "next"
      BY <1>3, <2>1 DEF RecoverOrders, RecoverWith
    <3>2. rec'.pc = "next"
      BY <3>1, <1>1 DEF RecRec
    <3> QED
      BY <3>2 DEF Recovering
  <2>2. CASE run[j].status \in Store!Ambiguous
    <3> DEFINE ids == DOMAIN saved[j]
    <3>1. PICK errors :
              rec' = [pc |-> "positions", todo |-> rec.todo \ {j}, job |-> j,
                      known |-> ids, expected |-> Plus(run[j].start, FilledBy(ids)),
                      errors |-> errors]
      BY <1>3, <2>2 DEF RecoverOrders, RecoverWith
    <3>2. UNCHANGED <<run, saved, book>>
      BY <1>3 DEF RecoverOrders, RecoverWith
    <3> QED
      BY <2>2, <3>1, <3>2 DEF TakesUp
  <2> QED
    BY <2>1, <2>2
<1>4. CASE RecoverPositions
  <2>1. PICK fails \in QueryFails :
            rec' = [rec EXCEPT !.pc = "record",
                               !.errors = @ \/ fails \/ Position # rec.expected]
    BY <1>4 DEF RecoverPositions
  <2>2. rec.pc = "positions" /\ book' = book
    BY <1>4 DEF RecoverPositions
  <2>3. /\ rec'.job = rec.job /\ rec'.expected = rec.expected
        /\ rec'.errors = (rec.errors \/ fails \/ Position # rec.expected)
    BY <2>1, <1>1 DEF RecRec
  <2>4. Recovering /\ ~RecoverSettle
    BY <2>2 DEF Recovering, RecoverSettle
  <2> QED
    BY <2>2, <2>3, <2>4 DEF GoesOn
<1>5. CASE RecoverRecord \/ RecoverCheckpoint
  <2>1. rec.pc \in {"record", "checkpoint"} /\ book' = book
    BY <1>5 DEF RecoverRecord, RecoverCheckpoint
  <2>2. \E label \in {"checkpoint", "settle"} : rec' = [rec EXCEPT !.pc = label]
    BY <1>5 DEF RecoverRecord, RecoverCheckpoint
  <2>3. /\ rec'.job = rec.job /\ rec'.expected = rec.expected /\ rec'.errors = rec.errors
        /\ rec'.pc \in {"checkpoint", "settle"}
    BY <2>2, <1>1 DEF RecRec
  <2>4. Recovering /\ ~RecoverSettle
    BY <2>1 DEF Recovering, RecoverSettle
  <2> QED
    BY <2>1, <2>3, <2>4 DEF GoesOn
<1>6. CASE RecoverBegin
  <2>1. rec' = [rec EXCEPT !.pc = "next", !.todo = Candidates]
    BY <1>6 DEF RecoverBegin
  <2> HIDE DEF Candidates
  <2>2. rec'.pc = "next"
    BY <2>1, <1>1 DEF RecRec
  <2> QED
    BY <2>2 DEF Recovering
<1>7. CASE RecoverSettle \/ RecoverEnd \/ RecoverCrash
  <2>1. CASE RecoverSettle
    BY <2>1 DEF RecoverSettle, NoRecovery, Recovering
  <2>2. CASE RecoverEnd \/ RecoverCrash
    BY <2>2 DEF RecoverEnd, RecoverCrash, NoRecovery, Recovering
  <2> QED
    BY <1>7, <2>1, <2>2
<1>8. CASE /\ ~RecoverBegin /\ ~RecoverSettle /\ ~RecoverEnd /\ ~RecoverCrash
           /\ ~RecoverRecord /\ ~RecoverCheckpoint /\ ~RecoverPositions
           /\ \A j \in Jobs : ~RecoverOrders(j)
  <2>1. rec' = rec
    BY <1>8, ZenonT(60) DEF Next, vars, RecoveryStep, ProcStep, Begin, ReadPositions, EnterLease, Prepare,
                RecordPlan, StartSubmission, GiveUp, Send, BatchReturns, Persist, PollEnds,
                RecordAll, MarkIncomplete, Report, FetchFills, VerifyPositions,
                RecordCheckpoint, Settle, Finish, AtStep, Crash, LeaseExpires, LeaseLapses,
                Market, Fill, Expire
  <2> QED
    BY <1>2, <1>8, <2>1
<1> QED
  BY <1>3, <1>4, <1>5, <1>6, <1>7, <1>8

\* The process that starts finds no open run, its own included.
LEMMA StartAlone ==
    ASSUME TypesInv, NEW p \in Procs, StartSubmission(p)
    PROVE  /\ JobOf[p] \in Jobs
           /\ \A j \in Jobs : run[j].status \notin Store!Ambiguous
           /\ \A j \in Jobs \ {JobOf[p]} : run'[j].status = run[j].status
           /\ run'[JobOf[p]].status = "executing"
           /\ run[JobOf[p]].status = "prepared"
<1>1. JobOf[p] \in Jobs /\ RunTyped
  BY ExecutionAssumption DEF TypesInv, IInv
<1>2. /\ Store!Transition(JobOf[p], {"prepared"}, "executing")
      /\ ~Store!UnresolvedRun(JobOf[p])
  BY DEF StartSubmission, Store!MarkSubmissionStarted
<1>3. /\ \A j \in Jobs \ {JobOf[p]} : run'[j].status = run[j].status
      /\ run'[JobOf[p]].status = "executing" /\ run[JobOf[p]].status = "prepared"
  BY <1>1, <1>2, TransitionStep
<1>4. \A j \in Jobs : run[j].status \notin Store!Ambiguous
  BY <1>2, <1>3 DEF Store!UnresolvedRun, Store!Ambiguous
<1> QED
  BY <1>1, <1>3, <1>4

\* A run that somebody works on stays open, but for the completion itself.
LEMMA OpenStays ==
    ASSUME TypesInv, [Next]_vars, NEW j \in Jobs, run[j].status \in Store!Ambiguous,
           \A p \in Procs : ~Completes(p, j), ~Resolves(j)
    PROVE  run'[j].status \in Store!Ambiguous
<1>1. StatusMoves(j)
  BY NextStatus
<1>2. run[j].status \in Store!Submitted
  BY DEF Store!Submitted
<1>3. \A p \in Procs : StartSubmission(p) => JobOf[p] # j
  BY StartAlone
<1> QED
  BY <1>1, <1>2, <1>3 DEF StatusMoves, Store!Ambiguous

\* A process that is active was so before, or starts.
LEMMA ActiveStep ==
    ASSUME TypesInv, TypesInv', [Next]_vars, NEW p \in Procs, Active(p)'
    PROVE  Active(p) \/ StartSubmission(p)
<1>1. Started(p)'
  BY DEF Active
<1>2. CASE pc'[p] = pc[p] /\ work'[p] = work[p]
  BY <1>2 DEF Active, Started
<1>3. CASE ProcStep(p) /\ Alone(p)
  <2>1. \/ StartMove(p) \/ (\E n, r : SendMoves(p, n, r)) \/ BatchReturns(p)
        \/ Persist(p) \/ PollEnds(p) \/ CloseMove(p)
    BY <1>1, <1>3, StartedMoves
  <2>2. CASE StartMove(p)
    BY <2>2 DEF StartMove
  <2>3. CASE (\E n, r : SendMoves(p, n, r)) \/ BatchReturns(p) \/ Persist(p) \/ PollEnds(p)
    BY <2>3 DEF SendMoves, BatchReturns, Persist, PollEnds, Active, Started
  <2>4. CASE CloseMove(p)
    BY <2>4 DEF CloseMove, ClosingMoves, Active, Started
  <2> QED
    BY <2>1, <2>2, <2>3, <2>4
<1> QED
  BY <1>1, <1>2, <1>3, ProcessMoves

LEMMA OpenStep ==
    ASSUME TypesInv, TypesInv', \A p \in Procs : TodoOK(p), OpenOK, [Next]_vars, ~Overrun
    PROVE  OpenOK'
<1>1. RecLease'
  BY RecLeaseStep DEF OpenOK
<1>2. ASSUME NEW p \in Procs, Active(p)'
      PROVE  run'[JobOf[p]].status \in Store!Ambiguous
  <2>0. JobOf[p] \in Jobs
    BY ExecutionAssumption
  <2>1. CASE StartSubmission(p)
    BY <2>1, StartAlone DEF Store!Ambiguous
  <2>2. CASE Active(p)
    <3>1. run[JobOf[p]].status \in Store!Ambiguous /\ Started(p)
      BY <2>2 DEF OpenOK, Active
    <3>2. \A q \in Procs : ~Completes(q, JobOf[p])
      <4> SUFFICES ASSUME NEW q \in Procs, Completes(q, JobOf[p]) PROVE FALSE
        OBVIOUS
      <4>1. Settle(q) /\ Started(q)
        BY DEF Completes, Settle, AtStep, Started
      <4>2. q = p
        BY <3>1, <4>1, OneWorks DEF OpenOK
      <4>3. pc'[p] = "close" /\ work'[p].todo = <<>>
        BY <4>1, <4>2, SettleEnds
      <4> QED
        BY <1>2, <4>3 DEF Active
    <3>3. ~Resolves(JobOf[p])
      <4>1. rec.pc = "idle"
        BY <3>1, OneWorks DEF OpenOK
      <4> QED
        BY <4>1 DEF Resolves, RecoverSettle
    <3> QED
      BY <2>0, <3>1, <3>2, <3>3, OpenStays
  <2> QED
    BY <1>2, <2>1, <2>2, ActiveStep
<1>3. ASSUME Recovering' PROVE run'[rec'.job].status \in Store!Ambiguous
  <2>1. CASE GoesOn
    <3>1. PICK j \in Jobs : j = rec.job
      BY <2>1 DEF GoesOn, TypesInv, RecOK
    <3>2. run[j].status \in Store!Ambiguous /\ Recovering
      BY <2>1, <3>1 DEF GoesOn, OpenOK
    <3>3. \A q \in Procs : ~Completes(q, j)
      <4> SUFFICES ASSUME NEW q \in Procs, Completes(q, j) PROVE FALSE
        OBVIOUS
      <4>1. Started(q)
        BY DEF Completes, Settle, AtStep, Started
      <4>2. rec.pc = "idle"
        BY <4>1, OneWorks DEF OpenOK
      <4> QED
        BY <3>2, <4>2 DEF Recovering
    <3>4. ~Resolves(j)
      BY <2>1 DEF GoesOn, Resolves
    <3>5. run'[j].status \in Store!Ambiguous
      BY <3>2, <3>3, <3>4, OpenStays
    <3> QED
      BY <2>1, <3>1, <3>5 DEF GoesOn
  <2>2. ASSUME NEW j \in Jobs, TakesUp(j) PROVE run'[rec'.job].status \in Store!Ambiguous
    BY <2>2 DEF TakesUp
  <2> QED
    BY <1>3, <2>1, <2>2, RecMoves
<1>4. ASSUME NEW j \in Jobs, NEW k \in Jobs,
             run'[j].status \in Store!Ambiguous, run'[k].status \in Store!Ambiguous
      PROVE  j = k
  <2>1. CASE \A p \in Procs : ~StartSubmission(p)
    BY <1>4, <2>1, ClosedStays DEF OpenOK
  <2>2. ASSUME NEW p \in Procs, StartSubmission(p) PROVE j = k
    BY <1>4, <2>2, StartAlone
  <2> QED
    BY <2>1, <2>2
<1> QED
  BY <1>1, <1>2, <1>3, <1>4 DEF OpenOK

-----------------------------------------------------------------------------
(***************************************************************************)
(* The start that a process planned from is the one in the store.          *)
(***************************************************************************)
StartSaved(p) ==
    pc[p] = "start" \/ Started(p) => run[JobOf[p]].start = work[p].start

LEMMA InsideOne ==
    ASSUME TypesInv, ~Overrun
    PROVE  \A p, q \in Procs : Inside(p) /\ Inside(q) => p = q
BY DEF TypesInv, IInv, LeaseInv

LEMMA StartSavedStep ==
    ASSUME TypesInv, TypesInv', [Next]_vars, ~Overrun, NEW p \in Procs, StartSaved(p)
    PROVE  StartSaved(p)'
<1> SUFFICES ASSUME pc'[p] = "start" \/ Started(p)'
             PROVE  run'[JobOf[p]].start = work'[p].start
  BY DEF StartSaved
<1>0. /\ PcTyped /\ WorkTyped /\ BookOK /\ \A q \in Procs : WorkOK(q)
      /\ Store!TypeOK /\ RecOK /\ StartedInv /\ JobOf[p] \in Jobs
  BY ExecutionAssumption DEF TypesInv, IInv
<1>1. ASSUME NEW q \in Procs, RecordPlan(q), JobOf[q] = JobOf[p]
      PROVE  run'[JobOf[p]].start = work[q].start /\ work'[q] = work[q]
  <2>1. Store!RecordPlan(JobOf[q], work[q].plan, work[q].start) /\ work' = work
    BY <1>1 DEF RecordPlan
  <2> QED
    BY <1>0, <1>1, <2>1, PlanRows
<1>2. ASSUME pc[p] = "start" \/ Started(p), work'[p].start = work[p].start
      PROVE  run'[JobOf[p]].start = work'[p].start
  <2>1. \A q \in Procs : ~RecordPlan(q)
    <3> SUFFICES ASSUME NEW q \in Procs, RecordPlan(q) PROVE FALSE
      OBVIOUS
    <3>1. Inside(q) /\ pc[q] = "plan"
      BY DEF RecordPlan, Inside
    <3>2. Inside(p)
      BY <1>2 DEF Inside
    <3>3. p = q
      BY <3>1, <3>2, InsideOne
    <3> QED
      BY <1>2, <3>1, <3>3 DEF Started
  <2>2. run'[JobOf[p]].start = run[JobOf[p]].start
    BY <1>0, <2>1, NextRows DEF RowMoves
  <2> QED
    BY <1>2, <2>2 DEF StartSaved
<1>3. CASE pc'[p] = pc[p] /\ work'[p] = work[p]
  BY <1>2, <1>3 DEF Started
<1>4. CASE ProcStep(p)
  <2>1. RecordPlan(p) \/ ((pc[p] = "start" \/ Started(p)) /\ SamePlan(p))
    BY <1>0, <1>4, PlanMoves
  <2> QED
    BY <1>1, <1>2, <2>1 DEF SamePlan
<1>5. CASE Crash(p)
  <2>1. pc'[p] = "done"
    BY <1>0, <1>5, GotoStep DEF Crash
  <2> QED
    BY <2>1 DEF Started
<1>6. \/ pc'[p] = pc[p] /\ work'[p] = work[p]
      \/ ProcStep(p) \/ Crash(p)
  <2>1. \/ pc' = pc /\ work' = work
        \/ \E q \in Procs : Alone(q) /\ (ProcStep(q) \/ Crash(q))
    BY <1>0, WorkStep
  <2> QED
    BY <2>1 DEF Alone
<1> QED
  BY <1>3, <1>4, <1>5, <1>6

-----------------------------------------------------------------------------
(***************************************************************************)
(* While the open run is settled, the account is calm.                     *)
(***************************************************************************)
\* What the start and the fills of a run add up to.
Explained(j) == Plus(run[j].start, FilledBy(OrdersOf(j)))

LEMMA NoGain ==
    ASSUME TypesInv, TypesInv', NoFills(book, book')
    PROVE  Position' = Position /\ \A j : FilledBy(OrdersOf(j))' = FilledBy(OrdersOf(j))
<1>1. book \in Seq(BookOrder) /\ book' \in Seq(BookOrder)
  BY DEF TypesInv, BookOK
<1>2. \A id \in DOMAIN book : id \in DOMAIN book <=> id \in DOMAIN book'
  BY DEF NoFills
<1>3. Net(book', DOMAIN book') = Net(book, DOMAIN book)
  BY <1>1, <1>2, NetSame
<1>4. ASSUME NEW j PROVE RunNet(book', j) = RunNet(book, j)
  <2>1. \A id \in DOMAIN book : id \in OrdersIn(book, j) <=> id \in OrdersIn(book', j)
    BY DEF NoFills, SameOrder, OrdersIn
  <2>2. Net(book', OrdersIn(book', j)) = Net(book, OrdersIn(book, j))
    BY <1>1, <2>1, NetSame
  <2> QED
    BY <2>2 DEF RunNet
<1>5. DayNet(book') = DayNet(book)
  BY <1>3 DEF DayNet
<1>6. Position' = Position
  BY <1>5, NetIs
<1>7. \A j : FilledBy(OrdersOf(j))' = FilledBy(OrdersOf(j))
  BY <1>4, NetIs
<1> QED
  BY <1>6, <1>7

LEMMA Calm ==
    ASSUME TypesInv, TypesInv', SettledOK, OpenOK, [Next]_vars, NEW j \in Jobs,
           SettledRow(j), run[j].status \in Store!Ambiguous
    PROVE  Position' = Position /\ Explained(j)' = Explained(j)
<1>1. ~FillOne
  <2> SUFFICES ASSUME FillOne PROVE FALSE
    OBVIOUS
  <2>1. PICK id \in DOMAIN book : \E qty : qty \in Nat /\ Fill(id, qty)
    BY DEF FillOne
  <2>2. book[id].live
    BY <2>1 DEF Fill
  <2>3. PICK k \in Jobs : k = book[id].job
    <3>1. book[id] \in BookOrder
      BY DEF TypesInv, BookOK
    <3> QED
      BY <3>1 DEF BookOrder
  <2>4. run[k].status \in Store!Submitted
    BY <2>3 DEF TypesInv, BookJobs
  <2>5. SettledRow(k)
    <3>1. CASE run[k].status \in Store!Ambiguous
      BY <3>1 DEF OpenOK
    <3>2. CASE run[k].status = "completed"
      BY <3>2 DEF SettledOK, DoneOK
    <3> QED
      BY <2>4, <3>1, <3>2 DEF Store!Submitted
  <2>6. id \in OrdersIn(book, k)
    BY <2>3 DEF OrdersIn
  <2> QED
    BY <2>2, <2>5, <2>6 DEF SettledRow, SettledIn
<1>2. NoFills(book, book')
  BY <1>1, FillStep
<1>3. Position' = Position /\ FilledBy(OrdersOf(j))' = FilledBy(OrdersOf(j))
  BY <1>2, NoGain
<1>4. run'[j].start = run[j].start
  <2>1. Store!TypeOK /\ (Store!Next \/ run' = run)
    BY NextStore DEF TypesInv, IInv
  <2>2. run[j].status \in Store!Submitted
    BY DEF Store!Submitted
  <2> QED
    BY <2>1, <2>2, StoreKeeps
<1>5. Explained(j)' = Plus(run'[j].start, FilledBy(OrdersOf(j))')
  BY DEF Explained, Plus
<1> QED
  BY <1>3, <1>4, <1>5 DEF Explained

-----------------------------------------------------------------------------
(***************************************************************************)
(* What the process of a run, or recovery, has found out of the account.   *)
(***************************************************************************)
\* p has the fills of all its orders and its run is open.
Knows(p) == Quiet(p) /\ run[JobOf[p]].status \in Store!Ambiguous

ExpectedOK(p) ==
    Knows(p) /\ Without(work[p].todo, "fills")
        => work[p].expected = Explained(JobOf[p])

PositionOK(p) ==
    Knows(p) /\ ~work[p].errors /\ Without(work[p].todo, "snapshot")
        => Position = Explained(JobOf[p])

RecPosition ==
    Recovering /\ ~rec.errors =>
        /\ rec.expected = Explained(rec.job)
        /\ rec.pc # "positions" => Position = rec.expected

DayOK ==
    /\ OpenOK /\ RecPosition
    /\ \A p \in Procs : StartSaved(p) /\ ExpectedOK(p) /\ PositionOK(p)

\* The process of such a run knew it before, and the account is calm.
LEMMA KnowsStep ==
    ASSUME TypesInv, TypesInv', SettledOK, OpenOK, [Next]_vars, NEW p \in Procs, Knows(p)'
    PROVE  \/ work'[p].todo = Closing(JobOf[p])
           \/ /\ Knows(p) /\ ResultIds(p) = OrdersOf(JobOf[p])
              /\ Position' = Position /\ Explained(JobOf[p])' = Explained(JobOf[p])
              /\ work'[p] = work[p] \/ CloseMove(p)
<1>0. JobOf[p] \in Jobs
  BY ExecutionAssumption
<1>1. Started(p)' /\ pc'[p] = "close" /\ Complete(p)'
      /\ (Broker = "tachibana" \/ work'[p].results = <<>>)
  BY DEF Knows, Quiet, Started
<1>2. ASSUME Started(p) PROVE run[JobOf[p]].status \in Store!Ambiguous
  <2>1. \A q \in Procs : StartSubmission(q) => JobOf[q] # JobOf[p]
    <3> TAKE q \in Procs
    <3>1. run[JobOf[p]].status \in Store!Submitted
      BY <1>2 DEF TypesInv, IInv, StartedInv
    <3>2. RunTyped
      BY DEF TypesInv, IInv
    <3> QED
      BY <3>1, <3>2, StartFrom
  <2> QED
    BY <1>0, <2>1, ClosedStays DEF Knows
<1>3. ASSUME pc[p] = "close", Quiet(p), work'[p] = work[p] \/ CloseMove(p)
      PROVE  /\ Knows(p) /\ ResultIds(p) = OrdersOf(JobOf[p])
             /\ Position' = Position /\ Explained(JobOf[p])' = Explained(JobOf[p])
  <2>1. run[JobOf[p]].status \in Store!Ambiguous
    BY <1>2, <1>3 DEF Started
  <2>2. IdsOK(p) /\ AccountOK(p) /\ BudgetOK
    BY DEF SettledOK, AccountsOK
  <2>3. SettledRow(JobOf[p]) /\ ResultIds(p) = OrdersIn(book, JobOf[p])
    BY <1>3, <2>2, QuietSettled
  <2>4. Position' = Position /\ Explained(JobOf[p])' = Explained(JobOf[p])
    BY <1>0, <2>1, <2>3, Calm
  <2> QED
    BY <1>3, <2>1, <2>3, <2>4 DEF Knows, OrdersIn, OrdersOf
<1>4. CASE pc'[p] = pc[p] /\ work'[p] = work[p]
  <2>1. Quiet(p) /\ pc[p] = "close"
    BY <1>1, <1>4 DEF Quiet, Complete
  <2> QED
    BY <1>3, <1>4, <2>1
<1>5. CASE CloseMove(p)
  <2>1. work'[p].results = work[p].results /\ work'[p].plan = work[p].plan
    BY <1>5 DEF CloseMove, ClosingMoves, SameOrders, SamePlan
  <2>2. Quiet(p) /\ pc[p] = "close"
    BY <1>1, <1>5, <2>1 DEF Quiet, Complete, CloseMove
  <2> QED
    BY <1>3, <1>5, <2>2
<1>6. CASE ProcStep(p) /\ Alone(p)
  <2>1. CloseMove(p) \/ work'[p].todo = Closing(JobOf[p])
    BY <1>1, <1>6, TodoStays DEF SettledOK
  <2> QED
    BY <1>5, <2>1
<1> QED
  BY <1>1, <1>4, <1>6, ProcessMoves

LEMMA ProcessKnows ==
    ASSUME TypesInv, TypesInv', SettledOK, DayOK, [Next]_vars, NEW p \in Procs
    PROVE  ExpectedOK(p)' /\ PositionOK(p)'
<1> SUFFICES ASSUME Knows(p)'
             PROVE  /\ Without(work'[p].todo, "fills")
                          => work'[p].expected = Explained(JobOf[p])'
                    /\ ~work'[p].errors /\ Without(work'[p].todo, "snapshot")
                          => Position' = Explained(JobOf[p])'
  BY DEF ExpectedOK, PositionOK
<1>1. CASE work'[p].todo = Closing(JobOf[p])
  BY <1>1, ClosingIs
<1>2. CASE /\ Knows(p) /\ ResultIds(p) = OrdersOf(JobOf[p])
           /\ Position' = Position /\ Explained(JobOf[p])' = Explained(JobOf[p])
           /\ work'[p] = work[p] \/ CloseMove(p)
  <2>0. ExpectedOK(p) /\ PositionOK(p) /\ StartSaved(p) /\ TodoOK(p) /\ Started(p)
    BY <1>2 DEF DayOK, SettledOK, Knows, Quiet, Started
  <2>1. CASE work'[p] = work[p]
    BY <1>2, <2>0, <2>1 DEF ExpectedOK, PositionOK
  <2>2. CASE CloseMove(p)
    <3> DEFINE todo == work[p].todo
    <3>1. /\ todo # <<>> /\ work'[p].todo = Tail(todo)
          /\ work[p].errors => work'[p].errors
          /\ ClosingData(p)
      BY <2>2 DEF CloseMove, ClosingMoves
    <3>2. todo \in Seq(Steps) /\ Suffix(todo, Closing(JobOf[p]))
      <4>1. work \in [Procs -> WorkRec]
        BY DEF TypesInv, WorkTyped
      <4>2. work[p] \in WorkRec
        BY <4>1
      <4> QED
        BY <2>0, <4>2 DEF WorkRec, TodoOK
    <3>3. Tail(todo) \in Seq(Steps) /\ Suffix(Tail(todo), Closing(JobOf[p]))
      BY <3>1, <3>2, ClosingType, SuffixTail
    <3>4. ASSUME Without(Tail(todo), "fills")
          PROVE  work'[p].expected = Explained(JobOf[p])'
      <4>1. CASE Head(todo) = "fills"
        <5>1. work'[p].expected = Plus(work[p].start, FilledBy(ResultIds(p)))
          BY <3>1, <4>1 DEF ClosingData
        <5>2. work[p].start = run[JobOf[p]].start
          BY <2>0 DEF StartSaved
        <5> QED
          BY <1>2, <5>1, <5>2 DEF Explained
      <4>2. CASE Head(todo) # "fills"
        <5>1. Without(todo, "fills")
          BY <3>1, <3>2, <3>4, <4>2, WithoutTail
        <5>2. work[p].expected = Explained(JobOf[p])
          BY <1>2, <2>0, <5>1 DEF ExpectedOK
        <5> QED
          BY <1>2, <3>1, <4>2, <5>2 DEF ClosingData
      <4> QED
        BY <4>1, <4>2
    <3>5. ASSUME ~work'[p].errors, Without(Tail(todo), "snapshot")
          PROVE  Position' = Explained(JobOf[p])'
      <4>1. CASE Head(todo) = "snapshot"
        <5>1. Without(Tail(todo), "fills")
          <6>1. CASE Tail(todo) = <<>>
            BY <6>1 DEF Without
          <6>2. CASE Tail(todo) # <<>>
            BY <3>3, <3>5, <6>2, ClosingIs DEF Ordered
          <6> QED
            BY <6>1, <6>2
        <5>2. Without(todo, "fills")
          BY <3>1, <3>2, <4>1, <5>1, WithoutTail
        <5>3. work[p].expected = Explained(JobOf[p])
          BY <1>2, <2>0, <5>2 DEF ExpectedOK
        <5>4. Position = work[p].expected
          BY <3>1, <3>5, <4>1 DEF ClosingData
        <5> QED
          BY <1>2, <5>3, <5>4
      <4>2. CASE Head(todo) # "snapshot"
        <5>1. Without(todo, "snapshot")
          BY <3>1, <3>2, <3>5, <4>2, WithoutTail
        <5>2. Position = Explained(JobOf[p])
          BY <1>2, <2>0, <3>1, <3>5, <5>1 DEF PositionOK
        <5> QED
          BY <1>2, <5>2
      <4> QED
        BY <4>1, <4>2
    <3> QED
      BY <3>1, <3>4, <3>5
  <2> QED
    BY <1>2, <2>1, <2>2
<1> QED
  BY <1>1, <1>2, KnowsStep DEF DayOK

LEMMA RecoveryKnows ==
    ASSUME TypesInv, TypesInv', SettledOK, SettledOK', DayOK, [Next]_vars
    PROVE  RecPosition'
<1> SUFFICES ASSUME Recovering', ~rec'.errors
             PROVE  /\ rec'.expected = Explained(rec.job)'
                    /\ rec'.pc # "positions" => Position' = rec'.expected
  BY DEF RecPosition
<1>1. CASE GoesOn
  <2>1. PICK j \in Jobs : j = rec.job
    BY <1>1 DEF GoesOn, TypesInv, RecOK
  <2>2. Recovering /\ ~rec.errors /\ run[j].status \in Store!Ambiguous
    BY <1>1, <2>1 DEF GoesOn, DayOK, OpenOK
  <2>3. SettledRow(j)
    BY <2>1, <2>2 DEF SettledOK, RecSettled
  <2>4. Position' = Position /\ Explained(j)' = Explained(j)
    BY <2>2, <2>3, Calm DEF DayOK
  <2>5. rec.expected = Explained(j) /\ (rec.pc # "positions" => Position = rec.expected)
    BY <2>1, <2>2 DEF DayOK, RecPosition
  <2>6. rec'.job = j /\ rec'.expected = rec.expected
    BY <1>1, <2>1 DEF GoesOn
  <2>7. rec'.pc # "positions" => Position' = rec'.expected
    BY <1>1, <2>4, <2>5, <2>6 DEF GoesOn
  <2>8. Explained(rec.job)' = Explained(j)'
    BY <2>6 DEF Explained, FilledBy, OrdersOf, Plus
  <2> QED
    BY <2>4, <2>5, <2>6, <2>7, <2>8
<1>2. ASSUME NEW j \in Jobs, TakesUp(j)
      PROVE  /\ rec'.expected = Explained(rec.job)'
             /\ rec'.pc # "positions" => Position' = rec'.expected
  <2>1. /\ rec'.job = j /\ rec'.pc = "positions"
        /\ rec'.expected = Plus(run[j].start, FilledBy(DOMAIN saved[j]))
        /\ run' = run /\ saved' = saved /\ book' = book
    BY <1>2 DEF TakesUp
  <2>2. SettledRow(rec.job)'
    BY DEF SettledOK, RecSettled
  <2>3. DOMAIN saved[j] = OrdersIn(book, j)
    BY <2>1, <2>2 DEF SettledRow, SettledIn
  <2>4. rec'.expected = Explained(j)
    BY <2>1, <2>3 DEF Explained, OrdersIn, OrdersOf
  <2>5. Explained(rec.job)' = Explained(j)
    BY <2>1 DEF Explained, FilledBy, OrdersOf, Plus
  <2> QED
    BY <2>1, <2>4, <2>5
<1> QED
  BY <1>1, <1>2, RecMoves

LEMMA DayStep ==
    ASSUME TypesInv, TypesInv', SettledOK, SettledOK', DayOK, [Next]_vars, ~Overrun
    PROVE  DayOK'
<1>1. OpenOK'
  BY OpenStep DEF DayOK, SettledOK
<1>2. RecPosition'
  BY RecoveryKnows
<1>3. ASSUME NEW p \in Procs
      PROVE  StartSaved(p)' /\ ExpectedOK(p)' /\ PositionOK(p)'
  BY ProcessKnows, StartSavedStep DEF DayOK
<1> QED
  BY <1>1, <1>2, <1>3 DEF DayOK

-----------------------------------------------------------------------------
(***************************************************************************)
(* The day, step by step, is a run of TradingDay.                          *)
(***************************************************************************)
Starts(j) == IF Phase(j) = "idle" THEN None ELSE run[j].start
Trades(j) == FilledBy(OrdersOf(j))

\* The operations of TradingDay in terms of the runs.
DayOpens(k) ==
    /\ Phase(k) = "idle" /\ \A j \in Jobs : Phase(j) # "open"
    /\ Phase(k)' = "open" /\ \A j \in Jobs \ {k} : Phase(j)' = Phase(j)
    /\ Starts(k)' \in Inventories /\ \A j \in Jobs \ {k} : Starts(j)' = Starts(j)
    /\ \A j \in Jobs : Trades(j)' = Trades(j)
    /\ Position' = Position

DayTrades(k) ==
    /\ Phase(k) = "open"
    /\ \A j \in Jobs : Phase(j)' = Phase(j) /\ Starts(j)' = Starts(j)
    /\ Trades(k)' = [t \in TickerSet |-> Trades(k)[t] + Position'[t] - Position[t]]
    /\ \A j \in Jobs \ {k} : Trades(j)' = Trades(j)
    /\ Position' \in Inventories

DayCloses(k) ==
    /\ Phase(k) = "open" /\ Phase(k)' = "closed"
    /\ Position = [t \in TickerSet |-> Starts(k)[t] + Trades(k)[t]]
    /\ \A j \in Jobs \ {k} : Phase(j)' = Phase(j)
    /\ \A j \in Jobs : Starts(j)' = Starts(j) /\ Trades(j)' = Trades(j)
    /\ Position' = Position

DayRests ==
    /\ \A j \in Jobs : Phase(j)' = Phase(j) /\ Starts(j)' = Starts(j) /\ Trades(j)' = Trades(j)
    /\ Position' = Position

LEMMA DayMoves ==
    ASSUME (\E k \in Jobs : DayOpens(k) \/ DayTrades(k) \/ DayCloses(k)) \/ DayRests
    PROVE  [Day!Next]_(Day!vars)
<1>1. ASSUME NEW k \in Jobs, DayOpens(k) PROVE Day!Open(k)
  BY <1>1 DEF DayOpens, Day!Open, Day!Inventories, Inventories, Starts, Trades
<1>2. ASSUME NEW k \in Jobs, DayTrades(k) PROVE Day!Trade(k)
  BY <1>2 DEF DayTrades, Day!Trade, Day!Inventories, Inventories, Starts, Trades
<1>3. ASSUME NEW k \in Jobs, DayCloses(k) PROVE Day!Close(k)
  BY <1>3 DEF DayCloses, Day!Close, Starts, Trades
<1>4. ASSUME DayRests PROVE UNCHANGED Day!vars
  BY <1>4 DEF DayRests, Day!vars, Starts, Trades
<1> QED
  BY <1>1, <1>2, <1>3, <1>4 DEF Day!Next

LEMMA DayInit == Init => Day!Init
<1> SUFFICES ASSUME Init PROVE Day!Init
  OBVIOUS
<1>1. book = <<>> /\ book \in Seq(BookOrder)
  BY DEF Init
<1>2. Position \in Inventories
  BY <1>1, PositionType
<1>3. ASSUME NEW j \in Jobs PROVE Phase(j) = "idle"
  <2>1. run[j].status = "absent"
    BY DEF Init, Store!Absent
  <2> QED
    BY <2>1 DEF Phase, Store!Ambiguous
<1>4. ASSUME NEW j \in Jobs PROVE FilledBy(OrdersOf(j)) = [t \in TickerSet |-> 0]
  <2>1. ASSUME NEW t \in TickerSet PROVE NetOf(book, OrdersIn(book, j), t) = 0
    <3>1. NetOf(book, OrdersIn(book, j), t)
            = SumFunctionOnSet(Gains(book, OrdersIn(book, j), t), DOMAIN book)
      BY <1>1, NetType
    <3>2. DOMAIN book = {}
      BY <1>1
    <3> QED
      BY <3>1, <3>2, SumEmpty
  <2>2. FilledBy(OrdersOf(j)) = RunNet(book, j)
    BY NetIs
  <2> QED
    BY <2>1, <2>2 DEF RunNet, Net
<1> QED
  BY <1>2, <1>3, <1>4 DEF Day!Init, Day!Inventories, Inventories

\* The start of a run that stays submitted, or is not, stays what it was.
LEMMA StartsStep ==
    ASSUME TypesInv, [Next]_vars, NEW j \in Jobs,
           Phase(j)' = Phase(j) \/ (Phase(j) # "idle" /\ Phase(j)' # "idle")
    PROVE  Starts(j)' = Starts(j)
<1>1. CASE Phase(j) = "idle"
  BY <1>1 DEF Starts
<1>2. CASE Phase(j) # "idle"
  <2>1. run[j].status \in Store!Submitted
    BY <1>2 DEF Phase, Store!Submitted
  <2>2. Store!TypeOK /\ (Store!Next \/ run' = run)
    BY NextStore DEF TypesInv, IInv
  <2>3. run'[j].start = run[j].start
    BY <2>1, <2>2, StoreKeeps
  <2>4. Phase(j)' # "idle"
    BY <1>2
  <2> QED
    BY <1>2, <2>3, <2>4 DEF Starts
<1> QED
  BY <1>1, <1>2

\* Only an order of the open run can be filled.
LEMMA FillTrades ==
    ASSUME TypesInv, TypesInv', SettledOK, FillOne
    PROVE  \E k \in Jobs : DayTrades(k)
<1>1. PICK id \in DOMAIN book : \E qty : qty \in Nat /\ Fill(id, qty)
  BY DEF FillOne
<1>2. PICK qty \in Nat : Fill(id, qty)
  BY <1>1
<1>3. book \in Seq(BookOrder) /\ book' \in Seq(BookOrder) /\ book[id] \in BookOrder
  BY DEF TypesInv, BookOK
<1>4. PICK k \in Jobs : k = book[id].job
  BY <1>3 DEF BookOrder
<1>5. run[k].status \in Store!Submitted
  BY <1>4 DEF TypesInv, BookJobs
<1>6. run[k].status # "completed"
  <2>1. book[id].live /\ id \in OrdersIn(book, k)
    BY <1>2, <1>4 DEF Fill, OrdersIn
  <2>2. ~SettledRow(k)
    BY <2>1 DEF SettledRow, SettledIn
  <2> QED
    BY <2>2 DEF SettledOK, DoneOK
<1>7. Phase(k) = "open"
  BY <1>5, <1>6 DEF Phase, Store!Submitted
<1>8. \A j \in Jobs : Phase(j)' = Phase(j) /\ Starts(j)' = Starts(j)
  BY <1>2 DEF Fill, Phase, Starts
<1>9. /\ DOMAIN book' = DOMAIN book /\ \A e \in DOMAIN book : SameOrder(book[e], book'[e])
      /\ \A e \in DOMAIN book \ {id} : book'[e] = book[e]
  <2>1. book' = [book EXCEPT ![id] =
                   [book[id] EXCEPT
                       !.filled = book[id].filled + qty,
                       !.live = book[id].filled + qty < book[id].qty]]
    BY <1>2 DEF Fill
  <2>2. DOMAIN book' = DOMAIN book /\ \A e \in DOMAIN book \ {id} : book'[e] = book[e]
    BY <2>1, <1>3
  <2>3. book'[id] = [book[id] EXCEPT
                       !.filled = book[id].filled + qty,
                       !.live = book[id].filled + qty < book[id].qty]
    BY <2>1, <1>3
  <2>4. SameOrder(book[id], book'[id])
    BY <1>3, <2>3 DEF SameOrder, BookOrder
  <2>5. \A e \in DOMAIN book : SameOrder(book[e], book'[e])
    BY <2>2, <2>4 DEF SameOrder
  <2> QED
    BY <2>2, <2>5
<1>10. PICK gain \in Inventories : \A ids :
          /\ id \in ids => Gained(book, book', ids, gain)
          /\ id \notin ids => Net(book', ids) = Net(book, ids)
  BY <1>3, <1>9, NetFill
<1>11. \A j : OrdersIn(book', j) = OrdersIn(book, j)
  BY <1>9 DEF OrdersIn, SameOrder
<1>12. \A j \in Jobs \ {k} : Trades(j)' = Trades(j)
  <2> TAKE j \in Jobs \ {k}
  <2>1. id \notin OrdersIn(book, j)
    BY <1>4 DEF OrdersIn
  <2>2. RunNet(book', j) = RunNet(book, j)
    BY <2>1, <1>10, <1>11 DEF RunNet
  <2> QED
    BY <2>2, NetIs DEF Trades
<1>13. Gained(book, book', OrdersIn(book, k), gain) /\ Gained(book, book', DOMAIN book, gain)
  BY <1>4, <1>10 DEF OrdersIn
<1>14. \A t \in TickerSet : /\ Position[t] \in Int /\ gain[t] \in Int
                            /\ Position'[t] = Position[t] + gain[t]
  <2> TAKE t \in TickerSet
  <2>1. Net(book', DOMAIN book')[t] = Net(book, DOMAIN book)[t] + gain[t]
    BY <1>9, <1>13 DEF Gained
  <2>2. Net(book, DOMAIN book)[t] \in Int
    BY <1>3, NetType DEF Net
  <2>3. Opening[t] \in Int /\ gain[t] \in Int
    BY ExecutionAssumption, <1>10 DEF Inventories
  <2>4. /\ DayNet(book)[t] = Opening[t] + Net(book, DOMAIN book)[t]
        /\ DayNet(book')[t] = Opening[t] + Net(book', DOMAIN book')[t]
    BY DEF DayNet, Plus
  <2>5. Position[t] = Opening[t] + Net(book, DOMAIN book)[t]
        /\ Position'[t] = Opening[t] + (Net(book, DOMAIN book)[t] + gain[t])
    BY <2>1, <2>4, NetIs
  <2> HIDE DEF Net, Position
  <2> QED
    BY <2>2, <2>3, <2>5
<1>15. Position' \in Inventories
  <2>1. Position' = [t \in TickerSet |-> Position'[t]]
    <3>1. DayNet(book') = [t \in TickerSet |-> DayNet(book')[t]]
      BY DEF DayNet, Plus
    <3> QED
      BY <3>1, NetIs
  <2>2. \A t \in TickerSet : Position'[t] \in Int
    BY <1>14
  <2> QED
    BY <2>1, <2>2 DEF Inventories
<1>16. Trades(k)' = [t \in TickerSet |-> Trades(k)[t] + Position'[t] - Position[t]]
  <2>1. RunNet(book', k) = [t \in TickerSet |-> RunNet(book, k)[t] + gain[t]]
    BY <1>11, <1>13 DEF RunNet, Gained
  <2>2. Trades(k)' = RunNet(book', k) /\ Trades(k) = RunNet(book, k)
    BY NetIs DEF Trades
  <2>3. \A t \in TickerSet : Trades(k)[t] \in Int
    BY <2>2, <1>3, NetType DEF RunNet, Net
  <2>4. \A t \in TickerSet : Trades(k)[t] + Position'[t] - Position[t] = Trades(k)[t] + gain[t]
    BY <1>14, <2>3
  <2> QED
    BY <2>1, <2>2, <2>4
<1> QED
  BY <1>7, <1>8, <1>12, <1>15, <1>16 DEF DayTrades

\* A submission opens a run.
LEMMA StartOpens ==
    ASSUME TypesInv, TypesInv', [Next]_vars, NEW p \in Procs, StartSubmission(p),
           NoFills(book, book')
    PROVE  DayOpens(JobOf[p])
<1> DEFINE k == JobOf[p]
<1>1. /\ k \in Jobs /\ \A j \in Jobs : run[j].status \notin Store!Ambiguous
      /\ \A j \in Jobs \ {k} : run'[j].status = run[j].status
      /\ run'[k].status = "executing" /\ run[k].status = "prepared"
  BY StartAlone
<1>2. Phase(k) = "idle" /\ \A j \in Jobs : Phase(j) # "open"
  BY <1>1 DEF Phase, Store!Ambiguous
<1>3. Phase(k)' = "open" /\ \A j \in Jobs \ {k} : Phase(j)' = Phase(j)
  BY <1>1 DEF Phase, Store!Ambiguous
<1>4. \A j \in Jobs \ {k} : Starts(j)' = Starts(j)
  BY <1>3, StartsStep
<1>5. Starts(k)' \in Inventories
  <2>1. RowOK(k)'
    BY <1>1 DEF TypesInv
  <2>2. run'[k].start \in Inventories
    BY <1>1, <2>1 DEF RowOK, Store!Submitted, Store!Ambiguous
  <2> QED
    BY <1>3, <2>2 DEF Starts
<1> QED
  BY <1>1, <1>2, <1>3, <1>4, <1>5, NoGain DEF DayOpens, Trades

\* Whoever completes a run has found that it explains what is held.
LEMMA CompletedExplained ==
    ASSUME TypesInv, SettledOK, DayOK, NEW j \in Jobs, run[j].status \in Store!Ambiguous,
           (\E p \in Procs : Completes(p, j)) \/ Resolves(j)
    PROVE  Position = Explained(j)
<1>1. ASSUME NEW p \in Procs, Completes(p, j) PROVE Position = Explained(j)
  <2>1. Settle(p) /\ Confirmed(p) /\ JobOf[p] = j
    BY <1>1 DEF Completes
  <2>2. /\ IdsOK(p) /\ AccountOK(p) /\ TodoOK(p) /\ VerifiedOK(p) /\ BudgetOK
        /\ PositionOK(p)
    BY DEF SettledOK, AccountsOK, DayOK
  <2>3. Quiet(p)
    BY <2>1, <2>2, ProcessSettles
  <2>4. /\ pc[p] = "close" /\ work[p].todo # <<>> /\ Head(work[p].todo) = "settle"
        /\ ~work[p].errors
    BY <2>1 DEF Settle, AtStep, Confirmed
  <2>5. work[p].todo \in Seq(Steps)
    <3>1. work \in [Procs -> WorkRec]
      BY DEF TypesInv, WorkTyped
    <3>2. work[p] \in WorkRec
      BY <3>1
    <3> QED
      BY <3>2 DEF WorkRec
  <2>6. Suffix(work[p].todo, Closing(JobOf[p]))
    BY <2>2, <2>4 DEF TodoOK, Started
  <2>7. Ordered(work[p].todo)
    BY <2>4, <2>5, <2>6, ClosingIs
  <2>8. Without(work[p].todo, "snapshot")
    BY <2>4, <2>7 DEF Ordered
  <2> QED
    BY <2>1, <2>2, <2>3, <2>4, <2>8 DEF PositionOK, Knows
<1>2. CASE Resolves(j)
  <2>1. rec.pc = "settle" /\ ~rec.errors /\ rec.job = j
    BY <1>2 DEF Resolves, RecoverSettle
  <2> QED
    BY <2>1 DEF DayOK, RecPosition, Recovering
<1> QED
  BY <1>1, <1>2

\* All other steps leave the phases of the runs alone or close the open one.
Ends(j) == run[j].status \in Store!Ambiguous /\ run'[j].status = "completed"

LEMMA PhaseStep ==
    ASSUME TypesInv, OpenOK, [Next]_vars, \A p \in Procs : ~StartSubmission(p), NEW j \in Jobs
    PROVE  Phase(j)' = Phase(j) \/ Ends(j)
<1>1. StatusMoves(j)
  BY NextStatus
<1>2. CASE run'[j].status = run[j].status
  BY <1>2 DEF Phase
<1>3. CASE run[j].status \notin Store!Submitted /\ run'[j].status \notin Store!Submitted
  BY <1>3 DEF Phase, Store!Submitted
<1>4. CASE /\ run'[j].status = "reconciliation_required"
           /\ \/ \E p \in Procs : Active(p) /\ JobOf[p] = j
              \/ Recovering /\ rec.job = j
  <2>1. run[j].status \in Store!Ambiguous
    BY <1>4 DEF OpenOK
  <2> QED
    BY <1>4, <2>1 DEF Phase, Store!Ambiguous
<1>5. CASE run'[j].status = "completed"
  <2>1. Store!TypeOK /\ (Store!Next \/ run' = run)
    BY NextStore DEF TypesInv, IInv
  <2>2. CASE run[j].status = "completed"
    BY <1>5, <2>2 DEF Phase
  <2>3. CASE run[j].status # "completed"
    BY <1>5, <2>1, <2>3, StoreKeeps DEF Ends
  <2> QED
    BY <2>2, <2>3
<1> QED
  BY <1>1, <1>2, <1>3, <1>4, <1>5 DEF StatusMoves

LEMMA EndCloses ==
    ASSUME TypesInv, TypesInv', SettledOK, DayOK, [Next]_vars, NoFills(book, book'),
           \A p \in Procs : ~StartSubmission(p), NEW k \in Jobs, Ends(k)
    PROVE  DayCloses(k)
<1>1. run[k].status \in Store!Ambiguous /\ run'[k].status = "completed" /\ OpenOK
  BY DEF Ends, DayOK
<1>2. Phase(k) = "open" /\ Phase(k)' = "closed"
  BY <1>1 DEF Phase, Store!Ambiguous
<1>3. \A j \in Jobs \ {k} : Phase(j)' = Phase(j)
  <2> TAKE j \in Jobs \ {k}
  <2>1. ~Ends(j)
    BY <1>1 DEF Ends, OpenOK
  <2> QED
    BY <1>1, <2>1, PhaseStep
<1>4. \A j \in Jobs : Starts(j)' = Starts(j)
  BY <1>2, <1>3, StartsStep
<1>5. (\E p \in Procs : Completes(p, k)) \/ Resolves(k)
  <2>1. StatusMoves(k)
    BY NextStatus
  <2>2. run[k].status \in Store!Submitted /\ run[k].status # "completed"
    BY <1>1 DEF Store!Submitted, Store!Ambiguous
  <2> QED
    BY <1>1, <2>1, <2>2 DEF StatusMoves
<1>6. Position = Explained(k)
  BY <1>1, <1>5, CompletedExplained
<1>7. Position = [t \in TickerSet |-> Starts(k)[t] + Trades(k)[t]]
  BY <1>2, <1>6 DEF Explained, Plus, Starts, Trades
<1> QED
  BY <1>2, <1>3, <1>4, <1>7, NoGain DEF DayCloses, Trades

LEMMA DayNext ==
    ASSUME TypesInv, TypesInv', SettledOK, DayOK, [Next]_vars
    PROVE  [Day!Next]_(Day!vars)
<1>1. CASE FillOne
  BY <1>1, FillTrades, DayMoves
<1>2. CASE NoFills(book, book')
  <2>1. ASSUME NEW p \in Procs, StartSubmission(p) PROVE [Day!Next]_(Day!vars)
    <3>1. JobOf[p] \in Jobs
      BY ExecutionAssumption
    <3> QED
      BY <1>2, <2>1, <3>1, StartOpens, DayMoves
  <2>2. CASE \A p \in Procs : ~StartSubmission(p)
    <3>1. CASE \E k \in Jobs : Ends(k)
      BY <1>2, <2>2, <3>1, EndCloses, DayMoves
    <3>2. CASE \A k \in Jobs : ~Ends(k)
      <4>1. \A j \in Jobs : Phase(j)' = Phase(j)
        BY <2>2, <3>2, PhaseStep DEF DayOK
      <4>2. \A j \in Jobs : Starts(j)' = Starts(j)
        BY <4>1, StartsStep
      <4>3. DayRests
        BY <1>2, <4>1, <4>2, NoGain DEF DayRests, Trades
      <4> QED
        BY <4>3, DayMoves
    <3> QED
      BY <3>1, <3>2
  <2> QED
    BY <2>1, <2>2
<1> QED
  BY <1>1, <1>2, FillStep

LEMMA InitDayOK == Init => DayOK
<1> SUFFICES ASSUME Init PROVE DayOK
  OBVIOUS
<1>1. /\ rec.pc = "idle" /\ \A p \in Procs : pc[p] = "idle"
      /\ \A j \in Jobs : run[j].status = "absent"
  BY DEF Init, NoRecovery, Store!Absent
<1>2. ~Recovering /\ \A p \in Procs : ~Started(p) /\ ~Knows(p)
  BY <1>1 DEF Recovering, Started, Knows, Quiet
<1>3. OpenOK
  BY <1>1, <1>2 DEF OpenOK, RecLease, Active, Store!Ambiguous
<1> QED
  BY <1>1, <1>2, <1>3 DEF DayOK, RecPosition, StartSaved, ExpectedOK, PositionOK

\* While no live process loses its lease, the processes, the store, the lease and
\* the recovery keep the promise of TradingDay for any jobs, plans, fills, failed
\* queries, crashes and with either broker: runs open one at a time, what is held
\* moves by the open run's orders only, and a run is completed, by its process or
\* by recovery, only when its start and its own fills add up to what is held.
THEOREM DayRefinesTradingDay ==
    ASSUME ~Overrun
    PROVE  Spec => ImplementsTradingDay
<1> DEFINE Inv == TypesInv /\ SettledOK
<1>1. Spec => []Inv
  BY SettledInvariant
<1>2. Init => DayOK /\ Day!Init
  BY InitDayOK, DayInit
<1>3. Inv /\ Inv' /\ DayOK /\ [Next]_vars => DayOK' /\ [Day!Next]_(Day!vars)
  BY DayStep, DayNext
<1> HIDE DEF Inv
<1>4. QED
  BY <1>1, <1>2, <1>3, PTL DEF Spec, ImplementsTradingDay, Day!Spec

=============================================================================
