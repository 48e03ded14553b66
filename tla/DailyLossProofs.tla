--------------------------- MODULE DailyLossProofs ---------------------------
(***************************************************************************)
(* Theorems about the profit and the daily loss limit of a bucket: the     *)
(* profit adds up to the value of the account, and the halt for the day is *)
(* the loss of a limit, for every sequence of executions, lots, prices and *)
(* limits.                                                                 *)
(*                                                                         *)
(* Account and Total are recursive functions on sequences.  The induction  *)
(* over a sequence is made on the set of the sequences a fact holds of     *)
(* (SeqInduction).  LedgerBalanced: fill by fill, the realized profit is   *)
(* what was paid and the open position at its average.  TotalReordered:    *)
(* the order of booking does not change a sum, so a flat position booked   *)
(* out of order has earned the same.  IInv is what the steps keep.         *)
(***************************************************************************)
EXTENDS DailyLoss, WellFoundedInduction, SequenceTheorems, FiniteSetTheorems, TLAPS

------------------------------------------------------------------------------
(* Induction.  A property of the natural numbers is the set of the numbers  *)
(* that have it.                                                            *)

LEMMA Least ==
  ASSUME NEW T, T \subseteq Nat, T # {}
  PROVE  \E m \in T : \A n \in T : m <= n
<1>1. PICK m \in T : \A n \in T : ~ (<<n, m>> \in OpToRel(<, Nat))
  BY WFMin, NatLessThanWellFounded, Zenon
<1>2. m \in Nat /\ T \subseteq Nat
  OBVIOUS
<1>3. \A n \in T : <<n, m>> \in OpToRel(<, Nat) <=> n < m
  BY <1>2 DEF OpToRel
<1>4. \A n \in T : ~ (n < m)
  BY <1>1, <1>3, Zenon
<1>5. \A n \in T : m <= n
  BY <1>2, <1>4
<1> QED
  BY <1>5

LEMMA SetInduction ==
  ASSUME NEW T, 0 \in T, \A n \in Nat : n \in T => n + 1 \in T
  PROVE  \A n \in Nat : n \in T
<1> DEFINE B == Nat \ T
<1> SUFFICES ASSUME B # {} PROVE FALSE
  OBVIOUS
<1>1. B \subseteq Nat
  OBVIOUS
<1> HIDE DEF B
<1>2. PICK m \in B : \A n \in B : m <= n
  BY <1>1, Least
<1> USE DEF B
<1>3. m \in Nat /\ m # 0
  OBVIOUS
<1>4. m - 1 \in Nat /\ m - 1 < m /\ (m - 1) + 1 = m
  BY <1>3
<1>5. m - 1 \in T
  BY <1>2, <1>4
<1> QED
  BY <1>4, <1>5

------------------------------------------------------------------------------
(* Account and Total, one element at a time.                                *)

\* The functions the definitions choose exist.
AccountFun(s, n, f) == f = [i \in 0..n |-> IF i = 0 THEN Flat ELSE Applied(f[i - 1], s[i])]

TotalFun(s, n, f) == f = [i \in 0..n |-> IF i = 0 THEN 0 ELSE f[i - 1] + s[i]]

LEMMA AccountFunExists ==
  ASSUME NEW s
  PROVE  \A n \in Nat : \E f : AccountFun(s, n, f)
<1> DEFINE T == {n \in Nat : \E f : AccountFun(s, n, f)}
<1>1. 0 \in T
  <2> DEFINE f == [i \in 0..0 |-> Flat]
  <2>1. f = [i \in 0..0 |-> IF i = 0 THEN Flat ELSE Applied(f[i - 1], s[i])]
    OBVIOUS
  <2>2. AccountFun(s, 0, f)
    BY <2>1 DEF AccountFun
  <2> QED
    BY <2>2
<1>2. ASSUME NEW n \in Nat, n \in T PROVE n + 1 \in T
  <2>1. PICK f : AccountFun(s, n, f)
    BY <1>2
  <2> DEFINE g == [i \in 0..(n + 1) |-> IF i = n + 1 THEN Applied(f[n], s[n + 1]) ELSE f[i]]
  <2>2. f = [i \in 0..n |-> IF i = 0 THEN Flat ELSE Applied(f[i - 1], s[i])]
    BY <2>1 DEF AccountFun
  <2>3. ASSUME NEW i \in 0..(n + 1)
        PROVE  g[i] = IF i = 0 THEN Flat ELSE Applied(g[i - 1], s[i])
    <3>1. CASE i = n + 1
      <4>1. i # 0 /\ i - 1 = n /\ n \in 0..(n + 1) /\ n # n + 1
        BY <3>1
      <4> QED
        BY <3>1, <4>1
    <3>2. CASE i = 0
      <4>1. 0 \in 0..n /\ 0 # n + 1
        OBVIOUS
      <4>2. f[0] = Flat
        BY <2>2, <4>1
      <4> QED
        BY <3>2, <4>1, <4>2
    <3>3. CASE i \in 1..n
      <4>1. i \in 0..n /\ i # 0 /\ i # n + 1 /\ i - 1 \in 0..(n + 1) /\ i - 1 # n + 1
        BY <3>3
      <4>2. f[i] = Applied(f[i - 1], s[i])
        BY <2>2, <4>1
      <4> QED
        BY <4>1, <4>2
    <3> QED
      BY <3>1, <3>2, <3>3
  <2>4. g = [i \in 0..(n + 1) |-> g[i]]
    OBVIOUS
  <2> HIDE DEF g
  <2>5. AccountFun(s, n + 1, g)
    BY <2>3, <2>4 DEF AccountFun
  <2> QED
    BY <2>5
<1> HIDE DEF T
<1>3. \A n \in Nat : n \in T
  BY <1>1, <1>2, SetInduction
<1> QED
  BY <1>3 DEF T

LEMMA TotalFunExists ==
  ASSUME NEW s
  PROVE  \A n \in Nat : \E f : TotalFun(s, n, f)
<1> DEFINE T == {n \in Nat : \E f : TotalFun(s, n, f)}
<1>1. 0 \in T
  <2> DEFINE f == [i \in 0..0 |-> 0]
  <2>1. f = [i \in 0..0 |-> IF i = 0 THEN 0 ELSE f[i - 1] + s[i]]
    OBVIOUS
  <2>2. TotalFun(s, 0, f)
    BY <2>1 DEF TotalFun
  <2> QED
    BY <2>2
<1>2. ASSUME NEW n \in Nat, n \in T PROVE n + 1 \in T
  <2>1. PICK f : TotalFun(s, n, f)
    BY <1>2
  <2> DEFINE g == [i \in 0..(n + 1) |-> IF i = n + 1 THEN f[n] + s[n + 1] ELSE f[i]]
  <2>2. f = [i \in 0..n |-> IF i = 0 THEN 0 ELSE f[i - 1] + s[i]]
    BY <2>1 DEF TotalFun
  <2>3. ASSUME NEW i \in 0..(n + 1)
        PROVE  g[i] = IF i = 0 THEN 0 ELSE g[i - 1] + s[i]
    <3>1. CASE i = n + 1
      <4>1. i # 0 /\ i - 1 = n /\ n \in 0..(n + 1) /\ n # n + 1
        BY <3>1
      <4> QED
        BY <3>1, <4>1
    <3>2. CASE i = 0
      <4>1. 0 \in 0..n /\ 0 # n + 1
        OBVIOUS
      <4>2. f[0] = 0
        BY <2>2, <4>1
      <4> QED
        BY <3>2, <4>1, <4>2
    <3>3. CASE i \in 1..n
      <4>1. i \in 0..n /\ i # 0 /\ i # n + 1 /\ i - 1 \in 0..(n + 1) /\ i - 1 # n + 1
        BY <3>3
      <4>2. f[i] = f[i - 1] + s[i]
        BY <2>2, <4>1
      <4> QED
        BY <4>1, <4>2
    <3> QED
      BY <3>1, <3>2, <3>3
  <2>4. g = [i \in 0..(n + 1) |-> g[i]]
    OBVIOUS
  <2> HIDE DEF g
  <2>5. TotalFun(s, n + 1, g)
    BY <2>3, <2>4 DEF TotalFun
  <2> QED
    BY <2>5
<1> HIDE DEF T
<1>3. \A n \in Nat : n \in T
  BY <1>1, <1>2, SetInduction
<1> QED
  BY <1>3 DEF T

\* Two such functions agree where both are defined, for sequences that do.
LEMMA AccountFunAgree ==
  ASSUME NEW s, NEW t, NEW m \in Nat, NEW k \in Nat, m <= k, NEW f, NEW g,
         AccountFun(s, m, f), AccountFun(t, k, g), \A i \in 1..m : s[i] = t[i]
  PROVE  f[m] = g[m]
<1> DEFINE T == {n \in Nat : n <= m => f[n] = g[n]}
<1>1. /\ f = [i \in 0..m |-> IF i = 0 THEN Flat ELSE Applied(f[i - 1], s[i])]
      /\ g = [i \in 0..k |-> IF i = 0 THEN Flat ELSE Applied(g[i - 1], t[i])]
  BY DEF AccountFun
<1>2. 0 \in T
  <2>1. 0 \in 0..m /\ 0 \in 0..k
    OBVIOUS
  <2>2. f[0] = Flat /\ g[0] = Flat
    BY <1>1, <2>1
  <2> QED
    BY <2>2
<1>3. ASSUME NEW n \in Nat, n \in T PROVE n + 1 \in T
  <2> SUFFICES ASSUME n + 1 <= m PROVE f[n + 1] = g[n + 1]
    OBVIOUS
  <2>1. n + 1 \in 0..m /\ n + 1 \in 0..k /\ n + 1 # 0 /\ (n + 1) - 1 = n /\ n + 1 \in 1..m
    OBVIOUS
  <2>2. f[n + 1] = Applied(f[n], s[n + 1])
    BY <1>1, <2>1
  <2>3. g[n + 1] = Applied(g[n], t[n + 1])
    BY <1>1, <2>1
  <2>4. f[n] = g[n] /\ s[n + 1] = t[n + 1]
    BY <1>3, <2>1
  <2> QED
    BY <2>2, <2>3, <2>4
<1> HIDE DEF T
<1>4. \A n \in Nat : n \in T
  BY <1>2, <1>3, SetInduction
<1> QED
  BY <1>4 DEF T

LEMMA TotalFunAgree ==
  ASSUME NEW s, NEW t, NEW m \in Nat, NEW k \in Nat, m <= k, NEW f, NEW g,
         TotalFun(s, m, f), TotalFun(t, k, g), \A i \in 1..m : s[i] = t[i]
  PROVE  f[m] = g[m]
<1> DEFINE T == {n \in Nat : n <= m => f[n] = g[n]}
<1>1. /\ f = [i \in 0..m |-> IF i = 0 THEN 0 ELSE f[i - 1] + s[i]]
      /\ g = [i \in 0..k |-> IF i = 0 THEN 0 ELSE g[i - 1] + t[i]]
  BY DEF TotalFun
<1>2. 0 \in T
  <2>1. 0 \in 0..m /\ 0 \in 0..k
    OBVIOUS
  <2>2. f[0] = 0 /\ g[0] = 0
    BY <1>1, <2>1
  <2> QED
    BY <2>2
<1>3. ASSUME NEW n \in Nat, n \in T PROVE n + 1 \in T
  <2> SUFFICES ASSUME n + 1 <= m PROVE f[n + 1] = g[n + 1]
    OBVIOUS
  <2>1. n + 1 \in 0..m /\ n + 1 \in 0..k /\ n + 1 # 0 /\ (n + 1) - 1 = n /\ n + 1 \in 1..m
    OBVIOUS
  <2>2. f[n + 1] = f[n] + s[n + 1]
    BY <1>1, <2>1
  <2>3. g[n + 1] = g[n] + t[n + 1]
    BY <1>1, <2>1
  <2>4. f[n] = g[n] /\ s[n + 1] = t[n + 1]
    BY <1>3, <2>1
  <2> QED
    BY <2>2, <2>3, <2>4
<1> HIDE DEF T
<1>4. \A n \in Nat : n \in T
  BY <1>2, <1>3, SetInduction
<1> QED
  BY <1>4 DEF T
LEMMA AccountChosen ==
  ASSUME NEW s, NEW n \in Nat, Len(s) = n
  PROVE  \E f : AccountFun(s, n, f) /\ Account(s) = f[n]
<1>1. \E f : AccountFun(s, n, f)
  BY AccountFunExists
<1> DEFINE F == CHOOSE f : AccountFun(s, n, f)
<1>2. AccountFun(s, n, F)
  BY <1>1
<1>3. Account(s) = F[n]
  BY DEF Account, AccountFun
<1> QED
  BY <1>2, <1>3

LEMMA TotalChosen ==
  ASSUME NEW s, NEW n \in Nat, Len(s) = n
  PROVE  \E f : TotalFun(s, n, f) /\ Total(s) = f[n]
<1>1. \E f : TotalFun(s, n, f)
  BY TotalFunExists
<1> DEFINE F == CHOOSE f : TotalFun(s, n, f)
<1>2. TotalFun(s, n, F)
  BY <1>1
<1>3. Total(s) = F[n]
  BY DEF Total, TotalFun
<1> QED
  BY <1>2, <1>3

LEMMA AccountEmpty ==
  Account(<< >>) = Flat
<1>1. PICK f : AccountFun(<< >>, 0, f) /\ Account(<< >>) = f[0]
  BY AccountChosen
<1>2. 0 \in 0..0
  OBVIOUS
<1> QED
  BY <1>1, <1>2 DEF AccountFun

LEMMA TotalEmpty ==
  Total(<< >>) = 0
<1>1. PICK f : TotalFun(<< >>, 0, f) /\ Total(<< >>) = f[0]
  BY TotalChosen
<1>2. 0 \in 0..0
  OBVIOUS
<1> QED
  BY <1>1, <1>2 DEF TotalFun

LEMMA AccountAppend ==
  ASSUME NEW S, NEW s \in Seq(S), NEW e \in S
  PROVE  Account(Append(s, e)) = Applied(Account(s), e)
<1> DEFINE n == Len(s)
           t == Append(s, e)
<1>1. n \in Nat /\ Len(t) = n + 1 /\ n + 1 \in Nat /\ n <= n + 1
  OBVIOUS
<1>2. t[n + 1] = e /\ \A i \in 1..n : s[i] = t[i]
  OBVIOUS
<1> HIDE DEF n, t
<1>3. PICK f : AccountFun(s, n, f) /\ Account(s) = f[n]
  BY <1>1, AccountChosen DEF n
<1>4. PICK g : AccountFun(t, n + 1, g) /\ Account(t) = g[n + 1]
  BY <1>1, AccountChosen
<1>5. f[n] = g[n]
  BY <1>1, <1>2, <1>3, <1>4, AccountFunAgree
<1>6. n + 1 \in 0..(n + 1) /\ n + 1 # 0 /\ (n + 1) - 1 = n
  BY <1>1
<1>7. g[n + 1] = Applied(g[n], t[n + 1])
  BY <1>4, <1>6 DEF AccountFun
<1> QED
  BY <1>2, <1>3, <1>4, <1>5, <1>7 DEF t

LEMMA TotalAppend ==
  ASSUME NEW S, NEW s \in Seq(S), NEW e \in S
  PROVE  Total(Append(s, e)) = Total(s) + e
<1> DEFINE n == Len(s)
           t == Append(s, e)
<1>1. n \in Nat /\ Len(t) = n + 1 /\ n + 1 \in Nat /\ n <= n + 1
  OBVIOUS
<1>2. t[n + 1] = e /\ \A i \in 1..n : s[i] = t[i]
  OBVIOUS
<1> HIDE DEF n, t
<1>3. PICK f : TotalFun(s, n, f) /\ Total(s) = f[n]
  BY <1>1, TotalChosen DEF n
<1>4. PICK g : TotalFun(t, n + 1, g) /\ Total(t) = g[n + 1]
  BY <1>1, TotalChosen
<1>5. f[n] = g[n]
  BY <1>1, <1>2, <1>3, <1>4, TotalFunAgree
<1>6. n + 1 \in 0..(n + 1) /\ n + 1 # 0 /\ (n + 1) - 1 = n
  BY <1>1
<1>7. g[n + 1] = g[n] + t[n + 1]
  BY <1>4, <1>6 DEF TotalFun
<1> QED
  BY <1>2, <1>3, <1>4, <1>5, <1>7 DEF t

LEMMA SeqInduction ==
  ASSUME NEW S, NEW T, << >> \in T,
         \A s \in Seq(S), e \in S : s \in T => Append(s, e) \in T
  PROVE  \A s \in Seq(S) : s \in T
<1> DEFINE N == {n \in Nat : \A s \in Seq(S) : Len(s) = n => s \in T}
<1>1. 0 \in N
  <2>1. \A s \in Seq(S) : Len(s) = 0 => s = << >>
    OBVIOUS
  <2> QED
    BY <2>1
<1>2. ASSUME NEW n \in Nat, n \in N PROVE n + 1 \in N
  <2> SUFFICES ASSUME NEW s \in Seq(S), Len(s) = n + 1 PROVE s \in T
    OBVIOUS
  <2> DEFINE r == [i \in 1..n |-> s[i]]
  <2>1. r \in Seq(S) /\ Len(r) = n /\ s[n + 1] \in S
    OBVIOUS
  <2>2. s = Append(r, s[n + 1])
    OBVIOUS
  <2> HIDE DEF r
  <2>3. r \in T
    BY <1>2, <2>1
  <2> QED
    BY <2>1, <2>2, <2>3
<1> HIDE DEF N
<1>3. \A n \in Nat : n \in N
  BY <1>1, <1>2, SetInduction
<1>4. \A s \in Seq(S) : Len(s) \in N
  BY <1>3
<1> QED
  BY <1>4 DEF N

------------------------------------------------------------------------------
(* What the executions amount to.                                           *)

Books == [net : Int, avg : Int, realized : Int]

LEMMA TradeType ==
  ASSUME NEW f \in Trades
  PROVE  f.q \in Int /\ f.q # 0 /\ f.p \in Nat
<1>1. \A l \in Lots : l \in Nat /\ l # 0 /\ -l \in Int /\ -l # 0
  BY DailyLossAssumption
<1>2. f.q \in Lots \cup {-l : l \in Lots} /\ f.p \in Prices
  BY DEF Trades
<1>3. f.p \in Nat
  BY <1>2, DailyLossAssumption
<1>4. CASE f.q \in Lots
  BY <1>1, <1>3, <1>4
<1>5. CASE \E l \in Lots : f.q = -l
  BY <1>1, <1>3, <1>5
<1> QED
  BY <1>2, <1>4, <1>5

LEMMA Rewritten ==
  ASSUME NEW b \in Books, NEW n \in Int, NEW a \in Int
  PROVE  /\ [b EXCEPT !.net = n, !.avg = a] \in Books
         /\ [b EXCEPT !.net = n, !.avg = a].net = n
         /\ [b EXCEPT !.net = n, !.avg = a].realized = b.realized
BY DEF Books

\* Bought at an average: nothing is divided by zero.
LEMMA IncreaseType ==
  ASSUME NEW b \in Books, NEW q \in Int, q # 0, NEW p \in Int, SameDirection(b, q)
  PROVE  /\ Increase(b, q, p) \in Books
         /\ Increase(b, q, p).net = b.net + q
         /\ Increase(b, q, p).realized = b.realized
<1>1. b.net \in Int /\ b.avg \in Int /\ b.realized \in Int
  BY DEF Books
<1>2. Abs(b.net + q) \in Nat \ {0} /\ Abs(b.net) \in Nat /\ Abs(q) \in Nat
  BY <1>1 DEF SameDirection, Abs
<1> DEFINE a == (b.avg * Abs(b.net) + p * Abs(q)) \div Abs(b.net + q)
<1>3. b.avg * Abs(b.net) + p * Abs(q) \in Int
  BY <1>1, <1>2
<1>4. a \in Int
  BY <1>2, <1>3
<1>5. Increase(b, q, p) = [b EXCEPT !.net = b.net + q, !.avg = a]
  BY DEF Increase
<1> DEFINE n == b.net + q
<1>6. n \in Int
  BY <1>1
<1>7. Increase(b, q, p) = [b EXCEPT !.net = n, !.avg = a]
  BY <1>5
<1> HIDE DEF a, n
<1>8. /\ Increase(b, q, p) \in Books /\ Increase(b, q, p).net = n
      /\ Increase(b, q, p).realized = b.realized
  <2>1. /\ [b EXCEPT !.net = n, !.avg = a] \in Books
        /\ [b EXCEPT !.net = n, !.avg = a].net = n
        /\ [b EXCEPT !.net = n, !.avg = a].realized = b.realized
    BY <1>4, <1>6, Rewritten
  <2> QED
    BY <1>7, <2>1
<1> QED
  BY <1>8 DEF n

LEMMA DecreaseType ==
  ASSUME NEW b \in Books, NEW q \in Int, q # 0, NEW p \in Int
  PROVE  /\ Decrease(b, q, p) \in Books
         /\ Decrease(b, q, p).net = b.net + q
<1>1. b.net \in Int /\ b.avg \in Int /\ b.realized \in Int
  BY DEF Books
<1>2. Abs(b.net) \in Nat /\ Abs(q) \in Nat
  BY <1>1 DEF Abs
<1>3. Smaller(Abs(q), Abs(b.net)) \in Int
  BY <1>2 DEF Smaller
<1>4. (p - b.avg) * Smaller(Abs(q), Abs(b.net)) * Mult \in Int
  BY <1>1, <1>3, DailyLossAssumption
<1> QED
  BY <1>1, <1>4 DEF Decrease, Books

LEMMA AppliedType ==
  ASSUME NEW b \in Books, NEW f \in Trades
  PROVE  Applied(b, f) \in Books /\ Applied(b, f).net = b.net + f.q
BY TradeType, IncreaseType, DecreaseType DEF Applied

LEMMA AccountType ==
  \A s \in Seq(Trades) : Account(s) \in Books
<1> DEFINE T == {s \in Seq(Trades) : Account(s) \in Books}
<1>1. << >> \in T
  BY AccountEmpty DEF Flat, Books
<1>2. \A s \in Seq(Trades), e \in Trades : s \in T => Append(s, e) \in T
  BY AccountAppend, AppliedType
<1> HIDE DEF T
<1>3. \A s \in Seq(Trades) : s \in T
  BY <1>1, <1>2, SeqInduction
<1> QED
  BY <1>3 DEF T

LEMMA TotalType ==
  \A s \in Seq(Int) : Total(s) \in Int
<1> DEFINE T == {s \in Seq(Int) : Total(s) \in Int}
<1>1. << >> \in T
  BY TotalEmpty
<1>2. \A s \in Seq(Int), e \in Int : s \in T => Append(s, e) \in T
  BY TotalAppend
<1> HIDE DEF T
<1>3. \A s \in Seq(Int) : s \in T
  BY <1>1, <1>2, SeqInduction
<1> QED
  BY <1>3 DEF T

Quantities(s) == [n \in DOMAIN s |-> s[n].q]
Costs(s) == [n \in DOMAIN s |-> Cost(s[n])]

LEMMA CostType ==
  ASSUME NEW f \in Trades
  PROVE  Cost(f) \in Int
BY TradeType, DailyLossAssumption DEF Cost

LEMMA AppendIs ==
  ASSUME NEW s \in Seq(Int), NEW e \in Int
  PROVE  /\ Append(s, e) = [n \in 1..(Len(s) + 1) |-> IF n = Len(s) + 1 THEN e ELSE s[n]]
         /\ Append(s, e) \in Seq(Int) /\ Len(Append(s, e)) = Len(s) + 1
<1> DEFINE t == Append(s, e)
           L == Len(s)
<1>1. t \in Seq(Int) /\ Len(t) = L + 1 /\ L \in Nat
  OBVIOUS
<1>2. \A n \in 1..(L + 1) : t[n] = IF n = L + 1 THEN e ELSE s[n]
  OBVIOUS
<1> HIDE DEF t, L
<1>3. t = [n \in 1..(L + 1) |-> t[n]]
  BY <1>1
<1>4. t = [n \in 1..(L + 1) |-> IF n = L + 1 THEN e ELSE s[n]]
  BY <1>2, <1>3
<1> QED
  BY <1>1, <1>4 DEF t, L

LEMMA TotalMore ==
  ASSUME NEW s \in Seq(Int), NEW e \in Int
  PROVE  Total(Append(s, e)) = Total(s) + e
BY TotalAppend

LEMMA CostsAppend ==
  ASSUME NEW s \in Seq(Trades), NEW e \in Trades
  PROVE  /\ Costs(s) \in Seq(Int)
         /\ Quantities(s) \in Seq(Int)
         /\ Costs(Append(s, e)) = Append(Costs(s), Cost(e))
         /\ Quantities(Append(s, e)) = Append(Quantities(s), e.q)
<1>1. DOMAIN s = 1..Len(s) /\ \A n \in 1..Len(s) : s[n] \in Trades
  OBVIOUS
<1>2. Costs(s) \in Seq(Int) /\ Quantities(s) \in Seq(Int)
  BY <1>1, CostType, TradeType DEF Costs, Quantities
<1>3. Len(Costs(s)) = Len(s) /\ Len(Quantities(s)) = Len(s)
  BY DEF Costs, Quantities
<1> DEFINE t == Append(s, e)
<1>4. /\ DOMAIN t = 1..(Len(s) + 1)
      /\ \A n \in 1..(Len(s) + 1) : t[n] = IF n = Len(s) + 1 THEN e ELSE s[n]
  OBVIOUS
<1> HIDE DEF t
<1>5. Costs(t) = Append(Costs(s), Cost(e))
  <2>1. Costs(t) = [n \in 1..(Len(s) + 1) |-> IF n = Len(s) + 1 THEN Cost(e) ELSE Cost(s[n])]
    BY <1>4 DEF Costs
  <2>2. \A n \in 1..Len(s) : Costs(s)[n] = Cost(s[n])
    BY <1>1 DEF Costs
  <2>3. Cost(e) \in Int
    BY CostType
  <2>4. Append(Costs(s), Cost(e))
          = [n \in 1..(Len(s) + 1) |-> IF n = Len(s) + 1 THEN Cost(e) ELSE Costs(s)[n]]
    BY <1>2, <1>3, <2>3, AppendIs
  <2>5. \A n \in 1..(Len(s) + 1) : n # Len(s) + 1 => n \in 1..Len(s)
    OBVIOUS
  <2> QED
    BY <2>1, <2>2, <2>4, <2>5
<1>6. Quantities(t) = Append(Quantities(s), e.q)
  <2>1. Quantities(t) = [n \in 1..(Len(s) + 1) |-> IF n = Len(s) + 1 THEN e.q ELSE s[n].q]
    BY <1>4 DEF Quantities
  <2>2. \A n \in 1..Len(s) : Quantities(s)[n] = s[n].q
    BY <1>1 DEF Quantities
  <2> QED
    BY <1>2, <1>3, <2>1, <2>2
<1> QED
  BY <1>2, <1>5, <1>6 DEF t

LEMMA PaidAppend ==
  ASSUME NEW s \in Seq(Trades), NEW e \in Trades
  PROVE  /\ Paid(s) \in Int
         /\ Paid(Append(s, e)) = Paid(s) + Cost(e)
<1>1. Paid(s) = Total(Costs(s)) /\ Paid(Append(s, e)) = Total(Costs(Append(s, e)))
  BY DEF Paid, Costs
<1>2. Cost(e) \in Int
  BY CostType
<1> QED
  BY <1>1, <1>2, CostsAppend, TotalAppend, TotalType

LEMMA PaidType ==
  \A s \in Seq(Trades) : Paid(s) \in Int
<1> SUFFICES ASSUME NEW s \in Seq(Trades) PROVE Paid(s) \in Int
  OBVIOUS
<1>1. Costs(s) \in Seq(Int)
  <2>1. \A n \in DOMAIN s : Cost(s[n]) \in Int
    BY CostType
  <2> QED
    BY <2>1 DEF Costs
<1> QED
  BY <1>1, TotalType DEF Paid, Costs

LEMMA NetIsTotal ==
  \A s \in Seq(Trades) : Account(s).net = Total(Quantities(s))
<1> DEFINE T == {s \in Seq(Trades) : Account(s).net = Total(Quantities(s))}
<1>1. << >> \in T
  BY AccountEmpty, TotalEmpty DEF Flat, Quantities
<1>2. ASSUME NEW s \in Seq(Trades), NEW e \in Trades, s \in T PROVE Append(s, e) \in T
  <2>1. Account(Append(s, e)).net = Account(s).net + e.q
    BY AccountAppend, AccountType, AppliedType
  <2>2. Total(Quantities(Append(s, e))) = Total(Quantities(s)) + e.q
    BY CostsAppend, TotalAppend, TradeType
  <2> QED
    BY <1>2, <2>1, <2>2
<1> HIDE DEF T
<1>3. \A s \in Seq(Trades) : s \in T
  BY <1>1, <1>2, SeqInduction
<1> QED
  BY <1>3 DEF T

\* What the realized profit of a ledger is: what was paid, and what is held at
\* its average.
Balanced(s) ==
  LET b == Account(s) IN b.realized = -Paid(s) + b.net * b.avg * Mult

\* A larger position: the average is what the lots cost.
LEMMA IncreaseBalanced ==
  ASSUME NEW b \in Books, NEW f \in Trades, NEW paid \in Int,
         SameDirection(b, f.q),
         Increase(b, f.q, f.p).avg * Abs(b.net + f.q) = b.avg * Abs(b.net) + f.p * Abs(f.q),
         b.realized = -paid + b.net * b.avg * Mult
  PROVE  LET c == Applied(b, f)
         IN c.realized = -(paid + Cost(f)) + c.net * c.avg * Mult
<1> DEFINE n == b.net
           a == b.avg
           q == f.q
           p == f.p
           d == Increase(b, f.q, f.p).avg
<1>1. /\ n \in Int /\ a \in Int /\ q \in Int /\ q # 0 /\ p \in Int /\ d \in Int
      /\ n = 0 \/ (n > 0) = (q > 0)
      /\ Mult \in Int
  <2>1. q \in Int /\ q # 0 /\ p \in Nat
    BY TradeType
  <2>2. Increase(b, q, p) \in Books
    BY <2>1, IncreaseType
  <2> QED
    BY <2>1, <2>2, DailyLossAssumption DEF Books, SameDirection
<1>2. d * Abs(n + q) = a * Abs(n) + p * Abs(q)
  OBVIOUS
<1>3. /\ Applied(b, f).realized = b.realized
      /\ Applied(b, f).net = n + q
      /\ Applied(b, f).avg = d
  BY TradeType, IncreaseType DEF Applied
<1>4. b.realized = -paid + n * a * Mult /\ Cost(f) = q * p * Mult
  BY DEF Cost
<1> HIDE DEF n, a, q, p, d
<1>5. d * (n + q) = a * n + p * q
  <2>1. CASE q > 0 /\ n >= 0
    BY <1>1, <1>2, <2>1 DEF Abs
  <2>2. CASE q < 0 /\ n <= 0
    <3>1. Abs(n + q) = -(n + q) /\ Abs(n) = -n /\ Abs(q) = -q
      BY <1>1, <2>2 DEF Abs
    <3>2. d * (-(n + q)) = a * (-n) + p * (-q)
      BY <1>2, <3>1
    <3> QED
      BY <1>1, <3>2
  <2> QED
    BY <1>1, <2>1, <2>2
<1>6. (n + q) * d * Mult = n * a * Mult + q * p * Mult
  <2>1. (n + q) * d * Mult = (d * (n + q)) * Mult
    BY <1>1
  <2>2. (a * n + p * q) * Mult = n * a * Mult + q * p * Mult
    BY <1>1
  <2> QED
    BY <1>5, <2>1, <2>2
<1>7. n * a * Mult \in Int /\ q * p * Mult \in Int
  BY <1>1
<1> QED
  BY <1>3, <1>4, <1>6, <1>7

\* A smaller one, or one of the other direction: the profit is taken.
LEMMA DecreaseBalanced ==
  ASSUME NEW b \in Books, NEW f \in Trades, NEW paid \in Int,
         ~ SameDirection(b, f.q),
         b.realized = -paid + b.net * b.avg * Mult
  PROVE  LET c == Applied(b, f)
         IN c.realized = -(paid + Cost(f)) + c.net * c.avg * Mult
<1> DEFINE n == b.net
           a == b.avg
           q == f.q
           p == f.p
           c == Applied(b, f)
           closing == Smaller(Abs(q), Abs(n))
           gain == (p - a) * closing * Mult
<1>1. /\ n \in Int /\ a \in Int /\ q \in Int /\ q # 0 /\ p \in Int /\ n # 0
      /\ (n > 0) # (q > 0)
      /\ Mult \in Int
  BY TradeType, DailyLossAssumption DEF Books, SameDirection
<1>2. /\ c.net = n + q
      /\ c.avg = CASE n + q = 0 -> 0
                   [] n + q # 0 /\ (n + q > 0) # (n > 0) -> p
                   [] OTHER -> a
      /\ c.realized = b.realized + (IF n > 0 THEN gain ELSE -gain)
  BY DEF Applied, Decrease
<1>3. b.realized = -paid + n * a * Mult /\ Cost(f) = q * p * Mult
  BY DEF Cost
<1> HIDE DEF n, a, q, p, c
<1>4. CASE n + q = 0 \/ (n + q > 0) # (n > 0)
  <2>1. closing = IF n > 0 THEN n ELSE -n
    BY <1>1, <1>4 DEF Smaller, Abs
  <2>2. (IF n > 0 THEN gain ELSE -gain) = n * p * Mult - n * a * Mult
    <3>1. CASE n > 0
      <4>1. gain = (p - a) * n * Mult
        BY <2>1, <3>1
      <4>2. (p - a) * n * Mult = n * p * Mult - n * a * Mult
        BY <1>1
      <4> QED
        BY <3>1, <4>1, <4>2
    <3>2. CASE ~ (n > 0)
      <4>1. gain = (p - a) * (-n) * Mult
        BY <2>1, <3>2
      <4>2. -((p - a) * (-n) * Mult) = n * p * Mult - n * a * Mult
        BY <1>1
      <4> QED
        BY <3>2, <4>1, <4>2
    <3> QED
      BY <3>1, <3>2
  <2>3. c.net * c.avg * Mult = n * p * Mult + q * p * Mult
    <3>1. CASE n + q = 0
      <4>1. c.avg = 0 /\ q = -n
        <5>1. c.avg = 0
          BY <1>2, <3>1
        <5>2. q = -n
          BY <1>1, <3>1
        <5> QED
          BY <5>1, <5>2
      <4>2. n * p * Mult + (-n) * p * Mult = 0
        BY <1>1
      <4>3. c.net * c.avg * Mult = 0
        BY <1>1, <1>2, <3>1, <4>1
      <4> QED
        BY <4>1, <4>2, <4>3
    <3>2. CASE n + q # 0
      <4>1. c.avg = p
        BY <1>1, <1>2, <1>4, <3>2
      <4>2. (n + q) * p * Mult = n * p * Mult + q * p * Mult
        BY <1>1
      <4> QED
        BY <1>2, <4>1, <4>2
    <3> QED
      BY <3>1, <3>2
  <2>4. n * a * Mult \in Int /\ n * p * Mult \in Int /\ q * p * Mult \in Int
    BY <1>1
  <2>5. c.realized = -paid + n * p * Mult
    BY <1>2, <1>3, <2>2, <2>4
  <2> DEFINE x == n * p * Mult
             y == q * p * Mult
             z == c.net * c.avg * Mult
  <2>6. x \in Int /\ y \in Int /\ z = x + y /\ c.realized = -paid + x /\ Cost(f) = y
    BY <1>3, <2>3, <2>4, <2>5
  <2>7. c.realized = -(paid + Cost(f)) + z
    <3> HIDE DEF x, y, z
    <3> QED
      BY <2>6
  <2> QED
    BY <2>7 DEF c
<1>5. CASE n + q # 0 /\ (n + q > 0) = (n > 0)
  <2>1. closing = IF n > 0 THEN -q ELSE q
    BY <1>1, <1>5 DEF Smaller, Abs
  <2>2. (IF n > 0 THEN gain ELSE -gain) = q * a * Mult - q * p * Mult
    <3>1. CASE n > 0
      <4>1. gain = (p - a) * (-q) * Mult
        BY <2>1, <3>1
      <4>2. (p - a) * (-q) * Mult = q * a * Mult - q * p * Mult
        BY <1>1
      <4> QED
        BY <3>1, <4>1, <4>2
    <3>2. CASE ~ (n > 0)
      <4>1. gain = (p - a) * q * Mult
        BY <2>1, <3>2
      <4>2. -((p - a) * q * Mult) = q * a * Mult - q * p * Mult
        BY <1>1
      <4> QED
        BY <3>2, <4>1, <4>2
    <3> QED
      BY <3>1, <3>2
  <2>3. c.avg = a
    BY <1>1, <1>2, <1>5
  <2>4. (n + q) * a * Mult = n * a * Mult + q * a * Mult
    BY <1>1
  <2>5. n * a * Mult \in Int /\ q * a * Mult \in Int /\ q * p * Mult \in Int
    BY <1>1
  <2>6. c.net * c.avg * Mult = n * a * Mult + q * a * Mult
    BY <1>2, <2>3, <2>4
  <2>7. c.realized = -paid + n * a * Mult + (q * a * Mult - q * p * Mult)
    BY <1>2, <1>3, <2>2, <2>5
  <2> DEFINE x == n * a * Mult
             y == q * a * Mult
             w == q * p * Mult
             z == c.net * c.avg * Mult
  <2>8. /\ x \in Int /\ y \in Int /\ w \in Int /\ z = x + y
        /\ c.realized = -paid + x + (y - w) /\ Cost(f) = w
    BY <1>3, <2>5, <2>6, <2>7
  <2>9. c.realized = -(paid + Cost(f)) + z
    <3> HIDE DEF x, y, z, w
    <3> QED
      BY <2>8
  <2> QED
    BY <2>9 DEF c
<1> QED
  BY <1>4, <1>5 DEF c

LEMMA ExactAppend ==
  ASSUME NEW s \in Seq(Trades), NEW e \in Trades, Exact(Append(s, e))
  PROVE  /\ Exact(s)
         /\ LET b == Account(s)
            IN SameDirection(b, e.q)
                 => Increase(b, e.q, e.p).avg * Abs(b.net + e.q) = b.avg * Abs(b.net) + e.p * Abs(e.q)
<1> DEFINE t == Append(s, e)
<1>1. /\ Len(s) \in Nat /\ Len(t) = Len(s) + 1
      /\ t[Len(s) + 1] = e /\ \A n \in 1..Len(s) : t[n] = s[n]
  OBVIOUS
<1>2. SubSeq(t, 1, Len(s)) = s
  OBVIOUS
<1>3. \A n \in 1..Len(s) : SubSeq(t, 1, n - 1) = SubSeq(s, 1, n - 1)
  OBVIOUS
<1> HIDE DEF t
<1>4. Exact(t)
  BY DEF t
<1>5. \A n \in 1..Len(s) : n \in 1..Len(t)
  BY <1>1
<1>6. Exact(s)
  BY <1>1, <1>3, <1>4, <1>5 DEF Exact
<1>7. Len(s) + 1 \in 1..Len(t) /\ (Len(s) + 1) - 1 = Len(s)
  BY <1>1
<1> QED
  BY <1>1, <1>2, <1>4, <1>6, <1>7 DEF Exact

LEMMA LedgerBalanced ==
  \A s \in Seq(Trades) : Exact(s) => Balanced(s)
<1> DEFINE T == {s \in Seq(Trades) : Exact(s) => Balanced(s)}
<1>1. << >> \in T
  <2>1. Paid(<< >>) = 0
    BY TotalEmpty DEF Paid
  <2> QED
    BY <2>1, AccountEmpty, DailyLossAssumption DEF Balanced, Flat
<1>2. ASSUME NEW s \in Seq(Trades), NEW e \in Trades, s \in T PROVE Append(s, e) \in T
  <2> SUFFICES ASSUME Exact(Append(s, e)) PROVE Balanced(Append(s, e))
    OBVIOUS
  <2> DEFINE b == Account(s)
             paid == Paid(s)
  <2>1. b \in Books /\ paid \in Int
    BY AccountType, PaidAppend
  <2>2. Exact(s)
    BY ExactAppend
  <2>3. b.realized = -paid + b.net * b.avg * Mult
    BY <1>2, <2>2 DEF Balanced
  <2>4. SameDirection(b, e.q)
          => Increase(b, e.q, e.p).avg * Abs(b.net + e.q) = b.avg * Abs(b.net) + e.p * Abs(e.q)
    BY ExactAppend
  <2>5. Account(Append(s, e)) = Applied(b, e) /\ Paid(Append(s, e)) = paid + Cost(e)
    BY AccountAppend, PaidAppend
  <2> HIDE DEF b, paid
  <2>6. Applied(b, e).realized
          = -(paid + Cost(e)) + Applied(b, e).net * Applied(b, e).avg * Mult
    BY <2>1, <2>3, <2>4, IncreaseBalanced, DecreaseBalanced
  <2> QED
    BY <2>5, <2>6 DEF Balanced
<1> HIDE DEF T
<1>3. \A s \in Seq(Trades) : s \in T
  BY <1>1, <1>2, SeqInduction
<1> QED
  BY <1>3 DEF T

------------------------------------------------------------------------------
(* The order of booking does not change what is added.                      *)

LEMMA TotalChange ==
  \A s \in Seq(Int) : \A j \in 1..Len(s), x \in Int :
    Total([s EXCEPT ![j] = x]) = Total(s) - s[j] + x
<1> DEFINE T == {s \in Seq(Int) : \A j \in 1..Len(s), x \in Int :
                                    Total([s EXCEPT ![j] = x]) = Total(s) - s[j] + x}
<1>1. << >> \in T
  OBVIOUS
<1>2. ASSUME NEW s \in Seq(Int), NEW e \in Int, s \in T PROVE Append(s, e) \in T
  <2> DEFINE t == Append(s, e)
             L == Len(s)
  <2>1. /\ t \in Seq(Int) /\ Len(t) = L + 1 /\ L \in Nat
        /\ t = [n \in 1..(L + 1) |-> IF n = L + 1 THEN e ELSE s[n]]
    BY AppendIs
  <2>0. Total(t) = Total(s) + e /\ Total(s) \in Int
    BY TotalMore, TotalType
  <2>2. s = [n \in 1..L |-> s[n]] /\ \A n \in 1..L : s[n] \in Int
    OBVIOUS
  <2> HIDE DEF t, L
  <2> SUFFICES ASSUME NEW j \in 1..(L + 1), NEW x \in Int
               PROVE  Total([t EXCEPT ![j] = x]) = Total(t) - t[j] + x
    BY <2>1 DEF t
  <2>3. CASE j = L + 1
    <3>1. Append(s, x) = [n \in 1..(L + 1) |-> IF n = L + 1 THEN x ELSE s[n]]
      BY AppendIs DEF L
    <3>2. [t EXCEPT ![j] = x] = Append(s, x) /\ t[j] = e
      BY <2>1, <2>3, <3>1
    <3>3. Total(Append(s, x)) = Total(s) + x
      BY TotalMore
    <3>4. Total([t EXCEPT ![j] = x]) = Total(s) + x
      BY <3>2, <3>3
    <3> QED
      BY <2>0, <3>2, <3>4
  <2>4. CASE j \in 1..L
    <3> DEFINE r == [s EXCEPT ![j] = x]
    <3>1. r = [n \in 1..L |-> IF n = j THEN x ELSE s[n]]
      BY <2>2
    <3>2. r \in Seq(Int) /\ Len(r) = L
      <4>1. \A n \in 1..L : r[n] \in Int
        BY <2>2, <3>1
      <4>2. r \in [1..L -> Int]
        BY <3>1, <4>1
      <4> HIDE DEF r
      <4> QED
        BY <2>1, <4>2
    <3>3. Total(r) = Total(s) - s[j] + x
      BY <1>2, <2>4 DEF L
    <3> HIDE DEF r
    <3>4. Append(r, e) = [n \in 1..(L + 1) |-> IF n = L + 1 THEN e ELSE r[n]]
      BY <3>2, AppendIs
    <3>8. Total(Append(r, e)) = Total(r) + e
      BY <3>2, TotalMore
    <3>5. \A n \in 1..(L + 1) : n # L + 1 => n \in 1..L
      BY <2>1
    <3>6. j # L + 1 /\ t[j] = s[j] /\ s[j] \in Int
      <4>1. j # L + 1 /\ j \in 1..(L + 1) /\ s[j] \in Int
        BY <2>1, <2>2, <2>4
      <4> QED
        BY <2>1, <4>1
    <3>7. [t EXCEPT ![j] = x] = Append(r, e)
      <4>1. [t EXCEPT ![j] = x]
              = [n \in 1..(L + 1) |-> IF n = j THEN x ELSE IF n = L + 1 THEN e ELSE s[n]]
        BY <2>1
      <4>2. \A n \in 1..(L + 1) :
              (IF n = j THEN x ELSE IF n = L + 1 THEN e ELSE s[n])
                = (IF n = L + 1 THEN e ELSE r[n])
        BY <3>1, <3>5, <3>6
      <4> QED
        BY <3>4, <4>1, <4>2
    <3>9. Total([t EXCEPT ![j] = x]) = Total(r) + e
      BY <3>7, <3>8
    <3> QED
      BY <2>0, <3>3, <3>6, <3>9
  <2> QED
    BY <2>1, <2>3, <2>4
<1> HIDE DEF T
<1>3. \A s \in Seq(Int) : s \in T
  BY <1>1, <1>2, SeqInduction
<1> QED
  BY <1>3 DEF T

LEMMA TotalZeros ==
  \A n \in Nat : Total([i \in 1..n |-> 0]) = 0
<1> DEFINE Z(n) == [i \in 1..n |-> 0]
           T == {n \in Nat : Total(Z(n)) = 0}
<1>1. 0 \in T
  <2>1. Z(0) = << >>
    OBVIOUS
  <2> QED
    BY <2>1, TotalEmpty
<1>2. ASSUME NEW n \in Nat, n \in T PROVE n + 1 \in T
  <2> DEFINE z == Z(n)
             w == Z(n + 1)
  <2>1. z \in Seq(Int) /\ w = Append(z, 0) /\ Total(z) = 0
    BY <1>2
  <2> HIDE DEF z, w
  <2>2. Total(Append(z, 0)) = Total(z) + 0
    BY <2>1, TotalMore
  <2>3. Total(w) = 0
    BY <2>1, <2>2
  <2> USE DEF w
  <2> HIDE DEF Z
  <2> QED
    BY <2>3
<1> HIDE DEF T
<1>3. \A n \in Nat : n \in T
  BY <1>1, <1>2, SetInduction
<1> QED
  BY <1>3 DEF T

\* What is added in the order l, and what is masked to the elements of l.
Through(v, l) == [i \in DOMAIN l |-> v[l[i]]]
Masked(v, l) == [i \in DOMAIN v |-> IF i \in ToSet(l) THEN v[i] ELSE 0]

LEMMA TotalMasked ==
  ASSUME NEW v \in Seq(Int)
  PROVE  \A l \in Seq(DOMAIN v) : IsInjective(l) => Total(Through(v, l)) = Total(Masked(v, l))
<1> DEFINE D == DOMAIN v
           T == {l \in Seq(D) : IsInjective(l) => Total(Through(v, l)) = Total(Masked(v, l))}
<1>1. << >> \in T
  <2>1. Through(v, << >>) = << >>
    BY DEF Through
  <2>2. Masked(v, << >>) = [i \in 1..Len(v) |-> 0]
    BY DEF Masked, ToSet
  <2> QED
    BY <2>1, <2>2, TotalEmpty, TotalZeros
<1>2. ASSUME NEW l \in Seq(D), NEW e \in D, l \in T PROVE Append(l, e) \in T
  <2> SUFFICES ASSUME IsInjective(Append(l, e))
               PROVE  Total(Through(v, Append(l, e))) = Total(Masked(v, Append(l, e)))
    OBVIOUS
  <2> DEFINE m == Append(l, e)
  <2>1. /\ Len(l) \in Nat /\ DOMAIN l = 1..Len(l) /\ DOMAIN m = 1..(Len(l) + 1)
        /\ m[Len(l) + 1] = e /\ \A i \in 1..Len(l) : m[i] = l[i] /\ l[i] \in D
    OBVIOUS
  <2> HIDE DEF m
  <2>2. IsInjective(l) /\ e \notin ToSet(l)
    <3>1. \A a, b \in 1..(Len(l) + 1) : m[a] = m[b] => a = b
      BY <2>1 DEF IsInjective, m
    <3>2. \A a \in 1..Len(l) : a \in 1..(Len(l) + 1) /\ a # Len(l) + 1
      BY <2>1
    <3>3. IsInjective(l)
      BY <2>1, <3>1, <3>2 DEF IsInjective
    <3>4. \A a \in 1..Len(l) : l[a] # e
      BY <2>1, <3>1, <3>2
    <3> QED
      BY <2>1, <3>3, <3>4 DEF ToSet
  <2>3. ToSet(m) = ToSet(l) \cup {e}
    <3>1. ToSet(m) = {m[i] : i \in 1..(Len(l) + 1)} /\ ToSet(l) = {l[i] : i \in 1..Len(l)}
      BY <2>1 DEF ToSet
    <3>2. \A i \in 1..(Len(l) + 1) : i \in 1..Len(l) \/ i = Len(l) + 1
      BY <2>1
    <3>3. \A i \in 1..Len(l) : i \in 1..(Len(l) + 1)
      BY <2>1
    <3>4. Len(l) + 1 \in 1..(Len(l) + 1)
      BY <2>1
    <3>5. ASSUME NEW x PROVE x \in ToSet(m) <=> x \in ToSet(l) \cup {e}
      BY <2>1, <3>1, <3>2, <3>3, <3>4
    <3> QED
      BY <3>5
  <2>4. \A i \in D : v[i] \in Int
    OBVIOUS
  <2>5. Through(v, l) \in Seq(Int) /\ Through(v, m) = Append(Through(v, l), v[e])
    <3>1. Through(v, l) = [i \in 1..Len(l) |-> v[l[i]]]
      BY <2>1 DEF Through
    <3>2. Through(v, m) = [i \in 1..(Len(l) + 1) |-> IF i = Len(l) + 1 THEN v[e] ELSE v[l[i]]]
      BY <2>1 DEF Through
    <3>3. \A i \in 1..Len(l) : v[l[i]] \in Int
      BY <2>1, <2>4
    <3>4. Through(v, l) \in Seq(Int) /\ Len(Through(v, l)) = Len(l)
      BY <2>1, <3>1, <3>3
    <3> QED
      BY <2>1, <3>1, <3>2, <3>4
  <2>6. /\ Masked(v, l) \in Seq(Int) /\ e \in 1..Len(Masked(v, l))
        /\ Masked(v, l)[e] = 0
        /\ Masked(v, m) = [Masked(v, l) EXCEPT ![e] = v[e]]
    <3>1. D = 1..Len(v) /\ Len(v) \in Nat
      OBVIOUS
    <3>2. Masked(v, l) = [i \in D |-> IF i \in ToSet(l) THEN v[i] ELSE 0]
      BY DEF Masked
    <3>3. Masked(v, m) = [i \in D |-> IF i \in ToSet(l) \/ i = e THEN v[i] ELSE 0]
      BY <2>3 DEF Masked
    <3>4. Masked(v, l) \in Seq(Int) /\ Len(Masked(v, l)) = Len(v)
      BY <2>4, <3>1, <3>2
    <3>5. Masked(v, l)[e] = 0
      BY <2>2, <3>2
    <3>6. Masked(v, m) = [Masked(v, l) EXCEPT ![e] = v[e]]
      BY <3>2, <3>3
    <3> QED
      BY <3>1, <3>4, <3>5, <3>6
  <2>7. Total(Through(v, m)) = Total(Through(v, l)) + v[e]
    BY <2>4, <2>5, TotalMore
  <2>8. Total(Masked(v, m)) = Total(Masked(v, l)) - 0 + v[e]
    <3> DEFINE s == Masked(v, l)
    <3>1. s \in Seq(Int) /\ e \in 1..Len(s) /\ s[e] = 0 /\ v[e] \in Int
      BY <2>4, <2>6
    <3>2. Masked(v, m) = [s EXCEPT ![e] = v[e]]
      BY <2>6
    <3> HIDE DEF s
    <3>3. Total([s EXCEPT ![e] = v[e]]) = Total(s) - s[e] + v[e]
      BY <3>1, TotalChange
    <3>4. Total(Masked(v, m)) = Total(s) - 0 + v[e]
      BY <3>1, <3>2, <3>3
    <3> QED
      BY <3>4 DEF s
  <2>9. Total(Masked(v, l)) \in Int /\ Total(Through(v, l)) = Total(Masked(v, l))
    BY <1>2, <2>2, <2>6, TotalType
  <2> QED
    BY <2>4, <2>7, <2>8, <2>9 DEF m
<1> HIDE DEF T
<1>3. \A l \in Seq(D) : l \in T
  BY <1>1, <1>2, SeqInduction
<1> QED
  BY <1>3 DEF T

\* Everything is added once, in whatever order.
LEMMA TotalReordered ==
  ASSUME NEW v \in Seq(Int), NEW l \in Seq(DOMAIN v), IsInjective(l), Len(l) = Len(v)
  PROVE  Total(Through(v, l)) = Total(v)
<1> DEFINE D == 1..Len(v)
<1>1. DOMAIN v = D /\ DOMAIN l = D /\ Len(v) \in Nat /\ l \in [D -> D]
  OBVIOUS
<1>2. IsFiniteSet(D)
  BY <1>1, FS_Interval
<1>3. l \in Injection(D, D)
  BY <1>1 DEF Injection, IsInjective
<1>4. l \in Surjection(D, D)
  BY <1>2, <1>3, FS_Injection
<1>5. ToSet(l) = D
  BY <1>1, <1>4 DEF Surjection, ToSet
<1>6. Masked(v, l) = v
  BY <1>1, <1>5 DEF Masked
<1> QED
  BY <1>6, TotalMasked

------------------------------------------------------------------------------
(* The books of the bucket against the executions.                          *)

ExecsType ==
  /\ execs \in Seq(Trades) /\ Len(execs) <= MaxExecs
  /\ Abs(Net) <= MaxNet
LedgerType ==
  /\ ledger \in Seq([exec : DOMAIN execs, origin : Origins])
  /\ IsInjective(ledger)

LEMMA AllExact ==
  ASSUME NEW s \in Seq(Trades), Len(s) <= MaxExecs, Abs(Account(s).net) <= MaxNet
  PROVE  Exact(s)
<1>1. Len(s) \in 0..MaxExecs /\ s \in [1..Len(s) -> Trades]
  BY DailyLossAssumption
<1> QED
  BY <1>1, AveragesAssumption

LEMMA ExactFirst ==
  ASSUME NEW s \in Seq(Trades), Exact(s), NEW n \in 0..Len(s)
  PROVE  Exact(SubSeq(s, 1, n))
<1> DEFINE t == SubSeq(s, 1, n)
<1>1. Len(t) = n /\ n \in Nat /\ \A k \in 1..n : k \in 1..Len(s) /\ t[k] = s[k]
  OBVIOUS
<1>2. \A k \in 1..n : SubSeq(t, 1, k - 1) = SubSeq(s, 1, k - 1)
  OBVIOUS
<1> HIDE DEF t
<1>3. Exact(t)
  BY <1>1, <1>2 DEF Exact
<1> QED
  BY <1>3 DEF t

LEMMA WholeIsFirst ==
  ASSUME ExecsType
  PROVE  First(Len(execs)) = execs
BY DEF ExecsType, First

\* The executions up to any of them are in balance.
LEMMA FirstBalanced ==
  ASSUME ExecsType, NEW n \in 0..Len(execs)
  PROVE  /\ First(n) \in Seq(Trades) /\ Len(First(n)) = n
         /\ At(n) \in Books /\ Paid(First(n)) \in Int
         /\ At(n).realized = -Paid(First(n)) + At(n).net * At(n).avg * Mult
<1>1. First(n) \in Seq(Trades) /\ Len(First(n)) = n
  BY DEF ExecsType, First
<1>2. At(n) \in Books /\ Paid(First(n)) \in Int
  BY <1>1, AccountType, PaidType DEF At
<1>3. Exact(execs)
  BY WholeIsFirst, AllExact DEF ExecsType, Net, At
<1>4. Exact(First(n))
  BY <1>3, ExactFirst DEF ExecsType, First
<1>5. Balanced(First(n))
  BY <1>1, <1>4, LedgerBalanced
<1> QED
  BY <1>1, <1>2, <1>5 DEF Balanced, At

\* The value is what was earned and what the position has gained.
LEMMA ValueIsGain ==
  ASSUME ExecsType, NEW n \in 0..Len(execs), NEW p \in Int
  PROVE  /\ At(n).realized \in Int /\ At(n).net \in Int /\ At(n).avg \in Int
         /\ Value(n, p) \in Int
         /\ At(n).net * (p - At(n).avg) \in Int
         /\ Value(n, p) = At(n).realized + At(n).net * (p - At(n).avg) * Mult
         /\ At(n).net = 0 => Value(n, p) = At(n).realized
<1> DEFINE m == At(n).net
           a == At(n).avg
           e == At(n).realized
           c == Paid(First(n))
<1>1. m \in Int /\ a \in Int /\ e \in Int /\ c \in Int /\ Mult \in Int
  BY FirstBalanced, DailyLossAssumption DEF Books
<1>2. e = -c + m * a * Mult /\ Value(n, p) = m * p * Mult - c
  BY FirstBalanced DEF Value
<1> HIDE DEF m, a, e, c
<1>3. /\ m * p * Mult \in Int /\ m * a * Mult \in Int /\ m * (p - a) \in Int
      /\ m * p * Mult = m * (p - a) * Mult + m * a * Mult
      /\ m * (p - a) * Mult \in Int
  BY <1>1
<1>4. Value(n, p) \in Int /\ Value(n, p) = e + m * (p - a) * Mult
  BY <1>1, <1>2, <1>3
<1>5. m = 0 => m * (p - a) * Mult = 0
  BY <1>1
<1>6. m = 0 => Value(n, p) = e
  BY <1>1, <1>4, <1>5
<1> QED
  BY <1>1, <1>3, <1>4, <1>6 DEF m, a, e

LEMMA OrderType ==
  ASSUME LedgerType
  PROVE  /\ Order \in Seq(DOMAIN execs) /\ Len(Order) = Len(ledger) /\ Len(ledger) \in Nat
         /\ DOMAIN Order = 1..Len(ledger) /\ DOMAIN ledger = 1..Len(ledger)
         /\ \A i \in DOMAIN ledger : Order[i] = ledger[i].exec
         /\ Booked = [i \in 1..Len(Order) |-> execs[Order[i]]]
<1> DEFINE F == [exec : DOMAIN execs, origin : Origins]
<1>1. /\ Len(ledger) \in Nat /\ DOMAIN ledger = 1..Len(ledger)
      /\ \A i \in DOMAIN ledger : ledger[i].exec \in DOMAIN execs
  <2>1. ledger \in Seq(F) /\ \A f \in F : f.exec \in DOMAIN execs
    BY DEF LedgerType
  <2> HIDE DEF F
  <2>2. Len(ledger) \in Nat /\ DOMAIN ledger = 1..Len(ledger)
    BY <2>1
  <2>3. \A i \in DOMAIN ledger : ledger[i] \in F
    BY <2>1
  <2> QED
    BY <2>1, <2>2, <2>3
<1>2. Order = [i \in 1..Len(ledger) |-> ledger[i].exec]
  BY <1>1 DEF Order
<1>3. Order \in Seq(DOMAIN execs) /\ Len(Order) = Len(ledger)
  BY <1>1, <1>2
<1> QED
  BY <1>1, <1>2, <1>3 DEF Booked

\* Booked out of order, a closed position has still earned what it cost.
LEMMA HeldIsEarned ==
  ASSUME ExecsType, LedgerType, NEW n \in 0..Len(execs), Holds(n)
  PROVE  RealizedPnl = At(n).realized
<1> DEFINE s == First(n)
           l == Order
<1>1. /\ s \in Seq(Trades) /\ Len(s) = n /\ n \in Nat /\ n <= MaxExecs
      /\ At(n) = Account(s) /\ Account(s) \in Books /\ Paid(s) \in Int
      /\ Account(s).realized = -Paid(s) + Account(s).net * Account(s).avg * Mult
  BY FirstBalanced, DailyLossAssumption DEF ExecsType, At
<1>2. /\ l \in Seq(1..n) /\ Len(l) = n /\ IsInjective(l) /\ DOMAIN l = 1..n
      /\ Account(s).net = 0 \/ \A i \in 1..n : l[i] = i
  <2>1. Len(l) = n /\ DOMAIN l = 1..n /\ \A i \in 1..n : l[i] \in 1..n
    BY OrderType DEF Holds, ToSet
  <2>2. l \in Seq(1..n)
    BY <2>1, OrderType
  <2> QED
    BY <2>1, <2>2 DEF Holds, At
<1>3. Booked = [i \in 1..n |-> s[l[i]]]
  <2>1. Booked = [i \in 1..n |-> execs[l[i]]]
    BY <1>2, OrderType
  <2>2. \A i \in 1..n : s[i] = execs[i]
    BY DEF ExecsType, First
  <2>3. \A i \in 1..n : l[i] \in 1..n
    BY <1>2
  <2> QED
    BY <2>1, <2>2, <2>3
<1> HIDE DEF s, l
<1>4. CASE \A i \in 1..n : l[i] = i
  <2>1. Booked = [i \in 1..n |-> s[i]]
    BY <1>3, <1>4
  <2>2. Booked = s
    BY <1>1, <2>1
  <2> QED
    BY <1>1, <2>2 DEF RealizedPnl
<1>5. CASE Account(s).net = 0
  <2>1. Booked \in Seq(Trades) /\ Len(Booked) = n
    <3>1. \A i \in 1..n : s[l[i]] \in Trades
      BY <1>1, <1>2
    <3> QED
      BY <1>1, <1>3, <3>1
  <2>2. /\ Quantities(s) \in Seq(Int) /\ Costs(s) \in Seq(Int)
        /\ DOMAIN Quantities(s) = 1..n /\ DOMAIN Costs(s) = 1..n
        /\ Len(Quantities(s)) = n /\ Len(Costs(s)) = n
    <3>1. \A i \in DOMAIN s : s[i].q \in Int /\ Cost(s[i]) \in Int
      BY <1>1, TradeType, CostType
    <3> QED
      BY <1>1, <3>1 DEF Quantities, Costs
  <2>3. /\ Quantities(Booked) = Through(Quantities(s), l)
        /\ Costs(Booked) = Through(Costs(s), l)
    <3>1. /\ DOMAIN Booked = 1..n /\ DOMAIN l = 1..n
          /\ \A i \in 1..n : l[i] \in 1..n /\ Booked[i] = s[l[i]]
      BY <1>2, <1>3
    <3>2. \A i \in 1..n : Quantities(s)[l[i]] = s[l[i]].q
      BY <1>1, <3>1 DEF Quantities
    <3>3. \A i \in 1..n : Costs(s)[l[i]] = Cost(s[l[i]])
      BY <1>1, <3>1 DEF Costs
    <3>4. Quantities(Booked) = [i \in 1..n |-> s[l[i]].q]
      BY <3>1 DEF Quantities
    <3>5. Costs(Booked) = [i \in 1..n |-> Cost(s[l[i]])]
      BY <3>1 DEF Costs
    <3> QED
      BY <3>1, <3>2, <3>3, <3>4, <3>5 DEF Through
  <2>4. /\ Total(Quantities(Booked)) = Total(Quantities(s))
        /\ Total(Costs(Booked)) = Total(Costs(s))
    BY <1>2, <2>2, <2>3, TotalReordered
  <2>5. Account(Booked).net = 0
    BY <1>1, <1>5, <2>1, <2>4, NetIsTotal
  <2>6. Paid(Booked) = Paid(s)
    BY <2>4 DEF Paid, Costs
  <2>7. Abs(0) <= MaxNet
    BY DailyLossAssumption DEF Abs
  <2>8. Balanced(Booked)
    BY <1>1, <2>1, <2>5, <2>7, AllExact, LedgerBalanced
  <2>9. Account(Booked) \in Books
    BY <2>1, AccountType
  <2>10. RealizedPnl = -Paid(s)
    BY <1>1, <2>5, <2>6, <2>8, <2>9, DailyLossAssumption DEF RealizedPnl, Balanced, Books
  <2>11. Account(s).realized = -Paid(s)
    BY <1>1, <1>5, DailyLossAssumption DEF Books
  <2> QED
    BY <1>1, <2>10, <2>11
<1> QED
  BY <1>2, <1>4, <1>5

LEMMA UptoHolds ==
  ASSUME LedgerType, Upto # None
  PROVE  Upto \in 0..Len(execs) /\ Holds(Upto)
<1>1. Upto = Len(ledger) /\ Holds(Len(ledger)) /\ Len(ledger) \in Nat
  BY OrderType DEF Upto
<1> QED
  BY <1>1 DEF Holds

LEMMA RealizedType ==
  ASSUME ExecsType, LedgerType
  PROVE  RealizedPnl \in Int
<1>1. Booked \in Seq(Trades)
  <2>1. \A i \in 1..Len(Order) : execs[Order[i]] \in Trades
    BY OrderType DEF ExecsType
  <2> QED
    BY <2>1, OrderType
<1> QED
  BY <1>1, AccountType DEF RealizedPnl, Books

Reports == [n : Nat, price : Prices \cup {0}, given : BOOLEAN]
ReportType(r) ==
  /\ r \in Reports /\ r.n <= Len(execs)
  /\ r.n = 0 \/ r.price \in Prices

LEMMA ReportIs ==
  ASSUME ExecsType, NEW r, ReportType(r)
  PROVE  /\ r.n \in 0..Len(execs) /\ r.price \in Nat /\ r.given \in BOOLEAN
         /\ r \in Reports
<1>1. r.n \in Nat /\ r.price \in Prices \cup {0} /\ r.given \in BOOLEAN /\ r.n <= Len(execs)
  BY DEF ReportType, Reports
<1>2. \A p \in Prices : p \in Nat
  BY DailyLossAssumption
<1>3. Len(execs) \in Nat
  BY DEF ExecsType
<1> QED
  BY <1>1, <1>2, <1>3 DEF ReportType

\* What a report shows is the rest of the value, but for what is hidden.
LEMMA ReportAddsUp ==
  ASSUME ExecsType, NEW r, ReportType(r)
  PROVE  /\ Unrealized(Position(r)) \in Int /\ Hidden(r) \in Int
         /\ Unrealized(Position(r)) = Value(r.n, r.price) - At(r.n).realized - Hidden(r)
<1> DEFINE n == At(r.n).net
           a == At(r.n).avg
           e == At(r.n).realized
           p == r.price
           v == Value(r.n, r.price)
           h == Hidden(r)
           g == r.given
           u == Unrealized(Position(r))
<1>1. r.n \in 0..Len(execs) /\ p \in Nat /\ g \in BOOLEAN /\ Mult \in Nat /\ None \notin Int
  <2>1. r.n \in 0..Len(execs) /\ p \in Nat /\ g \in BOOLEAN
    BY ReportIs
  <2> QED
    BY <2>1, DailyLossAssumption
<1>2. /\ n \in Int /\ a \in Int /\ e \in Int /\ v \in Int /\ n * (p - a) \in Int
      /\ v = e + n * (p - a) * Mult
  <2>1. r.n \in 0..Len(execs) /\ r.price \in Int
    BY <1>1
  <2> QED
    BY <2>1, ValueIsGain
<1>3. n # 0 => p \in Prices
  <2>1. CASE r.n = 0
    <3>1. First(0) = << >>
      BY DEF ExecsType, First
    <3>2. At(r.n).net = 0
      BY <2>1, <3>1, AccountEmpty DEF At, Flat
    <3> QED
      BY <3>2
  <2>2. CASE r.n # 0
    BY <2>2 DEF ReportType
  <2> QED
    BY <2>1, <2>2
<1>4. h = IF g THEN 0 ELSE (Mult - 1) * (n * (p - a))
  BY DEF Hidden
<1>5. Position(r) =
        IF n = 0 THEN None
        ELSE [side |-> IF n > 0 THEN "long" ELSE "short", qty |-> Abs(n),
              avg |-> a, price |-> p,
              pnl |-> IF g THEN n * (p - a) * Mult ELSE None]
  BY DEF Position
<1>6. u = Unrealized(Position(r))
  OBVIOUS
<1> HIDE DEF n, a, e, p, v, h, g, u
<1> DEFINE x == n * (p - a)
<1>7. x * Mult \in Int /\ (Mult - 1) * x \in Int /\ x * Mult - (Mult - 1) * x = x
  <2>1. x \in Int /\ Mult \in Int
    BY <1>1, <1>2
  <2> HIDE DEF x
  <2> QED
    BY <2>1
<1>8. u = IF g THEN x * Mult ELSE x
  <2>1. CASE n = 0
    <3>1. u = 0
      BY <1>5, <1>6, <2>1 DEF Unrealized
    <3>2. x = 0
      BY <1>1, <1>2, <2>1
    <3> QED
      BY <1>1, <3>1, <3>2
  <2>2. CASE n # 0 /\ g
    <3>1. Position(r) \in Snaps
      BY <1>1, <1>2, <1>3, <1>5, <1>7, <2>2 DEF Snaps, Abs
    <3>2. Position(r) # None /\ Position(r).pnl = x * Mult
      BY <1>5, <2>2, <3>1, DailyLossAssumption
    <3> QED
      BY <1>1, <1>6, <1>7, <2>2, <3>2 DEF Unrealized
  <2>3. CASE n # 0 /\ ~g
    <3>1. Position(r) \in Snaps
      BY <1>1, <1>2, <1>3, <1>5, <1>7, <2>3 DEF Snaps, Abs
    <3>2. /\ Position(r) # None /\ Position(r).pnl = None /\ Position(r).qty = Abs(n)
          /\ Position(r).avg = a /\ Position(r).price = p
          /\ Position(r).side = IF n > 0 THEN "long" ELSE "short"
      BY <1>5, <2>3, <3>1, DailyLossAssumption
    <3>3. CASE n > 0
      <4>1. u = n * p - n * a
        BY <1>1, <1>2, <1>6, <3>2, <3>3 DEF Unrealized, Abs
      <4> QED
        BY <1>1, <1>2, <2>3, <4>1
    <3>4. CASE n < 0
      <4>1. u = (-n) * a - (-n) * p
        BY <1>1, <1>2, <1>6, <3>2, <3>4 DEF Unrealized, Abs
      <4> QED
        BY <1>1, <1>2, <2>3, <4>1
    <3> QED
      BY <1>2, <2>3, <3>3, <3>4
  <2> QED
    BY <1>1, <2>1, <2>2, <2>3
<1> HIDE DEF x
<1>9. u \in Int /\ h \in Int /\ u = v - e - h
  <2>1. x \in Int /\ v = e + x * Mult /\ h = IF g THEN 0 ELSE (Mult - 1) * x
    BY <1>2, <1>4 DEF x
  <2>2. CASE g
    BY <1>2, <1>7, <1>8, <2>1, <2>2
  <2>3. CASE ~g
    BY <1>2, <1>7, <1>8, <2>1, <2>3
  <2> QED
    BY <2>2, <2>3
<1> QED
  BY <1>9 DEF u, h, v, e

------------------------------------------------------------------------------
(* The invariant.                                                           *)

Amounts == [realized : Int, sum : Int]
Jobs == [at : {"idle", "ticked", "done"}, unrealized : Int, realized : Int,
         report : Reports, upto : Nat \cup {None}]
Risks == [state : {"active", "halted_daily"}, day : Int, realized : Int, unrealized : Int]
Days == [day : Int, first : Amounts, lost : BOOLEAN,
         level : BOOLEAN, worth : Amounts, worse : BOOLEAN]

ControlType ==
  /\ price \in Prices
  /\ job \in Jobs
  /\ today \in 1..MaxDays
  /\ risk \in Risks /\ risk.day \in 0..today
  /\ hist \in Days
  /\ restarts \in 0..MaxRestarts

SnapHolds == snap = Position(told) /\ ReportType(told)

\* What the tick added up is the rest of the value in its report, and what the
\* ledger was read to is what its executions earned.
JobHolds ==
  /\ ReportType(job.report)
  /\ job.at # "idle" =>
       job.unrealized = Value(job.report.n, job.report.price)
                        - At(job.report.n).realized - Hidden(job.report)
  /\ job.upto # None => job.upto \in 0..Len(execs)
  /\ job.at = "done" /\ job.upto # None => job.realized = At(job.upto).realized

\* The history and the stored baseline are of the same evaluation, and on a
\* level day what was given is the account.
HistHolds ==
  /\ hist.day = risk.day
  /\ hist.first.realized = risk.realized
  /\ hist.first.sum = risk.realized + risk.unrealized
  /\ risk.state = "halted_daily" <=> hist.lost
  /\ hist.level => hist.worth = hist.first /\ hist.worse = hist.lost

IInv == ExecsType /\ LedgerType /\ SnapHolds /\ ControlType /\ JobHolds /\ HistHolds

LEMMA JobAddsUp ==
  ASSUME IInv
  PROVE  ProfitAddsUp
<1> SUFFICES ASSUME job.at = "done", job.upto # None
             PROVE  job.realized + job.unrealized
                      = Value(job.report.n, job.report.price)
                        + (At(job.upto).realized - At(job.report.n).realized)
                        - Hidden(job.report)
  BY DEF ProfitAddsUp
<1> DEFINE v == Value(job.report.n, job.report.price)
           m == At(job.upto).realized
           n == At(job.report.n).realized
           h == Hidden(job.report)
<1>1. job.upto \in 0..Len(execs) /\ job.report.n \in 0..Len(execs) /\ job.report.price \in Int
  BY ReportIs DEF IInv, JobHolds
<1>2. v \in Int /\ m \in Int /\ n \in Int /\ h \in Int
  BY <1>1, ValueIsGain, ReportAddsUp DEF IInv, JobHolds
<1>3. job.realized = m /\ job.unrealized = v - n - h
  BY DEF IInv, JobHolds
<1> HIDE DEF v, m, n, h
<1>4. job.realized + job.unrealized = v + (m - n) - h
  BY <1>2, <1>3
<1> QED
  BY <1>4 DEF v, m, n, h

\* Given a level view, the monitor is given the account.
LEMMA LevelIsTrue ==
  ASSUME IInv, job.at = "done", Level
  PROVE  TrueFigures = Figures
<1> DEFINE v == Value(job.report.n, job.report.price)
           w == Value(job.upto, job.report.price)
           m == At(job.upto).realized
           n == At(job.report.n).realized
<1>1. job.upto # None /\ Hidden(job.report) = 0
  BY DEF Level
<1>2. job.upto \in 0..Len(execs) /\ job.report.n \in 0..Len(execs) /\ job.report.price \in Int
  BY <1>1, ReportIs DEF IInv, JobHolds
<1>3. v \in Int /\ w \in Int /\ m \in Int /\ n \in Int
  BY <1>2, ValueIsGain DEF IInv
<1>4. job.realized = m
  BY <1>1 DEF IInv, JobHolds
<1>5. job.realized + job.unrealized = v + (m - n) - 0
  BY <1>1, JobAddsUp DEF ProfitAddsUp
<1>6. v + (m - n) = w
  <2>1. CASE job.upto = job.report.n
    <3>1. v = w /\ m = n
      BY <2>1
    <3> HIDE DEF v, w, m, n
    <3> QED
      BY <1>3, <3>1
  <2>2. CASE At(job.upto).net = 0 /\ At(job.report.n).net = 0
    <3>1. v = n /\ w = m
      BY <1>2, <2>2, ValueIsGain DEF IInv
    <3> HIDE DEF v, w, m, n
    <3> QED
      BY <1>3, <3>1
  <2> QED
    BY <2>1, <2>2 DEF Level
<1>7. TrueFigures = [realized |-> m, sum |-> w]
  BY DEF TrueFigures
<1> HIDE DEF v, w, m, n
<1>8. job.realized + job.unrealized = w
  BY <1>3, <1>5, <1>6
<1> QED
  BY <1>4, <1>7, <1>8 DEF Figures

LEMMA Initially ==
  Init => IInv
<1> SUFFICES ASSUME Init PROVE IInv
  OBVIOUS
<1>1. /\ price \in Prices /\ execs = Opening
      /\ ledger = [i \in DOMAIN Opening |-> [exec |-> i, origin |-> "recon"]]
      /\ snap = None /\ told = NoReport /\ job = NoJob /\ today = 1 /\ risk = NoRisk
      /\ restarts = 0 /\ hist = NoHist
  BY DEF Init
<1>2. execs \in Seq(Trades) /\ Len(execs) <= MaxExecs /\ Len(execs) \in Nat
  BY <1>1, OpeningAssumption, DailyLossAssumption
<1>3. ExecsType
  <2>1. First(Len(execs)) = execs
    BY <1>2 DEF First
  <2> QED
    BY <1>1, <1>2, <2>1, OpeningAssumption DEF ExecsType, Net, At
<1>4. LedgerType
  <2>1. Len(Opening) \in Nat /\ DOMAIN Opening = 1..Len(Opening) /\ "recon" \in Origins
    BY DailyLossAssumption
  <2>2. ledger \in Seq([exec : DOMAIN execs, origin : Origins])
    BY <1>1, <2>1
  <2>3. \A i \in DOMAIN ledger : ledger[i].exec = i
    BY <1>1, <2>1
  <2> QED
    BY <2>2, <2>3 DEF LedgerType, IsInjective
<1>5. ReportType(NoReport)
  BY <1>2 DEF ReportType, Reports, NoReport
<1>6. SnapHolds
  <2>1. First(0) = << >>
    BY <1>2 DEF First
  <2>2. Position(NoReport) = None
    BY <2>1, AccountEmpty DEF Position, NoReport, At, Flat
  <2> QED
    BY <1>1, <1>5, <2>2 DEF SnapHolds
<1>7. ControlType
  <2>1. NoReport \in Reports /\ NoFigures \in Amounts
    BY DEF NoReport, Reports, NoFigures, Amounts
  <2>2. NoJob \in Jobs
    BY <2>1 DEF NoJob, Jobs
  <2>3. NoHist \in Days
    BY <2>1 DEF NoHist, Days
  <2> QED
    BY <1>1, <2>2, <2>3, DailyLossAssumption DEF ControlType, NoRisk, Risks
<1>8. JobHolds
  <2>1. job.report = NoReport /\ job.at = "idle" /\ job.upto = None
    BY <1>1 DEF NoJob
  <2> QED
    BY <1>5, <2>1 DEF JobHolds
<1>9. HistHolds
  BY <1>1 DEF HistHolds, NoRisk, NoHist, NoFigures
<1> QED
  BY <1>3, <1>4, <1>6, <1>7, <1>8, <1>9 DEF IInv

LEMMA ExecuteKeeps ==
  ASSUME IInv, NEW q \in Lots \cup {-l : l \in Lots}, Execute(q)
  PROVE  IInv'
<1>1. /\ Len(execs) < MaxExecs /\ Abs(Net + q) <= MaxNet
      /\ execs' = Append(execs, [q |-> q, p |-> price])
      /\ UNCHANGED <<price, ledger, snap, told, job, today, risk, restarts, hist>>
  BY DEF Execute
<1>2. ExecsType /\ LedgerType /\ SnapHolds /\ ControlType /\ JobHolds /\ HistHolds
  BY DEF IInv
<1> DEFINE e == [q |-> q, p |-> price]
<1>3. e \in Trades /\ e.q = q
  BY <1>2 DEF Trades, ControlType
<1>4. execs \in Seq(Trades) /\ execs' = Append(execs, e)
  BY <1>1, <1>2 DEF ExecsType
<1> HIDE DEF e
<1>5. /\ execs' \in Seq(Trades) /\ Len(execs') = Len(execs) + 1 /\ Len(execs) \in Nat
      /\ SubSeq(execs', 1, Len(execs')) = execs'
  BY <1>3, <1>4
<1>6. \A n \in 0..Len(execs) : SubSeq(execs', 1, n) = SubSeq(execs, 1, n)
  BY <1>3, <1>4
<1>7. ExecsType'
  <2>1. Account(execs').net = Account(execs).net + q
    BY <1>3, <1>4, AccountAppend, AccountType, AppliedType
  <2>2. Net = Account(execs).net
    BY <1>2, WholeIsFirst DEF Net, At
  <2>3. Net' = Account(execs').net
    BY <1>5 DEF Net, At, First
  <2> QED
    BY <1>1, <1>5, <2>1, <2>2, <2>3, DailyLossAssumption DEF ExecsType
<1>8. LedgerType'
  <2>1. DOMAIN execs \subseteq DOMAIN execs'
    BY <1>3, <1>4, <1>5
  <2> DEFINE F == [exec : DOMAIN execs, origin : Origins]
             G == [exec : DOMAIN execs', origin : Origins]
  <2>3. F \subseteq G /\ ledger \in Seq(F)
    BY <1>2, <2>1 DEF LedgerType
  <2> HIDE DEF F, G
  <2>4. ledger \in Seq(G)
    BY <2>3
  <2>2. ledger \in Seq([exec : DOMAIN execs', origin : Origins])
    BY <2>4 DEF G
  <2> QED
    BY <1>1, <1>2, <2>2 DEF LedgerType, IsInjective
<1>9. /\ told.n \in 0..Len(execs) /\ job.report.n \in 0..Len(execs)
      /\ told.n <= Len(execs') /\ job.report.n <= Len(execs')
      /\ job.upto # None => job.upto \in 0..Len(execs) /\ job.upto \in 0..Len(execs')
  BY <1>2, <1>5 DEF SnapHolds, JobHolds, ReportType, Reports
<1>10. SnapHolds'
  <2>1. SubSeq(execs', 1, told.n) = SubSeq(execs, 1, told.n)
    BY <1>6, <1>9
  <2> QED
    BY <1>1, <1>2, <1>9, <2>1 DEF SnapHolds, ReportType, Position, At, First
<1>11. JobHolds'
  <2>1. SubSeq(execs', 1, job.report.n) = SubSeq(execs, 1, job.report.n)
    BY <1>6, <1>9
  <2>2. job.upto # None => SubSeq(execs', 1, job.upto) = SubSeq(execs, 1, job.upto)
    BY <1>6, <1>9
  <2>3. ReportType(job.report)'
    BY <1>1, <1>2, <1>9 DEF JobHolds, ReportType
  <2>4. /\ Value(job.report.n, job.report.price)' = Value(job.report.n, job.report.price)
        /\ At(job.report.n)' = At(job.report.n)
        /\ Hidden(job.report)' = Hidden(job.report)
    BY <1>1, <2>1 DEF Value, At, First, Hidden
  <2>5. job.upto # None => At(job.upto)' = At(job.upto)
    BY <1>1, <2>2 DEF At, First
  <2> QED
    BY <1>1, <1>2, <1>9, <2>3, <2>4, <2>5 DEF JobHolds
<1>12. ControlType' /\ HistHolds'
  BY <1>1, <1>2 DEF ControlType, HistHolds
<1> QED
  BY <1>7, <1>8, <1>10, <1>11, <1>12 DEF IInv

\* A step that leaves the executions alone leaves what they amount to.
LEMMA SameExecs ==
  ASSUME UNCHANGED execs
  PROVE  /\ ExecsType => ExecsType'
         /\ UNCHANGED ledger /\ LedgerType => LedgerType'
         /\ UNCHANGED <<snap, told>> /\ SnapHolds => SnapHolds'
         /\ UNCHANGED job /\ JobHolds => JobHolds'
BY DEF ExecsType, Net, LedgerType, SnapHolds, JobHolds, ReportType, Position, Value, At,
       First, Hidden

LEMMA NoReportHolds ==
  ASSUME ExecsType
  PROVE  ReportType(NoReport) /\ Position(NoReport) = None
<1>1. First(0) = << >> /\ 0 <= Len(execs)
  BY DEF ExecsType, First
<1>2. Position(NoReport) = None
  BY <1>1, AccountEmpty DEF Position, NoReport, At, Flat
<1> QED
  BY <1>1, <1>2 DEF ReportType, Reports, NoReport



\* The price, the day and a restart.
LEMMA OutsideKeeps ==
  ASSUME IInv, (\E p \in Prices : Move(p)) \/ NextDay \/ Restart
  PROVE  IInv'
<1>1. ExecsType /\ LedgerType /\ SnapHolds /\ ControlType /\ JobHolds /\ HistHolds
  BY DEF IInv
<1>2. /\ UNCHANGED <<execs, ledger, risk, hist>>
      /\ price' \in Prices
      /\ today' \in 1..MaxDays /\ today <= today' /\ today \in Int
      /\ restarts' \in 0..MaxRestarts
      /\ \/ UNCHANGED <<snap, told, job>>
         \/ snap' = None /\ told' = NoReport /\ job' = NoJob
  BY <1>1, DailyLossAssumption DEF Move, NextDay, Restart, ControlType
<1>3. ExecsType' /\ LedgerType'
  BY <1>1, <1>2, SameExecs
<1>4. SnapHolds' /\ JobHolds' /\ (job \in Jobs)'
  <2>1. CASE UNCHANGED <<snap, told, job>>
    BY <1>1, <1>2, <2>1, SameExecs DEF ControlType
  <2>2. CASE snap' = None /\ told' = NoReport /\ job' = NoJob
    <3>2. (ReportType(NoReport) /\ Position(NoReport) = None)'
      BY <1>1, <1>2, NoReportHolds DEF ReportType, Position, At, First
    <3>1. JobHolds' /\ (job \in Jobs)'
      <4>1. job'.report = NoReport /\ job'.at = "idle" /\ job'.upto = None
        BY <2>2 DEF NoJob
      <4>2. JobHolds'
        BY <3>2, <4>1 DEF JobHolds, NoReport
      <4>3. NoReport \in Reports
        BY <1>1, NoReportHolds DEF ReportType
      <4> QED
        BY <2>2, <4>2, <4>3 DEF NoJob, Jobs
    <3>3. SnapHolds'
      BY <2>2, <3>2 DEF SnapHolds, NoReport
    <3> QED
      BY <3>1, <3>3
  <2> QED
    BY <1>2, <2>1, <2>2
<1>5. ControlType' /\ HistHolds'
  BY <1>1, <1>2, <1>4 DEF ControlType, HistHolds
<1> QED
  BY <1>3, <1>4, <1>5 DEF IInv

LEMMA BookKeeps ==
  ASSUME IInv, NEW i \in DOMAIN execs, NEW o \in Origins, Book(i, o)
  PROVE  IInv'
<1> DEFINE f == [exec |-> i, origin |-> o]
<1>1. /\ f \notin ToSet(ledger) /\ ledger' = Append(ledger, f)
      /\ UNCHANGED <<price, execs, snap, told, job, today, risk, restarts, hist>>
  BY DEF Book
<1>2. ExecsType /\ LedgerType /\ SnapHolds /\ ControlType /\ JobHolds /\ HistHolds
  BY DEF IInv
<1>3. LedgerType'
  <2> DEFINE F == [exec : DOMAIN execs, origin : Origins]
  <2>1. f \in F
    OBVIOUS
  <2> HIDE DEF f, F
  <2>2. ledger \in Seq(F) /\ \A a, b \in DOMAIN ledger : ledger[a] = ledger[b] => a = b
    BY <1>2 DEF LedgerType, IsInjective, F
  <2>3. \A a \in DOMAIN ledger : ledger[a] # f
    BY <1>1 DEF ToSet
  <2> DEFINE l == Append(ledger, f)
  <2>4. l \in Seq(F)
    BY <2>1, <2>2
  <2>5. /\ DOMAIN l = 1..(Len(ledger) + 1) /\ DOMAIN ledger = 1..Len(ledger)
        /\ Len(ledger) \in Nat
        /\ \A a \in DOMAIN ledger : l[a] = ledger[a]
        /\ l[Len(ledger) + 1] = f
    BY <2>1, <2>2
  <2> HIDE DEF l
  <2>6. \A a \in DOMAIN l : a \in DOMAIN ledger \/ a = Len(ledger) + 1
    BY <2>5
  <2>7. \A a, b \in DOMAIN l : l[a] = l[b] => a = b
    BY <2>2, <2>3, <2>5, <2>6
  <2> QED
    BY <1>1, <2>4, <2>7 DEF LedgerType, IsInjective, l, F
<1>4. ExecsType' /\ SnapHolds' /\ JobHolds'
  BY <1>1, <1>2, SameExecs
<1>5. ControlType' /\ HistHolds'
  BY <1>1, <1>2 DEF ControlType, HistHolds
<1> QED
  BY <1>3, <1>4, <1>5 DEF IInv

LEMMA TrackKeeps ==
  ASSUME IInv, NEW given \in PnlGiven, Track(given)
  PROVE  IInv'
<1>1. /\ told' = Report(given) /\ snap' = Position(told')
      /\ UNCHANGED <<price, execs, ledger, job, today, risk, restarts, hist>>
  BY DEF Track
<1>2. ExecsType /\ LedgerType /\ SnapHolds /\ ControlType /\ JobHolds /\ HistHolds
  BY DEF IInv
<1>3. ExecsType' /\ LedgerType' /\ JobHolds'
  BY <1>1, <1>2, SameExecs
<1>4. SnapHolds'
  <2>1. Len(execs) \in Nat /\ price \in Prices /\ given \in BOOLEAN
    BY <1>2, DailyLossAssumption DEF ExecsType, ControlType
  <2>2. told' \in Reports /\ told'.n = Len(execs) /\ told'.price \in Prices
    BY <1>1, <2>1 DEF Report, Reports
  <2>3. snap' = Position(told)'
    BY <1>1 DEF Position, At, First
  <2> QED
    BY <1>1, <2>1, <2>2, <2>3 DEF SnapHolds, ReportType
<1>5. ControlType' /\ HistHolds'
  BY <1>1, <1>2 DEF ControlType, HistHolds
<1> QED
  BY <1>3, <1>4, <1>5 DEF IInv

LEMMA TickKeeps ==
  ASSUME IInv, Tick
  PROVE  IInv'
<1>1. /\ job' = [at |-> "ticked", unrealized |-> Unrealized(snap), realized |-> 0,
                 report |-> told, upto |-> None]
      /\ UNCHANGED <<price, execs, ledger, snap, told, today, risk, restarts, hist>>
  BY DEF Tick
<1>2. ExecsType /\ LedgerType /\ SnapHolds /\ ControlType /\ JobHolds /\ HistHolds
  BY DEF IInv
<1>3. ExecsType' /\ LedgerType' /\ SnapHolds'
  BY <1>1, <1>2, SameExecs
<1>4. /\ ReportType(told) /\ Unrealized(snap) \in Int
      /\ Unrealized(snap) = Value(told.n, told.price) - At(told.n).realized - Hidden(told)
  BY <1>2, ReportAddsUp DEF SnapHolds
<1>5. /\ job' \in Jobs /\ job'.at = "ticked" /\ job'.unrealized = Unrealized(snap)
      /\ job'.report = told /\ job'.upto = None
  BY <1>1, <1>4 DEF Jobs, ReportType
<1>6. JobHolds'
  <2>1. ReportType(job.report)'
    BY <1>1, <1>4, <1>5 DEF ReportType
  <2>2. (job.unrealized = Value(job.report.n, job.report.price)
                          - At(job.report.n).realized - Hidden(job.report))'
    BY <1>1, <1>4, <1>5 DEF Value, At, First, Hidden
  <2> QED
    BY <1>5, <2>1, <2>2 DEF JobHolds
<1>7. ControlType' /\ HistHolds'
  BY <1>1, <1>2, <1>5 DEF ControlType, HistHolds
<1> QED
  BY <1>3, <1>6, <1>7 DEF IInv

LEMMA RealizeKeeps ==
  ASSUME IInv, Realize
  PROVE  IInv'
<1>1. /\ job.at = "ticked"
      /\ job' = [job EXCEPT !.at = "done", !.realized = RealizedPnl, !.upto = Upto]
      /\ UNCHANGED <<price, execs, ledger, snap, told, today, risk, restarts, hist>>
  BY DEF Realize
<1>2. ExecsType /\ LedgerType /\ SnapHolds /\ ControlType /\ JobHolds /\ HistHolds
  BY DEF IInv
<1>3. ExecsType' /\ LedgerType' /\ SnapHolds'
  BY <1>1, <1>2, SameExecs
<1>4. /\ RealizedPnl \in Int /\ Upto \in Nat \cup {None}
      /\ Upto # None => Upto \in 0..Len(execs) /\ RealizedPnl = At(Upto).realized
  <2>1. RealizedPnl \in Int
    BY <1>2, RealizedType
  <2>2. CASE Upto = None
    BY <2>1, <2>2
  <2>3. CASE Upto # None
    <3>1. Upto \in 0..Len(execs) /\ Holds(Upto)
      BY <1>2, <2>3, UptoHolds
    <3>2. RealizedPnl = At(Upto).realized
      BY <1>2, <3>1, HeldIsEarned
    <3>3. Upto \in Nat
      BY <3>1
    <3> QED
      BY <2>1, <3>1, <3>2, <3>3
  <2> QED
    BY <2>2, <2>3
<1>5. /\ job' \in Jobs /\ job'.at = "done" /\ job'.unrealized = job.unrealized
      /\ job'.report = job.report /\ job'.realized = RealizedPnl /\ job'.upto = Upto
  <2> DEFINE r == RealizedPnl
             n == Upto
  <2>1. r \in Int /\ n \in Nat \cup {None} /\ job \in Jobs
    BY <1>2, <1>4 DEF ControlType
  <2>2. job' = [job EXCEPT !.at = "done", !.realized = r, !.upto = n]
    BY <1>1
  <2> HIDE DEF r, n
  <2>3. /\ job' \in Jobs /\ job'.at = "done" /\ job'.unrealized = job.unrealized
        /\ job'.report = job.report /\ job'.realized = r /\ job'.upto = n
    BY <2>1, <2>2 DEF Jobs
  <2> QED
    BY <2>3 DEF r, n
<1>6. JobHolds'
  <2>1. ReportType(job.report)'
    BY <1>1, <1>2, <1>5 DEF JobHolds, ReportType
  <2>2. (job.unrealized = Value(job.report.n, job.report.price)
                          - At(job.report.n).realized - Hidden(job.report))'
    BY <1>1, <1>2, <1>5 DEF JobHolds, Value, At, First, Hidden
  <2>3. (job.upto # None => job.upto \in 0..Len(execs) /\ job.realized = At(job.upto).realized)'
    BY <1>1, <1>4, <1>5 DEF At, First
  <2> QED
    BY <2>1, <2>2, <2>3 DEF JobHolds
<1>7. ControlType' /\ HistHolds'
  BY <1>1, <1>2, <1>5 DEF ControlType, HistHolds
<1> QED
  BY <1>3, <1>6, <1>7 DEF IInv

LEMMA FiguresType ==
  ASSUME IInv, job.at = "done"
  PROVE  /\ job.realized \in Int /\ job.unrealized \in Int
         /\ Figures \in Amounts /\ Figures.realized = job.realized
         /\ Figures.sum = job.realized + job.unrealized
         /\ Level \in BOOLEAN
         /\ Level => TrueFigures = Figures
<1>1. job.realized \in Int /\ job.unrealized \in Int
  BY DEF IInv, ControlType, Jobs
<1>2. Level \in BOOLEAN
  BY DEF Level
<1> QED
  BY <1>1, <1>2, LevelIsTrue DEF Figures, Amounts

\* The limits decide alike from the stored baseline and from the history.
LEMMA BreachIsFall ==
  ASSUME NEW first \in Amounts, NEW r \in Int, NEW u \in Int,
         risk.realized \in Int, risk.unrealized \in Int,
         first.realized = risk.realized, first.sum = risk.realized + risk.unrealized
  PROVE  Breach(r, u) <=> Fell(first, [realized |-> r, sum |-> r + u])
<1>1. LimitRealized \in Nat \ {0} /\ LimitEval \in Nat \ {0}
  BY DailyLossAssumption
<1>2. \A n \in Int, m \in Nat \ {0} : AtLeast0(n) >= m <=> n >= m
  BY DEF AtLeast0
<1>3. AtLeast0(risk.realized - r) >= LimitRealized <=> first.realized - r >= LimitRealized
  BY <1>1, <1>2
<1>4. risk.realized - r + (risk.unrealized - u) = first.sum - (r + u)
  OBVIOUS
<1>5. AtLeast0(risk.realized - r + (risk.unrealized - u)) >= LimitEval
        <=> first.sum - (r + u) >= LimitEval
  BY <1>1, <1>2, <1>4
<1> QED
  BY <1>3, <1>5 DEF Breach, Fell

LEMMA EvaluateKeeps ==
  ASSUME IInv, Evaluate
  PROVE  IInv'
<1>1. /\ job.at = "done" /\ risk' = Evaluated /\ hist' = Watched /\ job' = NoJob
      /\ UNCHANGED <<price, execs, ledger, snap, told, today, restarts>>
  BY DEF Evaluate
<1>2. ExecsType /\ LedgerType /\ SnapHolds /\ ControlType /\ JobHolds /\ HistHolds
  BY DEF IInv
<1>3. ExecsType' /\ LedgerType' /\ SnapHolds'
  BY <1>1, <1>2, SameExecs
<1>4. JobHolds' /\ NoJob \in Jobs
  <2>1. job'.report = NoReport /\ job'.at = "idle" /\ job'.upto = None
    BY <1>1 DEF NoJob
  <2>2. (ReportType(NoReport))'
    BY <1>1, <1>2, NoReportHolds DEF ReportType
  <2>3. NoReport \in Reports
    BY <1>2, NoReportHolds DEF ReportType
  <2> QED
    BY <2>1, <2>2, <2>3 DEF JobHolds, NoJob, Jobs, NoReport
<1>5. /\ job.realized \in Int /\ job.unrealized \in Int
      /\ Figures \in Amounts /\ Figures.realized = job.realized
      /\ Figures.sum = job.realized + job.unrealized
      /\ Level \in BOOLEAN /\ Level => TrueFigures = Figures
  BY <1>1, FiguresType
<1>6. /\ risk \in Risks /\ risk.realized \in Int /\ risk.unrealized \in Int
      /\ risk.state \in {"active", "halted_daily"}
      /\ hist \in Days /\ hist.first \in Amounts /\ hist.level \in BOOLEAN
      /\ hist.lost \in BOOLEAN /\ hist.worse \in BOOLEAN /\ hist.worth \in Amounts
      /\ today \in Int /\ today \in 1..MaxDays /\ today \in 0..today
  BY <1>2 DEF ControlType, Risks, Days
<1>7. hist.day = risk.day
  BY <1>2 DEF HistHolds
<1>8. NoFigures \in Amounts
  BY DEF NoFigures, Amounts
<1>9. CASE hist.day # today
  <2>1. risk' = [state |-> "active", day |-> today,
                 realized |-> job.realized, unrealized |-> job.unrealized]
    BY <1>1, <1>7, <1>9 DEF Evaluated
  <2>2. hist' = [day |-> today, first |-> Figures, lost |-> FALSE, level |-> Level,
                 worth |-> IF Level THEN TrueFigures ELSE NoFigures, worse |-> FALSE]
    BY <1>1, <1>9 DEF Watched
  <2> DEFINE f == Figures
             w == IF Level THEN TrueFigures ELSE NoFigures
             v == Level
  <2>3. f \in Amounts /\ w \in Amounts /\ v \in BOOLEAN /\ (v => w = f)
        /\ f.realized = job.realized /\ f.sum = job.realized + job.unrealized
    <3>1. f \in Amounts
      BY <1>5
    <3>2. f.realized = job.realized /\ f.sum = job.realized + job.unrealized
      BY <1>5
    <3>3. v \in BOOLEAN
      BY DEF Level
    <3>4. w \in Amounts /\ (v => w = f)
      <4>1. CASE Level
        BY <1>5, <4>1
      <4>2. CASE ~Level
        BY <1>8, <4>2
      <4> QED
        BY <4>1, <4>2
    <3> QED
      BY <3>1, <3>2, <3>3, <3>4
  <2>4. hist' = [day |-> today, first |-> f, lost |-> FALSE, level |-> v,
                 worth |-> w, worse |-> FALSE]
    BY <2>2
  <2> HIDE DEF f, w, v
  <2>5. hist' \in Days /\ risk' \in Risks /\ risk'.day = today
    BY <1>5, <1>6, <2>1, <2>3, <2>4 DEF Days, Risks
  <2>6. ControlType'
    BY <1>1, <1>2, <1>4, <1>6, <2>5 DEF ControlType
  <2>7. HistHolds'
    BY <2>1, <2>3, <2>4 DEF HistHolds
  <2> QED
    BY <1>3, <1>4, <2>6, <2>7 DEF IInv
<1>10. CASE hist.day = today
  <2> DEFINE b == Breach(job.realized, job.unrealized)
             s == IF risk.state = "active" /\ b THEN "halted_daily" ELSE risk.state
             fell == Fell(hist.first, Figures)
             true == Fell(hist.worth, TrueFigures)
             level == hist.level /\ Level
             worth == IF level THEN hist.worth ELSE NoFigures
             worse == level /\ (hist.worse \/ true)
             lost == hist.lost \/ fell
  <2>1. risk' = [risk EXCEPT !.state = s]
    BY <1>1, <1>7, <1>10 DEF Evaluated
  <2>2. hist' = [hist EXCEPT !.lost = lost, !.level = level, !.worth = worth, !.worse = worse]
    BY <1>1, <1>10 DEF Watched
  <2>3. b <=> fell
    <3>1. hist.first.realized = risk.realized /\ hist.first.sum = risk.realized + risk.unrealized
      BY <1>2 DEF HistHolds
    <3>2. Figures = [realized |-> job.realized, sum |-> job.realized + job.unrealized]
      BY DEF Figures
    <3> QED
      BY <1>5, <1>6, <3>1, <3>2, BreachIsFall
  <2>4. /\ level \in BOOLEAN /\ worth \in Amounts /\ worse \in BOOLEAN /\ lost \in BOOLEAN
        /\ s \in {"active", "halted_daily"} /\ b \in BOOLEAN
    BY <1>5, <1>6, <1>8 DEF Breach, Fell
  <2>5. level => worth = hist.first /\ worse = lost
    <3>1. hist.level => hist.worth = hist.first /\ hist.worse = hist.lost
      BY <1>2 DEF HistHolds
    <3>2. level => worth = hist.first /\ true = fell
      BY <1>5, <3>1
    <3> QED
      BY <1>6, <2>4, <3>1, <3>2
  <2>6. s = "halted_daily" <=> lost
    <3>1. risk.state = "halted_daily" <=> hist.lost
      BY <1>2 DEF HistHolds
    <3> QED
      BY <1>6, <2>3, <3>1
  <2> HIDE DEF b, s, fell, true, level, worth, worse, lost
  <2>7. /\ hist' \in Days /\ hist'.day = hist.day /\ hist'.first = hist.first
        /\ hist'.lost = lost /\ hist'.level = level /\ hist'.worth = worth /\ hist'.worse = worse
    BY <1>6, <2>2, <2>4 DEF Days
  <2>8. /\ risk' \in Risks /\ risk'.day = risk.day /\ risk'.state = s
        /\ risk'.realized = risk.realized /\ risk'.unrealized = risk.unrealized
    BY <1>6, <2>1, <2>4 DEF Risks
  <2>9. ControlType'
    BY <1>1, <1>2, <1>4, <2>7, <2>8 DEF ControlType
  <2>10. HistHolds'
    BY <1>2, <2>5, <2>6, <2>7, <2>8 DEF HistHolds
  <2> QED
    BY <1>3, <1>4, <2>9, <2>10 DEF IInv
<1> QED
  BY <1>9, <1>10

LEMMA StepKeeps ==
  ASSUME IInv, [Next]_vars
  PROVE  IInv'
<1>1. CASE \E l \in Lots : Execute(l) \/ Execute(-l)
  BY <1>1, ExecuteKeeps
<1>2. CASE (\E p \in Prices : Move(p)) \/ NextDay \/ Restart
  BY <1>2, OutsideKeeps
<1>3. CASE \E i \in DOMAIN execs, o \in Origins : Book(i, o)
  BY <1>3, BookKeeps
<1>4. CASE \E given \in PnlGiven : Track(given)
  BY <1>4, TrackKeeps
<1>5. CASE Tick \/ Realize \/ Evaluate
  BY <1>5, TickKeeps, RealizeKeeps, EvaluateKeeps
<1>6. CASE UNCHANGED vars
  <2>1. UNCHANGED <<price, execs, ledger, snap, told, job, today, risk, restarts, hist>>
    BY <1>6 DEF vars
  <2>2. ExecsType /\ LedgerType /\ SnapHolds /\ ControlType /\ JobHolds /\ HistHolds
    BY DEF IInv
  <2>3. ExecsType' /\ LedgerType' /\ SnapHolds' /\ JobHolds'
    BY <2>1, <2>2, SameExecs
  <2>4. ControlType' /\ HistHolds'
    BY <2>1, <2>2 DEF ControlType, HistHolds
  <2> QED
    BY <2>3, <2>4 DEF IInv
<1> QED
  BY <1>1, <1>2, <1>3, <1>4, <1>5, <1>6 DEF Next

LEMMA Inductive ==
  Spec => []IInv
<1>1. Init => IInv
  BY Initially
<1>2. IInv /\ [Next]_vars => IInv'
  BY StepKeeps
<1> QED
  BY <1>1, <1>2, PTL DEF Spec

------------------------------------------------------------------------------
(* The theorems.                                                            *)

LEMMA TypeFollows ==
  ASSUME IInv
  PROVE  TypeOK
<1>1. ExecsType /\ LedgerType /\ SnapHolds /\ ControlType
  BY DEF IInv
<1>2. execs \in UNION {[1..n -> Trades] : n \in 0..MaxExecs}
  <2>1. Len(execs) \in 0..MaxExecs /\ execs \in [1..Len(execs) -> Trades]
    BY <1>1, DailyLossAssumption DEF ExecsType
  <2> QED
    BY <2>1
<1>3. IsInjective(ledger) /\ ToSet(ledger) \subseteq [exec : DOMAIN execs, origin : Origins]
  <2> DEFINE F == [exec : DOMAIN execs, origin : Origins]
  <2>1. ledger \in Seq(F)
    BY <1>1 DEF LedgerType
  <2> HIDE DEF F
  <2>2. \A i \in DOMAIN ledger : ledger[i] \in F
    BY <2>1
  <2>3. ToSet(ledger) \subseteq F
    BY <2>2 DEF ToSet
  <2> QED
    BY <1>1, <2>3 DEF LedgerType, F
<1>4. snap = Position(told) /\ told.n \in 0..Len(execs)
  BY <1>1, ReportIs DEF SnapHolds
<1>5. job.at \in {"idle", "ticked", "done"} /\ risk.state \in {"active", "halted_daily"}
  BY <1>1 DEF ControlType, Jobs, Risks
<1> QED
  BY <1>1, <1>2, <1>3, <1>4, <1>5 DEF TypeOK, ExecsType, ControlType

\* A fill is booked at most once under a key and is of an execution, the snap
\* is what the tracker last told, and the state of the monitor keeps its types,
\* whatever is restarted.
THEOREM DailyLossTypeCorrect ==
  Spec => []TypeOK
<1>1. IInv => TypeOK
  BY TypeFollows
<1> QED
  BY <1>1, Inductive, PTL

\* For every sequence of executions and whatever comes between the tick and
\* the read of the ledger: the realized and the unrealized profit are the value
\* in the tracker's report, beside exactly what was earned between the report
\* and the ledger and what a snap without pnl_amount hides
\* (aggregator.py:94-102, :184-191).
THEOREM ProfitIsValue ==
  Spec => []ProfitAddsUp
<1>1. IInv => ProfitAddsUp
  BY JobAddsUp
<1> QED
  BY <1>1, Inductive, PTL

\* Over every restart and day the bucket is halted exactly when an evaluation
\* was given less by a limit than the first one of the day, and as long as the
\* evaluations of the day were level, exactly when its account had lost a limit
\* (daily_loss.py:3-16).
THEOREM HaltedIffLost ==
  Spec => []HaltIffLoss
<1>1. IInv => HaltIffLoss
  BY DEF IInv, HistHolds, HaltIffLoss, ControlType, Days
<1> QED
  BY <1>1, Inductive, PTL
==============================================================================
