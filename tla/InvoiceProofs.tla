---------------------------- MODULE InvoiceProofs ----------------------------
(***************************************************************************)
(* Theorems about InvoiceCheck: whatever is submitted and whatever fails,  *)
(* for any number of checks at a time.                                     *)
(***************************************************************************)
EXTENDS InvoiceCheck, FiniteSetTheorems, WellFoundedInduction, TLAPS

-----------------------------------------------------------------------------
(* Induction, in a form the provers can use: a set that has 0 and, with a  *)
(* number, the next                                                        *)

\* Some natural numbers have a least one.
LEMMA Least == ASSUME NEW T \in SUBSET Nat, T # {} PROVE \E n \in T : \A m \in T : n <= m
<1>. DEFINE R == OpToRel(<, Nat)
<1>1. IsWellFoundedOn(R, Nat)
  BY NatLessThanWellFounded
<1>2. \A x, y \in Nat : <<y, x>> \notin R => x <= y
  BY DEF OpToRel
<1>. HIDE DEF R
<1>. PICK x \in T : \A y \in T : <<y, x>> \notin R
  BY <1>1, WFMin
<1>3. \A y \in T : x <= y
  BY <1>2
<1>. QED
  BY <1>3

\* Numbers up to a bound are in a set that has 0 and, with one, the next.
LEMMA UpTo ==
    ASSUME NEW N \in Nat, NEW T, 0 \in T, \A n \in 0 .. N - 1 : n \in T => n + 1 \in T
    PROVE  \A n \in 0 .. N : n \in T
<1>. DEFINE Left == {n \in 0 .. N : n \notin T}
<1>. SUFFICES ASSUME Left # {} PROVE FALSE
  OBVIOUS
<1>1. Left \in SUBSET Nat
  OBVIOUS
<1>2. \E n \in Left : \A m \in Left : n <= m
  <2>. HIDE DEF Left
  <2>. QED
    BY <1>1, Least
<1>. PICK n \in Left : \A m \in Left : n <= m
  BY <1>2
<1>3. n - 1 \in 0 .. N - 1 /\ n - 1 \notin Left /\ (n - 1) + 1 = n
  OBVIOUS
<1>. QED
  BY <1>3

\* Values for the numbers up to a bound, each made from the one before.
StaysIn(V, N, step) == \A v \in V, n \in 1 .. N : step[v][n] \in V
Follows(g, N, V, base, step) ==
    g \in [0 .. N -> V] /\ g[0] = base /\ \A n \in 1 .. N : g[n] = step[g[n - 1]][n]

\* A recursion over the numbers up to a bound has a solution.
LEMMA Recursion ==
    ASSUME NEW N \in Nat, NEW V, NEW base \in V, NEW step, StaysIn(V, N, step)
    PROVE  \E g : Follows(g, N, V, base, step)
<1>. USE DEF StaysIn
<1>. DEFINE Good(g, m) == /\ g \in [0 .. m -> V] /\ g[0] = base
                          /\ \A n \in 1 .. m : g[n] = step[g[n - 1]][n]
            T == {m \in 0 .. N : \E g : Good(g, m)}
<1>1. 0 \in T
  <2>. PICK g : g = [n \in 0 .. 0 |-> base]
    OBVIOUS
  <2>1. Good(g, 0)
    OBVIOUS
  <2>. QED
    BY <2>1
<1>2. \A m \in 0 .. N - 1 : m \in T => m + 1 \in T
  <2>. SUFFICES ASSUME NEW m \in 0 .. N - 1, m \in T PROVE m + 1 \in T
    OBVIOUS
  <2>. PICK g : Good(g, m)
    OBVIOUS
  <2>1. g[m] \in V /\ m + 1 \in 1 .. N
    OBVIOUS
  <2>. PICK v \in V : v = step[g[m]][m + 1]
    BY <2>1
  <2>. PICK h : h = [n \in 0 .. m + 1 |-> IF n = m + 1 THEN v ELSE g[n]]
    OBVIOUS
  <2>2. h \in [0 .. m + 1 -> V] /\ h[0] = base
    OBVIOUS
  <2>3. ASSUME NEW n \in 1 .. m + 1 PROVE h[n] = step[h[n - 1]][n]
    <3>1. CASE n = m + 1
      <4>1. h[n] = v /\ h[n - 1] = g[m]
        BY <3>1
      <4>. QED
        BY <3>1, <4>1
    <3>2. CASE n # m + 1
      <4>1. n \in 1 .. m /\ h[n] = g[n] /\ h[n - 1] = g[n - 1]
        BY <3>2
      <4>. QED
        BY <4>1
    <3>. QED
      BY <3>1, <3>2
  <2>4. Good(h, m + 1)
    BY <2>2, <2>3
  <2>5. m + 1 \in 0 .. N
    OBVIOUS
  <2>. HIDE DEF Good
  <2>. QED
    BY <2>4, <2>5
<1>3. \A m \in 0 .. N : m \in T
  <2>. HIDE DEF T
  <2>. QED
    BY <1>1, <1>2, UpTo
<1>4. N \in T
  <2>1. N \in 0 .. N
    OBVIOUS
  <2>. QED
    BY <1>3, <2>1
<1>. QED
  BY <1>4 DEF Follows

-----------------------------------------------------------------------------
(* Sums and selections *)

\* sum() adds one amount after the other.
LEMMA Sums ==
    ASSUME NEW s \in Seq(Int)
    PROVE  /\ Running(s) \in [0 .. Len(s) -> Int] /\ Running(s)[0] = 0
           /\ \A n \in 1 .. Len(s) : Running(s)[n] = Running(s)[n - 1] + s[n]
<1>. PICK N \in Nat : N = Len(s)
  OBVIOUS
<1>. DEFINE Sum(f) == f = [n \in 0 .. N |-> IF n = 0 THEN 0 ELSE f[n - 1] + s[n]]
<1>i. PICK V : V = Int
  OBVIOUS
<1>b. PICK base \in V : base = 0
  BY <1>i
<1>s. PICK step : step = [v \in V |-> [n \in 1 .. N |-> v + s[n]]]
  OBVIOUS
<1>1. StaysIn(V, N, step)
  BY <1>i, <1>s DEF StaysIn
<1>2. \E g : Follows(g, N, V, base, step)
  BY <1>1, Recursion
<1>. PICK g : g \in [0 .. N -> V] /\ g[0] = 0 /\ \A n \in 1 .. N : g[n] = step[g[n - 1]][n]
  BY <1>2, <1>b DEF Follows
<1>3. ASSUME NEW n \in 1 .. N PROVE g[n] = g[n - 1] + s[n]
  <2>1. n - 1 \in 0 .. N
    OBVIOUS
  <2>2. g[n - 1] \in V
    BY <2>1
  <2>. QED
    BY <1>i, <1>s, <2>2
<1>4. Sum(g)
  BY <1>3, <1>i
<1>5. Running(s) = CHOOSE f : Sum(f)
  BY DEF Running
<1>6. Sum(Running(s))
  <2>. HIDE DEF Sum
  <2>. QED
    BY <1>4, <1>5
<1>. PICK f : f = Running(s)
  OBVIOUS
<1>7. f = [n \in 0 .. N |-> IF n = 0 THEN 0 ELSE f[n - 1] + s[n]]
  BY <1>6
<1>8. f[0] = 0
  <2>1. 0 \in 0 .. N
    OBVIOUS
  <2>. QED
    BY <1>7, <2>1
<1>9. ASSUME NEW n \in 1 .. N PROVE f[n] = f[n - 1] + s[n]
  <2>1. n \in 0 .. N /\ n # 0
    OBVIOUS
  <2>. QED
    BY <1>7, <2>1
<1>10. \A n \in 0 .. N : f[n] \in Int
  <2>. DEFINE T == {k \in Nat : f[k] \in Int}
  <2>1. 0 \in T
    BY <1>8
  <2>2. \A n \in 0 .. N - 1 : n \in T => n + 1 \in T
    <3>. SUFFICES ASSUME NEW n \in 0 .. N - 1, n \in T PROVE n + 1 \in T
      OBVIOUS
    <3>1. n + 1 \in 1 .. N /\ (n + 1) - 1 = n
      OBVIOUS
    <3>2. f[n + 1] = f[n] + s[n + 1]
      BY <1>9, <3>1
    <3>. QED
      BY <3>1, <3>2
  <2>3. \A n \in 0 .. N : n \in T
    <3>. HIDE DEF T
    <3>. QED
      BY <2>1, <2>2, UpTo
  <2>. QED
    BY <2>3
<1>11. f \in [0 .. N -> Int]
  <2>1. DOMAIN f = 0 .. N /\ f = [n \in DOMAIN f |-> f[n]]
    BY <1>7
  <2>. QED
    BY <1>10, <2>1
<1>. QED
  BY <1>8, <1>9, <1>11

\* filter() finds all places at which the test holds, and no others.
LEMMA PlacesFound ==
    ASSUME NEW test \in Seq(BOOLEAN)
    PROVE  /\ Places(test) \in Seq(1 .. Len(test))
           /\ {Places(test)[k] : k \in DOMAIN Places(test)} = {i \in 1 .. Len(test) : test[i]}
<1>. PICK N \in Nat : N = Len(test)
  OBVIOUS
<1>. DEFINE Filter(f) == f = [n \in 0 .. N |-> IF n = 0 THEN << >>
                                               ELSE IF test[n] THEN Append(f[n - 1], n) ELSE f[n - 1]]
<1>i. PICK V : V = Seq(1 .. N)
  OBVIOUS
<1>e. << >> \in Seq(1 .. N)
  OBVIOUS
<1>b. PICK base \in V : base = << >>
  BY <1>i, <1>e
<1>s. PICK step : step = [v \in V |-> [n \in 1 .. N |-> IF test[n] THEN Append(v, n) ELSE v]]
  OBVIOUS
<1>0. ASSUME NEW v \in V, NEW n \in 1 .. N
      PROVE  step[v][n] = (IF test[n] THEN Append(v, n) ELSE v) /\ Append(v, n) \in V
  BY <1>i, <1>s
<1>1. StaysIn(V, N, step)
  BY <1>0 DEF StaysIn
<1>2. \E g : Follows(g, N, V, base, step)
  BY <1>1, Recursion
<1>. PICK g : g \in [0 .. N -> V] /\ g[0] = << >> /\ \A n \in 1 .. N : g[n] = step[g[n - 1]][n]
  BY <1>2, <1>b DEF Follows
<1>3. ASSUME NEW n \in 1 .. N PROVE g[n] = IF test[n] THEN Append(g[n - 1], n) ELSE g[n - 1]
  <2>1. n - 1 \in 0 .. N
    OBVIOUS
  <2>2. g[n - 1] \in V
    BY <2>1
  <2>. QED
    BY <1>0, <2>2
<1>4. Filter(g)
  <2>1. ASSUME NEW n \in 0 .. N
        PROVE  g[n] = IF n = 0 THEN << >> ELSE IF test[n] THEN Append(g[n - 1], n) ELSE g[n - 1]
    <3>1. CASE n = 0
      BY <3>1
    <3>2. CASE n # 0
      <4>1. n \in 1 .. N
        BY <3>2
      <4>. QED
        BY <1>3, <3>2, <4>1
    <3>. QED
      BY <3>1, <3>2
  <2>2. g = [n \in 0 .. N |-> g[n]]
    OBVIOUS
  <2>. QED
    BY <2>1, <2>2
<1>5. PlacesUpTo(test) = CHOOSE f : Filter(f)
  BY DEF PlacesUpTo
<1>6. Filter(PlacesUpTo(test))
  <2>. HIDE DEF Filter
  <2>. QED
    BY <1>4, <1>5
<1>. PICK f : f = PlacesUpTo(test)
  OBVIOUS
<1>d. PICK e : e = [n \in 0 .. N |-> IF n = 0 THEN << >>
                                    ELSE IF test[n] THEN Append(f[n - 1], n) ELSE f[n - 1]]
  OBVIOUS
<1>f. f = e
  BY <1>6, <1>d
<1>7. f[0] = << >>
  <2>1. 0 \in 0 .. N /\ e[0] = << >>
    BY <1>d
  <2>. QED
    BY <1>f, <2>1
<1>8. ASSUME NEW n \in 1 .. N PROVE f[n] = IF test[n] THEN Append(f[n - 1], n) ELSE f[n - 1]
  <2>1. n \in 0 .. N /\ n # 0
    OBVIOUS
  <2>2. e[n] = IF test[n] THEN Append(f[n - 1], n) ELSE f[n - 1]
    BY <1>d, <2>1
  <2>. QED
    BY <1>f, <2>2
<1>. DEFINE Has(was, n) == /\ was \in Seq(1 .. N)
                           /\ \A k \in 1 .. Len(was) : was[k] \in 1 .. n /\ test[was[k]]
                           /\ \A i \in 1 .. n : test[i] => \E k \in 1 .. Len(was) : was[k] = i
            T == {n \in 0 .. N : Has(f[n], n)}
<1>9. 0 \in T
  <2>1. Len(<< >>) = 0 /\ 0 \in 0 .. N
    OBVIOUS
  <2>2. Has(<< >>, 0)
    BY <1>e, <2>1
  <2>. HIDE DEF Has
  <2>. QED
    BY <1>7, <2>1, <2>2
<1>10. \A n \in 0 .. N - 1 : n \in T => n + 1 \in T
  <2>. SUFFICES ASSUME NEW n \in 0 .. N - 1, n \in T PROVE n + 1 \in T
    OBVIOUS
  <2>. PICK was : was = f[n]
    OBVIOUS
  <2>1. n + 1 \in 1 .. N /\ (n + 1) - 1 = n /\ n + 1 \in 0 .. N
    OBVIOUS
  <2>2. Has(was, n)
    OBVIOUS
  <2>3. CASE test[n + 1]
    <3>1. f[n + 1] = Append(was, n + 1)
      BY <1>8, <2>1, <2>3
    <3>. PICK m \in Nat : m = Len(was)
      BY <2>2
    <3>. PICK now : now = Append(was, n + 1)
      OBVIOUS
    <3>2. /\ now \in Seq(1 .. N) /\ Len(now) = m + 1 /\ now[m + 1] = n + 1
          /\ \A k \in 1 .. m : now[k] = was[k]
      BY <2>1, <2>2
    <3>3. \A k \in 1 .. m + 1 : now[k] \in 1 .. n + 1 /\ test[now[k]]
      BY <2>2, <2>3, <3>2
    <3>4. ASSUME NEW i \in 1 .. n + 1, test[i] PROVE \E k \in 1 .. m + 1 : now[k] = i
      <4>1. CASE i = n + 1
        <5>1. m + 1 \in 1 .. m + 1
          OBVIOUS
        <5>. QED
          BY <3>2, <4>1, <5>1
      <4>2. CASE i # n + 1
        <5>. PICK k \in 1 .. m : was[k] = i
          BY <2>2, <3>4, <4>2
        <5>. QED
          BY <3>2
      <4>. QED
        BY <4>1, <4>2
    <3>5. \A i \in 1 .. n + 1 : test[i] => \E k \in 1 .. Len(now) : now[k] = i
      BY <3>2, <3>4
    <3>6. Has(now, n + 1)
      BY <3>2, <3>3, <3>5
    <3>. HIDE DEF Has
    <3>. QED
      BY <2>1, <3>1, <3>6
  <2>4. CASE ~test[n + 1]
    <3>1. f[n + 1] = was
      BY <1>8, <2>1, <2>4
    <3>2. ASSUME NEW i \in 1 .. n + 1, test[i] PROVE i \in 1 .. n
      BY <2>4, <3>2
    <3>3. Has(was, n + 1)
      BY <2>2, <3>2
    <3>. HIDE DEF Has
    <3>. QED
      BY <2>1, <3>1, <3>3
  <2>. QED
    BY <2>3, <2>4
<1>11. \A n \in 0 .. N : n \in T
  <2>. HIDE DEF T
  <2>. QED
    BY <1>9, <1>10, UpTo
<1>12. Has(f[N], N) /\ Places(test) = f[N]
  <2>0. N \in 0 .. N
    OBVIOUS
  <2>1. N \in T
    BY <1>11, <2>0
  <2>. HIDE DEF Has
  <2>. QED
    BY <2>1 DEF Places
<1>. PICK p : p = Places(test)
  OBVIOUS
<1>13. Has(p, N) /\ DOMAIN p = 1 .. Len(p)
  <2>1. Has(p, N)
    <3>. HIDE DEF Has
    <3>. QED
      BY <1>12
  <2>2. p \in Seq(1 .. N)
    BY <2>1
  <2>. QED
    BY <2>1, <2>2
<1>14. {p[k] : k \in DOMAIN p} \subseteq {i \in 1 .. N : test[i]}
  BY <1>13
<1>15. ASSUME NEW i \in 1 .. N, test[i] PROVE i \in {p[k] : k \in DOMAIN p}
  <2>. PICK k \in 1 .. Len(p) : p[k] = i
    BY <1>13, <1>15
  <2>. QED
    BY <1>13
<1>. QED
  BY <1>13, <1>14, <1>15

-----------------------------------------------------------------------------
(* Rounding *)

\* How far VAT rounded on n lines is from 15% of what they sum to, in
\* hundredths of a halala; up by the most only when the sum is positive, down
\* when it is negative.
Off(n, vat, base) == 100 * vat - 15 * base \in -(50 * n) .. 50 * n
Lean(n, vat, base) ==
    /\ Off(n, vat, base)
    /\ 100 * vat - 15 * base > 50 * n - 5 => base >= 0
    /\ 100 * vat - 15 * base < 5 - 50 * n => base <= 0

\* The VAT of one line, rounded half away from zero.
LEMMA Rounding ==
    ASSUME NEW base \in Int
    PROVE  RoundCurrency(15 * base) \in Int /\ Lean(1, RoundCurrency(15 * base), base)
BY DEF RoundCurrency, Lean, Off

\* One line more.
LEMMA OneMore ==
    ASSUME NEW n \in Nat, NEW F \in Int, NEW G \in Int, NEW v \in Int, NEW b \in Int
    PROVE  /\ Off(n, F, G) /\ Off(1, v, b) => Off(n + 1, F + v, G + b)
           /\ Lean(n, F, G) /\ Lean(1, v, b) => Lean(n + 1, F + v, G + b)
BY DEF Off, Lean

\* Rounding five lines and rounding their sum come to within two halalas.
LEMMA FiveClose ==
    ASSUME NEW n \in Nat, n <= 5, NEW R \in Int, NEW S \in Int, NEW V \in Int, Lean(n, R, S), Lean(1, V, S)
    PROVE  R - V \in -2 .. 2
BY DEF Off, Lean

\* Summing lines up adds up what they are off.
LEMMA SumsNear ==
    ASSUME NEW N \in Nat, NEW r \in Seq(Int), NEW s \in Seq(Int), Len(r) = N, Len(s) = N
    PROVE  /\ Total(r) \in Int /\ Total(s) \in Int
           /\ (\A i \in 1 .. N : Off(1, r[i], s[i])) => Off(N, Total(r), Total(s))
           /\ (\A i \in 1 .. N : Lean(1, r[i], s[i])) => Lean(N, Total(r), Total(s))
<1>. PICK f : f = Running(r)
  OBVIOUS
<1>. PICK g : g = Running(s)
  OBVIOUS
<1>1. f \in [0 .. N -> Int] /\ f[0] = 0 /\ \A n \in 1 .. N : f[n] = f[n - 1] + r[n]
  BY Sums
<1>2. g \in [0 .. N -> Int] /\ g[0] = 0 /\ \A n \in 1 .. N : g[n] = g[n - 1] + s[n]
  BY Sums
<1>. DEFINE T == {n \in 0 .. N : /\ (\A i \in 1 .. N : Off(1, r[i], s[i])) => Off(n, f[n], g[n])
                                 /\ (\A i \in 1 .. N : Lean(1, r[i], s[i])) => Lean(n, f[n], g[n])}
<1>3. 0 \in T
  <2>1. Off(0, 0, 0) /\ Lean(0, 0, 0) /\ 0 \in 0 .. N
    BY DEF Off, Lean
  <2>. QED
    BY <1>1, <1>2, <2>1
<1>4. \A n \in 0 .. N - 1 : n \in T => n + 1 \in T
  <2>. SUFFICES ASSUME NEW n \in 0 .. N - 1, n \in T PROVE n + 1 \in T
    OBVIOUS
  <2>1. n + 1 \in 1 .. N /\ n + 1 \in 0 .. N /\ (n + 1) - 1 = n /\ n \in 0 .. N /\ n \in Nat
    OBVIOUS
  <2>2. f[n + 1] = f[n] + r[n + 1] /\ g[n + 1] = g[n] + s[n + 1]
    BY <1>1, <1>2, <2>1
  <2>3. f[n] \in Int /\ g[n] \in Int
    BY <1>1, <1>2, <2>1
  <2>4. r[n + 1] \in Int /\ s[n + 1] \in Int
    BY <2>1
  <2>5. /\ Off(n, f[n], g[n]) /\ Off(1, r[n + 1], s[n + 1])
              => Off(n + 1, f[n] + r[n + 1], g[n] + s[n + 1])
        /\ Lean(n, f[n], g[n]) /\ Lean(1, r[n + 1], s[n + 1])
              => Lean(n + 1, f[n] + r[n + 1], g[n] + s[n + 1])
    BY <2>1, <2>3, <2>4, OneMore
  <2>. QED
    BY <2>1, <2>2, <2>5
<1>5. \A n \in 0 .. N : n \in T
  <2>. HIDE DEF T
  <2>. QED
    BY <1>3, <1>4, UpTo
<1>6. N \in 0 .. N /\ Total(r) = f[N] /\ Total(s) = g[N]
  BY DEF Total
<1>7. N \in T
  BY <1>5, <1>6
<1>. QED
  BY <1>1, <1>2, <1>6, <1>7

-----------------------------------------------------------------------------
(* What is read, and what is made of it *)

\* A sequence has its places in order.
LEMMA Ordered == ASSUME NEW s, InOrder(s) PROVE Len(s) \in Nat /\ DOMAIN s = 1 .. Len(s)
BY DEF InOrder

\* The first of the attachments that look like an invoice is the one taken.
LEMMA FirstTaken ==
    ASSUME NEW file, file.ext # "xml", InOrder(file.attached), FindEmbeddedXml(file) # None
    PROVE  /\ FindEmbeddedXml(file) = Invoice(file)
           /\ \E i \in DOMAIN file.attached : Invoice(file) = file.attached[i]
<1>. PICK s : s = file.attached
  OBVIOUS
<1>. PICK N \in Nat : DOMAIN s = 1 .. N
  BY Ordered
<1>. DEFINE invoices == {i \in DOMAIN s : s[i].invoice}
<1>1. invoices # {} /\ FindEmbeddedXml(file) = s[Min(invoices)]
  BY DEF FindEmbeddedXml
<1>2. \E i \in invoices : \A k \in invoices : i <= k
  <2>1. invoices \in SUBSET Nat
    OBVIOUS
  <2>. HIDE DEF invoices
  <2>. QED
    BY <1>1, <2>1, Least
<1>. PICK m : m = Min(invoices)
  OBVIOUS
<1>3. m \in invoices /\ \A k \in invoices : m <= k
  <2>. HIDE DEF invoices
  <2>. QED
    BY <1>2 DEF Min
<1>0. m \in 1 .. N /\ s[m].invoice
  BY <1>3
<1>4. m \in 1 .. N /\ s[m].invoice /\ \A k \in 1 .. m - 1 : ~s[k].invoice
  <2>1. ASSUME NEW k \in 1 .. m - 1, s[k].invoice PROVE FALSE
    <3>1. k \in invoices
      BY <1>0, <2>1
    <3>2. m <= k
      BY <1>3, <3>1
    <3>. QED
      BY <1>0, <3>2
  <2>. QED
    BY <1>0, <2>1
<1>. PICK c : c = CHOOSE i \in DOMAIN s : s[i].invoice /\ \A k \in 1 .. i - 1 : ~s[k].invoice
  OBVIOUS
<1>5. c \in 1 .. N /\ s[c].invoice /\ \A k \in 1 .. c - 1 : ~s[k].invoice
  BY <1>4
<1>6. c = m
  BY <1>4, <1>5
<1>. QED
  BY <1>1, <1>4, <1>6 DEF Invoice

\* Lines are only read off the invoice a file is, as they are on it.
Reads(x, doc) ==
    /\ doc.parses /\ InOrder(doc.lines)
    /\ x.seller = doc.seller /\ x.buyer = doc.buyer /\ x.date = doc.date
    /\ x.vat = Float(doc.vat) /\ x.total = Float(doc.total)
    /\ x.lines = [i \in DOMAIN doc.lines |->
                     [id |-> doc.lines[i].id, code |-> Code(doc.lines[i].code),
                      base |-> Float(doc.lines[i].base)]]

\* What comes with lines was read off the invoice the file is or holds.
LEMMA ReadOff ==
    ASSUME NEW name \in DOMAIN File, NEW x, x = Extracted[name], x # None, x.lines # << >>
    PROVE  Reads(x, Invoice(File[name]))
<1>. PICK file : file = File[name]
  OBVIOUS
<1>1. x = RouteAndExtract(file)
  BY DEF Extracted
<1>2. IF file.ext = "xml" THEN InOrder(file.doc.lines)
      ELSE /\ InOrder(file.attached)
           /\ \A i \in DOMAIN file.attached : InOrder(file.attached[i].lines)
  BY FileAssumption
<1>. PICK format : format = DetectFormat(file)
  OBVIOUS
<1>3. format \in {None, "ubl_xml", "pdf_embedded_xml", "pdf", "xlsx", "csv", "text"}
  BY DEF DetectFormat
<1>4. format # None
  BY <1>1, NoneAssumption DEF RouteAndExtract, Format
<1>5. format \in {"ubl_xml", "pdf_embedded_xml"}
  <2>1. ASSUME NEW f PROVE EmptyResult(f).lines = << >>
    BY DEF EmptyResult
  <2>2. CASE format = "pdf"
    BY <1>1, <1>4, <2>1, <2>2 DEF RouteAndExtract, ExtractPdf
  <2>3. CASE format \in {"xlsx", "csv"}
    <3>1. x = ExtractXlsxOrCsv(file)
      BY <1>1, <1>4, <2>3 DEF RouteAndExtract
    <3>2. x = [EmptyResult(file.ext) EXCEPT !.seller = SniffVatNumber(file)]
      BY <3>1 DEF ExtractXlsxOrCsv
    <3>3. x.lines = << >>
      BY <3>2 DEF EmptyResult
    <3>. QED
      BY <3>3
  <2>4. CASE format = "text"
    BY <1>1, <1>4, <2>1, <2>4 DEF RouteAndExtract, ExtractText
  <2>. QED
    BY <1>3, <1>4, <2>2, <2>3, <2>4
<1>6. ASSUME NEW doc, InOrder(doc.lines), x = ExtractUblXml(doc, format) PROVE Reads(x, doc)
  BY <1>6 DEF ExtractUblXml, Reads
<1>7. CASE format = "ubl_xml"
  <2>1. x = ExtractUblXml(file.doc, format)
    BY <1>1, <1>7 DEF RouteAndExtract
  <2>2. file.ext = "xml"
    BY <1>4, <1>7 DEF DetectFormat
  <2>. QED
    BY <1>2, <1>6, <2>1, <2>2 DEF Invoice
<1>8. CASE format = "pdf_embedded_xml"
  <2>1. x = ExtractUblXml(FindEmbeddedXml(file), format)
    BY <1>1, <1>4, <1>8 DEF RouteAndExtract, ExtractPdfEmbeddedXml
  <2>2. file.ext = "pdf" /\ FindEmbeddedXml(file) # None
    BY <1>4, <1>8 DEF DetectFormat
  <2>3. FindEmbeddedXml(file) = Invoice(file) /\ \E i \in DOMAIN file.attached : Invoice(file) = file.attached[i]
    BY <1>2, <2>2, FirstTaken
  <2>4. InOrder(Invoice(file).lines)
    BY <1>2, <2>2, <2>3
  <2>. QED
    BY <1>6, <2>1, <2>3, <2>4
<1>. QED
  BY <1>5, <1>7, <1>8

\* A line has a category, the one of its code if the code has one.
LEMMA Resolved ==
    ASSUME NEW lines, InOrder(lines), NEW suggestions \in Suggestions(lines), NEW i \in DOMAIN lines
    PROVE  LET items == ResolveLineItems(lines, suggestions)
           IN  /\ DOMAIN items = DOMAIN lines /\ items[i].base = lines[i].base
               /\ items[i].category \in TaxCategory
               /\ lines[i].code = "S" => items[i].category = "standard"
               /\ lines[i].code \in {"Z", "E"} => items[i].category # "standard"
<1>. DEFINE items == ResolveLineItems(lines, suggestions)
<1>1. DOMAIN items = DOMAIN lines /\ items[i].base = lines[i].base
  BY DEF ResolveLineItems
<1>2. items[i].category = IF Mapped(lines[i]) # None THEN Mapped(lines[i])
                          ELSE IF lines[i].id \in DOMAIN suggestions THEN suggestions[lines[i].id]
                          ELSE "standard"
  BY DEF ResolveLineItems
<1>3. Mapped(lines[i]) \in TaxCategory \cup {None}
  BY DEF Mapped, TaxCategory
<1>4. lines[i].id \in DOMAIN suggestions => suggestions[lines[i].id] \in TaxCategory
  <2>. PICK named : suggestions = ClassifyLineItems(named)
    BY DEF Suggestions
  <2>. QED
    BY DEF ClassifyLineItems
<1>5. /\ lines[i].code = "S" => Mapped(lines[i]) = "standard"
      /\ lines[i].code = "Z" => Mapped(lines[i]) = "zero_rated"
      /\ lines[i].code = "E" => Mapped(lines[i]) = "exempt"
  BY DEF Mapped
<1>6. "standard" \in TaxCategory
  BY DEF TaxCategory
<1>. QED
  BY <1>1, <1>2, <1>3, <1>4, <1>5, <1>6, CategoryAssumption DEF TaxCategory

\* A function on the first numbers is a sequence.
LEMMA IsSequence ==
    ASSUME NEW N \in Nat, NEW S, NEW f, f = [i \in 1 .. N |-> f[i]], \A i \in 1 .. N : f[i] \in S
    PROVE  f \in Seq(S) /\ Len(f) = N
<1>1. f \in [1 .. N -> S]
  OBVIOUS
<1>. QED
  BY <1>1

\* VAT on the lines is off by half a halala for each at most.
Amounts(doc) == [i \in DOMAIN doc.lines |-> doc.lines[i].base]
StandardAmounts(doc, standard) == [i \in DOMAIN doc.lines |-> IF i \in standard THEN doc.lines[i].base ELSE 0]

Computed(doc, items, standard) ==
    /\ Len(doc.lines) \in Nat /\ DOMAIN doc.lines = 1 .. Len(doc.lines)
    /\ \A i \in DOMAIN doc.lines : /\ doc.lines[i].base \in Int
                                   /\ doc.lines[i].code = "S" => i \in standard
                                   /\ doc.lines[i].code \in {"Z", "E"} => i \notin standard
    /\ Total(Amounts(doc)) \in Int /\ Total(StandardAmounts(doc, standard)) \in Int
    /\ CalculateInvoice(items).total_vat \in Int
    /\ CalculateInvoice(items).grand_total = Total(Amounts(doc)) + CalculateInvoice(items).total_vat
    /\ Off(Len(doc.lines), CalculateInvoice(items).total_vat, Total(StandardAmounts(doc, standard)))
    /\ standard = DOMAIN doc.lines
         => Lean(Len(doc.lines), CalculateInvoice(items).total_vat, Total(Amounts(doc)))

\* Reading an invoice and computing its VAT keeps to its lines.
LEMMA Calculated ==
    ASSUME NEW doc, NEW x, Reads(x, doc), NEW suggestions \in Suggestions(x.lines), NEW items,
           items = ResolveLineItems(x.lines, suggestions), ~ParseLineItemsFails(items),
           NEW standard, standard = {i \in DOMAIN doc.lines : items[i].category = "standard"}
    PROVE  Computed(doc, items, standard)
<1>. PICK lines : lines = doc.lines
  OBVIOUS
<1>. PICK N \in Nat : N = Len(lines) /\ DOMAIN lines = 1 .. N
  BY Ordered DEF Reads
<1>1. /\ DOMAIN x.lines = 1 .. N
      /\ \A i \in 1 .. N : x.lines[i].code = Code(lines[i].code) /\ x.lines[i].base = Float(lines[i].base)
  BY DEF Reads
<1>2. InOrder(x.lines)
  <2>. PICK s : s = x.lines
    OBVIOUS
  <2>1. s = [i \in 1 .. N |-> s[i]]
    BY DEF Reads
  <2>2. s \in Seq({s[i] : i \in 1 .. N})
    BY <2>1
  <2>. QED
    BY <1>1, <2>2 DEF InOrder
<1>3. DOMAIN items = 1 .. N
  BY <1>1 DEF ResolveLineItems
<1>4. ASSUME NEW i \in 1 .. N
      PROVE  /\ lines[i].base \in Int /\ items[i].base = lines[i].base
             /\ items[i].category \in TaxCategory
             /\ lines[i].code = "S" => items[i].category = "standard"
             /\ lines[i].code \in {"Z", "E"} => items[i].category # "standard"
  <2>1. /\ items[i].base = x.lines[i].base /\ items[i].category \in TaxCategory
        /\ x.lines[i].code = "S" => items[i].category = "standard"
        /\ x.lines[i].code \in {"Z", "E"} => items[i].category # "standard"
    BY <1>1, <1>2, Resolved
  <2>2. items[i].base # None
    BY <1>3 DEF ParseLineItemsFails
  <2>3. lines[i].base \in Int /\ items[i].base = lines[i].base
    BY <1>1, <2>1, <2>2 DEF Float
  <2>4. lines[i].code \in {"S", "Z", "E"} => x.lines[i].code = lines[i].code
    BY <1>1 DEF Code, UblTaxCategoryCodes
  <2>. QED
    BY <2>1, <2>3, <2>4
<1>r. PICK r : r = [i \in 1 .. N |-> CalculateLine(items[i])]
  OBVIOUS
<1>s. PICK s : s = StandardAmounts(doc, standard)
  OBVIOUS
<1>. PICK a : a = Amounts(doc)
  OBVIOUS
<1>5. ASSUME NEW i \in 1 .. N PROVE s[i] \in Int /\ r[i] \in Int /\ Lean(1, r[i], s[i])
  <2>1. CASE items[i].category = "standard"
    <3>1. s[i] = lines[i].base /\ lines[i].base \in Int
      BY <1>4, <1>s, <2>1 DEF StandardAmounts
    <3>2. r[i] = RoundCurrency(15 * lines[i].base)
      <4>1. VatRates["standard"] = 15
        BY DEF VatRates, TaxCategory
      <4>2. lines[i].base * 15 = 15 * lines[i].base
        BY <3>1
      <4>. QED
        BY <1>4, <1>r, <2>1, <4>1, <4>2 DEF CalculateLine
    <3>. QED
      BY <3>1, <3>2, Rounding
  <2>2. CASE items[i].category # "standard"
    <3>1. s[i] = 0
      BY <1>s, <2>2 DEF StandardAmounts
    <3>2. VatRates[items[i].category] = 0
      BY <1>4, <2>2 DEF VatRates
    <3>3. lines[i].base * 0 = 0 /\ 15 * 0 = 0
      BY <1>4
    <3>4. r[i] = RoundCurrency(0)
      BY <1>4, <1>r, <3>2, <3>3 DEF CalculateLine
    <3>5. RoundCurrency(0) = 0
      BY DEF RoundCurrency
    <3>6. Lean(1, 0, 0)
      BY DEF Lean, Off
    <3>. QED
      BY <3>1, <3>4, <3>5, <3>6
  <2>. QED
    BY <2>1, <2>2
<1>6. r \in Seq(Int) /\ Len(r) = N
  <2>1. \A i \in 1 .. N : r[i] \in Int
    BY <1>5
  <2>2. r = [i \in 1 .. N |-> r[i]]
    BY <1>r
  <2>. QED
    BY <2>1, <2>2, IsSequence
<1>7. s \in Seq(Int) /\ Len(s) = N
  <2>1. s = [i \in 1 .. N |-> s[i]]
    BY <1>s DEF StandardAmounts
  <2>2. \A i \in 1 .. N : s[i] \in Int
    BY <1>5
  <2>. QED
    BY <2>1, <2>2, IsSequence
<1>8. a \in Seq(Int) /\ Len(a) = N
  BY <1>4 DEF Amounts
<1>9. /\ CalculateInvoice(items).total_vat = Total(r)
      /\ CalculateInvoice(items).grand_total = Total(a) + Total(r)
  <2>1. [i \in DOMAIN items |-> CalculateLine(items[i])] = r
    BY <1>3, <1>r
  <2>2. [i \in DOMAIN items |-> items[i].base] = a
    BY <1>3, <1>4 DEF Amounts
  <2>. QED
    BY <2>1, <2>2 DEF CalculateInvoice
<1>10. Total(r) \in Int /\ Total(s) \in Int /\ Total(a) \in Int /\ Lean(N, Total(r), Total(s))
  BY <1>5, <1>6, <1>7, <1>8, SumsNear
<1>11. standard = 1 .. N => s = a
  BY <1>s DEF StandardAmounts, Amounts
<1>12. \A i \in 1 .. N : /\ lines[i].code = "S" => i \in standard
                         /\ lines[i].code \in {"Z", "E"} => i \notin standard
  BY <1>4
<1>. QED
  BY <1>s, <1>4, <1>9, <1>10, <1>11, <1>12 DEF Lean, Computed

\* A total that is not the one computed, or not printed, makes a difference.
LEMMA Compared ==
    ASSUME NEW items, NEW vat, NEW total, NEW tolerance \in Nat, NEW calculation,
           calculation = CalculateInvoice(items),
           calculation.total_vat \in Int, calculation.grand_total \in Int,
           NEW wrong, wrong = ValidateZatcaForm(items, [total_vat |-> vat, grand_total |-> total]),
           vat \in Int \cup {None}, total \in Int \cup {None}
    PROVE  /\ \A m \in wrong : /\ m.field \in {"total_vat", "grand_total"}
                               /\ m.field = "total_vat" => m.printed = vat /\ m.computed = calculation.total_vat
                               /\ m.field = "grand_total" => m.printed = total /\ m.computed = calculation.grand_total
                               /\ m.printed \in Int /\ m.computed \in Int
           /\ (\A m \in wrong : ~IsSignificantMismatch(m, tolerance))
                => /\ vat \in Int => vat - calculation.total_vat \in -tolerance .. tolerance
                   /\ total \in Int => total - calculation.grand_total \in -tolerance .. tolerance
<1>. PICK printed : printed = [total_vat |-> vat, grand_total |-> total]
  OBVIOUS
<1>1. wrong = {[field |-> f, printed |-> printed[f], computed |-> calculation[f]] :
                  f \in {g \in {"total_vat", "grand_total"} : printed[g] \notin {None, calculation[g]}}}
  BY DEF ValidateZatcaForm
<1>2. /\ printed["total_vat"] = vat /\ printed["grand_total"] = total
      /\ calculation["total_vat"] \in Int /\ calculation["grand_total"] \in Int
  OBVIOUS
<1>3. ASSUME NEW m \in wrong
      PROVE  /\ m.field \in {"total_vat", "grand_total"}
             /\ m.field = "total_vat" => m.printed = vat /\ m.computed = calculation.total_vat
             /\ m.field = "grand_total" => m.printed = total /\ m.computed = calculation.grand_total
             /\ m.printed \in Int /\ m.computed \in Int
  <2>. PICK f \in {"total_vat", "grand_total"} :
            m = [field |-> f, printed |-> printed[f], computed |-> calculation[f]] /\ printed[f] # None
    BY <1>1
  <2>. QED
    BY <1>2
<1>4. ASSUME \A m \in wrong : ~IsSignificantMismatch(m, tolerance),
             NEW f \in {"total_vat", "grand_total"}, printed[f] \in Int
      PROVE  printed[f] - calculation[f] \in -tolerance .. tolerance
  <2>. PICK p \in Int, c \in Int : p = printed[f] /\ c = calculation[f]
    BY <1>2, <1>4
  <2>1. CASE p = c
    BY <2>1
  <2>2. CASE p # c
    <3>. PICK m : m = [field |-> f, printed |-> p, computed |-> c]
      OBVIOUS
    <3>1. m \in wrong
      BY <1>1, <2>2, NoneAssumption
    <3>2. ~(p - c > tolerance) /\ ~(c - p > tolerance)
      BY <1>4, <3>1 DEF IsSignificantMismatch
    <3>. QED
      BY <3>2
  <2>. QED
    BY <2>1, <2>2
<1>5. ASSUME \A m \in wrong : ~IsSignificantMismatch(m, tolerance), vat \in Int
      PROVE  vat - calculation.total_vat \in -tolerance .. tolerance
  BY <1>2, <1>4, <1>5
<1>6. ASSUME \A m \in wrong : ~IsSignificantMismatch(m, tolerance), total \in Int
      PROVE  total - calculation.grand_total \in -tolerance .. tolerance
  BY <1>2, <1>4, <1>6
<1>. QED
  BY <1>3, <1>5, <1>6

\* The verdict on an invoice with lines.
Judgement(v, x, items, tolerance) ==
    /\ v.status = "clean" => StructuralIssues(x) \subseteq Warnings /\ ~ParseLineItemsFails(items)
    /\ ParseLineItemsFails(items) => v.mismatches = {}
    /\ LET wrong == ValidateZatcaForm(items, [total_vat |-> x.vat, grand_total |-> x.total])
       IN  /\ v.status = "clean" => \A m \in wrong : ~IsSignificantMismatch(m, tolerance)
           /\ (\A m \in wrong : ~IsSignificantMismatch(m, tolerance)) => \A m \in v.mismatches : m.within

\* An invoice is clean only without errors and with figures close enough.
LEMMA Judged ==
    ASSUME NEW name, NEW x, NEW suggestions, NEW tolerance, x # None, x.lines # << >>,
           NEW v, v = CheckOneInvoice(name, x, suggestions, tolerance), v # None
    PROVE  Judgement(v, x, ResolveLineItems(x.lines, suggestions), tolerance)
<1>. DEFINE items == ResolveLineItems(x.lines, suggestions)
            issues == StructuralIssues(x)
            noted == issues \cup (IF x.vat = None /\ x.total = None THEN {"no_printed_totals"} ELSE {})
            wrong == ValidateZatcaForm(items, [total_vat |-> x.vat, grand_total |-> x.total])
            found == {[field |-> m.field, within |-> ~IsSignificantMismatch(m, tolerance)] : m \in wrong}
<1>1. v = IF ParseLineItemsFails(items) THEN Verdict(name, noted \cup {"calculation_failed"}, {})
          ELSE Verdict(name, noted, found)
  BY DEF CheckOneInvoice, CheckLines
<1>2. ParseLineItemsFails(items) \in BOOLEAN
  BY DEF ParseLineItemsFails
<1>. HIDE DEF items
<1>3. CASE ParseLineItemsFails(items)
  <2>1. v = Verdict(name, noted \cup {"calculation_failed"}, {})
    BY <1>1, <1>3
  <2>2. "calculation_failed" \in Errors(noted \cup {"calculation_failed"})
    BY DEF Errors, Warnings
  <2>3. v.mismatches = {} /\ v.status # "clean"
    <3>. HIDE DEF noted
    <3>. QED
      BY <2>1, <2>2 DEF Verdict
  <2>. HIDE DEF wrong
  <2>. QED
    BY <1>3, <2>3 DEF Judgement, items
<1>4. CASE ~ParseLineItemsFails(items)
  <2>1. v = Verdict(name, noted, found)
    BY <1>1, <1>4
  <2>2. v.mismatches = found
    BY <2>1 DEF Verdict
  <2>3. v.status = "clean" => Errors(noted) = {} /\ \A m \in found : m.within
    <3>. HIDE DEF noted, found
    <3>. QED
      BY <2>1 DEF Verdict
  <2>4. Errors(noted) = {} => issues \subseteq Warnings
    <3>. HIDE DEF issues
    <3>. QED
      BY DEF Errors
  <2>5. ASSUME NEW m \in wrong, \A n \in found : n.within PROVE ~IsSignificantMismatch(m, tolerance)
    <3>. HIDE DEF wrong
    <3>. PICK within \in BOOLEAN : within = ~IsSignificantMismatch(m, tolerance)
      BY DEF IsSignificantMismatch
    <3>. PICK n : n = [field |-> m.field, within |-> within]
      OBVIOUS
    <3>1. n \in found
      OBVIOUS
    <3>. QED
      BY <2>5, <3>1
  <2>6. ASSUME \A m \in wrong : ~IsSignificantMismatch(m, tolerance), NEW n \in found PROVE n.within
    <3>. HIDE DEF wrong
    <3>. PICK m \in wrong : n = [field |-> m.field, within |-> ~IsSignificantMismatch(m, tolerance)]
      OBVIOUS
    <3>1. ~IsSignificantMismatch(m, tolerance)
      BY <2>6
    <3>. QED
      BY <3>1
  <2>. HIDE DEF found, noted, wrong
  <2>7. /\ v.status = "clean" => \A m \in wrong : ~IsSignificantMismatch(m, tolerance)
        /\ (\A m \in wrong : ~IsSignificantMismatch(m, tolerance)) => \A m \in v.mismatches : m.within
    BY <2>2, <2>3, <2>5, <2>6
  <2>. QED
    BY <1>4, <2>3, <2>4, <2>7 DEF Judgement, items, wrong
<1>. QED
  BY <1>2, <1>3, <1>4

Within(tolerance, p, c) == p - c \in -tolerance .. tolerance
NearEnough(n, p, s, tolerance) ==
    100 * p - 15 * s \in -(100 * tolerance + 50 * n) .. 100 * tolerance + 50 * n

\* A figure within the tolerance of one that is nearly right is nearly right.
LEMMA WithRoom ==
    ASSUME NEW n \in Nat, NEW p \in Int, NEW c \in Int, NEW s \in Int, NEW tolerance \in Nat,
           Off(n, c, s), Within(tolerance, p, c)
    PROVE  NearEnough(n, p, s, tolerance)
BY DEF Off, Within, NearEnough

\* An invoice found clean is sound.
LEMMA CleanSound ==
    ASSUME NEW name \in DOMAIN File, NEW x \in PostFile(name), NEW suggestions \in Suggestions(Asked(x)),
           NEW tolerance \in Nat,
           NEW v, v = CheckOneInvoice(name, x, suggestions, tolerance), v # None, v.status = "clean"
    PROVE  Sound(Invoice(File[name]), tolerance)
<1>1. x # None /\ x.lines # << >>
  <2>1. ASSUME NEW issues, NEW rule \in issues, rule \notin Warnings PROVE Verdict(name, issues, {}).status # "clean"
    BY <2>1 DEF Verdict, Errors
  <2>2. "extraction_failed" \notin Warnings /\ "not_readable_as_invoice" \notin Warnings
    BY DEF Warnings
  <2>3. Verdict(name, {"extraction_failed"}, {}).status # "clean"
    BY <2>1, <2>2
  <2>4. Verdict(name, StructuralIssues(x) \cup {"not_readable_as_invoice"}, {}).status # "clean"
    BY <2>1, <2>2
  <2>. QED
    BY <2>3, <2>4 DEF CheckOneInvoice
<1>. PICK doc : doc = Invoice(File[name])
  OBVIOUS
<1>2. x = Extracted[name] /\ Reads(x, doc) /\ suggestions \in Suggestions(x.lines)
  BY <1>1, ReadOff DEF PostFile, Asked
<1>. PICK items : items = ResolveLineItems(x.lines, suggestions)
  OBVIOUS
<1>. PICK wrong : wrong = ValidateZatcaForm(items, [total_vat |-> x.vat, grand_total |-> x.total])
  OBVIOUS
<1>3. /\ StructuralIssues(x) \subseteq Warnings /\ ~ParseLineItemsFails(items)
      /\ \A m \in wrong : ~IsSignificantMismatch(m, tolerance)
  BY <1>1, Judged DEF Judgement
<1>. PICK standard : standard = {i \in DOMAIN doc.lines : items[i].category = "standard"}
  OBVIOUS
<1>. PICK calculation : calculation = CalculateInvoice(items)
  OBVIOUS
<1>. PICK N : N = Len(doc.lines)
  OBVIOUS
<1>. PICK a : a = Total(Amounts(doc))
  OBVIOUS
<1>. PICK s : s = Total(StandardAmounts(doc, standard))
  OBVIOUS
<1>c. Computed(doc, items, standard)
  BY <1>2, <1>3, Calculated
<1>4. /\ N \in Nat /\ DOMAIN doc.lines = 1 .. N
      /\ \A i \in DOMAIN doc.lines : /\ doc.lines[i].base \in Int
                                     /\ doc.lines[i].code = "S" => i \in standard
                                     /\ doc.lines[i].code \in {"Z", "E"} => i \notin standard
      /\ a \in Int /\ s \in Int /\ calculation.total_vat \in Int
      /\ calculation.grand_total = a + calculation.total_vat
      /\ Off(N, calculation.total_vat, s)
  BY <1>c DEF Computed
<1>5. DOMAIN doc.lines # {}
  <2>. SUFFICES ASSUME DOMAIN doc.lines = {} PROVE x.lines = << >>
    BY <1>1
  <2>1. x.lines = [i \in {} |-> [id |-> doc.lines[i].id, code |-> Code(doc.lines[i].code),
                                 base |-> Float(doc.lines[i].base)]]
    BY <1>2 DEF Reads
  <2>2. 1 .. 0 = {}
    OBVIOUS
  <2>3. DOMAIN x.lines = 1 .. 0 /\ x.lines = [i \in 1 .. 0 |-> x.lines[i]]
    BY <2>1, <2>2
  <2>4. x.lines \in Seq({}) /\ Len(x.lines) = 0
    BY <2>3, IsSequence
  <2>. QED
    BY <2>4
<1>6. /\ doc.seller \in WellFormed /\ doc.buyer \in WellFormed \cup {None}
      /\ doc.buyer # doc.seller
      /\ doc.date # None /\ (doc.date \in Nat => doc.date <= Today)
  <2>1. x.seller = doc.seller /\ x.buyer = doc.buyer /\ x.date = doc.date
    BY <1>2 DEF Reads
  <2>2. "missing_seller_vat_number" \notin EssentialFieldsIssues(x) /\ "missing_issue_date" \notin EssentialFieldsIssues(x)
    BY <1>3 DEF StructuralIssues, Warnings
  <2>3. x.seller # None /\ x.date # None
    BY <2>2 DEF EssentialFieldsIssues
  <2>4. /\ ~BadVatNumber(x.seller) /\ ~BadVatNumber(x.buyer)
        /\ ~FutureDate(x.date) /\ ~SameParty(x.seller, x.buyer)
    BY <1>3 DEF StructuralIssues, Warnings
  <2>5. x.seller \in WellFormed /\ x.buyer \in WellFormed \cup {None} /\ x.buyer # x.seller
    BY <2>3, <2>4 DEF BadVatNumber, SameParty
  <2>6. x.date \in Nat => x.date <= Today
    BY <2>4, RulesAssumption DEF FutureDate
  <2>. QED
    BY <2>1, <2>3, <2>5, <2>6
<1>7. x.vat = Float(doc.vat) /\ x.total = Float(doc.total)
  BY <1>2 DEF Reads
<1>8. x.vat \in Int \cup {None} /\ x.total \in Int \cup {None}
  BY <1>7 DEF Float
<1>9. calculation.grand_total \in Int
  BY <1>4
<1>10. /\ x.vat \in Int => x.vat - calculation.total_vat \in -tolerance .. tolerance
       /\ x.total \in Int => x.total - calculation.grand_total \in -tolerance .. tolerance
  BY <1>3, <1>4, <1>8, <1>9, Compared
<1>11. ASSUME doc.vat \in Int
       PROVE  100 * doc.vat - 15 * s \in -(100 * tolerance + 50 * N) .. 100 * tolerance + 50 * N
  <2>. PICK p \in Int, c \in Int : p = doc.vat /\ c = calculation.total_vat
    BY <1>4, <1>11
  <2>1. Within(tolerance, p, c)
    BY <1>7, <1>10, <1>11 DEF Float, Within
  <2>2. Off(N, c, s)
    BY <1>4
  <2>3. N \in Nat /\ s \in Int
    BY <1>4
  <2>4. NearEnough(N, p, s, tolerance)
    BY <2>1, <2>2, <2>3, WithRoom
  <2>. QED
    BY <2>4 DEF NearEnough
<1>12. ASSUME doc.total \in Int
       PROVE  100 * (doc.total - a) - 15 * s \in -(100 * tolerance + 50 * N) .. 100 * tolerance + 50 * N
  <2>. PICK p \in Int, c \in Int : p = doc.total /\ c = calculation.total_vat
    BY <1>4, <1>12
  <2>1. p - (a + c) \in -tolerance .. tolerance
    BY <1>4, <1>7, <1>10, <1>12 DEF Float
  <2>2. (p - a) \in Int /\ (p - a) - c \in -tolerance .. tolerance
    BY <1>4, <2>1
  <2>3. Off(N, c, s)
    BY <1>4
  <2>4. N \in Nat /\ s \in Int
    BY <1>4
  <2>. PICK q \in Int : q = p - a
    BY <2>2
  <2>5. Within(tolerance, q, c)
    BY <2>2 DEF Within
  <2>6. NearEnough(N, q, s, tolerance)
    BY <2>3, <2>4, <2>5, WithRoom
  <2>. QED
    BY <2>6 DEF NearEnough
<1>13. Near(doc, standard, tolerance)
  <2>1. /\ Total([i \in DOMAIN doc.lines |-> doc.lines[i].base]) = a
        /\ Total([i \in DOMAIN doc.lines |-> IF i \in standard THEN doc.lines[i].base ELSE 0]) = s
    BY DEF Amounts, StandardAmounts
  <2>. QED
    BY <1>11, <1>12, <2>1 DEF Near
<1>14. standard \in SUBSET DOMAIN doc.lines
  OBVIOUS
<1>. QED
  BY <1>4, <1>5, <1>6, <1>13, <1>14 DEF Sound

\* VAT rounded once, on the sum of five lines at most, is within the
\* tolerance a user gets who gives none.
LEMMA RoundedOnceExcused ==
    ASSUME NEW name \in DOMAIN File, NEW x \in PostFile(name), NEW suggestions \in Suggestions(Asked(x)),
           NEW tolerance \in Nat, tolerance >= 2, RoundedOnce(File[name]),
           NEW v, v = CheckOneInvoice(name, x, suggestions, tolerance), v # None
    PROVE  \A m \in v.mismatches : m.within
<1>. PICK file : file = File[name]
  OBVIOUS
<1>. PICK doc : doc = Invoice(file)
  OBVIOUS
<1>0. doc = file.doc /\ RoundedOnce(file)
  BY DEF RoundedOnce, Invoice
<1>1. CASE x = None \/ x.lines = << >>
  BY <1>1 DEF CheckOneInvoice, Verdict
<1>2. CASE x # None /\ x.lines # << >>
  <2>1. x = Extracted[name] /\ Reads(x, doc) /\ suggestions \in Suggestions(x.lines)
    BY <1>2, ReadOff DEF PostFile, Asked
  <2>. PICK items : items = ResolveLineItems(x.lines, suggestions)
    OBVIOUS
  <2>. PICK wrong : wrong = ValidateZatcaForm(items, [total_vat |-> x.vat, grand_total |-> x.total])
    OBVIOUS
  <2>2. /\ ParseLineItemsFails(items) => v.mismatches = {}
        /\ (\A m \in wrong : ~IsSignificantMismatch(m, tolerance)) => \A m \in v.mismatches : m.within
    BY <1>2, Judged DEF Judgement
  <2>3. CASE ParseLineItemsFails(items)
    BY <2>2, <2>3
  <2>4. CASE ~ParseLineItemsFails(items)
    <3>. PICK standard : standard = {i \in DOMAIN doc.lines : items[i].category = "standard"}
      OBVIOUS
    <3>. PICK calculation : calculation = CalculateInvoice(items)
      OBVIOUS
    <3>. PICK N : N = Len(doc.lines)
      OBVIOUS
    <3>. PICK a : a = Total(Amounts(doc))
      OBVIOUS
    <3>c. Computed(doc, items, standard)
      BY <2>1, <2>4, Calculated
    <3>1. /\ N \in Nat
          /\ \A i \in DOMAIN doc.lines : doc.lines[i].code = "S" => i \in standard
          /\ a \in Int /\ calculation.total_vat \in Int
          /\ calculation.grand_total = a + calculation.total_vat
          /\ standard = DOMAIN doc.lines => Lean(N, calculation.total_vat, a)
      BY <3>c DEF Computed
    <3>2. standard = DOMAIN doc.lines
      BY <1>0, <3>1 DEF RoundedOnce
    <3>3. N \in Nat /\ N <= 5
      BY <1>0, <3>1 DEF RoundedOnce
    <3>. PICK V : V = RoundCurrency(15 * a)
      OBVIOUS
    <3>4. V \in Int /\ Lean(1, V, a)
      BY <3>1, Rounding
    <3>5. doc.vat = V /\ doc.total = a + V
      BY <1>0 DEF RoundedOnce, Amounts
    <3>6. x.vat = V /\ x.total = a + V
      <4>1. x.vat = Float(doc.vat) /\ x.total = Float(doc.total)
        BY <2>1 DEF Reads
      <4>2. a + V \in Int
        BY <3>1, <3>4
      <4>. QED
        BY <3>4, <3>5, <4>1, <4>2 DEF Float
    <3>. PICK c \in Int : c = calculation.total_vat
      BY <3>1
    <3>7. c - V \in -2 .. 2
      BY <3>1, <3>2, <3>3, <3>4, FiveClose
    <3>8. V \in Int \cup {None} /\ a + V \in Int \cup {None} /\ a + c \in Int
      BY <3>1, <3>4
    <3>9. \A m \in wrong : /\ m.field \in {"total_vat", "grand_total"}
                           /\ m.field = "total_vat" => m.printed = V /\ m.computed = c
                           /\ m.field = "grand_total" => m.printed = a + V /\ m.computed = a + c
      <4>1. /\ calculation.total_vat \in Int /\ calculation.grand_total \in Int
            /\ x.vat \in Int \cup {None} /\ x.total \in Int \cup {None}
            /\ calculation.grand_total = a + c
        BY <3>1, <3>6, <3>8
      <4>2. \A m \in wrong : /\ m.field \in {"total_vat", "grand_total"}
                             /\ m.field = "total_vat" => m.printed = x.vat /\ m.computed = calculation.total_vat
                             /\ m.field = "grand_total"
                                  => m.printed = x.total /\ m.computed = calculation.grand_total
        BY <4>1, Compared
      <4>. QED
        BY <3>6, <4>1, <4>2
    <3>10. ASSUME NEW m \in wrong PROVE ~IsSignificantMismatch(m, tolerance)
      <4>1. CASE m.printed = V /\ m.computed = c
        BY <3>4, <3>7, <4>1 DEF IsSignificantMismatch
      <4>2. CASE m.printed = a + V /\ m.computed = a + c
        <5>1. (a + V) - (a + c) = V - c /\ (a + c) - (a + V) = c - V
          BY <3>1, <3>4
        <5>. QED
          BY <3>4, <3>7, <4>2, <5>1 DEF IsSignificantMismatch
      <4>. QED
        BY <3>9, <4>1, <4>2
    <3>. QED
      BY <2>2, <3>10
  <2>. QED
    BY <2>3, <2>4
<1>. QED
  BY <1>1, <1>2

-----------------------------------------------------------------------------
(* Results, jobs and batches *)

Rule == {"missing_seller_vat_number", "missing_issue_date", "missing_buyer_identity",
         "invalid_vat_number_format", "invalid_buyer_vat_number_format", "future_issue_date",
         "seller_equals_buyer", "no_printed_totals", "calculation_failed", "extraction_failed",
         "not_readable_as_invoice"}
Difference == [field : {"total_vat", "grand_total"}, within : BOOLEAN]
Result == [name : DOMAIN File, issues : SUBSET Rule, mismatches : SUBSET Difference,
           status : {"flagged", "clean"}]
Job == [submitted : Seq(DOMAIN File), files : Seq(DOMAIN File),
        tolerance : {s.tolerance : s \in Submission}, results : Seq(Result),
        phase : {"running", "stored", "failed"}, batch : Nat]
Batch == [results : Seq(Result), total : Nat, clean : Nat, flagged : Int,
          of : Seq(DOMAIN File), live : BOOLEAN]

\* Results are those of the first files, in their order.
ResultsOf(results, files) ==
    /\ Len(results) <= Len(files)
    /\ \A i \in 1 .. Len(results) : results[i].name = files[i]

JobOk(job) == job \in Job /\ job.files = job.submitted /\ ResultsOf(job.results, job.files)
BatchOk(b) == b \in Batch /\ Len(b.results) = Len(b.of) /\ ResultsOf(b.results, b.of)

JobsInv == jobs \in Seq(Job) /\ \A j \in 1 .. Len(jobs) : JobOk(jobs[j])
BatchesInv == batches \in Seq(Batch) /\ \A b \in 1 .. Len(batches) : BatchOk(batches[b])
CheckInv == JobsInv /\ BatchesInv

\* A verdict is about the invoice it is asked for.
LEMMA VerdictOk ==
    ASSUME NEW name \in DOMAIN File, NEW issues \in SUBSET Rule,
           NEW mismatches \in SUBSET Difference
    PROVE  Verdict(name, issues, mismatches) \in Result /\ Verdict(name, issues, mismatches).name = name
BY DEF Verdict, Result

\* Rules that find something are known by name.
LEMMA IssuesOk == ASSUME NEW x PROVE StructuralIssues(x) \in SUBSET Rule
<1>1. EssentialFieldsIssues(x) \in SUBSET Rule
  BY DEF EssentialFieldsIssues, Rule
<1>. QED
  BY <1>1 DEF StructuralIssues, Rule

\* An invoice has a result of its own, or ends the request.
LEMMA CheckedOk ==
    ASSUME NEW name \in DOMAIN File, NEW x, NEW suggestions, NEW tolerance,
           CheckOneInvoice(name, x, suggestions, tolerance) # None
    PROVE  /\ CheckOneInvoice(name, x, suggestions, tolerance) \in Result
           /\ CheckOneInvoice(name, x, suggestions, tolerance).name = name
<1>. PICK issues : issues = StructuralIssues(x)
  OBVIOUS
<1>1. issues \in SUBSET Rule /\ {} \in SUBSET Rule /\ {} \in SUBSET Difference
  BY IssuesOk
<1>2. CASE x = None
  <2>1. CheckOneInvoice(name, x, suggestions, tolerance) = Verdict(name, {"extraction_failed"}, {})
    BY <1>2 DEF CheckOneInvoice
  <2>2. {"extraction_failed"} \in SUBSET Rule
    BY DEF Rule
  <2>. QED
    BY <1>1, <2>1, <2>2, VerdictOk
<1>3. CASE x # None /\ x.lines = << >>
  <2>1. CheckOneInvoice(name, x, suggestions, tolerance)
            = Verdict(name, issues \cup {"not_readable_as_invoice"}, {})
    BY <1>3 DEF CheckOneInvoice
  <2>2. issues \cup {"not_readable_as_invoice"} \in SUBSET Rule
    BY <1>1 DEF Rule
  <2>. QED
    BY <1>1, <2>1, <2>2, VerdictOk
<1>4. CASE x # None /\ x.lines # << >>
  <2>. DEFINE items == ResolveLineItems(x.lines, suggestions)
              noted == issues \cup (IF x.vat = None /\ x.total = None THEN {"no_printed_totals"} ELSE {})
              wrong == ValidateZatcaForm(items, [total_vat |-> x.vat, grand_total |-> x.total])
              differences == {[field |-> m.field, within |-> ~IsSignificantMismatch(m, tolerance)] : m \in wrong}
  <2>1. noted \in SUBSET Rule /\ noted \cup {"calculation_failed"} \in SUBSET Rule
    BY <1>1 DEF Rule
  <2>2. differences \in SUBSET Difference
    <3>1. ASSUME NEW m \in wrong PROVE m.field \in {"total_vat", "grand_total"}
      BY DEF ValidateZatcaForm
    <3>2. ASSUME NEW m \in wrong PROVE (~IsSignificantMismatch(m, tolerance)) \in BOOLEAN
      BY DEF IsSignificantMismatch
    <3>3. ASSUME NEW m \in wrong
          PROVE  [field |-> m.field, within |-> ~IsSignificantMismatch(m, tolerance)] \in Difference
      <4>. PICK within \in BOOLEAN : within = ~IsSignificantMismatch(m, tolerance)
        BY <3>2
      <4>1. [field |-> m.field, within |-> within] \in Difference
        BY <3>1 DEF Difference
      <4>. QED
        BY <4>1
    <3>. HIDE DEF wrong
    <3>. QED
      BY <3>3
  <2>3. /\ CheckOneInvoice(name, x, suggestions, tolerance) =
              (IF ParseLineItemsFails(items) THEN Verdict(name, noted \cup {"calculation_failed"}, {})
               ELSE IF QuantizeFails(items) THEN None ELSE Verdict(name, noted, differences))
    BY <1>4 DEF CheckOneInvoice, CheckLines
  <2>. HIDE DEF items, noted, differences
  <2>. QED
    BY <1>1, <2>1, <2>2, <2>3, VerdictOk
<1>. QED
  BY <1>2, <1>3, <1>4

-----------------------------------------------------------------------------
(* The service *)

\* One job moves.
LEMMA SetJobOk ==
    ASSUME JobsInv, NEW j \in 1 .. Len(jobs), NEW job, SetJob(j, job), JobOk(job)
    PROVE  JobsInv'
BY DEF JobsInv, SetJob, JobOk

\* A job takes the result of its next file, or fails.
LEMMA AfterOk ==
    ASSUME NEW job, JobOk(job), Len(job.results) < Len(job.files), NEW result,
           result # None => result \in Result /\ result.name = job.files[Len(job.results) + 1]
    PROVE  JobOk(After(job, result))
<1>1. CASE result = None
  BY <1>1 DEF After, JobOk, Job
<1>2. CASE result # None
  <2>. PICK more : more = Append(job.results, result)
    OBVIOUS
  <2>1. job.results \in Seq(Result) /\ job.files \in Seq(DOMAIN File)
    BY DEF JobOk, Job
  <2>2. more \in Seq(Result) /\ ResultsOf(more, job.files)
    BY <1>2, <2>1 DEF JobOk, ResultsOf
  <2>3. /\ After(job, result) = [job EXCEPT !.results = more]
        /\ After(job, result).results = more
    BY <1>2 DEF After, JobOk, Job
  <2>. QED
    BY <2>2, <2>3 DEF JobOk, Job
<1>. QED
  BY <1>1, <1>2

\* A file is checked, or cannot be written.
LEMMA CheckFileOk ==
    ASSUME JobsInv, NEW j \in 1 .. Len(jobs), CheckFile(j) \/ WriteFails(j)
    PROVE  JobsInv'
<1>. PICK job : job = jobs[j]
  OBVIOUS
<1>0. JobOk(job) /\ job.results \in Seq(Result) /\ job.files \in Seq(DOMAIN File)
  BY DEF JobsInv, JobOk, Job
<1>1. CASE CheckFile(j)
  <2>. PICK i : i = Len(job.results) + 1
    OBVIOUS
  <2>. PICK name : name = job.files[i]
    OBVIOUS
  <2>1. /\ i <= Len(job.files)
        /\ \E x \in PostFile(name) : \E suggestions \in Suggestions(Asked(x)) :
              SetJob(j, After(job, CheckOneInvoice(name, x, suggestions, Tolerance(job))))
    BY <1>1 DEF CheckFile
  <2>2. name \in DOMAIN File /\ Len(job.results) < Len(job.files)
    BY <1>0, <2>1
  <2>3. PICK x : \E suggestions \in Suggestions(Asked(x)) :
              SetJob(j, After(job, CheckOneInvoice(name, x, suggestions, Tolerance(job))))
    BY <2>1
  <2>4. PICK suggestions :
              SetJob(j, After(job, CheckOneInvoice(name, x, suggestions, Tolerance(job))))
    BY <2>3
  <2>. PICK result : result = CheckOneInvoice(name, x, suggestions, Tolerance(job))
    OBVIOUS
  <2>5. result # None => result \in Result /\ result.name = job.files[Len(job.results) + 1]
    BY <2>2, CheckedOk
  <2>6. JobOk(After(job, result))
    BY <1>0, <2>2, <2>5, AfterOk
  <2>. QED
    BY <2>4, <2>6, SetJobOk
<1>2. CASE WriteFails(j)
  <2>1. SetJob(j, After(job, None)) /\ Len(job.results) < Len(job.files)
    BY <1>2 DEF WriteFails
  <2>2. JobOk(After(job, None))
    BY <1>0, <2>1, AfterOk
  <2>. QED
    BY <2>1, <2>2, SetJobOk
<1>. QED
  BY <1>1, <1>2

\* Results are counted.
LEMMA CleanOk ==
    ASSUME NEW results \in Seq(Result)
    PROVE  Clean(results) \in Nat
<1>1. IsFiniteSet(1 .. Len(results)) /\ DOMAIN results = 1 .. Len(results)
  BY FS_Interval
<1>2. IsFiniteSet({i \in DOMAIN results : results[i].status = "clean"})
  BY <1>1, FS_Subset
<1>. QED
  BY <1>2, FS_CardinalityType DEF Clean

\* A batch is stored when every file has its result.
LEMMA StoreBatchOk ==
    ASSUME CheckInv, NEW j \in 1 .. Len(jobs), StoreBatch(j)
    PROVE  CheckInv'
<1>. PICK job : job = jobs[j]
  OBVIOUS
<1>0. JobOk(job) /\ job.results \in Seq(Result) /\ job.files \in Seq(DOMAIN File)
  BY DEF CheckInv, JobsInv, JobOk, Job
<1>1. Len(job.results) = Len(job.files) /\ batches \in Seq(Batch)
  BY DEF StoreBatch, CheckInv, BatchesInv
<1>. DEFINE new == [results |-> job.results, total |-> Len(job.results), clean |-> Clean(job.results),
                    flagged |-> Len(job.results) - Clean(job.results), of |-> job.submitted, live |-> TRUE]
<1>2. CASE batches' = Append(batches, new)
           /\ SetJob(j, [job EXCEPT !.phase = "stored", !.batch = Len(batches) + 1])
  <2>1. Clean(job.results) \in Nat /\ Len(job.results) \in Nat /\ job.submitted = job.files
    BY <1>0, CleanOk DEF JobOk
  <2>2. new \in Batch /\ new.results = job.results /\ new.of = job.files
    BY <1>0, <2>1 DEF Batch
  <2>. HIDE DEF new
  <2>3. BatchOk(new)
    BY <1>0, <1>1, <2>2 DEF BatchOk, JobOk
  <2>4. BatchesInv'
    BY <1>1, <1>2, <2>2, <2>3 DEF CheckInv, BatchesInv
  <2>5. JobOk([job EXCEPT !.phase = "stored", !.batch = Len(batches) + 1])
    <3>1. PICK n \in Nat : n = Len(batches) + 1
      BY <1>1
    <3>. QED
      BY <1>0, <3>1 DEF JobOk, Job
  <2>. QED
    BY <1>2, <2>4, <2>5, SetJobOk DEF CheckInv
<1>3. CASE SetJob(j, [job EXCEPT !.phase = "failed"]) /\ UNCHANGED batches
  <2>1. JobOk([job EXCEPT !.phase = "failed"])
    BY <1>0 DEF JobOk, Job
  <2>. QED
    BY <1>3, <2>1, SetJobOk DEF CheckInv, BatchesInv
<1>. QED
  BY <1>2, <1>3 DEF StoreBatch

\* A step of the service.
LEMMA ServeOk == ASSUME CheckInv, Serve PROVE CheckInv'
<1>. PICK j \in DOMAIN jobs : \/ RefuseTolerance(j) /\ UNCHANGED batches
                              \/ CheckFile(j) /\ UNCHANGED batches
                              \/ WriteFails(j) /\ UNCHANGED batches
                              \/ StoreBatch(j)
  BY DEF Serve
<1>0. j \in 1 .. Len(jobs)
  BY DEF CheckInv, JobsInv
<1>1. CASE RefuseTolerance(j) /\ UNCHANGED batches
  <2>1. SetJob(j, [jobs[j] EXCEPT !.phase = "failed"]) /\ JobOk(jobs[j])
    BY <1>0, <1>1 DEF RefuseTolerance, CheckInv, JobsInv
  <2>2. JobOk([jobs[j] EXCEPT !.phase = "failed"])
    BY <2>1 DEF JobOk, Job
  <2>. QED
    BY <1>0, <1>1, <2>1, <2>2, SetJobOk DEF CheckInv, BatchesInv
<1>2. CASE (CheckFile(j) \/ WriteFails(j)) /\ UNCHANGED batches
  BY <1>0, <1>2, CheckFileOk DEF CheckInv, BatchesInv
<1>. QED
  BY <1>0, <1>1, <1>2, StoreBatchOk

\* A check begins with no results.
LEMMA CheckOk == ASSUME CheckInv, Check PROVE CheckInv'
<1>1. CASE UNCHANGED <<jobs, batches>>
  BY <1>1 DEF CheckInv, JobsInv, BatchesInv
<1>2. ASSUME NEW s \in Submission,
             jobs' = Append(jobs, [submitted |-> s.files, files |-> s.files, tolerance |-> s.tolerance,
                                   results |-> << >>, phase |-> "running", batch |-> 0]),
             UNCHANGED batches
      PROVE  CheckInv'
  <2>. DEFINE new == [submitted |-> s.files, files |-> s.files, tolerance |-> s.tolerance,
                      results |-> << >>, phase |-> "running", batch |-> 0]
  <2>1. s.files \in Seq(DOMAIN File) /\ Len(s.files) \in Nat
    BY CheckAssumption
  <2>2. << >> \in Seq(Result) /\ Len(<< >>) = 0
    OBVIOUS
  <2>3. new \in Job
    BY <2>1, <2>2 DEF Job
  <2>4. new.files = new.submitted /\ ResultsOf(new.results, new.files)
    BY <2>1, <2>2 DEF ResultsOf
  <2>5. jobs' = Append(jobs, new)
    BY <1>2
  <2>. HIDE DEF new
  <2>6. JobOk(new)
    BY <2>3, <2>4 DEF JobOk
  <2>. QED
    BY <1>2, <2>3, <2>5, <2>6 DEF CheckInv, JobsInv, BatchesInv
<1>. QED
  BY <1>1, <1>2 DEF Check

\* A batch that expires keeps what it is.
LEMMA ExpireOk == ASSUME CheckInv, Expire PROVE CheckInv'
<1>1. PICK b \in DOMAIN batches : batches' = [batches EXCEPT ![b].live = FALSE]
  BY DEF Expire
<1>2. BatchOk(batches[b]) /\ b \in 1 .. Len(batches) /\ batches \in Seq(Batch)
  BY <1>1 DEF CheckInv, BatchesInv
<1>. PICK old : old = [batches[b] EXCEPT !.live = FALSE]
  OBVIOUS
<1>3. old \in Batch /\ BatchOk(old)
  BY <1>2 DEF BatchOk, Batch
<1>4. batches' = [batches EXCEPT ![b] = old]
  BY <1>1
<1>5. Len(batches') = Len(batches) /\ batches' \in Seq(Batch)
  BY <1>2, <1>3, <1>4
<1>6. BatchesInv'
  <2>1. ASSUME NEW a \in 1 .. Len(batches) PROVE BatchOk(batches'[a])
    BY <1>2, <1>3, <1>4 DEF CheckInv, BatchesInv
  <2>. QED
    BY <1>5, <2>1 DEF BatchesInv, BatchOk
<1>. QED
  BY <1>6 DEF Expire, CheckInv, JobsInv

\* Every step keeps jobs and batches in order.
LEMMA CheckKept == CheckInv /\ [Next]_vars => CheckInv'
<1>. SUFFICES ASSUME CheckInv, [Next]_vars PROVE CheckInv'
  OBVIOUS
<1>1. CASE TakeAnswer \/ TakeSummary \/ Reset \/ Download \/ TakeReport \/ UNCHANGED vars
  BY <1>1 DEF TakeAnswer, TakeSummary, Reset, Download, TakeReport, vars, CheckInv, JobsInv, BatchesInv
<1>. QED
  BY <1>1, CheckOk, ServeOk, ExpireOk DEF Next

\* Jobs have the results of the files before the one they are at, and batches
\* those of all files.
THEOREM CheckInvariant == Spec => []CheckInv
<1>1. Init => CheckInv
  BY DEF Init, CheckInv, JobsInv, BatchesInv
<1>2. CheckInv /\ [Next]_vars => CheckInv'
  BY CheckKept
<1>. QED
  BY <1>1, <1>2, PTL DEF Spec

\* A stored batch has the result of every file submitted, in their order,
\* whatever failed.
THEOREM WholeBatchInvariant == Spec => []WholeBatch
<1>1. CheckInv => WholeBatch
  <2>. SUFFICES ASSUME CheckInv, NEW b \in DOMAIN batches
                PROVE  [i \in DOMAIN batches[b].results |-> batches[b].results[i].name] = batches[b].of
    BY DEF WholeBatch
  <2>1. BatchOk(batches[b])
    BY DEF CheckInv, BatchesInv
  <2>2. /\ batches[b].results \in Seq(Result) /\ batches[b].of \in Seq(DOMAIN File)
        /\ DOMAIN batches[b].results = DOMAIN batches[b].of
    BY <2>1 DEF BatchOk, Batch
  <2>. QED
    BY <2>1, <2>2 DEF BatchOk, ResultsOf
<1>. QED
  BY <1>1, CheckInvariant, PTL

-----------------------------------------------------------------------------
(* The verdicts *)

\* Every result is the verdict on its file, as the service read it and as the
\* model judged its lines.
Earned(result, name, tolerance) ==
    /\ tolerance \in Nat /\ result # None
    /\ \E x \in PostFile(name) : \E suggestions \in Suggestions(Asked(x)) :
          result = CheckOneInvoice(name, x, suggestions, tolerance)
JobEarned(job) == \A i \in 1 .. Len(job.results) : Earned(job.results[i], job.files[i], Tolerance(job))
EarnedInv == \A j \in 1 .. Len(jobs) : JobEarned(jobs[j])

\* One job moves.
LEMMA SetJobEarned ==
    ASSUME JobsInv, EarnedInv, NEW j \in 1 .. Len(jobs), NEW job, SetJob(j, job), JobEarned(job)
    PROVE  EarnedInv'
<1>1. Len(jobs') = Len(jobs) /\ \A k \in 1 .. Len(jobs) : jobs'[k] = IF k = j THEN job ELSE jobs[k]
  BY DEF SetJob, JobsInv
<1>. QED
  BY <1>1 DEF EarnedInv

\* Every step keeps results earned.
LEMMA EarnedKept == ASSUME CheckInv, EarnedInv, [Next]_vars PROVE EarnedInv'
<1>1. CASE UNCHANGED jobs
  BY <1>1 DEF EarnedInv
<1>2. ASSUME NEW s \in Submission,
             jobs' = Append(jobs, [submitted |-> s.files, files |-> s.files, tolerance |-> s.tolerance,
                                   results |-> << >>, phase |-> "running", batch |-> 0])
      PROVE  EarnedInv'
  <2>. PICK new : new = [submitted |-> s.files, files |-> s.files, tolerance |-> s.tolerance,
                         results |-> << >>, phase |-> "running", batch |-> 0]
    OBVIOUS
  <2>1. JobEarned(new)
    BY DEF JobEarned
  <2>2. jobs \in Seq(Job)
    BY DEF CheckInv, JobsInv
  <2>3. /\ Len(jobs') = Len(jobs) + 1
        /\ \A k \in 1 .. Len(jobs) + 1 : jobs'[k] = IF k = Len(jobs) + 1 THEN new ELSE jobs[k]
    BY <1>2, <2>2
  <2>. QED
    BY <2>1, <2>2, <2>3 DEF EarnedInv
<1>3. ASSUME NEW j \in DOMAIN jobs,
             \/ RefuseTolerance(j) \/ CheckFile(j) \/ WriteFails(j) \/ StoreBatch(j)
      PROVE  EarnedInv'
  <2>. PICK job : job = jobs[j]
    OBVIOUS
  <2>0. j \in 1 .. Len(jobs) /\ JobsInv /\ job \in Job /\ JobEarned(job) /\ JobOk(job)
    BY DEF CheckInv, JobsInv, EarnedInv
  <2>1. job.results \in Seq(Result) /\ job.files \in Seq(DOMAIN File)
    BY <2>0 DEF Job
  <2>2. ASSUME NEW phase, NEW batch, SetJob(j, [job EXCEPT !.phase = phase, !.batch = batch])
                                       \/ SetJob(j, [job EXCEPT !.phase = phase])
        PROVE  EarnedInv'
    <3>. PICK next : SetJob(j, next) /\ \/ next = [job EXCEPT !.phase = phase, !.batch = batch]
                                        \/ next = [job EXCEPT !.phase = phase]
      BY <2>2
    <3>1. next.results = job.results /\ next.files = job.files /\ next.tolerance = job.tolerance
      BY <2>0 DEF Job
    <3>2. JobEarned(next)
      BY <2>0, <3>1 DEF JobEarned, Tolerance
    <3>. QED
      BY <2>0, <3>2, SetJobEarned
  <2>3. CASE RefuseTolerance(j)
    BY <2>2, <2>3 DEF RefuseTolerance
  <2>4. CASE StoreBatch(j)
    BY <2>2, <2>4 DEF StoreBatch
  <2>5. CASE WriteFails(j)
    BY <2>2, <2>5 DEF WriteFails, After
  <2>6. CASE CheckFile(j)
    <3>. PICK name : name = job.files[Len(job.results) + 1]
      OBVIOUS
    <3>1. /\ Tolerance(job) >= 0
          /\ \E x \in PostFile(name) : \E suggestions \in Suggestions(Asked(x)) :
                SetJob(j, After(job, CheckOneInvoice(name, x, suggestions, Tolerance(job))))
      BY <2>6 DEF CheckFile
    <3>2. PICK x \in PostFile(name) : \E suggestions \in Suggestions(Asked(x)) :
                SetJob(j, After(job, CheckOneInvoice(name, x, suggestions, Tolerance(job))))
      BY <3>1
    <3>3. PICK suggestions \in Suggestions(Asked(x)) :
                SetJob(j, After(job, CheckOneInvoice(name, x, suggestions, Tolerance(job))))
      BY <3>2
    <3>4. PICK result : result = CheckOneInvoice(name, x, suggestions, Tolerance(job))
      OBVIOUS
    <3>5. SetJob(j, After(job, result))
      BY <3>3, <3>4
    <3>6. CASE result = None
      BY <2>2, <3>5, <3>6 DEF After
    <3>7. CASE result # None
      <4>1. Tolerance(job) \in Nat
        <5>1. job.tolerance \in Int \cup {None}
          BY <2>0, CheckAssumption DEF Job
        <5>. QED
          BY <3>1, <5>1, CheckAssumption DEF Tolerance
      <4>2. Earned(result, name, Tolerance(job))
        BY <3>4, <3>7, <4>1 DEF Earned
      <4>. PICK next : next = [job EXCEPT !.results = Append(job.results, result)]
        OBVIOUS
      <4>0. Len(job.results) \in Nat
        BY <2>1
      <4>n. PICK n \in Nat : n = Len(job.results)
        BY <4>0
      <4>3. /\ next.results = Append(job.results, result) /\ next.files = job.files
            /\ next.tolerance = job.tolerance
        BY <2>0 DEF Job
      <4>4. /\ Len(next.results) = n + 1
            /\ \A i \in 1 .. n + 1 : next.results[i] = IF i = n + 1 THEN result ELSE job.results[i]
        BY <2>1, <4>3, <4>n
      <4>5. JobEarned(next)
        <5>. SUFFICES ASSUME NEW i \in 1 .. n + 1
                      PROVE  Earned(next.results[i], next.files[i], Tolerance(next))
          BY <4>4 DEF JobEarned
        <5>1. Tolerance(next) = Tolerance(job)
          BY <4>3 DEF Tolerance
        <5>2. CASE i = n + 1
          BY <4>2, <4>3, <4>4, <5>1, <5>2
        <5>3. CASE i # n + 1
          BY <2>0, <4>3, <4>4, <5>1, <5>3 DEF JobEarned
        <5>. QED
          BY <5>2, <5>3
      <4>6. SetJob(j, next)
        BY <3>5, <3>7 DEF After
      <4>. QED
        BY <2>0, <4>5, <4>6, SetJobEarned
    <3>. QED
      BY <3>6, <3>7
  <2>. QED
    BY <1>3, <2>3, <2>4, <2>5, <2>6
<1>. QED
  BY <1>1, <1>2, <1>3 DEF Next, vars, Check, TakeAnswer, TakeSummary, Reset, Download, TakeReport, Serve, Expire

\* Results are earned.
THEOREM EarnedInvariant == Spec => []EarnedInv
<1>1. Init => EarnedInv
  BY DEF Init, EarnedInv
<1>2. CheckInv /\ EarnedInv /\ [Next]_vars => EarnedInv'
  BY EarnedKept
<1>. QED
  BY <1>1, <1>2, CheckInvariant, PTL DEF Spec

\* An invoice found clean has been read and is right.
THEOREM CleanIsCheckedInvariant == Spec => []CleanIsChecked
<1>1. CheckInv /\ EarnedInv => CleanIsChecked
  <2>. SUFFICES ASSUME CheckInv, EarnedInv, NEW j \in DOMAIN jobs, NEW r \in DOMAIN jobs[j].results,
                       jobs[j].results[r].status = "clean"
                PROVE  Sound(Invoice(File[jobs[j].files[r]]), Tolerance(jobs[j]))
    BY DEF CleanIsChecked
  <2>. PICK name : name = jobs[j].files[r]
    OBVIOUS
  <2>. PICK v : v = jobs[j].results[r]
    OBVIOUS
  <2>1. Earned(v, name, Tolerance(jobs[j])) /\ name \in DOMAIN File
    <3>1. j \in 1 .. Len(jobs) /\ JobOk(jobs[j])
      BY DEF CheckInv, JobsInv
    <3>2. jobs[j].results \in Seq(Result) /\ jobs[j].files \in Seq(DOMAIN File) /\ ResultsOf(jobs[j].results, jobs[j].files)
      BY <3>1 DEF JobOk, Job
    <3>3. r \in 1 .. Len(jobs[j].results) /\ r \in 1 .. Len(jobs[j].files)
      BY <3>2 DEF ResultsOf
    <3>. QED
      BY <3>1, <3>2, <3>3 DEF EarnedInv, JobEarned
  <2>2. PICK x \in PostFile(name) : \E suggestions \in Suggestions(Asked(x)) :
             v = CheckOneInvoice(name, x, suggestions, Tolerance(jobs[j]))
    BY <2>1 DEF Earned
  <2>. QED
    BY <2>1, <2>2, CleanSound DEF Earned
<1>. QED
  BY <1>1, CheckInvariant, EarnedInvariant, PTL

\* VAT rounded once, on the sum of five lines at most, is not taken for a
\* mistake.
THEOREM NoiseExcusedInvariant == Spec => []NoiseExcused
<1>1. CheckInv /\ EarnedInv => NoiseExcused
  <2>. SUFFICES ASSUME CheckInv, EarnedInv, NEW j \in DOMAIN jobs, NEW r \in DOMAIN jobs[j].results,
                       jobs[j].tolerance = None, RoundedOnce(File[jobs[j].files[r]])
                PROVE  \A m \in jobs[j].results[r].mismatches : m.within
    BY DEF NoiseExcused
  <2>. PICK name : name = jobs[j].files[r]
    OBVIOUS
  <2>. PICK v : v = jobs[j].results[r]
    OBVIOUS
  <2>. PICK tolerance : tolerance = Tolerance(jobs[j])
    OBVIOUS
  <2>1. Earned(v, name, tolerance) /\ name \in DOMAIN File
    <3>1. j \in 1 .. Len(jobs) /\ JobOk(jobs[j])
      BY DEF CheckInv, JobsInv
    <3>2. jobs[j].results \in Seq(Result) /\ jobs[j].files \in Seq(DOMAIN File) /\ ResultsOf(jobs[j].results, jobs[j].files)
      BY <3>1 DEF JobOk, Job
    <3>3. r \in 1 .. Len(jobs[j].results) /\ r \in 1 .. Len(jobs[j].files)
      BY <3>2 DEF ResultsOf
    <3>. QED
      BY <3>1, <3>2, <3>3 DEF EarnedInv, JobEarned
  <2>2. PICK x \in PostFile(name) : \E suggestions \in Suggestions(Asked(x)) :
             v = CheckOneInvoice(name, x, suggestions, tolerance)
    BY <2>1 DEF Earned
  <2>3. tolerance \in Nat /\ tolerance >= 2 /\ v # None
    BY <2>1, CheckAssumption DEF Tolerance, Earned
  <2>. QED
    BY <2>1, <2>2, <2>3, RoundedOnceExcused
<1>. QED
  BY <1>1, CheckInvariant, EarnedInvariant, PTL

-----------------------------------------------------------------------------
(* What is shown and downloaded *)

\* Stored batches only get more, and stay what they are.
Kept(older, newer) ==
    /\ Len(older) <= Len(newer)
    /\ \A b \in 1 .. Len(older) :
          /\ newer[b].results = older[b].results /\ newer[b].total = older[b].total
          /\ newer[b].clean = older[b].clean /\ newer[b].flagged = older[b].flagged

\* A job that says it is stored is; a batch adds up; faults are counted.
StoredInv ==
    /\ \A j \in 1 .. Len(jobs) :
          jobs[j].phase = "stored"
              => jobs[j].batch \in 1 .. Len(batches) /\ batches[jobs[j].batch].results = jobs[j].results
    /\ \A b \in 1 .. Len(batches) : batches[b].total = batches[b].clean + batches[b].flagged
    /\ faults \in 0 .. MaxFaults

\* The page shows a batch there is, and asks for the one it remembers; with
\* nothing in flight and no error that is the one it shows.
PageInv ==
    /\ DOMAIN page = {"batchId", "shown", "rows", "error", "awaits", "asks"}
    /\ page.batchId \in 0 .. Len(batches) /\ page.shown \in 0 .. Len(batches)
    /\ page.asks \in 0 .. Len(batches) /\ page.awaits \in 0 .. Len(jobs) /\ page.error \in BOOLEAN
    /\ page.rows = IF page.shown = 0 THEN None ELSE RenderResults(batches[page.shown].results)
    /\ page.asks # 0 => page.batchId = page.asks
    /\ Free /\ ~page.error => page.batchId = page.shown

\* A report asked for is of a batch there is.
DownloadInv ==
    download # None =>
        /\ DOMAIN download = {"batch", "shown", "rows", "calm", "report"}
        /\ download.batch \in 0 .. Len(batches) /\ download.shown \in 1 .. Len(batches)
        /\ download.rows = RenderResults(batches[download.shown].results)
        /\ download.calm => download.batch = download.shown
        /\ download.report # None =>
              /\ download.batch \in 1 .. Len(batches)
              /\ download.report = Report(batches[download.batch].results)

ScreenInv == CheckInv /\ StoredInv /\ PageInv /\ DownloadInv

\* Whatever happens, there are as many jobs or more, and batches are kept.
LEMMA KeptByAll ==
    ASSUME CheckInv, [Next]_vars
    PROVE  Kept(batches, batches') /\ Len(jobs) <= Len(jobs')
<1>0. batches \in Seq(Batch) /\ jobs \in Seq(Job) /\ Len(jobs) \in Nat /\ Len(batches) \in Nat
  BY DEF CheckInv, BatchesInv, JobsInv
<1>1. CASE UNCHANGED <<jobs, batches>>
  BY <1>0, <1>1 DEF Kept
<1>2. CASE Check
  <2>1. UNCHANGED batches /\ (UNCHANGED jobs \/ \E new : jobs' = Append(jobs, new))
    BY <1>2 DEF Check
  <2>2. ASSUME NEW new, jobs' = Append(jobs, new) PROVE Len(jobs') = Len(jobs) + 1
    BY <1>0, <2>2
  <2>. QED
    BY <1>0, <2>1, <2>2 DEF Kept
<1>3. CASE Serve
  <2>1. PICK j \in DOMAIN jobs : \/ RefuseTolerance(j) /\ UNCHANGED batches
                                 \/ CheckFile(j) /\ UNCHANGED batches
                                 \/ WriteFails(j) /\ UNCHANGED batches
                                 \/ StoreBatch(j)
    BY <1>3 DEF Serve
  <2>2. \E next : jobs' = [jobs EXCEPT ![j] = next]
    BY <2>1 DEF RefuseTolerance, CheckFile, WriteFails, StoreBatch, SetJob
  <2>3. Len(jobs') = Len(jobs)
    BY <1>0, <2>2
  <2>4. UNCHANGED batches \/ \E new : batches' = Append(batches, new)
    BY <2>1 DEF StoreBatch
  <2>5. ASSUME NEW new, batches' = Append(batches, new) PROVE Kept(batches, batches')
    <3>1. Len(batches') = Len(batches) + 1 /\ \A b \in 1 .. Len(batches) : batches'[b] = batches[b]
      BY <1>0, <2>5
    <3>. QED
      BY <1>0, <3>1 DEF Kept
  <2>. QED
    BY <1>0, <2>3, <2>4, <2>5 DEF Kept
<1>4. CASE Expire
  <2>1. PICK b \in DOMAIN batches : batches' = [batches EXCEPT ![b].live = FALSE]
    BY <1>4 DEF Expire
  <2>2. batches[b] \in Batch /\ UNCHANGED jobs
    BY <1>0, <1>4, <2>1 DEF Expire
  <2>. PICK old : old = [batches[b] EXCEPT !.live = FALSE]
    OBVIOUS
  <2>3. /\ old.results = batches[b].results /\ old.total = batches[b].total
        /\ old.clean = batches[b].clean /\ old.flagged = batches[b].flagged
    BY <2>2 DEF Batch
  <2>4. /\ Len(batches') = Len(batches)
        /\ \A a \in 1 .. Len(batches) : batches'[a] = IF a = b THEN old ELSE batches[a]
    BY <1>0, <2>1
  <2>5. \A a \in 1 .. Len(batches) :
           /\ batches'[a].results = batches[a].results /\ batches'[a].total = batches[a].total
           /\ batches'[a].clean = batches[a].clean /\ batches'[a].flagged = batches[a].flagged
    BY <2>3, <2>4
  <2>6. Len(batches) <= Len(batches') /\ Len(jobs) <= Len(jobs')
    BY <1>0, <2>2, <2>4
  <2>. QED
    BY <2>5, <2>6 DEF Kept
<1>. QED
  BY <1>1, <1>2, <1>3, <1>4 DEF Next, vars, TakeAnswer, TakeSummary, Reset, Download, TakeReport

\* Faults are bounded.
LEMMA FaultsCounted ==
    ASSUME faults \in 0 .. MaxFaults, [Next]_vars
    PROVE  faults' \in 0 .. MaxFaults
<1>1. UNCHANGED faults \/ Fault
  BY DEF Next, vars, Check, TakeAnswer, TakeSummary, Reset, Download, TakeReport, Serve, Expire,
         RefuseTolerance, CheckFile, WriteFails, StoreBatch
<1>. QED
  BY <1>1, CheckAssumption DEF Fault

\* One job moves that is not stored afterwards.
LEMMA SetJobStored ==
    ASSUME CheckInv, StoredInv, NEW j \in 1 .. Len(jobs), NEW next, SetJob(j, next), UNCHANGED batches,
           next.phase # "stored", faults' \in 0 .. MaxFaults
    PROVE  StoredInv'
<1>1. Len(jobs') = Len(jobs) /\ \A k \in 1 .. Len(jobs) : jobs'[k] = IF k = j THEN next ELSE jobs[k]
  BY DEF SetJob, CheckInv, JobsInv
<1>. QED
  BY <1>1 DEF StoredInv

\* Jobs that say they are stored are.
LEMMA StoredKept == ASSUME CheckInv, StoredInv, [Next]_vars PROVE StoredInv'
<1>0. /\ batches \in Seq(Batch) /\ jobs \in Seq(Job) /\ Len(jobs) \in Nat /\ Len(batches) \in Nat
      /\ faults' \in 0 .. MaxFaults /\ Kept(batches, batches')
  BY FaultsCounted, KeptByAll DEF CheckInv, BatchesInv, JobsInv, StoredInv
<1>1. CASE UNCHANGED <<jobs, batches>>
  BY <1>0, <1>1 DEF StoredInv
<1>2. CASE Check
  <2>1. ASSUME NEW new, jobs' = Append(jobs, new), new.phase = "running", UNCHANGED batches PROVE StoredInv'
    <3>1. Len(jobs') = Len(jobs) + 1 /\ \A k \in 1 .. Len(jobs) + 1 : jobs'[k] = IF k = Len(jobs) + 1 THEN new ELSE jobs[k]
      BY <1>0, <2>1
    <3>. QED
      BY <1>0, <2>1, <3>1 DEF StoredInv
  <2>2. ASSUME NEW s \in Submission,
               jobs' = Append(jobs, [submitted |-> s.files, files |-> s.files, tolerance |-> s.tolerance,
                                     results |-> << >>, phase |-> "running", batch |-> 0])
        PROVE  \E new : jobs' = Append(jobs, new) /\ new.phase = "running"
    BY <2>2
  <2>3. UNCHANGED batches /\ (UNCHANGED jobs \/ \E new : jobs' = Append(jobs, new) /\ new.phase = "running")
    BY <1>2, <2>2 DEF Check
  <2>. QED
    BY <1>1, <2>1, <2>3
<1>3. CASE Serve
  <2>1. PICK j \in DOMAIN jobs : \/ RefuseTolerance(j) /\ UNCHANGED batches
                                 \/ CheckFile(j) /\ UNCHANGED batches
                                 \/ WriteFails(j) /\ UNCHANGED batches
                                 \/ StoreBatch(j)
    BY <1>3 DEF Serve
  <2>. PICK job : job = jobs[j]
    OBVIOUS
  <2>2. j \in 1 .. Len(jobs) /\ job \in Job
    BY <1>0
  <2>3. CASE RefuseTolerance(j) /\ UNCHANGED batches
    <3>1. SetJob(j, [job EXCEPT !.phase = "failed"]) /\ [job EXCEPT !.phase = "failed"].phase # "stored"
      BY <2>2, <2>3 DEF RefuseTolerance, Job
    <3>. QED
      BY <1>0, <2>2, <2>3, <3>1, SetJobStored
  <2>4. ASSUME NEW result, job.phase = "running" PROVE After(job, result).phase # "stored"
    BY <2>2, <2>4 DEF After, Job
  <2>5. CASE (CheckFile(j) \/ WriteFails(j)) /\ UNCHANGED batches
    <3>1. job.phase = "running" /\ \E result : SetJob(j, After(job, result))
      BY <2>5 DEF CheckFile, WriteFails
    <3>. QED
      BY <1>0, <2>2, <2>4, <2>5, <3>1, SetJobStored
  <2>6. CASE StoreBatch(j)
    <3>1. CASE Fault /\ SetJob(j, [job EXCEPT !.phase = "failed"]) /\ UNCHANGED batches
      <4>1. [job EXCEPT !.phase = "failed"].phase # "stored"
        BY <2>2 DEF Job
      <4>. QED
        BY <1>0, <2>2, <3>1, <4>1, SetJobStored
    <3>2. CASE /\ batches' = Append(batches, [results |-> job.results, total |-> Len(job.results),
                                             clean |-> Clean(job.results),
                                             flagged |-> Len(job.results) - Clean(job.results),
                                             of |-> job.submitted, live |-> TRUE])
               /\ SetJob(j, [job EXCEPT !.phase = "stored", !.batch = Len(batches) + 1])
      <4>. PICK next : next = [job EXCEPT !.phase = "stored", !.batch = Len(batches) + 1]
        OBVIOUS
      <4>. PICK new : new = [results |-> job.results, total |-> Len(job.results),
                             clean |-> Clean(job.results),
                             flagged |-> Len(job.results) - Clean(job.results),
                             of |-> job.submitted, live |-> TRUE]
        OBVIOUS
      <4>1. next.batch = Len(batches) + 1 /\ next.results = job.results
        BY <2>2 DEF Job
      <4>2. new.results = job.results /\ new.total = new.clean + new.flagged
        <5>1. job.results \in Seq(Result)
          BY <2>2 DEF Job
        <5>2. Clean(job.results) \in Nat /\ Len(job.results) \in Nat
          BY <5>1, CleanOk
        <5>. QED
          BY <5>2
      <4>3. /\ Len(jobs') = Len(jobs)
            /\ \A k \in 1 .. Len(jobs) : jobs'[k] = IF k = j THEN next ELSE jobs[k]
        BY <1>0, <2>2, <3>2 DEF SetJob
      <4>4. /\ Len(batches') = Len(batches) + 1
            /\ \A b \in 1 .. Len(batches) + 1 : batches'[b] = IF b = Len(batches) + 1 THEN new ELSE batches[b]
        BY <1>0, <3>2
      <4>5. \A k \in 1 .. Len(jobs') : jobs'[k].phase = "stored" =>
                jobs'[k].batch \in 1 .. Len(batches') /\ batches'[jobs'[k].batch].results = jobs'[k].results
        <5>1. \A k \in 1 .. Len(jobs) : jobs[k].phase = "stored" =>
                  jobs[k].batch \in 1 .. Len(batches) /\ batches[jobs[k].batch].results = jobs[k].results
          BY DEF StoredInv
        <5>. SUFFICES ASSUME NEW k \in 1 .. Len(jobs), jobs'[k].phase = "stored"
                      PROVE  /\ jobs'[k].batch \in 1 .. Len(batches')
                             /\ batches'[jobs'[k].batch].results = jobs'[k].results
          BY <4>3
        <5>2. CASE k = j
          <6>1. jobs'[k].batch = Len(batches) + 1 /\ jobs'[k].results = job.results
            BY <4>1, <4>3, <5>2
          <6>2. Len(batches) + 1 \in 1 .. Len(batches') /\ batches'[Len(batches) + 1].results = job.results
            BY <1>0, <4>2, <4>4
          <6>. QED
            BY <6>1, <6>2
        <5>3. CASE k # j
          <6>1. jobs'[k] = jobs[k]
            BY <4>3, <5>3
          <6>2. jobs[k].batch \in 1 .. Len(batches) /\ batches[jobs[k].batch].results = jobs[k].results
            BY <5>1, <6>1
          <6>3. jobs[k].batch \in 1 .. Len(batches') /\ batches'[jobs[k].batch] = batches[jobs[k].batch]
            BY <1>0, <4>4, <6>2
          <6>. QED
            BY <6>1, <6>2, <6>3
        <5>. QED
          BY <5>2, <5>3
      <4>6. \A b \in 1 .. Len(batches') : batches'[b].total = batches'[b].clean + batches'[b].flagged
        <5>1. \A b \in 1 .. Len(batches) : batches[b].total = batches[b].clean + batches[b].flagged
          BY DEF StoredInv
        <5>. SUFFICES ASSUME NEW b \in 1 .. Len(batches) + 1
                      PROVE  batches'[b].total = batches'[b].clean + batches'[b].flagged
          BY <4>4
        <5>2. CASE b = Len(batches) + 1
          BY <1>0, <4>2, <4>4, <5>2
        <5>3. CASE b # Len(batches) + 1
          <6>1. b \in 1 .. Len(batches) /\ batches'[b] = batches[b]
            BY <1>0, <4>4, <5>3
          <6>. QED
            BY <5>1, <6>1
        <5>. QED
          BY <5>2, <5>3
      <4>. QED
        BY <1>0, <4>5, <4>6 DEF StoredInv
    <3>. QED
      BY <2>6, <3>1, <3>2 DEF StoreBatch
  <2>. QED
    BY <2>1, <2>3, <2>5, <2>6
<1>4. CASE Expire
  <2>1. UNCHANGED jobs /\ Len(batches') = Len(batches)
    BY <1>0, <1>4 DEF Expire
  <2>. QED
    BY <1>0, <2>1 DEF StoredInv, Kept
<1>. QED
  BY <1>1, <1>2, <1>3, <1>4 DEF Next, vars, TakeAnswer, TakeSummary, Reset, Download, TakeReport

\* The page while nothing of it moves.
LEMMA PageStays ==
    ASSUME ScreenInv, UNCHANGED page, Kept(batches, batches'), Len(jobs) <= Len(jobs'),
           Len(jobs) \in Nat, Len(jobs') \in Nat, Len(batches) \in Nat, Len(batches') \in Nat
    PROVE  PageInv'
<1>. USE DEF ScreenInv, PageInv
<1>1. page.shown # 0 => batches'[page.shown].results = batches[page.shown].results
  BY DEF Kept
<1>2. page.rows = IF page.shown = 0 THEN None ELSE RenderResults(batches'[page.shown].results)
  BY <1>1
<1>3. Len(batches) <= Len(batches')
  BY DEF Kept
<1>. QED
  BY <1>2, <1>3 DEF Free

\* Every step keeps the page in order.
LEMMA PageKept == ASSUME ScreenInv, [Next]_vars PROVE PageInv'
<1>0. /\ CheckInv /\ StoredInv /\ PageInv /\ Kept(batches, batches') /\ Len(jobs) <= Len(jobs')
      /\ Len(jobs) \in Nat /\ Len(jobs') \in Nat /\ Len(batches) \in Nat /\ Len(batches') \in Nat
  <2>1. CheckInv'
    BY CheckKept DEF ScreenInv
  <2>. QED
    BY <2>1, KeptByAll DEF ScreenInv, CheckInv, JobsInv, BatchesInv
<1>1. CASE UNCHANGED page
  BY <1>0, <1>1, PageStays
<1>2. CASE Check
  <2>. USE DEF PageInv
  <2>1. UNCHANGED batches
    BY <1>2 DEF Check
  <2>2. CASE page' = [page EXCEPT !.error = TRUE]
    BY <1>0, <2>1, <2>2 DEF Free
  <2>3. CASE (\E new : jobs' = Append(jobs, new)) /\ page' = [page EXCEPT !.error = FALSE, !.awaits = Len(jobs) + 1]
    <3>1. Len(jobs') = Len(jobs) + 1
      BY <1>0, <2>3 DEF CheckInv, JobsInv
    <3>2. page'.awaits = Len(jobs) + 1 /\ page'.awaits # 0
      BY <1>0, <2>3
    <3>. QED
      BY <1>0, <2>1, <2>3, <3>1, <3>2 DEF Free
  <2>. QED
    BY <1>2, <2>2, <2>3 DEF Check
<1>3. CASE TakeAnswer
  <2>. USE DEF PageInv
  <2>1. UNCHANGED <<jobs, batches>> /\ page.awaits # 0 /\ page.awaits \in 1 .. Len(jobs)
    BY <1>0, <1>3 DEF TakeAnswer
  <2>2. CASE page' = [page EXCEPT !.awaits = 0, !.error = TRUE]
    BY <1>0, <2>1, <2>2 DEF Free
  <2>3. CASE /\ jobs[page.awaits].phase = "stored"
             /\ page' = [page EXCEPT !.awaits = 0, !.batchId = jobs[page.awaits].batch,
                                     !.asks = jobs[page.awaits].batch]
    <3>1. jobs[page.awaits].batch \in 1 .. Len(batches)
      BY <1>0, <2>1, <2>3 DEF StoredInv
    <3>. QED
      BY <1>0, <2>1, <2>3, <3>1 DEF Free
  <2>. QED
    BY <1>3, <2>2, <2>3 DEF TakeAnswer
<1>4. CASE TakeSummary
  <2>. USE DEF PageInv
  <2>1. UNCHANGED <<jobs, batches>> /\ page.asks # 0 /\ page.asks \in 1 .. Len(batches)
    BY <1>0, <1>4 DEF TakeSummary
  <2>2. CASE page' = [page EXCEPT !.asks = 0, !.error = TRUE]
    BY <1>0, <2>1, <2>2 DEF Free
  <2>3. CASE page' = [page EXCEPT !.asks = 0, !.shown = page.asks,
                                  !.rows = RenderResults(batches[page.asks].results)]
    BY <1>0, <2>1, <2>3 DEF Free
  <2>. QED
    BY <1>4, <2>2, <2>3 DEF TakeSummary
<1>5. CASE Reset
  BY <1>0, <1>5 DEF Reset, PageInv, Free
<1>. QED
  BY <1>1, <1>2, <1>3, <1>4, <1>5 DEF Next, vars, Download, TakeReport, Serve, Expire

\* Every step keeps the report that of a batch there is.
LEMMA DownloadKept == ASSUME ScreenInv, [Next]_vars PROVE DownloadInv'
<1>0. /\ PageInv /\ DownloadInv /\ Kept(batches, batches')
      /\ Len(batches) \in Nat /\ Len(batches') \in Nat /\ Len(batches) <= Len(batches')
  <2>1. CheckInv'
    BY CheckKept DEF ScreenInv
  <2>2. Kept(batches, batches')
    BY KeptByAll DEF ScreenInv
  <2>. QED
    BY <2>1, <2>2 DEF ScreenInv, CheckInv, BatchesInv, Kept
<1>1. CASE UNCHANGED download
  <2>. SUFFICES ASSUME download # None PROVE DownloadInv'
    BY <1>1 DEF DownloadInv
  <2>1. /\ download.shown \in 1 .. Len(batches)
        /\ batches'[download.shown].results = batches[download.shown].results
    BY <1>0 DEF DownloadInv, Kept
  <2>2. download.report # None =>
            /\ download.batch \in 1 .. Len(batches)
            /\ batches'[download.batch].results = batches[download.batch].results
    BY <1>0 DEF DownloadInv, Kept
  <2>. QED
    BY <1>0, <1>1, <2>1, <2>2 DEF DownloadInv
<1>2. CASE Download
  <2>1. /\ page.shown # 0 /\ UNCHANGED batches
        /\ download' = [batch |-> page.batchId, shown |-> page.shown, rows |-> page.rows,
                        calm |-> Free /\ ~page.error, report |-> None]
    BY <1>2 DEF Download
  <2>2. download'.calm => Free /\ ~page.error
    BY <2>1
  <2>. QED
    BY <1>0, <2>1, <2>2 DEF DownloadInv, PageInv
<1>3. CASE TakeReport
  <2>1. download # None /\ UNCHANGED batches
    BY <1>3 DEF TakeReport
  <2>2. CASE download' = None
    BY <2>2 DEF DownloadInv
  <2>3. CASE /\ Found(download.batch)
             /\ download' = [download EXCEPT !.report = Report(batches[download.batch].results)]
    <3>1. download.batch \in 1 .. Len(batches)
      BY <1>0, <2>1, <2>3 DEF Found, DownloadInv
    <3>. QED
      BY <1>0, <2>1, <2>3, <3>1 DEF DownloadInv
  <2>. QED
    BY <1>3, <2>2, <2>3 DEF TakeReport
<1>. QED
  BY <1>1, <1>2, <1>3 DEF Next, vars, Check, TakeAnswer, TakeSummary, Reset, Serve, Expire

\* What is stored, shown and downloaded is of jobs and batches there are.
THEOREM ScreenInvariant == Spec => []ScreenInv
<1>1. Init => ScreenInv
  <2>. SUFFICES ASSUME Init PROVE ScreenInv
    OBVIOUS
  <2>1. CheckInv
    BY DEF Init, CheckInv, JobsInv, BatchesInv
  <2>2. StoredInv /\ DownloadInv
    BY CheckAssumption DEF Init, StoredInv, DownloadInv
  <2>3. PageInv
    BY DEF Init, PageInv
  <2>. QED
    BY <2>1, <2>2, <2>3 DEF ScreenInv
<1>2. ScreenInv /\ [Next]_vars => ScreenInv'
  BY CheckKept, StoredKept, PageKept, DownloadKept DEF ScreenInv
<1>. QED
  BY <1>1, <1>2, PTL DEF Spec

\* The page shows the tables of a batch there is, a stored job has the results
\* its batch has, and clean and flagged add up to all.
THEOREM InvoiceTypes == Spec => []TypeOK
<1>1. ScreenInv => TypeOK
  <2>. SUFFICES ASSUME ScreenInv PROVE TypeOK
    OBVIOUS
  <2>1. DOMAIN jobs = 1 .. Len(jobs) /\ DOMAIN batches = 1 .. Len(batches)
    BY DEF ScreenInv, CheckInv, JobsInv, BatchesInv
  <2>2. ASSUME NEW j \in DOMAIN jobs
        PROVE  /\ jobs[j].phase \in {"running", "stored", "failed"}
               /\ Len(jobs[j].results) <= Len(jobs[j].files)
               /\ jobs[j].phase = "stored" => batches[jobs[j].batch].results = jobs[j].results
    <3>1. JobOk(jobs[j])
      BY <2>1 DEF ScreenInv, CheckInv, JobsInv
    <3>. QED
      BY <2>1, <3>1 DEF JobOk, Job, ResultsOf, ScreenInv, StoredInv
  <2>. QED
    BY <2>1, <2>2 DEF TypeOK, ScreenInv, PageInv, StoredInv
<1>. QED
  BY <1>1, ScreenInvariant, PTL

\* The tables of the page and the report agree on any results.
LEMMA TablesAgree ==
    ASSUME NEW results \in Seq(Result), NEW status \in {"flagged", "clean"},
           NEW rows, rows = Summary(results), NEW places, places = With(status, results)
    PROVE  /\ With(status, rows) = places
           /\ \A k \in DOMAIN places :
                 /\ places[k] \in 1 .. Len(results) /\ results[places[k]].status = status
                 /\ rows[places[k]].name = results[places[k]].name
                 /\ rows[places[k]].reason = SummaryReason(results[places[k]])
           /\ \A i \in 1 .. Len(results) : results[i].status = status => \E k \in DOMAIN places : places[k] = i
<1>1. DOMAIN results = 1 .. Len(results) /\ DOMAIN rows = 1 .. Len(results)
  BY DEF Summary
<1>2. \A i \in 1 .. Len(results) : /\ rows[i].name = results[i].name /\ rows[i].status = results[i].status
                                   /\ rows[i].reason = SummaryReason(results[i])
  BY <1>1 DEF Summary
<1>t. PICK test : test = [i \in 1 .. Len(results) |-> results[i].status = status]
  OBVIOUS
<1>3. test = [i \in DOMAIN results |-> results[i].status = status]
  BY <1>1, <1>t
<1>4. test = [i \in DOMAIN rows |-> rows[i].status = status]
  BY <1>1, <1>2, <1>t
<1>5. With(status, rows) = Places(test) /\ places = Places(test)
  BY <1>3, <1>4 DEF With
<1>6. test \in Seq(BOOLEAN) /\ Len(test) = Len(results)
  <2>1. test = [i \in 1 .. Len(results) |-> test[i]] /\ \A i \in 1 .. Len(results) : test[i] \in BOOLEAN
    BY <1>t
  <2>2. Len(results) \in Nat
    OBVIOUS
  <2>. QED
    BY <2>1, <2>2, IsSequence
<1>7. /\ places \in Seq(1 .. Len(results))
      /\ {places[k] : k \in DOMAIN places} = {i \in 1 .. Len(results) : test[i]}
  BY <1>5, <1>6, PlacesFound
<1>8. ASSUME NEW k \in DOMAIN places
      PROVE  places[k] \in 1 .. Len(results) /\ results[places[k]].status = status
  <2>1. places[k] \in {i \in 1 .. Len(results) : test[i]}
    BY <1>7
  <2>. QED
    BY <1>t, <2>1
<1>9. ASSUME NEW i \in 1 .. Len(results), results[i].status = status
      PROVE  \E k \in DOMAIN places : places[k] = i
  <2>1. test[i]
    BY <1>t, <1>9
  <2>2. i \in {places[k] : k \in DOMAIN places}
    BY <1>7, <2>1
  <2>. QED
    BY <2>2
<1>. QED
  BY <1>2, <1>5, <1>8, <1>9

\* The page and the service put the same reasons together.
LEMMA ReasonsAgree ==
    ASSUME NEW r \in Result
    PROVE  /\ r.status = "flagged" => SummaryReason(r) = PageReasons(r)
<1>1. FlaggedReasons(r) = PageReasons(r)
  BY DEF FlaggedReasons, PageReasons, Errors
<1>. QED
  BY <1>1 DEF SummaryReason

\* A report downloaded when nothing is in flight and no error is told has the
\* verdicts and the reasons on the screen, and a file for each flagged invoice.
THEOREM DownloadMatchesScreenInvariant == Spec => []DownloadMatchesScreen
<1>1. ScreenInv => DownloadMatchesScreen
  <2>. DEFINE rows == download.report.summary
              flagged == With("flagged", rows)
              clean == With("clean", rows)
  <2>. SUFFICES ASSUME ScreenInv, download # None, download.calm, download.report # None
                PROVE  /\ download.rows.flagged =
                             [k \in DOMAIN flagged |-> <<rows[flagged[k]].name, rows[flagged[k]].reason>>]
                       /\ download.rows.clean = [k \in DOMAIN clean |-> rows[clean[k]].name]
                       /\ {d.name : d \in download.report.details}
                             = {rows[flagged[k]].name : k \in DOMAIN flagged}
    <3>1. ASSUME ScreenInv, download # None, download.calm PROVE download.batch = download.shown
      BY <3>1 DEF ScreenInv, DownloadInv
    <3>. QED
      BY <3>1, Zenon DEF DownloadMatchesScreen
  <2>. PICK results : results = batches[download.shown].results
    OBVIOUS
  <2>1. /\ download.shown \in 1 .. Len(batches) /\ download.rows = RenderResults(results)
        /\ download.report = Report(results)
    BY DEF ScreenInv, DownloadInv
  <2>2. results \in Seq(Result)
    BY <2>1 DEF ScreenInv, CheckInv, BatchesInv, BatchOk, Batch
  <2>r. rows = Summary(results)
    BY <2>1 DEF Report
  <2>. HIDE DEF rows
  <2>s. flagged = With("flagged", results) /\ clean = With("clean", results)
    BY <2>2, <2>r, TablesAgree
  <2>. HIDE DEF flagged, clean
  <2>d. download.report.details = {Detail(results[i]) : i \in {j \in DOMAIN results : results[j].status = "flagged"}}
    BY <2>1 DEF Report
  <2>3. /\ download.rows.flagged =
               [k \in DOMAIN flagged |-> <<results[flagged[k]].name, PageReasons(results[flagged[k]])>>]
        /\ download.rows.clean = [k \in DOMAIN clean |-> results[clean[k]].name]
    <3>. PICK first : first = [k \in DOMAIN flagged |-> <<results[flagged[k]].name, PageReasons(results[flagged[k]])>>]
      OBVIOUS
    <3>. PICK second : second = [k \in DOMAIN clean |-> results[clean[k]].name]
      OBVIOUS
    <3>1. download.rows = [flagged |-> first, clean |-> second]
      BY <2>1, <2>s, Zenon DEF RenderResults
    <3>2. download.rows.flagged = first /\ download.rows.clean = second
      BY <3>1
    <3>. QED
      BY <3>2, Zenon
  <2>f. /\ \A k \in DOMAIN flagged :
              /\ flagged[k] \in 1 .. Len(results) /\ results[flagged[k]].status = "flagged"
              /\ rows[flagged[k]].name = results[flagged[k]].name
              /\ rows[flagged[k]].reason = SummaryReason(results[flagged[k]])
        /\ \A i \in 1 .. Len(results) : results[i].status = "flagged" => \E k \in DOMAIN flagged : flagged[k] = i
    BY <2>2, <2>r, <2>s, TablesAgree
  <2>c. \A k \in DOMAIN clean : rows[clean[k]].name = results[clean[k]].name
    BY <2>2, <2>r, <2>s, TablesAgree
  <2>4. \A k \in DOMAIN flagged : rows[flagged[k]].reason = PageReasons(results[flagged[k]])
    BY <2>2, <2>f, ReasonsAgree
  <2>5. download.rows.flagged = [k \in DOMAIN flagged |-> <<rows[flagged[k]].name, rows[flagged[k]].reason>>]
    <3>1. \A k \in DOMAIN flagged : <<results[flagged[k]].name, PageReasons(results[flagged[k]])>>
                                        = <<rows[flagged[k]].name, rows[flagged[k]].reason>>
      BY <2>f, <2>4
    <3>2. [k \in DOMAIN flagged |-> <<results[flagged[k]].name, PageReasons(results[flagged[k]])>>]
              = [k \in DOMAIN flagged |-> <<rows[flagged[k]].name, rows[flagged[k]].reason>>]
      BY <3>1, Zenon
    <3>. QED
      BY <2>3, <3>2
  <2>6. download.rows.clean = [k \in DOMAIN clean |-> rows[clean[k]].name]
    BY <2>3, <2>c
  <2>7. {d.name : d \in download.report.details} = {rows[flagged[k]].name : k \in DOMAIN flagged}
    <3>1. \A i \in DOMAIN results : Detail(results[i]).name = results[i].name
      BY DEF Detail
    <3>2. DOMAIN results = 1 .. Len(results)
      BY <2>2
    <3>3. ASSUME NEW d \in download.report.details
          PROVE  \E k \in DOMAIN flagged : d.name = rows[flagged[k]].name
      <4>1. PICK i \in 1 .. Len(results) : results[i].status = "flagged" /\ d = Detail(results[i])
        BY <2>d, <3>2
      <4>2. PICK k \in DOMAIN flagged : flagged[k] = i
        BY <2>f, <4>1
      <4>. QED
        BY <2>f, <3>1, <3>2, <4>1, <4>2
    <3>4. ASSUME NEW k \in DOMAIN flagged
          PROVE  \E d \in download.report.details : d.name = rows[flagged[k]].name
      <4>1. Detail(results[flagged[k]]) \in download.report.details
        BY <2>d, <2>f, <3>2
      <4>. QED
        BY <2>f, <3>1, <3>2, <4>1
    <3>. QED
      BY <3>3, <3>4
  <2>. QED
    BY <2>5, <2>6, <2>7, Zenon
<1>. QED
  BY <1>1, ScreenInvariant, PTL
=============================================================================
