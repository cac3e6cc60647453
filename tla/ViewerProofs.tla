---------------------------- MODULE ViewerProofs ----------------------------
(***************************************************************************)
(* The seed viewer, for any rows, filters, sizes of pages and numbers of   *)
(* workers: IInv is an invariant of Viewer.  What the list shows is argued *)
(* from what a SELECT gives on a table to which rows are added: a row that *)
(* was on one of the first pages can only move to a later one.             *)
(***************************************************************************)
EXTENDS Viewer, Numbers, TLAPS

(***************************************************************************)
(* What a SELECT gives                                                     *)
(***************************************************************************)

\* One more row of s is considered.
Considered(t, s, g, n) ==
    IF n = 0 THEN <<>>
    ELSE IF t[s[n]] = "in" THEN Append(g[n - 1], s[n]) ELSE g[n - 1]

\* The rows in the table are those in the table among the rows before, and the
\* last one if it is in the table.
LEMMA SelectedDef ==
    ASSUME NEW R, NEW t, NEW s \in Seq(R)
    PROVE  /\ Grid!Selected(t, s)[0] = <<>>
           /\ \A n \in 1 .. Len(s) :
                 Grid!Selected(t, s)[n] = IF t[s[n]] = "in" THEN Append(Grid!Selected(t, s)[n - 1], s[n])
                                                            ELSE Grid!Selected(t, s)[n - 1]
<1>. DEFINE Filtered(m, g) == g = [n \in 0 .. m |-> Considered(t, s, g, n)]
            S == {m \in 0 .. Len(s) : \E g : Filtered(m, g)}
<1>0. Len(s) \in Nat  OBVIOUS
<1>1. 0 \in S
  <2>1. Filtered(0, [n \in 0 .. 0 |-> <<>>])  BY DEF Considered
  <2>. HIDE DEF Filtered
  <2>. QED  BY <1>0, <2>1
<1>2. ASSUME NEW m \in 0 .. Len(s) - 1, m \in S PROVE m + 1 \in S
  <2>1. PICK g : Filtered(m, g)  BY <1>2
  <2>. DEFINE h == [n \in 0 .. m + 1 |-> Considered(t, s, g, n)]
  <2>2. \A n \in 0 .. m : h[n] = g[n]
    <3>1. SUFFICES ASSUME NEW n \in 0 .. m PROVE h[n] = g[n]  OBVIOUS
    <3>2. n \in 0 .. m + 1  BY <1>0
    <3>3. h[n] = Considered(t, s, g, n)  BY <3>2
    <3>. QED  BY <2>1, <3>3
  <2>3. \A n \in 0 .. m + 1 : Considered(t, s, h, n) = Considered(t, s, g, n)
    <3>1. SUFFICES ASSUME NEW n \in 0 .. m + 1 PROVE Considered(t, s, h, n) = Considered(t, s, g, n)
      OBVIOUS
    <3>2. n # 0 => n - 1 \in 0 .. m  BY <1>0
    <3>. HIDE DEF h
    <3>. QED  BY <2>2, <3>2 DEF Considered
  <2>4. Filtered(m + 1, h)
    <3>1. h = [n \in 0 .. m + 1 |-> Considered(t, s, g, n)]  OBVIOUS
    <3>. HIDE DEF h
    <3>. QED  BY <2>3, <3>1
  <2>5. m + 1 \in 0 .. Len(s)  BY <1>0
  <2>. HIDE DEF Filtered, h
  <2>. QED  BY <2>4, <2>5
<1>3. Len(s) \in S
  <2>. HIDE DEF S
  <2>1. 0 .. Len(s) \subseteq S  BY <1>0, <1>1, <1>2, SetInduction
  <2>. QED  BY <1>0, <2>1
<1>4. \E g : Filtered(Len(s), g)  BY <1>3
<1>5. Filtered(Len(s), Grid!Selected(t, s))  BY <1>4 DEF Grid!Selected, Considered
<1>. DEFINE f == Grid!Selected(t, s)
<1>6. \A n \in 0 .. Len(s) : f[n] = Considered(t, s, f, n)  BY <1>5
<1>. HIDE DEF f
<1>. QED  BY <1>0, <1>6 DEF Considered, f
\* A sequence to which something is appended.
LEMMA AppendFacts ==
    ASSUME NEW R, NEW s \in Seq(R), NEW e \in R
    PROVE  /\ Append(s, e) \in Seq(R) /\ Len(Append(s, e)) = Len(s) + 1 /\ Len(s) \in Nat
           /\ \A n \in 1 .. Len(s) : Append(s, e)[n] = s[n]
           /\ Append(s, e)[Len(s) + 1] = e
OBVIOUS

\* What is in a sequence.
LEMMA InSeq ==
    ASSUME NEW R, NEW s \in Seq(R), NEW e
    PROVE  e \in Grid!ToSet(s) <=> \E k \in 1 .. Len(s) : s[k] = e
<1>1. DOMAIN s = 1 .. Len(s)  OBVIOUS
<1>. QED  BY <1>1, Zenon DEF Grid!ToSet

\* A SELECT gives rows of the table, and all that are in it.
LEMMA SelectedType ==
    ASSUME NEW R, NEW t, NEW s \in Seq(R)
    PROVE  /\ \A n \in 0 .. Len(s) : Grid!Selected(t, s)[n] \in Seq(R)
           /\ Grid!ToSet(Grid!Selected(t, s)[Len(s)]) = {e \in Grid!ToSet(s) : t[e] = "in"}
<1>. DEFINE f == Grid!Selected(t, s)
            P(n) == /\ f[n] \in Seq(R)
                    /\ \A k \in 1 .. Len(f[n]) : \E i \in 1 .. n : f[n][k] = s[i] /\ t[s[i]] = "in"
                    /\ \A i \in 1 .. n : t[s[i]] = "in" => \E k \in 1 .. Len(f[n]) : f[n][k] = s[i]
            S == {n \in 0 .. Len(s) : P(n)}
<1>0. /\ Len(s) \in Nat
      /\ f[0] = <<>>
      /\ \A n \in 1 .. Len(s) : f[n] = IF t[s[n]] = "in" THEN Append(f[n - 1], s[n]) ELSE f[n - 1]
  BY SelectedDef
<1>. HIDE DEF f
<1>1. 0 \in S
  <2>1. f[0] \in Seq(R) /\ Len(f[0]) = 0  BY <1>0
  <2>2. 1 .. 0 = {} /\ 1 .. Len(f[0]) = {} /\ 0 \in 0 .. Len(s)  BY <1>0, <2>1
  <2>3. P(0)  BY <2>1, <2>2
  <2>. HIDE DEF P
  <2>. QED  BY <2>2, <2>3
<1>2. ASSUME NEW m \in 0 .. Len(s) - 1, m \in S PROVE m + 1 \in S
  <2>0. m + 1 \in 1 .. Len(s) /\ m \in Nat /\ (m + 1) - 1 = m /\ m + 1 \in 0 .. Len(s)  BY <1>0
  <2>. DEFINE x == s[m + 1]
  <2>1. x \in R  BY <2>0
  <2>2. P(m)  BY <1>2
  <2>3. f[m + 1] = IF t[x] = "in" THEN Append(f[m], x) ELSE f[m]  BY <1>0, <2>0
  <2>. HIDE DEF x
  <2>4. CASE t[x] = "in"
    <3>1. f[m + 1] = Append(f[m], x) /\ f[m] \in Seq(R)  BY <2>2, <2>3, <2>4
    <3>2. PICK l \in Nat : l = Len(f[m])  BY <3>1
    <3>3. /\ f[m + 1] \in Seq(R) /\ Len(f[m + 1]) = l + 1
          /\ \A k \in 1 .. l : f[m + 1][k] = f[m][k]
          /\ f[m + 1][l + 1] = x
      BY <2>1, <3>1, <3>2, AppendFacts
    <3>4. ASSUME NEW k \in 1 .. l + 1 PROVE \E i \in 1 .. m + 1 : f[m + 1][k] = s[i] /\ t[s[i]] = "in"
      <4>1. CASE k = l + 1
        <5>1. m + 1 \in 1 .. m + 1  BY <2>0
        <5>. QED  BY <2>4, <3>3, <4>1, <5>1 DEF x
      <4>2. CASE k # l + 1
        <5>1. k \in 1 .. l  BY <3>2, <4>2
        <5>2. PICK i \in 1 .. m : f[m][k] = s[i] /\ t[s[i]] = "in"  BY <2>2, <3>2, <5>1
        <5>3. i \in 1 .. m + 1  BY <2>0
        <5>. QED  BY <3>3, <5>1, <5>2, <5>3
      <4>. QED  BY <4>1, <4>2
    <3>5. ASSUME NEW i \in 1 .. m + 1, t[s[i]] = "in" PROVE \E k \in 1 .. l + 1 : f[m + 1][k] = s[i]
      <4>1. CASE i = m + 1
        <5>1. l + 1 \in 1 .. l + 1  BY <3>2
        <5>. QED  BY <3>3, <4>1, <5>1 DEF x
      <4>2. CASE i # m + 1
        <5>1. i \in 1 .. m  BY <2>0, <4>2
        <5>2. PICK k \in 1 .. l : f[m][k] = s[i]  BY <2>2, <3>2, <3>5, <5>1
        <5>3. k \in 1 .. l + 1  BY <3>2
        <5>. QED  BY <3>3, <5>2, <5>3
      <4>. QED  BY <4>1, <4>2
    <3>6. P(m + 1)  BY <3>3, <3>4, <3>5
    <3>. QED  BY <2>0, <3>6
  <2>5. CASE t[x] # "in"
    <3>1. f[m + 1] = f[m]  BY <2>3, <2>5
    <3>2. \A i \in 1 .. m + 1 : t[s[i]] = "in" => i \in 1 .. m
      <4>1. \A i \in 1 .. m + 1 : i = m + 1 \/ i \in 1 .. m  BY <2>0
      <4>. QED  BY <2>5, <4>1 DEF x
    <3>3. \A i \in 1 .. m : i \in 1 .. m + 1  BY <2>0
    <3>4. P(m + 1)
      <4>1. \A k \in 1 .. Len(f[m]) : \E i \in 1 .. m + 1 : f[m][k] = s[i] /\ t[s[i]] = "in"
        BY <2>2, <3>3
      <4>2. \A i \in 1 .. m + 1 : t[s[i]] = "in" => \E k \in 1 .. Len(f[m]) : f[m][k] = s[i]
        BY <2>2, <3>2
      <4>. QED  BY <2>2, <3>1, <4>1, <4>2
    <3>. QED  BY <2>0, <3>4
  <2>. QED  BY <2>4, <2>5
<1>3. 0 .. Len(s) \subseteq S
  <2>. HIDE DEF S
  <2>. QED  BY <1>0, <1>1, <1>2, SetInduction
<1>4. \A n \in 0 .. Len(s) : P(n)  BY <1>3
<1>. DEFINE n == Len(s)
            l == f[n]
<1>5. n \in 0 .. Len(s)  BY <1>0
<1>6. P(n)  BY <1>4, <1>5
<1>7. l \in Seq(R)  BY <1>6
<1>8. \A e : e \in Grid!ToSet(s) <=> \E i \in 1 .. n : s[i] = e  BY InSeq
<1>9. \A e : e \in Grid!ToSet(l) <=> \E k \in 1 .. Len(l) : l[k] = e  BY <1>7, InSeq
<1>10. ASSUME NEW e, e \in Grid!ToSet(l) PROVE e \in Grid!ToSet(s) /\ t[e] = "in"
  <2>1. PICK k \in 1 .. Len(l) : l[k] = e  BY <1>9, <1>10
  <2>2. PICK i \in 1 .. n : l[k] = s[i] /\ t[s[i]] = "in"  BY <1>6
  <2>. QED  BY <1>8, <2>1, <2>2
<1>11. ASSUME NEW e, e \in Grid!ToSet(s), t[e] = "in" PROVE e \in Grid!ToSet(l)
  <2>1. PICK i \in 1 .. n : s[i] = e  BY <1>8, <1>11
  <2>2. PICK k \in 1 .. Len(l) : l[k] = s[i]  BY <1>6, <1>11, <2>1
  <2>. QED  BY <1>9, <2>1, <2>2
<1>12. Grid!ToSet(l) = {e \in Grid!ToSet(s) : t[e] = "in"}  BY <1>10, <1>11
<1>13. \A m \in 0 .. Len(s) : f[m] \in Seq(R)  BY <1>4
<1>. QED  BY <1>12, <1>13 DEF f

\* Table u has the rows of R that table t has.
Grows(R, t, u) == \A r \in R : t[r] = "in" => u[r] = "in"

\* In a table to which rows were added, a row is at the same place or later.
LEMMA SelectedLater ==
    ASSUME NEW R, NEW t, NEW u, NEW s \in Seq(R), Grows(R, t, u),
           NEW l, l = Grid!Selected(t, s)[Len(s)], NEW m, m = Grid!Selected(u, s)[Len(s)]
    PROVE  \A i \in 1 .. Len(m) : t[m[i]] = "in" => \E k \in 1 .. Len(l) : k <= i /\ l[k] = m[i]
<1>. DEFINE f == Grid!Selected(t, s)
            g == Grid!Selected(u, s)
            P(n) == /\ Len(f[n]) <= Len(g[n])
                    /\ \A j \in 1 .. Len(g[n]) : t[g[n][j]] = "in" =>
                          \E k \in 1 .. Len(f[n]) : k <= j /\ f[n][k] = g[n][j]
            S == {n \in 0 .. Len(s) : P(n)}
<1>0. /\ Len(s) \in Nat
      /\ f[0] = <<>> /\ g[0] = <<>>
      /\ \A n \in 1 .. Len(s) : f[n] = IF t[s[n]] = "in" THEN Append(f[n - 1], s[n]) ELSE f[n - 1]
      /\ \A n \in 1 .. Len(s) : g[n] = IF u[s[n]] = "in" THEN Append(g[n - 1], s[n]) ELSE g[n - 1]
  BY SelectedDef
<1>a. \A n \in 0 .. Len(s) : f[n] \in Seq(R) /\ g[n] \in Seq(R)  BY SelectedType
<1>. HIDE DEF f, g
<1>1. 0 \in S
  <2>1. Len(f[0]) = 0 /\ Len(g[0]) = 0  BY <1>0
  <2>2. P(0)  BY <2>1
  <2>. QED  BY <1>0, <2>2
<1>2. ASSUME NEW o \in 0 .. Len(s) - 1, o \in S PROVE o + 1 \in S
  <2>0. o + 1 \in 1 .. Len(s) /\ o \in 0 .. Len(s) /\ (o + 1) - 1 = o /\ o + 1 \in 0 .. Len(s)
    BY <1>0
  <2>. DEFINE x == s[o + 1]
  <2>1. x \in R  BY <2>0
  <2>2. P(o) /\ f[o] \in Seq(R) /\ g[o] \in Seq(R)  BY <1>2, <1>a, <2>0
  <2>3. /\ f[o + 1] = IF t[x] = "in" THEN Append(f[o], x) ELSE f[o]
        /\ g[o + 1] = IF u[x] = "in" THEN Append(g[o], x) ELSE g[o]
    BY <1>0, <2>0
  <2>. HIDE DEF x
  <2>4. PICK a \in Nat : a = Len(f[o])  BY SMTT(40), <2>2
  <2>5. PICK b \in Nat : b = Len(g[o])  BY <2>2
  <2>6. /\ a <= b
        /\ \A j \in 1 .. b : t[g[o][j]] = "in" => \E k \in 1 .. a : k <= j /\ f[o][k] = g[o][j]
    BY <2>2, <2>4, <2>5
  <2>7. CASE u[x] = "in"
    <3>1. /\ Len(g[o + 1]) = b + 1 /\ g[o + 1][b + 1] = x
          /\ \A j \in 1 .. b : g[o + 1][j] = g[o][j]
      BY <2>1, <2>2, <2>3, <2>5, <2>7, AppendFacts
    <3>2. \A j \in 1 .. b + 1 : j = b + 1 \/ j \in 1 .. b  BY <2>5
    <3>3. CASE t[x] = "in"
      <4>1. /\ Len(f[o + 1]) = a + 1 /\ f[o + 1][a + 1] = x
            /\ \A j \in 1 .. a : f[o + 1][j] = f[o][j]
        BY <2>1, <2>2, <2>3, <2>4, <3>3, AppendFacts
      <4>2. ASSUME NEW j \in 1 .. b + 1, t[g[o + 1][j]] = "in"
            PROVE  \E k \in 1 .. a + 1 : k <= j /\ f[o + 1][k] = g[o + 1][j]
        <5>1. CASE j = b + 1
          <6>1. a + 1 \in 1 .. a + 1 /\ a + 1 <= b + 1  BY <2>6
          <6>. QED  BY <3>1, <4>1, <5>1, <6>1
        <5>2. CASE j \in 1 .. b
          <6>1. PICK k \in 1 .. a : k <= j /\ f[o][k] = g[o][j]  BY <2>6, <3>1, <4>2, <5>2
          <6>2. k \in 1 .. a + 1  OBVIOUS
          <6>. QED  BY <3>1, <4>1, <5>2, <6>1, <6>2
        <5>. QED  BY <3>2, <5>1, <5>2
      <4>3. a + 1 <= b + 1  BY <2>6
      <4>4. P(o + 1)  BY <3>1, <4>1, <4>2, <4>3
      <4>. QED  BY <2>0, <4>4
    <3>4. CASE t[x] # "in"
      <4>1. f[o + 1] = f[o]  BY <2>3, <3>4
      <4>2. ASSUME NEW j \in 1 .. b + 1, t[g[o + 1][j]] = "in"
            PROVE  \E k \in 1 .. a : k <= j /\ f[o + 1][k] = g[o + 1][j]
        <5>1. j \in 1 .. b  BY <3>1, <3>2, <3>4, <4>2
        <5>. QED  BY <2>6, <3>1, <4>1, <4>2, <5>1
      <4>3. a <= b + 1  BY <2>6
      <4>4. P(o + 1)  BY <2>4, <3>1, <4>1, <4>2, <4>3
      <4>. QED  BY <2>0, <4>4
    <3>. QED  BY <3>3, <3>4
  <2>8. CASE u[x] # "in"
    <3>1. t[x] # "in"  BY <2>1, <2>8 DEF Grows
    <3>2. f[o + 1] = f[o] /\ g[o + 1] = g[o]  BY <2>3, <2>8, <3>1
    <3>3. P(o + 1)  BY <2>2, <3>2
    <3>. QED  BY <2>0, <3>3
  <2>. QED  BY <2>7, <2>8
<1>3. 0 .. Len(s) \subseteq S
  <2>. HIDE DEF S
  <2>. QED  BY <1>0, <1>1, <1>2, SetInduction
<1>4. \A n \in 0 .. Len(s) : P(n)  BY <1>3
<1>5. PICK n \in 0 .. Len(s) : n = Len(s)  BY <1>0
<1>6. P(n)  BY <1>4
<1>7. l = f[n] /\ m = g[n]  BY <1>5 DEF f, g
<1>. QED  BY <1>6, <1>7
(***************************************************************************)
(* Pages                                                                   *)
(***************************************************************************)

\* The first n pages of a list, and its page n.
FirstOf(l, n) == SubSeq(l, 1, Grid!Min({n * PageSize, Len(l)}))
PageOf(l, n) == SubSeq(l, (n - 1) * PageSize + 1, Grid!Min({n * PageSize, Len(l)}))

\* The smaller of two numbers.
LEMMA MinOf ==
    ASSUME NEW a \in Int, NEW b \in Int
    PROVE  Grid!Min({a, b}) = IF a <= b THEN a ELSE b
<1>. DEFINE m == IF a <= b THEN a ELSE b
<1>1. m \in {a, b} /\ \A y \in {a, b} : m <= y  OBVIOUS
<1>2. \A x \in {a, b} : (\A y \in {a, b} : x <= y) => x = m  OBVIOUS
<1>. HIDE DEF m
<1>3. (CHOOSE x \in {a, b} : \A y \in {a, b} : x <= y) = m  BY <1>1, <1>2
<1>. QED  BY <1>3 DEF Grid!Min, m

\* The size of a page and of some pages.
LEMMA PageSizes ==
    ASSUME NEW n \in Nat
    PROVE  /\ PageSize \in Nat /\ PageSize > 0 /\ n * PageSize \in Nat
           /\ (n + 1) * PageSize = n * PageSize + PageSize /\ (n + 1) - 1 = n
           /\ 0 * PageSize = 0 /\ 1 * PageSize = PageSize
<1>1. PageSize \in Nat /\ PageSize > 0  BY ViewerAssumption
<1>. QED  BY <1>1

\* A part of a list.
LEMMA SubSeqFacts ==
    ASSUME NEW R, NEW l \in Seq(R), NEW a \in Nat, NEW b \in Nat, b <= Len(l)
    PROVE  /\ SubSeq(l, a + 1, b) \in Seq(R)
           /\ Len(SubSeq(l, a + 1, b)) = IF a <= b THEN b - a ELSE 0
           /\ \A k \in 1 .. b - a : SubSeq(l, a + 1, b)[k] = l[a + k]
<1>1. \A k \in 1 .. b - a : (a + 1) + k - 1 = a + k  OBVIOUS
<1>. QED  BY <1>1

\* What is in a part of a list.
LEMMA PartSet ==
    ASSUME NEW R, NEW l \in Seq(R), NEW a \in Nat, NEW b \in Nat,
           NEW c \in Nat, c = IF b <= Len(l) THEN b ELSE Len(l)
    PROVE  /\ SubSeq(l, a + 1, c) \in Seq(R)
           /\ \A e : e \in Grid!ToSet(SubSeq(l, a + 1, c)) <=>
                        \E k \in 1 .. Len(l) : a < k /\ k <= b /\ l[k] = e
<1>0. Len(l) \in Nat /\ c <= Len(l) /\ c <= b  OBVIOUS
<1>. DEFINE p == SubSeq(l, a + 1, c)
<1>1. /\ p \in Seq(R) /\ Len(p) = IF a <= c THEN c - a ELSE 0
      /\ \A k \in 1 .. c - a : p[k] = l[a + k]
  BY <1>0, SubSeqFacts
<1>. HIDE DEF p
<1>2. DOMAIN p = 1 .. c - a
  <2>1. DOMAIN p = 1 .. Len(p)  BY <1>1
  <2>. QED  BY <1>1, <2>1
<1>3. ASSUME NEW e, e \in Grid!ToSet(p) PROVE \E k \in 1 .. Len(l) : a < k /\ k <= b /\ l[k] = e
  <2>1. PICK k \in 1 .. c - a : e = p[k]  BY <1>2, <1>3 DEF Grid!ToSet
  <2>2. a + k \in 1 .. Len(l) /\ a < a + k /\ a + k <= b  BY <1>0
  <2>. QED  BY <1>1, <2>1, <2>2
<1>4. ASSUME NEW k \in 1 .. Len(l), a < k, k <= b PROVE l[k] \in Grid!ToSet(p)
  <2>1. k - a \in 1 .. c - a /\ a + (k - a) = k  BY <1>0, <1>4
  <2>2. p[k - a] = l[k]  BY <1>1, <2>1
  <2>. QED  BY <1>2, <2>1, <2>2 DEF Grid!ToSet
<1>. QED  BY <1>1, <1>3, <1>4 DEF p

\* Which rows are on the first n pages, and which on page n.
LEMMA PageSets ==
    ASSUME NEW R, NEW l \in Seq(R), NEW n \in Nat
    PROVE  /\ FirstOf(l, n) \in Seq(R)
           /\ \A e : e \in Grid!ToSet(FirstOf(l, n)) <=>
                        \E k \in 1 .. Len(l) : k <= n * PageSize /\ l[k] = e
           /\ PageOf(l, n + 1) \in Seq(R)
           /\ \A e : e \in Grid!ToSet(PageOf(l, n + 1)) <=>
                        \E k \in 1 .. Len(l) : /\ n * PageSize < k /\ k <= (n + 1) * PageSize
                                               /\ l[k] = e
<1>0. Len(l) \in Nat  OBVIOUS
<1>1. PICK a \in Nat : a = n * PageSize  BY PageSizes
<1>2. PICK b \in Nat : b = (n + 1) * PageSize /\ (n + 1) - 1 = n  BY PageSizes
<1>3. PICK c \in Nat : c = (IF a <= Len(l) THEN a ELSE Len(l)) /\ c = Grid!Min({a, Len(l)})
  BY <1>0, MinOf
<1>4. PICK d \in Nat : d = (IF b <= Len(l) THEN b ELSE Len(l)) /\ d = Grid!Min({b, Len(l)})
  BY <1>0, MinOf
<1>. DEFINE o == 0
<1>a. o \in Nat /\ o + 1 = 1 /\ \A k \in 1 .. Len(l) : o < k  BY <1>0
<1>. HIDE DEF o
<1>5. FirstOf(l, n) = SubSeq(l, o + 1, c)  BY <1>1, <1>3, <1>a DEF FirstOf
<1>6. PageOf(l, n + 1) = SubSeq(l, a + 1, d)  BY <1>1, <1>2, <1>4 DEF PageOf
<1>7. /\ SubSeq(l, o + 1, c) \in Seq(R)
      /\ \A e : e \in Grid!ToSet(SubSeq(l, o + 1, c)) <=>
                   \E k \in 1 .. Len(l) : o < k /\ k <= a /\ l[k] = e
  BY <1>3, <1>a, PartSet
<1>8. /\ SubSeq(l, a + 1, d) \in Seq(R)
      /\ \A e : e \in Grid!ToSet(SubSeq(l, a + 1, d)) <=>
                   \E k \in 1 .. Len(l) : a < k /\ k <= b /\ l[k] = e
  BY <1>4, PartSet
<1>. QED  BY <1>1, <1>2, <1>5, <1>6, <1>7, <1>8, <1>a

\* A page appended to the pages before it.
LEMMA NextPage ==
    ASSUME NEW R, NEW l \in Seq(R), NEW n \in Nat
    PROVE  FirstOf(l, n) \o PageOf(l, n + 1) = FirstOf(l, n + 1)
<1>0. Len(l) \in Nat  OBVIOUS
<1>1. PICK a \in Nat : a = n * PageSize  BY PageSizes
<1>2. PICK b \in Nat : b = (n + 1) * PageSize /\ (n + 1) - 1 = n /\ a <= b
  <2>1. PICK s \in Nat : s = PageSize  BY PageSizes
  <2>2. (n + 1) * PageSize = a + s /\ (n + 1) - 1 = n  BY <1>1, <2>1, PageSizes
  <2>3. a + s \in Nat /\ a <= a + s  OBVIOUS
  <2>. QED  BY <2>2, <2>3
<1>3. PICK c \in Nat : c = (IF a <= Len(l) THEN a ELSE Len(l)) /\ c = Grid!Min({a, Len(l)})
  BY <1>0, MinOf
<1>4. PICK d \in Nat : d = (IF b <= Len(l) THEN b ELSE Len(l)) /\ d = Grid!Min({b, Len(l)})
  BY <1>0, MinOf
<1>. DEFINE p == SubSeq(l, 1, c)
            q == SubSeq(l, a + 1, d)
            r == SubSeq(l, 1, d)
<1>5. FirstOf(l, n) = p /\ FirstOf(l, n + 1) = r  BY <1>1, <1>2, <1>3, <1>4 DEF FirstOf
<1>6. PageOf(l, n + 1) = q  BY <1>1, <1>2, <1>4 DEF PageOf
<1>7. c <= Len(l) /\ d <= Len(l) /\ c <= d /\ (a <= d => c = a) /\ (d < a => c = d)
  BY <1>0, <1>2, <1>3, <1>4
<1>8. p \in Seq(R) /\ Len(p) = c /\ \A k \in 1 .. c : p[k] = l[k]  BY <1>0, <1>7
<1>9. r \in Seq(R) /\ Len(r) = d /\ \A k \in 1 .. d : r[k] = l[k]  BY <1>0, <1>7
<1>10. q \in Seq(R) /\ Len(q) = (IF a <= d THEN d - a ELSE 0) /\ \A k \in 1 .. d - a : q[k] = l[a + k]
  BY <1>7, SubSeqFacts
<1>. HIDE DEF p, q, r
<1>11. p \o q \in Seq(R) /\ Len(p \o q) = d
  <2>0. p \in Seq(R) /\ q \in Seq(R)  BY <1>8, <1>10
  <2>1. p \o q \in Seq(R) /\ Len(p \o q) = Len(p) + Len(q)  BY <2>0
  <2>2. c + (IF a <= d THEN d - a ELSE 0) = d  BY <1>7
  <2>. QED  BY <1>8, <1>10, <2>1, <2>2
<1>12. ASSUME NEW k \in 1 .. d PROVE (p \o q)[k] = l[k]
  <2>1. CASE k <= c
    <3>1. k \in 1 .. c  BY <2>1
    <3>. QED  BY <1>8, <1>10, <3>1
  <2>2. CASE ~(k <= c)
    <3>1. c = a /\ k - a \in 1 .. d - a /\ a + (k - a) = k  BY <1>7, <2>2
    <3>2. (p \o q)[k] = q[k - a]  BY <1>7, <1>8, <1>10, <3>1
    <3>. QED  BY <1>10, <3>1, <3>2
  <2>. QED  BY <2>1, <2>2
<1>13. \A k \in 1 .. d : (p \o q)[k] = r[k]  BY <1>9, <1>12
<1>14. p \o q = r  BY <1>9, <1>11, <1>13
<1>. QED  BY <1>5, <1>6, <1>14

\* The first page.
LEMMA PageOne ==
    ASSUME NEW R, NEW l \in Seq(R) PROVE PageOf(l, 1) = FirstOf(l, 1)
<1>1. (1 - 1) * PageSize + 1 = 1  BY PageSizes
<1>. QED  BY <1>1 DEF PageOf, FirstOf

\* The last page is the one that the total says.
LEMMA LastPage ==
    ASSUME NEW R, NEW l \in Seq(R), NEW n \in Nat, Grid!Pages(Len(l)) <= n
    PROVE  Len(l) <= n * PageSize /\ FirstOf(l, n) = l
<1>0. Len(l) \in Nat /\ PageSize \in Nat /\ PageSize > 0  BY PageSizes
<1>1. PICK x \in Nat : x = Len(l) + PageSize - 1
  <2>1. PICK m \in Nat, s \in Nat : m = Len(l) /\ s = PageSize /\ s > 0  BY <1>0
  <2>2. m + s - 1 \in Nat  BY <2>1
  <2>. QED  BY <2>1, <2>2
<1>2. /\ x \div PageSize \in Nat /\ x % PageSize \in 0 .. PageSize - 1
      /\ x = (x \div PageSize) * PageSize + (x % PageSize)
  BY <1>0, <1>1, DivMod
<1>3. PICK p \in Nat : p = x \div PageSize /\ p <= n  BY <1>0, <1>1, <1>2 DEF Grid!Pages
<1>4. PICK y \in Nat : y = p * PageSize  BY <1>0
<1>5. PICK z \in Nat : z = n * PageSize  BY <1>0
<1>6. y <= z
  <2>1. CASE p = n  BY <1>4, <1>5, <2>1
  <2>2. CASE n > p
    <3>1. n * PageSize >= p * PageSize + PageSize  BY <1>0, <2>2, SmallMultiple
    <3>. QED  BY <1>0, <1>4, <1>5, <3>1
  <2>. QED  BY <1>3, <2>1, <2>2
<1>7. Len(l) <= z
  <2>1. PICK r \in 0 .. PageSize - 1 : x = y + r  BY <1>2, <1>3, <1>4
  <2>. QED  BY <1>0, <1>1, <1>6, <2>1
<1>8. Grid!Min({z, Len(l)}) = Len(l)
  <2>1. Grid!Min({z, Len(l)}) = IF z <= Len(l) THEN z ELSE Len(l)  BY <1>0, MinOf
  <2>. QED  BY <1>0, <1>7, <2>1
<1>9. SubSeq(l, 1, Len(l)) = l  OBVIOUS
<1>. QED  BY <1>5, <1>7, <1>8, <1>9 DEF FirstOf
(***************************************************************************)
(* The list                                                                *)
(***************************************************************************)

\* What the assumptions say of a filter.
LEMMA FilterFacts ==
    ASSUME NEW f \in DOMAIN Order PROVE Order[f] \in Seq(Rows) /\ Grid!ToSet(Order[f]) \subseteq Rows
<1>1. Order[f] \in Seq(Rows)  BY ViewerAssumption
<1>2. \A i \in DOMAIN Order[f] : Order[f][i] \in Rows  BY <1>1
<1>. QED  BY <1>1, <1>2 DEF Grid!ToSet

\* The rows of a list after another.
LEMMA ConcatSet ==
    ASSUME NEW R, NEW s \in Seq(R), NEW t \in Seq(R)
    PROVE  s \o t \in Seq(R) /\ Grid!ToSet(s \o t) = Grid!ToSet(s) \cup Grid!ToSet(t)
<1>. DEFINE u == s \o t
<1>1. PICK a \in Nat : a = Len(s) /\ DOMAIN s = 1 .. a  OBVIOUS
<1>2. PICK b \in Nat : b = Len(t) /\ DOMAIN t = 1 .. b  OBVIOUS
<1>3. /\ u \in Seq(R) /\ Len(u) = a + b
      /\ \A k \in 1 .. a : u[k] = s[k]
      /\ \A k \in 1 .. b : u[a + k] = t[k]
  BY <1>1, <1>2
<1>. HIDE DEF u
<1>4. DOMAIN u = 1 .. a + b  BY <1>3
<1>5. \A k \in 1 .. a + b : u[k] \in Grid!ToSet(s) \cup Grid!ToSet(t)
  <2>1. SUFFICES ASSUME NEW k \in 1 .. a + b PROVE u[k] \in Grid!ToSet(s) \cup Grid!ToSet(t)  OBVIOUS
  <2>2. CASE k \in 1 .. a  BY <1>1, <1>3, <2>2 DEF Grid!ToSet
  <2>3. CASE k \notin 1 .. a
    <3>1. k - a \in 1 .. b /\ a + (k - a) = k  BY <2>3
    <3>2. u[k] = t[k - a]  BY <1>3, <3>1
    <3>. QED  BY <1>2, <3>1, <3>2 DEF Grid!ToSet
  <2>. QED  BY <2>2, <2>3
<1>6. Grid!ToSet(s) \subseteq Grid!ToSet(u)
  <2>1. \A k \in 1 .. a : k \in DOMAIN u /\ u[k] = s[k]  BY <1>3, <1>4
  <2>. QED  BY <1>1, <2>1 DEF Grid!ToSet
<1>7. Grid!ToSet(t) \subseteq Grid!ToSet(u)
  <2>1. \A k \in 1 .. b : a + k \in DOMAIN u /\ u[a + k] = t[k]  BY <1>3, <1>4
  <2>. QED  BY <1>2, <2>1 DEF Grid!ToSet
<1>8. Grid!ToSet(u) \subseteq Grid!ToSet(s) \cup Grid!ToSet(t)  BY <1>4, <1>5 DEF Grid!ToSet
<1>. QED  BY <1>3, <1>6, <1>7, <1>8 DEF u
(***************************************************************************)
(* The invariant of the list, as a predicate of a table t, a grid g and a  *)
(* set Q of requests: a step is argued by comparing it for two of each.    *)
(***************************************************************************)

RowsBy(f) == Grid!ToSet(Order[f])

Lst(t, f) == Grid!Selected(t, Order[f])[Len(Order[f])]

TypeIn(t, g, Q) ==
    /\ t \in [Rows -> {"later", "in", "gone"}]
    /\ g \in Grid!GridStates \cup {Unmounted}
    /\ \A q \in Q : q \in Grid!Requests
    /\ Q # {} => g # Unmounted

CurrentIn(g, Q) ==
    \A q \in Q : q.current =>
        /\ \A p \in Q : p.current => p = q
        /\ g.loading /\ q.filter = g.filter
        /\ q.page = IF q.replace THEN 1 ELSE g.page + 1

StartedIn(g, Q) == ~g.firstFailed /\ \A q \in Q : ~(q.current /\ q.replace)

CountsIn(g, q) == q.current /\ (q.replace \/ ~g.firstFailed)

RowsIn(g, Q) ==
    /\ \A q \in Q : Grid!ToSet(q.rows) \subseteq RowsBy(q.filter)
    /\ g # Unmounted /\ StartedIn(g, Q) => Grid!ToSet(g.seeds) \subseteq RowsBy(g.filter)

KnownIn(g, q) == Grid!ToSet(q.rows) \cup (IF q.replace THEN {} ELSE Grid!ToSet(g.seeds))

ListCoversIn(t, g) ==
    /\ g.base \cap Grid!ToSet(FirstOf(Lst(t, g.filter), g.page)) \subseteq Grid!ToSet(g.seeds)
    /\ ~g.slipped /\ ~g.hasMore => g.base \cap RowsBy(g.filter) \subseteq Grid!ToSet(g.seeds)

AnswerCoversIn(t, g, q) ==
    /\ q.step = "counted" /\ ~g.slipped => q.total = Len(Lst(t, q.filter))
    /\ q.step = "selected" =>
          g.base \cap Grid!ToSet(FirstOf(Lst(t, g.filter), q.page)) \subseteq KnownIn(g, q)
    /\ q.step = "selected" /\ ~g.slipped /\ Grid!Pages(q.total) <= q.page =>
          g.base \cap RowsBy(q.filter) \subseteq KnownIn(g, q)

CoverIn(t, g, Q) ==
    g # Unmounted /\ ~g.shrunk =>
        /\ \A r \in g.base : t[r] = "in"
        /\ StartedIn(g, Q) => ListCoversIn(t, g)
        /\ \A q \in Q : CountsIn(g, q) => AnswerCoversIn(t, g, q)

ListExactIn(t, g) ==
    /\ g.seeds = FirstOf(Lst(t, g.filter), g.page) /\ g.total = Len(Lst(t, g.filter))
    /\ g.hasMore = (g.page < Grid!Pages(g.total))

AnswerExactIn(t, q) ==
    /\ q.step # "sent" => q.total = Len(Lst(t, q.filter))
    /\ q.step = "selected" => q.rows = PageOf(Lst(t, q.filter), q.page)

ExactIn(t, g, Q) ==
    g # Unmounted /\ ~g.shrunk /\ ~g.grown =>
        /\ StartedIn(g, Q) => ListExactIn(t, g)
        /\ \A q \in Q : q.current => AnswerExactIn(t, q)

GoodIn(t, g, Q) ==
    TypeIn(t, g, Q) /\ CurrentIn(g, Q) /\ RowsIn(g, Q) /\ CoverIn(t, g, Q) /\ ExactIn(t, g, Q)

\* It is the invariant of SeedGrid, before a step.
LEMMA GoodNow == Grid!IInv <=> GoodIn(db, grid, requests)
<1>1. \A f : Grid!Listing(f) = Lst(db, f)  BY DEF Grid!Listing, Lst
<1>2. \A n : Grid!UpTo(n) = FirstOf(Lst(db, grid.filter), n)  BY <1>1 DEF Grid!UpTo, FirstOf
<1>3. \A f, n : Grid!Page(f, n) = PageOf(Lst(db, f), n)  BY <1>1 DEF Grid!Page, PageOf
<1>4. Grid!TypeOK <=> TypeIn(db, grid, requests)  BY DEF Grid!TypeOK, TypeIn, Grid!Mounted
<1>5. Grid!CurrentOK <=> CurrentIn(grid, requests)  BY DEF Grid!CurrentOK, CurrentIn
<1>6. Grid!Started <=> StartedIn(grid, requests)  BY DEF Grid!Started, StartedIn
<1>7. Grid!RowsOK <=> RowsIn(grid, requests)
  BY <1>6 DEF Grid!RowsOK, RowsIn, Grid!Mounted, RowsBy
<1>8. Grid!CoverOK <=> CoverIn(db, grid, requests)
  <2>1. Grid!ListCovers <=> ListCoversIn(db, grid)  BY <1>2 DEF Grid!ListCovers, ListCoversIn, RowsBy
  <2>2. \A q : Grid!AnswerCovers(q) <=> AnswerCoversIn(db, grid, q)
    BY <1>1, <1>2 DEF Grid!AnswerCovers, AnswerCoversIn, RowsBy, Grid!Known, KnownIn
  <2>3. \A q : Grid!Counts(q) <=> CountsIn(grid, q)  BY DEF Grid!Counts, CountsIn
  <2>. QED  BY <1>6, <2>1, <2>2, <2>3 DEF Grid!CoverOK, CoverIn, Grid!Mounted
<1>9. Grid!ExactOK <=> ExactIn(db, grid, requests)
  <2>1. Grid!ListExact <=> ListExactIn(db, grid)  BY <1>1, <1>2 DEF Grid!ListExact, ListExactIn
  <2>2. \A q : Grid!AnswerExact(q) <=> AnswerExactIn(db, q)
    BY <1>1, <1>3 DEF Grid!AnswerExact, AnswerExactIn
  <2>. QED  BY <1>6, <2>1, <2>2 DEF Grid!ExactOK, ExactIn, Grid!Mounted
<1>. QED  BY <1>4, <1>5, <1>7, <1>8, <1>9 DEF Grid!IInv, GoodIn

\* And after it.
LEMMA GoodNext == Grid!IInv' <=> GoodIn(db', grid', requests')
<1>1. \A f : Grid!Listing(f)' = Lst(db', f)  BY DEF Grid!Listing, Lst
<1>4. Grid!TypeOK' <=> TypeIn(db', grid', requests')  BY DEF Grid!TypeOK, TypeIn, Grid!Mounted
<1>5. Grid!CurrentOK' <=> CurrentIn(grid', requests')  BY DEF Grid!CurrentOK, CurrentIn
<1>6. Grid!Started' <=> StartedIn(grid', requests')  BY DEF Grid!Started, StartedIn
<1>7. Grid!RowsOK' <=> RowsIn(grid', requests')
  BY <1>6 DEF Grid!RowsOK, RowsIn, Grid!Mounted, RowsBy
<1>8. Grid!CoverOK' <=> CoverIn(db', grid', requests')
  <2>1. Grid!ListCovers' <=> ListCoversIn(db', grid')
    BY DEF Grid!ListCovers, ListCoversIn, RowsBy, Grid!UpTo, FirstOf, Grid!Listing, Lst
  <2>2. \A q : Grid!AnswerCovers(q)' <=> AnswerCoversIn(db', grid', q)
    BY DEF Grid!AnswerCovers, AnswerCoversIn, RowsBy, Grid!Known, KnownIn, Grid!UpTo, FirstOf,
           Grid!Listing, Lst
  <2>3. \A q : Grid!Counts(q)' <=> CountsIn(grid', q)  BY DEF Grid!Counts, CountsIn
  <2>. QED  BY <1>6, <2>1, <2>2, <2>3 DEF Grid!CoverOK, CoverIn, Grid!Mounted
<1>9. Grid!ExactOK' <=> ExactIn(db', grid', requests')
  <2>1. Grid!ListExact' <=> ListExactIn(db', grid')
    BY DEF Grid!ListExact, ListExactIn, Grid!UpTo, FirstOf, Grid!Listing, Lst
  <2>2. \A q : Grid!AnswerExact(q)' <=> AnswerExactIn(db', q)
    BY DEF Grid!AnswerExact, AnswerExactIn, Grid!Page, PageOf, Grid!Listing, Lst
  <2>. QED  BY <1>6, <2>1, <2>2 DEF Grid!ExactOK, ExactIn, Grid!Mounted
<1>. QED  BY <1>4, <1>5, <1>7, <1>8, <1>9 DEF Grid!IInv, GoodIn
\* The list of a filter has the rows it selects that are in the table.
LEMMA ListFacts ==
    ASSUME NEW t, NEW f \in DOMAIN Order
    PROVE  /\ Lst(t, f) \in Seq(Rows)
           /\ Grid!ToSet(Lst(t, f)) = {r \in RowsBy(f) : t[r] = "in"}
<1>1. Order[f] \in Seq(Rows)  BY FilterFacts
<1>2. Len(Order[f]) \in 0 .. Len(Order[f])
  <2>1. Len(Order[f]) \in Nat  BY <1>1
  <2>. QED  BY <2>1
<1>. QED  BY <1>1, <1>2, SelectedType DEF Lst, RowsBy

\* A row of a page is selected by the filter, and a row of the first pages is on
\* the last of them or on those before it.
LEMMA PageRows ==
    ASSUME NEW t, NEW f \in DOMAIN Order, NEW n \in Nat
    PROVE  /\ PageOf(Lst(t, f), n + 1) \in Seq(Rows)
           /\ Grid!ToSet(PageOf(Lst(t, f), n + 1)) \subseteq RowsBy(f)
           /\ Grid!ToSet(FirstOf(Lst(t, f), n + 1))
                 \subseteq Grid!ToSet(FirstOf(Lst(t, f), n)) \cup Grid!ToSet(PageOf(Lst(t, f), n + 1))
<1>. DEFINE l == Lst(t, f)
<1>1. l \in Seq(Rows) /\ Grid!ToSet(l) \subseteq RowsBy(f)  BY ListFacts
<1>. HIDE DEF l
<1>2. /\ PageOf(l, n + 1) \in Seq(Rows) /\ FirstOf(l, n) \in Seq(Rows)  BY <1>1, PageSets
<1>a. \A e : e \in Grid!ToSet(PageOf(l, n + 1)) <=>
                \E k \in 1 .. Len(l) : n * PageSize < k /\ k <= (n + 1) * PageSize /\ l[k] = e
  BY ZenonT(40), <1>1, PageSets
<1>3. \A e : e \in Grid!ToSet(l) <=> \E k \in 1 .. Len(l) : l[k] = e  BY <1>1, InSeq
<1>4. Grid!ToSet(PageOf(l, n + 1)) \subseteq RowsBy(f)  BY <1>1, <1>3, <1>a
<1>5. FirstOf(l, n) \o PageOf(l, n + 1) = FirstOf(l, n + 1)  BY <1>1, NextPage
<1>6. Grid!ToSet(FirstOf(l, n) \o PageOf(l, n + 1))
         = Grid!ToSet(FirstOf(l, n)) \cup Grid!ToSet(PageOf(l, n + 1))
  BY <1>2, ConcatSet
<1>. QED  BY <1>2, <1>4, <1>5, <1>6 DEF l

\* A row that was in the table and is on the first pages, now that other rows have
\* come, was there before.
LEMMA MoreRows ==
    ASSUME NEW t, NEW u, NEW f \in DOMAIN Order, NEW n \in Nat
    PROVE  Grows(Rows, t, u) =>
              \A x \in Grid!ToSet(FirstOf(Lst(u, f), n)) :
                 t[x] = "in" => x \in Grid!ToSet(FirstOf(Lst(t, f), n))
<1>. DEFINE l == Lst(t, f)
            m == Lst(u, f)
<1>1. l \in Seq(Rows) /\ m \in Seq(Rows)  BY ListFacts
<1>2. ASSUME Grows(Rows, t, u)
      PROVE  \A j \in 1 .. Len(m) : t[m[j]] = "in" => \E k \in 1 .. Len(l) : k <= j /\ l[k] = m[j]
  <2>1. Order[f] \in Seq(Rows)  BY FilterFacts
  <2>2. PICK s \in Seq(Rows) : s = Order[f]  BY <2>1
  <2>4. l = Grid!Selected(t, s)[Len(s)] /\ m = Grid!Selected(u, s)[Len(s)]  BY <2>2 DEF Lst
  <2>. HIDE DEF l, m
  <2>. QED  BY <1>2, <2>4, SelectedLater
<1>. HIDE DEF l, m
<1>4. \A e : e \in Grid!ToSet(FirstOf(m, n)) <=> \E k \in 1 .. Len(m) : k <= n * PageSize /\ m[k] = e
  BY ZenonT(40), <1>1, PageSets
<1>5. \A e : e \in Grid!ToSet(FirstOf(l, n)) <=> \E k \in 1 .. Len(l) : k <= n * PageSize /\ l[k] = e
  BY ZenonT(40), <1>1, PageSets
<1>6. ASSUME Grows(Rows, t, u),
             NEW x \in Grid!ToSet(FirstOf(m, n)), t[x] = "in"
      PROVE  x \in Grid!ToSet(FirstOf(l, n))
  <2>0. PICK a \in Nat : a = n * PageSize  BY PageSizes
  <2>1. PICK j \in 1 .. Len(m) : j <= a /\ m[j] = x  BY <1>4, <1>6, <2>0
  <2>2. PICK k \in 1 .. Len(l) : k <= j /\ l[k] = m[j]  BY <1>2, <1>6, <2>1
  <2>3. k <= a
    <3>1. Len(m) \in Nat /\ Len(l) \in Nat  BY <1>1
    <3>. QED  BY <2>1, <2>2, <3>1
  <2>. QED  BY <1>5, <2>0, <2>1, <2>2, <2>3
<1>. QED  BY <1>6 DEF l, m
(***************************************************************************)
(* Steps of the list                                                       *)
(***************************************************************************)

\* Without a grid nothing is under way.
LEMMA GoodUnmounted ==
    ASSUME NEW t \in [Rows -> {"later", "in", "gone"}] PROVE GoodIn(t, Unmounted, {})
BY DEF GoodIn, TypeIn, CurrentIn, RowsIn, CoverIn, ExactIn

\* A request has got further in the backend.
LEMMA Swap ==
    ASSUME NEW t, NEW g, NEW Q, GoodIn(t, g, Q), NEW q \in Q, NEW p \in Grid!Requests,
           p.filter = q.filter, p.page = q.page, p.replace = q.replace, p.current = q.current,
           Grid!ToSet(p.rows) \subseteq RowsBy(p.filter),
           CountsIn(g, p) /\ ~g.shrunk => AnswerCoversIn(t, g, p),
           p.current /\ ~g.shrunk /\ ~g.grown => AnswerExactIn(t, p)
    PROVE  GoodIn(t, g, (Q \ {q}) \cup {p})
<1>. DEFINE P == (Q \ {q}) \cup {p}
<1>0. TypeIn(t, g, Q) /\ CurrentIn(g, Q) /\ RowsIn(g, Q) /\ CoverIn(t, g, Q) /\ ExactIn(t, g, Q)
  BY DEF GoodIn
<1>1. TypeIn(t, g, P)  BY <1>0 DEF TypeIn
<1>2. CurrentIn(g, P)  BY <1>0 DEF CurrentIn
<1>3. StartedIn(g, P) <=> StartedIn(g, Q)  BY DEF StartedIn
<1>4. RowsIn(g, P)  BY <1>0, <1>3 DEF RowsIn
<1>5. CoverIn(t, g, P)  BY <1>0, <1>3 DEF CoverIn
<1>6. ExactIn(t, g, P)  BY <1>0, <1>3 DEF ExactIn
<1>. QED  BY <1>1, <1>2, <1>4, <1>5, <1>6 DEF GoodIn

\* A request is gone whose answer was void.
LEMMA Dropped ==
    ASSUME NEW t, NEW g, NEW Q, GoodIn(t, g, Q), NEW q \in Q, ~q.current
    PROVE  GoodIn(t, g, Q \ {q})
<1>. DEFINE P == Q \ {q}
<1>0. TypeIn(t, g, Q) /\ CurrentIn(g, Q) /\ RowsIn(g, Q) /\ CoverIn(t, g, Q) /\ ExactIn(t, g, Q)
  BY DEF GoodIn
<1>1. TypeIn(t, g, P)  BY <1>0 DEF TypeIn
<1>2. CurrentIn(g, P)  BY <1>0 DEF CurrentIn
<1>3. StartedIn(g, P) <=> StartedIn(g, Q)  BY DEF StartedIn
<1>4. RowsIn(g, P)  BY <1>0, <1>3 DEF RowsIn
<1>5. CoverIn(t, g, P)  BY <1>0, <1>3 DEF CoverIn
<1>6. ExactIn(t, g, P)  BY <1>0, <1>3 DEF ExactIn
<1>. QED  BY <1>1, <1>2, <1>4, <1>5, <1>6 DEF GoodIn

\* The backend counts.
LEMMA CountKeeps ==
    ASSUME GoodIn(db, grid, requests), NEW q, Grid!Count(q) PROVE GoodIn(db', grid', requests')
<1>. DEFINE p == [q EXCEPT !.step = "counted", !.total = Len(Lst(db, q.filter))]
<1>1. /\ q \in requests /\ q.step = "sent" /\ requests' = (requests \ {q}) \cup {p}
      /\ db' = db /\ grid' = grid
  BY DEF Grid!Count, Grid!Listing, Lst
<1>2. q \in Grid!Requests  BY <1>1 DEF GoodIn, TypeIn
<1>3. q.filter \in DOMAIN Order  BY <1>2 DEF Grid!Requests, Grid!Filters
<1>4. Len(Lst(db, q.filter)) \in Nat
  <2>1. Lst(db, q.filter) \in Seq(Rows)  BY <1>3, ListFacts
  <2>. QED  BY <2>1
<1>5. /\ p \in Grid!Requests /\ p.filter = q.filter /\ p.page = q.page /\ p.replace = q.replace
      /\ p.current = q.current /\ p.rows = q.rows /\ p.step = "counted"
      /\ p.total = Len(Lst(db, p.filter))
  BY <1>2, <1>4 DEF Grid!Requests
<1>. HIDE DEF p
<1>6. Grid!ToSet(p.rows) \subseteq RowsBy(p.filter)  BY <1>1, <1>5 DEF GoodIn, RowsIn
<1>7. AnswerCoversIn(db, grid, p) /\ AnswerExactIn(db, p)
  BY <1>5 DEF AnswerCoversIn, AnswerExactIn
<1>. QED  BY <1>1, <1>5, <1>6, <1>7, Swap

\* No other request counts while one does.
LEMMA OneCounts ==
    ASSUME NEW t, NEW g, NEW Q, GoodIn(t, g, Q), NEW q \in Q, q.current
    PROVE  /\ g # Unmounted /\ g \in Grid!GridStates /\ q \in Grid!Requests
           /\ \A p \in Q : p.current => p = q
           /\ g.loading /\ q.filter = g.filter /\ q.page = IF q.replace THEN 1 ELSE g.page + 1
           /\ g.filter \in DOMAIN Order /\ g.page \in Nat /\ q.total \in Nat
           /\ ~q.replace /\ ~g.firstFailed => StartedIn(g, Q)
<1>1. g # Unmounted /\ g \in Grid!GridStates /\ q \in Grid!Requests  BY DEF GoodIn, TypeIn
<1>2. /\ \A p \in Q : p.current => p = q
      /\ g.loading /\ q.filter = g.filter /\ q.page = IF q.replace THEN 1 ELSE g.page + 1
  BY DEF GoodIn, CurrentIn
<1>3. ~q.replace /\ ~g.firstFailed => StartedIn(g, Q)  BY <1>2 DEF StartedIn
<1>4. g.filter \in DOMAIN Order /\ g.page \in Nat  BY <1>1 DEF Grid!GridStates, Grid!Filters
<1>5. q.total \in Nat  BY <1>1 DEF Grid!Requests
<1>. QED  BY <1>1, <1>2, <1>3, <1>4, <1>5
\* When the backend has selected the rows of a page, those that were there when the
\* filter was set are shown already or on this page; after the last one no row is
\* missing.
LEMMA SelectKeeps ==
    ASSUME GoodIn(db, grid, requests), NEW q, Grid!Select(q) PROVE GoodIn(db', grid', requests')
<1>. DEFINE l == Lst(db, q.filter)
            p == [q EXCEPT !.step = "selected", !.rows = PageOf(l, q.page)]
<1>1. /\ q \in requests /\ q.step = "counted" /\ requests' = (requests \ {q}) \cup {p}
      /\ db' = db /\ grid' = grid
  BY DEF Grid!Select, Grid!Page, PageOf, Grid!Listing, Lst
<1>2. q \in Grid!Requests  BY <1>1 DEF GoodIn, TypeIn
<1>3. q.filter \in DOMAIN Order /\ q.page \in Nat \ {0} /\ q.total \in Nat
  BY <1>2 DEF Grid!Requests, Grid!Filters
<1>4. PICK n \in Nat : q.page = n + 1
  <2>1. PICK m \in Nat \ {0} : m = q.page  BY <1>3
  <2>2. m - 1 \in Nat /\ m = (m - 1) + 1  OBVIOUS
  <2>. QED  BY <2>1, <2>2
<1>5. /\ PageOf(l, q.page) \in Seq(Rows) /\ Grid!ToSet(PageOf(l, q.page)) \subseteq RowsBy(q.filter)
      /\ Grid!ToSet(FirstOf(l, q.page))
            \subseteq Grid!ToSet(FirstOf(l, n)) \cup Grid!ToSet(PageOf(l, q.page))
  BY <1>3, <1>4, PageRows
<1>6. l \in Seq(Rows) /\ Grid!ToSet(l) = {r \in RowsBy(q.filter) : db[r] = "in"}  BY <1>3, ListFacts
<1>7. /\ p \in Grid!Requests /\ p.filter = q.filter /\ p.page = q.page /\ p.replace = q.replace
      /\ p.current = q.current /\ p.step = "selected" /\ p.total = q.total
      /\ p.rows = PageOf(l, q.page)
  BY <1>2, <1>5 DEF Grid!Requests
<1>. HIDE DEF p
<1>8. Grid!ToSet(p.rows) \subseteq RowsBy(p.filter)  BY <1>5, <1>7
<1>9. ASSUME CountsIn(grid, p), ~grid.shrunk PROVE AnswerCoversIn(db, grid, p)
  <2>1. q.current /\ CountsIn(grid, q) /\ (q.replace \/ ~grid.firstFailed)  BY <1>7, <1>9 DEF CountsIn
  <2>2. /\ grid # Unmounted /\ q.filter = grid.filter /\ grid.page \in Nat
        /\ q.page = (IF q.replace THEN 1 ELSE grid.page + 1)
        /\ ~q.replace /\ ~grid.firstFailed => StartedIn(grid, requests)
    BY <1>1, <2>1, OneCounts
  <2>3. /\ \A r \in grid.base : db[r] = "in"
        /\ StartedIn(grid, requests) => ListCoversIn(db, grid)
        /\ AnswerCoversIn(db, grid, q)
    BY <1>1, <1>9, <2>1, <2>2 DEF GoodIn, CoverIn
  <2>4. grid.base \cap Grid!ToSet(FirstOf(l, q.page)) \subseteq KnownIn(grid, p)
    <3>1. CASE q.replace
      <4>1. q.page = 1  BY <2>2, <3>1
      <4>2. PageOf(l, q.page) = FirstOf(l, q.page)  BY <1>6, <4>1, PageOne
      <4>. QED  BY <1>7, <3>1, <4>2 DEF KnownIn
    <3>2. CASE ~q.replace
      <4>1. n = grid.page
        <5>1. grid.page + 1 = n + 1  BY <1>4, <2>2, <3>2
        <5>. QED  BY <2>2, <5>1
      <4>2. ListCoversIn(db, grid)  BY <2>1, <2>2, <2>3, <3>2
      <4>3. grid.base \cap Grid!ToSet(FirstOf(l, n)) \subseteq Grid!ToSet(grid.seeds)
        BY <2>2, <4>1, <4>2 DEF ListCoversIn
      <4>4. KnownIn(grid, p) = Grid!ToSet(PageOf(l, q.page)) \cup Grid!ToSet(grid.seeds)
        BY <1>7, <3>2 DEF KnownIn
      <4>. QED  BY <1>5, <4>3, <4>4
    <3>. QED  BY <3>1, <3>2
  <2>5. ASSUME ~grid.slipped, Grid!Pages(q.total) <= q.page
        PROVE  grid.base \cap RowsBy(q.filter) \subseteq KnownIn(grid, p)
    <3>1. q.total = Len(l)  BY <1>1, <2>3, <2>5 DEF AnswerCoversIn
    <3>2. FirstOf(l, q.page) = l  BY <1>3, <1>6, <2>5, <3>1, LastPage
    <3>3. grid.base \cap RowsBy(q.filter) \subseteq Grid!ToSet(l)  BY <1>6, <2>3
    <3>. QED  BY <2>4, <3>2, <3>3
  <2>. QED  BY <1>7, <2>2, <2>4, <2>5 DEF AnswerCoversIn
<1>10. ASSUME p.current, ~grid.shrunk, ~grid.grown PROVE AnswerExactIn(db, p)
  <2>1. q.current  BY <1>7, <1>10
  <2>2. grid # Unmounted  BY <1>1, <2>1, OneCounts
  <2>3. AnswerExactIn(db, q)  BY <1>1, <1>10, <2>1, <2>2 DEF GoodIn, ExactIn
  <2>. QED  BY <1>1, <1>7, <2>3 DEF AnswerExactIn
<1>. QED  BY <1>1, <1>7, <1>8, <1>9, <1>10, Swap

\* A number of pages is a number.
LEMMA PagesNat == ASSUME NEW n \in Nat PROVE Grid!Pages(n) \in Int
<1>1. PageSize \in Nat /\ PageSize > 0  BY PageSizes
<1>2. PICK x \in Nat : x = n + PageSize - 1
  <2>1. PICK s \in Nat : s = PageSize /\ s > 0  BY <1>1
  <2>2. n + s - 1 \in Nat  BY <2>1
  <2>. QED  BY <2>1, <2>2
<1>3. x \div PageSize \in Nat  BY <1>1, <1>2, DivMod
<1>. QED  BY <1>2, <1>3 DEF Grid!Pages
\* The request that counted is gone: what remains to show is about the list h alone.
LEMMA Settles ==
    ASSUME NEW t, NEW g, NEW Q, GoodIn(t, g, Q), NEW q \in Q, q.current,
           NEW h \in Grid!GridStates, h.base = g.base, h.shrunk = g.shrunk, h.grown = g.grown,
           ~h.firstFailed => Grid!ToSet(h.seeds) \subseteq RowsBy(h.filter),
           ~h.firstFailed /\ ~h.shrunk => ListCoversIn(t, h),
           ~h.firstFailed /\ ~h.shrunk /\ ~h.grown => ListExactIn(t, h)
    PROVE  GoodIn(t, h, Q \ {q})
<1>. DEFINE P == Q \ {q}
<1>0. TypeIn(t, g, Q) /\ CurrentIn(g, Q) /\ RowsIn(g, Q) /\ CoverIn(t, g, Q)  BY DEF GoodIn
<1>a. g # Unmounted /\ \A p \in Q : p.current => p = q  BY OneCounts
<1>1. \A p \in P : ~p.current  BY <1>a
<1>b. h # Unmounted  BY UnmountedAssumption
<1>2. TypeIn(t, h, P)  BY <1>0, <1>b DEF TypeIn
<1>3. CurrentIn(h, P)  BY <1>1 DEF CurrentIn
<1>4. StartedIn(h, P) => ~h.firstFailed  BY DEF StartedIn
<1>5. RowsIn(h, P)  BY <1>0, <1>4 DEF RowsIn
<1>6. ~h.shrunk => \A r \in h.base : t[r] = "in"  BY <1>0, <1>a DEF CoverIn
<1>7. \A p \in P : ~CountsIn(h, p)  BY <1>1 DEF CountsIn
<1>8. CoverIn(t, h, P)  BY <1>4, <1>6, <1>7 DEF CoverIn
<1>9. ExactIn(t, h, P)  BY <1>1, <1>4 DEF ExactIn
<1>. QED  BY <1>2, <1>3, <1>5, <1>8, <1>9 DEF GoodIn

\* A request fails.
LEMMA FailKeeps ==
    ASSUME GoodIn(db, grid, requests), NEW q, Grid!Fail(q)
    PROVE  GoodIn(db', grid', requests') /\ grid' # Unmounted
<1>1. q \in requests /\ requests' = requests \ {q} /\ db' = db  BY DEF Grid!Fail
<1>0. grid # Unmounted  BY <1>1 DEF GoodIn, TypeIn
<1>2. CASE ~q.current
  <2>1. grid' = grid  BY <1>2 DEF Grid!Fail
  <2>. QED  BY <1>0, <1>1, <1>2, <2>1, Dropped
<1>3. CASE q.current
  <2>1. grid \in Grid!GridStates /\ q \in Grid!Requests /\ grid # Unmounted
    BY <1>1, <1>3, OneCounts
  <2>2. grid' = [grid EXCEPT !.error = TRUE, !.loading = FALSE, !.firstFailed = @ \/ q.replace]
    BY <1>3 DEF Grid!Fail
  <2>3. q.replace \in BOOLEAN /\ grid.firstFailed \in BOOLEAN
    BY <2>1 DEF Grid!GridStates, Grid!Requests
  <2>4. /\ grid' \in Grid!GridStates /\ grid'.base = grid.base /\ grid'.shrunk = grid.shrunk
        /\ grid'.grown = grid.grown /\ grid'.seeds = grid.seeds /\ grid'.filter = grid.filter
        /\ grid'.page = grid.page /\ grid'.total = grid.total /\ grid'.hasMore = grid.hasMore
        /\ grid'.slipped = grid.slipped /\ grid'.firstFailed = (grid.firstFailed \/ q.replace)
    BY <2>1, <2>2, <2>3 DEF Grid!GridStates
  <2>5. ~grid'.firstFailed => StartedIn(grid, requests)  BY <1>1, <1>3, <2>4, OneCounts
  <2>6. ~grid'.firstFailed => Grid!ToSet(grid'.seeds) \subseteq RowsBy(grid'.filter)
    BY <2>1, <2>4, <2>5 DEF GoodIn, RowsIn
  <2>7. ~grid'.firstFailed /\ ~grid'.shrunk => ListCoversIn(db, grid')
    <3>1. ~grid'.firstFailed /\ ~grid'.shrunk => ListCoversIn(db, grid)
      BY <2>1, <2>4, <2>5 DEF GoodIn, CoverIn
    <3>. QED  BY <2>4, <3>1 DEF ListCoversIn
  <2>8. ~grid'.firstFailed /\ ~grid'.shrunk /\ ~grid'.grown => ListExactIn(db, grid')
    <3>1. ~grid'.firstFailed /\ ~grid'.shrunk /\ ~grid'.grown => ListExactIn(db, grid)
      BY <2>1, <2>4, <2>5 DEF GoodIn, ExactIn
    <3>. QED  BY <2>4, <3>1 DEF ListExactIn
  <2>9. grid' # Unmounted  BY <2>4, UnmountedAssumption
  <2>. QED  BY <1>1, <1>3, <2>4, <2>6, <2>7, <2>8, <2>9, Settles
<1>. QED  BY <1>2, <1>3

\* An answer arrives: the list that it replaces or continues is again the beginning
\* of a list of the filter.
LEMMA DeliverKeeps ==
    ASSUME GoodIn(db, grid, requests), NEW q, Grid!Deliver(q)
    PROVE  GoodIn(db', grid', requests') /\ grid' # Unmounted
<1>1. q \in requests /\ q.step = "selected" /\ requests' = requests \ {q} /\ db' = db
  BY DEF Grid!Deliver
<1>0. grid # Unmounted  BY <1>1 DEF GoodIn, TypeIn
<1>2. CASE ~q.current
  <2>1. grid' = grid  BY <1>2 DEF Grid!Deliver
  <2>. QED  BY <1>0, <1>1, <1>2, <2>1, Dropped
<1>3. CASE q.current
  <2>. DEFINE s == IF q.replace THEN q.rows ELSE grid.seeds \o q.rows
              l == Lst(db, grid.filter)
  <2>1. /\ grid \in Grid!GridStates /\ q \in Grid!Requests /\ grid # Unmounted
        /\ q.filter = grid.filter /\ q.page = (IF q.replace THEN 1 ELSE grid.page + 1)
        /\ grid.page \in Nat /\ grid.filter \in DOMAIN Order /\ q.total \in Nat
        /\ ~q.replace /\ ~grid.firstFailed => StartedIn(grid, requests)
    BY <1>1, <1>3, OneCounts
  <2>2. /\ q.rows \in Seq(Rows) /\ q.page \in Nat \ {0} /\ q.replace \in BOOLEAN
        /\ grid.seeds \in Seq(Rows)
    BY <2>1 DEF Grid!GridStates, Grid!Requests
  <2>3. grid.seeds \o q.rows \in Seq(Rows)
        /\ Grid!ToSet(grid.seeds \o q.rows) = Grid!ToSet(grid.seeds) \cup Grid!ToSet(q.rows)
    BY <2>2, ConcatSet
  <2>4. s \in Seq(Rows) /\ Grid!ToSet(s) = KnownIn(grid, q)
    BY <2>2, <2>3 DEF KnownIn
  <2>5. Grid!Pages(q.total) \in Int  BY <2>1, PagesNat
  <2>6. grid' = [grid EXCEPT !.seeds = s, !.total = q.total, !.hasMore = q.page < Grid!Pages(q.total),
                             !.page = q.page, !.loading = FALSE]
    BY <1>3 DEF Grid!Deliver
  <2>7. /\ grid' \in Grid!GridStates /\ grid'.base = grid.base /\ grid'.shrunk = grid.shrunk
        /\ grid'.grown = grid.grown /\ grid'.seeds = s /\ grid'.filter = grid.filter
        /\ grid'.page = q.page /\ grid'.total = q.total /\ grid'.slipped = grid.slipped
        /\ grid'.firstFailed = grid.firstFailed /\ grid'.hasMore = (q.page < Grid!Pages(q.total))
    <3>. HIDE DEF s
    <3>1. (q.page < Grid!Pages(q.total)) \in BOOLEAN  OBVIOUS
    <3>2. q.page \in Nat  BY <2>2
    <3>. QED  BY <2>1, <2>4, <2>6, <3>1, <3>2 DEF Grid!GridStates
  <2>. HIDE DEF l
  <2>8. ASSUME ~grid'.firstFailed PROVE Grid!ToSet(grid'.seeds) \subseteq RowsBy(grid'.filter)
    <3>. HIDE DEF s
    <3>1. Grid!ToSet(q.rows) \subseteq RowsBy(grid.filter)  BY <1>1, <2>1 DEF GoodIn, RowsIn
    <3>2. ~q.replace => Grid!ToSet(grid.seeds) \subseteq RowsBy(grid.filter)
      BY <2>1, <2>7, <2>8 DEF GoodIn, RowsIn
    <3>. QED  BY <2>4, <2>7, <3>1, <3>2 DEF KnownIn
  <2>9. ASSUME ~grid'.firstFailed, ~grid'.shrunk PROVE ListCoversIn(db, grid')
    <3>. HIDE DEF s
    <3>1. CountsIn(grid, q)  BY <1>3, <2>7, <2>9 DEF CountsIn
    <3>2. AnswerCoversIn(db, grid, q)  BY <1>1, <2>1, <2>7, <2>9, <3>1 DEF GoodIn, CoverIn
    <3>3. grid.base \cap Grid!ToSet(FirstOf(l, q.page)) \subseteq KnownIn(grid, q)
      BY <1>1, <3>2 DEF AnswerCoversIn, l
    <3>4. ~grid.slipped /\ Grid!Pages(q.total) <= q.page =>
             grid.base \cap RowsBy(grid.filter) \subseteq KnownIn(grid, q)
      BY <1>1, <2>1, <3>2 DEF AnswerCoversIn
    <3>5. ~grid'.hasMore => Grid!Pages(q.total) <= q.page
      <4>1. PICK a \in Int : a = Grid!Pages(q.total)  BY <2>5
      <4>2. PICK b \in Nat : b = q.page  BY <2>2
      <4>3. grid'.hasMore = (b < a)  BY <2>7, <4>1, <4>2
      <4>4. ~(b < a) => a <= b  OBVIOUS
      <4>. QED  BY <4>1, <4>2, <4>3, <4>4
    <3>. QED  BY <2>4, <2>7, <3>3, <3>4, <3>5 DEF ListCoversIn, l
  <2>10. ASSUME ~grid'.firstFailed, ~grid'.shrunk, ~grid'.grown PROVE ListExactIn(db, grid')
    <3>1. AnswerExactIn(db, q)  BY <1>1, <1>3, <2>1, <2>7, <2>10 DEF GoodIn, ExactIn
    <3>2. q.total = Len(l) /\ q.rows = PageOf(l, q.page)  BY <1>1, <2>1, <3>1 DEF AnswerExactIn, l
    <3>3. l \in Seq(Rows)  BY <2>1, ListFacts DEF l
    <3>4. s = FirstOf(l, q.page)
      <4>1. CASE q.replace
        <5>1. q.page = 1  BY <2>1, <4>1
        <5>. QED  BY <3>2, <3>3, <4>1, <5>1, PageOne
      <4>2. CASE ~q.replace
        <5>1. StartedIn(grid, requests)  BY <2>1, <2>7, <2>10, <4>2
        <5>2. ListExactIn(db, grid)  BY <2>1, <2>7, <2>10, <5>1 DEF GoodIn, ExactIn
        <5>3. grid.seeds = FirstOf(l, grid.page)  BY <5>2 DEF ListExactIn, l
        <5>4. q.page = grid.page + 1  BY <2>1, <4>2
        <5>5. FirstOf(l, grid.page) \o PageOf(l, grid.page + 1) = FirstOf(l, grid.page + 1)
          BY <2>1, <3>3, NextPage
        <5>. QED  BY <3>2, <4>2, <5>3, <5>4, <5>5
      <4>. QED  BY <4>1, <4>2
    <3>. HIDE DEF s
    <3>. QED  BY <2>7, <3>2, <3>4 DEF ListExactIn, l
  <2>. HIDE DEF s
  <2>11. grid' # Unmounted  BY <2>7, UnmountedAssumption
  <2>. QED  BY <1>1, <1>3, <2>7, <2>8, <2>9, <2>10, <2>11, Settles
<1>. QED  BY <1>2, <1>3
\* The requests, made void; and a new one.
Voided(Q) == {[p EXCEPT !.current = FALSE] : p \in Q}
NewRequest(f, n, replace) ==
    [filter |-> f, page |-> n, replace |-> replace, current |-> TRUE, step |-> "sent",
     total |-> 0, rows |-> <<>>]

\* A new request is the only one that counts.
LEMMA FetchFacts ==
    ASSUME NEW t, NEW g, NEW Q, GoodIn(t, g, Q), NEW q, q \in Grid!Requests, q.rows = <<>>
    PROVE  \A p \in Voided(Q) \cup {q} : /\ p \in Grid!Requests /\ (p.current => p = q)
                                        /\ Grid!ToSet(p.rows) \subseteq RowsBy(p.filter)
<1>3. Grid!ToSet(q.rows) \subseteq RowsBy(q.filter)
  <2>1. DOMAIN q.rows = {}  OBVIOUS
  <2>. QED  BY <2>1 DEF Grid!ToSet
<1>4. ASSUME NEW p \in Q
      PROVE  /\ [p EXCEPT !.current = FALSE] \in Grid!Requests /\ ~[p EXCEPT !.current = FALSE].current
             /\ [p EXCEPT !.current = FALSE].rows = p.rows
             /\ [p EXCEPT !.current = FALSE].filter = p.filter
  <2>1. p \in Grid!Requests  BY DEF GoodIn, TypeIn
  <2>. QED  BY <2>1 DEF Grid!Requests
<1>5. \A p \in Q : Grid!ToSet(p.rows) \subseteq RowsBy(p.filter)  BY DEF GoodIn, RowsIn
<1>6. ASSUME NEW p \in Voided(Q) \cup {q}
      PROVE  /\ p \in Grid!Requests /\ (p.current => p = q)
             /\ Grid!ToSet(p.rows) \subseteq RowsBy(p.filter)
  <2>1. CASE p = q  BY <1>3, <2>1
  <2>2. CASE \E r \in Q : p = [r EXCEPT !.current = FALSE]
    <3>1. PICK r \in Q : p = [r EXCEPT !.current = FALSE]  BY <2>2
    <3>2. p \in Grid!Requests /\ ~p.current /\ p.rows = r.rows /\ p.filter = r.filter  BY <1>4, <3>1
    <3>. QED  BY <1>5, <3>2
  <2>. QED  BY <2>1, <2>2 DEF Voided
<1>. QED  BY <1>6

\* A filter is set: the first page is asked for.
LEMMA FirstPageKeeps ==
    ASSUME GoodIn(db, grid, requests), NEW f \in DOMAIN Order, NEW shown \in Seq(Rows),
           NEW total \in Nat, Grid!FirstPage(f, shown, total), db' = db
    PROVE  GoodIn(db', grid', requests') /\ grid' # Unmounted
<1>. DEFINE base == {r \in Rows : db[r] = "in"}
            h == [filter |-> f, seeds |-> shown, total |-> total, page |-> 1, hasMore |-> TRUE,
                  base |-> base, grown |-> FALSE, shrunk |-> FALSE,
                  slipped |-> FALSE, firstFailed |-> FALSE, loading |-> TRUE, error |-> FALSE,
                  inView |-> FALSE]
            q == NewRequest(h.filter, 1, TRUE)
<1>1. grid' = [h EXCEPT !.loading = TRUE, !.error = FALSE]  BY DEF Grid!FirstPage, Grid!FetchPage
<1>2. grid' = h  BY <1>1
<1>3. requests' = Voided(requests) \cup {q}  BY DEF Grid!FirstPage, Grid!FetchPage, Voided, NewRequest
<1>4. base \subseteq Rows  OBVIOUS
<1>5. h \in Grid!GridStates /\ h.loading /\ h.page = 1 /\ h.base = base
  <2>. HIDE DEF base
  <2>. QED  BY <1>4 DEF Grid!GridStates, Grid!Filters
<1>6. /\ q \in requests' /\ q.filter = h.filter /\ q.page = 1 /\ q.replace /\ q.step = "sent"
      /\ q.current
      /\ \A p \in requests' : /\ p \in Grid!Requests /\ (p.current => p = q)
                              /\ Grid!ToSet(p.rows) \subseteq RowsBy(p.filter)
  <2>. HIDE DEF h
  <2>1. 1 \in Nat \ {0} /\ 0 \in Nat /\ <<>> \in Seq(Rows)  OBVIOUS
  <2>2. h.filter \in DOMAIN Order  BY <1>5 DEF Grid!GridStates, Grid!Filters
  <2>3. /\ q \in Grid!Requests /\ q.filter = h.filter /\ q.page = 1 /\ q.replace = TRUE
        /\ q.step = "sent" /\ q.current = TRUE /\ q.rows = <<>>
    BY <2>1, <2>2 DEF NewRequest, Grid!Requests, Grid!Filters
  <2>. HIDE DEF q
  <2>4. \A p \in requests' : /\ p \in Grid!Requests /\ (p.current => p = q)
                             /\ Grid!ToSet(p.rows) \subseteq RowsBy(p.filter)
    BY <1>3, <2>3, FetchFacts
  <2>. QED  BY <1>3, <2>3, <2>4
<1>. HIDE DEF h, q
<1>7. h # Unmounted  BY <1>5, UnmountedAssumption
<1>8. TypeIn(db, h, requests')  BY <1>5, <1>6, <1>7 DEF TypeIn, GoodIn
<1>9. CurrentIn(h, requests')  BY <1>5, <1>6 DEF CurrentIn
<1>10. ~StartedIn(h, requests')  BY <1>6 DEF StartedIn
<1>11. RowsIn(h, requests')  BY <1>6, <1>10 DEF RowsIn
<1>12. \A p \in requests' : p.current => p.step = "sent"  BY <1>6
<1>13. CoverIn(db, h, requests')
  <2>1. \A r \in h.base : db[r] = "in"  BY <1>5
  <2>2. \A p \in requests' : CountsIn(h, p) => AnswerCoversIn(db, h, p)
    BY <1>12 DEF CountsIn, AnswerCoversIn
  <2>. QED  BY <1>10, <2>1, <2>2 DEF CoverIn
<1>14. ExactIn(db, h, requests')  BY <1>10, <1>12 DEF ExactIn, AnswerExactIn
<1>. QED  BY <1>2, <1>7, <1>8, <1>9, <1>11, <1>13, <1>14 DEF GoodIn

\* The observer reports, and nothing comes of it.
LEMMA ReportKeeps ==
    ASSUME GoodIn(db, grid, requests), grid # Unmounted, NEW v \in BOOLEAN,
           grid' = [grid EXCEPT !.inView = v], requests' = requests, db' = db
    PROVE  GoodIn(db', grid', requests') /\ grid' # Unmounted
<1>1. grid \in Grid!GridStates  BY DEF GoodIn, TypeIn
<1>2. /\ grid' \in Grid!GridStates /\ grid'.loading = grid.loading /\ grid'.filter = grid.filter
      /\ grid'.page = grid.page /\ grid'.seeds = grid.seeds /\ grid'.base = grid.base
      /\ grid'.shrunk = grid.shrunk /\ grid'.grown = grid.grown /\ grid'.slipped = grid.slipped
      /\ grid'.firstFailed = grid.firstFailed /\ grid'.hasMore = grid.hasMore
      /\ grid'.total = grid.total
  BY <1>1 DEF Grid!GridStates
<1>3. grid' # Unmounted  BY <1>2, UnmountedAssumption
<1>4. TypeIn(db', grid', requests')  BY <1>2, <1>3 DEF GoodIn, TypeIn
<1>5. CurrentIn(grid', requests')  BY <1>2 DEF GoodIn, CurrentIn
<1>6. StartedIn(grid', requests') <=> StartedIn(grid, requests)  BY <1>2 DEF StartedIn
<1>7. RowsIn(grid', requests')  BY <1>2, <1>6 DEF GoodIn, RowsIn
<1>8. CoverIn(db', grid', requests')
  <2>1. ListCoversIn(db', grid') <=> ListCoversIn(db, grid)  BY <1>2 DEF ListCoversIn
  <2>2. \A q : AnswerCoversIn(db', grid', q) <=> AnswerCoversIn(db, grid, q)
    BY <1>2 DEF AnswerCoversIn, KnownIn
  <2>3. \A q : CountsIn(grid', q) <=> CountsIn(grid, q)  BY <1>2 DEF CountsIn
  <2>. QED  BY <1>2, <1>6, <2>1, <2>2, <2>3 DEF GoodIn, CoverIn
<1>9. ExactIn(db', grid', requests')
  <2>1. ListExactIn(db', grid') <=> ListExactIn(db, grid)  BY <1>2 DEF ListExactIn
  <2>. QED  BY <1>2, <1>6, <2>1 DEF GoodIn, ExactIn
<1>. QED  BY <1>3, <1>4, <1>5, <1>7, <1>8, <1>9 DEF GoodIn

\* The end of the list has come into view: the next page is asked for.
LEMMA NextPageKeeps ==
    ASSUME GoodIn(db, grid, requests), grid # Unmounted, ~grid.loading, db' = db,
           Grid!FetchPage([grid EXCEPT !.inView = TRUE], grid.page + 1, FALSE)
    PROVE  GoodIn(db', grid', requests') /\ grid' # Unmounted
<1>0. grid # Unmounted /\ ~grid.loading /\ db' = db  OBVIOUS
<1>1. grid \in Grid!GridStates  BY <1>0 DEF GoodIn, TypeIn
<1>. DEFINE g == [grid EXCEPT !.inView = TRUE]
            q == NewRequest(grid.filter, grid.page + 1, FALSE)
<1>a. g \in Grid!GridStates /\ g.filter = grid.filter  BY <1>1 DEF Grid!GridStates
<1>2. grid' = [g EXCEPT !.loading = TRUE, !.error = FALSE]  BY DEF Grid!FetchPage
<1>3. requests' = Voided(requests) \cup {q}  BY <1>a DEF Grid!FetchPage, Voided, NewRequest
<1>4. grid.page + 1 \in Nat \ {0}
  <2>1. PICK n \in Nat : n = grid.page  BY <1>1 DEF Grid!GridStates
  <2>2. n + 1 \in Nat \ {0}  OBVIOUS
  <2>. QED  BY <2>1, <2>2
<1>5. /\ q \in requests' /\ q.filter = grid.filter /\ q.page = grid.page + 1 /\ ~q.replace
      /\ q.step = "sent" /\ q.current
      /\ \A p \in requests' : /\ p \in Grid!Requests /\ (p.current => p = q)
                              /\ Grid!ToSet(p.rows) \subseteq RowsBy(p.filter)
  <2>1. 0 \in Nat /\ <<>> \in Seq(Rows)  OBVIOUS
  <2>2. grid.filter \in DOMAIN Order  BY <1>1 DEF Grid!GridStates, Grid!Filters
  <2>3. /\ q \in Grid!Requests /\ q.filter = grid.filter /\ q.page = grid.page + 1 /\ q.replace = FALSE
        /\ q.step = "sent" /\ q.current = TRUE /\ q.rows = <<>>
    BY <1>4, <2>1, <2>2 DEF NewRequest, Grid!Requests, Grid!Filters
  <2>. HIDE DEF q
  <2>4. \A p \in requests' : /\ p \in Grid!Requests /\ (p.current => p = q)
                             /\ Grid!ToSet(p.rows) \subseteq RowsBy(p.filter)
    BY <1>3, <2>3, FetchFacts
  <2>. QED  BY <1>3, <2>3, <2>4
<1>6. /\ grid' \in Grid!GridStates /\ grid'.loading /\ grid'.filter = grid.filter
      /\ grid'.page = grid.page /\ grid'.seeds = grid.seeds /\ grid'.base = grid.base
      /\ grid'.shrunk = grid.shrunk /\ grid'.grown = grid.grown /\ grid'.slipped = grid.slipped
      /\ grid'.firstFailed = grid.firstFailed /\ grid'.hasMore = grid.hasMore
      /\ grid'.total = grid.total
  BY <1>1, <1>2 DEF Grid!GridStates
<1>. HIDE DEF g, q
<1>7. grid' # Unmounted  BY <1>6, UnmountedAssumption
<1>8. \A p \in requests : ~p.current  BY <1>0 DEF GoodIn, CurrentIn
<1>9. StartedIn(grid', requests') => StartedIn(grid, requests)  BY <1>6, <1>8 DEF StartedIn
<1>10. TypeIn(db, grid', requests')  BY <1>5, <1>6, <1>7 DEF TypeIn, GoodIn
<1>11. CurrentIn(grid', requests')  BY <1>5, <1>6 DEF CurrentIn
<1>12. RowsIn(grid', requests')  BY <1>0, <1>5, <1>6, <1>9 DEF RowsIn, GoodIn
<1>13. \A p \in requests' : p.current => p.step = "sent"  BY <1>5
<1>14. CoverIn(db, grid', requests')
  <2>1. ASSUME ~grid.shrunk PROVE \A r \in grid.base : db[r] = "in"
    BY <1>0, <2>1 DEF GoodIn, CoverIn
  <2>2. ASSUME ~grid.shrunk, StartedIn(grid', requests') PROVE ListCoversIn(db, grid')
    <3>1. ListCoversIn(db, grid)  BY <1>0, <1>9, <2>2 DEF GoodIn, CoverIn
    <3>. QED  BY <1>6, <3>1 DEF ListCoversIn
  <2>3. \A p \in requests' : CountsIn(grid', p) => AnswerCoversIn(db, grid', p)
    BY <1>13 DEF CountsIn, AnswerCoversIn
  <2>. QED  BY <1>6, <2>1, <2>2, <2>3 DEF CoverIn
<1>15. ExactIn(db, grid', requests')
  <2>1. ASSUME ~grid.shrunk, ~grid.grown, StartedIn(grid', requests') PROVE ListExactIn(db, grid')
    <3>1. ListExactIn(db, grid)  BY <1>0, <1>9, <2>1 DEF GoodIn, ExactIn
    <3>. QED  BY <1>6, <3>1 DEF ListExactIn
  <2>2. \A p \in requests' : p.current => AnswerExactIn(db, p)  BY <1>13 DEF AnswerExactIn
  <2>. QED  BY <1>6, <2>1, <2>2 DEF ExactIn
<1>. QED  BY <1>0, <1>7, <1>10, <1>11, <1>12, <1>14, <1>15 DEF GoodIn

\* The observer reports that the end of the list has come into view, or left it.
LEMMA ObserverKeeps ==
    ASSUME GoodIn(db, grid, requests), Grid!Intersect \/ Grid!LeaveView
    PROVE  GoodIn(db', grid', requests') /\ grid' # Unmounted
<1>1. grid # Unmounted /\ db' = db  BY DEF Grid!Intersect, Grid!LeaveView, Grid!Mounted
<1>2. grid \in Grid!GridStates  BY <1>1 DEF GoodIn, TypeIn
<1>3. CASE Grid!Intersect
  <2>. DEFINE g == [grid EXCEPT !.inView = TRUE]
  <2>1. g.loading = grid.loading /\ g.hasMore = grid.hasMore /\ g.page = grid.page
    BY <1>2 DEF Grid!GridStates
  <2>2. IF ~g.loading /\ g.hasMore
          THEN Grid!FetchPage(g, g.page + 1, FALSE)
          ELSE grid' = g /\ requests' = requests
    BY <1>3 DEF Grid!Intersect
  <2>3. CASE ~grid.loading /\ grid.hasMore
    <3>1. Grid!FetchPage(g, grid.page + 1, FALSE)  BY <2>1, <2>2, <2>3
    <3>. QED  BY <1>1, <2>3, <3>1, NextPageKeeps
  <2>4. CASE ~(~grid.loading /\ grid.hasMore)
    <3>1. grid' = g /\ requests' = requests  BY <2>1, <2>2, <2>4
    <3>. QED  BY <1>1, <3>1, ReportKeeps
  <2>. QED  BY <2>3, <2>4
<1>4. CASE Grid!LeaveView
  <2>1. grid' = [grid EXCEPT !.inView = FALSE] /\ requests' = requests  BY <1>4 DEF Grid!LeaveView
  <2>. QED  BY <1>1, <2>1, ReportKeeps
<1>. QED  BY <1>3, <1>4
\* A find is uploaded: it moves rows to later pages, never to earlier ones.
LEMMA InsertRowKeeps ==
    ASSUME GoodIn(db, grid, requests), NEW r \in Rows, Grid!InsertRow(r)
    PROVE  GoodIn(db', grid', requests') /\ (grid' = Unmounted <=> grid = Unmounted)
<1>1. db[r] = "later" /\ db' = [db EXCEPT ![r] = "in"] /\ requests' = requests  BY DEF Grid!InsertRow
<1>2. db \in [Rows -> {"later", "in", "gone"}]  BY DEF GoodIn, TypeIn
<1>3. db' \in [Rows -> {"later", "in", "gone"}] /\ Grows(Rows, db, db')  BY <1>1, <1>2 DEF Grows
<1>4. CASE grid = Unmounted
  <2>1. grid' = Unmounted  BY <1>4 DEF Grid!InsertRow, Grid!Mounted
  <2>2. requests' = {}  BY <1>1, <1>4 DEF GoodIn, TypeIn
  <2>. QED  BY <1>3, <1>4, <2>1, <2>2, GoodUnmounted
<1>5. CASE grid # Unmounted
  <2>. DEFINE c == \E q \in requests : q.current /\ q.step = "counted"
  <2>1. grid \in Grid!GridStates  BY <1>5 DEF GoodIn, TypeIn
  <2>2. grid' = [grid EXCEPT !.grown = TRUE, !.slipped = @ \/ c]
    BY <1>5 DEF Grid!InsertRow, Grid!Mounted
  <2>c. c \in BOOLEAN  OBVIOUS
  <2>. HIDE DEF c
  <2>3. /\ grid' \in Grid!GridStates /\ grid'.loading = grid.loading /\ grid'.filter = grid.filter
        /\ grid'.page = grid.page /\ grid'.seeds = grid.seeds /\ grid'.base = grid.base
        /\ grid'.shrunk = grid.shrunk /\ grid'.grown /\ grid'.slipped = (grid.slipped \/ c)
        /\ grid'.firstFailed = grid.firstFailed /\ grid'.hasMore = grid.hasMore
        /\ grid'.total = grid.total
    <3>1. grid.slipped \in BOOLEAN  BY <2>1 DEF Grid!GridStates
    <3>2. (grid.slipped \/ c) \in BOOLEAN  OBVIOUS
    <3>. QED  BY <2>1, <2>2, <2>c, <3>1, <3>2 DEF Grid!GridStates
  <2>4. grid' # Unmounted  BY <2>3, UnmountedAssumption
  <2>5. grid.filter \in DOMAIN Order /\ grid.page \in Nat /\ grid.base \subseteq Rows
    BY <2>1 DEF Grid!GridStates, Grid!Filters
  <2>6. TypeIn(db', grid', requests')  BY <1>1, <1>3, <2>3, <2>4 DEF GoodIn, TypeIn
  <2>7. CurrentIn(grid', requests')  BY <1>1, <2>3 DEF GoodIn, CurrentIn
  <2>8. StartedIn(grid', requests') <=> StartedIn(grid, requests)  BY <1>1, <2>3 DEF StartedIn
  <2>9. RowsIn(grid', requests')  BY <1>1, <1>5, <2>3, <2>8 DEF GoodIn, RowsIn
  <2>10. CoverIn(db', grid', requests')
    <3>1. SUFFICES ASSUME ~grid.shrunk
                   PROVE  /\ \A x \in grid'.base : db'[x] = "in"
                          /\ StartedIn(grid', requests') => ListCoversIn(db', grid')
                          /\ \A q \in requests' : CountsIn(grid', q) => AnswerCoversIn(db', grid', q)
      BY <2>3 DEF CoverIn
    <3>2. /\ \A x \in grid.base : db[x] = "in"
          /\ StartedIn(grid, requests) => ListCoversIn(db, grid)
          /\ \A q \in requests : CountsIn(grid, q) => AnswerCoversIn(db, grid, q)
      BY <1>5, <3>1 DEF GoodIn, CoverIn
    <3>3. \A x \in grid.base : db'[x] = "in"  BY <1>3, <2>5, <3>2 DEF Grows
    <3>4. ASSUME NEW n \in Nat
          PROVE  grid.base \cap Grid!ToSet(FirstOf(Lst(db', grid.filter), n))
                    \subseteq Grid!ToSet(FirstOf(Lst(db, grid.filter), n))
      <4>1. \A x \in Grid!ToSet(FirstOf(Lst(db', grid.filter), n)) :
               db[x] = "in" => x \in Grid!ToSet(FirstOf(Lst(db, grid.filter), n))
        BY <1>3, <2>5, MoreRows
      <4>. QED  BY <3>2, <4>1
    <3>5. ASSUME StartedIn(grid', requests') PROVE ListCoversIn(db', grid')
      <4>1. ListCoversIn(db, grid)  BY <2>8, <3>2, <3>5
      <4>2. grid.base \cap Grid!ToSet(FirstOf(Lst(db', grid.filter), grid.page))
               \subseteq Grid!ToSet(grid.seeds)
        BY <2>5, <3>4, <4>1 DEF ListCoversIn
      <4>. QED  BY <2>3, <4>1, <4>2 DEF ListCoversIn
    <3>6. ASSUME NEW q \in requests, CountsIn(grid', q) PROVE AnswerCoversIn(db', grid', q)
      <4>1. q.current /\ CountsIn(grid, q)  BY <2>3, <3>6 DEF CountsIn
      <4>2. AnswerCoversIn(db, grid, q)  BY <3>2, <4>1
      <4>3. q.page \in Nat
        <5>1. q \in Grid!Requests  BY DEF GoodIn, TypeIn
        <5>2. q.page \in Nat \ {0}  BY <5>1 DEF Grid!Requests
        <5>. QED  BY <5>2
      <4>4. q.step = "counted" => grid'.slipped  BY <2>3, <4>1 DEF c
      <4>5. KnownIn(grid', q) = KnownIn(grid, q)  BY <2>3 DEF KnownIn
      <4>6. q.step = "selected" =>
               grid.base \cap Grid!ToSet(FirstOf(Lst(db', grid.filter), q.page)) \subseteq KnownIn(grid, q)
        BY <3>4, <4>2, <4>3 DEF AnswerCoversIn
      <4>7. ~grid'.slipped => ~grid.slipped  BY <2>3
      <4>. QED  BY <2>3, <4>2, <4>4, <4>5, <4>6, <4>7 DEF AnswerCoversIn
    <3>. QED  BY <1>1, <2>3, <3>3, <3>5, <3>6
  <2>11. ExactIn(db', grid', requests')  BY <2>3 DEF ExactIn
  <2>. QED  BY <1>5, <2>4, <2>6, <2>7, <2>9, <2>10, <2>11 DEF GoodIn
<1>. QED  BY <1>4, <1>5

\* A row is deleted: nothing is claimed of the list any more, but that it belongs
\* to its filter.
LEMMA DeleteRowKeeps ==
    ASSUME GoodIn(db, grid, requests), NEW r \in Rows, Grid!DeleteRow(r)
    PROVE  GoodIn(db', grid', requests') /\ (grid' = Unmounted <=> grid = Unmounted)
<1>1. db' = [db EXCEPT ![r] = "gone"] /\ requests' = requests  BY DEF Grid!DeleteRow
<1>2. db \in [Rows -> {"later", "in", "gone"}]  BY DEF GoodIn, TypeIn
<1>3. db' \in [Rows -> {"later", "in", "gone"}]  BY <1>1, <1>2
<1>4. CASE grid = Unmounted
  <2>1. grid' = Unmounted  BY <1>4 DEF Grid!DeleteRow, Grid!Mounted
  <2>2. requests' = {}  BY <1>1, <1>4 DEF GoodIn, TypeIn
  <2>. QED  BY <1>3, <1>4, <2>1, <2>2, GoodUnmounted
<1>5. CASE grid # Unmounted
  <2>1. grid \in Grid!GridStates  BY <1>5 DEF GoodIn, TypeIn
  <2>2. grid' = [grid EXCEPT !.shrunk = TRUE]  BY <1>5 DEF Grid!DeleteRow, Grid!Mounted
  <2>3. /\ grid' \in Grid!GridStates /\ grid'.loading = grid.loading /\ grid'.filter = grid.filter
        /\ grid'.page = grid.page /\ grid'.seeds = grid.seeds /\ grid'.shrunk
        /\ grid'.firstFailed = grid.firstFailed
    BY <2>1, <2>2 DEF Grid!GridStates
  <2>4. grid' # Unmounted  BY <2>3, UnmountedAssumption
  <2>5. TypeIn(db', grid', requests')  BY <1>1, <1>3, <2>3, <2>4 DEF GoodIn, TypeIn
  <2>6. CurrentIn(grid', requests')  BY <1>1, <2>3 DEF GoodIn, CurrentIn
  <2>7. StartedIn(grid', requests') <=> StartedIn(grid, requests)  BY <1>1, <2>3 DEF StartedIn
  <2>8. RowsIn(grid', requests')  BY <1>1, <1>5, <2>3, <2>7 DEF GoodIn, RowsIn
  <2>9. CoverIn(db', grid', requests') /\ ExactIn(db', grid', requests')
    BY <2>3 DEF CoverIn, ExactIn
  <2>. QED  BY <1>5, <2>4, <2>5, <2>6, <2>8, <2>9 DEF GoodIn
<1>. QED  BY <1>4, <1>5
\* A step of the list.
LEMMA GridKeeps ==
    ASSUME GoodIn(db, grid, requests), Grid!Next
    PROVE  GoodIn(db', grid', requests') /\ (grid' = Unmounted <=> grid = Unmounted)
<1>1. ASSUME NEW f \in Grid!Filters, Grid!ChangeFilter(f)
      PROVE  GoodIn(db', grid', requests') /\ (grid' = Unmounted <=> grid = Unmounted)
  <2>1. grid # Unmounted /\ Grid!FirstPage(f, grid.seeds, grid.total) /\ db' = db
    BY <1>1 DEF Grid!ChangeFilter, Grid!Mounted
  <2>2. grid \in Grid!GridStates  BY <2>1 DEF GoodIn, TypeIn
  <2>3. grid.seeds \in Seq(Rows) /\ grid.total \in Nat  BY <2>2 DEF Grid!GridStates
  <2>4. f \in DOMAIN Order  BY DEF Grid!Filters
  <2>. QED  BY <2>1, <2>3, <2>4, FirstPageKeeps
<1>2. CASE Grid!Intersect \/ Grid!LeaveView
  <2>1. grid # Unmounted  BY <1>2 DEF Grid!Intersect, Grid!LeaveView, Grid!Mounted
  <2>. QED  BY <1>2, <2>1, ObserverKeeps
<1>3. ASSUME NEW q \in requests, Grid!Count(q) \/ Grid!Select(q) \/ Grid!Deliver(q) \/ Grid!Fail(q)
      PROVE  GoodIn(db', grid', requests') /\ (grid' = Unmounted <=> grid = Unmounted)
  <2>1. grid # Unmounted  BY DEF GoodIn, TypeIn
  <2>2. CASE Grid!Count(q)
    <3>1. grid' = grid  BY <2>2 DEF Grid!Count
    <3>. QED  BY <2>2, <3>1, CountKeeps
  <2>3. CASE Grid!Select(q)
    <3>1. grid' = grid  BY <2>3 DEF Grid!Select
    <3>. QED  BY <2>3, <3>1, SelectKeeps
  <2>4. CASE Grid!Deliver(q)  BY <2>1, <2>4, DeliverKeeps
  <2>5. CASE Grid!Fail(q)  BY <2>1, <2>5, FailKeeps
  <2>. QED  BY <1>3, <2>2, <2>3, <2>4, <2>5
<1>4. ASSUME NEW r \in Rows, Grid!InsertRow(r)
      PROVE  GoodIn(db', grid', requests') /\ (grid' = Unmounted <=> grid = Unmounted)
  BY <1>4, InsertRowKeeps
<1>. QED  BY <1>1, <1>2, <1>3, <1>4 DEF Grid!Next, Grid!Serve

\* The list comes onto the page.
LEMMA MountKeeps ==
    ASSUME GoodIn(db, grid, requests), Grid!Mount
    PROVE  GoodIn(db', grid', requests') /\ grid' # Unmounted
<1>1. Grid!FirstPage(FirstFilter, <<>>, 0) /\ db' = db  BY DEF Grid!Mount
<1>2. FirstFilter \in DOMAIN Order  BY ViewerAssumption
<1>3. <<>> \in Seq(Rows) /\ 0 \in Nat  OBVIOUS
<1>. QED  BY <1>1, <1>2, <1>3, FirstPageKeeps

\* The list leaves it.
LEMMA UnmountKeeps ==
    ASSUME GoodIn(db, grid, requests), Grid!Unmount
    PROVE  GoodIn(db', grid', requests') /\ grid' = Unmounted
<1>1. grid' = Unmounted /\ requests' = {} /\ db' = db  BY DEF Grid!Unmount
<1>2. db \in [Rows -> {"later", "in", "gone"}]  BY DEF GoodIn, TypeIn
<1>. QED  BY <1>1, <1>2, GoodUnmounted
(***************************************************************************)
(* The map                                                                 *)
(***************************************************************************)

\* A function on the first numbers is a sequence.
LEMMA FunctionSeq ==
    ASSUME NEW S, NEW k \in Nat, NEW f \in [1 .. k -> S] PROVE f \in Seq(S)
OBVIOUS

\* A worker changes, but not its seed.
LEMMA StepFacts ==
    ASSUME Map!IInv, NEW i \in DOMAIN workers, NEW w \in Map!WorkerStates,
           w.world = workers[i].world, workers' = [workers EXCEPT ![i] = w], current' = current
    PROVE  /\ workers' \in Seq(Map!WorkerStates)
           /\ \A j \in DOMAIN workers' : workers'[j].world = current'
<1>1. workers \in Seq(Map!WorkerStates) /\ \A j \in DOMAIN workers : workers[j].world = current
  BY DEF Map!IInv, Map!TypeOK, Map!WorldsOK
<1>2. PICK k \in Nat : workers \in [1 .. k -> Map!WorkerStates]
  <2>1. Len(workers) \in Nat /\ workers \in [1 .. Len(workers) -> Map!WorkerStates]  BY <1>1
  <2>. QED  BY <2>1
<1>3. workers' \in [1 .. k -> Map!WorkerStates]  BY <1>2
<1>4. workers' \in Seq(Map!WorkerStates)  BY <1>3, FunctionSeq
<1>5. DOMAIN workers' = 1 .. k /\ DOMAIN workers = 1 .. k  BY <1>2, <1>3
<1>6. \A j \in 1 .. k : workers'[j] = IF j = i THEN w ELSE workers[j]  BY <1>2
<1>7. \A j \in 1 .. k : workers'[j].world = current  BY <1>1, <1>5, <1>6
<1>. QED  BY <1>4, <1>5, <1>7

\* Workers, as the invariant has them.
LEMMA WorkerFacts ==
    ASSUME Map!IInv, NEW i \in DOMAIN workers
    PROVE  /\ workers[i] \in Map!WorkerStates
           /\ workers[i].inbox \in Seq(Map!Messages) /\ workers[i].out \in Seq(Map!Messages)
           /\ workers[i].world = current /\ workers[i].world \in Worlds
<1>1. workers \in Seq(Map!WorkerStates) /\ \A j \in DOMAIN workers : workers[j].world = current
  BY DEF Map!IInv, Map!TypeOK, Map!WorldsOK
<1>2. workers[i] \in Map!WorkerStates  BY <1>1
<1>. QED  BY <1>1, <1>2 DEF Map!WorkerStates

\* A map is opened: its workers are for its seed.
LEMMA MountMapKeeps ==
    ASSUME Map!IInv, NEW w \in Worlds, Map!MountMap(w)
    PROVE  Map!IInv' /\ map'.phase # "closed" /\ map'.world = w
<1>1. map \in Map!MapStates /\ map.inst \in Nat  BY DEF Map!IInv, Map!TypeOK, Map!MapStates
<1>2. map' = [Map!Closed(map.inst + 1) EXCEPT
                 !.world = w, !.phase = IF Map!Usable(w) THEN "open" ELSE "starting",
                 !.early = Map!Usable(w) /\ ~listening]
  BY DEF Map!MountMap
<1>3. /\ map' \in Map!MapStates /\ map'.phase # "closed" /\ map'.world = w /\ map'.shown = {}
  <2>1. map.inst + 1 \in Nat  BY <1>1
  <2>2. (Map!Usable(w) /\ ~listening) \in BOOLEAN  OBVIOUS
  <2>. DEFINE u == Map!Usable(w)
              e == u /\ ~listening
  <2>3. e \in BOOLEAN  OBVIOUS
  <2>4. map' = [phase |-> IF u THEN "open" ELSE "starting", inst |-> map.inst + 1, world |-> w,
                early |-> e, asked |-> {}, shown |-> {}]
    BY <1>2 DEF Map!Closed
  <2>. HIDE DEF u, e
  <2>. QED  BY <2>1, <2>3, <2>4 DEF Map!MapStates
<1>4. requestId' = requestId  BY DEF Map!MountMap
<1>5. CASE Map!Usable(w)
  <2>1. UNCHANGED <<current, workers, nextWorker, listening, pending>>  BY <1>5 DEF Map!MountMap
  <2>2. current = w  BY <1>5 DEF Map!Usable
  <2>3. Map!TypeOK'  BY <1>3, <1>4, <2>1 DEF Map!IInv, Map!TypeOK
  <2>4. Map!WorldsOK'  BY <1>3, <2>1, <2>2 DEF Map!IInv, Map!WorldsOK
  <2>. QED  BY <1>3, <2>3, <2>4 DEF Map!IInv
<1>6. CASE ~Map!Usable(w)
  <2>1. /\ current' = w /\ workers' = [i \in Map!Workers |-> Map!NewWorker(w)] /\ nextWorker' = 0
        /\ pending' = {}
    BY <1>6 DEF Map!MountMap
  <2>2. Map!NewWorker(w) \in Map!WorkerStates /\ Map!NewWorker(w).world = w
    <3>1. <<Map!Msg("init", 0)>> \in Seq(Map!Messages) /\ <<>> \in Seq(Map!Messages)
      <4>1. Map!Msg("init", 0) \in Map!Messages  BY DEF Map!Msg, Map!Messages
      <4>. QED  BY <4>1
    <3>. QED  BY <3>1 DEF Map!NewWorker, Map!WorkerStates
  <2>3. workers' \in Seq(Map!WorkerStates)
    <3>1. NumWorkers \in Nat  BY ViewerAssumption
    <3>2. workers' \in [1 .. NumWorkers -> Map!WorkerStates]  BY <2>1, <2>2 DEF Map!Workers
    <3>. QED  BY <3>1, <3>2
  <2>4. \A i \in DOMAIN workers' : workers'[i].world = current'  BY <2>1, <2>2
  <2>5. Map!TypeOK'  BY <1>3, <1>4, <2>1, <2>3 DEF Map!IInv, Map!TypeOK
  <2>6. Map!WorldsOK'  BY <1>3, <2>1, <2>4 DEF Map!WorldsOK
  <2>. QED  BY <1>3, <2>5, <2>6 DEF Map!IInv
<1>. QED  BY <1>5, <1>6

\* A map is closed; its workers stay.
LEMMA UnmountMapKeeps ==
    ASSUME Map!IInv, Map!UnmountMap PROVE Map!IInv' /\ map'.phase = "closed"
<1>1. map \in Map!MapStates /\ map.inst \in Nat  BY DEF Map!IInv, Map!TypeOK, Map!MapStates
<1>2. map' \in Map!MapStates /\ map'.phase = "closed" /\ map'.shown = {}
  BY <1>1 DEF Map!UnmountMap, Map!Closed, Map!MapStates
<1>3. UNCHANGED <<current, nextWorker, requestId, workers, pending>>
  BY DEF Map!UnmountMap, Map!pageVars
<1>4. Map!TypeOK'  BY <1>2, <1>3 DEF Map!IInv, Map!TypeOK
<1>5. Map!WorldsOK'  BY <1>2, <1>3 DEF Map!IInv, Map!WorldsOK
<1>. QED  BY <1>2, <1>4, <1>5 DEF Map!IInv
\* The map asks for a tile.
LEMMA SampleTileKeeps ==
    ASSUME Map!IInv, NEW t \in Tiles, Map!SampleTile(t)
    PROVE  Map!IInv' /\ map'.phase = map.phase /\ map'.world = map.world
<1>1. /\ current \in Worlds \cup {NoWorld} /\ workers \in Seq(Map!WorkerStates) /\ nextWorker \in Nat
      /\ requestId \in Nat /\ map \in Map!MapStates
      /\ pending \subseteq [id : Nat, tile : Tiles, inst : Nat]
  BY DEF Map!IInv, Map!TypeOK
<1>2. /\ requestId' = requestId + 1 /\ current' = current
      /\ pending' = pending \cup {[id |-> requestId', tile |-> t, inst |-> map.inst]}
      /\ workers' = [workers EXCEPT ![nextWorker + 1].inbox = Append(@, Map!Msg("tile", requestId'))]
      /\ nextWorker' = (nextWorker + 1) % NumWorkers
      /\ map' = [map EXCEPT !.asked = @ \cup {t}]
  BY DEF Map!SampleTile
<1>3. requestId' \in Nat  BY <1>1, <1>2
<1>4. nextWorker' \in Nat
  <2>1. NumWorkers \in Nat /\ NumWorkers > 0  BY ViewerAssumption
  <2>2. PICK x \in Nat : x = nextWorker + 1  BY <1>1
  <2>3. x % NumWorkers \in 0 .. NumWorkers - 1  BY <2>1, DivMod
  <2>4. x % NumWorkers \in Nat  BY <2>1, <2>3
  <2>. QED  BY <1>2, <2>2, <2>4
<1>5. /\ map' \in Map!MapStates /\ map'.phase = map.phase /\ map'.world = map.world
      /\ map'.shown = map.shown
  BY <1>1, <1>2 DEF Map!MapStates
<1>6. pending' \subseteq [id : Nat, tile : Tiles, inst : Nat]
  <2>1. map.inst \in Nat  BY <1>1 DEF Map!MapStates
  <2>. QED  BY <1>1, <1>2, <1>3, <2>1
<1>7. workers' \in Seq(Map!WorkerStates) /\ \A j \in DOMAIN workers' : workers'[j].world = current'
  <2>. DEFINE i == nextWorker + 1
              w == [workers[i] EXCEPT !.inbox = Append(@, Map!Msg("tile", requestId'))]
  <2>1. workers' = [workers EXCEPT ![i] = w]  BY <1>2
  <2>2. CASE i \in DOMAIN workers
    <3>1. workers[i] \in Map!WorkerStates /\ workers[i].inbox \in Seq(Map!Messages)
      BY <2>2, WorkerFacts
    <3>2. Map!Msg("tile", requestId') \in Map!Messages  BY <1>3 DEF Map!Msg, Map!Messages
    <3>3. Append(workers[i].inbox, Map!Msg("tile", requestId')) \in Seq(Map!Messages)
      BY <3>1, <3>2, AppendFacts
    <3>4. w \in Map!WorkerStates /\ w.world = workers[i].world  BY <3>1, <3>3 DEF Map!WorkerStates
    <3>. HIDE DEF i, w
    <3>. QED  BY <1>2, <2>1, <2>2, <3>4, StepFacts
  <2>3. CASE i \notin DOMAIN workers
    <3>. HIDE DEF i, w
    <3>1. workers' = workers
      <4>1. PICK k \in Nat : workers \in [1 .. k -> Map!WorkerStates]
        <5>1. Len(workers) \in Nat /\ workers \in [1 .. Len(workers) -> Map!WorkerStates]  BY <1>1
        <5>. QED  BY <5>1
      <4>. QED  BY <2>1, <2>3, <4>1
    <3>. QED  BY <1>1, <1>2, <3>1 DEF Map!IInv, Map!WorldsOK
  <2>. QED  BY <2>2, <2>3
<1>8. Map!TypeOK'  BY <1>1, <1>2, <1>3, <1>4, <1>5, <1>6, <1>7 DEF Map!TypeOK
<1>9. Map!WorldsOK'  BY <1>2, <1>5, <1>7 DEF Map!IInv, Map!WorldsOK
<1>. QED  BY <1>5, <1>8, <1>9 DEF Map!IInv

\* A step of a worker that leaves the map alone.
LEMMA WorkerKeeps ==
    ASSUME Map!IInv, NEW i \in DOMAIN workers, NEW w \in Map!WorkerStates,
           w.world = workers[i].world, Map!Step(i, w), UNCHANGED <<Map!pageVars, pending, map>>
    PROVE  Map!IInv'
<1>1. /\ workers' = [workers EXCEPT ![i] = w]
      /\ UNCHANGED <<current, nextWorker, requestId, pending, map>>
  BY DEF Map!Step, Map!pageVars
<1>2. workers' \in Seq(Map!WorkerStates) /\ \A j \in DOMAIN workers' : workers'[j].world = current'
  BY <1>1, StepFacts
<1>3. Map!TypeOK'  BY <1>1, <1>2 DEF Map!IInv, Map!TypeOK
<1>4. Map!WorldsOK'  BY <1>1, <1>2 DEF Map!IInv, Map!WorldsOK
<1>. QED  BY <1>3, <1>4 DEF Map!IInv

\* A worker takes a message, has loaded its module, or cannot.
LEMMA WorkerStepKeeps ==
    ASSUME Map!IInv, NEW i, Map!WorkerTakes(i) \/ Map!WorkerLoaded(i) \/ Map!WorkerBreaks(i)
    PROVE  Map!IInv' /\ map' = map
<1>1. i \in DOMAIN workers /\ map' = map
  BY DEF Map!WorkerTakes, Map!WorkerLoaded, Map!WorkerBreaks
<1>2. /\ workers[i] \in Map!WorkerStates
      /\ workers[i].inbox \in Seq(Map!Messages) /\ workers[i].out \in Seq(Map!Messages)
  BY <1>1, WorkerFacts
<1>3. CASE Map!WorkerTakes(i)
  <2>. DEFINE m == Head(workers[i].inbox)
              v == [workers[i] EXCEPT !.inbox = Tail(@)]
              w == CASE m.type = "init" -> [v EXCEPT !.state = "loading"]
                     [] v.state = "ready" -> [v EXCEPT !.out = Append(@, m)]
                     [] OTHER -> v
  <2>1. /\ workers[i].inbox # <<>> /\ Map!Step(i, w) /\ UNCHANGED <<Map!pageVars, pending, map>>
    BY <1>3 DEF Map!WorkerTakes
  <2>2. m \in Map!Messages /\ Tail(workers[i].inbox) \in Seq(Map!Messages)  BY <1>2, <2>1
  <2>3. Append(workers[i].out, m) \in Seq(Map!Messages)
    <3>. HIDE DEF m
    <3>. QED  BY <1>2, <2>2, AppendFacts
  <2>. HIDE DEF m
  <2>4. v \in Map!WorkerStates /\ v.world = workers[i].world /\ v.out = workers[i].out
    BY <1>2, <2>2 DEF Map!WorkerStates
  <2>. HIDE DEF v
  <2>5. /\ [v EXCEPT !.state = "loading"] \in Map!WorkerStates
        /\ [v EXCEPT !.state = "loading"].world = workers[i].world
    BY <2>4 DEF Map!WorkerStates
  <2>6. /\ [v EXCEPT !.out = Append(@, m)] \in Map!WorkerStates
        /\ [v EXCEPT !.out = Append(@, m)].world = workers[i].world
    BY <2>3, <2>4 DEF Map!WorkerStates
  <2>7. w \in Map!WorkerStates /\ w.world = workers[i].world  BY <2>4, <2>5, <2>6
  <2>. HIDE DEF w
  <2>. QED  BY <1>1, <2>1, <2>7, WorkerKeeps
<1>4. CASE Map!WorkerLoaded(i)
  <2>. DEFINE w == [workers[i] EXCEPT !.state = "ready", !.out = Append(@, Map!Msg("ready", 0))]
  <2>1. Map!Step(i, w) /\ UNCHANGED <<Map!pageVars, pending, map>>  BY <1>4 DEF Map!WorkerLoaded
  <2>2. Map!Msg("ready", 0) \in Map!Messages  BY DEF Map!Msg, Map!Messages
  <2>3. Append(workers[i].out, Map!Msg("ready", 0)) \in Seq(Map!Messages)
    BY <1>2, <2>2, AppendFacts
  <2>4. w \in Map!WorkerStates /\ w.world = workers[i].world  BY <1>2, <2>3 DEF Map!WorkerStates
  <2>. HIDE DEF w
  <2>. QED  BY <1>1, <2>1, <2>4, WorkerKeeps
<1>5. CASE Map!WorkerBreaks(i)
  <2>. DEFINE w == [workers[i] EXCEPT !.state = "broken"]
  <2>1. Map!Step(i, w) /\ UNCHANGED <<Map!pageVars, pending, map>>  BY <1>5 DEF Map!WorkerBreaks
  <2>2. w \in Map!WorkerStates /\ w.world = workers[i].world  BY <1>2 DEF Map!WorkerStates
  <2>. HIDE DEF w
  <2>. QED  BY <1>1, <2>1, <2>2, WorkerKeeps
<1>. QED  BY <1>3, <1>4, <1>5
\* A worker says that it is ready: the map that waits may be opened.
LEMMA ReceiveReadyKeeps ==
    ASSUME Map!IInv, NEW i, Map!ReceiveReady(i)
    PROVE  Map!IInv' /\ (map'.phase = "closed" <=> map.phase = "closed") /\ map'.world = map.world
<1>. DEFINE w == [workers[i] EXCEPT !.out = Tail(@), !.greeted = TRUE]
<1>1. /\ i \in DOMAIN workers /\ workers[i].out # <<>> /\ workers' = [workers EXCEPT ![i] = w]
      /\ UNCHANGED <<current, nextWorker, requestId, pending>>
      /\ map' = IF listening' /\ map.phase = "starting" THEN [map EXCEPT !.phase = "open"] ELSE map
  BY DEF Map!ReceiveReady, Map!HasMessage, Map!Step, Map!pageVars
<1>2. workers[i] \in Map!WorkerStates /\ workers[i].out \in Seq(Map!Messages)  BY <1>1, WorkerFacts
<1>3. Tail(workers[i].out) \in Seq(Map!Messages)  BY <1>1, <1>2
<1>4. w \in Map!WorkerStates /\ w.world = workers[i].world  BY <1>2, <1>3 DEF Map!WorkerStates
<1>. HIDE DEF w
<1>5. workers' \in Seq(Map!WorkerStates) /\ \A j \in DOMAIN workers' : workers'[j].world = current'
  BY <1>1, <1>4, StepFacts
<1>6. /\ map' \in Map!MapStates /\ (map'.phase = "closed" <=> map.phase = "closed")
      /\ map'.world = map.world /\ map'.shown = map.shown
  <2>1. map \in Map!MapStates  BY DEF Map!IInv, Map!TypeOK
  <2>2. CASE map' = map  BY <2>1, <2>2
  <2>3. CASE map' = [map EXCEPT !.phase = "open"] /\ map.phase = "starting"
    BY <2>1, <2>3 DEF Map!MapStates
  <2>. QED  BY <1>1, <2>2, <2>3
<1>7. Map!TypeOK'  BY <1>1, <1>5, <1>6 DEF Map!IInv, Map!TypeOK
<1>8. Map!WorldsOK'  BY <1>1, <1>5, <1>6 DEF Map!IInv, Map!WorldsOK
<1>. QED  BY <1>6, <1>7, <1>8 DEF Map!IInv

\* A tile arrives: it is of the seed of its worker, which is the current one.
LEMMA ReceiveTileKeeps ==
    ASSUME Map!IInv, NEW i, Map!ReceiveTile(i)
    PROVE  Map!IInv' /\ map'.phase = map.phase /\ map'.world = map.world
<1>. DEFINE w == [workers[i] EXCEPT !.out = Tail(@)]
            mine == {p \in pending : listening /\ p.id = Head(workers[i].out).id}
            new == {[tile |-> p.tile, world |-> workers[i].world] :
                       p \in {q \in mine : q.inst = map.inst /\ map.phase = "open"}}
<1>1. /\ i \in DOMAIN workers /\ workers[i].out # <<>> /\ workers' = [workers EXCEPT ![i] = w]
      /\ UNCHANGED <<current, nextWorker, requestId>>
      /\ pending' = pending \ mine
      /\ map' = [map EXCEPT !.shown = @ \cup new]
  BY DEF Map!ReceiveTile, Map!HasMessage, Map!Step, Map!pageVars
<1>2. /\ workers[i] \in Map!WorkerStates /\ workers[i].out \in Seq(Map!Messages)
      /\ workers[i].world = current /\ workers[i].world \in Worlds
  BY <1>1, WorkerFacts
<1>3. Tail(workers[i].out) \in Seq(Map!Messages)  BY <1>1, <1>2
<1>4. w \in Map!WorkerStates /\ w.world = workers[i].world  BY <1>2, <1>3 DEF Map!WorkerStates
<1>. HIDE DEF w
<1>5. workers' \in Seq(Map!WorkerStates) /\ \A j \in DOMAIN workers' : workers'[j].world = current'
  BY <1>1, <1>4, StepFacts
<1>6. pending \subseteq [id : Nat, tile : Tiles, inst : Nat] /\ map \in Map!MapStates
  BY DEF Map!IInv, Map!TypeOK
<1>7. /\ new \subseteq [tile : Tiles, world : Worlds] /\ \A s \in new : s.world = current
      /\ map.phase # "open" => new = {}
  <2>1. ASSUME NEW s \in new
        PROVE  s \in [tile : Tiles, world : Worlds] /\ s.world = current /\ map.phase = "open"
    <3>1. PICK p \in pending : /\ s = [tile |-> p.tile, world |-> workers[i].world]
                               /\ map.phase = "open"
      OBVIOUS
    <3>2. p.tile \in Tiles  BY <1>6
    <3>. QED  BY <1>2, <3>1, <3>2
  <2>. HIDE DEF new
  <2>. QED  BY <2>1
<1>8. pending' \subseteq pending  BY <1>1
<1>. HIDE DEF mine, new
<1>9. /\ map' \in Map!MapStates /\ map'.phase = map.phase /\ map'.world = map.world
      /\ map'.shown = map.shown \cup new
  <2>1. map.shown \cup new \in SUBSET [tile : Tiles, world : Worlds]
    <3>1. map.shown \in SUBSET [tile : Tiles, world : Worlds]  BY <1>6 DEF Map!MapStates
    <3>. QED  BY <1>7, <3>1
  <2>. QED  BY <1>1, <1>6, <2>1 DEF Map!MapStates
<1>10. Map!TypeOK'  BY <1>1, <1>5, <1>6, <1>8, <1>9 DEF Map!IInv, Map!TypeOK
<1>11. Map!WorldsOK'
  <2>1. /\ map.phase # "closed" => map.world = current
        /\ map.phase = "closed" => map.shown = {}
        /\ \A s \in map.shown : s.world = current
    BY DEF Map!IInv, Map!WorldsOK
  <2>2. map'.phase = "closed" => map'.shown = {}  BY <1>7, <1>9, <2>1
  <2>3. \A s \in map'.shown : s.world = current  BY <1>7, <1>9, <2>1
  <2>. QED  BY <1>1, <1>5, <1>9, <2>1, <2>2, <2>3 DEF Map!WorldsOK
<1>. QED  BY <1>9, <1>10, <1>11 DEF Map!IInv

\* A step of the map and its workers.
LEMMA MapKeeps ==
    ASSUME Map!IInv, Map!Next
    PROVE  Map!IInv' /\ (map'.phase = "closed" <=> map.phase = "closed") /\ map'.world = map.world
<1>1. ASSUME NEW t \in Tiles, Map!SampleTile(t)
      PROVE  Map!IInv' /\ (map'.phase = "closed" <=> map.phase = "closed") /\ map'.world = map.world
  BY <1>1, SampleTileKeeps
<1>2. ASSUME NEW i \in Map!Workers, Map!WorkerStep(i) \/ Map!WorkerBreaks(i)
      PROVE  Map!IInv' /\ (map'.phase = "closed" <=> map.phase = "closed") /\ map'.world = map.world
  <2>1. CASE Map!WorkerTakes(i) \/ Map!WorkerLoaded(i) \/ Map!WorkerBreaks(i)
    BY <2>1, WorkerStepKeeps
  <2>2. CASE Map!ReceiveReady(i)  BY <2>2, ReceiveReadyKeeps
  <2>3. CASE Map!ReceiveTile(i)  BY <2>3, ReceiveTileKeeps
  <2>. QED  BY <1>2, <2>1, <2>2, <2>3 DEF Map!WorkerStep
<1>. QED  BY <1>1, <1>2 DEF Map!Next
(***************************************************************************)
(* The pages                                                               *)
(***************************************************************************)

Details == [row : Rows \cup {NoRow}, loading : BOOLEAN, error : BOOLEAN, jumped : BOOLEAN]

\* The part of the invariant that is neither about the list nor about the map.
PageOK ==
    /\ route \in Rows \cup {List, NoRow}
    /\ detail \in Details
    /\ fetches \subseteq Rows
    /\ deletes \subseteq [row : Rows, done : BOOLEAN]
    /\ grid # Unmounted <=> route = List
    /\ map.phase # "closed" <=> ShowsMap(detail)
    /\ DetailOK

\* The parts of the invariant, before a step.
LEMMA PartsNow == IInv <=> GoodIn(db, grid, requests) /\ Map!IInv /\ PageOK
<1>1. Grid!IInv => Grid!TypeOK  BY DEF Grid!IInv
<1>2. Map!IInv => Map!TypeOK  BY DEF Map!IInv
<1>3. TypeOK /\ DetailOK <=> Grid!TypeOK /\ Map!TypeOK /\ PageOK
  BY DEF TypeOK, PageOK, Details, Grid!Mounted
<1>. QED  BY <1>1, <1>2, <1>3, GoodNow DEF IInv

\* And after it.
LEMMA PartsNext == IInv' <=> GoodIn(db', grid', requests') /\ Map!IInv' /\ PageOK'
<1>1. Grid!IInv' => Grid!TypeOK'  BY DEF Grid!IInv
<1>2. Map!IInv' => Map!TypeOK'  BY DEF Map!IInv
<1>3. TypeOK' /\ DetailOK' <=> Grid!TypeOK' /\ Map!TypeOK' /\ PageOK'
  BY DEF TypeOK, PageOK, Details, Grid!Mounted
<1>. QED  BY <1>1, <1>2, <1>3, GoodNext DEF IInv

\* The map does not change.
LEMMA SameMap == ASSUME Map!IInv, UNCHANGED tileVars PROVE Map!IInv'
<1>1. UNCHANGED <<current, workers, nextWorker, requestId, pending, map>>  BY DEF tileVars
<1>. QED  BY <1>1 DEF Map!IInv, Map!TypeOK, Map!WorldsOK

\* The list does not change.
LEMMA SameGrid ==
    ASSUME GoodIn(db, grid, requests), UNCHANGED gridVars
    PROVE  GoodIn(db', grid', requests') /\ grid' = grid
BY DEF gridVars

\* The routes and rows are different things, and SeedDetail begins without a row.
LEMMA RouteFacts ==
    /\ List \notin Rows /\ NoRow \notin Rows /\ NewDetail \in Details /\ ~ShowsMap(NewDetail)
    /\ NewDetail.row = NoRow /\ List # NoRow
<1>1. List \notin Rows /\ NoRow \notin Rows /\ List # NoRow  BY ViewerAssumption
<1>. QED  BY <1>1 DEF NewDetail, Details, ShowsMap

\* The page shows the list.
LEMMA ShowListKeeps ==
    ASSUME GoodIn(db, grid, requests), Map!IInv, ShowList,
           deletes' \subseteq [row : Rows, done : BOOLEAN]
    PROVE  IInv'
<1>1. route' = List /\ detail' = NewDetail /\ fetches' = {}  BY DEF ShowList
<1>2. GoodIn(db', grid', requests') /\ grid' # Unmounted  BY MountKeeps DEF ShowList
<1>3. Map!IInv' /\ map'.phase = "closed"  BY UnmountMapKeeps DEF ShowList
<1>4. PageOK'  BY <1>1, <1>2, <1>3, RouteFacts DEF PageOK, DetailOK, ShowsMap
<1>. QED  BY <1>2, <1>3, <1>4, PartsNext

\* The page shows a row after the list.
LEMMA VisitRowKeeps == ASSUME IInv, NEW r \in Rows, VisitRow(r) PROVE IInv'
<1>0. GoodIn(db, grid, requests) /\ Map!IInv /\ PageOK  BY PartsNow
<1>1. /\ route' = r /\ fetches' = {r} /\ route \in {NoRow, List}
      /\ UNCHANGED <<tileVars, detail, deletes>> /\ Grid!Unmount
  BY DEF VisitRow
<1>2. GoodIn(db', grid', requests') /\ grid' = Unmounted  BY <1>0, <1>1, UnmountKeeps
<1>3. Map!IInv' /\ map' = map  BY <1>0, <1>1, SameMap DEF tileVars
<1>4. detail = NewDetail /\ detail' = detail /\ deletes' = deletes
  BY <1>0, <1>1, RouteFacts DEF PageOK, DetailOK
<1>5. r # List /\ r \in Rows  BY RouteFacts
<1>6. map.phase = "closed"  BY <1>0, <1>4, RouteFacts DEF PageOK
<1>7. DetailOK'  BY <1>1, <1>3, <1>4, <1>5, <1>6, RouteFacts DEF DetailOK
<1>8. PageOK'  BY <1>0, <1>1, <1>2, <1>3, <1>4, <1>5, <1>6, <1>7, RouteFacts DEF PageOK, ShowsMap
<1>. QED  BY <1>2, <1>3, <1>8, PartsNext

\* The page goes from row to row.
LEMMA JumpToRowKeeps == ASSUME IInv, NEW r \in Rows, JumpToRow(r) PROVE IInv'
<1>0. GoodIn(db, grid, requests) /\ Map!IInv /\ PageOK  BY PartsNow
<1>1. /\ route \in Rows /\ route' = r /\ fetches' = fetches \cup {r} /\ deletes' = deletes
      /\ detail' = [detail EXCEPT !.loading = TRUE, !.jumped = TRUE]
      /\ Map!UnmountMap /\ UNCHANGED gridVars
  BY DEF JumpToRow
<1>2. GoodIn(db', grid', requests') /\ grid' = grid  BY <1>0, <1>1, SameGrid
<1>3. Map!IInv' /\ map'.phase = "closed"  BY <1>0, <1>1, UnmountMapKeeps
<1>4. r # List /\ route # List  BY <1>1, RouteFacts
<1>5. detail' \in Details /\ detail'.loading /\ detail'.jumped  BY <1>0, <1>1 DEF PageOK, Details
<1>6. DetailOK'  BY <1>1, <1>3, <1>5 DEF DetailOK
<1>7. PageOK'  BY <1>0, <1>1, <1>2, <1>3, <1>4, <1>5, <1>6 DEF PageOK, ShowsMap
<1>. QED  BY <1>2, <1>3, <1>7, PartsNext
\* SeedDetail gets the answer to q, and with a new row a new map.
LEMMA ShowDetailKeeps ==
    ASSUME IInv, NEW q \in fetches, NEW d \in Details, ShowDetail(q, d), UNCHANGED gridVars,
           d.jumped = detail.jumped, d.row \in {q, detail.row}
    PROVE  IInv'
<1>0. GoodIn(db, grid, requests) /\ Map!IInv /\ PageOK  BY PartsNow
<1>1. fetches' = fetches \ {q} /\ detail' = d /\ route' = route /\ deletes' = deletes
  BY DEF ShowDetail
<1>2. GoodIn(db', grid', requests') /\ grid' = grid  BY <1>0, SameGrid
<1>3. route \in Rows  BY <1>0 DEF PageOK, DetailOK
<1>4. ~d.jumped => fetches' \subseteq {route} /\ d.row \in {route, NoRow}
  BY <1>0, <1>1, <1>3 DEF PageOK, DetailOK
<1>5. d.row \in Rows \cup {NoRow}  BY DEF Details
<1>6. /\ Map!IInv' /\ (map'.phase # "closed" <=> ShowsMap(d))
      /\ map'.phase # "closed" => map'.world = WorldOf[d.row]
  <2>1. CASE ~ShowsMap(d)
    <3>1. Map!UnmountMap  BY <2>1 DEF ShowDetail
    <3>. QED  BY <1>0, <2>1, <3>1, UnmountMapKeeps
  <2>2. CASE ShowsMap(d) /\ ShowsMap(detail) /\ d.row = detail.row
    <3>1. UNCHANGED tileVars  BY <2>2 DEF ShowDetail
    <3>2. Map!IInv' /\ map' = map  BY <1>0, <3>1, SameMap DEF tileVars
    <3>. QED  BY <1>0, <2>2, <3>2 DEF PageOK, DetailOK
  <2>3. CASE ShowsMap(d) /\ ~(ShowsMap(detail) /\ d.row = detail.row)
    <3>1. Map!MountMap(WorldOf[d.row])  BY <2>3 DEF ShowDetail
    <3>2. d.row \in Rows  BY <1>5, <2>3 DEF ShowsMap
    <3>3. WorldOf[d.row] \in Worlds  BY <3>2, ViewerAssumption
    <3>. QED  BY <1>0, <2>3, <3>1, <3>3, MountMapKeeps
  <2>. QED  BY <2>1, <2>2, <2>3
<1>7. DetailOK'  BY <1>1, <1>3, <1>4, <1>6 DEF DetailOK
<1>8. ShowsMap(detail)' <=> ShowsMap(d)  BY <1>1 DEF ShowsMap
<1>9. PageOK'
  <2>1. fetches' \subseteq Rows  BY <1>0, <1>1 DEF PageOK
  <2>2. map'.phase # "closed" <=> ShowsMap(detail)'  BY <1>6, <1>8
  <2>. QED  BY <1>0, <1>1, <1>2, <1>7, <2>1, <2>2 DEF PageOK
<1>. QED  BY <1>2, <1>6, <1>9, PartsNext

\* A row is fetched, or cannot be.
LEMMA FetchKeeps == ASSUME IInv, NEW q \in fetches, FetchReturns(q) \/ FetchFails(q) PROVE IInv'
<1>1. detail \in Details /\ q \in Rows  BY PartsNow DEF PageOK
<1>. DEFINE a == [detail EXCEPT !.row = q, !.error = FALSE, !.loading = FALSE]
            b == [detail EXCEPT !.error = TRUE, !.loading = FALSE]
<1>2. a \in Details /\ a.jumped = detail.jumped /\ a.row = q  BY <1>1 DEF Details
<1>3. b \in Details /\ b.jumped = detail.jumped /\ b.row = detail.row  BY <1>1 DEF Details
<1>4. (ShowDetail(q, a) \/ ShowDetail(q, b)) /\ UNCHANGED gridVars
  BY DEF FetchReturns, FetchFails
<1>. HIDE DEF a, b
<1>5. CASE ShowDetail(q, a)  BY <1>2, <1>4, <1>5, ShowDetailKeeps
<1>6. CASE ShowDetail(q, b)  BY <1>3, <1>4, <1>6, ShowDetailKeeps
<1>. QED  BY <1>4, <1>5, <1>6

\* A deletion is confirmed, done, or answered.
LEMMA DeleteKeeps ==
    ASSUME IInv, ConfirmDelete \/ \E d \in deletes : DeleteRow(d) \/ DeleteReturns(d)
    PROVE  IInv'
<1>0. GoodIn(db, grid, requests) /\ Map!IInv /\ PageOK  BY PartsNow
<1>1. ASSUME UNCHANGED <<tileVars, route, detail, fetches>>, GoodIn(db', grid', requests'),
             grid' = Unmounted <=> grid = Unmounted, deletes' \subseteq [row : Rows, done : BOOLEAN]
      PROVE  IInv'
  <2>1. Map!IInv' /\ map' = map  BY <1>0, <1>1, SameMap DEF tileVars
  <2>2. route' = route /\ detail' = detail /\ fetches' = fetches  BY <1>1
  <2>3. DetailOK'  BY <1>0, <2>1, <2>2 DEF PageOK, DetailOK
  <2>4. PageOK'  BY <1>0, <1>1, <2>1, <2>2, <2>3 DEF PageOK, ShowsMap
  <2>. QED  BY <1>1, <2>1, <2>4, PartsNext
<1>2. CASE ConfirmDelete
  <2>1. /\ UNCHANGED <<tileVars, route, detail, fetches>> /\ UNCHANGED gridVars
        /\ deletes' = deletes \cup {[row |-> detail.row, done |-> FALSE]} /\ ShowsMap(detail)
    BY <1>2 DEF ConfirmDelete
  <2>2. detail.row \in Rows  BY <1>0, <2>1 DEF PageOK, Details, ShowsMap
  <2>3. deletes' \subseteq [row : Rows, done : BOOLEAN]
    <3>1. [row |-> detail.row, done |-> FALSE] \in [row : Rows, done : BOOLEAN]  BY <2>2
    <3>2. deletes \subseteq [row : Rows, done : BOOLEAN]  BY <1>0 DEF PageOK
    <3>. QED  BY <2>1, <3>1, <3>2
  <2>4. GoodIn(db', grid', requests') /\ grid' = grid  BY <1>0, <2>1, SameGrid
  <2>. QED  BY <1>1, <2>1, <2>3, <2>4
<1>3. ASSUME NEW d \in deletes, DeleteRow(d) PROVE IInv'
  <2>0. d \in [row : Rows, done : BOOLEAN]  BY <1>0 DEF PageOK
  <2>1. UNCHANGED <<tileVars, route, detail, fetches>>  BY <1>3 DEF DeleteRow
  <2>2. deletes' \subseteq [row : Rows, done : BOOLEAN]
    <3>1. [d EXCEPT !.done = TRUE] \in [row : Rows, done : BOOLEAN]  BY <2>0
    <3>2. deletes' \subseteq deletes \cup {[d EXCEPT !.done = TRUE]}  BY <1>3 DEF DeleteRow
    <3>. QED  BY <1>0, <3>1, <3>2 DEF PageOK
  <2>3. GoodIn(db', grid', requests') /\ (grid' = Unmounted <=> grid = Unmounted)
    <3>1. CASE db[d.row] = "in"
      <4>1. Grid!DeleteRow(d.row)  BY <1>3, <3>1 DEF DeleteRow
      <4>2. d.row \in Rows  BY <2>0
      <4>. QED  BY <1>0, <4>1, <4>2, DeleteRowKeeps
    <3>2. CASE db[d.row] # "in"
      <4>1. UNCHANGED gridVars  BY <1>3, <3>2 DEF DeleteRow
      <4>. QED  BY <1>0, <4>1, SameGrid
    <3>. QED  BY <3>1, <3>2
  <2>. QED  BY <1>1, <2>1, <2>2, <2>3
<1>4. ASSUME NEW d \in deletes, DeleteReturns(d) PROVE IInv'
  <2>1. deletes' \subseteq [row : Rows, done : BOOLEAN]  BY <1>0, <1>4 DEF DeleteReturns, PageOK
  <2>2. CASE route = List
    <3>1. UNCHANGED <<tileVars, route, detail, fetches>> /\ UNCHANGED gridVars
      BY <1>4, <2>2 DEF DeleteReturns
    <3>2. GoodIn(db', grid', requests') /\ grid' = grid  BY <1>0, <3>1, SameGrid
    <3>. QED  BY <1>1, <2>1, <3>1, <3>2
  <2>3. CASE route # List
    <3>1. ShowList  BY <1>4, <2>3 DEF DeleteReturns
    <3>. QED  BY <1>0, <2>1, <3>1, ShowListKeeps
  <2>. QED  BY <2>2, <2>3
<1>. QED  BY <1>2, <1>3, <1>4

\* A step of the list or of the map.
LEMMA PartKeeps == ASSUME IInv, GridStep \/ MapStep PROVE IInv'
<1>0. GoodIn(db, grid, requests) /\ Map!IInv /\ PageOK  BY PartsNow
<1>1. route' = route /\ detail' = detail /\ fetches' = fetches /\ deletes' = deletes
  BY DEF GridStep, MapStep, pageVars
<1>2. /\ GoodIn(db', grid', requests') /\ (grid' = Unmounted <=> grid = Unmounted)
      /\ Map!IInv' /\ (map'.phase = "closed" <=> map.phase = "closed") /\ map'.world = map.world
  <2>1. CASE GridStep
    <3>1. Grid!Next /\ UNCHANGED tileVars  BY <2>1 DEF GridStep
    <3>2. Map!IInv' /\ map' = map  BY <1>0, <3>1, SameMap DEF tileVars
    <3>. QED  BY <1>0, <3>1, <3>2, GridKeeps
  <2>2. CASE MapStep
    <3>1. Map!Next /\ UNCHANGED gridVars  BY <2>2 DEF MapStep
    <3>2. GoodIn(db', grid', requests') /\ grid' = grid  BY <1>0, <3>1, SameGrid
    <3>. QED  BY <1>0, <3>1, <3>2, MapKeeps
  <2>. QED  BY <2>1, <2>2
<1>3. DetailOK'  BY <1>0, <1>1, <1>2 DEF PageOK, DetailOK
<1>4. PageOK'  BY <1>0, <1>1, <1>2, <1>3 DEF PageOK, ShowsMap
<1>. QED  BY <1>2, <1>4, PartsNext
(***************************************************************************)
(* The theorems                                                            *)
(***************************************************************************)

\* The page before it is loaded.
LEMMA InitKeeps == ASSUME Init PROVE IInv
<1>1. GoodIn(db, grid, requests)
  <2>1. grid = Unmounted /\ requests = {} /\ db = [r \in Rows |-> IF r \in OldRows THEN "in" ELSE "later"]
    BY DEF Init, Grid!Init
  <2>2. db \in [Rows -> {"later", "in", "gone"}]  BY <2>1
  <2>. QED  BY <2>1, <2>2, GoodUnmounted
<1>2. Map!IInv
  <2>1. /\ current = NoWorld /\ workers = <<>> /\ nextWorker = 0 /\ requestId = 0 /\ pending = {}
        /\ map = Map!Closed(0)
    BY DEF Init, Map!Init
  <2>2. map \in Map!MapStates /\ map.phase = "closed" /\ map.shown = {}
    BY <2>1 DEF Map!Closed, Map!MapStates
  <2>3. workers \in Seq(Map!WorkerStates) /\ DOMAIN workers = {}  BY <2>1
  <2>4. Map!TypeOK  BY <2>1, <2>2, <2>3 DEF Map!TypeOK
  <2>5. Map!WorldsOK  BY <2>2, <2>3 DEF Map!WorldsOK
  <2>. QED  BY <2>4, <2>5 DEF Map!IInv
<1>3. PageOK
  <2>1. /\ route = NoRow /\ detail = NewDetail /\ fetches = {} /\ deletes = {} /\ grid = Unmounted
        /\ map.phase = "closed"
    BY DEF Init, Grid!Init, Map!Init, Map!Closed
  <2>3. DetailOK  BY <2>1, RouteFacts DEF DetailOK
  <2>. QED  BY <2>1, <2>3, RouteFacts DEF PageOK
<1>. QED  BY <1>1, <1>2, <1>3, PartsNow

\* Every step keeps the invariant.
LEMMA NextKeeps == ASSUME IInv, [Next]_vars PROVE IInv'
<1>1. CASE VisitList
  <2>1. GoodIn(db, grid, requests) /\ Map!IInv /\ PageOK  BY PartsNow
  <2>2. ShowList /\ deletes' = deletes  BY <1>1 DEF VisitList
  <2>3. deletes' \subseteq [row : Rows, done : BOOLEAN]  BY <2>1, <2>2 DEF PageOK
  <2>. QED  BY <2>1, <2>2, <2>3, ShowListKeeps
<1>2. ASSUME NEW r \in Rows, VisitRow(r) \/ JumpToRow(r) PROVE IInv'
  BY <1>2, VisitRowKeeps, JumpToRowKeeps
<1>3. ASSUME NEW q \in fetches, FetchReturns(q) \/ FetchFails(q) PROVE IInv'
  BY <1>3, FetchKeeps
<1>4. CASE ConfirmDelete \/ \E d \in deletes : DeleteRow(d) \/ DeleteReturns(d)
  BY <1>4, DeleteKeeps
<1>5. CASE GridStep \/ MapStep  BY <1>5, PartKeeps
<1>6. CASE UNCHANGED vars
  <2>0. GoodIn(db, grid, requests) /\ Map!IInv /\ PageOK  BY PartsNow
  <2>1. UNCHANGED gridVars /\ UNCHANGED tileVars /\ UNCHANGED pageVars  BY <1>6 DEF vars
  <2>2. GoodIn(db', grid', requests') /\ grid' = grid  BY <2>0, <2>1, SameGrid
  <2>3. Map!IInv' /\ map' = map  BY <2>0, <2>1, SameMap DEF tileVars
  <2>4. route' = route /\ detail' = detail /\ fetches' = fetches /\ deletes' = deletes
    BY <2>1 DEF pageVars
  <2>5. DetailOK'  BY <2>0, <2>3, <2>4 DEF PageOK, DetailOK
  <2>6. PageOK'  BY <2>0, <2>2, <2>3, <2>4, <2>5 DEF PageOK, ShowsMap
  <2>. QED  BY <2>2, <2>3, <2>6, PartsNext
<1>. QED  BY <1>1, <1>2, <1>3, <1>4, <1>5, <1>6 DEF Next

\* The inductive invariant holds in every state of the seed viewer: the list is the
\* beginning of a list of its filter whatever answers are under way, and the map
\* and its workers are for one seed.
THEOREM Invariance == Spec => []IInv
<1>1. Init => IInv  BY InitKeeps
<1>2. IInv /\ [Next]_vars => IInv'  BY NextKeeps
<1>. QED  BY <1>1, <1>2, PTL DEF Spec

\* The variables keep their types; the list is there exactly at its route, and a
\* map exactly if SeedDetail shows a row.
THEOREM TypeCorrect == Spec => []TypeOK
<1>1. IInv => TypeOK  BY DEF IInv
<1>. QED  BY <1>1, Invariance, PTL

\* In a list that is settled its first page has come.
LEMMA SettledStarted ==
    ASSUME IInv, Grid!Settled
    PROVE  GoodIn(db, grid, requests) /\ grid # Unmounted /\ StartedIn(grid, requests)
<1>1. GoodIn(db, grid, requests)  BY PartsNow
<1>2. grid # Unmounted /\ ~grid.loading /\ ~grid.firstFailed  BY DEF Grid!Settled, Grid!Mounted
<1>. QED  BY <1>1, <1>2 DEF GoodIn, CurrentIn, StartedIn

\* Once the first page of a filter has come, the list shows only seeds of that
\* filter, whatever answers of fetchSeeds to older filters arrive in which order.
THEOREM OwnFilterCorrect == Spec => []OwnFilter
<1>1. IInv => OwnFilter
  <2>1. SUFFICES ASSUME IInv, Grid!Settled
                 PROVE  Grid!ToSet(grid.seeds) \subseteq Grid!ToSet(Order[grid.filter])
    BY DEF OwnFilter, Grid!OwnFilter
  <2>. QED  BY <2>1, SettledStarted DEF GoodIn, RowsIn, RowsBy
<1>. QED  BY <1>1, Invariance, PTL

\* A visitor who has scrolled to the end has seen every row that was there when the
\* filter was set, however many finds have shifted the pages of list_seeds, unless
\* rows were deleted or a find came between its COUNT and its SELECT.
THEOREM SkipCorrect == Spec => []NothingSkipped
<1>1. IInv => NothingSkipped
  <2>1. SUFFICES ASSUME IInv, Grid!Complete, ~grid.shrunk, ~grid.slipped
                 PROVE  grid.base \cap Grid!ToSet(Order[grid.filter]) \subseteq Grid!ToSet(grid.seeds)
    BY DEF NothingSkipped, Grid!NothingSkipped
  <2>2. Grid!Settled /\ ~grid.hasMore  BY <2>1 DEF Grid!Complete
  <2>3. GoodIn(db, grid, requests) /\ grid # Unmounted /\ StartedIn(grid, requests)
    BY <2>1, <2>2, SettledStarted
  <2>4. ListCoversIn(db, grid)  BY <2>1, <2>3 DEF GoodIn, CoverIn
  <2>. QED  BY <2>1, <2>2, <2>4 DEF ListCoversIn, RowsBy
<1>. QED  BY <1>1, Invariance, PTL

\* If no row comes or goes, a visitor who has scrolled to the end sees the table:
\* each row of the filter once, in its order, and as many as the total says.
THEOREM ExactCorrect == Spec => []ShownExactly
<1>1. IInv => ShownExactly
  <2>1. SUFFICES ASSUME IInv, Grid!Complete, ~grid.shrunk, ~grid.grown
                 PROVE  grid.seeds = Grid!Listing(grid.filter) /\ grid.total = Len(grid.seeds)
    BY DEF ShownExactly, Grid!ShownExactly
  <2>2. Grid!Settled /\ ~grid.hasMore  BY <2>1 DEF Grid!Complete
  <2>3. GoodIn(db, grid, requests) /\ grid # Unmounted /\ StartedIn(grid, requests)
    BY <2>1, <2>2, SettledStarted
  <2>4. ListExactIn(db, grid)  BY <2>1, <2>3 DEF GoodIn, ExactIn
  <2>. DEFINE l == Lst(db, grid.filter)
  <2>5. Grid!Listing(grid.filter) = l  BY DEF Grid!Listing, Lst
  <2>6. grid \in Grid!GridStates  BY <2>3 DEF GoodIn, TypeIn
  <2>7. grid.filter \in DOMAIN Order /\ grid.page \in Nat /\ grid.total \in Nat
    BY <2>6 DEF Grid!GridStates, Grid!Filters
  <2>8. l \in Seq(Rows)  BY <2>7, ListFacts
  <2>. HIDE DEF l
  <2>9. grid.seeds = FirstOf(l, grid.page) /\ grid.total = Len(l) /\ ~(grid.page < Grid!Pages(Len(l)))
    BY <2>2, <2>4 DEF ListExactIn, l
  <2>10. Grid!Pages(Len(l)) <= grid.page
    <3>1. Grid!Pages(Len(l)) \in Int  BY <2>7, <2>9, PagesNat
    <3>. QED  BY <2>7, <2>9, <3>1
  <2>11. FirstOf(l, grid.page) = l  BY <2>7, <2>8, <2>10, LastPage
  <2>. QED  BY <2>5, <2>9, <2>11
<1>. QED  BY <1>1, Invariance, PTL

\* The tiles on the map of a row are of the seed of that row, although the workers
\* and their answers outlive a map, unless SeedDetail was kept from row to row.
THEOREM MapCorrect == Spec => []MapOfRoute
<1>1. IInv => MapOfRoute
  <2>1. SUFFICES ASSUME IInv, route \in Rows, ~detail.jumped, NEW s \in map.shown
                 PROVE  s.world = WorldOf[route]
    BY DEF MapOfRoute
  <2>2. Map!IInv /\ PageOK  BY <2>1, PartsNow
  <2>3. map.phase # "closed" /\ s.world = current /\ map.world = current
    BY <2>2 DEF Map!IInv, Map!WorldsOK
  <2>4. ShowsMap(detail) /\ map.world = WorldOf[detail.row] /\ detail.row \in {route, NoRow}
    BY <2>1, <2>2, <2>3 DEF PageOK, DetailOK
  <2>5. detail.row = route  BY <2>4 DEF ShowsMap
  <2>. QED  BY <2>3, <2>4, <2>5
<1>. QED  BY <1>1, Invariance, PTL
=============================================================================
