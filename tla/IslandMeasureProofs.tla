------------------------ MODULE IslandMeasureProofs -------------------------
(***************************************************************************)
(* One candidate on a CPU thread, for any seed with finitely many cells of *)
(* mushroom fields and any sizes of samples, windows and islands: IInv is  *)
(* an invariant of IslandMeasure.  Islands, the reference the fills are    *)
(* compared with, is computed by adding the places one at a time; the      *)
(* first part shows that for every finite set it gives the connected parts *)
(* of the set.  A fill keeps what it has reached within one of them, and   *)
(* no place it has taken has a neighbour that it has not reached, so what  *)
(* it has taken when the stack is empty is the whole island.  StackOK      *)
(* bounds the stack of floodFillGen by what is marked.                     *)
(***************************************************************************)
EXTENDS IslandMeasure, Numbers, FiniteSetTheorems, TLAPS

(***************************************************************************)
(* Islands                                                                 *)
(***************************************************************************)

\* I is one island of S: no neighbour in S is missing, and no part of it has all
\* its neighbours.
IsIsland(I, S) ==
    /\ I \subseteq S /\ I # {}
    /\ ClosedIn(I, S)
    /\ \A C \in SUBSET I : C # {} /\ ClosedIn(C, I) => C = I

\* Neighbours are places, and the relation is symmetric.
LEMMA NeighboursSymmetric ==
    ASSUME NEW p \in Places
    PROVE  /\ \A k \in 1 .. 4 : Neighbours(p)[k] \in Places /\ Neighbours(p)[k] # p
           /\ \A k \in 1 .. 4 : \E l \in 1 .. 4 : Neighbours(Neighbours(p)[k])[l] = p
<1>1. PICK x \in Int, z \in Int : p = <<x, z>>  BY DEF Places
<1>2. ASSUME NEW a \in Int, NEW b \in Int
      PROVE  /\ Neighbours(<<a, b>>)[1] = <<a, b - 1>>
             /\ Neighbours(<<a, b>>)[2] = <<a, b + 1>>
             /\ Neighbours(<<a, b>>)[3] = <<a - 1, b>>
             /\ Neighbours(<<a, b>>)[4] = <<a + 1, b>>
  BY DEF Neighbours
<1>a. x - 1 \in Int /\ x + 1 \in Int /\ z - 1 \in Int /\ z + 1 \in Int  OBVIOUS
<1>b. /\ Neighbours(p)[1] = <<x, z - 1>> /\ Neighbours(p)[2] = <<x, z + 1>>
      /\ Neighbours(p)[3] = <<x - 1, z>> /\ Neighbours(p)[4] = <<x + 1, z>>
  BY <1>1, <1>2
<1>3. /\ Neighbours(Neighbours(p)[1])[2] = p /\ Neighbours(Neighbours(p)[2])[1] = p
      /\ Neighbours(Neighbours(p)[3])[4] = p /\ Neighbours(Neighbours(p)[4])[3] = p
  <2>1. Neighbours(<<x, z - 1>>)[2] = <<x, (z - 1) + 1>>  BY <1>2, <1>a
  <2>2. Neighbours(<<x, z + 1>>)[1] = <<x, (z + 1) - 1>>  BY <1>2, <1>a
  <2>3. Neighbours(<<x - 1, z>>)[4] = <<(x - 1) + 1, z>>  BY <1>2, <1>a
  <2>4. Neighbours(<<x + 1, z>>)[3] = <<(x + 1) - 1, z>>  BY <1>2, <1>a
  <2>5. (x - 1) + 1 = x /\ (x + 1) - 1 = x /\ (z - 1) + 1 = z /\ (z + 1) - 1 = z  OBVIOUS
  <2>. QED  BY <1>1, <1>b, <2>1, <2>2, <2>3, <2>4, <2>5
<1>4. \A k \in 1 .. 4 : k = 1 \/ k = 2 \/ k = 3 \/ k = 4  OBVIOUS
<1>5. 1 \in 1 .. 4 /\ 2 \in 1 .. 4 /\ 3 \in 1 .. 4 /\ 4 \in 1 .. 4  OBVIOUS
<1>6. \A k \in 1 .. 4 : Neighbours(p)[k] \in Places /\ Neighbours(p)[k] # p
  <2>1. /\ <<x, z - 1>> \in Places /\ <<x, z + 1>> \in Places
        /\ <<x - 1, z>> \in Places /\ <<x + 1, z>> \in Places
    BY <1>a DEF Places
  <2>2. <<x, z - 1>> # p /\ <<x, z + 1>> # p /\ <<x - 1, z>> # p /\ <<x + 1, z>> # p  BY <1>1
  <2>. QED  BY <1>4, <1>b, <2>1, <2>2
<1>7. \A k \in 1 .. 4 : \E l \in 1 .. 4 : Neighbours(Neighbours(p)[k])[l] = p
  BY <1>3, <1>4, <1>5, Zenon
<1>. QED  BY <1>6, <1>7

\* Two islands that meet are the same.
LEMMA IslandsMeet ==
    ASSUME NEW S, NEW I, IsIsland(I, S), NEW J, IsIsland(J, S), NEW x \in I, x \in J
    PROVE  I = J
<1>1. ClosedIn(I \cap J, I) /\ ClosedIn(I \cap J, J)  BY DEF IsIsland, ClosedIn
<1>2. I \cap J \in SUBSET I /\ I \cap J \in SUBSET J /\ I \cap J # {}  OBVIOUS
<1>. QED  BY <1>1, <1>2 DEF IsIsland

\* The islands of T are all of it.
Partition(found, T) == UNION found = T /\ \A I \in found : IsIsland(I, T)

\* What Islands does for one place.
Joined(p, found) ==
    LET near == {I \in found : \E k \in 1 .. 4 : Neighbours(p)[k] \in I}
    IN  (found \ near) \cup {{p} \cup UNION near}

\* A place joins the islands it touches.
LEMMA JoinedPartition ==
    ASSUME NEW T, T \subseteq Places, NEW p \in Places, p \notin T,
           NEW found, Partition(found, T)
    PROVE  Partition(Joined(p, found), T \cup {p})
<1>. DEFINE near == {I \in found : \E k \in 1 .. 4 : Neighbours(p)[k] \in I}
            N == {p} \cup UNION near
            Adj(a, b) == \E k \in 1 .. 4 : Neighbours(a)[k] = b
<1>0. \A a, b \in Places : Adj(a, b) => Adj(b, a)  BY NeighboursSymmetric
<1>1. Joined(p, found) = (found \ near) \cup {N}  BY DEF Joined
<1>2. \A I \in near : I \in found /\ \E b \in I : Adj(p, b)  OBVIOUS
<1>3. \A I \in found : (\E b \in I : Adj(p, b)) => I \in near  OBVIOUS
<1>4. \A I \in found : IsIsland(I, T)  BY DEF Partition
<1>5. \A I \in found : \A b \in I : b \in T /\ b \in Places  BY <1>4 DEF IsIsland
<1>6. \A b \in T : \E I \in found : b \in I  BY DEF Partition
<1>7. N \subseteq T \cup {p} /\ N # {}  BY <1>2, <1>5
<1>8. UNION Joined(p, found) = T \cup {p}
  <2>. HIDE DEF near
  <2>1. \A b \in T \cup {p} : \E I \in Joined(p, found) : b \in I
    <3>1. N \in Joined(p, found) /\ p \in N  BY <1>1
    <3>2. ASSUME NEW b \in T PROVE \E I \in Joined(p, found) : b \in I
      <4>1. PICK I \in found : b \in I  BY <1>6
      <4>2. CASE I \in near
        <5>1. b \in N  BY <4>1, <4>2
        <5>. QED  BY <3>1, <5>1
      <4>3. CASE I \notin near
        <5>1. I \in Joined(p, found)  BY <1>1, <4>3
        <5>. QED  BY <4>1, <5>1
      <4>. QED  BY <4>2, <4>3
    <3>. QED  BY <3>1, <3>2
  <2>2. \A I \in Joined(p, found) : I \subseteq T \cup {p}
    <3>. HIDE DEF N
    <3>. QED  BY <1>1, <1>5, <1>7
  <2>. QED  BY <2>1, <2>2
<1>9. ASSUME NEW I \in found \ near PROVE IsIsland(I, T \cup {p})
  <2>1. IsIsland(I, T)  BY <1>4
  <2>2. ASSUME NEW a \in I PROVE ~Adj(a, p)
    <3>1. a \in Places  BY <1>5
    <3>2. Adj(a, p) => Adj(p, a)  BY <1>0, <3>1
    <3>3. ~Adj(p, a)  BY <1>3
    <3>. QED  BY <3>2, <3>3
  <2>3. ClosedIn(I, T \cup {p})  BY <2>1, <2>2 DEF ClosedIn, IsIsland
  <2>. QED  BY <2>1, <2>3 DEF IsIsland
<1>10. IsIsland(N, T \cup {p})
  <2>. HIDE DEF near
  <2>1. ClosedIn(N, T \cup {p})
    <3>1. SUFFICES ASSUME NEW a \in N, NEW b \in T \cup {p}, Adj(a, b) PROVE b \in N
      BY DEF ClosedIn
    <3>2. CASE b = p  BY <3>2
    <3>3. CASE b \in T /\ a = p
      <4>1. PICK I \in found : b \in I  BY <1>6, <3>3
      <4>2. I \in near  BY <1>3, <3>1, <3>3, <4>1
      <4>. QED  BY <4>1, <4>2
    <3>4. CASE b \in T /\ a # p
      <4>1. PICK I \in near : a \in I  BY <3>4
      <4>2. IsIsland(I, T)  BY <1>2, <1>4
      <4>3. b \in I  BY <3>1, <3>4, <4>1, <4>2 DEF IsIsland, ClosedIn
      <4>. QED  BY <4>3
    <3>. QED  BY <3>2, <3>3, <3>4
  <2>2. ASSUME NEW C \in SUBSET N, C # {}, ClosedIn(C, N) PROVE C = N
    <3>1. ASSUME NEW I \in near, NEW x \in I, x \in C PROVE I \subseteq C
      <4>1. I \subseteq N  OBVIOUS
      <4>2. ClosedIn(C \cap I, I)  BY <2>2, <4>1 DEF ClosedIn
      <4>3. C \cap I \in SUBSET I /\ C \cap I # {}  BY <3>1
      <4>4. C \cap I = I  BY <1>2, <1>4, <4>2, <4>3 DEF IsIsland
      <4>. QED  BY <4>4
    <3>2. p \in C
      <4>1. SUFFICES ASSUME p \notin C PROVE FALSE  OBVIOUS
      <4>2. PICK x \in C : TRUE  BY <2>2
      <4>3. PICK I \in near : x \in I  BY <4>1, <4>2
      <4>4. I \subseteq C  BY <3>1, <4>3
      <4>5. PICK b \in I : Adj(p, b)  BY <1>2
      <4>6. Adj(b, p)
        <5>1. b \in Places  BY <1>2, <1>5
        <5>. QED  BY <1>0, <4>5, <5>1
      <4>7. b \in C /\ p \in N  BY <4>4
      <4>. QED  BY <2>2, <4>1, <4>6, <4>7 DEF ClosedIn
    <3>3. ASSUME NEW I \in near PROVE I \subseteq C
      <4>1. PICK b \in I : Adj(p, b)  BY <1>2
      <4>2. b \in N  OBVIOUS
      <4>3. b \in C  BY <2>2, <3>2, <4>1, <4>2 DEF ClosedIn
      <4>. QED  BY <3>1, <4>3
    <3>. QED  BY <3>2, <3>3
  <2>. HIDE DEF N
  <2>. QED  BY <1>7, <2>1, <2>2 DEF IsIsland
<1>. HIDE DEF near, N
<1>11. \A I \in Joined(p, found) : IsIsland(I, T \cup {p})  BY <1>1, <1>9, <1>10
<1>. QED  BY <1>8, <1>11 DEF Partition

\* One value of the function by which Islands is defined.
Found(g, T) ==
    IF T = {} THEN {}
    ELSE LET x == CHOOSE x \in T : TRUE IN Joined(x, g[T \ {x}])

\* The function exists.
LEMMA FoundExists ==
    ASSUME NEW S, IsFiniteSet(S)
    PROVE  \E g : g = [T \in SUBSET S |-> Found(g, T)]
<1>. DEFINE Small(m) == {T \in SUBSET S : Cardinality(T) <= m}
            Fits(m, g) == g = [T \in Small(m) |-> Found(g, T)]
            N == {m \in 0 .. Cardinality(S) : \E g : Fits(m, g)}
<1>0. Cardinality(S) \in Nat  BY FS_CardinalityType
<1>a. \A T \in SUBSET S : IsFiniteSet(T) /\ Cardinality(T) \in Nat /\ Cardinality(T) <= Cardinality(S)
  BY FS_Subset, FS_CardinalityType
<1>b. \A T \in SUBSET S : T # {} =>
          LET x == CHOOSE x \in T : TRUE
          IN  T \ {x} \in SUBSET S /\ Cardinality(T \ {x}) = Cardinality(T) - 1
  <2>1. SUFFICES ASSUME NEW T \in SUBSET S, T # {}, NEW x, x = CHOOSE y \in T : TRUE
                 PROVE  T \ {x} \in SUBSET S /\ Cardinality(T \ {x}) = Cardinality(T) - 1
    OBVIOUS
  <2>2. x \in T  BY <2>1
  <2>. QED  BY <1>a, <2>2, FS_RemoveElement
<1>1. 0 \in N
  <2>1. \A T \in Small(0) : T = {}  BY <1>a, FS_EmptySet
  <2>2. Fits(0, [T \in Small(0) |-> {}])
    <3>. DEFINE g == [T \in Small(0) |-> {}]
    <3>1. \A T \in Small(0) : Found(g, T) = {}  BY <2>1 DEF Found
    <3>. HIDE DEF Small
    <3>. QED  BY <3>1
  <2>. HIDE DEF Fits
  <2>. QED  BY <1>0, <2>2
<1>2. ASSUME NEW m \in 0 .. Cardinality(S) - 1, m \in N PROVE m + 1 \in N
  <2>1. PICK g : Fits(m, g)  BY <1>2
  <2>. DEFINE h == [T \in Small(m + 1) |-> Found(g, T)]
  <2>2. \A T \in Small(m) : h[T] = g[T]
    <3>1. SUFFICES ASSUME NEW T \in Small(m) PROVE h[T] = g[T]  OBVIOUS
    <3>2. T \in Small(m + 1)  BY <1>0, <1>a
    <3>. HIDE DEF Small
    <3>3. h[T] = Found(g, T)  BY <3>2
    <3>. QED  BY <2>1, <3>3
  <2>3. \A T \in Small(m + 1) : Found(h, T) = Found(g, T)
    <3>1. SUFFICES ASSUME NEW T \in Small(m + 1), T # {} PROVE Found(h, T) = Found(g, T)
      BY DEF Found
    <3>2. PICK x : x = CHOOSE y \in T : TRUE  OBVIOUS
    <3>3. T \ {x} \in SUBSET S /\ Cardinality(T \ {x}) = Cardinality(T) - 1  BY <1>b, <3>1, <3>2
    <3>4. T \ {x} \in Small(m)  BY <1>0, <1>a, <3>3
    <3>. HIDE DEF h, Small
    <3>. QED  BY <2>2, <3>2, <3>4 DEF Found
  <2>4. Fits(m + 1, h)
    <3>1. h = [T \in Small(m + 1) |-> Found(g, T)]  OBVIOUS
    <3>. HIDE DEF h, Small
    <3>. QED  BY <2>3, <3>1
  <2>5. m + 1 \in 0 .. Cardinality(S)  BY <1>0
  <2>. HIDE DEF Fits, h
  <2>. QED  BY <2>4, <2>5
<1>3. Cardinality(S) \in N
  <2>. HIDE DEF N
  <2>1. 0 .. Cardinality(S) \subseteq N  BY <1>0, <1>1, <1>2, SetInduction
  <2>. QED  BY <1>0, <2>1
<1>4. Small(Cardinality(S)) = SUBSET S  BY <1>a
<1>. QED  BY <1>3, <1>4

\* For a finite set of places, Islands gives its islands.
LEMMA IslandsPartition ==
    ASSUME NEW S, IsFiniteSet(S), S \subseteq Places
    PROVE  Partition(Islands(S), S)
<1>. DEFINE f == CHOOSE g : g = [T \in SUBSET S |-> Found(g, T)]
            P(n) == \A T \in SUBSET S : Cardinality(T) = n => Partition(f[T], T)
            N == {n \in 0 .. Cardinality(S) : P(n)}
<1>1. Islands(S) = f[S]  BY DEF Islands, FoldSet, MapThenFoldSet, Joined, Found
<1>2. f = [T \in SUBSET S |-> Found(f, T)]  BY FoundExists
<1>. HIDE DEF f
<1>3. Cardinality(S) \in Nat  BY FS_CardinalityType
<1>4. \A T \in SUBSET S : IsFiniteSet(T) /\ Cardinality(T) \in Nat  BY FS_Subset, FS_CardinalityType
<1>5. 0 \in N
  <2>1. f[{}] = {}  BY <1>2 DEF Found
  <2>2. Partition({}, {})  BY DEF Partition
  <2>3. P(0)
    <3>1. SUFFICES ASSUME NEW T \in SUBSET S, Cardinality(T) = 0 PROVE Partition(f[T], T)  OBVIOUS
    <3>2. T = {}  BY <1>4, <3>1, FS_EmptySet
    <3>. QED  BY <2>1, <2>2, <3>2
  <2>. HIDE DEF P
  <2>. QED  BY <1>3, <2>3
<1>6. ASSUME NEW n \in 0 .. Cardinality(S) - 1, n \in N PROVE n + 1 \in N
  <2>1. P(n)  BY <1>6
  <2>2. ASSUME NEW T \in SUBSET S, Cardinality(T) = n + 1 PROVE Partition(f[T], T)
    <3>1. T # {}  BY <1>3, <1>4, <2>2, FS_EmptySet
    <3>2. PICK x : x = CHOOSE y \in T : TRUE  OBVIOUS
    <3>3. x \in T  BY <3>1, <3>2
    <3>4. Cardinality(T \ {x}) = Cardinality(T) - 1  BY <1>4, <3>3, FS_RemoveElement
    <3>5. Partition(f[T \ {x}], T \ {x})  BY <1>3, <2>1, <2>2, <3>4
    <3>6. f[T] = Joined(x, f[T \ {x}])  BY <1>2, <3>1, <3>2 DEF Found
    <3>7. T \ {x} \subseteq Places /\ x \in Places /\ x \notin T \ {x} /\ (T \ {x}) \cup {x} = T  BY <3>3
    <3>8. Partition(Joined(x, f[T \ {x}]), (T \ {x}) \cup {x})  BY <3>5, <3>7, JoinedPartition
    <3>. QED  BY <3>6, <3>7, <3>8
  <2>3. n + 1 \in 0 .. Cardinality(S)  BY <1>3
  <2>. QED  BY <2>2, <2>3
<1>7. Cardinality(S) \in N
  <2>. HIDE DEF N
  <2>1. 0 .. Cardinality(S) \subseteq N  BY <1>3, <1>5, <1>6, SetInduction
  <2>. QED  BY <1>3, <2>1
<1>. QED  BY <1>1, <1>7

\* The islands of a finite set, and the island of a place.
LEMMA IslandsAre ==
    ASSUME NEW S, IsFiniteSet(S), S \subseteq Places
    PROVE  /\ \A I : I \in Islands(S) <=> IsIsland(I, S)
           /\ \A x \in S : \E I \in Islands(S) : x \in I
<1>1. Partition(Islands(S), S)  BY IslandsPartition
<1>2. \A x \in S : \E I \in Islands(S) : x \in I  BY <1>1 DEF Partition
<1>3. ASSUME NEW J, IsIsland(J, S) PROVE J \in Islands(S)
  <2>1. PICK x \in J : x \in S  BY <1>3 DEF IsIsland
  <2>2. PICK I \in Islands(S) : x \in I  BY <1>2, <2>1
  <2>3. I = J  BY <1>1, <1>3, <2>1, <2>2, IslandsMeet DEF Partition
  <2>. QED  BY <2>2, <2>3
<1>. QED  BY <1>1, <1>2, <1>3 DEF Partition

\* An island of what a window V shows of W is part of an island of W, and is one
\* if it does not touch the border.
LEMMA IslandOfWindow ==
    ASSUME NEW W, NEW V, NEW I, IsIsland(I, V \cap W)
    PROVE  /\ (\A p \in I, k \in 1 .. 4 : Neighbours(p)[k] \in V) => IsIsland(I, W)
           /\ \A J : IsIsland(J, W) /\ I \cap J # {} => I \subseteq J
<1>1. ASSUME \A p \in I, k \in 1 .. 4 : Neighbours(p)[k] \in V PROVE IsIsland(I, W)
  <2>1. ClosedIn(I, W)  BY <1>1 DEF IsIsland, ClosedIn
  <2>. QED  BY <2>1 DEF IsIsland
<1>2. ASSUME NEW J, IsIsland(J, W), I \cap J # {} PROVE I \subseteq J
  <2>1. ClosedIn(I \cap J, I)  BY <1>2 DEF IsIsland, ClosedIn
  <2>2. I \cap J \in SUBSET I  OBVIOUS
  <2>3. I \cap J = I  BY <1>2, <2>1, <2>2 DEF IsIsland
  <2>. QED  BY <2>3
<1>. QED  BY <1>1, <1>2

(***************************************************************************)
(* Numbers and grids                                                       *)
(***************************************************************************)

\* A mean is between the least and the greatest value, whatever the sign.
LEMMA QuotientBetween ==
    ASSUME NEW s \in Nat, NEW c \in Nat, c > 0, NEW lo \in Int, NEW hi \in Int,
           lo * c <= s, s <= hi * c
    PROVE  s \div c \in Nat /\ lo <= s \div c /\ s \div c <= hi
<1>1. PICK q \in Nat, r \in 0 .. c - 1 : q = s \div c /\ s = q * c + r  BY DivMod
<1>2. PICK l \in Int, h \in Int, m \in Int : l = lo * c /\ h = hi * c /\ m = q * c  OBVIOUS
<1>3. lo > q => l >= m + c  BY <1>1, <1>2, SmallMultiple
<1>4. q > hi => m >= h + c  BY <1>1, <1>2, SmallMultiple
<1>5. l <= s /\ s <= h /\ s = m + r /\ 0 <= r /\ r < c  BY <1>1, <1>2
<1>6. ~(lo > q) /\ ~(q > hi)  BY <1>2, <1>3, <1>4, <1>5
<1>. QED  BY <1>1, <1>6

\* The same for C++ division, which rounds towards zero.
LEMMA TruncBetween ==
    ASSUME NEW s \in Int, NEW c \in Nat, c > 0, NEW lo \in Int, NEW hi \in Int,
           lo * c <= s, s <= hi * c
    PROVE  Trunc(s, c) \in Int /\ lo <= Trunc(s, c) /\ Trunc(s, c) <= hi
<1>1. CASE s >= 0
  <2>1. s \in Nat  BY <1>1
  <2>2. s \div c \in Nat /\ lo <= s \div c /\ s \div c <= hi  BY <2>1, QuotientBetween
  <2>. QED  BY <1>1, <2>2 DEF Trunc
<1>2. CASE ~(s >= 0)
  <2>1. -s \in Nat /\ -lo \in Int /\ -hi \in Int  BY <1>2
  <2>2. (-hi) * c <= -s /\ -s <= (-lo) * c
    <3>1. (-hi) * c = -(hi * c) /\ (-lo) * c = -(lo * c)  OBVIOUS
    <3>2. PICK l \in Int, h \in Int : l = lo * c /\ h = hi * c  OBVIOUS
    <3>. QED  BY <3>1, <3>2
  <2>3. (-s) \div c \in Nat /\ -hi <= (-s) \div c /\ (-s) \div c <= -lo
    BY <2>1, <2>2, QuotientBetween
  <2>4. PICK q \in Nat : q = (-s) \div c  BY <2>3
  <2>5. Trunc(s, c) = -q  BY <1>2, <2>4 DEF Trunc
  <2>6. -hi <= q /\ q <= -lo  BY <2>3, <2>4
  <2>. QED  BY <2>5, <2>6
<1>. QED  BY <1>1, <1>2

\* A square window.
LEMMA SquareFacts ==
    ASSUME NEW x \in Int, NEW z \in Int, NEW n \in Nat
    PROVE  /\ Square(x, z, n) \subseteq Places
           /\ IsFiniteSet(Square(x, z, n)) /\ Cardinality(Square(x, z, n)) = n * n
           /\ \A p \in Square(x, z, n) : x <= p[1] /\ p[1] <= x + n - 1 /\ z <= p[2] /\ p[2] <= z + n - 1
           /\ \A a, b \in Int : x <= a /\ a <= x + n - 1 /\ z <= b /\ b <= z + n - 1 =>
                 <<a, b>> \in Square(x, z, n)
<1>1. Square(x, z, n) \subseteq Places  BY DEF Square, Places
<1>2. /\ IsFiniteSet(x .. x + n - 1) /\ Cardinality(x .. x + n - 1) = n
      /\ IsFiniteSet(z .. z + n - 1) /\ Cardinality(z .. z + n - 1) = n
  <2>1. /\ IsFiniteSet(x .. x + n - 1)
        /\ Cardinality(x .. x + n - 1) = IF x > x + n - 1 THEN 0 ELSE (x + n - 1) - x + 1
    BY FS_Interval
  <2>2. /\ IsFiniteSet(z .. z + n - 1)
        /\ Cardinality(z .. z + n - 1) = IF z > z + n - 1 THEN 0 ELSE (z + n - 1) - z + 1
    BY FS_Interval
  <2>. QED  BY <2>1, <2>2
<1>3. IsFiniteSet(Square(x, z, n)) /\ Cardinality(Square(x, z, n)) = n * n
  BY ZenonT(40), <1>2, FS_Product DEF Square
<1>. QED  BY <1>1, <1>3 DEF Square

\* The scan finds a place if there is one.
LEMMA FirstIn ==
    ASSUME NEW S, S \subseteq Places, S # {}, NEW x \in Int, NEW z \in Int,
           \A p \in S : x <= p[1] /\ z <= p[2]
    PROVE  First(S) \in S
<1>0. \A p \in S : p[1] \in Int /\ p[2] \in Int  BY DEF Places
<1>1. PICK b \in {p[2] - z : p \in S} : \A c \in {p[2] - z : p \in S} : ~(c < b)
  <2>1. {p[2] - z : p \in S} \subseteq Nat /\ {p[2] - z : p \in S} # {}  BY <1>0
  <2>. QED  BY <2>1, LeastNumber
<1>2. PICK r \in S : b = r[2] - z  BY <1>1
<1>3. \A q \in S : r[2] <= q[2]
  <2>1. SUFFICES ASSUME NEW q \in S PROVE r[2] <= q[2]  OBVIOUS
  <2>2. q[2] - z \in {p[2] - z : p \in S}  OBVIOUS
  <2>3. ~(q[2] - z < b)  BY <1>1, <2>2
  <2>. QED  BY <1>0, <1>2, <2>3
<1>. DEFINE R == {p \in S : p[2] = r[2]}
<1>4. PICK a \in {p[1] - x : p \in R} : \A c \in {p[1] - x : p \in R} : ~(c < a)
  <2>1. {p[1] - x : p \in R} \subseteq Nat /\ {p[1] - x : p \in R} # {}  BY <1>0
  <2>. QED  BY <2>1, LeastNumber
<1>5. PICK s \in R : a = s[1] - x  BY <1>4
<1>6. \A q \in R : s[1] <= q[1]
  <2>1. SUFFICES ASSUME NEW q \in R PROVE s[1] <= q[1]  OBVIOUS
  <2>2. q[1] - x \in {p[1] - x : p \in R}  OBVIOUS
  <2>3. ~(q[1] - x < a)  BY <1>4, <2>2
  <2>. QED  BY <1>0, <1>5, <2>3
<1>7. \A q \in S : s[2] < q[2] \/ (s[2] = q[2] /\ s[1] <= q[1])
  <2>1. SUFFICES ASSUME NEW q \in S PROVE s[2] < q[2] \/ (s[2] = q[2] /\ s[1] <= q[1])  OBVIOUS
  <2>2. s[2] = r[2] /\ r[2] <= q[2] /\ s[2] \in Int /\ q[2] \in Int  BY <1>0, <1>3, <1>5
  <2>3. q[2] = r[2] => s[1] <= q[1]  BY <1>6
  <2>. QED  BY <2>2, <2>3
<1>8. \E p \in S : \A q \in S : p[2] < q[2] \/ (p[2] = q[2] /\ p[1] <= q[1])  BY <1>5, <1>7
<1>. QED  BY <1>8 DEF First

\* The smaller and the larger of two numbers.
LEMMA MinMaxOfTwo ==
    ASSUME NEW a \in Int, NEW b \in Int
    PROVE  /\ Min({a, b}) = IF a <= b THEN a ELSE b
           /\ Max({a, b}) = IF a >= b THEN a ELSE b
<1>1. PICK m \in {a, b} : \A y \in {a, b} : m <= y  OBVIOUS
<1>2. PICK n \in {a, b} : \A y \in {a, b} : n >= y  OBVIOUS
<1>3. Min({a, b}) \in {a, b} /\ \A y \in {a, b} : Min({a, b}) <= y  BY <1>1 DEF Min
<1>4. Max({a, b}) \in {a, b} /\ \A y \in {a, b} : Max({a, b}) >= y  BY <1>2 DEF Max
<1>. QED  BY <1>3, <1>4

(***************************************************************************)
(* The stack                                                               *)
(***************************************************************************)

\* What is on a stack.
LEMMA InSeq ==
    ASSUME NEW T, NEW s \in Seq(T)
    PROVE  /\ \A e : e \in ToSet(s) <=> \E k \in 1 .. Len(s) : s[k] = e
           /\ ToSet(s) \subseteq T
           /\ s = <<>> <=> ToSet(s) = {}
<1>1. DOMAIN s = 1 .. Len(s) /\ Len(s) \in Nat  OBVIOUS
<1>2. \A e : e \in ToSet(s) <=> \E k \in 1 .. Len(s) : s[k] = e  BY <1>1, Zenon DEF ToSet
<1>3. ToSet(s) \subseteq T
  <2>1. \A k \in 1 .. Len(s) : s[k] \in T  OBVIOUS
  <2>. QED  BY <1>2, <2>1
<1>4. ASSUME s # <<>> PROVE ToSet(s) # {}
  <2>1. 1 \in 1 .. Len(s)  BY <1>4
  <2>. QED  BY <1>2, <2>1
<1>5. ASSUME s = <<>> PROVE ToSet(s) = {}
  <2>1. 1 .. Len(s) = {}  BY <1>5
  <2>. QED  BY <1>2, <2>1
<1>. QED  BY <1>2, <1>3, <1>4, <1>5

\* What is popped, and what is left.
LEMMA FrontLast ==
    ASSUME NEW T, NEW s \in Seq(T), s # <<>>
    PROVE  /\ Last(s) \in T /\ Front(s) \in Seq(T)
           /\ ToSet(s) = ToSet(Front(s)) \cup {Last(s)}
           /\ IsInjective(s) => IsInjective(Front(s)) /\ Last(s) \notin ToSet(Front(s))
<1>1. PICK n \in Nat : n = Len(s) /\ n > 0  OBVIOUS
<1>2. Last(s) = s[n] /\ Last(s) \in T  BY <1>1 DEF Last
<1>3. /\ Front(s) \in Seq(T) /\ Len(Front(s)) = n - 1
      /\ \A k \in 1 .. n - 1 : Front(s)[k] = s[k]
  BY <1>1 DEF Front
<1>4. ToSet(s) = ToSet(Front(s)) \cup {Last(s)}
  <2>1. ASSUME NEW e \in ToSet(s) PROVE e \in ToSet(Front(s)) \cup {Last(s)}
    <3>1. PICK k \in 1 .. n : s[k] = e  BY <1>1, InSeq
    <3>2. k = n \/ k \in 1 .. n - 1  BY <1>1
    <3>. QED  BY <1>2, <1>3, <3>1, <3>2, InSeq
  <2>2. n \in 1 .. n /\ \A k \in 1 .. n - 1 : k \in 1 .. n  BY <1>1
  <2>3. Last(s) \in ToSet(s)  BY <1>1, <1>2, <2>2, InSeq
  <2>4. ToSet(Front(s)) \subseteq ToSet(s)
    <3>1. SUFFICES ASSUME NEW e \in ToSet(Front(s)) PROVE e \in ToSet(s)  OBVIOUS
    <3>2. PICK k \in 1 .. n - 1 : Front(s)[k] = e  BY <1>3, InSeq
    <3>. QED  BY <1>1, <1>3, <2>2, <3>2, InSeq
  <2>. QED  BY <2>1, <2>3, <2>4
<1>5. ASSUME IsInjective(s) PROVE IsInjective(Front(s)) /\ Last(s) \notin ToSet(Front(s))
  <2>1. DOMAIN s = 1 .. n /\ DOMAIN Front(s) = 1 .. n - 1  BY <1>1, <1>3
  <2>2. \A k \in 1 .. n - 1 : k \in 1 .. n /\ k # n  BY <1>1
  <2>3. n \in 1 .. n  BY <1>1
  <2>4. \A i, k \in 1 .. n : s[i] = s[k] => i = k  BY <1>5, <2>1 DEF IsInjective
  <2>5. IsInjective(Front(s))  BY <1>3, <2>1, <2>2, <2>4 DEF IsInjective
  <2>6. ASSUME Last(s) \in ToSet(Front(s)) PROVE FALSE
    <3>1. PICK k \in 1 .. n - 1 : Front(s)[k] = Last(s)  BY <1>3, <2>6, InSeq
    <3>. QED  BY <1>2, <1>3, <2>2, <2>3, <2>4, <3>1
  <2>. QED  BY <2>5, <2>6
<1>. QED  BY <1>2, <1>3, <1>4, <1>5

\* Two stacks, one on top of the other.
LEMMA Stacked ==
    ASSUME NEW T, NEW s \in Seq(T), NEW t \in Seq(T)
    PROVE  /\ s \o t \in Seq(T)
           /\ ToSet(s \o t) = ToSet(s) \cup ToSet(t)
           /\ IsInjective(s) /\ IsInjective(t) /\ ToSet(s) \cap ToSet(t) = {} => IsInjective(s \o t)
<1>1. PICK m \in Nat, n \in Nat : m = Len(s) /\ n = Len(t)  OBVIOUS
<1>2. /\ s \o t \in Seq(T) /\ Len(s \o t) = m + n
      /\ \A k \in 1 .. m : (s \o t)[k] = s[k]
      /\ \A k \in 1 .. n : (s \o t)[m + k] = t[k]
  BY <1>1
<1>3. /\ \A k \in 1 .. m : k \in 1 .. m + n
      /\ \A k \in 1 .. n : m + k \in 1 .. m + n
      /\ \A k \in 1 .. m + n : k \in 1 .. m \/ \E l \in 1 .. n : k = m + l
  <2>1. ASSUME NEW k \in 1 .. m + n, k \notin 1 .. m PROVE \E l \in 1 .. n : k = m + l
    <3>1. k - m \in 1 .. n /\ k = m + (k - m)  BY <1>1, <2>1
    <3>. QED  BY <3>1
  <2>. QED  BY <1>1, <2>1
<1>4. ToSet(s \o t) = ToSet(s) \cup ToSet(t)
  <2>1. ASSUME NEW e \in ToSet(s \o t) PROVE e \in ToSet(s) \cup ToSet(t)
    <3>1. PICK k \in 1 .. m + n : (s \o t)[k] = e  BY <1>2, InSeq
    <3>2. CASE k \in 1 .. m  BY <1>1, <1>2, <3>1, <3>2, InSeq
    <3>3. ASSUME NEW l \in 1 .. n, k = m + l PROVE e \in ToSet(t)  BY SMTT(40), <1>1, <1>2, <3>1, <3>3, InSeq
    <3>. QED  BY <1>3, <3>2, <3>3
  <2>2. ASSUME NEW e \in ToSet(s) PROVE e \in ToSet(s \o t)
    <3>1. PICK k \in 1 .. m : s[k] = e  BY <1>1, InSeq
    <3>. QED  BY <1>2, <1>3, <3>1, InSeq
  <2>3. ASSUME NEW e \in ToSet(t) PROVE e \in ToSet(s \o t)
    <3>1. PICK k \in 1 .. n : t[k] = e  BY <1>1, InSeq
    <3>. QED  BY <1>2, <1>3, <3>1, InSeq
  <2>. QED  BY <2>1, <2>2, <2>3
<1>5. ASSUME IsInjective(s), IsInjective(t), ToSet(s) \cap ToSet(t) = {} PROVE IsInjective(s \o t)
  <2>1. DOMAIN s = 1 .. m /\ DOMAIN t = 1 .. n /\ DOMAIN (s \o t) = 1 .. m + n  BY <1>1, <1>2
  <2>2. SUFFICES ASSUME NEW a \in 1 .. m + n, NEW b \in 1 .. m + n, (s \o t)[a] = (s \o t)[b]
                 PROVE  a = b
    BY <2>1 DEF IsInjective
  <2>3. \A i \in 1 .. m, k \in 1 .. n : s[i] # t[k]
    <3>1. \A i \in 1 .. m : s[i] \in ToSet(s)  BY <1>1, InSeq
    <3>2. \A k \in 1 .. n : t[k] \in ToSet(t)  BY <1>1, InSeq
    <3>. QED  BY <1>5, <3>1, <3>2
  <2>4. CASE a \in 1 .. m /\ b \in 1 .. m
    BY <1>2, <1>5, <2>1, <2>2, <2>4 DEF IsInjective
  <2>5. ASSUME NEW k \in 1 .. n, a = m + k, NEW l \in 1 .. n, b = m + l PROVE a = b
    <3>1. t[k] = t[l]  BY <1>2, <2>2, <2>5
    <3>2. k = l  BY <1>5, <2>1, <3>1 DEF IsInjective
    <3>. QED  BY <2>5, <3>2
  <2>6. ASSUME a \in 1 .. m, NEW l \in 1 .. n, b = m + l PROVE FALSE  BY <1>2, <2>2, <2>3, <2>6
  <2>7. ASSUME b \in 1 .. m, NEW l \in 1 .. n, a = m + l PROVE FALSE  BY <1>2, <2>2, <2>3, <2>7
  <2>. QED  BY <1>3, <2>4, <2>5, <2>6, <2>7
<1>. QED  BY <1>2, <1>4, <1>5

\* One more neighbour.
LEMMA OneMore ==
    ASSUME NEW S, NEW s \in Seq(S), IsInjective(s), NEW q, q \notin ToSet(s),
           NEW t, t = IF q \in S THEN <<q>> ELSE <<>>
    PROVE  /\ s \o t \in Seq(S) /\ IsInjective(s \o t)
           /\ ToSet(s \o t) = ToSet(s) \cup (S \cap {q})
<1>1. t \in Seq(S) /\ IsInjective(t) /\ ToSet(t) = S \cap {q}
  <2>1. CASE q \in S
    <3>1. t = <<q>> /\ t \in Seq(S) /\ Len(t) = 1 /\ t[1] = q  BY <2>1
    <3>2. DOMAIN t = {1} /\ 1 .. Len(t) = {1}  BY <3>1
    <3>3. IsInjective(t)  BY <3>2 DEF IsInjective
    <3>4. \A e : e \in ToSet(t) <=> \E k \in {1} : t[k] = e  BY <3>1, <3>2, InSeq
    <3>5. ToSet(t) = {q}  BY <3>1, <3>4
    <3>. QED  BY <2>1, <3>1, <3>3, <3>5
  <2>2. CASE q \notin S
    <3>1. t = <<>> /\ t \in Seq(S)  BY <2>2
    <3>2. DOMAIN t = {}  BY <3>1
    <3>3. IsInjective(t)  BY <3>2 DEF IsInjective
    <3>4. ToSet(t) = {}  BY <3>1, InSeq
    <3>. QED  BY <2>2, <3>1, <3>3, <3>4
  <2>. QED  BY <2>1, <2>2
<1>2. ToSet(s) \cap ToSet(t) = {}  BY <1>1
<1>3. /\ s \o t \in Seq(S) /\ ToSet(s \o t) = ToSet(s) \cup ToSet(t)
      /\ IsInjective(s) /\ IsInjective(t) /\ ToSet(s) \cap ToSet(t) = {} => IsInjective(s \o t)
  BY ZenonT(40), <1>1, Stacked
<1>. QED  BY <1>1, <1>2, <1>3

\* The neighbours that are pushed.
LEMMA NeighboursInFacts ==
    ASSUME NEW p \in Places, NEW S, NEW next, next = NeighboursIn(p, S)
    PROVE  /\ next \in Seq(S) /\ IsInjective(next)
           /\ \A q : q \in ToSet(next) <=> q \in S /\ \E k \in 1 .. 4 : Neighbours(p)[k] = q
<1>1. PICK x \in Int, z \in Int : p = <<x, z>>  BY DEF Places
<1>. DEFINE n == Neighbours(p)
            One(q) == IF q \in S THEN <<q>> ELSE <<>>
            s1 == One(n[1])
            s2 == s1 \o One(n[2])
            s3 == s2 \o One(n[3])
            s4 == s3 \o One(n[4])
<1>2. n[1] = <<x, z - 1>> /\ n[2] = <<x, z + 1>> /\ n[3] = <<x - 1, z>> /\ n[4] = <<x + 1, z>>
  BY <1>1 DEF Neighbours
<1>3. n[1] # n[2] /\ n[1] # n[3] /\ n[1] # n[4] /\ n[2] # n[3] /\ n[2] # n[4] /\ n[3] # n[4]
  BY <1>2
<1>4. next = s4  BY DEF NeighboursIn
<1>. HIDE DEF n
<1>5. s1 \in Seq(S) /\ IsInjective(s1) /\ ToSet(s1) = S \cap {n[1]}
  <2>1. <<>> \in Seq(S) /\ IsInjective(<<>>) /\ ToSet(<<>>) = {}
    <3>1. <<>> \in Seq(S) /\ DOMAIN <<>> = {}  OBVIOUS
    <3>. QED  BY <3>1, InSeq DEF IsInjective
  <2>2. s1 \in Seq(S)  OBVIOUS
  <2>3. <<>> \o s1 = s1  BY <2>2
  <2>4. \A e : e \notin ToSet(<<>>)  BY <2>1
  <2>5. n[1] \notin ToSet(<<>>)  BY <2>4
  <2>6. /\ <<>> \o s1 \in Seq(S) /\ IsInjective(<<>> \o s1)
        /\ ToSet(<<>> \o s1) = ToSet(<<>>) \cup (S \cap {n[1]})
    BY ZenonT(40), <2>1, <2>5, OneMore
  <2>. QED  BY <2>1, <2>3, <2>6
<1>. HIDE DEF s1
<1>6. s2 \in Seq(S) /\ IsInjective(s2) /\ ToSet(s2) = ToSet(s1) \cup (S \cap {n[2]})
  BY <1>3, <1>5, OneMore
<1>. HIDE DEF s2
<1>7. s3 \in Seq(S) /\ IsInjective(s3) /\ ToSet(s3) = ToSet(s2) \cup (S \cap {n[3]})
  BY <1>3, <1>5, <1>6, OneMore
<1>. HIDE DEF s3
<1>8. s4 \in Seq(S) /\ IsInjective(s4) /\ ToSet(s4) = ToSet(s3) \cup (S \cap {n[4]})
  BY <1>3, <1>5, <1>6, <1>7, OneMore
<1>. HIDE DEF s4
<1>9. \A k : k \in 1 .. 4 <=> k = 1 \/ k = 2 \/ k = 3 \/ k = 4  OBVIOUS
<1>10. \A q : q \in ToSet(next) <=> q \in S /\ (n[1] = q \/ n[2] = q \/ n[3] = q \/ n[4] = q)
  BY <1>4, <1>5, <1>6, <1>7, <1>8
<1>11. \A q : (\E k \in 1 .. 4 : n[k] = q) <=> (n[1] = q \/ n[2] = q \/ n[3] = q \/ n[4] = q)
  BY <1>9
<1>. QED  BY <1>4, <1>8, <1>10, <1>11 DEF n

(***************************************************************************)
(* The world and what a window shows of it                                 *)
(***************************************************************************)

\* The Voronoi step ends one of four cells from where it starts.
LEMMA VoronoiFacts ==
    ASSUME SetupOK(cand), NEW b \in Places
    PROVE  \E x, z \in Int, dx, dz \in 0 .. 1 :
              /\ Naive(b) = <<x, z>>
              /\ x = (b[1] - 2) \div 4 /\ z = (b[2] - 2) \div 4
              /\ Voronoi(b).xz = <<x + dx, z + dz>>
              /\ IsMushroom(b) => <<x + dx, z + dz>> \in cand.layer15 \cup cand.layer16
<1>1. PICK p \in Int, q \in Int : b = <<p, q>>  BY DEF Places
<1>2. PICK x \in Int, z \in Int : x = (p - 2) \div 4 /\ z = (q - 2) \div 4
  <2>1. (p - 2) \div 4 \in Int /\ (q - 2) \div 4 \in Int  OBVIOUS
  <2>. QED  BY <2>1
<1>3. <<p % 4, q % 4>> \in (0 .. 3) \X (0 .. 3)  OBVIOUS
<1>4. cand.voronoi \in [(0 .. 3) \X (0 .. 3) -> (0 .. 1) \X (15 .. 16) \X (0 .. 1)]  BY DEF SetupOK
<1>5. PICK d \in (0 .. 1) \X (15 .. 16) \X (0 .. 1) : d = cand.voronoi[<<p % 4, q % 4>>]
  BY <1>3, <1>4
<1>6. d[1] \in 0 .. 1 /\ d[3] \in 0 .. 1  BY <1>5
<1>7. Naive(b) = <<x, z>>  BY <1>1, <1>2 DEF Naive
<1>8. Voronoi(b).xz = <<x + d[1], z + d[3]>>  BY <1>1, <1>5, <1>7 DEF Voronoi
<1>9. IsMushroom(b) => Voronoi(b).xz \in cand.layer15 \cup cand.layer16  BY DEF IsMushroom
<1>10. PICK dx \in 0 .. 1, dz \in 0 .. 1 : dx = d[1] /\ dz = d[3]  BY <1>6
<1>11. b[1] = p /\ b[2] = q  BY <1>1
<1>12. Voronoi(b).xz = <<x + dx, z + dz>>  BY <1>8, <1>10
<1>13. IsMushroom(b) => <<x + dx, z + dz>> \in cand.layer15 \cup cand.layer16  BY <1>9, <1>12
<1>14. x = (b[1] - 2) \div 4 /\ z = (b[2] - 2) \div 4  BY <1>2, <1>11
<1>. QED  BY <1>7, <1>12, <1>13, <1>14

\* World is all blocks with mushroom fields, and they are finitely many.
LEMMA WorldFacts ==
    ASSUME SetupOK(cand)
    PROVE  /\ World \subseteq Places /\ IsFiniteSet(World)
           /\ \A b \in Places : b \in World <=> IsMushroom(b)
<1>. DEFINE L == cand.layer15 \cup cand.layer16
            At(xz) == Square(4 * xz[1] - 2, 4 * xz[2] - 2, 8)
            All == {At(xz) : xz \in L}
<1>1. IsFiniteSet(L) /\ L \subseteq Places  BY DEF SetupOK, Places
<1>2. \A xz \in L : xz[1] \in Int /\ xz[2] \in Int  BY <1>1 DEF Places
<1>3. \A xz \in L : IsFiniteSet(At(xz)) /\ At(xz) \subseteq Places
  <2>1. SUFFICES ASSUME NEW xz \in L PROVE IsFiniteSet(At(xz)) /\ At(xz) \subseteq Places  OBVIOUS
  <2>2. 4 * xz[1] - 2 \in Int /\ 4 * xz[2] - 2 \in Int /\ 8 \in Nat  BY <1>2
  <2>. QED  BY <2>2, SquareFacts
<1>4. World \subseteq UNION All  BY DEF World
<1>5. UNION All \subseteq Places
  <2>. HIDE DEF L
  <2>. QED  BY <1>3
<1>6. IsFiniteSet(UNION All)
  <2>. HIDE DEF L, At
  <2>. DEFINE f == [xz \in L |-> At(xz)]
  <2>1. f \in [L -> All]  OBVIOUS
  <2>2. \A t \in All : \E xz \in L : f[xz] = t  OBVIOUS
  <2>3. f \in Surjection(L, All)  BY <2>1, <2>2 DEF Surjection
  <2>4. IsFiniteSet(All)  BY <1>1, <2>3, FS_Surjection
  <2>5. \A t \in All : IsFiniteSet(t)  BY <1>3
  <2>. QED  BY <2>4, <2>5, FS_UNION
<1>7. IsFiniteSet(World)
  <2>. HIDE DEF All
  <2>. QED  BY <1>4, <1>6, FS_Subset
<1>8. ASSUME NEW b \in Places, IsMushroom(b) PROVE b \in World
  <2>1. PICK x \in Int, z \in Int, dx \in 0 .. 1, dz \in 0 .. 1 :
          /\ x = (b[1] - 2) \div 4 /\ z = (b[2] - 2) \div 4
          /\ <<x + dx, z + dz>> \in L
    BY <1>8, VoronoiFacts
  <2>2. PICK p \in Int, q \in Int : b = <<p, q>>  BY DEF Places
  <2>3. 4 * x <= p - 2 /\ p - 2 <= 4 * x + 3 /\ 4 * z <= q - 2 /\ q - 2 <= 4 * z + 3  BY <2>1, <2>2
  <2>4. PICK m \in Int, n \in Int : m = x + dx /\ n = z + dz  OBVIOUS
  <2>5. /\ 4 * m - 2 <= p /\ p <= (4 * m - 2) + 8 - 1
        /\ 4 * n - 2 <= q /\ q <= (4 * n - 2) + 8 - 1
    BY <2>3, <2>4
  <2>6. 4 * m - 2 \in Int /\ 4 * n - 2 \in Int  BY <2>4
  <2>7. b \in At(<<m, n>>)  BY <2>2, <2>5, <2>6, SquareFacts
  <2>8. <<m, n>> \in L  BY <2>1, <2>4
  <2>9. b \in UNION All
    <3>. HIDE DEF L, At
    <3>. QED  BY <2>7, <2>8
  <2>. QED  BY <1>8, <2>9 DEF World
<1>9. \A b \in World : IsMushroom(b)  BY DEF World
<1>. QED  BY <1>4, <1>5, <1>7, <1>8, <1>9

\* The cells that a block needs are among those that are sampled.
LEMMA GridCovers ==
    ASSUME NEW ox \in Int, NEW gw \in Nat, NEW b \in Int, ox <= b, b <= ox + gw - 1,
           NEW x \in Int, x = (b - 2) \div 4, NEW d \in 0 .. 1
    PROVE  /\ Trunc(ox - 8, 4) \in Int
           /\ Trunc(ox - 8, 4) <= x + d /\ x + d <= Trunc(ox - 8, 4) + ((gw \div 4) + 4) - 1
<1>1. PICK t \in Int : t = Trunc(ox - 8, 4) /\ 4 * t - 3 <= ox - 8 /\ ox - 8 <= 4 * t + 3
                       /\ (ox - 8 >= 0 => 4 * t <= ox - 8) /\ (0 >= ox - 8 => ox - 8 <= 4 * t)
  <2>1. CASE ox - 8 >= 0
    <3>1. PICK t \in Int : t = (ox - 8) \div 4  OBVIOUS
    <3>. QED  BY <2>1, <3>1 DEF Trunc
  <2>2. CASE ~(ox - 8 >= 0)
    <3>1. PICK t \in Int : t = (-(ox - 8)) \div 4  OBVIOUS
    <3>2. Trunc(ox - 8, 4) = -t  BY <2>2, <3>1 DEF Trunc
    <3>. QED  BY <2>2, <3>1, <3>2
  <2>. QED  BY <2>1, <2>2
<1>2. PICK g \in Int : g = gw \div 4 /\ 4 * g <= gw /\ gw <= 4 * g + 3
  <2>1. gw \div 4 \in Int  OBVIOUS
  <2>. QED  BY <2>1
<1>3. 4 * x <= b - 2 /\ b - 2 <= 4 * x + 3  OBVIOUS
<1>4. t <= x  BY <1>1, <1>3
<1>5. x + 1 <= t + (g + 4) - 1  BY <1>1, <1>2, <1>3
<1>. QED  BY <1>1, <1>2, <1>4, <1>5

\* What measure_1to1 flags in its window.
LEMMA PassGridExact ==
    ASSUME SetupOK(cand), NEW ox \in Int, NEW oz \in Int, NEW gw \in Nat
    PROVE  PassGrid(Square(ox, oz, gw), Grid4(ox, oz, gw)) = {b \in Square(ox, oz, gw) : IsMushroom(b)}
<1>. DEFINE blocks == Square(ox, oz, gw)
            grid == Grid4(ox, oz, gw)
            L == cand.layer15 \cup cand.layer16
<1>1. SUFFICES ASSUME NEW b \in blocks, IsMushroom(b)
               PROVE  Naive(b) \in MushMask(grid) /\ Voronoi(b).xz \in grid
  BY DEF PassGrid
<1>2. b \in Places /\ ox <= b[1] /\ b[1] <= ox + gw - 1 /\ oz <= b[2] /\ b[2] <= oz + gw - 1
  BY SquareFacts
<1>3. b[1] \in Int /\ b[2] \in Int  BY <1>2 DEF Places
<1>4. PICK x \in Int, z \in Int, dx \in 0 .. 1, dz \in 0 .. 1 :
          /\ Naive(b) = <<x, z>> /\ x = (b[1] - 2) \div 4 /\ z = (b[2] - 2) \div 4
          /\ Voronoi(b).xz = <<x + dx, z + dz>> /\ <<x + dx, z + dz>> \in L
  BY <1>1, <1>2, VoronoiFacts
<1>5. PICK tx \in Int, tz \in Int, m \in Nat :
          tx = Trunc(ox - 8, 4) /\ tz = Trunc(oz - 8, 4) /\ m = (gw \div 4) + 4
  <2>1. Trunc(ox - 8, 4) \in Int /\ Trunc(oz - 8, 4) \in Int  BY <1>2, <1>3, <1>4, GridCovers
  <2>2. (gw \div 4) + 4 \in Nat  OBVIOUS
  <2>. QED  BY <2>1, <2>2
<1>6. ASSUME NEW i \in 0 .. 1, NEW k \in 0 .. 1 PROVE <<x + i, z + k>> \in grid
  <2>1. tx <= x + i /\ x + i <= tx + m - 1  BY <1>2, <1>3, <1>4, <1>5, GridCovers
  <2>2. tz <= z + k /\ z + k <= tz + m - 1  BY <1>2, <1>3, <1>4, <1>5, GridCovers
  <2>3. grid = Square(tx, tz, m)  BY <1>5 DEF Grid4
  <2>4. x + i \in Int /\ z + k \in Int  OBVIOUS
  <2>. QED  BY <2>1, <2>2, <2>3, <2>4, SquareFacts
<1>7. <<x, z>> \in grid
  <2>1. 0 \in 0 .. 1 /\ x + 0 = x /\ z + 0 = z  OBVIOUS
  <2>2. <<x + 0, z + 0>> \in grid  BY <1>6, <2>1
  <2>. QED  BY <2>1, <2>2
<1>8. <<x + dx, z + dz>> \in grid  BY <1>6
<1>. HIDE DEF grid, L
<1>9. <<x, z>> \in MushMask(grid)
  <2>1. dx \in -1 .. 1 /\ dz \in -1 .. 1  OBVIOUS
  <2>2. <<x + dx, z + dz>> \in grid \cap L  BY <1>4, <1>8
  <2>3. <<x, z>>[1] = x /\ <<x, z>>[2] = z  OBVIOUS
  <2>. QED  BY <1>7, <2>1, <2>2, <2>3 DEF MushMask, L
<1>. QED  BY <1>4, <1>8, <1>9

(***************************************************************************)
(* The flood fill                                                          *)
(***************************************************************************)

\* The seed does not change, nor does its world.
LEMMA SameWorld ==
    ASSUME cand' = cand
    PROVE  World' = World /\ \A b : IsMushroom(b)' = IsMushroom(b)
BY DEF World, IsMushroom, Voronoi

\* The grid of fast_find_center is a square.
LEMMA Window4Facts ==
    ASSUME SetupOK(cand)
    PROVE  \E n \in Nat, x, z \in Int : n = Range4 \div 4 /\ 4 * n <= Range4 /\ Window4 = Square(x, z, n)
<1>1. \A a \in Int : Trunc(a, 4) \in Int
  <2>1. \A a \in Int : a \div 4 \in Int /\ (-a) \div 4 \in Int  OBVIOUS
  <2>. QED  BY <2>1 DEF Trunc
<1>2. cand.at[1] \in Int /\ cand.at[2] \in Int  BY DEF SetupOK, Places
<1>3. Range4 \in Nat  BY SizesAssumption
<1>4. PICK h \in Int : h = Range4 \div 2  BY <1>3
<1>5. PICK n \in Nat : n = Range4 \div 4 /\ 4 * n <= Range4  BY <1>3
<1>6. cand.at[1] - h \in Int /\ cand.at[2] - h \in Int  BY <1>2
<1>7. PICK x \in Int, z \in Int : x = Trunc(cand.at[1] - h, 4) /\ z = Trunc(cand.at[2] - h, 4)
  BY <1>1, <1>6
<1>8. Window4 = Square(x, z, n)  BY <1>4, <1>5, <1>7 DEF Window4
<1>. QED  BY <1>5, <1>8

\* The grid of a fill.
LEMMA GridFacts ==
    ASSUME TypeOK, StageOK, pc \in Filling
    PROVE  /\ IsFiniteSet(window) /\ window \subseteq Places
           /\ Ground \subseteq window /\ IsFiniteSet(Ground) /\ Ground \subseteq Places
           /\ \E x, z \in Int : \A p \in Ground : x <= p[1] /\ z <= p[2]
           /\ \A I : I \in Islands(Ground) <=> IsIsland(I, Ground)
           /\ \A p \in Ground : \E I \in Islands(Ground) : p \in I
<1>1. PICK x \in Int, z \in Int, n \in Nat : window = Square(x, z, n)
  <2>1. CASE pc = "find"
    <3>1. window = Window4  BY <2>1 DEF StageOK
    <3>. QED  BY <3>1, Window4Facts DEF TypeOK
  <2>2. CASE pc # "find"
    <3>1. window = Square(center[1] - radius, center[2] - radius, 2 * radius)
      BY <2>2 DEF StageOK, Filling
    <3>2. center[1] \in Int /\ center[2] \in Int  BY DEF TypeOK, Places
    <3>3. radius \in Nat  BY SizesAssumption DEF TypeOK
    <3>4. center[1] - radius \in Int /\ center[2] - radius \in Int /\ 2 * radius \in Nat
      BY <3>2, <3>3
    <3>. QED  BY <3>1, <3>4
  <2>. QED  BY <2>1, <2>2
<1>2. /\ IsFiniteSet(window) /\ window \subseteq Places
      /\ \A p \in window : x <= p[1] /\ z <= p[2]
  BY <1>1, SquareFacts
<1>3. Ground \subseteq window  BY DEF Ground
<1>4. IsFiniteSet(Ground)  BY <1>2, <1>3, FS_Subset
<1>5. Ground \subseteq Places  BY <1>2, <1>3
<1>6. /\ \A I : I \in Islands(Ground) <=> IsIsland(I, Ground)
      /\ \A p \in Ground : \E I \in Islands(Ground) : p \in I
  BY <1>4, <1>5, IslandsAre
<1>. QED  BY <1>2, <1>3, <1>4, <1>5, <1>6

\* A fill of the same grid goes on.
LEMMA SameGrid ==
    ASSUME cand' = cand, pc' = pc, window' = window
    PROVE  /\ Ground' = Ground
           /\ Islands(Ground)' = Islands(Ground)
           /\ \A I : Touches(I)' = Touches(I)
           /\ Window4' = Window4
<1>1. Ground' = Ground  BY SameWorld DEF Ground
<1>2. Islands(Ground)' = Islands(Ground)  BY <1>1
<1>. QED  BY <1>1, <1>2 DEF Touches, Window4

\* A thread that has just taken a candidate satisfies IInv.
LEMMA InitIInv == Init => IInv
<1>. SUFFICES ASSUME Init PROVE IInv  OBVIOUS
<1>1. TypeOK
  <2>1. SetupOK(cand)  BY CandidatesAssumption DEF Init
  <2>2. NoBest \in Measured  BY DEF NoBest, Measured, Places
  <2>3. 0 \in 0 .. MaxRadius  BY SizesAssumption
  <2>4. <<>> \in Seq(Places) /\ <<>> \in Seq(Measured) /\ Len(<<>>) <= 1  OBVIOUS
  <2>5. <<0, 0>> \in Places  BY DEF Places
  <2>. QED  BY <2>1, <2>2, <2>3, <2>4, <2>5 DEF Init, TypeOK
<1>2. StageOK  BY DEF Init, StageOK, Filling
<1>3. CentersOK /\ FillOK /\ BestOK /\ ReportedIsIsland /\ OriginExact
  BY DEF Init, CentersOK, FillOK, BestOK, ReportedIsIsland, OriginExact, Filling
<1>. QED  BY <1>1, <1>2, <1>3 DEF IInv

\* What a turn of a fill leaves alone.
LEMMA FillFrame ==
    ASSUME IInv, pc \in Filling, UNCHANGED <<cand, pc, window, center, radius, exact, result>>
    PROVE  StageOK' /\ CentersOK' /\ ReportedIsIsland' /\ OriginExact'
<1>1. pc' \in Filling /\ pc' = pc  OBVIOUS
<1>2. CentersOK' /\ ReportedIsIsland' /\ OriginExact'
  BY <1>1 DEF CentersOK, ReportedIsIsland, OriginExact, Filling
<1>3. World' = World /\ Window4' = Window4 /\ IsMushroom(<<0, 0>>)' = IsMushroom(<<0, 0>>)
  BY SameWorld, SameGrid
<1>4. Islands(World)' = Islands(World)  BY <1>3
<1>5. StageOK
  BY DEF IInv
<1>6. StageOK'  BY <1>1, <1>3, <1>4, <1>5 DEF StageOK, Filling, InBox
<1>. QED  BY <1>2, <1>6

\* A fill that starts has reached one place, and has taken none.
LEMMA StartFillStep ==
    ASSUME IInv, StartFill
    PROVE  IInv'
<1>0. TypeOK /\ StageOK /\ FillOK /\ BestOK  BY DEF IInv
<1>1. pc \in Filling /\ pc \in {"find", "measure"} /\ stack = <<>> /\ pass # {} /\ count = 0
  BY DEF StartFill, Filling
<1>2. /\ IsFiniteSet(Ground) /\ Ground \subseteq Places
      /\ \E x, z \in Int : \A p \in Ground : x <= p[1] /\ z <= p[2]
      /\ \A p \in Ground : \E I \in Islands(Ground) : p \in I
  BY <1>0, <1>1, GridFacts
<1>3. /\ pass \subseteq Ground /\ taken \subseteq Ground /\ count = Cardinality(taken)
      /\ ClosedIn(Old, Ground)
  BY <1>0, <1>1 DEF FillOK, Reached
<1>4. taken = {}
  <2>1. IsFiniteSet(taken)  BY <1>2, <1>3, FS_Subset
  <2>. QED  BY <1>1, <1>3, <2>1, FS_EmptySet
<1>5. ToSet(stack) = {} /\ Reached = {}
  <2>1. <<>> \in Seq(Places)  OBVIOUS
  <2>2. ToSet(stack) = {}  BY <1>1, <2>1, InSeq
  <2>. QED  BY <1>4, <2>2 DEF Reached
<1>6. PICK f \in pass : f = First(pass)
  <2>1. pass \subseteq Places  BY <1>2, <1>3
  <2>2. First(pass) \in pass  BY <1>1, <1>2, <1>3, <2>1, FirstIn
  <2>. QED  BY <2>2
<1>7. /\ stack' = <<f>> /\ pass' = pass \ {f} /\ sum' = <<0, 0>> /\ edge' = FALSE
      /\ UNCHANGED <<cand, pc, window, count, taken, best, center, radius, exact, result>>
  BY <1>6 DEF StartFill
<1>8. f \in Places /\ f \in Ground  BY <1>2, <1>3
<1>9. stack' \in Seq(Places) /\ ToSet(stack') = {f} /\ IsInjective(stack')
  <2>1. stack' \in Seq(Places) /\ DOMAIN stack' = {1} /\ stack'[1] = f /\ 1 .. Len(stack') = {1}
    BY <1>7, <1>8
  <2>2. \A e : e \in ToSet(stack') <=> \E k \in {1} : stack'[k] = e  BY <2>1, InSeq
  <2>. QED  BY <2>1, <2>2 DEF IsInjective
<1>10. Reached' = {f} /\ pass' \cup Reached' = pass \cup Reached
  BY <1>4, <1>5, <1>7, <1>9 DEF Reached
<1>11. Ground' = Ground /\ Islands(Ground)' = Islands(Ground) /\ \A I : Touches(I)' = Touches(I)
  BY <1>7, SameGrid
<1>12. Old' = Old  BY <1>10, <1>11 DEF Old
<1>13. TypeOK'
  <2>1. pc # "fillGen"  BY <1>1
  <2>2. sum' \in Places  BY <1>7 DEF Places
  <2>3. pass' \subseteq Places /\ edge' \in BOOLEAN  BY <1>0, <1>7 DEF TypeOK
  <2>. QED  BY <1>0, <1>7, <1>9, <2>1, <2>2, <2>3 DEF TypeOK
<1>14. FillOK'
  <2>1. /\ (pass \cup Reached)' \subseteq Ground' /\ (pass \cap Reached)' = {}
        /\ (taken \cap ToSet(stack))' = {}
    BY <1>3, <1>4, <1>5, <1>7, <1>10, <1>11
  <2>2. ClosedIn(taken, Ground \ Reached)'  BY <1>4, <1>7 DEF ClosedIn
  <2>3. ClosedIn(Old, Ground)'  BY <1>3, <1>11, <1>12
  <2>4. \E I \in Islands(Ground)' : Reached' \subseteq I  BY <1>2, <1>8, <1>10, <1>11
  <2>. QED  BY <1>3, <1>4, <1>7, <1>9, <2>1, <2>2, <2>3, <2>4 DEF FillOK
<1>15. BestOK'
  <2>1. pc' \in {"find", "measure"} /\ pc' # "fromCenter"  BY <1>1, <1>7
  <2>. QED  BY <1>0, <1>1, <1>7, <1>11, <1>12, <2>1 DEF BestOK, Describes, InBox
<1>16. StageOK' /\ CentersOK' /\ ReportedIsIsland' /\ OriginExact'  BY <1>1, <1>7, FillFrame
<1>. QED  BY <1>13, <1>14, <1>15, <1>16 DEF IInv

\* The bounds of a sum, with one more value.
LEMMA SumBounds ==
    ASSUME NEW a \in Int, NEW b \in Int, NEW v \in Int, NEW s \in Int, NEW c \in Nat,
           a * c <= s, s <= b * c
    PROVE  /\ a * (c + 1) <= s + v \/ v * (c + 1) <= s + v
           /\ s + v <= b * (c + 1) \/ s + v <= v * (c + 1)
<1>1. a * (c + 1) = a * c + a /\ b * (c + 1) = b * c + b /\ v * (c + 1) = v * c + v  OBVIOUS
<1>2. v <= a => v * c <= a * c
  <2>1. SUFFICES ASSUME v <= a PROVE v * c <= a * c  OBVIOUS
  <2>2. PICK d \in Nat : a = v + d
    <3>1. a - v \in Nat /\ a = v + (a - v)  BY <2>1
    <3>. QED  BY <3>1
  <2>3. a * c = v * c + d * c /\ d * c \in Nat  BY <2>2
  <2>. QED  BY <2>3
<1>3. b <= v => b * c <= v * c
  <2>1. SUFFICES ASSUME b <= v PROVE b * c <= v * c  OBVIOUS
  <2>2. PICK d \in Nat : v = b + d
    <3>1. v - b \in Nat /\ v = b + (v - b)  BY <2>1
    <3>. QED  BY <3>1
  <2>3. v * c = b * c + d * c /\ d * c \in Nat  BY <2>2
  <2>. QED  BY <2>3
<1>4. PICK x \in Int, y \in Int, w \in Int : x = a * c /\ y = b * c /\ w = v * c  OBVIOUS
<1>5. x + a <= s + v \/ w + v <= s + v  BY <1>2, <1>4
<1>6. s + v <= y + b \/ s + v <= w + v  BY <1>3, <1>4
<1>. QED  BY <1>1, <1>4, <1>5, <1>6

\* A turn of a fill takes the top of the stack and pushes its neighbours: what
\* is reached stays in one island, and what is taken has all neighbours reached.
LEMMA FillOneStep ==
    ASSUME IInv, FillOne
    PROVE  IInv'
<1>0. TypeOK /\ StageOK /\ FillOK /\ BestOK  BY DEF IInv
<1>1. pc \in Filling /\ stack # <<>> /\ pc # "fillGen"  BY DEF FillOne, Filling
<1>. DEFINE p == Last(stack)
            F == Front(stack)
            next == NeighboursIn(p, pass)
            Adj(a, b) == \E k \in 1 .. 4 : Neighbours(a)[k] = b
<1>2. /\ stack' = F \o next /\ pass' = pass \ ToSet(next)
      /\ count' = count + 1 /\ taken' = taken \cup {p}
      /\ sum' = <<sum[1] + p[1], sum[2] + p[2]>>
      /\ edge' = (edge \/ \E k \in 1 .. 4 : Neighbours(p)[k] \notin window)
      /\ UNCHANGED <<cand, pc, window, best, center, radius, exact, result>>
  BY DEF FillOne
<1>3. /\ IsFiniteSet(Ground) /\ Ground \subseteq Places
      /\ \A I : I \in Islands(Ground) <=> IsIsland(I, Ground)
  BY <1>0, <1>1, GridFacts
<1>4. stack \in Seq(Places)  BY <1>0, <1>1 DEF TypeOK
<1>5. /\ pass \subseteq Ground /\ taken \subseteq Ground /\ ToSet(stack) \subseteq Ground
      /\ pass \cap taken = {} /\ pass \cap ToSet(stack) = {} /\ taken \cap ToSet(stack) = {}
      /\ IsInjective(stack) /\ count = Cardinality(taken)
  BY <1>0, <1>1 DEF FillOK, Reached
<1>6. /\ p \in Places /\ F \in Seq(Places) /\ ToSet(stack) = ToSet(F) \cup {p}
      /\ IsInjective(F) /\ p \notin ToSet(F)
  BY <1>1, <1>4, <1>5, FrontLast
<1>7. /\ next \in Seq(pass) /\ IsInjective(next)
      /\ \A q : q \in ToSet(next) <=> q \in pass /\ Adj(p, q)
  BY <1>6, NeighboursInFacts
<1>8. ToSet(next) \subseteq pass  BY <1>7
<1>9. next \in Seq(Places)  BY <1>3, <1>5, <1>7
<1>10. ToSet(F) \cap ToSet(next) = {}  BY <1>5, <1>6, <1>8
<1>11. /\ stack' \in Seq(Places) /\ ToSet(stack') = ToSet(F) \cup ToSet(next) /\ IsInjective(stack')
  BY <1>2, <1>6, <1>7, <1>9, <1>10, Stacked
<1>. HIDE DEF p, F, next
<1>12. /\ Reached' = Reached \cup ToSet(next)
       /\ pass' \cup Reached' = pass \cup Reached
       /\ pass' \cap Reached' = {} /\ taken' \cap ToSet(stack') = {}
       /\ p \in Reached /\ p \notin taken /\ p \in Ground
  BY <1>2, <1>5, <1>6, <1>8, <1>10, <1>11 DEF Reached
<1>13. Ground' = Ground /\ Islands(Ground)' = Islands(Ground) /\ \A I : Touches(I)' = Touches(I)
  BY <1>2, SameGrid
<1>14. Old' = Old  BY <1>12, <1>13 DEF Old
<1>15. p[1] \in Int /\ p[2] \in Int /\ sum[1] \in Int /\ sum[2] \in Int /\ count \in Nat
  BY <1>0, <1>6 DEF TypeOK, Places
<1>16. TypeOK'
  <2>1. sum' \in Places  BY <1>2, <1>15 DEF Places
  <2>2. count' \in Nat  BY <1>2, <1>15
  <2>3. edge' \in BOOLEAN  BY <1>0, <1>2, Zenon DEF TypeOK
  <2>4. pass' \subseteq Places /\ taken' \subseteq Places  BY <1>0, <1>2, <1>6 DEF TypeOK
  <2>. QED  BY <1>0, <1>1, <1>2, <1>11, <2>1, <2>2, <2>3, <2>4 DEF TypeOK
<1>17. ClosedIn(Old, Ground) /\ ClosedIn(taken, Ground \ Reached)  BY <1>0, <1>1 DEF FillOK
<1>18. ClosedIn(taken', Ground \ Reached')
  <2>1. SUFFICES ASSUME NEW a \in taken', NEW q \in Ground \ Reached', Adj(a, q) PROVE q \in taken'
    BY DEF ClosedIn
  <2>2. CASE a \in taken
    BY <1>2, <1>12, <1>17, <2>1, <2>2 DEF ClosedIn
  <2>3. CASE a = p
    <3>1. q \notin pass  BY <1>7, <1>12, <2>1, <2>3
    <3>2. q \in Old  BY <1>12, <2>1, <3>1 DEF Old
    <3>3. Adj(q, p)
      <4>1. q \in Places /\ \E k \in 1 .. 4 : Neighbours(p)[k] = q  BY <1>3, <2>1, <2>3
      <4>. QED  BY <1>6, <4>1, NeighboursSymmetric
    <3>4. p \in Old  BY <1>12, <1>17, <3>2, <3>3 DEF ClosedIn
    <3>. QED  BY <1>12, <3>4 DEF Old
  <2>. QED  BY <1>2, <2>2, <2>3
<1>19. \E I \in Islands(Ground) : Reached' \subseteq I
  <2>1. PICK I \in Islands(Ground) : Reached \subseteq I  BY <1>0, <1>1, <1>12 DEF FillOK
  <2>2. ClosedIn(I, Ground)  BY <1>3, <2>1 DEF IsIsland
  <2>3. ToSet(next) \subseteq I  BY <1>5, <1>7, <1>12, <2>1, <2>2 DEF ClosedIn
  <2>. QED  BY <1>12, <2>1, <2>3
<1>20. count' = Cardinality(taken')
  <2>1. IsFiniteSet(taken)  BY <1>3, <1>5, FS_Subset
  <2>. QED  BY <1>2, <1>5, <1>12, <2>1, FS_AddElement
<1>21. edge' = Touches(taken')
  <2>1. taken = {} => ~edge  BY <1>0, <1>1 DEF FillOK
  <2>2. taken # {} => edge = Touches(taken)  BY <1>0, <1>1 DEF FillOK
  <2>3. Touches(taken') <=> Touches(taken) \/ \E k \in 1 .. 4 : Neighbours(p)[k] \notin window
    BY <1>2 DEF Touches
  <2>4. taken = {} => ~Touches(taken)  BY DEF Touches
  <2>5. edge <=> Touches(taken)  BY <2>1, <2>2, <2>4
  <2>6. edge' \in BOOLEAN /\ Touches(taken') \in BOOLEAN  BY <1>16 DEF TypeOK, Touches
  <2>7. edge' <=> Touches(taken')  BY <1>2, <2>3, <2>5
  <2>. QED  BY <2>6, <2>7
<1>22. \A i \in 1 .. 2 : \E a, b \in taken' : a[i] * count' <= sum'[i] /\ sum'[i] <= b[i] * count'
  <2>1. SUFFICES ASSUME NEW i \in 1 .. 2
                 PROVE  \E a, b \in taken' : a[i] * count' <= sum'[i] /\ sum'[i] <= b[i] * count'
    OBVIOUS
  <2>2. sum'[i] = sum[i] + p[i] /\ sum[i] \in Int /\ p[i] \in Int
    <3>1. i = 1 \/ i = 2  OBVIOUS
    <3>2. CASE i = 1  BY <1>2, <1>15, <3>2
    <3>3. CASE i = 2  BY <1>2, <1>15, <3>3
    <3>. QED  BY <3>1, <3>2, <3>3
  <2>3. p \in taken'  BY <1>2
  <2>4. CASE taken = {}
    <3>1. sum = <<0, 0>>  BY <1>0, <1>1, <2>4 DEF FillOK
    <3>2. sum[i] = 0  BY <3>1
    <3>3. count = 0  BY <1>5, <2>4, FS_EmptySet
    <3>4. sum'[i] = p[i] /\ p[i] * count' = p[i]  BY <1>2, <2>2, <3>2, <3>3
    <3>. QED  BY <2>2, <2>3, <3>4
  <2>5. CASE taken # {}
    <3>1. PICK a \in taken, b \in taken : a[i] * count <= sum[i] /\ sum[i] <= b[i] * count
      BY <1>0, <1>1, <2>5 DEF FillOK
    <3>2. a[i] \in Int /\ b[i] \in Int
      <4>1. a \in Places /\ b \in Places  BY <1>0 DEF TypeOK
      <4>2. i = 1 \/ i = 2  OBVIOUS
      <4>. QED  BY <4>1, <4>2 DEF Places
    <3>3. /\ a[i] * (count + 1) <= sum[i] + p[i] \/ p[i] * (count + 1) <= sum[i] + p[i]
          /\ sum[i] + p[i] <= b[i] * (count + 1) \/ sum[i] + p[i] <= p[i] * (count + 1)
      BY <1>15, <2>2, <3>1, <3>2, SumBounds
    <3>4. a \in taken' /\ b \in taken'  BY <1>2
    <3>. QED  BY <1>2, <2>2, <2>3, <3>3, <3>4
  <2>. QED  BY <2>4, <2>5
<1>23. FillOK'
  <2>1. taken' # {}  BY <1>2
  <2>2. (pass \cup Reached)' \subseteq Ground'  BY <1>5, <1>12, <1>13 DEF Reached
  <2>3. ClosedIn(taken, Ground \ Reached)'  BY <1>13, <1>18
  <2>4. ClosedIn(Old, Ground)'  BY <1>13, <1>14, <1>17
  <2>5. \E I \in Islands(Ground)' : Reached' \subseteq I  BY <1>13, <1>19
  <2>6. edge' = Touches(taken)'
    <3>1. Touches(taken)' = Touches(taken')  BY <1>2 DEF Touches
    <3>. QED  BY <1>21, <3>1
  <2>. QED  BY <1>11, <1>12, <1>20, <1>22, <2>1, <2>2, <2>3, <2>4, <2>5, <2>6 DEF FillOK
<1>24. BestOK'
  <2>1. Reached # {} /\ Reached \subseteq Reached'  BY <1>12
  <2>2. pc' = "fromCenter" => Old' = {} /\ best'.n = 0 /\ ~best'.edge /\ center' \in Reached'
    BY <1>0, <1>2, <1>14, <2>1 DEF BestOK
  <2>. QED  BY <1>0, <1>2, <1>13, <1>14, <2>2 DEF BestOK, Describes, InBox
<1>25. StageOK' /\ CentersOK' /\ ReportedIsIsland' /\ OriginExact'  BY <1>1, <1>2, FillFrame
<1>. QED  BY <1>16, <1>23, <1>24, <1>25 DEF IInv

\* A fill that is over has taken one island.
LEMMA TakenIsIsland ==
    ASSUME TypeOK, StageOK, FillOK, pc \in Filling, stack = <<>>, taken # {}
    PROVE  Reached = taken /\ taken \in Islands(Ground) /\ ClosedIn(taken, Ground)
<1>1. <<>> \in Seq(Places)  OBVIOUS
<1>2. ToSet(stack) = {}  BY <1>1, InSeq
<1>3. Reached = taken  BY <1>2 DEF Reached
<1>4. PICK I \in Islands(Ground) : taken \subseteq I  BY <1>3 DEF FillOK
<1>5. IsIsland(I, Ground)  BY <1>4, GridFacts
<1>6. ClosedIn(taken, Ground \ taken)  BY <1>3 DEF FillOK
<1>7. ClosedIn(taken, Ground) /\ ClosedIn(taken, I)  BY <1>5, <1>6 DEF ClosedIn, IsIsland
<1>8. taken \in SUBSET I  BY <1>4
<1>9. taken = I  BY <1>5, <1>7, <1>8 DEF IsIsland
<1>. QED  BY <1>3, <1>4, <1>7, <1>9

\* The end of a fill: it has taken an island, and the larger of it and the best
\* is kept.
LEMMA EndFillStep ==
    ASSUME IInv, EndFill
    PROVE  IInv'
<1>0. TypeOK /\ StageOK /\ FillOK /\ BestOK  BY DEF IInv
<1>. DEFINE new == [n |-> count, edge |-> edge, at |-> <<Trunc(sum[1], count), Trunc(sum[2], count)>>]
<1>1. pc \in Filling /\ stack = <<>> /\ count > 0 /\ pc # "fillGen" /\ pc # "done"
  BY DEF EndFill, Filling
<1>2. /\ best' = IF count > best.n THEN new ELSE best
      /\ count' = 0 /\ taken' = {}
      /\ pass' = IF pc = "fromCenter" THEN {} ELSE pass
      /\ UNCHANGED <<cand, pc, window, stack, sum, edge, center, radius, exact, result>>
  BY DEF EndFill
<1>3. /\ pass \subseteq Ground /\ taken \subseteq Ground /\ pass \cap Reached = {}
      /\ count = Cardinality(taken) /\ ClosedIn(Old, Ground)
  BY <1>0, <1>1 DEF FillOK, Reached
<1>4. IsFiniteSet(Ground) /\ Ground \subseteq Places /\ \A I : I \in Islands(Ground) <=> IsIsland(I, Ground)
  BY <1>0, <1>1, GridFacts
<1>5. taken # {}
  <2>1. SUFFICES ASSUME taken = {} PROVE FALSE  OBVIOUS
  <2>2. Cardinality({}) = 0  BY FS_EmptySet
  <2>3. count = 0  BY <1>3, <2>1, <2>2
  <2>. QED  BY <1>1, <2>3
<1>6. Reached = taken /\ taken \in Islands(Ground) /\ ClosedIn(taken, Ground)
  BY <1>0, <1>1, <1>5, TakenIsIsland
<1>7. count \in Nat /\ best.n \in Nat /\ sum[1] \in Int /\ sum[2] \in Int /\ edge \in BOOLEAN
  BY <1>0 DEF TypeOK, Measured, Places
<1>8. Ground' = Ground /\ Islands(Ground)' = Islands(Ground) /\ \A I : Touches(I)' = Touches(I)
  BY <1>2, SameGrid
<1>9. Trunc(sum[1], count) \in Int /\ Trunc(sum[2], count) \in Int /\ InBox(new.at, taken)
  <2>1. ASSUME NEW i \in 1 .. 2
        PROVE  Trunc(sum[i], count) \in Int
               /\ \E p, q \in taken : p[i] <= Trunc(sum[i], count) /\ Trunc(sum[i], count) <= q[i]
    <3>1. PICK p \in taken, q \in taken : p[i] * count <= sum[i] /\ sum[i] <= q[i] * count
      BY <1>0, <1>1, <1>5 DEF FillOK
    <3>2. p \in Places /\ q \in Places  BY <1>0 DEF TypeOK
    <3>3. i = 1 \/ i = 2  OBVIOUS
    <3>4. p[i] \in Int /\ q[i] \in Int /\ sum[i] \in Int  BY <1>7, <3>2, <3>3 DEF Places
    <3>5. Trunc(sum[i], count) \in Int /\ p[i] <= Trunc(sum[i], count) /\ Trunc(sum[i], count) <= q[i]
      BY <1>1, <1>7, <3>1, <3>4, TruncBetween
    <3>. QED  BY <3>5
  <2>2. 1 \in 1 .. 2 /\ 2 \in 1 .. 2  OBVIOUS
  <2>3. new.at[1] = Trunc(sum[1], count) /\ new.at[2] = Trunc(sum[2], count)  OBVIOUS
  <2>. QED  BY <2>1, <2>2, <2>3 DEF InBox
<1>10. Describes(new, taken)
  <2>1. edge = Touches(taken)  BY <1>0, <1>1, <1>5 DEF FillOK
  <2>2. new.n = count /\ new.edge = edge  OBVIOUS
  <2>. QED  BY <1>3, <1>9, <2>1, <2>2 DEF Describes
<1>11. new \in Measured  BY <1>7, <1>9 DEF Measured, Places
<1>a. new.n = count  OBVIOUS
<1>. HIDE DEF new
<1>12. TypeOK'
  <2>1. best' \in Measured  BY <1>0, <1>2, <1>11 DEF TypeOK
  <2>2. pass' \subseteq Places  BY <1>0, <1>2 DEF TypeOK
  <2>. QED  BY <1>0, <1>1, <1>2, <2>1, <2>2 DEF TypeOK
<1>13. stack' = <<>> /\ ToSet(stack') = {} /\ Reached' = {}
  <2>1. <<>> \in Seq(Places)  OBVIOUS
  <2>2. ToSet(<<>>) = {}  BY <2>1, InSeq
  <2>. QED  BY <1>1, <1>2, <2>2 DEF Reached
<1>14. \A I : Describes(best, I)' = Describes(best', I)
  BY <1>8 DEF Describes, InBox
<1>15. pc = "fromCenter" => Old' = Ground
  BY <1>2, <1>8, <1>13 DEF Old
<1>16. pc # "fromCenter" => Old' = Old \cup taken
  BY <1>2, <1>3, <1>6, <1>8, <1>13 DEF Old
<1>17. ClosedIn(Old', Ground)
  BY <1>3, <1>6, <1>15, <1>16 DEF ClosedIn
<1>18. FillOK'
  <2>1. (pass \cup Reached)' \subseteq Ground' /\ (pass \cap Reached)' = {} /\ (taken \cap ToSet(stack))' = {}
    BY <1>2, <1>3, <1>8, <1>13
  <2>2. IsInjective(stack')  BY <1>13 DEF IsInjective
  <2>3. ClosedIn(taken, Ground \ Reached)'  BY <1>2 DEF ClosedIn
  <2>4. ClosedIn(Old, Ground)'  BY <1>8, <1>17
  <2>5. count' = Cardinality(taken')  BY <1>2, FS_EmptySet
  <2>. QED  BY <1>2, <1>13, <2>1, <2>2, <2>3, <2>4, <2>5 DEF FillOK
<1>19. BestOK'
  <2>1. CASE pc = "fromCenter"
    <3>1. best.n = 0 /\ center \in taken  BY <1>0, <1>5, <1>6, <2>1 DEF BestOK
    <3>2. best' = new  BY <1>1, <1>2, <1>7, <3>1
    <3>3. Describes(best', taken)  BY <1>10, <3>2
    <3>4. \E I \in Islands(Ground)' : center' \in I /\ Describes(best, I)'
      BY <1>2, <1>6, <1>8, <1>14, <3>1, <3>3
    <3>5. pass' = {} /\ pc' \notin {"find", "measure"}  BY <1>2, <2>1
    <3>. QED  BY <1>13, <3>4, <3>5 DEF BestOK
  <2>2. CASE pc # "fromCenter"
    <3>1. pc \in {"find", "measure"} /\ pc' = pc  BY <1>1, <1>2, <2>2 DEF Filling
    <3>2. ASSUME NEW J \in Islands(Ground), J \subseteq Old', J # taken PROVE J \subseteq Old
      <4>1. J \cap taken = {}
        <5>1. SUFFICES ASSUME NEW x \in J, x \in taken PROVE FALSE  OBVIOUS
        <5>. QED  BY <1>4, <1>6, <3>2, <5>1, IslandsMeet
      <4>. QED  BY <1>16, <2>2, <3>2, <4>1
    <3>3. \A J \in Islands(Ground) : Cardinality(J) \in Nat /\ J # {}
      <4>1. \A J \in Islands(Ground) : J \in SUBSET Ground /\ J # {}  BY <1>4 DEF IsIsland
      <4>. QED  BY <1>4, <4>1, FS_Subset, FS_CardinalityType
    <3>4. CASE count > best.n
      <4>1. best' = new  BY <1>2, <3>4
      <4>2. ASSUME NEW J \in Islands(Ground), J \subseteq Old' PROVE Cardinality(J) <= Cardinality(taken)
        <5>1. CASE J = taken  BY <1>3, <1>7, <5>1
        <5>2. CASE J # taken
          <6>1. J \subseteq Old  BY <3>2, <4>2, <5>2
          <6>2. Old # {}  BY <3>3, <6>1
          <6>3. PICK I \in Islands(Ground) : Describes(best, I) /\ Cardinality(J) <= Cardinality(I)
            BY <1>0, <3>1, <6>1, <6>2 DEF BestOK
          <6>4. best.n = Cardinality(I)  BY <6>3 DEF Describes
          <6>. QED  BY <1>3, <1>7, <3>3, <3>4, <6>3, <6>4
        <5>. QED  BY <5>1, <5>2
      <4>3. taken \subseteq Old'  BY <1>16, <2>2
      <4>. QED  BY <1>6, <1>8, <1>10, <1>14, <3>1, <4>1, <4>2, <4>3 DEF BestOK
    <3>5. CASE ~(count > best.n)
      <4>1. best' = best /\ best.n # 0  BY <1>1, <1>2, <1>7, <3>5
      <4>2. PICK I \in Islands(Ground) :
              /\ I \subseteq Old /\ Describes(best, I)
              /\ \A J \in Islands(Ground) : J \subseteq Old => Cardinality(J) <= Cardinality(I)
        BY <1>0, <3>1, <4>1 DEF BestOK
      <4>3. best.n = Cardinality(I)  BY <4>2 DEF Describes
      <4>4. ASSUME NEW J \in Islands(Ground), J \subseteq Old' PROVE Cardinality(J) <= Cardinality(I)
        <5>1. CASE J = taken  BY <1>3, <1>7, <3>5, <4>3, <5>1
        <5>2. CASE J # taken  BY <3>2, <4>2, <4>4, <5>2
        <5>. QED  BY <5>1, <5>2
      <4>5. I \subseteq Old'  BY <1>16, <2>2, <4>2
      <4>6. Describes(best', I)  BY <4>1, <4>2
      <4>. QED  BY <1>8, <1>14, <3>1, <4>2, <4>4, <4>5, <4>6 DEF BestOK
    <3>. QED  BY <3>4, <3>5
  <2>. QED  BY <2>1, <2>2
<1>20. StageOK' /\ CentersOK' /\ ReportedIsIsland' /\ OriginExact'  BY <1>1, <1>2, FillFrame
<1>. QED  BY <1>12, <1>18, <1>19, <1>20 DEF IInv

(***************************************************************************)
(* Measurements                                                            *)
(***************************************************************************)

\* A measurement starts with what the game has in its window.
LEMMA MeasureStarts ==
    ASSUME SetupOK(cand), cand' = cand, NEW kind \in {"measure", "fromCenter"},
           NEW c \in Places, NEW r \in 0 .. MaxRadius, Measure(kind, c, r),
           kind = "fromCenter" => IsMushroom(c) /\ r > 0
    PROVE  /\ pc' = kind /\ center' = c /\ radius' = r
           /\ window' = Square(c[1] - r, c[2] - r, 2 * r) /\ window' \subseteq Places
           /\ pass' \subseteq Places /\ taken' = {} /\ stack' \in Seq(Places)
           /\ count' = 0 /\ edge' = FALSE /\ sum' \in Places /\ best' \in Measured
           /\ FillOK' /\ BestOK'
<1>1. c[1] \in Int /\ c[2] \in Int /\ r \in Nat  BY SizesAssumption DEF Places
<1>2. PICK ox \in Int, oz \in Int, gw \in Nat : ox = c[1] - r /\ oz = c[2] - r /\ gw = 2 * r
  BY <1>1
<1>. DEFINE blocks == Square(ox, oz, gw)
            passing == PassGrid(blocks, Grid4(ox, oz, gw))
<1>3. /\ pc' = kind /\ window' = blocks /\ center' = c /\ radius' = r
      /\ count' = 0 /\ taken' = {} /\ sum' = <<0, 0>> /\ edge' = FALSE
      /\ best' = [NoBest EXCEPT !.at = c]
  BY <1>2 DEF Measure
<1>4. /\ kind = "fromCenter" => stack' = (IF c \in passing THEN <<c>> ELSE <<>>)
                               /\ pass' = (IF c \in passing THEN passing \ {c} ELSE {})
      /\ kind # "fromCenter" => stack' = <<>> /\ pass' = passing
  BY <1>2 DEF Measure
<1>5. passing = {b \in blocks : IsMushroom(b)}  BY PassGridExact
<1>6. blocks \subseteq Places /\ IsFiniteSet(blocks)  BY SquareFacts
<1>7. kind = "fromCenter" => c \in blocks
  <2>1. SUFFICES ASSUME kind = "fromCenter" PROVE c \in blocks  OBVIOUS
  <2>2. c = <<c[1], c[2]>>  BY DEF Places
  <2>3. ox <= c[1] /\ c[1] <= ox + gw - 1 /\ oz <= c[2] /\ c[2] <= oz + gw - 1
    BY <1>1, <1>2, <2>1
  <2>. QED  BY <1>1, <2>2, <2>3, SquareFacts
<1>. HIDE DEF passing
<1>8. passing \subseteq blocks /\ passing \subseteq Places /\ IsFiniteSet(passing)
  <2>1. passing \in SUBSET blocks  BY <1>5
  <2>. QED  BY <1>6, <2>1, FS_Subset
<1>9. kind = "fromCenter" => c \in passing  BY <1>5, <1>7
<1>. HIDE DEF blocks
<1>10. Ground' = passing
  <2>1. \A b : IsMushroom(b)' = IsMushroom(b)  BY SameWorld
  <2>2. pc' # "find"  BY <1>3
  <2>. QED  BY <1>3, <1>5, <2>1, <2>2 DEF Ground
<1>11. /\ stack' \in Seq(Places) /\ IsInjective(stack')
       /\ ToSet(stack') = IF kind = "fromCenter" THEN {c} ELSE {}
  <2>1. CASE kind = "fromCenter"
    <3>1. stack' = <<c>>  BY <1>4, <1>9, <2>1
    <3>2. stack' \in Seq(Places) /\ DOMAIN stack' = {1} /\ stack'[1] = c /\ 1 .. Len(stack') = {1}
      BY <3>1
    <3>3. \A e : e \in ToSet(stack') <=> \E k \in {1} : stack'[k] = e  BY <3>2, InSeq
    <3>. QED  BY <2>1, <3>2, <3>3 DEF IsInjective
  <2>2. CASE kind # "fromCenter"
    <3>1. stack' = <<>> /\ stack' \in Seq(Places)  BY <1>4, <2>2
    <3>2. DOMAIN stack' = {}  BY <3>1
    <3>3. ToSet(stack') = {}  BY <3>1, InSeq
    <3>. QED  BY <2>2, <3>1, <3>2, <3>3 DEF IsInjective
  <2>. QED  BY <2>1, <2>2
<1>12. /\ Reached' = IF kind = "fromCenter" THEN {c} ELSE {}
       /\ pass' = passing \ Reached' /\ Reached' \subseteq passing
  BY <1>3, <1>4, <1>9, <1>11 DEF Reached
<1>13. Old' = {}  BY <1>10, <1>12 DEF Old
<1>14. \A p \in passing : \E I \in Islands(passing) : p \in I  BY <1>8, IslandsAre
<1>15. FillOK'
  <2>1. /\ (pass \cup Reached)' \subseteq Ground' /\ (pass \cap Reached)' = {}
        /\ (taken \cap ToSet(stack))' = {}
    BY <1>3, <1>10, <1>12
  <2>2. ClosedIn(taken, Ground \ Reached)' /\ ClosedIn(Old, Ground)'  BY <1>3, <1>13 DEF ClosedIn
  <2>3. Islands(Ground)' = Islands(passing)  BY <1>10
  <2>4. Reached' = {} \/ \E I \in Islands(Ground)' : Reached' \subseteq I  BY <1>9, <1>12, <1>14, <2>3
  <2>5. count' = Cardinality(taken')  BY <1>3, FS_EmptySet
  <2>. QED  BY <1>3, <1>11, <2>1, <2>2, <2>4, <2>5 DEF FillOK
<1>16. BestOK'
  <2>1. best'.n = 0 /\ ~best'.edge  BY <1>3 DEF NoBest
  <2>2. kind = "fromCenter" => center' \in Reached'  BY <1>3, <1>12
  <2>. QED  BY <1>3, <1>13, <2>1, <2>2 DEF BestOK
<1>17. best' \in Measured  BY <1>3 DEF NoBest, Measured
<1>18. sum' \in Places  BY <1>3 DEF Places
<1>19. window' \subseteq Places /\ pass' \subseteq Places  BY <1>3, <1>6, <1>8, <1>12
<1>20. window' = Square(c[1] - r, c[2] - r, 2 * r)  BY <1>2, <1>3 DEF blocks
<1>. QED  BY <1>3, <1>11, <1>15, <1>16, <1>17, <1>18, <1>19, <1>20

\* An island of the window belongs to an island of the world.
LEMMA MeasuredIsland ==
    ASSUME TypeOK, StageOK, pc \in {"measure", "fromCenter"},
           NEW I \in Islands(Ground), Describes(best, I)
    PROVE  \E J \in Islands(World) :
              /\ I \subseteq J /\ best.n <= Cardinality(J) /\ InBox(best.at, J)
              /\ best.edge \/ I = J
<1>1. pc \in Filling /\ pc # "find"  BY DEF Filling
<1>2. /\ window \subseteq Places /\ Ground \subseteq window /\ IsFiniteSet(Ground)
      /\ IsIsland(I, Ground)
  BY <1>1, GridFacts
<1>3. /\ World \subseteq Places /\ IsFiniteSet(World)
      /\ \A b \in Places : b \in World <=> IsMushroom(b)
  BY WorldFacts DEF TypeOK
<1>4. Ground = window \cap World  BY <1>1, <1>2, <1>3 DEF Ground
<1>5. /\ \A J : J \in Islands(World) <=> IsIsland(J, World)
      /\ \A x \in World : \E J \in Islands(World) : x \in J
  BY <1>3, IslandsAre
<1>6. PICK x \in I : x \in World  BY <1>2, <1>4 DEF IsIsland
<1>7. PICK J \in Islands(World) : x \in J  BY <1>5, <1>6
<1>8. IsIsland(J, World) /\ IsIsland(I, window \cap World)  BY <1>2, <1>4, <1>5, <1>7
<1>9. I \subseteq J  BY <1>6, <1>7, <1>8, IslandOfWindow
<1>10. best.n <= Cardinality(J)
  <2>1. J \in SUBSET World  BY <1>8 DEF IsIsland
  <2>2. IsFiniteSet(J)  BY <1>3, <2>1, FS_Subset
  <2>3. Cardinality(I) <= Cardinality(J)  BY <1>9, <2>2, FS_Subset
  <2>. QED  BY <2>3 DEF Describes
<1>11. InBox(best.at, J)  BY <1>9 DEF Describes, InBox
<1>12. ASSUME ~best.edge PROVE I = J
  <2>1. ~Touches(I)  BY <1>12 DEF Describes
  <2>2. \A p \in I, k \in 1 .. 4 : Neighbours(p)[k] \in window  BY <2>1 DEF Touches
  <2>3. IsIsland(I, World)  BY <1>8, <2>2, IslandOfWindow
  <2>. QED  BY <1>6, <1>7, <1>8, <2>3, IslandsMeet
<1>. QED  BY <1>7, <1>9, <1>10, <1>11, <1>12

\* When all fills are over, no place is left.
LEMMA FilledFacts ==
    ASSUME TypeOK, StageOK, FillOK, Filled
    PROVE  taken = {} /\ Reached = {} /\ Old = Ground
<1>1. pc \in Filling /\ stack = <<>> /\ pass = {} /\ count = 0  BY DEF Filled
<1>2. taken \subseteq Ground /\ count = Cardinality(taken)  BY <1>1 DEF FillOK, Reached
<1>3. IsFiniteSet(taken)  BY <1>1, <1>2, GridFacts, FS_Subset
<1>4. taken = {}  BY <1>1, <1>2, <1>3, FS_EmptySet
<1>5. <<>> \in Seq(Places)  OBVIOUS
<1>6. ToSet(stack) = {}  BY <1>1, <1>5, InSeq
<1>. QED  BY <1>1, <1>4, <1>6 DEF Reached, Old

\* What the other parts say when the thread is done.
LEMMA DoneFrame ==
    ASSUME TypeOK, pc' = "done", pc # "fillGen", result' \in Seq(Measured), Len(result') <= 1,
           UNCHANGED <<cand, window, pass, stack, count, taken, sum, edge, best, center, radius, exact>>
    PROVE  TypeOK' /\ StageOK' /\ CentersOK' /\ FillOK' /\ BestOK'
<1>1. TypeOK'  BY DEF TypeOK
<1>2. StageOK' /\ CentersOK' /\ FillOK' /\ BestOK'
  BY DEF StageOK, CentersOK, FillOK, BestOK, Filling
<1>. QED  BY <1>1, <1>2

\* And when a measurement starts.
LEMMA MeasureFrame ==
    ASSUME TypeOK, cand' = cand, exact' \in Measured, result' = result, result = <<>>,
           NEW kind \in {"measure", "fromCenter"}, NEW c \in Places, NEW r \in 0 .. MaxRadius,
           Measure(kind, c, r), ~cand.fast,
           kind = "fromCenter" => IsMushroom(c) /\ r > 0 /\ c = <<0, 0>> /\ cand.origin /\ exact' = NoBest,
           kind = "measure" =>
               /\ ~cand.origin
               /\ exact' = NoBest \/
                     /\ exact'.edge
                     /\ \E I \in Islands(World) : exact'.n <= Cardinality(I) /\ InBox(exact'.at, I)
    PROVE  IInv'
<1>1. SetupOK(cand)  BY DEF TypeOK
<1>2. /\ pc' = kind /\ center' = c /\ radius' = r
      /\ window' = Square(c[1] - r, c[2] - r, 2 * r) /\ window' \subseteq Places
      /\ pass' \subseteq Places /\ taken' = {} /\ stack' \in Seq(Places)
      /\ count' = 0 /\ edge' = FALSE /\ sum' \in Places /\ best' \in Measured
      /\ FillOK' /\ BestOK'
  BY <1>1, MeasureStarts
<1>3. TypeOK'
  <2>1. pc' # "fillGen" /\ pc' \in Filling  BY <1>2 DEF Filling
  <2>. QED  BY <1>2, <2>1 DEF TypeOK
<1>4. World' = World /\ IsMushroom(<<0, 0>>)' = IsMushroom(<<0, 0>>)  BY SameWorld
<1>5. Islands(World)' = Islands(World)  BY <1>4
<1>6. StageOK'
  <2>1. CASE kind = "measure"
    BY <1>2, <1>5, <2>1 DEF StageOK, Filling, InBox, NoBest
  <2>2. CASE kind = "fromCenter"
    BY <1>2, <1>4, <2>2 DEF StageOK, Filling, NoBest
  <2>. QED  BY <2>1, <2>2
<1>7. CentersOK' /\ ReportedIsIsland' /\ OriginExact'
  BY <1>2 DEF CentersOK, ReportedIsIsland, OriginExact
<1>. QED  BY <1>2, <1>3, <1>6, <1>7 DEF IInv

\* What ReturnMeasured returns.
LEMMA Returned ==
    ASSUME NEW m \in Measured, ReturnMeasured(m)
    PROVE  /\ pc' = "done" /\ result' = IF m.n >= MinSize THEN <<m>> ELSE <<>>
           /\ result' \in Seq(Measured) /\ Len(result') <= 1
<1>1. pc' = "done" /\ result' = IF m.n >= MinSize THEN <<m>> ELSE <<>>
  BY DEF ReturnMeasured, Return
<1>2. <<m>> \in Seq(Measured) /\ Len(<<m>>) <= 1 /\ <<>> \in Seq(Measured) /\ Len(<<>>) <= 1
  OBVIOUS
<1>. QED  BY <1>1, <1>2

\* fast_find_center is over: no island, a fast answer, or a first measurement.
LEMMA EndFindStep ==
    ASSUME IInv, EndFind
    PROVE  IInv'
<1>0. TypeOK /\ StageOK /\ FillOK /\ BestOK  BY DEF IInv
<1>1. pc = "find" /\ Filled /\ cand' = cand /\ exact' = exact  BY DEF EndFind
<1>2. ~cand.origin /\ exact = NoBest /\ result = <<>>  BY <1>0, <1>1 DEF StageOK
<1>. DEFINE res == [n |-> 16 * best.n, edge |-> FALSE,
                    at |-> <<4 * best.at[1] + 2, 4 * best.at[2] + 2>>]
            rad == Min({RadiusOf(res.n), MaxRadius})
<1>3. best.n \in Nat /\ best.at[1] \in Int /\ best.at[2] \in Int  BY <1>0 DEF TypeOK, Measured, Places
<1>4. res \in Measured /\ res.n = 16 * best.n /\ res.at \in Places  BY <1>3 DEF Measured, Places
<1>5. CASE best.n = 0 \/ res.n < MinSize \/ cand.fast
  <2>1. /\ IF best.n > 0 THEN ReturnMeasured(res) ELSE Return(<<>>)
        /\ UNCHANGED <<window, fill, center, radius>>
    BY <1>5 DEF EndFind
  <2>. HIDE DEF res
  <2>2. /\ pc' = "done" /\ result' \in Seq(Measured) /\ Len(result') <= 1
        /\ cand.fast \/ result' = <<>>
    <3>1. CASE best.n > 0
      <4>1. ReturnMeasured(res)  BY <2>1, <3>1
      <4>2. /\ pc' = "done" /\ result' = IF res.n >= MinSize THEN <<res>> ELSE <<>>
            /\ result' \in Seq(Measured) /\ Len(result') <= 1
        BY <1>4, <4>1, Returned
      <4>3. res.n < MinSize => ~(res.n >= MinSize)  BY <1>3, <1>4, SizesAssumption
      <4>4. cand.fast \/ res.n < MinSize  BY <1>3, <1>5, <3>1
      <4>. QED  BY <4>2, <4>3, <4>4
    <3>2. CASE ~(best.n > 0)
      <4>1. pc' = "done" /\ result' = <<>>  BY <2>1, <3>2 DEF Return
      <4>2. <<>> \in Seq(Measured) /\ Len(<<>>) <= 1  OBVIOUS
      <4>. QED  BY <4>1, <4>2
    <3>. QED  BY <3>1, <3>2
  <2>3. TypeOK' /\ StageOK' /\ CentersOK' /\ FillOK' /\ BestOK'
    BY <1>0, <1>1, <2>1, <2>2, DoneFrame DEF fill
  <2>4. ReportedIsIsland' /\ OriginExact'
    BY <1>1, <1>2, <2>2 DEF ReportedIsIsland, OriginExact
  <2>. QED  BY <2>3, <2>4 DEF IInv
<1>6. CASE ~(best.n = 0 \/ res.n < MinSize \/ cand.fast)
  <2>1. Measure("measure", res.at, rad) /\ result' = result  BY <1>6 DEF EndFind
  <2>2. res.n \in 0 .. Range4 * Range4
    <3>1. PICK I \in Islands(Ground) : Describes(best, I)  BY <1>0, <1>1, <1>6 DEF BestOK
    <3>2. PICK n \in Nat, x \in Int, z \in Int : n = Range4 \div 4 /\ 4 * n <= Range4 /\ window = Square(x, z, n)
      <4>1. window = Window4  BY <1>0, <1>1 DEF StageOK
      <4>. QED  BY <1>0, <4>1, Window4Facts DEF TypeOK
    <3>3. IsFiniteSet(window) /\ Cardinality(window) = n * n  BY <3>2, SquareFacts
    <3>4. I \in SUBSET window
      <4>1. pc \in Filling  BY <1>1 DEF Filling
      <4>2. Ground \subseteq window /\ IsIsland(I, Ground)  BY <1>0, <3>1, <4>1, GridFacts
      <4>. QED  BY <4>2 DEF IsIsland
    <3>5. best.n <= n * n  BY <3>1, <3>3, <3>4, FS_Subset DEF Describes
    <3>6. 16 * (n * n) <= Range4 * Range4
      <4>1. Range4 \in Nat  BY SizesAssumption
      <4>2. PICK d \in Nat : Range4 = 4 * n + d
        <5>1. Range4 - 4 * n \in Nat /\ Range4 = 4 * n + (Range4 - 4 * n)  BY <3>2, <4>1
        <5>. QED  BY <5>1
      <4>3. Range4 * Range4 = 16 * (n * n) + 8 * (n * d) + d * d  BY <4>2
      <4>4. n * d \in Nat /\ d * d \in Nat /\ n * n \in Nat  BY <4>2
      <4>. QED  BY <4>3, <4>4
    <3>7. n * n \in Nat /\ Range4 * Range4 \in Nat  BY SizesAssumption
    <3>. QED  BY <1>3, <1>4, <3>5, <3>6, <3>7
  <2>3. RadiusOf(res.n) \in Nat /\ MaxRadius \in Nat
    <3>. HIDE DEF res
    <3>. QED  BY <2>2, SizesAssumption
  <2>. HIDE DEF res
  <2>4. rad \in 0 .. MaxRadius
    <3>1. PICK a \in Nat : a = RadiusOf(res.n)  BY <2>3
    <3>2. Min({a, MaxRadius}) = IF a <= MaxRadius THEN a ELSE MaxRadius  BY <2>3, <3>1, MinMaxOfTwo
    <3>. QED  BY <2>3, <3>1, <3>2
  <2>5. exact' \in Measured  BY <1>0, <1>1 DEF TypeOK
  <2>. HIDE DEF rad
  <2>. QED  BY <1>0, <1>1, <1>2, <1>4, <1>6, <2>1, <2>4, <2>5, MeasureFrame
<1>. QED  BY <1>5, <1>6

\* measure_1to1 is over: it is reported, or made again in a larger window.
LEMMA EndMeasureStep ==
    ASSUME IInv, EndMeasure
    PROVE  IInv'
<1>0. TypeOK /\ StageOK /\ FillOK /\ BestOK  BY DEF IInv
<1>1. pc = "measure" /\ Filled /\ cand' = cand  BY DEF EndMeasure
<1>2. ~cand.origin /\ ~cand.fast /\ result = <<>>  BY <1>0, <1>1 DEF StageOK
<1>. DEFINE big == Min({(radius * 3) \div 2, MaxRadius})
<1>3. best \in Measured /\ exact \in Measured /\ best.n \in Nat /\ exact.n \in Nat /\ best.edge \in BOOLEAN
  BY <1>0 DEF TypeOK, Measured
<1>4. (best.n = 0 /\ ~best.edge) \/ \E I \in Islands(Ground) : Describes(best, I)
  BY <1>0, <1>1 DEF BestOK
<1>5. (best.n = 0 /\ ~best.edge) \/
      \E J \in Islands(World) :
          /\ best.n <= Cardinality(J) /\ InBox(best.at, J)
          /\ best.edge \/ best.n = Cardinality(J)
  <2>1. SUFFICES ASSUME NEW I \in Islands(Ground), Describes(best, I)
                 PROVE  \E J \in Islands(World) :
                            /\ best.n <= Cardinality(J) /\ InBox(best.at, J)
                            /\ best.edge \/ best.n = Cardinality(J)
    BY <1>4
  <2>2. best.n = Cardinality(I)  BY <2>1 DEF Describes
  <2>3. pc \in {"measure", "fromCenter"}  BY <1>1
  <2>. QED  BY <1>0, <2>1, <2>2, <2>3, MeasuredIsland
<1>6. CASE exact = NoBest /\ best.edge /\ big > radius
  <2>1. Measure("measure", center, big) /\ exact' = best /\ result' = result  BY <1>6 DEF EndMeasure
  <2>2. big \in 0 .. MaxRadius
    <3>1. radius \in Nat /\ MaxRadius \in Nat  BY <1>0, SizesAssumption DEF TypeOK
    <3>2. PICK a \in Nat : a = (radius * 3) \div 2  BY <3>1
    <3>3. Min({a, MaxRadius}) = IF a <= MaxRadius THEN a ELSE MaxRadius  BY <3>1, <3>2, MinMaxOfTwo
    <3>. QED  BY <3>1, <3>2, <3>3
  <2>3. center \in Places  BY <1>0 DEF TypeOK
  <2>. HIDE DEF big
  <2>4. /\ exact' \in Measured /\ exact'.edge
        /\ \E I \in Islands(World) : exact'.n <= Cardinality(I) /\ InBox(exact'.at, I)
    BY <1>3, <1>5, <1>6, <2>1
  <2>. QED  BY <1>0, <1>1, <1>2, <2>1, <2>2, <2>3, <2>4, MeasureFrame
<1>7. CASE ~(exact = NoBest /\ best.edge /\ big > radius)
  <2>. DEFINE m == IF best.n > exact.n THEN best ELSE exact
  <2>1. ReturnMeasured(m) /\ UNCHANGED <<window, fill, center, radius, exact>>  BY <1>7 DEF EndMeasure
  <2>2. m \in Measured  BY <1>3
  <2>3. m.n > 0 => \E J \in Islands(World) :
                      /\ m.n <= Cardinality(J) /\ InBox(m.at, J)
                      /\ m.edge \/ m.n = Cardinality(J)
    <3>1. CASE best.n > exact.n
      <4>1. best.n # 0  BY <1>3, <3>1
      <4>. QED  BY <1>5, <3>1, <4>1
    <3>2. CASE ~(best.n > exact.n)
      <4>1. m = exact  BY <3>2
      <4>2. exact = NoBest => ~(exact.n > 0)  BY DEF NoBest
      <4>3. exact # NoBest => exact.edge
                           /\ \E I \in Islands(World) : exact.n <= Cardinality(I) /\ InBox(exact.at, I)
        BY <1>0, <1>1 DEF StageOK
      <4>. QED  BY <4>1, <4>2, <4>3
    <3>. QED  BY <3>1, <3>2
  <2>. HIDE DEF m
  <2>4. /\ pc' = "done" /\ result' = IF m.n >= MinSize THEN <<m>> ELSE <<>>
        /\ result' \in Seq(Measured) /\ Len(result') <= 1
    BY <2>1, <2>2, Returned
  <2>5. TypeOK' /\ StageOK' /\ CentersOK' /\ FillOK' /\ BestOK'
    BY <1>0, <1>1, <2>1, <2>4, DoneFrame DEF fill
  <2>6. World' = World /\ Islands(World)' = Islands(World)
    <3>1. World' = World  BY <1>1, SameWorld
    <3>. QED  BY <3>1
  <2>7. ReportedIsIsland'
    <3>1. SUFFICES ASSUME result' # <<>>
                   PROVE  LET r == Head(result')
                          IN  /\ r.n >= MinSize
                              /\ r.n > 0 =>
                                    \E I \in Islands(World)' :
                                        /\ r.n <= Cardinality(I)
                                        /\ r.edge \/ r.n = Cardinality(I)
                                        /\ InBox(r.at, I)
      BY <1>1, <1>2 DEF ReportedIsIsland, InBox
    <3>2. m.n >= MinSize /\ Head(result') = m  BY <2>4, <3>1
    <3>. QED  BY <2>3, <2>6, <3>2
  <2>8. OriginExact'  BY <1>1, <1>2 DEF OriginExact
  <2>. QED  BY <2>5, <2>7, <2>8 DEF IInv
<1>. QED  BY <1>6, <1>7

\* process_origin starts with the smallest window about the origin.
LEMMA OriginStep ==
    ASSUME IInv, Origin
    PROVE  IInv'
<1>0. TypeOK /\ StageOK  BY DEF IInv
<1>1. pc = "start" /\ cand.origin /\ cand' = cand /\ exact' = exact  BY DEF Origin
<1>2. exact = NoBest /\ result = <<>>  BY <1>0, <1>1 DEF StageOK, Filling
<1>3. <<0, 0>> \in Places  BY DEF Places
<1>4. <<>> \in Seq(Measured) /\ Len(<<>>) <= 1  OBVIOUS
<1>5. CASE ~IsMushroom(<<0, 0>>) /\ Return(<<>>) /\ UNCHANGED <<window, fill, center, radius>>
  <2>1. pc' = "done" /\ result' = <<>>  BY <1>5 DEF Return
  <2>2. TypeOK' /\ StageOK' /\ CentersOK' /\ FillOK' /\ BestOK'
    BY <1>0, <1>1, <1>4, <1>5, <2>1, DoneFrame DEF fill
  <2>3. ReportedIsIsland'  BY <2>1 DEF ReportedIsIsland
  <2>4. OriginExact'
    <3>1. World' = World  BY <1>1, SameWorld
    <3>2. Islands(World)' = Islands(World)  BY <3>1
    <3>3. World \subseteq Places /\ IsFiniteSet(World) /\ <<0, 0>> \notin World
      BY <1>0, <1>3, <1>5, WorldFacts DEF TypeOK
    <3>4. \A I \in Islands(World) : <<0, 0>> \notin I  BY <3>3, IslandsAre DEF IsIsland
    <3>. QED  BY <3>2, <3>4 DEF OriginExact
  <2>. QED  BY <2>2, <2>3, <2>4 DEF IInv
<1>6. ASSUME NEW m \in Measured, cand.fast, Return(<<>>) \/ Return(<<m>>),
             UNCHANGED <<window, fill, center, radius>>
      PROVE  IInv'
  <2>1. <<m>> \in Seq(Measured) /\ Len(<<m>>) <= 1  BY <1>6
  <2>2. pc' = "done" /\ result' \in Seq(Measured) /\ Len(result') <= 1
    BY <1>4, <1>6, <2>1 DEF Return
  <2>3. TypeOK' /\ StageOK' /\ CentersOK' /\ FillOK' /\ BestOK'
    BY <1>0, <1>1, <1>6, <2>2, DoneFrame DEF fill
  <2>4. ReportedIsIsland' /\ OriginExact'  BY <1>1, <1>6 DEF ReportedIsIsland, OriginExact
  <2>. QED  BY <2>3, <2>4 DEF IInv
<1>7. CASE IsMushroom(<<0, 0>>) /\ ~cand.fast
           /\ Measure("fromCenter", <<0, 0>>, OriginRadius) /\ UNCHANGED result
  <2>1. OriginRadius \in 0 .. MaxRadius /\ OriginRadius > 0  BY SizesAssumption
  <2>2. exact' \in Measured  BY <1>0, <1>1 DEF TypeOK
  <2>. QED  BY <1>0, <1>1, <1>2, <1>3, <1>7, <2>1, <2>2, MeasureFrame
<1>8. [n |-> MinSize, at |-> <<0, 0>>, edge |-> FALSE] \in Measured
  BY <1>3, SizesAssumption DEF Measured
<1>. QED  BY <1>5, <1>6, <1>7, <1>8 DEF Origin

\* One window of process_origin is over: it is reported or doubled.
LEMMA EndOriginStep ==
    ASSUME IInv, EndOrigin
    PROVE  IInv'
<1>0. TypeOK /\ StageOK /\ FillOK /\ BestOK  BY DEF IInv
<1>1. pc = "fromCenter" /\ Filled /\ cand' = cand /\ exact' = exact  BY DEF EndOrigin
<1>2. /\ cand.origin /\ ~cand.fast /\ exact = NoBest /\ result = <<>>
      /\ IsMushroom(<<0, 0>>) /\ center = <<0, 0>> /\ radius > 0
  BY <1>0, <1>1 DEF StageOK
<1>3. <<0, 0>> \in Places  BY DEF Places
<1>4. best \in Measured /\ best.n \in Nat /\ best.edge \in BOOLEAN  BY <1>0 DEF TypeOK, Measured
<1>5. radius \in 0 .. MaxRadius /\ MaxRadius \in Nat  BY <1>0, SizesAssumption DEF TypeOK
<1>6. CASE best.edge /\ radius < MaxRadius
  <2>. DEFINE r == Min({2 * radius, MaxRadius})
  <2>1. Measure("fromCenter", <<0, 0>>, r) /\ result' = result  BY <1>6 DEF EndOrigin
  <2>2. r \in 0 .. MaxRadius /\ r > 0
    <3>1. PICK a \in Nat : a = 2 * radius /\ a > 0  BY <1>2, <1>5
    <3>2. Min({a, MaxRadius}) = IF a <= MaxRadius THEN a ELSE MaxRadius  BY <1>5, <3>1, MinMaxOfTwo
    <3>. QED  BY <1>2, <1>5, <3>1, <3>2
  <2>3. exact' \in Measured  BY <1>0, <1>1 DEF TypeOK
  <2>. HIDE DEF r
  <2>. QED  BY <1>0, <1>1, <1>2, <1>3, <2>1, <2>2, <2>3, MeasureFrame
<1>7. CASE ~(best.edge /\ radius < MaxRadius)
  <2>1. ReturnMeasured(best) /\ UNCHANGED <<window, fill, center, radius>>  BY <1>7 DEF EndOrigin
  <2>2. /\ pc' = "done" /\ result' = IF best.n >= MinSize THEN <<best>> ELSE <<>>
        /\ result' \in Seq(Measured) /\ Len(result') <= 1
    BY <1>4, <2>1, Returned
  <2>3. TypeOK' /\ StageOK' /\ CentersOK' /\ FillOK' /\ BestOK'
    BY <1>0, <1>1, <2>1, <2>2, DoneFrame DEF fill
  <2>4. Reached = {}  BY <1>0, <1>1, FilledFacts
  <2>5. PICK I \in Islands(Ground) : <<0, 0>> \in I /\ Describes(best, I)
    BY <1>0, <1>1, <1>2, <2>4 DEF BestOK
  <2>6. PICK J \in Islands(World) :
          /\ I \subseteq J /\ best.n <= Cardinality(J) /\ InBox(best.at, J)
          /\ best.edge \/ I = J
    BY <1>0, <1>1, <2>5, MeasuredIsland
  <2>7. best.n = Cardinality(I) /\ best.edge = Touches(I)  BY <2>5 DEF Describes
  <2>8. World' = World /\ Islands(World)' = Islands(World) /\ window' = window /\ radius' = radius
    <3>1. World' = World  BY <1>1, SameWorld
    <3>. QED  BY <2>1, <3>1
  <2>9. ReportedIsIsland'
    <3>1. SUFFICES ASSUME result' # <<>>
                   PROVE  /\ best.n >= MinSize
                          /\ best.n <= Cardinality(J)
                          /\ best.edge \/ best.n = Cardinality(J)
                          /\ InBox(best.at, J) /\ <<0, 0>> \in J
      <4>1. result' # <<>> => Head(result') = best  BY <2>2
      <4>. QED  BY <1>1, <2>6, <2>8, <4>1 DEF ReportedIsIsland, InBox
    <3>2. best.n >= MinSize  BY <2>2, <3>1
    <3>. QED  BY <2>5, <2>6, <2>7, <3>2
  <2>10. OriginExact'
    <3>1. \A K \in Islands(World) : <<0, 0>> \in K => K = J
      <4>1. World \subseteq Places /\ IsFiniteSet(World)  BY <1>0, WorldFacts DEF TypeOK
      <4>2. \A K \in Islands(World) : IsIsland(K, World)  BY <4>1, IslandsAre
      <4>. QED  BY <2>5, <2>6, <4>2, IslandsMeet
    <3>2. Touches(J)' = Touches(J)  BY <2>8 DEF Touches
    <3>3. CASE best.edge
      <4>1. Touches(J)  BY <2>6, <2>7, <3>3 DEF Touches
      <4>2. radius' = MaxRadius  BY <1>5, <1>7, <2>8, <3>3
      <4>. QED  BY <2>8, <3>1, <3>2, <4>1, <4>2 DEF OriginExact
    <3>4. CASE ~best.edge
      <4>1. I = J /\ ~Touches(J) /\ best.n = Cardinality(J)  BY <2>6, <2>7, <3>4
      <4>2. J \subseteq window
        <5>1. pc \in Filling  BY <1>1 DEF Filling
        <5>2. Ground \subseteq window /\ IsIsland(I, Ground)  BY <1>0, <2>5, <5>1, GridFacts
        <5>. QED  BY <4>1, <5>2 DEF IsIsland
      <4>3. MinSize \in Nat  BY SizesAssumption
      <4>4. (result' = <<>>) = (Cardinality(J) < MinSize)
        <5>1. CASE best.n >= MinSize
          <6>1. result' = <<best>> /\ result' # <<>>  BY <2>2, <5>1
          <6>2. ~(Cardinality(J) < MinSize)  BY <1>4, <4>1, <4>3, <5>1
          <6>. QED  BY <6>1, <6>2
        <5>2. CASE ~(best.n >= MinSize)
          <6>1. result' = <<>>  BY <2>2, <5>2
          <6>2. Cardinality(J) < MinSize  BY <1>4, <4>1, <4>3, <5>2
          <6>. QED  BY <6>1, <6>2
        <5>. QED  BY <5>1, <5>2
      <4>5. \A k \in 1 .. Len(result') : result'[k].n = Cardinality(J)
        <5>1. CASE best.n >= MinSize
          <6>1. result' = <<best>>  BY <2>2, <5>1
          <6>2. \A k \in 1 .. Len(result') : result'[k] = best  BY <6>1
          <6>. QED  BY <4>1, <6>2
        <5>2. CASE ~(best.n >= MinSize)
          <6>1. result' = <<>>  BY <2>2, <5>2
          <6>2. 1 .. Len(result') = {}  BY <6>1
          <6>. QED  BY <6>2
        <5>. QED  BY <5>1, <5>2
      <4>. QED  BY <2>8, <3>1, <3>2, <4>1, <4>2, <4>4, <4>5 DEF OriginExact
    <3>. QED  BY <1>4, <3>3, <3>4
  <2>. QED  BY <2>3, <2>9, <2>10 DEF IInv
<1>. QED  BY <1>6, <1>7

(***************************************************************************)
(* The coarse test                                                         *)
(***************************************************************************)

\* The grid of samples, and the islands of hits.
LEMMA CoarseFacts ==
    ASSUME SetupOK(cand)
    PROVE  /\ IsFiniteSet(Coarse) /\ Coarse \subseteq Places
           /\ \A p \in Coarse : 0 <= p[1] /\ 0 <= p[2]
           /\ cand.hits \subseteq Coarse /\ IsFiniteSet(cand.hits)
           /\ \A I : I \in Islands(cand.hits) <=> IsIsland(I, cand.hits)
           /\ CoarseMin \in Nat
<1>1. CoarseWidth \in Nat /\ CoarseHeight \in Nat /\ MinSize \in Nat /\ CoarseArea \in Nat /\ CoarseArea > 0
  BY SizesAssumption
<1>2. IsFiniteSet(0 .. CoarseWidth - 1) /\ IsFiniteSet(0 .. CoarseHeight - 1)  BY <1>1, FS_Interval
<1>3. IsFiniteSet(Coarse)  BY <1>2, FS_Product DEF Coarse
<1>4. Coarse \subseteq Places /\ \A p \in Coarse : 0 <= p[1] /\ 0 <= p[2]  BY <1>1 DEF Coarse, Places
<1>5. cand.hits \in SUBSET Coarse  BY DEF SetupOK
<1>6. IsFiniteSet(cand.hits) /\ cand.hits \subseteq Places  BY <1>3, <1>4, <1>5, FS_Subset
<1>7. \A I : I \in Islands(cand.hits) <=> IsIsland(I, cand.hits)  BY <1>6, IslandsAre
<1>8. CoarseMin \in Nat
  <2>1. PICK q \in Nat : q = MinSize \div CoarseArea  BY <1>1, DivMod
  <2>2. Max({1, q}) = IF 1 >= q THEN 1 ELSE q  BY MinMaxOfTwo
  <2>. QED  BY <2>1, <2>2 DEF CoarseMin
<1>. QED  BY <1>3, <1>4, <1>5, <1>6, <1>7, <1>8

\* The Monte Carlo test refuses the candidate or lets it through.
LEMMA MonteCarloStep ==
    ASSUME IInv, MonteCarlo
    PROVE  IInv'
<1>0. TypeOK /\ StageOK  BY DEF IInv
<1>1. /\ pc = "start" /\ ~cand.origin
      /\ UNCHANGED <<cand, window, stack, count, taken, sum, edge, best, center, radius, exact>>
  BY DEF MonteCarlo
<1>2. /\ stack = <<>> /\ count = 0 /\ taken = {} /\ best = NoBest /\ exact = NoBest /\ result = <<>>
  BY <1>0, <1>1 DEF StageOK, Filling
<1>3. CASE Return(<<>>) /\ UNCHANGED pass
  <2>1. pc' = "done" /\ result' = <<>>  BY <1>3 DEF Return
  <2>2. <<>> \in Seq(Measured) /\ Len(<<>>) <= 1  OBVIOUS
  <2>3. TypeOK' /\ StageOK' /\ CentersOK' /\ FillOK' /\ BestOK'
    BY <1>0, <1>1, <1>3, <2>1, <2>2, DoneFrame
  <2>4. ReportedIsIsland' /\ OriginExact'  BY <1>1, <2>1 DEF ReportedIsIsland, OriginExact
  <2>. QED  BY <2>3, <2>4 DEF IInv
<1>4. CASE pc' = "centers" /\ pass' = Coarse /\ UNCHANGED result
  <2>1. /\ Coarse \subseteq Places /\ \A I : I \in Islands(cand.hits) <=> IsIsland(I, cand.hits)
    BY <1>0, CoarseFacts DEF TypeOK
  <2>2. TypeOK'
    <3>1. stack' \in Seq(Places)  BY <1>1, <1>2
    <3>. QED  BY <1>0, <1>1, <1>4, <2>1, <3>1 DEF TypeOK
  <2>3. StageOK'  BY <1>1, <1>2, <1>4 DEF StageOK, Filling, NoBest
  <2>4. CentersOK'
    <3>1. (Coarse \ (pass \cup taken))' = {}  BY <1>4
    <3>2. Cardinality({}) = 0  BY FS_EmptySet
    <3>3. count' = Cardinality((taken \cap cand.hits)')
      <4>1. (taken \cap cand.hits)' = {}  BY <1>1, <1>2
      <4>. QED  BY <1>1, <1>2, <3>2, <4>1
    <3>4. \A I \in Islands(cand.hits)' : ~(I \subseteq {})  BY <1>1, <2>1 DEF IsIsland
    <3>. QED  BY <1>1, <1>2, <1>4, <3>1, <3>3, <3>4 DEF CentersOK
  <2>5. FillOK' /\ BestOK' /\ ReportedIsIsland' /\ OriginExact'
    BY <1>4 DEF FillOK, BestOK, ReportedIsIsland, OriginExact, Filling
  <2>. QED  BY <2>2, <2>3, <2>4, <2>5 DEF IInv
<1>. QED  BY <1>3, <1>4 DEF MonteCarlo

\* A coarse fill starts at the first lattice point that is left.
LEMMA StartCenterStep ==
    ASSUME IInv, StartCenter
    PROVE  IInv'
<1>0. TypeOK /\ StageOK /\ CentersOK  BY DEF IInv
<1>1. /\ pc = "centers" /\ stack = <<>> /\ Starts # {} /\ pc' = "fillGen"
      /\ stack' = <<[p |-> First(Starts), d |-> 0]>>
      /\ UNCHANGED <<cand, window, pass, count, taken, sum, edge, best, center, radius, exact, result>>
  BY DEF StartCenter
<1>2. /\ count = 0 /\ taken = {} /\ best = NoBest /\ exact = NoBest /\ result = <<>> /\ ~cand.origin
  BY <1>0, <1>1 DEF StageOK, Filling
<1>3. First(Starts) \in Coarse
  <2>1. Starts \subseteq Coarse  BY <1>0, <1>1 DEF CentersOK, Starts
  <2>2. Coarse \subseteq Places /\ \A p \in Coarse : 0 <= p[1] /\ 0 <= p[2]
    BY <1>0, CoarseFacts DEF TypeOK
  <2>3. Starts \subseteq Places /\ \A p \in Starts : 0 <= p[1] /\ 0 <= p[2]  BY <2>1, <2>2
  <2>4. First(Starts) \in Starts  BY <1>1, <2>3, FirstIn
  <2>. QED  BY <2>1, <2>4
<1>4. TypeOK'
  <2>1. stack' \in Seq([p : Coarse, d : Nat])  BY <1>1, <1>3
  <2>. QED  BY <1>0, <1>1, <2>1 DEF TypeOK
<1>5. StageOK'  BY <1>1, <1>2 DEF StageOK, Filling, NoBest
<1>6. CentersOK'
  <2>1. Islands(cand.hits)' = Islands(cand.hits)  BY <1>1
  <2>. QED  BY <1>0, <1>1, <1>2, <2>1 DEF CentersOK
<1>7. FillOK' /\ BestOK' /\ ReportedIsIsland' /\ OriginExact'
  BY <1>1 DEF FillOK, BestOK, ReportedIsIsland, OriginExact, Filling
<1>. QED  BY <1>4, <1>5, <1>6, <1>7 DEF IInv

\* No lattice point is left: no fill was large enough.
LEMMA NoCenterStep ==
    ASSUME IInv, NoCenter
    PROVE  IInv'
<1>0. TypeOK /\ StageOK  BY DEF IInv
<1>1. pc = "centers" /\ Return(<<>>) /\ UNCHANGED <<cand, window, fill, center, radius, exact>>
  BY DEF NoCenter
<1>2. pc' = "done" /\ result' = <<>>  BY <1>1 DEF Return
<1>3. <<>> \in Seq(Measured) /\ Len(<<>>) <= 1  OBVIOUS
<1>4. TypeOK' /\ StageOK' /\ CentersOK' /\ FillOK' /\ BestOK'
  BY <1>0, <1>1, <1>2, <1>3, DoneFrame DEF fill
<1>5. ~cand'.origin  BY <1>0, <1>1 DEF StageOK
<1>6. ReportedIsIsland' /\ OriginExact'  BY <1>2, <1>5 DEF ReportedIsIsland, OriginExact
<1>. QED  BY <1>4, <1>6 DEF IInv

\* A turn of a coarse fill: a hit is marked when its neighbours are pushed, so none
\* is forgotten.
LEMMA FillGenStep ==
    ASSUME IInv, FillGen
    PROVE  IInv'
<1>0. TypeOK /\ StageOK /\ CentersOK  BY DEF IInv
<1>. DEFINE e == Last(stack)
            F == Front(stack)
            hit == e.p \in cand.hits
            d == IF hit THEN 0 ELSE e.d + 1
            next == IF hit \/ d < Tol THEN NeighboursIn(e.p, pass) ELSE <<>>
            top == [k \in 1 .. Len(next) |-> [p |-> next[k], d |-> d]]
            Entry == [p : Coarse, d : Nat]
            Adj(a, b) == \E k \in 1 .. 4 : Neighbours(a)[k] = b
<1>1. /\ pc = "fillGen" /\ stack # <<>>
      /\ UNCHANGED <<cand, pc, window, sum, edge, best, center, radius, exact, result>>
  BY DEF FillGen
<1>2. /\ e.p \notin pass => stack' = F /\ UNCHANGED <<pass, count, taken>>
      /\ e.p \in pass => /\ pass' = pass \ {e.p} /\ taken' = taken \cup {e.p}
                         /\ count' = (IF hit THEN count + 1 ELSE count)
                         /\ stack' = F \o top
  BY DEF FillGen
<1>3. /\ best = NoBest /\ exact = NoBest /\ result = <<>> /\ ~cand.origin
  BY <1>0, <1>1 DEF StageOK, Filling
<1>4. stack \in Seq(Entry)  BY <1>0, <1>1 DEF TypeOK
<1>5. e \in Entry /\ F \in Seq(Entry) /\ ToSet(stack) = ToSet(F) \cup {e}  BY <1>1, <1>4, FrontLast
<1>. HIDE DEF e, F
<1>6. e.p \in Coarse /\ e.d \in Nat /\ d \in Nat  BY <1>5
<1>7. /\ pass \subseteq Coarse /\ taken \subseteq Coarse /\ pass \cap taken = {}
      /\ count = Cardinality(taken \cap cand.hits)
      /\ \A p \in taken \cap cand.hits, q \in pass : Adj(p, q) => \E k \in 1 .. Len(stack) : stack[k].p = q
  BY <1>0, <1>1 DEF CentersOK
<1>8. Coarse \subseteq Places /\ IsFiniteSet(cand.hits)  BY <1>0, CoarseFacts DEF TypeOK
<1>9. \A p \in taken \cap cand.hits, q \in pass : Adj(p, q) => \E x \in ToSet(stack) : x.p = q
  BY <1>4, <1>7, InSeq
<1>10. /\ next \in Seq(pass)
       /\ hit => \A q : q \in ToSet(next) <=> q \in pass /\ Adj(e.p, q)
  <2>1. e.p \in Places  BY <1>6, <1>8
  <2>2. /\ NeighboursIn(e.p, pass) \in Seq(pass)
        /\ \A q : q \in ToSet(NeighboursIn(e.p, pass)) <=> q \in pass /\ Adj(e.p, q)
    BY <2>1, NeighboursInFacts
  <2>3. <<>> \in Seq(pass)  OBVIOUS
  <2>. QED  BY <2>2, <2>3
<1>. HIDE DEF d, next
<1>11. top \in Seq(Entry) /\ \A q \in ToSet(next) : \E x \in ToSet(top) : x.p = q
  <2>1. Len(next) \in Nat /\ \A k \in 1 .. Len(next) : next[k] \in pass  BY <1>10
  <2>2. \A k \in 1 .. Len(next) : [p |-> next[k], d |-> d] \in Entry  BY <1>6, <1>7, <2>1
  <2>3. top \in Seq(Entry) /\ Len(top) = Len(next)
    <3>. HIDE DEF Entry
    <3>. QED  BY <2>1, <2>2
  <2>4. ASSUME NEW q \in ToSet(next) PROVE \E x \in ToSet(top) : x.p = q
    <3>1. PICK k \in 1 .. Len(next) : next[k] = q  BY <1>10, InSeq
    <3>2. top[k] = [p |-> next[k], d |-> d]  BY <3>1
    <3>a. top[k].p = q  BY <3>1, <3>2
    <3>. HIDE DEF top, Entry
    <3>3. top[k] \in ToSet(top)  BY <2>3, <3>1, InSeq
    <3>. QED  BY <3>a, <3>3
  <2>. QED  BY <2>3, <2>4
<1>. HIDE DEF top, hit, Entry
<1>12. CASE e.p \notin pass
  <2>1. stack' = F /\ UNCHANGED <<pass, count, taken>>  BY <1>2, <1>12
  <2>2. TypeOK'
    <3>1. stack' \in Seq([p : Coarse, d : Nat])  BY <1>5, <2>1 DEF Entry
    <3>. QED  BY <1>0, <1>1, <2>1, <3>1 DEF TypeOK
  <2>3. \A p \in taken \cap cand.hits, q \in pass : Adj(p, q) => \E x \in ToSet(stack') : x.p = q
    BY <1>5, <1>9, <1>12, <2>1
  <2>4. \A p \in taken \cap cand.hits, q \in pass : Adj(p, q) => \E k \in 1 .. Len(stack') : stack'[k].p = q
    BY <1>5, <2>1, <2>3, InSeq
  <2>5. CentersOK'
    <3>1. Islands(cand.hits)' = Islands(cand.hits)  BY <1>1
    <3>. QED  BY <1>0, <1>1, <2>1, <2>4, <3>1 DEF CentersOK
  <2>6. StageOK'  BY <1>1, <1>3 DEF StageOK, Filling, NoBest
  <2>7. FillOK' /\ BestOK' /\ ReportedIsIsland' /\ OriginExact'
    BY <1>1 DEF FillOK, BestOK, ReportedIsIsland, OriginExact, Filling
  <2>. QED  BY <2>2, <2>5, <2>6, <2>7 DEF IInv
<1>13. CASE e.p \in pass
  <2>1. /\ pass' = pass \ {e.p} /\ taken' = taken \cup {e.p}
        /\ count' = (IF hit THEN count + 1 ELSE count)
        /\ stack' = F \o top
    BY <1>2, <1>13
  <2>2. stack' \in Seq(Entry) /\ ToSet(stack') = ToSet(F) \cup ToSet(top)
    BY <1>5, <1>11, <2>1, Stacked
  <2>3. count' = Cardinality(taken' \cap cand.hits) /\ count' \in Nat
    <3>1. IsFiniteSet(taken \cap cand.hits)  BY <1>8, FS_Intersection
    <3>2. e.p \notin taken \cap cand.hits  BY <1>7, <1>13
    <3>3. CASE hit
      <4>1. taken' \cap cand.hits = (taken \cap cand.hits) \cup {e.p}  BY <2>1, <3>3 DEF hit
      <4>2. Cardinality(taken' \cap cand.hits) = Cardinality(taken \cap cand.hits) + 1
        BY <3>1, <3>2, <4>1, FS_AddElement
      <4>. QED  BY <1>0, <1>7, <2>1, <3>3, <4>2 DEF TypeOK
    <3>4. CASE ~hit
      <4>1. taken' \cap cand.hits = taken \cap cand.hits  BY <2>1, <3>4 DEF hit
      <4>. QED  BY <1>0, <1>7, <2>1, <3>4, <4>1 DEF TypeOK
    <3>. QED  BY <3>3, <3>4
  <2>4. TypeOK'
    <3>1. stack' \in Seq([p : Coarse, d : Nat])  BY <2>2 DEF Entry
    <3>2. e.p \in Places  BY <1>6, <1>8
    <3>. QED  BY <1>0, <1>1, <2>1, <2>3, <3>1, <3>2 DEF TypeOK
  <2>5. ASSUME NEW p \in taken' \cap cand.hits, NEW q \in pass', Adj(p, q)
        PROVE  \E k \in 1 .. Len(stack') : stack'[k].p = q
    <3>1. \E x \in ToSet(stack') : x.p = q
      <4>1. CASE p \in taken
        <5>1. q \in pass /\ q # e.p  BY <2>1, <2>5
        <5>2. PICK x \in ToSet(stack) : x.p = q  BY <1>9, <2>5, <4>1, <5>1
        <5>3. x \in ToSet(F)  BY <1>5, <5>1, <5>2
        <5>. QED  BY <2>2, <5>2, <5>3
      <4>2. CASE p = e.p
        <5>1. hit /\ q \in pass  BY <2>1, <2>5, <4>2 DEF hit
        <5>2. q \in ToSet(next)  BY <1>10, <2>5, <4>2, <5>1
        <5>. QED  BY <1>11, <2>2, <5>2
      <4>. QED  BY <2>1, <4>1, <4>2
    <3>. QED  BY <2>2, <3>1, InSeq
  <2>6. CentersOK'
    <3>1. Islands(cand.hits)' = Islands(cand.hits)  BY <1>1
    <3>2. pass' \cup taken' = pass \cup taken  BY <1>13, <2>1
    <3>3. pass' \subseteq Coarse /\ taken' \subseteq Coarse /\ pass' \cap taken' = {}  BY <1>6, <1>7, <2>1
    <3>. QED  BY <1>0, <1>1, <2>3, <2>5, <3>1, <3>2, <3>3 DEF CentersOK
  <2>7. StageOK'  BY <1>1, <1>3 DEF StageOK, Filling, NoBest
  <2>8. FillOK' /\ BestOK' /\ ReportedIsIsland' /\ OriginExact'
    BY <1>1 DEF FillOK, BestOK, ReportedIsIsland, OriginExact, Filling
  <2>. QED  BY <2>4, <2>6, <2>7, <2>8 DEF IInv
<1>. QED  BY <1>12, <1>13

\* A coarse fill is over: the island is large enough, or the next one is tried.
LEMMA EndFillGenStep ==
    ASSUME IInv, EndFillGen
    PROVE  IInv'
<1>0. TypeOK /\ StageOK /\ CentersOK  BY DEF IInv
<1>1. /\ pc = "fillGen" /\ stack = <<>> /\ count' = 0 /\ taken' = {}
      /\ UNCHANGED <<cand, stack, sum, edge, best, center, radius, exact, result>>
  BY DEF EndFillGen
<1>2. /\ best = NoBest /\ exact = NoBest /\ result = <<>> /\ ~cand.origin
  BY <1>0, <1>1 DEF StageOK, Filling
<1>3. SetupOK(cand)  BY <1>0 DEF TypeOK
<1>4. stack' \in Seq(Places) /\ ToSet(stack') = {}
  <2>1. <<>> \in Seq(Places)  OBVIOUS
  <2>. QED  BY <1>1, <2>1, InSeq
<1>5. Cardinality({}) = 0  BY FS_EmptySet
<1>6. CASE count >= CoarseMin
  <2>. DEFINE L == cand.layer15 \cup cand.layer16
  <2>1. pc' = "find" /\ window' = Window4 /\ pass' = Window4 \cap L  BY <1>6 DEF EndFillGen
  <2>2. Window4 \subseteq Places
    <3>1. PICK n \in Nat, x \in Int, z \in Int : Window4 = Square(x, z, n)  BY <1>3, Window4Facts
    <3>. QED  BY <3>1, SquareFacts
  <2>3. TypeOK'
    <3>1. pc' \in Filling /\ pc' # "fillGen"  BY <2>1 DEF Filling
    <3>2. window' \subseteq Places /\ pass' \subseteq Places  BY <2>1, <2>2
    <3>. QED  BY <1>0, <1>1, <1>4, <3>1, <3>2 DEF TypeOK
  <2>4. StageOK'
    <3>1. Window4' = Window4  BY <1>1 DEF Window4
    <3>. QED  BY <1>1, <1>2, <2>1, <3>1 DEF StageOK, Filling, NoBest
  <2>5. Ground' = pass' /\ Reached' = {}
    <3>1. Ground' = Window4 \cap L  BY <1>1, <2>1 DEF Ground
    <3>. QED  BY <1>1, <1>4, <2>1, <3>1 DEF Reached
  <2>6. Old' = {}  BY <2>5 DEF Old
  <2>7. FillOK'
    <3>1. IsInjective(stack')  BY <1>1 DEF IsInjective
    <3>2. ClosedIn(taken, Ground \ Reached)' /\ ClosedIn(Old, Ground)'  BY <1>1, <2>6 DEF ClosedIn
    <3>3. /\ (pass \cup Reached)' \subseteq Ground' /\ (pass \cap Reached)' = {}
          /\ (taken \cap ToSet(stack))' = {} /\ count' = Cardinality(taken')
      BY <1>1, <1>4, <1>5, <2>5
    <3>. QED  BY <1>1, <2>5, <3>1, <3>2, <3>3 DEF FillOK
  <2>8. BestOK'
    <3>1. best'.n = 0 /\ ~best'.edge  BY <1>1, <1>2 DEF NoBest
    <3>. QED  BY <2>1, <2>6, <3>1 DEF BestOK
  <2>9. CentersOK' /\ ReportedIsIsland' /\ OriginExact'
    BY <2>1 DEF CentersOK, ReportedIsIsland, OriginExact
  <2>. QED  BY <2>3, <2>4, <2>7, <2>8, <2>9 DEF IInv
<1>7. CASE ~(count >= CoarseMin)
  <2>1. pc' = "centers" /\ UNCHANGED <<window, pass>>  BY <1>7 DEF EndFillGen
  <2>2. TypeOK'  BY <1>0, <1>1, <1>4, <2>1 DEF TypeOK
  <2>3. StageOK'  BY <1>1, <1>2, <2>1 DEF StageOK, Filling, NoBest
  <2>. DEFINE seen == Coarse \ (pass \cup taken)
              seen2 == Coarse \ pass
              Adj(a, b) == \E k \in 1 .. 4 : Neighbours(a)[k] = b
  <2>4. /\ pass \subseteq Coarse /\ taken \subseteq Coarse /\ pass \cap taken = {}
        /\ count = Cardinality(taken \cap cand.hits)
        /\ \A p \in seen \cap cand.hits, q \in pass \cup taken : ~Adj(p, q)
        /\ \A p \in taken \cap cand.hits, q \in pass : ~Adj(p, q)
        /\ \A I \in Islands(cand.hits) : I \subseteq seen => Cardinality(I) < CoarseMin
    <3>1. 1 .. Len(stack) = {}  BY <1>1
    <3>. QED  BY <1>0, <1>1, <3>1 DEF CentersOK
  <2>5. \A p \in seen2 \cap cand.hits, q \in pass : ~Adj(p, q)  BY <2>4
  <2>6. /\ \A I : I \in Islands(cand.hits) <=> IsIsland(I, cand.hits)
        /\ CoarseMin \in Nat /\ IsFiniteSet(cand.hits)
    BY <1>3, CoarseFacts
  <2>7. ASSUME NEW I \in Islands(cand.hits), I \subseteq seen2 PROVE Cardinality(I) < CoarseMin
    <3>1. IsIsland(I, cand.hits) /\ I \subseteq cand.hits  BY <2>6 DEF IsIsland
    <3>2. CASE I \subseteq seen  BY <2>4, <3>2
    <3>3. CASE ~(I \subseteq seen)
      <4>1. PICK x \in I : x \in taken  BY <2>7, <3>3
      <4>2. ClosedIn(I \cap seen, I)
        <5>1. SUFFICES ASSUME NEW p \in I \cap seen, NEW q \in I, Adj(p, q) PROVE q \in seen
          BY DEF ClosedIn
        <5>2. q \notin pass \cup taken  BY <2>4, <3>1, <5>1
        <5>. QED  BY <2>7, <5>2
      <4>3. I \cap seen = {}
        <5>1. SUFFICES ASSUME I \cap seen # {} PROVE FALSE  OBVIOUS
        <5>2. I \cap seen \in SUBSET I  OBVIOUS
        <5>3. I \cap seen = I  BY <3>1, <4>2, <5>1, <5>2 DEF IsIsland
        <5>. QED  BY <3>3, <5>3
      <4>4. I \subseteq taken \cap cand.hits  BY <2>7, <3>1, <4>3
      <4>5. IsFiniteSet(taken \cap cand.hits) /\ I \in SUBSET (taken \cap cand.hits)
        BY <2>6, <4>4, FS_Intersection
      <4>6. Cardinality(I) <= count /\ Cardinality(I) \in Nat
        BY <2>4, <4>5, FS_Subset, FS_CardinalityType
      <4>7. count \in Nat  BY <1>0 DEF TypeOK
      <4>. QED  BY <1>7, <2>6, <4>6, <4>7
    <3>. QED  BY <3>2, <3>3
  <2>8. CentersOK'
    <3>1. Islands(cand.hits)' = Islands(cand.hits)  BY <1>1
    <3>2. (Coarse \ (pass \cup taken))' = seen2  BY <1>1, <2>1
    <3>3. pass' \cup taken' = pass  BY <1>1, <2>1
    <3>4. count' = Cardinality((taken \cap cand.hits)')
      <4>1. (taken \cap cand.hits)' = {}  BY <1>1
      <4>. QED  BY <1>1, <1>5, <4>1
    <3>5. /\ pass' \subseteq Coarse /\ taken' \subseteq Coarse /\ pass' \cap taken' = {}
          /\ taken' \cap cand'.hits = {}
      BY <1>1, <2>1, <2>4
    <3>6. \A p \in seen2 \cap cand'.hits, q \in pass' \cup taken' : ~Adj(p, q)  BY <1>1, <2>5, <3>3
    <3>7. \A I \in Islands(cand.hits)' : I \subseteq seen2 => Cardinality(I) < CoarseMin  BY <2>7, <3>1
    <3>. HIDE DEF seen2
    <3>. QED  BY <3>2, <3>4, <3>5, <3>6, <3>7 DEF CentersOK
  <2>9. FillOK' /\ BestOK' /\ ReportedIsIsland' /\ OriginExact'
    BY <2>1 DEF FillOK, BestOK, ReportedIsIsland, OriginExact, Filling
  <2>. QED  BY <2>2, <2>3, <2>8, <2>9 DEF IInv
<1>. QED  BY <1>6, <1>7

\* A step that changes nothing.
LEMMA StutterStep ==
    ASSUME IInv, UNCHANGED vars
    PROVE  IInv'
<1>1. UNCHANGED <<cand, pc, window, pass, stack, count, taken, sum, edge, best, center, radius,
                  exact, result>>
  BY DEF vars
<1>2. /\ World' = World /\ Ground' = Ground /\ Islands(Ground)' = Islands(Ground)
      /\ Window4' = Window4 /\ IsMushroom(<<0, 0>>)' = IsMushroom(<<0, 0>>)
      /\ \A I : Touches(I)' = Touches(I)
  BY <1>1, SameWorld, SameGrid
<1>3. Islands(World)' = Islands(World) /\ Islands(cand.hits)' = Islands(cand.hits)  BY <1>1, <1>2
<1>4. Reached' = Reached /\ Old' = Old  BY <1>1, <1>2 DEF Reached, Old
<1>5. TypeOK'  BY <1>1 DEF IInv, TypeOK
<1>6. StageOK'  BY <1>1, <1>2, <1>3 DEF IInv, StageOK, InBox
<1>7. CentersOK'  BY <1>1, <1>3 DEF IInv, CentersOK
<1>8. FillOK'
  <2>1. ClosedIn(Old, Ground)' = ClosedIn(Old, Ground)
        /\ ClosedIn(taken, Ground \ Reached)' = ClosedIn(taken, Ground \ Reached)
    BY <1>1, <1>2, <1>4
  <2>2. Touches(taken)' = Touches(taken)  BY <1>1 DEF Touches
  <2>. QED  BY <1>1, <1>2, <1>4, <2>1, <2>2 DEF IInv, FillOK
<1>9. BestOK'  BY <1>1, <1>2, <1>4 DEF IInv, BestOK, Describes, InBox
<1>10. ReportedIsIsland'  BY <1>1, <1>3 DEF IInv, ReportedIsIsland, InBox
<1>11. OriginExact'  BY <1>1, <1>2, <1>3 DEF IInv, OriginExact
<1>. QED  BY <1>5, <1>6, <1>7, <1>8, <1>9, <1>10, <1>11 DEF IInv

\* Every step preserves IInv.
LEMMA NextIInv == IInv /\ [Next]_vars => IInv'
<1>. SUFFICES ASSUME IInv, [Next]_vars PROVE IInv'  OBVIOUS
<1>1. CASE MonteCarlo  BY <1>1, MonteCarloStep
<1>2. CASE StartCenter  BY <1>2, StartCenterStep
<1>3. CASE NoCenter  BY <1>3, NoCenterStep
<1>4. CASE FillGen  BY <1>4, FillGenStep
<1>5. CASE EndFillGen  BY <1>5, EndFillGenStep
<1>6. CASE StartFill  BY <1>6, StartFillStep
<1>7. CASE FillOne  BY <1>7, FillOneStep
<1>8. CASE EndFill  BY <1>8, EndFillStep
<1>9. CASE EndFind  BY <1>9, EndFindStep
<1>10. CASE EndMeasure  BY <1>10, EndMeasureStep
<1>11. CASE Origin  BY <1>11, OriginStep
<1>12. CASE EndOrigin  BY <1>12, EndOriginStep
<1>13. CASE Done \/ UNCHANGED vars  BY <1>13, StutterStep DEF Done
<1>. QED  BY <1>1, <1>2, <1>3, <1>4, <1>5, <1>6, <1>7, <1>8, <1>9, <1>10, <1>11, <1>12, <1>13 DEF Next

(***************************************************************************)
(* The room on the stack of floodFillGen                                   *)
(***************************************************************************)

\* How many neighbours are pushed, and which is the last of them.
LEMMA NeighboursInCount ==
    ASSUME NEW p \in Places, NEW S
    PROVE  \E u, d, l, r \in 0 .. 1 :
              /\ u = 1 <=> Neighbours(p)[1] \in S
              /\ d = 1 <=> Neighbours(p)[2] \in S
              /\ l = 1 <=> Neighbours(p)[3] \in S
              /\ r = 1 <=> Neighbours(p)[4] \in S
              /\ Len(NeighboursIn(p, S)) = u + d + l + r
              /\ r = 1 => Last(NeighboursIn(p, S)) = Neighbours(p)[4]
              /\ r = 0 /\ l = 1 => Last(NeighboursIn(p, S)) = Neighbours(p)[3]
<1>. DEFINE n == Neighbours(p)
            One(q) == IF q \in S THEN <<q>> ELSE <<>>
            s2 == One(n[1]) \o One(n[2])
            s3 == s2 \o One(n[3])
            s4 == s3 \o One(n[4])
<1>1. NeighboursIn(p, S) = s4  BY DEF NeighboursIn
<1>. HIDE DEF n
<1>2. ASSUME NEW i \in 1 .. 4
      PROVE  \E m \in 0 .. 1 : /\ m = 1 <=> n[i] \in S
                               /\ One(n[i]) \in Seq(S) /\ Len(One(n[i])) = m
                               /\ m = 1 => One(n[i]) = <<n[i]>>
                               /\ m = 0 => One(n[i]) = <<>>
  <2>1. CASE n[i] \in S  BY <2>1
  <2>2. CASE n[i] \notin S  BY <2>2
  <2>. QED  BY <2>1, <2>2
<1>3. PICK u \in 0 .. 1 : (u = 1 <=> n[1] \in S) /\ One(n[1]) \in Seq(S) /\ Len(One(n[1])) = u  BY <1>2
<1>4. PICK d \in 0 .. 1 : (d = 1 <=> n[2] \in S) /\ One(n[2]) \in Seq(S) /\ Len(One(n[2])) = d  BY <1>2
<1>5. PICK l \in 0 .. 1 : /\ l = 1 <=> n[3] \in S
                          /\ One(n[3]) \in Seq(S) /\ Len(One(n[3])) = l
                          /\ l = 1 => One(n[3]) = <<n[3]>>
  BY <1>2
<1>6. PICK r \in 0 .. 1 : /\ r = 1 <=> n[4] \in S
                          /\ One(n[4]) \in Seq(S) /\ Len(One(n[4])) = r
                          /\ r = 1 => One(n[4]) = <<n[4]>>
                          /\ r = 0 => One(n[4]) = <<>>
  BY <1>2
<1>. HIDE DEF One
<1>7. s2 \in Seq(S) /\ Len(s2) = u + d  BY <1>3, <1>4
<1>. HIDE DEF s2
<1>8. s3 \in Seq(S) /\ Len(s3) = u + d + l /\ (l = 1 => s3[Len(s3)] = n[3])
  <2>1. s3 \in Seq(S) /\ Len(s3) = u + d + l  BY <1>5, <1>7
  <2>2. ASSUME l = 1 PROVE s3[Len(s3)] = n[3]
    <3>1. s3 = s2 \o <<n[3]>> /\ n[3] \in S  BY <1>5, <2>2
    <3>2. (s2 \o <<n[3]>>)[Len(s2) + 1] = n[3]  BY <1>7, <3>1
    <3>3. Len(s3) = Len(s2) + 1  BY <1>7, <2>1, <2>2
    <3>. QED  BY <3>1, <3>2, <3>3
  <2>. QED  BY <2>1, <2>2
<1>. HIDE DEF s3
<1>9. Len(s4) = u + d + l + r  BY <1>6, <1>8
<1>10. ASSUME r = 1 PROVE Last(s4) = n[4]
  <2>1. s4 = s3 \o <<n[4]>> /\ n[4] \in S  BY <1>6, <1>10
  <2>2. (s3 \o <<n[4]>>)[Len(s3) + 1] = n[4]
    <3>1. s3 \in Seq(S) /\ n[4] \in S  BY <1>8, <2>1
    <3>. QED  BY <3>1
  <2>3. Len(s4) = Len(s3) + 1  BY <1>8, <1>9, <1>10
  <2>. QED  BY <2>1, <2>2, <2>3 DEF Last
<1>11. ASSUME r = 0, l = 1 PROVE Last(s4) = n[3]
  <2>1. s4 = s3  BY <1>6, <1>8, <1>11
  <2>. QED  BY <1>8, <1>11, <2>1 DEF Last
<1>. QED  BY SMTT(40), <1>1, <1>3, <1>4, <1>5, <1>6, <1>9, <1>10, <1>11 DEF n

\* A sample and its upper neighbour.
LEMMA UpDown ==
    ASSUME NEW p \in Places
    PROVE  /\ Neighbours(p)[1] = <<p[1], p[2] - 1>> /\ Neighbours(p)[2] = <<p[1], p[2] + 1>>
           /\ Neighbours(p)[3] = <<p[1] - 1, p[2]>> /\ Neighbours(p)[4] = <<p[1] + 1, p[2]>>
           /\ Neighbours(Neighbours(p)[2])[1] = p
           /\ Neighbours(Neighbours(p)[3])[4] = p /\ Neighbours(Neighbours(p)[4])[3] = p
           /\ p[1] \in Int /\ p[2] \in Int /\ p = <<p[1], p[2]>>
<1>1. PICK x \in Int, z \in Int : p = <<x, z>>  BY DEF Places
<1>2. p[1] = x /\ p[2] = z  BY <1>1
<1>3. \A a, b \in Int : /\ Neighbours(<<a, b>>)[1] = <<a, b - 1>>
                        /\ Neighbours(<<a, b>>)[2] = <<a, b + 1>>
                        /\ Neighbours(<<a, b>>)[3] = <<a - 1, b>>
                        /\ Neighbours(<<a, b>>)[4] = <<a + 1, b>>
  BY DEF Neighbours
<1>4. x - 1 \in Int /\ x + 1 \in Int /\ z - 1 \in Int /\ z + 1 \in Int  OBVIOUS
<1>5. (x - 1) + 1 = x /\ (x + 1) - 1 = x /\ (z + 1) - 1 = z  OBVIOUS
<1>6. /\ Neighbours(<<x, z + 1>>)[1] = <<x, (z + 1) - 1>>
      /\ Neighbours(<<x - 1, z>>)[4] = <<(x - 1) + 1, z>>
      /\ Neighbours(<<x + 1, z>>)[3] = <<(x + 1) - 1, z>>
  BY <1>3, <1>4
<1>7. /\ Neighbours(p)[1] = <<x, z - 1>> /\ Neighbours(p)[2] = <<x, z + 1>>
      /\ Neighbours(p)[3] = <<x - 1, z>> /\ Neighbours(p)[4] = <<x + 1, z>>
  BY <1>1, <1>3
<1>. QED  BY <1>1, <1>2, <1>5, <1>6, <1>7

\* Samples that have been spent are on the grid, and not in its first row.
LEMMA SpentFacts ==
    ASSUME SetupOK(cand)
    PROVE  /\ IsFiniteSet(Spent) /\ Cardinality(Spent) \in Nat
           /\ Spent \subseteq Coarse /\ \A c \in Spent : c[2] > 0
<1>1. IsFiniteSet(Coarse)  BY CoarseFacts
<1>2. Spent \in SUBSET Coarse /\ \A c \in Spent : c[2] > 0  BY DEF Spent
<1>3. IsFiniteSet(Spent)  BY <1>1, <1>2, FS_Subset
<1>. QED  BY <1>2, <1>3, FS_CardinalityType

\* The bound on the stack is less than the number of samples: the first row spends
\* nothing.
LEMMA StackRoom ==
    ASSUME TypeOK, StackOK
    PROVE  StackFits
<1>. SUFFICES ASSUME pc = "fillGen" PROVE Len(stack) <= Cardinality(Coarse)  BY DEF StackFits
<1>1. SetupOK(cand) /\ stack \in Seq([p : Coarse, d : Nat])  BY DEF TypeOK
<1>2. IsFiniteSet(Coarse) /\ Cardinality(Coarse) \in Nat /\ Coarse \subseteq Places
  BY <1>1, CoarseFacts, FS_CardinalityType
<1>3. IsFiniteSet(Spent) /\ Spent \subseteq Coarse /\ Cardinality(Spent) \in Nat
      /\ \A c \in Spent : c[2] > 0
  BY <1>1, SpentFacts
<1>4. CASE stack = <<>>  BY <1>2, <1>4
<1>5. CASE stack # <<>>
  <2>1. Last(stack) \in [p : Coarse, d : Nat]  BY <1>1, <1>5, FrontLast
  <2>2. Last(stack).p \in Coarse  BY <2>1
  <2>3. CoarseWidth \in Nat /\ CoarseHeight \in Nat  BY SizesAssumption
  <2>4. CoarseWidth > 0 /\ CoarseHeight > 0  BY <2>2, <2>3 DEF Coarse
  <2>5. <<0, 0>> \in Coarse /\ <<0, 0>> \notin Spent
    <3>1. 0 \in 0 .. CoarseWidth - 1 /\ 0 \in 0 .. CoarseHeight - 1  BY <2>3, <2>4
    <3>2. <<0, 0>>[2] = 0  OBVIOUS
    <3>3. ~(0 > 0)  OBVIOUS
    <3>. QED  BY <1>3, <3>1, <3>2, <3>3 DEF Coarse
  <2>. DEFINE S1 == Spent \cup {<<0, 0>>}
              S2 == S1 \cup {<<1, 0>>}
  <2>6. IsFiniteSet(S1) /\ Cardinality(S1) = Cardinality(Spent) + 1 /\ S1 \in SUBSET Coarse
    BY <1>3, <2>5, FS_AddElement
  <2>7. CASE Len(stack) <= Cardinality(Spent) + 1
    <3>1. Cardinality(S1) <= Cardinality(Coarse)  BY <1>2, <2>6, FS_Subset
    <3>2. Len(stack) \in Nat  BY <1>1
    <3>. QED  BY <1>2, <1>3, <2>6, <2>7, <3>1, <3>2
  <2>8. CASE /\ Len(stack) = Cardinality(Spent) + 2
             /\ \E i \in 3 .. 4 : Neighbours(Last(stack).p)[i] \in Coarse \ pass
    <3>1. CoarseWidth > 1
      <4>1. PICK v \in Coarse : v = Last(stack).p  BY <2>2
      <4>2. PICK i \in 3 .. 4 : Neighbours(v)[i] \in Coarse  BY <2>8, <4>1
      <4>3. /\ Neighbours(v)[3] = <<v[1] - 1, v[2]>> /\ Neighbours(v)[4] = <<v[1] + 1, v[2]>>
            /\ v[1] \in 0 .. CoarseWidth - 1
        BY <1>2, <4>1, UpDown DEF Coarse
      <4>4. CASE i = 3
        <5>1. v[1] - 1 \in 0 .. CoarseWidth - 1  BY <4>2, <4>3, <4>4 DEF Coarse
        <5>. QED  BY <2>3, <4>3, <5>1
      <4>5. CASE i = 4
        <5>1. v[1] + 1 \in 0 .. CoarseWidth - 1  BY <4>2, <4>3, <4>5 DEF Coarse
        <5>. QED  BY <2>3, <4>3, <5>1
      <4>. QED  BY <4>4, <4>5
    <3>2. <<1, 0>> \in Coarse
      <4>1. 1 \in 0 .. CoarseWidth - 1 /\ 0 \in 0 .. CoarseHeight - 1  BY <2>3, <2>4, <3>1
      <4>. QED  BY <4>1 DEF Coarse
    <3>3. <<1, 0>> \notin S1
      <4>1. <<1, 0>>[2] = 0 /\ ~(0 > 0) /\ <<1, 0>> # <<0, 0>>  OBVIOUS
      <4>. QED  BY <1>3, <4>1
    <3>4. IsFiniteSet(S2) /\ Cardinality(S2) = Cardinality(Spent) + 2 /\ S2 \in SUBSET Coarse
      <4>. HIDE DEF S1
      <4>1. IsFiniteSet(S2) /\ Cardinality(S2) = Cardinality(S1) + 1  BY <2>6, <3>3, FS_AddElement
      <4>. QED  BY <1>3, <2>6, <3>2, <4>1
    <3>5. Cardinality(S2) <= Cardinality(Coarse)  BY <1>2, <3>4, FS_Subset
    <3>. QED  BY <1>2, <1>3, <2>8, <3>4, <3>5
  <2>. QED  BY <1>5, <2>7, <2>8 DEF StackOK
<1>. QED  BY <1>4, <1>5

\* Marking a sample spends the steps to the rows above and below it, unless they
\* were spent before.
LEMMA SpentMore ==
    ASSUME SetupOK(cand), pass \subseteq Coarse, NEW v \in pass, pass' = pass \ {v},
           NEW u \in 0 .. 1, u = 1 <=> Neighbours(v)[1] \in pass,
           NEW d \in 0 .. 1, d = 1 <=> Neighbours(v)[2] \in pass
    PROVE  Cardinality(Spent') \in Nat /\ Cardinality(Spent) + u + d <= Cardinality(Spent')
<1>1. Coarse \subseteq Places /\ \A c \in Coarse : 0 <= c[1] /\ 0 <= c[2]  BY CoarseFacts
<1>2. /\ Neighbours(v)[1] = <<v[1], v[2] - 1>> /\ Neighbours(v)[2] = <<v[1], v[2] + 1>>
      /\ Neighbours(Neighbours(v)[2])[1] = v
      /\ v[1] \in Int /\ v[2] \in Int
  BY <1>1, UpDown
<1>3. IsFiniteSet(Spent) /\ Cardinality(Spent) \in Nat  BY SpentFacts
<1>4. IsFiniteSet(Spent') /\ Cardinality(Spent') \in Nat
  <2>1. IsFiniteSet(Coarse)  BY CoarseFacts
  <2>2. Spent' \in SUBSET Coarse  BY DEF Spent
  <2>. QED  BY <2>1, <2>2, FS_Subset, FS_CardinalityType
<1>. DEFINE below == Neighbours(v)[2]
            S1 == IF u = 1 THEN Spent \cup {v} ELSE Spent
            S2 == IF d = 1 THEN S1 \cup {below} ELSE S1
<1>5. Spent \subseteq Spent'  BY DEF Spent
<1>6. ASSUME u = 1 PROVE v \notin Spent /\ v \in Spent'
  <2>1. Neighbours(v)[1] \in pass  BY <1>6
  <2>2. v \notin Spent  BY <2>1 DEF Spent
  <2>3. v[2] > 0
    <3>1. <<v[1], v[2] - 1>> \in Coarse  BY <1>2, <2>1
    <3>2. 0 <= v[2] - 1  BY <1>1, <3>1
    <3>. QED  BY <1>2, <3>2
  <2>. QED  BY <2>2, <2>3 DEF Spent
<1>7. ASSUME d = 1 PROVE below \notin Spent /\ below \in Spent' /\ below # v
  <2>1. below \in pass  BY <1>7
  <2>2. below \notin Spent  BY <1>2, <2>1 DEF Spent
  <2>3. below[2] = v[2] + 1 /\ 0 <= v[2]  BY <1>1, <1>2
  <2>4. below[2] > 0 /\ below # v  BY <1>2, <2>3
  <2>5. Neighbours(below)[1] \notin pass'  BY <1>2
  <2>. QED  BY <2>1, <2>2, <2>4, <2>5 DEF Spent
<1>. HIDE DEF below
<1>8. IsFiniteSet(S1) /\ Cardinality(S1) = Cardinality(Spent) + u /\ S1 \subseteq Spent'
      /\ (d = 1 => below \notin S1)
  <2>1. CASE u = 1
    <3>1. IsFiniteSet(Spent \cup {v}) /\ Cardinality(Spent \cup {v}) = Cardinality(Spent) + 1
      BY <1>3, <1>6, <2>1, FS_AddElement
    <3>. QED  BY <1>5, <1>6, <1>7, <2>1, <3>1
  <2>2. CASE u = 0  BY <1>3, <1>5, <1>7, <2>2
  <2>. QED  BY <2>1, <2>2
<1>. HIDE DEF S1
<1>9. IsFiniteSet(S2) /\ Cardinality(S2) = Cardinality(Spent) + u + d /\ S2 \in SUBSET Spent'
  <2>1. CASE d = 1
    <3>1. IsFiniteSet(S1 \cup {below}) /\ Cardinality(S1 \cup {below}) = Cardinality(S1) + 1
      BY <1>8, <2>1, FS_AddElement
    <3>. QED  BY <1>3, <1>7, <1>8, <2>1, <3>1
  <2>2. CASE d = 0  BY <1>3, <1>8, <2>2
  <2>. QED  BY <2>1, <2>2
<1>. HIDE DEF S2
<1>10. Cardinality(S2) <= Cardinality(Spent')  BY <1>4, <1>9, FS_Subset
<1>. QED  BY <1>4, <1>9, <1>10

\* A turn of the fill leaves the stack within its bound.
LEMMA FillGenStack ==
    ASSUME IInv, StackOK, FillGen
    PROVE  StackOK'
<1>0. TypeOK /\ CentersOK  BY DEF IInv
<1>. DEFINE e == Last(stack)
            F == Front(stack)
            hit == e.p \in cand.hits
            d == IF hit THEN 0 ELSE e.d + 1
            next == IF hit \/ d < Tol THEN NeighboursIn(e.p, pass) ELSE <<>>
            top == [k \in 1 .. Len(next) |-> [p |-> next[k], d |-> d]]
            Entry == [p : Coarse, d : Nat]
<1>1. pc = "fillGen" /\ stack # <<>> /\ UNCHANGED <<cand, pc>>  BY DEF FillGen
<1>2. /\ e.p \notin pass => stack' = F /\ UNCHANGED pass
      /\ e.p \in pass => pass' = pass \ {e.p} /\ stack' = F \o top
  BY DEF FillGen
<1>3. stack \in Seq(Entry) /\ SetupOK(cand)  BY <1>0, <1>1 DEF TypeOK
<1>4. e \in Entry /\ F \in Seq(Entry) /\ Len(F) = Len(stack) - 1 /\ Len(stack) \in Nat
  <2>1. e \in Entry /\ F \in Seq(Entry)  BY <1>1, <1>3, FrontLast
  <2>2. Len(F) = Len(stack) - 1 /\ Len(stack) \in Nat
    <3>. HIDE DEF Entry
    <3>1. PICK n \in Nat : n = Len(stack) /\ n > 0  BY <1>1, <1>3
    <3>. QED  BY <1>3, <3>1 DEF Front
  <2>. QED  BY <2>1, <2>2
<1>5. pass \subseteq Coarse /\ Coarse \subseteq Places  BY <1>0, <1>1, <1>3, CoarseFacts DEF CentersOK
<1>6. e.p \in Coarse /\ e.p \in Places  BY <1>4, <1>5
<1>7. Cardinality(Spent) \in Nat  BY <1>3, SpentFacts
<1>a. PICK n \in Nat, c \in Nat : n = Len(stack) /\ c = Cardinality(Spent)  BY <1>4, <1>7
<1>8. n <= c + 1 \/ (n = c + 2 /\ \E i \in 3 .. 4 : Neighbours(e.p)[i] \in Coarse \ pass)
  BY <1>1, <1>a DEF StackOK
<1>b. n <= c + 2  BY <1>8
<1>. HIDE DEF e, F
<1>9. CASE e.p \notin pass
  <2>1. Spent' = Spent  BY <1>1, <1>2, <1>9 DEF Spent
  <2>2. Len(stack') <= c + 1  BY <1>2, <1>4, <1>a, <1>b, <1>9
  <2>. QED  BY <1>a, <2>1, <2>2 DEF StackOK
<1>10. CASE e.p \in pass
  <2>1. PICK u, dn, l, r \in 0 .. 1 :
            /\ u = 1 <=> Neighbours(e.p)[1] \in pass
            /\ dn = 1 <=> Neighbours(e.p)[2] \in pass
            /\ l = 1 <=> Neighbours(e.p)[3] \in pass
            /\ r = 1 <=> Neighbours(e.p)[4] \in pass
            /\ Len(NeighboursIn(e.p, pass)) = u + dn + l + r
            /\ r = 1 => Last(NeighboursIn(e.p, pass)) = Neighbours(e.p)[4]
            /\ r = 0 /\ l = 1 => Last(NeighboursIn(e.p, pass)) = Neighbours(e.p)[3]
    BY <1>6, NeighboursInCount
  <2>2. PICK c2 \in Nat : c2 = Cardinality(Spent') /\ c + u + dn <= c2 /\ c <= c2
    <3>1. Cardinality(Spent') \in Nat /\ Cardinality(Spent) + u + dn <= Cardinality(Spent')
      BY <1>1, <1>2, <1>3, <1>5, <1>10, <2>1, SpentMore
    <3>2. \A a, b \in Nat : a + u + dn <= b => a <= b  OBVIOUS
    <3>. QED  BY <1>a, <3>1, <3>2
  <2>3. CASE next = <<>>
    <3>1. Len(stack') = Len(stack) - 1
      <4>1. top = <<>>  BY <2>3
      <4>. HIDE DEF top, Entry
      <4>. QED  BY <1>2, <1>4, <1>10, <4>1
    <3>2. Len(stack') <= c2 + 1  BY <1>a, <1>b, <2>2, <3>1
    <3>. QED  BY <2>2, <3>2 DEF StackOK
  <2>4. CASE next # <<>>
    <3>1. next = NeighboursIn(e.p, pass)  BY <2>4
    <3>2. next \in Seq(pass)  BY <1>6, <3>1, NeighboursInFacts
    <3>3. PICK m \in Nat : m = Len(next) /\ m > 0 /\ m = u + dn + l + r  BY <2>1, <2>4, <3>1, <3>2
    <3>4. /\ top \in Seq([p : pass, d : {d}]) /\ Len(top) = m /\ top[m].p = Last(next)
      <4>1. \A k \in 1 .. m : next[k] \in pass  BY <3>2, <3>3
      <4>. HIDE DEF next, d
      <4>2. top \in Seq([p : pass, d : {d}]) /\ Len(top) = m  BY <3>3, <4>1
      <4>3. top[m] = [p |-> next[m], d |-> d]  BY <3>3
      <4>. QED  BY <3>3, <4>2, <4>3 DEF Last
    <3>. HIDE DEF next, top, d
    <3>5. stack' = F \o top  BY <1>2, <1>10
    <3>6. Len(stack') = Len(stack) - 1 + m /\ stack' # <<>> /\ Last(stack') = top[m]
      <4>1. F \in Seq(Entry) /\ top \in Seq([p : pass, d : {d}])  BY <1>4, <3>4
      <4>. HIDE DEF Entry
      <4>2. Len(F \o top) = Len(F) + Len(top)
            /\ (F \o top)[Len(F) + Len(top)] = top[Len(top)]
        BY <3>3, <3>4, <4>1
      <4>3. Len(F) \in Nat  BY <4>1
      <4>. QED  BY <1>4, <3>3, <3>4, <3>5, <4>2, <4>3 DEF Last
    <3>7. CASE l = 0 /\ r = 0
      <4>1. m = u + dn  BY <3>3, <3>7
      <4>2. n - 1 + m <= c2 + 1  BY <1>b, <2>2, <4>1
      <4>. QED  BY <1>a, <2>2, <3>6, <4>2 DEF StackOK
    <3>8. CASE l = 1 \/ r = 1
      <4>1. n - 1 + m <= c2 + 2
        <5>1. CASE l = 1 /\ r = 1
          <6>1. \A i \in 3 .. 4 : i = 3 \/ i = 4  OBVIOUS
          <6>2. n <= c + 1  BY <1>8, <2>1, <5>1, <6>1
          <6>3. m = u + dn + 2  BY <3>3, <5>1
          <6>. QED  BY <2>2, <6>2, <6>3
        <5>2. CASE l + r = 1
          <6>1. m = u + dn + 1  BY <3>3, <5>2
          <6>. QED  BY <1>b, <2>2, <6>1
        <5>. QED  BY <3>8, <5>1, <5>2
      <4>2. \E i \in 3 .. 4 : Neighbours(Last(stack').p)[i] \in Coarse \ pass'
        <5>1. Neighbours(Neighbours(e.p)[3])[4] = e.p /\ Neighbours(Neighbours(e.p)[4])[3] = e.p
          BY <1>6, UpDown
        <5>2. e.p \in Coarse \ pass'  BY <1>2, <1>6, <1>10
        <5>3. Last(stack').p = Last(next)  BY <3>4, <3>6
        <5>4. CASE r = 1
          <6>1. Last(next) = Neighbours(e.p)[4]  BY <2>1, <3>1, <5>4
          <6>. QED  BY <5>1, <5>2, <5>3, <6>1
        <5>5. CASE r = 0
          <6>1. l = 1  BY <3>8, <5>5
          <6>2. Last(next) = Neighbours(e.p)[3]  BY <2>1, <3>1, <5>5, <6>1
          <6>. QED  BY <5>1, <5>2, <5>3, <6>2
        <5>. QED  BY <2>1, <5>4, <5>5
      <4>3. n - 1 + m <= c2 + 1 \/ n - 1 + m = c2 + 2  BY <4>1
      <4>. QED  BY <1>a, <2>2, <3>6, <4>2, <4>3 DEF StackOK
    <3>. QED  BY <2>1, <3>7, <3>8
  <2>. QED  BY <2>3, <2>4
<1>. QED  BY <1>9, <1>10

\* Every step keeps the stack within its bound.
LEMMA NextStack == IInv /\ StackOK /\ [Next]_vars => StackOK'
<1>. SUFFICES ASSUME IInv, StackOK, [Next]_vars PROVE StackOK'  OBVIOUS
<1>1. CASE StartCenter
  <2>1. stack' = <<[p |-> First(Starts), d |-> 0]>> /\ UNCHANGED <<cand, pass>>
    BY <1>1 DEF StartCenter
  <2>2. Cardinality(Spent) \in Nat  BY SpentFacts DEF IInv, TypeOK
  <2>3. Len(stack') = 1 /\ Spent' = Spent  BY <2>1 DEF Spent
  <2>. QED  BY <2>2, <2>3 DEF StackOK
<1>2. CASE FillGen  BY <1>2, FillGenStack
<1>3. CASE Done \/ UNCHANGED vars
  <2>1. UNCHANGED <<pc, pass, stack>>  BY <1>3 DEF Done, vars
  <2>. QED  BY <2>1 DEF StackOK, Spent
<1>4. ASSUME pc' # "fillGen" PROVE StackOK'  BY <1>4 DEF StackOK
<1>5. CASE MonteCarlo \/ NoCenter  BY <1>4, <1>5 DEF MonteCarlo, NoCenter, Return
<1>6. CASE EndFillGen  BY <1>4, <1>6 DEF EndFillGen
<1>7. CASE StartFill \/ FillOne \/ EndFill
  BY <1>4, <1>7 DEF StartFill, FillOne, EndFill, Filling
<1>8. CASE EndFind \/ EndMeasure \/ Origin \/ EndOrigin
  BY <1>4, <1>8 DEF EndFind, EndMeasure, Origin, EndOrigin, Measure, Return, ReturnMeasured
<1>. QED  BY <1>1, <1>2, <1>3, <1>5, <1>6, <1>7, <1>8 DEF Next

(***************************************************************************)
(* The theorems                                                            *)
(***************************************************************************)

\* IInv is an invariant: in every state of every candidate, the variables have
\* their types, what a fill has reached is part of one island of its grid, what
\* earlier fills have removed is whole islands, and the best of them is kept.
THEOREM Invariance == Spec => []IInv
<1>. QED  BY InitIInv, NextIInv, PTL DEF Spec

\* The coarse test overlooks no island of hits that holds a point of its
\* lattice: a fill marks a hit only together with all its neighbours
\* (cubiomes.c:189-224, 360-379).
THEOREM CentersCorrect == Spec => []CentersComplete
<1>1. IInv => CentersComplete
  <2>. SUFFICES ASSUME IInv, pc = "centers", Starts = {},
                       NEW I \in Islands(cand.hits), Cardinality(I) >= CoarseMin,
                       NEW c \in I \cap cand.corners, c[1] % Step = 0, c[2] % Step = 0
                PROVE  FALSE
    BY DEF CentersComplete
  <2>1. TypeOK /\ StageOK /\ CentersOK  BY DEF IInv
  <2>2. taken = {}  BY <2>1 DEF StageOK, Filling
  <2>. DEFINE seen == Coarse \ pass
              Adj(a, b) == \E k \in 1 .. 4 : Neighbours(a)[k] = b
  <2>3. /\ \A p \in seen \cap cand.hits, q \in pass : ~Adj(p, q)
        /\ \A J \in Islands(cand.hits) : J \subseteq seen => Cardinality(J) < CoarseMin
    BY <2>1, <2>2 DEF CentersOK
  <2>4. /\ cand.hits \subseteq Coarse /\ IsFiniteSet(cand.hits) /\ CoarseMin \in Nat
        /\ IsIsland(I, cand.hits)
    BY <2>1, CoarseFacts DEF TypeOK
  <2>5. I \subseteq cand.hits /\ I \subseteq Coarse  BY <2>4 DEF IsIsland
  <2>6. c \in seen  BY <2>5 DEF Starts
  <2>7. ClosedIn(I \cap seen, I)  BY <2>3, <2>5 DEF ClosedIn
  <2>8. I \cap seen \in SUBSET I /\ I \cap seen # {}  BY <2>6
  <2>9. I \cap seen = I  BY <2>4, <2>7, <2>8 DEF IsIsland
  <2>10. Cardinality(I) < CoarseMin  BY <2>3, <2>9
  <2>11. Cardinality(I) \in Nat  BY <2>4, <2>5, FS_Subset, FS_CardinalityType
  <2>. QED  BY <2>4, <2>10, <2>11
<1>. QED  BY <1>1, Invariance, PTL

\* measure_1to1 flags a block of its window exactly if the game has mushroom
\* fields there, wherever the window lies (cpu.cpp:21-23, 55-111).
THEOREM WindowCorrect == Spec => []WindowExact
<1>1. IInv => WindowExact
  <2>. SUFFICES ASSUME IInv, pc \in {"measure", "fromCenter"}, best.n = 0, count = 0
                PROVE  pass \cup ToSet(stack) = {b \in window : IsMushroom(b)}
    BY DEF WindowExact
  <2>1. TypeOK /\ StageOK /\ FillOK /\ BestOK  BY DEF IInv
  <2>2. pc \in Filling /\ pc # "find"  BY DEF Filling
  <2>3. /\ IsFiniteSet(Ground) /\ \A I \in Islands(Ground) : I \in SUBSET Ground /\ I # {}
    BY <2>1, <2>2, GridFacts DEF IsIsland
  <2>4. \A I \in Islands(Ground) : Cardinality(I) # 0  BY <2>3, FS_Subset, FS_EmptySet
  <2>5. \A I \in Islands(Ground) : ~Describes(best, I)  BY <2>4 DEF Describes
  <2>6. Old = {}  BY <2>1, <2>5 DEF BestOK
  <2>7. pass \cup Reached = Ground  BY <2>1, <2>2, <2>6 DEF FillOK, Old
  <2>8. taken = {}
    <3>1. taken \in SUBSET Ground  BY <2>7 DEF Reached
    <3>2. Cardinality(taken) = 0  BY <2>1, <2>2 DEF FillOK
    <3>. QED  BY <2>3, <3>1, <3>2, FS_Subset, FS_EmptySet
  <2>. QED  BY <2>2, <2>7, <2>8 DEF Reached, Ground
<1>. QED  BY <1>1, Invariance, PTL

\* A measurement yields the largest island of its window, or with --origin the
\* one at the centre (cpu.cpp:121-190).
THEOREM LargestCorrect == Spec => []LargestMeasured
<1>1. IInv => LargestMeasured
  <2>. DEFINE islands == {I \in Islands({b \in window : IsMushroom(b)}) : pc = "fromCenter" => center \in I}
  <2>. SUFFICES ASSUME IInv, pc \in {"measure", "fromCenter"}, Filled
                PROVE  \/ islands = {} /\ best.n = 0
                       \/ \E I \in islands :
                             /\ \A J \in islands : Cardinality(J) <= Cardinality(I)
                             /\ best.n = Cardinality(I)
                             /\ best.edge = Touches(I)
                             /\ InBox(best.at, I)
    BY DEF LargestMeasured
  <2>1. TypeOK /\ StageOK /\ FillOK /\ BestOK  BY DEF IInv
  <2>2. pc \in Filling /\ pc # "find"  BY DEF Filling
  <2>3. Ground = {b \in window : IsMushroom(b)}  BY <2>2 DEF Ground
  <2>4. Reached = {} /\ Old = Ground  BY <2>1, FilledFacts
  <2>5. /\ IsFiniteSet(Ground)
        /\ \A I : I \in Islands(Ground) <=> IsIsland(I, Ground)
    BY <2>1, <2>2, GridFacts
  <2>6. \A I \in Islands(Ground) : I \subseteq Ground /\ I # {} /\ Cardinality(I) \in Nat
    <3>1. \A I \in Islands(Ground) : I \in SUBSET Ground /\ I # {}  BY <2>5 DEF IsIsland
    <3>. QED  BY <2>5, <3>1, FS_Subset, FS_CardinalityType
  <2>7. CASE pc = "fromCenter"
    <3>1. PICK I \in Islands(Ground) : center \in I /\ Describes(best, I)
      BY <2>1, <2>4, <2>7 DEF BestOK
    <3>2. \A J \in islands : J = I  BY <2>3, <2>5, <2>7, <3>1, IslandsMeet
    <3>3. I \in islands  BY <2>3, <3>1
    <3>4. Cardinality(I) <= Cardinality(I)  BY <2>6, <3>1
    <3>. QED  BY <3>1, <3>2, <3>3, <3>4 DEF Describes
  <2>8. CASE pc # "fromCenter"
    <3>1. islands = Islands(Ground)  BY <2>3, <2>8
    <3>2. pc = "measure"  BY <2>8
    <3>3. CASE Old = {} /\ best.n = 0
      <4>1. Islands(Ground) = {}  BY <2>4, <2>6, <3>3
      <4>. QED  BY <3>1, <3>3, <4>1
    <3>4. CASE ~(Old = {} /\ best.n = 0)
      <4>1. PICK I \in Islands(Ground) :
              /\ Describes(best, I)
              /\ \A J \in Islands(Ground) : J \subseteq Old => Cardinality(J) <= Cardinality(I)
        BY <2>1, <3>2, <3>4 DEF BestOK
      <4>2. \A J \in Islands(Ground) : Cardinality(J) <= Cardinality(I)  BY <2>4, <2>6, <4>1
      <4>. HIDE DEF islands
      <4>. QED  BY <3>1, <4>1, <4>2 DEF Describes
    <3>. QED  BY <3>3, <3>4
  <2>. QED  BY <2>7, <2>8
<1>. QED  BY <1>1, Invariance, PTL

\* What is reported is an island of the world, or the part of one that the
\* window shows (cpu.cpp:299-333, 373-375).
THEOREM ReportCorrect == Spec => []ReportedIsIsland
<1>1. IInv => ReportedIsIsland  BY DEF IInv
<1>. QED  BY <1>1, Invariance, PTL

\* With --origin the whole island at the origin is measured unless it reaches
\* beyond the largest window (cpu.cpp:354-377).
THEOREM OriginCorrect == Spec => []OriginExact
<1>1. IInv => OriginExact  BY DEF IInv
<1>. QED  BY <1>1, Invariance, PTL

\* The second invariant holds of every run.
THEOREM StackInvariance == Spec => []StackOK
<1>1. Init => StackOK  BY DEF Init, StackOK
<1>2. IInv /\ StackOK /\ [Next]_vars => StackOK'  BY NextStack
<1>. QED  BY <1>1, <1>2, Invariance, PTL DEF Spec

\* On any grid of samples, one entry per sample is room enough for the stack of
\* floodFillGen, although a sample can be on it once for each neighbour
\* (cubiomes.c:174, 223).
THEOREM StackCorrect == Spec => []StackFits
<1>1. IInv /\ StackOK => StackFits  BY StackRoom DEF IInv
<1>. QED  BY <1>1, Invariance, StackInvariance, PTL
=============================================================================
