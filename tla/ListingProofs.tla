--------------------------- MODULE ListingProofs ----------------------------
(***************************************************************************)
(* Proof that the detail of a layer lists what its function or its table   *)
(* was declared with, in that order: the defaults survive being printed as *)
(* one text, replaced in, split and parsed, and the maps of arguments and  *)
(* of columns come out in order.                                           *)
(***************************************************************************)
EXTENDS LinkProofs

(* The operators of the three instances are the same.                      *)
LEMMA SameSorted ==
    ASSUME NEW S PROVE Function!Sorted(S) = Table!Sorted(S)
BY Zenon DEF Function!Sorted, Table!Sorted, Function!Cardinality, Table!Cardinality

(* Functions split and join the way links do.                              *)
LEMMA SameSplitJoin ==
    ASSUME NEW s, NEW sep
    PROVE  Function!Split(s, sep) = Url!Split(s, sep) /\ Function!Join(s, sep) = Url!Join(s, sep)
BY Zenon DEF Function!Split, Url!Split, Function!Join, Url!Join, Function!Cut, Url!Cut

-----------------------------------------------------------------------------
(* Sorting.                                                                *)

(* Elements with growing orders.                                           *)
Grow(g, n) ==
    /\ \A i \in 1..n : g[i].order \in Int
    /\ \A i, j \in 1..n : i < j => g[i].order < g[j].order

(* They are as many as their places.                                       *)
LEMMA GrowCount ==
    ASSUME NEW n \in Nat, NEW g, Grow(g, n), NEW m \in 0..n
    PROVE  Cardinality({g[i] : i \in 1..m}) = m
<1> DEFINE S == {g[i] : i \in 1..m}
           f == [i \in 1..m |-> g[i]]
<1>1. m \in Nat /\ IsFiniteSet(1..m) /\ Cardinality(1..m) = m
  BY FS_Interval
<1>2. \A i, j \in 1..m : g[i] = g[j] => i = j
  <2> SUFFICES ASSUME NEW i \in 1..m, NEW j \in 1..m, g[i] = g[j], i # j PROVE FALSE
    OBVIOUS
  <2>1. i \in 1..n /\ j \in 1..n /\ (i < j \/ j < i)
    OBVIOUS
  <2> QED BY <2>1 DEF Grow
<1>3. f \in Bijection(1..m, S)
  <2>1. f \in Injection(1..m, S)
    BY <1>2 DEF Injection, IsInjective
  <2>2. f \in Surjection(1..m, S)
    BY DEF Surjection
  <2> HIDE DEF f, S
  <2> QED BY <2>1, <2>2 DEF Bijection
<1>4. ExistsBijection(1..m, S)
  BY <1>3 DEF ExistsBijection
<1> HIDE DEF S
<1>5. Cardinality(S) = m
  BY <1>1, <1>4, FS_Bijection
<1> QED BY <1>5 DEF S

(* Sorted, each is at its place.                                           *)
LEMMA SortedGrow ==
    ASSUME NEW n \in Nat, NEW g, Grow(g, n)
    PROVE  Table!Sorted({g[i] : i \in 1..n}) = [i \in 1..n |-> g[i]]
<1> DEFINE S == {g[i] : i \in 1..n}
           Before(e) == {d \in S : d.order < e.order}
<1>1. Cardinality(S) = n
  BY GrowCount
<1>2. ASSUME NEW k \in 1..n PROVE Cardinality(Before(g[k])) = k - 1
  <2>1. Before(g[k]) = {g[i] : i \in 1..(k - 1)}
    <3>1. ASSUME NEW i \in 1..n PROVE g[i].order < g[k].order <=> i \in 1..(k - 1)
      <4>1. CASE i < k
        BY <4>1 DEF Grow
      <4>2. CASE k < i
        <5>1. g[k].order < g[i].order /\ g[k].order \in Int /\ g[i].order \in Int
          BY <4>2 DEF Grow
        <5> QED BY <4>2, <5>1
      <4>3. CASE i = k
        <5>1. g[k].order \in Int
          BY DEF Grow
        <5> QED BY <4>3, <5>1
      <4> QED BY <4>1, <4>2, <4>3
    <3> QED BY <3>1
  <2>2. k - 1 \in 0..n
    OBVIOUS
  <2> QED BY <2>1, <2>2, GrowCount
<1>3. ASSUME NEW k \in 1..n
      PROVE  (CHOOSE e \in S : Cardinality(Before(e)) = k - 1) = g[k]
  <2>1. g[k] \in S /\ Cardinality(Before(g[k])) = k - 1
    BY <1>2
  <2>2. ASSUME NEW e \in S, Cardinality(Before(e)) = k - 1 PROVE e = g[k]
    <3>1. PICK j \in 1..n : e = g[j]
      OBVIOUS
    <3>2. Cardinality(Before(e)) = j - 1
      BY <1>2, <3>1
    <3>3. j = k
      BY <2>2, <3>2
    <3> QED BY <3>1, <3>3
  <2> HIDE DEF S, Before
  <2> QED BY <2>1, <2>2
<1>4. Table!Sorted(S) = [i \in 1..n |-> CHOOSE e \in S : Cardinality(Before(e)) = i - 1]
  <2>1. Table!Sorted(S) = [i \in 1..Cardinality(S) |-> CHOOSE e \in S : Cardinality(Before(e)) = i - 1]
    BY Zenon DEF Table!Sorted, Table!Cardinality, Cardinality
  <2> HIDE DEF S
  <2> QED BY <1>1, <2>1
<1> HIDE DEF S, Before
<1>5. Table!Sorted(S) = [i \in 1..n |-> g[i]]
  BY <1>3, <1>4
<1> QED BY <1>5 DEF S

-----------------------------------------------------------------------------
(* The elements of a sequence that are in a set, by their places.          *)

(* The places among the first n, in order.                                 *)
PlacesOf(place, m, s, S, n) ==
    /\ m \in Nat /\ place \in [1..m -> 1..n]
    /\ \A i, j \in 1..m : i < j => place[i] < place[j]
    /\ \A i \in 1..m : s[place[i]] \in S
    /\ \A k \in 1..n : s[k] \in S => \E i \in 1..m : place[i] = k

Picks(t, place, m, s) == DOMAIN t = 1..m /\ \A i \in 1..m : t[i] = s[place[i]]

(* One more of them is in the set, and is picked.                          *)
LEMMA OnePlaceMore ==
    ASSUME NEW A, NEW s, NEW S, NEW n \in Nat, NEW m, NEW place, PlacesOf(place, m, s, S, n),
           NEW t \in Seq(A), Picks(t, place, m, s), s[n + 1] \in A, s[n + 1] \in S
    PROVE  \E place2 : /\ PlacesOf(place2, m + 1, s, S, n + 1)
                       /\ Picks(Append(t, s[n + 1]), place2, m + 1, s)
<1> DEFINE place2 == [i \in 1..(m + 1) |-> IF i = m + 1 THEN n + 1 ELSE place[i]]
<1>1. /\ m \in Nat /\ place \in [1..m -> 1..n]
      /\ \A i, j \in 1..m : i < j => place[i] < place[j]
      /\ \A i \in 1..m : s[place[i]] \in S
      /\ \A k \in 1..n : s[k] \in S => \E i \in 1..m : place[i] = k
  BY DEF PlacesOf
<1>2. \A i \in 1..m : place2[i] = place[i] /\ place[i] \in 1..n
  BY <1>1
<1>3. place2[m + 1] = n + 1 /\ \A i \in 1..(m + 1) : i \in 1..m \/ i = m + 1
  BY <1>1
<1>4. place2 \in [1..(m + 1) -> 1..(n + 1)]
  BY <1>1
<1> HIDE DEF place2
<1>5. ASSUME NEW i \in 1..(m + 1), NEW j \in 1..(m + 1), i < j PROVE place2[i] < place2[j]
  <2>1. i \in 1..m
    BY <1>1, <1>5
  <2>2. CASE j \in 1..m
    BY <1>1, <1>2, <1>5, <2>1, <2>2
  <2>3. CASE j = m + 1
    BY <1>2, <1>3, <2>1, <2>3
  <2> QED BY <1>3, <2>2, <2>3
<1>6. \A i \in 1..(m + 1) : s[place2[i]] \in S
  BY <1>1, <1>2, <1>3
<1>7. ASSUME NEW k \in 1..(n + 1), s[k] \in S PROVE \E i \in 1..(m + 1) : place2[i] = k
  <2>1. CASE k = n + 1
    BY <1>1, <1>3, <2>1
  <2>2. CASE k # n + 1
    <3>1. k \in 1..n
      BY <2>2
    <3>2. PICK i \in 1..m : place[i] = k
      BY <1>1, <1>7, <3>1
    <3> QED BY <1>1, <1>2, <3>2
  <2> QED BY <2>1, <2>2
<1>8. m + 1 \in Nat
  BY <1>1
<1>9. PlacesOf(place2, m + 1, s, S, n + 1)
  BY <1>4, <1>5, <1>6, <1>7, <1>8 DEF PlacesOf
<1>10. Picks(Append(t, s[n + 1]), place2, m + 1, s)
  <2> DEFINE p == s[n + 1]
  <2>1. DOMAIN t = 1..m /\ \A i \in 1..m : t[i] = s[place[i]]
    BY DEF Picks
  <2>2. p \in A /\ p = s[n + 1]
    OBVIOUS
  <2> HIDE DEF p
  <2>3. Len(t) = m
    BY <1>1, <2>1
  <2>4. /\ DOMAIN Append(t, p) = 1..(m + 1) /\ Append(t, p)[m + 1] = p
        /\ \A i \in 1..m : Append(t, p)[i] = t[i]
    BY <1>1, <2>2, <2>3
  <2>5. \A i \in 1..(m + 1) : Append(t, p)[i] = s[place2[i]]
    BY <1>2, <1>3, <2>1, <2>2, <2>4
  <2> QED BY <2>2, <2>4, <2>5 DEF Picks
<1> QED BY <1>9, <1>10

(* Only picks them all.                                                    *)
LEMMA OnlyPicks ==
    ASSUME NEW A, NEW s \in Seq(A), NEW S
    PROVE  /\ Table!Only(s, S) \in Seq(A)
           /\ \E m, place : PlacesOf(place, m, s, S, Len(s)) /\ Picks(Table!Only(s, S), place, m, s)
<1>1. Len(s) \in Nat /\ \A i \in 1..Len(s) : s[i] \in A
  OBVIOUS
<1>2. PICK F : Builds(F, s, S, Len(s)) /\ Table!Only(s, S) = F[Len(s)]
  BY <1>1, OnlyBuilds
<1> DEFINE P(n) == F[n] \in Seq(A) /\ \E m, place : PlacesOf(place, m, s, S, n) /\ Picks(F[n], place, m, s)
           T == {n \in Nat : n <= Len(s) => P(n)}
<1>3. 0 \in T
  <2>1. F[0] = <<>>
    BY <1>1, <1>2 DEF Builds
  <2> DEFINE none == [i \in 1..0 |-> 1]
  <2>2. PlacesOf(none, 0, s, S, 0)
    BY DEF PlacesOf
  <2>3. Picks(<<>>, none, 0, s) /\ <<>> \in Seq(A)
    BY DEF Picks
  <2>4. P(0)
    BY <2>1, <2>2, <2>3
  <2> HIDE DEF P
  <2> QED BY <2>4
<1>4. ASSUME NEW n \in T PROVE n + 1 \in T
  <2> SUFFICES ASSUME n + 1 <= Len(s) PROVE P(n + 1)
    OBVIOUS
  <2>1. P(n) /\ n \in Nat /\ n + 1 \in 1..Len(s) /\ s[n + 1] \in A
    BY <1>1
  <2>2. F[n + 1] = IF s[n + 1] \in S THEN Append(F[n], s[n + 1]) ELSE F[n]
    <3>1. (n + 1) - 1 = n /\ n + 1 # 0 /\ n + 1 \in 0..Len(s)
      BY <1>1, <2>1
    <3> QED BY <1>2, <3>1 DEF Builds
  <2>3. PICK m, place : PlacesOf(place, m, s, S, n) /\ Picks(F[n], place, m, s)
    BY <2>1
  <2>4. CASE s[n + 1] \in S
    <3>1. \E place2 : PlacesOf(place2, m + 1, s, S, n + 1) /\ Picks(Append(F[n], s[n + 1]), place2, m + 1, s)
      BY <2>1, <2>3, <2>4, OnePlaceMore
    <3>2. F[n + 1] = Append(F[n], s[n + 1])
      BY <2>2, <2>4
    <3>3. F[n + 1] \in Seq(A)
      BY <2>1, <3>2
    <3> QED BY <3>1, <3>2, <3>3
  <2>5. CASE s[n + 1] \notin S
    <3>1. F[n + 1] = F[n]
      BY <2>2, <2>5
    <3>2. PlacesOf(place, m, s, S, n + 1)
      <4>1. 1..n \subseteq 1..(n + 1) /\ \A k \in 1..(n + 1) : k \in 1..n \/ k = n + 1
        BY <2>1
      <4> QED BY <2>3, <2>5, <4>1 DEF PlacesOf
    <3> QED BY <2>1, <2>3, <3>1, <3>2
  <2> QED BY <2>4, <2>5
<1>5. T = Nat
  <2> HIDE DEF T
  <2>1. T \subseteq Nat
    BY DEF T
  <2> QED BY <1>3, <1>4, <2>1, EveryNumber
<1>6. P(Len(s))
  BY <1>1, <1>5
<1> QED BY <1>2, <1>6

(* All after the first d, in order.                                        *)
LastOf(t, s, d, A) ==
    /\ t \in Seq(A) /\ Len(t) = Len(s) - d
    /\ \A i \in 1..(Len(s) - d) : t[i] = s[d + i]

(* When all after d are in the set, and no others, those are what is left. *)
LEMMA OnlyLast ==
    ASSUME NEW A, NEW s \in Seq(A), NEW S, NEW d \in 0..Len(s),
           \A k \in 1..Len(s) : s[k] \in S <=> k > d
    PROVE  LastOf(Table!Only(s, S), s, d, A)
<1> DEFINE t == Table!Only(s, S)
<1>1. PICK m, place : PlacesOf(place, m, s, S, Len(s)) /\ Picks(t, place, m, s)
  BY OnlyPicks
<1>2. t \in Seq(A)
  BY OnlyPicks
<1> HIDE DEF t
<1>3. /\ m \in Nat /\ place \in [1..m -> 1..Len(s)]
      /\ \A i, j \in 1..m : i < j => place[i] < place[j]
      /\ \A i \in 1..m : s[place[i]] \in S
      /\ \A k \in 1..Len(s) : s[k] \in S => \E i \in 1..m : place[i] = k
  BY <1>1 DEF PlacesOf
<1>4. Len(s) \in Nat /\ d \in Nat
  OBVIOUS
<1>5. ASSUME NEW i \in 1..m PROVE place[i] > d /\ place[i] \in Nat /\ place[i] <= Len(s)
  <2>1. place[i] \in 1..Len(s) /\ s[place[i]] \in S
    BY <1>3
  <2> QED BY <1>4, <2>1
<1>6. \A k \in 1..Len(s) : k > d => \E i \in 1..m : place[i] = k
  BY <1>3
<1> DEFINE T == {n \in Nat : n + 1 <= m => place[n + 1] = d + (n + 1)}
<1>7. 0 \in T
  <2> SUFFICES ASSUME 1 <= m PROVE place[1] = d + 1
    OBVIOUS
  <2>1. 1 \in 1..m /\ d + 1 \in 1..Len(s) /\ d + 1 > d
    BY <1>3, <1>4, <1>5
  <2>2. PICK j \in 1..m : place[j] = d + 1
    BY <1>6, <2>1
  <2>3. j = 1 \/ place[1] < place[j]
    BY <1>3, <2>1
  <2> QED BY <1>4, <1>5, <2>1, <2>2, <2>3
<1>8. ASSUME NEW n \in T PROVE n + 1 \in T
  <2> DEFINE k == n + 1
  <2>1. k \in Nat /\ k >= 1
    OBVIOUS
  <2> SUFFICES ASSUME k + 1 <= m PROVE place[k + 1] = d + (k + 1)
    OBVIOUS
  <2>2. place[k] = d + k
    BY <1>3
  <2> HIDE DEF k
  <2>3. k \in 1..m /\ k + 1 \in 1..m
    BY <1>3, <2>1
  <2>4. place[k + 1] > d + k
    BY <1>3, <2>1, <2>2, <2>3
  <2>5. d + (k + 1) \in 1..Len(s) /\ d + (k + 1) > d
    BY <1>4, <1>5, <2>1, <2>3, <2>4
  <2>6. PICK j \in 1..m : place[j] = d + (k + 1)
    BY <1>6, <2>5
  <2>7. j > k
    <3>1. j = k \/ j < k \/ j > k
      BY <1>3, <2>1
    <3>2. ~(j < k)
      BY <1>3, <1>4, <2>1, <2>2, <2>3, <2>6
    <3>3. j # k
      BY <1>4, <2>1, <2>2, <2>6
    <3> QED BY <3>1, <3>2, <3>3
  <2>8. j = k + 1 \/ place[k + 1] < place[j]
    BY <1>3, <2>1, <2>3, <2>7
  <2> QED BY <1>4, <1>5, <2>1, <2>3, <2>4, <2>6, <2>8
<1>9. T = Nat
  <2> HIDE DEF T
  <2>1. T \subseteq Nat
    BY DEF T
  <2> QED BY <1>7, <1>8, <2>1, EveryNumber
<1>10. ASSUME NEW i \in 1..m PROVE place[i] = d + i
  <2> DEFINE n == i - 1
  <2>1. n \in Nat /\ n + 1 = i /\ n + 1 <= m
    BY <1>3
  <2>2. n \in T
    BY <1>9, <2>1
  <2> HIDE DEF n
  <2> QED BY <2>1, <2>2
<1>11. m = Len(s) - d
  <2>1. m = 0 \/ (m \in 1..m /\ d + m <= Len(s))
    BY <1>3, <1>5, <1>10
  <2>2. CASE Len(s) > d
    <3>1. Len(s) \in 1..Len(s)
      BY <1>4, <2>2
    <3>2. PICK j \in 1..m : place[j] = Len(s)
      BY <1>6, <2>2, <3>1
    <3> QED BY <1>3, <1>4, <1>10, <2>1, <3>2
  <2>3. CASE Len(s) = d
    BY <1>3, <1>4, <2>1, <2>3
  <2> QED BY <1>4, <2>2, <2>3
<1>12. DOMAIN t = 1..m /\ \A i \in 1..m : t[i] = s[place[i]]
  BY <1>1 DEF Picks
<1>13. Len(t) = m
  BY <1>2, <1>3, <1>12
<1> QED BY <1>2, <1>10, <1>11, <1>12, <1>13 DEF t, LastOf

-----------------------------------------------------------------------------
(* Defaults.                                                               *)

Q == Function!Quote
C == Function!Cast
B == Function!Between

(* The signs are different ones.                                           *)
LEMMA SignsDiffer == Q # C /\ Q # B /\ C # B
BY Zenon DEF Q, C, B, Function!Quote, Function!Cast, Function!Between

(* A sequence that is one after the other.                                 *)
Together(c, a, b, A) ==
    /\ c \in Seq(A) /\ Len(c) = Len(a) + Len(b)
    /\ \A i \in 1..Len(a) : c[i] = a[i]
    /\ \A i \in 1..Len(b) : c[Len(a) + i] = b[i]

(* That is what putting two sequences together gives.                      *)
LEMMA OneAfterTheOther ==
    ASSUME NEW A, NEW a \in Seq(A), NEW b \in Seq(A)
    PROVE  Together(a \o b, a, b, A)
<1> DEFINE c == a \o b
<1>1. Len(a) \in Nat /\ Len(b) \in Nat
  OBVIOUS
<1>2. /\ c \in Seq(A) /\ Len(c) = Len(a) + Len(b)
      /\ \A i \in 1..(Len(a) + Len(b)) : c[i] = IF i <= Len(a) THEN a[i] ELSE b[i - Len(a)]
  BY ConcatProperties
<1> HIDE DEF c
<1>3. \A i \in 1..Len(a) : c[i] = a[i]
  BY <1>1, <1>2
<1>4. ASSUME NEW i \in 1..Len(b) PROVE c[Len(a) + i] = b[i]
  <2> DEFINE k == Len(a) + i
  <2>1. k \in 1..(Len(a) + Len(b)) /\ ~(k <= Len(a)) /\ k - Len(a) = i
    BY <1>1
  <2> HIDE DEF k
  <2>2. c[k] = b[i]
    BY <1>2, <2>1
  <2> QED BY <2>2 DEF k
<1> QED BY <1>2, <1>3, <1>4 DEF c, Together

(* A value in quotes, with its cast.                                       *)
Quoted(value, type) == <<Q>> \o value \o <<Q, C, type>>

(* Its pieces, one by one.                                                 *)
LEMMA QuotedPieces ==
    ASSUME NEW A, Q \in A, C \in A, NEW value \in Seq(A), NEW type \in A
    PROVE  LET arg == Quoted(value, type)
               n == Len(value)
           IN  /\ n \in Nat /\ arg \in Seq(A) /\ Len(arg) = n + 4
               /\ arg[1] = Q /\ arg[n + 2] = Q /\ arg[n + 3] = C /\ arg[n + 4] = type
               /\ \A i \in 1..n : arg[i + 1] = value[i]
<1> DEFINE start == <<Q>>
           end == <<Q, C, type>>
           n == Len(value)
<1>1. n \in Nat /\ start \in Seq(A) /\ Len(start) = 1 /\ start[1] = Q
  OBVIOUS
<1>2. end \in Seq(A) /\ Len(end) = 3 /\ end[1] = Q /\ end[2] = C /\ end[3] = type
  OBVIOUS
<1> DEFINE text == start \o value
           arg == text \o end
<1> HIDE DEF start, end
<1>3. /\ text \in Seq(A) /\ Len(text) = n + 1 /\ text[1] = Q
      /\ \A i \in 1..n : text[i + 1] = value[i]
  <2>1. Together(text, start, value, A)
    BY Zenon, <1>1, OneAfterTheOther
  <2> HIDE DEF text
  <2> QED BY <1>1, <2>1 DEF Together
<1>4. Together(arg, text, end, A)
  <2> HIDE DEF text
  <2> QED BY Zenon, <1>2, <1>3, OneAfterTheOther
<1> HIDE DEF text, arg
<1>5. /\ arg \in Seq(A) /\ Len(arg) = n + 4
      /\ arg[1] = Q /\ arg[n + 2] = Q /\ arg[n + 3] = C /\ arg[n + 4] = type
      /\ \A i \in 1..n : arg[i + 1] = value[i]
  <2>1. arg[(n + 1) + 1] = end[1] /\ arg[(n + 1) + 2] = end[2] /\ arg[(n + 1) + 3] = end[3]
    <3>1. 1 \in 1..Len(end) /\ 2 \in 1..Len(end) /\ 3 \in 1..Len(end)
      BY <1>2
    <3> QED BY <1>3, <1>4, <3>1 DEF Together
  <2> QED BY <1>1, <1>2, <1>3, <1>4, <2>1 DEF Together
<1>6. arg = Quoted(value, type)
  BY DEF start, end, text, arg, Quoted
<1> QED BY <1>1, <1>5, <1>6

(* A text without a cast is what it is.                                    *)
LEMMA ParsePlain ==
    ASSUME NEW arg, \A i \in DOMAIN arg : arg[i] # C
    PROVE  Function!parseArgDefault(arg) = arg
<1>1. Function!Casts(arg) = {}
  BY DEF Function!Casts, C
<1> QED BY <1>1 DEF Function!parseArgDefault

(* One in quotes loses the cast and the quotes.                            *)
LEMMA ParseQuoted ==
    ASSUME NEW A, Q \in A, C \in A, NEW value \in Seq(A), NEW type \in A, type # C
    PROVE  Function!parseArgDefault(Quoted(value, type)) = value
<1> DEFINE arg == Quoted(value, type)
           n == Len(value)
           casts == Function!Casts(arg)
           rest == Function!Uncast(arg)
<1>1. /\ n \in Nat /\ arg \in Seq(A) /\ Len(arg) = n + 4
      /\ arg[1] = Q /\ arg[n + 2] = Q /\ arg[n + 3] = C /\ arg[n + 4] = type
      /\ \A i \in 1..n : arg[i + 1] = value[i]
  BY QuotedPieces
<1> HIDE DEF arg
<1>2. casts = {i \in 1..(n + 4) : arg[i] = C}
  BY <1>1 DEF Function!Casts, C
<1>3. n + 3 \in casts /\ \A i \in casts : i \in Nat /\ i <= n + 3
  BY <1>1, <1>2
<1>4. Function!Max(casts) = n + 3
  <2> HIDE DEF casts
  <2>1. \A x \in casts : (\A y \in casts : x >= y) <=> x = n + 3
    BY <1>1, <1>3
  <2> QED BY <1>3, <2>1 DEF Function!Max
<1>5. rest = SubSeq(arg, 1, n + 2)
  BY <1>1, <1>4 DEF Function!Uncast
<1> HIDE DEF casts, rest
<1>6. /\ rest \in Seq(A) /\ Len(rest) = n + 2 /\ \A i \in 1..(n + 2) : rest[i] = arg[i]
  BY <1>1, <1>5
<1>7. rest[1] = Q /\ rest[n + 2] = Q
  BY <1>1, <1>6
<1>8. Function!Last(rest) = Q
  BY <1>6, <1>7 DEF Function!Last
<1>9. SubSeq(rest, 2, Len(rest) - 1) = value
  <2> DEFINE v == SubSeq(rest, 2, n + 1)
  <2>1. v \in Seq(A) /\ Len(v) = n /\ \A i \in 1..n : v[i] = rest[i + 1]
    BY <1>1, <1>6
  <2>2. \A i \in 1..n : v[i] = value[i]
    BY <1>1, <1>6, <2>1
  <2> HIDE DEF v
  <2>3. v = value
    BY <2>1, <2>2
  <2> QED BY <1>1, <1>6, <2>3 DEF v
<1>10. casts # {}
  BY <1>3
<1> QED BY <1>7, <1>8, <1>9, <1>10 DEF Function!parseArgDefault, arg, casts, rest, Q

-----------------------------------------------------------------------------
(* Joining.                                                                *)

(* One part more is glued to the others.                                   *)
LEMMA JoinMore ==
    ASSUME NEW A, NEW sep \in A, NEW parts \in Seq(Seq(A)), NEW b \in Seq(A)
    PROVE  Url!Join(Append(parts, b), sep) = Glue(Url!Join(parts, sep), Len(parts) + 1, b, sep)
<1> DEFINE more == Append(parts, b)
<1>1. /\ more \in Seq(Seq(A)) /\ Len(parts) \in Nat /\ Len(more) = Len(parts) + 1
      /\ more[Len(parts) + 1] = b /\ \A i \in 1..Len(parts) : more[i] = parts[i]
  <2> DEFINE X == Seq(A)
  <2>1. parts \in Seq(X) /\ b \in X
    OBVIOUS
  <2> HIDE DEF X
  <2>2. /\ more \in Seq(X) /\ Len(parts) \in Nat /\ Len(more) = Len(parts) + 1
        /\ more[Len(parts) + 1] = b /\ \A i \in 1..Len(parts) : more[i] = parts[i]
    BY <2>1
  <2> QED BY <2>2 DEF X
<1>2. PICK F : JoinsBy(F, A, parts, sep)
  BY JoinBuilds
<1> HIDE DEF more
<1>3. more \in Seq(Seq(A))
  BY <1>1
<1>4. PICK G : JoinsBy(G, A, more, sep)
  BY <1>3, JoinBuilds
<1>5. /\ F[0] = <<>> /\ \A i \in 1..Len(parts) : F[i] = Glue(F[i - 1], i, parts[i], sep)
      /\ Url!Join(parts, sep) = F[Len(parts)]
  BY <1>2 DEF JoinsBy
<1>6. /\ G[0] = <<>> /\ \A i \in 1..Len(more) : G[i] = Glue(G[i - 1], i, more[i], sep)
      /\ Url!Join(more, sep) = G[Len(more)]
  BY <1>4 DEF JoinsBy
<1> DEFINE T == {n \in Nat : n <= Len(parts) => G[n] = F[n]}
<1>7. 0 \in T
  BY <1>5, <1>6
<1>8. ASSUME NEW n \in T PROVE n + 1 \in T
  <2> SUFFICES ASSUME n + 1 <= Len(parts) PROVE G[n + 1] = F[n + 1]
    OBVIOUS
  <2>1. n + 1 \in 1..Len(parts) /\ n + 1 \in 1..Len(more) /\ G[n] = F[n] /\ (n + 1) - 1 = n
    BY <1>1
  <2> QED BY <1>1, <1>5, <1>6, <2>1
<1>9. T = Nat
  <2> HIDE DEF T
  <2>1. T \subseteq Nat
    BY DEF T
  <2> QED BY <1>7, <1>8, <2>1, EveryNumber
<1>10. G[Len(parts)] = F[Len(parts)]
  <2>1. Len(parts) \in T /\ Len(parts) <= Len(parts)
    <3> HIDE DEF T
    <3> QED BY <1>1, <1>9
  <2> QED BY <2>1
<1>11. G[Len(parts) + 1] = Glue(G[Len(parts)], Len(parts) + 1, b, sep)
  <2>1. Len(parts) + 1 \in 1..Len(more) /\ (Len(parts) + 1) - 1 = Len(parts)
    BY <1>1
  <2> QED BY <1>1, <1>6, <2>1
<1> QED BY <1>1, <1>5, <1>6, <1>10, <1>11 DEF more

(* One part alone is the text.                                             *)
LEMMA JoinOne ==
    ASSUME NEW A, B \in A, NEW d \in Seq(A)
    PROVE  Url!Join(<<d>>, B) = d
<1> DEFINE X == Seq(A)
<1>1. <<>> \in Seq(Seq(A)) /\ Len(<<>>) = 0
  <2>1. <<>> \in Seq(X)
    <3> HIDE DEF X
    <3> QED OBVIOUS
  <2> QED BY <2>1
<1>2. Url!Join(Append(<<>>, d), B) = Glue(Url!Join(<<>>, B), 0 + 1, d, B)
  BY <1>1, JoinMore
<1>3. Url!Join(<<>>, B) = <<>>
  <2>1. PICK F : JoinsBy(F, A, <<>>, B)
    BY <1>1, JoinBuilds
  <2> QED BY <1>1, <2>1 DEF JoinsBy
<1>4. Glue(<<>>, 1, d, B) = d
  BY DEF Glue
<1>5. Append(<<>>, d) = <<d>> /\ 0 + 1 = 1
  OBVIOUS
<1> QED BY <1>2, <1>3, <1>4, <1>5

(* A part more comes after a separator.                                    *)
LEMMA JoinAppend ==
    ASSUME NEW A, B \in A, NEW parts \in Seq(Seq(A)), parts # <<>>, NEW d \in Seq(A)
    PROVE  Url!Join(Append(parts, d), B) = Url!Join(parts, B) \o <<B>> \o d
<1>1. Url!Join(Append(parts, d), B) = Glue(Url!Join(parts, B), Len(parts) + 1, d, B)
  BY JoinMore
<1>2. Len(parts) \in Nat \ {0}
  OBVIOUS
<1>3. Len(parts) + 1 # 1
  BY <1>2
<1> QED BY <1>1, <1>3 DEF Glue

(* The text has no other pieces than its parts and the separator.          *)
LEMMA JoinType ==
    ASSUME NEW A, B \in A, NEW parts \in Seq(Seq(A))
    PROVE  Url!Join(parts, B) \in Seq(A)
<1>1. PICK F : JoinsBy(F, A, parts, B)
  BY JoinBuilds
<1>2. Len(parts) \in 0..Len(parts)
  <2>1. Len(parts) \in Nat
    OBVIOUS
  <2> QED BY <2>1
<1> QED BY <1>1, <1>2 DEF JoinsBy

-----------------------------------------------------------------------------
(* Where the catalogue's query takes off quotes.                           *)

(* A word in quotes with a cast begins at i.                               *)
Match(t, i) ==
    /\ i \in 1..(Len(t) - 4)
    /\ t[i] = Q /\ t[i + 1] \in Words /\ t[i + 2] = Q /\ t[i + 3] = C

(* Such a default is nothing else.                                         *)
Shape(d, A) ==
    /\ d \in Seq(A) /\ d # <<>> /\ d[Len(d)] # C
    /\ \A i \in 1..Len(d) : d[i] # B
    /\ \A i : Match(d, i) => i = 1 /\ Len(d) = 5

(* Another one in its place.                                               *)
Replaced(D, k, e) == [D EXCEPT ![k] = e]

(* It is one of the defaults, and stands between a and b.                  *)
Held(i, D, A) ==
    \E k \in 1..Len(D), a \in Seq(A), b \in Seq(A) :
        /\ Len(a) = i - 1 /\ Len(D[k]) = 5 /\ Match(D[k], 1)
        /\ \A e \in Seq(A) : Url!Join(Replaced(D, k, e), B) = a \o e \o b

Apart(D, A) ==
    LET t == Url!Join(D, B)
    IN  /\ t \in Seq(A) /\ t # <<>> /\ t[Len(t)] # C
        /\ \A i : Match(t, i) => Held(i, D, A)

(* One default.                                                            *)
LEMMA OneApart ==
    ASSUME NEW A, B \in A, NEW d \in Seq(A), Shape(d, A)
    PROVE  Apart(<<d>>, A)
<1> DEFINE D == <<d>>
<1>1. Url!Join(D, B) = d
  BY JoinOne
<1>2. ASSUME NEW i, Match(d, i) PROVE Held(i, D, A)
  <2>1. i = 1 /\ Len(d) = 5
    BY <1>2 DEF Shape
  <2>2. 1 \in 1..Len(D) /\ D[1] = d /\ <<>> \in Seq(A) /\ Len(<<>>) = i - 1
    BY <2>1
  <2>3. ASSUME NEW e \in Seq(A) PROVE Url!Join(Replaced(D, 1, e), B) = <<>> \o e \o <<>>
    <3>1. Replaced(D, 1, e) = <<e>>
      BY DEF Replaced
    <3>2. <<>> \o e \o <<>> = e
      BY ConcatEmptySeq
    <3> QED BY <3>1, <3>2, JoinOne
  <2> HIDE DEF D
  <2> QED BY <1>2, <2>1, <2>2, <2>3 DEF Held
<1> QED BY <1>1, <1>2 DEF Apart, Shape

(* One default more.  A match is in the text before or in the new part: a  *)
(* match has no separator in it but maybe as its type, and no text ends in *)
(* a cast without one.                                                     *)
LEMMA MatchSides ==
    ASSUME NEW A, B \in A, NEW t \in Seq(A), t # <<>>, t[Len(t)] # C, NEW d \in Seq(A),
           NEW i, Match(t \o <<B>> \o d, i)
    PROVE  \/ Match(t, i)
           \/ Match(d, i - Len(t) - 1) /\ i \in Nat
<1> DEFINE sep == <<B>>
           u == t \o sep
           v == u \o d
           n == Len(t)
<1>1. sep \in Seq(A) /\ Len(sep) = 1 /\ sep[1] = B /\ n \in Nat \ {0} /\ Len(d) \in Nat
  OBVIOUS
<1> HIDE DEF sep
<1>2. Together(u, t, sep, A)
  BY Zenon, <1>1, OneAfterTheOther
<1>3. u \in Seq(A)
  BY <1>2 DEF Together
<1> HIDE DEF u
<1>4. Together(v, u, d, A)
  BY Zenon, <1>3, OneAfterTheOther
<1> HIDE DEF v
<1>5. /\ Len(u) = n + 1 /\ u[n + 1] = B /\ \A j \in 1..n : u[j] = t[j]
  BY <1>1, <1>2 DEF Together
<1>6. /\ Len(v) = n + 1 + Len(d) /\ v[n + 1] = B /\ \A j \in 1..n : v[j] = t[j]
      /\ \A j \in 1..Len(d) : v[n + 1 + j] = d[j]
  <2>1. Len(v) = Len(u) + Len(d) /\ \A j \in 1..Len(u) : v[j] = u[j]
    BY <1>4 DEF Together
  <2>2. \A j \in 1..Len(d) : v[Len(u) + j] = d[j]
    BY <1>4 DEF Together
  <2> QED BY <1>1, <1>5, <2>1, <2>2
<1>7. Match(v, i)
  BY DEF v, u, sep
<1>8. /\ i \in Nat /\ i >= 1 /\ i + 4 <= n + 1 + Len(d)
      /\ v[i] = Q /\ v[i + 1] \in Words /\ v[i + 2] = Q /\ v[i + 3] = C
  BY <1>1, <1>6, <1>7 DEF Match
<1>9. v[i] # B /\ v[i + 1] # B /\ v[i + 2] # B /\ v[i + 3] # B
  <2>1. B \notin Words
    BY WordsAssumption DEF B
  <2> QED BY <1>8, <2>1, SignsDiffer
<1>10. n + 1 # i /\ n + 1 # i + 1 /\ n + 1 # i + 2 /\ n + 1 # i + 3
  BY <1>6, <1>9
<1>11. CASE i + 4 <= n
  <2>1. i \in 1..n /\ i + 1 \in 1..n /\ i + 2 \in 1..n /\ i + 3 \in 1..n /\ i \in 1..(n - 4)
    BY <1>1, <1>8, <1>11
  <2> QED BY <1>6, <1>8, <2>1 DEF Match
<1>12. CASE i > n + 1
  <2> DEFINE j == i - n - 1
  <2>1. /\ j \in 1..(Len(d) - 4) /\ j + 1 \in 1..Len(d) /\ j + 2 \in 1..Len(d) /\ j + 3 \in 1..Len(d)
        /\ j \in 1..Len(d) /\ n + 1 + j = i /\ n + 1 + (j + 1) = i + 1
        /\ n + 1 + (j + 2) = i + 2 /\ n + 1 + (j + 3) = i + 3
    BY <1>1, <1>8, <1>12
  <2> HIDE DEF j
  <2>2. d[j] = v[i] /\ d[j + 1] = v[i + 1] /\ d[j + 2] = v[i + 2] /\ d[j + 3] = v[i + 3]
    BY <1>6, <2>1
  <2>3. Match(d, j)
    BY <1>8, <2>1, <2>2 DEF Match
  <2> QED BY <1>8, <2>3 DEF j
<1>13. CASE i + 3 = n
  <2>1. t[n] = C
    BY <1>1, <1>6, <1>8, <1>13
  <2> QED BY <2>1
<1> QED BY <1>1, <1>8, <1>10, <1>11, <1>12, <1>13

(* A default is replaced in the list before or after one is appended to it.*)
EitherOrder(X, E, d, e, k) ==
    /\ Replaced(E, k, e) \in Seq(X) /\ Replaced(E, k, e) # <<>>
    /\ Replaced(Append(E, d), k, e) = Append(Replaced(E, k, e), d)

(* The order does not matter when it is another one that is replaced.      *)
LEMMA ChangedThenAppended ==
    ASSUME NEW X, NEW E \in Seq(X), NEW d \in X, NEW e \in X, NEW k \in 1..Len(E)
    PROVE  EitherOrder(X, E, d, e, k)
<1> DEFINE E2 == [E EXCEPT ![k] = e]
           D == Append(E, d)
           D2 == [D EXCEPT ![k] = e]
           D3 == Append(E2, d)
           n == Len(E)
<1>1. n \in Nat
  OBVIOUS
<1>2. E2 \in Seq(X) /\ Len(E2) = n /\ \A j \in 1..n : E2[j] = IF j = k THEN e ELSE E[j]
  BY ExceptSeq
<1>3. E2 # <<>>
  BY <1>1, <1>2
<1>4. D \in Seq(X) /\ Len(D) = n + 1 /\ D[n + 1] = d /\ \A j \in 1..n : D[j] = E[j]
  BY <1>1, AppendProperties
<1>5. D2 \in Seq(X) /\ Len(D2) = n + 1 /\ \A j \in 1..(n + 1) : D2[j] = IF j = k THEN e ELSE D[j]
  <2> HIDE DEF D
  <2>1. k \in 1..Len(D)
    BY <1>1, <1>4
  <2> QED BY <1>4, <2>1, ExceptSeq
<1> HIDE DEF E2
<1>6. D3 \in Seq(X) /\ Len(D3) = n + 1 /\ D3[n + 1] = d /\ \A j \in 1..n : D3[j] = E2[j]
  BY <1>1, <1>2, AppendProperties
<1> HIDE DEF D, D2, D3
<1>7. \A j \in 1..(n + 1) : D2[j] = D3[j]
  <2>1. \A j \in 1..(n + 1) : j \in 1..n \/ j = n + 1
    BY <1>1
  <2>2. k # n + 1
    BY <1>1
  <2> QED BY <1>1, <1>2, <1>4, <1>5, <1>6, <2>1, <2>2
<1>8. D2 = D3
  BY <1>5, <1>6, <1>7
<1> QED BY <1>2, <1>3, <1>8 DEF D, D2, D3, E2, Replaced, EitherOrder

(* When it is the one appended, it could be appended in its place.         *)
LEMMA LastChanged ==
    ASSUME NEW X, NEW E \in Seq(X), NEW d \in X, NEW e \in X
    PROVE  Replaced(Append(E, d), Len(E) + 1, e) = Append(E, e)
<1> DEFINE n == Len(E)
           D == Append(E, d)
           D2 == [D EXCEPT ![n + 1] = e]
           D3 == Append(E, e)
<1>1. n \in Nat
  OBVIOUS
<1>2. D \in Seq(X) /\ Len(D) = n + 1 /\ D[n + 1] = d /\ \A j \in 1..n : D[j] = E[j]
  BY <1>1, AppendProperties
<1>3. D3 \in Seq(X) /\ Len(D3) = n + 1 /\ D3[n + 1] = e /\ \A j \in 1..n : D3[j] = E[j]
  BY <1>1, AppendProperties
<1>4. D2 \in Seq(X) /\ Len(D2) = n + 1 /\ \A j \in 1..(n + 1) : D2[j] = IF j = n + 1 THEN e ELSE D[j]
  <2> HIDE DEF D
  <2>1. n + 1 \in 1..Len(D)
    BY <1>1, <1>2
  <2> QED BY <1>2, <2>1, ExceptSeq
<1> HIDE DEF D, D2, D3
<1>5. \A j \in 1..(n + 1) : D2[j] = D3[j]
  <2>1. \A j \in 1..(n + 1) : j \in 1..n \/ j = n + 1
    BY <1>1
  <2> QED BY <1>1, <1>2, <1>3, <1>4, <2>1
<1>6. D2 = D3
  BY <1>3, <1>4, <1>5
<1> QED BY <1>6 DEF D, D2, D3, Replaced

(* DefaultPieces may be put together in any grouping.                             *)
Grouped(x, y, z) == (x \o y) \o z = x \o (y \o z)

(* In any grouping they make the same text.                                *)
LEMMA AnyGrouping ==
    ASSUME NEW A, NEW x \in Seq(A), NEW y \in Seq(A), NEW z \in Seq(A)
    PROVE  Grouped(x, y, z)
BY ConcatAssociative DEF Grouped

Regrouped(a, e, b, s, d) == ((a \o e \o b) \o s) \o d = (a \o e) \o (b \o (s \o d))

(* So do five of them.                                                     *)
LEMMA Regroup ==
    ASSUME NEW A, NEW a \in Seq(A), NEW e \in Seq(A), NEW b \in Seq(A), NEW s \in Seq(A), NEW d \in Seq(A)
    PROVE  Regrouped(a, e, b, s, d)
<1> DEFINE x == a \o e
           y == s \o d
           z == x \o b
<1>1. x \in Seq(A) /\ y \in Seq(A) /\ z \in Seq(A) /\ b \in Seq(A) /\ s \in Seq(A) /\ d \in Seq(A)
  OBVIOUS
<1> HIDE DEF x, y, z
<1>2. Grouped(z, s, d) /\ Grouped(x, b, y)
  BY Zenon, <1>1, AnyGrouping
<1> QED BY Zenon, <1>2 DEF Grouped, Regrouped, x, y, z

(* One default more, and each match is still in one of the defaults.       *)
LEMMA MoreApart ==
    ASSUME NEW A, B \in A, NEW E \in Seq(Seq(A)), E # <<>>, Apart(E, A), NEW d \in Seq(A), Shape(d, A)
    PROVE  Apart(Append(E, d), A)
<1> DEFINE t == Url!Join(E, B)
           D == Append(E, d)
           v == t \o <<B>> \o d
           X == Seq(A)
           n == Len(E)
<1>1. t \in Seq(A) /\ t # <<>> /\ t[Len(t)] # C /\ \A i : Match(t, i) => Held(i, E, A)
  BY DEF Apart
<1>2. Url!Join(D, B) = v
  BY JoinAppend
<1>3. /\ n \in Nat /\ Len(D) = n + 1 /\ D[n + 1] = d
      /\ \A k \in 1..n : D[k] = E[k] /\ E[k] \in X
  <2>1. E \in Seq(X) /\ d \in X
    OBVIOUS
  <2> HIDE DEF X
  <2> QED BY <2>1
<1> HIDE DEF t
<1>4. <<B>> \in Seq(A) /\ Len(<<B>>) = 1
  OBVIOUS
<1>5. t \o <<B>> \in Seq(A) /\ Len(t \o <<B>>) = Len(t) + 1 /\ <<B>> \o d \in Seq(A)
  BY <1>1, <1>4
<1>6. ASSUME NEW i, Match(v, i) PROVE Held(i, D, A)
  <2>1. CASE Match(t, i)
    <3>1. PICK k \in 1..n, a \in Seq(A), b \in Seq(A) :
             /\ Len(a) = i - 1 /\ Len(E[k]) = 5 /\ Match(E[k], 1)
             /\ \A e \in Seq(A) : Url!Join(Replaced(E, k, e), B) = a \o e \o b
      <4>1. Held(i, E, A)
        BY <1>1, <2>1
      <4> QED BY Zenon, <4>1 DEF Held
    <3> DEFINE b2 == b \o (<<B>> \o d)
    <3>2. b2 \in Seq(A)
      BY <1>5
    <3>3. ASSUME NEW e \in Seq(A) PROVE Url!Join(Replaced(D, k, e), B) = a \o e \o b2
      <4> DEFINE E2 == Replaced(E, k, e)
      <4>1. E2 \in Seq(X) /\ E2 # <<>> /\ Replaced(D, k, e) = Append(E2, d)
        <5>1. E \in Seq(X) /\ d \in X /\ e \in X /\ k \in 1..Len(E)
          OBVIOUS
        <5> HIDE DEF X
        <5> QED BY <5>1, ChangedThenAppended DEF EitherOrder
      <4> HIDE DEF E2
      <4>2. Url!Join(Append(E2, d), B) = Url!Join(E2, B) \o <<B>> \o d
        BY <4>1, JoinAppend
      <4>3. Url!Join(E2, B) = a \o e \o b
        BY <3>1 DEF E2
      <4>4. ((a \o e \o b) \o <<B>>) \o d = (a \o e) \o b2
        <5>1. a \in Seq(A) /\ e \in Seq(A) /\ b \in Seq(A) /\ <<B>> \in Seq(A) /\ d \in Seq(A)
          BY <1>4
        <5> DEFINE s == <<B>>
        <5>2. s \in Seq(A)
          BY <1>4
        <5> HIDE DEF s
        <5>3. Regrouped(a, e, b, s, d)
          BY Zenon, <5>1, <5>2, Regroup
        <5> QED BY Zenon, <5>3 DEF s, Regrouped
      <4> HIDE DEF b2, D
      <4> QED BY <4>1, <4>2, <4>3, <4>4
    <3>4. k \in 1..Len(D) /\ D[k] = E[k]
      BY <1>3
    <3> HIDE DEF D, b2
    <3> QED BY <3>1, <3>2, <3>3, <3>4 DEF Held
  <2>2. CASE Match(d, i - Len(t) - 1) /\ i \in Nat
    <3> DEFINE a == t \o <<B>>
    <3>1. i - Len(t) - 1 = 1 /\ Len(d) = 5 /\ Len(t) \in Nat
      BY <1>1, <2>2 DEF Shape
    <3>2. a \in Seq(A) /\ Len(a) = i - 1 /\ <<>> \in Seq(A)
      BY <1>5, <2>2, <3>1
    <3>3. ASSUME NEW e \in Seq(A) PROVE Url!Join(Replaced(D, n + 1, e), B) = a \o e \o <<>>
      <4>1. Replaced(D, n + 1, e) = Append(E, e)
        <5>1. E \in Seq(X) /\ d \in X /\ e \in X
          OBVIOUS
        <5> HIDE DEF X
        <5> QED BY Zenon, <5>1, LastChanged DEF n, D
      <4>2. Url!Join(Append(E, e), B) = t \o <<B>> \o e
        BY JoinAppend DEF t
      <4>3. a \o e \in Seq(A)
        BY <3>2
      <4>4. (a \o e) \o <<>> = a \o e
        BY <4>3, ConcatEmptySeq
      <4> QED BY <4>1, <4>2, <4>4
    <3>4. n + 1 \in 1..Len(D) /\ D[n + 1] = d /\ Match(d, 1)
      BY <1>3, <2>2, <3>1
    <3> HIDE DEF D, a
    <3> QED BY <3>1, <3>2, <3>3, <3>4 DEF Held
  <2> QED BY <1>1, <1>6, <2>1, <2>2, MatchSides
<1>7. v \in Seq(A) /\ v # <<>> /\ v[Len(v)] # C
  <2> DEFINE u == t \o <<B>>
  <2>1. u \in Seq(A) /\ d \in Seq(A) /\ Len(d) \in Nat \ {0} /\ Len(u) \in Nat
    BY <1>5 DEF Shape
  <2> HIDE DEF u
  <2>2. Together(u \o d, u, d, A)
    BY Zenon, <2>1, OneAfterTheOther
  <2> DEFINE w == u \o d
  <2> HIDE DEF w
  <2>3. /\ w \in Seq(A) /\ Len(w) = Len(u) + Len(d) /\ w[Len(u) + Len(d)] = d[Len(d)]
    BY <2>1, <2>2 DEF w, Together
  <2>4. w \in Seq(A) /\ w # <<>> /\ w[Len(w)] # C
    BY <2>1, <2>3 DEF Shape
  <2> QED BY <2>4 DEF w, u
<1> HIDE DEF v, D
<1> QED BY <1>2, <1>6, <1>7 DEF Apart, D
(* All of them: a match in the whole text is one of the defaults.          *)
LEMMA AllApart ==
    ASSUME NEW A, B \in A, NEW D \in Seq(Seq(A)), D # <<>>,
           \A k \in 1..Len(D) : Shape(D[k], A)
    PROVE  Apart(D, A)
<1> DEFINE X == Seq(A)
           P(n) == /\ SubSeq(D, 1, n) \in Seq(X) /\ SubSeq(D, 1, n) # <<>>
                   /\ Apart(SubSeq(D, 1, n), A)
           T == {n \in Nat : n + 1 <= Len(D) => P(n + 1)}
<1>1. D \in Seq(X) /\ Len(D) \in Nat \ {0} /\ \A k \in 1..Len(D) : D[k] \in X
  OBVIOUS
<1> HIDE DEF X
<1>2. 0 \in T
  <2>1. 1 \in 1..Len(D)
    BY <1>1
  <2>2. SubSeq(D, 1, 1) = <<D[1]>>
    BY <1>1, <2>1, OneFirst
  <2>3. Shape(D[1], A) /\ D[1] \in Seq(A)
    BY <1>1, <2>1 DEF X
  <2>4. Apart(<<D[1]>>, A)
    BY <2>3, OneApart
  <2>5. <<D[1]>> \in Seq(X) /\ <<D[1]>> # <<>>
    BY <1>1, <2>1
  <2>6. P(1)
    BY <2>2, <2>4, <2>5
  <2> HIDE DEF P
  <2> QED BY <2>6
<1>3. ASSUME NEW n \in T PROVE n + 1 \in T
  <2> DEFINE k == n + 1
             E == SubSeq(D, 1, k)
  <2> SUFFICES ASSUME k + 1 <= Len(D) PROVE P(k + 1)
    <3> HIDE DEF P
    <3> QED OBVIOUS
  <2>1. k \in Nat /\ k <= Len(D) /\ k + 1 \in 1..Len(D)
    BY <1>1
  <2>2. P(k)
    BY <2>1
  <2> HIDE DEF k
  <2>3. SubSeq(D, 1, k + 1) = Append(E, D[k + 1])
    BY <1>1, <2>1, OnePieceMore
  <2>4. E \in Seq(X) /\ E # <<>> /\ Apart(E, A)
    BY <2>2
  <2>5. Shape(D[k + 1], A) /\ D[k + 1] \in X
    BY <1>1, <2>1
  <2> HIDE DEF E
  <2>6. Apart(Append(E, D[k + 1]), A)
    BY <2>4, <2>5, MoreApart DEF X
  <2> DEFINE d == D[k + 1]
  <2>7. Append(E, d) \in Seq(X) /\ Append(E, d) # <<>>
    <3>1. d \in X
      BY <2>5
    <3> HIDE DEF d
    <3> QED BY <2>4, <3>1, AppendProperties
  <2> QED BY <2>3, <2>6, <2>7
<1>4. T = Nat
  <2> HIDE DEF T
  <2>1. T \subseteq Nat
    BY DEF T
  <2> QED BY <1>2, <1>3, <2>1, EveryNumber
<1>5. P(Len(D))
  <2>1. Len(D) - 1 \in T /\ (Len(D) - 1) + 1 = Len(D)
    <3> HIDE DEF T
    <3> QED BY <1>1, <1>4
  <2> DEFINE m == Len(D) - 1
  <2>2. m \in T /\ m + 1 = Len(D) /\ m + 1 <= Len(D)
    BY <1>1, <2>1
  <2> HIDE DEF m
  <2>3. P(m + 1)
    BY <2>2
  <2> HIDE DEF P, T
  <2> QED BY <2>2, <2>3
<1>6. SubSeq(D, 1, Len(D)) = D
  BY <1>1
<1> QED BY <1>5, <1>6

(* A set of numbers has a first.                                           *)
LEMMA FirstIsIn ==
    ASSUME NEW S, S \subseteq Nat, S # {}
    PROVE  Function!Min(S) \in S /\ \A j \in S : Function!Min(S) <= j
<1>1. PICK i \in S : \A j \in S : ~(j < i)
  <2>1. \E i \in S : \A j \in S : <<j, i>> \notin OpToRel(<, Nat)
    BY Zenon, NatLessThanWellFounded, WFMin
  <2> QED BY <2>1 DEF OpToRel
<1>2. i \in S /\ \A j \in S : i <= j
  BY <1>1
<1> DEFINE first == CHOOSE k \in S : \A j \in S : k <= j
<1>3. first \in S /\ \A j \in S : first <= j
  BY <1>2
<1>4. first = Function!Min(S)
  BY Zenon DEF Function!Min
<1> QED BY <1>3, <1>4

(* What stands between two texts, and around it, is found again.           *)
FoundAgain(t, f, a, c, b) ==
    t[f + 1] = c[2] /\ SubSeq(t, 1, f - 1) = a /\ SubSeq(t, f + 5, Len(t)) = b

(* So they are.                                                            *)
LEMMA FoundWhereItIs ==
    ASSUME NEW A, NEW a \in Seq(A), NEW c \in Seq(A), NEW b \in Seq(A), Len(c) = 5
    PROVE  LET t == a \o c \o b
               f == Len(a) + 1
           IN  FoundAgain(t, f, a, c, b)
<1> DEFINE u == a \o c
           t == u \o b
           n == Len(a)
           m == Len(b)
<1>1. n \in Nat /\ m \in Nat
  OBVIOUS
<1>2. Together(u, a, c, A)
  BY OneAfterTheOther
<1>3. u \in Seq(A)
  BY <1>2 DEF Together
<1> HIDE DEF u
<1>4. Together(t, u, b, A)
  BY <1>3, OneAfterTheOther
<1> HIDE DEF t
<1>5. /\ Len(u) = n + 5 /\ \A i \in 1..n : u[i] = a[i]
      /\ u[n + 2] = c[2]
  BY <1>1, <1>2 DEF Together
<1>6. /\ t \in Seq(A) /\ Len(t) = (n + 5) + m /\ t[n + 2] = c[2]
      /\ \A i \in 1..n : t[i] = a[i]
      /\ \A i \in 1..m : t[(n + 5) + i] = b[i]
  <2>1. n + 2 \in 1..(n + 5) /\ 1..n \subseteq 1..(n + 5)
    BY <1>1
  <2> QED BY <1>4, <1>5, <2>1 DEF Together
<1>7. SubSeq(t, 1, n) = a
  <2> DEFINE s == SubSeq(t, 1, n)
  <2>1. s \in Seq(A) /\ Len(s) = n /\ \A i \in 1..n : s[i] = t[i]
    BY <1>1, <1>6
  <2> HIDE DEF s
  <2>2. s = a
    BY <1>6, <2>1, SeqEqual
  <2> QED BY <2>2 DEF s
<1>8. SubSeq(t, n + 6, Len(t)) = b
  <2> DEFINE s == SubSeq(t, n + 6, n + 5 + m)
  <2>1. s \in Seq(A) /\ Len(s) = m /\ \A i \in 1..m : s[i] = t[(n + 5) + i]
    <3>1. /\ n + 6 \in Nat /\ n + 5 + m \in Nat /\ (n + 5 + m) - (n + 6) + 1 = m
          /\ \A i \in 1..m : (n + 6) + i - 1 = (n + 5) + i
      BY <1>1
    <3>2. \A i \in (n + 6)..(n + 5 + m) : t[i] \in A
      BY <1>1, <1>6
    <3> QED BY <1>1, <1>6, <3>1, <3>2, SubSeqProperties
  <2> HIDE DEF s
  <2>2. \A i \in 1..m : s[i] = b[i]
    BY <1>6, <2>1
  <2>3. s = b
    BY <2>1, <2>2, SeqEqual
  <2> QED BY <1>6, <2>3 DEF s
<1>9. n + 1 - 1 = n /\ n + 1 + 1 = n + 2 /\ n + 1 + 5 = n + 6
  BY <1>1
<1>10. FoundAgain(t, n + 1, a, c, b)
  BY <1>6, <1>7, <1>8, <1>9 DEF FoundAgain
<1> QED BY <1>10 DEF t, u

(* The query takes the quotes off one of the defaults, if off any.         *)
Bared(D, D2, A) ==
    /\ D2 \in Seq(Seq(A)) /\ Len(D2) = Len(D)
    /\ \A k \in 1..Len(D) : \/ D2[k] = D[k]
                            \/ Len(D[k]) = 5 /\ Match(D[k], 1) /\ D2[k] = <<D[k][2]>>

(* What the query does to the whole text it does to one default.           *)
LEMMA UnquotedJoin ==
    ASSUME NEW A, B \in A, NEW D \in Seq(Seq(A)), D # <<>>,
           \A k \in 1..Len(D) : Shape(D[k], A)
    PROVE  \E D2 : Bared(D, D2, A) /\ Function!Unquoted(Url!Join(D, B)) = Url!Join(D2, B)
<1> DEFINE t == Url!Join(D, B)
           X == Seq(A)
           here == {i \in 1..(Len(t) - 4) :
                       t[i] = Q /\ t[i + 1] \in Words /\ t[i + 2] = Q /\ t[i + 3] = C}
           f == Function!Min(here)
<1>1. t \in Seq(A) /\ \A i : Match(t, i) => Held(i, D, A)
  BY AllApart DEF Apart
<1>2. Function!Unquoted(t) =
        IF here = {} THEN t
        ELSE SubSeq(t, 1, f - 1) \o <<t[f + 1]>> \o SubSeq(t, f + 5, Len(t))
  BY Zenon DEF Function!Unquoted, Q, C
<1> HIDE DEF t
<1>3. \A i : i \in here <=> Match(t, i)
  BY DEF Match
<1>4. CASE here = {}
  <2>1. Bared(D, D, A)
    BY DEF Bared
  <2> QED BY <1>2, <1>4, <2>1 DEF t
<1>5. CASE here # {}
  <2>1. here \subseteq Nat
    <3>1. Len(t) \in Nat
      BY <1>1
    <3> QED BY <3>1
  <2> HIDE DEF here
  <2>2. f \in here
    BY <1>5, <2>1, FirstIsIn
  <2> HIDE DEF f
  <2>3. Held(f, D, A) /\ f \in Nat
    BY <1>1, <1>3, <2>1, <2>2
  <2>4. PICK k \in 1..Len(D), a \in Seq(A), b \in Seq(A) :
           /\ Len(a) = f - 1 /\ Len(D[k]) = 5 /\ Match(D[k], 1)
           /\ \A e \in Seq(A) : Url!Join(Replaced(D, k, e), B) = a \o e \o b
    BY Zenon, <2>3 DEF Held
  <2>5. D[k] \in Seq(A)
    OBVIOUS
  <2>6. Replaced(D, k, D[k]) = D
    BY DEF Replaced
  <2>7. t = a \o D[k] \o b
    BY <2>4, <2>5, <2>6 DEF t
  <2> DEFINE c == D[k]
             w == <<c[2]>>
             D2 == Replaced(D, k, w)
  <2>8. c \in Seq(A) /\ Len(c) = 5 /\ t = a \o c \o b
    BY <2>4, <2>5, <2>7
  <2> HIDE DEF c
  <2>9. t[f + 1] = c[2] /\ SubSeq(t, 1, f - 1) = a /\ SubSeq(t, f + 5, Len(t)) = b
    <3>1. Len(a) + 1 = f
      BY <2>3, <2>4
    <3>2. a \in Seq(A) /\ b \in Seq(A)
      OBVIOUS
    <3>3. FoundAgain(a \o c \o b, Len(a) + 1, a, c, b)
      BY Zenon, <2>8, <3>2, FoundWhereItIs
    <3> QED BY <2>8, <3>1, <3>3 DEF FoundAgain
  <2>10. w \in Seq(A)
    <3>1. c[2] \in A
      <4>1. 2 \in 1..Len(c)
        BY <2>8
      <4> QED BY <2>8, <4>1, ElementOfSeq
    <3> QED BY <3>1
  <2>11. Function!Unquoted(t) = a \o w \o b
    BY <1>2, <1>5, <2>9
  <2>12. Url!Join(D2, B) = a \o w \o b
    BY <2>4, <2>10
  <2>13. Bared(D, D2, A)
    <3>1. D \in Seq(X) /\ k \in 1..Len(D) /\ w \in X
      BY <2>10
    <3> HIDE DEF X, w
    <3>2. D2 \in Seq(X) /\ Len(D2) = Len(D) /\ \A i \in 1..Len(D) : D2[i] = IF i = k THEN w ELSE D[i]
      BY <3>1, ExceptSeq DEF Replaced
    <3> HIDE DEF D2
    <3> QED BY <2>4, <3>2 DEF Bared, X, w, c
  <2> QED BY <2>11, <2>12, <2>13 DEF t
<1> QED BY <1>4, <1>5

(* Split, they are the defaults again, but for the one that lost quotes.   *)
LEMMA SplitsAgain ==
    ASSUME NEW A, B \in A, NEW D \in Seq(Seq(A)), D # <<>>,
           \A k \in 1..Len(D) : Shape(D[k], A)
    PROVE  \E D2 : Bared(D, D2, A) /\ Function!Split(Function!Unquoted(Function!Join(D, B)), B) = D2
<1>1. PICK D2 : Bared(D, D2, A) /\ Function!Unquoted(Url!Join(D, B)) = Url!Join(D2, B)
  BY UnquotedJoin
<1> DEFINE Y == Seq(A \ {B})
<1>2. ASSUME NEW k \in 1..Len(D) PROVE D2[k] \in Y
  <2>1. D[k] \in Seq(A) /\ \A i \in 1..Len(D[k]) : D[k][i] # B
    BY DEF Shape
  <2> DEFINE d == D[k]
  <2>2. d \in Seq(A) /\ \A i \in 1..Len(d) : d[i] \in A \ {B}
    BY <2>1
  <2> HIDE DEF d
  <2>3. d \in Y
    BY <2>2, SeqDef
  <2>4. CASE D2[k] = D[k]
    BY <2>3, <2>4 DEF d
  <2>5. CASE Len(D[k]) = 5 /\ D2[k] = <<D[k][2]>>
    <3>1. 2 \in 1..Len(d)
      BY <2>5 DEF d
    <3>2. d[2] \in A \ {B}
      BY <2>2, <3>1
    <3> DEFINE w == d[2]
    <3>3. w \in A \ {B} /\ D2[k] = <<w>>
      BY <2>5, <3>2 DEF d
    <3> HIDE DEF w
    <3> QED BY <3>3
  <2> QED BY <1>1, <2>4, <2>5 DEF Bared
<1>3. D2 \in Seq(Y) /\ D2 # <<>>
  <2>1. D2 \in Seq(Seq(A)) /\ Len(D2) = Len(D) /\ Len(D) \in Nat \ {0}
    BY <1>1 DEF Bared
  <2> HIDE DEF Y
  <2>2. \A k \in 1..Len(D2) : D2[k] \in Y
    BY <1>2, <2>1
  <2>3. D2 \in Seq(Y)
    <3> DEFINE Z == Seq(A)
    <3>1. D2 \in Seq(Z)
      BY <2>1
    <3> HIDE DEF Z
    <3> QED BY <2>2, <3>1, SeqDef
  <2> QED BY <2>1, <2>3
<1>4. Url!Split(Url!Join(D2, B), B) = D2
  BY <1>3, SplitJoin
<1> QED BY <1>1, <1>4, SameSplitJoin

-----------------------------------------------------------------------------
(* The pieces of a default.                                                *)
DefaultPieces == STRING \cup {Q, C, B}
Plain(value) == value \in Seq(DefaultPieces \ {Q, B})

(* A value as it is matches nowhere, one in quotes only when it is a word. *)
LEMMA ShapePlain ==
    ASSUME NEW d, Plain(d), d # <<>>, \A i \in 1..Len(d) : d[i] # C
    PROVE  Shape(d, DefaultPieces)
<1>1. d \in Seq(DefaultPieces)
  <2>1. DefaultPieces \ {Q, B} \subseteq DefaultPieces
    OBVIOUS
  <2> QED BY <2>1, SeqMonotonic DEF Plain
<1>2. Len(d) \in Nat \ {0} /\ \A i \in 1..Len(d) : d[i] # Q /\ d[i] # B /\ d[i] # C
  <2> DEFINE Z == DefaultPieces \ {Q, B}
  <2>1. d \in Seq(Z) /\ Q \notin Z /\ B \notin Z
    BY DEF Plain
  <2> HIDE DEF Z
  <2>2. \A i \in 1..Len(d) : d[i] \in Z
    BY <2>1
  <2> QED BY <2>1, <2>2
<1>3. ASSUME NEW i PROVE ~Match(d, i)
  <2>1. i \in 1..(Len(d) - 4) => i \in 1..Len(d)
    BY <1>2
  <2> QED BY <1>2, <2>1 DEF Match
<1>4. Len(d) \in 1..Len(d)
  BY <1>2
<1> QED BY <1>1, <1>2, <1>3, <1>4 DEF Shape

(* A value in quotes has one match at most, at its start.                  *)
LEMMA ShapeQuoted ==
    ASSUME NEW value, Plain(value), NEW type \in DefaultPieces \ {Q, B, C}
    PROVE  LET d == Quoted(value, type)
           IN  Shape(d, DefaultPieces) /\ (Len(d) = 5 => Len(value) = 1 /\ d[2] = value[1])
<1> DEFINE d == Quoted(value, type)
           n == Len(value)
           Z == DefaultPieces \ {Q, B}
<1>1. value \in Seq(Z) /\ Q \notin Z /\ B \notin Z
  BY DEF Plain
<1>2. value \in Seq(DefaultPieces)
  BY <1>1, SeqMonotonic
<1>3. Q \in DefaultPieces /\ C \in DefaultPieces /\ type \in DefaultPieces /\ type # Q /\ type # B /\ type # C
  BY DEF DefaultPieces
<1>4. /\ n \in Nat /\ d \in Seq(DefaultPieces) /\ Len(d) = n + 4
      /\ d[1] = Q /\ d[n + 2] = Q /\ d[n + 3] = C /\ d[n + 4] = type
      /\ \A i \in 1..n : d[i + 1] = value[i]
  BY <1>2, <1>3, QuotedPieces
<1> HIDE DEF d, Z
<1>5. \A i \in 1..n : value[i] # Q /\ value[i] # B
  <2>1. \A i \in 1..n : value[i] \in Z
    BY <1>1
  <2> QED BY <1>1, <2>1
<1>6. ASSUME NEW i \in 1..Len(d)
      PROVE  \/ i = 1 \/ i = n + 2 \/ i = n + 3 \/ i = n + 4
             \/ i - 1 \in 1..n /\ d[i] = value[i - 1]
  <2> DEFINE k == i - 1
  <2>1. k \in 1..n => d[k + 1] = value[k]
    BY <1>4
  <2>2. k + 1 = i
    BY <1>4
  <2>3. i = 1 \/ i = n + 2 \/ i = n + 3 \/ i = n + 4 \/ k \in 1..n
    BY <1>4
  <2> HIDE DEF k
  <2> QED BY <2>1, <2>2, <2>3 DEF k
<1>7. \A i \in 1..Len(d) : d[i] # B
  BY <1>3, <1>4, <1>5, <1>6, SignsDiffer
<1>8. \A i \in 1..Len(d) : d[i] = Q => i = 1 \/ i = n + 2
  BY <1>3, <1>4, <1>5, <1>6, SignsDiffer
<1>9. ASSUME NEW i, Match(d, i) PROVE i = 1 /\ Len(d) = 5
  <2>1. i \in 1..n /\ d[i] = Q /\ d[i + 2] = Q
    BY <1>4, <1>9 DEF Match
  <2>2. i = 1
    <3>1. i \in 1..Len(d) /\ i # n + 2
      BY <1>4, <2>1
    <3> QED BY <1>8, <2>1, <3>1
  <2>3. 3 \in 1..Len(d) /\ d[3] = Q
    BY <1>4, <2>1, <2>2
  <2>4. 3 = n + 2
    BY <1>8, <2>3
  <2> QED BY <1>4, <2>2, <2>4
<1>10. d # <<>> /\ d[Len(d)] # C
  BY <1>3, <1>4
<1>11. Shape(d, DefaultPieces)
  BY <1>4, <1>7, <1>9, <1>10 DEF Shape
<1>12. Len(d) = 5 => n = 1 /\ d[2] = value[1]
  <2>1. ASSUME Len(d) = 5 PROVE n = 1
    <3>1. n \in Nat /\ n + 4 = 5
      BY <1>4, <2>1
    <3> HIDE DEF n
    <3> QED BY <3>1
  <2>2. 1 \in 1..n => d[1 + 1] = value[1]
    BY <1>4
  <2> QED BY <2>1, <2>2
<1> QED BY <1>11, <1>12 DEF d

(* A default that is printed simply survives.                              *)
Survives(p) ==
    /\ Shape(p.default, DefaultPieces)
    /\ Function!parseArgDefault(p.default) = p.value
    /\ Len(p.default) = 5 /\ Match(p.default, 1) =>
          Function!parseArgDefault(<<p.default[2]>>) = p.value

(* All defaults that are printed simply do.                                *)
LEMMA SimpleSurvives ==
    ASSUME NEW p, p.default # <<>>, PrintedAsItIs(p) \/ PrintedInQuotes(p)
    PROVE  Survives(p)
<1>1. ASSUME NEW v, IsPlain(v) PROVE Plain(v)
  <2>1. STRING \ {Q, B} \subseteq DefaultPieces \ {Q, B}
    BY DEF DefaultPieces
  <2>2. v \in Seq(STRING \ {Q, B})
    BY <1>1 DEF IsPlain, Q, B
  <2> QED BY <2>1, <2>2, SeqMonotonic DEF Plain
<1>2. CASE PrintedAsItIs(p)
  <2>1. p.default = p.value /\ Plain(p.value) /\ \A i \in DOMAIN p.value : p.value[i] # C
    BY <1>1, <1>2 DEF PrintedAsItIs, C
  <2> DEFINE d == p.default
  <2>2. Plain(d) /\ d = p.value /\ \A i \in DOMAIN d : d[i] # C
    BY <2>1
  <2>3. d # <<>>
    OBVIOUS
  <2> HIDE DEF d
  <2>4. Shape(d, DefaultPieces)
    <3>1. \A i \in 1..Len(d) : d[i] # C
      BY <2>2 DEF Plain
    <3> QED BY <2>2, <2>3, <3>1, ShapePlain
  <2>5. Function!parseArgDefault(d) = d
    BY <2>2, ParsePlain
  <2>6. ~Match(d, 1)
    <3> DEFINE Z == DefaultPieces \ {Q, B}
    <3>1. d \in Seq(Z) /\ Q \notin Z
      BY <2>2 DEF Plain
    <3> HIDE DEF Z
    <3>2. Len(d) \in Nat \ {0} /\ 1 \in 1..Len(d)
      BY <2>3, <3>1
    <3>3. d[1] \in Z
      BY <3>1, <3>2
    <3> QED BY <3>1, <3>3 DEF Match
  <2> QED BY <2>2, <2>4, <2>5, <2>6 DEF Survives, d
<1>3. CASE PrintedInQuotes(p)
  <2> DEFINE type == p.default[Len(p.default)]
             d == Quoted(p.value, type)
             v == p.value
  <2>1. Plain(v) /\ Plain(<<type>>) /\ type # C /\ p.default = d
    BY <1>1, <1>3 DEF PrintedInQuotes, Quoted, C, Q
  <2>2. type \in DefaultPieces \ {Q, B, C}
    <3> HIDE DEF type
    <3>1. <<type>> \in Seq(DefaultPieces \ {Q, B})
      BY <2>1 DEF Plain
    <3>2. <<type>>[1] \in DefaultPieces \ {Q, B}
      <4>1. 1 \in 1..Len(<<type>>)
        OBVIOUS
      <4> QED BY <3>1, <4>1, ElementOfSeq
    <3> QED BY <2>1, <3>2
  <2> HIDE DEF type
  <2>3. Shape(d, DefaultPieces) /\ (Len(d) = 5 => Len(v) = 1 /\ d[2] = v[1])
    BY <2>1, <2>2, ShapeQuoted
  <2>4. v \in Seq(DefaultPieces)
    <3>1. DefaultPieces \ {Q, B} \subseteq DefaultPieces
      OBVIOUS
    <3> QED BY <2>1, <3>1, SeqMonotonic DEF Plain
  <2>5. Function!parseArgDefault(d) = v
    <3>1. Q \in DefaultPieces /\ C \in DefaultPieces /\ type \in DefaultPieces /\ type # C
      BY <2>2 DEF DefaultPieces
    <3> QED BY <2>4, <3>1, ParseQuoted
  <2> HIDE DEF d
  <2>6. ASSUME Len(d) = 5, Match(d, 1) PROVE Function!parseArgDefault(<<d[2]>>) = v
    <3>1. Len(v) = 1 /\ d[2] = v[1]
      BY <2>3, <2>6
    <3>2. <<d[2]>> = v
      <4> HIDE DEF v
      <4> QED BY <2>4, <3>1
    <3>3. d[2] # C
      <4>1. d[2] \in Words
        BY <2>6 DEF Match
      <4>2. C \notin Words
        BY WordsAssumption DEF C
      <4> QED BY <4>1, <4>2
    <3> DEFINE w == d[2]
    <3>4. w # C /\ <<w>> = v
      BY <3>2, <3>3
    <3> HIDE DEF w
    <3>5. \A i \in DOMAIN <<w>> : <<w>>[i] # C
      BY <3>4
    <3>6. Function!parseArgDefault(<<w>>) = <<w>>
      BY <3>5, ParsePlain
    <3> QED BY <3>4, <3>6 DEF w
  <2> QED BY <2>1, <2>3, <2>5, <2>6 DEF Survives
<1> QED BY <1>2, <1>3

-----------------------------------------------------------------------------
(* The arguments of a function.                                            *)

(* The parameters from some place on are those with a default.             *)
WithDefault(f, d) ==
    /\ d \in 0..Len(f.params)
    /\ \A k \in 1..Len(f.params) : f.params[k].default # <<>> <=> k > d

(* There is such a place.                                                  *)
LEMMA DefaultsComeLast ==
    ASSUME NEW f \in Functions, HasSimpleDefaults(f)
    PROVE  /\ f.params \in Seq(Function!ToSet(f.params)) /\ Len(f.params) \in Nat
           /\ DOMAIN f.params = 1..Len(f.params)
           /\ \E d : WithDefault(f, d)
<1> DEFINE n == Len(f.params)
           S == {k \in 1..n : f.params[k].default # <<>>}
           first == Function!Min(S)
<1>1. f.params \in Seq(Function!ToSet(f.params)) /\ n \in Nat /\ DOMAIN f.params = 1..n
  <2>1. f.params \in Seq(Function!ToSet(f.params))
    BY FunctionsAssumption
  <2> QED BY <2>1
<1>2. \A i, j \in 1..n : i < j => (f.params[i].default # <<>> => f.params[j].default # <<>>)
  BY <1>1 DEF HasSimpleDefaults
<1>3. CASE S = {}
  <2>1. n \in 0..n /\ \A k \in 1..n : ~(f.params[k].default # <<>>) /\ ~(k > n)
    BY <1>1, <1>3
  <2>2. WithDefault(f, n)
    BY <2>1 DEF WithDefault
  <2> QED BY <1>1, <2>2
<1>4. CASE S # {}
  <2>1. S \subseteq Nat
    OBVIOUS
  <2> HIDE DEF S
  <2>2. first \in S /\ \A j \in S : first <= j
    BY <1>4, <2>1, FirstIsIn
  <2> HIDE DEF first
  <2>3. first \in 1..n /\ f.params[first].default # <<>>
    BY <2>2 DEF S
  <2>4. ASSUME NEW k \in 1..n PROVE f.params[k].default # <<>> <=> k > first - 1
    <3>1. CASE k = first
      BY <2>3, <3>1
    <3>2. CASE k > first
      BY <1>2, <2>3, <3>2
    <3>3. CASE k < first
      <4>1. k \notin S
        BY <2>2, <2>3, <3>3
      <4> QED BY <2>3, <3>3, <4>1 DEF S
    <3> QED BY <2>3, <3>1, <3>2, <3>3
  <2>5. first - 1 \in 0..n
    BY <1>1, <2>3
  <2>6. WithDefault(f, first - 1)
    BY <2>4, <2>5 DEF WithDefault
  <2> QED BY <1>1, <2>6
<1> QED BY <1>3, <1>4

(* Without a default there is no value.                                    *)
LEMMA NoDefault ==
    ASSUME NEW p, p.default = <<>>, PrintedAsItIs(p) \/ PrintedInQuotes(p)
    PROVE  p.value = <<>>
BY DEF PrintedAsItIs, PrintedInQuotes

(* The defaults are given as many parts, each of which has the value.      *)
ValuesBack(f, d) ==
    LET parts == Function!argdefaults(f)
    IN  /\ Len(parts) = Len(f.params) - d
        /\ \A j \in 1..(Len(f.params) - d) : Function!parseArgDefault(parts[j]) = f.params[d + j].value

(* They do have their values.                                              *)
LEMMA ValuesComeBack ==
    ASSUME NEW f \in Functions, HasSimpleDefaults(f), NEW d, WithDefault(f, d)
    PROVE  ValuesBack(f, d)
<1> DEFINE params == f.params
           A == Function!ToSet(params)
           n == Len(params)
           S == {p \in A : p.default # <<>>}
           given == Table!Only(params, S)
           D == [j \in DOMAIN given |-> given[j].default]
           X == Seq(DefaultPieces)
           parts == Function!argdefaults(f)
<1>1. params \in Seq(A) /\ n \in Nat /\ DOMAIN params = 1..n
  BY DefaultsComeLast
<1>2. d \in 0..n /\ \A k \in 1..n : params[k].default # <<>> <=> k > d
  BY DEF WithDefault
<1>3. \A k \in 1..n : PrintedAsItIs(params[k]) \/ PrintedInQuotes(params[k])
  BY <1>1 DEF HasSimpleDefaults
<1>4. parts = IF given = <<>> THEN <<>> ELSE Function!Split(Function!Unquoted(Function!Join(D, B)), B)
  <2>1. Function!Only(params, S) = given
    BY SameOnly
  <2> DEFINE g == Function!Only(params, S)
  <2>2. Function!argdefaults(f) =
          IF g = <<>> THEN <<>>
          ELSE Function!Split(Function!Unquoted(Function!Join([j \in DOMAIN g |-> g[j].default], B)), B)
    BY Zenon DEF Function!argdefaults, B
  <2> HIDE DEF g
  <2>3. g = given
    BY <2>1 DEF g
  <2> QED BY <2>2, <2>3
<1> HIDE DEF params, parts
<1>5. \A k \in 1..n : params[k] \in A /\ (params[k] \in S <=> k > d)
  <2>1. \A k \in 1..n : params[k] \in A
    <3> HIDE DEF A
    <3> QED BY <1>1
  <2> HIDE DEF A
  <2> QED BY <1>2, <2>1
<1>6. LastOf(given, params, d, A)
  <2> HIDE DEF A, S
  <2>1. params \in Seq(A) /\ d \in 0..Len(params) /\ \A k \in 1..Len(params) : params[k] \in S <=> k > d
    BY <1>1, <1>2, <1>5
  <2> QED BY <2>1, OnlyLast
<1> HIDE DEF given, S
<1>7. Len(given) = n - d /\ DOMAIN given = 1..(n - d) /\ \A j \in 1..(n - d) : given[j] = params[d + j]
  <2> HIDE DEF A
  <2> QED BY <1>1, <1>2, <1>6 DEF LastOf
<1>8. ASSUME NEW j \in 1..(n - d) PROVE D[j] = params[d + j].default /\ Survives(params[d + j])
  <2>1. d + j \in 1..n /\ d + j > d
    BY <1>1, <1>2
  <2> DEFINE p == params[d + j]
  <2>2. p.default # <<>> /\ (PrintedAsItIs(p) \/ PrintedInQuotes(p))
    BY <1>2, <1>3, <2>1
  <2>3. D[j] = p.default
    BY <1>7
  <2> HIDE DEF p
  <2>4. Survives(p)
    BY <2>2, SimpleSurvives
  <2> QED BY <2>3, <2>4 DEF p
<1>9. CASE given = <<>>
  <2>1. n - d = 0 /\ parts = <<>>
    BY <1>4, <1>7, <1>9
  <2> QED BY <1>1, <1>2, <2>1 DEF ValuesBack, parts, params
<1>10. CASE given # <<>>
  <2>1. n - d \in Nat \ {0}
    <3>1. n - d \in Nat /\ (n - d = 0 => given = <<>>)
      <4> HIDE DEF A
      <4>1. n - d \in Nat
        BY <1>1, <1>2
      <4>2. given \in Seq(A)
        BY <1>6 DEF LastOf
      <4>3. Len(given) = 0 => given = <<>>
        BY <4>2
      <4> QED BY <1>7, <4>1, <4>3
    <3> QED BY <1>10, <3>1
  <2>2. D \in Seq(X) /\ Len(D) = n - d
    <3>1. \A j \in 1..(n - d) : D[j] \in X
      BY <1>8 DEF Survives, Shape
    <3>2. DOMAIN D = 1..(n - d)
      BY <1>7
    <3> HIDE DEF D, X
    <3> DEFINE m == n - d
    <3>3. m \in Nat /\ DOMAIN D = 1..m /\ D = [j \in 1..m |-> D[j]] /\ \A j \in 1..m : D[j] \in X
      BY <2>1, <3>1, <3>2, <1>7 DEF D
    <3> HIDE DEF m
    <3>4. D \in [1..m -> X]
      BY <3>3
    <3> QED BY <3>3, <3>4, IsASeq DEF m
  <2>3. D # <<>> /\ \A k \in 1..Len(D) : Shape(D[k], DefaultPieces)
    BY <1>8, <2>1, <2>2 DEF Survives
  <2> HIDE DEF D
  <2>4. PICK D2 : Bared(D, D2, DefaultPieces) /\ Function!Split(Function!Unquoted(Function!Join(D, B)), B) = D2
    <3>1. B \in DefaultPieces /\ D \in Seq(Seq(DefaultPieces))
      BY <2>2 DEF DefaultPieces
    <3> QED BY <2>3, <3>1, SplitsAgain
  <2>5. parts = D2 /\ Len(D2) = n - d
    BY <1>4, <1>10, <2>2, <2>4 DEF Bared
  <2>6. ASSUME NEW j \in 1..(n - d) PROVE Function!parseArgDefault(parts[j]) = params[d + j].value
    <3>1. D[j] = params[d + j].default /\ Survives(params[d + j])
      BY <1>8
    <3>2. \/ D2[j] = D[j]
          \/ Len(D[j]) = 5 /\ Match(D[j], 1) /\ D2[j] = <<D[j][2]>>
      BY <2>2, <2>4 DEF Bared
    <3> QED BY <2>5, <3>1, <3>2 DEF Survives
  <2> QED BY <2>5, <2>6 DEF ValuesBack, parts, params
<1> QED BY <1>9, <1>10

(* So every parameter has its own.                                         *)
LEMMA EachItsValue ==
    ASSUME NEW f \in Functions, HasSimpleDefaults(f), NEW i \in 1..Len(f.params)
    PROVE  Function!parseArgDefault(Function!argdef(f, i)) = f.params[i].value
<1> DEFINE parts == Function!argdefaults(f)
           n == Len(f.params)
<1>1. n \in Nat /\ DOMAIN f.params = 1..n
  BY DefaultsComeLast
<1>2. PICK d : WithDefault(f, d)
  BY DefaultsComeLast
<1>3. d \in 0..n /\ \A k \in 1..n : f.params[k].default # <<>> <=> k > d
  BY <1>2 DEF WithDefault
<1>4. Len(parts) = n - d /\ \A j \in 1..(n - d) : Function!parseArgDefault(parts[j]) = f.params[d + j].value
  BY <1>2, ValuesComeBack DEF ValuesBack
<1>5. Function!argdef(f, i) = IF i > d THEN parts[i - d] ELSE <<>>
  <2>1. n - Len(parts) = d
    BY <1>1, <1>3, <1>4
  <2> QED BY <2>1 DEF Function!argdef
<1> HIDE DEF parts
<1>6. CASE i > d
  <2>1. i - d \in 1..(n - d) /\ d + (i - d) = i
    BY <1>1, <1>3, <1>6
  <2> QED BY <1>4, <1>5, <1>6, <2>1
<1>7. CASE ~(i > d)
  <2>1. Function!argdef(f, i) = <<>>
    BY <1>5, <1>7
  <2>2. f.params[i].value = <<>>
    <3>1. f.params[i].default = <<>>
      BY <1>3, <1>7
    <3>2. PrintedAsItIs(f.params[i]) \/ PrintedInQuotes(f.params[i])
      BY <1>1 DEF HasSimpleDefaults
    <3> QED BY <3>1, <3>2, NoDefault
  <2>3. Function!parseArgDefault(<<>>) = <<>>
    BY ParsePlain
  <2> QED BY <2>1, <2>2, <2>3
<1> QED BY <1>6, <1>7

(* What the detail of a function is to list.                               *)
Declared(p) == [name |-> p.name, type |-> p.type, default |-> p.value]
AllDeclared(f) == [i \in 1..(Len(f.params) - 3) |-> Declared(f.params[i + 3])]

(* The argument made of the j-th parameter after x, y and z.               *)
Argument(f, j) == [order |-> j - 1, name |-> f.params[j + 3].name, type |-> f.params[j + 3].type,
                   default |-> f.params[j + 3].value]

(* The map of arguments has these in it, and no others.                    *)
LEMMA ArgumentsInOrder ==
    ASSUME NEW f \in Functions, Function!IsTileFunction(f), ~Function!RowPanics(f), HasSimpleDefaults(f)
    PROVE  LET args == Function!Arguments(f)
               m == Len(f.params) - 3
           IN  m \in Nat /\ {args[n] : n \in DOMAIN args} = {Argument(f, j) : j \in 1..m}
<1> DEFINE params == f.params
           A == Function!ToSet(params)
           args == Function!Arguments(f)
           types == Function!argtypes(f)
           m == Len(params) - 3
<1>1. params \in Seq(A) /\ Len(params) \in Nat /\ DOMAIN params = 1..Len(params) /\ Len(params) >= 3
  BY DefaultsComeLast DEF Function!IsTileFunction
<1>2. m \in Nat
  BY <1>1
<1>3. \A i \in 1..Len(params) : types[i] = params[i]
  <2> DEFINE S == Function!Inputs(f)
  <2>1. types = Table!Only(params, S)
    BY SameOnly DEF Function!argtypes
  <2>2. \A i \in 1..Len(params) : params[i] \in S
    BY NoOutputs
  <2> HIDE DEF S, types
  <2>3. params \in Seq(A) /\ 0 \in 0..Len(params) /\ \A k \in 1..Len(params) : params[k] \in S <=> k > 0
    BY <1>1, <2>2
  <2> HIDE DEF params, A
  <2>4. LastOf(types, params, 0, A)
    BY <2>1, <2>3, OnlyLast
  <2> QED BY <1>1, <2>4 DEF LastOf
<1>4. \A i, j \in 1..Len(params) : params[i].name = params[j].name => i = j
  <2>1. \A i, j \in 1..Len(params) : i < j => params[i].name # params[j].name
    BY <1>1 DEF HasSimpleDefaults
  <2> HIDE DEF params
  <2>2. \A i, j \in 1..Len(params) : i < j \/ j < i \/ i = j
    BY <1>1
  <2> QED BY <2>1, <2>2
<1> DEFINE names == {params[i].name : i \in 4..Len(params)}
           nth(n) == CHOOSE j \in 4..Len(params) : params[j].name = n
<1>5. args = [n \in names |->
                 [order |-> nth(n) - 4, name |-> n, type |-> types[nth(n)].type,
                  default |-> Function!parseArgDefault(Function!argdef(f, nth(n)))]]
  BY Zenon DEF Function!Arguments
<1>6. ASSUME NEW i \in 4..Len(params) PROVE args[params[i].name] = Argument(f, i - 3)
  <2> DEFINE n == params[i].name
  <2>1. n \in names /\ \E j \in 4..Len(params) : params[j].name = n
    OBVIOUS
  <2>2. nth(n) \in 4..Len(params) /\ params[nth(n)].name = n
    BY <2>1
  <2>3. nth(n) = i
    <3> HIDE DEF params, nth
    <3>1. i \in 1..Len(params) /\ nth(n) \in 1..Len(params)
      BY <1>1, <2>2
    <3> QED BY <1>4, <2>2, <3>1
  <2>4. args[n] = [order |-> i - 4, name |-> n, type |-> types[i].type,
                   default |-> Function!parseArgDefault(Function!argdef(f, i))]
    <3> HIDE DEF names, nth, n
    <3> QED BY <1>5, <2>1, <2>3
  <2>5. types[i] = params[i] /\ Function!parseArgDefault(Function!argdef(f, i)) = params[i].value
    <3>1. i \in 1..Len(params)
      BY <1>1
    <3> QED BY <1>3, <3>1, EachItsValue
  <2>6. (i - 3) - 1 = i - 4 /\ (i - 3) + 3 = i
    BY <1>1
  <2> QED BY <2>4, <2>5, <2>6 DEF Argument
<1>7. DOMAIN args = names
  BY <1>5
<1> HIDE DEF args
<1>8. {args[n] : n \in DOMAIN args} = {args[params[i].name] : i \in 4..Len(params)}
  BY <1>7
<1>9. {args[params[i].name] : i \in 4..Len(params)} = {Argument(f, j) : j \in 1..m}
  <2>1. \A i \in 4..Len(params) : i - 3 \in 1..m
    BY <1>1
  <2>2. ASSUME NEW j \in 1..m PROVE j + 3 \in 4..Len(params) /\ args[params[j + 3].name] = Argument(f, j)
    <3>1. j + 3 \in 4..Len(params) /\ (j + 3) - 3 = j
      BY <1>1
    <3> QED BY <1>6, <3>1
  <2> HIDE DEF params, m
  <2> QED BY <1>6, <2>1, <2>2
<1> QED BY <1>2, <1>8, <1>9 DEF args

(* In that order they are listed.                                          *)
LEMMA FunctionListing ==
    ASSUME NEW f \in Functions, Function!IsTileFunction(f), ~Function!RowPanics(f), HasSimpleDefaults(f)
    PROVE  Function!getFunctionDetailJSON(Function!getFunctionLayer(f)) = AllDeclared(f)
<1> DEFINE lyr == Function!getFunctionLayer(f)
           m == Len(f.params) - 3
           g == [j \in 1..m |-> Argument(f, j)]
           S == {lyr.Arguments[n] : n \in DOMAIN lyr.Arguments}
           sorted == Function!Sorted(S)
<1>1. lyr.Arguments = Function!Arguments(f)
  BY DEF Function!getFunctionLayer
<1>2. m \in Nat /\ S = {Argument(f, j) : j \in 1..m}
  <2> HIDE DEF lyr
  <2> QED BY <1>1, ArgumentsInOrder
<1>3. S = {g[j] : j \in 1..m}
  BY <1>2
<1>4. Grow(g, m)
  <2>1. \A j \in 1..m : g[j].order = j - 1
    BY DEF Argument
  <2> HIDE DEF g
  <2> QED BY <1>2, <2>1 DEF Grow
<1> HIDE DEF S
<1>5. sorted = [j \in 1..m |-> g[j]]
  <2> HIDE DEF g
  <2> QED BY <1>2, <1>3, <1>4, SortedGrow, SameSorted
<1>6. Function!getFunctionDetailJSON(lyr) =
        [i \in DOMAIN sorted |-> [name |-> sorted[i].name, type |-> sorted[i].type,
                                  default |-> sorted[i].default]]
  BY Zenon DEF Function!getFunctionDetailJSON, S
<1> HIDE DEF sorted
<1>7. DOMAIN sorted = 1..m /\ \A j \in 1..m : sorted[j] = Argument(f, j)
  BY <1>5
<1>8. \A j \in 1..m : [name |-> sorted[j].name, type |-> sorted[j].type, default |-> sorted[j].default]
                      = Declared(f.params[j + 3])
  <2> SUFFICES ASSUME NEW j \in 1..m
               PROVE  [name |-> sorted[j].name, type |-> sorted[j].type, default |-> sorted[j].default]
                      = Declared(f.params[j + 3])
    OBVIOUS
  <2> DEFINE p == f.params[j + 3]
             a == sorted[j]
  <2>1. a = Argument(f, j)
    BY <1>7
  <2> HIDE DEF a
  <2>2. a.name = p.name /\ a.type = p.type /\ a.default = p.value
    BY Zenon, <2>1 DEF Argument
  <2> HIDE DEF p
  <2>3. [name |-> a.name, type |-> a.type, default |-> a.default] = Declared(p)
    BY <2>2 DEF Declared
  <2> QED BY <2>3 DEF a, p
<1> QED BY <1>6, <1>7, <1>8 DEF AllDeclared

-----------------------------------------------------------------------------
(* The properties of a table.                                              *)

Column(c) == [name |-> c.name, type |-> c.type]
Shown(t) == Table!Only(t.columns, {c \in Table!ToSet(t.columns) : ~Table!IsGeometry(c)})

(* The properties are listed in the order of the columns.                  *)
LEMMA TableListing ==
    ASSUME NEW t \in Tables
    PROVE  Table!getTableDetailJSON(Table!getTableLayer(t)) =
              [i \in DOMAIN Shown(t) |-> Column(Shown(t)[i])]
<1> DEFINE columns == t.columns
           A == Table!ToSet(columns)
           plain == {c \in A : ~Table!IsGeometry(c)}
           shown == Table!Only(columns, plain)
           lyr == Table!getTableLayer(t)
           props == {i \in DOMAIN columns : ~Table!IsGeometry(columns[i])}
           nth(n) == CHOOSE j \in props : columns[j].name = n
           names == {columns[i].name : i \in props}
           property(i) == [name |-> columns[i].name, type |-> columns[i].type, order |-> i]
           S == {lyr.Properties[n] : n \in DOMAIN lyr.Properties}
           sorted == Table!Sorted(S)
<1>1. columns \in Seq(A) /\ \A i, j \in DOMAIN columns : columns[i].name = columns[j].name => i = j
  BY TablesAssumption
<1>2. PICK m, place : PlacesOf(place, m, columns, plain, Len(columns)) /\ Picks(shown, place, m, columns)
  <2> HIDE DEF columns, A, plain
  <2> QED BY <1>1, OnlyPicks
<1>3. Len(columns) \in Nat /\ DOMAIN columns = 1..Len(columns) /\ \A i \in 1..Len(columns) : columns[i] \in A
  <2> HIDE DEF columns, A
  <2> QED BY <1>1
<1>4. lyr.Properties = [n \in names |-> [name |-> n, type |-> columns[nth(n)].type, order |-> nth(n)]]
  BY DEF Table!getTableLayer
<1>5. ASSUME NEW i \in props PROVE lyr.Properties[columns[i].name] = property(i)
  <2> DEFINE n == columns[i].name
  <2>1. n \in names /\ nth(n) \in props /\ columns[nth(n)].name = n
    OBVIOUS
  <2>2. nth(n) = i
    BY <1>1, <2>1
  <2> HIDE DEF nth, names, lyr
  <2> QED BY <1>4, <2>1, <2>2
<1>6. DOMAIN lyr.Properties = names
  BY <1>4
<1> HIDE DEF lyr, columns, A
<1>7. S = {property(i) : i \in props}
  <2>1. S = {lyr.Properties[columns[i].name] : i \in props}
    BY <1>6
  <2> HIDE DEF S, props, property
  <2> QED BY <1>5, <2>1
<1>8. \A i \in 1..Len(columns) : i \in props <=> columns[i] \in plain
  BY <1>3
<1> HIDE DEF plain
<1>9. /\ m \in Nat /\ place \in [1..m -> 1..Len(columns)]
      /\ \A i, j \in 1..m : i < j => place[i] < place[j]
      /\ \A i \in 1..m : place[i] \in props
      /\ \A k \in props : \E i \in 1..m : place[i] = k
  <2>1. props \subseteq 1..Len(columns)
    BY <1>3
  <2> HIDE DEF props
  <2> QED BY <1>2, <1>8, <2>1 DEF PlacesOf
<1> DEFINE g == [j \in 1..m |-> property(place[j])]
<1> HIDE DEF props, S
<1>10. S = {g[j] : j \in 1..m}
  <2>1. \A j \in 1..m : g[j] = property(place[j]) /\ place[j] \in props
    BY <1>9
  <2>2. \A k \in props : \E j \in 1..m : place[j] = k
    BY <1>9
  <2> HIDE DEF g, property
  <2> QED BY <1>7, <2>1, <2>2
<1>11. Grow(g, m)
  <2>1. \A j \in 1..m : g[j].order = place[j] /\ place[j] \in Int
    BY <1>3, <1>9
  <2> HIDE DEF g
  <2> QED BY <1>9, <2>1 DEF Grow
<1>12. sorted = [j \in 1..m |-> g[j]]
  <2> HIDE DEF g
  <2> QED BY <1>9, <1>10, <1>11, SortedGrow
<1>13. Table!getTableDetailJSON(lyr) =
         [i \in DOMAIN sorted |-> [name |-> sorted[i].name, type |-> sorted[i].type]]
  BY Zenon DEF Table!getTableDetailJSON, S
<1> HIDE DEF sorted
<1>14. DOMAIN sorted = 1..m /\ \A j \in 1..m : sorted[j] = property(place[j])
  BY <1>12
<1>15. DOMAIN shown = 1..m /\ \A j \in 1..m : shown[j] = columns[place[j]]
  BY <1>2 DEF Picks
<1>16. Shown(t) = shown
  BY DEF Shown, columns, A, plain
<1> HIDE DEF shown
<1>17. \A j \in 1..m : [name |-> sorted[j].name, type |-> sorted[j].type] = Column(shown[j])
  BY <1>14, <1>15 DEF Column
<1> QED BY <1>13, <1>14, <1>15, <1>16, <1>17 DEF lyr

-----------------------------------------------------------------------------
(* The invariant: a detail that has been answered lists what it is to.     *)
ListingOf(id) ==
    IF id \in FunctionIds THEN AllDeclared(FunctionOf(id))
    ELSE [i \in DOMAIN Shown(TableOf(id)) |-> Column(Shown(TableOf(id))[i])]
ListedOk(h) == Served(h, "detail") => reply[h].body[1].of = ListingOf(req[h].names[1])

(* That is what the property says.                                         *)
LEMMA ListedOkIsEnough == (\A h \in Handlers : ListedOk(h)) => ListedAsDeclared
BY Zenon DEF ListedAsDeclared, ListedOk, ListingOf, AllDeclared, Declared, Shown, Column

(* The listing of a layer of the registry.                                 *)
LEMMA ListingOfALayer ==
    ASSUME DefaultsAreSimple, Loaded, ReadWell, server = "serving", NEW id \in DOMAIN globalLayers
    PROVE  LET lyr == globalLayers[id]
           IN  ListingOf(id) = IF lyr.kind = "function" THEN Function!getFunctionDetailJSON(lyr)
                               ELSE Table!getTableDetailJSON(lyr)
<1>1. id \in TableIds \cup FunctionIds
  BY DEF Loaded
<1>2. CASE id \in FunctionIds
  <2> DEFINE f == FunctionOf(id)
  <2>1. globalLayers[id] = Function!getFunctionLayer(f) /\ ~Function!RowPanics(f)
    BY <1>2 DEF Loaded, ReadWell
  <2>2. f \in Functions /\ Function!IsTileFunction(f)
    BY <1>2, FunctionOfId
  <2>3. HasSimpleDefaults(f)
    BY <2>2 DEF DefaultsAreSimple
  <2> HIDE DEF f
  <2>4. Function!getFunctionDetailJSON(globalLayers[id]) = AllDeclared(f)
    BY <2>1, <2>2, <2>3, FunctionListing
  <2>5. globalLayers[id].kind = "function"
    BY <2>1 DEF Function!getFunctionLayer
  <2> QED BY <1>2, <2>4, <2>5 DEF ListingOf, f
<1>3. CASE id \notin FunctionIds
  <2> DEFINE t == TableOf(id)
  <2>1. id \in TableIds \ FunctionIds
    BY <1>1, <1>3
  <2>2. globalLayers[id] = Table!getTableLayer(t)
    BY <2>1 DEF ReadWell
  <2>3. t \in Tables
    <3>1. \E u \in Tables : u.id = id
      BY <2>1 DEF TableIds
    <3> QED BY <3>1 DEF TableOf
  <2> HIDE DEF t
  <2>4. Table!getTableDetailJSON(globalLayers[id]) = [i \in DOMAIN Shown(t) |-> Column(Shown(t)[i])]
    BY <2>2, <2>3, TableListing
  <2>5. globalLayers[id].kind = "table"
    BY <2>2 DEF Table!getTableLayer
  <2> QED BY <1>3, <2>4, <2>5 DEF ListingOf, t
<1> QED BY <1>2, <1>3

(* A detail is answered with it.                                           *)
LEMMA DetailListed ==
    ASSUME DefaultsAreSimple, IInv, Loaded, ReadWell, NEW h \in Handlers, Detail(h)
    PROVE  ListedOk(h)'
<1> DEFINE r == req[h]
           id == r.names[1]
           lyr == globalLayers[id]
           listing == IF lyr.kind = "function" THEN Function!getFunctionDetailJSON(lyr)
                      ELSE Table!getTableDetailJSON(lyr)
           e == [layer |-> id, url |-> Url!TileURL(r, id), of |-> listing]
<1>1. server = "serving"
  BY DEF Detail, Inform, In
<1>2. /\ reply'[h] = IF id \in DOMAIN globalLayers THEN Reply(200, <<e>>) ELSE Reply(404, <<>>)
      /\ req' = req
  BY DEF Detail, Inform, IInv, Functional
<1>3. e.of = listing
  OBVIOUS
<1>4. CASE id \in DOMAIN globalLayers
  <2>1. ListingOf(id) = listing
    <3> HIDE DEF id
    <3> QED BY <1>1, <1>4, ListingOfALayer
  <2> HIDE DEF e, listing
  <2>2. reply'[h].body = <<e>>
    BY <1>2, <1>4 DEF Reply
  <2>3. reply'[h].body[1] = e
    BY <2>2
  <2>4. ListingOf(req'[h].names[1]) = listing
    BY <1>2, <2>1
  <2>5. (reply[h].body[1].of = ListingOf(req[h].names[1]))'
    BY <1>3, <2>3, <2>4 DEF ListingOf
  <2> QED BY <2>5 DEF ListedOk
<1>5. CASE id \notin DOMAIN globalLayers
  BY <1>2, <1>5 DEF ListedOk, Served, Reply
<1> QED BY <1>4, <1>5

(* Whatever else a handler does answers no detail.                         *)
LEMMA OtherListed ==
    ASSUME IInv, NEW h \in Handlers, ListedOk(h),
           Arrive(h) \/ LayerStep(h) \/ TemplateStep(h) \/ Ask(h) \/ AskFails(h)
           \/ Ignore(h) \/ Track(h) \/ List(h) \/ ReadFails(h)
    PROVE  ListedOk(h)'
<1> USE DEF Functional, handling, Goto
<1>0. Functional /\ HandlerInv(h)
  BY DEF IInv
<1>1. ASSUME reply'[h].code # 200 PROVE ListedOk(h)'
  BY <1>1 DEF ListedOk, Served
<1>2. ASSUME req'[h].kind # "detail" PROVE ListedOk(h)'
  BY <1>2 DEF ListedOk, Served
<1>3. ASSUME pc[h] \in Working \cup {"count"}, req' = req PROVE ListedOk(h)'
  <2>1. req[h].kind = "tile"
    BY <1>0, <1>3 DEF HandlerInv, Halfway, Countable
  <2> QED BY <1>2, <1>3, <2>1
<1>4. CASE Arrive(h)
  <2>1. reply'[h].code = 0
    BY <1>0, <1>4 DEF Arrive, NoReply, Reply
  <2> QED BY <1>1, <2>1
<1>5. CASE LayerStep(h)
  <2>1. pc[h] = "layer" /\ req' = req
    BY <1>5 DEF LayerStep, SkipDuplicate, FindNothing, InvalidTile, CallFunction, FilterPanics, SelectTable,
                Respond, RespondFails, Found, Wanted, More, In, Answer, Lost
  <2> QED BY <1>3, <2>1 DEF Working
<1>6. CASE TemplateStep(h)
  <2>1. req' = req /\ reply' = reply
    BY <1>6 DEF TemplateStep, ReadTemplate, MapRace, LockTemplates, StoreTemplate, UnlockTemplates
  <2> QED BY <2>1 DEF ListedOk, Served, ListingOf
<1>7. CASE Ask(h) \/ AskFails(h) \/ Ignore(h) \/ Track(h)
  <2>1. pc[h] \in {"ask", "count"} /\ req' = req
    BY <1>7 DEF Ask, AskFails, Ignore, Track, In, Answer
  <2> QED BY <1>3, <2>1 DEF Working, AtLayer
<1>8. CASE List(h)
  <2>1. pc[h] = "list" /\ req' = req
    BY <1>8 DEF List, Inform, In
  <2>2. req[h].kind = "list"
    BY <1>0, <2>1 DEF HandlerInv
  <2> QED BY <1>2, <2>1, <2>2
<1>9. CASE ReadFails(h)
  <2>1. reply'[h].code = 500
    BY <1>0, <1>9 DEF ReadFails, Inform, Reply
  <2> QED BY <1>1, <2>1
<1> QED BY <1>4, <1>5, <1>6, <1>7, <1>8, <1>9

(* Every step keeps what has been listed as it should be.                  *)
LEMMA ListedNext ==
    ASSUME DefaultsAreSimple, IInv, Loaded, ReadWell, \A h \in Handlers : ListedOk(h), [Next]_vars
    PROVE  \A h \in Handlers : ListedOk(h)'
<1>1. CASE UNCHANGED <<req, reply>>
  BY <1>1 DEF ListedOk, Served, ListingOf
<1>2. CASE Load
  <2>1. UNCHANGED <<req, reply>>
    BY <1>2 DEF Load
  <2> QED BY <1>1, <2>1
<1>3. CASE UNCHANGED vars
  <2>1. UNCHANGED <<req, reply>>
    BY <1>3 DEF vars
  <2> QED BY <1>1, <2>1
<1>4. ASSUME NEW g \in Handlers, Arrive(g) \/ Step(g), NEW h \in Handlers PROVE ListedOk(h)'
  <2>1. CASE h = g
    <3>1. CASE Detail(g)
      BY <2>1, <3>1, DetailListed
    <3>2. CASE \/ Arrive(g) \/ LayerStep(g) \/ TemplateStep(g) \/ Ask(g) \/ AskFails(g)
               \/ Ignore(g) \/ Track(g) \/ List(g) \/ ReadFails(g)
      BY <2>1, <3>2, OtherListed
    <3> QED BY <1>4, <3>1, <3>2 DEF Step, LastStep
  <2>2. CASE h # g
    <3>1. req'[h] = req[h] /\ reply'[h] = reply[h]
      BY <1>4, <2>2, OthersUnmoved DEF Unmoved, IInv
    <3> QED BY <3>1 DEF ListedOk, Served, ListingOf
  <2> QED BY <2>1, <2>2
<1> QED BY <1>2, <1>3, <1>4 DEF Next, Step

(* Whatever the tables and the functions, as long as the defaults of the   *)
(* functions are printed simply: a detail lists the arguments with their   *)
(* values or the columns, in the order of their declaration                *)
(* (getFunctionLayers, parseArgDefault, getFunctionDetailJSON,             *)
(* getTableDetailJSON).                                                    *)
THEOREM DetailsListAsDeclared ==
    ASSUME DefaultsAreSimple PROVE Spec => []ListedAsDeclared
<1> DEFINE ListedInv == \A h \in Handlers : ListedOk(h)
<1>1. Init => ListedInv
  BY DEF Init, ListedOk, Served, NoReply, Reply
<1>2. IInv /\ CallsInv /\ StatementsInv /\ ListedInv /\ [Next]_vars => ListedInv'
  BY ListedNext DEF CallsInv, StatementsInv
<1>3. ListedInv => ListedAsDeclared
  BY ListedOkIsEnough
<1> QED BY <1>1, <1>2, <1>3, InitInv, NextInv, CallsInit, CallsNext, StatementsInit, StatementsNext, PTL DEF Spec
=============================================================================
