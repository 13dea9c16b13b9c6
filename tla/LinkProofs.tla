----------------------------- MODULE LinkProofs ------------------------------
(***************************************************************************)
(* Proof that the links of lists and details lead back to the layer they   *)
(* stand at: through any proxy that says what its client asked, below any  *)
(* base path, for every layer whose id a path can hold.                    *)
(***************************************************************************)
EXTENDS StatementProofs

(* What is built in m steps, each of what the one before became.           *)
StepByStep(F, X, first, m, step) ==
    F \in [0..m -> X] /\ F[0] = first /\ \A i \in 1..m : F[i] = step[i][F[i - 1]]

(* There is such a thing.                                                  *)
LEMMA StepsLead ==
    ASSUME NEW X, NEW first \in X, NEW m \in Nat, NEW step, step \in [1..m -> [X -> X]]
    PROVE  \E F : StepByStep(F, X, first, m, step)
<1> DEFINE Built(F, n) == F \in [0..n -> X] /\ F[0] = first /\ \A i \in 1..n : F[i] = step[i][F[i - 1]]
           T == {n \in Nat : n <= m => \E F : Built(F, n)}
<1>1. 0 \in T
  <2>1. Built([i \in 0..0 |-> first], 0)
    OBVIOUS
  <2> QED BY <2>1
<1>2. ASSUME NEW n \in T PROVE n + 1 \in T
  <2> SUFFICES ASSUME n + 1 <= m PROVE \E F : Built(F, n + 1)
    OBVIOUS
  <2>1. PICK F : Built(F, n)
    OBVIOUS
  <2> DEFINE G == [i \in 0..(n + 1) |-> IF i = n + 1 THEN step[i][F[n]] ELSE F[i]]
  <2>2. n \in Nat /\ F[n] \in X /\ step[n + 1] \in [X -> X]
    BY <2>1
  <2>3. G \in [0..(n + 1) -> X] /\ G[0] = first
    BY <2>1, <2>2
  <2>4. ASSUME NEW i \in 1..(n + 1) PROVE G[i] = step[i][G[i - 1]]
    <3>1. CASE i = n + 1
      BY <2>2, <3>1
    <3>2. CASE i # n + 1
      <4>1. i \in 1..n /\ i - 1 \in 0..n
        BY <2>2, <3>2
      <4>2. G[i] = F[i] /\ G[i - 1] = F[i - 1]
        BY <2>2, <4>1
      <4> QED BY <2>1, <4>1, <4>2
    <3> QED BY <3>1, <3>2
  <2> HIDE DEF G
  <2> QED BY <2>3, <2>4
<1>3. T = Nat
  <2> HIDE DEF T
  <2>1. T \subseteq Nat
    BY DEF T
  <2> QED BY <1>1, <1>2, <2>1, EveryNumber
<1>4. \E F : Built(F, m)
  BY <1>3
<1> QED BY <1>4 DEF StepByStep

-----------------------------------------------------------------------------
(* Splitting and joining.                                                  *)

(* A piece more leaves the parts of a text parts of a text.                *)
LEMMA CutType ==
    ASSUME NEW A, NEW sep, NEW x \in Seq(Seq(A \ {sep})) \ {<<>>}, NEW p \in A
    PROVE  Url!Cut(x, p, sep) \in Seq(Seq(A \ {sep})) \ {<<>>}
<1>1. Len(x) \in Nat \ {0} /\ x[Len(x)] \in Seq(A \ {sep})
  OBVIOUS
<1>3. CASE p = sep
  <2>1. Append(x, <<>>) \in Seq(Seq(A \ {sep})) /\ Len(Append(x, <<>>)) # 0
    BY <1>1
  <2> QED BY <1>3, <2>1 DEF Url!Cut
<1>4. CASE p # sep
  <2> DEFINE y == [x EXCEPT ![Len(x)] = Append(@, p)]
  <2>1. y \in Seq(Seq(A \ {sep})) /\ Len(y) = Len(x)
    <3>1. Append(x[Len(x)], p) \in Seq(A \ {sep})
      BY <1>1, <1>4
    <3> QED BY <1>1, <3>1
  <2>2. Url!Cut(x, p, sep) = y
    BY <1>4 DEF Url!Cut
  <2> QED BY <1>1, <2>1, <2>2
<1> QED BY <1>3, <1>4

(* What Split builds, of the first n pieces.                               *)
SplitOf(F, text, sep) ==
    F = [i \in 0..Len(text) |-> IF i = 0 THEN <<<<>>>> ELSE Url!Cut(F[i - 1], text[i], sep)]

SplitsBy(F, A, text, sep) ==
    /\ F[0] = <<<<>>>>
    /\ \A i \in 1..Len(text) : F[i] = Url!Cut(F[i - 1], text[i], sep)
    /\ \A i \in 0..Len(text) : F[i] \in Seq(Seq(A \ {sep})) \ {<<>>}
    /\ Url!Split(text, sep) = F[Len(text)]

(* Split builds its parts piece by piece.                                  *)
LEMMA SplitBuilds ==
    ASSUME NEW A, NEW text \in Seq(A), NEW sep
    PROVE  \E F : SplitsBy(F, A, text, sep)
<1> DEFINE X == Seq(Seq(A \ {sep})) \ {<<>>}
           step == [i \in 1..Len(text) |-> [x \in X |-> Url!Cut(x, text[i], sep)]]
           G == CHOOSE F : SplitOf(F, text, sep)
<1>1. Len(text) \in Nat /\ <<<<>>>> \in X /\ \A i \in 1..Len(text) : text[i] \in A
  OBVIOUS
<1>2. \A i \in 1..Len(text), x \in X : Url!Cut(x, text[i], sep) \in X
  BY <1>1, CutType
<1> HIDE DEF X
<1>3. \E F : SplitOf(F, text, sep)
  <2>1. \A i \in 1..Len(text) : step[i] \in [X -> X]
    BY <1>2
  <2>2. \E F \in [0..Len(text) -> X] :
           F[0] = <<<<>>>> /\ \A i \in 1..Len(text) : F[i] = step[i][F[i - 1]]
    <3> DEFINE m == Len(text)
               first == <<<<>>>>
    <3>1. m \in Nat /\ first \in X /\ step \in [1..m -> [X -> X]]
      BY <1>1, <2>1
    <3> HIDE DEF step, m, first
    <3>2. \E F : StepByStep(F, X, first, m, step)
      BY <3>1, StepsLead
    <3> QED BY <3>2 DEF m, first, StepByStep
  <2>6. PICK F \in [0..Len(text) -> X] :
           F[0] = <<<<>>>> /\ \A i \in 1..Len(text) : F[i] = step[i][F[i - 1]]
    BY <2>2
  <2>3. ASSUME NEW i \in 1..Len(text) PROVE F[i] = Url!Cut(F[i - 1], text[i], sep)
    <3>1. F[i] = step[i][F[i - 1]] /\ i - 1 \in 0..Len(text)
      BY <1>1, <2>6
    <3>2. F[i - 1] \in X
      BY <3>1
    <3> QED BY <3>1, <3>2
  <2>4. \A i \in 0..Len(text) : F[i] = IF i = 0 THEN <<<<>>>> ELSE Url!Cut(F[i - 1], text[i], sep)
    BY <1>1, <2>6, <2>3
  <2>5. SplitOf(F, text, sep)
    BY <2>4 DEF SplitOf
  <2> QED BY <2>5
<1>4. SplitOf(G, text, sep)
  BY <1>3
<1>5. Url!Split(text, sep) = G[Len(text)]
  BY Zenon DEF Url!Split, SplitOf
<1> HIDE DEF G
<1>6. G[0] = <<<<>>>> /\ \A i \in 1..Len(text) : G[i] = Url!Cut(G[i - 1], text[i], sep)
  <2>1. \A i \in 0..Len(text) : G[i] = IF i = 0 THEN <<<<>>>> ELSE Url!Cut(G[i - 1], text[i], sep)
    BY <1>1, <1>4 DEF SplitOf
  <2> QED BY <1>1, <2>1
<1>7. \A i \in 0..Len(text) : G[i] \in X
  <2> DEFINE T == {n \in Nat : n <= Len(text) => G[n] \in X}
  <2>1. 0 \in T
    BY <1>1, <1>6
  <2>2. ASSUME NEW n \in T PROVE n + 1 \in T
    <3> SUFFICES ASSUME n + 1 <= Len(text) PROVE G[n + 1] \in X
      OBVIOUS
    <3>1. n + 1 \in 1..Len(text) /\ G[n] \in X /\ (n + 1) - 1 = n
      BY <1>1
    <3> QED BY <1>2, <1>6, <3>1
  <2>3. T = Nat
    <3> HIDE DEF T
    <3>1. T \subseteq Nat
      BY DEF T
    <3> QED BY <2>1, <2>2, <3>1, EveryNumber
  <2> QED BY <1>1, <2>3
<1>8. SplitsBy(G, A, text, sep)
  BY <1>5, <1>6, <1>7 DEF X, SplitsBy
<1> QED BY <1>8

(* Nothing is one part with nothing in it.                                 *)
LEMMA SplitNothing == ASSUME NEW sep PROVE Url!Split(<<>>, sep) = <<<<>>>>
<1>1. <<>> \in Seq({}) /\ Len(<<>>) = 0
  OBVIOUS
<1>2. PICK F : SplitsBy(F, {}, <<>>, sep)
  BY <1>1, SplitBuilds
<1> QED BY <1>1, <1>2 DEF SplitsBy

(* The parts of a text are at least one, and without the sign.             *)
LEMMA SplitType ==
    ASSUME NEW A, NEW text \in Seq(A), NEW sep
    PROVE  Url!Split(text, sep) \in Seq(Seq(A \ {sep})) \ {<<>>}
<1>1. Len(text) \in 0..Len(text)
  <2>1. Len(text) \in Nat
    OBVIOUS
  <2> QED BY <2>1
<1>2. PICK F : SplitsBy(F, A, text, sep)
  BY SplitBuilds
<1> QED BY <1>1, <1>2 DEF SplitsBy

(* A piece more is one cut more.                                           *)
LEMMA SplitMore ==
    ASSUME NEW A, NEW text \in Seq(A), NEW p \in A, NEW sep
    PROVE  Url!Split(Append(text, p), sep) = Url!Cut(Url!Split(text, sep), p, sep)
<1> DEFINE more == Append(text, p)
<1>1. /\ more \in Seq(A) /\ Len(text) \in Nat /\ Len(more) = Len(text) + 1
      /\ more[Len(text) + 1] = p /\ \A i \in 1..Len(text) : more[i] = text[i]
  OBVIOUS
<1>0. PICK F : SplitsBy(F, A, text, sep)
  BY SplitBuilds
<1> HIDE DEF more
<1>12. more \in Seq(A)
  BY <1>1
<1>9. PICK G : SplitsBy(G, A, more, sep)
  BY <1>12, SplitBuilds
<1>2. /\ F[0] = <<<<>>>> /\ \A i \in 1..Len(text) : F[i] = Url!Cut(F[i - 1], text[i], sep)
      /\ Url!Split(text, sep) = F[Len(text)]
  BY <1>0 DEF SplitsBy
<1>3. /\ G[0] = <<<<>>>> /\ \A i \in 1..Len(more) : G[i] = Url!Cut(G[i - 1], more[i], sep)
      /\ Url!Split(more, sep) = G[Len(more)]
  BY <1>9 DEF SplitsBy
<1> DEFINE T == {n \in Nat : n <= Len(text) => G[n] = F[n]}
<1>4. 0 \in T
  BY <1>2, <1>3
<1>5. ASSUME NEW n \in T PROVE n + 1 \in T
  <2> SUFFICES ASSUME n + 1 <= Len(text) PROVE G[n + 1] = F[n + 1]
    OBVIOUS
  <2>1. n + 1 \in 1..Len(text) /\ n + 1 \in 1..Len(more) /\ G[n] = F[n] /\ (n + 1) - 1 = n
    BY <1>1
  <2> QED BY <1>1, <1>2, <1>3, <2>1
<1>6. T = Nat
  <2> HIDE DEF T
  <2>1. T \subseteq Nat
    BY DEF T
  <2> QED BY <1>4, <1>5, <2>1, EveryNumber
<1>7. G[Len(text)] = F[Len(text)]
  BY <1>1, <1>6
<1>8. G[Len(text) + 1] = Url!Cut(G[Len(text)], p, sep)
  <2>1. Len(text) + 1 \in 1..Len(more) /\ (Len(text) + 1) - 1 = Len(text)
    BY <1>1
  <2> QED BY <1>1, <1>3, <2>1
<1> QED BY <1>1, <1>2, <1>3, <1>7, <1>8 DEF more

(* A text that is no sign goes to the last part.                           *)
LEMMA CutLast ==
    ASSUME NEW A, NEW S \in Seq(Seq(A)), NEW x \in Seq(A), NEW p \in A, NEW sep, p # sep
    PROVE  Url!Cut(Append(S, x), p, sep) = Append(S, Append(x, p))
<1> DEFINE y == Append(S, x)
           z == Append(S, Append(x, p))
<1>1. /\ y \in Seq(Seq(A)) /\ Len(y) = Len(S) + 1 /\ Len(S) \in Nat
      /\ y[Len(S) + 1] = x /\ \A i \in 1..Len(S) : y[i] = S[i]
  OBVIOUS
<1>2. Append(x, p) \in Seq(A)
  OBVIOUS
<1>3. /\ z \in Seq(Seq(A)) /\ Len(z) = Len(S) + 1
      /\ z[Len(S) + 1] = Append(x, p) /\ \A i \in 1..Len(S) : z[i] = S[i]
  BY <1>2
<1>4. Url!Cut(y, p, sep) = [y EXCEPT ![Len(y)] = Append(@, p)]
  BY DEF Url!Cut
<1> HIDE DEF y, z
<1>5. /\ DOMAIN y = 1..(Len(S) + 1) /\ DOMAIN z = 1..(Len(S) + 1)
      /\ z = [i \in 1..(Len(S) + 1) |-> z[i]]
  BY <1>1, <1>3
<1>6. [y EXCEPT ![Len(y)] = Append(@, p)] = z
  <2>1. ASSUME NEW i \in 1..(Len(S) + 1)
        PROVE  [y EXCEPT ![Len(y)] = Append(@, p)][i] = z[i]
    <3>1. i \in 1..Len(S) \/ i = Len(S) + 1
      BY <1>1
    <3> QED BY <1>1, <1>3, <1>5, <3>1
  <2> QED BY <1>5, <2>1
<1> QED BY <1>4, <1>6 DEF y, z

(* The beginning of a text, piece by piece.                                *)
LEMMA OnePieceMore ==
    ASSUME NEW A, NEW c \in Seq(A), NEW b \in Seq(A), NEW n \in Nat, n + 1 <= Len(b)
    PROVE  /\ SubSeq(b, 1, n) \in Seq(A) /\ c \o SubSeq(b, 1, n) \in Seq(A) /\ b[n + 1] \in A
           /\ SubSeq(b, 1, n + 1) = Append(SubSeq(b, 1, n), b[n + 1])
           /\ c \o SubSeq(b, 1, n + 1) = Append(c \o SubSeq(b, 1, n), b[n + 1])
<1> DEFINE x == SubSeq(b, 1, n)
           y == SubSeq(b, 1, n + 1)
<1>1. x \in Seq(A) /\ Len(x) = n /\ b[n + 1] \in A /\ \A i \in 1..n : x[i] = b[i]
  OBVIOUS
<1>2. y \in Seq(A) /\ Len(y) = n + 1 /\ \A i \in 1..(n + 1) : y[i] = b[i]
  OBVIOUS
<1> HIDE DEF x, y
<1>3. y = Append(x, b[n + 1])
  BY <1>1, <1>2, AppendProperties, SeqEqual
<1>4. c \o y = Append(c \o x, b[n + 1]) /\ c \o x \in Seq(A)
  BY <1>1, <1>3
<1> QED BY <1>1, <1>3, <1>4 DEF x, y

(* What has no sign in it is one part.                                     *)
EndsAfter(c, A, sep, S) ==
    c \in Seq(A) /\ S \in Seq(Seq(A)) /\ Url!Split(c, sep) = Append(S, <<>>)

Segment(b, A, sep) == b \in Seq(A \ {sep})
GoesOn(c, b, sep, S) == Url!Split(c \o b, sep) = Append(S, b)

(* A segment goes to the last part, whatever came before it.               *)
LEMMA SplitOn ==
    ASSUME NEW A, NEW sep, NEW c, NEW S, EndsAfter(c, A, sep, S), NEW b, Segment(b, A, sep)
    PROVE  GoesOn(c, b, sep, S)
<1>0. c \in Seq(A) /\ S \in Seq(Seq(A)) /\ Url!Split(c, sep) = Append(S, <<>>)
  BY DEF EndsAfter
<1> DEFINE T == {n \in Nat : n <= Len(b) =>
                    Url!Split(c \o SubSeq(b, 1, n), sep) = Append(S, SubSeq(b, 1, n))}
<1>1. b \in Seq(A) /\ Len(b) \in Nat /\ \A i \in 1..Len(b) : b[i] \in A /\ b[i] # sep
  BY DEF Segment
<1>2. 0 \in T
  <2>1. SubSeq(b, 1, 0) = <<>> /\ c \o <<>> = c
    BY <1>0, <1>1
  <2> QED BY <1>0, <2>1
<1>3. ASSUME NEW n \in T PROVE n + 1 \in T
  <2> SUFFICES ASSUME n + 1 <= Len(b)
               PROVE  Url!Split(c \o SubSeq(b, 1, n + 1), sep) = Append(S, SubSeq(b, 1, n + 1))
    OBVIOUS
  <2> DEFINE x == SubSeq(b, 1, n)
             p == b[n + 1]
  <2>1. Url!Split(c \o x, sep) = Append(S, x) /\ n \in Nat /\ p # sep
    BY <1>1
  <2>2. /\ x \in Seq(A) /\ c \o x \in Seq(A) /\ p \in A /\ SubSeq(b, 1, n + 1) = Append(x, p)
        /\ c \o SubSeq(b, 1, n + 1) = Append(c \o x, p)
    BY <1>0, <1>1, <2>1, OnePieceMore
  <2> HIDE DEF x, p
  <2>3. Url!Split(Append(c \o x, p), sep) = Url!Cut(Append(S, x), p, sep)
    <3> DEFINE d == c \o x
    <3>1. d \in Seq(A) /\ p \in A /\ Url!Split(d, sep) = Append(S, x)
      BY <2>1, <2>2
    <3> HIDE DEF d
    <3>2. Url!Split(Append(d, p), sep) = Url!Cut(Url!Split(d, sep), p, sep)
      BY Zenon, <3>1, SplitMore
    <3> QED BY <3>1, <3>2 DEF d
  <2>4. Url!Cut(Append(S, x), p, sep) = Append(S, Append(x, p))
    BY <1>0, <2>1, <2>2, CutLast
  <2> QED BY <2>2, <2>3, <2>4
<1>4. T = Nat
  <2> HIDE DEF T
  <2>1. T \subseteq Nat
    BY DEF T
  <2> QED BY <1>2, <1>3, <2>1, EveryNumber
<1>5. Url!Split(c \o SubSeq(b, 1, Len(b)), sep) = Append(S, SubSeq(b, 1, Len(b)))
  BY <1>1, <1>4
<1>6. SubSeq(b, 1, Len(b)) = b
  BY <1>1
<1> QED BY <1>5, <1>6 DEF GoesOn

(* A text without the sign is one part.                                    *)
LEMMA OneSegment ==
    ASSUME NEW A, NEW sep, NEW b \in Seq(A \ {sep})
    PROVE  Url!Split(b, sep) = <<b>>
<1>1. <<>> \in Seq(A)
  OBVIOUS
<1>2. <<>> \in Seq(Seq(A))
  OBVIOUS
<1>3. Url!Split(<<>>, sep) = Append(<<>>, <<>>)
  <2>1. Append(<<>>, <<>>) = <<<<>>>>
    OBVIOUS
  <2> QED BY <2>1, SplitNothing
<1>4. EndsAfter(<<>>, A, sep, <<>>)
  BY <1>1, <1>2, <1>3 DEF EndsAfter
<1>5. Segment(b, A, sep)
  BY DEF Segment
<1>6. GoesOn(<<>>, b, sep, <<>>)
  BY Zenon, <1>4, <1>5, SplitOn
<1>7. <<>> \o b = b /\ Append(<<>>, b) = <<b>>
  OBVIOUS
<1> QED BY <1>6, <1>7 DEF GoesOn

(* One more segment, after a sign.                                         *)
LEMMA SegmentMore ==
    ASSUME NEW A, NEW sep \in A, NEW c \in Seq(A), NEW b \in Seq(A \ {sep})
    PROVE  Url!Split(c \o <<sep>> \o b, sep) = Append(Url!Split(c, sep), b)
<1> DEFINE S == Url!Split(c, sep)
<1>1. S \in Seq(Seq(A))
  <2>1. S \in Seq(Seq(A \ {sep}))
    BY SplitType
  <2>2. Seq(A \ {sep}) \subseteq Seq(A)
    BY SeqMonotonic
  <2>3. Seq(Seq(A \ {sep})) \subseteq Seq(Seq(A))
    BY <2>2, SeqMonotonic
  <2> QED BY <2>1, <2>3
<1>2. Url!Split(Append(c, sep), sep) = Url!Cut(S, sep, sep)
  BY SplitMore
<1>3. Url!Cut(S, sep, sep) = Append(S, <<>>)
  BY DEF Url!Cut
<1> HIDE DEF S
<1> DEFINE d == Append(c, sep)
<1>4. Url!Split(d, sep) = Append(S, <<>>)
  BY <1>2, <1>3
<1>7. d \in Seq(A)
  OBVIOUS
<1>8. b \in Seq(A \ {sep})
  OBVIOUS
<1>5. c \o <<sep>> = d
  OBVIOUS
<1> HIDE DEF d
<1>9. EndsAfter(d, A, sep, S)
  BY <1>1, <1>4, <1>7 DEF EndsAfter
<1>6. Url!Split(d \o b, sep) = Append(S, b)
  <2>1. Segment(b, A, sep)
    BY <1>8 DEF Segment
  <2>2. GoesOn(d, b, sep, S)
    BY Zenon, <1>9, <2>1, SplitOn
  <2> QED BY <2>2 DEF GoesOn
<1> QED BY <1>5, <1>6 DEF S

-----------------------------------------------------------------------------
(* A part more of a text: a sign comes before all but the first.           *)
Glue(x, i, b, sep) == x \o (IF i = 1 THEN <<>> ELSE <<sep>>) \o b

(* It is a text again.                                                     *)
LEMMA GlueType ==
    ASSUME NEW A, NEW sep \in A, NEW x \in Seq(A), NEW i, NEW b \in Seq(A)
    PROVE  Glue(x, i, b, sep) \in Seq(A)
<1>1. (IF i = 1 THEN <<>> ELSE <<sep>>) \in Seq(A)
  OBVIOUS
<1> QED BY <1>1 DEF Glue

(* What Join builds, of the first n parts.                                 *)
JoinOf(F, parts, sep) ==
    F = [i \in 0..Len(parts) |-> IF i = 0 THEN <<>> ELSE Glue(F[i - 1], i, parts[i], sep)]

JoinsBy(F, A, parts, sep) ==
    /\ F[0] = <<>>
    /\ \A i \in 1..Len(parts) : F[i] = Glue(F[i - 1], i, parts[i], sep)
    /\ \A i \in 0..Len(parts) : F[i] \in Seq(A)
    /\ Url!Join(parts, sep) = F[Len(parts)]

(* There is such a thing.                                                  *)
LEMMA JoinBuilds ==
    ASSUME NEW A, NEW sep \in A, NEW parts \in Seq(Seq(A))
    PROVE  \E F : JoinsBy(F, A, parts, sep)
<1> DEFINE X == Seq(A)
           step == [i \in 1..Len(parts) |-> [x \in X |-> Glue(x, i, parts[i], sep)]]
           G == CHOOSE F : JoinOf(F, parts, sep)
<1>1. Len(parts) \in Nat /\ <<>> \in X /\ \A i \in 1..Len(parts) : parts[i] \in X
  OBVIOUS
<1>2. \A i \in 1..Len(parts), x \in X : Glue(x, i, parts[i], sep) \in X
  BY <1>1, GlueType
<1> HIDE DEF X
<1>3. \E F : JoinOf(F, parts, sep)
  <2>1. \A i \in 1..Len(parts) : step[i] \in [X -> X]
    BY <1>2
  <2>2. \E F \in [0..Len(parts) -> X] :
           F[0] = <<>> /\ \A i \in 1..Len(parts) : F[i] = step[i][F[i - 1]]
    <3> DEFINE m == Len(parts)
               first == <<>>
    <3>1. m \in Nat /\ first \in X /\ step \in [1..m -> [X -> X]]
      BY <1>1, <2>1
    <3> HIDE DEF step, m, first
    <3>2. \E F : StepByStep(F, X, first, m, step)
      BY <3>1, StepsLead
    <3> QED BY <3>2 DEF m, first, StepByStep
  <2>6. PICK F \in [0..Len(parts) -> X] :
           F[0] = <<>> /\ \A i \in 1..Len(parts) : F[i] = step[i][F[i - 1]]
    BY <2>2
  <2>3. ASSUME NEW i \in 1..Len(parts) PROVE F[i] = Glue(F[i - 1], i, parts[i], sep)
    <3>1. F[i] = step[i][F[i - 1]]
      BY <2>6
    <3>3. i - 1 \in 0..Len(parts)
      BY <1>1
    <3>2. F[i - 1] \in X
      BY <3>3
    <3> QED BY <3>1, <3>2
  <2>4. \A i \in 0..Len(parts) : F[i] = IF i = 0 THEN <<>> ELSE Glue(F[i - 1], i, parts[i], sep)
    BY <1>1, <2>6, <2>3
  <2>5. JoinOf(F, parts, sep)
    BY <2>4 DEF JoinOf
  <2> QED BY <2>5
<1>4. JoinOf(G, parts, sep)
  BY <1>3
<1>5. Url!Join(parts, sep) = G[Len(parts)]
  BY Zenon DEF Url!Join, JoinOf, Glue
<1> HIDE DEF G
<1>6. G[0] = <<>> /\ \A i \in 1..Len(parts) : G[i] = Glue(G[i - 1], i, parts[i], sep)
  <2>1. \A i \in 0..Len(parts) : G[i] = IF i = 0 THEN <<>> ELSE Glue(G[i - 1], i, parts[i], sep)
    BY <1>1, <1>4 DEF JoinOf
  <2> QED BY <1>1, <2>1
<1>7. \A i \in 0..Len(parts) : G[i] \in X
  <2> DEFINE T == {n \in Nat : n <= Len(parts) => G[n] \in X}
  <2>1. 0 \in T
    BY <1>1, <1>6
  <2>2. ASSUME NEW n \in T PROVE n + 1 \in T
    <3> SUFFICES ASSUME n + 1 <= Len(parts) PROVE G[n + 1] \in X
      OBVIOUS
    <3>1. n + 1 \in 1..Len(parts) /\ G[n] \in X /\ (n + 1) - 1 = n
      BY <1>1
    <3> QED BY <1>2, <1>6, <3>1
  <2>3. T = Nat
    <3> HIDE DEF T
    <3>1. T \subseteq Nat
      BY DEF T
    <3> QED BY <2>1, <2>2, <3>1, EveryNumber
  <2> QED BY <1>1, <2>3
<1>8. JoinsBy(G, A, parts, sep)
  BY <1>5, <1>6, <1>7 DEF X, JoinsBy
<1> QED BY <1>8

(* The first of a sequence, as a sequence.                                 *)
LEMMA OneFirst ==
    ASSUME NEW A, NEW s \in Seq(A), 1 <= Len(s)
    PROVE  SubSeq(s, 1, 1) = <<s[1]>>
<1>1. SubSeq(s, 1, 0) = <<>> /\ 0 \in Nat /\ 0 + 1 = 1
  OBVIOUS
<1>2. SubSeq(s, 1, 0 + 1) = Append(SubSeq(s, 1, 0), s[0 + 1])
  <2>1. <<>> \in Seq(A) /\ 0 + 1 <= Len(s) /\ 0 \in Nat
    OBVIOUS
  <2> QED BY <2>1, OnePieceMore
<1>3. SubSeq(s, 1, 1) = Append(<<>>, s[1])
  BY <1>1, <1>2
<1> QED BY <1>3

(* Parts that are joined are the parts it is split into again.             *)
LEMMA SplitJoin ==
    ASSUME NEW A, NEW sep \in A, NEW parts \in Seq(Seq(A \ {sep})), parts # <<>>
    PROVE  Url!Join(parts, sep) \in Seq(A) /\ Url!Split(Url!Join(parts, sep), sep) = parts
<1>1. /\ Len(parts) \in Nat \ {0}
      /\ \A i \in 1..Len(parts) : parts[i] \in Seq(A \ {sep})
  OBVIOUS
<1>2. Seq(A \ {sep}) \subseteq Seq(A)
  BY SeqMonotonic
<1>3. parts \in Seq(Seq(A))
  BY <1>2, SeqMonotonic
<1>4. PICK F : JoinsBy(F, A, parts, sep)
  BY <1>3, JoinBuilds
<1>5. /\ F[0] = <<>> /\ \A i \in 1..Len(parts) : F[i] = Glue(F[i - 1], i, parts[i], sep)
      /\ Url!Join(parts, sep) = F[Len(parts)]
  BY <1>4 DEF JoinsBy
<1>6. \A i \in 0..Len(parts) : F[i] \in Seq(A)
  BY <1>4 DEF JoinsBy
<1> DEFINE T == {n \in Nat : n + 1 <= Len(parts) => Url!Split(F[n + 1], sep) = SubSeq(parts, 1, n + 1)}
<1>7. 0 \in T
  <2> DEFINE b == parts[1]
  <2>1. b \in Seq(A \ {sep}) /\ SubSeq(parts, 1, 1) = <<b>>
    <3>1. 1 \in 1..Len(parts) /\ 1 <= Len(parts) /\ Len(parts) \in Nat
      BY <1>1
    <3>2. b \in Seq(A \ {sep})
      BY <1>1, <3>1
    <3>3. SubSeq(parts, 1, 1) = <<b>>
      BY <1>3, <3>1, OneFirst
    <3> QED BY <3>2, <3>3
  <2>2. F[1] = Glue(<<>>, 1, b, sep)
    <3>1. 1 \in 1..Len(parts) /\ 1 - 1 = 0
      BY <1>1
    <3> QED BY <1>5, <3>1
  <2> HIDE DEF b
  <2>3. b \in Seq(A)
    BY <1>2, <2>1
  <2>4. F[1] = <<>> \o b
    BY <2>2, <2>3 DEF Glue
  <2>5. Url!Split(<<>> \o b, sep) = Append(<<>>, b)
    <3>1. <<>> \in Seq(A)
      OBVIOUS
    <3>2. <<>> \in Seq(Seq(A))
      OBVIOUS
    <3>3. Url!Split(<<>>, sep) = Append(<<>>, <<>>)
      <4>1. Append(<<>>, <<>>) = <<<<>>>>
        OBVIOUS
      <4> QED BY <4>1, SplitNothing
    <3>4. EndsAfter(<<>>, A, sep, <<>>)
      BY <3>1, <3>2, <3>3 DEF EndsAfter
    <3>5. b \in Seq(A \ {sep})
      BY <2>1
    <3>6. Segment(b, A, sep)
      BY <3>5 DEF Segment
    <3>7. GoesOn(<<>>, b, sep, <<>>)
      BY Zenon, <3>4, <3>6, SplitOn
    <3> QED BY <3>7 DEF GoesOn
  <2>6. Append(<<>>, b) = <<b>>
    OBVIOUS
  <2>7. Url!Split(F[1], sep) = SubSeq(parts, 1, 1)
    BY <2>1, <2>4, <2>5, <2>6
  <2> QED BY <2>7
<1>8. ASSUME NEW n \in T PROVE n + 1 \in T
  <2> SUFFICES ASSUME (n + 1) + 1 <= Len(parts)
               PROVE  Url!Split(F[(n + 1) + 1], sep) = SubSeq(parts, 1, (n + 1) + 1)
    OBVIOUS
  <2> DEFINE m == n + 1
             t == F[m]
             b == parts[m + 1]
             S == SubSeq(parts, 1, m)
  <2>1. /\ m \in Nat /\ m + 1 <= Len(parts) /\ m \in 0..Len(parts) /\ m + 1 \in 1..Len(parts)
        /\ m + 1 # 1 /\ (m + 1) - 1 = m
    BY <1>1
  <2>2. Url!Split(t, sep) = S
    BY <2>1
  <2> HIDE DEF m
  <2>3. F[m + 1] = Glue(t, m + 1, b, sep)
    BY <1>5, <2>1
  <2>4. t \in Seq(A) /\ b \in Seq(A \ {sep})
    BY <1>1, <1>6, <2>1
  <2>5. SubSeq(parts, 1, m + 1) = Append(S, b)
    <3>1. <<>> \in Seq(Seq(A))
      OBVIOUS
    <3> QED BY <1>3, <2>1, <3>1, OnePieceMore
  <2> HIDE DEF t, b, S
  <2>6. F[m + 1] = t \o <<sep>> \o b
    BY <2>1, <2>3 DEF Glue
  <2>7. Url!Split(t \o <<sep>> \o b, sep) = Append(Url!Split(t, sep), b)
    BY <2>4, SegmentMore
  <2> QED BY <2>2, <2>5, <2>6, <2>7 DEF m
<1>9. T = Nat
  <2> HIDE DEF T
  <2>1. T \subseteq Nat
    BY DEF T
  <2> QED BY <1>7, <1>8, <2>1, EveryNumber
<1>10. Url!Split(F[Len(parts)], sep) = SubSeq(parts, 1, Len(parts))
  <2> DEFINE k == Len(parts) - 1
  <2>1. k \in T /\ k + 1 = Len(parts) /\ k + 1 <= Len(parts)
    <3>1. k \in Nat /\ k + 1 = Len(parts) /\ k + 1 <= Len(parts)
      BY <1>1
    <3> HIDE DEF T
    <3> QED BY <1>9, <3>1
  <2> HIDE DEF k
  <2>2. Url!Split(F[k + 1], sep) = SubSeq(parts, 1, k + 1)
    BY <2>1
  <2> QED BY <2>1, <2>2
<1>11. SubSeq(parts, 1, Len(parts)) = parts /\ F[Len(parts)] \in Seq(A)
  BY <1>1, <1>6
<1> QED BY <1>5, <1>10, <1>11

-----------------------------------------------------------------------------
(* What comes out of a link.                                               *)

(* The pieces of links.                                                    *)
Pieces == STRING \cup {"1", "2", "3", "/", ".", "json", "pbf"} \cup Slots

(* The tile a client fills in.                                             *)
SomeTile == [z |-> "3", x |-> "1", y |-> "2"]
Filled(p) ==
    IF p = Url!Slot.z THEN "3" ELSE IF p = Url!Slot.x THEN "1" ELSE IF p = Url!Slot.y THEN "2" ELSE p

(* The places a client fills in are three.                                 *)
LEMMA SlotsDiffer ==
    /\ Url!Slot.z # Url!Slot.x /\ Url!Slot.z # Url!Slot.y /\ Url!Slot.x # Url!Slot.y
    /\ Slots = {Url!Slot.z, Url!Slot.x, Url!Slot.y}
    /\ DOMAIN Url!Slot = {"z", "x", "y"}
<1>1. Url!Slot.z # Url!Slot.x /\ Url!Slot.z # Url!Slot.y /\ Url!Slot.x # Url!Slot.y
  BY Zenon DEF Url!Slot
<1>2. DOMAIN Url!Slot = {"z", "x", "y"}
  BY SMT DEF Url!Slot
<1>3. Slots = {Url!Slot.z, Url!Slot.x, Url!Slot.y}
  BY <1>2 DEF Slots
<1> QED BY <1>1, <1>2, <1>3

(* None of them is another piece of a link.                                *)
LEMMA SlotsAreNoOther == Slots \cap {"1", "2", "3", "/", "?", ".", "json", "pbf"} = {}
<1>1. ASSUME NEW p \in {Url!Slot.z, Url!Slot.x, Url!Slot.y}
      PROVE  p \notin {"1", "2", "3", "/", "?", ".", "json", "pbf"}
  BY Zenon DEF Url!Slot
<1> QED BY <1>1, SlotsDiffer

(* A piece p that is sent in a link comes out as q.                        *)
ComesOutAs(p, q) ==
    /\ p \in Pieces /\ q \in Pieces /\ Filled(p) # "?"
    /\ IF Filled(p) \in Escaped THEN q \in DOMAIN Escapes /\ Escapes[q] = Filled(p)
       ELSE q = Filled(p)
Sent(path, text) ==
    /\ path \in Seq(Pieces) /\ text \in Seq(Pieces) /\ Len(path) = Len(text)
    /\ \A i \in 1..Len(path) : ComesOutAs(path[i], text[i])

(* One text after the other.                                               *)
LEMMA SentTogether ==
    ASSUME NEW a, NEW b, NEW c, NEW d, Sent(a, b), Sent(c, d)
    PROVE  Sent(a \o c, b \o d)
<1>1. /\ a \in Seq(Pieces) /\ b \in Seq(Pieces) /\ c \in Seq(Pieces) /\ d \in Seq(Pieces)
      /\ Len(a) = Len(b) /\ Len(c) = Len(d)
  BY DEF Sent
<1>2. /\ \A i \in 1..Len(a) : ComesOutAs(a[i], b[i])
      /\ \A i \in 1..Len(c) : ComesOutAs(c[i], d[i])
  BY DEF Sent
<1>3. a \o c \in Seq(Pieces) /\ b \o d \in Seq(Pieces) /\ Len(a \o c) = Len(b \o d)
      /\ Len(a \o c) = Len(a) + Len(c)
  BY <1>1
<1>4. ASSUME NEW i \in 1..Len(a \o c)
      PROVE  ComesOutAs((a \o c)[i], (b \o d)[i])
  <2>1. CASE i <= Len(a)
    <3>1. (a \o c)[i] = a[i] /\ (b \o d)[i] = b[i] /\ i \in 1..Len(a)
      BY <1>1, <1>3, <2>1
    <3> QED BY <1>2, <3>1
  <2>2. CASE i > Len(a)
    <3> DEFINE j == i - Len(a)
    <3>1. (a \o c)[i] = c[j] /\ (b \o d)[i] = d[j] /\ j \in 1..Len(c)
      BY <1>1, <1>3, <2>2
    <3> HIDE DEF j
    <3> QED BY <1>2, <3>1
  <2>3. i <= Len(a) \/ i > Len(a)
    BY <1>1, <1>3
  <2> QED BY <2>1, <2>2, <2>3
<1> QED BY <1>3, <1>4 DEF Sent

(* A piece is filled in.                                                   *)
LEMMA FillsIn ==
    ASSUME NEW path \in Seq(Pieces)
    PROVE  /\ Len(Url!Fill(path, SomeTile)) = Len(path)
           /\ Url!Fill(path, SomeTile) \in Seq(Pieces)
           /\ \A i \in 1..Len(path) : Url!Fill(path, SomeTile)[i] = Filled(path[i])
<1> DEFINE fields == Url!Slot
           what(p) == IF \E f \in DOMAIN fields : fields[f] = p
                      THEN SomeTile[CHOOSE f \in DOMAIN fields : fields[f] = p] ELSE p
<1>1. ASSUME NEW p \in Pieces PROVE what(p) = Filled(p) /\ Filled(p) \in Pieces
  <2>1. /\ DOMAIN fields = {"z", "x", "y"}
        /\ fields["z"] = Url!Slot.z /\ fields["x"] = Url!Slot.x /\ fields["y"] = Url!Slot.y
    BY SlotsDiffer
  <2>2. SomeTile["z"] = "3" /\ SomeTile["x"] = "1" /\ SomeTile["y"] = "2"
    BY DEF SomeTile
  <2> HIDE DEF fields
  <2> DEFINE g == CHOOSE f \in DOMAIN fields : fields[f] = p
  <2>3. (\E f \in DOMAIN fields : fields[f] = p) => g \in DOMAIN fields /\ fields[g] = p
    BY Zenon
  <2>4. what(p) = IF \E f \in DOMAIN fields : fields[f] = p THEN SomeTile[g] ELSE p
    OBVIOUS
  <2>5. (\E f \in DOMAIN fields : fields[f] = p) <=> p \in {Url!Slot.z, Url!Slot.x, Url!Slot.y}
    BY <2>1
  <2> HIDE DEF g, what
  <2>6. CASE p \in {Url!Slot.z, Url!Slot.x, Url!Slot.y}
    <3>1. what(p) = SomeTile[g] /\ g \in {"z", "x", "y"} /\ fields[g] = p
      BY <2>1, <2>3, <2>4, <2>5, <2>6
    <3>2. SomeTile[g] = Filled(p)
      BY <2>1, <2>2, <3>1, SlotsDiffer DEF Filled
    <3>3. Filled(p) \in Pieces
      BY <2>6, SlotsDiffer DEF Filled, Pieces
    <3> QED BY <3>1, <3>2, <3>3
  <2>7. CASE p \notin {Url!Slot.z, Url!Slot.x, Url!Slot.y}
    <3>1. what(p) = p
      BY <2>4, <2>5, <2>7
    <3> QED BY <2>7, <3>1 DEF Filled
  <2> QED BY <2>6, <2>7
<1>2. Url!Fill(path, SomeTile) = [i \in DOMAIN path |-> what(path[i])]
  BY DEF Url!Fill
<1> HIDE DEF what
<1>3. DOMAIN path = 1..Len(path) /\ Len(path) \in Nat /\ \A i \in 1..Len(path) : path[i] \in Pieces
  OBVIOUS
<1>4. Url!Fill(path, SomeTile) = [i \in 1..Len(path) |-> Filled(path[i])]
  BY <1>1, <1>2, <1>3
<1> DEFINE filled == [i \in 1..Len(path) |-> Filled(path[i])]
<1>5. filled \in Seq(Pieces) /\ Len(filled) = Len(path) /\ \A i \in 1..Len(path) : filled[i] = Filled(path[i])
  <2>1. \A i \in 1..Len(path) : Filled(path[i]) \in Pieces
    BY <1>1, <1>3
  <2> QED BY <1>3, <2>1
<1> HIDE DEF filled
<1>6. Url!Fill(path, SomeTile) = filled
  BY <1>4 DEF filled
<1> QED BY <1>5, <1>6

(* What is sent comes out.                                                 *)
LEMMA Received ==
    ASSUME NEW path, NEW text, Sent(path, text)
    PROVE  Url!Received(Url!Fill(path, SomeTile)) = text
<1> DEFINE filled == Url!Fill(path, SomeTile)
           decoded(p) == IF \E q \in DOMAIN Escapes : Escapes[q] = p
                         THEN CHOOSE q \in DOMAIN Escapes : Escapes[q] = p ELSE p
<1>1. /\ path \in Seq(Pieces) /\ text \in Seq(Pieces) /\ Len(path) = Len(text)
      /\ \A i \in 1..Len(path) : ComesOutAs(path[i], text[i])
  BY DEF Sent
<1>2. /\ Len(filled) = Len(path) /\ filled \in Seq(Pieces)
      /\ \A i \in 1..Len(path) : filled[i] = Filled(path[i])
  BY <1>1, FillsIn
<1>3. Url!Received(filled) = [i \in DOMAIN Url!Split(filled, "?")[1] |-> decoded(Url!Split(filled, "?")[1][i])]
  BY DEF Url!Received
<1>4. \A p, q : ComesOutAs(p, q) => decoded(Filled(p)) = q
  <2> SUFFICES ASSUME NEW p, NEW q, ComesOutAs(p, q) PROVE decoded(Filled(p)) = q
    OBVIOUS
  <2>1. CASE Filled(p) \in Escaped
    <3>1. q \in DOMAIN Escapes /\ Escapes[q] = Filled(p)
      BY <2>1 DEF ComesOutAs
    <3>2. \A r \in DOMAIN Escapes : Escapes[r] = Filled(p) => r = q
      BY <3>1, EscapesAssumption
    <3> QED BY <3>1, <3>2
  <2>2. CASE Filled(p) \notin Escaped
    BY <2>2 DEF ComesOutAs, Escaped
  <2> QED BY <2>1, <2>2
<1> HIDE DEF filled, decoded
<1>5. filled \in Seq(Pieces \ {"?"})
  <2>1. \A i \in 1..Len(path) : filled[i] # "?"
    BY <1>1, <1>2 DEF ComesOutAs
  <2>2. Len(filled) \in Nat /\ \A i \in 1..Len(filled) : filled[i] \in Pieces \ {"?"}
    BY <1>2, <2>1
  <2> QED BY <1>2, <2>2
<1>6. Url!Split(filled, "?") = <<filled>>
  BY <1>5, OneSegment
<1>7. Url!Received(filled) = [i \in 1..Len(path) |-> decoded(filled[i])]
  <2>1. Url!Split(filled, "?")[1] = filled /\ DOMAIN filled = 1..Len(path)
    BY <1>2, <1>6
  <2> QED BY <1>3, <2>1
<1>8. \A i \in 1..Len(path) : decoded(filled[i]) = text[i]
  BY <1>1, <1>2, <1>4
<1>9. text = [i \in 1..Len(path) |-> text[i]]
  BY <1>1
<1> QED BY <1>7, <1>8, <1>9 DEF filled

-----------------------------------------------------------------------------
(* The parts of a link.                                                    *)

(* Pieces that come out as they are.                                       *)
Literal == Pieces \ (Escaped \cup Slots \cup {"?"})

(* Such a text comes out as it went in.                                    *)
LEMMA SentAsItIs == ASSUME NEW s \in Seq(Literal) PROVE Sent(s, s)
<1>1. \A i \in 1..Len(s) : s[i] \in Literal
  OBVIOUS
<1>2. s \in Seq(Pieces)
  <2>1. Literal \subseteq Pieces
    BY DEF Literal
  <2> QED BY <2>1, SeqMonotonic
<1>3. \A p \in Literal : ComesOutAs(p, p)
  <2> SUFFICES ASSUME NEW p \in Literal PROVE ComesOutAs(p, p)
    OBVIOUS
  <2>1. p \in Pieces /\ p \notin Escaped /\ p \notin Slots /\ p # "?"
    BY DEF Literal
  <2>2. Filled(p) = p
    BY <2>1, SlotsDiffer DEF Filled
  <2> QED BY <2>1, <2>2 DEF ComesOutAs
<1> QED BY <1>1, <1>2, <1>3 DEF Sent

(* What the server itself writes into a link are such pieces.              *)
LEMMA Literals == {"1", "2", "3", "/", ".", "json", "pbf"} \subseteq Literal
<1> DEFINE some == {"1", "2", "3", "/", ".", "json", "pbf"}
<1>1. some \cap Escaped = {}
  BY DigitsAssumption, EscapesAssumption
<1>2. some \cap Slots = {}
  BY SlotsAreNoOther
<1>3. "?" \notin some
  OBVIOUS
<1>4. some \subseteq Pieces
  BY DEF Pieces
<1> HIDE DEF some
<1>5. some \subseteq Literal
  BY <1>1, <1>2, <1>3, <1>4 DEF Literal
<1> QED BY <1>5 DEF some

(* An id is escaped.                                                       *)
LEMMA IdIsSent ==
    ASSUME NEW id \in TableIds \cup FunctionIds
    PROVE  Sent(Url!PathEscape(id), id) /\ id # <<>> /\ id # <<"index">>
<1>1. PICK l \in Tables \cup Functions : id = l.id
  BY DEF TableIds, FunctionIds
<1>2. id \in Seq(STRING) /\ id # <<>> /\ id # <<"index">>
  BY <1>1, CatalogueAssumption
<1>3. \A i \in DOMAIN id : id[i] \in Escaped \cup Slots => id[i] \in DOMAIN Escapes
  BY <1>1, EscapesAssumption
<1> DEFINE escaped == [i \in DOMAIN id |-> IF id[i] \in DOMAIN Escapes THEN Escapes[id[i]] ELSE id[i]]
<1>10. STRING \subseteq Pieces
  BY DEF Pieces
<1>9. id \in Seq(Pieces)
  BY <1>2, <1>10, SeqMonotonic
<1>4. DOMAIN id = 1..Len(id) /\ Len(id) \in Nat /\ \A i \in 1..Len(id) : id[i] \in Pieces
  BY <1>9
<1>5. \A p \in DOMAIN Escapes : Escapes[p] \in Pieces /\ Escapes[p] \in Escaped
  BY <1>10, EscapesAssumption DEF Escaped
<1>6. escaped \in Seq(Pieces) /\ Len(escaped) = Len(id)
      /\ \A i \in 1..Len(id) : escaped[i] = IF id[i] \in DOMAIN Escapes THEN Escapes[id[i]] ELSE id[i]
  BY <1>4, <1>5
<1>7. Url!PathEscape(id) = escaped
  BY DEF Url!PathEscape
<1> HIDE DEF escaped
<1>8. ASSUME NEW i \in 1..Len(id) PROVE ComesOutAs(escaped[i], id[i])
  <2>1. CASE id[i] \in DOMAIN Escapes
    <3>1. escaped[i] = Escapes[id[i]] /\ escaped[i] \in Escaped /\ escaped[i] \in Pieces
      BY <1>5, <1>6, <2>1
    <3>2. escaped[i] \notin Slots /\ escaped[i] # "?"
      BY <3>1, EscapesAssumption
    <3>3. Filled(escaped[i]) = escaped[i]
      BY <3>2, SlotsDiffer DEF Filled
    <3> QED BY <1>4, <2>1, <3>1, <3>2, <3>3 DEF ComesOutAs
  <2>2. CASE id[i] \notin DOMAIN Escapes
    <3>1. escaped[i] = id[i] /\ id[i] \notin Escaped \cup Slots /\ id[i] # "?"
      BY <1>3, <1>4, <1>6, <2>2, EscapesAssumption
    <3>2. Filled(escaped[i]) = id[i]
      BY <3>1, SlotsDiffer DEF Filled
    <3> QED BY <1>4, <3>1, <3>2 DEF ComesOutAs
  <2> QED BY <2>1, <2>2
<1> QED BY <1>2, <1>6, <1>7, <1>8, <1>9 DEF Sent

-----------------------------------------------------------------------------
(* The base of a link.                                                     *)

LEMMA SameOnlyUrl == ASSUME NEW s, NEW S PROVE Url!Only(s, S) = Table!Only(s, S)
BY Zenon DEF Url!Only, Table!Only

(* What the segments of a path are.                                        *)
LEMMA SegmentsType ==
    ASSUME NEW A, NEW text \in Seq(A)
    PROVE  Url!Segments(text) \in Seq(Seq(A \ {"/"}))
<1> DEFINE all == Url!Split(text, "/")
           S == Url!ToSet(all) \ {<<>>}
           X == Seq(A \ {"/"})
<1>1. all \in Seq(X)
  BY SplitType
<1>2. Url!Segments(text) = Table!Only(all, S)
  BY SameOnlyUrl DEF Url!Segments
<1> HIDE DEF all, S, X
<1>3. Table!Only(all, S) \in Seq(X \cap S)
  BY <1>1, OnlyThose
<1>4. Seq(X \cap S) \subseteq Seq(X)
  BY SeqMonotonic
<1> QED BY <1>2, <1>3, <1>4 DEF X

(* The segments of the base path, the empty one before the first "/" among *)
(* them.                                                                   *)
Base == <<<<>>>> \o Url!Segments(BasePath)

(* They are segments, none of whose pieces is escaped.                     *)
LEMMA BaseType == Base \in Seq(Seq(Literal \ {"/"})) /\ Base # <<>>
<1> DEFINE X == Seq(Literal \ {"/"})
           segments == Url!Segments(BasePath)
<1>1. BasePath \in Seq(Literal)
  <2>1. /\ BasePath \in Seq(STRING) /\ DOMAIN BasePath = 1..Len(BasePath) /\ Len(BasePath) \in Nat
        /\ \A i \in 1..Len(BasePath) : BasePath[i] \in STRING
    BY BasePathAssumption
  <2>2. ASSUME NEW i \in 1..Len(BasePath) PROVE BasePath[i] \in Literal
    <3>1. BasePath[i] \notin Escaped \cup Slots \cup {"?"}
      BY <2>1, BasePathAssumption
    <3>2. BasePath[i] \in Pieces
      BY <2>1 DEF Pieces
    <3> QED BY <3>1, <3>2 DEF Literal
  <2> QED BY <2>1, <2>2
<1>2. segments \in Seq(X)
  BY <1>1, SegmentsType
<1>3. <<>> \in X
  OBVIOUS
<1> HIDE DEF X, segments
<1>4. <<<<>>>> \in Seq(X) /\ Len(<<<<>>>>) = 1
  BY <1>3
<1>5. <<<<>>>> \o segments \in Seq(X) /\ Len(<<<<>>>> \o segments) # 0
  BY <1>2, <1>4
<1> QED BY <1>5 DEF Base, X, segments

(* Links start with the host, and with the path of the base below it.      *)
LEMMA LinksStart ==
    ASSUME BaseIsServed, NEW r
    PROVE  /\ Url!serverURLBase(r) = [Url!serverURLHost(r) EXCEPT !.path = Url!Join(Base, "/")]
           /\ "path" \in DOMAIN Url!serverURLHost(r)
<1>1. CASE UrlBase = NoUrlBase
  <2>1. Url!serverURLHost(r).path = <<>> /\ "path" \in DOMAIN Url!serverURLHost(r)
    BY <1>1 DEF Url!serverURLHost
  <2>2. Url!formatBaseURL(<<>>, BasePath) = Url!Join(Base, "/")
    <3>1. CASE BasePath = <<>>
      BY <3>1 DEF Url!formatBaseURL, Base
    <3>2. CASE BasePath # <<>> /\ BasePath[1] = "/"
      BY <3>2 DEF Url!formatBaseURL, Base
    <3>3. CASE BasePath # <<>> /\ BasePath[1] # "/"
      <4> DEFINE upto == SubSeq(<<>>, 1, Url!Max({0} \cup {i \in DOMAIN <<>> : <<>>[i] = "/"}))
      <4>1. upto \o BasePath = BasePath
        <5>1. {0} \cup {i \in DOMAIN <<>> : <<>>[i] = "/"} = {0}
          OBVIOUS
        <5>2. Url!Max({0}) = 0
          BY DEF Url!Max
        <5>3. upto = <<>>
          BY <5>1, <5>2
        <5> HIDE DEF upto
        <5>4. BasePath \in Seq(STRING)
          BY BasePathAssumption
        <5>5. <<>> \o BasePath = BasePath
          BY <5>4
        <5> QED BY <5>3, <5>5
      <4> QED BY <3>3, <4>1 DEF Url!formatBaseURL, Base
    <3> QED BY <3>1, <3>2, <3>3
  <2> QED BY <2>1, <2>2 DEF Url!serverURLBase
<1>2. CASE UrlBase # NoUrlBase
  <2>1. Url!serverURLHost(r) = UrlBase /\ "path" \in DOMAIN UrlBase
    BY <1>2, UrlBaseAssumption DEF Url!serverURLHost
  <2>2. \A base : Url!formatBaseURL(base, BasePath) = Url!Join(Base, "/")
    BY <1>2 DEF BaseIsServed, Url!formatBaseURL, Base
  <2> QED BY <2>1, <2>2 DEF Url!serverURLBase
<1> QED BY <1>1, <1>2

-----------------------------------------------------------------------------
(* The links of a layer.                                                   *)
LinkTo(r, id, tail) == [Url!serverURLBase(r) EXCEPT !.path = @ \o <<"/">> \o Url!PathEscape(id) \o tail]
DetailTail == <<".", "json">>
TileTail == <<"/", Url!Slot.z, "/", Url!Slot.x, "/", Url!Slot.y, ".", "pbf">>
TileEnd == <<"/", "3", "/", "1", "/", "2", ".", "pbf">>

(* What a client reads of them.                                            *)
PathText(text, end) == Url!Join(Base, "/") \o <<"/">> \o text \o end

(* The path of a link, and its host.                                       *)
LEMMA LinkText ==
    ASSUME BaseIsServed, NEW r, NEW id, NEW tail
    PROVE  /\ LinkTo(r, id, tail).path = PathText(Url!PathEscape(id), tail)
           /\ LinkTo(r, id, tail).scheme = Url!serverURLHost(r).scheme
           /\ LinkTo(r, id, tail).host = Url!serverURLHost(r).host
<1> DEFINE H == Url!serverURLHost(r)
           J == Url!Join(Base, "/")
           B == Url!serverURLBase(r)
<1>1. B = [H EXCEPT !.path = J] /\ "path" \in DOMAIN H
  BY LinksStart
<1> HIDE DEF H, J, B
<1>2. B.path = J /\ B.scheme = H.scheme /\ B.host = H.host /\ "path" \in DOMAIN B
  BY <1>1
<1>3. LinkTo(r, id, tail) = [B EXCEPT !.path = @ \o <<"/">> \o Url!PathEscape(id) \o tail]
  BY DEF LinkTo, B
<1>4. /\ LinkTo(r, id, tail).path = J \o <<"/">> \o Url!PathEscape(id) \o tail
      /\ LinkTo(r, id, tail).scheme = B.scheme /\ LinkTo(r, id, tail).host = B.host
  BY <1>2, <1>3
<1> QED BY <1>2, <1>4 DEF PathText, J, H

(* The links of details and lists are links of this kind.                  *)
LEMMA TheLinks ==
    ASSUME NEW r, NEW id
    PROVE  /\ Url!DetailURL(r, id) = LinkTo(r, id, DetailTail)
           /\ Url!TileURL(r, id) = LinkTo(r, id, TileTail)
<1>1. Url!DetailURL(r, id) = LinkTo(r, id, DetailTail)
  BY Zenon DEF Url!DetailURL, LinkTo, DetailTail
<1>2. Url!TileURL(r, id) = LinkTo(r, id, TileTail)
  BY Zenon DEF Url!TileURL, LinkTo, TileTail
<1> QED BY <1>1, <1>2

(* The base of the links is a path of pieces that come out as they are.    *)
LEMMA BaseJoined ==
    /\ Url!Join(Base, "/") \in Seq(Literal)
    /\ Url!Split(Url!Join(Base, "/"), "/") = Base
<1>1. "/" \in Literal
  BY Literals
<1> QED BY <1>1, BaseType, SplitJoin

(* The ends of the links come out, with the tile filled in.                *)
LEMMA EndsAreSent == Sent(DetailTail, DetailTail) /\ Sent(TileTail, TileEnd)
<1>1. Sent(DetailTail, DetailTail)
  <2>1. "." \in Literal /\ "json" \in Literal
    BY Literals
  <2>2. DetailTail \in Seq(Literal)
    BY <2>1 DEF DetailTail
  <2> QED BY <2>2, SentAsItIs
<1>2. ASSUME NEW p \in {"/", ".", "pbf"} PROVE ComesOutAs(p, p)
  <2>1. p \in Literal
    BY Literals
  <2>2. p \in Pieces /\ p \notin Escaped /\ p \notin Slots /\ p # "?"
    BY <2>1 DEF Literal
  <2>3. Filled(p) = p
    BY <2>2, SlotsDiffer DEF Filled
  <2> QED BY <2>2, <2>3 DEF ComesOutAs
<1>3. /\ ComesOutAs(Url!Slot.z, "3") /\ ComesOutAs(Url!Slot.x, "1") /\ ComesOutAs(Url!Slot.y, "2")
  <2>1. Filled(Url!Slot.z) = "3" /\ Filled(Url!Slot.x) = "1" /\ Filled(Url!Slot.y) = "2"
    BY SlotsDiffer DEF Filled
  <2>2. \A d \in {"1", "2", "3"} : d \in Pieces /\ d \notin Escaped /\ d # "?"
    BY DigitsAssumption, EscapesAssumption DEF Pieces
  <2>3. \A slot \in {Url!Slot.z, Url!Slot.x, Url!Slot.y} : slot \in Pieces
    BY SlotsDiffer DEF Pieces
  <2> QED BY <2>1, <2>2, <2>3 DEF ComesOutAs
<1>4. Sent(TileTail, TileEnd)
  <2> DEFINE z == Url!Slot.z
             x == Url!Slot.x
             y == Url!Slot.y
             in == <<"/", z, "/", x, "/", y, ".", "pbf">>
             out == <<"/", "3", "/", "1", "/", "2", ".", "pbf">>
  <2>1. /\ ComesOutAs(z, "3") /\ ComesOutAs(x, "1") /\ ComesOutAs(y, "2")
        /\ ComesOutAs("/", "/") /\ ComesOutAs(".", ".") /\ ComesOutAs("pbf", "pbf")
    BY <1>2, <1>3
  <2>2. {z, x, y, "3", "1", "2", "/", ".", "pbf"} \subseteq Pieces
    BY <2>1 DEF ComesOutAs
  <2> HIDE DEF z, x, y
  <2>3. in \in Seq(Pieces) /\ out \in Seq(Pieces) /\ Len(in) = 8 /\ Len(out) = 8
    BY <2>2
  <2>4. ASSUME NEW i \in 1..8 PROVE ComesOutAs(in[i], out[i])
    <3>1. i = 1 \/ i = 2 \/ i = 3 \/ i = 4 \/ i = 5 \/ i = 6 \/ i = 7 \/ i = 8
      OBVIOUS
    <3> QED BY <2>1, <3>1
  <2> HIDE DEF in, out
  <2>5. Sent(in, out)
    BY <2>3, <2>4 DEF Sent
  <2> QED BY <2>5 DEF in, out, z, x, y, TileTail, TileEnd
<1> QED BY <1>1, <1>4

(* A link comes out as the path of the layer below the base.               *)
LEMMA LinkIsRead ==
    ASSUME BaseIsServed, NEW r, NEW id \in TableIds \cup FunctionIds,
           NEW tail, NEW end, Sent(tail, end)
    PROVE  Url!Received(Url!Fill(LinkTo(r, id, tail).path, SomeTile)) = PathText(id, end)
<1>1. Sent(Url!Join(Base, "/"), Url!Join(Base, "/"))
  BY BaseJoined, SentAsItIs
<1>2. Sent(<<"/">>, <<"/">>)
  <2>1. "/" \in Literal
    BY Literals
  <2>2. <<"/">> \in Seq(Literal)
    BY <2>1
  <2> QED BY <2>2, SentAsItIs
<1>3. Sent(Url!PathEscape(id), id)
  BY IdIsSent
<1> DEFINE a == Url!Join(Base, "/")
           e == Url!PathEscape(id)
<1> HIDE DEF a, e
<1>4. Sent(a \o <<"/">>, a \o <<"/">>)
  BY <1>1, <1>2, SentTogether DEF a
<1>5. Sent(a \o <<"/">> \o e, a \o <<"/">> \o id)
  BY <1>3, <1>4, SentTogether DEF e
<1>6. Sent(a \o <<"/">> \o e \o tail, a \o <<"/">> \o id \o end)
  BY <1>5, SentTogether
<1>7. Sent(PathText(e, tail), PathText(id, end))
  BY <1>6 DEF PathText, a
<1> QED BY <1>7, LinkText, Received DEF e

-----------------------------------------------------------------------------
(* Where a link leads.                                                     *)

(* An id that is one segment.                                              *)
LEMMA IdIsASegment ==
    ASSUME NEW id \in TableIds \cup FunctionIds, ~Table!Contains(id, "/")
    PROVE  id \in Seq(Pieces \ {"/"}) /\ Len(id) \in Nat \ {0}
<1>1. id \in Seq(STRING) /\ id # <<>>
  BY CatalogueAssumption DEF TableIds, FunctionIds
<1>2. Len(id) \in Nat \ {0} /\ DOMAIN id = 1..Len(id) /\ \A i \in 1..Len(id) : id[i] \in STRING
  BY <1>1
<1>3. \A i \in 1..Len(id) : id[i] # "/"
  BY DEF Table!Contains
<1>4. \A i \in 1..Len(id) : id[i] \in Pieces \ {"/"}
  BY <1>2, <1>3 DEF Pieces
<1> QED BY <1>1, <1>2, <1>4

(* The part of a path below its base.                                      *)
LEMMA RestOfPath ==
    ASSUME NEW X, NEW base \in Seq(X), NEW rest \in Seq(X)
    PROVE  Url!Below(base, base \o rest) = Url!Take(Url!Open(rest), rest)
<1> DEFINE all == base \o rest
<1>1. /\ Len(base) \in Nat /\ Len(rest) \in Nat /\ all \in Seq(X)
      /\ Len(all) = Len(base) + Len(rest)
      /\ \A i \in 1..Len(base) : all[i] = base[i]
      /\ \A i \in 1..Len(rest) : all[Len(base) + i] = rest[i]
  OBVIOUS
<1> HIDE DEF all
<1>2. SubSeq(all, Len(base) + 1, Len(all)) = rest
  BY <1>1
<1>3. SubSeq(all, 1, Len(base)) = base /\ SubSeq(base, 1, Len(base)) = base
  BY <1>1
<1>4. Url!IsPrefix(base, all)
  BY <1>1, <1>3 DEF Url!IsPrefix
<1>5. Url!Below(base, all) = Url!Take(Url!Open(rest), rest)
  BY <1>2, <1>4 DEF Url!Below
<1> QED BY <1>5 DEF all

(* What is added to a sequence of segments.                                *)
LEMMA OneMoreSegment ==
    ASSUME NEW X, NEW base \in Seq(X), NEW b \in X
    PROVE  Append(base, b) = base \o <<b>>
OBVIOUS

(* Four are added one after the other.                                     *)
LEMMA FourMoreSegments ==
    ASSUME NEW X, NEW base \in Seq(X), NEW a \in X, NEW b \in X, NEW c \in X, NEW d \in X
    PROVE  Append(Append(Append(Append(base, a), b), c), d) = base \o <<a, b, c, d>>
<1>1. Append(base, a) = base \o <<a>>
  BY OneMoreSegment
<1>2. Append(base \o <<a>>, b) = base \o <<a, b>>
  OBVIOUS
<1>3. Append(base \o <<a, b>>, c) = base \o <<a, b, c>>
  OBVIOUS
<1>4. Append(base \o <<a, b, c>>, d) = base \o <<a, b, c, d>>
  OBVIOUS
<1> QED BY <1>1, <1>2, <1>3, <1>4

(* The segments of the base of the links.                                  *)
LEMMA BasePieces ==
    /\ Url!Join(Base, "/") \in Seq(Pieces)
    /\ Base \in Seq(Seq(Pieces \ {"/"}))
<1>1. Literal \subseteq Pieces /\ Literal \ {"/"} \subseteq Pieces \ {"/"}
  BY DEF Literal
<1>2. Url!Join(Base, "/") \in Seq(Pieces)
  BY <1>1, BaseJoined, SeqMonotonic
<1>3. Seq(Literal \ {"/"}) \subseteq Seq(Pieces \ {"/"})
  BY <1>1, SeqMonotonic
<1>4. Base \in Seq(Seq(Pieces \ {"/"}))
  BY <1>3, BaseType, SeqMonotonic
<1> QED BY <1>2, <1>4

(* The path of a detail is one segment below the base.                     *)
LEMMA DetailPath ==
    ASSUME NEW id \in TableIds \cup FunctionIds, ~Table!Contains(id, "/")
    PROVE  Url!Split(PathText(id, DetailTail), "/") = Base \o <<id \o DetailTail>>
<1> DEFINE J == Url!Join(Base, "/")
           A == Pieces
           X == Seq(Pieces \ {"/"})
           b == id \o DetailTail
<1>1. id \in X
  BY IdIsASegment
<1>2. {".", "json", "/"} \subseteq A
  BY DEF Pieces
<1>3. DetailTail \in X
  BY <1>2 DEF DetailTail
<1>4. X \subseteq Seq(A)
  BY SeqMonotonic
<1>5. J \in Seq(A) /\ Base \in Seq(X)
  BY BasePieces
<1>6. b \in X
  BY <1>1, <1>3
<1>7. PathText(id, DetailTail) = J \o <<"/">> \o b
  <2>1. J \o <<"/">> \in Seq(A)
    BY <1>2, <1>5
  <2>2. id \in Seq(A) /\ DetailTail \in Seq(A)
    BY <1>1, <1>3, <1>4
  <2> HIDE DEF J, A
  <2>3. (J \o <<"/">> \o id) \o DetailTail = (J \o <<"/">>) \o (id \o DetailTail)
    BY <2>1, <2>2, ConcatAssociative
  <2> QED BY <2>3 DEF PathText, J
<1>8. Url!Split(J, "/") = Base
  BY BaseJoined
<1> HIDE DEF J, X, b
<1>9. Url!Split(J \o <<"/">> \o b, "/") = Append(Base, b)
  <2>1. b \in Seq(A \ {"/"}) /\ "/" \in A /\ J \in Seq(A)
    BY <1>2, <1>5, <1>6 DEF X
  <2> HIDE DEF A
  <2> QED BY <1>8, <2>1, SegmentMore
<1>10. Append(Base, b) = Base \o <<b>>
  BY <1>5, <1>6, OneMoreSegment
<1> QED BY <1>7, <1>9, <1>10 DEF b

(* A sequence after another, one part of it after the other.               *)
LEMMA AddedTo ==
    ASSUME NEW A, NEW c \in Seq(A), NEW s \in Seq(A), NEW t \in Seq(A)
    PROVE  s \o t \in Seq(A) /\ c \o (s \o t) = (c \o s) \o t
<1>1. s \o t \in Seq(A)
  OBVIOUS
<1> QED BY <1>1, ConcatAssociative

SequencesOf(A, c, s, z, x, y) ==
    c \in Seq(A) /\ s \in Seq(A) /\ z \in Seq(A) /\ x \in Seq(A) /\ y \in Seq(A)

(* Five sequences one after the other.                                     *)
LEMMA OneByOne ==
    ASSUME NEW A, NEW c, NEW s, NEW z, NEW x, NEW y, SequencesOf(A, c, s, z, x, y)
    PROVE  c \o (s \o z \o s \o x \o s \o y) = c \o s \o z \o s \o x \o s \o y
<1> DEFINE a == s \o z
           b == a \o s
           d == b \o x
           e == d \o s
<1>0. c \in Seq(A) /\ s \in Seq(A) /\ z \in Seq(A) /\ x \in Seq(A) /\ y \in Seq(A)
  BY DEF SequencesOf
<1>1. a \in Seq(A) /\ c \o a = (c \o s) \o z
  <2>1. c \in Seq(A) /\ s \in Seq(A) /\ z \in Seq(A)
    BY <1>0
  <2> QED BY <2>1, AddedTo
<1>2. a \in Seq(A)
  BY <1>1
<1>3. b \in Seq(A) /\ c \o b = (c \o a) \o s
  <2> HIDE DEF a
  <2> QED BY <1>0, <1>2, AddedTo
<1>4. b \in Seq(A)
  BY <1>3
<1>5. d \in Seq(A) /\ c \o d = (c \o b) \o x
  <2> HIDE DEF b
  <2> QED BY <1>0, <1>4, AddedTo
<1>6. d \in Seq(A)
  BY <1>5
<1>7. e \in Seq(A) /\ c \o e = (c \o d) \o s
  <2> HIDE DEF d
  <2> QED BY <1>0, <1>6, AddedTo
<1>8. e \in Seq(A)
  BY <1>7
<1>9. c \o (e \o y) = (c \o e) \o y
  <2> HIDE DEF e
  <2> QED BY <1>0, <1>8, AddedTo
<1>10. c \o (e \o y) = c \o s \o z \o s \o x \o s \o y
  <2> HIDE DEF a, b, d, e
  <2> QED BY Zenon, <1>1, <1>3, <1>5, <1>7, <1>9
<1> QED BY Zenon, <1>10 DEF a, b, d, e

(* The path of a tile is four, the last three its place.                   *)
LEMMA TilePath ==
    ASSUME NEW id \in TableIds \cup FunctionIds, ~Table!Contains(id, "/")
    PROVE  Url!Split(PathText(id, TileEnd), "/")
               = Base \o <<id, <<"3">>, <<"1">>, <<"2", ".", "pbf">>>>
<1> DEFINE J == Url!Join(Base, "/")
           A == Pieces
           X == Seq(Pieces \ {"/"})
           z == <<"3">>
           x == <<"1">>
           y == <<"2", ".", "pbf">>
           sign == <<"/">>
<1>1. id \in X
  BY IdIsASegment
<1>2. {"1", "2", "3", ".", "pbf", "/"} \subseteq A
  BY DEF Pieces
<1>3. z \in X /\ x \in X /\ y \in X /\ sign \in Seq(A)
  BY <1>2
<1>4. X \subseteq Seq(A)
  BY SeqMonotonic
<1>5. J \in Seq(A) /\ Base \in Seq(X)
  BY BasePieces
<1>6. TileEnd = sign \o z \o sign \o x \o sign \o y
  BY DEF TileEnd
<1>7. Url!Split(J, "/") = Base
  BY BaseJoined
<1>8. id \in Seq(A) /\ z \in Seq(A) /\ x \in Seq(A) /\ y \in Seq(A)
  BY <1>1, <1>3, <1>4
<1>9. PathText(id, TileEnd) = ((J \o sign \o id) \o sign \o z) \o sign \o x \o sign \o y
  <2>1. PathText(id, TileEnd) = (J \o sign \o id) \o (sign \o z \o sign \o x \o sign \o y)
    BY <1>6 DEF PathText
  <2> DEFINE c == J \o sign \o id
  <2>2. c \in Seq(A)
    BY <1>3, <1>5, <1>8
  <2>3. sign \in Seq(A) /\ z \in Seq(A) /\ x \in Seq(A) /\ y \in Seq(A)
    BY <1>3, <1>8
  <2> HIDE DEF A, J, X, z, x, y, sign, c
  <2>4. c \o (sign \o z \o sign \o x \o sign \o y) = c \o sign \o z \o sign \o x \o sign \o y
    <3>1. SequencesOf(A, c, sign, z, x, y)
      BY <2>2, <2>3 DEF SequencesOf
    <3> QED BY <3>1, OneByOne
  <2> QED BY Zenon, <2>1, <2>4 DEF c
<1> DEFINE c0 == J \o sign \o id
           c1 == c0 \o sign \o z
           c2 == c1 \o sign \o x
<1>10. c0 \in Seq(A)
  <2> HIDE DEF J, A, sign
  <2> QED BY <1>3, <1>5, <1>8
<1>11. c1 \in Seq(A)
  <2> HIDE DEF c0, A, sign, z
  <2> QED BY <1>3, <1>8, <1>10
<1>12. c2 \in Seq(A)
  <2> HIDE DEF c1, A, sign, x
  <2> QED BY <1>3, <1>8, <1>11
<1>13. "/" \in A /\ X = Seq(A \ {"/"})
  BY <1>2
<1>14. PathText(id, TileEnd) = c2 \o <<"/">> \o y
  BY <1>9
<1> DEFINE s0 == J
<1>15. Url!Split(c0, "/") = Append(Base, id)
  <2>1. c0 = J \o <<"/">> \o id
    OBVIOUS
  <2> HIDE DEF J, A, X, c0
  <2> QED BY <1>1, <1>5, <1>7, <1>13, <2>1, SegmentMore
<1>16. Url!Split(c1, "/") = Append(Append(Base, id), z)
  <2>1. c1 = c0 \o <<"/">> \o z
    OBVIOUS
  <2> HIDE DEF c0, c1, z, A, X
  <2> QED BY <1>3, <1>10, <1>13, <1>15, <2>1, SegmentMore
<1>17. Url!Split(c2, "/") = Append(Append(Append(Base, id), z), x)
  <2>1. c2 = c1 \o <<"/">> \o x
    OBVIOUS
  <2> HIDE DEF c1, c2, z, x, A, X
  <2> QED BY <1>3, <1>11, <1>13, <1>16, <2>1, SegmentMore
<1>18. Url!Split(c2 \o <<"/">> \o y, "/") = Append(Append(Append(Append(Base, id), z), x), y)
  <2> HIDE DEF c2, z, x, y, A, X
  <2> QED BY <1>3, <1>12, <1>13, <1>17, SegmentMore
<1>19. Append(Append(Append(Append(Base, id), z), x), y) = Base \o <<id, z, x, y>>
  <2> HIDE DEF z, x, y, X
  <2> QED BY <1>1, <1>3, <1>5, FourMoreSegments
<1> QED BY <1>14, <1>18, <1>19

(* The sign between the layers of a tile request.                          *)
Comma == ","

(* The first route that is open is the one that is taken.                  *)
LEMMA FirstOpen ==
    ASSUME NEW routes, NEW rest, NEW n \in DOMAIN routes, DOMAIN routes \subseteq Nat,
           routes[n].on, \A i \in DOMAIN routes : i < n => ~routes[i].on
    PROVE  /\ Url!Take(routes, rest).kind = routes[n].kind
           /\ routes[n].kind = "detail" => Url!Take(routes, rest).names = <<Url!Stem(rest[1])>>
           /\ routes[n].kind = "tile" => Url!Take(routes, rest).names = Url!Split(rest[1], Comma)
<1> DEFINE open == {i \in DOMAIN routes : routes[i].on}
<1>1. n \in open /\ open \subseteq Nat /\ \A i \in open : n <= i
  OBVIOUS
<1> DEFINE kind == IF open = {} THEN "none" ELSE routes[Url!Min(open)].kind
<1>2. Url!Min(open) = n
  <2> HIDE DEF open
  <2> DEFINE first == CHOOSE i \in open : \A j \in open : i <= j
  <2>1. first \in open /\ \A j \in open : first <= j
    BY <1>1
  <2>2. first = n
    <3> HIDE DEF first
    <3> QED BY <1>1, <2>1
  <2> QED BY <2>2 DEF Url!Min
<1>3. kind = routes[n].kind
  <2> HIDE DEF open
  <2> QED BY <1>1, <1>2
<1>4. /\ Url!Take(routes, rest).kind = kind
      /\ kind = "detail" => Url!Take(routes, rest).names = <<Url!Stem(rest[1])>>
      /\ kind = "tile" => Url!Take(routes, rest).names = Url!Split(rest[1], Comma)
  BY Zenon DEF Url!Take, Comma
<1> HIDE DEF kind
<1> QED BY <1>3, <1>4

(* Which routes are open.                                                  *)
LEMMA OpenRoutes ==
    ASSUME NEW rest
    PROVE  /\ DOMAIN Url!Open(rest) = 1..7
           /\ Url!Open(rest)[4].kind = "detail" /\ Url!Open(rest)[5].kind = "tile"
           /\ Url!Open(rest)[1].on
                  <=> (ShowPreview /\ rest \in {<<>>, <<<<>>>>, <<<<"index", ".", "html">>>>})
           /\ Url!Open(rest)[2].on <=> (ShowPreview /\ rest = <<<<"index", ".", "json">>>>)
           /\ Url!Open(rest)[3].on <=> (ShowPreview /\ Len(rest) = 1 /\ Url!Suffixed(rest[1], "html"))
           /\ Url!Open(rest)[4].on <=> (ShowPreview /\ Len(rest) = 1 /\ Url!Suffixed(rest[1], "json"))
           /\ Url!Open(rest)[5].on
                  <=> (/\ Len(rest) = 4 /\ rest[1] # <<>>
                       /\ \A i \in {2, 3} : Len(rest[i]) = 1 /\ rest[i][1] \in Digits
                       /\ Len(rest[4]) > 2 /\ rest[4][1] \in Digits /\ rest[4][2] = ".")
<1>1. DOMAIN Url!Open(rest) = 1..7
  BY DEF Url!Open
<1>2. Url!Open(rest)[4].kind = "detail" /\ Url!Open(rest)[5].kind = "tile"
  BY DEF Url!Open
<1>3. Url!Open(rest)[1].on
          <=> (ShowPreview /\ rest \in {<<>>, <<<<>>>>, <<<<"index", ".", "html">>>>})
  BY DEF Url!Open
<1>4. Url!Open(rest)[2].on <=> (ShowPreview /\ rest = <<<<"index", ".", "json">>>>)
  BY DEF Url!Open
<1>5. Url!Open(rest)[3].on <=> (ShowPreview /\ Len(rest) = 1 /\ Url!Suffixed(rest[1], "html"))
  BY DEF Url!Open
<1>6. Url!Open(rest)[4].on <=> (ShowPreview /\ Len(rest) = 1 /\ Url!Suffixed(rest[1], "json"))
  BY DEF Url!Open
<1>7. Url!Open(rest)[5].on
          <=> (/\ Len(rest) = 4 /\ rest[1] # <<>>
               /\ \A i \in {2, 3} : Len(rest[i]) = 1 /\ rest[i][1] \in Digits
               /\ Len(rest[4]) > 2 /\ rest[4][1] \in Digits /\ rest[4][2] = ".")
  BY DEF Url!Open
<1> QED BY <1>1, <1>2, <1>3, <1>4, <1>5, <1>6, <1>7

(* An id with an extension is the detail of the layer.                     *)
LEMMA DetailTaken ==
    ASSUME ShowPreview, NEW id \in TableIds \cup FunctionIds, ~Table!Contains(id, "/")
    PROVE  LET rest == <<id \o DetailTail>>
               target == Url!Take(Url!Open(rest), rest)
           IN  target.kind = "detail" /\ target.names = <<id>>
<1> DEFINE seg == id \o DetailTail
           rest == <<seg>>
<1>1. id \in Seq(Pieces) /\ Len(id) \in Nat \ {0} /\ id # <<"index">>
  <2>1. id \in Seq(Pieces)
    <3>1. Seq(Pieces \ {"/"}) \subseteq Seq(Pieces)
      BY SeqMonotonic
    <3> QED BY <3>1, IdIsASegment
  <2> QED BY <2>1, IdIsASegment, IdIsSent
<1>2. DetailTail \in Seq(Pieces) /\ Len(DetailTail) = 2 /\ DetailTail[1] = "." /\ DetailTail[2] = "json"
  <2>1. {".", "json"} \subseteq Pieces
    BY DEF Pieces
  <2> QED BY <2>1 DEF DetailTail
<1>3. /\ seg \in Seq(Pieces) /\ Len(seg) = Len(id) + 2
      /\ seg[Len(id) + 1] = "." /\ seg[Len(id) + 2] = "json"
      /\ \A i \in 1..Len(id) : seg[i] = id[i]
  <2> DEFINE tail == DetailTail
  <2>1. id \in Seq(Pieces) /\ tail \in Seq(Pieces) /\ Len(tail) = 2 /\ Len(id) \in Nat
    BY <1>1, <1>2
  <2>2. seg = id \o tail
    OBVIOUS
  <2>3. tail[1] = "." /\ tail[2] = "json"
    BY <1>2
  <2> HIDE DEF seg, tail
  <2>4. /\ id \o tail \in Seq(Pieces) /\ Len(id \o tail) = Len(id) + Len(tail)
        /\ \A i \in 1..(Len(id) + Len(tail)) :
               (id \o tail)[i] = IF i <= Len(id) THEN id[i] ELSE tail[i - Len(id)]
    <3>1. id \in Seq(Pieces) /\ tail \in Seq(Pieces)
      BY <2>1
    <3> QED BY Zenon, <3>1, ConcatProperties
  <2> DEFINE n == Len(id)
  <2>5. /\ n \in Nat /\ seg \in Seq(Pieces) /\ Len(seg) = n + 2
        /\ \A i \in 1..(n + 2) : seg[i] = IF i <= n THEN id[i] ELSE tail[i - n]
    BY <2>1, <2>2, <2>4
  <2> HIDE DEF n
  <2>6. seg[n + 1] = tail[1] /\ seg[n + 2] = tail[2] /\ \A i \in 1..n : seg[i] = id[i]
    <3>1. /\ n + 1 \in 1..(n + 2) /\ n + 2 \in 1..(n + 2) /\ ~(n + 1 <= n) /\ ~(n + 2 <= n)
          /\ (n + 1) - n = 1 /\ (n + 2) - n = 2
      BY <2>5
    <3>2. seg[n + 1] = tail[1] /\ seg[n + 2] = tail[2]
      BY <2>5, <3>1
    <3>3. \A i \in 1..n : seg[i] = id[i]
      BY <2>5
    <3> QED BY <3>2, <3>3
  <2> QED BY <2>3, <2>5, <2>6 DEF n
<1> HIDE DEF seg
<1>4. Url!Stem(seg) = id
  BY <1>1, <1>3 DEF Url!Stem
<1>5. SubSeq(seg, Len(seg) - 1, Len(seg)) = <<".", "json">>
  <2> DEFINE n == Len(id)
             end == SubSeq(seg, n + 1, n + 2)
  <2>1. Len(seg) = n + 2 /\ (n + 2) - 1 = n + 1 /\ n \in Nat /\ seg \in Seq(Pieces)
    BY <1>1, <1>3
  <2> HIDE DEF n
  <2>2. end \in Seq(Pieces) /\ Len(end) = 2 /\ end[1] = seg[n + 1] /\ end[2] = seg[n + 2]
    BY <2>1
  <2>3. seg[n + 1] = "." /\ seg[n + 2] = "json"
    BY <1>3 DEF n
  <2>4. SubSeq(seg, Len(seg) - 1, Len(seg)) = end
    BY <2>1
  <2> HIDE DEF end
  <2>5. end = <<".", "json">>
    BY <2>2, <2>3
  <2> QED BY <2>4, <2>5
<1>6. Url!Suffixed(seg, "json")
  BY <1>1, <1>3, <1>5 DEF Url!Suffixed
<1>7. ~Url!Suffixed(seg, "html")
  BY <1>5 DEF Url!Suffixed
<1>8. seg # <<"index", ".", "json">>
  <2>1. SubSeq(<<"index", ".", "json">>, 1, 1) = <<"index">>
    <3> DEFINE A == {"index", ".", "json"}
               text == <<"index", ".", "json">>
    <3>1. text \in Seq(A) /\ 1 <= Len(text) /\ text[1] = "index"
      OBVIOUS
    <3> HIDE DEF A, text
    <3>2. SubSeq(text, 1, 1) = <<"index">>
      BY <3>1, OneFirst
    <3> QED BY <3>2 DEF text
  <2>2. Url!Stem(<<"index", ".", "json">>) = <<"index">>
    BY <2>1 DEF Url!Stem
  <2> QED BY <1>1, <1>4, <2>2
<1>9. seg # <<"index", ".", "html">> /\ seg # <<>>
  BY <1>1, <1>3
<1> DEFINE routes == Url!Open(rest)
<1>10. Len(rest) = 1 /\ rest[1] = seg
  OBVIOUS
<1>11. rest \notin {<<>>, <<<<>>>>, <<<<"index", ".", "html">>>>} /\ rest # <<<<"index", ".", "json">>>>
  BY <1>8, <1>9
<1> HIDE DEF rest
<1>12. DOMAIN routes = 1..7 /\ routes[4].kind = "detail"
  BY OpenRoutes
<1>13. routes[4].on /\ ~routes[1].on /\ ~routes[2].on /\ ~routes[3].on
  BY <1>6, <1>7, <1>10, <1>11, OpenRoutes
<1> HIDE DEF routes
<1>14. \A i \in DOMAIN routes : i < 4 => ~routes[i].on
  BY <1>12, <1>13
<1>15. Url!Take(routes, rest).kind = "detail" /\ Url!Take(routes, rest).names = <<Url!Stem(rest[1])>>
  <2>1. 4 \in DOMAIN routes /\ DOMAIN routes \subseteq Nat /\ routes[4].on /\ routes[4].kind = "detail"
    BY <1>12, <1>13
  <2> QED BY <1>14, <2>1, FirstOpen
<1> QED BY <1>4, <1>10, <1>15 DEF routes, rest, seg

(* An id and a place are a tile of the layer.                              *)
LEMMA TileTaken ==
    ASSUME NEW id \in TableIds \cup FunctionIds, ~Table!Contains(id, Comma)
    PROVE  LET rest == <<id, <<"3">>, <<"1">>, <<"2", ".", "pbf">>>>
               target == Url!Take(Url!Open(rest), rest)
           IN  target.kind = "tile" /\ target.names = <<id>>
<1> DEFINE rest == <<id, <<"3">>, <<"1">>, <<"2", ".", "pbf">>>>
           routes == Url!Open(rest)
<1>1. id \in Seq(STRING) /\ id # <<>>
  BY CatalogueAssumption DEF TableIds, FunctionIds
<1>2. /\ Len(rest) = 4 /\ rest[1] = id /\ rest[2] = <<"3">> /\ rest[3] = <<"1">>
      /\ rest[4] = <<"2", ".", "pbf">>
  OBVIOUS
<1>3. rest \notin {<<>>, <<<<>>>>, <<<<"index", ".", "html">>>>} /\ rest # <<<<"index", ".", "json">>>>
  OBVIOUS
<1> HIDE DEF rest
<1>4. DOMAIN routes = 1..7 /\ routes[5].kind = "tile"
  BY OpenRoutes
<1>5. routes[5].on
  <2>1. ASSUME NEW i \in {2, 3} PROVE Len(rest[i]) = 1 /\ rest[i][1] \in Digits
    <3>1. CASE i = 2
      BY <1>2, <3>1, DigitsAssumption
    <3>2. CASE i = 3
      BY <1>2, <3>2, DigitsAssumption
    <3> QED BY <3>1, <3>2
  <2>2. Len(rest[4]) > 2 /\ rest[4][1] \in Digits /\ rest[4][2] = "."
    <3>1. Len(rest[4]) = 3 /\ rest[4][1] = "2" /\ rest[4][2] = "."
      BY <1>2
    <3> QED BY <3>1, DigitsAssumption
  <2>3. rest[1] # <<>>
    BY <1>1, <1>2
  <2>4. routes[5].on
           <=> (/\ Len(rest) = 4 /\ rest[1] # <<>>
                /\ \A i \in {2, 3} : Len(rest[i]) = 1 /\ rest[i][1] \in Digits
                /\ Len(rest[4]) > 2 /\ rest[4][1] \in Digits /\ rest[4][2] = ".")
    BY OpenRoutes
  <2>5. Len(rest) = 4
    BY <1>2
  <2> QED BY <2>1, <2>2, <2>3, <2>4, <2>5
<1>6. ~routes[1].on /\ ~routes[2].on /\ ~routes[3].on /\ ~routes[4].on
  <2>1. routes[1].on <=> (ShowPreview /\ rest \in {<<>>, <<<<>>>>, <<<<"index", ".", "html">>>>})
    BY OpenRoutes
  <2>2. routes[2].on <=> (ShowPreview /\ rest = <<<<"index", ".", "json">>>>)
    BY OpenRoutes
  <2>3. routes[3].on <=> (ShowPreview /\ Len(rest) = 1 /\ Url!Suffixed(rest[1], "html"))
    BY OpenRoutes
  <2>4. routes[4].on <=> (ShowPreview /\ Len(rest) = 1 /\ Url!Suffixed(rest[1], "json"))
    BY OpenRoutes
  <2>5. Len(rest) # 1
    BY <1>2
  <2> QED BY Zenon, <1>3, <2>1, <2>2, <2>3, <2>4, <2>5
<1> HIDE DEF routes
<1>7. \A i \in DOMAIN routes : i < 5 => ~routes[i].on
  <2> SUFFICES ASSUME NEW i \in 1..7, i < 5 PROVE ~routes[i].on
    BY <1>4
  <2>1. i = 1 \/ i = 2 \/ i = 3 \/ i = 4
    OBVIOUS
  <2> QED BY <1>6, <2>1
<1>8. Url!Take(routes, rest).kind = "tile" /\ Url!Take(routes, rest).names = Url!Split(rest[1], Comma)
  <2>1. 5 \in DOMAIN routes /\ DOMAIN routes \subseteq Nat
    BY <1>4
  <2>2. /\ Url!Take(routes, rest).kind = routes[5].kind
        /\ routes[5].kind = "tile" => Url!Take(routes, rest).names = Url!Split(rest[1], Comma)
    BY Zenon, <1>5, <1>7, <2>1, FirstOpen
  <2> QED BY <1>4, <2>2
<1>9. Url!Split(id, Comma) = <<id>>
  <2>1. \A i \in 1..Len(id) : id[i] # Comma
    BY DEF Table!Contains
  <2>2. Len(id) \in Nat /\ \A i \in 1..Len(id) : id[i] \in STRING
    BY <1>1
  <2>3. \A i \in 1..Len(id) : id[i] \in STRING \ {Comma}
    BY <2>1, <2>2
  <2>4. id \in Seq(STRING \ {Comma})
    BY <1>1, <2>2, <2>3
  <2> QED BY <2>4, OneSegment
<1> QED BY <1>2, <1>8, <1>9 DEF routes, rest

(* A link of a list leads to the detail of its layer, and one of a detail  *)
(* to its tiles.                                                           *)
LeadsTo(link, kind, id) ==
    LET target == Url!Route(Url!Received(Url!Fill(link.path, SomeTile)))
    IN  target.names = <<id>> /\ target.kind = kind

(* Both lead there, unless a sign in the id takes it apart.                *)
LEMMA LinksLead ==
    ASSUME BaseIsServed, ShowPreview, NEW r, NEW id \in TableIds \cup FunctionIds,
           ~Table!Contains(id, "/")
    PROVE  /\ LeadsTo(Url!DetailURL(r, id), "detail", id)
           /\ ~Table!Contains(id, Comma) => LeadsTo(Url!TileURL(r, id), "tile", id)
<1> DEFINE X == Seq(Pieces)
<1>1. Base \in Seq(X)
  <2>1. Seq(Pieces \ {"/"}) \subseteq Seq(Pieces)
    BY SeqMonotonic
  <2> QED BY <2>1, BasePieces, SeqMonotonic
<1>2. \A text : Url!Route(text) = Url!Below(Base, Url!Split(text, "/"))
  BY DEF Url!Route, Base
<1>3. id \in X
  BY IdIsSent DEF Sent
<1>4. LeadsTo(Url!DetailURL(r, id), "detail", id)
  <2> DEFINE link == Url!DetailURL(r, id)
             text == Url!Received(Url!Fill(link.path, SomeTile))
             rest == <<id \o DetailTail>>
  <2>1. text = PathText(id, DetailTail)
    BY LinkIsRead, EndsAreSent, TheLinks
  <2>2. Url!Split(text, "/") = Base \o rest
    BY <2>1, DetailPath
  <2>3. rest \in Seq(X)
    <3>1. DetailTail \in X
      BY EndsAreSent DEF Sent
    <3>2. id \o DetailTail \in X
      BY <1>3, <3>1
    <3> HIDE DEF X
    <3> QED BY <3>2
  <2>4. Url!Route(text) = Url!Take(Url!Open(rest), rest)
    <3> HIDE DEF text, rest, X
    <3>1. Url!Below(Base, Base \o rest) = Url!Take(Url!Open(rest), rest)
      BY <1>1, <2>3, RestOfPath
    <3> QED BY <1>2, <2>2, <3>1
  <2>5. Url!Take(Url!Open(rest), rest).kind = "detail" /\ Url!Take(Url!Open(rest), rest).names = <<id>>
    BY DetailTaken
  <2> HIDE DEF rest
  <2> QED BY <2>4, <2>5 DEF LeadsTo
<1>5. ASSUME ~Table!Contains(id, Comma) PROVE LeadsTo(Url!TileURL(r, id), "tile", id)
  <2> DEFINE link == Url!TileURL(r, id)
             text == Url!Received(Url!Fill(link.path, SomeTile))
             rest == <<id, <<"3">>, <<"1">>, <<"2", ".", "pbf">>>>
  <2>1. text = PathText(id, TileEnd)
    BY LinkIsRead, EndsAreSent, TheLinks
  <2>2. Url!Split(text, "/") = Base \o rest
    BY <2>1, TilePath
  <2>3. rest \in Seq(X)
    <3>1. {"1", "2", "3", ".", "pbf"} \subseteq Pieces
      BY DEF Pieces
    <3>2. <<"3">> \in X /\ <<"1">> \in X /\ <<"2", ".", "pbf">> \in X
      BY <3>1
    <3> HIDE DEF X
    <3> QED BY <1>3, <3>2
  <2>4. Url!Route(text) = Url!Take(Url!Open(rest), rest)
    <3> HIDE DEF text, rest, X
    <3>1. Url!Below(Base, Base \o rest) = Url!Take(Url!Open(rest), rest)
      BY <1>1, <2>3, RestOfPath
    <3> QED BY <1>2, <2>2, <3>1
  <2>5. Url!Take(Url!Open(rest), rest).kind = "tile" /\ Url!Take(Url!Open(rest), rest).names = <<id>>
    BY <1>5, TileTaken
  <2> HIDE DEF rest
  <2> QED BY <2>4, <2>5 DEF LeadsTo
<1> QED BY <1>4, <1>5

-----------------------------------------------------------------------------
(* What a list or a detail is answered with.                               *)

(* The host and scheme of a link are those the client asked.               *)
LEMMA HostAsAsked ==
    ASSUME ProxiesAreHonest, UrlBase = NoUrlBase,
           NEW r \in Requests, r.kind \in {"list", "detail"}
    PROVE  [scheme |-> Url!serverURLHost(r).scheme, host |-> Url!serverURLHost(r).host] = r.asked
<1> DEFINE forwarded == {"Forwarded: host", "Forwarded: proto"} \subseteq DOMAIN r.header
           scheme == Url!FromProxy(r, IF forwarded THEN "Forwarded: proto" ELSE "X-Forwarded-Proto",
                                   IF r.tls THEN "https" ELSE "http")
           host == Url!FromProxy(r, IF forwarded THEN "Forwarded: host" ELSE "X-Forwarded-Host", r.host)
<1>1. Url!serverURLHost(r) = [scheme |-> scheme, host |-> host, path |-> <<>>]
  BY Zenon DEF Url!serverURLHost
<1>2. /\ r.asked = [scheme |-> r.asked.scheme, host |-> r.asked.host]
      /\ \A header \in DOMAIN r.header \cap {"Forwarded: host", "X-Forwarded-Host"} :
            r.header[header] = r.asked.host
      /\ \A header \in DOMAIN r.header \cap {"Forwarded: proto", "X-Forwarded-Proto"} :
            r.header[header] = r.asked.scheme
      /\ \/ forwarded
         \/ /\ "X-Forwarded-Host" \in DOMAIN r.header \/ r.host = r.asked.host
            /\ "X-Forwarded-Proto" \in DOMAIN r.header \/ r.asked.scheme = IF r.tls THEN "https" ELSE "http"
  BY Zenon DEF ProxiesAreHonest
<1>3. scheme = r.asked.scheme
  <2>1. CASE forwarded
    <3>1. scheme = r.header["Forwarded: proto"] /\ "Forwarded: proto" \in DOMAIN r.header
      BY <2>1 DEF Url!FromProxy
    <3> QED BY <1>2, <3>1
  <2>2. CASE ~forwarded /\ "X-Forwarded-Proto" \in DOMAIN r.header
    <3>1. scheme = r.header["X-Forwarded-Proto"]
      BY <2>2 DEF Url!FromProxy
    <3> QED BY <1>2, <2>2, <3>1
  <2>3. CASE ~forwarded /\ "X-Forwarded-Proto" \notin DOMAIN r.header
    <3>1. scheme = IF r.tls THEN "https" ELSE "http"
      BY <2>3 DEF Url!FromProxy
    <3> QED BY <1>2, <2>3, <3>1
  <2> QED BY <2>1, <2>2, <2>3
<1>4. host = r.asked.host
  <2>1. CASE forwarded
    <3>1. host = r.header["Forwarded: host"] /\ "Forwarded: host" \in DOMAIN r.header
      BY <2>1 DEF Url!FromProxy
    <3> QED BY <1>2, <3>1
  <2>2. CASE ~forwarded /\ "X-Forwarded-Host" \in DOMAIN r.header
    <3>1. host = r.header["X-Forwarded-Host"]
      BY <2>2 DEF Url!FromProxy
    <3> QED BY <1>2, <2>2, <3>1
  <2>3. CASE ~forwarded /\ "X-Forwarded-Host" \notin DOMAIN r.header
    <3>1. host = r.host
      BY <2>3 DEF Url!FromProxy
    <3> QED BY <1>2, <2>3, <3>1
  <2> QED BY <2>1, <2>2, <2>3
<1> HIDE DEF scheme, host
<1>5. Url!serverURLHost(r).scheme = scheme /\ Url!serverURLHost(r).host = host
  BY <1>1
<1> QED BY <1>2, <1>3, <1>4, <1>5

(* A link of a reply leads back.                                           *)
LinkLeadsBack(r, kind, entry) ==
    /\ UrlBase = NoUrlBase => [scheme |-> entry.url.scheme, host |-> entry.url.host] = r.asked
    /\ \/ Table!Contains(entry.layer, "/")
       \/ kind = "detail" /\ Table!Contains(entry.layer, Comma)
       \/ LeadsTo(entry.url, IF kind = "list" THEN "detail" ELSE "tile", entry.layer)
LinksOk(h) ==
    \A kind \in {"list", "detail"} : Served(h, kind) =>
        \A i \in DOMAIN reply[h].body : LinkLeadsBack(req[h], kind, reply[h].body[i])

(* That is what the property says.                                         *)
LEMMA LinksOkIsEnough == (\A h \in Handlers : LinksOk(h)) => LinksLeadBack
BY Zenon DEF LinksLeadBack, LinksOk, LinkLeadsBack, LeadsTo, SomeTile, Comma

(* The links of a layer lead back.                                         *)
LEMMA LinksOfALayer ==
    ASSUME ProxiesAreHonest, BaseIsServed, ShowPreview,
           NEW r \in Requests, NEW id \in TableIds \cup FunctionIds
    PROVE  /\ r.kind = "list" => \A entry :
                 entry.layer = id /\ entry.url = Url!DetailURL(r, id) => LinkLeadsBack(r, "list", entry)
           /\ r.kind = "detail" => \A entry :
                 entry.layer = id /\ entry.url = Url!TileURL(r, id) => LinkLeadsBack(r, "detail", entry)
<1>1. ASSUME NEW tail, NEW link, link = LinkTo(r, id, tail), UrlBase = NoUrlBase, r.kind \in {"list", "detail"}
      PROVE  [scheme |-> link.scheme, host |-> link.host] = r.asked
  <2>1. link.scheme = Url!serverURLHost(r).scheme /\ link.host = Url!serverURLHost(r).host
    BY <1>1, LinkText
  <2> QED BY <1>1, <2>1, HostAsAsked
<1>2. ASSUME r.kind = "list", NEW entry, entry.layer = id, entry.url = Url!DetailURL(r, id)
      PROVE  LinkLeadsBack(r, "list", entry)
  <2>1. UrlBase = NoUrlBase => [scheme |-> entry.url.scheme, host |-> entry.url.host] = r.asked
    BY <1>1, <1>2, TheLinks
  <2>2. Table!Contains(id, "/") \/ LeadsTo(entry.url, "detail", id)
    BY <1>2, LinksLead
  <2> QED BY <1>2, <2>1, <2>2 DEF LinkLeadsBack
<1>3. ASSUME r.kind = "detail", NEW entry, entry.layer = id, entry.url = Url!TileURL(r, id)
      PROVE  LinkLeadsBack(r, "detail", entry)
  <2>1. UrlBase = NoUrlBase => [scheme |-> entry.url.scheme, host |-> entry.url.host] = r.asked
    BY <1>1, <1>3, TheLinks
  <2>2. Table!Contains(id, "/") \/ Table!Contains(id, Comma) \/ LeadsTo(entry.url, "tile", id)
    BY <1>3, LinksLead
  <2> QED BY <1>3, <2>1, <2>2 DEF LinkLeadsBack
<1> QED BY <1>2, <1>3

(* What a set is listed as has nothing else in it.                         *)
LEMMA ListedAreIn ==
    ASSUME NEW S, IsFiniteSet(S)
    PROVE  \A i \in DOMAIN Table!SetToSeq(S) : Table!SetToSeq(S)[i] \in S
<1> DEFINE X == [1..Cardinality(S) -> S]
           order == CHOOSE f \in X : Table!IsInjective(f)
<1>1. \E f \in X : Table!IsInjective(f)
  <2>1. ExistsBijection(1..Cardinality(S), S)
    BY FS_CardinalityType
  <2>2. PICK f : f \in Injection(1..Cardinality(S), S)
    BY <2>1 DEF ExistsBijection, Bijection
  <2>3. f \in X /\ Table!IsInjective(f)
    BY <2>2 DEF Injection, IsInjective, Table!IsInjective
  <2> QED BY <2>3
<1>2. order \in X
  <2> HIDE DEF X
  <2> QED BY <1>1
<1>3. Table!SetToSeq(S) = order
  BY Zenon, SameCardinalityTable DEF Table!SetToSeq
<1> HIDE DEF order
<1> QED BY <1>2, <1>3

(* There are finitely many layers.                                         *)
LEMMA LayersAreFinite == IsFiniteSet(TableIds) /\ IsFiniteSet(FunctionIds)
<1>1. ASSUME NEW S, IsFiniteSet(S) PROVE IsFiniteSet({l.id : l \in S})
  <2> DEFINE T == {l.id : l \in S}
             F == [l \in S |-> l.id]
  <2>1. F \in Surjection(S, T)
    BY DEF Surjection
  <2> HIDE DEF F, T
  <2>2. IsFiniteSet(T)
    BY <1>1, <2>1, FS_Surjection
  <2> QED BY <2>2 DEF T
<1>2. IsFiniteSet(TableIds)
  BY <1>1, CatalogueAssumption DEF TableIds
<1>3. IsFiniteSet({g \in Functions : Function!IsTileFunction(g)})
  BY CatalogueAssumption, FS_Subset
<1>4. IsFiniteSet(FunctionIds)
  BY <1>1, <1>3 DEF FunctionIds
<1> QED BY <1>2, <1>4

(* A list is answered with links that lead back.                           *)
LEMMA ListLinks ==
    ASSUME ProxiesAreHonest, BaseIsServed, ShowPreview, IInv, TypesInv,
           NEW h \in Handlers, List(h)
    PROVE  LinksOk(h)'
<1> DEFINE entry(id) == [layer |-> id, kind |-> globalLayers[id].kind, url |-> Url!DetailURL(req[h], id)]
           D == DOMAIN globalLayers
           S == {entry(id) : id \in D}
           r == req[h]
<1>1. pc[h] = "list" /\ r.kind = "list" /\ r \in Requests
  <2>1. pc[h] = "list"
    BY DEF List, Inform, In
  <2>2. r.kind = "list"
    BY <2>1 DEF IInv, HandlerInv
  <2>3. r \in Requests \cup {NoRequest}
    BY DEF TypesInv, HandlerTypes
  <2> QED BY <2>1, <2>2, <2>3 DEF NoRequest
<1>2. reply'[h] = Reply(200, Table!SetToSeq(S)) /\ req' = req
  BY DEF List, Inform, IInv, Functional
<1>3. D \subseteq TableIds \cup FunctionIds /\ IsFiniteSet(D)
  <2>1. D \in {{}, TableIds \cup FunctionIds}
    BY DEF TypesInv
  <2>2. IsFiniteSet(TableIds \cup FunctionIds) /\ IsFiniteSet({})
    BY LayersAreFinite, FS_Union, FS_EmptySet
  <2> QED BY <2>1, <2>2
<1>4. IsFiniteSet(S)
  <2> DEFINE F == [id \in D |-> entry(id)]
  <2>1. F \in Surjection(D, S)
    BY DEF Surjection
  <2> HIDE DEF F, S, D
  <2> QED BY <1>3, <2>1, FS_Surjection
<1>5. ASSUME NEW e \in S PROVE LinkLeadsBack(r, "list", e)
  <2>1. PICK id \in D : e = entry(id)
    OBVIOUS
  <2>2. e.layer = id /\ e.url = Url!DetailURL(r, id)
    BY <2>1
  <2>3. id \in TableIds \cup FunctionIds
    BY <1>3
  <2> HIDE DEF r
  <2> QED BY <1>1, <2>2, <2>3, LinksOfALayer
<1> HIDE DEF S
<1>6. \A i \in DOMAIN Table!SetToSeq(S) : LinkLeadsBack(r, "list", Table!SetToSeq(S)[i])
  BY <1>4, <1>5, ListedAreIn
<1>7. reply'[h].body = Table!SetToSeq(S) /\ req'[h] = r /\ req'[h].kind # "detail"
  BY <1>1, <1>2 DEF Reply
<1> QED BY <1>6, <1>7 DEF LinksOk, Served

(* So is a detail.                                                         *)
LEMMA DetailLinks ==
    ASSUME ProxiesAreHonest, BaseIsServed, ShowPreview, IInv, TypesInv,
           NEW h \in Handlers, Detail(h)
    PROVE  LinksOk(h)'
<1> DEFINE r == req[h]
           id == r.names[1]
           lyr == globalLayers[id]
           listing == IF lyr.kind = "function" THEN Function!getFunctionDetailJSON(lyr)
                      ELSE Table!getTableDetailJSON(lyr)
           e == [layer |-> id, url |-> Url!TileURL(r, id), of |-> listing]
<1>1. pc[h] = "detail" /\ r.kind = "detail" /\ r \in Requests
  <2>1. pc[h] = "detail"
    BY DEF Detail, Inform, In
  <2>2. r.kind = "detail"
    BY <2>1 DEF IInv, HandlerInv
  <2>3. r \in Requests \cup {NoRequest}
    BY DEF TypesInv, HandlerTypes
  <2> QED BY <2>1, <2>2, <2>3 DEF NoRequest
<1>2. /\ reply'[h] = IF id \in DOMAIN globalLayers THEN Reply(200, <<e>>) ELSE Reply(404, <<>>)
      /\ req' = req
  BY DEF Detail, Inform, IInv, Functional
<1>3. e.layer = id /\ e.url = Url!TileURL(r, id)
  OBVIOUS
<1>4. req'[h] = r
  BY <1>2
<1> HIDE DEF e
<1>5. CASE id \in DOMAIN globalLayers
  <2>1. id \in TableIds \cup FunctionIds
    BY <1>5 DEF TypesInv
  <2>2. LinkLeadsBack(r, "detail", e)
    <3> HIDE DEF r, id
    <3> QED BY <1>1, <1>3, <2>1, LinksOfALayer
  <2>3. reply'[h].body = <<e>> /\ req'[h].kind # "list"
    BY <1>1, <1>2, <1>4, <1>5 DEF Reply
  <2>4. \A i \in DOMAIN reply'[h].body : reply'[h].body[i] = e
    BY <2>3
  <2> QED BY <1>4, <2>2, <2>3, <2>4 DEF LinksOk, Served
<1>6. CASE id \notin DOMAIN globalLayers
  BY <1>2, <1>6 DEF LinksOk, Served, Reply
<1> QED BY <1>5, <1>6

(* Whatever else a handler does answers neither a list nor a detail.       *)
LEMMA OtherLinks ==
    ASSUME IInv, NEW h \in Handlers, LinksOk(h),
           Arrive(h) \/ LayerStep(h) \/ TemplateStep(h)
           \/ Ask(h) \/ AskFails(h) \/ Ignore(h) \/ Track(h) \/ ReadFails(h)
    PROVE  LinksOk(h)'
<1> USE DEF Functional, handling, Goto
<1>0. Functional /\ HandlerInv(h)
  BY DEF IInv
<1>1. ASSUME reply'[h].code # 200 PROVE LinksOk(h)'
  BY <1>1 DEF LinksOk, Served
<1>2. ASSUME pc[h] \in Working \cup {"count"}, req'[h] = req[h] PROVE LinksOk(h)'
  <2>1. req[h].kind = "tile"
    BY <1>0, <1>2 DEF HandlerInv, Halfway, Countable
  <2> QED BY <1>2, <2>1 DEF LinksOk, Served
<1>3. CASE Arrive(h)
  <2>1. reply'[h].code = 0
    BY <1>0, <1>3 DEF Arrive, NoReply, Reply
  <2> QED BY <1>1, <2>1
<1>4. CASE LayerStep(h)
  <2>1. pc[h] = "layer" /\ req' = req
    BY <1>4 DEF LayerStep, SkipDuplicate, FindNothing, InvalidTile, CallFunction, FilterPanics, SelectTable,
                Respond, RespondFails, Found, Wanted, More, In, Answer, Lost
  <2> QED BY <1>2, <2>1 DEF Working
<1>5. CASE TemplateStep(h)
  <2>1. req' = req /\ reply' = reply
    BY <1>5 DEF TemplateStep, ReadTemplate, MapRace, LockTemplates, StoreTemplate, UnlockTemplates
  <2> QED BY <2>1 DEF LinksOk, Served
<1>6. CASE Ask(h) \/ AskFails(h) \/ Ignore(h) \/ Track(h)
  <2>1. pc[h] \in {"ask", "count"} /\ req' = req
    BY <1>6 DEF Ask, AskFails, Ignore, Track, In, Answer
  <2> QED BY <1>2, <2>1 DEF Working, AtLayer
<1>7. CASE ReadFails(h)
  <2>1. reply'[h].code = 500
    BY <1>0, <1>7 DEF ReadFails, Inform, Reply
  <2> QED BY <1>1, <2>1
<1> QED BY <1>3, <1>4, <1>5, <1>6, <1>7

(* Every step keeps the links of all answers as they should be.            *)
LEMMA LinksNext ==
    ASSUME ProxiesAreHonest, BaseIsServed, ShowPreview, IInv, TypesInv,
           \A h \in Handlers : LinksOk(h), [Next]_vars
    PROVE  \A h \in Handlers : LinksOk(h)'
<1>1. CASE UNCHANGED <<req, reply>>
  BY <1>1 DEF LinksOk, Served
<1>2. CASE Load
  <2>1. UNCHANGED <<req, reply>>
    BY <1>2 DEF Load
  <2> QED BY <1>1, <2>1
<1>3. CASE UNCHANGED vars
  <2>1. UNCHANGED <<req, reply>>
    BY <1>3 DEF vars
  <2> QED BY <1>1, <2>1
<1>4. ASSUME NEW g \in Handlers, Arrive(g) \/ Step(g), NEW h \in Handlers PROVE LinksOk(h)'
  <2>1. CASE h = g
    <3>1. CASE List(g)
      BY <2>1, <3>1, ListLinks
    <3>2. CASE Detail(g)
      BY <2>1, <3>2, DetailLinks
    <3>3. CASE \/ Arrive(g) \/ LayerStep(g) \/ TemplateStep(g)
               \/ Ask(g) \/ AskFails(g) \/ Ignore(g) \/ Track(g) \/ ReadFails(g)
      BY <2>1, <3>3, OtherLinks
    <3> QED BY <1>4, <3>1, <3>2, <3>3 DEF Step, LastStep
  <2>2. CASE h # g
    <3>1. req'[h] = req[h] /\ reply'[h] = reply[h]
      BY <1>4, <2>2, OthersUnmoved DEF Unmoved, IInv
    <3> QED BY <3>1 DEF LinksOk, Served
  <2> QED BY <2>1, <2>2
<1> QED BY <1>2, <1>3, <1>4 DEF Next, Step

(* Whatever the catalogue, the base path and the way of a request through  *)
(* proxies that say what they changed, the links of its answer lead back.  *)
(* A path in the configured base is served only when the base path is      *)
(* absolute; without the preview there are no links (serverURLHost,        *)
(* formatBaseURL, tileRouter).                                             *)
THEOREM LinksAlwaysLeadBack ==
    ASSUME ProxiesAreHonest, BaseIsServed, ShowPreview PROVE Spec => []LinksLeadBack
<1> DEFINE LinksInv == \A h \in Handlers : LinksOk(h)
<1>1. Init => LinksInv
  BY DEF Init, LinksOk, Served, NoReply, Reply
<1>2. IInv /\ TypesInv /\ LinksInv /\ [Next]_vars => LinksInv'
  BY LinksNext
<1>3. LinksInv => LinksLeadBack
  BY LinksOkIsEnough
<1> QED BY <1>1, <1>2, <1>3, InitInv, NextInv, TypesInit, TypesNext, PTL DEF Spec
=============================================================================
