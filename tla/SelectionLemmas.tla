---------------------------- MODULE SelectionLemmas ----------------------------
(***************************************************************************)
(* Lemmas about the queues of this project: selections of a sequence, what  *)
(* appending, concatenating and taking the head do to them, and induction   *)
(* over the numbers and the sequences, which rests on WFMin.                *)
(***************************************************************************)
EXTENDS Selections, SequenceTheorems, WellFoundedInduction, TLAPS

Less == {p \in Nat \X Nat : p[1] < p[2]}

LEMMA LessWellFounded == IsWellFoundedOn(Less, Nat)
  BY NatLessThanWellFounded, Zenon DEF OpToRel, Less

LEMMA LeastNumber ==
    ASSUME NEW T \in SUBSET Nat, T # {}
    PROVE  \E n \in T : \A m \in T : n <= m
<1>1. \E x \in T : \A y \in T : ~ (<<y, x>> \in Less)
  BY LessWellFounded, WFMin, Zenon
<1>2. \A x, y \in Nat : y < x => <<y, x>> \in Less
  BY DEF Less
<1>3. \A x, y \in Nat : ~(y < x) => x <= y
  OBVIOUS
<1> QED BY <1>1, <1>2, <1>3

LEMMA NatSetInduction ==
    ASSUME NEW T, 0 \in T, \A n \in Nat : n \in T => n + 1 \in T
    PROVE  Nat \subseteq T
<1> SUFFICES ASSUME Nat \ T # {} PROVE FALSE
  OBVIOUS
<1>1. PICK n \in Nat \ T : \A m \in Nat \ T : n <= m
  BY LeastNumber
<1>2. n # 0 /\ n - 1 \in Nat /\ ~ (n <= n - 1)
  BY <1>1
<1>3. n - 1 \in T
  BY <1>1, <1>2
<1> QED BY <1>1, <1>2, <1>3

\* The selections of the prefixes of s, as a function.
Step(s, S, f, i) == IF s[i] \in S THEN Append(f[i - 1], s[i]) ELSE f[i - 1]
Selects(f, s, S, n) ==
    /\ DOMAIN f = 0 .. n
    /\ f[0] = <<>>
    /\ \A i \in 1 .. n : f[i] = Step(s, S, f, i)

LEMMA SelectsExists ==
    ASSUME NEW s, NEW S, NEW n \in Nat
    PROVE  \E f : Selects(f, s, S, n)
<1> DEFINE T == {k \in Nat : \E f : Selects(f, s, S, k)}
<1>1. 0 \in T
  <2>1. Selects([i \in 0 .. 0 |-> <<>>], s, S, 0)
    BY DEF Selects
  <2> QED BY <2>1
<1>2. ASSUME NEW k \in Nat, k \in T PROVE k + 1 \in T
  <2>1. PICK f : Selects(f, s, S, k)
    BY <1>2
  <2> DEFINE g == [i \in 0 .. k + 1 |-> IF i <= k THEN f[i] ELSE Step(s, S, f, i)]
  <2>2. Selects(g, s, S, k + 1)
    <3>1. DOMAIN g = 0 .. k + 1 /\ g[0] = <<>>
      BY <2>1 DEF Selects
    <3>2. ASSUME NEW i \in 1 .. k + 1 PROVE g[i] = Step(s, S, g, i)
      <4>1. g[i - 1] = f[i - 1]
        OBVIOUS
      <4>2. CASE i <= k
        BY <4>1, <4>2, <2>1 DEF Selects, Step
      <4>3. CASE i = k + 1
        BY <4>1, <4>3 DEF Step
      <4> QED BY <4>2, <4>3
    <3> QED BY <3>1, <3>2 DEF Selects
  <2> QED BY <2>2
<1> HIDE DEF T
<1>3. Nat \subseteq T
  BY <1>1, <1>2, NatSetInduction
<1> QED BY <1>3 DEF T

LEMMA SelectionDef ==
    ASSUME NEW X, NEW s \in Seq(X), NEW S
    PROVE  \E f : Selects(f, s, S, Len(s)) /\ Selection(s, S) = f[Len(s)]
<1> DEFINE Is(f) == f = [i \in 0 .. Len(s) |->
            IF i = 0 THEN <<>>
            ELSE IF s[i] \in S THEN Append(f[i - 1], s[i]) ELSE f[i - 1]]
<1> DEFINE upTo == CHOOSE f : Is(f)
<1>0. Len(s) \in Nat
  OBVIOUS
<1>1. ASSUME NEW f, Selects(f, s, S, Len(s)) PROVE \E g : Is(g)
  <2> DEFINE g == [i \in 0 .. Len(s) |-> f[i]]
  <2>1. ASSUME NEW i \in 0 .. Len(s)
        PROVE  g[i] = IF i = 0 THEN <<>>
                      ELSE IF s[i] \in S THEN Append(g[i - 1], s[i]) ELSE g[i - 1]
    <3>1. CASE i = 0
      BY <3>1, <1>1 DEF Selects
    <3>2. CASE i # 0
      <4>1. i \in 1 .. Len(s) /\ i - 1 \in 0 .. Len(s)
        BY <3>2
      <4> QED BY <4>1, <3>2, <1>1 DEF Selects, Step
    <3> QED BY <3>1, <3>2
  <2>2. Is(g)
    BY <2>1
  <2> QED BY <2>2
<1>2. \E f : Is(f)
  BY SelectsExists, <1>0, <1>1
<1>3. Is(upTo)
  BY <1>2, Zenon
<1>4. Selection(s, S) = upTo[Len(s)]
  BY Zenon DEF Selection
<1> HIDE DEF upTo
<1>5. Selects(upTo, s, S, Len(s))
  <2>1. DOMAIN upTo = 0 .. Len(s)
    BY <1>3
  <2>2. upTo[0] = <<>>
    BY <1>3, <1>0
  <2>3. \A i \in 1 .. Len(s) : upTo[i] = Step(s, S, upTo, i)
    <3> TAKE i \in 1 .. Len(s)
    <3>1. i \in 0 .. Len(s) /\ i # 0
      OBVIOUS
    <3> QED BY <1>3, <3>1 DEF Step
  <2> QED BY <2>1, <2>2, <2>3 DEF Selects
<1> QED BY <1>4, <1>5

LEMMA SelectsAgree ==
    ASSUME NEW s, NEW t, NEW S, NEW n \in Nat, NEW m \in Nat, NEW f, NEW g,
           Selects(f, s, S, n), Selects(g, t, S, m),
           NEW k \in Nat, k <= n, k <= m, \A i \in 1 .. k : s[i] = t[i]
    PROVE  f[k] = g[k]
<1> DEFINE T == {j \in Nat : j <= k => f[j] = g[j]}
<1>1. 0 \in T
  BY DEF Selects
<1>2. ASSUME NEW j \in Nat, j \in T PROVE j + 1 \in T
  <2> SUFFICES ASSUME j + 1 <= k PROVE f[j + 1] = g[j + 1]
    OBVIOUS
  <2>1. f[j] = g[j] /\ s[j + 1] = t[j + 1]
    BY <1>2
  <2>2. j + 1 \in 1 .. n /\ j + 1 \in 1 .. m /\ (j + 1) - 1 = j
    OBVIOUS
  <2>3. f[j + 1] = Step(s, S, f, j + 1) /\ g[j + 1] = Step(t, S, g, j + 1)
    BY <2>2 DEF Selects
  <2> QED BY <2>1, <2>2, <2>3 DEF Step
<1> HIDE DEF T
<1>3. Nat \subseteq T
  BY <1>1, <1>2, NatSetInduction
<1> QED BY <1>3 DEF T

LEMMA SelectionEmpty ==
    ASSUME NEW S
    PROVE  Selection(<<>>, S) = <<>>
<1>1. PICK f : Selects(f, <<>>, S, 0) /\ Selection(<<>>, S) = f[0]
  BY SelectionDef, <<>> \in Seq({}), Len(<<>>) = 0
<1> QED BY <1>1 DEF Selects

LEMMA SelectionAppend ==
    ASSUME NEW X, NEW s \in Seq(X), NEW x \in X, NEW S
    PROVE  Selection(Append(s, x), S) =
             IF x \in S THEN Append(Selection(s, S), x) ELSE Selection(s, S)
<1> DEFINE t == Append(s, x)  n == Len(s)
<1>1. /\ t \in Seq(X) /\ Len(t) = n + 1 /\ n \in Nat
      /\ t[n + 1] = x /\ \A i \in 1 .. n : s[i] = t[i]
  OBVIOUS
<1> HIDE DEF t, n
<1>2. PICK f : Selects(f, s, S, n) /\ Selection(s, S) = f[n]
  BY SelectionDef DEF n
<1>3. PICK g : Selects(g, t, S, n + 1) /\ Selection(t, S) = g[n + 1]
  BY SelectionDef, <1>1
<1>4. f[n] = g[n]
  <2>1. n \in Nat /\ n + 1 \in Nat /\ n <= n /\ n <= n + 1
    BY <1>1
  <2> QED BY SelectsAgree, <1>1, <1>2, <1>3, <2>1
<1>5. g[n + 1] = Step(t, S, g, n + 1) /\ (n + 1) - 1 = n
  BY <1>1, <1>3 DEF Selects
<1> QED BY <1>1, <1>2, <1>3, <1>4, <1>5 DEF Step, t

(* Induction over sequences. *)
LEMMA SeqSetInduction ==
    ASSUME NEW X, NEW T, <<>> \in T,
           \A s \in Seq(X), x \in X : s \in T => Append(s, x) \in T
    PROVE  Seq(X) \subseteq T
<1> DEFINE N == {n \in Nat : \A s \in Seq(X) : Len(s) = n => s \in T}
<1>1. 0 \in N
  <2> SUFFICES ASSUME NEW s \in Seq(X), Len(s) = 0 PROVE s \in T
    OBVIOUS
  <2> QED BY EmptySeq
<1>2. ASSUME NEW n \in Nat, n \in N PROVE n + 1 \in N
  <2> SUFFICES ASSUME NEW s \in Seq(X), Len(s) = n + 1 PROVE s \in T
    OBVIOUS
  <2>1. PICK r \in Seq(X), x \in X : s = Append(r, x)
    BY SequenceEmptyOrAppend, s # <<>>
  <2>2. Len(r) = n
    BY <2>1
  <2> QED BY <2>1, <2>2, <1>2
<1> HIDE DEF N
<1>3. Nat \subseteq N
  BY <1>1, <1>2, NatSetInduction
<1> QED BY <1>3 DEF N

LEMMA SelectionType ==
    ASSUME NEW X, NEW s \in Seq(X), NEW S
    PROVE  Selection(s, S) \in Seq(X \cap S)
<1> DEFINE T == {r \in Seq(X) : Selection(r, S) \in Seq(X \cap S)}
<1>1. <<>> \in T
  <2>1. Selection(<<>>, S) = <<>>
    BY SelectionEmpty
  <2>2. <<>> \in Seq(X) /\ <<>> \in Seq(X \cap S)
    OBVIOUS
  <2> QED BY <2>1, <2>2
<1>2. ASSUME NEW r \in Seq(X), NEW x \in X, r \in T PROVE Append(r, x) \in T
  <2>1. Selection(r, S) \in Seq(X \cap S)
    BY <1>2
  <2>2. x \in S => Append(Selection(r, S), x) \in Seq(X \cap S)
    BY <2>1
  <2>3. Selection(Append(r, x), S) =
          IF x \in S THEN Append(Selection(r, S), x) ELSE Selection(r, S)
    BY SelectionAppend
  <2>4. Selection(Append(r, x), S) \in Seq(X \cap S)
    BY <2>1, <2>2, <2>3
  <2>5. Append(r, x) \in Seq(X)
    OBVIOUS
  <2> QED BY <2>4, <2>5
<1> HIDE DEF T
<1>3. Seq(X) \subseteq T
  BY <1>1, <1>2, SeqSetInduction
<1> QED BY <1>3 DEF T

LEMMA SelectionConcat ==
    ASSUME NEW X, NEW s \in Seq(X), NEW t \in Seq(X), NEW S
    PROVE  Selection(s \o t, S) = Selection(s, S) \o Selection(t, S)
<1> DEFINE T == {r \in Seq(X) : Selection(s \o r, S) = Selection(s, S) \o Selection(r, S)}
<1>1. <<>> \in T
  <2>1. s \o <<>> = s /\ Selection(s, S) \o <<>> = Selection(s, S)
    BY SelectionType
  <2>2. Selection(<<>>, S) = <<>>
    BY SelectionEmpty
  <2>3. Selection(s \o <<>>, S) = Selection(s, S) \o Selection(<<>>, S)
    BY <2>1, <2>2
  <2> QED BY <2>3
<1>2. ASSUME NEW r \in Seq(X), NEW x \in X, r \in T PROVE Append(r, x) \in T
  <2> DEFINE a == Selection(s, S)  b == Selection(r, S)
  <2>1. a \in Seq(X) /\ b \in Seq(X)
    BY SelectionType, SeqMonotonic, X \cap S \subseteq X
  <2>2. s \o Append(r, x) = Append(s \o r, x) /\ s \o r \in Seq(X)
    OBVIOUS
  <2>3. Selection(s \o r, S) = a \o b
    BY <1>2
  <2>4. Selection(Append(s \o r, x), S) = IF x \in S THEN Append(a \o b, x) ELSE a \o b
    <3> DEFINE u == s \o r
    <3>1. u \in Seq(X) /\ Selection(u, S) = a \o b
      BY <2>2, <2>3
    <3> HIDE DEF u, a, b
    <3>2. Selection(Append(u, x), S) = IF x \in S THEN Append(Selection(u, S), x) ELSE Selection(u, S)
      BY <3>1, SelectionAppend, ZenonT(40)
    <3>3. Selection(Append(u, x), S) = IF x \in S THEN Append(a \o b, x) ELSE a \o b
      BY <3>1, <3>2
    <3> QED BY <3>3 DEF u
  <2>5. Selection(Append(r, x), S) = IF x \in S THEN Append(b, x) ELSE b
    BY SelectionAppend
  <2> HIDE DEF a, b
  <2>6. a \o Append(b, x) = Append(a \o b, x)
    BY <2>1
  <2>7. Selection(s \o Append(r, x), S) = a \o Selection(Append(r, x), S)
    BY <2>2, <2>4, <2>5, <2>6
  <2> QED BY <2>7 DEF a
<1> HIDE DEF T
<1>3. Seq(X) \subseteq T
  BY <1>1, <1>2, SeqSetInduction
<1> QED BY <1>3 DEF T

\* What a selection holds.
Holds(s, x) == \E i \in 1 .. Len(s) : s[i] = x

LEMMA HoldsAppend ==
    ASSUME NEW X, NEW s \in Seq(X), NEW x, NEW y
    PROVE  Holds(Append(s, x), y) <=> Holds(s, y) \/ y = x
<1>1. /\ Len(Append(s, x)) = Len(s) + 1 /\ Append(s, x)[Len(s) + 1] = x /\ Len(s) \in Nat
      /\ \A i \in 1 .. Len(s) : Append(s, x)[i] = s[i]
  OBVIOUS
<1>2. ASSUME Holds(Append(s, x), y) PROVE Holds(s, y) \/ y = x
  BY <1>1, <1>2 DEF Holds
<1>3. ASSUME Holds(s, y) PROVE Holds(Append(s, x), y)
  BY <1>1, <1>3 DEF Holds
<1>4. ASSUME y = x PROVE Holds(Append(s, x), y)
  BY <1>1, <1>4 DEF Holds
<1> QED BY <1>2, <1>3, <1>4

LEMMA SelectionHolds ==
    ASSUME NEW X, NEW s \in Seq(X), NEW S, NEW y
    PROVE  Holds(Selection(s, S), y) <=> Holds(s, y) /\ y \in S
<1> DEFINE T == {r \in Seq(X) : Holds(Selection(r, S), y) <=> Holds(r, y) /\ y \in S}
<1>1. <<>> \in T
  BY SelectionEmpty DEF Holds
<1>2. ASSUME NEW r \in Seq(X), NEW x \in X, r \in T PROVE Append(r, x) \in T
  <2>1. Selection(r, S) \in Seq(X \cap S)
    BY SelectionType
  <2>2. Holds(Append(r, x), y) <=> Holds(r, y) \/ y = x
    BY HoldsAppend
  <2>3. Holds(Append(Selection(r, S), x), y) <=> Holds(Selection(r, S), y) \/ y = x
    BY <2>1, HoldsAppend
  <2>4. Append(r, x) \in Seq(X)
    OBVIOUS
  <2>5. Selection(Append(r, x), S) =
          IF x \in S THEN Append(Selection(r, S), x) ELSE Selection(r, S)
    BY SelectionAppend
  <2>6. Holds(Selection(r, S), y) <=> Holds(r, y) /\ y \in S
    BY <1>2
  <2>7. Holds(Selection(Append(r, x), S), y) <=> Holds(Append(r, x), y) /\ y \in S
    BY <2>2, <2>3, <2>5, <2>6
  <2> QED BY <2>4, <2>7
<1> HIDE DEF T
<1>3. Seq(X) \subseteq T
  BY <1>1, <1>2, SeqSetInduction
<1> QED BY <1>3 DEF T

LEMMA SelectionNone ==
    ASSUME NEW X, NEW s \in Seq(X), NEW S, \A i \in 1 .. Len(s) : s[i] \notin S
    PROVE  Selection(s, S) = <<>>
<1>1. Selection(s, S) \in Seq(X \cap S)
  BY SelectionType
<1> SUFFICES ASSUME Selection(s, S) # <<>> PROVE FALSE
  OBVIOUS
<1>2. Selection(s, S)[1] \in S /\ Holds(Selection(s, S), Selection(s, S)[1])
  BY <1>1 DEF Holds
<1>3. Holds(s, Selection(s, S)[1])
  BY <1>2, SelectionHolds
<1> QED BY <1>2, <1>3 DEF Holds

LEMMA SelectionOne ==
    ASSUME NEW X, NEW x \in X, NEW S
    PROVE  Selection(<<x>>, S) = IF x \in S THEN <<x>> ELSE <<>>
<1>1. <<x>> = Append(<<>>, x) /\ <<>> \in Seq(X)
  OBVIOUS
<1>2. Selection(<<>>, S) = <<>>
  BY SelectionEmpty
<1> DEFINE e == <<>>
<1> HIDE DEF e
<1>3. e \in Seq(X)
  BY DEF e
<1>4. Selection(Append(e, x), S) = IF x \in S THEN Append(Selection(e, S), x) ELSE Selection(e, S)
  BY <1>3, SelectionAppend
<1> QED BY <1>1, <1>2, <1>4 DEF e

LEMMA SelectionHead ==
    ASSUME NEW X, NEW s \in Seq(X), s # <<>>, NEW S
    PROVE  /\ Head(s) \in S => Selection(s, S) = <<Head(s)>> \o Selection(Tail(s), S)
           /\ Head(s) \notin S => Selection(s, S) = Selection(Tail(s), S)
<1>1. s = <<Head(s)>> \o Tail(s) /\ Head(s) \in X /\ Tail(s) \in Seq(X) /\ <<Head(s)>> \in Seq(X)
  OBVIOUS
<1>2. Selection(s, S) = Selection(<<Head(s)>>, S) \o Selection(Tail(s), S)
  <2> DEFINE a == <<Head(s)>>  b == Tail(s)
  <2>1. a \in Seq(X) /\ b \in Seq(X) /\ s = a \o b
    BY <1>1
  <2> HIDE DEF a, b
  <2>2. Selection(a \o b, S) = Selection(a, S) \o Selection(b, S)
    BY <2>1, SelectionConcat
  <2> QED BY <2>1, <2>2 DEF a, b
<1>3. Selection(<<Head(s)>>, S) = IF Head(s) \in S THEN <<Head(s)>> ELSE <<>>
  BY <1>1, SelectionOne
<1>4. Selection(Tail(s), S) \in Seq(X \cap S)
  BY <1>1, SelectionType
<1>5. <<>> \o Selection(Tail(s), S) = Selection(Tail(s), S)
  BY <1>4
<1> QED BY <1>2, <1>3, <1>5

LEMMA ConcatThree ==
    ASSUME NEW X, NEW s \in Seq(X), NEW a \in Seq(X), NEW x \in X, NEW c \in Seq(X),
           Len(s) = Len(a) + 1 + Len(c), \A j \in 1 .. Len(a) : s[j] = a[j],
           s[Len(a) + 1] = x, \A j \in 1 .. Len(c) : s[Len(a) + 1 + j] = c[j]
    PROVE  s = a \o (<<x>> \o c)
<1> DEFINE d == <<x>> \o c
<1>1. d \in Seq(X) /\ Len(d) = 1 + Len(c) /\ d[1] = x /\ \A j \in 1 .. Len(c) : d[1 + j] = c[j]
  OBVIOUS
<1> HIDE DEF d
<1> DEFINE e == a \o d
<1>2. /\ e \in Seq(X) /\ Len(e) = Len(a) + Len(d)
      /\ \A j \in 1 .. Len(a) : e[j] = a[j]
      /\ \A j \in 1 .. Len(d) : e[Len(a) + j] = d[j]
  BY <1>1
<1> HIDE DEF e
<1>3. Len(a) \in Nat /\ Len(c) \in Nat
  OBVIOUS
<1>4. ASSUME NEW j \in 1 .. Len(s) PROVE s[j] = e[j]
  <2>1. CASE j \in 1 .. Len(a)
    BY <2>1, <1>2
  <2>2. CASE j = Len(a) + 1
    BY <2>2, <1>1, <1>2, <1>3
  <2>3. CASE j > Len(a) + 1
    <3>1. PICK k \in 1 .. Len(c) : j = Len(a) + 1 + k
      <4>1. j - (Len(a) + 1) \in 1 .. Len(c) /\ j = Len(a) + 1 + (j - (Len(a) + 1))
        BY <2>3, <1>3
      <4> QED BY <4>1
    <3>2. 1 + k \in 1 .. Len(d) /\ Len(a) + (1 + k) = j
      BY <3>1, <1>1, <1>3
    <3>3. e[Len(a) + (1 + k)] = d[1 + k]
      BY <3>2, <1>2
    <3> QED BY <3>1, <3>2, <3>3, <1>1
  <2> QED BY <2>1, <2>2, <2>3, <1>3
<1>5. Len(e) = Len(s)
  BY <1>1, <1>2, <1>3
<1>6. s = e
  BY <1>2, <1>4, <1>5, SeqEqual
<1> QED BY <1>6 DEF e, d

\* Taking a member of S out of s takes it out of the selection; at the front when
\* it is the first.
LEMMA SelectionTaken ==
    ASSUME NEW X, NEW s \in Seq(X), NEW S, NEW i \in 1 .. Len(s), s[i] \in S,
           \A j \in 1 .. i - 1 : s[j] \notin S
    PROVE  Selection(s, S) =
             <<s[i]>> \o Selection(SubSeq(s, 1, i - 1) \o SubSeq(s, i + 1, Len(s)), S)
<1> DEFINE a == SubSeq(s, 1, i - 1)  b == <<s[i]>>  c == SubSeq(s, i + 1, Len(s))
<1>1. a \in Seq(X) /\ b \in Seq(X) /\ c \in Seq(X) /\ s[i] \in X
  OBVIOUS
<1>2. s = a \o (<<s[i]>> \o c)
  <2>1. Len(s) \in Nat /\ Len(a) = i - 1 /\ Len(c) = Len(s) - i
    OBVIOUS
  <2>2. \A j \in 1 .. Len(a) : s[j] = a[j]
    OBVIOUS
  <2>3. \A j \in 1 .. Len(c) : s[Len(a) + 1 + j] = c[j]
    OBVIOUS
  <2> HIDE DEF a, c
  <2>4. Len(a) + 1 = i /\ Len(s) = Len(a) + 1 + Len(c)
    BY <2>1, <1>1
  <2>5. s[Len(a) + 1] = s[i]
    BY <2>4
  <2> DEFINE x == s[i]
  <2> HIDE DEF b, x
  <2>6. x \in X /\ s[Len(a) + 1] = x
    BY <1>1, <2>5 DEF x
  <2>7. s = a \o (<<x>> \o c)
    <3>1. a \in Seq(X) /\ c \in Seq(X) /\ Len(s) = Len(a) + 1 + Len(c)
      BY <1>1, <2>4
    <3> QED BY ONLY s \in Seq(X), <3>1, <2>2, <2>3, <2>6, ConcatThree, Zenon
  <2> QED BY <2>7 DEF x
<1>3. \A j \in 1 .. Len(a) : a[j] \notin S
  OBVIOUS
<1>4. b = <<s[i]>>
  OBVIOUS
<1> HIDE DEF a, b, c
<1>5. Selection(a, S) = <<>>
  BY <1>1, <1>3, SelectionNone
<1>6. Selection(b, S) = <<s[i]>>
  BY <1>1, <1>4, SelectionOne
<1>0. \A u, v \in Seq(X) : Selection(u \o v, S) = Selection(u, S) \o Selection(v, S)
  BY SelectionConcat
<1>7. Selection(b \o c, S) = Selection(b, S) \o Selection(c, S)
  BY <1>0, <1>1
<1>8. b \o c \in Seq(X)
  BY <1>1
<1>9. Selection(a \o (b \o c), S) = Selection(a, S) \o Selection(b \o c, S)
  BY <1>0, <1>1, <1>8
<1>10. Selection(a \o c, S) = Selection(a, S) \o Selection(c, S)
  BY <1>0, <1>1
<1>11. Selection(c, S) \in Seq(X \cap S)
  BY <1>1, SelectionType
<1>12. <<>> \o Selection(c, S) = Selection(c, S) /\ <<>> \o (<<s[i]>> \o Selection(c, S)) = <<s[i]>> \o Selection(c, S)
  BY <1>1, <1>11
<1>13. Selection(s, S) = <<s[i]>> \o Selection(a \o c, S)
  BY <1>2, <1>4, <1>5, <1>6, <1>7, <1>9, <1>10, <1>12
<1> QED BY <1>13 DEF a, c

\* Nothing comes twice in a selection of a sequence in which nothing does.
Once(s) == \A i, j \in 1 .. Len(s) : s[i] = s[j] => i = j

LEMMA OnceAppend ==
    ASSUME NEW X, NEW s \in Seq(X), NEW x
    PROVE  Once(Append(s, x)) <=> Once(s) /\ ~ Holds(s, x)
<1>1. /\ Len(Append(s, x)) = Len(s) + 1 /\ Append(s, x)[Len(s) + 1] = x /\ Len(s) \in Nat
      /\ \A i \in 1 .. Len(s) : Append(s, x)[i] = s[i]
  OBVIOUS
<1> DEFINE t == Append(s, x)
<1> HIDE DEF t
<1>2. ASSUME Once(t) PROVE Once(s) /\ ~ Holds(s, x)
  <2>1. Once(s)
    BY <1>1, <1>2 DEF Once, t
  <2>2. ASSUME NEW i \in 1 .. Len(s), s[i] = x PROVE FALSE
    <3>1. i \in 1 .. Len(t) /\ Len(s) + 1 \in 1 .. Len(t) /\ t[i] = t[Len(s) + 1] /\ i # Len(s) + 1
      BY <1>1, <2>2 DEF t
    <3> QED BY <3>1, <1>2 DEF Once
  <2> QED BY <2>1, <2>2 DEF Holds
<1>3. ASSUME Once(s), ~ Holds(s, x) PROVE Once(t)
  <2> SUFFICES ASSUME NEW i \in 1 .. Len(t), NEW j \in 1 .. Len(t), t[i] = t[j] PROVE i = j
    BY DEF Once
  <2>1. CASE i \in 1 .. Len(s) /\ j \in 1 .. Len(s)
    BY <2>1, <1>1, <1>3 DEF Once, t
  <2>2. CASE i \in 1 .. Len(s) /\ j = Len(s) + 1
    BY <2>2, <1>1, <1>3 DEF Holds, t
  <2>3. CASE j \in 1 .. Len(s) /\ i = Len(s) + 1
    BY <2>3, <1>1, <1>3 DEF Holds, t
  <2>4. CASE i = Len(s) + 1 /\ j = Len(s) + 1
    BY <2>4
  <2> QED BY <2>1, <2>2, <2>3, <2>4, <1>1 DEF t
<1> QED BY <1>2, <1>3 DEF t

LEMMA SelectionOnce ==
    ASSUME NEW X, NEW s \in Seq(X), NEW S, Once(s)
    PROVE  Once(Selection(s, S))
<1> DEFINE T == {r \in Seq(X) : Once(r) => Once(Selection(r, S))}
<1>1. <<>> \in T
  <2>1. Selection(<<>>, S) = <<>>
    BY SelectionEmpty
  <2>2. Once(<<>>)
    BY DEF Once
  <2> QED BY <2>1, <2>2
<1>2. ASSUME NEW r \in Seq(X), NEW x \in X, r \in T PROVE Append(r, x) \in T
  <2>1. Selection(Append(r, x), S) =
          IF x \in S THEN Append(Selection(r, S), x) ELSE Selection(r, S)
    BY SelectionAppend
  <2>2. Selection(r, S) \in Seq(X \cap S)
    BY SelectionType
  <2>3. Once(Append(r, x)) <=> Once(r) /\ ~ Holds(r, x)
    BY OnceAppend
  <2>4. Once(Append(Selection(r, S), x)) <=> Once(Selection(r, S)) /\ ~ Holds(Selection(r, S), x)
    BY <2>2, OnceAppend
  <2>5. Holds(Selection(r, S), x) <=> Holds(r, x) /\ x \in S
    BY SelectionHolds
  <2>6. Append(r, x) \in Seq(X) /\ (Once(r) => Once(Selection(r, S)))
    BY <1>2
  <2>7. Once(Append(r, x)) => Once(Selection(Append(r, x), S))
    BY <2>1, <2>3, <2>4, <2>5, <2>6
  <2> QED BY <2>6, <2>7
<1> HIDE DEF T
<1>3. Seq(X) \subseteq T
  BY <1>1, <1>2, SeqSetInduction
<1> QED BY <1>3 DEF T

====
