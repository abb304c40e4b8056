-------------------------- MODULE StreamTextProofs --------------------------
(***************************************************************************)
(* Theorems about StreamText, for every set of texts, however the deltas   *)
(* cut them.                                                               *)
(***************************************************************************)
EXTENDS StreamText, Induction, SequenceTheorems

USE TextAssumption

-----------------------------------------------------------------------------
(* The least and the greatest of a set of positions.                        *)

LEMMA LeastChosen ==
  ASSUME NEW S \in SUBSET Nat, S # {}
  PROVE  /\ (CHOOSE i \in S : \A j \in S : i <= j) \in S
         /\ \A j \in S : (CHOOSE i \in S : \A k \in S : i <= k) <= j
BY LeastOf

LEMMA MostChosen ==
  ASSUME NEW n \in Int, NEW S \in SUBSET (0 .. n), S # {}
  PROVE  /\ (CHOOSE i \in S : \A j \in S : j <= i) \in S
         /\ \A j \in S : j <= (CHOOSE i \in S : \A k \in S : k <= i)
<1> DEFINE T == {n - i : i \in S}
<1>0. \A k \in S : k \in Int /\ k <= n
  OBVIOUS
<1>1. T \in SUBSET Nat /\ T # {}
  <2>1. ASSUME NEW y \in T PROVE y \in Nat
    <3>1. PICK k \in S : y = n - k
      OBVIOUS
    <3> QED BY <1>0, <3>1
  <2>2. PICK k \in S : TRUE
    OBVIOUS
  <2>3. n - k \in T
    OBVIOUS
  <2> QED BY <2>1, <2>3
<1>2. PICK x \in T : \A y \in T : x <= y
  BY <1>1, LeastOf
<1>3. PICK i \in S : x = n - i
  BY <1>2
<1>4. \A j \in S : j <= i
  <2> TAKE j \in S
  <2>1. n - j \in T
    OBVIOUS
  <2>2. x <= n - j
    BY <1>2, <2>1
  <2>3. i \in Int /\ j \in Int
    BY <1>0
  <2> QED BY <1>3, <2>2, <2>3
<1> QED BY <1>4

-----------------------------------------------------------------------------
(* Tags.                                                                    *)

LEMMA OpenAt ==
  ASSUME NEW t \in Seq(Tokens), NEW i
  PROVE  i \in Places(t, OPEN) <=> i \in Nat /\ i + 2 <= Len(t) /\ t[i + 1] = "<" /\ t[i + 2] = "u"
<1>1. Len(OPEN) = 2 /\ DOMAIN OPEN = {1, 2} /\ OPEN[1] = "<" /\ OPEN[2] = "u"
  BY DEF OPEN
<1>2. Len(t) \in Nat
  OBVIOUS
<1> QED BY <1>1, <1>2 DEF Places

LEMMA CloseAt ==
  ASSUME NEW t \in Seq(Tokens), NEW i
  PROVE  i \in Places(t, CLOSE) <=>
           i \in Nat /\ i + 3 <= Len(t) /\ t[i + 1] = "<" /\ t[i + 2] = "/" /\ t[i + 3] = ">"
<1>1. Len(CLOSE) = 3 /\ DOMAIN CLOSE = {1, 2, 3} /\ CLOSE[1] = "<" /\ CLOSE[2] = "/" /\ CLOSE[3] = ">"
  BY DEF CLOSE
<1>2. Len(t) \in Nat
  OBVIOUS
<1> QED BY <1>1, <1>2 DEF Places

LEMMA TagLengths == Len(OPEN) = 2 /\ Len(CLOSE) = 3
BY DEF OPEN, CLOSE

\* indexOf finds the first place from a position on, when there is one.
LEMMA IndexFound ==
  ASSUME NEW t \in Seq(Tokens), NEW tag \in {OPEN, CLOSE}, NEW from \in Nat
  PROVE  \/ /\ IndexOf(t, tag, from) = -1
            /\ \A i \in Places(t, tag) : i < from
         \/ /\ IndexOf(t, tag, from) \in Places(t, tag) /\ IndexOf(t, tag, from) >= from
            /\ IndexOf(t, tag, from) \in Nat
            /\ \A i \in Places(t, tag) : i >= from => IndexOf(t, tag, from) <= i
<1> DEFINE later == {i \in Places(t, tag) : i >= from}
<1>1. Places(t, tag) \subseteq Nat
  BY DEF Places
<1>2. CASE later = {}
  BY <1>1, <1>2 DEF IndexOf
<1>3. CASE later # {}
  <2>1. IndexOf(t, tag, from) = CHOOSE i \in later : \A j \in later : i <= j
    BY <1>3 DEF IndexOf
  <2>2. later \in SUBSET Nat
    BY <1>1
  <2> HIDE DEF later
  <2>3. IndexOf(t, tag, from) \in later /\ \A j \in later : IndexOf(t, tag, from) <= j
    BY <1>3, <2>1, <2>2, LeastChosen
  <2> QED BY <1>1, <2>3 DEF later
<1> QED BY <1>2, <1>3

LEMMA LastIndexFound ==
  ASSUME NEW t \in Seq(Tokens), NEW tag \in {OPEN, CLOSE}
  PROVE  \/ LastIndexOf(t, tag) = -1 /\ Places(t, tag) = {}
         \/ LastIndexOf(t, tag) \in Places(t, tag) /\ LastIndexOf(t, tag) \in Nat
<1> DEFINE n == Len(t) - Len(tag)
<1>1. n \in Int /\ Places(t, tag) \in SUBSET (0 .. n) /\ Places(t, tag) \subseteq Nat
  BY TagLengths DEF Places
<1> HIDE DEF n
<1>2. CASE Places(t, tag) = {}
  BY <1>2 DEF LastIndexOf
<1>3. CASE Places(t, tag) # {}
  <2>1. LastIndexOf(t, tag) = CHOOSE i \in Places(t, tag) : \A j \in Places(t, tag) : j <= i
    BY <1>3 DEF LastIndexOf
  <2> DEFINE S == Places(t, tag)
  <2> HIDE DEF S
  <2>2. S \in SUBSET (0 .. n) /\ S # {} /\ LastIndexOf(t, tag) = CHOOSE i \in S : \A j \in S : j <= i
    BY <1>1, <1>3, <2>1 DEF S
  <2>3. LastIndexOf(t, tag) \in S
    BY <1>1, <2>2, MostChosen
  <2> QED BY <1>1, <2>3 DEF S
<1> QED BY <1>2, <1>3

\* The text t goes on from e.
GoesOn(e, t) == Len(e) <= Len(t) /\ \A k \in 1 .. Len(e) : t[k] = e[k]

LEMMA ConcatGoesOn ==
  ASSUME NEW e \in Seq(Tokens), NEW a \in Seq(Tokens)
  PROVE  e \o a \in Seq(Tokens) /\ GoesOn(e, e \o a) /\ Len(e \o a) = Len(e) + Len(a)
BY DEF GoesOn

\* A text that grows keeps its tags.
LEMMA PlacesGrow ==
  ASSUME NEW e \in Seq(Tokens), NEW t \in Seq(Tokens), GoesOn(e, t), NEW i \in Nat
  PROVE  /\ i \in Places(t, OPEN) => i \in Places(e, OPEN) \/ i + 2 > Len(e)
         /\ i \in Places(t, CLOSE) => i \in Places(e, CLOSE) \/ i + 3 > Len(e)
         /\ i \in Places(e, OPEN) => i \in Places(t, OPEN)
         /\ i \in Places(e, CLOSE) => i \in Places(t, CLOSE)
         /\ i \in Places(t, OPEN) /\ i + 1 = Len(e) => e[Len(e)] = "<"
<1>1. /\ Len(e) \in Nat /\ Len(t) \in Nat /\ Len(e) <= Len(t)
      /\ \A k \in 1 .. Len(e) : t[k] = e[k]
  BY DEF GoesOn
<1>2. /\ i + 1 <= Len(e) => t[i + 1] = e[i + 1]
      /\ i + 2 <= Len(e) => t[i + 2] = e[i + 2]
      /\ i + 3 <= Len(e) => t[i + 3] = e[i + 3]
  BY <1>1
<1>3. /\ i \in Places(e, OPEN) <=> i + 2 <= Len(e) /\ e[i + 1] = "<" /\ e[i + 2] = "u"
      /\ i \in Places(t, OPEN) <=> i + 2 <= Len(t) /\ t[i + 1] = "<" /\ t[i + 2] = "u"
  BY OpenAt
<1>4. /\ i \in Places(e, CLOSE) <=> i + 3 <= Len(e) /\ e[i + 1] = "<" /\ e[i + 2] = "/" /\ e[i + 3] = ">"
      /\ i \in Places(t, CLOSE) <=> i + 3 <= Len(t) /\ t[i + 1] = "<" /\ t[i + 2] = "/" /\ t[i + 3] = ">"
  BY CloseAt
<1> QED BY <1>1, <1>2, <1>3, <1>4

\* Tags do not overlap.
LEMMA TagsApart ==
  ASSUME NEW t \in Seq(Tokens), NEW i \in Places(t, OPEN), NEW k \in Places(t, CLOSE)
  PROVE  i \in Nat /\ k \in Nat /\ i # k /\ (i < k => i + 2 <= k) /\ (k < i => k + 3 <= i)
<1>1. i \in Nat /\ i + 2 <= Len(t) /\ t[i + 1] = "<" /\ t[i + 2] = "u"
  BY OpenAt
<1>2. k \in Nat /\ k + 3 <= Len(t) /\ t[k + 1] = "<" /\ t[k + 2] = "/" /\ t[k + 3] = ">"
  BY CloseAt
<1>3. i # k /\ i + 1 # k
  BY <1>1, <1>2
<1>4. k + 1 # i /\ k + 2 # i
  BY <1>1, <1>2
<1> QED BY <1>1, <1>2, <1>3, <1>4

\* A second opening stays one when the text grows.
LEMMA SecondOpeningGrows ==
  ASSUME NEW e \in Seq(Tokens), NEW t \in Seq(Tokens), GoesOn(e, t), SecondOpening(e)
  PROVE  SecondOpening(t)
<1>1. PICK i, j \in Places(e, OPEN) : i < j /\ \A k \in Places(e, CLOSE) : k < i \/ j < k
  BY DEF SecondOpening
<1>2. i \in Nat /\ j \in Nat /\ j + 2 <= Len(e) /\ Len(e) \in Nat
  BY OpenAt
<1>3. i \in Places(t, OPEN) /\ j \in Places(t, OPEN)
  BY <1>2, PlacesGrow
<1>4. ASSUME NEW k \in Places(t, CLOSE) PROVE k < i \/ j < k
  <2>1. k \in Nat /\ j # k /\ (k < j => k + 3 <= j)
    BY <1>3, TagsApart
  <2>2. k < j => k \in Places(e, CLOSE)
    BY <1>2, <2>1, PlacesGrow
  <2> QED BY <1>1, <1>2, <2>1, <2>2
<1> QED BY <1>1, <1>3, <1>4 DEF SecondOpening

\* A closing tag ahead of every opening one stays there.
LEMMA OpensFirstShrinks ==
  ASSUME NEW e \in Seq(Tokens), NEW t \in Seq(Tokens), GoesOn(e, t), OpensFirst(t)
  PROVE  OpensFirst(e)
<1> SUFFICES ASSUME NEW k \in Places(e, CLOSE) PROVE \E i \in Places(e, OPEN) : i < k
  BY DEF OpensFirst
<1>1. k \in Nat /\ k + 3 <= Len(e) /\ Len(e) \in Nat
  BY CloseAt
<1>2. k \in Places(t, CLOSE)
  BY <1>1, PlacesGrow
<1>3. PICK i \in Places(t, OPEN) : i < k
  BY <1>2 DEF OpensFirst
<1>4. i \in Nat /\ i + 2 <= k
  BY <1>2, <1>3, TagsApart
<1>5. i \in Places(e, OPEN)
  BY <1>1, <1>4, PlacesGrow
<1> QED BY <1>3, <1>5

-----------------------------------------------------------------------------
(* extractUseToolBlocks.                                                    *)

\* One step of Blocks: the first block from i on and what g has behind it.
BlocksStep(t, g, i) ==
  LET open  == IndexOf(t, OPEN, i)
      close == IF open < 0 THEN -1 ELSE IndexOf(t, CLOSE, open)
  IN IF close < 0 THEN <<>>
     ELSE <<[start |-> open, end |-> close + Len(CLOSE)]>> \o g[close + Len(CLOSE)]

Block(t, b) ==
  /\ b.start \in Places(t, OPEN) /\ b.end - 3 \in Places(t, CLOSE)
  /\ b.start < b.end - 3

\* Either there is no block from i on, or a first one, which ends behind i.
LEMMA BlocksStepIs ==
  ASSUME NEW t \in Seq(Tokens), NEW i \in 0 .. Len(t)
  PROVE  \/ /\ \A g : BlocksStep(t, g, i) = <<>>
            /\ \A o \in Places(t, OPEN), c \in Places(t, CLOSE) : o >= i => c < o
         \/ \E o, c \in Nat :
              /\ \A g : BlocksStep(t, g, i) = <<[start |-> o, end |-> c]>> \o g[c]
              /\ i <= o /\ o < c /\ i < c /\ c <= Len(t)
              /\ Block(t, [start |-> o, end |-> c])
<1> DEFINE o == IndexOf(t, OPEN, i)
           c == IndexOf(t, CLOSE, o)
<1>0. i \in Nat /\ Len(CLOSE) = 3
  BY TagLengths
<1>1. CASE o < 0
  <2>1. \A p \in Places(t, OPEN) : p < i
    BY <1>0, <1>1, IndexFound
  <2>2. \A p \in Places(t, OPEN) : p \in Nat
    BY OpenAt
  <2>3. \A g : BlocksStep(t, g, i) = <<>>
    BY <1>1 DEF BlocksStep
  <2> QED BY <1>0, <2>1, <2>2, <2>3
<1>2. CASE ~(o < 0)
  <2>1. o \in Places(t, OPEN) /\ o >= i /\ o \in Nat /\ \A p \in Places(t, OPEN) : p >= i => o <= p
    BY <1>0, <1>2, IndexFound
  <2>2. CASE c < 0
    <3>1. \A k \in Places(t, CLOSE) : k < o
      BY <2>1, <2>2, IndexFound
    <3>2. \A g : BlocksStep(t, g, i) = <<>>
      BY <1>2, <2>2 DEF BlocksStep
    <3>3. ASSUME NEW p \in Places(t, OPEN), NEW k \in Places(t, CLOSE), p >= i PROVE k < p
      <4>1. p \in Nat /\ k \in Nat /\ o <= p /\ k < o
        BY <2>1, <3>1, <3>3, OpenAt, CloseAt
      <4> QED BY <2>1, <4>1
    <3> QED BY <3>2, <3>3
  <2>3. CASE ~(c < 0)
    <3>1. c \in Places(t, CLOSE) /\ c >= o /\ c \in Nat
      BY <2>1, <2>3, IndexFound
    <3>2. o + 2 <= c /\ c + 3 <= Len(t)
      BY <2>1, <3>1, TagsApart, CloseAt
    <3>3. \A g : BlocksStep(t, g, i) = <<[start |-> o, end |-> c + 3]>> \o g[c + 3]
      BY <1>0, <1>2, <2>3 DEF BlocksStep
    <3>4. Block(t, [start |-> o, end |-> c + 3])
      BY <2>1, <3>1, <3>2 DEF Block
    <3>5. c + 3 \in Nat /\ o < c + 3 /\ i < c + 3
      BY <1>0, <2>1, <3>1, <3>2
    <3> HIDE DEF o, c
    <3> QED BY <2>1, <3>2, <3>3, <3>4, <3>5
  <2> QED BY <2>2, <2>3
<1> QED BY <1>1, <1>2

\* Blocks is the function its definition asks for: there is one.
LEMMA BlocksUnfold ==
  ASSUME NEW t \in Seq(Tokens), NEW i \in 0 .. Len(t)
  PROVE  \/ /\ Blocks(t, i) = <<>>
            /\ \A o \in Places(t, OPEN), c \in Places(t, CLOSE) : o >= i => c < o
         \/ \E o, c \in Nat :
              /\ Blocks(t, i) = <<[start |-> o, end |-> c]>> \o Blocks(t, c)
              /\ i <= o /\ o < c /\ i < c /\ c <= Len(t)
              /\ Block(t, [start |-> o, end |-> c])
<1> DEFINE n == Len(t)
           Solves(g) == g = [k \in 0 .. n |-> BlocksStep(t, g, k)]
           Partly(m) == \E g : g = [k \in n - m .. n |-> BlocksStep(t, g, k)]
           S == {m \in Nat : m <= n => Partly(m)}
<1>0. n \in Nat
  OBVIOUS
<1>1. \A k \in 0 .. n : Blocks(t, k) = (CHOOSE g : Solves(g))[k]
  BY DEF Blocks, BlocksStep
<1> HIDE DEF n
<1>2. 0 \in S
  <2>1. n \in 0 .. Len(t)
    BY <1>0 DEF n
  <2>2. \A g : BlocksStep(t, g, n) = <<>>
    <3>1. CASE \E o, c \in Nat : n < c /\ c <= Len(t)
      BY <1>0, <3>1 DEF n
    <3> QED BY <2>1, <3>1, BlocksStepIs
  <2> DEFINE g == [k \in n - 0 .. n |-> <<>>]
  <2>3. g = [k \in n - 0 .. n |-> BlocksStep(t, g, k)]
    <3>1. ASSUME NEW k \in n - 0 .. n PROVE <<>> = BlocksStep(t, g, k)
      <4>1. k = n
        BY <1>0
      <4> QED BY <2>2, <4>1
    <3> HIDE DEF g
    <3>2. [k \in n - 0 .. n |-> <<>>] = [k \in n - 0 .. n |-> BlocksStep(t, g, k)]
      BY <3>1
    <3> QED BY <3>2 DEF g
  <2>4. Partly(0)
    BY <2>3
  <2> QED BY <2>4
<1>3. ASSUME NEW m \in Nat, m \in S PROVE m + 1 \in S
  <2> SUFFICES ASSUME m + 1 <= n PROVE Partly(m + 1)
    OBVIOUS
  <2>1. PICK g : g = [k \in n - m .. n |-> BlocksStep(t, g, k)]
    BY <1>0, <1>3
  <2> DEFINE f == n - (m + 1)
             h == [k \in f .. n |-> IF k = f THEN BlocksStep(t, g, f) ELSE g[k]]
  <2>2. f \in 0 .. n /\ n - m = f + 1
    BY <1>0
  <2> HIDE DEF f
  <2>3. ASSUME NEW k \in f .. n PROVE BlocksStep(t, h, k) = BlocksStep(t, g, k)
    <3>1. k \in 0 .. Len(t)
      BY <1>0, <2>2 DEF n
    <3>2. CASE \A q : BlocksStep(t, q, k) = <<>>
      BY <3>2
    <3>3. CASE \E o, c \in Nat : /\ \A q : BlocksStep(t, q, k) = <<[start |-> o, end |-> c]>> \o q[c]
                                 /\ k < c /\ c <= Len(t)
      <4>1. PICK o, c \in Nat : /\ \A q : BlocksStep(t, q, k) = <<[start |-> o, end |-> c]>> \o q[c]
                                /\ k < c /\ c <= Len(t)
        BY <3>3
      <4>2. c \in f .. n /\ c # f
        BY <1>0, <2>2, <4>1 DEF n
      <4>3. h[c] = g[c]
        BY <4>2
      <4> HIDE DEF h
      <4> QED BY <4>1, <4>3
    <3> QED BY <3>1, <3>2, <3>3, BlocksStepIs
  <2>4. ASSUME NEW k \in f .. n PROVE h[k] = BlocksStep(t, h, k)
    <3>1. CASE k = f
      BY <2>3, <3>1
    <3>2. CASE k # f
      <4>1. k \in n - m .. n
        BY <1>0, <2>2, <3>2
      <4>2. g[k] = BlocksStep(t, g, k)
        BY <2>1, <4>1
      <4>3. h[k] = g[k]
        BY <3>2
      <4> QED BY <2>3, <4>2, <4>3
    <3> QED BY <3>1, <3>2
  <2>5. h = [k \in f .. n |-> h[k]]
    OBVIOUS
  <2> HIDE DEF h
  <2>6. h = [k \in f .. n |-> BlocksStep(t, h, k)]
    BY <2>4, <2>5
  <2> QED BY <2>6 DEF f
<1> HIDE DEF S
<1>4. n \in S
  BY <1>0, <1>2, <1>3, SetInduction
<1>5. PICK g : Solves(g)
  <2>1. Partly(n)
    BY <1>0, <1>4 DEF S
  <2>2. PICK g : g = [k \in n - n .. n |-> BlocksStep(t, g, k)]
    BY <2>1
  <2>3. n - n = 0
    BY <1>0
  <2> QED BY <2>2, <2>3
<1> HIDE DEF Solves
<1>6. Solves(CHOOSE q : Solves(q))
  BY <1>5
<1> DEFINE B == CHOOSE q : Solves(q)
<1>7. B = [k \in 0 .. n |-> BlocksStep(t, B, k)]
  BY <1>6 DEF Solves
<1> HIDE DEF B
<1>8. \A k \in 0 .. n : Blocks(t, k) = B[k] /\ B[k] = BlocksStep(t, B, k)
  BY <1>1, <1>7 DEF B
<1>9. i \in 0 .. n
  BY DEF n
<1>10. CASE /\ \A q : BlocksStep(t, q, i) = <<>>
            /\ \A o \in Places(t, OPEN), c \in Places(t, CLOSE) : o >= i => c < o
  BY <1>8, <1>9, <1>10
<1>11. CASE \E o, c \in Nat :
              /\ \A q : BlocksStep(t, q, i) = <<[start |-> o, end |-> c]>> \o q[c]
              /\ i <= o /\ o < c /\ i < c /\ c <= Len(t)
              /\ Block(t, [start |-> o, end |-> c])
  <2>1. PICK o, c \in Nat :
              /\ \A q : BlocksStep(t, q, i) = <<[start |-> o, end |-> c]>> \o q[c]
              /\ i <= o /\ o < c /\ i < c /\ c <= Len(t)
              /\ Block(t, [start |-> o, end |-> c])
    BY <1>11
  <2>2. c \in 0 .. n
    BY <2>1 DEF n
  <2>3. Blocks(t, i) = <<[start |-> o, end |-> c]>> \o Blocks(t, c)
    BY <1>8, <1>9, <2>1, <2>2
  <2> QED BY <2>1, <2>3
<1> QED BY <1>10, <1>11, BlocksStepIs

\* Blocks in order, each a block of t, and behind from.
BlockList(t, from, b) ==
  /\ b \in Seq([start : Nat, end : Nat])
  /\ \A i \in DOMAIN b : Block(t, b[i]) /\ from <= b[i].start /\ b[i].end <= Len(t)
  /\ \A i, j \in DOMAIN b : i < j => b[i].end <= b[j].start

LEMMA BlockListCons ==
  ASSUME NEW t \in Seq(Tokens), NEW from \in Nat, NEW o \in Nat, NEW c \in Nat,
         from <= o, o < c, c <= Len(t), Block(t, [start |-> o, end |-> c]),
         NEW rest, BlockList(t, c, rest)
  PROVE  BlockList(t, from, <<[start |-> o, end |-> c]>> \o rest)
<1> DEFINE first == [start |-> o, end |-> c]
           R == [start : Nat, end : Nat]
           b == <<first>> \o rest
<1>1. first \in R /\ first.start = o /\ first.end = c
  OBVIOUS
<1>2. /\ rest \in Seq(R)
      /\ \A i \in DOMAIN rest : Block(t, rest[i]) /\ c <= rest[i].start /\ rest[i].end <= Len(t)
      /\ \A i, j \in DOMAIN rest : i < j => rest[i].end <= rest[j].start
  BY DEF BlockList
<1>2a. Block(t, first)
  OBVIOUS
<1> HIDE DEF first, R
<1>3. /\ b \in Seq(R) /\ b[1] = first /\ Len(b) = Len(rest) + 1
      /\ \A i \in 2 .. Len(b) : i - 1 \in DOMAIN rest /\ b[i] = rest[i - 1]
  BY <1>1, <1>2
<1> HIDE DEF b
<1>3a. DOMAIN b = 1 .. Len(b) /\ Len(b) \in Nat
  BY <1>3
<1>4. ASSUME NEW i \in DOMAIN b PROVE Block(t, b[i]) /\ from <= b[i].start /\ b[i].end <= Len(t)
  <2>1. CASE i = 1
    BY <1>1, <1>2a, <1>3, <2>1
  <2>2. CASE i # 1
    <3>1. i - 1 \in DOMAIN rest /\ b[i] = rest[i - 1]
      BY <1>3, <1>3a, <2>2
    <3>2. rest[i - 1] \in R
      BY <1>2, <3>1
    <3>3. rest[i - 1].start \in Nat
      BY <3>2 DEF R
    <3> QED BY <1>2, <3>1, <3>3
  <2> QED BY <2>1, <2>2
<1>5. ASSUME NEW i \in DOMAIN b, NEW j \in DOMAIN b, i < j PROVE b[i].end <= b[j].start
  <2>1. j - 1 \in DOMAIN rest /\ b[j] = rest[j - 1]
    BY <1>3, <1>3a, <1>5
  <2>2. CASE i = 1
    BY <1>1, <1>2, <1>3, <2>1, <2>2
  <2>3. CASE i # 1
    <3>1. i - 1 \in DOMAIN rest /\ b[i] = rest[i - 1] /\ i - 1 < j - 1
      BY <1>3, <1>3a, <1>5, <2>3
    <3> QED BY <1>2, <2>1, <3>1
  <2> QED BY <2>2, <2>3
<1>6. BlockList(t, from, b)
  BY <1>3, <1>4, <1>5 DEF BlockList, R
<1> QED BY <1>6 DEF b, first

\* What extractUseToolBlocks finds, and when it finds nothing.
LEMMA BlocksAre ==
  ASSUME NEW t \in Seq(Tokens), NEW from \in 0 .. Len(t)
  PROVE  /\ BlockList(t, from, Blocks(t, from))
         /\ Blocks(t, from) = <<>> =>
              \A o \in Places(t, OPEN), c \in Places(t, CLOSE) : o >= from => c < o
<1> DEFINE n == Len(t)
           S == {m \in Nat : m <= n => BlockList(t, n - m, Blocks(t, n - m))}
<1>0. n \in Nat
  OBVIOUS
<1>1. ASSUME NEW m \in Nat, \A k \in Nat : k < m => k \in S PROVE m \in S
  <2> SUFFICES ASSUME m <= n PROVE BlockList(t, n - m, Blocks(t, n - m))
    OBVIOUS
  <2>1. n - m \in 0 .. Len(t) /\ n - m \in Nat
    BY <1>0
  <2>2. CASE Blocks(t, n - m) = <<>>
    <3>1. <<>> \in Seq([start : Nat, end : Nat]) /\ DOMAIN <<>> = 1 .. 0
      OBVIOUS
    <3>2. BlockList(t, n - m, <<>>)
      BY <3>1 DEF BlockList
    <3> QED BY <2>2, <3>2
  <2>3. CASE \E o, c \in Nat :
              /\ Blocks(t, n - m) = <<[start |-> o, end |-> c]>> \o Blocks(t, c)
              /\ n - m <= o /\ o < c /\ n - m < c /\ c <= Len(t)
              /\ Block(t, [start |-> o, end |-> c])
    <3>1. PICK o, c \in Nat :
              /\ Blocks(t, n - m) = <<[start |-> o, end |-> c]>> \o Blocks(t, c)
              /\ n - m <= o /\ o < c /\ n - m < c /\ c <= Len(t)
              /\ Block(t, [start |-> o, end |-> c])
      BY <2>3
    <3>2. n - c \in Nat /\ n - c < m /\ n - (n - c) = c /\ n - c <= n
      BY <1>0, <3>1
    <3>3. n - c \in S
      BY <1>1, <3>2
    <3>4. BlockList(t, c, Blocks(t, c))
      BY <3>2, <3>3
    <3> QED BY <2>1, <3>1, <3>4, BlockListCons
  <2> QED BY <2>1, <2>2, <2>3, BlocksUnfold
<1> HIDE DEF S
<1>2. n - from \in S
  <2>1. n - from \in Nat
    BY <1>0
  <2> QED BY <1>1, <2>1, StrongInduction
<1>3. BlockList(t, from, Blocks(t, from))
  <2>1. n - (n - from) = from /\ n - from <= n
    BY <1>0
  <2> QED BY <1>2, <2>1 DEF S
<1>4. ASSUME Blocks(t, from) = <<>>,
             NEW o \in Nat, NEW c \in Nat, Blocks(t, from) = <<[start |-> o, end |-> c]>> \o Blocks(t, c),
             c <= Len(t)
      PROVE  FALSE
  <2>1. c \in 0 .. Len(t)
    BY <1>4
  <2>2. Blocks(t, c) = <<>> \/ \E p, q \in Nat : Blocks(t, c) = <<[start |-> p, end |-> q]>> \o Blocks(t, q)
    BY <2>1, BlocksUnfold
  <2> DEFINE R == [start : Nat, end : Nat]
  <2>3. [start |-> o, end |-> c] \in R
    OBVIOUS
  <2>4. Blocks(t, c) \in Seq(R)
    <3>1. n - c \in Nat /\ n - (n - c) = c /\ n - c <= n
      BY <1>0, <1>4
    <3>2. n - c \in S
      BY <1>1, <3>1, StrongInduction
    <3>3. BlockList(t, c, Blocks(t, c))
      BY <3>1, <3>2 DEF S
    <3> QED BY <3>3 DEF BlockList
  <2> HIDE DEF R
  <2>5. <<[start |-> o, end |-> c]>> \o Blocks(t, c) # <<>>
    BY <2>3, <2>4
  <2> QED BY <1>4, <2>5
<1> QED BY <1>3, <1>4, BlocksUnfold

-----------------------------------------------------------------------------
(* The inductive invariant, of the choice x.                                *)

Chunk == [kind : Kinds, from : Nat, to : Nat]

Part(kind, from, to) == [kind |-> kind, from |-> from, to |-> to]

\* The chunks of u that show the text show the part from a to b, in order.
Between(u, a, b) ==
  /\ \A i \in DOMAIN u : u[i].kind # "xml" => a <= u[i].from /\ u[i].from <= u[i].to /\ u[i].to <= b
  /\ \A i, j \in DOMAIN u :
       i < j /\ u[i].kind # "xml" /\ u[j].kind # "xml" => u[i].to <= u[j].from

Shows(u, kinds) == \E i \in DOMAIN u : u[i].kind \in kinds

Parts == {"block", "aborted"}

\* An open block begins where an opening tag is, behind what was forwarded.
Bounds(x) ==
  /\ x.upTo <= Len(x.emitted) /\ x.scan <= Len(x.emitted)
  /\ x.active >= 0 => /\ obsidian /\ x.upTo <= x.active
                      /\ x.active \in Places(x.emitted, OPEN) /\ x.nested > x.active

\* No block is open and no content will be taken when an XML was shown.
OneForm(x) ==
  /\ Shows(x.sent, {"xml"}) => x.drop /\ x.active < 0 /\ ~Shows(x.sent, Parts)
  /\ Shows(x.sent, Parts) => x.seen

\* No block is opened inside another one, or it does not matter.
Simple(x) == ~obsidian \/ ~SecondOpening(x.emitted)

\* While content is taken no block was complete, and the buffer has the one
\* that is open; the beginning of an opening tag was not forwarded.
Calm(x) ==
  /\ x.scan = 0 /\ x.skip = 0 /\ x.toolEnd = -1
  /\ \A o \in Places(x.emitted, OPEN), c \in Places(x.emitted, CLOSE) : c < o
  /\ obsidian => /\ \A o \in Places(x.emitted, OPEN) : o = x.active
                 /\ x.active < 0 => x.search = 0
                 /\ Len(x.emitted) > 0 /\ x.emitted[Len(x.emitted)] = "<" =>
                      x.upTo < Len(x.emitted)

\* The text chunks end before every opening tag.
Untorn(x) ==
  \A at \in Places(x.emitted, OPEN) : \A i \in DOMAIN x.sent :
    x.sent[i].kind = "text" => x.sent[i].to <= at

\* What was forwarded was shown, and the rest is an open block or may be the
\* beginning of a tag.
Reached(x) ==
  /\ \A at \in 0 .. x.upTo - 1 : \E i \in DOMAIN x.sent :
       x.sent[i].kind = "text" /\ x.sent[i].from <= at /\ at < x.sent[i].to
  /\ \/ x.upTo = Len(x.emitted)
     \/ x.active >= 0
     \/ obsidian /\ \E s \in TagBegins(x.emitted) : x.upTo = Len(x.emitted) - Len(s)

ChoiceInv(x) ==
  /\ x \in Choice
  /\ Bounds(x) /\ OneForm(x)
  /\ Simple(x) => Between(x.sent, 0, x.upTo)
  /\ obsidian /\ limit /\ Simple(x) => Untorn(x)
  /\ ~x.drop /\ OpensFirst(x.emitted) /\ ~SecondOpening(x.emitted) => Reached(x)

Inv ==
  /\ TypeOK
  /\ ChoiceInv(choice)
  /\ ended # "yes" /\ ~choice.drop /\ Simple(choice) => Calm(choice)
  /\ ended = "yes" => choice.active < 0

-----------------------------------------------------------------------------
(* Parts of a text, and chunks.                                             *)

LEMMA SliceIs ==
  ASSUME NEW t \in Seq(Tokens), NEW a \in Nat, NEW b \in Nat, a <= b, b <= Len(t)
  PROVE  /\ Slice(t, a, b) \in Seq(Tokens) /\ Len(Slice(t, a, b)) = b - a
         /\ \A k \in 1 .. b - a : Slice(t, a, b)[k] = t[a + k]
<1>1. a + 1 \in Int /\ b \in Int /\ Len(t) \in Nat
  OBVIOUS
<1>2. \A k \in a + 1 .. b : t[k] \in Tokens
  <2> TAKE k \in a + 1 .. b
  <2>1. k \in 1 .. Len(t)
    BY <1>1
  <2> QED BY <2>1
<1>3. SubSeq(t, a + 1, b) = [k \in 1 .. (1 + b - (a + 1)) |-> t[a + 1 + k - 1]]
  BY <1>1, <1>2, SubSeqProperties
<1> QED BY <1>1, <1>2, <1>3 DEF Slice

LEMMA NewPartIs ==
  ASSUME NEW e \in Seq(Tokens), NEW a \in Seq(Tokens)
  PROVE  NewPart(e, a) \in Seq(Tokens)
<1> DEFINE n == Least(Len(e), Len(a))
           overlaps == {i \in 0 .. n : \A j \in 1 .. i : e[Len(e) - i + j] = a[j]}
           overlap == CHOOSE i \in overlaps : \A j \in overlaps : j <= i
<1>1. n \in Nat /\ n <= Len(a) /\ Len(a) \in Nat
  BY DEF Least
<1>2. NewPart(e, a) = SubSeq(a, overlap + 1, Len(a))
  BY DEF NewPart
<1> HIDE DEF n
<1>3. overlaps \in SUBSET (0 .. n) /\ 0 \in overlaps
  BY <1>1
<1> HIDE DEF overlaps
<1>4. overlap \in overlaps
  <2>1. n \in Int /\ overlaps \in SUBSET (0 .. n) /\ overlaps # {}
    BY <1>1, <1>3
  <2> QED BY <2>1, MostChosen
<1> HIDE DEF overlap
<1>5. overlap \in Nat /\ overlap <= Len(a)
  BY <1>1, <1>3, <1>4
<1> QED BY <1>1, <1>2, <1>5, SliceIs DEF Slice

LEMMA Joined ==
  ASSUME NEW s \in Seq(Chunk), NEW u \in Seq(Chunk)
  PROVE  /\ s \o u \in Seq(Chunk) /\ Len(s \o u) = Len(s) + Len(u)
         /\ \A i \in DOMAIN s : i \in DOMAIN (s \o u) /\ (s \o u)[i] = s[i]
         /\ \A i \in DOMAIN u : Len(s) + i \in DOMAIN (s \o u) /\ (s \o u)[Len(s) + i] = u[i]
         /\ \A i \in DOMAIN (s \o u) : i \in DOMAIN s \/ i - Len(s) \in DOMAIN u
OBVIOUS

LEMMA ShowsJoined ==
  ASSUME NEW s \in Seq(Chunk), NEW u \in Seq(Chunk), NEW kinds
  PROVE  Shows(s \o u, kinds) <=> Shows(s, kinds) \/ Shows(u, kinds)
<1>0. Len(s) \in Nat /\ DOMAIN u = 1 .. Len(u) /\ DOMAIN (s \o u) = 1 .. Len(s \o u)
  OBVIOUS
<1>1. ASSUME Shows(s \o u, kinds) PROVE Shows(s, kinds) \/ Shows(u, kinds)
  <2>1. PICK i \in DOMAIN (s \o u) : (s \o u)[i].kind \in kinds
    BY <1>1 DEF Shows
  <2>2. CASE i \in DOMAIN s
    BY <2>1, <2>2, Joined DEF Shows
  <2>3. CASE i - Len(s) \in DOMAIN u
    <3>1. Len(s) + (i - Len(s)) = i
      BY <1>0
    <3>2. (s \o u)[i] = u[i - Len(s)]
      BY <2>3, <3>1, Joined
    <3> QED BY <2>1, <2>3, <3>2 DEF Shows
  <2> QED BY <2>2, <2>3, Joined
<1>2. ASSUME Shows(s, kinds) PROVE Shows(s \o u, kinds)
  BY <1>2, Joined DEF Shows
<1>3. ASSUME Shows(u, kinds) PROVE Shows(s \o u, kinds)
  <2>1. PICK i \in DOMAIN u : u[i].kind \in kinds
    BY <1>3 DEF Shows
  <2>2. Len(s) + i \in DOMAIN (s \o u) /\ (s \o u)[Len(s) + i] = u[i]
    BY Joined
  <2> QED BY <2>1, <2>2 DEF Shows
<1> QED BY <1>1, <1>2, <1>3

LEMMA BetweenJoined ==
  ASSUME NEW s \in Seq(Chunk), NEW u \in Seq(Chunk), NEW a \in Nat, NEW b \in Nat, NEW e \in Nat,
         Between(s, a, b), Between(u, b, e), a <= b, b <= e
  PROVE  Between(s \o u, a, e)
<1> DEFINE v == s \o u
<1>0. /\ v \in Seq(Chunk) /\ Len(s) \in Nat /\ DOMAIN v = 1 .. Len(v) /\ DOMAIN s = 1 .. Len(s)
      /\ DOMAIN u = 1 .. Len(u)
      /\ \A i \in DOMAIN s : v[i] = s[i]
      /\ \A i \in DOMAIN v : i \in DOMAIN s \/ i - Len(s) \in DOMAIN u
  BY Joined
<1>1. \A i \in DOMAIN v : i - Len(s) \in DOMAIN u => v[i] = u[i - Len(s)]
  <2> TAKE i \in DOMAIN v
  <2>1. Len(s) + (i - Len(s)) = i
    BY <1>0
  <2> QED BY <2>1, Joined
<1> HIDE DEF v
<1>2. \A c \in Chunk : c.from \in Nat /\ c.to \in Nat
  BY DEF Chunk
<1>3. \A i \in DOMAIN v : v[i] \in Chunk
  BY <1>0
<1> HIDE DEF Chunk
<1>4. ASSUME NEW i \in DOMAIN v, v[i].kind # "xml"
      PROVE  /\ a <= v[i].from /\ v[i].from <= v[i].to /\ v[i].to <= e
             /\ i \in DOMAIN s => v[i].to <= b
             /\ i - Len(s) \in DOMAIN u => b <= v[i].from
  <2>1. v[i].from \in Nat /\ v[i].to \in Nat
    BY <1>2, <1>3
  <2>2. CASE i \in DOMAIN s
    BY <1>0, <1>4, <2>1, <2>2 DEF Between
  <2>3. CASE i - Len(s) \in DOMAIN u
    <3>1. v[i] = u[i - Len(s)]
      BY <1>1, <2>3
    <3>2. b <= v[i].from /\ v[i].from <= v[i].to /\ v[i].to <= e
      BY <1>4, <2>3, <3>1 DEF Between
    <3>3. ~(i \in DOMAIN s)
      BY <1>0, <2>3
    <3> QED BY <2>1, <3>2, <3>3
  <2> QED BY <1>0, <2>2, <2>3
<1>5. ASSUME NEW i \in DOMAIN v, NEW j \in DOMAIN v, i < j, v[i].kind # "xml", v[j].kind # "xml"
      PROVE  v[i].to <= v[j].from
  <2>1. v[i].to \in Nat /\ v[j].from \in Nat
    BY <1>2, <1>3
  <2>2. CASE i \in DOMAIN s /\ j \in DOMAIN s
    BY <1>0, <1>5, <2>2 DEF Between
  <2>3. CASE i \in DOMAIN s /\ j - Len(s) \in DOMAIN u
    BY <1>4, <1>5, <2>1, <2>3
  <2>4. CASE i - Len(s) \in DOMAIN u /\ j - Len(s) \in DOMAIN u
    <3>1. v[i] = u[i - Len(s)] /\ v[j] = u[j - Len(s)]
      BY <1>1, <2>4
    <3>2. i - Len(s) < j - Len(s)
      BY <1>0, <1>5
    <3> QED BY <1>5, <2>4, <3>1, <3>2 DEF Between
  <2>5. ~(i - Len(s) \in DOMAIN u /\ j \in DOMAIN s)
    BY <1>0, <1>5
  <2> QED BY <1>0, <2>2, <2>3, <2>4, <2>5
<1>6. Between(v, a, e)
  BY <1>4, <1>5 DEF Between
<1> QED BY <1>6 DEF v

\* A chunk of its own.
LEMMA OneChunk ==
  ASSUME NEW c \in Chunk
  PROVE  /\ <<c>> \in Seq(Chunk)
         /\ \A kinds : Shows(<<c>>, kinds) <=> c.kind \in kinds
         /\ \A a, b : Between(<<c>>, a, b) <=> c.kind = "xml" \/ (a <= c.from /\ c.from <= c.to /\ c.to <= b)
<1>1. <<c>> \in Seq(Chunk) /\ DOMAIN <<c>> = {1} /\ <<c>>[1] = c
  OBVIOUS
<1>2. \A i, j \in DOMAIN <<c>> : ~(i < j)
  BY <1>1
<1> QED BY <1>1, <1>2 DEF Shows, Between

\* emitTextualToolMetadata changes the calls alone.
LEMMA TextualCallsIs ==
  ASSUME NEW x \in Choice, NEW t \in Seq(Tokens)
  PROVE  \E calls \in Seq({"part", "whole"}) : TextualCalls(x, t) = [x EXCEPT !.calls = calls]
<1>1. CASE x.calls # <<>>
  <2>1. x.calls \in Seq({"part", "whole"}) /\ x = [x EXCEPT !.calls = x.calls]
    BY DEF Choice
  <2> QED BY <1>1, <2>1 DEF TextualCalls
<1>2. CASE x.calls = <<>>
  <2> DEFINE b == Blocks(t, 0)
             calls == [i \in DOMAIN b |-> "whole"]
  <2>1. Len(t) \in Nat /\ 0 \in 0 .. Len(t)
    OBVIOUS
  <2>2. b \in Seq([start : Nat, end : Nat])
    BY <2>1, BlocksAre DEF BlockList
  <2>3. TextualCalls(x, t) = [x EXCEPT !.calls = calls]
    BY <1>2 DEF TextualCalls
  <2> HIDE DEF b
  <2>4. calls \in Seq({"part", "whole"})
    BY <2>2
  <2> QED BY <2>3, <2>4
<1> QED BY <1>1, <1>2

-----------------------------------------------------------------------------
(* What each operation does to a choice.                                    *)

SameText(x, y) ==
  /\ y.emitted = x.emitted /\ y.upTo = x.upTo /\ y.scan = x.scan /\ y.toolEnd = x.toolEnd
  /\ y.skip = x.skip /\ y.seen = x.seen /\ y.drop = x.drop /\ y.sent = x.sent

LEMMA TrackOpenIs ==
  ASSUME NEW x \in Choice
  PROVE  /\ TrackOpen(x) \in Choice /\ SameText(x, TrackOpen(x))
         /\ x.active >= 0 => TrackOpen(x) = x
         /\ x.active < 0 /\ TrackOpen(x).active >= 0 =>
              /\ TrackOpen(x).active \in Places(x.emitted, OPEN)
              /\ TrackOpen(x).nested > TrackOpen(x).active
              /\ Most(x.search, x.upTo) <= TrackOpen(x).active
              /\ \A o \in Places(x.emitted, OPEN) :
                   o >= Most(x.search, x.upTo) => TrackOpen(x).active <= o
         /\ x.active < 0 /\ TrackOpen(x).active < 0 =>
              \A o \in Places(x.emitted, OPEN) : o < Most(x.search, x.upTo)
         /\ Places(x.emitted, OPEN) = {} => TrackOpen(x) = x
<1> DEFINE from == Most(x.search, x.upTo)
           open == IndexOf(x.emitted, OPEN, from)
           y == TrackOpen(x)
<1>0. /\ x.emitted \in Seq(Tokens) /\ x.search \in Nat /\ x.upTo \in Nat /\ x.active \in Nat \cup {-1}
      /\ from \in Nat /\ Len(x.emitted) \in Nat
  BY DEF Choice, Most
<1>1. \/ open = -1 /\ \A i \in Places(x.emitted, OPEN) : i < from
      \/ /\ open \in Places(x.emitted, OPEN) /\ open >= from /\ open \in Nat
         /\ \A i \in Places(x.emitted, OPEN) : i >= from => open <= i
  BY <1>0, IndexFound
<1>2. CASE x.active >= 0 \/ Places(x.emitted, OPEN) = {}
  <2>1. y = x
    <3>1. CASE x.active >= 0
      BY <1>0, <3>1 DEF TrackOpen
    <3>2. CASE x.active < 0
      <4>1. Places(x.emitted, OPEN) = {} /\ open = -1
        BY <1>0, <1>1, <1>2, <3>2
      <4>2. ~(open >= 0)
        BY <4>1
      <4> QED BY <1>0, <3>2, <4>1, <4>2 DEF TrackOpen
    <3> QED BY <1>0, <3>1, <3>2
  <2> QED BY <1>0, <1>2, <2>1 DEF SameText
<1>3. CASE x.active < 0 /\ open >= 0 /\ Places(x.emitted, OPEN) # {}
  <2>1. y = [x EXCEPT !.active = open, !.nested = open + 2, !.search = open + 2]
    BY <1>0, <1>3, TagLengths DEF TrackOpen
  <2>2. open \in Nat /\ open + 2 \in Nat
    BY <1>1, <1>3
  <2> HIDE DEF from, open
  <2>3. y \in Choice /\ SameText(x, y) /\ y.active = open /\ y.nested = open + 2
    BY <2>1, <2>2 DEF Choice, SameText
  <2> HIDE DEF y
  <2> QED BY <1>0, <1>1, <1>3, <2>2, <2>3 DEF from, y
<1>4. CASE x.active < 0 /\ ~(open >= 0) /\ Places(x.emitted, OPEN) # {}
  <2>1. y = [x EXCEPT !.search = Most(Len(x.emitted) - 2, from)]
    BY <1>0, <1>4, TagLengths DEF TrackOpen
  <2>2. Most(Len(x.emitted) - 2, from) \in Nat
    BY <1>0 DEF Most
  <2>3. y \in Choice /\ SameText(x, y) /\ y.active = x.active
    BY <2>1, <2>2 DEF Choice, SameText
  <2> HIDE DEF y
  <2> QED BY <1>0, <1>1, <1>4, <2>3 DEF y
<1> QED BY <1>0, <1>2, <1>3, <1>4

LEMMA NestedScanIs ==
  ASSUME NEW x \in Choice, x.active >= 0 => x.nested > x.active
  PROVE  /\ NestedScan(x) \in Choice /\ SameText(x, NestedScan(x))
         /\ NestedScan(x).active = x.active /\ NestedScan(x).search = x.search
         /\ x.active >= 0 => NestedScan(x).nested > x.active
<1>0. /\ x.emitted \in Seq(Tokens) /\ x.nested \in Nat /\ x.active \in Nat \cup {-1}
      /\ Len(x.emitted) \in Nat
  BY DEF Choice
<1>1. CASE x.active < 0
  BY <1>0, <1>1 DEF NestedScan, SameText
<1>2. CASE x.active >= 0 /\ Nested(x)
  <2> DEFINE second == IndexOf(x.emitted, OPEN, x.nested)
  <2>1. second >= 0
    BY <1>2 DEF Nested
  <2>2. second \in Nat /\ second >= x.nested
    BY <1>0, <2>1, IndexFound
  <2>3. NestedScan(x) = [x EXCEPT !.nested = second]
    BY <1>0, <1>2 DEF NestedScan
  <2> HIDE DEF second
  <2>4. NestedScan(x) \in Choice /\ NestedScan(x).active = x.active
        /\ NestedScan(x).search = x.search /\ NestedScan(x).nested = second
    BY <2>2, <2>3 DEF Choice
  <2>5. SameText(x, NestedScan(x))
    BY <2>3 DEF Choice, SameText
  <2> QED BY <1>0, <2>2, <2>4, <2>5
<1>3. CASE x.active >= 0 /\ ~Nested(x)
  <2>1. NestedScan(x) = [x EXCEPT !.nested = Most(Len(x.emitted) - 2, x.nested)]
    BY <1>0, <1>3, TagLengths DEF NestedScan
  <2>2. Most(Len(x.emitted) - 2, x.nested) \in Nat /\ Most(Len(x.emitted) - 2, x.nested) >= x.nested
    BY <1>0 DEF Most
  <2> DEFINE next == Most(Len(x.emitted) - 2, x.nested)
  <2> HIDE DEF next
  <2>3. NestedScan(x) = [x EXCEPT !.nested = next] /\ next \in Nat /\ next >= x.nested
    BY <2>1, <2>2 DEF next
  <2>4. NestedScan(x) \in Choice /\ NestedScan(x).active = x.active
        /\ NestedScan(x).search = x.search /\ NestedScan(x).nested = next
    BY <2>3 DEF Choice
  <2>5. SameText(x, NestedScan(x))
    BY <2>3 DEF Choice, SameText
  <2> QED BY <1>0, <2>3, <2>4, <2>5
<1> QED BY <1>0, <1>1, <1>2, <1>3

\* flushActiveToolBuffer: no block is open afterwards; what is shown is the open
\* block, and only if the text has no closing tag.
LEMMA FlushActiveIs ==
  ASSUME NEW x \in Choice, Bounds(x)
  PROVE  /\ FlushActive(x) \in Choice /\ FlushActive(x).emitted = x.emitted
         /\ FlushActive(x).active < 0
         /\ x.active < 0 => FlushActive(x) = x
         /\ \/ /\ FlushActive(x).sent = x.sent /\ FlushActive(x).upTo = x.upTo
               /\ FlushActive(x).scan = x.scan /\ FlushActive(x).drop = x.drop
               /\ FlushActive(x).seen = x.seen
               /\ x.active >= 0 => Places(x.emitted, CLOSE) # {}
            \/ /\ x.active >= 0 /\ FlushActive(x).drop /\ FlushActive(x).seen
               /\ FlushActive(x).upTo = Len(x.emitted) /\ FlushActive(x).scan = Len(x.emitted)
               /\ FlushActive(x).sent = x.sent \o
                    <<Part("aborted", x.active, Len(x.emitted))>>
<1> DEFINE y == FlushActive(x)
           close == LastIndexOf(x.emitted, CLOSE)
           size == Len(x.emitted)
<1>0. /\ x.emitted \in Seq(Tokens) /\ x.active \in Nat \cup {-1} /\ size \in Nat
      /\ x.skip \in Nat /\ x.search \in Nat /\ x.shown \in Nat /\ x.sent \in Seq(Chunk)
  BY DEF Choice, Chunk
<1>1. x.active >= 0 => obsidian /\ x.active \in Places(x.emitted, OPEN) /\ x.active + 2 <= size
  BY <1>0, OpenAt DEF Bounds
<1>2. CASE x.active < 0
  BY <1>0, <1>2 DEF FlushActive
<1>3. CASE x.active >= 0 /\ close >= 0
  <2>1. close \in Nat /\ Places(x.emitted, CLOSE) # {}
    BY <1>0, <1>3, LastIndexFound
  <2>2. y = [x EXCEPT !.skip = Most(@, close + 3), !.search = Most(@, close + 3), !.active = -1]
    BY <1>0, <1>1, <1>3, TagLengths DEF FlushActive, Complete
  <2>3. Most(x.skip, close + 3) \in Nat /\ Most(x.search, close + 3) \in Nat
    BY <1>0, <2>1 DEF Most
  <2> HIDE DEF y
  <2>4. y \in Choice
    BY <2>2, <2>3 DEF Choice
  <2>5. /\ y.emitted = x.emitted /\ y.active = -1 /\ y.sent = x.sent /\ y.upTo = x.upTo
        /\ y.scan = x.scan /\ y.drop = x.drop /\ y.seen = x.seen
    BY <2>2 DEF Choice
  <2> QED BY <1>0, <1>3, <2>1, <2>4, <2>5 DEF y
<1>4. CASE x.active >= 0 /\ ~(close >= 0)
  <2> DEFINE chunk == Part("aborted", x.active, size)
  <2>1. PICK calls \in Seq({"part", "whole"}) :
          TextualCalls(x, Slice(x.emitted, x.active, size)) = [x EXCEPT !.calls = calls]
    <3>1. x.active \in Nat /\ x.active <= size /\ size <= Len(x.emitted)
      BY <1>0, <1>1, <1>4
    <3> HIDE DEF size
    <3>2. Slice(x.emitted, x.active, size) \in Seq(Tokens)
      BY <1>0, <3>1, SliceIs
    <3> QED BY <3>2, TextualCallsIs
  <2>2. y = [x EXCEPT !.calls = calls, !.sent = Append(@, chunk), !.any = TRUE, !.drop = TRUE,
                      !.seen = TRUE, !.shown = @ + 1, !.upTo = size, !.scan = size, !.skip = size,
                      !.search = size, !.active = -1]
    BY <1>0, <1>1, <1>4, <2>1 DEF FlushActive, ShowPart, Send, Choice, Part
  <2>3. chunk \in Chunk
    BY <1>0, <1>4 DEF Chunk, Kinds, Part
  <2> HIDE DEF chunk
  <2>4. Append(x.sent, chunk) \in Seq(Chunk) /\ Append(x.sent, chunk) = x.sent \o <<chunk>>
    BY <1>0, <2>3
  <2> HIDE DEF y, size
  <2> DEFINE sent == Append(x.sent, chunk)
  <2> HIDE DEF sent
  <2>4a. sent \in Seq([kind : Kinds, from : Nat, to : Nat]) /\ x.shown + 1 \in Nat
    BY <1>0, <2>4 DEF Chunk, sent
  <2>4b. y = [x EXCEPT !.calls = calls, !.sent = sent, !.any = TRUE, !.drop = TRUE,
                       !.seen = TRUE, !.shown = x.shown + 1, !.upTo = size, !.scan = size,
                       !.skip = size, !.search = size, !.active = -1]
    BY <2>2 DEF sent, Choice
  <2>5. y \in Choice
    BY <1>0, <2>4a, <2>4b DEF Choice
  <2>6. y.sent = x.sent \o <<chunk>>
    BY <2>4b, <2>4 DEF Choice, sent
  <2>7. y.drop /\ y.seen /\ y.upTo = size /\ y.scan = size /\ y.active < 0 /\ y.emitted = x.emitted
    BY <2>2 DEF Choice
  <2>8. y.sent = x.sent \o <<Part("aborted", x.active, Len(x.emitted))>>
    BY <2>6 DEF chunk, size
  <2>9. y.drop /\ y.seen /\ y.upTo = Len(x.emitted) /\ y.scan = Len(x.emitted)
        /\ y.active < 0 /\ y.emitted = x.emitted /\ ~(x.active < 0)
    BY <1>0, <1>4, <2>7 DEF size
  <2> QED BY <1>4, <2>5, <2>8, <2>9 DEF y
<1> QED BY <1>0, <1>2, <1>3, <1>4

SameBuffer(x, y) ==
  /\ y.emitted = x.emitted /\ y.upTo = x.upTo /\ y.scan = x.scan /\ y.toolEnd = x.toolEnd
  /\ y.active = x.active /\ y.nested = x.nested /\ y.search = x.search /\ y.skip = x.skip
  /\ y.seen = x.seen

OnlyShows(u, kind) == \A i \in DOMAIN u : u[i].kind = kind

\* The content of x was added to u, and y has it.
Added(x, y, u) == u \in Seq(Chunk) /\ y.sent = x.sent \o u

LEMMA OnlyShowsIs ==
  ASSUME NEW u \in Seq(Chunk), NEW kind, OnlyShows(u, kind), NEW kinds
  PROVE  Shows(u, kinds) => kind \in kinds
BY DEF OnlyShows, Shows

\* emitAggregatorToolContent adds nothing, or the XML of calls and no content
\* will be taken.
LEMMA EmitAggregatorIs ==
  ASSUME NEW x \in Choice
  PROVE  /\ EmitAggregator(x) \in Choice /\ SameBuffer(x, EmitAggregator(x))
         /\ \/ EmitAggregator(x).sent = x.sent /\ EmitAggregator(x).drop = x.drop
            \/ /\ ~x.seen /\ EmitAggregator(x).drop
               /\ \E u : Added(x, EmitAggregator(x), u) /\ OnlyShows(u, "xml")
<1> DEFINE y == EmitAggregator(x)
           n == Len(x.calls)
           whole == {m \in x.shown .. n : \A i \in x.shown + 1 .. m : x.calls[i] = "whole"}
           upTo == CHOOSE m \in whole : \A k \in whole : k <= m
           xmls == [i \in 1 .. upTo - x.shown |-> [kind |-> "xml", from |-> 0, to |-> 0]]
<1>0. /\ x.shown \in Nat /\ n \in Nat /\ x.sent \in Seq(Chunk) /\ x.seen \in BOOLEAN
      /\ x.calls \in Seq({"part", "whole"})
  BY DEF Choice, Chunk
<1>1. CASE x.seen
  <2>1. y = [x EXCEPT !.shown = Most(@, n)]
    BY <1>1 DEF EmitAggregator
  <2>2. Most(x.shown, n) \in Nat
    BY <1>0 DEF Most
  <2> QED BY <2>1, <2>2 DEF Choice, SameBuffer
<1>2. CASE ~x.seen /\ x.shown > n
  <2>1. y = [x EXCEPT !.shown = n]
    BY <1>0, <1>2 DEF EmitAggregator
  <2> QED BY <1>0, <2>1 DEF Choice, SameBuffer
<1>3. CASE ~x.seen /\ x.shown <= n
  <2>1. whole \in SUBSET (0 .. n) /\ x.shown \in whole
    BY <1>0, <1>3
  <2>2. upTo \in whole
    <3> HIDE DEF whole
    <3>1. n \in Int /\ whole # {}
      BY <1>0, <2>1
    <3> HIDE DEF n
    <3> QED BY <2>1, <3>1, MostChosen
  <2>3. upTo \in Nat
    BY <1>0, <2>2
  <2>4. y = IF upTo > x.shown
            THEN [x EXCEPT !.sent = @ \o xmls, !.any = TRUE, !.drop = TRUE, !.shown = upTo]
            ELSE x
    BY <1>0, <1>3, <2>3 DEF EmitAggregator
  <2> HIDE DEF upTo, y
  <2>5. xmls \in Seq(Chunk) /\ OnlyShows(xmls, "xml")
    <3>1. [kind |-> "xml", from |-> 0, to |-> 0] \in Chunk
      BY DEF Chunk, Kinds
    <3>2. PICK m \in Nat : 1 .. upTo - x.shown = 1 .. m
      <4>1. CASE upTo >= x.shown
        BY <1>0, <2>3, <4>1
      <4>2. CASE upTo < x.shown
        <5>1. 1 .. upTo - x.shown = 1 .. 0
          BY <1>0, <2>3, <4>2
        <5> QED BY <5>1
      <4> QED BY <1>0, <2>3, <4>1, <4>2
    <3> DEFINE c == [kind |-> "xml", from |-> 0, to |-> 0]
    <3>3. c.kind = "xml" /\ c \in Chunk
      BY <3>1
    <3> HIDE DEF c
    <3>4. xmls = [i \in 1 .. m |-> c]
      BY <3>2 DEF c
    <3> HIDE DEF xmls
    <3> QED BY <3>3, <3>4 DEF OnlyShows
  <2> HIDE DEF xmls
  <2>6. CASE upTo > x.shown
    <3> DEFINE sent == x.sent \o xmls
    <3>1. sent \in Seq(Chunk)
      BY <1>0, <2>5
    <3> HIDE DEF sent
    <3>2. y = [x EXCEPT !.sent = sent, !.any = TRUE, !.drop = TRUE, !.shown = upTo]
      BY <2>4, <2>6 DEF sent
    <3>3. y \in Choice
      BY <2>3, <3>1, <3>2 DEF Choice, Chunk
    <3>4. SameBuffer(x, y) /\ y.drop /\ y.sent = sent
      BY <3>2 DEF Choice, SameBuffer
    <3> QED BY <1>3, <2>5, <3>3, <3>4 DEF y, sent, Added
  <2>7. CASE ~(upTo > x.shown)
    <3>1. y = x
      BY <2>4, <2>7
    <3> QED BY <3>1 DEF SameBuffer, y
  <2> QED BY <2>6, <2>7
<1> QED BY <1>0, <1>1, <1>2, <1>3

\* A change of the calls adds XML only while the text has shown no block and has
\* none open.
LEMMA CallsChangedIs ==
  ASSUME NEW x \in Choice, NEW t
  PROVE  /\ CallsChanged(x, t) \in Choice /\ SameBuffer(x, CallsChanged(x, t))
         /\ \/ CallsChanged(x, t).sent = x.sent /\ (x.drop => CallsChanged(x, t).drop)
            \/ /\ x.active < 0 /\ ~x.seen /\ CallsChanged(x, t).drop
               /\ \E u : Added(x, CallsChanged(x, t), u) /\ OnlyShows(u, "xml")
<1> DEFINE y == CallsChanged(x, t)
<1>0. x.calls \in Seq({"part", "whole"}) /\ Len(x.calls) \in Nat /\ x.active \in Nat \cup {-1}
  BY DEF Choice
<1>1. CASE ~obsidian
  <2>1. y = [x EXCEPT !.drop = TRUE, !.shown = Len(x.calls)]
    BY <1>1 DEF CallsChanged
  <2> QED BY <1>0, <2>1 DEF Choice, SameBuffer
<1>2. CASE obsidian /\ x.seen
  <2>1. y = [x EXCEPT !.shown = Len(x.calls)]
    BY <1>2 DEF CallsChanged
  <2> QED BY <1>0, <2>1 DEF Choice, SameBuffer
<1>3. CASE obsidian /\ ~x.seen /\ ~MayShowBlock(x, t)
  <2>1. y = EmitAggregator(x)
    BY <1>3 DEF CallsChanged
  <2>2. ~(x.active >= 0)
    BY <1>3 DEF MayShowBlock
  <2>3. x.active < 0
    BY <1>0, <2>2
  <2> HIDE DEF y
  <2>4. /\ y \in Choice /\ SameBuffer(x, y)
        /\ \/ y.sent = x.sent /\ y.drop = x.drop
           \/ ~x.seen /\ y.drop /\ \E u : Added(x, y, u) /\ OnlyShows(u, "xml")
    BY <2>1, EmitAggregatorIs
  <2> QED BY <1>3, <2>3, <2>4 DEF y
<1>4. CASE obsidian /\ ~x.seen /\ MayShowBlock(x, t)
  <2>1. y = x
    BY <1>4 DEF CallsChanged
  <2> QED BY <2>1 DEF SameBuffer
<1> QED BY <1>1, <1>2, <1>3, <1>4

\* A block list that lacks its first blocks.
LEMMA BlockListRest ==
  ASSUME NEW t \in Seq(Tokens), NEW from \in Nat, NEW b, BlockList(t, from, b), NEW first \in DOMAIN b
  PROVE  /\ BlockList(t, from, SubSeq(b, first, Len(b)))
         /\ Len(SubSeq(b, first, Len(b))) \in Nat \ {0}
         /\ Len(SubSeq(b, first, Len(b))) = 1 + Len(b) - first
         /\ \A k \in 1 .. 1 + Len(b) - first : SubSeq(b, first, Len(b))[k] = b[first + k - 1]
<1> DEFINE R == [start : Nat, end : Nat]
           n == Len(b)
           v == SubSeq(b, first, n)
<1>1. b \in Seq(R) /\ n \in Nat /\ DOMAIN b = 1 .. n /\ first \in Nat /\ 1 <= first /\ first <= n
  BY DEF BlockList
<1> HIDE DEF R
<1>2. \A k \in first .. n : b[k] \in R
  BY <1>1
<1>3. v = [k \in 1 .. (1 + n - first) |-> b[first + k - 1]]
  BY <1>1, <1>2, SubSeqProperties
<1>4. 1 + n - first \in Nat \ {0} /\ \A k \in 1 .. (1 + n - first) : first + k - 1 \in DOMAIN b
  BY <1>1
<1> HIDE DEF v
<1>5. v \in Seq(R) /\ DOMAIN v = 1 .. (1 + n - first) /\ Len(v) = 1 + n - first
  <2> DEFINE m == 1 + n - first
  <2>1. \A k \in 1 .. m : b[first + k - 1] \in R
    BY <1>1, <1>4
  <2> HIDE DEF m
  <2>2. v = [k \in 1 .. m |-> b[first + k - 1]] /\ m \in Nat
    BY <1>3, <1>4 DEF m
  <2>3. v \in Seq(R) /\ DOMAIN v = 1 .. m /\ Len(v) = m
    BY <2>1, <2>2
  <2> QED BY <2>3 DEF m
<1>6. ASSUME NEW k \in DOMAIN v PROVE v[k] = b[first + k - 1] /\ first + k - 1 \in DOMAIN b
  BY <1>3, <1>4, <1>5
<1>7. ASSUME NEW i \in DOMAIN v, NEW j \in DOMAIN v, i < j PROVE v[i].end <= v[j].start
  <2>1. first + i - 1 < first + j - 1
    BY <1>1, <1>5, <1>7
  <2> QED BY <1>6, <2>1 DEF BlockList
<1>8. BlockList(t, from, v)
  BY <1>5, <1>6, <1>7 DEF BlockList, R
<1> QED BY <1>4, <1>5, <1>6, <1>8 DEF v

\* The blocks of new are shown: in order, and forwarding goes on behind the last.
LEMMA ShowAllIs ==
  ASSUME NEW x \in Choice, NEW new, BlockList(x.emitted, 0, new), Len(new) \in Nat \ {0}
  PROVE  /\ ShowAll(x, new) \in Choice /\ ShowAll(x, new).emitted = x.emitted
         /\ ShowAll(x, new).drop /\ ShowAll(x, new).seen /\ ShowAll(x, new).active < 0
         /\ ShowAll(x, new).upTo = new[Len(new)].end /\ ShowAll(x, new).scan = x.scan
         /\ \E u : /\ Added(x, ShowAll(x, new), u) /\ Len(u) = Len(new) /\ OnlyShows(u, "block")
                   /\ Between(u, new[1].start, new[Len(new)].end)
<1> DEFINE y == ShowAll(x, new)
           R == [start : Nat, end : Nat]
           n == Len(new)
           end == new[n].end
           u == [i \in DOMAIN new |-> [kind |-> "block", from |-> new[i].start, to |-> new[i].end]]
<1>0. /\ x.emitted \in Seq(Tokens) /\ x.sent \in Seq(Chunk) /\ x.shown \in Nat
      /\ x.skip \in Nat /\ x.search \in Nat
  BY DEF Choice, Chunk
<1>1. new \in Seq(R) /\ DOMAIN new = 1 .. n /\ n \in Nat /\ 1 <= n /\ 1 \in DOMAIN new /\ n \in DOMAIN new
  BY DEF BlockList
<1> HIDE DEF R, n
<1>2. \A i \in DOMAIN new : /\ new[i] \in R /\ new[i].start \in Nat /\ new[i].end \in Nat
                            /\ new[i].start < new[i].end /\ new[i].end <= Len(x.emitted)
  <2> TAKE i \in DOMAIN new
  <2>1. new[i] \in R
    BY <1>1
  <2>2. new[i].start \in Nat /\ new[i].end \in Nat
    BY <2>1 DEF R
  <2>3. new[i].start < new[i].end - 3 /\ new[i].end <= Len(x.emitted)
    BY DEF BlockList, Block
  <2> QED BY <2>1, <2>2, <2>3
<1>3. PICK calls \in Seq({"part", "whole"}) :
        TextualCalls(x, Slice(x.emitted, new[1].start, new[1].end)) = [x EXCEPT !.calls = calls]
  <2>1. Slice(x.emitted, new[1].start, new[1].end) \in Seq(Tokens)
    <3>1. new[1].start <= new[1].end
      BY <1>1, <1>2
    <3> QED BY <1>0, <1>1, <1>2, <3>1, SliceIs
  <2> QED BY <2>1, TextualCallsIs
<1>4. u \in Seq(Chunk) /\ Len(u) = n /\ DOMAIN u = DOMAIN new
  <2>1. \A i \in DOMAIN new : [kind |-> "block", from |-> new[i].start, to |-> new[i].end] \in Chunk
    BY <1>2 DEF Chunk, Kinds
  <2> QED BY <1>1, <2>1
<1>5. OnlyShows(u, "block") /\ \A i \in DOMAIN u : u[i].from = new[i].start /\ u[i].to = new[i].end
  BY DEF OnlyShows
<1> HIDE DEF u
<1>6. Between(u, new[1].start, end)
  <2>1. ASSUME NEW i \in DOMAIN new PROVE new[1].start <= new[i].start /\ new[i].end <= end
    <3>1. i = 1 \/ 1 < i
      BY <1>1
    <3>2. i = n \/ i < n
      BY <1>1
    <3>3. 1 < i => new[1].end <= new[i].start
      BY <1>1 DEF BlockList
    <3>4. i < n => new[i].end <= new[n].start
      BY <1>1 DEF BlockList
    <3> QED BY <1>1, <1>2, <3>1, <3>2, <3>3, <3>4
  <2>2. \A i, j \in DOMAIN u : i < j => u[i].to <= u[j].from
    BY <1>4, <1>5 DEF BlockList
  <2>3. \A i \in DOMAIN u : new[1].start <= u[i].from /\ u[i].from <= u[i].to /\ u[i].to <= end
    BY <1>2, <1>4, <1>5, <2>1
  <2> QED BY <2>2, <2>3 DEF Between
<1>7. end \in Nat
  BY <1>1, <1>2
<1> HIDE DEF end
<1> DEFINE sent == x.sent \o u
<1>8. sent \in Seq(Chunk)
  BY <1>0, <1>4
<1> HIDE DEF sent
<1>9. y = [x EXCEPT !.calls = calls, !.sent = sent, !.any = TRUE, !.drop = TRUE, !.seen = TRUE,
                    !.shown = x.shown + n, !.upTo = end, !.skip = Most(x.skip, end),
                    !.search = Most(x.search, end), !.active = -1]
  BY <1>3 DEF ShowAll, Complete, Choice, sent, u, end, n
<1>10. Most(x.skip, end) \in Nat /\ Most(x.search, end) \in Nat /\ x.shown + n \in Nat
  BY <1>0, <1>1, <1>7 DEF Most
<1> HIDE DEF y
<1>11. y \in Choice
  BY <1>7, <1>8, <1>9, <1>10 DEF Choice, Chunk
<1>12. /\ y.emitted = x.emitted /\ y.drop /\ y.seen /\ y.active < 0 /\ y.upTo = end /\ y.scan = x.scan
       /\ y.sent = sent
  BY <1>9 DEF Choice
<1> QED BY <1>4, <1>5, <1>6, <1>11, <1>12 DEF y, sent, end, n, Added

\* What ShowBlocks finds: no block; only blocks that are done with; or new
\* ones, which are shown in the obsidian-xml mode.
NoneFound(x, y) ==
  /\ y = x
  /\ \A o \in Places(x.emitted, OPEN), c \in Places(x.emitted, CLOSE) : o >= x.scan => c < o

NoneNew(x, y) ==
  /\ y.upTo = x.upTo /\ y.active = x.active /\ y.nested = x.nested /\ y.sent = x.sent
  /\ y.drop = x.drop /\ y.seen = x.seen
  /\ \E b \in [start : Nat, end : Nat] :
       Block(x.emitted, b) /\ x.scan <= b.start /\ ~(b.end > x.upTo /\ b.end > x.skip)

NewShown(x, y) ==
  /\ obsidian /\ y.drop /\ y.seen /\ y.active < 0 /\ y.upTo >= x.upTo
  /\ \E u : /\ Added(x, y, u) /\ Len(u) > 0 /\ OnlyShows(u, "block")
            /\ \E o \in Places(x.emitted, OPEN) : Between(u, o, y.upTo)

NewPassed(x, y) ==
  /\ ~obsidian /\ y.drop /\ y.active = x.active /\ y.upTo >= x.upTo /\ y.sent = x.sent
  /\ y.seen = x.seen

LEMMA ShowBlocksIs ==
  ASSUME NEW x \in Choice, Bounds(x)
  PROVE  /\ ShowBlocks(x) \in Choice /\ ShowBlocks(x).emitted = x.emitted
         /\ ShowBlocks(x).upTo <= Len(x.emitted) /\ ShowBlocks(x).scan <= Len(x.emitted)
         /\ \/ NoneFound(x, ShowBlocks(x)) \/ NoneNew(x, ShowBlocks(x))
            \/ NewShown(x, ShowBlocks(x)) \/ NewPassed(x, ShowBlocks(x))
<1> DEFINE y == ShowBlocks(x)
           R == [start : Nat, end : Nat]
           found == Blocks(x.emitted, x.scan)
           n == Len(found)
           last == found[n].end
           fresh == {i \in DOMAIN found : found[i].end > x.upTo /\ found[i].end > x.skip}
           first == CHOOSE i \in fresh : \A j \in fresh : i <= j
           scanned == [x EXCEPT !.scan = last, !.toolEnd = last]
<1>0. /\ x.emitted \in Seq(Tokens) /\ Len(x.emitted) \in Nat /\ x.scan \in Nat /\ x.upTo \in Nat
      /\ x.skip \in Nat /\ x.sent \in Seq(Chunk)
      /\ x.upTo <= Len(x.emitted) /\ x.scan <= Len(x.emitted) /\ x.scan \in 0 .. Len(x.emitted)
  BY DEF Choice, Chunk, Bounds
<1>1. /\ BlockList(x.emitted, x.scan, found)
      /\ found = <<>> =>
           \A o \in Places(x.emitted, OPEN), c \in Places(x.emitted, CLOSE) : o >= x.scan => c < o
  BY <1>0, BlocksAre
<1>2. y = CASE found = <<>> -> x
            [] found # <<>> /\ fresh = {} -> scanned
            [] fresh # {} /\ obsidian -> ShowAll(scanned, SubSeq(found, first, n))
            [] OTHER -> [scanned EXCEPT !.upTo = found[first].end, !.drop = TRUE]
  BY DEF ShowBlocks
<1> HIDE DEF y, found
<1>3. found \in Seq(R) /\ n \in Nat /\ DOMAIN found = 1 .. n /\ (found # <<>> => 1 <= n)
  BY <1>1 DEF BlockList
<1> HIDE DEF n
<1>4. \A i \in DOMAIN found :
        /\ found[i] \in R /\ found[i].start \in Nat /\ found[i].end \in Nat
        /\ found[i].end <= Len(x.emitted)
        /\ Block(x.emitted, found[i]) /\ x.scan <= found[i].start
  <2> TAKE i \in DOMAIN found
  <2>1. found[i] \in R
    <3>1. i \in 1 .. Len(found)
      BY <1>3 DEF n
    <3> HIDE DEF R
    <3> QED BY <1>3, <3>1, ElementOfSeq
  <2>2. found[i].start \in Nat /\ found[i].end \in Nat
    BY <2>1
  <2>3. /\ found[i].end <= Len(x.emitted)
        /\ Block(x.emitted, found[i]) /\ x.scan <= found[i].start
    BY <1>1 DEF BlockList
  <2> QED BY <2>1, <2>2, <2>3
<1>5. found # <<>> => 1 \in DOMAIN found /\ n \in DOMAIN found
  BY <1>3
<1>6. found # <<>> => last \in Nat /\ last <= Len(x.emitted)
  BY <1>4, <1>5
<1>7. fresh # {} => found # <<>>
  BY <1>3
<1> HIDE DEF last
<1>8. found # <<>> =>
        /\ scanned \in Choice
        /\ scanned.emitted = x.emitted /\ scanned.upTo = x.upTo /\ scanned.scan = last
        /\ scanned.active = x.active /\ scanned.nested = x.nested /\ scanned.sent = x.sent
        /\ scanned.drop = x.drop /\ scanned.seen = x.seen /\ scanned.skip = x.skip
  BY <1>6 DEF Choice
<1>9. fresh # {} => /\ first \in fresh /\ first \in DOMAIN found
                    /\ found[first].end > x.upTo
  <2>1. fresh \in SUBSET Nat
    BY <1>3
  <2> HIDE DEF fresh
  <2>2. fresh # {} => first \in fresh
    BY <2>1, LeastChosen
  <2> HIDE DEF first
  <2> QED BY <2>2 DEF fresh
<1> HIDE DEF first, scanned
<1>10. CASE found = <<>>
  <2>1. y = x
    BY <1>2, <1>7, <1>10
  <2> QED BY <1>0, <1>1, <1>10, <2>1 DEF NoneFound, y
<1>11. CASE found # <<>> /\ fresh = {}
  <2>1. y = scanned
    BY <1>2, <1>11
  <2>2. found[1] \in R /\ Block(x.emitted, found[1]) /\ x.scan <= found[1].start
        /\ ~(found[1].end > x.upTo /\ found[1].end > x.skip)
    BY <1>4, <1>5, <1>11
  <2>3. NoneNew(x, y)
    BY <1>8, <1>11, <2>1, <2>2 DEF NoneNew
  <2> QED BY <1>0, <1>6, <1>8, <1>11, <2>1, <2>3 DEF y
<1>12. CASE fresh # {} /\ obsidian
  <2> DEFINE new == SubSeq(found, first, n)
  <2>1. y = ShowAll(scanned, new)
    BY <1>2, <1>7, <1>12
  <2>2. found # <<>> /\ first \in DOMAIN found
    BY <1>7, <1>9, <1>12
  <2>3. BlockList(x.emitted, x.scan, new) /\ Len(new) \in Nat \ {0}
        /\ new[1] = found[first] /\ new[Len(new)] = found[n]
    <3>1. BlockList(x.emitted, x.scan, found) /\ first \in DOMAIN found
      BY <1>1, <2>2
    <3>2. /\ BlockList(x.emitted, x.scan, SubSeq(found, first, Len(found)))
          /\ Len(SubSeq(found, first, Len(found))) \in Nat \ {0}
          /\ SubSeq(found, first, Len(found))[1] = found[first]
          /\ SubSeq(found, first, Len(found))[Len(SubSeq(found, first, Len(found)))] = found[Len(found)]
      <4>1. x.emitted \in Seq(Tokens) /\ x.scan \in Nat
        BY <1>0
      <4>2. BlockList(x.emitted, x.scan, SubSeq(found, first, Len(found)))
        BY <3>1, <4>1, BlockListRest
      <4>3. Len(SubSeq(found, first, Len(found))) \in Nat \ {0}
        BY <3>1, <4>1, BlockListRest
      <4>4. /\ Len(SubSeq(found, first, Len(found))) = 1 + Len(found) - first
            /\ \A k \in 1 .. 1 + Len(found) - first :
                 SubSeq(found, first, Len(found))[k] = found[first + k - 1]
        BY <3>1, <4>1, BlockListRest
      <4>5. Len(found) \in Nat /\ first \in 1 .. Len(found)
        BY <1>3, <2>2 DEF n
      <4>6. /\ 1 \in 1 .. 1 + Len(found) - first /\ first + 1 - 1 = first
            /\ 1 + Len(found) - first \in 1 .. 1 + Len(found) - first
            /\ first + (1 + Len(found) - first) - 1 = Len(found)
        BY <4>5
      <4> HIDE DEF first
      <4> QED BY <4>2, <4>3, <4>4, <4>6
    <3>3. new = SubSeq(found, first, Len(found)) /\ n = Len(found)
      BY DEF n
    <3> HIDE DEF new
    <3> QED BY <3>2, <3>3
  <2> HIDE DEF new
  <2>4. BlockList(scanned.emitted, 0, new)
    <3>1. new \in Seq(R)
      BY <2>3 DEF BlockList
    <3>2. ASSUME NEW i \in DOMAIN new PROVE new[i].start \in Nat
      <4>1. i \in 1 .. Len(new)
        BY <3>1
      <4> HIDE DEF R
      <4>2. new[i] \in R
        BY <3>1, <4>1, ElementOfSeq
      <4> QED BY <4>2 DEF R
    <3> QED BY <1>8, <2>2, <2>3, <3>1, <3>2 DEF BlockList
  <2>5. /\ y \in Choice /\ y.emitted = x.emitted /\ y.drop /\ y.seen /\ y.active < 0
        /\ y.upTo = last /\ y.scan = last
    BY <1>8, <2>1, <2>2, <2>3, <2>4, ShowAllIs DEF last
  <2>6. PICK u : /\ Added(scanned, y, u) /\ Len(u) = Len(new) /\ OnlyShows(u, "block")
                 /\ Between(u, found[first].start, last)
    BY <1>8, <2>1, <2>2, <2>3, <2>4, ShowAllIs DEF last
  <2>7. last >= x.upTo
    <3>1. first = n \/ first < n
      BY <1>3, <2>2
    <3>2. first < n => found[first].end <= found[n].start
      BY <1>1, <1>5, <2>2 DEF BlockList
    <3>3. found[n].start < found[n].end - 3
      BY <1>4, <1>5, <2>2 DEF Block
    <3> QED BY <1>0, <1>4, <1>5, <1>9, <1>12, <2>2, <3>1, <3>2, <3>3 DEF last
  <2>8. found[first].start \in Places(x.emitted, OPEN)
    BY <1>4, <2>2 DEF Block
  <2>9. Added(x, y, u)
    BY <1>8, <2>2, <2>6 DEF Added
  <2>10. Len(u) > 0
    BY <2>3, <2>6
  <2>11. NewShown(x, y)
    BY <1>12, <2>5, <2>6, <2>7, <2>8, <2>9, <2>10 DEF NewShown
  <2> QED BY <1>6, <2>2, <2>5, <2>11 DEF y
<1>13. CASE fresh # {} /\ ~obsidian
  <2> DEFINE end == found[first].end
  <2>1. y = [scanned EXCEPT !.upTo = end, !.drop = TRUE]
    BY <1>2, <1>7, <1>13
  <2>2. found # <<>> /\ first \in DOMAIN found
    BY <1>7, <1>9, <1>13
  <2>3. end \in Nat /\ end <= Len(x.emitted) /\ end >= x.upTo
    BY <1>0, <1>4, <1>9, <1>13, <2>2
  <2> HIDE DEF end
  <2>4. /\ y \in Choice /\ y.emitted = x.emitted /\ y.upTo = end /\ y.scan = last /\ y.drop
        /\ y.active = x.active /\ y.sent = x.sent /\ y.seen = x.seen
    BY <1>8, <2>1, <2>2, <2>3 DEF Choice
  <2> QED BY <1>6, <1>13, <2>2, <2>3, <2>4 DEF NewPassed, y
<1> QED BY <1>10, <1>11, <1>12, <1>13

LEMMA TagBeginsAre ==
  ASSUME NEW t \in Seq(Tokens)
  PROVE  /\ \A s \in TagBegins(t) : Len(s) \in Nat /\ Len(t) - Len(s) \in Nat /\ Len(s) >= 1
         /\ Len(t) > 0 /\ t[Len(t)] = "<" => \E s \in TagBegins(t) : Len(s) = 1
<1> DEFINE one == <<"<">>
           two == <<"<", "/">>
           n == Len(t)
<1>0. /\ Len(one) = 1 /\ DOMAIN one = {1} /\ one[1] = "<" /\ Len(two) = 2 /\ Len(OPEN) = 2
      /\ n \in Nat
  BY DEF OPEN
<1>1. TagBegins(t) = {s \in {one, OPEN, two} : n - Len(s) \in Places(t, s)}
  BY DEF TagBegins
<1> HIDE DEF one, two, n
<1>2. ASSUME NEW s \in TagBegins(t) PROVE Len(s) \in Nat /\ n - Len(s) \in Nat /\ Len(s) >= 1
  <2>1. s \in {one, OPEN, two} /\ n - Len(s) \in Places(t, s)
    BY <1>1
  <2>2. n - Len(s) \in Nat
    BY <2>1 DEF Places
  <2>3. Len(one) = 1 /\ Len(OPEN) = 2 /\ Len(two) = 2
    BY <1>0
  <2>4. Len(s) = 1 \/ Len(s) = 2
    BY <2>1, <2>3
  <2>5. Len(s) \in Nat /\ Len(s) >= 1
    <3> DEFINE k == Len(s)
    <3>1. k = 1 \/ k = 2
      BY <2>4
    <3> HIDE DEF k
    <3>2. k \in Nat /\ k >= 1
      BY <3>1
    <3> QED BY <3>2 DEF k
  <2> QED BY <2>2, <2>5
<1>3. ASSUME n > 0, t[n] = "<" PROVE \E s \in TagBegins(t) : Len(s) = 1
  <2>1. n - 1 \in 0 .. n - Len(one) /\ n - 1 + 1 = n
    BY <1>0, <1>3
  <2>2. n - Len(one) \in Places(t, one)
    BY <1>0, <1>3, <2>1 DEF Places, n
  <2> QED BY <1>0, <1>1, <2>2
<1> QED BY <1>2, <1>3 DEF n

\* How far forwarding goes, and why no farther.
Stopped(x, at) ==
  \/ x.toolEnd >= 0
  \/ at = Len(x.emitted)
  \/ x.active >= 0 /\ at = x.active
  \/ obsidian /\ \E s \in TagBegins(x.emitted) : at = Len(x.emitted) - Len(s)

LEMMA AllowedIs ==
  ASSUME NEW x \in Choice, Bounds(x)
  PROVE  /\ Allowed(x) \in Nat /\ Allowed(x) <= Len(x.emitted)
         /\ x.active >= 0 => Allowed(x) <= x.active
         /\ /\ obsidian /\ Len(x.emitted) > 0 /\ x.emitted[Len(x.emitted)] = "<"
            /\ x.upTo < Len(x.emitted)
            => Allowed(x) < Len(x.emitted)
         /\ Stopped(x, Allowed(x))
         /\ x.toolEnd >= 0 \/ Allowed(x) >= x.upTo
<1> DEFINE n == Len(x.emitted)
           stops == {e \in {x.toolEnd} : limit /\ e >= 0}
           opens == {e \in {x.active} : e >= x.upTo}
           tails == {n - Len(s) : s \in {s \in TagBegins(x.emitted) : obsidian /\ n - Len(s) >= x.upTo}}
           ends == {n} \cup stops \cup opens \cup tails
           e == CHOOSE e \in ends : \A f \in ends : e <= f
<1>0. /\ x.emitted \in Seq(Tokens) /\ n \in Nat /\ x.upTo \in Nat /\ x.upTo <= n
      /\ x.active \in Nat \cup {-1} /\ x.toolEnd \in Nat \cup {-1}
      /\ x.active >= 0 => x.upTo <= x.active
  BY DEF Choice, Bounds
<1>1. Allowed(x) = e
  BY DEF Allowed
<1>2. \A s \in TagBegins(x.emitted) : Len(s) \in Nat /\ n - Len(s) \in Nat /\ Len(s) >= 1
  BY <1>0, TagBeginsAre
<1> HIDE DEF n
<1>3. \A f \in tails : f \in Nat /\ f >= x.upTo /\ obsidian
                       /\ \E s \in TagBegins(x.emitted) : f = n - Len(s)
  BY <1>2
<1>4. \A f \in opens : f \in Nat /\ f = x.active /\ f >= x.upTo
  BY <1>0
<1>5. \A f \in stops : f \in Nat /\ x.toolEnd >= 0
  BY <1>0
<1>6. x.active >= 0 => x.active \in opens
  BY <1>0
<1>7. obsidian /\ n > 0 /\ x.emitted[n] = "<" /\ x.upTo < n => n - 1 \in tails
  <2>1. SUFFICES ASSUME obsidian, n > 0, x.emitted[n] = "<", x.upTo < n PROVE n - 1 \in tails
    OBVIOUS
  <2>2. PICK s \in TagBegins(x.emitted) : Len(s) = 1
    BY <1>0, <2>1, TagBeginsAre DEF n
  <2>3. n - 1 >= x.upTo
    BY <1>0, <2>1
  <2> QED BY <2>1, <2>2, <2>3
<1> HIDE DEF stops, opens, tails
<1>8. ends \in SUBSET Nat /\ n \in ends
  BY <1>0, <1>3, <1>4, <1>5
<1> HIDE DEF ends
<1>9. e \in ends /\ \A f \in ends : e <= f
  BY <1>8, LeastChosen
<1> HIDE DEF e
<1>10. e \in Nat /\ e <= n
  BY <1>8, <1>9
<1>11. x.active >= 0 => e <= x.active
  BY <1>6, <1>9 DEF ends
<1>12. obsidian /\ n > 0 /\ x.emitted[n] = "<" /\ x.upTo < n => e < n
  <2>1. SUFFICES ASSUME n - 1 \in ends PROVE e < n
    BY <1>7 DEF ends
  <2>2. e <= n - 1
    BY <1>9, <2>1
  <2> QED BY <1>0, <1>10, <2>2
<1>13. Stopped(x, e) /\ (x.toolEnd >= 0 \/ e >= x.upTo)
  <2>1. CASE e = n
    BY <1>0, <2>1 DEF Stopped, n
  <2>2. CASE e \in stops
    BY <1>5, <2>2 DEF Stopped
  <2>3. CASE e \in opens
    BY <1>0, <1>4, <2>3 DEF Stopped
  <2>4. CASE e \in tails
    BY <1>3, <2>4 DEF Stopped, n
  <2> QED BY <1>9, <2>1, <2>2, <2>3, <2>4 DEF ends
<1> QED BY <1>1, <1>10, <1>11, <1>12, <1>13 DEF n

\* Text is forwarded in one chunk, or nothing is.
LEMMA ForwardTextIs ==
  ASSUME NEW x \in Choice, Bounds(x)
  PROVE  /\ ForwardText(x) \in Choice
         /\ [ForwardText(x) EXCEPT !.upTo = x.upTo, !.sent = x.sent, !.any = x.any] = x
         /\ ForwardText(x).upTo >= x.upTo /\ ForwardText(x).upTo <= Len(x.emitted)
         /\ x.active >= 0 => ForwardText(x).upTo <= x.active
         /\ /\ obsidian /\ Len(x.emitted) > 0 /\ x.emitted[Len(x.emitted)] = "<"
            /\ x.upTo < Len(x.emitted)
            => ForwardText(x).upTo < Len(x.emitted)
         /\ Stopped(x, ForwardText(x).upTo)
         /\ \/ ForwardText(x).sent = x.sent /\ ForwardText(x).upTo = x.upTo
            \/ \E to \in Nat :
                 /\ ForwardText(x).sent = x.sent \o <<Part("text", x.upTo, to)>>
                 /\ x.upTo <= to /\ to <= ForwardText(x).upTo
                 /\ Places(x.emitted, CLOSE) = {} => to = ForwardText(x).upTo
<1> DEFINE y == ForwardText(x)
           until == Allowed(x)
           slice == Slice(x.emitted, x.upTo, until)
           close == LastIndexOf(slice, CLOSE)
           to == IF limit /\ close >= 0 THEN x.upTo + close + 3 ELSE until
<1>0. /\ x.emitted \in Seq(Tokens) /\ Len(x.emitted) \in Nat /\ x.upTo \in Nat
      /\ x.upTo <= Len(x.emitted) /\ x.sent \in Seq(Chunk)
      /\ x.active \in Nat \cup {-1} /\ x.toolEnd \in Nat \cup {-1}
      /\ x.active >= 0 => x.upTo <= x.active
  BY DEF Choice, Bounds, Chunk
<1>1. /\ until \in Nat /\ until <= Len(x.emitted)
      /\ x.active >= 0 => until <= x.active
      /\ /\ obsidian /\ Len(x.emitted) > 0 /\ x.emitted[Len(x.emitted)] = "<"
         /\ x.upTo < Len(x.emitted)
         => until < Len(x.emitted)
      /\ Stopped(x, until)
      /\ x.toolEnd >= 0 \/ until >= x.upTo
  BY AllowedIs
<1>2. y = IF until <= x.upTo THEN x ELSE [Send(x, "text", x.upTo, to) EXCEPT !.upTo = until]
  BY TagLengths DEF ForwardText
<1> HIDE DEF y, until
<1>3. CASE until <= x.upTo
  <2>1. y = x
    BY <1>2, <1>3
  <2>2. Stopped(x, x.upTo)
    BY <1>0, <1>1, <1>3 DEF Stopped
  <2>3. [x EXCEPT !.upTo = x.upTo, !.sent = x.sent, !.any = x.any] = x
    BY DEF Choice
  <2> QED BY <1>0, <2>1, <2>2, <2>3 DEF y
<1>4. CASE ~(until <= x.upTo)
  <2>0. until \in Nat /\ until <= Len(x.emitted) /\ x.upTo <= until
    BY <1>0, <1>1, <1>4
  <2>1. /\ slice \in Seq(Tokens) /\ Len(slice) = until - x.upTo
        /\ \A k \in 1 .. until - x.upTo : slice[k] = x.emitted[x.upTo + k]
    BY <1>0, <2>0, SliceIs
  <2>2. close >= 0 => /\ close \in Nat /\ close + 3 <= until - x.upTo
                      /\ x.upTo + close \in Places(x.emitted, CLOSE)
    <3>1. SUFFICES ASSUME close >= 0 PROVE /\ close \in Nat /\ close + 3 <= until - x.upTo
                                           /\ x.upTo + close \in Places(x.emitted, CLOSE)
      OBVIOUS
    <3> HIDE DEF slice
    <3>2. close \in Places(slice, CLOSE) /\ close \in Nat
      BY <2>1, <3>1, LastIndexFound
    <3> HIDE DEF close
    <3>3. /\ close + 3 <= until - x.upTo
          /\ slice[close + 1] = "<" /\ slice[close + 2] = "/" /\ slice[close + 3] = ">"
      BY <2>1, <3>2, CloseAt
    <3>4. /\ slice[close + 1] = x.emitted[x.upTo + (close + 1)]
          /\ slice[close + 2] = x.emitted[x.upTo + (close + 2)]
          /\ slice[close + 3] = x.emitted[x.upTo + (close + 3)]
      <4>1. /\ close + 1 \in 1 .. until - x.upTo /\ close + 2 \in 1 .. until - x.upTo
            /\ close + 3 \in 1 .. until - x.upTo
        BY <1>0, <2>0, <3>2, <3>3
      <4> QED BY <2>1, <4>1
    <3>5. /\ x.upTo + (close + 1) = x.upTo + close + 1
          /\ x.upTo + (close + 2) = x.upTo + close + 2
          /\ x.upTo + (close + 3) = x.upTo + close + 3
          /\ x.upTo + close \in Nat /\ x.upTo + close + 3 <= Len(x.emitted)
      <4>1. x.upTo \in Nat /\ Len(x.emitted) \in Nat
        BY <1>0
      <4>2. close \in Nat /\ close + 3 <= until - x.upTo
        BY <3>2, <3>3
      <4> DEFINE m == Len(x.emitted)
                 u == x.upTo
      <4>3. u \in Nat /\ m \in Nat /\ until \in Nat /\ until <= m /\ close + 3 <= until - u
        BY <2>0, <4>1, <4>2
      <4> HIDE DEF m, u
      <4>4. /\ u + (close + 1) = u + close + 1 /\ u + (close + 2) = u + close + 2
            /\ u + (close + 3) = u + close + 3 /\ u + close \in Nat /\ u + close + 3 <= m
        BY <4>2, <4>3
      <4> QED BY <4>4 DEF m, u
    <3> QED BY <1>0, <3>2, <3>3, <3>4, <3>5, CloseAt
  <2> HIDE DEF close
  <2>3. /\ to \in Nat /\ x.upTo <= to /\ to <= until
        /\ Places(x.emitted, CLOSE) = {} => to = until
    BY <1>0, <1>1, <1>4, <2>2
  <2> HIDE DEF to
  <2> DEFINE sent == Append(x.sent, Part("text", x.upTo, to))
  <2>4. sent \in Seq(Chunk) /\ sent = x.sent \o <<Part("text", x.upTo, to)>>
    <3>1. Part("text", x.upTo, to) \in Chunk
      BY <1>0, <2>3 DEF Part, Chunk, Kinds
    <3> QED BY <1>0, <3>1
  <2>5. y = [x EXCEPT !.sent = sent, !.any = TRUE, !.upTo = until]
    BY <1>2, <1>4 DEF Send, Part, Choice
  <2> HIDE DEF sent
  <2>6. y \in Choice
    BY <1>1, <2>4, <2>5 DEF Choice, Chunk
  <2>7. y.upTo = until /\ y.sent = sent
    BY <2>5 DEF Choice
  <2>8. [y EXCEPT !.upTo = x.upTo, !.sent = x.sent, !.any = x.any] = x
    BY <2>5 DEF Choice
  <2>9. y.upTo >= x.upTo
    BY <1>0, <1>1, <1>4, <2>7
  <2>10. \E z \in Nat :
           /\ y.sent = x.sent \o <<Part("text", x.upTo, z)>>
           /\ x.upTo <= z /\ z <= y.upTo
           /\ Places(x.emitted, CLOSE) = {} => z = y.upTo
    BY <2>3, <2>4, <2>7
  <2>11. /\ y.upTo <= Len(x.emitted)
         /\ x.active >= 0 => y.upTo <= x.active
         /\ /\ obsidian /\ Len(x.emitted) > 0 /\ x.emitted[Len(x.emitted)] = "<"
            /\ x.upTo < Len(x.emitted)
            => y.upTo < Len(x.emitted)
         /\ Stopped(x, y.upTo)
    BY <1>1, <2>7
  <2> QED BY <2>6, <2>8, <2>9, <2>10, <2>11 DEF y
<1> QED BY <1>3, <1>4

-----------------------------------------------------------------------------
(* appendContentSegment, in its four steps.                                 *)

Grown(x, new) == [x EXCEPT !.emitted = @ \o new]
Opened(x) == IF obsidian THEN TrackOpen(x) ELSE x
Flushed(x) == IF Nested(x) THEN FlushActive(NestedScan(x)) ELSE NestedScan(x)
Outcome(x) == IF limit /\ Len(ShowBlocks(x).sent) > Len(x.sent)
              THEN ShowBlocks(x) ELSE ForwardText(ShowBlocks(x))

LEMMA AppendContentIs ==
  ASSUME NEW x \in Choice, NEW text \in Seq(Tokens)
  PROVE  AppendContent(x, text) =
           IF x.drop \/ NewPart(x.emitted, text) = <<>> THEN x
           ELSE Outcome(Flushed(Opened(Grown(x, NewPart(x.emitted, text)))))
<1> DEFINE new == NewPart(x.emitted, text)
           f == Flushed(Opened(Grown(x, new)))
           w == ShowBlocks(f)
<1>1. AppendContent(x, text) =
        CASE x.drop \/ new = <<>> -> x
          [] ~x.drop /\ new # <<>> /\ limit /\ Len(w.sent) > Len(f.sent) -> w
          [] OTHER -> ForwardText(w)
  BY DEF AppendContent, Flushed, Opened, Grown
<1>2. Outcome(f) = IF limit /\ Len(w.sent) > Len(f.sent) THEN w ELSE ForwardText(w)
  BY DEF Outcome
<1> HIDE DEF new, f, w
<1>3. AppendContent(x, text) = IF x.drop \/ new = <<>> THEN x ELSE Outcome(f)
  BY <1>1, <1>2
<1> QED BY <1>3 DEF new, f

\* What the first steps leave alone.
SameSent(x, y) ==
  /\ y.upTo = x.upTo /\ y.scan = x.scan /\ y.toolEnd = x.toolEnd /\ y.skip = x.skip
  /\ y.seen = x.seen /\ y.drop = x.drop /\ y.sent = x.sent

LEMMA GrownIs ==
  ASSUME NEW x \in Choice, Bounds(x), NEW new \in Seq(Tokens), new # <<>>
  PROVE  /\ Grown(x, new) \in Choice /\ Bounds(Grown(x, new)) /\ SameSent(x, Grown(x, new))
         /\ Grown(x, new).emitted = x.emitted \o new
         /\ GoesOn(x.emitted, x.emitted \o new) /\ Len(x.emitted) < Len(x.emitted \o new)
         /\ Grown(x, new).active = x.active /\ Grown(x, new).search = x.search
<1> DEFINE y == Grown(x, new)
           t == x.emitted \o new
<1>1. x.emitted \in Seq(Tokens) /\ Len(x.emitted) \in Nat /\ x.upTo \in Nat /\ x.scan \in Nat
      /\ x.active \in Nat \cup {-1}
  BY DEF Choice
<1>2. t \in Seq(Tokens) /\ GoesOn(x.emitted, t) /\ Len(t) = Len(x.emitted) + Len(new)
  BY <1>1, ConcatGoesOn
<1>3. Len(new) \in Nat /\ Len(new) > 0
  BY EmptySeq
<1> HIDE DEF t
<1>4. y = [x EXCEPT !.emitted = t]
  BY DEF Grown, t, Choice
<1> HIDE DEF y
<1>5. y \in Choice
  BY <1>2, <1>4 DEF Choice
<1>6. y.emitted = t /\ SameSent(x, y) /\ y.active = x.active /\ y.search = x.search
      /\ y.nested = x.nested
  BY <1>4 DEF SameSent, Choice
<1>7. Len(x.emitted) < Len(t) /\ Len(t) \in Nat
  BY <1>1, <1>2, <1>3
<1>8. x.active >= 0 => x.active \in Places(t, OPEN)
  BY <1>1, <1>2, PlacesGrow DEF Bounds
<1>9. Bounds(y)
  BY <1>1, <1>6, <1>7, <1>8 DEF Bounds, SameSent
<1> QED BY <1>2, <1>5, <1>6, <1>7, <1>9 DEF y, t

\* trackToolBufferOpen finds the first opening tag that was not searched.
LEMMA OpenedIs ==
  ASSUME NEW x \in Choice, Bounds(x)
  PROVE  /\ Opened(x) \in Choice /\ Bounds(Opened(x)) /\ SameSent(x, Opened(x))
         /\ Opened(x).emitted = x.emitted
         /\ x.active >= 0 => Opened(x).active = x.active
         /\ x.active < 0 /\ Opened(x).active >= 0 =>
              \A o \in Places(x.emitted, OPEN) :
                o >= Most(x.search, x.upTo) => Opened(x).active <= o
         /\ obsidian /\ x.active < 0 /\ Opened(x).active < 0 =>
              \A o \in Places(x.emitted, OPEN) : o < Most(x.search, x.upTo)
         /\ Places(x.emitted, OPEN) = {} => Opened(x) = x
<1> DEFINE y == Opened(x)
<1>1. x.active \in Nat \cup {-1} /\ x.upTo \in Nat /\ x.search \in Nat
  BY DEF Choice
<1>2. CASE ~obsidian
  <2>1. y = x
    BY <1>2 DEF Opened
  <2> QED BY <1>1, <1>2, <2>1 DEF SameSent
<1>3. CASE obsidian
  <2>1. y = TrackOpen(x)
    BY <1>3 DEF Opened
  <2> HIDE DEF y
  <2>2. y \in Choice /\ SameText(x, y)
    BY <2>1, TrackOpenIs
  <2>3. y.active \in Nat \cup {-1}
    BY <2>2 DEF Choice
  <2>4. SameSent(x, y) /\ y.emitted = x.emitted
    BY <2>2 DEF SameText, SameSent
  <2>5. Bounds(y)
    <3>1. CASE x.active >= 0
      <4>1. y = x
        BY <2>1, <3>1, TrackOpenIs
      <4> QED BY <4>1
    <3>2. CASE x.active < 0 /\ y.active >= 0
      <4>1. /\ y.active \in Places(x.emitted, OPEN) /\ y.nested > y.active
            /\ Most(x.search, x.upTo) <= y.active
        BY <2>1, <3>2, TrackOpenIs
      <4>2. x.upTo <= y.active
        BY <1>1, <2>3, <4>1 DEF Most
      <4> QED BY <1>3, <2>4, <4>1, <4>2 DEF Bounds, SameSent
    <3>3. CASE y.active < 0
      <4>1. ~(y.active >= 0)
        BY <2>3, <3>3
      <4> QED BY <2>4, <4>1 DEF Bounds, SameSent
    <3> QED BY <1>1, <2>3, <3>1, <3>2, <3>3
  <2>6. x.active >= 0 => y.active = x.active
    BY <2>1, TrackOpenIs
  <2>7. x.active < 0 /\ y.active >= 0 =>
          \A o \in Places(x.emitted, OPEN) : o >= Most(x.search, x.upTo) => y.active <= o
    BY <2>1, TrackOpenIs
  <2>8. /\ x.active < 0 /\ y.active < 0 =>
             \A o \in Places(x.emitted, OPEN) : o < Most(x.search, x.upTo)
        /\ Places(x.emitted, OPEN) = {} => y = x
    BY <2>1, TrackOpenIs
  <2> QED BY <2>2, <2>4, <2>5, <2>6, <2>7, <2>8 DEF y
<1> QED BY <1>2, <1>3

\* No XML was shown.
NoXml(x) ==
  /\ ~Shows(x.sent, {"xml"})
  /\ Shows(x.sent, Parts) => x.seen

LEMMA FlushedIs ==
  ASSUME NEW x \in Choice, Bounds(x), NoXml(x)
  PROVE  /\ Flushed(x) \in Choice /\ Bounds(Flushed(x)) /\ NoXml(Flushed(x))
         /\ Flushed(x).emitted = x.emitted
         /\ ~Nested(x) => SameSent(x, Flushed(x)) /\ Flushed(x).active = x.active
                          /\ Flushed(x).search = x.search
<1> DEFINE z == NestedScan(x)
           y == Flushed(x)
<1>1. /\ x.emitted \in Seq(Tokens) /\ Len(x.emitted) \in Nat /\ x.active \in Nat \cup {-1}
      /\ x.sent \in Seq(Chunk)
  BY DEF Choice, Chunk
<1>2. /\ z \in Choice /\ SameText(x, z) /\ z.active = x.active /\ z.search = x.search
      /\ x.active >= 0 => z.nested > x.active
  BY NestedScanIs DEF Bounds
<1> HIDE DEF z
<1>3. Bounds(z) /\ NoXml(z) /\ z.emitted = x.emitted /\ SameSent(x, z)
  BY <1>2 DEF Bounds, NoXml, SameText, SameSent
<1>4. CASE ~Nested(x)
  <2>1. y = z
    BY <1>4 DEF Flushed, z
  <2> QED BY <1>2, <1>3, <2>1
<1>5. CASE Nested(x)
  <2>1. y = FlushActive(z)
    BY <1>5 DEF Flushed, z
  <2> HIDE DEF y
  <2>2. /\ y \in Choice /\ y.emitted = x.emitted /\ y.active < 0
        /\ z.active < 0 => y = z
        /\ \/ /\ y.sent = z.sent /\ y.upTo = z.upTo /\ y.scan = z.scan /\ y.seen = z.seen
           \/ /\ z.active >= 0 /\ y.seen
              /\ y.upTo = Len(x.emitted) /\ y.scan = Len(x.emitted)
              /\ y.sent = z.sent \o <<Part("aborted", z.active, Len(x.emitted))>>
    BY <1>2, <1>3, <2>1, FlushActiveIs
  <2>3. ~(y.active >= 0)
    <3>1. y \in Choice /\ y.active < 0
      BY <2>2
    <3>2. y.active \in Nat \cup {-1}
      BY <3>1 DEF Choice
    <3> QED BY <3>1, <3>2
  <2>4. CASE /\ y.sent = z.sent /\ y.upTo = z.upTo /\ y.scan = z.scan /\ y.seen = z.seen
    BY <1>3, <1>5, <2>2, <2>3, <2>4 DEF Bounds, NoXml, y
  <2>5. CASE /\ z.active >= 0 /\ y.seen
             /\ y.upTo = Len(x.emitted) /\ y.scan = Len(x.emitted)
             /\ y.sent = z.sent \o <<Part("aborted", z.active, Len(x.emitted))>>
    <3> DEFINE c == Part("aborted", z.active, Len(x.emitted))
    <3>1. c \in Chunk /\ c.kind = "aborted"
      BY <1>1, <1>2, <2>5 DEF Chunk, Kinds, Part
    <3> HIDE DEF c
    <3>2. y.sent = z.sent \o <<c>>
      BY <2>5 DEF c
    <3>3. z.sent \in Seq(Chunk)
      BY <1>2 DEF Choice, Chunk
    <3>4. ~Shows(<<c>>, {"xml"}) /\ <<c>> \in Seq(Chunk)
      BY <3>1, OneChunk
    <3>4a. ~Shows(z.sent, {"xml"})
      BY <1>3 DEF NoXml
    <3>5. ~Shows(y.sent, {"xml"})
      BY <3>2, <3>3, <3>4, <3>4a, ShowsJoined
    <3>6. Bounds(y)
      BY <1>1, <2>2, <2>3, <2>5 DEF Bounds
    <3> QED BY <1>5, <2>2, <2>5, <3>5, <3>6 DEF NoXml, y
  <2> QED BY <2>2, <2>4, <2>5
<1> QED BY <1>4, <1>5

LEMMA ForwardTextKeeps ==
  ASSUME NEW x \in Choice, Bounds(x)
  PROVE  /\ ForwardText(x) \in Choice /\ Bounds(ForwardText(x))
         /\ NoXml(x) => NoXml(ForwardText(x))
         /\ ForwardText(x).emitted = x.emitted /\ ForwardText(x).active = x.active
         /\ ForwardText(x).scan = x.scan /\ ForwardText(x).toolEnd = x.toolEnd
         /\ ForwardText(x).skip = x.skip /\ ForwardText(x).search = x.search
         /\ ForwardText(x).drop = x.drop
<1> DEFINE y == ForwardText(x)
<1>1. y \in Choice /\ [y EXCEPT !.upTo = x.upTo, !.sent = x.sent, !.any = x.any] = x
  BY ForwardTextIs
<1>2. y.upTo <= Len(x.emitted) /\ (x.active >= 0 => y.upTo <= x.active)
  BY ForwardTextIs
<1>3. \/ y.sent = x.sent
      \/ \E to \in Nat : /\ y.sent = x.sent \o <<Part("text", x.upTo, to)>>
                         /\ x.upTo <= to
  BY ForwardTextIs
<1> HIDE DEF y
<1>4. /\ y.emitted = x.emitted /\ y.active = x.active /\ y.nested = x.nested /\ y.scan = x.scan
      /\ y.toolEnd = x.toolEnd /\ y.skip = x.skip /\ y.search = x.search /\ y.drop = x.drop
      /\ y.seen = x.seen
  BY <1>1 DEF Choice
<1>5. Bounds(y)
  BY <1>2, <1>4 DEF Bounds
<1>6. ASSUME NoXml(x) PROVE NoXml(y)
  <2>1. CASE y.sent = x.sent
    BY <1>4, <1>6, <2>1 DEF NoXml
  <2>2. CASE \E to \in Nat : y.sent = x.sent \o <<Part("text", x.upTo, to)>>
    <3>1. PICK to \in Nat : y.sent = x.sent \o <<Part("text", x.upTo, to)>>
      BY <2>2
    <3> DEFINE c == Part("text", x.upTo, to)
    <3>2. c \in Chunk /\ c.kind = "text"
      BY DEF Choice, Chunk, Kinds, Part
    <3>3. x.sent \in Seq(Chunk)
      BY DEF Choice, Chunk
    <3> HIDE DEF c
    <3>4. <<c>> \in Seq(Chunk) /\ ~Shows(<<c>>, {"xml"}) /\ ~Shows(<<c>>, Parts)
      BY <3>2, OneChunk DEF Parts
    <3>5. y.sent = x.sent \o <<c>>
      BY <3>1 DEF c
    <3>6. ~Shows(x.sent, {"xml"}) /\ (Shows(x.sent, Parts) => x.seen)
      BY <1>6 DEF NoXml
    <3>7. ~Shows(y.sent, {"xml"})
      BY <3>3, <3>4, <3>5, <3>6, ShowsJoined
    <3>8. Shows(y.sent, Parts) => Shows(x.sent, Parts)
      BY <3>3, <3>4, <3>5, ShowsJoined
    <3> QED BY <1>4, <3>6, <3>7, <3>8 DEF NoXml
  <2> QED BY <1>3, <2>1, <2>2
<1> QED BY <1>1, <1>4, <1>5, <1>6 DEF y

LEMMA ShowBlocksKeeps ==
  ASSUME NEW x \in Choice, Bounds(x), NoXml(x)
  PROVE  ShowBlocks(x) \in Choice /\ Bounds(ShowBlocks(x)) /\ NoXml(ShowBlocks(x))
<1> DEFINE y == ShowBlocks(x)
<1>1. /\ y \in Choice /\ y.emitted = x.emitted
      /\ y.upTo <= Len(x.emitted) /\ y.scan <= Len(x.emitted)
      /\ NoneFound(x, y) \/ NoneNew(x, y) \/ NewShown(x, y) \/ NewPassed(x, y)
  BY ShowBlocksIs
<1>2. x.active \in Nat \cup {-1} /\ x.sent \in Seq(Chunk)
  BY DEF Choice, Chunk
<1> HIDE DEF y
<1>3. y.active \in Nat \cup {-1}
  BY <1>1 DEF Choice
<1>4. CASE NoneFound(x, y)
  BY <1>1, <1>4 DEF NoneFound, y
<1>5. CASE NoneNew(x, y)
  BY <1>1, <1>5 DEF NoneNew, Bounds, NoXml, y
<1>6. CASE NewShown(x, y)
  <2>1. ~(y.active >= 0) /\ y.seen
    BY <1>3, <1>6 DEF NewShown
  <2>2. PICK u : Added(x, y, u) /\ OnlyShows(u, "block")
    BY <1>6 DEF NewShown
  <2>3. u \in Seq(Chunk) /\ y.sent = x.sent \o u
    BY <2>2 DEF Added
  <2>4. ~Shows(u, {"xml"})
    BY <2>2, <2>3, OnlyShowsIs
  <2>5. ~Shows(x.sent, {"xml"})
    BY DEF NoXml
  <2>6. ~Shows(y.sent, {"xml"})
    BY <1>2, <2>3, <2>4, <2>5, ShowsJoined
  <2> QED BY <1>1, <2>1, <2>6 DEF Bounds, NoXml, y
<1>7. CASE NewPassed(x, y)
  <2>1. ~(y.active >= 0)
    BY <1>2, <1>7 DEF NewPassed, Bounds
  <2> QED BY <1>1, <1>7, <2>1 DEF NewPassed, Bounds, NoXml, y
<1> QED BY <1>1, <1>4, <1>5, <1>6, <1>7

LEMMA OutcomeKeeps ==
  ASSUME NEW x \in Choice, Bounds(x), NoXml(x)
  PROVE  /\ Outcome(x) \in Choice /\ Bounds(Outcome(x)) /\ NoXml(Outcome(x))
         /\ Outcome(x).emitted = x.emitted
<1> DEFINE w == ShowBlocks(x)
<1>1. w \in Choice /\ Bounds(w) /\ NoXml(w) /\ w.emitted = x.emitted
  BY ShowBlocksKeeps, ShowBlocksIs
<1>2. Outcome(x) = w \/ Outcome(x) = ForwardText(w)
  BY DEF Outcome
<1> HIDE DEF w
<1>3. ForwardText(w) \in Choice /\ Bounds(ForwardText(w)) /\ NoXml(ForwardText(w))
      /\ ForwardText(w).emitted = w.emitted
  BY <1>1, ForwardTextKeeps
<1> QED BY <1>1, <1>2, <1>3

LEMMA BetweenWider ==
  ASSUME NEW u \in Seq(Chunk), NEW a \in Nat, NEW b \in Nat, NEW c \in Nat, NEW d \in Nat,
         Between(u, b, c), a <= b, c <= d
  PROVE  Between(u, a, d)
<1>1. \A i \in DOMAIN u : u[i].from \in Nat /\ u[i].to \in Nat
  <2> TAKE i \in DOMAIN u
  <2>1. u[i] \in Chunk
    OBVIOUS
  <2> QED BY <2>1 DEF Chunk
<1> QED BY <1>1 DEF Between

-----------------------------------------------------------------------------
(* What Outcome does to a choice in which no block was complete before.     *)

Mid(x) ==
  /\ ~x.drop /\ x.scan = 0 /\ x.skip = 0 /\ x.toolEnd = -1 /\ x.upTo < Len(x.emitted)
  /\ \A b \in [start : Nat, end : Nat] : Block(x.emitted, b) => b.end > x.upTo
  /\ obsidian => /\ \A o \in Places(x.emitted, OPEN) :
                      x.upTo <= o /\ 0 <= x.active /\ x.active <= o
                 /\ x.active < 0 => x.search = 0

\* After a calm choice takes in more, and no block opened inside another one.
LEMMA MidIs ==
  ASSUME NEW x \in Choice, Bounds(x), NoXml(x), ~x.drop, Calm(x),
         NEW new \in Seq(Tokens), new # <<>>, Simple(Grown(x, new))
  PROVE  /\ Mid(Flushed(Opened(Grown(x, new))))
         /\ SameSent(x, Flushed(Opened(Grown(x, new))))
<1> DEFINE g == Grown(x, new)
           o == Opened(g)
           f == Flushed(o)
           t == x.emitted \o new
           old == Len(x.emitted)
<1>1. /\ x.emitted \in Seq(Tokens) /\ x.upTo \in Nat /\ old \in Nat /\ x.upTo <= old
      /\ x.active \in Nat \cup {-1} /\ x.search \in Nat
  BY DEF Choice, Bounds
<1>2. /\ g \in Choice /\ Bounds(g) /\ SameSent(x, g) /\ g.emitted = t
      /\ GoesOn(x.emitted, t) /\ old < Len(t) /\ t \in Seq(Tokens)
      /\ g.active = x.active /\ g.search = x.search
  <2>1. g \in Choice /\ g.emitted = t
    BY GrownIs
  <2>2. g.emitted \in Seq(Tokens)
    BY <2>1 DEF Choice
  <2> QED BY <2>1, <2>2, GrownIs
<1>2a. /\ t \in Seq(Tokens) /\ GoesOn(x.emitted, t) /\ old < Len(t) /\ Len(t) \in Nat
       /\ old = Len(x.emitted)
  BY <1>2
<1> HIDE DEF g, t, old
<1>2b. \A i \in Nat :
         /\ i \in Places(t, OPEN) => i \in Places(x.emitted, OPEN) \/ i + 2 > old
         /\ i \in Places(t, CLOSE) => i \in Places(x.emitted, CLOSE) \/ i + 3 > old
         /\ i \in Places(t, OPEN) /\ i + 1 = old => x.emitted[old] = "<"
  BY <1>1, <1>2a, PlacesGrow
<1>3. /\ o \in Choice /\ Bounds(o) /\ SameSent(g, o) /\ o.emitted = t
      /\ g.active >= 0 => o.active = g.active
      /\ g.active < 0 /\ o.active >= 0 =>
           \A p \in Places(t, OPEN) : p >= Most(g.search, g.upTo) => o.active <= p
      /\ obsidian /\ g.active < 0 /\ o.active < 0 =>
           \A p \in Places(t, OPEN) : p < Most(g.search, g.upTo)
      /\ Places(t, OPEN) = {} => o = g
  BY <1>2, OpenedIs
<1> HIDE DEF o
<1>4. NoXml(o) /\ SameSent(x, o)
  BY <1>2, <1>3 DEF NoXml, SameSent
<1>5. o.active \in Nat \cup {-1} /\ o.nested \in Nat
  BY <1>3 DEF Choice
<1>6. /\ x.scan = 0 /\ x.skip = 0 /\ x.toolEnd = -1
      /\ \A p \in Places(x.emitted, OPEN), c \in Places(x.emitted, CLOSE) : c < p
  BY DEF Calm
<1>7. ASSUME obsidian, NEW p \in Places(t, OPEN)
      PROVE  x.upTo <= p /\ 0 <= o.active /\ o.active <= p
  <2>1. p \in Nat
    BY <1>2, OpenAt
  <2>2. /\ \A q \in Places(x.emitted, OPEN) : q = x.active
        /\ x.active < 0 => x.search = 0
        /\ old > 0 /\ x.emitted[old] = "<" => x.upTo < old
    BY <1>7 DEF Calm, old
  <2>3. x.upTo <= p /\ (x.active >= 0 => x.active <= p)
    <3>1. CASE p \in Places(x.emitted, OPEN)
      <4>1. p = x.active /\ x.upTo <= x.active
        BY <2>1, <2>2, <3>1 DEF Bounds
      <4> QED BY <1>1, <2>1, <4>1
    <3>2. CASE p + 2 > old
      <4>1. x.active >= 0 => x.active + 2 <= old
        BY <1>1, OpenAt DEF Bounds, old
      <4>2. p + 1 = old => x.emitted[old] = "<" /\ old > 0
        BY <1>1, <1>2b, <2>1
      <4> QED BY <1>1, <2>1, <2>2, <3>2, <4>1, <4>2
    <3> QED BY <1>1, <1>2b, <2>1, <3>1, <3>2
  <2>4. CASE x.active >= 0
    BY <1>1, <1>2, <1>3, <2>3, <2>4
  <2>5. CASE x.active < 0
    <3>1. Most(g.search, g.upTo) = x.upTo
      BY <1>1, <1>2, <2>2, <2>5 DEF Most, SameSent
    <3>2. o.active >= 0
      <4>1. SUFFICES ASSUME o.active < 0 PROVE FALSE
        BY <1>5
      <4>2. Places(t, OPEN) # {}
        OBVIOUS
      <4>3. p < x.upTo
        BY <1>2, <1>3, <1>7, <2>5, <3>1, <4>1, <4>2
      <4> QED BY <1>1, <2>1, <2>3, <4>3
    <3>3. o.active <= p
      BY <1>2, <1>3, <2>1, <2>3, <2>5, <3>1, <3>2
    <3> QED BY <2>3, <3>2, <3>3
  <2> QED BY <1>1, <2>4, <2>5
<1>8. ~Nested(o)
  <2>1. SUFFICES ASSUME Nested(o) PROVE FALSE
    OBVIOUS
  <2> DEFINE close == IndexOf(t, CLOSE, o.active)
             second == IndexOf(t, OPEN, o.nested)
  <2>2. o.active >= 0 /\ second >= 0 /\ (close < 0 \/ second < close)
    BY <1>3, <2>1 DEF Nested
  <2>3. o.active \in Nat /\ o.active \in Places(t, OPEN) /\ o.nested > o.active /\ obsidian
    BY <1>3, <1>5, <2>2 DEF Bounds
  <2>4. second \in Places(t, OPEN) /\ second >= o.nested /\ second \in Nat
    BY <1>2a, <1>5, <2>2, IndexFound
  <2>5. \/ close = -1 /\ \A k \in Places(t, CLOSE) : k < o.active
        \/ close \in Nat /\ \A k \in Places(t, CLOSE) : k >= o.active => close <= k
    BY <1>2a, <2>3, IndexFound
  <2> HIDE DEF close, second
  <2>6. ASSUME NEW k \in Places(t, CLOSE) PROVE k < o.active \/ second < k
    <3>1. k \in Nat
      BY <1>2, CloseAt
    <3> QED BY <2>2, <2>3, <2>4, <2>5, <3>1
  <2>7. o.active < second
    BY <1>5, <2>3, <2>4
  <2>8. SecondOpening(t)
    BY <2>3, <2>4, <2>6, <2>7 DEF SecondOpening
  <2> QED BY <1>2, <2>3, <2>8 DEF Simple, g
<1>9. /\ f \in Choice /\ f.emitted = t /\ SameSent(o, f) /\ f.active = o.active
      /\ f.search = o.search
  BY <1>3, <1>4, <1>8, FlushedIs
<1> HIDE DEF f
<1>10. SameSent(x, f)
  BY <1>4, <1>9 DEF SameSent
<1>11. ASSUME NEW b \in [start : Nat, end : Nat], Block(t, b) PROVE b.end > x.upTo
  <2> DEFINE s == b.start
             e == b.end
             k == b.end - 3
  <2>1. s \in Nat /\ e \in Nat /\ s \in Places(t, OPEN) /\ k \in Places(t, CLOSE) /\ s < k
    BY <1>11 DEF Block
  <2>2. k \in Nat /\ s + 2 <= k /\ e = k + 3
    <3> HIDE DEF s, k
    <3>1. k \in Nat /\ s + 2 <= k
      BY <1>2a, <2>1, TagsApart
    <3>2. e = k + 3
      BY <2>1, <3>1 DEF k
    <3> QED BY <3>1, <3>2
  <2> HIDE DEF s, k, e
  <2>3. CASE k + 3 > old
    BY <1>1, <2>1, <2>2, <2>3 DEF e
  <2>4. CASE ~(k + 3 > old)
    <3>1. k \in Places(x.emitted, CLOSE)
      BY <1>2b, <2>1, <2>2, <2>4
    <3>2. s \in Places(x.emitted, OPEN)
      <4>1. ~(s + 2 > old)
        BY <1>1, <2>1, <2>2, <2>4
      <4> QED BY <1>2b, <2>1, <4>1
    <3>3. k < s
      BY <1>6, <3>1, <3>2
    <3> QED BY <2>1, <2>2, <3>3
  <2> QED BY <2>3, <2>4
<1>12. ASSUME obsidian, f.active < 0 PROVE f.search = 0
  <2>1. o.active < 0 /\ o.search = f.search
    BY <1>9, <1>12
  <2>2. Places(t, OPEN) = {}
    BY <1>5, <1>7, <1>12, <2>1
  <2>3. x.active < 0
    BY <1>1, <1>2, <1>3, <1>5, <2>1
  <2>4. o.search = g.search
    BY <1>3, <2>2
  <2> QED BY <1>2, <1>12, <2>1, <2>3, <2>4 DEF Calm
<1>13. Mid(f)
  BY <1>1, <1>2, <1>6, <1>7, <1>9, <1>10, <1>11, <1>12 DEF Mid, SameSent, t, old
<1> QED BY <1>10, <1>13 DEF f, o, g

LEMMA OutcomeInOrder ==
  ASSUME NEW x \in Choice, Bounds(x), NoXml(x), Mid(x), Simple(x), Between(x.sent, 0, x.upTo)
  PROVE  /\ Between(Outcome(x).sent, 0, Outcome(x).upTo)
         /\ obsidian /\ limit => Untorn(Outcome(x))
         /\ ~Outcome(x).drop => /\ Calm(Outcome(x)) /\ ShowBlocks(x) = x
                                /\ Outcome(x) = ForwardText(x)
<1> DEFINE w == ShowBlocks(x)
           y == Outcome(x)
           t == x.emitted
<1>1. /\ w \in Choice /\ Bounds(w) /\ NoXml(w) /\ w.emitted = t
      /\ NoneFound(x, w) \/ NoneNew(x, w) \/ NewShown(x, w) \/ NewPassed(x, w)
  BY ShowBlocksKeeps, ShowBlocksIs
<1>2. y = IF limit /\ Len(w.sent) > Len(x.sent) THEN w ELSE ForwardText(w)
  BY DEF Outcome
<1>3. y \in Choice /\ Bounds(y) /\ y.emitted = t
  BY OutcomeKeeps
<1> HIDE DEF w, y
<1>4. /\ t \in Seq(Tokens) /\ x.sent \in Seq(Chunk) /\ x.upTo \in Nat /\ x.active \in Nat \cup {-1}
      /\ w.sent \in Seq(Chunk) /\ w.upTo \in Nat /\ y.sent \in Seq(Chunk) /\ y.upTo \in Nat
      /\ y.active \in Nat \cup {-1} /\ w.active \in Nat \cup {-1} /\ Len(t) \in Nat
  BY <1>1, <1>3 DEF Choice, Chunk
<1> HIDE DEF t
<1>5. \A o \in Places(t, OPEN) : o \in Nat
  BY <1>4, OpenAt
<1>6. \A s \in Seq(Chunk) : \A i \in DOMAIN s : s[i].from \in Nat /\ s[i].to \in Nat
  <2> TAKE s \in Seq(Chunk)
  <2> TAKE i \in DOMAIN s
  <2>1. s[i] \in Chunk
    OBVIOUS
  <2> QED BY <2>1 DEF Chunk
\* What ForwardText adds to w is behind what w has.
<1>7. ASSUME Between(w.sent, 0, w.upTo), y = ForwardText(w)
      PROVE  Between(y.sent, 0, y.upTo)
  <2>1. y.upTo >= w.upTo
    BY <1>1, <1>7, ForwardTextIs
  <2>2. CASE y.sent = w.sent /\ y.upTo = w.upTo
    BY <1>7, <2>2
  <2>3. CASE \E to \in Nat : /\ y.sent = w.sent \o <<Part("text", w.upTo, to)>>
                             /\ w.upTo <= to /\ to <= y.upTo
    <3>1. PICK to \in Nat : /\ y.sent = w.sent \o <<Part("text", w.upTo, to)>>
                            /\ w.upTo <= to /\ to <= y.upTo
      BY <2>3
    <3> DEFINE c == Part("text", w.upTo, to)
    <3>2. c \in Chunk /\ c.from = w.upTo /\ c.to = to
      BY <1>4 DEF Chunk, Kinds, Part
    <3> HIDE DEF c
    <3>3. <<c>> \in Seq(Chunk) /\ Between(<<c>>, w.upTo, y.upTo)
      BY <1>4, <3>1, <3>2, OneChunk
    <3>4. y.sent = w.sent \o <<c>>
      BY <3>1 DEF c
    <3>5. w.sent \in Seq(Chunk) /\ w.upTo \in Nat /\ y.upTo \in Nat /\ 0 \in Nat /\ 0 <= w.upTo
      BY <1>4
    <3>6. Between(w.sent \o <<c>>, 0, y.upTo)
      BY <1>7, <2>1, <3>3, <3>5, BetweenJoined
    <3> QED BY <3>4, <3>6
  <2> QED BY <1>1, <1>7, <2>2, <2>3, ForwardTextIs
<1>8. CASE NoneFound(x, w)
  <2>1. w = x /\ \A o \in Places(t, OPEN), c \in Places(t, CLOSE) : c < o
    <3>1. \A o \in Places(t, OPEN) : o >= x.scan
      BY <1>5 DEF Mid
    <3> QED BY <1>8, <3>1 DEF NoneFound, t
  <2>2. y = ForwardText(x)
    <3>1. ~(Len(w.sent) > Len(x.sent))
      BY <1>4, <2>1
    <3> QED BY <1>2, <2>1, <3>1
  <2>3. Between(y.sent, 0, y.upTo)
    BY <1>7, <2>1, <2>2
  <2>4. /\ y.active = x.active /\ y.scan = x.scan /\ y.toolEnd = x.toolEnd /\ y.skip = x.skip
        /\ y.search = x.search /\ y.drop = x.drop
    BY <2>2, ForwardTextKeeps
  <2>5. ASSUME obsidian, NEW o \in Places(t, OPEN) PROVE o = y.active
    <3>1. 0 <= x.active /\ x.active <= o
      BY <2>5 DEF Mid, t
    <3>2. CASE x.active < o
      <4>1. x.active \in Places(t, OPEN)
        BY <1>4, <3>1 DEF Bounds, t
      <4>2. \A c \in Places(t, CLOSE) : c < x.active
        BY <2>1, <4>1
      <4>3. SecondOpening(t)
        BY <2>5, <3>2, <4>1, <4>2 DEF SecondOpening
      <4> QED BY <2>5, <4>3 DEF Simple, t
    <3> QED BY <1>4, <1>5, <2>4, <3>1, <3>2
  <2>6. Calm(y)
    <3>1. obsidian /\ Len(t) > 0 /\ t[Len(t)] = "<" => y.upTo < Len(t)
      BY <2>2, ForwardTextIs DEF Mid, t
    <3>2. y.scan = 0 /\ y.skip = 0 /\ y.toolEnd = -1
      BY <2>4 DEF Mid
    <3>3. obsidian /\ y.active < 0 => y.search = 0
      BY <2>4 DEF Mid
    <3> QED BY <1>3, <2>1, <2>5, <3>1, <3>2, <3>3 DEF Calm
  <2>7. ASSUME obsidian, limit PROVE Untorn(y)
    <3>1. SUFFICES ASSUME NEW o \in Places(t, OPEN), NEW i \in DOMAIN y.sent, y.sent[i].kind = "text"
                   PROVE  y.sent[i].to <= o
      BY <1>3 DEF Untorn
    <3>2. y.sent[i].to <= y.upTo
      BY <2>3, <3>1 DEF Between
    <3>3. y.upTo <= o
      BY <1>3, <1>4, <1>5, <2>5, <2>7, <3>1 DEF Bounds
    <3> QED BY <1>4, <1>5, <1>6, <3>2, <3>3
  <2> QED BY <2>1, <2>2, <2>3, <2>6, <2>7 DEF w, y
<1>9. ~NoneNew(x, w)
  <2>1. SUFFICES ASSUME NEW b \in [start : Nat, end : Nat], Block(x.emitted, b),
                        ~(b.end > x.upTo /\ b.end > x.skip)
                 PROVE  FALSE
    BY DEF NoneNew
  <2>2. b.end > x.upTo /\ x.skip = 0
    BY <2>1 DEF Mid
  <2> QED BY <1>4, <2>1, <2>2
<1>10. CASE NewShown(x, w)
  <2>1. obsidian /\ w.drop /\ w.upTo >= x.upTo
    BY <1>10 DEF NewShown
  <2>2. PICK u : /\ Added(x, w, u) /\ Len(u) > 0 /\ OnlyShows(u, "block")
                 /\ \E o \in Places(t, OPEN) : Between(u, o, w.upTo)
    BY <1>10 DEF NewShown, t
  <2>3. u \in Seq(Chunk) /\ w.sent = x.sent \o u
    BY <2>2 DEF Added
  <2>4. PICK o \in Places(t, OPEN) : Between(u, o, w.upTo)
    BY <2>2
  <2>5. o \in Nat /\ x.upTo <= o
    BY <1>5, <2>1 DEF Mid, t
  <2>6. Between(u, x.upTo, w.upTo)
    BY <1>4, <2>3, <2>4, <2>5, BetweenWider
  <2>7. Between(w.sent, 0, w.upTo)
    BY <1>4, <2>1, <2>3, <2>6, BetweenJoined
  <2>8. y.drop
    BY <1>1, <1>2, <2>1, ForwardTextKeeps
  <2>9. Len(w.sent) > Len(x.sent)
    BY <1>4, <2>2, <2>3
  <2>10. Between(y.sent, 0, y.upTo)
    BY <1>2, <1>7, <2>7
  <2>11. ASSUME limit PROVE Untorn(y)
    <3>1. y = w
      BY <1>2, <2>9, <2>11
    <3>2. SUFFICES ASSUME NEW p \in Places(t, OPEN), NEW i \in DOMAIN w.sent, w.sent[i].kind = "text"
                   PROVE  w.sent[i].to <= p
      BY <1>1, <3>1 DEF Untorn
    <3>3. i \in DOMAIN x.sent /\ w.sent[i] = x.sent[i]
      <4>1. CASE i \in DOMAIN x.sent
        BY <1>4, <2>3, <4>1, Joined
      <4>2. CASE i - Len(x.sent) \in DOMAIN u
        <5>1. Len(x.sent) + (i - Len(x.sent)) = i
          BY <1>4
        <5>2. w.sent[i] = u[i - Len(x.sent)]
          BY <1>4, <2>3, <4>2, <5>1, Joined
        <5> QED BY <2>2, <3>2, <4>2, <5>2 DEF OnlyShows
      <4> QED BY <1>4, <2>3, <4>1, <4>2, Joined
    <3>4. x.sent[i].to <= x.upTo
      BY <3>2, <3>3 DEF Between
    <3>5. x.upTo <= p
      BY <2>1 DEF Mid, t
    <3> QED BY <1>4, <1>5, <1>6, <3>3, <3>4, <3>5
  <2> QED BY <2>8, <2>10, <2>11 DEF y
<1>11. CASE NewPassed(x, w)
  <2>1. ~obsidian /\ w.drop /\ w.upTo >= x.upTo /\ w.sent = x.sent
    BY <1>11 DEF NewPassed
  <2>2. Between(w.sent, 0, w.upTo)
    BY <1>4, <2>1, BetweenWider
  <2>3. Between(y.sent, 0, y.upTo)
    BY <1>2, <1>7, <2>2
  <2>4. y.drop
    BY <1>1, <1>2, <2>1, ForwardTextKeeps
  <2> QED BY <2>1, <2>3, <2>4 DEF y
<1> QED BY <1>1, <1>8, <1>9, <1>10, <1>11

\* Every position before upTo is in a text chunk of u.
ShownBy(u, upTo) ==
  \A at \in 0 .. upTo - 1 : \E i \in DOMAIN u :
    u[i].kind = "text" /\ u[i].from <= at /\ at < u[i].to

LEMMA NoClosing ==
  ASSUME NEW t \in Seq(Tokens), OpensFirst(t),
         \A o \in Places(t, OPEN), c \in Places(t, CLOSE) : c < o
  PROVE  Places(t, CLOSE) = {}
<1> SUFFICES ASSUME NEW c \in Places(t, CLOSE) PROVE FALSE
  OBVIOUS
<1>1. PICK o \in Places(t, OPEN) : o < c
  BY DEF OpensFirst
<1> QED BY <1>1, OpenAt, CloseAt

LEMMA OutcomeReaches ==
  ASSUME NEW x \in Choice, Bounds(x), NoXml(x), Mid(x), Simple(x), Between(x.sent, 0, x.upTo),
         ShownBy(x.sent, x.upTo), ~Outcome(x).drop, OpensFirst(x.emitted)
  PROVE  Reached(Outcome(x))
<1> DEFINE y == Outcome(x)
<1>1. y = ForwardText(x) /\ Calm(y) /\ y.emitted = x.emitted /\ y \in Choice
  BY OutcomeInOrder, OutcomeKeeps
<1> HIDE DEF y
<1>2. x.emitted \in Seq(Tokens) /\ x.sent \in Seq(Chunk) /\ x.upTo \in Nat /\ y.upTo \in Nat
  BY <1>1 DEF Choice, Chunk
<1>3. Places(x.emitted, CLOSE) = {}
  BY <1>1, <1>2, NoClosing DEF Calm
<1>4. ShownBy(y.sent, y.upTo)
  <2>1. CASE y.sent = x.sent /\ y.upTo = x.upTo
    BY <2>1
  <2>2. CASE y.sent = x.sent \o <<Part("text", x.upTo, y.upTo)>>
    <3> DEFINE c == Part("text", x.upTo, y.upTo)
    <3>1. c \in Chunk /\ c.kind = "text" /\ c.from = x.upTo /\ c.to = y.upTo
      BY <1>2 DEF Chunk, Kinds, Part
    <3> HIDE DEF c
    <3>2. <<c>> \in Seq(Chunk) /\ DOMAIN <<c>> = {1} /\ <<c>>[1] = c
      BY <3>1
    <3>3. y.sent = x.sent \o <<c>>
      BY <2>2 DEF c
    <3>4. SUFFICES ASSUME NEW at \in 0 .. y.upTo - 1
                   PROVE  \E i \in DOMAIN y.sent :
                            y.sent[i].kind = "text" /\ y.sent[i].from <= at /\ at < y.sent[i].to
      BY DEF ShownBy
    <3>5. CASE at < x.upTo
      <4>1. at \in 0 .. x.upTo - 1
        BY <1>2, <3>4, <3>5
      <4>2. PICK i \in DOMAIN x.sent : x.sent[i].kind = "text" /\ x.sent[i].from <= at /\ at < x.sent[i].to
        BY <4>1 DEF ShownBy
      <4>3. i \in DOMAIN y.sent /\ y.sent[i] = x.sent[i]
        BY <1>2, <3>2, <3>3, Joined
      <4> QED BY <4>2, <4>3
    <3>6. CASE ~(at < x.upTo)
      <4>1. Len(x.sent) + 1 \in DOMAIN y.sent /\ y.sent[Len(x.sent) + 1] = c
        BY <1>2, <3>2, <3>3, Joined
      <4>2. x.upTo <= at /\ at < y.upTo
        BY <1>2, <3>4, <3>6
      <4> QED BY <3>1, <4>1, <4>2
    <3> QED BY <3>5, <3>6
  <2>3. \/ y.sent = x.sent /\ y.upTo = x.upTo
        \/ \E to \in Nat :
                 /\ y.sent = x.sent \o <<Part("text", x.upTo, to)>>
                 /\ Places(x.emitted, CLOSE) = {} => to = y.upTo
    BY <1>1, ForwardTextIs
  <2> QED BY <1>3, <2>1, <2>2, <2>3
<1>5. Stopped(x, y.upTo)
  BY <1>1, ForwardTextIs
<1>6. y.active = x.active /\ ~(x.toolEnd >= 0)
  BY <1>1, ForwardTextKeeps DEF Mid
<1>7. \/ y.upTo = Len(y.emitted) \/ y.active >= 0
      \/ obsidian /\ \E s \in TagBegins(y.emitted) : y.upTo = Len(y.emitted) - Len(s)
  BY <1>1, <1>5, <1>6 DEF Stopped
<1>8. Reached(y)
  BY <1>4, <1>7 DEF Reached, ShownBy
<1> QED BY <1>8 DEF y

-----------------------------------------------------------------------------
(* What every operation keeps.                                              *)

\* The invariant of a choice whose stream has not ended.
Going(x) ==
  /\ ChoiceInv(x)
  /\ ~x.drop /\ Simple(x) => Calm(x)

LEMMA AppendContentKeeps ==
  ASSUME NEW x, Going(x), NEW text \in Seq(Tokens)
  PROVE  Going(AppendContent(x, text))
<1> DEFINE new == NewPart(x.emitted, text)
           g == Grown(x, new)
           f == Flushed(Opened(g))
           y == Outcome(f)
<1>0. x \in Choice /\ Bounds(x) /\ OneForm(x)
  BY DEF Going, ChoiceInv
<1>1. new \in Seq(Tokens)
  BY <1>0, NewPartIs DEF Choice
<1>2. AppendContent(x, text) = IF x.drop \/ new = <<>> THEN x ELSE y
  BY <1>0, AppendContentIs
<1> HIDE DEF new
<1>3. CASE x.drop \/ new = <<>>
  BY <1>2, <1>3
<1>4. CASE ~x.drop /\ new # <<>>
  <2>1. NoXml(x)
    BY <1>0, <1>4 DEF OneForm, NoXml
  <2>2. /\ g \in Choice /\ Bounds(g) /\ SameSent(x, g) /\ g.emitted = x.emitted \o new
        /\ GoesOn(x.emitted, x.emitted \o new)
    BY <1>0, <1>1, <1>4, GrownIs
  <2>3. /\ Opened(g) \in Choice /\ Bounds(Opened(g)) /\ SameSent(g, Opened(g))
        /\ Opened(g).emitted = g.emitted
    BY <2>2, OpenedIs
  <2>4. NoXml(Opened(g))
    BY <2>1, <2>2, <2>3 DEF NoXml, SameSent
  <2>5. f \in Choice /\ Bounds(f) /\ NoXml(f) /\ f.emitted = g.emitted
    BY <2>3, <2>4, FlushedIs
  <2> DEFINE t == x.emitted \o new
  <2>6. y \in Choice /\ Bounds(y) /\ NoXml(y) /\ y.emitted = t
    BY <2>2, <2>5, OutcomeKeeps
  <2>7. OneForm(y)
    BY <2>6 DEF OneForm, NoXml
  <2>8. x.emitted \in Seq(Tokens) /\ g.emitted \in Seq(Tokens)
    BY <1>0, <2>2 DEF Choice
  <2>9. t \in Seq(Tokens) /\ GoesOn(x.emitted, t)
    BY <2>2, <2>8
  <2>10. y.sent \in Seq(Chunk)
    BY <2>6 DEF Choice, Chunk
  <2> HIDE DEF f, y, t
  <2>11. ASSUME Simple(y)
         PROVE  /\ Between(y.sent, 0, y.upTo)
                /\ obsidian /\ limit => Untorn(y)
                /\ ~y.drop => Calm(y)
                /\ ~y.drop /\ OpensFirst(y.emitted) /\ ~SecondOpening(y.emitted) => Reached(y)
    <3>1. Simple(g) /\ Simple(f) /\ Simple(x)
      <4>1. g.emitted = t
        BY <2>2 DEF t
      <4> QED BY <2>5, <2>6, <2>8, <2>9, <2>11, <4>1, SecondOpeningGrows DEF Simple
    <3>2. Calm(x) /\ Between(x.sent, 0, x.upTo)
      BY <1>4, <3>1 DEF Going, ChoiceInv
    <3>3. Mid(f) /\ SameSent(x, f)
      BY <1>0, <1>1, <1>4, <2>1, <3>1, <3>2, MidIs DEF f
    <3>4. Between(f.sent, 0, f.upTo)
      BY <3>2, <3>3 DEF SameSent
    <3>5. /\ Between(y.sent, 0, y.upTo)
          /\ obsidian /\ limit => Untorn(y)
          /\ ~y.drop => Calm(y)
      BY <2>5, <3>1, <3>3, <3>4, OutcomeInOrder DEF y
    <3>6. ASSUME ~y.drop, OpensFirst(y.emitted), ~SecondOpening(y.emitted) PROVE Reached(y)
      <4>1. OpensFirst(x.emitted)
        BY <2>6, <2>8, <2>9, <3>6, OpensFirstShrinks
      <4>2. ~SecondOpening(x.emitted)
        BY <2>6, <2>8, <2>9, <3>6, SecondOpeningGrows
      <4>3. Reached(x)
        BY <1>4, <4>1, <4>2 DEF Going, ChoiceInv
      <4>4. ShownBy(f.sent, f.upTo)
        BY <3>3, <4>3 DEF Reached, ShownBy, SameSent
      <4>5. OpensFirst(f.emitted)
        BY <2>2, <2>5, <2>6, <3>6 DEF t
      <4> QED BY <2>5, <3>1, <3>3, <3>4, <3>6, <4>4, <4>5, OutcomeReaches DEF y
    <3> QED BY <3>5, <3>6
  <2>12. ~SecondOpening(y.emitted) => Simple(y)
    BY DEF Simple
  <2>13. Going(y)
    BY <2>6, <2>7, <2>11, <2>12 DEF Going, ChoiceInv
  <2> QED BY <1>2, <1>4, <2>13
<1> QED BY <1>3, <1>4

\* An operation that changes the calls and what was counted alone.
LEMMA OnlyCallsChange ==
  ASSUME NEW x, Going(x), NEW y \in Choice, SameBuffer(x, y), y.sent = x.sent, x.drop => y.drop
  PROVE  Going(y)
<1>1. /\ y.emitted = x.emitted /\ y.upTo = x.upTo /\ y.scan = x.scan /\ y.toolEnd = x.toolEnd
      /\ y.active = x.active /\ y.nested = x.nested /\ y.search = x.search /\ y.skip = x.skip
      /\ y.seen = x.seen /\ y.sent = x.sent
  BY DEF SameBuffer
<1>2. Bounds(y)
  BY <1>1 DEF Going, ChoiceInv, Bounds
<1>3. OneForm(y)
  BY <1>1 DEF Going, ChoiceInv, OneForm
<1>4. Simple(y) => Simple(x) /\ Between(y.sent, 0, y.upTo)
  BY <1>1 DEF Going, ChoiceInv, Simple
<1>5. obsidian /\ limit /\ Simple(y) => Untorn(y)
  BY <1>1, <1>4 DEF Going, ChoiceInv, Untorn
<1>6. ~y.drop /\ OpensFirst(y.emitted) /\ ~SecondOpening(y.emitted) => Reached(y)
  BY <1>1 DEF Going, ChoiceInv, Reached
<1>7. ~y.drop /\ Simple(y) => Calm(y)
  BY <1>1, <1>4 DEF Going, Calm
<1> QED BY <1>2, <1>3, <1>4, <1>5, <1>6, <1>7 DEF Going, ChoiceInv

LEMMA CallsChangedKeeps ==
  ASSUME NEW x, Going(x), NEW t
  PROVE  Going(CallsChanged(x, t))
<1> DEFINE y == CallsChanged(x, t)
<1>0. x \in Choice /\ Bounds(x) /\ OneForm(x)
  BY DEF Going, ChoiceInv
<1>1. /\ y \in Choice /\ SameBuffer(x, y)
      /\ \/ y.sent = x.sent /\ (x.drop => y.drop)
         \/ /\ x.active < 0 /\ ~x.seen /\ y.drop
            /\ \E u : Added(x, y, u) /\ OnlyShows(u, "xml")
  BY <1>0, CallsChangedIs
<1> HIDE DEF y
<1>2. CASE y.sent = x.sent /\ (x.drop => y.drop)
  BY <1>1, <1>2, OnlyCallsChange DEF y
<1>3. CASE /\ x.active < 0 /\ ~x.seen /\ y.drop
           /\ \E u : Added(x, y, u) /\ OnlyShows(u, "xml")
  <2>1. PICK u : Added(x, y, u) /\ OnlyShows(u, "xml")
    BY <1>3
  <2>2. u \in Seq(Chunk) /\ y.sent = x.sent \o u /\ x.sent \in Seq(Chunk)
    BY <1>0, <2>1 DEF Added, Choice, Chunk
  <2>3. /\ y.emitted = x.emitted /\ y.upTo = x.upTo /\ y.scan = x.scan
        /\ y.active = x.active /\ y.nested = x.nested /\ y.seen = x.seen
    BY <1>1 DEF SameBuffer
  <2>4. Bounds(y)
    BY <1>0, <2>3 DEF Bounds
  <2>5. ~Shows(y.sent, Parts)
    <3>1. ~Shows(u, Parts)
      BY <2>1, <2>2, OnlyShowsIs DEF Parts
    <3>2. ~Shows(x.sent, Parts)
      BY <1>0, <1>3 DEF OneForm
    <3> QED BY <2>2, <3>1, <3>2, ShowsJoined
  <2>6. OneForm(y)
    BY <1>3, <2>3, <2>5 DEF OneForm
  <2>7. x.upTo \in Nat
    BY <1>0 DEF Choice
  <2>8. ASSUME Simple(y) PROVE Between(y.sent, 0, y.upTo)
    <3>1. Between(x.sent, 0, x.upTo)
      BY <2>3, <2>8 DEF Going, ChoiceInv, Simple
    <3>2. Between(u, x.upTo, x.upTo)
      BY <2>1 DEF OnlyShows, Between
    <3>3. 0 <= x.upTo /\ x.upTo <= x.upTo
      BY <2>7
    <3> QED BY <2>2, <2>3, <2>7, <3>1, <3>2, <3>3, BetweenJoined
  <2>9. ASSUME obsidian, limit, Simple(y) PROVE Untorn(y)
    <3>1. Untorn(x)
      BY <2>3, <2>9 DEF Going, ChoiceInv, Simple
    <3>2. SUFFICES ASSUME NEW at \in Places(x.emitted, OPEN), NEW i \in DOMAIN y.sent,
                          y.sent[i].kind = "text"
                   PROVE  y.sent[i].to <= at
      BY <2>3 DEF Untorn
    <3>3. CASE i \in DOMAIN x.sent
      BY <2>2, <3>1, <3>2, <3>3, Joined DEF Untorn
    <3>4. CASE i - Len(x.sent) \in DOMAIN u
      <4>1. Len(x.sent) + (i - Len(x.sent)) = i
        BY <2>2
      <4>2. y.sent[i] = u[i - Len(x.sent)]
        BY <2>2, <3>4, <4>1, Joined
      <4> QED BY <2>1, <3>2, <3>4, <4>2 DEF OnlyShows
    <3> QED BY <2>2, <3>3, <3>4, Joined
  <2>10. Going(y)
    BY <1>1, <1>3, <2>4, <2>6, <2>8, <2>9 DEF Going, ChoiceInv
  <2> QED BY <2>10 DEF y
<1> QED BY <1>1, <1>2, <1>3 DEF y

LEMMA TextualCallsKeeps ==
  ASSUME NEW x, Going(x), NEW t \in Seq(Tokens)
  PROVE  Going(TextualCalls(x, t)) /\ TextualCalls(x, t).emitted = x.emitted
         /\ TextualCalls(x, t).drop = x.drop
<1>0. x \in Choice
  BY DEF Going, ChoiceInv
<1>1. PICK calls \in Seq({"part", "whole"}) : TextualCalls(x, t) = [x EXCEPT !.calls = calls]
  BY <1>0, TextualCallsIs
<1> DEFINE y == TextualCalls(x, t)
<1>2. y = [x EXCEPT !.calls = calls]
  BY <1>1
<1> HIDE DEF y
<1>3. y \in Choice /\ SameBuffer(x, y) /\ y.sent = x.sent /\ y.drop = x.drop /\ y.emitted = x.emitted
  BY <1>0, <1>2 DEF Choice, SameBuffer
<1>4. Going(y)
  BY <1>3, OnlyCallsChange
<1> QED BY <1>3, <1>4 DEF y

\* flushActiveToolBuffer at the end of the stream.
LEMMA EndKeeps ==
  ASSUME NEW x, Going(x)
  PROVE  ChoiceInv(FlushActive(x)) /\ FlushActive(x).active < 0
<1> DEFINE y == FlushActive(x)
           size == Len(x.emitted)
           c == Part("aborted", x.active, size)
<1>0. x \in Choice /\ Bounds(x) /\ OneForm(x)
  BY DEF Going, ChoiceInv
<1>1. /\ x.emitted \in Seq(Tokens) /\ x.active \in Nat \cup {-1} /\ size \in Nat
      /\ x.sent \in Seq(Chunk) /\ x.upTo \in Nat /\ x.upTo <= size
  BY <1>0 DEF Choice, Chunk, Bounds
<1>2. /\ y \in Choice /\ y.emitted = x.emitted /\ y.active < 0
      /\ x.active < 0 => y = x
      /\ \/ /\ y.sent = x.sent /\ y.upTo = x.upTo /\ y.scan = x.scan /\ y.drop = x.drop
            /\ y.seen = x.seen
            /\ x.active >= 0 => Places(x.emitted, CLOSE) # {}
         \/ /\ x.active >= 0 /\ y.drop /\ y.seen /\ y.upTo = size /\ y.scan = size
            /\ y.sent = x.sent \o <<c>>
  BY <1>0, FlushActiveIs
<1> HIDE DEF y
<1>3. CASE x.active < 0
  <2>1. y = x
    BY <1>2, <1>3
  <2> QED BY <1>3, <2>1 DEF Going, y
<1>4. ASSUME x.active >= 0, y.active < 0, y \in Choice
      PROVE  /\ obsidian /\ x.upTo <= x.active /\ x.active + 2 <= size
             /\ ~Shows(x.sent, {"xml"}) /\ ~(y.active >= 0)
  <2>1. ~(x.active < 0)
    BY <1>1, <1>4
  <2>2. y.active \in Nat \cup {-1}
    BY <1>4 DEF Choice
  <2> QED BY <1>0, <1>1, <1>4, <2>1, <2>2, OpenAt DEF Bounds, OneForm
<1>5. CASE /\ x.active >= 0
           /\ y.sent = x.sent /\ y.upTo = x.upTo /\ y.scan = x.scan /\ y.drop = x.drop
           /\ y.seen = x.seen
           /\ Places(x.emitted, CLOSE) # {}
  <2>1. Bounds(y) /\ OneForm(y)
    BY <1>0, <1>2, <1>4, <1>5 DEF Bounds, OneForm
  <2>2. Simple(y) => Simple(x) /\ Between(y.sent, 0, y.upTo)
    BY <1>2, <1>5 DEF Going, ChoiceInv, Simple
  <2>3. obsidian /\ limit /\ Simple(y) => Untorn(y)
    BY <1>2, <1>5, <2>2 DEF Going, ChoiceInv, Untorn
  <2>4. ~y.drop /\ OpensFirst(y.emitted) /\ ~SecondOpening(y.emitted) => Reached(y)
    <3>1. SUFFICES ASSUME ~x.drop, OpensFirst(x.emitted), ~SecondOpening(x.emitted) PROVE FALSE
      BY <1>2, <1>5
    <3>2. Calm(x)
      BY <3>1 DEF Going, Simple
    <3> QED BY <1>1, <1>5, <3>1, <3>2, NoClosing DEF Calm
  <2> QED BY <1>2, <2>1, <2>2, <2>3, <2>4 DEF ChoiceInv, y
<1>6. CASE /\ x.active >= 0 /\ y.drop /\ y.seen /\ y.upTo = size /\ y.scan = size
           /\ y.sent = x.sent \o <<c>>
  <2>1. c \in Chunk /\ c.kind = "aborted" /\ c.from = x.active /\ c.to = size
    BY <1>1, <1>6 DEF Chunk, Kinds, Part
  <2> HIDE DEF c
  <2>2. <<c>> \in Seq(Chunk) /\ ~Shows(<<c>>, {"xml"})
    BY <2>1, OneChunk
  <2>3. Bounds(y)
    BY <1>1, <1>2, <1>4, <1>6 DEF Bounds
  <2>4. ~Shows(y.sent, {"xml"})
    BY <1>1, <1>2, <1>4, <1>6, <2>2, ShowsJoined
  <2>5. OneForm(y)
    BY <1>6, <2>4 DEF OneForm
  <2>6. ASSUME Simple(y) PROVE Between(y.sent, 0, y.upTo)
    <3>1. Between(x.sent, 0, x.upTo)
      BY <1>2, <2>6 DEF Going, ChoiceInv, Simple
    <3>2. Between(<<c>>, x.upTo, size)
      BY <1>1, <1>2, <1>4, <1>6, <2>1, OneChunk
    <3>3. 0 \in Nat /\ 0 <= x.upTo
      BY <1>1
    <3>4. Between(x.sent \o <<c>>, 0, size)
      BY <1>1, <2>2, <3>1, <3>2, <3>3, BetweenJoined
    <3> QED BY <1>6, <3>4
  <2>7. ASSUME obsidian, limit, Simple(y) PROVE Untorn(y)
    <3>1. Untorn(x)
      BY <1>2, <2>7 DEF Going, ChoiceInv, Simple
    <3>2. SUFFICES ASSUME NEW at \in Places(x.emitted, OPEN), NEW i \in DOMAIN y.sent,
                          y.sent[i].kind = "text"
                   PROVE  y.sent[i].to <= at
      BY <1>2 DEF Untorn
    <3>3. CASE i \in DOMAIN x.sent
      BY <1>1, <1>6, <2>2, <3>1, <3>2, <3>3, Joined DEF Untorn
    <3>4. CASE i - Len(x.sent) \in DOMAIN <<c>>
      <4>1. i - Len(x.sent) = 1 /\ Len(x.sent) + 1 = i
        <5>1. DOMAIN <<c>> = {1}
          OBVIOUS
        <5>2. i \in Nat /\ Len(x.sent) \in Nat
          BY <1>1, <1>6, <2>2, <3>2, Joined
        <5> QED BY <3>4, <5>1, <5>2
      <4>2. y.sent[i] = c
        BY <1>1, <1>6, <2>2, <3>4, <4>1, Joined
      <4> QED BY <2>1, <3>2, <4>2
    <3> QED BY <1>1, <1>6, <2>2, <3>3, <3>4, Joined
  <2> QED BY <1>2, <1>6, <2>3, <2>5, <2>6, <2>7 DEF ChoiceInv, y
<1> QED BY <1>1, <1>2, <1>3, <1>5, <1>6

-----------------------------------------------------------------------------
(* The operations of the specification.                                     *)

LEMMA RestIs ==
  ASSUME NEW x \in Choice, said \in Seq(Tokens)
  PROVE  Rest(x) \in Seq(Tokens)
<1>1. CASE IsPrefix(x.emitted, said)
  <2>1. x.emitted \in Seq(Tokens) /\ Len(x.emitted) \in Nat /\ Len(said) \in Nat
    BY DEF Choice
  <2>2. Len(x.emitted) <= Len(said)
    BY <1>1 DEF IsPrefix
  <2>3. Rest(x) = Slice(said, Len(x.emitted), Len(said))
    BY <1>1 DEF Rest, Slice
  <2>4. Slice(said, Len(x.emitted), Len(said)) \in Seq(Tokens)
    <3> DEFINE a == Len(x.emitted)
               b == Len(said)
    <3>1. a \in Nat /\ b \in Nat /\ a <= b /\ b <= Len(said)
      BY <2>1, <2>2
    <3> HIDE DEF a, b
    <3>2. Slice(said, a, b) \in Seq(Tokens)
      BY <3>1, SliceIs
    <3> QED BY <3>2 DEF a, b
  <2> QED BY <2>3, <2>4
<1>2. CASE ~IsPrefix(x.emitted, said) /\ ~x.any
  BY <1>2 DEF Rest
<1>3. CASE ~IsPrefix(x.emitted, said) /\ x.any
  BY <1>3 DEF Rest
<1> QED BY <1>1, <1>2, <1>3

LEMMA AppendRestKeeps ==
  ASSUME NEW x, Going(x), said \in Seq(Tokens)
  PROVE  Going(AppendRest(x))
<1>1. Rest(x) \in Seq(Tokens)
  BY RestIs DEF Going, ChoiceInv
<1> QED BY <1>1, AppendContentKeeps DEF AppendRest

LEMMA PieceIs ==
  ASSUME TypeOK, NEW k \in 0 .. Least(MaxDelta, Len(said) - position)
  PROVE  Piece(k) \in Seq(Tokens) /\ position + k \in 0 .. Len(said)
<1>1. /\ said \in Seq(Tokens) /\ Len(said) \in Nat /\ position \in Nat /\ position <= Len(said)
      /\ MaxDelta \in Nat
  BY DEF TypeOK
<1>2. k \in Nat /\ position + k <= Len(said) /\ position + k \in Nat /\ position <= position + k
  BY <1>1 DEF Least
<1> QED BY <1>1, <1>2, SliceIs DEF Piece

\* The mode does not change, so what holds of the next choice holds next.
LEMMA SameMode ==
  ASSUME obsidian' = obsidian, limit' = limit, ChoiceInv(choice')
  PROVE  ChoiceInv(choice)' /\ (Calm(choice') => Calm(choice)') /\ (Simple(choice)' => Simple(choice'))
BY DEF ChoiceInv, Bounds, OneForm, Simple, Calm, Untorn, Reached

\* A step that leaves the stream open keeps the invariant if it keeps the choice's.
LEMMA OpenStep ==
  ASSUME Inv, UNCHANGED <<obsidian, limit, said>>, Going(choice'), ended' \in {"no", "message"},
         position' \in 0 .. Len(said)
  PROVE  Inv'
<1>1. ChoiceInv(choice') /\ choice' \in Choice
  BY DEF Going, ChoiceInv
<1>2. TypeOK'
  BY <1>1 DEF Inv, TypeOK
<1>3. ChoiceInv(choice)'
  BY <1>1, SameMode
<1>4. ~choice'.drop /\ Simple(choice)' => Calm(choice)'
  BY <1>1, SameMode DEF Going
<1> QED BY <1>2, <1>3, <1>4 DEF Inv

LEMMA InitInv == Init => Inv
<1> SUFFICES ASSUME Init PROVE Inv
  OBVIOUS
<1> DEFINE none == [emitted |-> <<>>, upTo |-> 0, scan |-> 0, toolEnd |-> -1, active |-> -1,
               nested |-> 0, search |-> 0, skip |-> 0, seen |-> FALSE, drop |-> FALSE,
               any |-> FALSE, shown |-> 0, calls |-> <<>>, sent |-> <<>>]
<1>1. choice = none
  BY DEF Init
<1>2. /\ choice.emitted = <<>> /\ choice.upTo = 0 /\ choice.scan = 0 /\ choice.toolEnd = -1
      /\ choice.active = -1 /\ choice.search = 0 /\ choice.skip = 0 /\ choice.sent = <<>>
      /\ choice \in Choice
  <2>1. none \in Choice
    BY DEF Choice
  <2> QED BY <1>1, <2>1
<1> HIDE DEF none
<1>3. TypeOK
  <2>1. said \in Seq(Tokens)
    BY TextAssumption DEF Init
  <2>2. 0 \in 0 .. Len(said)
    BY <2>1
  <2> QED BY <1>2, <2>1, <2>2 DEF Init, TypeOK
<1>4. Len(<<>>) = 0 /\ DOMAIN <<>> = {} /\ <<>> \in Seq(Tokens)
  OBVIOUS
<1>5. Places(<<>>, OPEN) = {} /\ Places(<<>>, CLOSE) = {}
  <2> DEFINE e == <<>>
  <2>1. e \in Seq(Tokens) /\ Len(e) = 0
    BY <1>4
  <2> HIDE DEF e
  <2>2. ASSUME NEW i \in Places(e, OPEN) PROVE FALSE
    <3>1. i \in Nat /\ i + 2 <= Len(e)
      BY <2>1, OpenAt
    <3> QED BY <2>1, <3>1
  <2>3. ASSUME NEW i \in Places(e, CLOSE) PROVE FALSE
    <3>1. i \in Nat /\ i + 3 <= Len(e)
      BY <2>1, CloseAt
    <3> QED BY <2>1, <3>1
  <2> QED BY <2>2, <2>3 DEF e
<1>6. Bounds(choice)
  BY <1>2, <1>4 DEF Bounds
<1>7. OneForm(choice) /\ Between(choice.sent, 0, choice.upTo)
  BY <1>2, <1>4 DEF OneForm, Shows, Between
<1>8. Untorn(choice) /\ Calm(choice)
  BY <1>2, <1>4, <1>5 DEF Untorn, Calm
<1>9. Reached(choice)
  BY <1>2, <1>4 DEF Reached
<1> QED BY <1>2, <1>3, <1>6, <1>7, <1>8, <1>9 DEF Inv, ChoiceInv, Init

LEMMA NextInv == Inv /\ [Next]_vars => Inv'
<1> SUFFICES ASSUME Inv, [Next]_vars PROVE Inv'
  OBVIOUS
<1>1. TypeOK /\ ChoiceInv(choice) /\ choice \in Choice /\ said \in Seq(Tokens)
      /\ position \in 0 .. Len(said) /\ Len(said) \in Nat
  BY DEF Inv, TypeOK
<1>2. ended # "yes" => Going(choice)
  BY DEF Inv, Going
<1>3. choice.calls \in Seq({"part", "whole"}) /\ Len(choice.calls) \in Nat
  BY <1>1 DEF Choice
<1>4. ASSUME NEW k \in 1 .. Least(MaxDelta, Len(said) - position), TextDelta(k) PROVE Inv'
  <2>1. k \in 0 .. Least(MaxDelta, Len(said) - position)
    <3>1. Least(MaxDelta, Len(said) - position) \in Int
      BY <1>1, TextAssumption DEF Least
    <3> QED BY <1>4, <3>1
  <2>2. Piece(k) \in Seq(Tokens) /\ position + k \in 0 .. Len(said)
    BY <1>1, <2>1, PieceIs
  <2>3. Going(AppendContent(choice, Piece(k)))
    BY <1>2, <1>4, <2>2, AppendContentKeeps DEF TextDelta
  <2> QED BY <1>4, <2>2, <2>3, OpenStep DEF TextDelta
<1>5. ASSUME NEW k \in 0 .. Least(MaxDelta, Len(said) - position),
             NEW calls \in Seq({"part", "whole"}), CallDelta(calls, k)
      PROVE  Inv'
  <2> DEFINE y == [choice EXCEPT !.calls = calls]
             z == CallsChanged(y, Piece(k))
  <2>1. Piece(k) \in Seq(Tokens) /\ position + k \in 0 .. Len(said)
    BY <1>1, PieceIs
  <2>2. y \in Choice /\ SameBuffer(choice, y) /\ y.sent = choice.sent /\ y.drop = choice.drop
    BY <1>1 DEF Choice, SameBuffer
  <2>3. Going(choice)
    BY <1>2, <1>5 DEF CallDelta
  <2> HIDE DEF y
  <2>4. Going(y)
    BY <2>2, <2>3, OnlyCallsChange
  <2>5. Going(z)
    BY <2>4, CallsChangedKeeps
  <2>6. choice' = IF k = 0 THEN z ELSE AppendContent(z, Piece(k))
    BY <1>5 DEF CallDelta, y
  <2> HIDE DEF z
  <2>7. Going(choice')
    BY <2>1, <2>5, <2>6, AppendContentKeeps
  <2> QED BY <1>5, <2>1, <2>7, OpenStep DEF CallDelta
<1>6. CASE TextMessage
  <2>1. Going(TextualCalls(choice, said))
    BY <1>1, <1>2, <1>6, TextualCallsKeeps DEF TextMessage
  <2>2. Going(choice')
    BY <1>1, <1>6, <2>1, AppendRestKeeps DEF TextMessage
  <2>3. Len(said) \in 0 .. Len(said)
    BY <1>1
  <2> QED BY <1>6, <2>2, <2>3, OpenStep DEF TextMessage
<1>7. ASSUME NEW n \in Len(choice.calls) .. MaxCalls, CallMessage(n) PROVE Inv'
  <2> DEFINE calls == [i \in 1 .. n |-> "whole"]
             y == [choice EXCEPT !.calls = calls]
             named == TextualCalls(y, said)
             updated == Len(named.calls) > Len(choice.calls)
             counted == [named EXCEPT !.shown = Len(named.calls), !.drop = @ \/ updated]
  <2>1. calls \in Seq({"part", "whole"})
    <3>1. n \in Nat
      BY <1>3, TextAssumption
    <3> QED BY <3>1
  <2> HIDE DEF calls
  <2>2. y \in Choice /\ SameBuffer(choice, y) /\ y.sent = choice.sent /\ y.drop = choice.drop
    BY <1>1, <2>1 DEF Choice, SameBuffer
  <2>3. Going(choice)
    BY <1>2, <1>7 DEF CallMessage
  <2>4. choice' = AppendRest(IF obsidian THEN CallsChanged(named, said) ELSE counted)
    BY <1>7 DEF CallMessage, calls
  <2> HIDE DEF y
  <2>5. Going(y)
    BY <2>2, <2>3, OnlyCallsChange
  <2>6. Going(named)
    BY <1>1, <2>5, TextualCallsKeeps
  <2> HIDE DEF named
  <2>7. Going(CallsChanged(named, said))
    BY <2>6, CallsChangedKeeps
  <2>8. Going(counted)
    <3>1. named \in Choice
      BY <2>6 DEF Going, ChoiceInv
    <3>2. Len(named.calls) \in Nat /\ updated \in BOOLEAN /\ named.drop \in BOOLEAN
      BY <3>1 DEF Choice
    <3> DEFINE m == Len(named.calls)
               d == named.drop \/ updated
    <3>3. counted = [named EXCEPT !.shown = m, !.drop = d]
      BY <3>1 DEF Choice
    <3>4. m \in Nat /\ d \in BOOLEAN /\ (named.drop => d)
      BY <3>2
    <3> HIDE DEF m, d, updated, counted
    <3>5. counted \in Choice /\ SameBuffer(named, counted) /\ counted.sent = named.sent
          /\ (named.drop => counted.drop)
      BY <3>1, <3>3, <3>4 DEF Choice, SameBuffer
    <3> QED BY <2>6, <3>5, OnlyCallsChange
  <2> HIDE DEF counted
  <2>9. Going(choice')
    BY <1>1, <2>4, <2>7, <2>8, AppendRestKeeps
  <2>10. Len(said) \in 0 .. Len(said)
    BY <1>1
  <2> QED BY <1>7, <2>9, <2>10, OpenStep DEF CallMessage
<1>8. CASE End
  <2>1. Going(choice) /\ choice' = FlushActive(choice) /\ ended' = "yes"
        /\ UNCHANGED <<obsidian, limit, said, position>>
    BY <1>2, <1>8 DEF End
  <2>2. ChoiceInv(choice') /\ choice'.active < 0
    BY <2>1, EndKeeps
  <2>3. TypeOK'
    BY <1>1, <2>1, <2>2 DEF TypeOK, ChoiceInv
  <2>4. ChoiceInv(choice)'
    BY <2>1, <2>2, SameMode
  <2> QED BY <2>1, <2>2, <2>3, <2>4 DEF Inv
<1>9. CASE UNCHANGED vars
  BY <1>9 DEF Inv, TypeOK, ChoiceInv, Bounds, OneForm, Simple, Calm, Untorn, Reached, vars
<1>10. OpenCall \in Seq({"part", "whole"})
  BY <1>3 DEF OpenCall
<1>11. choice.calls # <<>> => WholeCall \in Seq({"part", "whole"})
  BY <1>3 DEF WholeCall
<1> QED BY <1>4, <1>5, <1>6, <1>7, <1>8, <1>9, <1>10, <1>11 DEF Next

\* The inductive invariant: whatever the deltas and calls are, the positions of
\* the choice and of its tool buffer fit what has come and what was sent.
THEOREM InvHolds == Spec => []Inv
BY InitInv, NextInv, PTL DEF Spec

\* Every variable of the choice keeps its type, whatever the deltas are.
THEOREM TypeCorrect == Spec => []TypeOK
<1>1. Inv => TypeOK
  BY DEF Inv
<1> QED BY <1>1, InvHolds, PTL

\* What the client reads is in the text's order and comes once.
THEOREM TextInOrderOnce == Spec => []InOrderOnce
<1>1. ASSUME Inv PROVE InOrderOnce
  <2>1. SUFFICES ASSUME ~obsidian \/ ~SecondOpening(choice.emitted),
                        NEW i \in TextChunks \cup ToolChunks, NEW j \in TextChunks \cup ToolChunks,
                        i < j
                 PROVE  choice.sent[i].to <= choice.sent[j].from
    BY DEF InOrderOnce
  <2>2. Between(choice.sent, 0, choice.upTo)
    BY <1>1, <2>1 DEF Inv, ChoiceInv, Simple
  <2>3. /\ i \in DOMAIN choice.sent /\ choice.sent[i].kind # "xml"
        /\ j \in DOMAIN choice.sent /\ choice.sent[j].kind # "xml"
    BY DEF TextChunks, ToolChunks
  <2> QED BY <2>1, <2>2, <2>3 DEF Between
<1> QED BY <1>1, InvHolds, PTL

\* No part of an opening tag is shown as text when the tail is suppressed.
THEOREM NoTagTorn == Spec => []TagsNotTorn
<1>1. ASSUME Inv PROVE TagsNotTorn
  <2>1. SUFFICES ASSUME obsidian, limit, ~SecondOpening(choice.emitted),
                        NEW at \in Places(choice.emitted, OPEN), NEW i \in TextChunks
                 PROVE  ~Covers(i, at) /\ ~Covers(i, at + 1)
    BY DEF TagsNotTorn
  <2>2. Untorn(choice) /\ choice \in Choice
    BY <1>1, <2>1 DEF Inv, ChoiceInv, Simple
  <2>3. i \in DOMAIN choice.sent /\ choice.sent[i].kind = "text"
    BY DEF TextChunks
  <2>4. choice.sent[i].to <= at
    BY <2>2, <2>3 DEF Untorn
  <2>5. choice.sent \in Seq(Chunk) /\ choice.emitted \in Seq(Tokens)
    BY <2>2 DEF Choice, Chunk
  <2>6. choice.sent[i] \in Chunk
    BY <2>3, <2>5
  <2>7. choice.sent[i].to \in Nat
    BY <2>6 DEF Chunk
  <2>8. at \in Nat
    BY <2>5, OpenAt
  <2> QED BY <2>4, <2>7, <2>8 DEF Covers
<1> QED BY <1>1, InvHolds, PTL

\* A call is shown as the text has it or as XML, never as both.
THEOREM CallsShownOnce == Spec => []ToolShownOnce
<1>1. ASSUME Inv PROVE ToolShownOnce
  <2>1. SUFFICES ASSUME NEW j \in ToolChunks, NEW i \in DOMAIN choice.sent,
                        choice.sent[i].kind = "xml"
                 PROVE  FALSE
    BY DEF ToolShownOnce
  <2>2. Shows(choice.sent, {"xml"})
    BY <2>1 DEF Shows
  <2>3. Shows(choice.sent, Parts)
    BY DEF Shows, Parts, ToolChunks
  <2> QED BY <1>1, <2>2, <2>3 DEF Inv, ChoiceInv, OneForm
<1> QED BY <1>1, InvHolds, PTL

\* When the stream has ended, what came in was shown, but the beginning of a tag.
THEOREM TextNotHeldBack == Spec => []NothingHeldBack
<1>1. ASSUME Inv PROVE NothingHeldBack
  <2>1. SUFFICES ASSUME ended = "yes", ~choice.drop, OpensFirst(choice.emitted),
                        ~SecondOpening(choice.emitted), NEW at \in 0 .. Len(choice.emitted) - 1
                 PROVE  \/ \E i \in TextChunks : Covers(i, at)
                        \/ \E s \in TagBegins(choice.emitted) :
                             obsidian /\ at >= Len(choice.emitted) - Len(s)
    BY DEF NothingHeldBack
  <2>2. Reached(choice) /\ choice.active < 0 /\ choice \in Choice
    BY <1>1, <2>1 DEF Inv, ChoiceInv
  <2>3. /\ choice.upTo \in Nat /\ choice.emitted \in Seq(Tokens) /\ Len(choice.emitted) \in Nat
        /\ ~(choice.active >= 0)
    BY <2>2 DEF Choice
  <2>4. CASE at < choice.upTo
    <3>1. at \in 0 .. choice.upTo - 1
      BY <2>1, <2>3, <2>4
    <3> QED BY <2>2, <3>1 DEF Reached, TextChunks, Covers
  <2>5. CASE ~(at < choice.upTo)
    <3>1. choice.upTo # Len(choice.emitted)
      BY <2>1, <2>3, <2>5
    <3>2. PICK s \in TagBegins(choice.emitted) :
            obsidian /\ choice.upTo = Len(choice.emitted) - Len(s)
      BY <2>2, <2>3, <3>1 DEF Reached
    <3> QED BY <2>1, <2>3, <2>5, <3>2
  <2> QED BY <2>4, <2>5
<1> QED BY <1>1, InvHolds, PTL
=============================================================================
