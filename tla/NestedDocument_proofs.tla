------------------------ MODULE NestedDocument_proofs ------------------------
(* What NestedDocument builds, for all keys in an order in which none      *)
(* comes after one below it, and any number of properties.                 *)
EXTENDS NestedDocument, SequenceTheorems, WellFoundedInduction, TLAPS

-----------------------------------------------------------------------------
(* Least elements, and with them induction. *)
LEMMA Least ==
  ASSUME NEW T, T \subseteq Nat, T # {}
  PROVE \E x \in T : \A y \in T : x <= y
<1> DEFINE R == OpToRel(<, Nat)
<1>1. IsWellFoundedOn(R, Nat)
  BY NatLessThanWellFounded, Zenon
<1>2. \A x, y \in Nat : <<y, x>> \in R <=> y < x
  BY DEF OpToRel
<1> HIDE DEF R
<1>3. PICK x \in T : \A y \in T : ~ (<<y, x>> \in R)
  BY <1>1, WFMin
<1>4. \A y \in T : ~ (y < x)
  BY <1>2, <1>3
<1>5. \A y \in T : x <= y
  BY <1>4
<1> QED BY <1>5

(* f is the function FlattenSeq defines for the first n sequences of q.     *)
Flat(f, q, n) == f = [i \in 1..n |-> IF i = 1 THEN q[i] ELSE f[i-1] \o q[i]]

(* That function exists. *)
LEMMA FlatExists ==
  ASSUME NEW S, NEW q \in Seq(Seq(S)), NEW n \in Nat, n <= Len(q)
  PROVE \E f \in [1..n -> Seq(S)] : Flat(f, q, n)
<1> DEFINE T == {m \in 0..Len(q) : ~ \E f \in [1..m -> Seq(S)] : Flat(f, q, m)}
<1> SUFFICES ASSUME T # {} PROVE FALSE
  OBVIOUS
<1>0. Len(q) \in Nat
  OBVIOUS
<1>1. PICK m \in T : \A y \in T : m <= y
  <2>1. T \subseteq Nat
    BY <1>0
  <2> HIDE DEF T
  <2> QED BY <2>1, Least
<1>2. m # 0
  <2>1. Flat(<<>>, q, 0) /\ <<>> \in [1..0 -> Seq(S)]
    BY DEF Flat
  <2>2. 0 \notin T
    BY <2>1
  <2> HIDE DEF T
  <2> QED BY <2>2
<1>3. m \in 1..Len(q) /\ m - 1 \in 0..Len(q) /\ m - 1 \notin T
  <2>1. m \in 0..Len(q)
    OBVIOUS
  <2>2. m \in 1..Len(q) /\ m - 1 \in 0..Len(q) /\ ~ (m <= m - 1)
    BY <1>0, <1>2, <2>1
  <2> HIDE DEF T
  <2> QED BY <1>1, <2>2
<1>4. PICK g \in [1..(m-1) -> Seq(S)] : Flat(g, q, m-1)
  BY <1>3
<1>5. q[m] \in Seq(S) /\ \A i \in 1..(m-1) : q[i] \in Seq(S)
  BY <1>3
<1> DEFINE last == IF m = 1 THEN q[m] ELSE g[m-1] \o q[m]
           f == [i \in 1..m |-> IF i = m THEN last ELSE g[i]]
<1>6. last \in Seq(S)
  BY <1>3, <1>4, <1>5
<1>7. f \in [1..m -> Seq(S)]
  BY <1>3, <1>4, <1>6
<1>8. ASSUME NEW i \in 1..m PROVE f[i] = IF i = 1 THEN q[i] ELSE f[i-1] \o q[i]
  <2>1. CASE i = m
    BY <2>1, <1>3
  <2>2. CASE i # m
    <3>1. i \in 1..(m-1) /\ (i # 1 => i - 1 \in 1..(m-1) /\ i - 1 # m)
      BY <2>2, <1>3
    <3>2. g[i] = IF i = 1 THEN q[i] ELSE g[i-1] \o q[i]
      BY <1>4, <3>1 DEF Flat
    <3>3. f[i] = g[i] /\ (i # 1 => f[i-1] = g[i-1])
      BY <2>2, <3>1, <1>3
    <3> QED BY <3>1, <3>2, <3>3
  <2> QED BY <2>1, <2>2
<1>9. Flat(f, q, m)
  BY <1>7, <1>8 DEF Flat
<1> QED BY <1>1, <1>7, <1>9

(* Flattening sequences over S gives a sequence over S. *)
LEMMA FlattenType ==
  ASSUME NEW S, NEW q \in Seq(Seq(S))
  PROVE FlattenSeq(q) \in Seq(S)
<1>1. CASE Len(q) = 0
  BY <1>1, EmptySeq DEF FlattenSeq
<1>2. CASE Len(q) # 0
  <2> DEFINE f == CHOOSE f : Flat(f, q, Len(q))
  <2>1. FlattenSeq(q) = f[Len(q)]
    BY <1>2 DEF FlattenSeq, Flat
  <2>2. \E g : Flat(g, q, Len(q))
    BY FlatExists
  <2>3. Flat(f, q, Len(q))
    BY <2>2
  <2> HIDE DEF f
  <2> DEFINE T == {m \in 1..Len(q) : f[m] \notin Seq(S)}
  <2>4. T = {}
    <3> SUFFICES ASSUME T # {} PROVE FALSE
      OBVIOUS
    <3>1. PICK m \in T : \A y \in T : m <= y
      <4>1. T \subseteq Nat
        OBVIOUS
      <4> HIDE DEF T
      <4> QED BY <4>1, Least
    <3>2. m \in 1..Len(q) /\ q[m] \in Seq(S) /\ f[m] = IF m = 1 THEN q[m] ELSE f[m-1] \o q[m]
      <4>1. m \in 1..Len(q)
        OBVIOUS
      <4>2. f[m] = IF m = 1 THEN q[m] ELSE f[m-1] \o q[m]
        BY <2>3, <4>1 DEF Flat
      <4>3. q[m] \in Seq(S)
        BY <4>1
      <4> QED BY <4>1, <4>2, <4>3
    <3>3. CASE m = 1
      BY <3>1, <3>2, <3>3
    <3>4. CASE m # 1
      <4>1. m - 1 \in 1..Len(q) /\ ~ (m <= m - 1)
        BY <3>2, <3>4
      <4>2. f[m-1] \in Seq(S)
        BY <3>1, <4>1
      <4>3. f[m] \in Seq(S)
        BY <3>2, <3>4, <4>2
      <4> QED BY <4>3
    <3> QED BY <3>3, <3>4
  <2>5. Len(q) \in 1..Len(q)
    BY <1>2
  <2> QED BY <2>1, <2>4, <2>5
<1> QED BY <1>1, <1>2

-----------------------------------------------------------------------------
(* Sequences. *)

(* What lies where in a concatenation. *)
LEMMA Joined ==
    ASSUME NEW S, NEW a \in Seq(S), NEW b \in Seq(S)
    PROVE  /\ a \o b \in Seq(S) /\ Len(a \o b) = Len(a) + Len(b)
           /\ \A i \in 1 .. Len(a) : (a \o b)[i] = a[i]
           /\ \A i \in Len(a) + 1 .. Len(a) + Len(b) : (a \o b)[i] = b[i - Len(a)]
BY ConcatProperties

(* A sequence is the concatenation of what a cut leaves of it. *)
LEMMA Cut ==
    ASSUME NEW S, NEW s \in Seq(S), NEW k \in 0 .. Len(s)
    PROVE  /\ SubSeq(s, 1, k) \in Seq(S) /\ Len(SubSeq(s, 1, k)) = k
           /\ \A i \in 1 .. k : SubSeq(s, 1, k)[i] = s[i]
           /\ SubSeq(s, k + 1, Len(s)) \in Seq(S)
           /\ Len(SubSeq(s, k + 1, Len(s))) = Len(s) - k
           /\ SubSeq(s, 1, k) \o SubSeq(s, k + 1, Len(s)) = s
<1>1. SubSeq(s, 1, k) \in Seq(S) /\ Len(SubSeq(s, 1, k)) = k
  OBVIOUS
<1>2. \A i \in 1 .. k : SubSeq(s, 1, k)[i] = s[i]
  OBVIOUS
<1>3. SubSeq(s, k + 1, Len(s)) \in Seq(S) /\ Len(SubSeq(s, k + 1, Len(s))) = Len(s) - k
  OBVIOUS
<1> DEFINE a == SubSeq(s, 1, k)
           b == SubSeq(s, k + 1, Len(s))
<1>4. \A i \in 1 .. Len(s) - k : b[i] = s[k + i]
  BY <1>3
<1>5. a \in Seq(S) /\ Len(a) = k /\ (\A i \in 1 .. k : a[i] = s[i])
      /\ b \in Seq(S) /\ Len(b) = Len(s) - k
  BY <1>1, <1>2, <1>3
<1> HIDE DEF a, b
<1>6. /\ a \o b \in Seq(S) /\ Len(a \o b) = Len(s)
      /\ \A i \in 1 .. k : (a \o b)[i] = a[i]
      /\ \A i \in k + 1 .. Len(s) : (a \o b)[i] = b[i - k]
  BY <1>5, Joined
<1>7. \A i \in 1 .. Len(s) : (a \o b)[i] = s[i]
  <2> SUFFICES ASSUME NEW i \in 1 .. Len(s) PROVE (a \o b)[i] = s[i]
    OBVIOUS
  <2>0. i \in 1 .. k \/ i \in k + 1 .. Len(s)
    OBVIOUS
  <2>1. CASE i \in 1 .. k
    BY <1>5, <1>6, <2>1
  <2>2. CASE i \in k + 1 .. Len(s)
    <3>1. i - k \in 1 .. Len(s) - k /\ k + (i - k) = i
      BY <2>2
    <3> QED BY <1>4, <1>6, <2>2, <3>1
  <2> QED BY <2>0, <2>1, <2>2, Zenon
<1>8. a \o b = s
  <2> DEFINE c == a \o b
  <2>1. c \in Seq(S) /\ Len(c) = Len(s) /\ \A i \in 1 .. Len(s) : c[i] = s[i]
    BY <1>6, <1>7
  <2> HIDE DEF c
  <2>2. c = s
    BY <2>1
  <2> QED BY <2>2 DEF c
<1> QED BY <1>5, <1>8 DEF a, b

(* The head of a head. *)
LEMMA CutAgain ==
    ASSUME NEW S, NEW s \in Seq(S), NEW k \in 0 .. Len(s), NEW n \in 0 .. k
    PROVE  SubSeq(SubSeq(s, 1, k), 1, n) = SubSeq(s, 1, n)
<1> DEFINE a == SubSeq(s, 1, k)
           b == SubSeq(a, 1, n)
           c == SubSeq(s, 1, n)
<1>1. a \in Seq(S) /\ Len(a) = k /\ \A i \in 1 .. k : a[i] = s[i]
  BY Cut
<1>2. c \in Seq(S) /\ Len(c) = n /\ \A i \in 1 .. n : c[i] = s[i]
  <2>1. n \in 0 .. Len(s)
    OBVIOUS
  <2> QED BY <2>1, Cut
<1> HIDE DEF a
<1>3. b \in Seq(S) /\ Len(b) = n /\ \A i \in 1 .. n : b[i] = a[i]
  <2>1. n \in 0 .. Len(a)
    BY <1>1
  <2> QED BY <1>1, <2>1, Cut
<1> HIDE DEF b, c
<1>4. \A i \in 1 .. n : b[i] = c[i]
  BY <1>1, <1>2, <1>3
<1>5. b = c
  BY <1>2, <1>3, <1>4
<1> QED BY <1>5 DEF a, b, c

(* Front and Last are such a cut. *)
LEMMA CutLast ==
    ASSUME NEW S, NEW s \in Seq(S), s # <<>>
    PROVE  /\ Len(s) \in Nat \ {0}
           /\ Front(s) = SubSeq(s, 1, Len(s) - 1)
           /\ SubSeq(s, Len(s), Len(s)) = <<Last(s)>>
<1>1. Len(s) \in Nat \ {0}
  BY EmptySeq
<1>2. SubSeq(s, Len(s), Len(s)) = <<s[Len(s)]>>
  <2> DEFINE n == Len(s)
             a == SubSeq(s, n, n)
  <2>1. a \in Seq(S) /\ Len(a) = 1 /\ a[1] = s[n]
    BY <1>1
  <2>2. <<s[n]>> \in Seq(S) /\ Len(<<s[n]>>) = 1 /\ <<s[n]>>[1] = s[n]
    BY <1>1
  <2> HIDE DEF a
  <2>3. a = <<s[n]>>
    BY <2>1, <2>2
  <2> QED BY <2>3 DEF a
<1> QED BY <1>1, <1>2 DEF Front, Last

(* A prefix is a head. *)
LEMMA PrefixCut ==
    ASSUME NEW S, NEW p \in Seq(S), NEW s \in Seq(S)
    PROVE  IsPrefix(p, s) <=> Len(p) <= Len(s) /\ p = SubSeq(s, 1, Len(p))
<1>1. SubSeq(p, 1, Len(p)) = p
  OBVIOUS
<1> QED BY <1>1 DEF IsPrefix

(* What begins a sequence begins its extensions. *)
LEMMA PrefixOfWhole ==
    ASSUME NEW S, NEW p \in Seq(S), NEW a \in Seq(S), NEW b \in Seq(S), IsPrefix(p, a)
    PROVE  IsPrefix(p, a \o b)
<1>1. Len(p) <= Len(a) /\ p = SubSeq(a, 1, Len(p))
  BY PrefixCut
<1>2. a \o b \in Seq(S) /\ Len(p) <= Len(a \o b)
  BY <1>1
<1>3. SubSeq(a \o b, 1, Len(p)) = SubSeq(a, 1, Len(p))
  BY <1>1
<1> QED BY <1>1, <1>2, <1>3, PrefixCut

(* The innermost name before a token; the first token is one. *)
LEMMA LastName ==
    ASSUME NEW t, NEW i \in Nat, 2 <= i, ~ t[1].isIndex
    PROVE  \E m \in 1 .. i - 1 : ~ t[m].isIndex /\ \A j \in m + 1 .. i - 1 : t[j].isIndex
<1> DEFINE T == {n \in 0 .. i - 2 : ~ t[i - 1 - n].isIndex}
<1>1. T \subseteq Nat /\ i - 2 \in T
  BY i - 1 - (i - 2) = 1
<1>2. PICK n \in T : \A y \in T : n <= y
  <2> HIDE DEF T
  <2> QED BY <1>1, Least
<1> DEFINE m == i - 1 - n
<1>3. n \in 0 .. i - 2 /\ m \in 1 .. i - 1 /\ ~ t[m].isIndex
  OBVIOUS
<1>4. ASSUME NEW j \in m + 1 .. i - 1 PROVE t[j].isIndex
  <2>1. i - 1 - j \in 0 .. i - 2 /\ i - 1 - (i - 1 - j) = j /\ ~ (n <= i - 1 - j)
    BY <1>3
  <2>2. i - 1 - j \notin T
    BY <1>2, <2>1
  <2> QED BY <2>1, <2>2
<1> QED BY <1>3, <1>4

-----------------------------------------------------------------------------
(* Keys. *)

(* A segment that is valid gives well-formed tokens. *)
LEMMA SegmentType ==
    ASSUME NEW s \in Segments, ValidSegment(s)
    PROVE  SegmentTokens(s) \in Seq(Tokens)
<1>1. Name(s.name) \in Tokens
  <2>1. 0 \in 0 .. maxListIndex
    BY DocumentAssumption
  <2> QED BY <2>1 DEF Name, Tokens
<1>2. s.indexes \in Seq(Literal)
  BY DocumentAssumption
<1>3. \A i \in DOMAIN s.indexes : Index(s.indexes[i]) \in Tokens
  <2> SUFFICES ASSUME NEW i \in DOMAIN s.indexes PROVE Index(s.indexes[i]) \in Tokens
    OBVIOUS
  <2>1. s.indexes[i] \in Literal
    BY <1>2
  <2>2. IndexOf[s.indexes[i]] <= maxListIndex
    BY DEF ValidSegment
  <2>3. IndexOf[s.indexes[i]] \in Nat /\ maxListIndex \in Nat
    BY <2>1, DocumentAssumption
  <2>4. IndexOf[s.indexes[i]] \in 0 .. maxListIndex
    BY <2>2, <2>3
  <2> QED BY <2>4 DEF Index, Tokens
<1> DEFINE named == IF s.name = "" THEN <<>> ELSE <<Name(s.name)>>
           indexed == [i \in DOMAIN s.indexes |-> Index(s.indexes[i])]
<1>4. named \in Seq(Tokens)
  <2>1. CASE s.name = ""
    BY <2>1, EmptySeq
  <2>2. CASE s.name # ""
    <3> DEFINE n == Name(s.name)
    <3> HIDE DEF n
    <3>1. n \in Tokens
      BY <1>1 DEF n
    <3>2. <<n>> \in Seq(Tokens)
      BY <3>1
    <3> QED BY <2>2, <3>2 DEF n
  <2> QED BY <2>1, <2>2
<1>5. indexed \in Seq(Tokens)
  <2>1. DOMAIN s.indexes = 1 .. Len(s.indexes) /\ Len(s.indexes) \in Nat
    BY <1>2
  <2> QED BY <1>3, <2>1, SeqDef
<1>6. SegmentTokens(s) = named \o indexed
  BY DEF SegmentTokens
<1> HIDE DEF named, indexed
<1> QED BY <1>4, <1>5, <1>6

(* The tokens of a key begin with a name. *)
LEMMA ParseType ==
    ASSUME NEW key \in Range(Order)
    PROVE  /\ ParsePropertyPath(key) \in Seq(Tokens)
           /\ ParsePropertyPath(key) # <<>> => ~ ParsePropertyPath(key)[1].isIndex
<1>1. key \in Seq(Segments)
  BY DocumentAssumption DEF Range
<1> DEFINE q == [i \in DOMAIN key |-> SegmentTokens(key[i])]
           tokens == FlattenSeq(q)
<1>2. ASSUME \A i \in DOMAIN key : ValidSegment(key[i])
      PROVE  tokens \in Seq(Tokens)
  <2>1. DOMAIN key = 1 .. Len(key) /\ Len(key) \in Nat /\ \A i \in DOMAIN key : key[i] \in Segments
    BY <1>1
  <2>2. \A i \in DOMAIN key : SegmentTokens(key[i]) \in Seq(Tokens)
    BY <1>2, <2>1, SegmentType
  <2>3. q \in Seq(Seq(Tokens))
    BY <2>1, <2>2, SeqDef
  <2> HIDE DEF q
  <2> QED BY <2>3, FlattenType
<1>3. ParsePropertyPath(key) = IF /\ \A i \in DOMAIN key : ValidSegment(key[i])
                                  /\ tokens # <<>> /\ ~ tokens[1].isIndex
                               THEN tokens ELSE <<>>
  BY DEF ParsePropertyPath
<1> HIDE DEF tokens
<1> QED BY <1>2, <1>3

-----------------------------------------------------------------------------
(* One key is added. *)

Shape(e) == /\ e.in \in Seq(Tokens) /\ e.label \in Seq(Tokens)
            /\ e.in \o e.label = ParsePropertyPath(e.value)
            /\ e.label = <<>> => e.in = <<>>

IInv == /\ TypeOK
        /\ EveryPropertyReturned
        /\ \A e \in doc : Shape(e)

Adding(key) == next \in DOMAIN Order /\ key = Order[next] /\ key \in properties

(* What the document holds stands before the next key in Order. *)
LEMMA AddedEarlier ==
    ASSUME IInv, NEW e \in doc
    PROVE  \E i \in 1 .. next - 1 : i \in DOMAIN Order /\ e.value = Order[i]
<1>1. e.value \in Added
  BY DEF IInv, EveryPropertyReturned
<1>2. next \in 1 .. Len(Order) + 1 /\ Len(Order) \in Nat /\ DOMAIN Order = 1 .. Len(Order)
  BY DocumentAssumption DEF IInv, TypeOK
<1> QED BY <1>1, <1>2 DEF Added

(* What is there already does not lie at the path of the new key or below. *)
LEMMA NothingInTheWay ==
    ASSUME IInv, InPlaceOrder(Order), NEW key, Adding(key), NEW e \in doc,
           ParsePropertyPath(key) # <<>>
    PROVE  /\ ~ IsPrefix(ParsePropertyPath(key), e.in \o e.label)
           /\ ~ Below(e, ParsePropertyPath(key))
<1> DEFINE t == ParsePropertyPath(key)
<1>1. PICK i \in 1 .. next - 1 : i \in DOMAIN Order /\ e.value = Order[i]
  BY AddedEarlier
<1>2. next \in DOMAIN Order /\ key = Order[next] /\ ~ (next <= i)
  BY <1>1, DocumentAssumption DEF Adding
<1>3. ~ IsPrefix(t, ParsePropertyPath(e.value))
  BY <1>1, <1>2 DEF InPlaceOrder
<1>4. e.in \in Seq(Tokens) /\ e.label \in Seq(Tokens) /\ e.in \o e.label = ParsePropertyPath(e.value)
  BY DEF IInv, Shape
<1>5. t \in Seq(Tokens)
  <2>1. key \in Range(Order)
    BY <1>2 DEF Range
  <2> QED BY <2>1, ParseType
<1> HIDE DEF t
<1>6. ~ IsPrefix(t, e.in)
  BY <1>3, <1>4, <1>5, PrefixOfWhole
<1> QED BY <1>3, <1>4, <1>6 DEF Below, t

(* Where the three cases of addNestedProperty put a key with tokens t.     *)
AtTop(t, in, label) == t = <<>> /\ in = <<>> /\ label = <<>>

Nested(t, in, label) == /\ t # <<>> /\ Conflicts(doc, t) = {}
                     /\ in = SubSeq(t, 1, Len(t) - 1)
                     /\ label = SubSeq(t, Len(t), Len(t))

FlatAt(t, in, label, i, m) ==
    /\ i \in Conflicts(doc, t) /\ \A j \in Conflicts(doc, t) : i <= j
    /\ m \in 1 .. i - 1
    /\ in = SubSeq(t, 1, m - 1) /\ label = SubSeq(t, m, Len(t))
    /\ \A j \in m + 1 .. i - 1 : t[j].isIndex

Placed(t, in, label) == \/ AtTop(t, in, label)
                     \/ Nested(t, in, label)
                     \/ \E i \in 2 .. Len(t), m \in 1 .. Len(t) - 1 : FlatAt(t, in, label, i, m)

(* However a key is placed, it is cut in two and nothing is left out. *)
LEMMA PlacedWhole ==
    ASSUME NEW t \in Seq(Tokens), NEW in, NEW label, Placed(t, in, label)
    PROVE  /\ in \in Seq(Tokens) /\ label \in Seq(Tokens) /\ in \o label = t
           /\ label = <<>> => in = <<>>
           /\ t # <<>> => /\ Len(in) + 1 \in 1 .. Len(t)
                          /\ Len(label) = Len(t) - Len(in)
                          /\ in = SubSeq(t, 1, Len(in))
<1>1. CASE AtTop(t, in, label)
  BY <1>1 DEF AtTop
<1>2. ASSUME t # <<>>, NEW k \in 0 .. Len(t) - 1,
             in = SubSeq(t, 1, k), label = SubSeq(t, k + 1, Len(t))
      PROVE  /\ in \in Seq(Tokens) /\ label \in Seq(Tokens) /\ in \o label = t
             /\ Len(in) = k /\ Len(label) = Len(t) - k /\ label # <<>>
             /\ Len(in) + 1 \in 1 .. Len(t)
             /\ in = SubSeq(t, 1, Len(in))
  <2>1. k \in 0 .. Len(t) /\ Len(t) \in Nat
    BY <1>2
  <2>2. /\ in \in Seq(Tokens) /\ label \in Seq(Tokens) /\ in \o label = t
        /\ Len(in) = k /\ Len(label) = Len(t) - k
    BY <1>2, <2>1, Cut
  <2>3. Len(label) # 0 /\ Len(in) + 1 \in 1 .. Len(t)
    <3>1. Len(t) - k # 0 /\ k + 1 \in 1 .. Len(t)
      BY <2>1
    <3> QED BY <2>2, <3>1, Zenon
  <2>4. label # <<>>
    <3>1. Len(<<>>) = 0
      OBVIOUS
    <3> QED BY <2>3, <3>1, Zenon
  <2> QED BY <1>2, <2>2, <2>3, <2>4
<1>3. CASE Nested(t, in, label)
  <2>1. t # <<>> /\ Len(t) \in Nat \ {0}
    BY <1>3, EmptySeq DEF Nested
  <2>2. Len(t) - 1 \in 0 .. Len(t) - 1 /\ Len(t) - 1 + 1 = Len(t)
    BY <2>1
  <2>3. in = SubSeq(t, 1, Len(t) - 1) /\ label = SubSeq(t, Len(t) - 1 + 1, Len(t))
    BY <1>3, <2>2 DEF Nested
  <2> QED BY <1>2, <2>1, <2>2, <2>3
<1>4. ASSUME NEW i \in 2 .. Len(t), NEW m \in 1 .. Len(t) - 1, FlatAt(t, in, label, i, m)
      PROVE  /\ t # <<>>
             /\ \E k \in 0 .. Len(t) - 1 :
                   in = SubSeq(t, 1, k) /\ label = SubSeq(t, k + 1, Len(t))
  <2>1. m - 1 \in 0 .. Len(t) - 1 /\ m - 1 + 1 = m /\ Len(t) # 0
    BY <1>4
  <2>2. in = SubSeq(t, 1, m - 1) /\ label = SubSeq(t, m - 1 + 1, Len(t))
    BY <1>4, <2>1 DEF FlatAt
  <2>3. t # <<>>
    BY <2>1
  <2> QED BY <2>1, <2>2, <2>3
<1> QED BY <1>1, <1>2, <1>3, <1>4 DEF Placed

(* On the way to where the key is put, nothing conflicts with it. *)
LEMMA ClearWay ==
    ASSUME NEW t \in Seq(Tokens), NEW in, NEW label, Placed(t, in, label), t # <<>>,
           NEW n \in 1 .. Len(in)
    PROVE  n + 1 \in 2 .. Len(t) /\ n + 1 \notin Conflicts(doc, t)
<1>0. Len(in) + 1 \in 1 .. Len(t) /\ Len(in) \in Nat /\ Len(t) \in Nat
  <2>1. in \in Seq(Tokens) /\ Len(in) + 1 \in 1 .. Len(t)
    BY PlacedWhole, Zenon
  <2> QED BY <2>1
<1>1. n + 1 \in 2 .. Len(t)
  BY <1>0
<1>2. ASSUME NEW i \in 2 .. Len(t), NEW m \in 1 .. Len(t) - 1, FlatAt(t, in, label, i, m)
      PROVE  n + 1 \notin Conflicts(doc, t)
  <2>1. in = SubSeq(t, 1, m - 1) /\ m \in 1 .. i - 1
        /\ \A j \in Conflicts(doc, t) : i <= j
    BY <1>2 DEF FlatAt
  <2>2. Len(in) = m - 1
    <3>1. m - 1 \in 0 .. Len(t)
      BY <1>0
    <3> QED BY <2>1, <3>1, Cut
  <2>3. ~ (i <= n + 1)
    BY <1>0, <2>1, <2>2
  <2> QED BY <2>1, <2>3
<1>3. Nested(t, in, label) => n + 1 \notin Conflicts(doc, t)
  BY DEF Nested
<1> QED BY <1>1, <1>2, <1>3 DEF Placed, AtTop

(* addNestedProperty adds one scalar and takes none away. *)
LEMMA AddPlaces ==
    ASSUME IInv, InPlaceOrder(Order), NEW key, Adding(key)
    PROVE  \E in, label : /\ Placed(ParsePropertyPath(key), in, label)
                       /\ AddNestedProperty(doc, key) = doc \cup {Scalar(in, label, key)}
<1> DEFINE t == ParsePropertyPath(key)
<1>1. t \in Seq(Tokens)
  <2>1. key \in Range(Order)
    BY DEF Adding, Range
  <2> QED BY <2>1, ParseType
<1>2. t # <<>> => \A e \in doc : ~ IsPrefix(t, e.in \o e.label) /\ ~ Below(e, t)
  BY NothingInTheWay
<1>3. AddNestedProperty(doc, key) =
         IF t = <<>>
         THEN doc \cup {Scalar(<<>>, <<>>, key)}
         ELSE IF Conflicts(doc, t) = {}
              THEN SetNested(doc, t, key)
              ELSE SetFlat(doc, t, CHOOSE i \in Conflicts(doc, t) :
                                       \A j \in Conflicts(doc, t) : i <= j, key)
  BY DEF AddNestedProperty
<1>4. IsPrefix(t, t)
  <2>1. SubSeq(t, 1, Len(t)) = t
    BY <1>1
  <2> QED BY <1>1, <2>1, PrefixCut
<1> HIDE DEF t
<1>5. CASE t = <<>>
  <2>1. Placed(t, <<>>, <<>>)
    BY <1>5 DEF Placed, AtTop
  <2> QED BY <1>3, <1>5, <2>1 DEF t
<1>6. CASE t # <<>> /\ Conflicts(doc, t) = {}
  <2> DEFINE in == SubSeq(t, 1, Len(t) - 1)
             label == SubSeq(t, Len(t), Len(t))
  <2>1. Placed(t, in, label)
    BY <1>6 DEF Placed, Nested
  <2>2. SetNested(doc, t, key) =
           {e \in doc : ~ Below(e, t) /\ ~ IsScalarAt(e, t)} \cup {Scalar(in, label, key)}
    BY <1>1, <1>6, CutLast DEF SetNested
  <2>3. \A e \in doc : ~ Below(e, t) /\ ~ IsScalarAt(e, t)
    BY <1>2, <1>4, <1>6 DEF IsScalarAt
  <2> HIDE DEF in, label
  <2>4. SetNested(doc, t, key) = doc \cup {Scalar(in, label, key)}
    BY <2>2, <2>3
  <2> QED BY <1>3, <1>6, <2>1, <2>4 DEF t
<1>7. CASE t # <<>> /\ Conflicts(doc, t) # {}
  <2> DEFINE i == CHOOSE i \in Conflicts(doc, t) : \A j \in Conflicts(doc, t) : i <= j
             IsLast(m) == ~ t[m].isIndex /\ \A j \in m + 1 .. i - 1 : t[j].isIndex
             m == CHOOSE m \in 1 .. i - 1 : IsLast(m)
             in == SubSeq(t, 1, m - 1)
             label == SubSeq(t, m, Len(t))
  <2>1. Conflicts(doc, t) \subseteq 2 .. Len(t) /\ Len(t) \in Nat
    BY <1>1 DEF Conflicts
  <2>2. i \in Conflicts(doc, t) /\ \A j \in Conflicts(doc, t) : i <= j
    <3>1. Conflicts(doc, t) \subseteq Nat
      BY <2>1
    <3>2. \E x \in Conflicts(doc, t) : \A y \in Conflicts(doc, t) : x <= y
      BY <1>7, <3>1, Least
    <3> QED BY <3>2
  <2>3. SetFlat(doc, t, i, key) =
           {e \in doc : ~ (e.in = in /\ e.label = label)} \cup {Scalar(in, label, key)}
    BY DEF SetFlat
  <2>4. AddNestedProperty(doc, key) = SetFlat(doc, t, i, key)
    BY <1>3, <1>7
  <2> HIDE DEF i
  <2>5. m \in 1 .. i - 1 /\ IsLast(m)
    <3>1. ~ t[1].isIndex
      <4>1. key \in Range(Order)
        BY DEF Adding, Range
      <4> QED BY <1>7, <4>1, ParseType DEF t
    <3>2. \E x \in 1 .. i - 1 : IsLast(x)
      <4>1. i \in Nat /\ 2 <= i
        BY <2>1, <2>2
      <4> QED BY <3>1, <4>1, LastName, Zenon
    <3> QED BY <3>2
  <2> HIDE DEF m
  <2>6. i \in 2 .. Len(t) /\ m \in 1 .. Len(t) - 1
    BY <2>1, <2>2, <2>5
  <2>7. FlatAt(t, in, label, i, m)
    BY <2>2, <2>5 DEF FlatAt
  <2>8. Placed(t, in, label)
    BY <2>6, <2>7 DEF Placed
  <2>9. in \o label = t
    BY <1>1, <2>8, PlacedWhole
  <2> HIDE DEF in, label
  <2>10. \A e \in doc : ~ (e.in = in /\ e.label = label)
    BY <1>2, <1>4, <1>7, <2>9
  <2>11. SetFlat(doc, t, i, key) = doc \cup {Scalar(in, label, key)}
    BY <2>3, <2>10
  <2> QED BY <2>4, <2>8, <2>11 DEF t
<1> QED BY <1>5, <1>6, <1>7

(* A step adds a property as one scalar, or leaves the document alone. *)
Adds(key, in, label) == /\ Adding(key) /\ Placed(ParsePropertyPath(key), in, label)
                     /\ doc' = doc \cup {Scalar(in, label, key)}
                     /\ next' = next + 1 /\ UNCHANGED properties

LEMMA Steps ==
    ASSUME IInv, InPlaceOrder(Order), AddNext
    PROVE  \/ Order[next] \notin properties /\ UNCHANGED doc
           \/ \E in, label : Adds(Order[next], in, label)
<1>1. CASE Order[next] \in properties
  <2>1. Adding(Order[next])
    <3>1. next \in DOMAIN Order
      BY DocumentAssumption DEF IInv, TypeOK, AddNext
    <3> QED BY <1>1, <3>1 DEF Adding
  <2>2. PICK in, label : /\ Placed(ParsePropertyPath(Order[next]), in, label)
                      /\ AddNestedProperty(doc, Order[next])
                            = doc \cup {Scalar(in, label, Order[next])}
    BY <2>1, AddPlaces
  <2>3. doc' = AddNestedProperty(doc, Order[next]) /\ next' = next + 1 /\ UNCHANGED properties
    BY <1>1 DEF AddNext
  <2>4. Adds(Order[next], in, label)
    BY <2>1, <2>2, <2>3, Zenon DEF Adds
  <2> QED BY <2>4
<1>2. CASE Order[next] \notin properties
  BY <1>2 DEF AddNext
<1> QED BY <1>1, <1>2

(* What the new scalar is. *)
LEMMA NewScalar ==
    ASSUME IInv, NEW key, NEW in, NEW label, Adds(key, in, label),
           NEW e, e = Scalar(in, label, key)
    PROVE  /\ e.in = in /\ e.label = label /\ e.value = key /\ Shape(e)
           /\ key \in Range(Order) /\ key \in properties
           /\ ParsePropertyPath(key) \in Seq(Tokens) /\ in \o label = ParsePropertyPath(key)
<1>1. key \in Range(Order) /\ key \in properties
  BY DEF Adds, Adding, Range
<1>2. ParsePropertyPath(key) \in Seq(Tokens)
  BY <1>1, ParseType
<1>3. /\ in \in Seq(Tokens) /\ label \in Seq(Tokens) /\ in \o label = ParsePropertyPath(key)
      /\ label = <<>> => in = <<>>
  <2>1. Placed(ParsePropertyPath(key), in, label)
    BY DEF Adds
  <2> QED BY <1>2, <2>1, PlacedWhole, Zenon
<1>4. e.in = in /\ e.label = label /\ e.value = key
  BY DEF Scalar
<1> QED BY <1>1, <1>2, <1>3, <1>4, Zenon DEF Shape

(* The keys a step accounts for. *)
LEMMA AddedNow ==
    ASSUME next \in 1 .. Len(Order), next' = next + 1, UNCHANGED properties
    PROVE  Added' = Added \cup ({Order[next]} \cap properties)
<1>1. Len(Order) \in Nat
  BY DocumentAssumption
<1>2. next \in Nat /\ 1 .. next' - 1 = (1 .. next - 1) \cup {next}
  BY <1>1
<1>3. {Order[i] : i \in 1 .. next' - 1} = {Order[i] : i \in 1 .. next - 1} \cup {Order[next]}
  BY <1>2
<1> QED BY <1>3 DEF Added

(* The empty document satisfies everything. *)
LEMMA InitIInv ==
    ASSUME Init
    PROVE  IInv /\ DocumentIsATree /\ FlatOnlyOnConflict
<1>1. doc = {} /\ next = 1 /\ properties \subseteq Range(Order)
  BY DEF Init
<1>2. 1 \in 1 .. Len(Order) + 1
  BY DocumentAssumption
<1>3. Added = {}
  BY <1>1 DEF Added
<1> QED BY <1>1, <1>2, <1>3
        DEF IInv, TypeOK, EveryPropertyReturned, DocumentIsATree, FlatOnlyOnConflict

(* Every property is returned, once: the step. *)
LEMMA NextIInv ==
    ASSUME IInv, InPlaceOrder(Order), AddNext
    PROVE  IInv'
<1>1. next \in 1 .. Len(Order) /\ Len(Order) \in Nat /\ next' = next + 1 /\ UNCHANGED properties
  BY DocumentAssumption DEF IInv, TypeOK, AddNext
<1>2. next' \in 1 .. Len(Order) + 1
  BY <1>1
<1>3. Added' = Added \cup ({Order[next]} \cap properties)
  BY <1>1, AddedNow
<1>4. CASE Order[next] \notin properties /\ UNCHANGED doc
  <2>1. Added' = Added
    BY <1>3, <1>4
  <2>2. TypeOK'
    BY <1>1, <1>2, <1>4 DEF IInv, TypeOK
  <2>3. EveryPropertyReturned'
    <3>1. {e.value : e \in doc'} = {e.value : e \in doc}
      BY <1>4
    <3> QED BY <1>4, <2>1, <3>1 DEF IInv, EveryPropertyReturned
  <2>4. \A e \in doc' : Shape(e)
    BY <1>4 DEF IInv
  <2> QED BY <2>2, <2>3, <2>4 DEF IInv, Shape
<1>5. ASSUME NEW in, NEW label, Adds(Order[next], in, label) PROVE IInv'
  <2> DEFINE key == Order[next]
             new == Scalar(in, label, key)
  <2>0. new = Scalar(in, label, Order[next])
    OBVIOUS
  <2>2. doc' = doc \cup {new}
    BY <1>5 DEF Adds
  <2> HIDE DEF new
  <2>1. /\ new.in = in /\ new.label = label /\ new.value = key
        /\ key \in properties /\ Shape(new)
    BY <1>5, <2>0, NewScalar
  <2>3. \A e \in doc : e.value # key
    <3> SUFFICES ASSUME NEW e \in doc, e.value = key PROVE FALSE
      OBVIOUS
    <3>1. PICK i \in 1 .. next - 1 : i \in DOMAIN Order /\ e.value = Order[i]
      BY AddedEarlier
    <3>2. next \in DOMAIN Order /\ i # next
      BY <1>1, <3>1, DocumentAssumption
    <3> QED BY <3>1, <3>2, DocumentAssumption
  <2>4. Added' = Added \cup {key}
    BY <1>3, <2>1
  <2> HIDE DEF key
  <2>5. \A e \in doc' : Shape(e)
    BY <2>1, <2>2 DEF IInv
  <2>6. TypeOK'
    <3>1. \A e \in doc' : e.value \in properties'
      BY <1>1, <2>1, <2>2 DEF IInv, TypeOK
    <3>2. \A e \in doc' : e.in \in Seq(Tokens) /\ e.label \in Seq(Tokens)
      BY <2>5 DEF Shape
    <3>3. properties' \subseteq Range(Order)
      BY <1>1 DEF IInv, TypeOK
    <3> QED BY <1>2, <3>1, <3>2, <3>3, Zenon DEF TypeOK
  <2>7. EveryPropertyReturned'
    <3>1. {e.value : e \in doc'} = Added'
      BY <2>1, <2>2, <2>4 DEF IInv, EveryPropertyReturned
    <3>2. \A e, f \in doc' : e.value = f.value => e = f
      BY <2>1, <2>2, <2>3 DEF IInv, EveryPropertyReturned
    <3>3. \A e \in doc' : e.in \o e.label = ParsePropertyPath(e.value)
      BY <2>5 DEF Shape
    <3> QED BY <3>1, <3>2, <3>3, Zenon DEF EveryPropertyReturned
  <2> QED BY <2>5, <2>6, <2>7, Zenon DEF IInv, Shape
<1> QED BY <1>4, <1>5, Steps

-----------------------------------------------------------------------------
(* The shape of the document. *)

(* A scalar lies below the heads of its path, *)
LEMMA BelowCut ==
    ASSUME NEW e, e.in \in Seq(Tokens), NEW p \in Seq(Tokens), Below(e, p)
    PROVE  Len(p) \in 0 .. Len(e.in) /\ p = SubSeq(e.in, 1, Len(p))
<1>1. Len(p) <= Len(e.in) /\ p = SubSeq(e.in, 1, Len(p))
  BY PrefixCut DEF Below
<1>2. Len(p) \in Nat /\ Len(e.in) \in Nat
  OBVIOUS
<1> QED BY <1>1, <1>2

(* and below all of them. *)
LEMMA CutBelow ==
    ASSUME NEW e, e.in \in Seq(Tokens), NEW n \in 0 .. Len(e.in)
    PROVE  /\ SubSeq(e.in, 1, n) \in Seq(Tokens) /\ Len(SubSeq(e.in, 1, n)) = n
           /\ Below(e, SubSeq(e.in, 1, n))
<1>1. SubSeq(e.in, 1, n) \in Seq(Tokens) /\ Len(SubSeq(e.in, 1, n)) = n
  BY Cut
<1>2. n <= Len(e.in)
  OBVIOUS
<1> QED BY <1>1, <1>2, PrefixCut DEF Below

(* Arithmetic of lengths. *)
LEMMA Sums ==
    ASSUME NEW m \in Nat, NEW n \in Nat \ {0}
    PROVE  m + n # 0 /\ n + m # 0 /\ \A k \in 0 .. m : k + 1 \in 1 .. m + n
OBVIOUS

(* A scalar below p has a child token there. *)
LEMMA ChildIsToken ==
    ASSUME NEW e, Shape(e), e.label # <<>>, NEW p \in Seq(Tokens), Below(e, p)
    PROVE  ChildOf(p, e) \in Tokens /\ ChildOf(p, e).isIndex \in BOOLEAN
<1>1. e.in \in Seq(Tokens) /\ e.label \in Seq(Tokens)
  BY DEF Shape
<1>2. Len(p) \in 0 .. Len(e.in)
  BY <1>1, BelowCut
<1>3. Len(e.label) \in Nat \ {0} /\ Len(e.in) \in Nat
  BY <1>1, EmptySeq
<1>4. e.in \o e.label \in Seq(Tokens) /\ Len(e.in \o e.label) = Len(e.in) + Len(e.label)
  BY <1>1, Joined
<1>5. Len(p) + 1 \in 1 .. Len(e.in \o e.label)
  <2>1. Len(p) + 1 \in 1 .. Len(e.in) + Len(e.label)
    BY <1>2, <1>3, Sums, Zenon
  <2> QED BY <1>4, <2>1, Zenon
<1>6. ChildOf(p, e) \in Tokens
  BY <1>4, <1>5, ElementOfSeq DEF ChildOf
<1> QED BY <1>6 DEF Tokens

SameKind(e, f) ==
    \A p \in Seq(Tokens) :
        e.label # <<>> /\ f.label # <<>> /\ Below(e, p) /\ Below(f, p)
            => ChildOf(p, e).isIndex = ChildOf(p, f).isIndex

(* The siblings in a tree are of one kind. *)
LEMMA TreeKinds ==
    ASSUME IInv, DocumentIsATree, NEW e \in doc, NEW f \in doc
    PROVE  SameKind(e, f)
<1> SUFFICES ASSUME NEW p \in Seq(Tokens), e.label # <<>>, f.label # <<>>,
                    Below(e, p), Below(f, p)
             PROVE  ChildOf(p, e).isIndex = ChildOf(p, f).isIndex
  BY DEF SameKind
<1>1. e.in \in Seq(Tokens)
  BY DEF IInv, Shape
<1>2. Len(p) \in 0 .. Len(e.in) /\ p = SubSeq(e.in, 1, Len(p))
  BY <1>1, BelowCut
<1> QED BY <1>2 DEF DocumentIsATree

(* On its way the new key meets no scalar and only containers that fit it. *)
LEMMA Fits ==
    ASSUME IInv, NEW key, NEW in, NEW label, Adds(key, in, label),
           NEW p \in Seq(Tokens), p # <<>>, IsPrefix(p, in)
    PROVE  LET child == ParsePropertyPath(key)[Len(p) + 1]
           IN  /\ \A e \in doc : ~ IsScalarAt(e, p)
               /\ \A e \in doc : Below(e, p) /\ ChildOf(p, e).isIndex => child.isIndex
               /\ \A e \in doc : Below(e, p) /\ child.isIndex
                     => \E f \in doc : Below(f, p) /\ ChildOf(p, f).isIndex
<1> DEFINE t == ParsePropertyPath(key)
           n == Len(p)
<1>1. t \in Seq(Tokens) /\ in \in Seq(Tokens) /\ label \in Seq(Tokens) /\ in \o label = t
  <2>1. t \in Seq(Tokens) /\ Placed(t, in, label)
    BY NewScalar, Zenon DEF Adds
  <2> HIDE DEF t
  <2> QED BY <2>1, PlacedWhole, Zenon
<1>2. n \in 1 .. Len(in) /\ p = SubSeq(in, 1, n)
  <2>1. n <= Len(in) /\ p = SubSeq(in, 1, n)
    BY <1>1, PrefixCut
  <2>2. n \in Nat \ {0} /\ Len(in) \in Nat
    BY <1>1, EmptySeq
  <2> QED BY <2>1, <2>2
<1>3. Placed(t, in, label)
  BY DEF Adds
<1> HIDE DEF t
<1>4. t # <<>>
  <2>1. Len(t) = Len(in) + Len(label)
    BY <1>1, Joined, Zenon
  <2>2. Len(in) + Len(label) # 0
    <3>1. Len(in) \in Nat /\ Len(label) \in Nat
      BY <1>1, LenProperties
    <3>2. Len(in) # 0
      BY <1>2, <3>1
    <3>3. Len(in) \in Nat \ {0}
      BY <3>1, <3>2
    <3> QED BY <3>1, <3>3, Sums, Zenon
  <2>3. Len(<<>>) = 0
    OBVIOUS
  <2> QED BY <2>1, <2>2, <2>3, Zenon
<1>5. p = SubSeq(t, 1, n)
  <2>1. in = SubSeq(t, 1, Len(in)) /\ Len(in) + 1 \in 1 .. Len(t)
    BY <1>1, <1>3, <1>4, PlacedWhole, Zenon
  <2>2. Len(in) \in 0 .. Len(t) /\ n \in 0 .. Len(in)
    BY <1>1, <1>2, <2>1
  <2>3. SubSeq(SubSeq(t, 1, Len(in)), 1, n) = SubSeq(t, 1, n)
    BY <1>1, <2>2, CutAgain
  <2> QED BY <1>2, <2>1, <2>3, Zenon
<1>6. n + 1 \in 2 .. Len(t) /\ n + 1 \notin Conflicts(doc, t)
  BY <1>1, <1>2, <1>3, <1>4, ClearWay
<1>7. KindAt(doc, p) \in {"nil", IF t[n + 1].isIndex THEN "list" ELSE "map"}
  <2>1. (n + 1) - 1 = n
    BY <1>1
  <2> HIDE DEF n
  <2> QED BY <1>5, <1>6, <2>1 DEF Conflicts
<1> HIDE DEF n
<1> DEFINE below == {e \in doc : Below(e, p)}
<1>8. KindAt(doc, p) =
        IF \E e \in doc : IsScalarAt(e, p) THEN "scalar"
        ELSE IF below = {} THEN "nil"
        ELSE IF \E e \in below : ChildOf(p, e).isIndex THEN "list" ELSE "map"
  BY DEF KindAt
<1>9. \A e \in doc : ~ IsScalarAt(e, p)
  BY <1>7, <1>8
<1>10. below # {} => ((\E e \in below : ChildOf(p, e).isIndex) <=> t[n + 1].isIndex)
  <2> HIDE DEF below
  <2> QED BY <1>7, <1>8, <1>9
<1> QED BY <1>9, <1>10 DEF t, n

(* The first token of a key is a name. *)
LEMMA FirstIsName ==
    ASSUME NEW e, Shape(e), e.label # <<>>, e.value \in Range(Order)
    PROVE  ~ ChildOf(<<>>, e).isIndex
<1>1. e.in \in Seq(Tokens) /\ e.label \in Seq(Tokens) /\ e.in \o e.label = ParsePropertyPath(e.value)
  BY DEF Shape
<1>2. ParsePropertyPath(e.value) # <<>>
  <2>1. Len(e.in \o e.label) = Len(e.in) + Len(e.label)
    BY <1>1, Joined, Zenon
  <2>2. Len(e.in) + Len(e.label) # 0
    <3>1. Len(e.in) \in Nat /\ Len(e.label) \in Nat \ {0}
      BY <1>1, EmptySeq
    <3> QED BY <3>1, Sums, Zenon
  <2>3. Len(<<>>) = 0
    OBVIOUS
  <2> QED BY <1>1, <2>1, <2>2, <2>3, Zenon
<1>3. ~ ParsePropertyPath(e.value)[1].isIndex
  BY <1>2, ParseType
<1>4. Len(<<>>) + 1 = 1
  OBVIOUS
<1> QED BY <1>1, <1>3, <1>4, Zenon DEF ChildOf

(* So is the new scalar and those it has for siblings. *)
LEMMA NewKinds ==
    ASSUME IInv, DocumentIsATree, NEW key, NEW in, NEW label, Adds(key, in, label),
           NEW e \in doc
    PROVE  SameKind(e, Scalar(in, label, key)) /\ SameKind(Scalar(in, label, key), e)
<1> DEFINE new == Scalar(in, label, key)
           t == ParsePropertyPath(key)
<1>0. new = Scalar(in, label, key)
  OBVIOUS
<1> HIDE DEF new
<1>1. /\ new.in = in /\ new.label = label /\ new.value = key /\ key \in Range(Order)
      /\ t \in Seq(Tokens) /\ in \o label = t /\ Shape(new)
  BY <1>0, NewScalar
<1> HIDE DEF t
<1> SUFFICES ASSUME NEW p \in Seq(Tokens), e.label # <<>>, new.label # <<>>,
                    Below(e, p), Below(new, p)
             PROVE  ChildOf(p, e).isIndex = ChildOf(p, new).isIndex
  BY DEF SameKind, new
<1>2. Shape(e) /\ e.value \in Range(Order)
  BY DEF IInv, TypeOK
<1>3. ChildOf(p, e).isIndex \in BOOLEAN /\ ChildOf(p, new).isIndex \in BOOLEAN
  BY <1>1, <1>2, ChildIsToken
<1>4. CASE p = <<>>
  <2>1. ~ ChildOf(p, e).isIndex /\ ~ ChildOf(p, new).isIndex
    BY <1>1, <1>2, <1>4, FirstIsName
  <2> QED BY <1>3, <2>1
<1>5. CASE p # <<>>
  <2>1. ChildOf(p, new) = t[Len(p) + 1]
    BY <1>1 DEF ChildOf
  <2>2. IsPrefix(p, in)
    BY <1>1 DEF Below
  <2>3. /\ Below(e, p) /\ ChildOf(p, e).isIndex => t[Len(p) + 1].isIndex
        /\ Below(e, p) /\ t[Len(p) + 1].isIndex
              => \E f \in doc : Below(f, p) /\ ChildOf(p, f).isIndex
    BY <1>5, <2>2, Fits, Zenon DEF t
  <2>4. ASSUME NEW f \in doc, Below(f, p), ChildOf(p, f).isIndex
        PROVE  ChildOf(p, e).isIndex
    <3>1. f.label # <<>>
      <4>1. Shape(f) /\ f.in \in Seq(Tokens)
        BY DEF IInv, Shape
      <4>2. f.in # <<>>
        <5> SUFFICES ASSUME f.in = <<>> PROVE FALSE
          OBVIOUS
        <5>1. Len(p) \in 0 .. Len(f.in)
          BY <2>4, <4>1, BelowCut
        <5>2. Len(p) = 0
          BY <5>1
        <5> QED BY <1>5, <5>2, EmptySeq
      <4> QED BY <4>1, <4>2 DEF Shape
    <3>2. SameKind(e, f)
      BY TreeKinds
    <3>3. ChildOf(p, e).isIndex = ChildOf(p, f).isIndex
      BY <2>4, <3>1, <3>2 DEF SameKind
    <3> QED BY <2>4, <3>3
  <2>5. ChildOf(p, e).isIndex <=> ChildOf(p, new).isIndex
    BY <2>1, <2>3, <2>4
  <2> QED BY <1>3, <2>5
<1> QED BY <1>4, <1>5

(* No scalar has anything below it, the new one included. *)
LEMMA NewBelow ==
    ASSUME IInv, InPlaceOrder(Order), NEW key, NEW in, NEW label, Adds(key, in, label),
           NEW new, new = Scalar(in, label, key)
    PROVE  /\ Len(label) = 1 => ~ Below(new, in \o label)
           /\ \A e \in doc : Len(label) = 1 => ~ Below(e, in \o label)
           /\ \A e \in doc : Len(e.label) = 1 => ~ Below(new, e.in \o e.label)
<1> DEFINE t == ParsePropertyPath(key)
<1>1. /\ new.in = in /\ t \in Seq(Tokens) /\ in \o label = t /\ Shape(new)
      /\ new.label = label
  BY NewScalar
<1>2. in \in Seq(Tokens) /\ label \in Seq(Tokens)
  BY <1>1 DEF Shape
<1>3. Len(in) \in Nat /\ Len(label) \in Nat /\ Len(t) = Len(in) + Len(label)
  BY <1>1, <1>2, Joined, LenProperties
<1>4. ASSUME Len(label) = 1 PROVE ~ Below(new, t)
  <2>1. ~ (Len(t) <= Len(in))
    BY <1>3, <1>4
  <2> HIDE DEF t
  <2> QED BY <1>1, <1>2, <2>1, PrefixCut DEF Below
<1>5. ASSUME Len(label) = 1, NEW e \in doc PROVE ~ Below(e, t)
  <2>1. Len(t) # 0
    BY <1>3, <1>5
  <2>2. t # <<>>
    <3>1. Len(<<>>) = 0
      OBVIOUS
    <3> QED BY <2>1, <3>1, Zenon
  <2> QED BY <2>2, NothingInTheWay DEF Adds
<1>6. ASSUME NEW e \in doc, Len(e.label) = 1, Below(new, e.in \o e.label) PROVE FALSE
  <2> DEFINE p == e.in \o e.label
  <2>1. e.in \in Seq(Tokens) /\ e.label \in Seq(Tokens)
    BY DEF IInv, Shape
  <2>2. p \in Seq(Tokens) /\ Len(p) = Len(e.in) + Len(e.label)
    BY <2>1, Joined
  <2>3. Len(e.in) + Len(e.label) # 0
    <3>1. Len(e.in) \in Nat /\ Len(e.label) \in Nat \ {0}
      BY <1>6, <2>1, LenProperties
    <3> QED BY <3>1, Sums, Zenon
  <2>4. p # <<>>
    <3>1. Len(<<>>) = 0
      OBVIOUS
    <3> QED BY <2>2, <2>3, <3>1, Zenon
  <2>5. IsPrefix(p, in)
    BY <1>1, <1>6 DEF Below
  <2>6. IsScalarAt(e, p)
    BY <1>6 DEF IsScalarAt
  <2> HIDE DEF p
  <2> QED BY <2>2, <2>4, <2>5, <2>6, Fits, Zenon
<1> QED BY <1>1, <1>4, <1>5, <1>6

(* SameKind, for the containers on the way to a scalar. *)
LEMMA KindsMakeTree ==
    ASSUME NEW e, NEW f, Shape(e), SameKind(e, f), NEW n \in 0 .. Len(e.in)
    PROVE  LET p == SubSeq(e.in, 1, n)
           IN  e.label # <<>> /\ f.label # <<>> /\ Below(f, p)
                  => ChildOf(p, e).isIndex = ChildOf(p, f).isIndex
<1> DEFINE p == SubSeq(e.in, 1, n)
<1>1. p \in Seq(Tokens) /\ Below(e, p)
  BY CutBelow DEF Shape
<1> HIDE DEF p
<1>2. e.label # <<>> /\ f.label # <<>> /\ Below(f, p)
         => ChildOf(p, e).isIndex = ChildOf(p, f).isIndex
  BY <1>1 DEF SameKind
<1> QED BY <1>2 DEF p

(* The document stays a tree: the step. *)
LEMMA NextTree ==
    ASSUME IInv, InPlaceOrder(Order), DocumentIsATree, AddNext
    PROVE  DocumentIsATree'
<1>1. CASE UNCHANGED doc
  BY <1>1 DEF DocumentIsATree
<1>2. ASSUME NEW in, NEW label, Adds(Order[next], in, label) PROVE DocumentIsATree'
  <2>1. PICK new : new = Scalar(in, label, Order[next])
    OBVIOUS
  <2>2. doc' = doc \cup {new}
    BY <1>2, <2>1 DEF Adds
  <2>3. new.in = in /\ new.label = label /\ Shape(new)
    BY <1>2, <2>1, NewScalar
  <2>4. ASSUME NEW e \in doc', NEW f \in doc', Len(e.label) = 1
        PROVE  ~ Below(f, e.in \o e.label)
    <3>1. /\ Len(label) = 1 => ~ Below(new, in \o label)
          /\ \A g \in doc : Len(label) = 1 => ~ Below(g, in \o label)
          /\ \A g \in doc : Len(g.label) = 1 => ~ Below(new, g.in \o g.label)
      BY <1>2, <2>1, NewBelow
    <3>2. CASE e \in doc /\ f \in doc
      BY <2>4, <3>2 DEF DocumentIsATree
    <3>3. CASE e = new \/ f = new
      BY <2>2, <2>3, <2>4, <3>1, <3>3
    <3> QED BY <2>2, <3>2, <3>3
  <2>5. ASSUME NEW e \in doc', NEW f \in doc' PROVE SameKind(e, f)
    <3>1. CASE e \in doc /\ f \in doc
      BY <3>1, TreeKinds
    <3>2. CASE e \in doc /\ f = new
      BY <1>2, <2>1, <3>2, NewKinds
    <3>3. CASE e = new /\ f \in doc
      BY <1>2, <2>1, <3>3, NewKinds
    <3>4. CASE e = f
      BY <3>4 DEF SameKind
    <3> QED BY <2>2, <3>1, <3>2, <3>3, <3>4
  <2>6. \A e \in doc' : Shape(e)
    BY <2>2, <2>3 DEF IInv
  <2>7. ASSUME NEW e \in doc', NEW f \in doc', NEW n \in 0 .. Len(e.in)
        PROVE  LET p == SubSeq(e.in, 1, n)
               IN  e.label # <<>> /\ f.label # <<>> /\ Below(f, p)
                      => ChildOf(p, e).isIndex = ChildOf(p, f).isIndex
    BY <2>5, <2>6, KindsMakeTree
  <2> QED BY <2>4, <2>7 DEF DocumentIsATree
<1> QED BY <1>1, <1>2, Steps

(* What a conflict is. *)
LEMMA ConflictMeans ==
    ASSUME NEW t \in Seq(Tokens), NEW i \in Conflicts(doc, t)
    PROVE  \E f \in doc : LET p == SubSeq(t, 1, i - 1)
                          IN  \/ IsScalarAt(f, p)
                              \/ Below(f, p) /\ ChildOf(p, f).isIndex # t[i].isIndex
<1> DEFINE p == SubSeq(t, 1, i - 1)
           below == {f \in doc : Below(f, p)}
<1>1. i \in 2 .. Len(t)
      /\ KindAt(doc, p) \notin {"nil", IF t[i].isIndex THEN "list" ELSE "map"}
  BY DEF Conflicts
<1>2. p # <<>>
  <2>1. i - 1 \in 0 .. Len(t) /\ i - 1 # 0
    BY <1>1
  <2>2. Len(p) = i - 1
    BY <2>1, Cut
  <2>3. Len(<<>>) = 0
    OBVIOUS
  <2> HIDE DEF p
  <2> QED BY <2>1, <2>2, <2>3, Zenon
<1>3. t[i] \in Tokens /\ t[i].isIndex \in BOOLEAN
  <2>1. t[i] \in Tokens
    BY <1>1
  <2> QED BY <2>1 DEF Tokens
<1> HIDE DEF p
<1>4. KindAt(doc, p) =
        IF \E e \in doc : IsScalarAt(e, p) THEN "scalar"
        ELSE IF below = {} THEN "nil"
        ELSE IF \E e \in below : ChildOf(p, e).isIndex THEN "list" ELSE "map"
  BY <1>2 DEF KindAt
<1> HIDE DEF below
<1>5. CASE \E e \in doc : IsScalarAt(e, p)
  BY <1>5 DEF p
<1>6. CASE /\ ~ \E e \in doc : IsScalarAt(e, p)
           /\ \E e \in below : ChildOf(p, e).isIndex
  <2>1. PICK e \in below : ChildOf(p, e).isIndex
    BY <1>6
  <2>2. below # {}
    BY <2>1
  <2>3. KindAt(doc, p) = "list"
    BY <1>4, <1>6, <2>2, Zenon
  <2>4. ~ t[i].isIndex
    BY <1>1, <2>3
  <2>5. ChildOf(p, e).isIndex # t[i].isIndex
    BY <2>1, <2>4
  <2>6. e \in doc /\ Below(e, p)
    BY <2>1 DEF below
  <2> QED BY <2>5, <2>6 DEF p
<1>7. CASE /\ ~ \E e \in doc : IsScalarAt(e, p)
           /\ ~ \E e \in below : ChildOf(p, e).isIndex
  <2>1. below # {} /\ t[i].isIndex
    BY <1>1, <1>4, <1>7
  <2>2. PICK e \in below : ~ ChildOf(p, e).isIndex
    BY <1>7, <2>1
  <2>3. ChildOf(p, e).isIndex # t[i].isIndex
    BY <2>1, <2>2
  <2>4. e \in doc /\ Below(e, p)
    BY <2>2 DEF below
  <2> QED BY <2>3, <2>4 DEF p
<1> QED BY <1>5, <1>6, <1>7, Zenon

(* A key of several tokens is kept flat where a conflict is. *)
LEMMA FlatMeans ==
    ASSUME NEW t \in Seq(Tokens), NEW in, NEW label, Placed(t, in, label), Len(label) > 1
    PROVE  \E i \in Conflicts(doc, t) :
              i - 1 \in Len(in) + 1 .. Len(in) + Len(label) - 1
<1>1. CASE AtTop(t, in, label)
  BY <1>1 DEF AtTop
<1>2. CASE Nested(t, in, label)
  <2>1. t # <<>> /\ label = SubSeq(t, Len(t), Len(t))
    BY <1>2 DEF Nested
  <2>2. Len(label) = 1
    BY <2>1, CutLast
  <2> QED BY <2>2
<1>3. ASSUME NEW i \in 2 .. Len(t), NEW m \in 1 .. Len(t) - 1, FlatAt(t, in, label, i, m)
      PROVE  i \in Conflicts(doc, t) /\ i - 1 \in Len(in) + 1 .. Len(in) + Len(label) - 1
  <2>1. i \in Conflicts(doc, t) /\ m \in 1 .. i - 1 /\ in = SubSeq(t, 1, m - 1)
    BY <1>3 DEF FlatAt
  <2>2. m - 1 \in 0 .. Len(t) /\ Len(t) \in Nat
    BY <1>3
  <2>3. Len(in) = m - 1
    BY <2>1, <2>2, Cut
  <2>4. Len(label) = Len(t) - Len(in)
    <3>1. t # <<>>
      BY <1>3
    <3> QED BY <3>1, PlacedWhole, Zenon
  <2>5. i - 1 \in m .. Len(t) - 1
    BY <2>1, <1>3
  <2>6. Len(in) + 1 = m /\ Len(in) + Len(label) - 1 = Len(t) - 1
    <3>1. (m - 1) + 1 = m /\ (m - 1) + (Len(t) - (m - 1)) - 1 = Len(t) - 1
      BY <2>2
    <3> QED BY <2>3, <2>4, <3>1
  <2> QED BY <2>1, <2>5, <2>6
<1> QED BY <1>1, <1>2, <1>3 DEF Placed

(* Flat keys stay justified, and the new one is: the step. *)
LEMMA NextFlat ==
    ASSUME IInv, InPlaceOrder(Order), FlatOnlyOnConflict, AddNext
    PROVE  FlatOnlyOnConflict'
<1> DEFINE Collides(e, f, n) ==
              LET p == SubSeq(e.in \o e.label, 1, n)
              IN  \/ IsScalarAt(f, p)
                  \/ Below(f, p) /\ ChildOf(p, f).isIndex # ChildOf(p, e).isIndex
           Ways(e) == Len(e.in) + 1 .. Len(e.in) + Len(e.label) - 1
<1>0. /\ \A e \in doc : Len(e.label) > 1 => \E f \in doc : \E n \in Ways(e) : Collides(e, f, n)
      /\ (\A e \in doc' : Len(e.label) > 1 => \E f \in doc' : \E n \in Ways(e) : Collides(e, f, n))
            => FlatOnlyOnConflict'
  BY DEF FlatOnlyOnConflict
<1>1. ASSUME NEW in, NEW label, NEW new, Adds(Order[next], in, label),
             new = Scalar(in, label, Order[next]), Len(label) > 1
      PROVE  \E f \in doc : \E n \in Ways(new) : Collides(new, f, n)
  <2> DEFINE t == ParsePropertyPath(Order[next])
  <2>1. /\ new.in = in /\ new.label = label /\ t \in Seq(Tokens) /\ in \o label = t
    BY <1>1, NewScalar
  <2>2. Placed(t, in, label)
    BY <1>1 DEF Adds
  <2> HIDE DEF t
  <2>3. PICK i \in Conflicts(doc, t) : i - 1 \in Len(in) + 1 .. Len(in) + Len(label) - 1
    BY <1>1, <2>1, <2>2, FlatMeans
  <2> DEFINE p == SubSeq(t, 1, i - 1)
  <2>4. PICK f \in doc : \/ IsScalarAt(f, p)
                         \/ Below(f, p) /\ ChildOf(p, f).isIndex # t[i].isIndex
    BY <2>1, ConflictMeans
  <2>5. ChildOf(p, new) = t[i]
    <3>1. i \in 2 .. Len(t) /\ Len(t) \in Nat
      BY <2>1 DEF Conflicts
    <3>2. i - 1 \in 0 .. Len(t) /\ (i - 1) + 1 = i
      BY <3>1
    <3>3. Len(p) = i - 1
      BY <2>1, <3>2, Cut
    <3> HIDE DEF p
    <3>4. ChildOf(p, new) = t[Len(p) + 1]
      BY <2>1 DEF ChildOf
    <3> QED BY <3>2, <3>3, <3>4
  <2>6. i - 1 \in Ways(new) /\ SubSeq(new.in \o new.label, 1, i - 1) = p
    BY <2>1, <2>3
  <2> HIDE DEF p
  <2>7. Collides(new, f, i - 1)
    BY <2>4, <2>5, <2>6
  <2> QED BY <2>6, <2>7
<1> HIDE DEF Collides, Ways
<1>2. CASE UNCHANGED doc
  BY <1>0, <1>2
<1>3. ASSUME NEW in, NEW label, Adds(Order[next], in, label) PROVE FlatOnlyOnConflict'
  <2>1. PICK new : new = Scalar(in, label, Order[next])
    OBVIOUS
  <2>2. doc' = doc \cup {new}
    BY <1>3, <2>1 DEF Adds
  <2>3. new.label = label
    BY <1>3, <2>1, NewScalar
  <2>4. ASSUME NEW e \in doc', Len(e.label) > 1
        PROVE  \E f \in doc' : \E n \in Ways(e) : Collides(e, f, n)
    <3>1. CASE e \in doc
      BY <1>0, <2>2, <2>4, <3>1
    <3>2. CASE e = new
      BY <1>1, <1>3, <2>1, <2>2, <2>3, <2>4, <3>2
    <3> QED BY <2>2, <3>1, <3>2
  <2> QED BY <1>0, <2>4
<1> QED BY <1>2, <1>3, Steps

-----------------------------------------------------------------------------
(* The whole build. *)
Inv == IInv /\ DocumentIsATree /\ FlatOnlyOnConflict

(* All of it holds in every reachable state. *)
LEMMA Invariance ==
    ASSUME InPlaceOrder(Order)
    PROVE  Spec => []Inv
<1>1. Init => Inv
  BY InitIInv DEF Inv
<1>2. Inv /\ [Next]_vars => Inv'
  <2> SUFFICES ASSUME Inv, [Next]_vars PROVE Inv'
    OBVIOUS
  <2>1. CASE AddNext
    BY <2>1, NextIInv, NextTree, NextFlat DEF Inv
  <2>2. CASE UNCHANGED vars
    <3>1. UNCHANGED <<properties, next, doc>>
      BY <2>2 DEF vars
    <3>2. IInv'
      BY <3>1 DEF Inv, IInv, TypeOK, EveryPropertyReturned, Added, Shape
    <3>3. DocumentIsATree' /\ FlatOnlyOnConflict'
      BY <3>1 DEF Inv, DocumentIsATree, FlatOnlyOnConflict
    <3> QED BY <3>2, <3>3 DEF Inv
  <2> QED BY <2>1, <2>2 DEF Next, Built
<1> QED BY <1>1, <1>2, PTL DEF Spec

(* The scalars of the document lie at paths of well-formed tokens, with    *)
(* list indexes up to maxListIndex.                                        *)
THEOREM TypeCorrect ==
    ASSUME InPlaceOrder(Order)
    PROVE  Spec => []TypeOK
<1>1. Inv => TypeOK
  BY DEF Inv, IInv
<1> QED BY <1>1, Invariance, PTL

(* buildNestedProperties keeps every property, once, at the path its key   *)
(* spells: no property overwrites another.                                 *)
THEOREM PropertiesReturned ==
    ASSUME InPlaceOrder(Order)
    PROVE  Spec => []EveryPropertyReturned
<1>1. Inv => EveryPropertyReturned
  BY DEF Inv, IInv
<1> QED BY <1>1, Invariance, PTL

(* What buildNestedProperties leaves is a JSON document: no value has      *)
(* children, and no container is a map and a list at once.                 *)
THEOREM DocumentWellFormed ==
    ASSUME InPlaceOrder(Order)
    PROVE  Spec => []DocumentIsATree
<1>1. Inv => DocumentIsATree
  BY DEF Inv
<1> QED BY <1>1, Invariance, PTL

(* addNestedProperty keeps a path flat only if another property collides   *)
(* with it.                                                                *)
THEOREM FlatKeysCollide ==
    ASSUME InPlaceOrder(Order)
    PROVE  Spec => []FlatOnlyOnConflict
<1>1. Inv => FlatOnlyOnConflict
  BY DEF Inv
<1> QED BY <1>1, Invariance, PTL

(* Adding a property takes none away that is there already.                *)
THEOREM AddedForGood ==
    ASSUME InPlaceOrder(Order)
    PROVE  Spec => NothingOverwritten
<1>1. Inv /\ [Next]_vars => [\A e \in doc : \E f \in doc' : f.value = e.value]_vars
  <2> SUFFICES ASSUME Inv, Next PROVE \A e \in doc : \E f \in doc' : f.value = e.value
    OBVIOUS
  <2>1. CASE AddNext
    <3>1. doc \subseteq doc'
      BY <2>1, Steps DEF Inv, Adds
    <3> QED BY <3>1
  <2>2. CASE Built
    BY <2>2 DEF Built, vars
  <2> QED BY <2>1, <2>2 DEF Next
<1> QED BY <1>1, Invariance, PTL DEF Spec, NothingOverwritten
=============================================================================
