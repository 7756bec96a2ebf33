------------------------ MODULE Placeholders_proofs ------------------------
(* What resolveProperties makes of an answer, for any properties.          *)
EXTENDS Placeholders, FiniteSetTheorems, SequenceTheorems, WellFoundedInduction, TLAPS

-----------------------------------------------------------------------------
(* Least elements, for induction. *)
LEMMA Least ==
  ASSUME NEW T, T \subseteq Nat, T # {}
  PROVE \E x \in T : \A y \in T : x <= y
<1> DEFINE R == OpToRel(<, Nat)
<1>1. IsWellFoundedOn(R, Nat)
  BY NatLessThanWellFounded, Zenon
<1>2. \A x, y \in Nat : <<y, x>> \in R <=> y < x
  BY DEF OpToRel
<1> HIDE DEF R
<1>3. PICK x \in T : \A y \in T : ~ (<<y, x>> \in R)
  BY <1>1, WFMin
<1>4. \A y \in T : ~ (y < x)
  BY <1>2, <1>3
<1>5. \A y \in T : x <= y
  BY <1>4
<1> QED BY <1>5

-----------------------------------------------------------------------------
(* Matches. *)

(* Following finds the first symbol from i on, or nothing. *)
LEMMA FollowingIs ==
    ASSUME NEW v \in Seq(STRING), NEW i \in Nat \ {0}, NEW symbols
    PROVE  LET f == Following(v, i, symbols)
           IN  \/ f = 0 /\ \A j \in i .. Len(v) : v[j] \notin symbols
               \/ /\ f \in i .. Len(v) /\ v[f] \in symbols
                  /\ \A j \in i .. f - 1 : v[j] \notin symbols
<1> DEFINE at == {j \in i .. Len(v) : v[j] \in symbols}
<1>1. CASE at = {}
  BY <1>1 DEF Following
<1>2. CASE at # {}
  <2>1. at \subseteq Nat
    OBVIOUS
  <2> DEFINE f == CHOOSE j \in at : \A l \in at : j <= l
  <2>2. Following(v, i, symbols) = f
    BY <1>2 DEF Following
  <2>3. f \in at /\ \A l \in at : f <= l
    <3> HIDE DEF at
    <3>1. \E j \in at : \A l \in at : j <= l
      BY <1>2, <2>1, Least
    <3> QED BY <3>1
  <2> HIDE DEF f
  <2>4. f \in i .. Len(v) /\ v[f] \in symbols
    BY <2>3
  <2>5. \A j \in i .. f - 1 : v[j] \notin symbols
    <3> SUFFICES ASSUME NEW j \in i .. f - 1, v[j] \in symbols PROVE FALSE
      OBVIOUS
    <3>1. j \in i .. Len(v) /\ ~ (f <= j)
      BY <2>4
    <3>2. j \in at
      BY <3>1
    <3> QED BY <2>3, <3>1, <3>2
  <2> QED BY <2>2, <2>4, <2>5
<1> QED BY <1>1, <1>2

(* The following is determined by what it says. *)
LEMMA FollowingUnique ==
    ASSUME NEW v \in Seq(STRING), NEW i \in Nat \ {0}, NEW symbols, NEW f,
           \/ f = 0 /\ \A j \in i .. Len(v) : v[j] \notin symbols
           \/ /\ f \in i .. Len(v) /\ v[f] \in symbols
              /\ \A j \in i .. f - 1 : v[j] \notin symbols
    PROVE  Following(v, i, symbols) = f
<1> DEFINE g == Following(v, i, symbols)
<1>1. \/ g = 0 /\ \A j \in i .. Len(v) : v[j] \notin symbols
      \/ /\ g \in i .. Len(v) /\ v[g] \in symbols
         /\ \A j \in i .. g - 1 : v[j] \notin symbols
  BY FollowingIs
<1> HIDE DEF g
<1>2. g = f
  <2>1. CASE f = 0 /\ \A j \in i .. Len(v) : v[j] \notin symbols
    BY <1>1, <2>1
  <2>2. CASE /\ f \in i .. Len(v) /\ v[f] \in symbols
             /\ \A j \in i .. f - 1 : v[j] \notin symbols
    <3>1. CASE g = 0 /\ \A j \in i .. Len(v) : v[j] \notin symbols
      BY <2>2, <3>1
    <3>2. CASE /\ g \in i .. Len(v) /\ v[g] \in symbols
               /\ \A j \in i .. g - 1 : v[j] \notin symbols
      <4>1. ~ (f < g)
        <5> SUFFICES ASSUME f < g PROVE FALSE
          OBVIOUS
        <5>1. f \in i .. g - 1
          BY <2>2, <3>2
        <5> QED BY <2>2, <3>2, <5>1
      <4>2. ~ (g < f)
        <5> SUFFICES ASSUME g < f PROVE FALSE
          OBVIOUS
        <5>1. g \in i .. f - 1
          BY <2>2, <3>2
        <5> QED BY <2>2, <3>2, <5>1
      <4> QED BY <2>2, <3>2, <4>1, <4>2
    <3> QED BY <1>1, <3>1, <3>2
  <2> QED BY <2>1, <2>2
<1> QED BY <1>2 DEF g

(* The match at i: its key ends before e, its default before c.            *)
Delimits(v, i, e, c) ==
    /\ i + 2 <= e /\ e <= c /\ c <= Len(v)
    /\ v[e] \in {":", "}"} /\ v[c] = "}"
    /\ \A j \in i + 1 .. e - 1 : v[j] \notin {":", "}"}
    /\ \A j \in i + 1 .. c - 1 : v[j] \notin {"}"}

Match(v, i, e, c) == [to |-> c, key |-> SubSeq(v, i + 1, e - 1),
                      hasDefault |-> v[e] = ":", default |-> SubSeq(v, e + 1, c - 1)]

(* A match has its ends. *)
LEMMA MatchIs ==
    ASSUME NEW v \in Seq(STRING), NEW i \in 1 .. Len(v), MatchAt(v, i).to # 0
    PROVE  \E e, c \in Nat : Delimits(v, i, e, c) /\ MatchAt(v, i) = Match(v, i, e, c)
<1> DEFINE e == Following(v, i + 1, {":", "}"})
           c == Following(v, i + 1, {"}"})
<1>1. ~ (e <= i + 1 \/ c = 0) /\ MatchAt(v, i) = Match(v, i, e, c)
  BY DEF MatchAt, NoMatch, Match
<1>2. i + 1 \in Nat \ {0} /\ i \in Nat /\ Len(v) \in Nat
  OBVIOUS
<1>3. \/ e = 0 /\ \A j \in i + 1 .. Len(v) : v[j] \notin {":", "}"}
      \/ /\ e \in i + 1 .. Len(v) /\ v[e] \in {":", "}"}
         /\ \A j \in i + 1 .. e - 1 : v[j] \notin {":", "}"}
  BY <1>2, FollowingIs
<1>4. \/ c = 0 /\ \A j \in i + 1 .. Len(v) : v[j] \notin {"}"}
      \/ /\ c \in i + 1 .. Len(v) /\ v[c] \in {"}"}
         /\ \A j \in i + 1 .. c - 1 : v[j] \notin {"}"}
  BY <1>2, FollowingIs
<1> HIDE DEF e, c
<1>5. e # 0
  <2> SUFFICES ASSUME e = 0 PROVE FALSE
    OBVIOUS
  <2>1. e <= i + 1
    BY <1>2
  <2> QED BY <1>1, <2>1
<1>6. /\ e \in i + 1 .. Len(v) /\ v[e] \in {":", "}"}
      /\ \A j \in i + 1 .. e - 1 : v[j] \notin {":", "}"}
  BY <1>3, <1>5
<1>7. /\ c \in i + 1 .. Len(v) /\ v[c] \in {"}"}
      /\ \A j \in i + 1 .. c - 1 : v[j] \notin {"}"}
  BY <1>1, <1>4
<1>8. e \in Nat /\ c \in Nat /\ i + 2 <= e /\ c <= Len(v) /\ i + 1 <= c
  <2>1. e \in Nat /\ c \in Nat /\ c <= Len(v) /\ i + 1 <= c
    <3>1. e \in i + 1 .. Len(v)
      BY <1>6
    <3>2. c \in i + 1 .. Len(v)
      BY <1>7
    <3> QED BY <1>2, <3>1, <3>2
  <2>2. ~ (e <= i + 1)
    BY <1>1
  <2>3. i + 2 <= e
    BY <1>2, <2>1, <2>2
  <2> QED BY <2>1, <2>3
<1>9. e <= c
  <2> SUFFICES ASSUME ~ (e <= c) PROVE FALSE
    OBVIOUS
  <2>1. c \in i + 1 .. e - 1
    BY <1>2, <1>8
  <2>2. v[c] \notin {":", "}"}
    BY <1>6, <2>1
  <2> QED BY <1>7, <2>2
<1>10. v[e] \in {":", "}"} /\ v[c] = "}"
  BY <1>6, <1>7
<1>11. Delimits(v, i, e, c)
  BY <1>6, <1>7, <1>8, <1>9, <1>10 DEF Delimits
<1> QED BY <1>1, <1>8, <1>11

(* What has the ends of a match is that match. *)
LEMMA IsMatch ==
    ASSUME NEW v \in Seq(STRING), NEW i \in 1 .. Len(v), NEW e \in Nat, NEW c \in Nat,
           Delimits(v, i, e, c)
    PROVE  MatchAt(v, i) = Match(v, i, e, c) /\ MatchAt(v, i).to = c /\ c # 0
<1>1. i + 1 \in Nat \ {0} /\ i \in Nat /\ Len(v) \in Nat
  OBVIOUS
<1>2. i + 2 <= e /\ e <= c /\ c <= Len(v)
  BY DEF Delimits
<1>3. e \in i + 1 .. Len(v) /\ c \in i + 1 .. Len(v) /\ ~ (e <= i + 1) /\ c # 0
  BY <1>1, <1>2
<1>4. Following(v, i + 1, {":", "}"}) = e
  <2>1. v[e] \in {":", "}"} /\ \A j \in i + 1 .. e - 1 : v[j] \notin {":", "}"}
    BY DEF Delimits
  <2> QED BY <1>1, <1>3, <2>1, FollowingUnique
<1>5. Following(v, i + 1, {"}"}) = c
  <2>1. v[c] \in {"}"} /\ \A j \in i + 1 .. c - 1 : v[j] \notin {"}"}
    BY DEF Delimits
  <2> QED BY <1>1, <1>3, <2>1, FollowingUnique
<1>6. MatchAt(v, i) = Match(v, i, e, c)
  BY <1>3, <1>4, <1>5 DEF MatchAt, Match
<1>7. Match(v, i, e, c).to = c
  BY DEF Match
<1> QED BY <1>3, <1>6, <1>7

-----------------------------------------------------------------------------
(* The pieces of a text. *)

(* What the first match of a text cuts it into. *)
Before(v) == SubSeq(v, 1, FirstMatch(v) - 1)
FirstAt(v) == MatchAt(v, FirstMatch(v))
Whole(v) == SubSeq(v, FirstMatch(v), FirstAt(v).to)
Rest(v) == SubSeq(v, FirstAt(v).to + 1, Len(v))

(* The first match is the least of the starts. *)
LEMMA FirstMatchIs ==
    ASSUME NEW v \in Seq(STRING), Starts(v) # {}
    PROVE  /\ FirstMatch(v) \in Starts(v)
           /\ \A j \in Starts(v) : FirstMatch(v) <= j
           /\ FirstMatch(v) \in 1 .. Len(v)
           /\ v[FirstMatch(v)] = "${"
           /\ MatchAt(v, FirstMatch(v)).to # 0
<1>1. Starts(v) \subseteq Nat
  <2>1. Starts(v) \subseteq 1 .. Len(v)
    BY Zenon DEF Starts
  <2>2. 1 .. Len(v) \subseteq Nat
    OBVIOUS
  <2> QED BY <2>1, <2>2
<1>2. \E i \in Starts(v) : \A j \in Starts(v) : i <= j
  BY <1>1, Least
<1>3. FirstMatch(v) \in Starts(v) /\ \A j \in Starts(v) : FirstMatch(v) <= j
  BY <1>2 DEF FirstMatch
<1> QED BY <1>3 DEF Starts

(* What a piece of a sequence holds. *)
LEMMA Cuts ==
    ASSUME NEW S, NEW v \in Seq(S), NEW a \in Nat, NEW b \in Nat,
           1 <= a, b <= Len(v), a <= b + 1
    PROVE  SubSeq(v, a, b) \in Seq(S) /\ Len(SubSeq(v, a, b)) = b - a + 1
           /\ \A i \in 1 .. b - a + 1 : SubSeq(v, a, b)[i] = v[a + i - 1]
OBVIOUS

(* A match ends behind its start; its default is shorter than the text. *)
LEMMA MatchType ==
    ASSUME NEW v \in Seq(STRING), NEW i \in 1 .. Len(v), MatchAt(v, i).to # 0
    PROVE  LET m == MatchAt(v, i)
           IN  /\ m.to \in i + 1 .. Len(v)
               /\ m.key \in Seq(STRING) /\ m.default \in Seq(STRING)
               /\ Len(m.default) < Len(v)
               /\ m.hasDefault \in BOOLEAN
<1>1. PICK e \in Nat, c \in Nat : Delimits(v, i, e, c) /\ MatchAt(v, i) = Match(v, i, e, c)
  BY MatchIs
<1> DEFINE m == MatchAt(v, i)
<1>2. m.to = c /\ m.key = SubSeq(v, i + 1, e - 1) /\ m.hasDefault = (v[e] = ":")
      /\ m.default = SubSeq(v, e + 1, c - 1)
  BY <1>1 DEF Match
<1>3. i + 2 <= e /\ e <= c /\ c <= Len(v)
  BY <1>1 DEF Delimits
<1> HIDE DEF m
<1>4. i \in Nat /\ Len(v) \in Nat /\ 1 <= i
  OBVIOUS
<1>5. e - 1 \in Nat /\ i + 1 \in Nat /\ 1 <= i + 1 /\ e - 1 <= Len(v) /\ i + 1 <= (e - 1) + 1
  BY <1>3, <1>4
<1>6. SubSeq(v, i + 1, e - 1) \in Seq(STRING)
  BY <1>5, Cuts
<1>7. v[e] = "}" => e = c
  <2>1. e \in i + 1 .. c - 1 => v[e] # "}"
    BY <1>1 DEF Delimits
  <2>2. e # c => e \in i + 1 .. c - 1
    BY <1>3, <1>4
  <2> QED BY <2>1, <2>2, Zenon
<1>8. SubSeq(v, e + 1, c - 1) \in Seq(STRING) /\ Len(SubSeq(v, e + 1, c - 1)) < Len(v)
  <2>1. CASE e = c
    <3>1. SubSeq(v, e + 1, c - 1) = <<>>
      BY <2>1, <1>3, <1>4
    <3> QED BY <3>1, <1>3, <1>4
  <2>2. CASE e # c
    <3>1. e + 1 \in Nat /\ c - 1 \in Nat /\ 1 <= e + 1 /\ c - 1 <= Len(v) /\ e + 1 <= (c - 1) + 1
      BY <2>2, <1>3, <1>4
    <3>2. (c - 1) - (e + 1) + 1 < Len(v)
      BY <1>3, <1>4
    <3> QED BY <3>1, <3>2, Cuts
  <2> QED BY <2>1, <2>2
<1>9. m.to \in i + 1 .. Len(v)
  BY <1>2, <1>3, <1>4
<1> QED BY <1>2, <1>6, <1>8, <1>9 DEF m

(* The pieces are texts; the default and the rest are shorter. *)
LEMMA FirstType ==
    ASSUME NEW v \in Seq(STRING), Starts(v) # {}
    PROVE  /\ FirstMatch(v) \in 1 .. Len(v)
           /\ FirstAt(v).to \in FirstMatch(v) + 1 .. Len(v)
           /\ Before(v) \in Seq(STRING) /\ Whole(v) \in Seq(STRING) /\ Rest(v) \in Seq(STRING)
           /\ FirstAt(v).key \in Seq(STRING) /\ FirstAt(v).default \in Seq(STRING)
           /\ FirstAt(v).hasDefault \in BOOLEAN
           /\ Len(FirstAt(v).default) < Len(v) /\ Len(Rest(v)) < Len(v)
<1> DEFINE i == FirstMatch(v)
           c == FirstAt(v).to
<1>1. i \in 1 .. Len(v) /\ MatchAt(v, i).to # 0
  BY FirstMatchIs
<1>2. FirstAt(v) = MatchAt(v, i)
  BY DEF FirstAt
<1>3. /\ c \in i + 1 .. Len(v)
      /\ FirstAt(v).key \in Seq(STRING) /\ FirstAt(v).default \in Seq(STRING)
      /\ FirstAt(v).hasDefault \in BOOLEAN
      /\ Len(FirstAt(v).default) < Len(v)
  BY <1>1, <1>2, MatchType
<1>4. Before(v) = SubSeq(v, 1, i - 1) /\ Whole(v) = SubSeq(v, i, c)
      /\ Rest(v) = SubSeq(v, c + 1, Len(v))
  BY DEF Before, Whole, Rest
<1> HIDE DEF i, c
<1>5. i \in Nat /\ c \in Nat /\ Len(v) \in Nat /\ 1 <= i /\ i < c /\ c <= Len(v)
  BY <1>1, <1>3
<1>6. SubSeq(v, 1, i - 1) \in Seq(STRING)
  <2>1. i - 1 \in Nat /\ i - 1 <= Len(v) /\ 1 <= (i - 1) + 1
    BY <1>5
  <2> QED BY <2>1, Cuts
<1>7. SubSeq(v, i, c) \in Seq(STRING)
  <2>1. i <= c + 1
    BY <1>5
  <2> QED BY <1>5, <2>1, Cuts
<1>8. SubSeq(v, c + 1, Len(v)) \in Seq(STRING) /\ Len(SubSeq(v, c + 1, Len(v))) < Len(v)
  <2>1. c + 1 \in Nat /\ 1 <= c + 1 /\ Len(v) <= Len(v) /\ c + 1 <= Len(v) + 1
    BY <1>5
  <2>2. Len(v) - (c + 1) + 1 < Len(v)
    BY <1>5
  <2>3. SubSeq(v, c + 1, Len(v)) \in Seq(STRING)
        /\ Len(SubSeq(v, c + 1, Len(v))) = Len(v) - (c + 1) + 1
    BY <1>5, <2>1, Cuts
  <2> QED BY <2>2, <2>3
<1>9. i \in 1 .. Len(v)
  BY <1>5
<1> QED BY <1>3, <1>4, <1>6, <1>7, <1>8, <1>9 DEF i, c

-----------------------------------------------------------------------------
(* The calls that resolvePropertyValue makes of itself. *)

(* What resolve is called with, for properties with the keys D, and what it returns. *)
Args(D) == Seq(STRING) \X SUBSET D
Results == [ok : BOOLEAN, text : Seq(STRING)]

(* A call is smaller when more keys are being resolved, or as many and the *)
(* text is shorter.                                                        *)
Open(D, x) == Cardinality(D \ x[2])
Smaller(D, y, x) == \/ Open(D, y) < Open(D, x)
                    \/ Open(D, y) = Open(D, x) /\ Len(y[1]) < Len(x[1])

(* The size of a call is two numbers. *)
LEMMA OpenType ==
    ASSUME NEW D, IsFiniteSet(D), NEW x \in Args(D)
    PROVE  Open(D, x) \in Nat /\ Len(x[1]) \in Nat
<1>1. IsFiniteSet(D \ x[2])
  BY FS_Difference, FS_Subset
<1>2. Cardinality(D \ x[2]) \in Nat
  BY <1>1, FS_CardinalityType
<1> QED BY <1>2 DEF Open, Args

(* Smaller is transitive, *)
LEMMA SmallerTrans ==
    ASSUME NEW D, IsFiniteSet(D), NEW x \in Args(D), NEW y \in Args(D), NEW z \in Args(D),
           Smaller(D, x, y), Smaller(D, y, z)
    PROVE  Smaller(D, x, z)
<1>1. /\ Open(D, x) \in Nat /\ Open(D, y) \in Nat /\ Open(D, z) \in Nat
      /\ Len(x[1]) \in Nat /\ Len(y[1]) \in Nat /\ Len(z[1]) \in Nat
  BY OpenType
<1> QED BY <1>1 DEF Smaller

(* and every set of calls has a smallest. *)
LEMMA Minimal ==
    ASSUME NEW D, IsFiniteSet(D), NEW T, T \subseteq Args(D), T # {}
    PROVE  \E x \in T : \A y \in T : ~ Smaller(D, y, x)
<1> DEFINE O == {Open(D, x) : x \in T}
<1>1. \A x \in T : Open(D, x) \in Nat /\ Len(x[1]) \in Nat
  BY OpenType
<1>2. O \subseteq Nat /\ O # {}
  BY <1>1
<1>3. PICK o \in O : \A p \in O : o <= p
  BY <1>2, Least
<1> DEFINE L == {Len(x[1]) : x \in {y \in T : Open(D, y) = o}}
<1>4. L \subseteq Nat /\ L # {}
  BY <1>1, <1>3
<1>5. PICK l \in L : \A p \in L : l <= p
  BY <1>4, Least
<1>6. PICK x \in T : Open(D, x) = o /\ Len(x[1]) = l
  BY <1>5
<1>7. \A y \in T : ~ Smaller(D, y, x)
  <2> SUFFICES ASSUME NEW y \in T, Smaller(D, y, x) PROVE FALSE
    OBVIOUS
  <2>1. o <= Open(D, y)
    BY <1>3
  <2>2. Open(D, y) = o => l <= Len(y[1])
    BY <1>5
  <2>3. o \in Nat /\ l \in Nat /\ Open(D, y) \in Nat /\ Len(y[1]) \in Nat
    BY <1>1, <1>6
  <2> HIDE DEF O, L
  <2> QED BY <1>6, <2>1, <2>2, <2>3 DEF Smaller
<1> QED BY <1>6, <1>7

(* One key more is being resolved. *)
LEMMA OneMore ==
    ASSUME NEW D, IsFiniteSet(D), NEW res \in SUBSET D, NEW k \in D \ res,
           NEW v \in Seq(STRING), NEW w \in Seq(STRING)
    PROVE  /\ <<w, res \cup {k}>> \in Args(D)
           /\ Smaller(D, <<w, res \cup {k}>>, <<v, res>>)
<1>1. IsFiniteSet(D \ res)
  BY FS_Difference, FS_Subset
<1>2. Cardinality((D \ res) \ {k}) = Cardinality(D \ res) - 1 /\ Cardinality(D \ res) \in Nat
  BY <1>1, FS_RemoveElement, FS_CardinalityType
<1>3. (D \ res) \ {k} = D \ (res \cup {k})
  OBVIOUS
<1>4. Cardinality(D \ (res \cup {k})) < Cardinality(D \ res)
  <2>1. Cardinality(D \ (res \cup {k})) = Cardinality(D \ res) - 1
    BY <1>2, <1>3, Zenon
  <2> QED BY <1>2, <2>1
<1>5. <<w, res \cup {k}>> \in Args(D)
  BY DEF Args
<1>6. <<w, res \cup {k}>>[2] = res \cup {k} /\ <<v, res>>[2] = res
  OBVIOUS
<1> QED BY <1>4, <1>5, <1>6 DEF Smaller, Open

(* The text is shorter. *)
LEMMA Shorter ==
    ASSUME NEW D, NEW res \in SUBSET D,
           NEW v \in Seq(STRING), NEW w \in Seq(STRING), Len(w) < Len(v)
    PROVE  /\ <<w, res>> \in Args(D)
           /\ Smaller(D, <<w, res>>, <<v, res>>)
<1>1. <<w, res>> \in Args(D)
  BY DEF Args
<1>2. <<w, res>>[2] = res /\ <<v, res>>[2] = res /\ <<w, res>>[1] = w /\ <<v, res>>[1] = v
  OBVIOUS
<1> QED BY <1>1, <1>2 DEF Smaller, Open

(* A map of properties. *)
IsMap(map) == /\ IsFiniteSet(DOMAIN map)
              /\ \A k \in DOMAIN map : k \in Seq(STRING) /\ map[k] \in Seq(STRING)

(* The body looks at smaller calls only, *)
LEMMA BodyLocal ==
    ASSUME NEW map, IsMap(map), NEW v \in Seq(STRING), NEW res \in SUBSET DOMAIN map,
           NEW g, NEW h,
           \A y \in Args(DOMAIN map) : Smaller(DOMAIN map, y, <<v, res>>) => g[y] = h[y]
    PROVE  ResolvePropertyValue(g, v, map, res) = ResolvePropertyValue(h, v, map, res)
<1> DEFINE D == DOMAIN map
<1>0. IsFiniteSet(D)
  BY DEF IsMap
<1>1. CASE Starts(v) = {}
  BY <1>1 DEF ResolvePropertyValue
<1>2. CASE Starts(v) # {}
  <2> DEFINE m == FirstAt(v)
  <2>1. /\ Rest(v) \in Seq(STRING) /\ Len(Rest(v)) < Len(v)
        /\ m.default \in Seq(STRING) /\ Len(m.default) < Len(v)
    BY <1>2, FirstType
  <2>2. g[<<Rest(v), res>>] = h[<<Rest(v), res>>]
    BY <2>1, Shorter
  <2>3. Replacement(g, m, Whole(v), map, res) = Replacement(h, m, Whole(v), map, res)
    <3>1. CASE m.key \in D /\ m.key \notin res
      <4>1. map[m.key] \in Seq(STRING)
        BY <3>1 DEF IsMap
      <4>2. g[<<map[m.key], res \cup {m.key}>>] = h[<<map[m.key], res \cup {m.key}>>]
        BY <1>0, <3>1, <4>1, OneMore
      <4> HIDE DEF m
      <4> QED BY <3>1, <4>2 DEF Replacement
    <3>2. CASE ~ (m.key \in D /\ m.key \notin res)
      <4>1. g[<<m.default, res>>] = h[<<m.default, res>>]
        BY <2>1, Shorter
      <4> HIDE DEF m
      <4> QED BY <3>2, <4>1 DEF Replacement
    <3> QED BY <3>1, <3>2
  <2>4. \A r : ResolvePropertyValue(r, v, map, res) =
                  Joined(Text(Before(v)),
                         Joined(Replacement(r, m, Whole(v), map, res), r[<<Rest(v), res>>]))
    BY <1>2 DEF ResolvePropertyValue, Before, Whole, Rest, FirstAt
  <2> HIDE DEF m
  <2> QED BY <2>2, <2>3, <2>4
<1> QED BY <1>1, <1>2

(* Results joined are a result. *)
LEMMA ResultsJoined ==
    ASSUME NEW r \in Results, NEW s \in Results
    PROVE  Joined(r, s) \in Results
<1>1. r.text \o s.text \in Seq(STRING)
  BY DEF Results
<1>2. <<>> \in Seq(STRING)
  OBVIOUS
<1> QED BY <1>1, <1>2 DEF Joined, Text, Circular, Results

(* A text is a result. *)
LEMMA TextType ==
    ASSUME NEW v \in Seq(STRING)
    PROVE  Text(v) \in Results
BY DEF Text, Results

(* and gives a result when they do. *)
LEMMA BodyType ==
    ASSUME NEW map, IsMap(map), NEW v \in Seq(STRING), NEW res \in SUBSET DOMAIN map,
           NEW g,
           \A y \in Args(DOMAIN map) : Smaller(DOMAIN map, y, <<v, res>>) => g[y] \in Results
    PROVE  ResolvePropertyValue(g, v, map, res) \in Results
<1> DEFINE D == DOMAIN map
<1>0. IsFiniteSet(D)
  BY DEF IsMap
<1>1. CASE Starts(v) = {}
  BY <1>1, TextType DEF ResolvePropertyValue
<1>2. CASE Starts(v) # {}
  <2> DEFINE m == FirstAt(v)
  <2>1. /\ Rest(v) \in Seq(STRING) /\ Len(Rest(v)) < Len(v)
        /\ Before(v) \in Seq(STRING) /\ Whole(v) \in Seq(STRING)
        /\ m.default \in Seq(STRING) /\ Len(m.default) < Len(v)
    BY <1>2, FirstType
  <2>2. g[<<Rest(v), res>>] \in Results
    BY <2>1, Shorter
  <2>3. Replacement(g, m, Whole(v), map, res) \in Results
    <3>1. CASE m.key \in D /\ m.key \notin res
      <4>1. map[m.key] \in Seq(STRING)
        BY <3>1 DEF IsMap
      <4>2. g[<<map[m.key], res \cup {m.key}>>] \in Results
        BY <1>0, <3>1, <4>1, OneMore
      <4> HIDE DEF m
      <4> QED BY <3>1, <4>2 DEF Replacement
    <3>2. CASE ~ (m.key \in D /\ m.key \notin res)
      <4>1. g[<<m.default, res>>] \in Results
        BY <2>1, Shorter
      <4>2. Text(Whole(v)) \in Results
        BY <2>1, TextType
      <4>3. Circular \in Results
        BY DEF Circular, Results
      <4> HIDE DEF m
      <4> QED BY <3>2, <4>1, <4>2, <4>3 DEF Replacement
    <3> QED BY <3>1, <3>2
  <2>4. ResolvePropertyValue(g, v, map, res) =
                  Joined(Text(Before(v)),
                         Joined(Replacement(g, m, Whole(v), map, res), g[<<Rest(v), res>>]))
    BY <1>2 DEF ResolvePropertyValue, Before, Whole, Rest, FirstAt
  <2>5. Text(Before(v)) \in Results
    BY <2>1, TextType
  <2> HIDE DEF m
  <2> QED BY <2>2, <2>3, <2>4, <2>5, ResultsJoined
<1> QED BY <1>1, <1>2

-----------------------------------------------------------------------------
(* resolvePropertyValue ends. *)

(* resolvePropertyValue ends: the function that calls itself on smaller    *)
(* calls only exists.                                                      *)
Under(D, x) == {y \in Args(D) : y = x \/ Smaller(D, y, x)}

ResolvesUnder(g, map, x) ==
    \A y \in Under(DOMAIN map, x) :
        /\ g[y] = ResolvePropertyValue(g, y[1], map, y[2])
        /\ g[y] \in Results

(* A call is a text and the keys that are being resolved. *)
LEMMA ArgsAre ==
    ASSUME NEW D, NEW x \in Args(D)
    PROVE  x[1] \in Seq(STRING) /\ x[2] \in SUBSET D /\ x = <<x[1], x[2]>>
BY DEF Args

(* The calls under a call are closed under smaller ones. *)
LEMMA UnderTrans ==
    ASSUME NEW D, IsFiniteSet(D), NEW x \in Args(D), NEW y \in Under(D, x), NEW z \in Args(D),
           Smaller(D, z, y)
    PROVE  z \in Under(D, x) /\ Smaller(D, z, x)
<1>1. CASE y = x
  BY <1>1 DEF Under
<1>2. CASE y # x
  <2>1. y \in Args(D) /\ Smaller(D, y, x)
    BY <1>2 DEF Under
  <2>2. Smaller(D, z, x)
    BY <2>1, SmallerTrans
  <2> QED BY <2>2 DEF Under
<1> QED BY <1>1, <1>2

(* Two partial resolvers agree where both say something. *)
LEMMA OneResolver ==
    ASSUME NEW map, IsMap(map), NEW x \in Args(DOMAIN map), NEW y \in Args(DOMAIN map),
           NEW g, NEW h, ResolvesUnder(g, map, x), ResolvesUnder(h, map, y),
           NEW z \in Under(DOMAIN map, x) \cap Under(DOMAIN map, y)
    PROVE  g[z] = h[z]
<1> DEFINE D == DOMAIN map
           T == {w \in Under(D, x) \cap Under(D, y) : g[w] # h[w]}
<1> SUFFICES ASSUME T # {} PROVE FALSE
  OBVIOUS
<1>0. IsFiniteSet(D)
  BY DEF IsMap
<1>1. T \subseteq Args(D)
  BY DEF Under
<1>2. PICK w \in T : \A u \in T : ~ Smaller(D, u, w)
  <2> HIDE DEF T, D
  <2> QED BY <1>0, <1>1, Minimal
<1>3. w \in Under(D, x) /\ w \in Under(D, y) /\ g[w] # h[w] /\ w \in Args(D)
  BY <1>1
<1>4. ASSUME NEW u \in Args(D), Smaller(D, u, w) PROVE g[u] = h[u]
  <2>1. u \in Under(D, x) /\ u \in Under(D, y)
    BY <1>0, <1>3, <1>4, UnderTrans
  <2> QED BY <1>2, <1>4, <2>1
<1>5. w[1] \in Seq(STRING) /\ w[2] \in SUBSET D /\ w = <<w[1], w[2]>>
  BY <1>3, ArgsAre
<1>6. \A u \in Args(D) : Smaller(D, u, <<w[1], w[2]>>) => g[u] = h[u]
  BY <1>4, <1>5, Zenon
<1>7. ResolvePropertyValue(g, w[1], map, w[2]) = ResolvePropertyValue(h, w[1], map, w[2])
  BY <1>5, <1>6, BodyLocal
<1> QED BY <1>3, <1>7 DEF ResolvesUnder

(* What the partial resolvers say, in one function. *)
Partial(map) == [y \in Args(DOMAIN map) |->
                    (CHOOSE g : ResolvesUnder(g, map, y))[y]]

(* Below a call, that function is a resolver. *)
LEMMA PartialExtends ==
    ASSUME NEW map, IsMap(map), NEW x \in Args(DOMAIN map),
           \A y \in Args(DOMAIN map) :
               Smaller(DOMAIN map, y, x) => \E g : ResolvesUnder(g, map, y)
    PROVE  /\ \A y \in Args(DOMAIN map) : Smaller(DOMAIN map, y, x) =>
                 /\ Partial(map)[y] = ResolvePropertyValue(Partial(map), y[1], map, y[2])
                 /\ Partial(map)[y] \in Results
<1> DEFINE D == DOMAIN map
           V == Partial(map)
           G(y) == CHOOSE g : ResolvesUnder(g, map, y)
<1>0. IsFiniteSet(D)
  BY DEF IsMap
<1>1. \A y \in Args(D) : V[y] = G(y)[y]
  BY DEF Partial
<1>2. \A y \in Args(D) : Smaller(D, y, x) => ResolvesUnder(G(y), map, y)
  OBVIOUS
<1> SUFFICES ASSUME NEW y \in Args(D), Smaller(D, y, x)
             PROVE  /\ V[y] = ResolvePropertyValue(V, y[1], map, y[2])
                    /\ V[y] \in Results
  OBVIOUS
<1>9. x \in Args(D)
  OBVIOUS
<1> HIDE DEF V, G, D
<1>3. y \in Under(D, y)
  BY DEF Under
<1>4. G(y)[y] = ResolvePropertyValue(G(y), y[1], map, y[2]) /\ G(y)[y] \in Results
  BY <1>2, <1>3 DEF ResolvesUnder, D
<1>5. y[1] \in Seq(STRING) /\ y[2] \in SUBSET D /\ y = <<y[1], y[2]>>
  BY ArgsAre
<1>6. ASSUME NEW z \in Args(D), Smaller(D, z, y) PROVE G(y)[z] = V[z]
  <2>1. Smaller(D, z, x)
    BY <1>0, <1>6, <1>9, SmallerTrans
  <2>2. ResolvesUnder(G(z), map, z) /\ ResolvesUnder(G(y), map, y)
    BY <1>2, <2>1
  <2>3. z \in Under(D, z) /\ z \in Under(D, y)
    BY <1>6 DEF Under
  <2>4. G(y)[z] = G(z)[z]
    BY <2>2, <2>3, OneResolver DEF D
  <2> QED BY <1>1, <2>4
<1>7. \A z \in Args(D) : Smaller(D, z, <<y[1], y[2]>>) => G(y)[z] = V[z]
  BY <1>5, <1>6, Zenon
<1>8. ResolvePropertyValue(G(y), y[1], map, y[2]) = ResolvePropertyValue(V, y[1], map, y[2])
  BY <1>5, <1>7, BodyLocal DEF D
<1> QED BY <1>1, <1>4, <1>8, Zenon

(* So one exists up to the call. *)
LEMMA Unfolds ==
    ASSUME NEW map, IsMap(map), NEW x \in Args(DOMAIN map),
           \A y \in Args(DOMAIN map) : Smaller(DOMAIN map, y, x) =>
                 /\ Partial(map)[y] = ResolvePropertyValue(Partial(map), y[1], map, y[2])
                 /\ Partial(map)[y] \in Results
    PROVE  \E g : ResolvesUnder(g, map, x)
<1> DEFINE D == DOMAIN map
           V == Partial(map)
           h == [y \in Under(D, x) |->
                   IF y = x THEN ResolvePropertyValue(V, x[1], map, x[2]) ELSE V[y]]
<1>0. IsFiniteSet(D)
  BY DEF IsMap
<1>1. x[1] \in Seq(STRING) /\ x[2] \in SUBSET D /\ x = <<x[1], x[2]>>
  BY ArgsAre
<1>2. \A y \in Args(D) : Smaller(D, y, <<x[1], x[2]>>) => V[y] \in Results
  BY <1>1, Zenon
<1>3. ResolvePropertyValue(V, x[1], map, x[2]) \in Results
  BY <1>1, <1>2, BodyType
<1>4. ~ Smaller(D, x, x)
  <2>1. Open(D, x) \in Nat /\ Len(x[1]) \in Nat
    BY <1>0, OpenType
  <2> QED BY <2>1 DEF Smaller
<1>5. \A y \in Args(D) : Smaller(D, y, x) => y \in Under(D, x) /\ y # x /\ h[y] = V[y]
  BY <1>4 DEF Under
<1>6. h[x] = ResolvePropertyValue(V, x[1], map, x[2])
  BY DEF Under
<1>8. x \in Args(D)
  OBVIOUS
<1> HIDE DEF h, V, D
<1>7. ASSUME NEW y \in Under(D, x)
      PROVE  h[y] = ResolvePropertyValue(h, y[1], map, y[2]) /\ h[y] \in Results
  <2>1. y \in Args(D) /\ y[1] \in Seq(STRING) /\ y[2] \in SUBSET D /\ y = <<y[1], y[2]>>
    BY ArgsAre DEF Under
  <2>2. \A z \in Args(D) : Smaller(D, z, y) => h[z] = V[z]
    BY <1>0, <1>5, <1>7, <1>8, UnderTrans
  <2>3. \A z \in Args(D) : Smaller(D, z, <<y[1], y[2]>>) => h[z] = V[z]
    BY <2>1, <2>2, Zenon
  <2>4. ResolvePropertyValue(h, y[1], map, y[2]) = ResolvePropertyValue(V, y[1], map, y[2])
    BY <2>1, <2>3, BodyLocal DEF D
  <2>5. h[y] = ResolvePropertyValue(V, y[1], map, y[2]) /\ h[y] \in Results
    <3>1. CASE y = x
      BY <3>1, <1>3, <1>6
    <3>2. CASE y # x
      <4>1. Smaller(D, y, x)
        BY <3>2 DEF Under
      <4> QED BY <1>5, <2>1, <4>1 DEF D, V
    <3> QED BY <3>1, <3>2
  <2> QED BY <2>4, <2>5, Zenon
<1> QED BY <1>7 DEF ResolvesUnder, D

(* It is a resolver everywhere. *)
LEMMA ResolverExists ==
    ASSUME NEW map, IsMap(map)
    PROVE  /\ Partial(map) = [x \in Args(DOMAIN map) |->
                                 ResolvePropertyValue(Partial(map), x[1], map, x[2])]
           /\ \A x \in Args(DOMAIN map) : Partial(map)[x] \in Results
<1> DEFINE D == DOMAIN map
           T == {x \in Args(D) : ~ \E g : ResolvesUnder(g, map, x)}
<1>0. IsFiniteSet(D)
  BY DEF IsMap
<1>1. T = {}
  <2> SUFFICES ASSUME T # {} PROVE FALSE
    OBVIOUS
  <2>1. T \subseteq Args(D)
    OBVIOUS
  <2>2. PICK x \in T : \A y \in T : ~ Smaller(D, y, x)
    <3> HIDE DEF T, D
    <3> QED BY <1>0, <2>1, Minimal
  <2>3. \A y \in Args(D) : Smaller(D, y, x) => \E g : ResolvesUnder(g, map, y)
    BY <2>2
  <2>4. x \in Args(D)
    OBVIOUS
  <2>5. \E g : ResolvesUnder(g, map, x)
    <3> HIDE DEF T
    <3> QED BY <2>3, <2>4, PartialExtends, Unfolds
  <2> QED BY <2>5
<1>2. \A y \in Args(D) : \E g : ResolvesUnder(g, map, y)
  BY <1>1
<1>3. ASSUME NEW x \in Args(D)
      PROVE  /\ Partial(map)[x] = ResolvePropertyValue(Partial(map), x[1], map, x[2])
             /\ Partial(map)[x] \in Results
  <2> DEFINE V == Partial(map)
             g == CHOOSE f : ResolvesUnder(f, map, x)
  <2>1. ResolvesUnder(g, map, x)
    BY <1>2
  <2>2. V[x] = g[x]
    BY DEF Partial
  <2> HIDE DEF V, g, T, D
  <2>3. x \in Under(D, x)
    BY DEF Under
  <2>4. g[x] = ResolvePropertyValue(g, x[1], map, x[2]) /\ g[x] \in Results
    BY <2>1, <2>3 DEF ResolvesUnder, D
  <2>5. ASSUME NEW y \in Args(D), Smaller(D, y, x) PROVE g[y] = V[y]
    <3> DEFINE f == CHOOSE f : ResolvesUnder(f, map, y)
    <3>1. ResolvesUnder(f, map, y)
      BY <1>2
    <3>2. V[y] = f[y]
      BY DEF Partial, V, D
    <3> HIDE DEF f
    <3>3. y \in Under(D, y) \cap Under(D, x)
      BY <2>5 DEF Under
    <3> QED BY <2>1, <3>1, <3>2, <3>3, OneResolver DEF D
  <2>6. x[1] \in Seq(STRING) /\ x[2] \in SUBSET D /\ x = <<x[1], x[2]>>
    BY ArgsAre
  <2>7. \A y \in Args(D) : Smaller(D, y, <<x[1], x[2]>>) => g[y] = V[y]
    BY <2>5, <2>6, Zenon
  <2>8. ResolvePropertyValue(g, x[1], map, x[2]) = ResolvePropertyValue(V, x[1], map, x[2])
    BY <2>6, <2>7, BodyLocal DEF D
  <2>9. V[x] = ResolvePropertyValue(V, x[1], map, x[2]) /\ V[x] \in Results
    BY <2>2, <2>4, <2>8, Zenon
  <2> QED BY <2>9 DEF V
<1>4. Partial(map) = [x \in Args(D) |-> Partial(map)[x]]
  BY DEF Partial
<1> HIDE DEF T
<1> QED BY <1>3, <1>4

(* Every call resolves its text as the body says, and returns a result. *)
LEMMA Resolves ==
    ASSUME NEW map, IsMap(map), NEW v \in Seq(STRING), NEW res \in SUBSET DOMAIN map
    PROVE  /\ Resolve(v, map, res) = ResolvePropertyValue(Resolver(map), v, map, res)
           /\ Resolve(v, map, res) \in Results
<1> DEFINE IsResolver(f) == f = [x \in Seq(STRING) \X SUBSET DOMAIN map |->
                                    ResolvePropertyValue(f, x[1], map, x[2])]
<1>1. Resolver(map) = CHOOSE f : IsResolver(f)
  BY DEF Resolver
<1>2. \E f : IsResolver(f)
  <2>1. IsResolver(Partial(map))
    BY ResolverExists, Zenon DEF Args
  <2> QED BY <2>1
<1>3. IsResolver(Resolver(map))
  <2> HIDE DEF IsResolver
  <2> QED BY <1>1, <1>2
<1>4. <<v, res>> \in Args(DOMAIN map) /\ <<v, res>>[1] = v /\ <<v, res>>[2] = res
  BY DEF Args
<1>5. \A x \in Args(DOMAIN map) : Resolver(map)[x] = ResolvePropertyValue(Resolver(map), x[1], map, x[2])
  BY <1>3 DEF Args
<1>6. \A x \in Args(DOMAIN map) : ResolvesUnder(Resolver(map), map, x)
  <2> DEFINE D == DOMAIN map
             T == {x \in Args(D) : Resolver(map)[x] \notin Results}
  <2>1. T = {}
    <3> SUFFICES ASSUME T # {} PROVE FALSE
      OBVIOUS
    <3>1. T \subseteq Args(D)
      OBVIOUS
    <3>2. PICK x \in T : \A y \in T : ~ Smaller(D, y, x)
      <4>1. IsFiniteSet(D)
        BY DEF IsMap
      <4> HIDE DEF T, D
      <4> QED BY <3>1, <4>1, Minimal
    <3>3. x \in Args(D) /\ Resolver(map)[x] \notin Results
      OBVIOUS
    <3>4. \A y \in Args(D) : Smaller(D, y, x) => Resolver(map)[y] \in Results
      BY <3>2
    <3> HIDE DEF T
    <3>5. x[1] \in Seq(STRING) /\ x[2] \in SUBSET D /\ x = <<x[1], x[2]>>
      BY <3>3, ArgsAre
    <3>6. \A y \in Args(D) : Smaller(D, y, <<x[1], x[2]>>) => Resolver(map)[y] \in Results
      BY <3>4, <3>5, Zenon
    <3>7. ResolvePropertyValue(Resolver(map), x[1], map, x[2]) \in Results
      BY <3>5, <3>6, BodyType
    <3> QED BY <1>5, <3>3, <3>7
  <2>2. \A x \in Args(D) : Resolver(map)[x] \in Results
    BY <2>1
  <2> HIDE DEF T
  <2> QED BY <1>5, <2>2 DEF ResolvesUnder, Under
<1>7. <<v, res>> \in Under(DOMAIN map, <<v, res>>)
  BY <1>4 DEF Under
<1>8. /\ Resolver(map)[<<v, res>>] = ResolvePropertyValue(Resolver(map), v, map, res)
      /\ Resolver(map)[<<v, res>>] \in Results
  BY <1>4, <1>6, <1>7 DEF ResolvesUnder
<1> QED BY <1>8 DEF Resolve

-----------------------------------------------------------------------------
(* Matches in different places. *)

(* From i and j on, v and w have the same n words. *)
Agree(v, i, w, j, n) == \A l \in 1 .. n : v[i + l] = w[j + l]

(* Pieces that agree are the same. *)
LEMMA SameCut ==
    ASSUME NEW S, NEW v \in Seq(S), NEW w \in Seq(S), NEW i \in Nat, NEW j \in Nat, NEW n \in Nat,
           i + n <= Len(v), j + n <= Len(w), Agree(v, i, w, j, n)
    PROVE  SubSeq(v, i + 1, i + n) = SubSeq(w, j + 1, j + n)
<1> DEFINE s == SubSeq(v, i + 1, i + n)
           t == SubSeq(w, j + 1, j + n)
<1>1. /\ i + 1 \in Nat /\ i + n \in Nat /\ 1 <= i + 1 /\ i + 1 <= (i + n) + 1
      /\ j + 1 \in Nat /\ j + n \in Nat /\ 1 <= j + 1 /\ j + 1 <= (j + n) + 1
      /\ (i + n) - (i + 1) + 1 = n /\ (j + n) - (j + 1) + 1 = n
  OBVIOUS
<1>2. s \in Seq(S) /\ Len(s) = n /\ \A q \in 1 .. n : s[q] = v[(i + 1) + q - 1]
  BY <1>1, Cuts
<1>3. t \in Seq(S) /\ Len(t) = n /\ \A q \in 1 .. n : t[q] = w[(j + 1) + q - 1]
  BY <1>1, Cuts
<1> HIDE DEF s, t
<1>4. \A q \in 1 .. n : s[q] = t[q]
  <2> SUFFICES ASSUME NEW q \in 1 .. n PROVE s[q] = t[q]
    OBVIOUS
  <2>1. (i + 1) + q - 1 = i + q /\ (j + 1) + q - 1 = j + q
    OBVIOUS
  <2>2. v[i + q] = w[j + q]
    BY DEF Agree
  <2> QED BY <1>2, <1>3, <2>1, <2>2
<1>5. s = t
  BY <1>2, <1>3, <1>4, SeqEqual
<1> QED BY <1>5 DEF s, t

(* A place in a text is a number. *)
LEMMA LenIs ==
    ASSUME NEW v \in Seq(STRING), NEW i \in 1 .. Len(v)
    PROVE  Len(v) \in Nat /\ i \in Nat /\ 1 <= i /\ i <= Len(v)
OBVIOUS

(* Where a match that is moved from i to j has its ends. *)
LEMMA Moved ==
    ASSUME NEW i \in Nat, NEW j \in Nat, NEW e \in Nat, NEW c \in Nat,
           i + 2 <= e, e <= c
    PROVE  LET d == e - i + j
               b == c - i + j
           IN  /\ d \in Nat /\ b \in Nat /\ j + 2 <= d /\ d <= b
               /\ e - i - 1 \in Nat /\ c - i \in Nat
               /\ i + (e - i - 1) = e - 1 /\ j + (e - i - 1) = d - 1
               /\ e - i - 1 <= c - i
               /\ e # c => /\ c - e - 1 \in Nat
                           /\ e + (c - e - 1) = c - 1 /\ d + (c - e - 1) = b - 1
               /\ e = c => d = b
               /\ e - i \in 1 .. c - i /\ c - i \in 1 .. c - i
               /\ j + (e - i) = d /\ j + (c - i) = b /\ i + (e - i) = e /\ i + (c - i) = c
OBVIOUS

(* The ends move along with the words. *)
LEMMA MovedDelimits ==
    ASSUME NEW v \in Seq(STRING), NEW w \in Seq(STRING),
           NEW i \in 1 .. Len(v), NEW j \in 1 .. Len(w), NEW e \in Nat, NEW c \in Nat,
           Delimits(v, i, e, c), c - i + j <= Len(w), Agree(v, i, w, j, c - i)
    PROVE  Delimits(w, j, e - i + j, c - i + j)
<1>1. Len(v) \in Nat /\ Len(w) \in Nat /\ i \in Nat /\ j \in Nat /\ 1 <= i /\ 1 <= j
  BY LenIs
<1>2. i + 2 <= e /\ e <= c /\ c <= Len(v)
  BY DEF Delimits
<1> DEFINE d == e - i + j
           b == c - i + j
<1>3. d \in Nat /\ b \in Nat /\ j + 2 <= d /\ d <= b
  BY <1>1, <1>2, Moved
<1>4. b <= Len(w)
  OBVIOUS
<1>5. \A p \in j + 1 .. b : w[p] = v[p - j + i] /\ p - j + i \in i + 1 .. c
  <2> SUFFICES ASSUME NEW p \in j + 1 .. b PROVE w[p] = v[p - j + i] /\ p - j + i \in i + 1 .. c
    OBVIOUS
  <2> DEFINE l == p - j
  <2>1. l \in 1 .. c - i /\ j + l = p /\ i + l = p - j + i /\ p - j + i \in i + 1 .. c
    BY <1>1, <1>2
  <2> HIDE DEF l
  <2>2. v[i + l] = w[j + l]
    BY <2>1 DEF Agree
  <2> QED BY <2>1, <2>2
<1>6. w[d] = v[e] /\ w[b] = v[c]
  <2>1. d \in j + 1 .. b /\ b \in j + 1 .. b /\ d - j + i = e /\ b - j + i = c
    BY <1>1, <1>2
  <2> HIDE DEF d, b
  <2> QED BY <1>5, <2>1
<1>7. \A p \in j + 1 .. d - 1 : w[p] \notin {":", "}"}
  <2> SUFFICES ASSUME NEW p \in j + 1 .. d - 1 PROVE w[p] \notin {":", "}"}
    OBVIOUS
  <2>1. p \in j + 1 .. b /\ p - j + i \in i + 1 .. e - 1
    BY <1>1, <1>2
  <2>2. v[p - j + i] \notin {":", "}"}
    BY <2>1 DEF Delimits
  <2> HIDE DEF d, b
  <2> QED BY <1>5, <2>1, <2>2
<1>8. \A p \in j + 1 .. b - 1 : w[p] \notin {"}"}
  <2> SUFFICES ASSUME NEW p \in j + 1 .. b - 1 PROVE w[p] \notin {"}"}
    OBVIOUS
  <2>1. p \in j + 1 .. b /\ p - j + i \in i + 1 .. c - 1
    BY <1>1, <1>2
  <2>2. v[p - j + i] \notin {"}"}
    BY <2>1 DEF Delimits
  <2> HIDE DEF d, b
  <2> QED BY <1>5, <2>1, <2>2
<1>9. v[e] \in {":", "}"} /\ v[c] = "}"
  BY DEF Delimits
<1>10. w[d] \in {":", "}"} /\ w[b] = "}"
  BY <1>6, <1>9
<1> HIDE DEF d, b
<1>11. Delimits(w, j, d, b)
  BY <1>3, <1>4, <1>7, <1>8, <1>10 DEF Delimits
<1> QED BY <1>11 DEF d, b

(* The same words make the same match, wherever they are. *)
LEMMA SameMatch ==
    ASSUME NEW v \in Seq(STRING), NEW w \in Seq(STRING),
           NEW i \in 1 .. Len(v), NEW j \in 1 .. Len(w), NEW c \in Nat,
           MatchAt(v, i).to = c, c # 0, c - i + j <= Len(w), Agree(v, i, w, j, c - i)
    PROVE  LET m == MatchAt(v, i)
               n == MatchAt(w, j)
           IN  /\ n.to = c - i + j /\ n.to # 0
               /\ n.key = m.key /\ n.hasDefault = m.hasDefault /\ n.default = m.default
<1>1. PICK e \in Nat, b \in Nat : Delimits(v, i, e, b) /\ MatchAt(v, i) = Match(v, i, e, b)
  BY MatchIs
<1>2. b = c
  BY <1>1 DEF Match
<1>3. Delimits(v, i, e, c) /\ MatchAt(v, i) = Match(v, i, e, c)
  BY <1>1, <1>2
<1>4. Len(v) \in Nat /\ Len(w) \in Nat /\ i \in Nat /\ j \in Nat /\ 1 <= i /\ 1 <= j
  BY LenIs
<1>5. i + 2 <= e /\ e <= c /\ c <= Len(v)
  BY <1>3 DEF Delimits
<1> DEFINE d == e - i + j
           a == c - i + j
           k == e - i - 1
           n == c - e - 1
<1>6. Delimits(w, j, d, a)
  BY <1>3, MovedDelimits
<1>7. /\ d \in Nat /\ a \in Nat /\ j + 2 <= d /\ d <= a
      /\ k \in Nat /\ c - i \in Nat
      /\ i + k = e - 1 /\ j + k = d - 1 /\ k <= c - i
      /\ e # c => n \in Nat /\ e + n = c - 1 /\ d + n = a - 1
      /\ e = c => d = a
      /\ e - i \in 1 .. c - i
      /\ j + (e - i) = d /\ i + (e - i) = e
  BY <1>4, <1>5, Moved
<1>8. a <= Len(w)
  OBVIOUS
<1>9. MatchAt(w, j) = Match(w, j, d, a) /\ MatchAt(w, j).to = a /\ a # 0
  <2> HIDE DEF d, a
  <2> QED BY <1>6, <1>7, IsMatch
<1>10. SubSeq(v, i + 1, i + k) = SubSeq(w, j + 1, j + k)
  <2>1. i + k <= Len(v) /\ j + k <= Len(w)
    BY <1>4, <1>5, <1>7, <1>8
  <2>2. 1 .. k \subseteq 1 .. c - i
    BY <1>7
  <2> HIDE DEF k
  <2>3. Agree(v, i, w, j, k)
    BY <2>2 DEF Agree
  <2> QED BY <1>4, <1>7, <2>1, <2>3, SameCut
<1>11. SubSeq(v, e + 1, c - 1) = SubSeq(w, d + 1, a - 1)
  <2>1. CASE e = c
    <3>1. d = a
      BY <1>7, <2>1
    <3> HIDE DEF d, a
    <3>2. SubSeq(v, e + 1, c - 1) = <<>>
      BY <2>1
    <3>3. SubSeq(w, d + 1, a - 1) = <<>>
      BY <1>7, <3>1
    <3> QED BY <3>2, <3>3
  <2>2. CASE e # c
    <3>1. n \in Nat /\ e + n = c - 1 /\ d + n = a - 1
      BY <1>7, <2>2
    <3>2. e + n <= Len(v) /\ d + n <= Len(w)
      BY <1>4, <1>5, <1>7, <1>8, <3>1
    <3>3. ASSUME NEW l \in 1 .. n PROVE v[e + l] = w[d + l]
      <4>1. (e - i) + l \in 1 .. c - i /\ i + ((e - i) + l) = e + l /\ j + ((e - i) + l) = d + l
        BY <1>4, <1>5, <3>1
      <4> HIDE DEF d
      <4>2. v[i + ((e - i) + l)] = w[j + ((e - i) + l)]
        BY <4>1, Zenon DEF Agree
      <4> QED BY <4>1, <4>2, Zenon
    <3>4. Agree(v, e, w, d, n)
      BY <3>3 DEF Agree
    <3> HIDE DEF n, d, a
    <3>5. SubSeq(v, e + 1, e + n) = SubSeq(w, d + 1, d + n)
      BY <1>7, <3>1, <3>2, <3>4, SameCut
    <3> QED BY <3>1, <3>5, Zenon
  <2> QED BY <2>1, <2>2
<1>12. v[e] = w[d]
  <2>1. v[i + (e - i)] = w[j + (e - i)]
    BY <1>7, Zenon DEF Agree
  <2> QED BY <1>7, <2>1, Zenon
<1>13. SubSeq(v, i + 1, e - 1) = SubSeq(w, j + 1, d - 1)
  BY <1>7, <1>10, Zenon
<1> HIDE DEF d, a
<1>14. Match(w, j, d, a).key = Match(v, i, e, c).key
       /\ Match(w, j, d, a).hasDefault = Match(v, i, e, c).hasDefault
       /\ Match(w, j, d, a).default = Match(v, i, e, c).default
  BY <1>11, <1>12, <1>13 DEF Match
<1> QED BY <1>3, <1>9, <1>14 DEF a

-----------------------------------------------------------------------------
(* Plain texts. *)

(* A placeholder may begin at i. *)
Opens(v, i) == v[i] = "${"

(* It depends on the word there only. *)
LEMMA OpensSame ==
    ASSUME NEW v, NEW w, NEW i, NEW j, v[i] = w[j]
    PROVE  Opens(v, i) <=> Opens(w, j)
BY Zenon DEF Opens

(* The starts are the places where a placeholder begins and ends. *)
LEMMA StartsIs ==
    ASSUME NEW v
    PROVE  \A i : i \in Starts(v) <=> i \in 1 .. Len(v) /\ Opens(v, i) /\ MatchAt(v, i).to # 0
BY Zenon DEF Opens, Starts

(* The placeholder at i holds no other. *)
Clean(v, i) == /\ MatchAt(v, i).to # 0
               /\ \A j \in i + 1 .. MatchAt(v, i).to : ~ Opens(v, j)

(* In a plain text every placeholder is clean. *)
LEMMA PlainIs ==
    ASSUME NEW v
    PROVE  Plain(v) <=> \A i \in 1 .. Len(v) : Opens(v, i) => Clean(v, i)
BY Zenon DEF Plain, Opens, Clean

(* A text that nothing in D can resolve any further. *)
Dead(v, D) == \A i \in 1 .. Len(v) :
                 Opens(v, i) => /\ Clean(v, i)
                                /\ MatchAt(v, i).key \notin D /\ ~ MatchAt(v, i).hasDefault

Wordy(v) == \A i \in 1 .. Len(v) : ~ Opens(v, i)

(* w is what v holds behind its first n words. *)
Holds(v, n, w) == n + Len(w) <= Len(v) /\ \A j \in 1 .. Len(w) : v[n + j] = w[j]

(* A text without placeholders is resolved already. *)
LEMMA WordyIs ==
    ASSUME NEW v \in Seq(STRING), Wordy(v), NEW D
    PROVE  Starts(v) = {} /\ Plain(v) /\ Dead(v, D)
BY StartsIs, PlainIs DEF Wordy, Dead

(* A text that nothing resolves is plain. *)
LEMMA DeadPlain ==
    ASSUME NEW v \in Seq(STRING), NEW D, Dead(v, D)
    PROVE  Plain(v)
BY PlainIs DEF Dead

(* A placeholder of a plain text is a match that holds no other. *)
LEMMA PlainStarts ==
    ASSUME NEW v \in Seq(STRING), Plain(v), NEW i \in 1 .. Len(v), Opens(v, i)
    PROVE  i \in Starts(v) /\ MatchAt(v, i).to # 0
           /\ MatchAt(v, i).to \in i + 1 .. Len(v)
           /\ \A j \in i + 1 .. MatchAt(v, i).to : ~ Opens(v, j)
BY MatchType, StartsIs, PlainIs DEF Clean

(* Where the words of w are in v. *)
LEMMA HoldsAt ==
    ASSUME NEW v \in Seq(STRING), NEW w \in Seq(STRING), NEW n \in Nat, Holds(v, n, w)
    PROVE  /\ n + Len(w) <= Len(v)
           /\ \A j \in 1 .. Len(w) : n + j \in 1 .. Len(v) /\ v[n + j] = w[j]
<1>1. Len(v) \in Nat /\ Len(w) \in Nat /\ n + Len(w) <= Len(v)
  BY DEF Holds
<1>2. \A j \in 1 .. Len(w) : v[n + j] = w[j]
  BY DEF Holds
<1>3. \A j \in 1 .. Len(w) : n + j \in 1 .. Len(v)
  BY <1>1
<1> QED BY <1>1, <1>2, <1>3

(* The match at i, and j the same place of the other text. *)
LEMMA CleanMoves ==
    ASSUME NEW v \in Seq(STRING), NEW w \in Seq(STRING),
           NEW i \in 1 .. Len(v), NEW j \in 1 .. Len(w), Clean(v, i),
           NEW c \in Nat, MatchAt(v, i).to = c, c - i + j <= Len(w), Agree(v, i, w, j, c - i)
    PROVE  /\ Clean(w, j)
           /\ MatchAt(w, j).key = MatchAt(v, i).key
           /\ MatchAt(w, j).hasDefault = MatchAt(v, i).hasDefault
<1>1. c # 0 /\ \A l \in i + 1 .. c : ~ Opens(v, l)
  BY DEF Clean
<1>2. /\ MatchAt(w, j).to = c - i + j /\ MatchAt(w, j).to # 0
      /\ MatchAt(w, j).key = MatchAt(v, i).key
      /\ MatchAt(w, j).hasDefault = MatchAt(v, i).hasDefault
  BY <1>1, SameMatch
<1>3. \A p \in j + 1 .. c - i + j : ~ Opens(w, p)
  <2> SUFFICES ASSUME NEW p \in j + 1 .. c - i + j PROVE ~ Opens(w, p)
    OBVIOUS
  <2>1. p - j \in 1 .. c - i /\ j + (p - j) = p /\ i + (p - j) \in i + 1 .. c
    BY LenIs
  <2>2. v[i + (p - j)] = w[j + (p - j)]
    BY <2>1, Zenon DEF Agree
  <2>3. ~ Opens(v, i + (p - j))
    BY <1>1, <2>1
  <2> QED BY <2>1, <2>2, <2>3, OpensSame
<1> QED BY <1>2, <1>3 DEF Clean

(* A placeholder of a plain text is one of every text that holds it, *)
LEMMA Outward ==
    ASSUME NEW v \in Seq(STRING), NEW w \in Seq(STRING), NEW n \in Nat, Holds(v, n, w),
           Plain(w), NEW j \in 1 .. Len(w), Opens(w, j)
    PROVE  /\ n + j \in 1 .. Len(v) /\ Opens(v, n + j) /\ Clean(v, n + j)
           /\ MatchAt(v, n + j).key = MatchAt(w, j).key
           /\ MatchAt(v, n + j).hasDefault = MatchAt(w, j).hasDefault
<1>1. n + j \in 1 .. Len(v) /\ Opens(v, n + j)
  <2>1. n + j \in 1 .. Len(v) /\ v[n + j] = w[j]
    BY HoldsAt
  <2> QED BY <2>1, OpensSame
<1>2. Clean(w, j)
  BY PlainIs
<1>3. PICK c : MatchAt(w, j).to = c
  OBVIOUS
<1>4. c \in j + 1 .. Len(w)
  BY <1>3, PlainStarts
<1>5. n + Len(w) <= Len(v)
  BY HoldsAt
<1>6. Len(v) \in Nat /\ Len(w) \in Nat /\ j \in Nat /\ 1 <= j /\ j <= Len(w)
  BY LenIs
<1>7. c \in Nat /\ c - j + (n + j) <= Len(v) /\ c <= Len(w)
  BY <1>4, <1>5, <1>6
<1>8. \A l \in 1 .. c - j : j + l \in 1 .. Len(w) /\ n + (j + l) = (n + j) + l
  BY <1>6, <1>7
<1>9. \A l \in 1 .. c - j : v[(n + j) + l] = w[j + l]
  BY <1>8, HoldsAt
<1>10. Agree(w, j, v, n + j, c - j)
  BY <1>9 DEF Agree
<1> QED BY <1>1, <1>2, <1>3, <1>7, <1>10, CleanMoves

(* and a placeholder of a plain text is one of what the text ends in. *)
LEMMA Inward ==
    ASSUME NEW v \in Seq(STRING), NEW w \in Seq(STRING), NEW n \in Nat, Holds(v, n, w),
           Plain(v), NEW j \in 1 .. Len(w), Opens(w, j), MatchAt(v, n + j).to <= n + Len(w)
    PROVE  /\ n + j \in 1 .. Len(v) /\ Opens(v, n + j) /\ Clean(w, j)
           /\ MatchAt(v, n + j).key = MatchAt(w, j).key
           /\ MatchAt(v, n + j).hasDefault = MatchAt(w, j).hasDefault
<1>1. n + j \in 1 .. Len(v) /\ Opens(v, n + j)
  <2>1. n + j \in 1 .. Len(v) /\ v[n + j] = w[j]
    BY HoldsAt
  <2> QED BY <2>1, OpensSame
<1>2. Clean(v, n + j)
  BY <1>1, PlainIs
<1>3. PICK c : MatchAt(v, n + j).to = c
  OBVIOUS
<1>4. c \in (n + j) + 1 .. Len(v)
  BY <1>1, <1>3, PlainStarts
<1>5. n + Len(w) <= Len(v) /\ c <= n + Len(w)
  BY <1>3, HoldsAt
<1>6. Len(v) \in Nat /\ Len(w) \in Nat /\ j \in Nat /\ 1 <= j /\ j <= Len(w)
  BY LenIs
<1>7. c \in Nat /\ c - (n + j) + j <= Len(w)
  BY <1>4, <1>5, <1>6
<1>8. \A l \in 1 .. c - (n + j) : j + l \in 1 .. Len(w) /\ n + (j + l) = (n + j) + l
  BY <1>6, <1>7
<1>9. \A l \in 1 .. c - (n + j) : v[(n + j) + l] = w[j + l]
  BY <1>8, HoldsAt
<1>10. Agree(v, n + j, w, j, c - (n + j))
  BY <1>9 DEF Agree
<1>11. /\ Clean(w, j)
       /\ MatchAt(w, j).key = MatchAt(v, n + j).key
       /\ MatchAt(w, j).hasDefault = MatchAt(v, n + j).hasDefault
  BY <1>1, <1>2, <1>3, <1>7, <1>10, CleanMoves
<1> QED BY <1>1, <1>11

(* A concatenation, word by word. *)
LEMMA ConcatIs ==
    ASSUME NEW a \in Seq(STRING), NEW b \in Seq(STRING), NEW v, v = a \o b
    PROVE  /\ v \in Seq(STRING) /\ Len(v) = Len(a) + Len(b)
           /\ \A i \in 1 .. Len(a) : v[i] = a[i]
           /\ \A i \in Len(a) + 1 .. Len(a) + Len(b) : v[i] = b[i - Len(a)]
BY ConcatProperties

(* What a concatenation holds. *)
LEMMA JoinedHolds ==
    ASSUME NEW a \in Seq(STRING), NEW b \in Seq(STRING)
    PROVE  /\ a \o b \in Seq(STRING)
           /\ Holds(a \o b, 0, a) /\ Holds(a \o b, Len(a), b)
           /\ \A i \in 1 .. Len(a \o b) :
                 \/ i \in 1 .. Len(a) /\ (a \o b)[i] = a[i]
                 \/ \E j \in 1 .. Len(b) : i = Len(a) + j /\ (a \o b)[i] = b[j]
<1>2. PICK v : v = a \o b
  OBVIOUS
<1>1. /\ v \in Seq(STRING) /\ Len(v) = Len(a) + Len(b)
      /\ \A i \in 1 .. Len(a) : v[i] = a[i]
      /\ \A i \in Len(a) + 1 .. Len(a) + Len(b) : v[i] = b[i - Len(a)]
  BY <1>2, ConcatIs
<1>3. Len(a) \in Nat /\ Len(b) \in Nat
  OBVIOUS
<1>4. \A j \in 1 .. Len(a) : v[0 + j] = a[j]
  BY <1>1, <1>2
<1>5. \A j \in 1 .. Len(b) : v[Len(a) + j] = b[j]
  <2> SUFFICES ASSUME NEW j \in 1 .. Len(b) PROVE v[Len(a) + j] = b[j]
    OBVIOUS
  <2>1. Len(a) + j \in Len(a) + 1 .. Len(a) + Len(b) /\ Len(a) + j - Len(a) = j
    BY <1>3
  <2> QED BY <1>1, <1>2, <2>1
<1>6. ASSUME NEW i \in 1 .. Len(v)
      PROVE  \/ i \in 1 .. Len(a) /\ v[i] = a[i]
             \/ \E j \in 1 .. Len(b) : i = Len(a) + j /\ v[i] = b[j]
  <2>1. CASE i \in 1 .. Len(a)
    BY <1>1, <1>2, <2>1
  <2>2. CASE i \notin 1 .. Len(a)
    <3>1. Len(v) = Len(a) + Len(b)
      BY <1>1, <1>2
    <3>2. i - Len(a) \in 1 .. Len(b) /\ i = Len(a) + (i - Len(a))
      BY <1>3, <2>2, <3>1
    <3>3. v[Len(a) + (i - Len(a))] = b[i - Len(a)]
      BY <1>5, <3>2
    <3> QED BY <3>2, <3>3
  <2> QED BY <2>1, <2>2
<1>7. 0 + Len(a) <= Len(v) /\ Len(a) + Len(b) <= Len(v)
  BY <1>1, <1>2, <1>3
<1>8. Holds(v, 0, a) /\ Holds(v, Len(a), b)
  BY <1>4, <1>5, <1>7 DEF Holds
<1> QED BY <1>1, <1>2, <1>6, <1>8

(* Texts that nothing resolves stay so side by side. *)
LEMMA DeadJoined ==
    ASSUME NEW a \in Seq(STRING), NEW b \in Seq(STRING), NEW D, Dead(a, D), Dead(b, D)
    PROVE  a \o b \in Seq(STRING) /\ Dead(a \o b, D)
<1>1. PICK v : v = a \o b
  OBVIOUS
<1>2. /\ v \in Seq(STRING) /\ Holds(v, 0, a) /\ Holds(v, Len(a), b)
      /\ \A i \in 1 .. Len(v) :
            \/ i \in 1 .. Len(a) /\ v[i] = a[i]
            \/ \E j \in 1 .. Len(b) : i = Len(a) + j /\ v[i] = b[j]
  BY <1>1, JoinedHolds
<1>3. Plain(a) /\ Plain(b)
  BY DeadPlain
<1>4. ASSUME NEW i \in 1 .. Len(v), Opens(v, i)
      PROVE  Clean(v, i) /\ MatchAt(v, i).key \notin D /\ ~ MatchAt(v, i).hasDefault
  <2>1. CASE i \in 1 .. Len(a) /\ v[i] = a[i]
    <3>1. Opens(a, i) /\ 0 + i = i /\ 0 \in Nat
      BY <1>4, <2>1, OpensSame
    <3>2. /\ Clean(v, 0 + i)
          /\ MatchAt(v, 0 + i).key = MatchAt(a, i).key
          /\ MatchAt(v, 0 + i).hasDefault = MatchAt(a, i).hasDefault
      BY <1>2, <1>3, <2>1, <3>1, Outward
    <3>3. MatchAt(a, i).key \notin D /\ ~ MatchAt(a, i).hasDefault
      BY <2>1, <3>1 DEF Dead
    <3> QED BY <3>1, <3>2, <3>3, Zenon
  <2>2. ASSUME NEW j \in 1 .. Len(b), i = Len(a) + j, v[i] = b[j]
        PROVE  Clean(v, i) /\ MatchAt(v, i).key \notin D /\ ~ MatchAt(v, i).hasDefault
    <3>1. Opens(b, j) /\ Len(a) \in Nat
      BY <1>4, <2>2, OpensSame
    <3>2. /\ Clean(v, Len(a) + j)
          /\ MatchAt(v, Len(a) + j).key = MatchAt(b, j).key
          /\ MatchAt(v, Len(a) + j).hasDefault = MatchAt(b, j).hasDefault
      BY <1>2, <1>3, <3>1, Outward
    <3>3. MatchAt(b, j).key \notin D /\ ~ MatchAt(b, j).hasDefault
      BY <3>1 DEF Dead
    <3> QED BY <2>2, <3>2, <3>3, Zenon
  <2> QED BY <1>2, <2>1, <2>2
<1>5. Dead(v, D)
  BY <1>4 DEF Dead
<1> QED BY <1>1, <1>2, <1>5

-----------------------------------------------------------------------------
(* The pieces of a plain text. *)

(* A plain text without a match has no placeholder. *)
LEMMA NoStarts ==
    ASSUME NEW v \in Seq(STRING), Plain(v), Starts(v) = {}
    PROVE  Wordy(v)
BY PlainStarts DEF Wordy

(* Where the pieces of a text lie. *)
LEMMA Pieces ==
    ASSUME NEW v \in Seq(STRING), Starts(v) # {}, NEW i, i = FirstMatch(v), NEW c, c = FirstAt(v).to
    PROVE  /\ i \in 1 .. Len(v) /\ c \in i + 1 .. Len(v) /\ MatchAt(v, i) = FirstAt(v)
           /\ Opens(v, i) /\ \A j \in Starts(v) : i <= j
           /\ Before(v) \in Seq(STRING) /\ Len(Before(v)) = i - 1
           /\ \A j \in 1 .. i - 1 : Before(v)[j] = v[j]
           /\ Whole(v) \in Seq(STRING) /\ Len(Whole(v)) = c - i + 1
           /\ i - 1 \in Nat /\ Holds(v, i - 1, Whole(v))
           /\ Rest(v) \in Seq(STRING) /\ Len(Rest(v)) = Len(v) - c
           /\ c \in Nat /\ Holds(v, c, Rest(v))
<1>1. i \in 1 .. Len(v) /\ c \in i + 1 .. Len(v)
  BY FirstType
<1>2. Len(v) \in Nat /\ i \in Nat /\ c \in Nat /\ 1 <= i /\ i < c /\ c <= Len(v)
  BY <1>1
<1>3. MatchAt(v, i) = FirstAt(v)
  BY DEF FirstAt
<1>4. Opens(v, i) /\ \A j \in Starts(v) : i <= j
  BY FirstMatchIs, StartsIs
<1>5. Before(v) = SubSeq(v, 1, i - 1) /\ Whole(v) = SubSeq(v, i, c) /\ Rest(v) = SubSeq(v, c + 1, Len(v))
  BY DEF Before, Whole, Rest
<1>6. /\ SubSeq(v, 1, i - 1) \in Seq(STRING) /\ Len(SubSeq(v, 1, i - 1)) = i - 1
      /\ \A j \in 1 .. i - 1 : SubSeq(v, 1, i - 1)[j] = v[j]
  <2>1. 1 \in Nat /\ i - 1 \in Nat /\ 1 <= 1 /\ i - 1 <= Len(v) /\ 1 <= (i - 1) + 1 /\ (i - 1) - 1 + 1 = i - 1
    BY <1>2
  <2>2. /\ SubSeq(v, 1, i - 1) \in Seq(STRING) /\ Len(SubSeq(v, 1, i - 1)) = (i - 1) - 1 + 1
        /\ \A j \in 1 .. (i - 1) - 1 + 1 : SubSeq(v, 1, i - 1)[j] = v[1 + j - 1]
    BY <2>1, Cuts
  <2>3. \A j \in 1 .. i - 1 : 1 + j - 1 = j
    OBVIOUS
  <2> QED BY <2>1, <2>2, <2>3
<1>7. /\ SubSeq(v, i, c) \in Seq(STRING) /\ Len(SubSeq(v, i, c)) = c - i + 1
      /\ \A j \in 1 .. c - i + 1 : v[(i - 1) + j] = SubSeq(v, i, c)[j]
  <2>1. i <= c + 1
    BY <1>2
  <2>2. /\ SubSeq(v, i, c) \in Seq(STRING) /\ Len(SubSeq(v, i, c)) = c - i + 1
        /\ \A j \in 1 .. c - i + 1 : SubSeq(v, i, c)[j] = v[i + j - 1]
    BY <1>2, <2>1, Cuts
  <2>3. \A j \in 1 .. c - i + 1 : i + j - 1 = (i - 1) + j
    BY <1>2
  <2> QED BY <2>2, <2>3
<1>8. /\ SubSeq(v, c + 1, Len(v)) \in Seq(STRING) /\ Len(SubSeq(v, c + 1, Len(v))) = Len(v) - c
      /\ \A j \in 1 .. Len(v) - c : v[c + j] = SubSeq(v, c + 1, Len(v))[j]
  <2>0. PICK n : n = Len(v)
    OBVIOUS
  <2>1. /\ n \in Nat /\ c + 1 \in Nat /\ 1 <= c + 1 /\ n <= Len(v) /\ c + 1 <= n + 1
        /\ n - (c + 1) + 1 = n - c
    BY <1>2, <2>0
  <2>2. /\ SubSeq(v, c + 1, n) \in Seq(STRING) /\ Len(SubSeq(v, c + 1, n)) = n - (c + 1) + 1
        /\ \A j \in 1 .. n - (c + 1) + 1 : SubSeq(v, c + 1, n)[j] = v[(c + 1) + j - 1]
    BY <2>1, Cuts
  <2>3. \A j \in 1 .. Len(v) - c : (c + 1) + j - 1 = c + j
    BY <1>2
  <2> QED BY <2>0, <2>1, <2>2, <2>3
<1>9. i - 1 \in Nat /\ (i - 1) + (c - i + 1) <= Len(v) /\ c + (Len(v) - c) <= Len(v)
  BY <1>2
<1>10. Holds(v, i - 1, Whole(v)) /\ Holds(v, c, Rest(v))
  BY <1>5, <1>7, <1>8, <1>9 DEF Holds
<1> QED BY <1>1, <1>2, <1>3, <1>4, <1>5, <1>6, <1>7, <1>8, <1>9, <1>10

(* The pieces together are the text. *)
LEMMA Together ==
    ASSUME NEW v \in Seq(STRING), Starts(v) # {}
    PROVE  Before(v) \o (Whole(v) \o Rest(v)) = v
<1> DEFINE i == FirstMatch(v)
           c == FirstAt(v).to
           b == Before(v)
           w == Whole(v)
           r == Rest(v)
<1>1. /\ i \in 1 .. Len(v) /\ c \in i + 1 .. Len(v)
      /\ b \in Seq(STRING) /\ Len(b) = i - 1
      /\ \A j \in 1 .. i - 1 : b[j] = v[j]
      /\ w \in Seq(STRING) /\ Len(w) = c - i + 1
      /\ i - 1 \in Nat /\ Holds(v, i - 1, w)
      /\ r \in Seq(STRING) /\ Len(r) = Len(v) - c
      /\ c \in Nat /\ Holds(v, c, r)
  BY Pieces
<1> HIDE DEF i, c, b, w, r
<1>0. b \in Seq(STRING) /\ w \in Seq(STRING) /\ r \in Seq(STRING)
  BY <1>1
<1>2. Len(v) \in Nat /\ i \in Nat /\ c \in Nat /\ 1 <= i /\ i < c /\ c <= Len(v)
  BY <1>1
<1>4. PICK x : x = w \o r
  OBVIOUS
<1>3. /\ x \in Seq(STRING) /\ Len(x) = Len(w) + Len(r)
      /\ \A j \in 1 .. Len(w) : x[j] = w[j]
      /\ \A j \in Len(w) + 1 .. Len(w) + Len(r) : x[j] = r[j - Len(w)]
  BY <1>0, <1>4, ConcatIs
<1>6. PICK y : y = b \o x
  OBVIOUS
<1>5. /\ y \in Seq(STRING) /\ Len(y) = Len(b) + Len(x)
      /\ \A j \in 1 .. Len(b) : y[j] = b[j]
      /\ \A j \in Len(b) + 1 .. Len(b) + Len(x) : y[j] = x[j - Len(b)]
  <2>1. x \in Seq(STRING)
    BY <1>3
  <2> QED BY <1>0, <1>6, <2>1, ConcatIs
<1>7. Len(x) = Len(v) - i + 1 /\ Len(y) = Len(v) /\ y \in Seq(STRING)
  <2>1. Len(x) = (c - i + 1) + (Len(v) - c)
    BY <1>1, <1>3, <1>4
  <2>2. Len(x) = Len(v) - i + 1
    BY <1>2, <2>1
  <2>3. Len(y) = (i - 1) + (Len(v) - i + 1) /\ y \in Seq(STRING)
    BY <1>1, <1>5, <1>6, <2>2
  <2> QED BY <1>2, <2>2, <2>3
<1>8. ASSUME NEW j \in 1 .. Len(v) PROVE y[j] = v[j]
  <2>1. CASE j <= i - 1
    <3>1. j \in 1 .. i - 1
      BY <1>2, <2>1
    <3>2. y[j] = b[j] /\ b[j] = v[j]
      BY <1>1, <1>5, <1>6, <3>1
    <3> QED BY <3>2
  <2>2. CASE i <= j /\ j <= c
    <3>1. /\ j \in (i - 1) + 1 .. (i - 1) + (Len(v) - i + 1) /\ j - (i - 1) \in 1 .. c - i + 1
          /\ (i - 1) + (j - (i - 1)) = j
      BY <1>2, <2>2
    <3>2. y[j] = x[j - (i - 1)]
      BY <1>1, <1>5, <1>6, <1>7, <3>1
    <3>3. x[j - (i - 1)] = w[j - (i - 1)]
      BY <1>1, <1>3, <1>4, <3>1
    <3>4. v[(i - 1) + (j - (i - 1))] = w[j - (i - 1)]
      <4>1. j - (i - 1) \in 1 .. Len(w)
        BY <1>1, <3>1
      <4>2. i - 1 \in Nat /\ Holds(v, i - 1, w)
        BY <1>1
      <4> QED BY <1>0, <4>1, <4>2, HoldsAt, Zenon
    <3> QED BY <3>1, <3>2, <3>3, <3>4, Zenon
  <2>3. CASE c < j
    <3>1. /\ j \in (i - 1) + 1 .. (i - 1) + (Len(v) - i + 1)
          /\ j - (i - 1) \in (c - i + 1) + 1 .. (c - i + 1) + (Len(v) - c)
          /\ (j - (i - 1)) - (c - i + 1) = j - c /\ j - c \in 1 .. Len(v) - c /\ c + (j - c) = j
      BY <1>2, <2>3
    <3>2. y[j] = x[j - (i - 1)]
      BY <1>1, <1>5, <1>6, <1>7, <3>1
    <3>3. x[j - (i - 1)] = r[(j - (i - 1)) - (c - i + 1)]
      BY <1>1, <1>3, <1>4, <3>1
    <3>4. v[c + (j - c)] = r[j - c]
      <4>1. j - c \in 1 .. Len(r)
        BY <1>1, <3>1
      <4>2. Holds(v, c, r)
        BY <1>1
      <4> QED BY <1>0, <1>2, <4>1, <4>2, HoldsAt, Zenon
    <3> QED BY <3>1, <3>2, <3>3, <3>4, Zenon
  <2> QED BY <1>2, <2>1, <2>2, <2>3
<1>9. y = v
  BY <1>7, <1>8, SeqEqual
<1> QED BY <1>4, <1>6, <1>9 DEF b, w, r

(* There is no placeholder before the first. *)
LEMMA BeforeWordy ==
    ASSUME NEW v \in Seq(STRING), Plain(v), Starts(v) # {}
    PROVE  Wordy(Before(v))
<1>1. PICK i : i = FirstMatch(v)
  OBVIOUS
<1>2. /\ i \in 1 .. Len(v) /\ (\A j \in Starts(v) : i <= j) /\ Len(Before(v)) = i - 1
      /\ \A j \in 1 .. i - 1 : Before(v)[j] = v[j]
  BY <1>1, Pieces
<1> SUFFICES ASSUME NEW j \in 1 .. i - 1 PROVE ~ Opens(Before(v), j)
  BY <1>2 DEF Wordy
<1>3. j \in 1 .. Len(v) /\ ~ (i <= j)
  BY <1>2
<1>4. ~ Opens(v, j)
  BY <1>2, <1>3, PlainStarts
<1> QED BY <1>2, <1>4, OpensSame

(* A default lies within its match, *)
LEMMA DefaultWithin ==
    ASSUME NEW v \in Seq(STRING), NEW i \in 1 .. Len(v), MatchAt(v, i).to # 0,
           NEW l \in 1 .. Len(MatchAt(v, i).default)
    PROVE  \E p \in i + 1 .. MatchAt(v, i).to : MatchAt(v, i).default[l] = v[p]
<1>1. PICK e \in Nat, c \in Nat : Delimits(v, i, e, c) /\ MatchAt(v, i) = Match(v, i, e, c)
  BY MatchIs
<1>2. MatchAt(v, i).to = c /\ MatchAt(v, i).default = SubSeq(v, e + 1, c - 1)
  BY <1>1 DEF Match
<1>3. i + 2 <= e /\ e <= c /\ c <= Len(v)
  BY <1>1 DEF Delimits
<1>4. Len(v) \in Nat /\ i \in Nat /\ 1 <= i
  BY LenIs
<1>5. l \in 1 .. Len(SubSeq(v, e + 1, c - 1))
  BY <1>2
<1>6. CASE e = c
  <2>1. SubSeq(v, e + 1, c - 1) = <<>>
    BY <1>6
  <2> QED BY <1>5, <2>1
<1>7. CASE e # c
  <2>1. e + 1 \in Nat /\ c - 1 \in Nat /\ 1 <= e + 1 /\ c - 1 <= Len(v) /\ e + 1 <= (c - 1) + 1
    BY <1>3, <1>4, <1>7
  <2>2. /\ Len(SubSeq(v, e + 1, c - 1)) = (c - 1) - (e + 1) + 1
        /\ \A q \in 1 .. (c - 1) - (e + 1) + 1 : SubSeq(v, e + 1, c - 1)[q] = v[(e + 1) + q - 1]
    BY <2>1, Cuts
  <2>3. l \in 1 .. (c - 1) - (e + 1) + 1
    BY <1>5, <2>2
  <2>4. (e + 1) + l - 1 \in i + 1 .. c
    BY <1>3, <1>4, <2>3
  <2>5. SubSeq(v, e + 1, c - 1)[l] = v[(e + 1) + l - 1]
    BY <2>2, <2>3
  <2> QED BY <1>2, <2>4, <2>5
<1> QED BY <1>6, <1>7

(* so it holds no placeholder. *)
LEMMA DefaultWordy ==
    ASSUME NEW v \in Seq(STRING), Plain(v), Starts(v) # {}
    PROVE  Wordy(FirstAt(v).default)
<1>1. PICK i : i = FirstMatch(v)
  OBVIOUS
<1>2. i \in 1 .. Len(v) /\ MatchAt(v, i) = FirstAt(v) /\ Opens(v, i)
  BY <1>1, Pieces
<1>3. MatchAt(v, i).to # 0 /\ \A j \in i + 1 .. MatchAt(v, i).to : ~ Opens(v, j)
  BY <1>2, PlainStarts
<1> SUFFICES ASSUME NEW l \in 1 .. Len(MatchAt(v, i).default) PROVE ~ Opens(MatchAt(v, i).default, l)
  BY <1>2 DEF Wordy
<1>4. PICK p \in i + 1 .. MatchAt(v, i).to : MatchAt(v, i).default[l] = v[p]
  BY <1>2, <1>3, DefaultWithin
<1> QED BY <1>3, <1>4, OpensSame

(* A placeholder of the rest is one of the text. *)
LEMMA RestIs ==
    ASSUME NEW v \in Seq(STRING), Plain(v), Starts(v) # {},
           NEW c \in Nat, c = FirstAt(v).to, NEW j \in 1 .. Len(Rest(v)), Opens(Rest(v), j)
    PROVE  /\ Clean(Rest(v), j) /\ c + j \in Starts(v)
           /\ MatchAt(v, c + j).key = MatchAt(Rest(v), j).key
           /\ MatchAt(v, c + j).hasDefault = MatchAt(Rest(v), j).hasDefault
<1>1. PICK w : w = Rest(v)
  OBVIOUS
<1>2. w \in Seq(STRING) /\ Len(w) = Len(v) - c /\ Holds(v, c, w)
  BY <1>1, Pieces
<1>3. c + j \in 1 .. Len(v) /\ v[c + j] = w[j]
  BY <1>1, <1>2, HoldsAt
<1>4. Opens(v, c + j)
  BY <1>1, <1>3, OpensSame
<1>5. c + j \in Starts(v) /\ MatchAt(v, c + j).to \in (c + j) + 1 .. Len(v)
  BY <1>3, <1>4, PlainStarts
<1>6. MatchAt(v, c + j).to <= c + Len(w)
  <2>1. Len(v) \in Nat /\ c + Len(w) = Len(v)
    BY <1>2
  <2>2. MatchAt(v, c + j).to <= Len(v)
    BY <1>3, <1>5
  <2> QED BY <2>1, <2>2, Zenon
<1> QED BY <1>1, <1>2, <1>5, <1>6, Inward

(* The rest of a plain text is plain. *)
LEMMA RestPlain ==
    ASSUME NEW v \in Seq(STRING), Plain(v), Starts(v) # {}
    PROVE  Plain(Rest(v))
<1>1. PICK c : c = FirstAt(v).to
  OBVIOUS
<1>2. c \in Nat
  BY <1>1, Pieces
<1> QED BY <1>1, <1>2, RestIs, PlainIs

(* The keys that a text mentions. *)
Keys(v) == {MatchAt(v, i).key : i \in Starts(v)}

(* They are that of the first placeholder and those of the rest. *)
LEMMA KeysAre ==
    ASSUME NEW v \in Seq(STRING), Plain(v), Starts(v) # {}
    PROVE  Keys(v) = {FirstAt(v).key} \cup Keys(Rest(v))
<1>1. PICK i, c : i = FirstMatch(v) /\ c = FirstAt(v).to
  OBVIOUS
<1>2. PICK w : w = Rest(v)
  OBVIOUS
<1>3. /\ i \in 1 .. Len(v) /\ c \in i + 1 .. Len(v) /\ MatchAt(v, i) = FirstAt(v) /\ Opens(v, i)
      /\ w \in Seq(STRING) /\ Len(w) = Len(v) - c /\ c \in Nat /\ Holds(v, c, w)
      /\ \A j \in Starts(v) : i <= j
  BY <1>1, <1>2, Pieces
<1>4. i \in Starts(v) /\ \A j \in i + 1 .. c : ~ Opens(v, j)
  BY <1>1, <1>3, PlainStarts
<1>5. FirstAt(v).key \in Keys(v)
  BY <1>3, <1>4 DEF Keys
<1>6. ASSUME NEW j \in Starts(w) PROVE MatchAt(w, j).key \in Keys(v)
  <2>1. j \in 1 .. Len(w) /\ Opens(w, j)
    BY StartsIs
  <2>2. c + j \in Starts(v) /\ MatchAt(v, c + j).key = MatchAt(w, j).key
    BY <1>1, <1>2, <1>3, <2>1, RestIs
  <2> QED BY <2>2 DEF Keys
<1>7. ASSUME NEW j \in Starts(v) PROVE MatchAt(v, j).key \in {FirstAt(v).key} \cup Keys(w)
  <2>1. j \in 1 .. Len(v) /\ Opens(v, j) /\ i <= j
    BY <1>3, StartsIs
  <2>2. CASE j = i
    BY <1>3, <2>2
  <2>3. CASE j # i
    <3>1. j \notin i + 1 .. c
      BY <1>4, <2>1
    <3>2. j - c \in 1 .. Len(w) /\ c + (j - c) = j
      <4>1. Len(v) \in Nat /\ i \in Nat
        BY <1>3
      <4> QED BY <1>3, <2>1, <2>3, <3>1, <4>1
    <3>3. v[c + (j - c)] = w[j - c]
      BY <1>3, <3>2, HoldsAt
    <3>4. Opens(w, j - c)
      BY <2>1, <3>2, <3>3, OpensSame
    <3>5. MatchAt(v, c + (j - c)).key = MatchAt(w, j - c).key /\ Clean(w, j - c)
      BY <1>1, <1>2, <1>3, <3>2, <3>4, RestIs
    <3>6. j - c \in Starts(w)
      BY <3>2, <3>4, <3>5, StartsIs DEF Clean
    <3> QED BY <3>2, <3>5, <3>6 DEF Keys
  <2> QED BY <2>2, <2>3
<1>8. Keys(v) \subseteq {FirstAt(v).key} \cup Keys(w)
  BY <1>7 DEF Keys
<1>9. Keys(w) \subseteq Keys(v)
  BY <1>6 DEF Keys
<1> QED BY <1>2, <1>5, <1>8, <1>9

(* Nothing resolves the first placeholder, nor the rest. *)
LEMMA DeadFirst ==
    ASSUME NEW v \in Seq(STRING), Starts(v) # {}, NEW D, Dead(v, D)
    PROVE  /\ FirstAt(v).key \notin D /\ ~ FirstAt(v).hasDefault
           /\ Dead(Rest(v), D)
<1>1. PICK i, c : i = FirstMatch(v) /\ c = FirstAt(v).to
  OBVIOUS
<1>2. i \in 1 .. Len(v) /\ MatchAt(v, i) = FirstAt(v) /\ Opens(v, i) /\ c \in Nat
  BY <1>1, Pieces
<1>3. Plain(v)
  BY DeadPlain
<1>4. ASSUME NEW j \in 1 .. Len(Rest(v)), Opens(Rest(v), j)
      PROVE  /\ Clean(Rest(v), j)
             /\ MatchAt(Rest(v), j).key \notin D /\ ~ MatchAt(Rest(v), j).hasDefault
  <2>1. /\ Clean(Rest(v), j) /\ c + j \in Starts(v)
        /\ MatchAt(v, c + j).key = MatchAt(Rest(v), j).key
        /\ MatchAt(v, c + j).hasDefault = MatchAt(Rest(v), j).hasDefault
    BY <1>1, <1>2, <1>3, <1>4, RestIs
  <2>2. MatchAt(v, c + j).key \notin D /\ ~ MatchAt(v, c + j).hasDefault
    BY <2>1, StartsIs DEF Dead
  <2> QED BY <2>1, <2>2, Zenon
<1> QED BY <1>2, <1>4 DEF Dead

(* A placeholder without property and default stays. *)
LEMMA WholeDead ==
    ASSUME NEW v \in Seq(STRING), Plain(v), Starts(v) # {}, NEW D,
           FirstAt(v).key \notin D, ~ FirstAt(v).hasDefault
    PROVE  Dead(Whole(v), D)
<1>1. PICK i, c : i = FirstMatch(v) /\ c = FirstAt(v).to
  OBVIOUS
<1>2. PICK w : w = Whole(v)
  OBVIOUS
<1>3. /\ i \in 1 .. Len(v) /\ c \in i + 1 .. Len(v) /\ MatchAt(v, i) = FirstAt(v) /\ Opens(v, i)
      /\ w \in Seq(STRING) /\ Len(w) = c - i + 1 /\ i - 1 \in Nat /\ Holds(v, i - 1, w)
  BY <1>1, <1>2, Pieces
<1>4. \A j \in i + 1 .. c : ~ Opens(v, j)
  BY <1>1, <1>3, PlainStarts
<1> SUFFICES ASSUME NEW j \in 1 .. Len(w), Opens(w, j)
             PROVE  Clean(w, j) /\ MatchAt(w, j).key \notin D /\ ~ MatchAt(w, j).hasDefault
  BY <1>2 DEF Dead
<1>5. v[(i - 1) + j] = w[j] /\ (i - 1) + j \in 1 .. Len(v)
  BY <1>3, HoldsAt
<1>6. Opens(v, (i - 1) + j)
  BY <1>5, OpensSame
<1>7. (i - 1) + j = i
  <2>1. (i - 1) + j \notin i + 1 .. c
    BY <1>4, <1>6
  <2>2. i \in Nat /\ c \in Nat /\ j \in Nat /\ 1 <= j /\ j <= c - i + 1
    BY <1>3
  <2> QED BY <2>1, <2>2
<1>8. MatchAt(v, (i - 1) + j).to = c /\ c <= (i - 1) + Len(w)
  <2>1. i \in Nat /\ c \in Nat /\ Len(w) = c - i + 1
    BY <1>3
  <2>2. c <= (i - 1) + Len(w)
    BY <2>1
  <2>3. MatchAt(v, (i - 1) + j).to = c
    BY <1>1, <1>3, <1>7, Zenon
  <2> QED BY <2>2, <2>3
<1>9. /\ Clean(w, j)
      /\ MatchAt(v, (i - 1) + j).key = MatchAt(w, j).key
      /\ MatchAt(v, (i - 1) + j).hasDefault = MatchAt(w, j).hasDefault
  BY <1>3, <1>8, Inward
<1> QED BY <1>3, <1>7, <1>9, Zenon

-----------------------------------------------------------------------------
(* One call of resolvePropertyValue. *)

(* Properties whose values hold no placeholder inside another. *)
PlainMap(map) == IsMap(map) /\ \A k \in DOMAIN map : Plain(map[k])

(* What stands in for the first placeholder. *)
Stand(v, map, res) == Replacement(Resolver(map), FirstAt(v), Whole(v), map, res)

(* What stands in for it when no property does. *)
Alone(v) == IF FirstAt(v).hasDefault THEN FirstAt(v).default ELSE Whole(v)

(* A text without a match is returned. *)
LEMMA NothingToResolve ==
    ASSUME NEW map, IsMap(map), NEW v \in Seq(STRING), NEW res \in SUBSET DOMAIN map,
           Starts(v) = {}
    PROVE  Resolve(v, map, res) = Text(v)
BY Resolves DEF ResolvePropertyValue

(* Any other is put together from its pieces. *)
LEMMA Unfolded ==
    ASSUME NEW map, IsMap(map), NEW v \in Seq(STRING), NEW res \in SUBSET DOMAIN map,
           Starts(v) # {}
    PROVE  Resolve(v, map, res) =
               Joined(Text(Before(v)), Joined(Stand(v, map, res), Resolve(Rest(v), map, res)))
BY Resolves DEF ResolvePropertyValue, Before, Rest, Whole, FirstAt, Stand, Resolve

(* What stands in for a placeholder, case by case. *)
LEMMA StandIs ==
    ASSUME NEW map, IsMap(map), NEW v \in Seq(STRING), Plain(v), NEW res \in SUBSET DOMAIN map,
           Starts(v) # {}, NEW k, k = FirstAt(v).key
    PROVE  /\ k \in res => Stand(v, map, res) = Circular
           /\ k \in DOMAIN map \ res =>
                 /\ Stand(v, map, res) = Resolve(map[k], map, res \cup {k})
                 /\ map[k] \in Seq(STRING) /\ res \cup {k} \in SUBSET DOMAIN map
           /\ k \notin DOMAIN map =>
                 /\ Stand(v, map, res) = Text(Alone(v))
                 /\ Alone(v) \in Seq(STRING) /\ Dead(Alone(v), DOMAIN map)
           /\ Stand(v, map, res) \in Results
<1> DEFINE m == FirstAt(v)
<1>1. k \in res => Stand(v, map, res) = Circular
  BY DEF Stand, Replacement
<1>2. k \in DOMAIN map \ res => Stand(v, map, res) = Resolve(map[k], map, res \cup {k})
  BY DEF Stand, Replacement, Resolve
<1>3. k \in DOMAIN map \ res => map[k] \in Seq(STRING) /\ res \cup {k} \in SUBSET DOMAIN map
  BY DEF IsMap
<1>4. m.default \in Seq(STRING) /\ Whole(v) \in Seq(STRING) /\ Wordy(m.default)
  BY FirstType, DefaultWordy
<1>5. Dead(m.default, DOMAIN map) /\ Resolve(m.default, map, res) = Text(m.default)
  BY <1>4, WordyIs, NothingToResolve
<1>6. k \notin DOMAIN map =>
          /\ Stand(v, map, res) = Text(Alone(v))
          /\ Alone(v) \in Seq(STRING) /\ Dead(Alone(v), DOMAIN map)
  <2> SUFFICES ASSUME k \notin DOMAIN map
               PROVE  /\ Stand(v, map, res) = Text(Alone(v))
                      /\ Alone(v) \in Seq(STRING) /\ Dead(Alone(v), DOMAIN map)
    OBVIOUS
  <2>1. CASE m.hasDefault
    <3>1. Alone(v) = m.default
      BY <2>1 DEF Alone
    <3>2. Stand(v, map, res) = Resolve(m.default, map, res)
      BY <2>1 DEF Stand, Replacement, Resolve
    <3> QED BY <1>4, <1>5, <3>1, <3>2
  <2>2. CASE ~ m.hasDefault
    <3>1. Alone(v) = Whole(v)
      BY <2>2 DEF Alone
    <3>2. Stand(v, map, res) = Text(Whole(v))
      BY <2>2 DEF Stand, Replacement
    <3>3. Dead(Whole(v), DOMAIN map)
      BY <2>2, WholeDead
    <3> QED BY <1>4, <3>1, <3>2, <3>3
  <2> QED BY <2>1, <2>2
<1>7. Stand(v, map, res) \in Results
  <2>1. CASE k \in res
    <3>1. <<>> \in Seq(STRING)
      OBVIOUS
    <3>2. Circular \in Results
      BY <3>1 DEF Circular, Results
    <3> QED BY <1>1, <2>1, <3>2
  <2>2. CASE k \in DOMAIN map \ res
    BY <1>2, <1>3, <2>2, Resolves
  <2>3. CASE k \notin DOMAIN map
    BY <1>6, <2>3, TextType
  <2> QED BY <2>1, <2>2, <2>3
<1> QED BY <1>1, <1>2, <1>3, <1>6, <1>7

(* The pieces decide on the error, and on the text when there is none. *)
LEMMA ResolvedParts ==
    ASSUME NEW map, IsMap(map), NEW v \in Seq(STRING), Plain(v), NEW res \in SUBSET DOMAIN map,
           Starts(v) # {}
    PROVE  /\ Resolve(v, map, res) \in Results /\ Stand(v, map, res) \in Results
           /\ Resolve(Rest(v), map, res) \in Results
           /\ Resolve(v, map, res).ok <=> Stand(v, map, res).ok /\ Resolve(Rest(v), map, res).ok
           /\ Resolve(v, map, res).ok =>
                  Resolve(v, map, res).text =
                      Before(v) \o (Stand(v, map, res).text \o Resolve(Rest(v), map, res).text)
           /\ ~ Resolve(v, map, res).ok => Resolve(v, map, res).text = <<>>
<1> DEFINE a == Resolve(v, map, res)
           s == Stand(v, map, res)
           r == Resolve(Rest(v), map, res)
           b == Before(v)
<1>1. b \in Seq(STRING) /\ Rest(v) \in Seq(STRING)
  BY FirstType
<1>2. a \in Results /\ s \in Results /\ r \in Results
  BY <1>1, Resolves, StandIs
<1>3. a = Joined(Text(b), Joined(s, r))
  BY Unfolded
<1> HIDE DEF a, s, r, b
<1>4. /\ a.ok <=> s.ok /\ r.ok
      /\ a.ok => a.text = b \o (s.text \o r.text)
      /\ ~ a.ok => a.text = <<>>
  BY <1>1, <1>2, <1>3 DEF Joined, Text, Circular, Results
<1> QED BY <1>2, <1>4, Zenon DEF a, s, r, b

(* Without an error, there is none in the pieces. *)
LEMMA ResolvedOk ==
    ASSUME NEW map, IsMap(map), NEW v \in Seq(STRING), Plain(v), NEW res \in SUBSET DOMAIN map,
           Starts(v) # {}, Resolve(v, map, res).ok
    PROVE  /\ Resolve(v, map, res) \in Results /\ Stand(v, map, res) \in Results
           /\ Resolve(Rest(v), map, res) \in Results
           /\ Stand(v, map, res).ok /\ Resolve(Rest(v), map, res).ok
           /\ Resolve(v, map, res).text =
                  Before(v) \o (Stand(v, map, res).text \o Resolve(Rest(v), map, res).text)
BY ResolvedParts, Zenon

(* Results are their two fields. *)
LEMMA SameResult ==
    ASSUME NEW a \in Results, NEW b \in Results, a.ok = b.ok, a.text = b.text
    PROVE  a = b
BY DEF Results

-----------------------------------------------------------------------------
(* Induction along the calls of resolvePropertyValue. *)
Basis(map, P) ==
    \A v \in Seq(STRING), res \in SUBSET DOMAIN map :
        Plain(v) /\ Starts(v) = {} => <<v, res>> \in P

Step(map, P) ==
    \A v \in Seq(STRING), res \in SUBSET DOMAIN map :
        /\ Plain(v) /\ Starts(v) # {}
        /\ <<Rest(v), res>> \in P
        /\ FirstAt(v).key \in DOMAIN map \ res =>
               <<map[FirstAt(v).key], res \cup {FirstAt(v).key}>> \in P
        => <<v, res>> \in P

(* What holds for the basis and is kept by every call holds for plain texts. *)
LEMMA CallInduction ==
    ASSUME NEW map, PlainMap(map), NEW P, Basis(map, P), Step(map, P)
    PROVE  \A v \in Seq(STRING), res \in SUBSET DOMAIN map : Plain(v) => <<v, res>> \in P
<1> DEFINE D == DOMAIN map
           T == {x \in Args(D) : Plain(x[1]) /\ x \notin P}
<1>0. IsFiniteSet(D) /\ IsMap(map)
  BY DEF PlainMap, IsMap
<1>1. T = {}
  <2> SUFFICES ASSUME T # {} PROVE FALSE
    OBVIOUS
  <2>1. T \subseteq Args(D)
    OBVIOUS
  <2>2. PICK x \in T : \A y \in T : ~ Smaller(D, y, x)
    <3> HIDE DEF T, D
    <3> QED BY <1>0, <2>1, Minimal
  <2>3. x \in Args(D) /\ Plain(x[1]) /\ x \notin P
    OBVIOUS
  <2>4. \A y \in Args(D) : Smaller(D, y, x) /\ Plain(y[1]) => y \in P
    BY <2>2
  <2> HIDE DEF T
  <2>5. PICK v, res : v = x[1] /\ res = x[2]
    OBVIOUS
  <2>6. v \in Seq(STRING) /\ res \in SUBSET D /\ x = <<v, res>> /\ Plain(v)
    BY <2>3, <2>5, ArgsAre
  <2>7. Starts(v) # {}
    BY <2>3, <2>6 DEF Basis
  <2>8. Rest(v) \in Seq(STRING) /\ Len(Rest(v)) < Len(v) /\ Plain(Rest(v))
    BY <2>6, <2>7, FirstType, RestPlain
  <2>9. <<Rest(v), res>> \in P
    <3>1. <<Rest(v), res>> \in Args(D) /\ Smaller(D, <<Rest(v), res>>, x)
      BY <2>6, <2>8, Shorter
    <3>2. <<Rest(v), res>>[1] = Rest(v)
      OBVIOUS
    <3> HIDE DEF D
    <3> QED BY <2>4, <2>8, <3>1, <3>2
  <2>10. ASSUME NEW k \in D \ res PROVE <<map[k], res \cup {k}>> \in P
    <3>1. map[k] \in Seq(STRING) /\ Plain(map[k])
      BY DEF PlainMap, IsMap
    <3>2. <<map[k], res \cup {k}>> \in Args(D) /\ Smaller(D, <<map[k], res \cup {k}>>, x)
      BY <1>0, <2>6, <3>1, OneMore
    <3>3. <<map[k], res \cup {k}>>[1] = map[k]
      OBVIOUS
    <3> HIDE DEF D
    <3> QED BY <2>4, <3>1, <3>2, <3>3
  <2>11. <<v, res>> \in P
    BY <2>6, <2>7, <2>9, <2>10 DEF Step
  <2> QED BY <2>3, <2>6, <2>11
<1>2. \A v \in Seq(STRING), res \in SUBSET D : Plain(v) => <<v, res>> \in P
  <2> SUFFICES ASSUME NEW v \in Seq(STRING), NEW res \in SUBSET D, Plain(v), <<v, res>> \notin P
               PROVE  FALSE
    OBVIOUS
  <2>1. <<v, res>> \in Args(D) /\ <<v, res>>[1] = v
    BY DEF Args
  <2> QED BY <1>1, <2>1
<1> QED BY <1>2

-----------------------------------------------------------------------------
(* What a text resolves to. *)

(* A text is no error. *)
LEMMA TextIs ==
    ASSUME NEW v
    PROVE  Text(v).ok /\ Text(v).text = v /\ ~ Circular.ok
BY DEF Text, Circular

(* A result that is no error cannot be resolved any further. *)
LEMMA ResolvedIsDead ==
    ASSUME NEW map, PlainMap(map), NEW v \in Seq(STRING), Plain(v), NEW res \in SUBSET DOMAIN map,
           Resolve(v, map, res).ok
    PROVE  Dead(Resolve(v, map, res).text, DOMAIN map)
<1> DEFINE D == DOMAIN map
           P == {x \in Args(D) : Resolve(x[1], map, x[2]).ok => Dead(Resolve(x[1], map, x[2]).text, D)}
<1>0. IsMap(map)
  BY DEF PlainMap
<1>1. \A w \in Seq(STRING), q \in SUBSET D :
         <<w, q>> \in P <=> (Resolve(w, map, q).ok => Dead(Resolve(w, map, q).text, D))
  BY DEF Args
<1> HIDE DEF P
<1>2. Basis(map, P)
  <2> SUFFICES ASSUME NEW w \in Seq(STRING), NEW q \in SUBSET D, Plain(w), Starts(w) = {}
               PROVE  <<w, q>> \in P
    BY DEF Basis
  <2>1. Resolve(w, map, q) = Text(w)
    BY <1>0, NothingToResolve
  <2>2. Dead(w, D)
    BY NoStarts, WordyIs
  <2> QED BY <1>1, <2>1, <2>2, TextIs
<1>3. Step(map, P)
  <2> SUFFICES ASSUME NEW w \in Seq(STRING), NEW q \in SUBSET D, Plain(w), Starts(w) # {},
                      <<Rest(w), q>> \in P,
                      FirstAt(w).key \in D \ q => <<map[FirstAt(w).key], q \cup {FirstAt(w).key}>> \in P,
                      Resolve(w, map, q).ok
               PROVE  Dead(Resolve(w, map, q).text, D)
    BY <1>1 DEF Step
  <2>1. PICK a, s, r, k : a = Resolve(w, map, q) /\ s = Stand(w, map, q) /\ r = Resolve(Rest(w), map, q)
                          /\ k = FirstAt(w).key
    OBVIOUS
  <2>2. /\ a \in Results /\ s \in Results /\ r \in Results /\ s.ok /\ r.ok
        /\ a.text = Before(w) \o (s.text \o r.text)
    BY <1>0, <2>1, ResolvedOk
  <2>3. Before(w) \in Seq(STRING) /\ Rest(w) \in Seq(STRING) /\ s.text \in Seq(STRING) /\ r.text \in Seq(STRING)
    BY <2>2, FirstType DEF Results
  <2>4. Dead(r.text, D)
    BY <1>1, <2>1, <2>2, <2>3
  <2>5. Dead(Before(w), D)
    BY <2>3, BeforeWordy, WordyIs
  <2>6. Dead(s.text, D)
    <3>1. CASE k \in q
      <4>1. s = Circular
        BY <1>0, <2>1, <3>1, StandIs
      <4> QED BY <2>2, <4>1, TextIs
    <3>2. CASE k \in D \ q
      <4>1. s = Resolve(map[k], map, q \cup {k}) /\ map[k] \in Seq(STRING) /\ q \cup {k} \in SUBSET D
        BY <1>0, <2>1, <3>2, StandIs
      <4>2. <<map[k], q \cup {k}>> \in P
        BY <2>1, <3>2
      <4> QED BY <1>1, <2>2, <4>1, <4>2
    <3>3. CASE k \notin D
      <4>1. s = Text(Alone(w)) /\ Dead(Alone(w), D)
        BY <1>0, <2>1, <3>3, StandIs, ZenonT(30)
      <4> QED BY <4>1, TextIs
    <3> QED BY <3>1, <3>2, <3>3
  <2>7. s.text \o r.text \in Seq(STRING) /\ Dead(s.text \o r.text, D)
    BY <2>3, <2>4, <2>6, DeadJoined
  <2>8. Dead(a.text, D)
    <3>1. Dead(Before(w) \o (s.text \o r.text), D)
      BY <2>3, <2>5, <2>7, DeadJoined, Zenon
    <3> QED BY <2>2, <3>1, Zenon
  <2> QED BY <2>1, <2>8
<1>4. <<v, res>> \in P
  BY <1>2, <1>3, CallInduction
<1> QED BY <1>1, <1>4

(* A text that nothing resolves further stays as it is. *)
LEMMA DeadStays ==
    ASSUME NEW map, PlainMap(map), NEW v \in Seq(STRING), Dead(v, DOMAIN map), NEW res \in SUBSET DOMAIN map
    PROVE  Resolve(v, map, res) = Text(v)
<1> DEFINE D == DOMAIN map
           P == {x \in Args(D) : Dead(x[1], D) => Resolve(x[1], map, x[2]) = Text(x[1])}
<1>0. IsMap(map)
  BY DEF PlainMap
<1>1. \A w \in Seq(STRING), q \in SUBSET D :
         <<w, q>> \in P <=> (Dead(w, D) => Resolve(w, map, q) = Text(w))
  BY DEF Args
<1> HIDE DEF P
<1>2. Basis(map, P)
  <2> SUFFICES ASSUME NEW w \in Seq(STRING), NEW q \in SUBSET D, Plain(w), Starts(w) = {}
               PROVE  <<w, q>> \in P
    BY DEF Basis
  <2>1. Resolve(w, map, q) = Text(w)
    BY <1>0, NothingToResolve
  <2> QED BY <1>1, <2>1
<1>3. Step(map, P)
  <2> SUFFICES ASSUME NEW w \in Seq(STRING), NEW q \in SUBSET D, Plain(w), Starts(w) # {},
                      <<Rest(w), q>> \in P, Dead(w, D)
               PROVE  Resolve(w, map, q) = Text(w)
    BY <1>1 DEF Step
  <2>1. PICK a, s, r, k : a = Resolve(w, map, q) /\ s = Stand(w, map, q) /\ r = Resolve(Rest(w), map, q)
                          /\ k = FirstAt(w).key
    OBVIOUS
  <2>2. k \notin D /\ ~ FirstAt(w).hasDefault /\ Dead(Rest(w), D)
    BY <2>1, DeadFirst
  <2>3. Rest(w) \in Seq(STRING)
    BY FirstType
  <2>4. r = Text(Rest(w))
    BY <1>1, <2>1, <2>2, <2>3
  <2>5. s = Text(Whole(w))
    <3>1. s = Text(Alone(w))
      BY <1>0, <2>1, <2>2, StandIs
    <3>2. Alone(w) = Whole(w)
      BY <2>2 DEF Alone
    <3> QED BY <3>1, <3>2
  <2>6. a = Joined(Text(Before(w)), Joined(s, r))
    BY <1>0, <2>1, Unfolded
  <2>7. a = Text(Before(w) \o (Whole(w) \o Rest(w)))
    BY <2>4, <2>5, <2>6 DEF Joined, Text
  <2> QED BY <2>1, <2>7, Together
<1>4. <<v, res>> \in P
  BY <1>2, <1>3, CallInduction, DeadPlain
<1> QED BY <1>1, <1>4

(* What a text resolves to does not depend on what is being resolved. *)
LEMMA SameText ==
    ASSUME NEW map, PlainMap(map), NEW v \in Seq(STRING), Plain(v),
           NEW res \in SUBSET DOMAIN map, NEW other \in SUBSET DOMAIN map,
           Resolve(v, map, res).ok, Resolve(v, map, other).ok
    PROVE  Resolve(v, map, res) = Resolve(v, map, other)
<1> DEFINE D == DOMAIN map
           P == {x \in Args(D) : \A o \in SUBSET D :
                    Resolve(x[1], map, x[2]).ok /\ Resolve(x[1], map, o).ok
                        => Resolve(x[1], map, x[2]) = Resolve(x[1], map, o)}
<1>0. IsMap(map)
  BY DEF PlainMap
<1>1. \A w \in Seq(STRING), q \in SUBSET D :
         <<w, q>> \in P <=> \A o \in SUBSET D :
                                Resolve(w, map, q).ok /\ Resolve(w, map, o).ok
                                    => Resolve(w, map, q) = Resolve(w, map, o)
  BY DEF Args
<1> HIDE DEF P
<1>2. Basis(map, P)
  <2> SUFFICES ASSUME NEW w \in Seq(STRING), NEW q \in SUBSET D, Plain(w), Starts(w) = {}
               PROVE  <<w, q>> \in P
    BY DEF Basis
  <2>1. \A o \in SUBSET D : Resolve(w, map, o) = Text(w)
    BY <1>0, NothingToResolve
  <2> QED BY <1>1, <2>1
<1>3. Step(map, P)
  <2> SUFFICES ASSUME NEW w \in Seq(STRING), NEW q \in SUBSET D, Plain(w), Starts(w) # {},
                      <<Rest(w), q>> \in P,
                      FirstAt(w).key \in D \ q => <<map[FirstAt(w).key], q \cup {FirstAt(w).key}>> \in P,
                      NEW o \in SUBSET D, Resolve(w, map, q).ok, Resolve(w, map, o).ok
               PROVE  Resolve(w, map, q) = Resolve(w, map, o)
    BY <1>1 DEF Step
  <2>1. PICK a, s, r, k : a = Resolve(w, map, q) /\ s = Stand(w, map, q) /\ r = Resolve(Rest(w), map, q)
                          /\ k = FirstAt(w).key
    OBVIOUS
  <2>2. PICK b, t, u : b = Resolve(w, map, o) /\ t = Stand(w, map, o) /\ u = Resolve(Rest(w), map, o)
    OBVIOUS
  <2>3. /\ a \in Results /\ s \in Results /\ r \in Results /\ s.ok /\ r.ok
        /\ a.text = Before(w) \o (s.text \o r.text)
    BY <1>0, <2>1, ResolvedOk
  <2>4. /\ b \in Results /\ t \in Results /\ u \in Results /\ t.ok /\ u.ok
        /\ b.text = Before(w) \o (t.text \o u.text)
    BY <1>0, <2>2, ResolvedOk
  <2>5. Rest(w) \in Seq(STRING)
    BY FirstType
  <2>6. r = u
    BY <1>1, <2>1, <2>2, <2>3, <2>4, <2>5
  <2>7. k \notin q /\ k \notin o
    BY <1>0, <2>1, <2>2, <2>3, <2>4, StandIs, TextIs
  <2>8. s = t
    <3>1. CASE k \in D
      <4>1. s = Resolve(map[k], map, q \cup {k}) /\ map[k] \in Seq(STRING) /\ q \cup {k} \in SUBSET D
        BY <1>0, <2>1, <2>7, <3>1, StandIs
      <4>2. t = Resolve(map[k], map, o \cup {k}) /\ o \cup {k} \in SUBSET D
        BY <1>0, <2>1, <2>2, <2>7, <3>1, StandIs
      <4>3. <<map[k], q \cup {k}>> \in P
        BY <2>1, <2>7, <3>1
      <4> QED BY <1>1, <2>3, <2>4, <4>1, <4>2, <4>3
    <3>2. CASE k \notin D
      BY <1>0, <2>1, <2>2, <3>2, StandIs
    <3> QED BY <3>1, <3>2
  <2>9. a.ok = b.ok
    <3>1. a.ok /\ b.ok /\ a.ok \in BOOLEAN /\ b.ok \in BOOLEAN
      BY <2>1, <2>2, <2>3, <2>4 DEF Results
    <3> QED BY <3>1
  <2>10. a = b
    BY <2>3, <2>4, <2>6, <2>8, <2>9, SameResult
  <2> QED BY <2>1, <2>2, <2>10
<1>4. <<v, res>> \in P
  BY <1>2, <1>3, CallInduction
<1> QED BY <1>1, <1>4

-----------------------------------------------------------------------------
(* The keys that a text reaches. *)

(* The properties that a text refers to, directly or through others. *)
ClosedIn(map, C) == \A j \in C : Keys(map[j]) \cap DOMAIN map \subseteq C

ReachIn(map, v) ==
    {j \in DOMAIN map : \A C \in SUBSET DOMAIN map :
        Keys(v) \cap DOMAIN map \subseteq C /\ ClosedIn(map, C) => j \in C}

Cyclic(map, k) == k \in ReachIn(map, map[k])

Acyclic(map, v) == \A j \in ReachIn(map, v) : ~ Cyclic(map, j)

(* It is the least closed set of keys that has those of the text. *)
LEMMA ReachLeast ==
    ASSUME NEW map, NEW v, NEW C \in SUBSET DOMAIN map,
           Keys(v) \cap DOMAIN map \subseteq C, ClosedIn(map, C)
    PROVE  ReachIn(map, v) \subseteq C
BY DEF ReachIn

(* It is closed, *)
LEMMA ReachClosed ==
    ASSUME NEW map, NEW v
    PROVE  /\ ReachIn(map, v) \in SUBSET DOMAIN map
           /\ Keys(v) \cap DOMAIN map \subseteq ReachIn(map, v)
           /\ ClosedIn(map, ReachIn(map, v))
<1>1. ReachIn(map, v) \in SUBSET DOMAIN map /\ Keys(v) \cap DOMAIN map \subseteq ReachIn(map, v)
  BY DEF ReachIn
<1>2. ASSUME NEW j \in ReachIn(map, v), NEW i \in Keys(map[j]) \cap DOMAIN map
      PROVE  i \in ReachIn(map, v)
  <2> SUFFICES ASSUME NEW C \in SUBSET DOMAIN map,
                      Keys(v) \cap DOMAIN map \subseteq C, ClosedIn(map, C)
               PROVE  i \in C
    BY DEF ReachIn
  <2>1. j \in C
    BY ReachLeast
  <2> QED BY <2>1 DEF ClosedIn
<1> QED BY <1>1, <1>2 DEF ClosedIn

(* so what a reached key reaches is reached. *)
LEMMA ReachThrough ==
    ASSUME NEW map, NEW v, NEW j \in ReachIn(map, v)
    PROVE  ReachIn(map, map[j]) \subseteq ReachIn(map, v)
<1>1. Keys(map[j]) \cap DOMAIN map \subseteq ReachIn(map, v)
  BY ReachClosed DEF ClosedIn
<1> QED BY <1>1, ReachClosed, ReachLeast

(* More keys reach more. *)
LEMMA ReachMore ==
    ASSUME NEW map, NEW v, NEW w, Keys(w) \subseteq Keys(v)
    PROVE  ReachIn(map, w) \subseteq ReachIn(map, v)
<1>1. Keys(w) \cap DOMAIN map \subseteq ReachIn(map, v)
  BY ReachClosed
<1> QED BY <1>1, ReachClosed, ReachLeast

(* No placeholder reaches nothing. *)
LEMMA ReachNone ==
    ASSUME NEW map, NEW v, Starts(v) = {}
    PROVE  ReachIn(map, v) = {}
<1>1. Keys(v) = {} /\ ClosedIn(map, {})
  BY DEF Keys, ClosedIn
<1> QED BY <1>1, ReachLeast

(* What the first placeholder and the rest of a text reach. *)
LEMMA ReachFirst ==
    ASSUME NEW map, NEW v \in Seq(STRING), Plain(v), Starts(v) # {}, NEW k, k = FirstAt(v).key
    PROVE  /\ ReachIn(map, Rest(v)) \subseteq ReachIn(map, v)
           /\ k \in DOMAIN map =>
                 /\ k \in ReachIn(map, v)
                 /\ ReachIn(map, map[k]) \subseteq ReachIn(map, v)
                 /\ ReachIn(map, v) = {k} \cup ReachIn(map, map[k]) \cup ReachIn(map, Rest(v))
           /\ k \notin DOMAIN map => ReachIn(map, v) = ReachIn(map, Rest(v))
<1>1. Keys(v) = {k} \cup Keys(Rest(v))
  BY KeysAre
<1>2. ReachIn(map, Rest(v)) \subseteq ReachIn(map, v)
  BY <1>1, ReachMore
<1>3. ASSUME k \in DOMAIN map
      PROVE  /\ k \in ReachIn(map, v)
             /\ ReachIn(map, map[k]) \subseteq ReachIn(map, v)
             /\ ReachIn(map, v) = {k} \cup ReachIn(map, map[k]) \cup ReachIn(map, Rest(v))
  <2>1. k \in ReachIn(map, v)
    BY <1>1, <1>3, ReachClosed
  <2>2. ReachIn(map, map[k]) \subseteq ReachIn(map, v)
    BY <2>1, ReachThrough
  <2> DEFINE A == ReachIn(map, map[k])
             B == ReachIn(map, Rest(v))
             C == {k} \cup A \cup B
  <2>3. /\ A \in SUBSET DOMAIN map /\ Keys(map[k]) \cap DOMAIN map \subseteq A /\ ClosedIn(map, A)
        /\ B \in SUBSET DOMAIN map /\ Keys(Rest(v)) \cap DOMAIN map \subseteq B /\ ClosedIn(map, B)
    BY ReachClosed
  <2> HIDE DEF A, B
  <2>4. C \in SUBSET DOMAIN map /\ Keys(v) \cap DOMAIN map \subseteq C
    BY <1>1, <1>3, <2>3
  <2>5. ClosedIn(map, C)
    BY <2>3 DEF ClosedIn
  <2>6. ReachIn(map, v) \subseteq C
    <3> HIDE DEF C
    <3> QED BY <2>4, <2>5, ReachLeast
  <2> QED BY <1>2, <2>1, <2>2, <2>6 DEF A, B
<1>4. ASSUME k \notin DOMAIN map
      PROVE  ReachIn(map, v) = ReachIn(map, Rest(v))
  <2>1. Keys(v) \cap DOMAIN map \subseteq ReachIn(map, Rest(v))
    BY <1>1, <1>4, ReachClosed
  <2>2. ReachIn(map, v) \subseteq ReachIn(map, Rest(v))
    BY <2>1, ReachClosed, ReachLeast
  <2> QED BY <1>2, <2>2
<1> QED BY <1>2, <1>3, <1>4

(* A text is resolved without an error when nothing it reaches is being    *)
(* resolved or refers to itself,                                           *)
LEMMA ResolvedIf ==
    ASSUME NEW map, PlainMap(map), NEW v \in Seq(STRING), Plain(v), NEW res \in SUBSET DOMAIN map,
           ReachIn(map, v) \cap res = {}, Acyclic(map, v)
    PROVE  Resolve(v, map, res).ok
<1> DEFINE D == DOMAIN map
           P == {x \in Args(D) : ReachIn(map, x[1]) \cap x[2] = {} /\ Acyclic(map, x[1])
                                    => Resolve(x[1], map, x[2]).ok}
<1>0. IsMap(map)
  BY DEF PlainMap
<1>1. \A w \in Seq(STRING), q \in SUBSET D :
         <<w, q>> \in P <=> (ReachIn(map, w) \cap q = {} /\ Acyclic(map, w) => Resolve(w, map, q).ok)
  BY DEF Args
<1> HIDE DEF P
<1>2. Basis(map, P)
  <2> SUFFICES ASSUME NEW w \in Seq(STRING), NEW q \in SUBSET D, Plain(w), Starts(w) = {}
               PROVE  <<w, q>> \in P
    BY DEF Basis
  <2>1. Resolve(w, map, q) = Text(w)
    BY <1>0, NothingToResolve
  <2> QED BY <1>1, <2>1, TextIs
<1>3. Step(map, P)
  <2> SUFFICES ASSUME NEW w \in Seq(STRING), NEW q \in SUBSET D, Plain(w), Starts(w) # {},
                      <<Rest(w), q>> \in P,
                      FirstAt(w).key \in D \ q => <<map[FirstAt(w).key], q \cup {FirstAt(w).key}>> \in P,
                      ReachIn(map, w) \cap q = {}, Acyclic(map, w)
               PROVE  Resolve(w, map, q).ok
    BY <1>1 DEF Step
  <2>1. PICK k : k = FirstAt(w).key
    OBVIOUS
  <2>2. Rest(w) \in Seq(STRING)
    BY FirstType
  <2>3. ReachIn(map, Rest(w)) \subseteq ReachIn(map, w)
    BY <2>1, ReachFirst
  <2>4. Resolve(Rest(w), map, q).ok
    <3>1. ReachIn(map, Rest(w)) \cap q = {} /\ Acyclic(map, Rest(w))
      BY <2>3 DEF Acyclic
    <3> QED BY <1>1, <2>2, <3>1
  <2>5. Stand(w, map, q).ok
    <3>1. CASE k \in D
      <4>1. k \in ReachIn(map, w) /\ ReachIn(map, map[k]) \subseteq ReachIn(map, w)
        BY <2>1, <3>1, ReachFirst
      <4>2. k \notin q /\ k \notin ReachIn(map, map[k])
        BY <4>1 DEF Acyclic, Cyclic
      <4>3. /\ Stand(w, map, q) = Resolve(map[k], map, q \cup {k})
            /\ map[k] \in Seq(STRING) /\ q \cup {k} \in SUBSET D
        BY <1>0, <2>1, <3>1, <4>2, StandIs
      <4>4. ReachIn(map, map[k]) \cap (q \cup {k}) = {} /\ Acyclic(map, map[k])
        BY <4>1, <4>2 DEF Acyclic
      <4>5. <<map[k], q \cup {k}>> \in P
        BY <2>1, <3>1, <4>2
      <4> QED BY <1>1, <4>3, <4>4, <4>5
    <3>2. CASE k \notin D
      <4>1. Stand(w, map, q) = Text(Alone(w))
        BY <1>0, <2>1, <3>2, StandIs
      <4> QED BY <4>1, TextIs
    <3> QED BY <3>1, <3>2
  <2> QED BY <1>0, <2>4, <2>5, ResolvedParts
<1>4. <<v, res>> \in P
  BY <1>2, <1>3, CallInduction
<1> QED BY <1>1, <1>4

(* and only then. *)
LEMMA ResolvedOnlyIf ==
    ASSUME NEW map, PlainMap(map), NEW v \in Seq(STRING), Plain(v), NEW res \in SUBSET DOMAIN map,
           Resolve(v, map, res).ok
    PROVE  ReachIn(map, v) \cap res = {} /\ Acyclic(map, v)
<1> DEFINE D == DOMAIN map
           P == {x \in Args(D) : Resolve(x[1], map, x[2]).ok
                                    => ReachIn(map, x[1]) \cap x[2] = {} /\ Acyclic(map, x[1])}
<1>0. IsMap(map)
  BY DEF PlainMap
<1>1. \A w \in Seq(STRING), q \in SUBSET D :
         <<w, q>> \in P <=> (Resolve(w, map, q).ok => ReachIn(map, w) \cap q = {} /\ Acyclic(map, w))
  BY DEF Args
<1> HIDE DEF P
<1>2. Basis(map, P)
  <2> SUFFICES ASSUME NEW w \in Seq(STRING), NEW q \in SUBSET D, Plain(w), Starts(w) = {}
               PROVE  <<w, q>> \in P
    BY DEF Basis
  <2>1. ReachIn(map, w) = {}
    BY ReachNone
  <2> QED BY <1>1, <2>1 DEF Acyclic
<1>3. Step(map, P)
  <2> SUFFICES ASSUME NEW w \in Seq(STRING), NEW q \in SUBSET D, Plain(w), Starts(w) # {},
                      <<Rest(w), q>> \in P,
                      FirstAt(w).key \in D \ q => <<map[FirstAt(w).key], q \cup {FirstAt(w).key}>> \in P,
                      Resolve(w, map, q).ok
               PROVE  ReachIn(map, w) \cap q = {} /\ Acyclic(map, w)
    BY <1>1 DEF Step
  <2>1. PICK k : k = FirstAt(w).key
    OBVIOUS
  <2>2. Rest(w) \in Seq(STRING)
    BY FirstType
  <2>3. Stand(w, map, q).ok /\ Resolve(Rest(w), map, q).ok
    BY <1>0, ResolvedOk
  <2>4. ReachIn(map, Rest(w)) \cap q = {} /\ Acyclic(map, Rest(w))
    BY <1>1, <2>2, <2>3
  <2>5. CASE k \in D
    <3>1. k \notin q
      <4> SUFFICES ASSUME k \in q PROVE FALSE
        OBVIOUS
      <4>1. Stand(w, map, q) = Circular
        BY <1>0, <2>1, StandIs
      <4> QED BY <2>3, <4>1, TextIs
    <3>2. /\ Stand(w, map, q) = Resolve(map[k], map, q \cup {k})
          /\ map[k] \in Seq(STRING) /\ q \cup {k} \in SUBSET D
      BY <1>0, <2>1, <2>5, <3>1, StandIs
    <3>3. <<map[k], q \cup {k}>> \in P
      BY <2>1, <2>5, <3>1
    <3>4. ReachIn(map, map[k]) \cap (q \cup {k}) = {} /\ Acyclic(map, map[k])
      BY <1>1, <2>3, <3>2, <3>3
    <3>5. ReachIn(map, w) = {k} \cup ReachIn(map, map[k]) \cup ReachIn(map, Rest(w))
      BY <2>1, <2>5, ReachFirst
    <3>6. ~ Cyclic(map, k)
      BY <3>4 DEF Cyclic
    <3>7. ReachIn(map, w) \cap q = {}
      BY <2>4, <3>1, <3>4, <3>5
    <3>8. Acyclic(map, w)
      BY <2>4, <3>4, <3>5, <3>6 DEF Acyclic
    <3> QED BY <3>7, <3>8
  <2>6. CASE k \notin D
    <3>1. ReachIn(map, w) = ReachIn(map, Rest(w))
      BY <2>1, <2>6, ReachFirst
    <3> QED BY <2>4, <3>1 DEF Acyclic
  <2> QED BY <2>5, <2>6
<1>4. <<v, res>> \in P
  BY <1>2, <1>3, CallInduction
<1> QED BY <1>1, <1>4

-----------------------------------------------------------------------------
(* Properties on the way: those that are not left are what the stored ones *)
(* make of them.                                                           *)
Partly(map, now, todo) ==
    /\ DOMAIN now = DOMAIN map
    /\ \A k \in DOMAIN map :
          /\ k \in todo => now[k] = map[k]
          /\ k \notin todo => /\ Resolve(map[k], map, {}).ok
                              /\ now[k] = Resolve(map[k], map, {}).text

(* On the way the values stay plain, and those resolved are left alone. *)
LEMMA PartlyPlain ==
    ASSUME NEW map, PlainMap(map), NEW now, NEW todo, Partly(map, now, todo)
    PROVE  /\ PlainMap(now)
           /\ \A k \in DOMAIN map \ todo : Dead(now[k], DOMAIN map)
<1>1. IsMap(map) /\ {} \in SUBSET DOMAIN map
  BY DEF PlainMap
<1>2. ASSUME NEW k \in DOMAIN map
      PROVE  k \in Seq(STRING) /\ map[k] \in Seq(STRING) /\ Plain(map[k])
  BY DEF PlainMap, IsMap
<1>3. ASSUME NEW k \in DOMAIN map \ todo
      PROVE  now[k] \in Seq(STRING) /\ Dead(now[k], DOMAIN map)
  <2>1. Resolve(map[k], map, {}).ok /\ now[k] = Resolve(map[k], map, {}).text
    BY DEF Partly
  <2>2. Resolve(map[k], map, {}) \in Results
    BY <1>1, <1>2, Resolves
  <2>3. Dead(Resolve(map[k], map, {}).text, DOMAIN map)
    BY <1>1, <1>2, <2>1, ResolvedIsDead
  <2> QED BY <2>1, <2>2, <2>3 DEF Results
<1>4. ASSUME NEW k \in DOMAIN now
      PROVE  k \in Seq(STRING) /\ now[k] \in Seq(STRING) /\ Plain(now[k])
  <2>1. k \in DOMAIN map
    BY DEF Partly
  <2>2. CASE k \in todo
    BY <1>2, <2>1, <2>2 DEF Partly
  <2>3. CASE k \notin todo
    BY <1>2, <1>3, <2>1, <2>3, DeadPlain
  <2> QED BY <2>2, <2>3
<1>5. IsFiniteSet(DOMAIN now)
  BY <1>1 DEF IsMap, Partly
<1> QED BY <1>3, <1>4, <1>5 DEF PlainMap, IsMap

(* A text that the stored properties resolve without an error is resolved  *)
(* to the same on the way,                                                 *)
LEMMA SameAsStored ==
    ASSUME NEW map, PlainMap(map), NEW now, NEW todo, Partly(map, now, todo),
           NEW v \in Seq(STRING), Plain(v), NEW res \in SUBSET DOMAIN map,
           Resolve(v, map, res).ok
    PROVE  Resolve(v, now, res) = Resolve(v, map, res)
<1> DEFINE D == DOMAIN map
           P == {x \in Args(D) : Resolve(x[1], map, x[2]).ok
                                    => Resolve(x[1], now, x[2]) = Resolve(x[1], map, x[2])}
<1>0. IsMap(map) /\ IsMap(now) /\ DOMAIN now = D /\ PlainMap(now)
  BY PartlyPlain DEF PlainMap, Partly
<1>1. \A w \in Seq(STRING), q \in SUBSET D :
         <<w, q>> \in P <=> (Resolve(w, map, q).ok => Resolve(w, now, q) = Resolve(w, map, q))
  BY DEF Args
<1> HIDE DEF P
<1>2. Basis(map, P)
  <2> SUFFICES ASSUME NEW w \in Seq(STRING), NEW q \in SUBSET D, Plain(w), Starts(w) = {}
               PROVE  <<w, q>> \in P
    BY DEF Basis
  <2>1. Resolve(w, map, q) = Text(w) /\ Resolve(w, now, q) = Text(w)
    BY <1>0, NothingToResolve
  <2> QED BY <1>1, <2>1
<1>3. Step(map, P)
  <2> SUFFICES ASSUME NEW w \in Seq(STRING), NEW q \in SUBSET D, Plain(w), Starts(w) # {},
                      <<Rest(w), q>> \in P,
                      FirstAt(w).key \in D \ q => <<map[FirstAt(w).key], q \cup {FirstAt(w).key}>> \in P,
                      Resolve(w, map, q).ok
               PROVE  Resolve(w, now, q) = Resolve(w, map, q)
    BY <1>1 DEF Step
  <2>1. PICK k : k = FirstAt(w).key
    OBVIOUS
  <2>2. Rest(w) \in Seq(STRING) /\ q \in SUBSET DOMAIN now
    BY <1>0, FirstType
  <2>3. Stand(w, map, q).ok /\ Resolve(Rest(w), map, q).ok
    BY <1>0, ResolvedOk
  <2>4. Resolve(Rest(w), now, q) = Resolve(Rest(w), map, q)
    BY <1>1, <2>2, <2>3
  <2>5. Stand(w, now, q) = Stand(w, map, q)
    <3>1. CASE k \in D
      <4>1. k \notin q
        <5> SUFFICES ASSUME k \in q PROVE FALSE
          OBVIOUS
        <5>1. Stand(w, map, q) = Circular
          BY <1>0, <2>1, StandIs
        <5> QED BY <2>3, <5>1, TextIs
      <4>2. /\ Stand(w, map, q) = Resolve(map[k], map, q \cup {k})
            /\ map[k] \in Seq(STRING) /\ q \cup {k} \in SUBSET D
        BY <1>0, <2>1, <3>1, <4>1, StandIs
      <4>3. Stand(w, now, q) = Resolve(now[k], now, q \cup {k}) /\ now[k] \in Seq(STRING)
        BY <1>0, <2>1, <2>2, <3>1, <4>1, StandIs
      <4>4. <<map[k], q \cup {k}>> \in P /\ Resolve(map[k], map, q \cup {k}).ok
        BY <2>1, <2>3, <3>1, <4>1, <4>2
      <4>5. CASE k \in todo
        <5>1. now[k] = map[k]
          BY <3>1, <4>5 DEF Partly
        <5> QED BY <1>1, <4>2, <4>3, <4>4, <5>1
      <4>6. CASE k \notin todo
        <5>1. Resolve(map[k], map, {}).ok /\ now[k] = Resolve(map[k], map, {}).text
          BY <3>1, <4>6 DEF Partly
        <5>2. Plain(map[k]) /\ {} \in SUBSET D
          BY <3>1 DEF PlainMap
        <5>3. Resolve(map[k], map, q \cup {k}) = Resolve(map[k], map, {})
          BY <4>2, <4>4, <5>1, <5>2, SameText, ZenonT(30)
        <5>4. Dead(now[k], DOMAIN now)
          BY <1>0, <3>1, <4>6, PartlyPlain
        <5>5. Resolve(now[k], now, q \cup {k}) = Text(now[k])
          BY <1>0, <4>2, <4>3, <5>4, DeadStays
        <5>6. Resolve(map[k], map, {}) \in Results
          BY <1>0, <4>2, <5>2, Resolves
        <5>7. Resolve(map[k], map, {}) = Text(now[k])
          BY <5>1, <5>6 DEF Text, Results
        <5> QED BY <4>2, <4>3, <5>3, <5>5, <5>7
      <4> QED BY <4>5, <4>6
    <3>2. CASE k \notin D
      <4>1. Stand(w, map, q) = Text(Alone(w))
        BY <1>0, <2>1, <3>2, StandIs
      <4>2. Stand(w, now, q) = Text(Alone(w))
        <5>1. k \notin DOMAIN now /\ IsMap(now)
          BY <1>0, <3>2
        <5> QED BY <2>1, <2>2, <5>1, StandIs
      <4> QED BY <4>1, <4>2
    <3> QED BY <3>1, <3>2
  <2>6. Resolve(w, map, q) = Joined(Text(Before(w)), Joined(Stand(w, map, q), Resolve(Rest(w), map, q)))
    BY <1>0, Unfolded
  <2>7. Resolve(w, now, q) = Joined(Text(Before(w)), Joined(Stand(w, now, q), Resolve(Rest(w), now, q)))
    BY <1>0, <2>2, Unfolded
  <2> QED BY <2>4, <2>5, <2>6, <2>7
<1>4. <<v, res>> \in P
  BY <1>2, <1>3, CallInduction
<1> QED BY <1>1, <1>4

(* and one that is resolved without an error on the way reaches nothing    *)
(* that refers to itself.                                                  *)
LEMMA StillAcyclic ==
    ASSUME NEW map, PlainMap(map), NEW now, NEW todo, Partly(map, now, todo),
           NEW v \in Seq(STRING), Plain(v), NEW res \in SUBSET DOMAIN map,
           Resolve(v, now, res).ok
    PROVE  Acyclic(map, v)
<1> DEFINE D == DOMAIN now
           P == {x \in Args(D) : Resolve(x[1], now, x[2]).ok => Acyclic(map, x[1])}
<1>0. IsMap(map) /\ IsMap(now) /\ DOMAIN map = D /\ PlainMap(now)
  BY PartlyPlain DEF PlainMap, Partly
<1>1. \A w \in Seq(STRING), q \in SUBSET D :
         <<w, q>> \in P <=> (Resolve(w, now, q).ok => Acyclic(map, w))
  BY DEF Args
<1> HIDE DEF P
<1>2. Basis(now, P)
  <2> SUFFICES ASSUME NEW w \in Seq(STRING), NEW q \in SUBSET D, Plain(w), Starts(w) = {}
               PROVE  <<w, q>> \in P
    BY DEF Basis
  <2>1. ReachIn(map, w) = {}
    BY ReachNone
  <2> QED BY <1>1, <2>1 DEF Acyclic
<1>3. Step(now, P)
  <2> SUFFICES ASSUME NEW w \in Seq(STRING), NEW q \in SUBSET D, Plain(w), Starts(w) # {},
                      <<Rest(w), q>> \in P,
                      FirstAt(w).key \in D \ q => <<now[FirstAt(w).key], q \cup {FirstAt(w).key}>> \in P,
                      Resolve(w, now, q).ok
               PROVE  Acyclic(map, w)
    BY <1>1 DEF Step
  <2>1. PICK k : k = FirstAt(w).key
    OBVIOUS
  <2>2. Rest(w) \in Seq(STRING)
    BY FirstType
  <2>3. Stand(w, now, q).ok /\ Resolve(Rest(w), now, q).ok
    BY <1>0, ResolvedOk
  <2>4. Acyclic(map, Rest(w))
    BY <1>1, <2>2, <2>3
  <2>5. CASE k \in D
    <3>1. k \notin q
      <4> SUFFICES ASSUME k \in q PROVE FALSE
        OBVIOUS
      <4>1. Stand(w, now, q) = Circular
        BY <1>0, <2>1, StandIs
      <4> QED BY <2>3, <4>1, TextIs
    <3>2. /\ Stand(w, now, q) = Resolve(now[k], now, q \cup {k})
          /\ now[k] \in Seq(STRING) /\ q \cup {k} \in SUBSET D
      BY <1>0, <2>1, <2>5, <3>1, StandIs
    <3>3. Acyclic(map, map[k])
      <4>1. CASE k \in todo
        <5>1. now[k] = map[k]
          BY <1>0, <2>5, <4>1 DEF Partly
        <5>2. <<now[k], q \cup {k}>> \in P
          BY <2>1, <2>5, <3>1
        <5> QED BY <1>1, <2>3, <3>2, <5>1, <5>2
      <4>2. CASE k \notin todo
        <5>1. Resolve(map[k], map, {}).ok
          BY <1>0, <2>5, <4>2 DEF Partly
        <5>2. map[k] \in Seq(STRING) /\ Plain(map[k]) /\ {} \in SUBSET DOMAIN map
          BY <1>0, <2>5 DEF PlainMap, IsMap
        <5> QED BY <5>1, <5>2, ResolvedOnlyIf
      <4> QED BY <4>1, <4>2
    <3>4. ReachIn(map, w) = {k} \cup ReachIn(map, map[k]) \cup ReachIn(map, Rest(w))
      BY <1>0, <2>1, <2>5, ReachFirst
    <3>5. ~ Cyclic(map, k)
      BY <3>3 DEF Acyclic, Cyclic
    <3> QED BY <2>4, <3>3, <3>4, <3>5 DEF Acyclic
  <2>6. CASE k \notin D
    <3>1. ReachIn(map, w) = ReachIn(map, Rest(w))
      BY <1>0, <2>1, <2>6, ReachFirst
    <3> QED BY <2>4, <3>1 DEF Acyclic
  <2> QED BY <2>5, <2>6
<1>4. <<v, res>> \in P
  BY <1>0, <1>2, <1>3, CallInduction
<1> QED BY <1>0, <1>1, <1>4

-----------------------------------------------------------------------------
(* The loop of resolveProperties. *)

(* The keys and the values stay texts, for any answers. *)
TypeInv == TypeOK /\ IsMap(original)

(* Every answer is a map. *)
LEMMA AnswersAreMaps ==
    ASSUME NEW m \in Answers
    PROVE  IsMap(m)
BY AnswersAssumption DEF IsMap

(* The properties stay a map. *)
LEMMA TypeInvMaps ==
    ASSUME TypeInv
    PROVE  IsMap(properties) /\ {} \in SUBSET DOMAIN properties
BY DEF TypeInv, TypeOK, IsMap

(* The invariant holds at the start, *)
LEMMA InitTypeInv == Init => TypeInv
<1> SUFFICES ASSUME Init PROVE TypeInv
  OBVIOUS
<1>1. IsMap(original)
  BY AnswersAreMaps DEF Init
<1> QED BY <1>1 DEF TypeInv, TypeOK, Init, IsMap

(* and every step keeps it. *)
LEMMA NextTypeInv == TypeInv /\ [Next]_vars => TypeInv'
<1> SUFFICES ASSUME TypeInv, [Next]_vars PROVE TypeInv'
  OBVIOUS
<1>1. ASSUME NEW k \in left, ResolveProperty(k) PROVE TypeInv'
  <2> DEFINE r == Resolve(properties[k], properties, {})
  <2>1. k \in DOMAIN properties /\ properties[k] \in Seq(STRING)
    BY DEF TypeInv, TypeOK
  <2>2. r \in Results
    BY <2>1, TypeInvMaps, Resolves
  <2>3. original' = original /\ status = "resolving"
    BY <1>1 DEF ResolveProperty
  <2>4. CASE r.ok
    <3>1. properties' = [properties EXCEPT ![k] = r.text] /\ left' = left \ {k} /\ status' = status
      BY <1>1, <2>4 DEF ResolveProperty
    <3>2. r.text \in Seq(STRING)
      BY <2>2 DEF Results
    <3> HIDE DEF r
    <3> QED BY <2>1, <2>3, <3>1, <3>2 DEF TypeInv, TypeOK, IsMap
  <2>5. CASE ~ r.ok
    <3>1. properties' = properties /\ left' = left /\ status' = "badRequest"
      BY <1>1, <2>5 DEF ResolveProperty
    <3> QED BY <2>3, <3>1 DEF TypeInv, TypeOK, IsMap
  <2> QED BY <2>4, <2>5
<1>2. CASE Respond
  BY <1>2 DEF Respond, TypeInv, TypeOK, IsMap
<1>3. CASE UNCHANGED vars
  BY <1>3 DEF vars, TypeInv, TypeOK, IsMap
<1>4. CASE Answered
  BY <1>4 DEF Answered, vars, TypeInv, TypeOK, IsMap
<1> QED BY <1>1, <1>2, <1>3, <1>4 DEF Next

(* The loop of resolveProperties keeps the keys of the map, and answers 200 *)
(* only after every one of them.                                            *)
THEOREM TypeCorrect == Spec => []TypeOK
<1>1. TypeInv => TypeOK
  BY DEF TypeInv
<1> QED BY <1>1, InitTypeInv, NextTypeInv, PTL DEF Spec

-----------------------------------------------------------------------------
(* On the way through the loop, the properties that it has passed are what *)
(* the stored ones make of them, and the others are still as stored; a     *)
(* refusal has a reason among the stored ones.                             *)
IInv == /\ PlainMap(original)
        /\ Partly(original, properties, left)
        /\ left \subseteq DOMAIN original
        /\ status \in {"resolving", "ok", "badRequest"}
        /\ status = "ok" => left = {}
        /\ status = "badRequest" => \E k \in DOMAIN original : ~ Stored(k).ok

(* It holds at the start, *)
LEMMA InitIInv ==
    ASSUME NothingNested, Init
    PROVE  IInv
<1>1. PlainMap(original)
  BY AnswersAreMaps DEF Init, PlainMap, NothingNested
<1>2. Partly(original, properties, left)
  BY DEF Init, Partly
<1> QED BY <1>1, <1>2 DEF Init, IInv

(* What the loop makes of one property. *)
LEMMA OneProperty ==
    ASSUME IInv, NEW k \in left
    PROVE  LET r == Resolve(properties[k], properties, {})
           IN  IF r.ok THEN Stored(k) = r ELSE ~ Stored(k).ok
<1> DEFINE r == Resolve(properties[k], properties, {})
<1>1. /\ PlainMap(original) /\ Partly(original, properties, left) /\ k \in DOMAIN original
      /\ {} \in SUBSET DOMAIN original
  BY DEF IInv
<1>2. properties[k] = original[k] /\ original[k] \in Seq(STRING) /\ Plain(original[k])
  BY <1>1 DEF Partly, PlainMap, IsMap
<1>3. CASE r.ok
  <2>1. Acyclic(original, original[k])
    BY <1>1, <1>2, <1>3, StillAcyclic
  <2>2. Stored(k).ok
    BY <1>1, <1>2, <2>1, ResolvedIf DEF Stored
  <2>3. r = Stored(k)
    BY <1>1, <1>2, <2>2, SameAsStored DEF Stored
  <2> QED BY <1>3, <2>3
<1>4. CASE ~ r.ok
  <2>1. ~ Stored(k).ok
    <3> SUFFICES ASSUME Stored(k).ok PROVE FALSE
      OBVIOUS
    <3>1. r = Stored(k)
      BY <1>1, <1>2, SameAsStored DEF Stored
    <3> QED BY <1>4, <3>1
  <2> QED BY <1>4, <2>1
<1> QED BY <1>3, <1>4

(* Every step keeps it. *)
LEMMA NextIInv ==
    ASSUME IInv, [Next]_vars
    PROVE  IInv'
<1>1. ASSUME NEW k \in left, ResolveProperty(k) PROVE IInv'
  <2> DEFINE r == Resolve(properties[k], properties, {})
  <2>0. k \in DOMAIN original /\ DOMAIN properties = DOMAIN original
    BY DEF IInv, Partly
  <2>1. original' = original /\ status = "resolving"
    BY <1>1 DEF ResolveProperty
  <2>2. CASE r.ok
    <3>1. properties' = [properties EXCEPT ![k] = r.text] /\ left' = left \ {k} /\ status' = status
      BY <1>1, <2>2 DEF ResolveProperty
    <3>2. Resolve(original[k], original, {}).ok /\ r.text = Resolve(original[k], original, {}).text
      BY <2>2, OneProperty DEF Stored
    <3> HIDE DEF r
    <3>3. Partly(original, properties', left')
      BY <2>0, <3>1, <3>2 DEF IInv, Partly
    <3> QED BY <2>1, <3>1, <3>3 DEF IInv
  <2>3. CASE ~ r.ok
    <3>1. properties' = properties /\ left' = left /\ status' = "badRequest"
      BY <1>1, <2>3 DEF ResolveProperty
    <3>2. ~ Stored(k).ok
      BY <2>3, OneProperty
    <3> QED BY <2>0, <2>1, <3>1, <3>2 DEF IInv, Stored
  <2> QED BY <2>2, <2>3
<1>2. CASE Respond
  BY <1>2 DEF Respond, IInv, Stored
<1>3. CASE UNCHANGED vars
  BY <1>3 DEF vars, IInv, Stored
<1>4. CASE Answered
  BY <1>4 DEF Answered, vars, IInv, Stored
<1> QED BY <1>1, <1>2, <1>3, <1>4 DEF Next

(* So it always holds. *)
LEMMA Invariance ==
    ASSUME NothingNested
    PROVE  Spec => []IInv
<1>1. Init => IInv
  BY InitIInv
<1>2. IInv /\ [Next]_vars => IInv'
  BY NextIInv
<1> QED BY <1>1, <1>2, PTL DEF Spec

(* The circles of the specification are those of the stored properties. *)
LEMMA ReachedIs ==
    ASSUME NEW k
    PROVE  ReachesItself(k) <=> Cyclic(original, k)
<1>1. \A v : Refers(v) = Keys(v) \cap DOMAIN original
  BY DEF Refers, Keys
<1>2. \A C : Closed(C) <=> ClosedIn(original, C)
  BY <1>1, Zenon DEF Closed, ClosedIn
<1>3. Reached(k) = ReachIn(original, original[k])
  BY <1>1, <1>2 DEF Reached, ReachIn
<1> QED BY <1>3 DEF ReachesItself, Cyclic

(* A stored property is resolved exactly when it reaches no circle. *)
LEMMA StoredOk ==
    ASSUME IInv, NEW k \in DOMAIN original
    PROVE  Stored(k).ok <=> Acyclic(original, original[k])
<1>1. /\ PlainMap(original) /\ original[k] \in Seq(STRING) /\ Plain(original[k])
      /\ {} \in SUBSET DOMAIN original
  BY DEF IInv, PlainMap, IsMap
<1> QED BY <1>1, ResolvedIf, ResolvedOnlyIf DEF Stored

(* Whatever order the map of properties comes in, resolveProperties makes  *)
(* of every value what the stored values make of it, and fails exactly     *)
(* when one of them cannot be resolved.                                    *)
THEOREM AnswerAnyOrder ==
    ASSUME NothingNested
    PROVE  Spec => []AnswerIgnoresOrder
<1>1. IInv => AnswerIgnoresOrder
  BY DEF IInv, Partly, AnswerIgnoresOrder, Stored
<1> QED BY <1>1, Invariance, PTL

(* A 200 holds no placeholder that resolvePropertyValue could replace.     *)
THEOREM EverythingResolved ==
    ASSUME NothingNested
    PROVE  Spec => []NothingLeftToResolve
<1>1. ASSUME IInv PROVE NothingLeftToResolve
  <2> SUFFICES ASSUME status = "ok", NEW k \in DOMAIN properties, NEW i \in Starts(properties[k])
               PROVE  /\ MatchAt(properties[k], i).key \notin DOMAIN properties
                      /\ ~ MatchAt(properties[k], i).hasDefault
    BY DEF NothingLeftToResolve
  <2>1. k \in DOMAIN original \ left /\ DOMAIN properties = DOMAIN original
    BY <1>1 DEF IInv, Partly
  <2>2. Dead(properties[k], DOMAIN original)
    BY <1>1, <2>1, PartlyPlain DEF IInv
  <2>3. i \in 1 .. Len(properties[k]) /\ Opens(properties[k], i)
    BY StartsIs
  <2> QED BY <2>1, <2>2, <2>3 DEF Dead
<1>2. IInv => NothingLeftToResolve
  BY <1>1
<1> QED BY <1>2, Invariance, PTL

(* resolveProperties refuses an answer exactly when one of its properties  *)
(* refers to itself, directly or through others.                           *)
THEOREM CirclesRefused ==
    ASSUME NothingNested
    PROVE  Spec => []RefusedIffCircular
<1>1. ASSUME IInv PROVE RefusedIffCircular
  <2>1. ASSUME status = "ok", NEW k \in DOMAIN original PROVE ~ ReachesItself(k)
    <3>1. Stored(k).ok
      BY <1>1, <2>1 DEF IInv, Partly, Stored
    <3>2. Acyclic(original, original[k])
      BY <1>1, <3>1, StoredOk
    <3>3. ~ Cyclic(original, k)
      BY <3>2 DEF Acyclic, Cyclic
    <3> QED BY <3>3, ReachedIs
  <2>2. ASSUME status = "badRequest" PROVE \E k \in DOMAIN original : ReachesItself(k)
    <3>1. PICK k \in DOMAIN original : ~ Stored(k).ok
      BY <1>1, <2>2 DEF IInv
    <3>2. ~ Acyclic(original, original[k])
      BY <1>1, <3>1, StoredOk
    <3>3. PICK j \in ReachIn(original, original[k]) : Cyclic(original, j)
      BY <3>2 DEF Acyclic
    <3>4. j \in DOMAIN original
      BY ReachClosed
    <3> QED BY <3>3, <3>4, ReachedIs
  <2> QED BY <2>1, <2>2 DEF RefusedIffCircular
<1>2. IInv => RefusedIffCircular
  BY <1>1
<1> QED BY <1>2, Invariance, PTL
=============================================================================
