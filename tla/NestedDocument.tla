--------------------------- MODULE NestedDocument ---------------------------
(***************************************************************************)
(* buildNestedProperties: the flat properties of an answer become the      *)
(* nested maps and lists of its JSON or YAML form.  The keys are added in  *)
(* byte order; one that does not fit what is there already is kept flat,   *)
(* in the innermost map it reaches.                                        *)
(*                                                                         *)
(* A document is the set of its scalars.  A scalar lies in the container   *)
(* at the path "in" under the key or index "label"; a label of several     *)
(* tokens is a flat key, their text in one name.  The containers are the   *)
(* paths on the way to a scalar: the code creates no other.                *)
(***************************************************************************)
EXTENDS Naturals, Sequences, SequencesExt

CONSTANTS Order,         \* the keys that may be stored, in byte order
          IndexOf,       \* the number an index such as "00" stands for
          maxListIndex,
          MaxKeys        \* bound: properties in one answer

(* A key is the sequence of its segments between dots.  A segment that     *)
(* partRe does not match has ok = FALSE.                                   *)
Literal == DOMAIN IndexOf
Segments == UNION {Range(Order[i]) : i \in DOMAIN Order}

ASSUME DocumentAssumption ==
    /\ Order \in Seq(Seq(Segments))
    /\ \A s \in Segments : s.ok \in BOOLEAN /\ s.indexes \in Seq(Literal)
    /\ \A i, j \in DOMAIN Order : Order[i] = Order[j] => i = j
    /\ IndexOf \in [Literal -> Nat]
    /\ maxListIndex \in Nat /\ MaxKeys \in Nat

VARIABLES properties,  \* the keys of the answer; each is its own value
          next,        \* index in Order of the key looked at next
          doc          \* the scalars of the nested document so far

vars == <<properties, next, doc>>

Init == /\ properties \in {S \in SUBSET Range(Order) : Cardinality(S) <= MaxKeys}
        /\ next = 1
        /\ doc = {}

-----------------------------------------------------------------------------
Name(n) == [isIndex |-> FALSE, name |-> n, index |-> 0]
Index(l) == [isIndex |-> TRUE, name |-> "", index |-> IndexOf[l]]

SegmentTokens(s) == (IF s.name = "" THEN <<>> ELSE <<Name(s.name)>>)
                    \o [i \in DOMAIN s.indexes |-> Index(s.indexes[i])]

ValidSegment(s) ==
    /\ s.ok
    /\ s.name # "" \/ s.indexes # <<>>
    /\ \A i \in DOMAIN s.indexes : IndexOf[s.indexes[i]] <= maxListIndex

(* Mutant: the limit on the index is not enforced. *)
ParsePropertyPath_NoLimit(key) ==
    LET tokens == FlattenSeq([i \in DOMAIN key |-> SegmentTokens(key[i])])
    IN  IF /\ \A i \in DOMAIN key : key[i].ok /\ SegmentTokens(key[i]) # <<>>
           /\ tokens # <<>> /\ ~ tokens[1].isIndex
        THEN tokens ELSE <<>>

(* parsePropertyPath: the tokens of a key, none when it is not a path. *)
ParsePropertyPath(key) ==
    LET tokens == FlattenSeq([i \in DOMAIN key |-> SegmentTokens(key[i])])
    IN  IF /\ \A i \in DOMAIN key : ValidSegment(key[i])
           /\ tokens # <<>> /\ ~ tokens[1].isIndex
        THEN tokens ELSE <<>>

(* The keys name different places, and a key comes before those below it,  *)
(* as it does in byte order if the way to them is spelled alike.           *)
InPlaceOrder(keys) ==
    \A i, j \in DOMAIN keys :
        LET t == ParsePropertyPath(keys[i])
        IN  t # <<>> /\ IsPrefix(t, ParsePropertyPath(keys[j])) => i <= j

-----------------------------------------------------------------------------
(* What setNestedValue finds at a path: nothing yet, a scalar, or a        *)
(* container of named or of indexed children.                              *)
IsScalarAt(e, p) == e.in \o e.label = p /\ Len(e.label) = 1

Below(e, p) == IsPrefix(p, e.in)

ChildOf(p, e) == (e.in \o e.label)[Len(p) + 1]

KindAt(d, p) ==
    LET below == {e \in d : Below(e, p)}
    IN  IF p = <<>> THEN "map"
        ELSE IF \E e \in d : IsScalarAt(e, p) THEN "scalar"
        ELSE IF below = {} THEN "nil"
        ELSE IF \E e \in below : ChildOf(p, e).isIndex THEN "list" ELSE "map"

(* Mutant: a list is taken for a map. *)
Conflicts_OnlyScalars(d, t) ==
    {i \in 2 .. Len(t) : KindAt(d, SubSeq(t, 1, i - 1)) = "scalar"}

(* Mutant: a container that has to be created first is taken for another. *)
Conflicts_WithNothing(d, t) ==
    {i \in 2 .. Len(t) :
        KindAt(d, SubSeq(t, 1, i - 1)) # IF t[i].isIndex THEN "list" ELSE "map"}

(* The tokens that need another container than the one that is there. *)
Conflicts(d, t) ==
    {i \in 2 .. Len(t) :
        KindAt(d, SubSeq(t, 1, i - 1)) \notin
            {"nil", IF t[i].isIndex THEN "list" ELSE "map"}}

Scalar(in, label, value) == [in |-> in, label |-> label, value |-> value]

(* setMapValue and setListValue at the last token: whatever was there is   *)
(* replaced.                                                               *)
SetNested(d, t, value) ==
    {e \in d : ~ Below(e, t) /\ ~ IsScalarAt(e, t)}
        \cup {Scalar(Front(t), <<Last(t)>>, value)}

(* Mutant: the flat key starts at the token that does not fit. *)
SetFlat_AtConflict(d, t, i, value) ==
    {e \in d : ~ (e.in = SubSeq(t, 1, i - 2) /\ e.label = SubSeq(t, i, Len(t)))}
        \cup {Scalar(SubSeq(t, 1, i - 2), SubSeq(t, i, Len(t)), value)}

(* A list reports the conflict to its caller, and the innermost map on the *)
(* way keeps the rest of the path as one flat key (renderPropertyPath).    *)
SetFlat(d, t, i, value) ==
    LET m == CHOOSE m \in 1 .. i - 1 :
                /\ ~ t[m].isIndex
                /\ \A j \in m + 1 .. i - 1 : t[j].isIndex
        in == SubSeq(t, 1, m - 1)
        label == SubSeq(t, m, Len(t))
    IN  {e \in d : ~ (e.in = in /\ e.label = label)} \cup {Scalar(in, label, value)}

(* addNestedProperty.  A key that is not a path is kept as it is, with no  *)
(* tokens of its own, at the top.                                          *)
AddNestedProperty(d, key) ==
    LET t == ParsePropertyPath(key)
    IN  IF t = <<>>
        THEN d \cup {Scalar(<<>>, <<>>, key)}
        ELSE IF Conflicts(d, t) = {}
             THEN SetNested(d, t, key)
             ELSE SetFlat(d, t, CHOOSE i \in Conflicts(d, t) :
                                    \A j \in Conflicts(d, t) : i <= j, key)

(* Mutant: the keys are ranged over in the order of the map. *)
AddNext_Unsorted ==
    /\ next <= Len(Order)
    /\ IF \A e \in properties : \E f \in doc : f.value = e
       THEN next' = Len(Order) + 1 /\ UNCHANGED doc
       ELSE /\ \E key \in {k \in properties : \A f \in doc : f.value # k} :
                  doc' = AddNestedProperty(doc, key)
            /\ UNCHANGED next
    /\ UNCHANGED properties

AddNext == /\ next <= Len(Order)
           /\ doc' = IF Order[next] \in properties
                     THEN AddNestedProperty(doc, Order[next])
                     ELSE doc
           /\ next' = next + 1
           /\ UNCHANGED properties

Built == next > Len(Order) /\ UNCHANGED vars

Next == AddNext \/ Built

Spec == Init /\ [][Next]_vars

-----------------------------------------------------------------------------
Tokens == [isIndex : BOOLEAN, name : {""} \cup {s.name : s \in Segments},
           index : 0 .. maxListIndex]

(* Scalars lie at paths with indexes within maxListIndex.                   *)
TypeOK == /\ properties \subseteq Range(Order)
          /\ next \in 1 .. Len(Order) + 1
          /\ \A e \in doc : /\ e.in \in Seq(Tokens)
                            /\ e.label \in Seq(Tokens)
                            /\ e.value \in properties

Added == {Order[i] : i \in 1 .. next - 1} \cap properties

(* No property is lost, none appears twice, and whoever joins the names    *)
(* and indexes on the way to a scalar, nested or flat, gets the key it was *)
(* stored under: "the conflicting key is preserved as-is ... instead of    *)
(* overwriting existing data" (utils.go:203-206).  It needs keys that name *)
(* different places: of "a[0]" and "a[00]" one remains.                    *)
EveryPropertyReturned ==
    /\ {e.value : e \in doc} = Added
    /\ \A e, f \in doc : e.value = f.value => e = f
    /\ \A e \in doc : e.in \o e.label = ParsePropertyPath(e.value)

(* The document can be written as JSON: a scalar has nothing below it, and *)
(* the children of a container are all named or all indexed.               *)
DocumentIsATree ==
    \A e, f \in doc :
        /\ Len(e.label) = 1 => ~ Below(f, e.in \o e.label)
        /\ \A n \in 0 .. Len(e.in) :
              LET p == SubSeq(e.in, 1, n)
              IN  e.label # <<>> /\ f.label # <<>> /\ Below(f, p)
                     => ChildOf(p, e).isIndex = ChildOf(p, f).isIndex

(* A path is kept flat only where it truly collides: another property is a *)
(* scalar on its way, or needs a container of the other kind there.        *)
FlatOnlyOnConflict ==
    \A e \in doc : Len(e.label) > 1 =>
        \E f \in doc : \E n \in Len(e.in) + 1 .. Len(e.in) + Len(e.label) - 1 :
            LET p == SubSeq(e.in \o e.label, 1, n)
            IN  \/ IsScalarAt(f, p)
                \/ Below(f, p) /\ ChildOf(p, f).isIndex # ChildOf(p, e).isIndex

(* Adding a property never takes away one that is there already, the       *)
(* action form of EveryPropertyReturned, for keys of any shape.            *)
NothingOverwritten ==
    [][\A e \in doc : \E f \in doc' : f.value = e.value]_vars
=============================================================================
