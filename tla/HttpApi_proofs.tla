--------------------------- MODULE HttpApi_proofs ---------------------------
(* What HttpApi stores comes back under every URL and is listed, for all   *)
(* names and any number of properties.                                     *)
EXTENDS HttpApi, SequenceTheorems, FiniteSetTheorems, TLAPS

-----------------------------------------------------------------------------
(* Texts. *)

LEMMA ReplaceAllText ==
    ASSUME NEW s \in Seq(Symbol), NEW old \in Symbol, NEW new \in Symbol
    PROVE  /\ ReplaceAll(s, old, new) \in Seq(Symbol)
           /\ DOMAIN ReplaceAll(s, old, new) = DOMAIN s
<1> DEFINE r == ReplaceAll(s, old, new)
<1>1. Len(s) \in Nat /\ DOMAIN s = 1..Len(s) /\ \A i \in 1..Len(s) : s[i] \in Symbol
  OBVIOUS
<1>2. r \in [1..Len(s) -> Symbol]
  BY <1>1 DEF ReplaceAll
<1>3. r \in Seq(Symbol)
  BY <1>1, <1>2, SeqDef
<1> HIDE DEF r
<1>4. DOMAIN r = DOMAIN s
  BY <1>1, <1>2
<1> QED BY <1>3, <1>4 DEF r

LEMMA ReplaceAllSymbol ==
    ASSUME NEW s \in Seq(Symbol), NEW old, NEW new
    PROVE  \A i \in DOMAIN s : ReplaceAll(s, old, new)[i] = IF s[i] = old THEN new ELSE s[i]
BY DEF ReplaceAll

LEMMA Separators ==
    /\ "/" \in Symbol /\ "." \in Symbol /\ "*" \in Symbol /\ "," \in Symbol
    /\ "&sol" \in Symbol /\ "&ast" \in Symbol /\ "%2F" \in Symbol
    /\ "config" \in Symbol /\ "ns" \in Symbol /\ "application" \in Symbol
BY PathsAssumption

LEMMA ShortTexts ==
    ASSUME NEW a \in Symbol, NEW b \in Symbol, NEW c \in Symbol, NEW d \in Symbol
    PROVE  <<>> \in Seq(Symbol) /\ <<a>> \in Seq(Symbol) /\ <<a, b, c, d>> \in Seq(Symbol)
OBVIOUS

LEMMA Associative ==
    ASSUME NEW s \in Seq(Symbol), NEW t \in Seq(Symbol), NEW u \in Seq(Symbol)
    PROVE  (s \o t) \o u = s \o (t \o u)
BY ConcatAssociative

LEMMA Parts ==
    ASSUME NEW s \in Seq(Symbol), NEW t \in Seq(Symbol)
    PROVE  /\ s \o t \in Seq(Symbol)
           /\ IsPrefix(s, s \o t)
           /\ SubSeq(s \o t, Len(s) + 1, Len(s \o t)) = t
           /\ s \o t = s <=> t = <<>>
<1>1. s \o t \in Seq(Symbol) /\ Len(s \o t) = Len(s) + Len(t)
  OBVIOUS
<1>2. SubSeq(s, 1, Len(s)) = SubSeq(s \o t, 1, Len(s))
  OBVIOUS
<1>3. SubSeq(s \o t, Len(s) + 1, Len(s \o t)) = t
  OBVIOUS
<1>4. s \o t = s <=> t = <<>>
  OBVIOUS
<1> QED BY <1>1, <1>2, <1>3, <1>4 DEF IsPrefix

(* A segment of a URL names what it was made from. *)
LEMMA SegmentDecoded ==
    ASSUME NEW s \in Seq(Symbol), "%2F" \notin Range(s)
    PROVE  GetFiberParam(Escaped(s)) = s
<1>1. \A i \in DOMAIN s : s[i] # "%2F"
  BY DEF Range
<1> DEFINE e == Escaped(s)
           g == GetFiberParam(e)
<1>2. e \in Seq(Symbol) /\ DOMAIN e = DOMAIN s
  BY ReplaceAllText, Separators DEF Escaped
<1>3. \A i \in DOMAIN s : e[i] = IF s[i] = "/" THEN "%2F" ELSE s[i]
  BY ReplaceAllSymbol DEF Escaped
<1> HIDE DEF e
<1>4. g \in Seq(Symbol) /\ DOMAIN g = DOMAIN s
  BY <1>2, ReplaceAllText, Separators DEF GetFiberParam
<1>5. \A i \in DOMAIN s : g[i] = IF e[i] = "%2F" THEN "/" ELSE e[i]
  BY <1>2, ReplaceAllSymbol DEF GetFiberParam
<1> HIDE DEF g
<1>6. \A i \in DOMAIN s : g[i] = s[i]
  BY <1>1, <1>3, <1>5
<1>7. g = s
  BY <1>4, <1>6
<1> QED BY <1>7 DEF e, g

Encoded(key) == ReplaceAll(Escape(key), ".", "/")
Decoded(text) == Unescape(ReplaceAll(text, "/", "."))

LEMMA KeyDecoded ==
    ASSUME NEW key \in Seq(Symbol), {"&sol", "&ast"} \cap Range(key) = {}
    PROVE  /\ Encoded(key) \in Seq(Symbol)
           /\ Encoded(key) = <<>> <=> key = <<>>
           /\ Decoded(Encoded(key)) = key
<1>1. \A i \in DOMAIN key : key[i] # "&sol" /\ key[i] # "&ast"
  BY DEF Range
<1> DEFINE a == ReplaceAll(key, "/", "&sol")
           b == ReplaceAll(a, "*", "&ast")
           e == ReplaceAll(b, ".", "/")
           c == ReplaceAll(e, "/", ".")
           d == ReplaceAll(c, "&sol", "/")
           k == ReplaceAll(d, "&ast", "*")
<1>2. Encoded(key) = e /\ Decoded(e) = k
  BY DEF Encoded, Escape, Decoded, Unescape
<1>3. a \in Seq(Symbol) /\ DOMAIN a = DOMAIN key
  BY ReplaceAllText, Separators
<1>4. \A i \in DOMAIN key : a[i] = IF key[i] = "/" THEN "&sol" ELSE key[i]
  BY ReplaceAllSymbol
<1> HIDE DEF a
<1>5. b \in Seq(Symbol) /\ DOMAIN b = DOMAIN key
  BY <1>3, ReplaceAllText, Separators
<1>6. \A i \in DOMAIN key : b[i] = IF a[i] = "*" THEN "&ast" ELSE a[i]
  BY <1>3, ReplaceAllSymbol
<1> HIDE DEF b
<1>7. e \in Seq(Symbol) /\ DOMAIN e = DOMAIN key
  BY <1>5, ReplaceAllText, Separators
<1>8. \A i \in DOMAIN key : e[i] = IF b[i] = "." THEN "/" ELSE b[i]
  BY <1>5, ReplaceAllSymbol
<1> HIDE DEF e
<1>9. c \in Seq(Symbol) /\ DOMAIN c = DOMAIN key
  BY <1>7, ReplaceAllText, Separators
<1>10. \A i \in DOMAIN key : c[i] = IF e[i] = "/" THEN "." ELSE e[i]
  BY <1>7, ReplaceAllSymbol
<1> HIDE DEF c
<1>11. d \in Seq(Symbol) /\ DOMAIN d = DOMAIN key
  BY <1>9, ReplaceAllText, Separators
<1>12. \A i \in DOMAIN key : d[i] = IF c[i] = "&sol" THEN "/" ELSE c[i]
  BY <1>9, ReplaceAllSymbol
<1> HIDE DEF d
<1>13. k \in Seq(Symbol) /\ DOMAIN k = DOMAIN key
  BY <1>11, ReplaceAllText, Separators
<1>14. \A i \in DOMAIN key : k[i] = IF d[i] = "&ast" THEN "*" ELSE d[i]
  BY <1>11, ReplaceAllSymbol
<1> HIDE DEF k
<1>15. \A i \in DOMAIN key : k[i] = key[i]
  BY <1>1, <1>4, <1>6, <1>8, <1>10, <1>12, <1>14
<1>16. k = key
  BY <1>13, <1>15
<1>17. e = <<>> <=> key = <<>>
  BY <1>7
<1> QED BY <1>2, <1>7, <1>16, <1>17

-----------------------------------------------------------------------------
(* Paths. *)

(* A path is the prefix of its profile and the encoded key; the key comes  *)
(* back from it.                                                           *)
LEMMA PathParts ==
    ASSUME NEW t \in Target, NEW key \in PropertyKey
    PROVE  LET prefix == FormatKeyPrefix(t[1], t[2])
               path == PathOf(t[1], t[2], key)
           IN  /\ IsPrefix(Root, path)
               /\ IsPrefix(prefix, path)
               /\ path = prefix <=> key = <<>>
               /\ KeyOf(path, prefix) = key
<1> DEFINE prefix == FormatKeyPrefix(t[1], t[2])
           path == PathOf(t[1], t[2], key)
           name == IF t[1] = Global THEN ConsulGlobal ELSE t[1]
           tail == IF t[2] = Default THEN <<>> ELSE <<",">> \o t[2]
           e == Encoded(key)
<1>1. t[1] \in Seq(Symbol) /\ t[2] \in Seq(Symbol) /\ key \in Seq(Symbol)
  BY PathsAssumption
<1>2. name \in Seq(Symbol) /\ tail \in Seq(Symbol)
  <2>1. ConsulGlobal \in Seq(Symbol)
    BY Separators, ShortTexts DEF ConsulGlobal
  <2>2. <<>> \in Seq(Symbol)
    OBVIOUS
  <2>3. <<",">> \in Seq(Symbol)
    BY Separators, ShortTexts
  <2>4. <<",">> \o t[2] \in Seq(Symbol)
    BY <1>1, <2>3, Parts
  <2> QED BY <1>1, <2>1, <2>2, <2>4
<1>3. Root \in Seq(Symbol) /\ <<"/">> \in Seq(Symbol)
  BY Separators, ShortTexts DEF Root
<1>4. e \in Seq(Symbol) /\ (e = <<>> <=> key = <<>>) /\ Decoded(e) = key
  BY <1>1, NamesAssumption, KeyDecoded
<1>5. prefix = Root \o name \o tail \o <<"/">> /\ path = prefix \o e
  BY DEF FormatKeyPrefix, PathOf, Encoded
<1> HIDE DEF prefix, path, name, tail, e
<1>6. prefix \in Seq(Symbol)
  BY <1>2, <1>3, <1>5
<1>7. IsPrefix(prefix, path) /\ (path = prefix <=> e = <<>>)
  BY <1>4, <1>5, <1>6, Parts
<1>8. KeyOf(path, prefix) = Decoded(e)
  <2>1. SubSeq(path, Len(prefix) + 1, Len(path)) = e
    BY <1>4, <1>5, <1>6, Parts
  <2> QED BY <2>1 DEF KeyOf, Decoded
<1>9. IsPrefix(Root, path)
  <2> DEFINE start == Root \o name
             end == <<"/">> \o e
             rest == name \o (tail \o end)
  <2>1. /\ start \in Seq(Symbol) /\ start \o tail \in Seq(Symbol)
        /\ end \in Seq(Symbol) /\ tail \o end \in Seq(Symbol) /\ rest \in Seq(Symbol)
    BY <1>2, <1>3, <1>4
  <2>2. path = (start \o tail) \o end
    <3> DEFINE first == start \o tail
               slash == <<"/">>
    <3>1. path = (first \o slash) \o e
      BY <1>5
    <3>2. first \in Seq(Symbol) /\ slash \in Seq(Symbol) /\ e \in Seq(Symbol)
      BY <1>3, <1>4, <2>1
    <3> HIDE DEF first, slash
    <3>3. (first \o slash) \o e = first \o (slash \o e)
      BY <3>2, Associative
    <3> QED BY <3>1, <3>3 DEF first, slash
  <2>3. path = start \o (tail \o end)
    <3> HIDE DEF start, end
    <3> QED BY <1>2, <2>1, <2>2, Associative
  <2>4. path = Root \o rest
    <3> DEFINE last == tail \o end
    <3>1. last \in Seq(Symbol) /\ path = (Root \o name) \o last /\ rest = name \o last
      BY <2>1, <2>3
    <3>2. Root \in Seq(Symbol) /\ name \in Seq(Symbol) /\ last \in Seq(Symbol)
      BY <1>2, <1>3, <3>1
    <3> HIDE DEF last, rest
    <3>3. (Root \o name) \o last = Root \o (name \o last)
      BY <3>2, Associative
    <3> QED BY <3>1, <3>3
  <2> HIDE DEF rest
  <2> QED BY <1>3, <2>1, <2>4, Parts
<1> QED BY <1>4, <1>7, <1>8, <1>9 DEF prefix, path

(* Different properties have different paths. *)
LEMMA PathsDiffer ==
    ASSUME NEW t \in Target, NEW u \in Target, NEW key \in PropertyKey, NEW other \in PropertyKey,
           PathOf(t[1], t[2], key) = PathOf(u[1], u[2], other)
    PROVE  t = u /\ key = other
<1>1. IsPrefix(FormatKeyPrefix(t[1], t[2]), PathOf(u[1], u[2], other))
  BY PathParts
<1>2. t = u
  BY <1>1, NamesAssumption
<1>3. key = KeyOf(PathOf(t[1], t[2], key), FormatKeyPrefix(t[1], t[2]))
  BY PathParts
<1>4. other = KeyOf(PathOf(t[1], t[2], other), FormatKeyPrefix(t[1], t[2]))
  BY PathParts
<1> QED BY <1>2, <1>3, <1>4

-----------------------------------------------------------------------------
(* The store holds exactly what clients wrote. *)
Properties == {<<t[1], t[2], key>> : t \in Target, key \in PropertyKey}
Path(w) == PathOf(w[1], w[2], w[3])

Stores == /\ DOMAIN wrote \subseteq Properties
          /\ DOMAIN kv = {Path(w) : w \in DOMAIN wrote}
          /\ \A w \in DOMAIN wrote : kv[Path(w)] = wrote[w] /\ wrote[w] \in Value

LEMMA PropertyParts ==
    ASSUME NEW w \in Properties
    PROVE  /\ <<w[1], w[2]>> \in Target /\ w[3] \in PropertyKey
           /\ w = <<w[1], w[2], w[3]>>
           /\ Path(w) = PathOf(<<w[1], w[2]>>[1], <<w[1], w[2]>>[2], w[3])
<1>1. PICK t \in Target, key \in PropertyKey : w = <<t[1], t[2], key>>
  BY DEF Properties
<1>2. t = <<t[1], t[2]>>
  <2>1. t \in Seq(Symbol) \X Seq(Symbol)
    BY PathsAssumption
  <2> QED BY <2>1
<1>3. w[1] = t[1] /\ w[2] = t[2] /\ w[3] = key
  BY <1>1
<1>4. <<w[1], w[2]>> = t
  BY <1>2, <1>3
<1> QED BY <1>1, <1>3, <1>4 DEF Path

LEMMA PathsOfPropertiesDiffer ==
    ASSUME NEW v \in Properties, NEW w \in Properties, Path(v) = Path(w)
    PROVE  v = w
<1> DEFINE t == <<v[1], v[2]>>
           u == <<w[1], w[2]>>
<1>1. t \in Target /\ u \in Target /\ v[3] \in PropertyKey /\ w[3] \in PropertyKey
  BY PropertyParts
<1>2. PathOf(t[1], t[2], v[3]) = PathOf(u[1], u[2], w[3])
  BY PropertyParts
<1>3. t = u /\ v[3] = w[3]
  <2> HIDE DEF t, u
  <2> QED BY <1>1, <1>2, PathsDiffer
<1>4. v[1] = w[1] /\ v[2] = w[2]
  BY <1>3
<1> QED BY <1>3, <1>4, PropertyParts

(* Listing the prefix of a profile finds the paths of its properties.      *)
LEMMA Listing ==
    ASSUME Stores, NEW t \in Target
    PROVE  List(FormatKeyPrefix(t[1], t[2])) =
               {Path(w) : w \in {u \in DOMAIN wrote : <<u[1], u[2]>> = t}}
<1> DEFINE prefix == FormatKeyPrefix(t[1], t[2])
<1>1. ASSUME NEW w \in DOMAIN wrote
      PROVE  IsPrefix(prefix, Path(w)) <=> <<w[1], w[2]>> = t
  <2> DEFINE u == <<w[1], w[2]>>
  <2>1. w \in Properties
    BY DEF Stores
  <2>2. u \in Target /\ w[3] \in PropertyKey /\ Path(w) = PathOf(u[1], u[2], w[3])
    BY <2>1, PropertyParts
  <2> HIDE DEF u
  <2>3. IsPrefix(prefix, Path(w)) => u = t
    BY <2>2, NamesAssumption
  <2>4. u = t => IsPrefix(prefix, Path(w))
    BY <2>2, PathParts
  <2> QED BY <2>3, <2>4 DEF u
<1> QED BY <1>1 DEF List, Stores

(* Stores is strong enough: a read finds what was written, under its own   *)
(* names.                                                                 *)
LEMMA StoresReads == Stores => ReadsWhatWasWritten
<1> SUFFICES ASSUME Stores, NEW t \in Target
             PROVE  Found(t[1], t[2]) =
                        {<<w[3], wrote[w]>> : w \in {u \in DOMAIN wrote : /\ <<u[1], u[2]>> = t
                                                                         /\ u[3] # <<>>}}
  BY DEF ReadsWhatWasWritten
<1> DEFINE prefix == FormatKeyPrefix(t[1], t[2])
           mine == {u \in DOMAIN wrote : <<u[1], u[2]>> = t}
<1>1. Found(t[1], t[2]) = {<<KeyOf(p, prefix), kv[p]>> : p \in {Path(w) : w \in mine} \ {prefix}}
  BY Listing DEF Found
<1>2. ASSUME NEW w \in mine
      PROVE  /\ KeyOf(Path(w), prefix) = w[3]
             /\ kv[Path(w)] = wrote[w]
             /\ Path(w) = prefix <=> w[3] = <<>>
  <2>1. w \in Properties /\ kv[Path(w)] = wrote[w]
    BY DEF Stores
  <2>2. w[3] \in PropertyKey /\ Path(w) = PathOf(t[1], t[2], w[3])
    BY <2>1, PropertyParts
  <2> QED BY <2>1, <2>2, PathParts
<1> HIDE DEF prefix, mine
<1>3. {<<KeyOf(p, prefix), kv[p]>> : p \in {Path(w) : w \in mine} \ {prefix}}
          = {<<w[3], wrote[w]>> : w \in {u \in mine : u[3] # <<>>}}
  BY <1>2
<1> QED BY <1>1, <1>3 DEF mine

-----------------------------------------------------------------------------
(* The steps. *)

LEMMA PropertiesOfProfile ==
    ASSUME NEW t \in Target, NEW keys \in SUBSET PropertyKey
    PROVE  /\ {<<t[1], t[2], key>> : key \in keys} \subseteq Properties
           /\ {PathOf(t[1], t[2], key) : key \in keys}
                  = {Path(w) : w \in {<<t[1], t[2], key>> : key \in keys}}
<1>1. \A key \in keys : Path(<<t[1], t[2], key>>) = PathOf(t[1], t[2], key)
  BY DEF Path
<1>2. {<<t[1], t[2], key>> : key \in keys} \subseteq Properties
  BY DEF Properties
<1>3. {PathOf(t[1], t[2], key) : key \in keys}
          = {Path(w) : w \in {<<t[1], t[2], key>> : key \in keys}}
  BY <1>1
<1> QED BY <1>2, <1>3

LEMMA PutStores ==
    ASSUME Stores, NEW t \in Target, NEW properties,
           \A key \in DOMAIN properties : key \in PropertyKey /\ properties[key] \in Value,
           Put(t[1], t[2], properties)
    PROVE  Stores'
<1> DEFINE new == {<<t[1], t[2], key>> : key \in DOMAIN properties}
           paths == {PathOf(t[1], t[2], key) : key \in DOMAIN properties}
           add == [p \in paths |->
                      properties[CHOOSE key \in DOMAIN properties : PathOf(t[1], t[2], key) = p]]
           says == [w \in new |-> properties[w[3]]]
<1>1. kv' = Over(add, kv) /\ wrote' = Over(says, wrote)
  BY DEF Put
<1>2. /\ DOMAIN wrote' = new \cup DOMAIN wrote
      /\ \A w \in DOMAIN wrote' : wrote'[w] = IF w \in new THEN properties[w[3]] ELSE wrote[w]
      /\ DOMAIN kv' = paths \cup DOMAIN kv
      /\ \A p \in DOMAIN kv' : kv'[p] = IF p \in paths THEN add[p] ELSE kv[p]
  BY <1>1 DEF Over
<1>3. new \subseteq Properties /\ paths = {Path(w) : w \in new}
  BY PropertiesOfProfile
<1>4. ASSUME NEW w \in new
      PROVE  add[Path(w)] = properties[w[3]] /\ w[3] \in DOMAIN properties
  <2>1. PICK key \in DOMAIN properties : w = <<t[1], t[2], key>>
    OBVIOUS
  <2>2. Path(w) = PathOf(t[1], t[2], key) /\ w[3] = key
    BY <2>1 DEF Path
  <2>3. (CHOOSE other \in DOMAIN properties : PathOf(t[1], t[2], other) = Path(w)) = key
    BY <2>2, PathsDiffer
  <2> QED BY <2>2, <2>3
<1> HIDE DEF new, paths, add, says
<1>5. DOMAIN wrote' \subseteq Properties
  BY <1>2, <1>3 DEF Stores
<1>6. DOMAIN kv' = {Path(w) : w \in DOMAIN wrote'}
  BY <1>2, <1>3 DEF Stores
<1>7. ASSUME NEW w \in DOMAIN wrote'
      PROVE  kv'[Path(w)] = wrote'[w] /\ wrote'[w] \in Value
  <2>1. CASE w \in new
    BY <1>2, <1>3, <1>4, <2>1
  <2>2. CASE w \notin new
    <3>1. w \in DOMAIN wrote /\ w \in Properties
      BY <1>2, <2>2 DEF Stores
    <3>2. Path(w) \notin paths
      BY <1>3, <2>2, <3>1, PathsOfPropertiesDiffer
    <3> QED BY <1>2, <2>2, <3>1, <3>2 DEF Stores
  <2> QED BY <2>1, <2>2
<1> QED BY <1>5, <1>6, <1>7 DEF Stores, Path

(* Taking properties and their paths away. *)
LEMMA WithoutStores ==
    ASSUME Stores, NEW gone \in SUBSET Properties,
           wrote' = Without(wrote, gone),
           NEW paths,
           \A w \in DOMAIN wrote : Path(w) \in paths <=> w \in gone,
           kv' = Without(kv, paths)
    PROVE  Stores'
<1>1. /\ DOMAIN wrote' = DOMAIN wrote \ gone
      /\ \A w \in DOMAIN wrote' : wrote'[w] = wrote[w]
      /\ DOMAIN kv' = DOMAIN kv \ paths
      /\ \A p \in DOMAIN kv' : kv'[p] = kv[p]
  BY DEF Without
<1>2. DOMAIN kv' = {Path(w) : w \in DOMAIN wrote'}
  BY <1>1 DEF Stores
<1> QED BY <1>1, <1>2 DEF Stores, Path

LEMMA DeleteKeysStores ==
    ASSUME Stores, NEW t \in Target, NEW keys \in SUBSET PropertyKey, DeleteKeys(t[1], t[2], keys)
    PROVE  Stores'
<1> DEFINE gone == {<<t[1], t[2], key>> : key \in keys}
           paths == {PathOf(t[1], t[2], key) : key \in keys}
<1>1. gone \in SUBSET Properties /\ paths = {Path(w) : w \in gone}
  BY PropertiesOfProfile
<1>2. kv' = Without(kv, paths) /\ wrote' = Without(wrote, gone)
  BY DEF DeleteKeys
<1> HIDE DEF gone, paths
<1>3. \A w \in DOMAIN wrote : Path(w) \in paths <=> w \in gone
  BY <1>1, PathsOfPropertiesDiffer DEF Stores
<1> QED BY <1>1, <1>2, <1>3, WithoutStores

LEMMA DeleteTreeStores ==
    ASSUME Stores, NEW t \in Target, DeleteTree(t[1], t[2])
    PROVE  Stores'
<1> DEFINE gone == {w \in DOMAIN wrote : w[1] = t[1] /\ w[2] = t[2]}
           paths == List(FormatKeyPrefix(t[1], t[2]))
<1>1. gone \in SUBSET Properties
  BY DEF Stores
<1>2. kv' = Without(kv, paths) /\ wrote' = Without(wrote, gone)
  BY DEF DeleteTree
<1>3. paths = {Path(w) : w \in gone}
  <2>1. t = <<t[1], t[2]>>
    <3>1. t \in Seq(Symbol) \X Seq(Symbol)
      BY PathsAssumption
    <3> QED BY <3>1
  <2>2. gone = {u \in DOMAIN wrote : <<u[1], u[2]>> = t}
    BY <2>1
  <2> HIDE DEF gone
  <2> QED BY <2>2, Listing
<1> HIDE DEF gone, paths
<1>4. \A w \in DOMAIN wrote : Path(w) \in paths <=> w \in gone
  BY <1>1, <1>3, PathsOfPropertiesDiffer DEF Stores
<1> QED BY <1>1, <1>2, <1>4, WithoutStores

(* The invariant is inductive. *)
THEOREM StoreInductive == Spec => []Stores
<1>1. Init => Stores
  BY DEF Init, Stores
<1>2. Stores /\ [Next]_vars => Stores'
  <2> SUFFICES ASSUME Stores, [Next]_vars
               PROVE  Stores'
    OBVIOUS
  <2>1. CASE UNCHANGED vars
    BY <2>1 DEF Stores, vars, Path, PathOf
  <2>2. ASSUME NEW t \in Target
        PROVE  GetFiberParam(PathTo(t)[1]) = t[1] /\ GetFiberParam(PathTo(t)[2]) = t[2]
    <3>1. t[1] \in Seq(Symbol) /\ t[2] \in Seq(Symbol)
      BY PathsAssumption
    <3>2. "%2F" \notin Range(t[1]) /\ "%2F" \notin Range(t[2])
      BY NamesAssumption
    <3> QED BY <3>1, <3>2, SegmentDecoded DEF PathTo
  <2>3. ASSUME NEW t \in Target, Post(PathTo(t))
        PROVE  Stores'
    <3>1. PICK body \in Body : AddProperties(t[1], t[2], body)
      BY <2>2, <2>3 DEF Post
    <3>2. CASE Accepted(body)
      <4> DEFINE properties == PropertyValuesAsText(body)
      <4>1. Put(t[1], t[2], properties)
        BY <3>1, <3>2 DEF AddProperties
      <4>2. \A key \in DOMAIN properties : key \in PropertyKey /\ properties[key] \in Value
        BY <3>2, BodyAssumption DEF PropertyValuesAsText
      <4> HIDE DEF properties
      <4> QED BY <4>1, <4>2, PutStores
    <3>3. CASE ~ Accepted(body)
      BY <2>1, <3>1, <3>3 DEF AddProperties
    <3> QED BY <3>2, <3>3
  <2>4. ASSUME NEW t \in Target, PostDelete(PathTo(t))
        PROVE  Stores'
    <3>1. PICK keys \in (SUBSET PropertyKey) \cup {NoList} : DeleteProperties(t[1], t[2], keys)
      BY <2>2, <2>4 DEF PostDelete
    <3>2. CASE keys = NoList
      BY <3>1, <3>2, DeleteTreeStores DEF DeleteProperties
    <3>3. CASE keys # NoList
      <4>1. keys \in SUBSET PropertyKey /\ DeleteKeys(t[1], t[2], keys)
        BY <3>1, <3>3 DEF DeleteProperties
      <4> QED BY <4>1, DeleteKeysStores
    <3> QED BY <3>2, <3>3
  <2> QED BY <2>1, <2>3, <2>4 DEF Next
<1> QED BY <1>1, <1>2, PTL DEF Spec

(* Every stored path lies in the directory of the namespace. *)
THEOREM TypeCorrect == Spec => []TypeOK
<1>1. Stores => TypeOK
  <2> SUFFICES ASSUME Stores PROVE TypeOK
    OBVIOUS
  <2>1. ASSUME NEW p \in DOMAIN kv PROVE IsPrefix(Root, p) /\ kv[p] \in Value
    <3>1. PICK w \in DOMAIN wrote : p = Path(w)
      BY DEF Stores
    <3>2. w \in Properties /\ kv[p] \in Value
      BY <3>1 DEF Stores
    <3>3. IsPrefix(Root, Path(w))
      BY <3>2, PropertyParts, PathParts
    <3> QED BY <3>1, <3>2, <3>3
  <2> QED BY <2>1 DEF TypeOK, Stores, Properties
<1> QED BY <1>1, StoreInductive, PTL

(* A read of a profile returns exactly what clients stored in it and did   *)
(* not delete: formatKeyPrefix, escape and toConfigProperties keep all     *)
(* names apart that are not directories of one another, whatever the other *)
(* names and however much is stored.                                       *)
THEOREM ReadsAreExact == Spec => []ReadsWhatWasWritten
BY StoresReads, StoreInductive, PTL

-----------------------------------------------------------------------------
(* Names the assumptions on constants allow. *)

LEMMA Concat ==
    ASSUME NEW s \in Seq(Symbol), NEW t \in Seq(Symbol)
    PROVE  /\ Len(s \o t) = Len(s) + Len(t) /\ Len(s) \in Nat /\ Len(t) \in Nat
           /\ \A i \in 1..Len(s) : (s \o t)[i] = s[i]
           /\ Len(t) > 0 => (s \o t)[Len(s) + 1] = t[1]
OBVIOUS

LEMMA CancelLeft ==
    ASSUME NEW s \in Seq(Symbol), NEW t \in Seq(Symbol), NEW u \in Seq(Symbol), s \o t = s \o u
    PROVE  t = u
<1>1. SubSeq(s \o t, Len(s) + 1, Len(s \o t)) = t /\ SubSeq(s \o u, Len(s) + 1, Len(s \o u)) = u
  BY Parts
<1> QED BY <1>1

LEMMA OneSymbol ==
    ASSUME NEW c \in Symbol
    PROVE  /\ <<c>> \in Seq(Symbol) /\ DOMAIN <<c>> = {1} /\ <<c>>[1] = c
           /\ \A p \in Seq(Symbol) : /\ <<c>> \o p \in Seq(Symbol)
                                     /\ Len(<<c>> \o p) = 1 + Len(p)
                                     /\ (<<c>> \o p)[1] = c
                                     /\ <<c>> \o p # <<>>
<1>1. <<c>> \in Seq(Symbol) /\ DOMAIN <<c>> = {1} /\ <<c>>[1] = c /\ Len(<<c>>) = 1
  OBVIOUS
<1>2. ASSUME NEW p \in Seq(Symbol)
      PROVE  /\ <<c>> \o p \in Seq(Symbol) /\ Len(<<c>> \o p) = 1 + Len(p)
             /\ (<<c>> \o p)[1] = c /\ <<c>> \o p # <<>>
  OBVIOUS
<1> QED BY <1>1, <1>2

StartsWith(s, separator) == Len(s) > 0 => s[1] = separator

LEMMA StartsWithEither ==
    ASSUME NEW s, NEW separator, s = <<>> \/ s[1] = separator
    PROVE  StartsWith(s, separator)
<1>1. Len(<<>>) = 0
  OBVIOUS
<1> QED BY <1>1 DEF StartsWith

LEMMA NotShorter ==
    ASSUME NEW separator \in Symbol,
           NEW a \in Seq(Symbol), NEW b \in Seq(Symbol),
           NEW x \in Seq(Symbol), NEW y \in Seq(Symbol),
           a \o x = b \o y,
           \A i \in DOMAIN b : b[i] # separator,
           StartsWith(x, separator)
    PROVE  Len(b) <= Len(a)
<1>1. SUFFICES ASSUME Len(a) < Len(b) PROVE FALSE
  BY Concat
<1> DEFINE z == a \o x
           k == Len(a) + 1
<1>2. Len(z) = Len(a) + Len(x) /\ Len(z) = Len(b) + Len(y)
  BY Concat
<1>3. Len(a) \in Nat /\ Len(b) \in Nat /\ Len(x) \in Nat /\ Len(y) \in Nat
  OBVIOUS
<1>4. Len(x) > 0
  <2> HIDE DEF z
  <2> QED BY <1>1, <1>2, <1>3
<1>5. z[k] = separator
  BY <1>4, Concat DEF StartsWith
<1>6. k \in 1..Len(b)
  BY <1>1, <1>3
<1>7. z[k] = b[k]
  <2>1. (b \o y)[k] = b[k]
    BY <1>6, Concat
  <2> QED BY <2>1
<1>8. b[k] # separator
  BY <1>6
<1> QED BY <1>5, <1>7, <1>8

(* A text has one reading as a part without the separator and a rest that  *)
(* begins with it.                                                         *)
LEMMA OneReading ==
    ASSUME NEW separator \in Symbol,
           NEW a \in Seq(Symbol), NEW b \in Seq(Symbol),
           NEW x \in Seq(Symbol), NEW y \in Seq(Symbol),
           a \o x = b \o y,
           \A i \in DOMAIN a : a[i] # separator,
           \A i \in DOMAIN b : b[i] # separator,
           StartsWith(x, separator), StartsWith(y, separator)
    PROVE  a = b /\ x = y
<1>1. Len(b) <= Len(a)
  BY NotShorter
<1>2. Len(a) <= Len(b)
  <2>1. b \o y = a \o x
    OBVIOUS
  <2> QED BY <2>1, NotShorter
<1>3. Len(a) = Len(b)
  BY <1>1, <1>2
<1>4. \A i \in 1..Len(a) : a[i] = b[i]
  <2>1. \A i \in 1..Len(a) : (a \o x)[i] = a[i]
    BY Concat
  <2>2. \A i \in 1..Len(b) : (b \o y)[i] = b[i]
    BY Concat
  <2> QED BY <1>3, <2>1, <2>2
<1>5. a = b
  BY <1>3, <1>4
<1>6. a \o x = a \o y
  BY <1>5
<1>7. x = y
  BY <1>6, CancelLeft
<1> QED BY <1>5, <1>7

LEMMA UpToSeparator ==
    ASSUME NEW separator \in Symbol, NEW start \in Seq(Symbol),
           NEW a \in Seq(Symbol), NEW b \in Seq(Symbol), NEW rest \in Seq(Symbol),
           \A i \in DOMAIN a : a[i] # separator,
           \A i \in DOMAIN b : b[i] # separator,
           IsPrefix(start \o (a \o <<separator>>), start \o (b \o (<<separator>> \o rest)))
    PROVE  a = b
<1> DEFINE left == a \o <<separator>>
           right == b \o (<<separator>> \o rest)
           s == start \o left
           t == start \o right
           u == SubSeq(t, Len(s) + 1, Len(t))
<1>1. <<separator>> \in Seq(Symbol) /\ <<separator>> \o rest \in Seq(Symbol)
  BY Parts
<1>2. left \in Seq(Symbol) /\ right \in Seq(Symbol) /\ s \in Seq(Symbol) /\ t \in Seq(Symbol)
  BY <1>1, Parts
<1>3. u \in Seq(Symbol) /\ t = s \o u
  <2>1. Len(s) <= Len(t) /\ SubSeq(s, 1, Len(s)) = SubSeq(t, 1, Len(s))
    BY DEF IsPrefix
  <2> HIDE DEF s, t
  <2>2. u \in Seq(Symbol) /\ Len(u) = Len(t) - Len(s)
    BY <1>2, <2>1
  <2>3. \A i \in 1..Len(s) : s[i] = t[i]
    <3>1. \A i \in 1..Len(s) : /\ SubSeq(s, 1, Len(s))[i] = s[i]
                              /\ SubSeq(t, 1, Len(s))[i] = t[i]
      BY <1>2, <2>1
    <3> QED BY <2>1, <3>1
  <2> QED BY <1>2, <2>1, <2>2, <2>3
<1>4. start \o right = start \o (left \o u)
  <2>1. start \o right = (start \o left) \o u
    BY <1>3
  <2>2. (start \o left) \o u = start \o (left \o u)
    <3>1. u \in Seq(Symbol) /\ left \in Seq(Symbol) /\ start \in Seq(Symbol)
      BY <1>2, <1>3
    <3> HIDE DEF left, u
    <3>2. u \in Seq(Symbol) /\ left \in Seq(Symbol) /\ start \in Seq(Symbol)
      BY <3>1
    <3> QED BY <3>2, Associative
  <2> QED BY <2>1, <2>2
<1>5. right = left \o u
  <2>1. left \o u \in Seq(Symbol)
    <3> HIDE DEF left, u
    <3> QED BY <1>2, <1>3
  <2> HIDE DEF left, right, u
  <2> QED BY <1>2, <1>4, <2>1, CancelLeft
<1>6. a \o (<<separator>> \o u) = b \o (<<separator>> \o rest)
  <2> DEFINE one == <<separator>>
  <2>1. /\ a \in Seq(Symbol) /\ b \in Seq(Symbol) /\ one \in Seq(Symbol)
        /\ u \in Seq(Symbol) /\ rest \in Seq(Symbol)
    BY <1>1, <1>3
  <2>2. (a \o one) \o u = b \o (one \o rest)
    BY <1>5
  <2> HIDE DEF u, one
  <2>3. (a \o one) \o u = a \o (one \o u)
    BY <2>1, Associative, ZenonT(30)
  <2> QED BY <2>2, <2>3 DEF one
<1>7. ASSUME NEW v \in Seq(Symbol)
      PROVE  <<separator>> \o v \in Seq(Symbol) /\ StartsWith(<<separator>> \o v, separator)
  BY <1>1 DEF StartsWith
<1> HIDE DEF u
<1> QED BY <1>3, <1>6, <1>7, OneReading

(* The part of a path that names application and profile. *)
Name(app) == IF app = Global THEN ConsulGlobal ELSE app
Suffix(profile) == IF profile = Default THEN <<>> ELSE <<",">> \o profile

LEMMA NamesAreTexts ==
    ASSUME NEW app \in Seq(Symbol), NEW profile \in Seq(Symbol)
    PROVE  Name(app) \in Seq(Symbol) /\ Suffix(profile) \in Seq(Symbol)
<1>1. ConsulGlobal \in Seq(Symbol)
  BY Separators, ShortTexts DEF ConsulGlobal
<1>2. <<>> \in Seq(Symbol)
  OBVIOUS
<1>3. <<",">> \in Seq(Symbol)
  BY Separators, ShortTexts
<1>4. <<",">> \o profile \in Seq(Symbol)
  BY <1>3, Parts
<1> QED BY <1>1, <1>2, <1>4 DEF Name, Suffix

(* Application and profile come back from the part that names them.        *)
LEMMA NameIsUnique ==
    ASSUME NEW app \in Seq(Symbol), NEW profile \in Seq(Symbol),
           NEW app2 \in Seq(Symbol), NEW profile2 \in Seq(Symbol),
           \A i \in DOMAIN app : app[i] # ",",
           \A i \in DOMAIN app2 : app2[i] # ",",
           app # ConsulGlobal, app2 # ConsulGlobal,
           Name(app) \o Suffix(profile) = Name(app2) \o Suffix(profile2)
    PROVE  app = app2 /\ profile = profile2
<1>1. ASSUME NEW n \in Seq(Symbol), \A i \in DOMAIN n : n[i] # ","
      PROVE  Name(n) \in Seq(Symbol) /\ \A i \in DOMAIN Name(n) : Name(n)[i] # ","
  <2>1. Name(n) \in Seq(Symbol)
    BY NamesAreTexts
  <2>2. ConsulGlobal[1] = "application" /\ DOMAIN ConsulGlobal = {1}
    BY Separators, OneSymbol DEF ConsulGlobal
  <2> QED BY <1>1, <2>1, <2>2 DEF Name
<1>2. <<",">> \in Seq(Symbol) /\ "," \in Symbol
  BY Separators, ShortTexts
<1>3. ASSUME NEW p \in Seq(Symbol)
      PROVE  /\ Suffix(p) \in Seq(Symbol) /\ StartsWith(Suffix(p), ",")
             /\ Suffix(p) = <<>> <=> p = Default
  <2>1. /\ Len(<<",">> \o p) = 1 + Len(p) /\ (<<",">> \o p)[1] = ","
        /\ <<",">> \o p # <<>>
    BY <1>2, OneSymbol
  <2>2. Suffix(p) \in Seq(Symbol)
    BY NamesAreTexts
  <2>4. StartsWith(Suffix(p), ",")
    <3>1. Suffix(p) = <<>> \/ Suffix(p)[1] = ","
      BY <2>1 DEF Suffix
    <3> QED BY <3>1, StartsWithEither
  <2>5. Suffix(p) = <<>> <=> p = Default
    BY <2>1 DEF Suffix
  <2> QED BY <2>2, <2>4, <2>5
<1>4. Name(app) = Name(app2) /\ Suffix(profile) = Suffix(profile2)
  <2> DEFINE a == Name(app)
             b == Name(app2)
             x == Suffix(profile)
             y == Suffix(profile2)
  <2>1. a \in Seq(Symbol) /\ b \in Seq(Symbol) /\ x \in Seq(Symbol) /\ y \in Seq(Symbol)
    BY NamesAreTexts
  <2>2. (\A i \in DOMAIN a : a[i] # ",") /\ (\A i \in DOMAIN b : b[i] # ",")
    BY <1>1
  <2>3. StartsWith(x, ",") /\ StartsWith(y, ",") /\ a \o x = b \o y
    BY <1>3
  <2>0. "," \in Symbol
    BY <1>2
  <2> HIDE DEF a, b, x, y
  <2>4. a = b /\ x = y
    BY <2>0, <2>1, <2>2, <2>3, OneReading, ZenonT(30)
  <2> QED BY <2>4 DEF a, b, x, y
<1>5. app = app2
  BY <1>4 DEF Name
<1>6. profile = profile2
  <2>1. CASE profile = Default
    BY <1>3, <1>4, <2>1
  <2>2. CASE profile # Default
    <3>1. profile2 # Default
      BY <1>3, <1>4, <2>2
    <3>2. <<",">> \o profile = <<",">> \o profile2
      BY <1>4, <2>2, <3>1 DEF Suffix
    <3> QED BY <1>2, <3>2, CancelLeft
  <2> QED BY <2>1, <2>2
<1> QED BY <1>5, <1>6

Lacks(c, s) == \A i \in DOMAIN s : s[i] # c

LEMMA WithoutBoth ==
    ASSUME NEW c \in Symbol, NEW s \in Seq(Symbol), NEW t \in Seq(Symbol),
           Lacks(c, s), Lacks(c, t)
    PROVE  Lacks(c, s \o t)
<1>1. \A i \in 1..Len(s) : (s \o t)[i] = s[i]
  OBVIOUS
<1>2. \A i \in Len(s)+1..Len(s)+Len(t) : (s \o t)[i] = t[i - Len(s)]
  OBVIOUS
<1>3. DOMAIN (s \o t) = 1..(Len(s) + Len(t))
  OBVIOUS
<1>4. ASSUME NEW i \in DOMAIN (s \o t)
      PROVE  (s \o t)[i] # c
  <2>1. CASE i <= Len(s)
    <3>1. i \in 1..Len(s) /\ i \in DOMAIN s
      BY <1>3, <2>1
    <3> QED BY <1>1, <3>1 DEF Lacks
  <2>2. CASE i > Len(s)
    <3>1. i \in Len(s)+1..Len(s)+Len(t) /\ i - Len(s) \in DOMAIN t
      BY <1>3, <2>2
    <3> QED BY <1>2, <3>1 DEF Lacks
  <2> QED BY <1>3, <2>1, <2>2
<1> QED BY <1>4 DEF Lacks

LEMMA LastOfAppended ==
    ASSUME NEW s \in Seq(Symbol), NEW c \in Symbol
    PROVE  LET t == s \o <<c>>
           IN  /\ t \in Seq(Symbol) /\ Len(t) = Len(s) + 1
               /\ t[Len(s) + 1] = c /\ SubSeq(t, 1, Len(s)) = s
<1>1. s \o <<c>> \in Seq(Symbol) /\ Len(s \o <<c>>) = Len(s) + 1
  OBVIOUS
<1>2. (s \o <<c>>)[Len(s) + 1] = c
  OBVIOUS
<1>3. SubSeq(s \o <<c>>, 1, Len(s)) = s
  OBVIOUS
<1> QED BY <1>1, <1>2, <1>3

(* Concatenation under a name the provers do not expand. *)
Cat(s, t) == s \o t

LEMMA CatAssociative ==
    /\ \A s, t \in Seq(Symbol) : Cat(s, t) \in Seq(Symbol)
    /\ \A s, t, u \in Seq(Symbol) : Cat(Cat(s, t), u) = Cat(s, Cat(t, u))
<1>1. \A s, t \in Seq(Symbol) : Cat(s, t) \in Seq(Symbol)
  BY Parts DEF Cat
<1>2. \A s, t, u \in Seq(Symbol) : Cat(Cat(s, t), u) = Cat(s, Cat(t, u))
  BY Associative DEF Cat
<1> QED BY <1>1, <1>2

(* A path is the root, the name, "/" and the encoded key. *)
LEMMA PathSplits ==
    ASSUME NEW app \in Seq(Symbol), NEW profile \in Seq(Symbol), NEW text \in Seq(Symbol)
    PROVE  /\ FormatKeyPrefix(app, profile) = Root \o ((Name(app) \o Suffix(profile)) \o <<"/">>)
           /\ FormatKeyPrefix(app, profile) \o text
                = Root \o ((Name(app) \o Suffix(profile)) \o (<<"/">> \o text))
<1> DEFINE slash == <<"/">>
           name == Cat(Name(app), Suffix(profile))
<1>1. Name(app) \in Seq(Symbol) /\ Suffix(profile) \in Seq(Symbol)
  BY NamesAreTexts
<1>2. slash \in Seq(Symbol) /\ Root \in Seq(Symbol)
  BY Separators, ShortTexts DEF Root
<1>3. FormatKeyPrefix(app, profile) = Cat(Cat(Cat(Root, Name(app)), Suffix(profile)), slash)
  BY Zenon DEF FormatKeyPrefix, Name, Suffix, Cat
<1> HIDE DEF slash
<1>4. Cat(Cat(Cat(Root, Name(app)), Suffix(profile)), slash) = Cat(Root, Cat(name, slash))
  BY <1>1, <1>2, CatAssociative
<1>5. Cat(Cat(Root, Cat(name, slash)), text) = Cat(Root, Cat(name, Cat(slash, text)))
  <2> DEFINE directory == Cat(name, slash)
  <2>1. name \in Seq(Symbol) /\ directory \in Seq(Symbol)
    BY <1>1, <1>2, CatAssociative
  <2> HIDE DEF name
  <2>2. Cat(directory, text) = Cat(name, Cat(slash, text))
    BY <1>2, <2>1, CatAssociative
  <2> HIDE DEF directory
  <2>3. Cat(Cat(Root, directory), text) = Cat(Root, Cat(directory, text))
    BY <1>2, <2>1, CatAssociative
  <2> QED BY <2>2, <2>3 DEF directory
<1>6. /\ FormatKeyPrefix(app, profile) = Cat(Root, Cat(name, slash))
      /\ Cat(FormatKeyPrefix(app, profile), text) = Cat(Root, Cat(name, Cat(slash, text)))
  BY <1>3, <1>4, <1>5
<1> QED BY <1>6, Zenon DEF Cat, slash

(* Names without "/", and applications that neither hold a "," nor are     *)
(* spelled as the global one is in Consul.                                 *)
Plain(app, profile) ==
    /\ app \in Seq(Symbol) /\ profile \in Seq(Symbol)
    /\ Lacks("/", app) /\ Lacks(",", app) /\ Lacks("/", profile)
    /\ app # ConsulGlobal

LEMMA PlainName ==
    ASSUME NEW app, NEW profile, Plain(app, profile)
    PROVE  Name(app) \o Suffix(profile) \in Seq(Symbol) /\ Lacks("/", Name(app) \o Suffix(profile))
<1>1. app \in Seq(Symbol) /\ profile \in Seq(Symbol) /\ Name(app) \in Seq(Symbol) /\ Suffix(profile) \in Seq(Symbol)
  BY NamesAreTexts DEF Plain
<1>2. Lacks("/", Name(app))
  <2>1. ConsulGlobal[1] = "application" /\ DOMAIN ConsulGlobal = {1}
    BY Separators, OneSymbol DEF ConsulGlobal
  <2> QED BY <2>1 DEF Name, Plain, Lacks
<1>3. Lacks("/", Suffix(profile))
  <2>1. <<",">> \in Seq(Symbol) /\ <<",">>[1] = "," /\ DOMAIN <<",">> = {1}
    BY Separators, ShortTexts, OneSymbol
  <2>2. Lacks("/", <<",">>)
    BY <2>1 DEF Lacks
  <2>3. Lacks("/", <<",">> \o profile)
    BY <1>1, <2>1, <2>2, Separators, WithoutBoth DEF Plain
  <2>4. Lacks("/", <<>>)
    BY DEF Lacks
  <2> QED BY <2>3, <2>4 DEF Suffix
<1>4. Lacks("/", Name(app) \o Suffix(profile))
  BY <1>1, <1>2, <1>3, Separators, WithoutBoth
<1> QED BY <1>1, <1>4, Parts

(* The directories of plain names never overlap, formatKeyPrefix: whatever *)
(* the keys, a listing of one application and profile finds no property of *)
(* another.  It is the third part of NamesAssumption for these names.      *)
THEOREM PlainNamesAreSeparate ==
    ASSUME NEW app, NEW profile, NEW app2, NEW profile2, NEW key \in Seq(Symbol),
           Plain(app, profile), Plain(app2, profile2),
           IsPrefix(FormatKeyPrefix(app, profile), PathOf(app2, profile2, key))
    PROVE  app = app2 /\ profile = profile2
<1> DEFINE a == Name(app) \o Suffix(profile)
           b == Name(app2) \o Suffix(profile2)
           e == ReplaceAll(Escape(key), ".", "/")
<1>0. e \in Seq(Symbol)
  <2>1. Escape(key) \in Seq(Symbol)
    BY ReplaceAllText, Separators DEF Escape
  <2> QED BY <2>1, ReplaceAllText, Separators
<1>1. app \in Seq(Symbol) /\ profile \in Seq(Symbol) /\ app2 \in Seq(Symbol) /\ profile2 \in Seq(Symbol)
  BY DEF Plain
<1>2. a \in Seq(Symbol) /\ Lacks("/", a) /\ b \in Seq(Symbol) /\ Lacks("/", b)
  BY PlainName
<1>3. IsPrefix(Root \o (a \o <<"/">>), Root \o (b \o (<<"/">> \o e)))
  <2>1. e \in Seq(Symbol)
    BY <1>0
  <2>2. FormatKeyPrefix(app, profile) = Root \o (a \o <<"/">>)
    BY <1>1, <2>1, PathSplits
  <2>3. FormatKeyPrefix(app2, profile2) \o e = Root \o (b \o (<<"/">> \o e))
    <3>1. e \in Seq(Symbol) /\ app2 \in Seq(Symbol) /\ profile2 \in Seq(Symbol)
      BY <1>1, <2>1
    <3> HIDE DEF e
    <3> QED BY <3>1, PathSplits
  <2> QED BY <2>2, <2>3 DEF PathOf
<1>4. Root \in Seq(Symbol) /\ "/" \in Symbol /\ e \in Seq(Symbol)
  BY <1>0, Separators, ShortTexts DEF Root
<1> HIDE DEF e
<1>5. a = b
  <2> HIDE DEF a, b
  <2> QED BY <1>2, <1>3, <1>4, UpToSeparator DEF Lacks
<1> QED BY <1>1, <1>5, NameIsUnique DEF Plain, Lacks

-----------------------------------------------------------------------------
(* File names. *)

(* splitApplicationAndProfiles recovers the application and the profiles   *)
(* of a file name, whatever "-" the application holds, if the profiles     *)
(* hold none.                                                              *)
THEOREM FileNamesSplit ==
    ASSUME NEW app \in Seq(Symbol), NEW profiles \in Seq(Symbol),
           app # <<>>, profiles # <<>>, Lacks("-", profiles)
    PROVE  LET name == (app \o <<"-">>) \o profiles
           IN  CanSplit(name) /\ ApplicationOf(name) = app /\ ProfilesOf(name) = profiles
<1> DEFINE dash == <<"-">>
           start == app \o dash
           name == start \o profiles
           last == Len(app) + 1
<1>1. "-" \in Symbol
  BY HttpAssumption DEF NotAlphanumeric
<1>2. Len(app) \in Nat
  OBVIOUS
<1>3. start \in Seq(Symbol) /\ Len(start) = last /\ start[last] = "-" /\ SubSeq(start, 1, last - 1) = app
  <2>1. last - 1 = Len(app)
    BY <1>2
  <2> QED BY <1>1, <2>1, LastOfAppended
<1> HIDE DEF start
<1>4. /\ name \in Seq(Symbol) /\ Len(name) = last + Len(profiles)
      /\ \A i \in 1..last : name[i] = start[i]
      /\ \A i \in last+1..last+Len(profiles) : name[i] = profiles[i - last]
  BY <1>3
<1>5. SubSeq(name, last + 1, Len(name)) = profiles
  BY <1>3
<1>6. SubSeq(name, 1, last - 1) = app
  <2>1. SubSeq(name, 1, last - 1) = SubSeq(start, 1, last - 1)
    BY <1>3, <1>4
  <2> QED BY <1>3, <2>1
<1>7. Len(app) > 0 /\ Len(profiles) > 0
  BY EmptySeq
<1> HIDE DEF name
<1>8. {i \in 1..Len(name) : name[i] = "-"} \subseteq 1..last
  <2>1. ASSUME NEW i \in 1..Len(name), i > last
        PROVE  name[i] # "-"
    <3>1. i \in last+1..last+Len(profiles) /\ i - last \in DOMAIN profiles
      BY <1>4, <2>1
    <3> QED BY <1>4, <3>1 DEF Lacks
  <2> QED BY <2>1
<1>9. last \in {i \in 1..Len(name) : name[i] = "-"}
  BY <1>3, <1>4, <1>7
<1>10. LastDash(name) = last
  <2> DEFINE I == {i \in 1..Len(name) : name[i] = "-"}
  <2>1. last \in I /\ \A i \in I : last >= i
    BY <1>8, <1>9
  <2>2. I \subseteq Int
    BY <1>4
  <2>3. LastDash(name) = Max(I)
    BY <2>1 DEF LastDash, SelectLastInSeq
  <2> HIDE DEF I
  <2>4. \A x \in I : (\A y \in I : x >= y) => x = last
    BY <2>1, <2>2
  <2>5. Max(I) = last
    BY <2>1, <2>4 DEF Max
  <2> QED BY <2>3, <2>5
<1>11. CanSplit(name) /\ ApplicationOf(name) = app /\ ProfilesOf(name) = profiles
  BY <1>4, <1>5, <1>6, <1>7, <1>10 DEF CanSplit, ApplicationOf, ProfilesOf
<1> QED BY <1>11 DEF name, start, dash

-----------------------------------------------------------------------------
(* strings.Split, which the listing rests on. *)

(* A set of numbers has a least one: with it, induction. *)
LEMMA LeastNumber ==
    ASSUME NEW T, T \subseteq Nat, T # {}
    PROVE  \E x \in T : \A y \in T : x <= y
<1> DEFINE below == OpToRel(<, Nat)
<1>1. IsWellFoundedOn(below, Nat)
  BY NatLessThanWellFounded, Zenon
<1>2. \A x, y \in Nat : <<y, x>> \in below <=> y < x
  BY DEF OpToRel
<1> HIDE DEF below
<1>3. PICK x \in T : \A y \in T : ~ (<<y, x>> \in below)
  BY <1>1, WFMin
<1>4. \A y \in T : ~ (y < x)
  BY <1>2, <1>3
<1>5. \A y \in T : x <= y
  BY <1>4
<1> QED BY <1>5

(* What one more symbol does to the parts. *)
Cut(parts, c, separator) ==
    IF c = separator THEN Append(parts, <<>>)
    ELSE [parts EXCEPT ![Len(parts)] = Append(@, c)]

Texts == {p \in Seq(Seq(Symbol)) : Len(p) >= 1}

(* f is the function Split defines on the sets of the first m positions. *)
Cuts(f, s, separator, m) ==
    f = [t \in SUBSET (1..m) |->
            IF t = {} THEN <<<<>>>> ELSE Cut(f[t \ {Max(t)}], s[Max(t)], separator)]

(* Cutting leaves texts, at least one. *)
LEMMA CutTexts ==
    ASSUME NEW parts \in Texts, NEW c \in Symbol, NEW separator
    PROVE  Cut(parts, c, separator) \in Texts
<1>1. parts \in Seq(Seq(Symbol)) /\ Len(parts) \in Nat /\ Len(parts) >= 1
  BY DEF Texts
<1>2. <<>> \in Seq(Symbol)
  OBVIOUS
<1>3. CASE c = separator
  <2>1. Append(parts, <<>>) \in Seq(Seq(Symbol)) /\ Len(Append(parts, <<>>)) = Len(parts) + 1
    BY <1>1, <1>2
  <2> QED BY <1>1, <1>3, <2>1 DEF Cut, Texts
<1>4. CASE c # separator
  <2> DEFINE n == Len(parts)
             d == [parts EXCEPT ![n] = Append(@, c)]
  <2>1. n \in 1..n /\ parts[n] \in Seq(Symbol)
    BY <1>1
  <2>2. Append(parts[n], c) \in Seq(Symbol)
    BY <2>1
  <2>3. d \in [1..n -> Seq(Symbol)]
    BY <1>1, <2>1, <2>2
  <2>4. d \in Seq(Seq(Symbol)) /\ Len(d) = n
    <3> HIDE DEF d
    <3>1. n \in Nat
      BY <1>1
    <3> HIDE DEF n
    <3>2. d \in Seq(Seq(Symbol)) /\ DOMAIN d = 1..n
      BY <2>3, <3>1, SeqDef
    <3> QED BY <3>1, <3>2
  <2> QED BY <1>1, <1>4, <2>4 DEF Cut, Texts
<1> QED BY <1>3, <1>4

(* Split is what that function says of all positions. *)
LEMMA SplitChooses ==
    ASSUME NEW s \in Seq(Symbol), NEW separator
    PROVE  Split(s, separator) = (CHOOSE f : Cuts(f, s, separator, Len(s)))[1..Len(s)]
<1>1. DOMAIN s = 1..Len(s)
  OBVIOUS
<1> QED BY <1>1, Zenon DEF Split, FoldLeft, MapThenFoldSet, Cuts, Cut

(* That function exists: on more positions, the largest one is cut last.   *)
LEMMA CutsExist ==
    ASSUME NEW s \in Seq(Symbol), NEW separator, NEW n \in 0..Len(s)
    PROVE  \E f \in [SUBSET (1..n) -> Texts] : Cuts(f, s, separator, n)
<1> DEFINE T == {m \in 0..Len(s) : ~ \E f \in [SUBSET (1..m) -> Texts] : Cuts(f, s, separator, m)}
<1>0. Len(s) \in Nat /\ \A i \in 1..Len(s) : s[i] \in Symbol
  OBVIOUS
<1> SUFFICES ASSUME T # {} PROVE FALSE
  OBVIOUS
<1>1. PICK m \in T : \A y \in T : m <= y
  <2>1. T \subseteq Nat
    BY <1>0
  <2> HIDE DEF T
  <2> QED BY <2>1, LeastNumber
<1>2. <<<<>>>> \in Texts
  BY DEF Texts
<1>3. m # 0
  <2> DEFINE f == [t \in SUBSET (1..0) |-> <<<<>>>>]
  <2>1. SUBSET (1..0) = {{}}
    BY SMT
  <2>2. f \in [SUBSET (1..0) -> Texts]
    BY <1>2
  <2>3. Cuts(f, s, separator, 0)
    BY <2>1, Zenon DEF Cuts
  <2>4. 0 \notin T
    BY <2>2, <2>3
  <2> HIDE DEF T
  <2> QED BY <2>4
<1>4. m \in 1..Len(s) /\ m - 1 \in 0..Len(s) /\ m - 1 \notin T
  <2>1. m \in 0..Len(s)
    OBVIOUS
  <2>2. m \in 1..Len(s) /\ m - 1 \in 0..Len(s) /\ ~ (m <= m - 1)
    BY <1>0, <1>3, <2>1
  <2> HIDE DEF T
  <2> QED BY <1>1, <2>2
<1>5. PICK g \in [SUBSET (1..(m-1)) -> Texts] : Cuts(g, s, separator, m-1)
  BY <1>4
<1> DEFINE f == [t \in SUBSET (1..m) |->
                    IF m \in t THEN Cut(g[t \ {m}], s[m], separator) ELSE g[t]]
<1>6. ASSUME NEW t \in SUBSET (1..m)
      PROVE  /\ m \in t => t \ {m} \in SUBSET (1..(m-1)) /\ Max(t) = m
             /\ m \notin t => t \in SUBSET (1..(m-1)) /\ \A x : t \ {x} \in SUBSET (1..(m-1))
  <2>1. \A x \in t : x # m => x \in 1..(m-1)
    BY <1>4
  <2>2. ASSUME m \in t PROVE Max(t) = m
    <3>1. \A y \in t : m >= y
      BY <1>4
    <3>2. \A x \in t : (\A y \in t : x >= y) => x = m
      BY <2>2, <3>1, <1>4
    <3> QED BY <2>2, <3>1, <3>2, Zenon DEF Max
  <2> QED BY <2>1, <2>2
<1>7. f \in [SUBSET (1..m) -> Texts]
  <2>1. ASSUME NEW t \in SUBSET (1..m)
        PROVE  (IF m \in t THEN Cut(g[t \ {m}], s[m], separator) ELSE g[t]) \in Texts
    <3>1. CASE m \in t
      <4>1. g[t \ {m}] \in Texts /\ s[m] \in Symbol
        BY <1>0, <1>4, <1>5, <1>6, <3>1
      <4> QED BY <3>1, <4>1, CutTexts
    <3>2. CASE m \notin t
      BY <1>5, <1>6, <3>2
    <3> QED BY <3>1, <3>2
  <2> QED BY <2>1
<1>8. ASSUME NEW t \in SUBSET (1..m)
      PROVE  f[t] = IF t = {} THEN <<<<>>>> ELSE Cut(f[t \ {Max(t)}], s[Max(t)], separator)
  <2>1. CASE m \in t
    <3>1. f[t] = Cut(g[t \ {m}], s[m], separator)
      BY <2>1
    <3>2. f[t \ {m}] = g[t \ {m}]
      BY <1>6, <2>1
    <3> HIDE DEF f
    <3> QED BY <2>1, <3>1, <3>2, <1>6
  <2>2. CASE m \notin t
    <3>1. f[t] = g[t]
      BY <2>2
    <3>2. ASSUME t # {} PROVE f[t \ {Max(t)}] = g[t \ {Max(t)}]
      <4>1. t \ {Max(t)} \in SUBSET (1..m) /\ m \notin t \ {Max(t)}
        BY <2>2
      <4> QED BY <4>1
    <3>3. t \in SUBSET (1..(m-1))
      BY <1>6, <2>2
    <3>4. g[t] = IF t = {} THEN <<<<>>>> ELSE Cut(g[t \ {Max(t)}], s[Max(t)], separator)
      BY <1>5, <3>3, Zenon DEF Cuts
    <3> HIDE DEF f
    <3> QED BY <3>1, <3>2, <3>4
  <2> QED BY <2>1, <2>2
<1>9. Cuts(f, s, separator, m)
  <2>1. f = [t \in SUBSET (1..m) |-> f[t]]
    OBVIOUS
  <2> HIDE DEF f
  <2> QED BY <1>8, <2>1, Zenon DEF Cuts
<1> QED BY <1>1, <1>7, <1>9

(* Split cuts the text symbol by symbol, from left to right. *)
Steps(F, s, separator) ==
    /\ F \in [0..Len(s) -> Texts]
    /\ F[0] = <<<<>>>>
    /\ \A n \in 1..Len(s) : F[n] = Cut(F[n-1], s[n], separator)

LEMMA SplitSteps ==
    ASSUME NEW s \in Seq(Symbol), NEW separator
    PROVE  \E F : Steps(F, s, separator) /\ Split(s, separator) = F[Len(s)]
<1> DEFINE f == CHOOSE f : Cuts(f, s, separator, Len(s))
<1>0. Len(s) \in Nat /\ Len(s) \in 0..Len(s)
  OBVIOUS
<1>1. PICK g \in [SUBSET (1..Len(s)) -> Texts] : Cuts(g, s, separator, Len(s))
  BY <1>0, CutsExist
<1>2. Cuts(f, s, separator, Len(s))
  BY <1>1
<1>3. Split(s, separator) = f[1..Len(s)]
  BY SplitChooses
<1> HIDE DEF f
<1> DEFINE F == [n \in 0..Len(s) |-> f[1..n]]
<1>4. \A t \in SUBSET (1..Len(s)) :
          f[t] = IF t = {} THEN <<<<>>>> ELSE Cut(f[t \ {Max(t)}], s[Max(t)], separator)
  BY <1>2, Zenon DEF Cuts
<1>5. F[0] = <<<<>>>>
  <2>1. 1..0 = {} /\ {} \in SUBSET (1..Len(s)) /\ 0 \in 0..Len(s)
    BY <1>0
  <2> QED BY <1>4, <2>1
<1>6. ASSUME NEW n \in 1..Len(s)
      PROVE  F[n] = Cut(F[n-1], s[n], separator)
  <2> HIDE DEF F
  <2>0. n \in Nat /\ n >= 1
    BY <1>0
  <2>1. n \in 0..Len(s) /\ n - 1 \in 0..Len(s) /\ n \in 1..n /\ 1..n # {}
    <3>1. n \in 0..Len(s) /\ n - 1 \in 0..Len(s)
      BY <1>0, <2>0
    <3>2. n \in 1..n
      BY <2>0
    <3> QED BY <3>1, <3>2
  <2>2. 1..n \in SUBSET (1..Len(s)) /\ (1..n) \ {n} = 1..(n-1)
    BY <1>0
  <2>3. Max(1..n) = n
    <3>1. n \in 1..n /\ \A y \in 1..n : n >= y
      BY <1>0
    <3>2. \A x \in 1..n : (\A y \in 1..n : x >= y) => x = n
      BY <3>1, <1>0
    <3> QED BY <3>1, <3>2, Zenon DEF Max
  <2>4. f[1..n] = Cut(f[1..(n-1)], s[n], separator)
    BY <1>4, <2>1, <2>2, <2>3
  <2>5. F[n] = f[1..n] /\ F[n-1] = f[1..(n-1)]
    BY <2>1 DEF F
  <2> QED BY <2>4, <2>5
<1> DEFINE bad == {n \in 0..Len(s) : F[n] \notin Texts}
<1>7. bad = {}
  <2> SUFFICES ASSUME bad # {} PROVE FALSE
    OBVIOUS
  <2> HIDE DEF F
  <2>1. PICK n \in bad : \A m \in bad : n <= m
    <3>1. bad \subseteq Nat
      BY <1>0
    <3> HIDE DEF bad
    <3> QED BY <3>1, LeastNumber
  <2>2. n # 0
    <3>1. <<<<>>>> \in Texts
      BY DEF Texts
    <3> QED BY <1>5, <3>1
  <2>3. n \in 1..Len(s) /\ n - 1 \in 0..Len(s) /\ n - 1 \notin bad
    <3>1. n \in 1..Len(s) /\ n - 1 \in 0..Len(s) /\ ~ (n <= n - 1)
      BY <1>0, <2>2
    <3> HIDE DEF bad
    <3> QED BY <2>1, <3>1
  <2>4. F[n-1] \in Texts /\ s[n] \in Symbol
    BY <2>3
  <2>5. F[n] \in Texts
    BY <1>6, <2>3, <2>4, CutTexts
  <2> QED BY <2>5
<1>8. F \in [0..Len(s) -> Texts]
  <2>1. F = [n \in 0..Len(s) |-> F[n]]
    OBVIOUS
  <2> HIDE DEF F
  <2> QED BY <1>7, <2>1
<1>9. Split(s, separator) = F[Len(s)]
  BY <1>0, <1>3
<1> HIDE DEF F
<1>10. Steps(F, s, separator)
  BY <1>5, <1>6, <1>8 DEF Steps
<1> QED BY <1>9, <1>10

(* A cut happens at the end, whatever precedes. *)
LEMMA AppendCut ==
    ASSUME NEW a \in Seq(Symbol), NEW parts \in Texts, NEW c \in Symbol, NEW separator
    PROVE  Cut(<<a>> \o parts, c, separator) = <<a>> \o Cut(parts, c, separator)
<1> DEFINE whole == <<a>> \o parts
           n == Len(parts)
<1>1. parts \in Seq(Seq(Symbol)) /\ n \in Nat /\ n >= 1
  BY DEF Texts
<1>2. /\ whole \in Seq(Seq(Symbol)) /\ Len(whole) = n + 1
      /\ whole[1] = a /\ \A i \in 2..n+1 : whole[i] = parts[i-1]
  BY <1>1
<1>3. CASE c = separator
  <2>1. Append(whole, <<>>) = <<a>> \o Append(parts, <<>>)
    BY <1>1
  <2> QED BY <1>3, <2>1 DEF Cut
<1>4. CASE c # separator
  <2> DEFINE d == [parts EXCEPT ![n] = Append(@, c)]
             e == [whole EXCEPT ![n+1] = Append(@, c)]
  <2> HIDE DEF whole
  <2>0. Cut(parts, c, separator) = d /\ Cut(whole, c, separator) = e
    <3>1. Len(whole) = n + 1
      BY <1>2
    <3>2. Cut(parts, c, separator) = d
      BY <1>4, Zenon DEF Cut
    <3>3. Cut(whole, c, separator) = [whole EXCEPT ![Len(whole)] = Append(@, c)]
      BY <1>4, Zenon DEF Cut
    <3>4. [whole EXCEPT ![Len(whole)] = Append(@, c)] = e
      <4>1. Len(whole) = n + 1
        BY <3>1
      <4> DEFINE l == Len(whole)
                 k == n + 1
      <4>2. l = k
        BY <4>1
      <4>3. e = [whole EXCEPT ![k] = Append(@, c)]
        OBVIOUS
      <4>4. [whole EXCEPT ![l] = Append(@, c)] = [whole EXCEPT ![k] = Append(@, c)]
        <5> HIDE DEF l, k
        <5> QED BY <4>2, Zenon
      <4> QED BY <4>3, <4>4
    <3>5. Cut(whole, c, separator) = e
      BY <3>3, <3>4, Zenon
    <3> HIDE DEF d, e
    <3> QED BY <3>2, <3>5
  <2>1. d \in Texts
    <3> HIDE DEF d
    <3> QED BY <2>0, CutTexts
  <2>2. d \in Seq(Seq(Symbol)) /\ DOMAIN d = 1..n /\ Len(d) = n
    BY <1>1, <2>1 DEF Texts
  <2>3. \A i \in 1..n : d[i] = IF i = n THEN Append(parts[n], c) ELSE parts[i]
    BY <1>1
  <2>4. DOMAIN e = 1..n+1 /\ \A i \in 1..n+1 : e[i] = IF i = n+1 THEN Append(whole[n+1], c) ELSE whole[i]
    <3>1. whole \in Seq(Seq(Symbol)) /\ DOMAIN whole = 1..n+1 /\ n + 1 \in 1..n+1
      BY <1>1, <1>2
    <3> QED BY <3>1
  <2> HIDE DEF d, e
  <2>5. /\ <<a>> \o d \in Seq(Seq(Symbol)) /\ DOMAIN (<<a>> \o d) = 1..n+1
        /\ (<<a>> \o d)[1] = a /\ \A i \in 2..n+1 : (<<a>> \o d)[i] = d[i-1]
    BY <1>1, <2>2
  <2>6. ASSUME NEW i \in 1..n+1 PROVE e[i] = (<<a>> \o d)[i]
    <3>1. CASE i = 1
      BY <1>1, <1>2, <2>4, <2>5, <3>1
    <3>2. CASE i # 1
      <4>1. i \in 2..n+1 /\ i - 1 \in 1..n /\ n + 1 \in 2..n+1 /\ (n + 1) - 1 = n
            /\ (i = n + 1 <=> i - 1 = n)
        BY <1>1, <3>2
      <4>2. whole[i] = parts[i-1] /\ whole[n+1] = parts[n] /\ (<<a>> \o d)[i] = d[i-1]
        BY <1>2, <2>5, <4>1
      <4>3. d[i-1] = IF i - 1 = n THEN Append(parts[n], c) ELSE parts[i-1]
        BY <2>3, <4>1
      <4>4. e[i] = IF i = n + 1 THEN Append(whole[n+1], c) ELSE whole[i]
        BY <2>4
      <4> QED BY <4>1, <4>2, <4>3, <4>4
    <3> QED BY <3>1, <3>2
  <2>7. e = <<a>> \o d
    <3> DEFINE r == <<a>> \o d
    <3>1. r \in Seq(Seq(Symbol)) /\ DOMAIN r = 1..n+1
      BY <2>5
    <3>2. r = [i \in 1..n+1 |-> r[i]]
      <4> HIDE DEF r
      <4> QED BY <3>1
    <3>3. e = [i \in 1..n+1 |-> e[i]]
      BY <2>4 DEF e
    <3> HIDE DEF r
    <3>4. \A i \in 1..n+1 : e[i] = r[i]
      BY <2>6 DEF r
    <3>5. e = r
      BY <3>2, <3>3, <3>4
    <3> QED BY <3>5 DEF r
  <2> QED BY <2>0, <2>7 DEF whole
<1> QED BY <1>3, <1>4

(* Cutting a single part. *)
LEMMA CutOne ==
    ASSUME NEW u \in Seq(Symbol), NEW c \in Symbol, NEW separator
    PROVE  /\ c # separator => Cut(<<u>>, c, separator) = <<Append(u, c)>>
           /\ c = separator => Cut(<<u>>, c, separator) = <<u>> \o <<<<>>>>
<1>1. Len(<<u>>) = 1 /\ Append(<<u>>, <<>>) = <<u>> \o <<<<>>>>
  OBVIOUS
<1>2. [<<u>> EXCEPT ![1] = Append(@, c)] = <<Append(u, c)>>
  OBVIOUS
<1> QED BY <1>1, <1>2 DEF Cut

(* Up to the first separator there is one part. *)
LEMMA UncutSoFar ==
    ASSUME NEW s \in Seq(Symbol), NEW separator, NEW F, Steps(F, s, separator),
           NEW n \in 0..Len(s), \A i \in 1..n : s[i] # separator
    PROVE  F[n] = <<SubSeq(s, 1, n)>>
<1> DEFINE bad == {m \in 0..n : F[m] # <<SubSeq(s, 1, m)>>}
<1>0. n \in Nat /\ Len(s) \in Nat /\ n <= Len(s)
  OBVIOUS
<1> SUFFICES ASSUME bad # {} PROVE FALSE
  BY <1>0
<1>1. PICK m \in bad : \A k \in bad : m <= k
  <2>1. bad \subseteq Nat
    BY <1>0
  <2> HIDE DEF bad
  <2> QED BY <2>1, LeastNumber
<1>2. m # 0
  <2>1. SubSeq(s, 1, 0) = <<>>
    OBVIOUS
  <2> QED BY <2>1 DEF Steps
<1>3. m \in 1..n /\ m \in 1..Len(s) /\ m - 1 \in 0..n /\ ~ (m <= m - 1)
  BY <1>0, <1>2
<1>4. F[m-1] = <<SubSeq(s, 1, m-1)>>
  <2>1. m - 1 \notin bad
    <3> HIDE DEF bad
    <3> QED BY <1>1, <1>3
  <2> QED BY <1>3, <2>1
<1>5. SubSeq(s, 1, m-1) \in Seq(Symbol) /\ s[m] \in Symbol /\ s[m] # separator
  BY <1>0, <1>3
<1>6. Append(SubSeq(s, 1, m-1), s[m]) = SubSeq(s, 1, m)
  BY <1>3
<1>7. F[m] = Cut(F[m-1], s[m], separator)
  BY <1>3 DEF Steps
<1>8. F[m] = <<SubSeq(s, 1, m)>>
  <2> DEFINE u == SubSeq(s, 1, m-1)
             c == s[m]
  <2>1. u \in Seq(Symbol) /\ c \in Symbol /\ c # separator
    BY <1>5
  <2>2. F[m] = Cut(<<u>>, c, separator) /\ SubSeq(s, 1, m) = Append(u, c)
    BY <1>4, <1>6, <1>7
  <2> HIDE DEF u, c
  <2>3. Cut(<<u>>, c, separator) = <<Append(u, c)>>
    BY <2>1, CutOne
  <2> QED BY <2>2, <2>3
<1> QED BY <1>8

(* A text without the separator is its only part. *)
LEMMA SplitNone ==
    ASSUME NEW s \in Seq(Symbol), NEW separator, Lacks(separator, s)
    PROVE  Split(s, separator) = <<s>>
<1>1. PICK F : Steps(F, s, separator) /\ Split(s, separator) = F[Len(s)]
  BY SplitSteps
<1>2. Len(s) \in 0..Len(s) /\ \A i \in 1..Len(s) : s[i] # separator
  BY DEF Lacks
<1>3. F[Len(s)] = <<SubSeq(s, 1, Len(s))>>
  BY <1>1, <1>2, UncutSoFar
<1>4. SubSeq(s, 1, Len(s)) = s
  OBVIOUS
<1> QED BY <1>1, <1>3, <1>4

(* What precedes the first separator is the first part; the others are the *)
(* parts of the rest.                                                      *)
LEMMA SplitFirst ==
    ASSUME NEW separator \in Symbol, NEW a \in Seq(Symbol), NEW b \in Seq(Symbol),
           Lacks(separator, a)
    PROVE  Split(a \o (<<separator>> \o b), separator) = <<a>> \o Split(b, separator)
<1> DEFINE s == a \o (<<separator>> \o b)
           l == Len(a) + 1
<1>1. /\ s \in Seq(Symbol) /\ Len(s) = l + Len(b) /\ Len(a) \in Nat /\ Len(b) \in Nat
      /\ \A i \in 1..Len(a) : s[i] = a[i]
      /\ s[l] = separator
      /\ \A i \in 1..Len(b) : s[l + i] = b[i]
      /\ SubSeq(s, 1, Len(a)) = a
  OBVIOUS
<1> HIDE DEF s
<1>2. PICK F : Steps(F, s, separator) /\ Split(s, separator) = F[Len(s)]
  BY <1>1, SplitSteps
<1>3. PICK G : Steps(G, b, separator) /\ Split(b, separator) = G[Len(b)]
  BY SplitSteps
<1>4. F[Len(a)] = <<a>>
  <2>1. Len(a) \in 0..Len(s)
    BY <1>1
  <2>2. \A i \in 1..Len(a) : s[i] # separator
    <3>1. \A i \in 1..Len(a) : a[i] # separator
      BY DEF Lacks
    <3> QED BY <1>1, <3>1
  <2>3. F[Len(a)] = <<SubSeq(s, 1, Len(a))>>
    <3> DEFINE n == Len(a)
    <3>1. s \in Seq(Symbol) /\ n \in 0..Len(s) /\ (\A i \in 1..n : s[i] # separator)
          /\ Steps(F, s, separator)
      BY <1>1, <1>2, <2>1, <2>2
    <3> HIDE DEF n
    <3>2. F[n] = <<SubSeq(s, 1, n)>>
      BY <3>1, UncutSoFar
    <3> QED BY <3>2 DEF n
  <2> QED BY <1>1, <2>3
<1>5. F[l] = <<a>> \o <<<<>>>>
  <2>1. l \in 1..Len(s) /\ l - 1 = Len(a)
    BY <1>1
  <2>2. F[l] = Cut(F[l-1], s[l], separator)
    BY <1>2, <2>1 DEF Steps
  <2>3. F[l] = Cut(<<a>>, separator, separator)
    BY <1>1, <1>4, <2>1, <2>2
  <2> QED BY <2>3, CutOne
<1>0. \A p \in Texts, c \in Symbol :
          Cut(<<a>> \o p, c, separator) = <<a>> \o Cut(p, c, separator)
  BY AppendCut
<1> DEFINE bad == {n \in 0..Len(b) : F[l + n] # <<a>> \o G[n]}
<1>6. bad = {}
  <2> SUFFICES ASSUME bad # {} PROVE FALSE
    OBVIOUS
  <2> HIDE DEF l
  <2>0. l \in Nat
    BY <1>1 DEF l
  <2>1. PICK n \in bad : \A m \in bad : n <= m
    <3>1. bad \subseteq Nat
      BY <1>1
    <3> HIDE DEF bad
    <3> QED BY <3>1, LeastNumber
  <2>2. n # 0
    <3>1. l + 0 = l
      BY <2>0
    <3>2. F[l + 0] = <<a>> \o G[0]
      BY <1>3, <1>5, <3>1 DEF Steps
    <3> QED BY <3>2
  <2>3. /\ n \in 1..Len(b) /\ n - 1 \in 0..Len(b) /\ ~ (n <= n - 1)
        /\ l + n \in 1..Len(s) /\ (l + n) - 1 = l + (n - 1)
    BY <1>1, <2>0, <2>2
  <2>4. F[l + (n-1)] = <<a>> \o G[n-1]
    <3>1. n - 1 \notin bad
      <4> HIDE DEF bad
      <4> QED BY <2>1, <2>3
    <3> QED BY <2>3, <3>1
  <2>5. G[n-1] \in Texts /\ b[n] \in Symbol /\ s[l + n] = b[n]
    <3>1. G[n-1] \in Texts
      BY <1>3, <2>3 DEF Steps
    <3>2. b[n] \in Symbol
      BY <2>3
    <3>3. s[l + n] = b[n]
      BY <1>1, <2>3 DEF l
    <3> QED BY <3>1, <3>2, <3>3
  <2>6. F[l + n] = Cut(F[l + (n-1)], b[n], separator)
    BY <1>2, <2>3, <2>5 DEF Steps
  <2>7. G[n] = Cut(G[n-1], b[n], separator)
    BY <1>3, <2>3 DEF Steps
  <2>8. F[l + n] = <<a>> \o G[n]
    <3>1. Cut(<<a>> \o G[n-1], b[n], separator) = <<a>> \o Cut(G[n-1], b[n], separator)
      <4> HIDE DEF bad
      <4> QED BY <1>0, <2>5, Zenon
    <3> QED BY <2>4, <2>6, <2>7, <3>1
  <2> QED BY <2>8
<1>7. Len(b) \notin bad /\ Len(b) \in 0..Len(b)
  <2>1. Len(b) \in 0..Len(b)
    BY <1>1
  <2> HIDE DEF bad
  <2> QED BY <1>6, <2>1
<1>8. F[l + Len(b)] = <<a>> \o G[Len(b)]
  BY <1>7
<1> QED BY <1>1, <1>2, <1>3, <1>8 DEF s

(* A text lacks a separator, or has a first one. *)
LEMMA FirstSeparator ==
    ASSUME NEW s \in Seq(Symbol), NEW separator \in Symbol, ~ Lacks(separator, s)
    PROVE  \E a, b \in Seq(Symbol) :
               Lacks(separator, a) /\ s = a \o (<<separator>> \o b)
<1> DEFINE at == {i \in 1..Len(s) : s[i] = separator}
<1>1. PICK i \in at : \A j \in at : i <= j
  <2>1. at \subseteq Nat /\ at # {}
    BY DEF Lacks
  <2> HIDE DEF at
  <2> QED BY <2>1, LeastNumber
<1> DEFINE a == SubSeq(s, 1, i-1)
           b == SubSeq(s, i+1, Len(s))
<1>2. i \in 1..Len(s) /\ s[i] = separator /\ Len(s) \in Nat
  BY <1>1
<1>3. a \in Seq(Symbol) /\ b \in Seq(Symbol) /\ Len(a) = i - 1 /\ Len(b) = Len(s) - i
      /\ \A j \in 1..(i-1) : a[j] = s[j]
  BY <1>2
<1>6. \A j \in 1..(Len(s)-i) : b[j] = s[i + j]
  BY <1>2
<1>4. Lacks(separator, a)
  <2>1. ASSUME NEW j \in 1..(i-1) PROVE s[j] # separator
    <3>1. j \in 1..Len(s) /\ ~ (i <= j)
      BY <1>2
    <3> QED BY <1>1, <3>1
  <2> QED BY <1>2, <1>3, <2>1 DEF Lacks
<1> HIDE DEF a, b
<1>5. s = a \o (<<separator>> \o b)
  <2> DEFINE t == a \o (<<separator>> \o b)
  <2>1. /\ t \in Seq(Symbol) /\ Len(t) = Len(s)
        /\ \A j \in 1..Len(s) : t[j] = IF j < i THEN a[j] ELSE IF j = i THEN separator ELSE b[j-i]
    <3> DEFINE x == <<separator>> \o b
    <3>1. /\ x \in Seq(Symbol) /\ Len(x) = 1 + Len(b) /\ x[1] = separator
          /\ \A k \in 2..1+Len(b) : x[k] = b[k-1]
      <4>1. b \in Seq(Symbol)
        BY <1>3
      <4> QED BY <4>1
    <3> HIDE DEF x
    <3>2. /\ t \in Seq(Symbol) /\ Len(t) = Len(a) + Len(x)
          /\ \A j \in 1..Len(a)+Len(x) : t[j] = IF j <= Len(a) THEN a[j] ELSE x[j - Len(a)]
      <4>1. a \in Seq(Symbol) /\ x \in Seq(Symbol)
        BY <1>3, <3>1
      <4>2. t = a \o x
        BY DEF x
      <4> HIDE DEF t
      <4> QED BY <4>1, <4>2
    <3> HIDE DEF t
    <3>3. i \in Nat /\ Len(a) + Len(x) = Len(s) /\ Len(a) = i - 1
      BY <1>2, <1>3, <3>1
    <3>4. ASSUME NEW j \in 1..Len(s)
          PROVE  t[j] = IF j < i THEN a[j] ELSE IF j = i THEN separator ELSE b[j-i]
      <4>1. j <= Len(a) <=> j < i
        BY <3>3
      <4>2. t[j] = IF j < i THEN a[j] ELSE x[j - Len(a)]
        BY <3>2, <3>3, <4>1
      <4>3. CASE j = i
        BY <3>1, <3>3, <4>2, <4>3
      <4>4. CASE j > i
        <5>1. j - Len(a) \in 2..1+Len(b) /\ (j - Len(a)) - 1 = j - i
          BY <1>2, <1>3, <3>3, <4>4
        <5> QED BY <3>1, <3>3, <4>2, <4>4, <5>1
      <4> QED BY <3>3, <4>2, <4>3, <4>4
    <3> QED BY <3>2, <3>3, <3>4
  <2> HIDE DEF t
  <2>2. ASSUME NEW j \in 1..Len(s) PROVE t[j] = s[j]
    <3>1. CASE j < i
      <4>1. j \in 1..(i-1)
        BY <1>2, <3>1
      <4> QED BY <1>3, <2>1, <3>1, <4>1
    <3>2. CASE j = i
      BY <1>2, <2>1, <3>2
    <3>3. CASE j > i
      <4>1. j - i \in 1..(Len(s)-i) /\ i + (j - i) = j /\ ~ (j < i) /\ j # i
        BY <1>2, <3>3
      <4>2. t[j] = b[j-i]
        BY <2>1, <4>1
      <4>3. b[j-i] = s[i + (j - i)]
        <5> DEFINE k == j - i
        <5>1. k \in 1..(Len(s)-i)
          BY <4>1
        <5> HIDE DEF k
        <5>2. b[k] = s[i + k]
          BY <1>6, <5>1, Zenon
        <5> QED BY <5>2 DEF k
      <4> QED BY <4>1, <4>2, <4>3
    <3> QED BY <1>2, <3>1, <3>2, <3>3
  <2>3. t = s
    BY <2>1, <2>2
  <2> QED BY <2>3 DEF t
<1> QED BY <1>3, <1>4, <1>5

(* The parts are texts, at least one. *)
LEMMA SplitTexts ==
    ASSUME NEW s \in Seq(Symbol), NEW separator
    PROVE  Split(s, separator) \in Texts
<1>1. PICK F : Steps(F, s, separator) /\ Split(s, separator) = F[Len(s)]
  BY SplitSteps
<1>2. Len(s) \in 0..Len(s)
  OBVIOUS
<1> QED BY <1>1, <1>2 DEF Steps

(* The parts of a concatenation after the first. *)
LEMMA Behind ==
    ASSUME NEW a \in Seq(Symbol), NEW parts \in Texts
    PROVE  /\ <<a>> \o parts \in Texts /\ Len(<<a>> \o parts) = Len(parts) + 1
           /\ (<<a>> \o parts)[1] = a
           /\ \A i \in 1..Len(parts) : (<<a>> \o parts)[i + 1] = parts[i]
<1>1. parts \in Seq(Seq(Symbol)) /\ Len(parts) >= 1 /\ Len(parts) \in Nat
  BY DEF Texts
<1>2. <<a>> \o parts \in Seq(Seq(Symbol)) /\ Len(<<a>> \o parts) = Len(parts) + 1
  BY <1>1
<1>3. /\ (<<a>> \o parts)[1] = a
      /\ \A i \in 1..Len(parts) : (<<a>> \o parts)[i + 1] = parts[i]
  BY <1>1
<1> QED BY <1>1, <1>2, <1>3 DEF Texts

(* The first two parts of such a concatenation. *)
LEMMA FirstTwo ==
    ASSUME NEW a \in Seq(Symbol), NEW parts \in Texts
    PROVE  /\ Len(<<a>> \o parts) # 1 /\ (<<a>> \o parts)[1] = a
           /\ (<<a>> \o parts)[2] = parts[1]
<1>1. Len(parts) \in Nat /\ Len(parts) >= 1
  BY DEF Texts
<1>2. 1 \in 1..Len(parts) /\ 1 + 1 = 2
  BY <1>1
<1> DEFINE whole == <<a>> \o parts
<1>3. Len(whole) = Len(parts) + 1 /\ whole[1] = a /\ \A i \in 1..Len(parts) : whole[i + 1] = parts[i]
  BY Behind
<1> HIDE DEF whole
<1>4. whole[1 + 1] = parts[1]
  BY <1>2, <1>3
<1> QED BY <1>1, <1>2, <1>3, <1>4 DEF whole

(* The third part of a path is what precedes the first "/" behind the root. *)
LEMMA ThirdPart ==
    ASSUME NEW a \in Seq(Symbol), NEW rest \in Seq(Symbol), Lacks("/", a)
    PROVE  LET parts == Split(Root \o (a \o (<<"/">> \o rest)), "/")
           IN  parts \in Texts /\ Len(parts) >= 3 /\ parts[3] = a
<1> DEFINE slash == <<"/">>
           config == <<"config">>
           ns == <<"ns">>
           x == Cat(a, Cat(slash, rest))
           y == Cat(ns, Cat(slash, x))
           z == Cat(config, Cat(slash, y))
<1>1. slash \in Seq(Symbol) /\ config \in Seq(Symbol) /\ ns \in Seq(Symbol)
  BY Separators, ShortTexts
<1>2. x \in Seq(Symbol) /\ y \in Seq(Symbol)
  <2> HIDE DEF slash, ns
  <2> QED BY <1>1, CatAssociative
<1>3. Root = Cat(config, Cat(slash, Cat(ns, slash)))
  BY DEF Root, Cat
<1>4. Cat(Root, x) = z
  <2> HIDE DEF slash, ns, config, x
  <2> QED BY <1>1, <1>2, <1>3, CatAssociative
<1>5. Lacks("/", config) /\ Lacks("/", ns)
  <2>1. DOMAIN config = {1} /\ config[1] = "config" /\ DOMAIN ns = {1} /\ ns[1] = "ns"
    BY Separators, OneSymbol
  <2> HIDE DEF config, ns
  <2>2. "config" # "/" /\ "ns" # "/"
    OBVIOUS
  <2> QED BY <2>1, <2>2 DEF Lacks
<1>6. /\ Split(z, "/") = <<config>> \o Split(y, "/")
      /\ Split(y, "/") = <<ns>> \o Split(x, "/")
      /\ Split(x, "/") = <<a>> \o Split(rest, "/")
  <2> HIDE DEF config, ns
  <2>1. Split(Cat(config, Cat(slash, y)), "/") = <<config>> \o Split(y, "/")
    <3> HIDE DEF y
    <3> QED BY <1>1, <1>2, <1>5, Separators, SplitFirst DEF Cat, slash
  <2>2. Split(Cat(ns, Cat(slash, x)), "/") = <<ns>> \o Split(x, "/")
    <3> HIDE DEF x
    <3> QED BY <1>1, <1>2, <1>5, Separators, SplitFirst DEF Cat, slash
  <2>3. Split(Cat(a, Cat(slash, rest)), "/") = <<a>> \o Split(rest, "/")
    BY Separators, SplitFirst DEF Cat, slash
  <2> QED BY <2>1, <2>2, <2>3
<1> DEFINE r == Split(rest, "/")
           one == <<a>> \o r
           two == <<ns>> \o one
           three == <<config>> \o two
<1>7. r \in Texts
  BY SplitTexts
<1> HIDE DEF r
<1>8. one \in Texts /\ one[1] = a
  BY <1>7, Behind
<1> HIDE DEF one
<1>9. two \in Texts /\ Len(two) = Len(one) + 1 /\ two[2] = a
  <2>1. Len(one) \in Nat /\ 1 \in 1..Len(one) /\ 1 + 1 = 2
    BY <1>8 DEF Texts
  <2> HIDE DEF ns
  <2> QED BY <1>1, <1>8, <2>1, Behind
<1> HIDE DEF two
<1>10. three \in Texts /\ Len(three) = Len(two) + 1 /\ three[3] = a
  <2>1. Len(two) \in Nat /\ 2 \in 1..Len(two) /\ 2 + 1 = 3
    BY <1>8, <1>9 DEF Texts
  <2> HIDE DEF config
  <2> QED BY <1>1, <1>9, <2>1, Behind
<1> HIDE DEF three
<1>11. Split(z, "/") = three
  BY <1>6 DEF three, two, one, r
<1>12. Len(three) >= 3
  BY <1>8, <1>9, <1>10 DEF Texts
<1>13. Root \o (a \o (<<"/">> \o rest)) = z
  BY <1>4, Zenon DEF Cat, x, slash
<1> HIDE DEF z
<1> QED BY <1>10, <1>11, <1>12, <1>13

(* The application and profile of such a part. *)
LEMMA PairOfName ==
    ASSUME NEW a \in Seq(Symbol), Lacks(",", a)
    PROVE  /\ SplitAppNameAndProfile(a) = <<a, Default>>
           /\ \A p \in Seq(Symbol) :
                  SplitAppNameAndProfile(a \o (<<",">> \o p)) = <<a, Split(p, ",")[1]>>
<1>1. SplitAppNameAndProfile(a) = <<a, Default>>
  <2>1. Split(a, ",") = <<a>> /\ Len(<<a>>) = 1 /\ <<a>>[1] = a
    BY SplitNone
  <2> QED BY <2>1 DEF SplitAppNameAndProfile
<1>2. ASSUME NEW p \in Seq(Symbol)
      PROVE  SplitAppNameAndProfile(a \o (<<",">> \o p)) = <<a, Split(p, ",")[1]>>
  <2> DEFINE r == Split(p, ",")
             s == a \o (<<",">> \o p)
             parts == <<a>> \o r
  <2>1. Split(s, ",") = parts
    BY Separators, SplitFirst
  <2>2. r \in Texts
    BY SplitTexts
  <2> HIDE DEF r
  <2>3. Len(parts) # 1 /\ parts[1] = a /\ parts[2] = r[1]
    BY <2>2, FirstTwo, Zenon
  <2> HIDE DEF parts, s
  <2>6. SplitAppNameAndProfile(s) = <<a, r[1]>>
    BY <2>1, <2>3, Zenon DEF SplitAppNameAndProfile
  <2> QED BY <2>6 DEF r, s
<1> QED BY <1>1, <1>2

-----------------------------------------------------------------------------
(* The listing. *)

(* The raw name of a directory, the part of a path that FindAll looks at.  *)
RawName(d) == d[1] \o Suffix(d[2])

(* Such names, of an application that is the global one in no spelling but *)
(* the stored one.                                                         *)
IsDirectory(d) ==
    /\ d[1] \in Seq(Symbol) /\ d[2] \in Seq(Symbol)
    /\ d = <<d[1], d[2]>>
    /\ Lacks(",", d[1])
    /\ d[1] \in GlobalSpellings <=> d[1] = ConsulGlobal

(* A raw name is split into what ListedAs calls its directory. *)
LEMMA RawNameSplits ==
    ASSUME NEW d, IsDirectory(d)
    PROVE  /\ SplitAppNameAndProfile(RawName(d)) = <<d[1], Split(d[2], ",")[1]>>
           /\ ConfigProfileOf(RawName(d)) = ListedAs(d)
<1> DEFINE a == d[1]
           profile == d[2]
           first == Split(d[2], ",")[1]
<1>0. a \in Seq(Symbol) /\ profile \in Seq(Symbol)
  BY Zenon DEF IsDirectory
<1>1. Lacks(",", a)
  BY Zenon DEF IsDirectory
<1>2. a \in GlobalSpellings <=> a = ConsulGlobal
  BY Zenon DEF IsDirectory
<1>3. SplitAppNameAndProfile(a \o Suffix(profile)) = <<a, first>>
  <2> HIDE DEF a, profile
  <2>1. CASE profile = Default
    <3>1. a \o Suffix(profile) = a
      <4>1. Suffix(profile) = <<>>
        BY <2>1, Zenon DEF Suffix
      <4>2. a \o <<>> = a
        BY <1>0
      <4> QED BY <4>1, <4>2, Zenon
    <3>2. DOMAIN Default = {1} /\ Default[1] = "default"
      BY DEF Default
    <3>3. Lacks(",", Default)
      BY <3>2 DEF Lacks
    <3>4. Split(Default, ",") = <<Default>>
      BY <1>0, <2>1, <3>3, SplitNone, Zenon
    <3>5. <<Default>>[1] = Default
      OBVIOUS
    <3> QED BY <1>0, <1>1, <2>1, <3>1, <3>4, <3>5, PairOfName, Zenon DEF first, profile
  <2>2. CASE profile # Default
    <3>1. a \o Suffix(profile) = a \o (<<",">> \o profile)
      BY <2>2, Zenon DEF Suffix
    <3> QED BY <1>0, <1>1, <3>1, PairOfName, Zenon DEF first, profile
  <2> QED BY <2>1, <2>2
<1>4. RawName(d) = a \o Suffix(profile)
  BY Zenon DEF RawName
<1> HIDE DEF first
<1>5. <<a, first>>[1] = a /\ <<a, first>>[2] = first
  OBVIOUS
<1>6. ConfigProfileOf(RawName(d)) = <<IF a \in GlobalSpellings THEN Global ELSE a, first>>
  <2> HIDE DEF a, profile
  <2> QED BY <1>3, <1>4, <1>5, Zenon DEF ConfigProfileOf
<1>7. ListedAs(d) = <<IF a = ConsulGlobal THEN Global ELSE a, first>>
  BY Zenon DEF ListedAs, first
<1>8. (IF a \in GlobalSpellings THEN Global ELSE a) = (IF a = ConsulGlobal THEN Global ELSE a)
  <2> HIDE DEF a
  <2> QED BY <1>2, Zenon
<1> HIDE DEF a, profile
<1>9. SplitAppNameAndProfile(RawName(d)) = <<a, first>>
  BY <1>3, <1>4, Zenon
<1>10. ConfigProfileOf(RawName(d)) = ListedAs(d)
  BY <1>6, <1>7, <1>8
<1> QED BY <1>9, <1>10, Zenon DEF a, first

(* No two directories have one raw name. *)
LEMMA RawNamesDiffer ==
    ASSUME NEW d, NEW e, IsDirectory(d), IsDirectory(e), RawName(d) = RawName(e)
    PROVE  d = e
<1>1. d[1] \in Seq(Symbol) /\ d[2] \in Seq(Symbol) /\ e[1] \in Seq(Symbol) /\ e[2] \in Seq(Symbol)
  BY Zenon DEF IsDirectory
<1>2. d[1] = e[1]
  <2>1. \A a, b, x, y : <<a, b>> = <<x, y>> => a = x
    OBVIOUS
  <2>2. <<d[1], Split(d[2], ",")[1]>> = <<e[1], Split(e[2], ",")[1]>>
    BY RawNameSplits, Zenon
  <2> QED BY <2>1, <2>2, Zenon
<1>3. Suffix(d[2]) = Suffix(e[2])
  <2>1. d[1] \o Suffix(d[2]) = d[1] \o Suffix(e[2])
    BY <1>2, Zenon DEF RawName
  <2>2. Suffix(d[2]) \in Seq(Symbol) /\ Suffix(e[2]) \in Seq(Symbol)
    BY <1>1, NamesAreTexts
  <2> QED BY <1>1, <2>1, <2>2, CancelLeft, Zenon
<1>4. d[2] = e[2]
  <2>1. "," \in Symbol /\ <<",">> \in Seq(Symbol)
    BY Separators, OneSymbol
  <2>2. <<",">> \o d[2] # <<>> /\ <<",">> \o e[2] # <<>>
    BY <1>1, <2>1, OneSymbol
  <2>3. CASE d[2] = Default \/ e[2] = Default
    BY <1>3, <2>2, <2>3, Zenon DEF Suffix
  <2>4. CASE d[2] # Default /\ e[2] # Default
    <3>1. <<",">> \o d[2] = <<",">> \o e[2]
      BY <1>3, <2>4, Zenon DEF Suffix
    <3> QED BY <1>1, <2>1, <3>1, CancelLeft, Zenon
  <2> QED BY <2>3, <2>4, Zenon
<1>5. d = <<d[1], d[2]>> /\ e = <<e[1], e[2]>>
  BY Zenon DEF IsDirectory
<1> QED BY <1>2, <1>4, <1>5, Zenon

(* What Listable says of one target. *)
LEMMA NamesOfTarget ==
    ASSUME Listable, NEW app, NEW profile, <<app, profile>> \in Target
    PROVE  /\ app \in Seq(Symbol) /\ profile \in Seq(Symbol)
           /\ Lacks(",", app)
           /\ "/" \notin Range(app) => Lacks("/", app) /\ Lacks("/", profile)
           /\ app # Global => Split(app, "/")[1] \notin GlobalSpellings
<1> DEFINE t == <<app, profile>>
<1>1. t \in Target /\ t[1] = app /\ t[2] = profile
  OBVIOUS
<1>2. app \in Seq(Symbol) /\ profile \in Seq(Symbol)
  BY PathsAssumption
<1> HIDE DEF t
<1>3. /\ "," \notin Range(app)
      /\ "/" \in Range(app) \/ "/" \notin Range(profile)
      /\ app # Global => Split(app, "/")[1] \notin GlobalSpellings
  BY <1>1, Zenon DEF Listable
<1>4. \A c : c \notin Range(app) => Lacks(c, app)
  BY Zenon DEF Lacks, Range
<1>5. \A c : c \notin Range(profile) => Lacks(c, profile)
  BY Zenon DEF Lacks, Range
<1> QED BY <1>2, <1>3, <1>4, <1>5, Zenon

(* A concatenation that is associated from the left is one from the right. *)
LEMMA CatNested ==
    ASSUME NEW a \in Seq(Symbol), NEW b \in Seq(Symbol), NEW c \in Seq(Symbol),
           NEW x \in Seq(Symbol), NEW y \in Seq(Symbol)
    PROVE  Cat(Cat(Cat(a, Cat(c, b)), x), Cat(c, y)) = Cat(a, Cat(c, Cat(b, Cat(x, Cat(c, y)))))
<1> DEFINE t == Cat(c, y)
           u == Cat(x, t)
           v == Cat(c, b)
<1>1. t \in Seq(Symbol) /\ v \in Seq(Symbol)
  BY CatAssociative
<1>2. Cat(v, u) = Cat(c, Cat(b, u)) /\ u \in Seq(Symbol)
  <2> HIDE DEF t
  <2> QED BY <1>1, CatAssociative
<1>3. Cat(Cat(Cat(a, v), x), t) = Cat(Cat(a, v), u) /\ Cat(Cat(a, v), u) = Cat(a, Cat(v, u))
  <2>1. Cat(a, v) \in Seq(Symbol)
    BY <1>1, CatAssociative
  <2> HIDE DEF t, v
  <2> QED BY <1>1, <1>2, <2>1, CatAssociative
<1> QED BY <1>2, <1>3

(* The text b in the directory a, and what follows a in the path of a      *)
(* property of the application a/b.                                        *)
Below(a, b) == a \o (<<"/">> \o b)
Further(b, profile, text) == Cat(b, Cat(Suffix(profile), Cat(<<"/">>, text)))

(* The first directory of such an application is the third of its paths.   *)
LEMMA DirectoryPath ==
    ASSUME NEW a \in Seq(Symbol), NEW b \in Seq(Symbol),
           NEW profile \in Seq(Symbol), NEW text \in Seq(Symbol),
           Below(a, b) # Global
    PROVE  /\ Further(b, profile, text) \in Seq(Symbol)
           /\ Cat(FormatKeyPrefix(Below(a, b), profile), text)
                  = Cat(Root, Below(a, Further(b, profile, text)))
<1> DEFINE slash == <<"/">>
           app == Cat(a, Cat(slash, b))
           x == Suffix(profile)
           rest == Cat(b, Cat(x, Cat(slash, text)))
<1>1. slash \in Seq(Symbol) /\ x \in Seq(Symbol)
  BY Separators, ShortTexts, NamesAreTexts
<1>2. app = Below(a, b)
  BY Zenon DEF Cat, Below
<1>3. app \in Seq(Symbol)
  <2> HIDE DEF slash
  <2> QED BY <1>1, CatAssociative
<1>4. rest \in Seq(Symbol)
  <2> HIDE DEF slash, x
  <2> QED BY <1>1, CatAssociative
<1>5. FormatKeyPrefix(app, profile) \o text = Cat(Root, Cat(Cat(app, x), Cat(slash, text)))
  <2> HIDE DEF app
  <2>1. Name(app) = app
    BY <1>2, Zenon DEF Name
  <2>2. FormatKeyPrefix(app, profile) \o text = Root \o ((Name(app) \o x) \o (<<"/">> \o text))
    BY <1>3, PathSplits
  <2> QED BY <2>1, <2>2, Zenon DEF Cat
<1>6. Cat(Cat(app, x), Cat(slash, text)) = Cat(a, Cat(slash, rest))
  <2> HIDE DEF slash, x
  <2> QED BY <1>1, CatNested
<1>7. FormatKeyPrefix(app, profile) \o text = Root \o Below(a, rest)
  <2> HIDE DEF app, rest
  <2> QED BY <1>5, <1>6, Zenon DEF Cat, slash, Below
<1>8. rest = Further(b, profile, text)
  BY Zenon DEF Further
<1> HIDE DEF app, rest
<1> QED BY <1>2, <1>4, <1>7, <1>8, Zenon DEF Cat

(* An application with "/" is listed by what precedes it. *)
LEMMA ListedDirectory ==
    ASSUME NEW a \in Seq(Symbol), NEW b \in Seq(Symbol),
           NEW profile \in Seq(Symbol), NEW text \in Seq(Symbol),
           Lacks("/", a), Below(a, b) # Global
    PROVE  LET path == Cat(FormatKeyPrefix(Below(a, b), profile), text)
           IN  Len(Split(path, "/")) >= 3 /\ Split(path, "/")[3] = a
<1> DEFINE rest == Further(b, profile, text)
<1>1. rest \in Seq(Symbol) /\ Cat(FormatKeyPrefix(Below(a, b), profile), text) = Cat(Root, Below(a, rest))
  BY DirectoryPath
<1> HIDE DEF rest
<1>2. FormatKeyPrefix(Below(a, b), profile) \o text = Root \o (a \o (<<"/">> \o rest))
  BY <1>1, Zenon DEF Cat, Below
<1> QED BY <1>1, <1>2, ThirdPart, Zenon DEF Cat

(* One without is listed whole, with its profile. *)
LEMMA ListedName ==
    ASSUME NEW app \in Seq(Symbol), NEW profile \in Seq(Symbol), NEW text \in Seq(Symbol),
           Plain(app, profile)
    PROVE  LET path == FormatKeyPrefix(app, profile) \o text
           IN  Len(Split(path, "/")) >= 3 /\ Split(path, "/")[3] = Name(app) \o Suffix(profile)
<1> DEFINE name == Name(app) \o Suffix(profile)
<1>1. name \in Seq(Symbol) /\ Lacks("/", name)
  BY PlainName
<1>2. FormatKeyPrefix(app, profile) \o text = Root \o (name \o (<<"/">> \o text))
  BY PathSplits
<1> HIDE DEF name
<1>3. LET path == FormatKeyPrefix(app, profile) \o text
      IN  Len(Split(path, "/")) >= 3 /\ Split(path, "/")[3] = name
  BY <1>1, <1>2, ThirdPart, Zenon
<1> QED BY <1>3, Zenon DEF name

(* A path is listed by the raw name of its directory. *)
LEMMA ListedPath ==
    ASSUME Listable, NEW app, NEW profile, <<app, profile>> \in Target, NEW text \in Seq(Symbol)
    PROVE  LET path == FormatKeyPrefix(app, profile) \o text
           IN  /\ IsDirectory(Directory(app, profile))
               /\ Len(Split(path, "/")) >= 3
               /\ Split(path, "/")[3] = RawName(Directory(app, profile))
<1> DEFINE path == FormatKeyPrefix(app, profile) \o text
           first == Split(app, "/")[1]
<1>1. /\ app \in Seq(Symbol) /\ profile \in Seq(Symbol)
      /\ Lacks(",", app)
      /\ "/" \notin Range(app) => Lacks("/", app) /\ Lacks("/", profile)
      /\ app # Global => first \notin GlobalSpellings
  BY NamesOfTarget
<1>2. CASE "/" \in Range(app)
  <2>1. ~ Lacks("/", app)
    BY <1>2, Zenon DEF Lacks, Range
  <2>2. PICK a, b \in Seq(Symbol) : Lacks("/", a) /\ app = a \o (<<"/">> \o b)
    BY <1>1, <2>1, Separators, FirstSeparator, Zenon
  <2>3. Global # app
    <3>1. DOMAIN Global = {1} /\ Global[1] = "global" /\ "global" # "/"
      BY DEF Global
    <3> QED BY <2>1, <3>1, Zenon DEF Lacks
  <2>4. Lacks(",", a)
    <3>1. \A i \in DOMAIN a : i \in DOMAIN app /\ app[i] = a[i]
      BY <2>2
    <3> QED BY <1>1, <3>1, Zenon DEF Lacks
  <2>5. first = a
    <3> DEFINE r == Split(b, "/")
    <3>1. Split(app, "/") = <<a>> \o r
      BY <2>2, Separators, SplitFirst, Zenon
    <3>2. r \in Texts
      BY <2>2, SplitTexts, Zenon
    <3> HIDE DEF r
    <3>3. (<<a>> \o r)[1] = a
      BY <2>2, <3>2, FirstTwo, Zenon
    <3> QED BY <3>1, <3>3, Zenon
  <2>6. Len(Split(path, "/")) >= 3 /\ Split(path, "/")[3] = a
    <3> DEFINE whole == Below(a, b)
    <3>1. whole = app
      BY <2>2, Zenon DEF Below
    <3>2. whole # Global
      BY <2>3, <3>1, Zenon
    <3>3. Lacks("/", a) /\ a \in Seq(Symbol) /\ b \in Seq(Symbol)
      BY <2>2, Zenon
    <3> DEFINE p == Cat(FormatKeyPrefix(whole, profile), text)
    <3>4. Len(Split(p, "/")) >= 3 /\ Split(p, "/")[3] = a
      <4>1. profile \in Seq(Symbol)
        BY <1>1, Zenon
      <4> HIDE DEF path, first
      <4> QED BY <3>2, <3>3, <4>1, ListedDirectory
    <3> HIDE DEF whole
    <3>5. p = path
      BY <3>1, Zenon DEF Cat
    <3> HIDE DEF p, path
    <3> QED BY <3>4, <3>5, Zenon
  <2> HIDE DEF path, first
  <2>7. Directory(app, profile) = <<a, Default>>
    BY <1>2, <2>5, Zenon DEF Directory, first
  <2>8. <<a, Default>>[1] = a /\ <<a, Default>>[2] = Default
    OBVIOUS
  <2>9. Default \in Seq(Symbol) /\ a \o <<>> = a
    <3>1. "default" \in Symbol
      BY PathsAssumption
    <3>2. Default \in Seq(Symbol)
      BY <3>1, OneSymbol DEF Default
    <3> QED BY <2>2, <3>2
  <2>10. a \notin GlobalSpellings /\ a # ConsulGlobal
    BY <1>1, <2>3, <2>5, PathsAssumption, Zenon
  <2>11. IsDirectory(<<a, Default>>)
    BY <2>2, <2>4, <2>8, <2>9, <2>10, Zenon DEF IsDirectory
  <2>12. RawName(<<a, Default>>) = a
    BY <2>8, <2>9, Zenon DEF RawName, Suffix
  <2> QED BY <2>6, <2>7, <2>11, <2>12, Zenon DEF path
<1>3. CASE "/" \notin Range(app)
  <2>1. Lacks("/", app) /\ Lacks("/", profile)
    BY <1>1, <1>3
  <2>2. first = app
    <3>1. Split(app, "/") = <<app>>
      BY <1>1, <2>1, SplitNone, Zenon
    <3>2. <<app>>[1] = app
      OBVIOUS
    <3> QED BY <3>1, <3>2, Zenon
  <2>3. app # ConsulGlobal
    <3>1. ConsulGlobal # Global
      BY DEF ConsulGlobal, Global
    <3> QED BY <1>1, <2>2, <3>1, PathsAssumption, Zenon
  <2>4. Plain(app, profile)
    BY <1>1, <2>1, <2>3, Zenon DEF Plain
  <2> DEFINE n == Name(app)
  <2>5. Len(Split(path, "/")) >= 3 /\ Split(path, "/")[3] = n \o Suffix(profile)
    BY <1>1, <2>4, ListedName, Zenon
  <2>6. Directory(app, profile) = <<n, profile>>
    BY <1>3, Zenon DEF Directory, Name
  <2>7. n \in Seq(Symbol)
    BY <1>1, NamesAreTexts
  <2>8. Lacks(",", n)
    <3>1. ConsulGlobal[1] = "application" /\ DOMAIN ConsulGlobal = {1}
      BY Separators, OneSymbol DEF ConsulGlobal
    <3>2. Lacks(",", ConsulGlobal)
      BY <3>1 DEF Lacks
    <3> QED BY <1>1, <3>2, Zenon DEF Name
  <2>9. n \in GlobalSpellings <=> n = ConsulGlobal
    BY <1>1, <2>2, <2>3, PathsAssumption, Zenon DEF Name
  <2> HIDE DEF path, n, first
  <2>10. <<n, profile>>[1] = n /\ <<n, profile>>[2] = profile
    OBVIOUS
  <2>11. IsDirectory(<<n, profile>>)
    BY <1>1, <2>7, <2>8, <2>9, <2>10, Zenon DEF IsDirectory
  <2>12. RawName(<<n, profile>>) = n \o Suffix(profile)
    BY <2>10, Zenon DEF RawName
  <2> QED BY <2>5, <2>6, <2>11, <2>12, Zenon DEF path
<1> QED BY <1>2, <1>3

(* The directories that hold a property. *)
Directories == {Directory(w[1], w[2]) : w \in DOMAIN wrote}

(* FindAll sees the raw names of these directories. *)
LEMMA ListedIsStored ==
    ASSUME Listable, Stores
    PROVE  /\ \A d \in Directories : IsDirectory(d)
           /\ ListedNames = {RawName(d) : d \in Directories}
<1>1. ASSUME NEW w \in DOMAIN wrote
      PROVE  /\ IsDirectory(Directory(w[1], w[2]))
             /\ IsPrefix(Root, Path(w)) /\ Len(Split(Path(w), "/")) >= 3
             /\ Split(Path(w), "/")[3] = RawName(Directory(w[1], w[2]))
  <2>1. w \in Properties
    BY DEF Stores
  <2>2. <<w[1], w[2]>> \in Target /\ w[3] \in PropertyKey
    BY <2>1, PropertyParts
  <2>3. Path(w) = FormatKeyPrefix(w[1], w[2]) \o Encoded(w[3])
    BY Zenon DEF Path, PathOf, Encoded
  <2>4. Encoded(w[3]) \in Seq(Symbol)
    <3>1. w[3] \in Seq(Symbol) /\ {"&sol", "&ast"} \cap Range(w[3]) = {}
      BY <2>2, PathsAssumption, NamesAssumption
    <3> QED BY <3>1, KeyDecoded
  <2>5. IsPrefix(Root, Path(w))
    BY <2>1, PropertyParts, PathParts
  <2> DEFINE path == FormatKeyPrefix(w[1], w[2]) \o Encoded(w[3])
  <2>6. /\ IsDirectory(Directory(w[1], w[2]))
        /\ Len(Split(path, "/")) >= 3
        /\ Split(path, "/")[3] = RawName(Directory(w[1], w[2]))
    BY <2>2, <2>4, ListedPath
  <2> HIDE DEF path
  <2>7. path = Path(w)
    BY <2>3 DEF path
  <2> QED BY <2>5, <2>6, <2>7
<1>2. List(Root) = {Path(w) : w \in DOMAIN wrote}
  BY <1>1 DEF List, Stores
<1>3. {q \in List(Root) : Len(Split(q, "/")) >= 3} = {Path(w) : w \in DOMAIN wrote}
  BY <1>1, <1>2, Zenon
<1>4. {Split(p, "/")[3] : p \in {Path(w) : w \in DOMAIN wrote}} = {RawName(d) : d \in Directories}
  BY <1>1, Zenon DEF Directories
<1>5. \A d \in Directories : IsDirectory(d)
  BY <1>1, Zenon DEF Directories
<1> QED BY <1>3, <1>4, <1>5, Zenon DEF ListedNames

(* Clients have stored finitely many properties. *)
FinitelyMany == IsFiniteSet(DOMAIN wrote)

LEMMA PutFinitelyMany ==
    ASSUME FinitelyMany, NEW app, NEW profile, NEW properties, IsFiniteSet(DOMAIN properties),
           Put(app, profile, properties)
    PROVE  FinitelyMany'
<1> DEFINE keys == DOMAIN properties
           new == {<<app, profile, key>> : key \in keys}
           name == [key \in keys |-> <<app, profile, key>>]
<1>1. DOMAIN wrote' = new \cup DOMAIN wrote
  BY DEF Put, Over
<1>2. name \in Surjection(keys, new)
  BY DEF Surjection
<1>3. IsFiniteSet(new)
  <2> HIDE DEF new, name
  <2> QED BY <1>2, FS_Surjection
<1> HIDE DEF new
<1> QED BY <1>1, <1>3, FS_Union DEF FinitelyMany

LEMMA WithoutFinitelyMany ==
    ASSUME FinitelyMany, NEW gone, wrote' = Without(wrote, gone)
    PROVE  FinitelyMany'
<1>1. DOMAIN wrote' \in SUBSET DOMAIN wrote
  BY DEF Without
<1> QED BY <1>1, FS_Subset DEF FinitelyMany

LEMMA AlwaysFinitelyMany == Spec => []FinitelyMany
<1>1. Init => FinitelyMany
  <2>1. DOMAIN <<>> = {}
    OBVIOUS
  <2> QED BY <2>1, FS_EmptySet DEF Init, FinitelyMany
<1>2. FinitelyMany /\ [Next]_vars => FinitelyMany'
  <2> SUFFICES ASSUME FinitelyMany, [Next]_vars
               PROVE  FinitelyMany'
    OBVIOUS
  <2>1. CASE UNCHANGED vars
    BY <2>1 DEF FinitelyMany, vars
  <2>2. ASSUME NEW path, Post(path) PROVE FinitelyMany'
    <3>1. PICK body \in Body : \E app, profile : AddProperties(app, profile, body)
      BY <2>2 DEF Post
    <3>2. CASE Accepted(body)
      <4> DEFINE properties == PropertyValuesAsText(body)
      <4>1. PICK app, profile : Put(app, profile, properties)
        BY <3>1, <3>2 DEF AddProperties
      <4>2. IsFiniteSet(DOMAIN properties)
        BY <3>2, BodyAssumption DEF PropertyValuesAsText
      <4> HIDE DEF properties
      <4> QED BY <4>1, <4>2, PutFinitelyMany
    <3>3. CASE ~ Accepted(body)
      BY <2>1, <3>1, <3>3 DEF AddProperties
    <3> QED BY <3>2, <3>3
  <2>3. ASSUME NEW path, PostDelete(path) PROVE FinitelyMany'
    <3>1. PICK keys, app, profile : DeleteProperties(app, profile, keys)
      BY <2>3 DEF PostDelete
    <3>2. \E gone : wrote' = Without(wrote, gone)
      BY <3>1 DEF DeleteProperties, DeleteTree, DeleteKeys
    <3> QED BY <3>2, WithoutFinitelyMany
  <2> QED BY <2>1, <2>2, <2>3 DEF Next
<1> QED BY <1>1, <1>2, PTL DEF Spec

(* The entries of a profile in the listing, and the directories they stand  *)
(* for.                                                                    *)
Entries(app, p) == {n \in DOMAIN Listed : Listed[n][1] = app /\ Listed[n][2] = p}
DirectoriesOf(app, p) == {d \in Directories : ListedAs(d)[1] = app /\ ListedAs(d)[2] = p}

(* RawName is a bijection between the directories with some property and   *)
(* the raw names listed with it, so both are equally many.                 *)
LEMMA AsOftenAsDirectories ==
    ASSUME Listable, Stores, FinitelyMany, NEW app, NEW p
    PROVE  Cardinality(Entries(app, p)) = Cardinality(DirectoriesOf(app, p))
<1> DEFINE S == DirectoriesOf(app, p)
           T == Entries(app, p)
           name == [d \in S |-> RawName(d)]
           of == [w \in DOMAIN wrote |-> Directory(w[1], w[2])]
<1>1. IsFiniteSet(S)
  <2>1. of \in Surjection(DOMAIN wrote, Directories)
    BY DEF Surjection, Directories
  <2>2. IsFiniteSet(Directories)
    <3> HIDE DEF of
    <3> QED BY <2>1, FS_Surjection DEF FinitelyMany
  <2>3. S \in SUBSET Directories
    BY DEF DirectoriesOf
  <2> HIDE DEF S
  <2> QED BY <2>2, <2>3, FS_Subset
<1>2. /\ DOMAIN Listed = {RawName(d) : d \in Directories}
      /\ \A d \in Directories : Listed[RawName(d)] = ListedAs(d)
  BY ListedIsStored, RawNameSplits DEF Listed
<1>3. T = {RawName(d) : d \in S}
  BY <1>2 DEF Entries, DirectoriesOf
<1>4. \A d, e \in S : RawName(d) = RawName(e) => d = e
  BY ListedIsStored, RawNamesDiffer DEF DirectoriesOf
<1>5. name \in Bijection(S, T)
  <2> HIDE DEF S, T
  <2> QED BY <1>3, <1>4 DEF Bijection, Injection, Surjection, IsInjective
<1>6. ExistsBijection(S, T)
  <2> HIDE DEF S, T, name
  <2> QED BY <1>5 DEF ExistsBijection
<1>7. Cardinality(T) = Cardinality(S)
  <2> HIDE DEF S, T
  <2> QED BY <1>1, <1>6, FS_Bijection
<1> QED BY <1>7 DEF S, T

(* Tuples are sequences. *)
LEMMA Tuples ==
    ASSUME NEW S, NEW a \in S, NEW b \in S, NEW c \in S, NEW d \in S, NEW e \in S, NEW f \in S
    PROVE  /\ <<a, b>> \in Seq(S) /\ <<a, b, c>> \in Seq(S)
           /\ <<a, b, c, d, e, f>> \in Seq(S) /\ Len(<<a, b, c, d, e, f>>) = 6
OBVIOUS

-----------------------------------------------------------------------------
(* The routes in their order. *)

(* z is the n symbols of x and the m of y. *)
Parted(S, z, x, y, n, m) ==
    /\ z \in Seq(S) /\ Len(z) = n + m
    /\ \A i \in 1..n : z[i] = x[i]
    /\ \A i \in 1..m : z[n + i] = y[i]

LEMMA JoinedParts ==
    ASSUME NEW S, NEW x \in Seq(S), NEW y \in Seq(S)
    PROVE  Parted(S, Cat(x, y), x, y, Len(x), Len(y))
BY DEF Cat, Parted

LEMMA RouteTable ==
    /\ Len(Routes) = 19
    /\ \A i \in 1..6 : Routes[i] = OtherRoutes[i]
    /\ \A i \in 1..4 : Routes[6 + i] = Get(<<Parameter, File(i)>>, "FindFile")
    /\ \A i \in 1..4 : Routes[10 + i] = Get(<<File(i)>>, "FindFile")
    /\ \A i \in 1..2 : Routes[14 + i] = FindOneRoutes[i]
    /\ \A i \in 1..3 : Routes[16 + i] = WriteRoutes[i]
<1> DEFINE a == Get(<<<<"health">>>>, "Probe")
           b == Get(<<<<"health">>, <<"liveness">>>>, "Probe")
           c == Get(<<<<"readiness">>>>, "Probe")
           d == Get(Probe, "Probe")
           e == Get(<<<<"swagger-ui">>, <<"swagger", ".", "json">>>>, "Swagger")
           f == Get(<<<<"applications">>>>, "GetApplicationsAndProfiles")
           g == Get(<<Parameter, Parameter>>, "FindOne")
           h == Get(<<Parameter, Parameter, Parameter>>, "FindOne")
           k == WriteRoutes[1]
           l == WriteRoutes[2]
           m == WriteRoutes[3]
           p(i) == Get(<<Parameter, File(i)>>, "FindFile")
           q(i) == Get(<<File(i)>>, "FindFile")
           P == [i \in 1..4 |-> p(i)]
           Q == [i \in 1..4 |-> q(i)]
           S == {a, b, c, d, e, f, g, h, k, l, m} \cup {p(i) : i \in 1..4} \cup {q(i) : i \in 1..4}
<1>1. /\ OtherRoutes = <<a, b, c, d, e, f>> /\ FindOneRoutes = <<g, h>>
      /\ FileRoutes = Cat(P, Q)
  BY Zenon DEF OtherRoutes, FindOneRoutes, FileRoutes, Cat
<1>2. WriteRoutes = <<k, l, m>>
  BY DEF WriteRoutes
<1> HIDE DEF a, b, c, d, e, f, g, h, k, l, m, p, q
<1>3. /\ OtherRoutes \in Seq(S) /\ Len(OtherRoutes) = 6
      /\ FindOneRoutes \in Seq(S) /\ Len(FindOneRoutes) = 2
      /\ WriteRoutes \in Seq(S) /\ Len(WriteRoutes) = 3
  <2>1. /\ a \in S /\ b \in S /\ c \in S /\ d \in S /\ e \in S /\ f \in S
        /\ g \in S /\ h \in S /\ k \in S /\ l \in S /\ m \in S
    OBVIOUS
  <2> HIDE DEF S
  <2>2. <<a, b, c, d, e, f>> \in Seq(S) /\ Len(<<a, b, c, d, e, f>>) = 6
    BY <2>1, Tuples
  <2>3. <<g, h>> \in Seq(S) /\ <<k, l, m>> \in Seq(S) /\ Len(<<g, h>>) = 2 /\ Len(<<k, l, m>>) = 3
    BY <2>1
  <2> QED BY <1>1, <1>2, <2>2, <2>3, Zenon
<1>4. P \in Seq(S) /\ Len(P) = 4 /\ Q \in Seq(S) /\ Len(Q) = 4
  <2>1. \A i \in 1..4 : p(i) \in S /\ q(i) \in S
    OBVIOUS
  <2> HIDE DEF S
  <2> QED BY <2>1
<1>5. \A i \in 1..4 : P[i] = p(i) /\ Q[i] = q(i)
  OBVIOUS
<1> HIDE DEF S, P, Q
<1> DEFINE one == Cat(OtherRoutes, FileRoutes)
           two == Cat(one, FindOneRoutes)
<1>7. /\ FileRoutes \in Seq(S) /\ Len(FileRoutes) = 8
      /\ \A i \in 1..4 : FileRoutes[i] = P[i]
      /\ \A i \in 1..4 : FileRoutes[4 + i] = Q[i]
  <2>1. /\ Cat(P, Q) \in Seq(S) /\ Len(Cat(P, Q)) = 4 + 4
        /\ \A i \in 1..4 : Cat(P, Q)[i] = P[i]
        /\ \A i \in 1..4 : Cat(P, Q)[4 + i] = Q[i]
    <3>1. Parted(S, Cat(P, Q), P, Q, 4, 4)
      BY <1>4, JoinedParts
    <3> QED BY <3>1, Zenon DEF Parted
  <2> QED BY <1>1, <2>1
<1>8. /\ one \in Seq(S) /\ Len(one) = 14
      /\ \A i \in 1..6 : one[i] = OtherRoutes[i]
      /\ \A i \in 1..8 : one[6 + i] = FileRoutes[i]
  <2>1. /\ one \in Seq(S) /\ Len(one) = 6 + 8
        /\ \A i \in 1..6 : one[i] = OtherRoutes[i]
        /\ \A i \in 1..8 : one[6 + i] = FileRoutes[i]
    <3>1. Parted(S, one, OtherRoutes, FileRoutes, 6, 8)
      BY <1>3, <1>7, JoinedParts
    <3> QED BY <3>1, Zenon DEF Parted
  <2> HIDE DEF one
  <2> QED BY <2>1
<1> HIDE DEF one
<1>9. /\ two \in Seq(S) /\ Len(two) = 16
      /\ \A i \in 1..14 : two[i] = one[i]
      /\ \A i \in 1..2 : two[14 + i] = FindOneRoutes[i]
  <2>1. /\ two \in Seq(S) /\ Len(two) = 14 + 2
        /\ \A i \in 1..14 : two[i] = one[i]
        /\ \A i \in 1..2 : two[14 + i] = FindOneRoutes[i]
    <3>1. Parted(S, two, one, FindOneRoutes, 14, 2)
      BY <1>3, <1>8, JoinedParts
    <3> QED BY <3>1, Zenon DEF Parted
  <2> HIDE DEF two
  <2> QED BY <2>1
<1> HIDE DEF two
<1>10. Routes = Cat(two, WriteRoutes)
  BY Zenon DEF Routes, Cat, two, one
<1>11. /\ Len(Routes) = 19 /\ \A i \in 1..16 : Routes[i] = two[i]
       /\ \A i \in 1..3 : Routes[16 + i] = WriteRoutes[i]
  <2>1. /\ Len(Routes) = 16 + 3
        /\ \A i \in 1..16 : Routes[i] = two[i]
        /\ \A i \in 1..3 : Routes[16 + i] = WriteRoutes[i]
    <3>1. Parted(S, Routes, two, WriteRoutes, 16, 3)
      <4>1. two \in Seq(S) /\ Len(two) = 16 /\ WriteRoutes \in Seq(S) /\ Len(WriteRoutes) = 3
        BY <1>3, <1>9
      <4>2. Parted(S, Cat(two, WriteRoutes), two, WriteRoutes, Len(two), Len(WriteRoutes))
        BY <4>1, JoinedParts
      <4> QED BY <1>10, <4>1, <4>2, Zenon
    <3> QED BY <3>1, Zenon DEF Parted
  <2> QED BY <2>1
<1>12. \A i \in 1..4 : /\ one[6 + i] = P[i] /\ one[6 + (4 + i)] = Q[i]
                       /\ 6 + (4 + i) = 10 + i /\ 6 + i \in 1..14 /\ 10 + i \in 1..14
  BY <1>7, <1>8
<1>13. \A i \in 1..4 : Routes[6 + i] = P[i] /\ Routes[10 + i] = Q[i]
  <2>1. \A i \in 1..14 : Routes[i] = one[i]
    BY <1>9, <1>11
  <2> QED BY <1>12, <2>1
<1>14. \A i \in 1..6 : Routes[i] = OtherRoutes[i]
  BY <1>8, <1>9, <1>11
<1>15. \A i \in 1..2 : Routes[14 + i] = FindOneRoutes[i]
  BY <1>9, <1>11
<1>16. \A i \in 1..4 : Routes[6 + i] = p(i) /\ Routes[10 + i] = q(i)
  BY <1>5, <1>13
<1> QED BY <1>11, <1>14, <1>15, <1>16, Zenon DEF p, q

-----------------------------------------------------------------------------
(* The routes of the URLs that read. *)

Words == {"health", "readiness", "applications"}
FixedPairs == {<<<<"health">>, <<"liveness">>>>, Probe,
               <<<<"swagger-ui">>, <<"swagger", ".", "json">>>>}

(* A route for words alone, for files, or for an environment. *)
OneWord(r) == Len(r.path) = 1 /\ \E w \in Words : r.path[1] = <<w>>
TwoWords(r) == r.path \in FixedPairs
LabelledFile(r) == r.handler = "FindFile" /\ \E i \in 1..4 : r.path = <<Parameter, File(i)>>
PlainFile(r) == r.handler = "FindFile" /\ \E i \in 1..4 : r.path = <<File(i)>>
ReadsPair(r) == r.handler = "FindOne" /\ r.path = <<Parameter, Parameter>>
ReadsLabelled(r) == r.handler = "FindOne" /\ r.path = <<Parameter, Parameter, Parameter>>

LEMMA RouteKinds ==
    /\ \A i \in 1..16 : Routes[i].method = "GET"
    /\ \A i \in 1..6 : OneWord(Routes[i]) \/ TwoWords(Routes[i])
    /\ \A i \in 7..10 : LabelledFile(Routes[i]) /\ Routes[i].path = <<Parameter, File(i - 6)>>
    /\ \A i \in 11..14 : PlainFile(Routes[i]) /\ Routes[i].path = <<File(i - 10)>>
    /\ ReadsPair(Routes[15]) /\ ReadsLabelled(Routes[16])
<1>1. \A i \in 1..6 : Routes[i].method = "GET" /\ (OneWord(Routes[i]) \/ TwoWords(Routes[i]))
  <2>1. \A i \in 1..6 : OtherRoutes[i].method = "GET"
    BY DEF OtherRoutes, Get
  <2>2. /\ OtherRoutes[1].path = <<<<"health">>>> /\ OtherRoutes[3].path = <<<<"readiness">>>>
        /\ OtherRoutes[6].path = <<<<"applications">>>>
    BY DEF OtherRoutes, Get
  <2>3. /\ OtherRoutes[2].path = <<<<"health">>, <<"liveness">>>> /\ OtherRoutes[4].path = Probe
        /\ OtherRoutes[5].path = <<<<"swagger-ui">>, <<"swagger", ".", "json">>>>
    BY DEF OtherRoutes, Get
  <2>4. ASSUME NEW r, NEW w \in Words, r.path = <<<<w>>>> PROVE OneWord(r)
    <3>1. Len(<<<<w>>>>) = 1 /\ <<<<w>>>>[1] = <<w>>
      OBVIOUS
    <3> QED BY <2>4, <3>1, Zenon DEF OneWord
  <2>5. OneWord(OtherRoutes[1]) /\ OneWord(OtherRoutes[3]) /\ OneWord(OtherRoutes[6])
    <3>1. "health" \in Words /\ "readiness" \in Words /\ "applications" \in Words
      BY Zenon DEF Words
    <3> QED BY <2>2, <2>4, <3>1, Zenon
  <2>6. TwoWords(OtherRoutes[2]) /\ TwoWords(OtherRoutes[4]) /\ TwoWords(OtherRoutes[5])
    BY <2>3, Zenon DEF TwoWords, FixedPairs
  <2>7. \A i \in 1..6 : i = 1 \/ i = 2 \/ i = 3 \/ i = 4 \/ i = 5 \/ i = 6
    OBVIOUS
  <2>8. \A i \in 1..6 : OneWord(OtherRoutes[i]) \/ TwoWords(OtherRoutes[i])
    BY <2>5, <2>6, <2>7
  <2> QED BY <2>1, <2>8, RouteTable, Zenon
<1>2. ASSUME NEW path, NEW handler
      PROVE  LET r == Get(path, handler)
             IN  r.method = "GET" /\ r.path = path /\ r.handler = handler
  BY DEF Get
<1>3. ASSUME NEW i \in 1..4
      PROVE  /\ Routes[6 + i].method = "GET" /\ Routes[10 + i].method = "GET"
             /\ LabelledFile(Routes[6 + i]) /\ PlainFile(Routes[10 + i])
             /\ Routes[6 + i].path = <<Parameter, File(i)>> /\ Routes[10 + i].path = <<File(i)>>
  BY <1>2, RouteTable DEF LabelledFile, PlainFile
<1>4. /\ Routes[14 + 1] = Get(<<Parameter, Parameter>>, "FindOne")
      /\ Routes[14 + 2] = Get(<<Parameter, Parameter, Parameter>>, "FindOne")
  <2>1. \A a, b : <<a, b>>[1] = a /\ <<a, b>>[2] = b
    OBVIOUS
  <2>2. /\ FindOneRoutes[1] = Get(<<Parameter, Parameter>>, "FindOne")
        /\ FindOneRoutes[2] = Get(<<Parameter, Parameter, Parameter>>, "FindOne")
    BY <2>1, Zenon DEF FindOneRoutes
  <2>3. 1 \in 1..2 /\ 2 \in 1..2
    OBVIOUS
  <2> QED BY <2>2, <2>3, RouteTable
<1>5. /\ Routes[14 + 1].method = "GET" /\ Routes[14 + 2].method = "GET"
      /\ ReadsPair(Routes[14 + 1]) /\ ReadsLabelled(Routes[14 + 2])
  BY <1>2, <1>4 DEF ReadsPair, ReadsLabelled
<1>6. \A i \in 7..10 : i - 6 \in 1..4 /\ 6 + (i - 6) = i
  OBVIOUS
<1>7. \A i \in 11..14 : i - 10 \in 1..4 /\ 10 + (i - 10) = i
  OBVIOUS
<1>8. \A i \in 7..10 : /\ Routes[i].method = "GET" /\ LabelledFile(Routes[i])
                       /\ Routes[i].path = <<Parameter, File(i - 6)>>
  <2>1. ASSUME NEW i \in 7..10
        PROVE  /\ Routes[i].method = "GET" /\ LabelledFile(Routes[i])
               /\ Routes[i].path = <<Parameter, File(i - 6)>>
    <3> DEFINE k == i - 6
    <3>1. k \in 1..4 /\ 6 + k = i
      BY <1>6
    <3> HIDE DEF k
    <3>2. /\ Routes[i].method = "GET" /\ LabelledFile(Routes[i])
          /\ Routes[i].path = <<Parameter, File(k)>>
      BY <1>3, <3>1
    <3> QED BY <3>2 DEF k
  <2> QED BY <2>1
<1>9. \A i \in 11..14 : /\ Routes[i].method = "GET" /\ PlainFile(Routes[i])
                        /\ Routes[i].path = <<File(i - 10)>>
  <2>1. ASSUME NEW i \in 11..14
        PROVE  /\ Routes[i].method = "GET" /\ PlainFile(Routes[i])
               /\ Routes[i].path = <<File(i - 10)>>
    <3> DEFINE k == i - 10
    <3>1. k \in 1..4 /\ 10 + k = i
      BY <1>7
    <3> HIDE DEF k
    <3>2. /\ Routes[i].method = "GET" /\ PlainFile(Routes[i])
          /\ Routes[i].path = <<File(k)>>
      BY <1>3, <3>1
    <3> QED BY <3>2 DEF k
  <2> QED BY <2>1
<1>10. 14 + 1 = 15 /\ 14 + 2 = 16
  OBVIOUS
<1>11. /\ Routes[15].method = "GET" /\ Routes[16].method = "GET"
       /\ ReadsPair(Routes[15]) /\ ReadsLabelled(Routes[16])
  BY <1>5, <1>10
<1>12. \A i \in 1..16 : i \in 1..6 \/ i \in 7..10 \/ i \in 11..14 \/ i = 15 \/ i = 16
  OBVIOUS
<1>13. \A i \in 1..16 : Routes[i].method = "GET"
  BY <1>1, <1>8, <1>9, <1>11, <1>12, Zenon
<1> QED BY <1>1, <1>8, <1>9, <1>11, <1>13, Zenon

(* The first route that matches decides, so a path has the handler that    *)
(* all routes up to one that matches have.                                 *)
Decides(n, path, handler) ==
    /\ n \in 1..16 /\ RouteMatches(Routes[n], path)
    /\ \A i \in 1..n : RouteMatches(Routes[i], path) => Routes[i].handler = handler

LEMMA RouteFound ==
    ASSUME NEW n, NEW path, NEW handler, Decides(n, path, handler)
    PROVE  Handler("GET", path) = handler
<1> DEFINE Test(r) == r.method = "GET" /\ RouteMatches(r, path)
           I == {i \in 1..Len(Routes) : Test(Routes[i])}
           found == SelectInSeq(Routes, LAMBDA r : r.method = "GET" /\ RouteMatches(r, path))
<1>0. /\ Len(Routes) = 19 /\ n \in 1..16 /\ RouteMatches(Routes[n], path)
      /\ \A i \in 1..n : RouteMatches(Routes[i], path) => Routes[i].handler = handler
      /\ Routes[n].method = "GET"
  BY RouteTable, RouteKinds, Zenon DEF Decides
<1>1. n \in I /\ I \subseteq Nat /\ \A i \in I : i # 0 /\ i \in 1..19 /\ Test(Routes[i])
  BY <1>0
<1>2. found = Min(I)
  <2>1. I # {}
    BY <1>1
  <2> QED BY <2>1 DEF SelectInSeq
<1> HIDE DEF I
<1>3. PICK m \in I : \A i \in I : m <= i
  BY <1>1, LeastNumber
<1>4. Min(I) = m
  <2>1. \A x \in I : (\A y \in I : x <= y) => x = m
    BY <1>1, <1>3
  <2> QED BY <1>3, <2>1, Zenon DEF Min
<1>5. m # 0 /\ m \in 1..n
  BY <1>0, <1>1, <1>3
<1>6. Routes[m].handler = handler
  BY <1>0, <1>1, <1>3, <1>5
<1> HIDE DEF found
<1>7. found = m
  BY <1>2, <1>4
<1>8. Handler("GET", path) = IF found # 0 THEN Routes[found].handler
                             ELSE IF \E r \in Range(Routes) : RouteMatches(r, path)
                             THEN "MethodNotAllowed" ELSE "NotFound"
  BY DEF Handler, found
<1> QED BY <1>5, <1>6, <1>7, <1>8

(* A route matches segment by segment. *)
LEMMA Segments ==
    /\ \A r, x : RouteMatches(r, <<x>>) <=> Len(r.path) = 1 /\ SegmentMatches(r.path[1], x)
    /\ \A r, x, y : RouteMatches(r, <<x, y>>) <=>
           /\ Len(r.path) = 2
           /\ SegmentMatches(r.path[1], x) /\ SegmentMatches(r.path[2], y)
    /\ \A r, x, y, z : RouteMatches(r, <<x, y, z>>) <=>
           /\ Len(r.path) = 3
           /\ SegmentMatches(r.path[1], x) /\ SegmentMatches(r.path[2], y)
           /\ SegmentMatches(r.path[3], z)
<1>1. ASSUME NEW r, NEW x
      PROVE  RouteMatches(r, <<x>>) <=> Len(r.path) = 1 /\ SegmentMatches(r.path[1], x)
  <2>1. Len(<<x>>) = 1 /\ DOMAIN <<x>> = {1} /\ <<x>>[1] = x
    OBVIOUS
  <2> QED BY <2>1 DEF RouteMatches
<1>2. ASSUME NEW r, NEW x, NEW y
      PROVE  RouteMatches(r, <<x, y>>) <=>
                 /\ Len(r.path) = 2
                 /\ SegmentMatches(r.path[1], x) /\ SegmentMatches(r.path[2], y)
  <2>1. Len(<<x, y>>) = 2 /\ DOMAIN <<x, y>> = {1, 2} /\ <<x, y>>[1] = x /\ <<x, y>>[2] = y
    OBVIOUS
  <2> QED BY <2>1 DEF RouteMatches
<1>3. ASSUME NEW r, NEW x, NEW y, NEW z
      PROVE  RouteMatches(r, <<x, y, z>>) <=>
                 /\ Len(r.path) = 3
                 /\ SegmentMatches(r.path[1], x) /\ SegmentMatches(r.path[2], y)
                 /\ SegmentMatches(r.path[3], z)
  <2>1. /\ Len(<<x, y, z>>) = 3 /\ DOMAIN <<x, y, z>> = {1, 2, 3}
        /\ <<x, y, z>>[1] = x /\ <<x, y, z>>[2] = y /\ <<x, y, z>>[3] = z
    OBVIOUS
  <2> QED BY <2>1 DEF RouteMatches
<1> QED BY <1>1, <1>2, <1>3

LEMMA KindLengths ==
    ASSUME NEW r
    PROVE  /\ OneWord(r) => Len(r.path) = 1
           /\ TwoWords(r) => Len(r.path) = 2
           /\ LabelledFile(r) => Len(r.path) = 2 /\ \E i \in 1..4 : r.path[2] = File(i)
           /\ PlainFile(r) => Len(r.path) = 1
           /\ ReadsPair(r) => /\ Len(r.path) = 2
                              /\ r.path[1] = Parameter /\ r.path[2] = Parameter
           /\ ReadsLabelled(r) => /\ Len(r.path) = 3
                                  /\ r.path[1] = Parameter /\ r.path[2] = Parameter
                                  /\ r.path[3] = Parameter
<1>1. /\ \A a : Len(<<a>>) = 1
      /\ \A a, b : Len(<<a, b>>) = 2 /\ <<a, b>>[1] = a /\ <<a, b>>[2] = b
      /\ \A a, b, c : Len(<<a, b, c>>) = 3 /\ <<a, b, c>>[1] = a /\ <<a, b, c>>[2] = b /\ <<a, b, c>>[3] = c
  OBVIOUS
<1>2. TwoWords(r) => Len(r.path) = 2
  BY <1>1 DEF TwoWords, FixedPairs, Probe
<1>3. LabelledFile(r) => Len(r.path) = 2 /\ \E i \in 1..4 : r.path[2] = File(i)
  BY <1>1 DEF LabelledFile
<1>4. PlainFile(r) => Len(r.path) = 1
  BY <1>1 DEF PlainFile
<1>5. ReadsPair(r) => Len(r.path) = 2 /\ r.path[1] = Parameter /\ r.path[2] = Parameter
  BY <1>1 DEF ReadsPair
<1>6. ReadsLabelled(r) => /\ Len(r.path) = 3
                          /\ r.path[1] = Parameter /\ r.path[2] = Parameter
                          /\ r.path[3] = Parameter
  BY <1>1 DEF ReadsLabelled
<1> QED BY <1>2, <1>3, <1>4, <1>5, <1>6, Zenon DEF OneWord

(* The route of the listing is not shadowed by another. *)
LEMMA ApplicationsRoute ==
    Handler("GET", <<<<"applications">>>>) = "GetApplicationsAndProfiles"
<1> DEFINE path == <<<<"applications">>>>
<1>2. /\ OtherRoutes[1].path = <<<<"health">>>> /\ Len(OtherRoutes[2].path) = 2
      /\ OtherRoutes[3].path = <<<<"readiness">>>> /\ Len(OtherRoutes[4].path) = 2
      /\ Len(OtherRoutes[5].path) = 2
      /\ OtherRoutes[6].path = path /\ OtherRoutes[6].handler = "GetApplicationsAndProfiles"
  BY DEF OtherRoutes, Get, Probe
<1>3. ASSUME NEW r, NEW word, word # ":", r.path = <<<<word>>>>
      PROVE  RouteMatches(r, path) <=> word = "applications"
  <2>1. Len(r.path) = 1 /\ Len(path) = 1 /\ DOMAIN path = {1} /\ r.path[1] = <<word>>
        /\ path[1] = <<"applications">>
    BY <1>3
  <2>2. <<word>>[1] = word /\ (<<word>> = <<"applications">> <=> word = "applications")
    OBVIOUS
  <2> HIDE DEF path
  <2> QED BY <1>3, <2>1, <2>2, Zenon DEF RouteMatches, SegmentMatches
<1>4. ASSUME NEW r, Len(r.path) = 2
      PROVE  ~ RouteMatches(r, path)
  <2>1. Len(path) # 2
    OBVIOUS
  <2> HIDE DEF path
  <2> QED BY <1>4, <2>1, Zenon DEF RouteMatches
<1>5. RouteMatches(OtherRoutes[6], path)
  <2>1. "applications" # ":"
    BY Zenon
  <2> QED BY <1>2, <1>3, <2>1, Zenon
<1>6. \A i \in 1..5 : ~ RouteMatches(OtherRoutes[i], path)
  <2>1. ~ RouteMatches(OtherRoutes[1], path) /\ ~ RouteMatches(OtherRoutes[3], path)
    <3>1. /\ "health" # ":" /\ "health" # "applications"
          /\ "readiness" # ":" /\ "readiness" # "applications"
      BY Zenon
    <3> QED BY <1>2, <1>3, <3>1, Zenon
  <2>2. /\ ~ RouteMatches(OtherRoutes[2], path) /\ ~ RouteMatches(OtherRoutes[4], path)
        /\ ~ RouteMatches(OtherRoutes[5], path)
    BY <1>2, <1>4
  <2>3. \A i \in 1..5 : i = 1 \/ i = 2 \/ i = 3 \/ i = 4 \/ i = 5
    OBVIOUS
  <2> HIDE DEF path
  <2> QED BY <2>1, <2>2, <2>3
<1> HIDE DEF path
<1>7. \A i \in 1..5 : i \in 1..6
  OBVIOUS
<1>8. \A i \in 1..6 : i \in 1..5 \/ i = 6
  OBVIOUS
<1>9. 6 \in 1..6 /\ 6 \in 1..16
  OBVIOUS
<1>10. Decides(6, path, "GetApplicationsAndProfiles")
  BY <1>2, <1>5, <1>6, <1>7, <1>8, <1>9, RouteTable, Zenon DEF Decides
<1>11. Handler("GET", path) = "GetApplicationsAndProfiles"
  BY <1>10, RouteFound, Zenon
<1> QED BY <1>11 DEF path

(* /applications lists every directory that holds a property, once and     *)
(* under its name, FindAll, groupProfilesByApplication and                 *)
(* toApplicationResponses: a profile appears as often as there are raw     *)
(* names for it.  For names without "," in the application, and no "/" in  *)
(* the profile unless the application has one, whatever the keys and       *)
(* however much is stored.                                                 *)
THEOREM ListingIsExact ==
    ASSUME Listable
    PROVE  Spec => []ListsWhatIsStored
<1>1. ASSUME Stores, FinitelyMany PROVE ListsWhatIsStored
  <2> DEFINE path == <<<<"applications">>>>
             Of(app) == {d \in Directories : ListedAs(d)[1] = app}
             own(app) == {n \in DOMAIN Listed : Listed[n][1] = app}
  <2>1. Answer(path) = Ok(GroupProfilesByApplication(Listed))
    <3>1. Handler("GET", path) = "GetApplicationsAndProfiles"
      BY ApplicationsRoute
    <3>2. /\ "GetApplicationsAndProfiles" # "FindOne"
          /\ "GetApplicationsAndProfiles" # "FindFile"
          /\ "GetApplicationsAndProfiles" \notin {"Probe", "Swagger"}
      OBVIOUS
    <3> HIDE DEF path
    <3>3. Answer(path) = GetApplicationsAndProfiles
      BY <3>1, <3>2 DEF Answer
    <3> QED BY <3>3, Zenon DEF GetApplicationsAndProfiles
  <2>2. /\ DOMAIN Listed = {RawName(d) : d \in Directories}
        /\ \A d \in Directories : Listed[RawName(d)] = ListedAs(d)
    BY <1>1, ListedIsStored, RawNameSplits DEF Listed
  <2>3. {Listed[n][1] : n \in DOMAIN Listed} = {ListedAs(d)[1] : d \in Directories}
    BY <2>2
  <2>4. ASSUME NEW app
        PROVE  {Listed[n][2] : n \in own(app)} = {ListedAs(d)[2] : d \in Of(app)}
    <3>1. own(app) = {RawName(d) : d \in Of(app)}
      BY <2>2
    <3>2. \A d \in Of(app) : Listed[RawName(d)][2] = ListedAs(d)[2]
      BY <2>2
    <3> HIDE DEF Of, own
    <3> QED BY <3>1, <3>2
  <2>5. ASSUME NEW app, NEW p
        PROVE  Cardinality({n \in own(app) : Listed[n][2] = p})
                   = Cardinality({d \in Directories : ListedAs(d) = <<app, p>>})
    <3>1. {n \in own(app) : Listed[n][2] = p} = Entries(app, p)
      BY Zenon DEF Entries
    <3>2. \A d : ListedAs(d) = <<app, p>> <=> ListedAs(d)[1] = app /\ ListedAs(d)[2] = p
      <4>1. ASSUME NEW d
            PROVE  ListedAs(d) = <<app, p>> <=> ListedAs(d)[1] = app /\ ListedAs(d)[2] = p
        <5>1. PICK a, b : ListedAs(d) = <<a, b>>
          BY Zenon DEF ListedAs
        <5>2. <<a, b>> = <<app, p>> <=> <<a, b>>[1] = app /\ <<a, b>>[2] = p
          OBVIOUS
        <5> QED BY <5>1, <5>2, Zenon
      <4> QED BY <4>1, Zenon
    <3>3. {d \in Directories : ListedAs(d) = <<app, p>>} = DirectoriesOf(app, p)
      BY <3>2, Zenon DEF DirectoriesOf
    <3>4. Cardinality(Entries(app, p)) = Cardinality(DirectoriesOf(app, p))
      BY <1>1, AsOftenAsDirectories, Zenon
    <3> HIDE DEF own
    <3> QED BY <3>1, <3>3, <3>4, Zenon
  <2> DEFINE profiles(app) == {Listed[n][2] : n \in own(app)}
             count(app, p) == Cardinality({n \in own(app) : Listed[n][2] = p})
             named(app) == {ListedAs(d)[2] : d \in Of(app)}
             number(app, p) == Cardinality({d \in Directories : ListedAs(d) = <<app, p>>})
  <2>6. /\ \A app : profiles(app) = named(app)
        /\ \A app, p : count(app, p) = number(app, p)
    BY <2>4, <2>5, Zenon
  <2>7. GroupProfilesByApplication(Listed)
            = [app \in {Listed[n][1] : n \in DOMAIN Listed} |->
                  [p \in profiles(app) |-> count(app, p)]]
    BY Zenon DEF GroupProfilesByApplication
  <2>8. Ok(GroupProfilesByApplication(Listed))
            = Ok([app \in {ListedAs(d)[1] : d \in Directories} |->
                     [p \in named(app) |-> number(app, p)]])
    <3> HIDE DEF profiles, count, named, number
    <3> QED BY <2>3, <2>6, <2>7
  <2> QED BY <2>1, <2>8, Zenon DEF ListsWhatIsStored, Directories
<1> QED BY <1>1, StoreInductive, AlwaysFinitelyMany, PTL

-----------------------------------------------------------------------------
(* What reads answer. *)

(* GetPropertiesAsMap is what clients wrote, of a profile that is no        *)
(* directory of a property of another.                                      *)
LEMMA MapIsWritten ==
    ASSUME Stores, NEW app, NEW profile,
           \A u \in Target, key \in PropertyKey :
               IsPrefix(FormatKeyPrefix(app, profile), PathOf(u[1], u[2], key)) => <<app, profile>> = u
    PROVE  AsMap(app, profile) = Written(app, profile)
<1> DEFINE mine == {w \in DOMAIN wrote : w[1] = app /\ w[2] = profile}
           found == Found(app, profile)
           keys == {w[3] : w \in mine} \ {<<>>}
<1>1. \A w \in DOMAIN wrote : w \in Properties
  BY DEF Stores
<1>2. \A w \in mine : w = <<app, profile, w[3]>> /\ w \in DOMAIN wrote
  BY <1>1, PropertyParts
<1>3. found = {<<w[3], wrote[w]>> : w \in {v \in mine : v[3] # <<>>}}
  <2>1. CASE <<app, profile>> \in Target
    <3> DEFINE t == <<app, profile>>
    <3>1. t \in Target /\ t[1] = app /\ t[2] = profile
      BY <2>1
    <3> HIDE DEF t
    <3>2. Found(t[1], t[2]) = {<<w[3], wrote[w]>> : w \in {u \in DOMAIN wrote : /\ <<u[1], u[2]>> = t
                                                                               /\ u[3] # <<>>}}
      BY <3>1, StoresReads DEF ReadsWhatWasWritten
    <3>3. \A u : <<u[1], u[2]>> = t <=> u[1] = app /\ u[2] = profile
      BY DEF t
    <3>4. {u \in DOMAIN wrote : <<u[1], u[2]>> = t /\ u[3] # <<>>} = {v \in mine : v[3] # <<>>}
      BY <3>3
    <3> HIDE DEF mine
    <3> QED BY <3>1, <3>2, <3>4
  <2>2. CASE <<app, profile>> \notin Target
    <3>1. mine = {}
      <4>1. ASSUME NEW w \in mine PROVE FALSE
        <5>1. w \in Properties /\ w[1] = app /\ w[2] = profile
          BY <1>1
        <5>2. <<w[1], w[2]>> \in Target
          BY <5>1, PropertyParts
        <5> QED BY <2>2, <5>1, <5>2
      <4> QED BY <4>1
    <3>2. List(FormatKeyPrefix(app, profile)) = {}
      <4>1. ASSUME NEW p \in DOMAIN kv PROVE ~ IsPrefix(FormatKeyPrefix(app, profile), p)
        <5>1. PICK w \in DOMAIN wrote : p = Path(w)
          BY DEF Stores
        <5> DEFINE u == <<w[1], w[2]>>
        <5>2. u \in Target /\ w[3] \in PropertyKey /\ p = PathOf(u[1], u[2], w[3])
          BY <1>1, <5>1, PropertyParts
        <5> HIDE DEF u
        <5> QED BY <2>2, <5>2
      <4> QED BY <4>1 DEF List
    <3> QED BY <3>1, <3>2 DEF Found
  <2> QED BY <2>1, <2>2
<1> HIDE DEF found, mine
<1>4. {f[1] : f \in found} = keys
  <2>1. \A w : <<w[3], wrote[w]>>[1] = w[3]
    OBVIOUS
  <2> QED BY <1>3, <2>1, Zenon
<1>5. ASSUME NEW key \in keys
      PROVE  (CHOOSE f \in found : f[1] = key)[2] = wrote[<<app, profile, key>>]
  <2> DEFINE f == CHOOSE f \in found : f[1] = key
  <2>1. f \in found /\ f[1] = key
    BY <1>4
  <2> HIDE DEF f
  <2>2. PICK w \in mine : f = <<w[3], wrote[w]>>
    BY <1>3, <2>1
  <2>3. w[3] = key /\ f[2] = wrote[w] /\ w = <<app, profile, w[3]>>
    BY <1>2, <2>1, <2>2
  <2> QED BY <2>3 DEF f
<1>6. AsMap(app, profile) = [key \in keys |-> (CHOOSE f \in found : f[1] = key)[2]]
  BY <1>4, Zenon DEF AsMap, found
<1>7. Written(app, profile) = [key \in keys |-> wrote[<<app, profile, key>>]]
  BY Zenon DEF Written, mine
<1> HIDE DEF keys
<1> QED BY <1>5, <1>6, <1>7

(* What the two folds over the profiles of a list define. *)
Loads(f, app, s) ==
    f = [t \in SUBSET DOMAIN s |->
            IF t = {} THEN AsMap(ConsulGlobal, Default)
            ELSE Over(AsMap(app, s[Max(t)]), f[t \ {Max(t)}])]

Expects(f, app, s) ==
    f = [t \in SUBSET DOMAIN s |->
            IF t = {} THEN Written(Global, Default)
            ELSE Over(Written(app, s[Max(t)]), f[t \ {Max(t)}])]

(* A set of positions has a largest one. *)
LEMMA LargestPosition ==
    ASSUME NEW n \in Nat, NEW t \in SUBSET (1..n), t # {}
    PROVE  Max(t) \in t /\ \A y \in t : Max(t) >= y
<1> DEFINE T == {n - x : x \in t}
<1>1. T \subseteq Nat /\ T # {}
  <2>1. \A x \in t : x \in 1..n
    OBVIOUS
  <2>2. \A x \in 1..n : n - x \in Nat
    OBVIOUS
  <2>3. PICK x : x \in t
    OBVIOUS
  <2>4. n - x \in T
    BY <2>3
  <2>5. T \subseteq Nat
    BY <2>1, <2>2
  <2> HIDE DEF T
  <2> QED BY <2>4, <2>5
<1>2. PICK m \in T : \A y \in T : m <= y
  <2> HIDE DEF T
  <2> QED BY <1>1, LeastNumber
<1>3. PICK x \in t : m = n - x
  BY <1>2
<1>4. \A y \in t : x >= y
  <2>1. ASSUME NEW y \in t PROVE x >= y
    <3>1. n - x <= n - y
      BY <1>2, <1>3
    <3> QED BY <3>1
  <2> QED BY <2>1
<1> HIDE DEF T
<1> QED BY <1>3, <1>4, Zenon DEF Max

(* In Consul the global application has another name. *)
LEMMA GlobalMap == AsMap(ConsulGlobal, Default) = AsMap(Global, Default)
<1>1. ConsulGlobal # Global => FormatKeyPrefix(ConsulGlobal, Default) = FormatKeyPrefix(Global, Default)
  BY Zenon DEF FormatKeyPrefix
<1>2. FormatKeyPrefix(ConsulGlobal, Default) = FormatKeyPrefix(Global, Default)
  BY <1>1, Zenon
<1>3. Found(ConsulGlobal, Default) = Found(Global, Default)
  BY <1>2 DEF Found
<1> QED BY <1>3 DEF AsMap

(* loadMergedProperties merges what clients wrote. *)
LEMMA MergeIsExpected ==
    ASSUME Stores, ReadableNames, NEW app \in Applications, NEW profiles \in ProfileList
    PROVE  LoadMergedProperties(app, Split(profiles, ",")) = Expected(app, profiles)
<1> DEFINE s == Split(profiles, ",")
<1>1. LoadMergedProperties(app, s) = (CHOOSE f : Loads(f, app, s))[DOMAIN s]
  BY Zenon DEF LoadMergedProperties, FoldLeft, MapThenFoldSet, Loads
<1>2. Expected(app, profiles) = (CHOOSE f : Expects(f, app, s))[DOMAIN s]
  BY Zenon DEF Expected, FoldLeft, MapThenFoldSet, Expects
<1>3. s \in Texts
  <2>1. profiles \in Seq(Symbol)
    BY HttpAssumption
  <2> QED BY <2>1, SplitTexts, Zenon
<1>4. \A p \in Range(s) : <<app, p>> \in Reads
  <2> DEFINE all == UNION {Range(Split(l, ",")) : l \in ProfileList}
  <2>1. \A p \in Range(s) : p \in all
    BY Zenon
  <2>2. Reads = {<<Global, Default>>} \cup (Applications \X all)
    BY Zenon DEF Reads
  <2> HIDE DEF all, s
  <2> QED BY <2>1, <2>2
<1> HIDE DEF s
<1>5. ASSUME NEW a, NEW p, <<a, p>> \in Reads
      PROVE  AsMap(a, p) = Written(a, p)
  <2> DEFINE t == <<a, p>>
  <2>1. t \in Reads /\ t[1] = a /\ t[2] = p
    BY <1>5
  <2> HIDE DEF t
  <2>2. \A u \in Target, key \in PropertyKey :
            IsPrefix(FormatKeyPrefix(a, p), PathOf(u[1], u[2], key)) => t = u
    BY <2>1, Zenon DEF ReadableNames
  <2> QED BY <2>2, MapIsWritten DEF t
<1>6. AsMap(ConsulGlobal, Default) = Written(Global, Default)
  <2>1. AsMap(ConsulGlobal, Default) = AsMap(Global, Default)
    BY GlobalMap
  <2>2. <<Global, Default>> \in Reads
    <3> DEFINE rest == Applications \X UNION {Range(Split(l, ",")) : l \in ProfileList}
    <3>1. Reads = {<<Global, Default>>} \cup rest
      BY Zenon DEF Reads
    <3> HIDE DEF rest
    <3> QED BY <3>1
  <2> QED BY <1>5, <2>1, <2>2, Zenon
<1>7. ASSUME NEW t \in SUBSET DOMAIN s, t # {}
      PROVE  AsMap(app, s[Max(t)]) = Written(app, s[Max(t)])
  <2>1. DOMAIN s = 1..Len(s) /\ Len(s) \in Nat
    BY <1>3 DEF Texts
  <2>2. Max(t) \in DOMAIN s
    BY <1>7, <2>1, LargestPosition
  <2>3. s[Max(t)] \in Range(s)
    BY <2>2, Zenon DEF Range
  <2> QED BY <1>4, <1>5, <2>3, Zenon
<1>8. ASSUME NEW f
      PROVE  Loads(f, app, s) <=> Expects(f, app, s)
  <2>1. [t \in SUBSET DOMAIN s |->
            IF t = {} THEN AsMap(ConsulGlobal, Default)
            ELSE Over(AsMap(app, s[Max(t)]), f[t \ {Max(t)}])]
        = [t \in SUBSET DOMAIN s |->
            IF t = {} THEN Written(Global, Default)
            ELSE Over(Written(app, s[Max(t)]), f[t \ {Max(t)}])]
    <3>1. ASSUME NEW t \in SUBSET DOMAIN s
          PROVE  (IF t = {} THEN AsMap(ConsulGlobal, Default)
                  ELSE Over(AsMap(app, s[Max(t)]), f[t \ {Max(t)}]))
                 = (IF t = {} THEN Written(Global, Default)
                    ELSE Over(Written(app, s[Max(t)]), f[t \ {Max(t)}]))
      BY <1>6, <1>7, Zenon
    <3> QED BY <3>1
  <2> QED BY <2>1, Zenon DEF Loads, Expects
<1>9. (CHOOSE f : Loads(f, app, s)) = (CHOOSE f : Expects(f, app, s))
  BY <1>8, Zenon
<1> QED BY <1>1, <1>2, <1>9, Zenon DEF s

-----------------------------------------------------------------------------
(* What a valid list of profiles holds. *)

(* A part that holds the symbol. *)
Held(parts, c) == \E i \in 1..Len(parts) : \E j \in 1..Len(parts[i]) : parts[i][j] = c

LEMMA InPart ==
    ASSUME NEW parts, NEW i \in 1..Len(parts), NEW p, parts[i] = p,
           NEW c, \E j \in 1..Len(p) : p[j] = c
    PROVE  Held(parts, c)
<1>1. PICK j \in 1..Len(p) : p[j] = c
  OBVIOUS
<1>2. Len(parts[i]) = Len(p) /\ parts[i][j] = c
  BY <1>1
<1>3. 1..Len(parts[i]) = 1..Len(p)
  BY <1>2, Zenon
<1> QED BY <1>2, <1>3, Zenon DEF Held

(* Cutting loses no symbol but the separator. *)
LEMMA CutHolds ==
    ASSUME NEW parts \in Texts, NEW c \in Symbol, NEW separator
    PROVE  /\ c # separator => Held(Cut(parts, c, separator), c)
           /\ \A x : Held(parts, x) => Held(Cut(parts, c, separator), x)
<1> DEFINE n == Len(parts)
           whole == Cut(parts, c, separator)
<1>1. parts \in Seq(Seq(Symbol)) /\ n \in Nat /\ n >= 1
  BY DEF Texts
<1>2. CASE c = separator
  <2>1. whole = Append(parts, <<>>)
    BY <1>2, Zenon DEF Cut
  <2>2. Len(whole) = n + 1 /\ \A i \in 1..n : i \in 1..Len(whole) /\ whole[i] = parts[i]
    BY <1>1, <2>1
  <2> HIDE DEF whole
  <2>3. ASSUME NEW x, Held(parts, x) PROVE Held(whole, x)
    <3>1. PICK i \in 1..n : \E j \in 1..Len(parts[i]) : parts[i][j] = x
      BY <2>3, Zenon DEF Held
    <3> DEFINE p == parts[i]
    <3>2. (\E j \in 1..Len(p) : p[j] = x) /\ whole[i] = p /\ i \in 1..Len(whole)
      BY <2>2, <3>1
    <3> HIDE DEF p
    <3> QED BY <3>2, InPart, Zenon
  <2> QED BY <1>2, <2>3 DEF whole
<1>3. CASE c # separator
  <2>1. whole = [parts EXCEPT ![n] = Append(@, c)]
    BY <1>3, Zenon DEF Cut
  <2>2. whole \in Texts
    BY CutTexts
  <2>3. n \in 1..n /\ DOMAIN parts = 1..n /\ parts[n] \in Seq(Symbol)
    BY <1>1
  <2>4. DOMAIN whole = 1..n /\ \A i \in 1..n : whole[i] = IF i = n THEN Append(parts[n], c) ELSE parts[i]
    BY <1>1, <2>1, <2>3
  <2>5. Len(whole) = n
    <3> HIDE DEF whole
    <3> QED BY <1>1, <2>2, <2>4 DEF Texts
  <2> DEFINE last == Append(parts[n], c)
             k == Len(parts[n])
  <2>6. /\ k + 1 \in 1..Len(last) /\ last[k + 1] = c
        /\ \A j \in 1..k : j \in 1..Len(last) /\ last[j] = parts[n][j]
    BY <2>3
  <2> HIDE DEF whole, last, k
  <2>7. whole[n] = last /\ \A i \in 1..n : i # n => whole[i] = parts[i]
    BY <2>3, <2>4 DEF last
  <2>8. Held(whole, c)
    BY <2>3, <2>5, <2>6, <2>7, Zenon DEF Held
  <2>9. ASSUME NEW x, Held(parts, x) PROVE Held(whole, x)
    <3>1. PICK i \in 1..n : \E j \in 1..Len(parts[i]) : parts[i][j] = x
      BY <2>9, Zenon DEF Held
    <3>2. CASE i = n
      <4>1. \E j \in 1..k : parts[n][j] = x
        BY <3>1, <3>2, Zenon DEF k
      <4> QED BY <2>3, <2>5, <2>6, <2>7, <4>1, Zenon DEF Held
    <3>3. CASE i # n
      <4>1. whole[i] = parts[i] /\ i \in 1..Len(whole)
        BY <2>5, <2>7, <3>3
      <4> DEFINE p == parts[i]
      <4>2. (\E j \in 1..Len(p) : p[j] = x) /\ whole[i] = p
        BY <3>1, <4>1
      <4> HIDE DEF p
      <4> QED BY <4>1, <4>2, InPart, Zenon
    <3> QED BY <3>2, <3>3
  <2> QED BY <2>8, <2>9 DEF whole
<1> QED BY <1>2, <1>3

(* A symbol of a text is the separator or in a part. *)
LEMMA SplitHolds ==
    ASSUME NEW s \in Seq(Symbol), NEW separator, NEW i \in 1..Len(s), s[i] # separator
    PROVE  Held(Split(s, separator), s[i])
<1>1. PICK F : Steps(F, s, separator) /\ Split(s, separator) = F[Len(s)]
  BY SplitSteps
<1>0. Len(s) \in Nat /\ i \in Nat /\ i <= Len(s) /\ 1 <= i
  OBVIOUS
<1> DEFINE bad == {n \in i..Len(s) : ~ Held(F[n], s[i])}
<1>2. bad = {}
  <2> SUFFICES ASSUME bad # {} PROVE FALSE
    OBVIOUS
  <2>1. PICK n \in bad : \A m \in bad : n <= m
    <3>1. bad \subseteq Nat
      BY <1>0
    <3> HIDE DEF bad
    <3> QED BY <3>1, LeastNumber
  <2>2. n \in 1..Len(s) /\ n - 1 \in 0..Len(s) /\ ~ (n <= n - 1) /\ (n # i => n - 1 \in i..Len(s))
    BY <1>0
  <2>3. F[n-1] \in Texts /\ s[n] \in Symbol /\ F[n] = Cut(F[n-1], s[n], separator)
    <3> HIDE DEF bad
    <3>1. s[n] \in Symbol
      BY <2>2
    <3>2. F[n-1] \in Texts /\ F[n] = Cut(F[n-1], s[n], separator)
      BY <1>1, <2>2, Zenon DEF Steps
    <3> QED BY <3>1, <3>2
  <2>4. n # i
    <3>1. n = i => Held(F[n], s[i])
      BY <2>3, CutHolds
    <3> QED BY <3>1
  <2>5. Held(F[n-1], s[i])
    <3>1. n - 1 \notin bad
      <4> HIDE DEF bad
      <4> QED BY <2>1, <2>2
    <3> QED BY <2>2, <2>4, <3>1
  <2>6. Held(F[n], s[i])
    BY <2>3, <2>5, CutHolds
  <2> QED BY <2>6
<1>3. Len(s) \in i..Len(s)
  BY <1>0
<1>4. Held(F[Len(s)], s[i])
  BY <1>2, <1>3
<1> QED BY <1>1, <1>4

(* A list of valid profiles is a text that no segment decoding changes.    *)
LEMMA ValidProfiles ==
    ASSUME NEW s \in Seq(Symbol), ProfilesValid(s)
    PROVE  s # <<>> /\ Lacks("%2F", s)
<1> DEFINE comma == ","
           parts == Split(s, comma)
<1>1. \A p \in Range(parts) : IsValidProfile(p)
  BY Zenon DEF ProfilesValid
<1>2. parts \in Texts
  BY SplitTexts, Zenon
<1>3. comma # "%2F"
  BY Zenon
<1> HIDE DEF comma
<1>4. s # <<>>
  <2> SUFFICES ASSUME s = <<>> PROVE FALSE
    OBVIOUS
  <2>1. Lacks(comma, s)
    <3>1. DOMAIN s = {}
      OBVIOUS
    <3> QED BY <3>1 DEF Lacks
  <2>2. parts = <<s>>
    BY <2>1, SplitNone
  <2>3. s \in Range(<<s>>)
    BY DEF Range
  <2> HIDE DEF parts
  <2>4. IsValidProfile(s)
    BY <1>1, <2>2, <2>3
  <2> QED BY <2>4 DEF IsValidProfile
<1>5. ASSUME NEW i \in DOMAIN s, s[i] = "%2F" PROVE FALSE
  <2>1. i \in 1..Len(s) /\ s[i] # comma
    BY <1>3, <1>5
  <2>2. Held(parts, "%2F")
    <3>1. Held(parts, s[i])
      BY <2>1, SplitHolds
    <3> HIDE DEF parts
    <3> QED BY <1>5, <3>1
  <2> HIDE DEF parts
  <2>3. PICK k \in 1..Len(parts) : \E j \in 1..Len(parts[k]) : parts[k][j] = "%2F"
    BY <2>2 DEF Held
  <2>4. parts[k] \in Range(parts) /\ DOMAIN parts[k] = 1..Len(parts[k])
    <3>1. parts \in Seq(Seq(Symbol))
      BY <1>2 DEF Texts
    <3> QED BY <3>1 DEF Range
  <2>5. "%2F" \in NotAlphanumeric /\ "%2F" \notin InnerProfileSymbols
    BY Zenon DEF NotAlphanumeric, InnerProfileSymbols
  <2> QED BY <1>1, <2>3, <2>4, <2>5, Zenon DEF IsValidProfile
<1> QED BY <1>4, <1>5 DEF Lacks

-----------------------------------------------------------------------------
(* Which segments match. *)

LEMMA Tails ==
    /\ \A a : <<a>>[1] = a /\ Tail(<<a>>) = <<>>
    /\ \A a, b, c : <<a, b, c>>[1] = a /\ Tail(<<a, b, c>>) = <<b, c>>
OBVIOUS

LEMMA Function ==
    ASSUME NEW S, NEW n \in Nat, NEW f \in [1..n -> S]
    PROVE  f \in Seq(S) /\ Len(f) = n
BY SeqDef

LEMMA TwoInside ==
    ASSUME NEW S, NEW t \in Seq(S), NEW k \in 1..Len(t), k + 1 <= Len(t)
    PROVE  SubSeq(t, k, k + 1) = <<t[k], t[k+1]>>
<1> DEFINE u == SubSeq(t, k, k + 1)
<1>0. k \in Nat /\ Len(t) \in Nat /\ k >= 1
  OBVIOUS
<1>1. u \in Seq(S) /\ Len(u) = 2
  BY <1>0
<1>2. \A i \in 1..2 : u[i] = t[k + i - 1]
  BY <1>0
<1>3. u[1] = t[k] /\ u[2] = t[k+1]
  <2>1. k + 1 - 1 = k /\ k + 2 - 1 = k + 1
    BY <1>0
  <2> HIDE DEF u
  <2>2. u[1] = t[k + 1 - 1] /\ u[2] = t[k + 2 - 1]
    BY <1>2
  <2> QED BY <2>1, <2>2
<1> HIDE DEF u
<1>4. u = <<t[k], t[k+1]>>
  BY <1>1, <1>3
<1> QED BY <1>4 DEF u

LEMMA Word ==
    ASSUME NEW w, w # ":", NEW text
    PROVE  SegmentMatches(<<w>>, text) <=> text = <<w>>
BY Tails, Zenon DEF SegmentMatches

(* What the text behind a parameter asks for. *)
Ends(text, suffix) ==
    /\ Len(text) > Len(suffix)
    /\ IsSuffix(suffix, text)
    /\ suffix = <<>> \/ \A i \in 1..(Len(text) - Len(suffix)) :
                            SubSeq(text, i, i + Len(suffix) - 1) # suffix

LEMMA ParameterMatches ==
    ASSUME NEW text
    PROVE  /\ SegmentMatches(Parameter, text) <=> Ends(text, <<>>)
           /\ \A i : SegmentMatches(File(i), text) <=> Ends(text, <<".", Extensions[i]>>)
<1>1. Parameter[1] = ":" /\ Tail(Parameter) = <<>>
  BY Tails, Zenon DEF Parameter
<1>2. ASSUME NEW i PROVE File(i)[1] = ":" /\ Tail(File(i)) = <<".", Extensions[i]>>
  <2> DEFINE colon == ":"
             dot == "."
             e == Extensions[i]
             t == <<colon, dot, e>>
  <2>1. t[1] = colon /\ Tail(t) = <<dot, e>>
    <3> HIDE DEF colon, dot, e
    <3> QED BY Tails
  <2>2. File(i) = t
    BY Zenon DEF File
  <2> HIDE DEF t
  <2> QED BY <2>1, <2>2, Zenon DEF colon, dot, e
<1> QED BY <1>1, <1>2, Zenon DEF SegmentMatches, Ends

(* A parameter takes every text. *)
LEMMA AnyText ==
    ASSUME NEW S, NEW text \in Seq(S), text # <<>>
    PROVE  SegmentMatches(Parameter, text)
<1>1. Len(text) > Len(<<>>)
  OBVIOUS
<1>2. IsSuffix(<<>>, text)
  <2> DEFINE r == Reverse(text)
  <2>1. Reverse(<<>>) = <<>>
    BY DEF Reverse
  <2>2. r \in Seq(S) /\ Len(r) = Len(text)
    <3>1. DOMAIN r = 1..Len(text) /\ \A i \in 1..Len(text) : r[i] \in S
      BY DEF Reverse
    <3> QED BY <3>1 DEF Reverse
  <2> HIDE DEF r
  <2>3. Len(<<>>) <= Len(r) /\ SubSeq(<<>>, 1, Len(<<>>)) = SubSeq(r, 1, Len(<<>>))
    BY <2>2
  <2> QED BY <2>1, <2>3, Zenon DEF IsSuffix, IsPrefix, r
<1> QED BY <1>1, <1>2, ParameterMatches, Zenon DEF Ends

(* A text with two symbols behind it. *)
LEMMA TwoBehind ==
    ASSUME NEW S, NEW stem \in Seq(S), NEW x \in S, NEW y \in S
    PROVE  LET file == stem \o <<x, y>>
           IN  /\ file \in Seq(S) /\ Len(file) = Len(stem) + 2
               /\ \A i \in 1..Len(stem) : file[i] = stem[i]
               /\ file[Len(stem) + 1] = x /\ file[Len(stem) + 2] = y
               /\ SubSeq(file, 1, Len(file) - 2) = stem
               /\ IsSuffix(<<x, y>>, file)
<1> DEFINE two == <<x, y>>
           file == stem \o two
           n == Len(stem)
<1>1. two \in Seq(S) /\ Len(two) = 2 /\ two[1] = x /\ two[2] = y /\ n \in Nat
  OBVIOUS
<1> HIDE DEF two
<1>2. /\ file \in Seq(S) /\ Len(file) = n + 2
      /\ \A i \in 1..n : file[i] = stem[i]
      /\ file[n + 1] = x /\ file[n + 2] = y
      /\ SubSeq(file, 1, n) = stem
  <2>1. Parted(S, file, stem, two, n, 2)
    BY <1>1, JoinedParts DEF Cat
  <2>2. file \in Seq(S) /\ Len(file) = n + 2 /\ \A i \in 1..n : file[i] = stem[i]
    BY <2>1, Zenon DEF Parted
  <2>3. file[n + 1] = two[1] /\ file[n + 2] = two[2]
    <3> HIDE DEF file, n
    <3>1. \A i \in 1..2 : file[n + i] = two[i]
      BY <2>1, Zenon DEF Parted
    <3> QED BY <3>1
  <2> HIDE DEF file
  <2>4. SubSeq(file, 1, n) = stem
    <3> DEFINE u == SubSeq(file, 1, n)
    <3>1. u \in Seq(S) /\ Len(u) = n /\ \A i \in 1..n : u[i] = file[i]
      BY <1>1, <2>2
    <3> HIDE DEF u
    <3>2. u = stem
      BY <2>2, <3>1
    <3> QED BY <3>2 DEF u
  <2> QED BY <1>1, <2>2, <2>3, <2>4
<1> HIDE DEF file, n
<1>3. SubSeq(file, 1, Len(file) - 2) = stem
  <2>1. Len(file) - 2 = n
    BY <1>1, <1>2
  <2> QED BY <1>2, <2>1
<1>4. IsSuffix(two, file)
  <2> DEFINE r == Reverse(file)
             q == Reverse(two)
  <2>1. q \in Seq(S) /\ Len(q) = 2 /\ q[1] = y /\ q[2] = x
    <3>1. q = [i \in 1..2 |-> two[(2 - i) + 1]]
      BY <1>1 DEF Reverse
    <3> HIDE DEF q
    <3>2. q[1] = two[(2 - 1) + 1] /\ q[2] = two[(2 - 2) + 1] /\ DOMAIN q = 1..2
      BY <3>1
    <3>3. q[1] = y /\ q[2] = x
      BY <1>1, <3>2
    <3>4. \A i \in 1..2 : two[(2 - i) + 1] \in S
      BY <1>1
    <3>5. q \in [1..2 -> S]
      BY <3>1, <3>4
    <3>6. q \in Seq(S) /\ Len(q) = 2
      BY <3>5, Function
    <3> QED BY <3>3, <3>6
  <2>2. r \in Seq(S) /\ Len(r) = n + 2 /\ r[1] = y /\ r[2] = x
    <3>1. r = [i \in 1..(n+2) |-> file[((n+2) - i) + 1]]
      BY <1>2 DEF Reverse
    <3> HIDE DEF r
    <3>2. 1 \in 1..(n+2) /\ 2 \in 1..(n+2) /\ ((n+2) - 1) + 1 = n + 2 /\ ((n+2) - 2) + 1 = n + 1
      BY <1>1
    <3>3. r[1] = y /\ r[2] = x
      BY <1>2, <3>1, <3>2
    <3>4. \A i \in 1..(n+2) : file[((n+2) - i) + 1] \in S
      BY <1>1, <1>2
    <3>5. r \in [1..(n+2) -> S] /\ n + 2 \in Nat
      BY <1>1, <3>1, <3>4
    <3>6. r \in Seq(S) /\ Len(r) = n + 2
      BY <3>5, Function
    <3> QED BY <3>3, <3>6
  <2> HIDE DEF r, q
  <2>3. SubSeq(q, 1, 2) = SubSeq(r, 1, 2)
    <3>0. /\ 1 \in 1..Len(q) /\ 1 + 1 <= Len(q)
          /\ 1 \in 1..Len(r) /\ 1 + 1 <= Len(r)
      BY <1>1, <2>1, <2>2
    <3>1. SubSeq(q, 1, 1 + 1) = <<q[1], q[1 + 1]>>
      BY <2>1, <3>0, TwoInside, Zenon
    <3>2. SubSeq(r, 1, 1 + 1) = <<r[1], r[1 + 1]>>
      BY <2>2, <3>0, TwoInside, Zenon
    <3> QED BY <2>1, <2>2, <3>1, <3>2
  <2>4. Len(q) <= Len(r)
    BY <1>1, <2>1, <2>2
  <2>5. IsPrefix(q, r)
    BY <2>1, <2>3, <2>4 DEF IsPrefix
  <2> QED BY <2>5 DEF IsSuffix, r, q
<1> QED BY <1>2, <1>3, <1>4 DEF two, file, n

(* A file matches the first of its extensions. *)
LEMMA FileMatches ==
    ASSUME NEW S, NEW stem \in Seq(S), stem # <<>>, "." \in S, NEW i, Extensions[i] \in S,
           "." # Extensions[i],
           \A k \in 1..(Len(stem) - 1) : ~ (stem[k] = "." /\ stem[k+1] = Extensions[i])
    PROVE  SegmentMatches(File(i), stem \o <<".", Extensions[i]>>)
<1> DEFINE dot == "."
           e == Extensions[i]
           suffix == <<dot, e>>
           file == stem \o suffix
           n == Len(stem)
<1>1. n \in Nat /\ n > 0
  OBVIOUS
<1>2. /\ file \in Seq(S) /\ Len(file) = n + 2
      /\ \A k \in 1..n : file[k] = stem[k]
      /\ file[n + 1] = dot
      /\ IsSuffix(suffix, file)
  BY TwoBehind
<1>3. Len(suffix) = 2 /\ suffix # <<>>
  OBVIOUS
<1>4. \A k \in 1..(n - 1) : ~ (stem[k] = dot /\ stem[k+1] = e)
  OBVIOUS
<1>5. dot # e
  OBVIOUS
<1> HIDE DEF file, e, dot, n
<1>6. ASSUME NEW k \in 1..n PROVE SubSeq(file, k, k + 1) # suffix
  <2>1. k \in 1..Len(file) /\ k + 1 <= Len(file)
    BY <1>1, <1>2
  <2>2. SubSeq(file, k, k + 1) = <<file[k], file[k+1]>>
    BY <1>2, <2>1, TwoInside
  <2>3. suffix = SubSeq(file, k, k + 1) => file[k] = dot /\ file[k+1] = e
    BY <2>2
  <2>4. CASE k = n
    BY <1>2, <1>5, <2>3, <2>4
  <2>5. CASE k # n
    <3>1. k \in 1..(n - 1) /\ k + 1 \in 1..n
      BY <1>1, <2>5
    <3> QED BY <1>2, <1>4, <2>3, <3>1
  <2> QED BY <2>4, <2>5
<1> HIDE DEF suffix
<1>7. Len(file) > Len(suffix) /\ Len(file) - Len(suffix) = n
  BY <1>1, <1>2, <1>3
<1>8. \A k \in 1..n : k + Len(suffix) - 1 = k + 1
  BY <1>1, <1>3
<1>9. Ends(file, suffix)
  BY <1>2, <1>6, <1>7, <1>8, Zenon DEF Ends
<1>10. Ends(stem \o <<".", Extensions[i]>>, <<".", Extensions[i]>>)
  BY <1>9, Zenon DEF file, suffix, dot, e
<1> QED BY <1>10, ParameterMatches, Zenon

(* Three segments are a name, profiles and a label. *)
LEMMA LabelledRoute ==
    ASSUME NEW S, NEW a \in Seq(S), a # <<>>, NEW profiles \in Seq(S), profiles # <<>>,
           NEW label \in Seq(S), label # <<>>
    PROVE  Handler("GET", <<a, profiles, label>>) = "FindOne"
<1> DEFINE path == <<a, profiles, label>>
<1>1. RouteMatches(Routes[16], path)
  <2>1. SegmentMatches(Parameter, a) /\ SegmentMatches(Parameter, profiles) /\ SegmentMatches(Parameter, label)
    BY AnyText
  <2>2. /\ Len(Routes[16].path) = 3 /\ Routes[16].path[1] = Parameter
        /\ Routes[16].path[2] = Parameter /\ Routes[16].path[3] = Parameter
    BY KindLengths, RouteKinds
  <2> QED BY <2>1, <2>2, Segments
<1>2. \A r : RouteMatches(r, path) => Len(r.path) = 3
  BY Segments, Zenon
<1> HIDE DEF path
<1>3. ASSUME NEW i \in 1..16, RouteMatches(Routes[i], path) PROVE Routes[i].handler = "FindOne"
  <2>1. Len(Routes[i].path) = 3
    BY <1>2, <1>3
  <2>2. ~ OneWord(Routes[i]) /\ ~ TwoWords(Routes[i]) /\ ~ LabelledFile(Routes[i]) /\ ~ PlainFile(Routes[i])
    <3>1. 3 # 1 /\ 3 # 2
      OBVIOUS
    <3> QED BY <2>1, <3>1, KindLengths, Zenon
  <2>3. i \in 1..6 \/ i \in 7..10 \/ i \in 11..14 \/ i = 15 \/ i = 16
    OBVIOUS
  <2>4. i = 15 \/ i = 16
    BY <2>2, <2>3, RouteKinds, Zenon
  <2> QED BY <2>4, RouteKinds, Zenon DEF ReadsPair, ReadsLabelled
<1>4. 16 \in 1..16
  OBVIOUS
<1>5. Decides(16, path, "FindOne")
  BY <1>1, <1>3, <1>4, Zenon DEF Decides
<1>6. Handler("GET", path) = "FindOne"
  BY <1>5, RouteFound, Zenon
<1> QED BY <1>6 DEF path

LEMMA FixedMatch ==
    ASSUME NEW r, TwoWords(r), NEW x, NEW y, RouteMatches(r, <<x, y>>)
    PROVE  <<x, y>> \in FixedPairs /\ x # Label
<1>1. /\ \A a, b : <<a, b>>[1] = a /\ <<a, b>>[2] = b
      /\ \A a : <<a>>[1] = a
      /\ \A a, b, c : <<a, b, c>>[1] = a
  OBVIOUS
<1>2. /\ "health" # ":" /\ "liveness" # ":" /\ "readiness" # ":"
      /\ "swagger-ui" # ":" /\ "swagger" # ":"
      /\ "health" # "label" /\ "readiness" # "label" /\ "swagger-ui" # "label"
  BY Zenon
<1>3. r.path \in FixedPairs
  BY Zenon DEF TwoWords
<1>4. SegmentMatches(r.path[1], x) /\ SegmentMatches(r.path[2], y)
  BY Segments, Zenon
<1>5. ASSUME NEW p, NEW q, p[1] # ":", q[1] # ":", r.path = <<p, q>>
      PROVE  x = p /\ y = q
  <2>1. r.path[1] = p /\ r.path[2] = q
    BY <1>1, <1>5
  <2> QED BY <1>4, <1>5, <2>1, Zenon DEF SegmentMatches
<1>6. ASSUME NEW w, w # "label", <<w>> = Label PROVE FALSE
  BY <1>6 DEF Label
<1>7. CASE r.path = <<<<"health">>, <<"liveness">>>>
  <2>1. x = <<"health">> /\ y = <<"liveness">>
    BY <1>1, <1>2, <1>5, <1>7, Zenon
  <2> QED BY <1>2, <1>6, <2>1, Zenon DEF FixedPairs
<1>8. CASE r.path = Probe
  <2>1. x = <<"health">> /\ y = <<"readiness">>
    BY <1>1, <1>2, <1>5, <1>8, Zenon DEF Probe
  <2> QED BY <1>2, <1>6, <2>1, Zenon DEF FixedPairs, Probe
<1>9. CASE r.path = <<<<"swagger-ui">>, <<"swagger", ".", "json">>>>
  <2>1. x = <<"swagger-ui">> /\ y = <<"swagger", ".", "json">>
    <3> DEFINE p == <<"swagger-ui">>
               q == <<"swagger", ".", "json">>
    <3>1. p[1] = "swagger-ui" /\ q[1] = "swagger"
      OBVIOUS
    <3>2. r.path = <<p, q>>
      BY <1>9, Zenon
    <3> HIDE DEF p, q
    <3>3. x = p /\ y = q
      BY <1>2, <1>5, <3>1, <3>2, Zenon
    <3> QED BY <3>3 DEF p, q
  <2> QED BY <1>2, <1>6, <2>1, Zenon DEF FixedPairs
<1> QED BY <1>3, <1>7, <1>8, <1>9, Zenon DEF FixedPairs

(* Two segments are a name and profiles, unless the last is a file.        *)
LEMMA EnvironmentRoute ==
    ASSUME NEW S, NEW a \in Seq(S), a # <<>>, NEW profiles \in Seq(S), profiles # <<>>,
           <<a, profiles>> \notin FixedPairs,
           \A i \in 1..4 : ~ IsSuffix(<<".", Extensions[i]>>, profiles)
    PROVE  Handler("GET", <<a, profiles>>) = "FindOne"
<1> DEFINE path == <<a, profiles>>
<1>1. RouteMatches(Routes[15], path)
  <2>1. SegmentMatches(Parameter, a) /\ SegmentMatches(Parameter, profiles)
    BY AnyText
  <2>2. Len(Routes[15].path) = 2 /\ Routes[15].path[1] = Parameter /\ Routes[15].path[2] = Parameter
    BY KindLengths, RouteKinds
  <2> QED BY <2>1, <2>2, Segments
<1>2. \A i \in 1..4 : ~ SegmentMatches(File(i), profiles)
  BY ParameterMatches, Zenon DEF Ends
<1>3. \A r : RouteMatches(r, path) => Len(r.path) = 2 /\ SegmentMatches(r.path[2], profiles)
  BY Segments, Zenon
<1>4. \A r : RouteMatches(r, path) => ~ TwoWords(r)
  BY FixedMatch, Zenon
<1> HIDE DEF path
<1>5. ASSUME NEW i \in 1..15, RouteMatches(Routes[i], path) PROVE Routes[i].handler = "FindOne"
  <2>1. Len(Routes[i].path) = 2 /\ SegmentMatches(Routes[i].path[2], profiles) /\ ~ TwoWords(Routes[i])
    BY <1>3, <1>4, <1>5, Zenon
  <2>2. ~ OneWord(Routes[i]) /\ ~ PlainFile(Routes[i])
    <3>1. 2 # 1
      OBVIOUS
    <3> QED BY <2>1, <3>1, KindLengths, Zenon
  <2>3. ~ LabelledFile(Routes[i])
    <3>1. LabelledFile(Routes[i]) => \E k \in 1..4 : Routes[i].path[2] = File(k)
      BY KindLengths, Zenon
    <3> QED BY <1>2, <2>1, <3>1
  <2>4. i \in 1..6 \/ i \in 7..10 \/ i \in 11..14 \/ i = 15
    OBVIOUS
  <2>5. i = 15
    BY <2>1, <2>2, <2>3, <2>4, RouteKinds, Zenon
  <2> QED BY <2>5, RouteKinds, Zenon DEF ReadsPair
<1>6. 15 \in 1..16
  OBVIOUS
<1>7. Decides(15, path, "FindOne")
  BY <1>1, <1>5, <1>6, Zenon DEF Decides
<1>8. Handler("GET", path) = "FindOne"
  BY <1>7, RouteFound, Zenon
<1> QED BY <1>8 DEF path

(* A file behind a label. *)
LEMMA LabelledFileRoute ==
    ASSUME NEW k \in 1..4, NEW file, SegmentMatches(File(k), file)
    PROVE  Handler("GET", <<Label, file>>) = "FindFile"
<1> DEFINE path == <<Label, file>>
           n == 6 + k
<1>1. n \in 7..10 /\ n - 6 = k /\ n \in 1..16
  OBVIOUS
<1> HIDE DEF n
<1>2. RouteMatches(Routes[n], path)
  <2>1. Routes[n].path = <<Parameter, File(k)>>
    BY <1>1, RouteKinds
  <2>2. /\ Len(<<Parameter, File(k)>>) = 2
        /\ <<Parameter, File(k)>>[1] = Parameter /\ <<Parameter, File(k)>>[2] = File(k)
    OBVIOUS
  <2>3. SegmentMatches(Parameter, Label)
    <3>1. Label \in Seq({"label"}) /\ Label # <<>>
      BY DEF Label
    <3> QED BY <3>1, AnyText
  <2> QED BY <2>1, <2>2, <2>3, Segments
<1>3. \A r : RouteMatches(r, path) => Len(r.path) = 2 /\ ~ TwoWords(r)
  <2>1. \A r : RouteMatches(r, path) => Len(r.path) = 2
    BY Segments, Zenon
  <2> QED BY <2>1, FixedMatch, Zenon
<1> HIDE DEF path
<1>4. ASSUME NEW i \in 1..n, RouteMatches(Routes[i], path) PROVE Routes[i].handler = "FindFile"
  <2>1. Len(Routes[i].path) = 2 /\ ~ TwoWords(Routes[i])
    BY <1>3, <1>4, Zenon
  <2>2. ~ OneWord(Routes[i])
    <3>1. 2 # 1
      OBVIOUS
    <3> QED BY <2>1, <3>1, KindLengths, Zenon
  <2>3. i \in 1..6 \/ i \in 7..10
    BY <1>1
  <2>4. LabelledFile(Routes[i])
    BY <2>1, <2>2, <2>3, RouteKinds, Zenon
  <2> QED BY <2>4, Zenon DEF LabelledFile
<1>5. Decides(n, path, "FindFile")
  BY <1>1, <1>2, <1>4, Zenon DEF Decides
<1>6. Handler("GET", path) = "FindFile"
  BY <1>5, RouteFound, Zenon
<1> QED BY <1>6 DEF path

(* A file alone. *)
LEMMA FileRoute ==
    ASSUME NEW k \in 1..4, NEW file, SegmentMatches(File(k), file), Len(file) # 1
    PROVE  Handler("GET", <<file>>) = "FindFile"
<1> DEFINE path == <<file>>
           n == 10 + k
<1>1. n \in 11..14 /\ n - 10 = k /\ n \in 1..16
  OBVIOUS
<1> HIDE DEF n
<1>2. RouteMatches(Routes[n], path)
  <2>1. Routes[n].path = <<File(k)>>
    BY <1>1, RouteKinds
  <2>2. Len(<<File(k)>>) = 1 /\ <<File(k)>>[1] = File(k)
    OBVIOUS
  <2> QED BY <2>1, <2>2, Segments
<1>3. \A r : RouteMatches(r, path) => Len(r.path) = 1 /\ ~ OneWord(r)
  <2>1. ASSUME NEW r, RouteMatches(r, path) PROVE Len(r.path) = 1 /\ ~ OneWord(r)
    <3>1. Len(r.path) = 1 /\ SegmentMatches(r.path[1], file)
      BY <2>1, Segments, Zenon
    <3>2. ASSUME NEW w \in Words, r.path[1] = <<w>> PROVE FALSE
      <4>1. w # ":"
        BY Zenon DEF Words
      <4>2. file = <<w>>
        BY <3>1, <3>2, <4>1, Word, Zenon
      <4> QED BY <4>2
    <3> QED BY <3>1, <3>2, Zenon DEF OneWord
  <2> QED BY <2>1
<1> HIDE DEF path
<1>4. ASSUME NEW i \in 1..n, RouteMatches(Routes[i], path) PROVE Routes[i].handler = "FindFile"
  <2>1. Len(Routes[i].path) = 1 /\ ~ OneWord(Routes[i])
    BY <1>3, <1>4, Zenon
  <2>2. ~ TwoWords(Routes[i]) /\ ~ LabelledFile(Routes[i])
    <3>1. 1 # 2
      OBVIOUS
    <3> QED BY <2>1, <3>1, KindLengths, Zenon
  <2>3. i \in 1..6 \/ i \in 7..10 \/ i \in 11..14
    BY <1>1
  <2>4. PlainFile(Routes[i])
    BY <2>1, <2>2, <2>3, RouteKinds, Zenon
  <2> QED BY <2>4, Zenon DEF PlainFile
<1>5. Decides(n, path, "FindFile")
  BY <1>1, <1>2, <1>4, Zenon DEF Decides
<1>6. Handler("GET", path) = "FindFile"
  BY <1>5, RouteFound, Zenon
<1> QED BY <1>6 DEF path

-----------------------------------------------------------------------------
(* The names a URL spells. *)

LEMMA Decodings ==
    ASSUME NEW s \in Seq(Symbol), NEW t \in Seq(Symbol)
    PROVE  /\ GetFiberParam(Cat(s, t)) = Cat(GetFiberParam(s), GetFiberParam(t))
           /\ Lacks("%2F", s) => GetFiberParam(s) = s
<1> DEFINE old == "%2F"
           new == "/"
           r(x) == ReplaceAll(x, old, new)
           c == Cat(s, t)
           d == Cat(r(s), r(t))
<1>0. old \in Symbol /\ new \in Symbol
  BY Separators
<1> HIDE DEF old, new
<1>1. ASSUME NEW x \in Seq(Symbol)
      PROVE  /\ r(x) \in Seq(Symbol) /\ Len(r(x)) = Len(x)
             /\ \A i \in 1..Len(x) : r(x)[i] = IF x[i] = old THEN new ELSE x[i]
  <2>1. r(x) \in Seq(Symbol) /\ DOMAIN r(x) = DOMAIN x
    BY <1>0, ReplaceAllText
  <2>2. \A i \in DOMAIN x : r(x)[i] = IF x[i] = old THEN new ELSE x[i]
    BY ReplaceAllSymbol
  <2> HIDE DEF r
  <2> QED BY <2>1, <2>2
<1>2. /\ c \in Seq(Symbol) /\ Len(c) = Len(s) + Len(t)
      /\ \A i \in 1..Len(s) : c[i] = s[i]
      /\ \A i \in 1..Len(t) : c[Len(s) + i] = t[i]
  BY DEF Cat
<1>3. /\ d \in Seq(Symbol) /\ Len(d) = Len(s) + Len(t)
      /\ \A i \in 1..Len(s) : d[i] = r(s)[i]
      /\ \A i \in 1..Len(t) : d[Len(s) + i] = r(t)[i]
  <2>1. r(s) \in Seq(Symbol) /\ r(t) \in Seq(Symbol) /\ Len(r(s)) = Len(s) /\ Len(r(t)) = Len(t)
    BY <1>1
  <2> DEFINE x == r(s)
             y == r(t)
  <2>2. Parted(Symbol, d, x, y, Len(s), Len(t))
    <3> HIDE DEF r
    <3> QED BY <2>1, JoinedParts
  <2> HIDE DEF d, r
  <2> QED BY <2>2, Zenon DEF Parted
<1>4. r(c) \in Seq(Symbol) /\ Len(r(c)) = Len(s) + Len(t)
  <2> HIDE DEF c, r
  <2> QED BY <1>1, <1>2
<1>5. ASSUME NEW i \in 1..(Len(s) + Len(t)) PROVE r(c)[i] = d[i]
  <2> HIDE DEF c, d, r
  <2>1. r(c)[i] = IF c[i] = old THEN new ELSE c[i]
    BY <1>1, <1>2
  <2>2. CASE i \in 1..Len(s)
    <3>1. c[i] = s[i] /\ d[i] = r(s)[i]
      BY <1>2, <1>3, <2>2
    <3>2. r(s)[i] = IF s[i] = old THEN new ELSE s[i]
      BY <1>1, <2>2
    <3> QED BY <2>1, <3>1, <3>2
  <2>3. CASE i \notin 1..Len(s)
    <3> DEFINE k == i - Len(s)
    <3>1. k \in 1..Len(t) /\ Len(s) + k = i
      BY <2>3
    <3> HIDE DEF k
    <3>2. c[i] = t[k] /\ d[i] = r(t)[k]
      BY <1>2, <1>3, <3>1
    <3> QED BY <1>1, <2>1, <3>1, <3>2
  <2> QED BY <2>2, <2>3
<1>6. r(c) = d
  <2> HIDE DEF c, d, r
  <2> QED BY <1>3, <1>4, <1>5
<1>7. ASSUME Lacks(old, s) PROVE r(s) = s
  <2>1. \A i \in 1..Len(s) : s[i] # old
    BY <1>7 DEF Lacks
  <2> HIDE DEF r
  <2> QED BY <1>1, <2>1
<1> QED BY <1>6, <1>7, Zenon DEF GetFiberParam, old, new

LEMMA OtherSymbols ==
    /\ "(_)" \in Symbol /\ "-" \in Symbol
    /\ "(_)" # "%2F" /\ "/" # "%2F" /\ "/" # "(_)" /\ "-" # "%2F"
BY HttpAssumption DEF NotAlphanumeric

Separating == {"/", "%2F", "(_)"}

(* A spelling of an application differs from it only in the "/".           *)
LEMMA Spelling ==
    ASSUME NEW app \in Seq(Symbol), app # <<>>, NEW a \in Spelled(app)
    PROVE  /\ a \in Seq(Symbol) /\ a # <<>> /\ Len(a) = Len(app)
           /\ \A i \in 1..Len(app) : \A c : c \notin Separating => (a[i] = c <=> app[i] = c)
<1>1. PICK new \in {"%2F", "(_)"} : a = ReplaceAll(app, "/", new)
  BY Zenon DEF Spelled, Escaped
<1>2. new \in Symbol /\ "/" \in Symbol
  BY Separators, OtherSymbols
<1>3. a \in Seq(Symbol) /\ DOMAIN a = DOMAIN app
  BY <1>1, <1>2, ReplaceAllText
<1>4. \A i \in DOMAIN app : a[i] = IF app[i] = "/" THEN new ELSE app[i]
  BY <1>1, ReplaceAllSymbol
<1>5. DOMAIN app = 1..Len(app) /\ Len(a) = Len(app) /\ a # <<>>
  BY <1>3
<1>6. \A i \in 1..Len(app) : \A c : c \notin Separating => (a[i] = c <=> app[i] = c)
  BY <1>4, <1>5 DEF Separating
<1> QED BY <1>3, <1>5, <1>6

(* However an application is spelled, a read takes the application out of  *)
(* the spelling.                                                           *)
LEMMA SpelledName ==
    ASSUME NEW app \in Seq(Symbol), app # <<>>, "%2F" \notin Range(app), Readable(app),
           NEW a \in Spelled(app)
    PROVE  /\ GetFiberParam(a) \in Seq(Symbol) /\ GetFiberParam(a) # <<>>
           /\ ReplaceSlashPlaceholder(GetFiberParam(a)) = app
<1> DEFINE g == GetFiberParam(a)
           h == ReplaceSlashPlaceholder(g)
<1>1. PICK new \in {"%2F", "(_)"} : a = ReplaceAll(app, "/", new)
  BY Zenon DEF Spelled, Escaped
<1>2. new \in Symbol /\ "/" \in Symbol /\ "%2F" \in Symbol /\ "(_)" \in Symbol
  BY Separators, OtherSymbols
<1>3. \A i \in DOMAIN app : app[i] # "%2F" /\ app[i] # "(_)"
  BY DEF Readable, Range
<1>4. a \in Seq(Symbol) /\ DOMAIN a = DOMAIN app
  BY <1>1, <1>2, ReplaceAllText
<1>5. \A i \in DOMAIN app : a[i] = IF app[i] = "/" THEN new ELSE app[i]
  BY <1>1, ReplaceAllSymbol
<1>6. g \in Seq(Symbol) /\ DOMAIN g = DOMAIN app
  BY <1>2, <1>4, ReplaceAllText DEF GetFiberParam
<1>7. \A i \in DOMAIN app : g[i] = IF a[i] = "%2F" THEN "/" ELSE a[i]
  BY <1>4, ReplaceAllSymbol DEF GetFiberParam
<1> HIDE DEF g
<1>8. h \in Seq(Symbol) /\ DOMAIN h = DOMAIN app
  BY <1>2, <1>6, ReplaceAllText DEF ReplaceSlashPlaceholder
<1>9. \A i \in DOMAIN app : h[i] = IF g[i] = "(_)" THEN "/" ELSE g[i]
  BY <1>6, ReplaceAllSymbol DEF ReplaceSlashPlaceholder
<1> HIDE DEF h
<1>10. \A i \in DOMAIN app : h[i] = app[i]
  BY <1>3, <1>5, <1>7, <1>9, OtherSymbols
<1>11. h = app
  BY <1>8, <1>10
<1>12. g # <<>>
  BY <1>6
<1> QED BY <1>6, <1>11, <1>12 DEF g, h

(* The file name without its extension. *)
Stem(a, profiles) == Cat(Cat(a, <<"-">>), profiles)

LEMMA StemDecoded ==
    ASSUME NEW a \in Seq(Symbol), NEW profiles \in Seq(Symbol), Lacks("%2F", profiles)
    PROVE  /\ Stem(a, profiles) \in Seq(Symbol)
           /\ GetFiberParam(Stem(a, profiles)) = Stem(GetFiberParam(a), profiles)
<1> DEFINE dash == <<"-">>
           b == GetFiberParam(a)
<1>1. dash \in Seq(Symbol) /\ Lacks("%2F", dash)
  <2>1. dash \in Seq(Symbol) /\ DOMAIN dash = {1} /\ dash[1] = "-"
    BY OtherSymbols, OneSymbol
  <2> HIDE DEF dash
  <2> QED BY <2>1, OtherSymbols DEF Lacks
<1>2. Cat(a, dash) \in Seq(Symbol)
  <2> HIDE DEF dash
  <2> QED BY <1>1, CatAssociative
<1>3. Stem(a, profiles) \in Seq(Symbol)
  BY <1>2, CatAssociative DEF Stem
<1>4. /\ GetFiberParam(Cat(Cat(a, dash), profiles))
             = Cat(GetFiberParam(Cat(a, dash)), GetFiberParam(profiles))
      /\ GetFiberParam(profiles) = profiles
  <2> HIDE DEF dash
  <2> QED BY <1>2, Decodings
<1>5. GetFiberParam(Cat(a, dash)) = Cat(b, dash)
  <2>1. GetFiberParam(Cat(a, dash)) = Cat(b, GetFiberParam(dash)) /\ GetFiberParam(dash) = dash
    <3> HIDE DEF dash
    <3> QED BY <1>1, Decodings
  <2> QED BY <2>1, Zenon
<1> HIDE DEF dash
<1>6. GetFiberParam(Cat(Cat(a, dash), profiles)) = Cat(Cat(b, dash), profiles)
  BY <1>4, <1>5
<1> QED BY <1>3, <1>6, Zenon DEF Stem, dash

(* The text does not hold the extension e. *)
Before(s, e) == \A k \in 1..(Len(s) - 1) : ~ (s[k] = "." /\ s[k+1] = e)

(* Putting a "-" between two such texts makes no extension. *)
LEMMA StemHasNoExtension ==
    ASSUME NEW a \in Seq(Symbol), NEW profiles \in Seq(Symbol), NEW e, e # "-",
           Before(a, e), Before(profiles, e)
    PROVE  Before(Stem(a, profiles), e)
<1> DEFINE dot == "."
           dash == "-"
           start == Cat(a, <<dash>>)
           s == Cat(start, profiles)
           n == Len(a)
           m == Len(profiles)
<1>0. dot # dash /\ dash # e
  OBVIOUS
<1>1. n \in Nat /\ m \in Nat
  OBVIOUS
<1>2. start \in Seq(Symbol) /\ Len(start) = n + 1 /\ start[n + 1] = dash /\ \A i \in 1..n : start[i] = a[i]
  <2>1. dash \in Symbol
    BY OtherSymbols
  <2> HIDE DEF dash
  <2> QED BY <2>1 DEF Cat
<1> HIDE DEF start
<1>3. /\ Len(s) = (n + 1) + m
      /\ \A i \in 1..(n + 1) : s[i] = start[i]
      /\ \A i \in 1..m : s[(n + 1) + i] = profiles[i]
  <2>1. Parted(Symbol, s, start, profiles, n + 1, m)
    BY <1>2, JoinedParts
  <2> HIDE DEF s
  <2> QED BY <2>1, Zenon DEF Parted
<1>4. /\ \A k \in 1..(n - 1) : ~ (a[k] = dot /\ a[k+1] = e)
      /\ \A k \in 1..(m - 1) : ~ (profiles[k] = dot /\ profiles[k+1] = e)
  BY DEF Before
<1>5. Stem(a, profiles) = s
  BY Zenon DEF Stem, start
<1> HIDE DEF s, n, m, dot, dash
<1>6. ASSUME NEW k \in 1..(Len(s) - 1), s[k] = dot, s[k+1] = e PROVE FALSE
  <2>1. k \in Nat /\ k >= 1 /\ k <= n + m
    BY <1>1, <1>3
  <2>2. CASE k < n
    <3>1. k \in 1..(n - 1) /\ k \in 1..n /\ k + 1 \in 1..n /\ k \in 1..(n+1) /\ k + 1 \in 1..(n+1)
      BY <1>1, <2>1, <2>2
    <3>2. s[k] = a[k] /\ s[k+1] = a[k+1]
      BY <1>2, <1>3, <3>1
    <3> QED BY <1>4, <1>6, <3>1, <3>2
  <2>3. CASE k = n
    <3>1. s[k+1] = dash
      BY <1>1, <1>2, <1>3, <2>1, <2>3
    <3> QED BY <1>0, <1>6, <3>1
  <2>4. CASE k = n + 1
    <3>1. s[k] = dash
      BY <1>1, <1>2, <1>3, <2>1, <2>4
    <3> QED BY <1>0, <1>6, <3>1
  <2>5. CASE k > n + 1
    <3> DEFINE i == k - (n + 1)
    <3>1. i \in 1..(m - 1) /\ i \in 1..m /\ i + 1 \in 1..m /\ (n + 1) + i = k /\ (n + 1) + (i + 1) = k + 1
      BY <1>1, <2>1, <2>5
    <3> HIDE DEF i
    <3>2. s[k] = profiles[i] /\ s[k+1] = profiles[i+1]
      BY <1>3, <3>1
    <3> QED BY <1>4, <1>6, <3>1, <3>2
  <2> QED BY <1>1, <2>1, <2>2, <2>3, <2>4, <2>5
<1>7. \A k \in 1..(Len(s) - 1) : ~ (s[k] = dot /\ s[k+1] = e)
  BY <1>6
<1> QED BY <1>5, <1>7 DEF Before, dot

LEMMA NoExtension ==
    ASSUME NEW s \in Seq(Symbol), NEW i, ~ HasExtension(s, i)
    PROVE  \A k \in 1..(Len(s) - 1) : ~ (s[k] = "." /\ s[k+1] = Extensions[i])
<1> SUFFICES ASSUME NEW k \in 1..(Len(s) - 1), s[k] = ".", s[k+1] = Extensions[i] PROVE FALSE
  OBVIOUS
<1>1. /\ k \in 1..Len(s) /\ k + 1 <= Len(s)
      /\ k - 1 \in 0..Len(s) /\ k + 1 \in 0..Len(s) /\ (k - 1) + 1 = k
  OBVIOUS
<1>2. SubSeq(s, k, k + 1) = <<s[k], s[k+1]>>
  BY <1>1, TwoInside
<1>3. SubSeq(s, (k - 1) + 1, k + 1) \in SubSeqs(s)
  <2> DEFINE i0 == k - 1
             j0 == k + 1
  <2>1. i0 \in 0..Len(s) /\ j0 \in 0..Len(s)
    BY <1>1
  <2> HIDE DEF i0, j0
  <2>2. SubSeq(s, i0 + 1, j0) \in SubSeqs(s)
    BY <2>1 DEF SubSeqs
  <2> QED BY <2>2, Zenon DEF i0, j0
<1>4. <<".", Extensions[i]>> \in SubSeqs(s)
  BY <1>1, <1>2, <1>3
<1> QED BY <1>4, Zenon DEF HasExtension

LEMMA ExtensionNames ==
    \A i \in 1..4 : /\ Extensions[i] # "-" /\ Extensions[i] # "."
                    /\ Extensions[i] \notin Separating /\ "." \notin Separating
BY DEF Extensions, Separating

(* What ReadableNames and the other assumptions say of one URL. *)
LEMMA NamesRead ==
    ASSUME ReadableNames, NEW app \in Applications, NEW profiles \in ProfileList
    PROVE  /\ app \in Seq(Symbol) /\ app # <<>> /\ "%2F" \notin Range(app)
           /\ \A i \in 1..4 : ~ HasExtension(app, i)
           /\ profiles \in Seq(Symbol) /\ profiles # <<>> /\ Lacks("%2F", profiles)
           /\ ProfilesValid(profiles)
<1>1. PICK t \in Target : app = t[1]
  BY DEF Applications
<1>2. app \in Seq(Symbol) /\ "%2F" \notin Range(app)
  BY <1>1, PathsAssumption, NamesAssumption
<1>3. app # <<>> /\ (\A i \in 1..4 : ~ HasExtension(app, i)) /\ ProfilesValid(profiles)
  BY Zenon DEF ReadableNames
<1>4. profiles \in Seq(Symbol)
  BY HttpAssumption
<1> QED BY <1>2, <1>3, <1>4, ValidProfiles

(* Whatever the spelling, the answer is the merge of what was written.     *)
LEMMA LoadAnswers ==
    ASSUME Stores, ReadableNames, NEW app \in Applications, NEW profiles \in ProfileList,
           NEW b, ReplaceSlashPlaceholder(b) = app
    PROVE  Load(b, profiles) = Ok(Expected(app, profiles))
<1>1. ProfilesValid(profiles)
  BY NamesRead
<1>2. Load(b, profiles) = Ok(LoadMergedProperties(app, Split(profiles, ",")))
  BY <1>1, Zenon DEF Load
<1> QED BY <1>2, MergeIsExpected, Zenon

LEMMA EnvironmentAnswers ==
    ASSUME Stores, ReadableNames, NEW app \in Applications, Readable(app),
           NEW profiles \in ProfileList, NEW a \in Spelled(app),
           NEW path, path[1] = a, path[2] = profiles, Handler("GET", path) = "FindOne"
    PROVE  Answer(path) = Ok(Expected(app, profiles))
<1>1. /\ app \in Seq(Symbol) /\ app # <<>> /\ "%2F" \notin Range(app)
      /\ profiles \in Seq(Symbol) /\ Lacks("%2F", profiles)
  BY NamesRead
<1>2. ReplaceSlashPlaceholder(GetFiberParam(a)) = app
  BY <1>1, SpelledName
<1>3. GetFiberParam(profiles) = profiles
  BY <1>1, Decodings
<1>4. Answer(path) = FindOne(path)
  BY Zenon DEF Answer
<1>5. FindOne(path) = Load(GetFiberParam(a), profiles)
  BY <1>3, Zenon DEF FindOne
<1> QED BY <1>2, <1>4, <1>5, LoadAnswers, Zenon

(* A file name ends in one extension, which is the first in it.            *)
LEMMA FileNameMatches ==
    ASSUME NEW app \in Seq(Symbol), app # <<>>, NEW a \in Spelled(app),
           NEW profiles \in Seq(Symbol), Lacks("%2F", profiles),
           NEW i \in 1..4, ~ HasExtension(app, i), ~ HasExtension(profiles, i)
    PROVE  LET file == FileName(a, profiles, i)
           IN  /\ SegmentMatches(File(i), file) /\ Len(file) # 1
               /\ SubSeq(file, 1, Len(file) - 2) = Stem(a, profiles)
<1> DEFINE e == Extensions[i]
           S == Symbol \cup {e}
           stem == Stem(a, profiles)
           file == FileName(a, profiles, i)
<1>1. Len(app) \in Nat /\ Len(a) \in Nat
  BY Spelling
<1>2. /\ a \in Seq(Symbol) /\ a # <<>> /\ Len(a) = Len(app)
      /\ \A k \in 1..Len(app) : \A c : c \notin Separating => (a[k] = c <=> app[k] = c)
  BY Spelling
<1>3. e # "-" /\ e # "." /\ e \notin Separating /\ "." \notin Separating
  BY ExtensionNames
<1>4. \A k \in 1..(Len(profiles) - 1) : ~ (profiles[k] = "." /\ profiles[k+1] = e)
  BY NoExtension
<1>5. \A k \in 1..(Len(a) - 1) : ~ (a[k] = "." /\ a[k+1] = e)
  <2>1. \A k \in 1..(Len(app) - 1) : ~ (app[k] = "." /\ app[k+1] = e)
    BY NoExtension
  <2>2. \A k \in 1..(Len(app) - 1) : k \in 1..Len(app) /\ k + 1 \in 1..Len(app)
    BY <1>1
  <2> HIDE DEF e
  <2> QED BY <1>2, <1>3, <2>1, <2>2
<1> HIDE DEF e
<1>6. stem \in Seq(Symbol) /\ stem # <<>>
  <2>1. stem \in Seq(Symbol)
    BY <1>2, StemDecoded
  <2>2. Len(stem) > 0
    <3> DEFINE start == Cat(a, <<"-">>)
    <3>1. start \in Seq(Symbol)
      BY <1>2, OtherSymbols, ShortTexts, CatAssociative
    <3>2. Len(start) > 0
      BY <1>2, <3>1 DEF Cat
    <3> HIDE DEF start
    <3>3. Len(Cat(start, profiles)) > 0
      BY <3>1, <3>2 DEF Cat
    <3> QED BY <3>3 DEF Stem, start
  <2> QED BY <2>1, <2>2
<1>7. \A k \in 1..(Len(stem) - 1) : ~ (stem[k] = "." /\ stem[k+1] = e)
  <2>1. Before(a, e) /\ Before(profiles, e)
    BY <1>4, <1>5 DEF Before
  <2>2. Before(Stem(a, profiles), e)
    BY <1>2, <1>3, <2>1, StemHasNoExtension
  <2> HIDE DEF stem
  <2>3. Before(stem, e)
    BY <2>2 DEF stem
  <2> QED BY <2>3 DEF Before
<1>8. stem \in Seq(S) /\ "." \in S /\ e \in S
  <2>1. stem \in [1..Len(stem) -> Symbol] /\ Len(stem) \in Nat
    BY <1>6
  <2>2. stem \in [1..Len(stem) -> S]
    BY <2>1
  <2> HIDE DEF stem, S
  <2>3. stem \in Seq(S)
    BY <2>1, <2>2, Function
  <2> QED BY <2>3, Separators DEF S
<1>9. file = stem \o <<".", Extensions[i]>>
  BY Zenon DEF FileName, Stem, Cat
<1> HIDE DEF stem, file, S
<1>10. SegmentMatches(File(i), stem \o <<".", Extensions[i]>>)
  BY <1>3, <1>6, <1>7, <1>8, FileMatches DEF e
<1>11. Len(file) = Len(stem) + 2 /\ SubSeq(file, 1, Len(file) - 2) = stem
  BY <1>8, <1>9, TwoBehind DEF e
<1>12. Len(file) # 1
  BY <1>6, <1>11
<1> QED BY <1>9, <1>10, <1>11, <1>12 DEF stem, file

LEMMA FileAnswers ==
    ASSUME Stores, ReadableNames, NEW app \in Applications, Readable(app),
           NEW profiles \in ProfileList, "-" \notin Range(profiles), NEW a \in Spelled(app),
           NEW file, SubSeq(file, 1, Len(file) - 2) = Stem(a, profiles),
           NEW path, path[Len(path)] = file, Handler("GET", path) = "FindFile"
    PROVE  Answer(path) = Ok(Expected(app, profiles))
<1> DEFINE b == GetFiberParam(a)
           name == Stem(b, profiles)
<1>1. /\ app \in Seq(Symbol) /\ app # <<>> /\ "%2F" \notin Range(app)
      /\ profiles \in Seq(Symbol) /\ profiles # <<>> /\ Lacks("%2F", profiles)
  BY NamesRead
<1>2. /\ a \in Seq(Symbol) /\ b \in Seq(Symbol) /\ b # <<>>
      /\ ReplaceSlashPlaceholder(b) = app
  BY <1>1, Spelling, SpelledName
<1>3. GetFiberParam(Stem(a, profiles)) = name
  BY <1>1, <1>2, StemDecoded
<1> HIDE DEF b
<1>4. CanSplit(name) /\ ApplicationOf(name) = b /\ ProfilesOf(name) = profiles
  <2>1. Lacks("-", profiles)
    BY DEF Lacks, Range
  <2>2. name = (b \o <<"-">>) \o profiles
    BY Zenon DEF Stem, Cat
  <2> HIDE DEF name
  <2> QED BY <1>1, <1>2, <2>1, <2>2, FileNamesSplit
<1> HIDE DEF name
<1>5. FindFile(path) = Load(b, profiles)
  BY <1>3, <1>4, Zenon DEF FindFile
<1>6. "FindFile" # "FindOne"
  OBVIOUS
<1>7. Answer(path) = FindFile(path)
  BY <1>6, Zenon DEF Answer
<1> QED BY <1>2, <1>5, <1>7, LoadAnswers, Zenon

(* A pair that is not shadowed is none of the fixed paths, however it is   *)
(* spelled.                                                                *)
LEMMA NotFixed ==
    ASSUME NEW app \in Seq(Symbol), app # <<>>, "%2F" \notin Range(app), Readable(app),
           NEW a \in Spelled(app), NEW profiles, ~ Shadowed(app, profiles)
    PROVE  <<a, profiles>> \notin FixedPairs
<1> SUFFICES ASSUME <<a, profiles>> \in FixedPairs PROVE FALSE
  OBVIOUS
<1>0. \A x, y, u, v : <<x, y>> = <<u, v>> => x = u /\ y = v
  OBVIOUS
<1>1. /\ a \in Seq(Symbol) /\ Len(a) = Len(app)
      /\ \A i \in 1..Len(app) : \A c : c \notin Separating => (a[i] = c <=> app[i] = c)
  BY Spelling
<1>2. a = <<"health">> => app = <<"health">>
  <2> SUFFICES ASSUME a = <<"health">> PROVE app = <<"health">>
    OBVIOUS
  <2> DEFINE h == "health"
  <2>1. h \notin Separating
    BY DEF Separating
  <2> HIDE DEF h
  <2>2. a = <<h>>
    BY DEF h
  <2>3. Len(app) = 1 /\ a[1] = h
    BY <1>1, <2>2
  <2>4. app[1] = h
    BY <1>1, <2>1, <2>3
  <2>5. app = <<h>>
    BY <2>3, <2>4
  <2> QED BY <2>5 DEF h
<1>3. CASE <<a, profiles>> = <<<<"health">>, <<"liveness">>>>
  <2>1. a = <<"health">> /\ profiles = <<"liveness">>
    BY <1>0, <1>3, Zenon
  <2> QED BY <1>2, <2>1, Zenon DEF Shadowed
<1>4. CASE <<a, profiles>> = Probe
  <2>1. a = <<"health">> /\ profiles = <<"readiness">>
    BY <1>0, <1>4, Zenon DEF Probe
  <2> QED BY <1>2, <2>1, Zenon DEF Shadowed, Probe
<1>5. CASE <<a, profiles>> = <<<<"swagger-ui">>, <<"swagger", ".", "json">>>>
  <2> DEFINE x == "swagger"
             y == "."
             z == "json"
             S == {x, y, z}
  <2>1. profiles = <<x, y, z>>
    BY <1>0, <1>5, Zenon
  <2>2. 1 \in 1..4 /\ Extensions[1] = z
    BY DEF Extensions
  <2> HIDE DEF x, y, z
  <2>3. <<x>> \in Seq(S) /\ y \in S /\ z \in S /\ <<x>> \o <<y, z>> = <<x, y, z>>
    <3>1. <<x>> \in Seq(S) /\ y \in S /\ z \in S
      OBVIOUS
    <3> DEFINE u == <<x>> \o <<y, z>>
    <3>2. /\ u \in Seq(S) /\ Len(u) = 1 + 2
          /\ u[1] = x /\ u[1 + 1] = y /\ u[1 + 2] = z
      <4>1. Len(<<x>>) = 1 /\ <<x>>[1] = x /\ 1 \in 1..1
        OBVIOUS
      <4> HIDE DEF S
      <4> QED BY <3>1, <4>1, TwoBehind
    <3> HIDE DEF u, S
    <3>3. u = <<x, y, z>>
      BY <3>2
    <3> QED BY <3>1, <3>3 DEF u
  <2>4. IsSuffix(<<y, z>>, <<x>> \o <<y, z>>)
    <3> HIDE DEF S
    <3> QED BY <2>3, TwoBehind
  <2>5. IsSuffix(<<y, Extensions[1]>>, profiles)
    BY <2>1, <2>2, <2>3, <2>4
  <2>6. IsSuffix(<<".", Extensions[1]>>, profiles)
    BY <2>5, Zenon DEF y
  <2> QED BY <2>2, <2>6, Zenon DEF Shadowed
<1> QED BY <1>3, <1>4, <1>5, Zenon DEF FixedPairs

(* Every form of a URL. *)
LEMMA UrlAnswers ==
    ASSUME Stores, ReadableNames, NEW app \in Applications, Readable(app),
           NEW profiles \in ProfileList, NEW url \in Urls(app, profiles)
    PROVE  Answer(url) = Ok(Expected(app, profiles))
<1>0. /\ \A a, b : <<a, b>>[1] = a /\ <<a, b>>[2] = b /\ Len(<<a, b>>) = 2
      /\ \A a, b, c : <<a, b, c>>[1] = a /\ <<a, b, c>>[2] = b
      /\ \A a : <<a>>[1] = a /\ Len(<<a>>) = 1
  OBVIOUS
<1>1. /\ app \in Seq(Symbol) /\ app # <<>> /\ "%2F" \notin Range(app)
      /\ profiles \in Seq(Symbol) /\ profiles # <<>>
  BY NamesRead
<1>2. \A a \in Spelled(app) : a \in Seq(Symbol) /\ a # <<>>
  BY <1>1, Spelling
<1>3. CASE url \in LabelledEnvironment(app, profiles)
  <2>1. PICK a \in Spelled(app) : url = <<a, profiles, Label>>
    BY <1>3, Zenon DEF LabelledEnvironment
  <2> DEFINE S == Symbol \cup {"label"}
  <2>2. \A s \in Seq(Symbol) : s \in Seq(S)
    <3> HIDE DEF S
    <3>1. Symbol \subseteq S
      BY DEF S
    <3>2. ASSUME NEW s \in Seq(Symbol) PROVE s \in Seq(S)
      <4>1. s \in [1..Len(s) -> S] /\ Len(s) \in Nat
        BY <3>1
      <4> QED BY <4>1, Function
    <3> QED BY <3>2
  <2>3. Label \in Seq(S) /\ Label # <<>>
    BY DEF Label
  <2> HIDE DEF S
  <2>4. a \in Seq(S) /\ a # <<>> /\ profiles \in Seq(S)
    BY <1>1, <1>2, <2>2
  <2>5. Handler("GET", <<a, profiles, Label>>) = "FindOne"
    BY <1>1, <2>3, <2>4, LabelledRoute
  <2>6. url[1] = a /\ url[2] = profiles /\ Handler("GET", url) = "FindOne"
    BY <1>0, <2>1, <2>5, Zenon
  <2> QED BY <2>6, EnvironmentAnswers
<1>4. CASE ~ Shadowed(app, profiles) /\ url \in Environment(app, profiles)
  <2>1. PICK a \in Spelled(app) : url = <<a, profiles>>
    BY <1>4, Zenon DEF Environment
  <2>2. <<a, profiles>> \notin FixedPairs
    BY <1>1, <1>4, NotFixed
  <2>3. \A i \in 1..4 : ~ IsSuffix(<<".", Extensions[i]>>, profiles)
    BY <1>4, Zenon DEF Shadowed
  <2>4. Handler("GET", <<a, profiles>>) = "FindOne"
    BY <1>1, <1>2, <2>2, <2>3, EnvironmentRoute
  <2>5. url[1] = a /\ url[2] = profiles /\ Handler("GET", url) = "FindOne"
    BY <1>0, <2>1, <2>4, Zenon
  <2> QED BY <2>5, EnvironmentAnswers
<1>5. CASE "-" \notin Range(profiles) /\ url \in Files(app, profiles)
  <2>1. PICK a \in Spelled(app), i \in {j \in 1..4 : ~ HasExtension(profiles, j)} :
            url \in {<<FileName(a, profiles, i)>>, <<Label, FileName(a, profiles, i)>>}
    <3> DEFINE names == {FileName(a, profiles, i) : a \in Spelled(app),
                             i \in {j \in 1..4 : ~ HasExtension(profiles, j)}}
    <3>1. PICK name \in names : url \in {<<name>>, <<Label, name>>}
      <4>1. url \in {<<name>> : name \in names} \cup {<<Label, name>> : name \in names}
        BY <1>5 DEF Files
      <4> HIDE DEF names
      <4> QED BY <4>1
    <3> QED BY <3>1
  <2> DEFINE file == FileName(a, profiles, i)
  <2>2. /\ SegmentMatches(File(i), file) /\ Len(file) # 1
        /\ SubSeq(file, 1, Len(file) - 2) = Stem(a, profiles)
    BY <1>1, <2>1, NamesRead, FileNameMatches
  <2> HIDE DEF file
  <2>3. Handler("GET", <<file>>) = "FindFile" /\ Handler("GET", <<Label, file>>) = "FindFile"
    BY <2>1, <2>2, FileRoute, LabelledFileRoute
  <2>4. url[Len(url)] = file /\ Handler("GET", url) = "FindFile"
    <3>1. url = <<file>> \/ url = <<Label, file>>
      BY <2>1 DEF file
    <3>2. <<file>>[Len(<<file>>)] = file /\ <<Label, file>>[Len(<<Label, file>>)] = file
      OBVIOUS
    <3> QED BY <2>3, <3>1, <3>2, Zenon
  <2> QED BY <1>5, <2>2, <2>4, FileAnswers
<1> QED BY <1>3, <1>4, <1>5, Zenon DEF Urls

(* What clients stored comes back under every URL of the application and   *)
(* the profiles, the handlers behind the routes and their parsing of names *)
(* and extensions: whatever the names hold that ReadableNames allows, and  *)
(* however much is stored.                                                 *)
THEOREM UrlsReadBack ==
    ASSUME ReadableNames
    PROVE  Spec => []ReadsBack
<1>1. Stores => ReadsBack
  BY UrlAnswers DEF ReadsBack
<1> QED BY <1>1, StoreInductive, PTL

-----------------------------------------------------------------------------
(* The keys of a merge. *)

LEMMA EmptyMap ==
    ASSUME NEW f, f = [x \in DOMAIN f |-> f[x]], DOMAIN f = {}
    PROVE  f = <<>>
<1>1. f \in [1..0 -> {}]
  <2>1. 1..0 = {}
    BY SMT
  <2> QED BY <2>1
<1>2. f \in Seq({}) /\ Len(f) = 0
  BY <1>1, Function
<1> QED BY <1>2

(* The fold over the profiles defines a function: the largest position that *)
(* holds a key decides, or else the global properties do.                  *)
LEMMA LoadsExist ==
    ASSUME NEW app, NEW s, NEW n \in Nat, DOMAIN s = 1..n
    PROVE  \E f : Loads(f, app, s)
<1> DEFINE B == AsMap(ConsulGlobal, Default)
           A(i) == AsMap(app, s[i])
           Has(t, key) == {i \in t : key \in DOMAIN A(i)}
           K(t) == DOMAIN B \cup UNION {DOMAIN A(i) : i \in t}
           V(t, key) == IF Has(t, key) = {} THEN B[key] ELSE A(Max(Has(t, key)))[key]
           g(t) == [key \in K(t) |-> V(t, key)]
           f == [t \in SUBSET (1..n) |-> g(t)]
<1>1. B = [key \in DOMAIN B |-> B[key]]
  BY DEF AsMap
<1> HIDE DEF A, B
<1>2. g({}) = B
  <2>1. K({}) = DOMAIN B /\ \A key : Has({}, key) = {}
    OBVIOUS
  <2> HIDE DEF K, Has
  <2> QED BY <1>1, <2>1
<1>3. ASSUME NEW t \in SUBSET (1..n), t # {}
      PROVE  g(t) = Over(A(Max(t)), g(t \ {Max(t)}))
  <2> DEFINE m == Max(t)
             r == t \ {m}
  <2>1. m \in t /\ \A y \in t : m >= y
    BY <1>3, LargestPosition
  <2> HIDE DEF m
  <2>2. K(t) = DOMAIN A(m) \cup K(r)
    BY <2>1
  <2>3. ASSUME NEW key, key \in DOMAIN A(m)
        PROVE  V(t, key) = A(m)[key]
    <3> DEFINE h == Has(t, key)
    <3>1. m \in h /\ h \in SUBSET (1..n) /\ \A y \in h : m >= y
      BY <2>1, <2>3
    <3> HIDE DEF h
    <3>2. Max(h) \in h /\ Max(h) >= m
      BY <3>1, LargestPosition
    <3>3. Max(h) = m
      <4>1. m >= Max(h) /\ m \in 1..n /\ Max(h) \in 1..n
        BY <3>1, <3>2
      <4> QED BY <3>2, <4>1
    <3> QED BY <3>1, <3>3 DEF h
  <2>4. ASSUME NEW key, key \notin DOMAIN A(m)
        PROVE  V(t, key) = V(r, key)
    <3>1. Has(t, key) = Has(r, key)
      BY <2>4
    <3> HIDE DEF Has
    <3> QED BY <3>1
  <2> HIDE DEF K, V
  <2>5. \A key \in K(t) : V(t, key) = IF key \in DOMAIN A(m) THEN A(m)[key] ELSE g(r)[key]
    BY <2>2, <2>3, <2>4
  <2>6. g(t) = [key \in DOMAIN A(m) \cup K(r) |->
                   IF key \in DOMAIN A(m) THEN A(m)[key] ELSE g(r)[key]]
    <3> HIDE DEF r
    <3> QED BY <2>2, <2>5
  <2>7. DOMAIN g(r) = K(r)
    OBVIOUS
  <2> HIDE DEF g, r
  <2>8. g(t) = Over(A(m), g(r))
    BY <2>6, <2>7, Zenon DEF Over
  <2> QED BY <2>8 DEF m, r
<1> HIDE DEF g
<1>4. ASSUME NEW t \in SUBSET DOMAIN s
      PROVE  f[t] = IF t = {} THEN B ELSE Over(A(Max(t)), f[t \ {Max(t)}])
  <2>1. t \in SUBSET (1..n) /\ t \ {Max(t)} \in SUBSET (1..n)
    OBVIOUS
  <2>2. f[t] = g(t) /\ f[t \ {Max(t)}] = g(t \ {Max(t)})
    BY <2>1
  <2> HIDE DEF f
  <2> QED BY <1>2, <1>3, <2>1, <2>2
<1>5. f = [t \in SUBSET DOMAIN s |-> f[t]]
  OBVIOUS
<1> HIDE DEF f
<1>6. f = [t \in SUBSET DOMAIN s |-> IF t = {} THEN B ELSE Over(A(Max(t)), f[t \ {Max(t)}])]
  BY <1>4, <1>5, Zenon
<1>7. Loads(f, app, s)
  BY <1>6, Zenon DEF Loads, A, B
<1> QED BY <1>7

(* What a read of a list answers are the keys of its profiles and the      *)
(* global ones.                                                            *)
LEMMA MergedKeys ==
    ASSUME NEW app, NEW s, NEW n \in Nat, DOMAIN s = 1..n
    PROVE  LET merged == LoadMergedProperties(app, s)
           IN  /\ merged = [key \in DOMAIN merged |-> merged[key]]
               /\ DOMAIN merged = DOMAIN AsMap(ConsulGlobal, Default)
                                      \cup UNION {DOMAIN AsMap(app, s[i]) : i \in 1..n}
<1> DEFINE B == AsMap(ConsulGlobal, Default)
           A(i) == AsMap(app, s[i])
           K(t) == DOMAIN B \cup UNION {DOMAIN A(i) : i \in t}
           f == CHOOSE g : Loads(g, app, s)
           IsMapOf(m, k) == DOMAIN m = k /\ m = [key \in DOMAIN m |-> m[key]]
<1>1. LoadMergedProperties(app, s) = f[1..n]
  <2>1. LoadMergedProperties(app, s) = (CHOOSE g : Loads(g, app, s))[DOMAIN s]
    BY Zenon DEF LoadMergedProperties, FoldLeft, MapThenFoldSet, Loads
  <2> QED BY <2>1, Zenon
<1>2. Loads(f, app, s)
  <2>1. \E g : Loads(g, app, s)
    BY LoadsExist
  <2> QED BY <2>1
<1> HIDE DEF f
<1>3. f = [t \in SUBSET DOMAIN s |-> IF t = {} THEN B ELSE Over(A(Max(t)), f[t \ {Max(t)}])]
  BY <1>2, Zenon DEF Loads
<1>4. IsMapOf(B, DOMAIN B)
  BY DEF AsMap
<1> HIDE DEF A, B
<1>5. \A t \in SUBSET (1..n) : f[t] = IF t = {} THEN B ELSE Over(A(Max(t)), f[t \ {Max(t)}])
  BY <1>3
<1> DEFINE bad == {k \in 0..n : ~ IsMapOf(f[1..k], K(1..k))}
<1>6. bad = {}
  <2> SUFFICES ASSUME bad # {} PROVE FALSE
    OBVIOUS
  <2>1. PICK k \in bad : \A j \in bad : k <= j
    <3>1. bad \subseteq Nat
      OBVIOUS
    <3> HIDE DEF bad
    <3> QED BY <3>1, LeastNumber
  <2>2. k # 0
    <3>1. 1..0 = {} /\ {} \in SUBSET (1..n)
      OBVIOUS
    <3>2. f[1..0] = B /\ K(1..0) = DOMAIN B
      BY <1>5, <3>1
    <3> HIDE DEF K
    <3> QED BY <1>4, <3>2
  <2>3. k \in 1..n /\ k - 1 \in 0..n /\ ~ (k <= k - 1)
    BY <2>2
  <2>4. IsMapOf(f[1..(k-1)], K(1..(k-1)))
    <3>1. k - 1 \notin bad
      <4> HIDE DEF bad
      <4> QED BY <2>1, <2>3
    <3> HIDE DEF IsMapOf
    <3> QED BY <2>3, <3>1
  <2> DEFINE t == 1..k
  <2>5. /\ t \in SUBSET (1..n) /\ t # {} /\ t \ {k} = 1..(k-1)
        /\ k \in t /\ \A y \in t : k >= y
    <3>1. k \in Nat /\ 1 <= k /\ k <= n
      BY <2>3
    <3> HIDE DEF bad
    <3>2. t \in SUBSET (1..n) /\ k \in t /\ \A y \in t : k >= y
      BY <3>1
    <3>3. t \ {k} = 1..(k-1)
      BY <3>1
    <3> QED BY <3>2, <3>3
  <2>6. Max(t) = k
    <3> HIDE DEF t
    <3>1. Max(t) \in t /\ Max(t) >= k
      BY <2>5, LargestPosition
    <3>2. Max(t) \in 1..n /\ k >= Max(t) /\ k \in 1..n
      BY <2>5, <3>1
    <3> QED BY <3>1, <3>2
  <2>7. K(t) = DOMAIN A(k) \cup K(t \ {k})
    <3>1. t = (t \ {k}) \cup {k}
      BY <2>5
    <3> HIDE DEF t
    <3>2. UNION {DOMAIN A(i) : i \in t} = DOMAIN A(k) \cup UNION {DOMAIN A(i) : i \in t \ {k}}
      BY <3>1
    <3> QED BY <3>2
  <2> DEFINE old == f[1..(k-1)]
  <2>8. f[t] = Over(A(k), old)
    <3> HIDE DEF t
    <3> QED BY <1>5, <2>5, <2>6
  <2>9. IsMapOf(f[t], K(t))
    <3>1. DOMAIN old = K(t \ {k})
      BY <2>4, <2>5
    <3> HIDE DEF t, old, K
    <3>2. DOMAIN Over(A(k), old) = DOMAIN A(k) \cup DOMAIN old
      BY DEF Over
    <3>3. Over(A(k), old) = [x \in DOMAIN Over(A(k), old) |-> Over(A(k), old)[x]]
      BY DEF Over
    <3> QED BY <2>7, <2>8, <3>1, <3>2, <3>3
  <2> HIDE DEF IsMapOf, K
  <2> QED BY <2>9
<1>7. IsMapOf(f[1..n], K(1..n))
  <2>1. n \in 0..n
    OBVIOUS
  <2> HIDE DEF IsMapOf, K
  <2> QED BY <1>6, <2>1
<1> HIDE DEF f
<1> QED BY <1>1, <1>7 DEF A, B

-----------------------------------------------------------------------------
(* Which handler reads. *)

(* A handler is that of a route of its method that matches the path.       *)
LEMMA HandlerRoute ==
    ASSUME NEW path
    PROVE  \/ Handler("GET", path) \in {"MethodNotAllowed", "NotFound"}
           \/ \E n \in 1..16 : /\ RouteMatches(Routes[n], path)
                               /\ Handler("GET", path) = Routes[n].handler
<1> DEFINE Test(r) == r.method = "GET" /\ RouteMatches(r, path)
           I == {i \in 1..Len(Routes) : Test(Routes[i])}
           found == SelectInSeq(Routes, LAMBDA r : r.method = "GET" /\ RouteMatches(r, path))
<1>1. Handler("GET", path) = IF found # 0 THEN Routes[found].handler
                             ELSE IF \E r \in Range(Routes) : RouteMatches(r, path)
                             THEN "MethodNotAllowed" ELSE "NotFound"
  BY DEF Handler, found
<1>2. I # {} => found = Min(I)
  BY DEF SelectInSeq
<1>3. I = {} => found = 0
  BY DEF SelectInSeq
<1> HIDE DEF found
<1>4. CASE I = {}
  BY <1>1, <1>3, <1>4
<1>5. CASE I # {}
  <2>1. \A i \in I : i \in 1..19 /\ Test(Routes[i])
    BY RouteTable
  <2>2. I \subseteq Nat
    BY <2>1
  <2> HIDE DEF I
  <2>3. PICK m \in I : \A i \in I : m <= i
    BY <1>5, <2>2, LeastNumber
  <2>4. Min(I) \in I
    <3>1. m \in I /\ \A i \in I : m <= i
      BY <2>3
    <3> QED BY <3>1, Zenon DEF Min
  <2>5. found \in 1..19 /\ Test(Routes[found]) /\ found # 0
    BY <1>2, <1>5, <2>1, <2>4
  <2>6. found \in 1..16
    <3>1. /\ \A i \in 1..3 : Routes[16 + i] = WriteRoutes[i]
          /\ \A i \in 1..3 : WriteRoutes[i].method # "GET"
      <4>1. \A i \in 1..3 : WriteRoutes[i].method # "GET"
        BY DEF WriteRoutes
      <4> QED BY <4>1, RouteTable
    <3>2. SUFFICES ASSUME found \notin 1..16 PROVE FALSE
      OBVIOUS
    <3>3. found - 16 \in 1..3 /\ 16 + (found - 16) = found
      BY <2>5, <3>2
    <3>4. Routes[found].method # "GET"
      BY <3>1, <3>3
    <3> QED BY <2>5, <3>4
  <2>7. Handler("GET", path) = Routes[found].handler
    BY <1>1, <2>5
  <2> QED BY <2>5, <2>6, <2>7
<1> QED BY <1>4, <1>5

(* The listing has one segment, a file at most two.                        *)
LEMMA HandlerLengths ==
    ASSUME NEW path
    PROVE  /\ Handler("GET", path) = "GetApplicationsAndProfiles" => Len(path) = 1
           /\ Handler("GET", path) = "FindFile" => Len(path) # 3
<1> DEFINE handler == Handler("GET", path)
<1>1. CASE handler \in {"MethodNotAllowed", "NotFound"}
  BY <1>1
<1>2. CASE \E n \in 1..16 : RouteMatches(Routes[n], path) /\ handler = Routes[n].handler
  <2>1. PICK n \in 1..16 : RouteMatches(Routes[n], path) /\ handler = Routes[n].handler
    BY <1>2
  <2> HIDE DEF handler
  <2>2. Len(Routes[n].path) = Len(path)
    BY <2>1 DEF RouteMatches
  <2>3. CASE n \in 1..6
    <3>1. Routes[n] = OtherRoutes[n]
      BY <2>3, RouteTable
    <3>2. \A i \in 1..6 : /\ OtherRoutes[i].handler # "FindFile"
                          /\ i # 6 => OtherRoutes[i].handler # "GetApplicationsAndProfiles"
      BY DEF OtherRoutes, Get
    <3>3. Len(OtherRoutes[6].path) = 1
      <4>1. OtherRoutes[6].path = <<<<"applications">>>>
        BY DEF OtherRoutes, Get
      <4> QED BY <4>1
    <3> QED BY <2>1, <2>2, <2>3, <3>1, <3>2, <3>3 DEF handler
  <2>4. CASE n \in 7..14
    <3>1. LabelledFile(Routes[n]) \/ PlainFile(Routes[n])
      <4>1. n \in 7..10 \/ n \in 11..14
        BY <2>4
      <4> QED BY <4>1, RouteKinds, Zenon
    <3>2. Routes[n].handler = "FindFile"
      BY <3>1, Zenon DEF LabelledFile, PlainFile
    <3>3. Len(Routes[n].path) = 1 \/ Len(Routes[n].path) = 2
      BY <3>1, KindLengths
    <3>4. /\ 1 # 3 /\ 2 # 3 /\ "FindFile" # "GetApplicationsAndProfiles"
          /\ Len(path) = 1 \/ Len(path) = 2
      BY <2>2, <3>3
    <3> QED BY <2>1, <3>2, <3>4, Zenon DEF handler
  <2>5. CASE n \in 15..16
    <3>1. n = 15 \/ n = 16
      BY <2>5
    <3>2. Routes[n].handler = "FindOne"
      BY <3>1, RouteKinds, Zenon DEF ReadsPair, ReadsLabelled
    <3> QED BY <2>1, <3>2 DEF handler
  <2>6. n \in 1..6 \/ n \in 7..14 \/ n \in 15..16
    OBVIOUS
  <2> QED BY <2>3, <2>4, <2>5, <2>6 DEF handler
<1> QED BY <1>1, <1>2, HandlerRoute

-----------------------------------------------------------------------------
(* What a URL reads. *)

(* The handler of the URL loads the properties of texts it names.          *)
LoadsNamed(url) ==
    \E n \in Named(url) :
        n[1] \in Seq(Symbol) /\ n[2] \in Seq(Symbol) /\ Load(n[1], n[2]).body # <<>>

LEMMA OtherAnswers ==
    ASSUME NEW url, Answer(url).body # <<>>
    PROVE  Handler("GET", url) \in {"FindOne", "FindFile", "GetApplicationsAndProfiles"}
<1> DEFINE handler == Handler("GET", url)
<1>1. SUFFICES ASSUME handler \notin {"FindOne", "FindFile", "GetApplicationsAndProfiles"} PROVE FALSE
  OBVIOUS
<1>2. Answer(url) = IF handler \in {"Probe", "Swagger"} THEN Ok(<<>>) ELSE Error(handler)
  BY <1>1 DEF Answer
<1>3. Ok(<<>>).body = <<>> /\ \A e : Error(e).body = <<>>
  BY DEF Ok, Error
<1> QED BY <1>2, <1>3

LEMMA PairLoads ==
    ASSUME NEW url, url[1] \in Seq(Symbol), url[2] \in Seq(Symbol),
           Handler("GET", url) = "FindOne", Answer(url).body # <<>>
    PROVE  LoadsNamed(url)
<1> DEFINE x == GetFiberParam(url[1])
           y == GetFiberParam(url[2])
<1>1. x \in Seq(Symbol) /\ y \in Seq(Symbol)
  BY Separators, ReplaceAllText DEF GetFiberParam
<1>2. Answer(url) = Load(x, y)
  BY Zenon DEF Answer, FindOne
<1>3. Named(url) = {<<x, y>>}
  BY Zenon DEF Named
<1> HIDE DEF x, y
<1>4. <<x, y>> \in Named(url) /\ <<x, y>>[1] = x /\ <<x, y>>[2] = y
  BY <1>3
<1> QED BY <1>1, <1>2, <1>4, Zenon DEF LoadsNamed

(* Where a name can be split, both parts are texts.                        *)
LEMMA SplitNames ==
    ASSUME NEW name \in Seq(Symbol), CanSplit(name)
    PROVE  ApplicationOf(name) \in Seq(Symbol) /\ ProfilesOf(name) \in Seq(Symbol)
<1> DEFINE I == {i \in 1..Len(name) : name[i] = "-"}
           last == LastDash(name)
<1>1. last = IF I # {} THEN Max(I) ELSE 0
  BY Zenon DEF LastDash, SelectLastInSeq
<1>2. Len(name) \in Nat /\ I \in SUBSET (1..Len(name))
  OBVIOUS
<1>3. last > 1 /\ last < Len(name)
  BY DEF CanSplit
<1> HIDE DEF I, last
<1>4. last \in Nat
  <2>1. I # {} => Max(I) \in I
    BY <1>2, LargestPosition
  <2>2. I # {} => Max(I) \in 1..Len(name)
    BY <1>2, <2>1
  <2> QED BY <1>1, <2>2
<1>5. SubSeq(name, 1, last - 1) \in Seq(Symbol) /\ SubSeq(name, last + 1, Len(name)) \in Seq(Symbol)
  BY <1>2, <1>3, <1>4
<1> QED BY <1>5 DEF ApplicationOf, ProfilesOf, last

LEMMA FileLoads ==
    ASSUME NEW url, NEW file, url[Len(url)] = file, SubSeq(file, 1, Len(file) - 2) \in Seq(Symbol),
           Handler("GET", url) = "FindFile", Answer(url).body # <<>>
    PROVE  LoadsNamed(url)
<1> DEFINE stem == SubSeq(file, 1, Len(file) - 2)
           name == GetFiberParam(stem)
           x == ApplicationOf(name)
           y == ProfilesOf(name)
<1>1. name \in Seq(Symbol)
  <2> HIDE DEF stem
  <2> QED BY Separators, ReplaceAllText DEF GetFiberParam, stem
<1>2. "FindFile" # "FindOne"
  OBVIOUS
<1>3. Answer(url) = FindFile(url)
  BY <1>2, Zenon DEF Answer
<1>4. FindFile(url) = IF CanSplit(name) THEN Load(x, y) ELSE Error("NotFound")
  BY Zenon DEF FindFile
<1>5. Named(url) = IF CanSplit(name) THEN {<<x, y>>} ELSE {}
  BY <1>2, Zenon DEF Named
<1> HIDE DEF name
<1>6. CanSplit(name)
  <2>1. Error("NotFound").body = <<>>
    BY DEF Error
  <2> QED BY <1>3, <1>4, <2>1
<1>7. x \in Seq(Symbol) /\ y \in Seq(Symbol)
  BY <1>1, <1>6, SplitNames
<1> HIDE DEF x, y
<1>8. <<x, y>> \in Named(url) /\ <<x, y>>[1] = x /\ <<x, y>>[2] = y
  BY <1>5, <1>6
<1>9. Answer(url) = Load(x, y)
  BY <1>3, <1>4, <1>6
<1> QED BY <1>7, <1>8, <1>9, Zenon DEF LoadsNamed

(* The names of every URL. *)
LEMMA NamesOfUrls ==
    ASSUME ReadableNames, NEW app \in Applications,
           NEW profiles \in ProfileList \cup {t[2] : t \in Target}
    PROVE  /\ app \in Seq(Symbol) /\ app # <<>> /\ \A i \in 1..4 : ~ HasExtension(app, i)
           /\ profiles \in Seq(Symbol) /\ Lacks("%2F", profiles)
<1>1. app \in Seq(Symbol)
  BY PathsAssumption DEF Applications
<1>2. app # <<>> /\ \A i \in 1..4 : ~ HasExtension(app, i)
  BY Zenon DEF ReadableNames
<1>3. CASE profiles \in ProfileList
  BY <1>1, <1>2, <1>3, NamesRead
<1>4. CASE \E t \in Target : profiles = t[2]
  <2>1. PICK t \in Target : profiles = t[2]
    BY <1>4
  <2>2. t[2] \in Seq(Symbol) /\ "%2F" \notin Range(t[2])
    BY PathsAssumption, NamesAssumption
  <2> QED BY <1>1, <1>2, <2>1, <2>2 DEF Lacks, Range
<1> QED BY <1>3, <1>4

(* A URL with properties in its answer loads those of texts it names: none *)
(* is that of the listing.                                                 *)
LEMMA UrlLoads ==
    ASSUME ReadableNames, NEW url \in EveryUrl, Answer(url).body # <<>>
    PROVE  LoadsNamed(url)
<1>0. /\ \A a, b : <<a, b>>[1] = a /\ <<a, b>>[2] = b /\ Len(<<a, b>>) = 2
      /\ \A a, b, c : <<a, b, c>>[1] = a /\ <<a, b, c>>[2] = b /\ Len(<<a, b, c>>) = 3
      /\ \A a : <<a>>[1] = a /\ Len(<<a>>) = 1
  OBVIOUS
<1>1. PICK app \in Applications, profiles \in ProfileList \cup {t[2] : t \in Target} :
          \/ url \in LabelledEnvironment(app, profiles)
          \/ url \in Environment(app, profiles)
          \/ url \in Files(app, profiles)
  BY DEF EveryUrl
<1>2. /\ app \in Seq(Symbol) /\ app # <<>> /\ \A i \in 1..4 : ~ HasExtension(app, i)
      /\ profiles \in Seq(Symbol) /\ Lacks("%2F", profiles)
  BY <1>1, NamesOfUrls
<1>3. \A a \in Spelled(app) : a \in Seq(Symbol)
  BY <1>2, Spelling
<1>4. Handler("GET", url) \in {"FindOne", "FindFile", "GetApplicationsAndProfiles"}
  BY OtherAnswers
<1>5. CASE url \in LabelledEnvironment(app, profiles)
  <2>1. PICK a \in Spelled(app) : url = <<a, profiles, Label>>
    BY <1>5, Zenon DEF LabelledEnvironment
  <2>2. url[1] = a /\ url[2] = profiles /\ Len(url) = 3
    BY <1>0, <2>1, Zenon
  <2>3. 3 # 1
    OBVIOUS
  <2>4. Handler("GET", url) = "FindOne"
    BY <1>4, <2>2, <2>3, HandlerLengths, Zenon
  <2> QED BY <1>2, <1>3, <2>2, <2>4, PairLoads
<1>6. CASE url \in Environment(app, profiles)
  <2>1. PICK a \in Spelled(app) : url = <<a, profiles>>
    BY <1>6, Zenon DEF Environment
  <2>2. url[1] = a /\ url[2] = profiles /\ Len(url) = 2
    BY <1>0, <2>1, Zenon
  <2>3. 2 # 1
    OBVIOUS
  <2>4. CASE Handler("GET", url) = "FindOne"
    BY <1>2, <1>3, <2>2, <2>4, PairLoads
  <2>5. CASE Handler("GET", url) = "FindFile"
    <3>1. SubSeq(profiles, 1, Len(profiles) - 2) \in Seq(Symbol)
      BY <1>2
    <3>2. url[Len(url)] = profiles
      BY <2>2
    <3> QED BY <2>5, <3>1, <3>2, FileLoads
  <2> QED BY <1>4, <2>2, <2>3, <2>4, <2>5, HandlerLengths, Zenon
<1>7. CASE url \in Files(app, profiles)
  <2>1. PICK a \in Spelled(app), i \in {j \in 1..4 : ~ HasExtension(profiles, j)} :
            url \in {<<FileName(a, profiles, i)>>, <<Label, FileName(a, profiles, i)>>}
    <3> DEFINE names == {FileName(a, profiles, i) : a \in Spelled(app),
                             i \in {j \in 1..4 : ~ HasExtension(profiles, j)}}
    <3>1. PICK name \in names : url \in {<<name>>, <<Label, name>>}
      <4>1. url \in {<<name>> : name \in names} \cup {<<Label, name>> : name \in names}
        BY <1>7 DEF Files
      <4> HIDE DEF names
      <4> QED BY <4>1
    <3> QED BY <3>1
  <2> DEFINE file == FileName(a, profiles, i)
  <2>2. /\ SegmentMatches(File(i), file) /\ Len(file) # 1
        /\ SubSeq(file, 1, Len(file) - 2) = Stem(a, profiles)
    BY <1>2, <2>1, FileNameMatches
  <2>3. Stem(a, profiles) \in Seq(Symbol)
    BY <1>2, <1>3, StemDecoded
  <2> HIDE DEF file
  <2>4. Handler("GET", <<file>>) = "FindFile" /\ Handler("GET", <<Label, file>>) = "FindFile"
    BY <2>1, <2>2, FileRoute, LabelledFileRoute
  <2>5. url[Len(url)] = file /\ Handler("GET", url) = "FindFile"
    <3>1. url = <<file>> \/ url = <<Label, file>>
      BY <2>1 DEF file
    <3>2. <<file>>[Len(<<file>>)] = file /\ <<Label, file>>[Len(<<Label, file>>)] = file
      OBVIOUS
    <3> QED BY <2>4, <3>1, <3>2, Zenon
  <2> QED BY <2>2, <2>3, <2>5, FileLoads
<1> QED BY <1>1, <1>5, <1>6, <1>7

-----------------------------------------------------------------------------
(* What a read finds, and what it cannot. *)

(* A property a read finds is one that was written, and no directory.      *)
LEMMA MapFinds ==
    ASSUME Stores, NEW app, NEW profile, DOMAIN AsMap(app, profile) # {}
    PROVE  \E w \in DOMAIN wrote : /\ IsPrefix(FormatKeyPrefix(app, profile), Path(w))
                                   /\ Path(w) # FormatKeyPrefix(app, profile)
<1> DEFINE prefix == FormatKeyPrefix(app, profile)
<1>1. DOMAIN AsMap(app, profile) = {f[1] : f \in Found(app, profile)}
  BY DEF AsMap
<1>2. Found(app, profile) # {}
  BY <1>1
<1>3. PICK p \in List(prefix) : p # prefix
  BY <1>2 DEF Found
<1> HIDE DEF prefix
<1>4. p \in DOMAIN kv /\ IsPrefix(prefix, p)
  BY <1>3 DEF List
<1>5. PICK w \in DOMAIN wrote : p = Path(w)
  BY <1>4 DEF Stores
<1> QED BY <1>3, <1>4, <1>5 DEF prefix

Reachable(w) == Readable(w[1]) /\ w[2] \in ProfileList /\ w[3] # <<>>

(* What a read finds under a name is a property of that name. *)
LEMMA FoundIsReachable ==
    ASSUME Stores, LosableNames, NEW t \in LookedAt, DOMAIN AsMap(t[1], t[2]) # {},
           Readable(t[1]), IsValidProfile(t[2])
    PROVE  \E w \in DOMAIN wrote : Reachable(w)
<1>1. PICK w \in DOMAIN wrote : /\ IsPrefix(FormatKeyPrefix(t[1], t[2]), Path(w))
                                /\ Path(w) # FormatKeyPrefix(t[1], t[2])
  BY MapFinds
<1> DEFINE u == <<w[1], w[2]>>
<1>2. w \in Properties
  BY DEF Stores
<1>3. u \in Target /\ w[3] \in PropertyKey /\ Path(w) = PathOf(u[1], u[2], w[3])
  BY <1>2, PropertyParts
<1>4. u[1] = w[1] /\ u[2] = w[2]
  OBVIOUS
<1> HIDE DEF u
<1>5. t = u
  BY <1>1, <1>3, Zenon DEF LosableNames
<1>6. w[3] # <<>>
  BY <1>1, <1>3, <1>5, PathParts
<1>7. w[2] \in ProfileList
  <2>1. IsValidProfile(u[2])
    BY <1>5
  <2> QED BY <1>3, <1>4, <2>1, Zenon DEF LosableNames
<1>8. Readable(w[1])
  BY <1>4, <1>5
<1> QED BY <1>6, <1>7, <1>8, Zenon DEF Reachable

(* Properties in an answer come from the global ones or from a profile of  *)
(* the list.                                                               *)
LEMMA LoadFinds ==
    ASSUME NEW x, NEW y \in Seq(Symbol), Load(x, y).body # <<>>
    PROVE  \/ DOMAIN AsMap(Global, Default) # {}
           \/ \E p \in Range(Split(y, ",")) :
                  IsValidProfile(p) /\ DOMAIN AsMap(ReplaceSlashPlaceholder(x), p) # {}
<1> DEFINE comma == ","
           s == Split(y, comma)
           app == ReplaceSlashPlaceholder(x)
           merged == LoadMergedProperties(app, s)
           n == Len(s)
<1>1. s \in Seq(Seq(Symbol)) /\ n \in Nat /\ DOMAIN s = 1..n
  <2>1. s \in Texts
    BY SplitTexts
  <2> HIDE DEF s
  <2> QED BY <2>1 DEF Texts
<1>2. \A p \in Range(s) : IsValidProfile(p)
  <2>1. ProfilesValid(y)
    <3>1. Error("BadRequest").body = <<>>
      BY DEF Error
    <3> QED BY <3>1, Zenon DEF Load
  <2> QED BY <2>1, Zenon DEF ProfilesValid
<1>3. merged # <<>>
  <2>1. ProfilesValid(y)
    <3>1. Error("BadRequest").body = <<>>
      BY DEF Error
    <3> QED BY <3>1, Zenon DEF Load
  <2>2. Load(x, y) = Ok(merged)
    BY <2>1, Zenon DEF Load
  <2> HIDE DEF merged
  <2>3. Ok(merged).body = merged
    BY DEF Ok
  <2> QED BY <2>2, <2>3
<1> HIDE DEF s, n, app
<1>4. /\ merged = [key \in DOMAIN merged |-> merged[key]]
      /\ DOMAIN merged = DOMAIN AsMap(ConsulGlobal, Default)
                             \cup UNION {DOMAIN AsMap(app, s[i]) : i \in 1..n}
  BY <1>1, MergedKeys
<1> HIDE DEF merged
<1>5. DOMAIN merged # {}
  BY <1>3, <1>4, EmptyMap
<1>6. CASE DOMAIN AsMap(ConsulGlobal, Default) # {}
  BY <1>6, GlobalMap
<1>7. CASE \E i \in 1..n : DOMAIN AsMap(app, s[i]) # {}
  <2>1. PICK i \in 1..n : DOMAIN AsMap(app, s[i]) # {}
    BY <1>7
  <2>2. s[i] \in Range(s)
    BY <1>1 DEF Range
  <2> QED BY <1>2, <2>1, <2>2, Zenon DEF app, s
<1> QED BY <1>4, <1>5, <1>6, <1>7

(* The names handlers look for are readable. *)
LEMMA LooksReadable ==
    ASSUME NEW x \in Seq(Symbol)
    PROVE  Readable(ReplaceSlashPlaceholder(x))
<1> DEFINE r == ReplaceSlashPlaceholder(x)
<1>1. DOMAIN r = DOMAIN x /\ \A i \in DOMAIN x : r[i] = IF x[i] = "(_)" THEN "/" ELSE x[i]
  <2>1. "/" \in Symbol /\ "(_)" \in Symbol
    BY Separators, OtherSymbols
  <2> QED BY <2>1, ReplaceAllText, ReplaceAllSymbol DEF ReplaceSlashPlaceholder
<1> HIDE DEF r
<1>2. \A i \in DOMAIN r : r[i] # "(_)"
  BY <1>1, OtherSymbols
<1>3. "(_)" \notin Range(r)
  BY <1>2 DEF Range
<1> QED BY <1>3 DEF Readable, r

LEMMA GlobalNames == Readable(Global) /\ IsValidProfile(Default)
<1>1. Range(Global) = {"global"}
  BY DEF Global, Range
<1>2. "global" # "(_)"
  BY Zenon
<1>3. /\ Default # <<>> /\ Len(Default) = 1 /\ DOMAIN Default = {1} /\ Default[1] = "default"
  BY DEF Default
<1>4. "default" \notin NotAlphanumeric
  BY DEF NotAlphanumeric
<1>5. IsValidProfile(Default)
  <2>1. 1..(Len(Default) - 1) = {}
    BY <1>3
  <2>2. \A i \in DOMAIN Default : Default[i] \notin NotAlphanumeric
    BY <1>3, <1>4
  <2> QED BY <1>3, <2>1, <2>2, Zenon DEF IsValidProfile
<1> QED BY <1>1, <1>2, <1>5 DEF Readable

(* If a URL answers with properties, a property of a good name was written. *)
LEMMA AnswersAreReachable ==
    ASSUME Stores, ReadableNames, LosableNames, NEW url \in EveryUrl, Answer(url).body # <<>>
    PROVE  \E w \in DOMAIN wrote : Reachable(w)
<1>1. PICK n \in Named(url) :
          n[1] \in Seq(Symbol) /\ n[2] \in Seq(Symbol) /\ Load(n[1], n[2]).body # <<>>
  BY UrlLoads DEF LoadsNamed
<1>2. CASE DOMAIN AsMap(Global, Default) # {}
  <2> DEFINE t == <<Global, Default>>
  <2>1. t \in LookedAt
    BY DEF LookedAt
  <2>2. t[1] = Global /\ t[2] = Default
    OBVIOUS
  <2> HIDE DEF t
  <2> QED BY <1>2, <2>1, <2>2, GlobalNames, FoundIsReachable
<1>3. CASE \E p \in Range(Split(n[2], ",")) :
               IsValidProfile(p) /\ DOMAIN AsMap(ReplaceSlashPlaceholder(n[1]), p) # {}
  <2>1. PICK p \in Range(Split(n[2], ",")) :
            IsValidProfile(p) /\ DOMAIN AsMap(ReplaceSlashPlaceholder(n[1]), p) # {}
    BY <1>3
  <2> DEFINE t == <<ReplaceSlashPlaceholder(n[1]), p>>
             all == UNION {Named(v) : v \in EveryUrl}
             of(m) == {<<ReplaceSlashPlaceholder(m[1]), q>> :
                          q \in {r \in Range(Split(m[2], ",")) : IsValidProfile(r)}}
  <2>2. t \in LookedAt
    <3>1. n \in all
      BY <1>1
    <3>2. t \in of(n)
      BY <2>1
    <3>3. LookedAt = {<<Global, Default>>} \cup UNION {of(m) : m \in all}
      BY Zenon DEF LookedAt
    <3> HIDE DEF of, all, t
    <3> QED BY <3>1, <3>2, <3>3
  <2>3. t[1] = ReplaceSlashPlaceholder(n[1]) /\ t[2] = p
    OBVIOUS
  <2> HIDE DEF t
  <2>4. Readable(t[1])
    BY <1>1, <2>3, LooksReadable
  <2> QED BY <2>1, <2>2, <2>3, <2>4, FoundIsReachable
<1> QED BY <1>1, <1>2, <1>3, LoadFinds

(* A valid profile is a list of itself. *)
LEMMA ValidAlone ==
    ASSUME NEW p \in Seq(Symbol), IsValidProfile(p)
    PROVE  Split(p, ",") = <<p>>
<1> DEFINE comma == ","
<1>1. comma \in NotAlphanumeric /\ comma \notin InnerProfileSymbols
  BY DEF NotAlphanumeric, InnerProfileSymbols
<1> HIDE DEF comma
<1>2. \A i \in DOMAIN p : p[i] # comma
  BY <1>1, Zenon DEF IsValidProfile
<1>3. Split(p, comma) = <<p>>
  BY <1>2, SplitNone DEF Lacks
<1> QED BY <1>3 DEF comma

(* A property of a good name comes back under the URL with a label. *)
LEMMA ReachableAnswers ==
    ASSUME Stores, ReadableNames, LosableNames, NEW w \in DOMAIN wrote, Reachable(w)
    PROVE  \E url \in EveryUrl : Answer(url).body # <<>>
<1> DEFINE app == w[1]
           profile == w[2]
           u == <<w[1], w[2]>>
           url == <<Escaped(app), profile, Label>>
<1>1. w \in Properties /\ Readable(app) /\ profile \in ProfileList /\ w[3] # <<>>
  BY DEF Stores, Reachable
<1>2. u \in Target /\ w[3] \in PropertyKey /\ w = <<app, profile, w[3]>>
  BY <1>1, PropertyParts
<1>3. u[1] = app /\ u[2] = profile
  OBVIOUS
<1> HIDE DEF u
<1>4. app \in Applications
  BY <1>2, <1>3 DEF Applications
<1>5. IsValidProfile(profile)
  BY <1>1, <1>2, <1>3, Zenon DEF LosableNames
<1>6. profile \in Seq(Symbol)
  BY <1>1, HttpAssumption
<1> DEFINE merged == LoadMergedProperties(app, Split(profile, ","))
<1>7. url \in LabelledEnvironment(app, profile)
  BY DEF LabelledEnvironment, Spelled
<1> HIDE DEF url
<1>8. url \in EveryUrl
  <2> DEFINE lists == ProfileList \cup {t[2] : t \in Target}
             forms(a, p) == LabelledEnvironment(a, p) \cup Environment(a, p) \cup Files(a, p)
  <2>1. EveryUrl = UNION {forms(a, p) : a \in Applications, p \in lists}
    BY DEF EveryUrl
  <2>2. url \in forms(app, profile)
    BY <1>7
  <2>3. profile \in lists
    BY <1>1
  <2> HIDE DEF forms, lists, app, profile
  <2> QED BY <1>4, <2>1, <2>2, <2>3
<1>9. url \in Urls(app, profile)
  BY <1>7, Zenon DEF Urls
<1>10. Answer(url) = Ok(merged)
  <2>1. Answer(url) = Ok(Expected(app, profile))
    BY <1>1, <1>4, <1>9, UrlAnswers
  <2>2. merged = Expected(app, profile)
    BY <1>1, <1>4, MergeIsExpected
  <2> QED BY <2>1, <2>2, Zenon
<1>11. w[3] \in DOMAIN AsMap(app, profile)
  <2>1. \A v \in Target, key \in PropertyKey :
            IsPrefix(FormatKeyPrefix(app, profile), PathOf(v[1], v[2], key)) => <<app, profile>> = v
    <3>1. u = <<app, profile>>
      BY DEF u
    <3> HIDE DEF app, profile
    <3> QED BY <1>2, <1>3, <3>1, NamesAssumption, Zenon
  <2>2. AsMap(app, profile) = Written(app, profile)
    BY <2>1, MapIsWritten
  <2>3. w[3] \in DOMAIN Written(app, profile)
    BY <1>1 DEF Written
  <2> QED BY <2>2, <2>3, Zenon
<1>12. w[3] \in DOMAIN merged
  <2> DEFINE s == Split(profile, ",")
  <2>1. s = <<profile>>
    BY <1>5, <1>6, ValidAlone, Zenon
  <2>2. DOMAIN s = 1..1 /\ s[1] = profile /\ 1 \in Nat /\ 1 \in 1..1
    <3> HIDE DEF s
    <3> QED BY <2>1
  <2> HIDE DEF s, app, profile
  <2>3. DOMAIN LoadMergedProperties(app, s)
            = DOMAIN AsMap(ConsulGlobal, Default) \cup UNION {DOMAIN AsMap(app, s[i]) : i \in 1..1}
    BY <2>2, MergedKeys
  <2>4. w[3] \in DOMAIN LoadMergedProperties(app, s)
    BY <1>11, <2>2, <2>3
  <2> QED BY <2>4, Zenon DEF s, merged
<1> HIDE DEF merged
<1>13. merged # <<>>
  <2>1. DOMAIN <<>> = {}
    OBVIOUS
  <2> QED BY <1>12, <2>1
<1>14. Ok(merged).body = merged
  BY DEF Ok
<1> QED BY <1>8, <1>10, <1>13, <1>14

(* A property is out of the reach of every URL exactly if its application  *)
(* contains "(_)", its profile is not a valid one, or its key is empty:    *)
(* AddProperties validates none of them, IsValidProfile and                *)
(* ReplaceSlashPlaceholder stand before every read.  Nothing else is lost, *)
(* and nothing lost shows up under another name, for any names             *)
(* ReadableNames and LosableNames allow.                                   *)
THEOREM LostNames ==
    ASSUME ReadableNames, LosableNames
    PROVE  Spec => []LostIffBadName
<1>1. Stores => LostIffBadName
  <2> SUFFICES ASSUME Stores PROVE LostIffBadName
    OBVIOUS
  <2>1. (\E url \in EveryUrl : Answer(url).body # <<>>) => \E w \in DOMAIN wrote : Reachable(w)
    BY AnswersAreReachable
  <2>2. (\E w \in DOMAIN wrote : Reachable(w)) => \E url \in EveryUrl : Answer(url).body # <<>>
    BY ReachableAnswers
  <2> QED BY <2>1, <2>2, Zenon DEF LostIffBadName, Reachable
<1> QED BY <1>1, StoreInductive, PTL

=============================================================================
