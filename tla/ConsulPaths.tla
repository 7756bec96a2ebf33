---------------------------- MODULE ConsulPaths ----------------------------
(***************************************************************************)
(* Where the properties lie in Consul: ConsulService turns an application, *)
(* a profile and a key into a path and back, reads a profile by listing a  *)
(* prefix, and finds the applications and profiles in the paths alone.     *)
(* Other profiles share the store, so the encoding is what keeps them      *)
(* apart.  HttpApi calls these operations.                                 *)
(*                                                                         *)
(* A text is a sequence of symbols.  "&sol" and "&ast" are the entities    *)
(* "&sol;" and "&ast;", one symbol each; the other escaped characters      *)
(* behave as "*" does.                                                     *)
(***************************************************************************)
EXTENDS Naturals, Sequences, SequencesExt

CONSTANTS Symbol,           \* the symbols of texts
          Target,           \* pairs of an application and a profile clients write to
          PropertyKey,      \* the keys they write
          Value,
          GlobalSpellings   \* the texts equal to "application" under EqualFold

Global == <<"global">>
ConsulGlobal == <<"application">>
Default == <<"default">>
Root == <<"config", "/", "ns", "/">>   \* consulConfigPrefix, the namespace

ASSUME PathsAssumption ==
    /\ {"config", "ns", "application", "default"} \subseteq Symbol
    /\ {"/", ".", ",", "*", "&sol", "&ast", "%2F"} \subseteq Symbol
    /\ Target \subseteq Seq(Symbol) \X Seq(Symbol)
    /\ PropertyKey \subseteq Seq(Symbol)
    /\ ConsulGlobal \in GlobalSpellings

VARIABLES kv,      \* Consul: the paths stored and their values
          wrote    \* history: what clients stored last and did not delete

vars == <<kv, wrote>>

Init == kv = <<>> /\ wrote = <<>>

-----------------------------------------------------------------------------
(* strings.Split with a separator of one symbol.                           *)
Split(s, separator) ==
    FoldLeft(LAMBDA parts, c : IF c = separator THEN Append(parts, <<>>)
                               ELSE [parts EXCEPT ![Len(parts)] = Append(@, c)],
             <<<<>>>>, s)

Escape(s) == ReplaceAll(ReplaceAll(s, "/", "&sol"), "*", "&ast")
Unescape(s) == ReplaceAll(ReplaceAll(s, "&sol", "/"), "&ast", "*")

(* Mutant: the paths of all namespaces are the same. *)
FormatKeyPrefix_NoNamespace(app, profile) ==
    <<"config", "/">> \o (IF app = Global THEN ConsulGlobal ELSE app)
         \o (IF profile = Default THEN <<>> ELSE <<",">> \o profile)
         \o <<"/">>

(* formatKeyPrefix: a directory of its own for each application and profile. *)
FormatKeyPrefix(app, profile) ==
    Root \o (IF app = Global THEN ConsulGlobal ELSE app)
         \o (IF profile = Default THEN <<>> ELSE <<",">> \o profile)
         \o <<"/">>

PathOf(app, profile, key) ==
    FormatKeyPrefix(app, profile) \o ReplaceAll(Escape(key), ".", "/")

(* The names the store can tell apart: keys without an entity, and no name *)
(* that is a directory of another, as "c" is of "c/d".  "%2F" only occurs  *)
(* in URLs.                                                                *)
ASSUME NamesAssumption ==
    /\ \A key \in PropertyKey : {"&sol", "&ast"} \cap Range(key) = {}
    /\ \A t \in Target : "%2F" \notin Range(t[1]) \cup Range(t[2])
    /\ \A t, u \in Target, key \in PropertyKey :
           IsPrefix(FormatKeyPrefix(t[1], t[2]), PathOf(u[1], u[2], key)) => t = u

(* toConfigProperties: the key of a listed path. *)
KeyOf(path, prefix) ==
    Unescape(ReplaceAll(SubSeq(path, Len(prefix) + 1, Len(path)), "/", "."))

List(prefix) == {p \in DOMAIN kv : IsPrefix(prefix, p)}

(* FindByApplicationAndProfile: keys and values; a path that is the prefix *)
(* itself, the one of the empty key, is skipped.                           *)
Found(app, profile) ==
    LET prefix == FormatKeyPrefix(app, profile)
    IN  {<<KeyOf(p, prefix), kv[p]>> : p \in List(prefix) \ {prefix}}

(* Mutant: the profile behind the comma is not looked at. *)
SplitAppNameAndProfile_Whole(s) == <<Split(s, ",")[1], Default>>

SplitAppNameAndProfile(s) ==
    LET parts == Split(s, ",")
    IN  <<parts[1], IF Len(parts) = 1 THEN Default ELSE parts[2]>>

(* groupPropertiesByApplication: the third part of every path, a raw name. *)
ListedNames == {Split(p, "/")[3] : p \in {q \in List(Root) : Len(Split(q, "/")) >= 3}}

(* The ConfigProfile of a raw name: its application and its profile.       *)
ConfigProfileOf(name) ==
    LET pair == SplitAppNameAndProfile(name)
    IN  <<IF pair[1] \in GlobalSpellings THEN Global ELSE pair[1], pair[2]>>

(* FindAll: one ConfigProfile for each raw name.  Those of two names can   *)
(* be equal.                                                               *)
Listed == [name \in ListedNames |-> ConfigProfileOf(name)]

-----------------------------------------------------------------------------
(* f @@ g, in a form proofs can expand. *)
Over(f, g) == [x \in DOMAIN f \cup DOMAIN g |-> IF x \in DOMAIN f THEN f[x] ELSE g[x]]

Without(f, gone) == [x \in DOMAIN f \ gone |-> f[x]]

(* AddProperties: properties is a function from keys to values. *)
Put(app, profile, properties) ==
    /\ kv' = Over([p \in {PathOf(app, profile, key) : key \in DOMAIN properties} |->
                      properties[CHOOSE key \in DOMAIN properties : PathOf(app, profile, key) = p]],
                  kv)
    /\ wrote' = Over([w \in {<<app, profile, key>> : key \in DOMAIN properties} |->
                         properties[w[3]]],
                     wrote)

DeleteKeys(app, profile, keys) ==
    /\ kv' = Without(kv, {PathOf(app, profile, key) : key \in keys})
    /\ wrote' = Without(wrote, {<<app, profile, key>> : key \in keys})

(* Mutant: the prefix of an application is deleted with its profiles. *)
DeleteTree_All(app, profile) ==
    /\ kv' = Without(kv, List(Front(FormatKeyPrefix(app, profile))))
    /\ wrote' = Without(wrote, {w \in DOMAIN wrote : w[1] = app /\ w[2] = profile})

DeleteTree(app, profile) ==
    /\ kv' = Without(kv, List(FormatKeyPrefix(app, profile)))
    /\ wrote' = Without(wrote, {w \in DOMAIN wrote : w[1] = app /\ w[2] = profile})

-----------------------------------------------------------------------------
(* Every stored path lies in the directory of the namespace.                *)
TypeOK == /\ \A p \in DOMAIN kv : IsPrefix(Root, p) /\ kv[p] \in Value
          /\ \A w \in DOMAIN wrote : /\ w \in {<<t[1], t[2], key>> : t \in Target, key \in PropertyKey}
                                     /\ wrote[w] \in Value

(* A read of any profile returns exactly what clients stored in it last    *)
(* and did not delete, under the keys and with the values they used:       *)
(* nothing of another application or profile, and nothing renamed.  Only   *)
(* the empty key, which clients may write, never comes back.               *)
ReadsWhatWasWritten ==
    \A t \in Target :
        Found(t[1], t[2]) =
            {<<w[3], wrote[w]>> : w \in {u \in DOMAIN wrote : /\ <<u[1], u[2]>> = t
                                                             /\ u[3] # <<>>}}
=============================================================================
