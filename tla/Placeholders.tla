---------------------------- MODULE Placeholders ----------------------------
(***************************************************************************)
(* resolveProperties: the placeholders ${key} and ${key:default} in the    *)
(* values of an answer are replaced, property by property, and each        *)
(* resolved value goes back into the map that the next ones are resolved   *)
(* against.  The map is a Go map: the properties come in any order.        *)
(*                                                                         *)
(* A text is a sequence of words and the symbols "${", ":" and "}"; keys   *)
(* and values are texts.                                                   *)
(***************************************************************************)
EXTENDS Naturals, Sequences, FiniteSets

CONSTANT Answers   \* the answers to resolve: functions from keys to values

ASSUME AnswersAssumption ==
    \A m \in Answers :
        /\ IsFiniteSet(DOMAIN m)
        /\ \A k \in DOMAIN m : k \in Seq(STRING) /\ m[k] \in Seq(STRING)

VARIABLES original,    \* the merged properties
          properties,  \* the map while it is resolved
          left,        \* the keys the loop has not come to
          status       \* "resolving", then "ok" or "badRequest"

vars == <<original, properties, left, status>>

Init == /\ original \in Answers
        /\ properties = original
        /\ left = DOMAIN original
        /\ status = "resolving"

-----------------------------------------------------------------------------
(* The next position from i on that holds one of the symbols. *)
Following(v, i, symbols) ==
    LET at == {j \in i .. Len(v) : v[j] \in symbols}
    IN  IF at = {} THEN 0 ELSE CHOOSE j \in at : \A l \in at : j <= l

NoMatch == [to |-> 0]

(* placeholderRe at a "${" in position i: a key without ":" and "}", and a *)
(* default that ends at the first "}".  Either may contain "${".           *)
MatchAt(v, i) ==
    LET e == Following(v, i + 1, {":", "}"})
        c == Following(v, i + 1, {"}"})
    IN  IF e <= i + 1 \/ c = 0
        THEN NoMatch
        ELSE [to |-> c, key |-> SubSeq(v, i + 1, e - 1),
              hasDefault |-> v[e] = ":", default |-> SubSeq(v, e + 1, c - 1)]

Starts(v) == {i \in 1 .. Len(v) : v[i] = "${" /\ MatchAt(v, i).to # 0}

FirstMatch(v) == CHOOSE i \in Starts(v) : \A j \in Starts(v) : i <= j

Text(v) == [ok |-> TRUE, text |-> v]
Circular == [ok |-> FALSE, text |-> <<>>]

Joined(r, s) == IF r.ok /\ s.ok THEN Text(r.text \o s.text) ELSE Circular

(* Mutant: a key that was resolved once on the way counts as circular. *)
Replacement_AfterUse(resolve, m, whole, map, resolving) ==
    CASE m.key \in DOMAIN map /\ resolving # {} -> Circular
      [] m.key \in DOMAIN map /\ resolving = {} ->
             resolve[<<map[m.key], resolving \cup {m.key}>>]
      [] m.key \notin DOMAIN map /\ m.hasDefault -> resolve[<<m.default, resolving>>]
      [] OTHER -> Text(whole)

(* What stands in for one placeholder.  The default is resolved too; a     *)
(* placeholder without a property and without a default stays.             *)
Replacement(resolve, m, whole, map, resolving) ==
    CASE m.key \in resolving -> Circular
      [] m.key \in DOMAIN map /\ m.key \notin resolving ->
             resolve[<<map[m.key], resolving \cup {m.key}>>]
      [] m.key \notin DOMAIN map /\ m.hasDefault -> resolve[<<m.default, resolving>>]
      [] OTHER -> Text(whole)

(* The body of resolvePropertyValue, which calls itself as resolve. *)
ResolvePropertyValue(resolve, v, map, resolving) ==
    IF Starts(v) = {} THEN Text(v)
    ELSE LET i == FirstMatch(v)
             m == MatchAt(v, i)
             rest == SubSeq(v, m.to + 1, Len(v))
         IN  Joined(Text(SubSeq(v, 1, i - 1)),
                    Joined(Replacement(resolve, m, SubSeq(v, i, m.to), map, resolving),
                           resolve[<<rest, resolving>>]))

(* The set holds the keys that are being resolved: of them, a property of  *)
(* the map that is under way.                                              *)
Resolver(map) ==
    LET resolve[x \in Seq(STRING) \X SUBSET DOMAIN map] ==
            ResolvePropertyValue(resolve, x[1], map, x[2])
    IN  resolve

Resolve(v, map, resolving) == Resolver(map)[<<v, resolving>>]

(* Mutant: the values put in are not looked at again. *)
ResolveProperty_OneLevel(k) ==
    /\ status = "resolving" /\ k \in left
    /\ LET flat == [j \in DOMAIN properties |->
                       IF Starts(properties[j]) = {} THEN properties[j] ELSE <<>>]
           r == Resolve(properties[k], flat, {})
       IN  properties' = [properties EXCEPT ![k] = r.text]
    /\ left' = left \ {k}
    /\ UNCHANGED <<original, status>>

(* Mutant: a value that cannot be resolved is left as it is. *)
ResolveProperty_Lenient(k) ==
    /\ status = "resolving" /\ k \in left
    /\ LET r == Resolve(properties[k], properties, {})
       IN  properties' = [properties EXCEPT ![k] = IF r.ok THEN r.text ELSE @]
    /\ left' = left \ {k}
    /\ UNCHANGED <<original, status>>

(* One turn of the loop.  A circular reference ends it with 400; fresh     *)
(* resolving sets mean that the property's own key is not in them yet.     *)
ResolveProperty(k) ==
    /\ status = "resolving" /\ k \in left
    /\ LET r == Resolve(properties[k], properties, {})
       IN  IF r.ok
           THEN /\ properties' = [properties EXCEPT ![k] = r.text]
                /\ left' = left \ {k}
                /\ UNCHANGED status
           ELSE /\ status' = "badRequest"
                /\ UNCHANGED <<properties, left>>
    /\ UNCHANGED original

(* Mutant: the answer is sent before the loop has ended. *)
Respond_Early == /\ status = "resolving"
                 /\ status' = "ok"
                 /\ UNCHANGED <<original, properties, left>>

Respond == /\ status = "resolving" /\ left = {}
           /\ status' = "ok"
           /\ UNCHANGED <<original, properties, left>>

Answered == status # "resolving" /\ UNCHANGED vars

Next == (\E k \in left : ResolveProperty(k)) \/ Respond \/ Answered

Spec == Init /\ [][Next]_vars

-----------------------------------------------------------------------------
(* The keys never change, and an answer is sent only after the loop.        *)
TypeOK == /\ DOMAIN properties = DOMAIN original
          /\ \A k \in DOMAIN properties : properties[k] \in Seq(STRING)
          /\ left \subseteq DOMAIN original
          /\ status \in {"resolving", "ok", "badRequest"}
          /\ status = "ok" => left = {}

(* What the stored values alone make of the value of k. *)
Stored(k) == Resolve(original[k], original, {})

(* No placeholder of the text holds another, or lacks its end. *)
Plain(v) == \A i \in 1 .. Len(v) :
               v[i] = "${" => /\ MatchAt(v, i).to # 0
                              /\ \A j \in i + 1 .. MatchAt(v, i).to : v[j] # "${"

NothingNested == \A m \in Answers : \A k \in DOMAIN m : Plain(m[k])

(* The answer does not depend on the order of the map: every value is what *)
(* the stored values make of it, and the request fails exactly when one of *)
(* them cannot be resolved.  It needs NothingNested.                       *)
AnswerIgnoresOrder ==
    /\ status = "ok" => \A k \in DOMAIN original : properties[k] = Stored(k).text
    /\ status = "badRequest" => \E k \in DOMAIN original : ~ Stored(k).ok

(* "Nested placeholders such as ${a:${b}} ... Not resolved"                *)
(* (docs/06-replacing-config-server.md:133): every property of an answer   *)
(* is what its stored value makes of the other stored values, where the    *)
(* inner placeholder is never looked at.                                   *)
NestedNotResolved ==
    status = "ok" => \A k \in DOMAIN original :
                        Stored(k).ok => properties[k] = Stored(k).text

(* Nothing of a 200 could be resolved any further: no placeholder in it    *)
(* has a property to stand in for it, and none has a default.              *)
NothingLeftToResolve ==
    status = "ok" =>
        \A k \in DOMAIN properties : \A i \in Starts(properties[k]) :
            LET m == MatchAt(properties[k], i)
            IN  m.key \notin DOMAIN properties /\ ~ m.hasDefault

(* The properties a text refers to, and those that k refers to, directly   *)
(* or through others.                                                      *)
Refers(v) == {k \in DOMAIN original : \E i \in Starts(v) : MatchAt(v, i).key = k}

Closed(C) == \A j \in C : Refers(original[j]) \subseteq C

Reached(k) == {j \in DOMAIN original :
                  \A C \in SUBSET DOMAIN original :
                      Refers(original[k]) \subseteq C /\ Closed(C) => j \in C}

ReachesItself(k) == k \in Reached(k)

(* A request is refused exactly when some property refers to itself,       *)
(* directly or through others, whatever property the loop meets first and  *)
(* however many ways lead to the same one.                                 *)
RefusedIffCircular ==
    /\ status = "ok" => \A k \in DOMAIN original : ~ ReachesItself(k)
    /\ status = "badRequest" => \E k \in DOMAIN original : ReachesItself(k)
=============================================================================
