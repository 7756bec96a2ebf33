------------------------- MODULE MergedRead_proofs -------------------------
(***************************************************************************)
(* What an answer of MergedRead means, for any number of profiles, keys    *)
(* and values and requests of any length: each property in it, and each    *)
(* one missing from it, is explained by what the profiles held meanwhile.  *)
(***************************************************************************)
EXTENDS MergedRead, TLAPS

(* Explained for the profiles loaded so far, and the history never lags    *)
(* behind the store: with it one more profile keeps the explanation.       *)
Collected == status \in {"loading", "ok"} =>
                 \A k \in Key : Explained(k, merged[k], next - 1)

NotStarted == status = "parsing" => next = 1 /\ merged = [k \in Key |-> Absent]

Complete == status = "ok" => next = Len(sources) + 1

HistoryCurrent == \A d \in Profile, k \in Key : store[d][k] \in seen[d][k]

IInv == TypeOK /\ Collected /\ NotStarted /\ Complete /\ HistoryCurrent

-----------------------------------------------------------------------------
(* A request names at least the global profile. *)
LEMMA RequestsAreSequences ==
    ASSUME NEW s \in Requests
    PROVE  /\ s \in Seq(Profile \cup {Invalid})
           /\ Len(s) \in Nat
           /\ \A i \in 1 .. Len(s) : s[i] \in Profile \cup {Invalid}
<1>1. PICK n \in 2 .. MaxActive + 1 : s \in [1 .. n -> Profile \cup {Invalid}]
  BY DEF Requests
<1>2. n \in Nat
  BY <1>1, ReadAssumption
<1>3. s \in Seq(Profile \cup {Invalid})
  BY <1>1, <1>2
<1>4. Len(s) \in Nat
  BY <1>3
<1>. QED  BY <1>3, <1>4

(* A longer history explains whatever a shorter one did. *)
LEMMA HistoryGrows ==
    ASSUME TypeOK, status \in {"loading", "ok"}, sources' = sources,
           NEW k \in Key, NEW v, NEW n \in 0 .. Len(sources),
           \A d \in Profile : seen[d][k] \subseteq seen'[d][k],
           Explained(k, v, n)
    PROVE  Explained(k, v, n)'
<1>1. sources \in Seq(Profile)
  BY DEF TypeOK
<1>2. \A j \in 1 .. n : sources[j] \in Profile
  BY <1>1
<1>. QED  BY <1>2 DEF Explained

-----------------------------------------------------------------------------
LEMMA Initial == Init => IInv
<1>. SUFFICES ASSUME Init PROVE IInv
  OBVIOUS
<1>1. TypeOK
  <2>1. sources \in Requests
    BY DEF Init
  <2>2. next \in 1 .. Len(sources) + 1
    BY <2>1, RequestsAreSequences DEF Init
  <2>. QED  BY <2>1, <2>2 DEF Init, TypeOK, Contents
<1>2. HistoryCurrent
  BY DEF Init, HistoryCurrent
<1>. QED  BY <1>1, <1>2 DEF Init, IInv, Collected, NotStarted, Complete

LEMMA ParseStep == IInv /\ ParseProfiles => IInv'
<1>. SUFFICES ASSUME IInv, ParseProfiles PROVE IInv'
  OBVIOUS
<1>. USE DEF IInv, ParseProfiles
<1>1. CASE \E i \in DOMAIN sources : sources[i] = Invalid
  <2>1. status' = "rejected"
    BY <1>1
  <2>. QED
    BY <2>1 DEF TypeOK, Collected, NotStarted, Complete, HistoryCurrent
<1>2. CASE ~ \E i \in DOMAIN sources : sources[i] = Invalid
  <2>1. status' = "loading"
    BY <1>2
  <2>2. /\ sources \in Seq(Profile \cup {Invalid})
        /\ \A i \in 1 .. Len(sources) : sources[i] \in Profile \cup {Invalid}
    BY RequestsAreSequences DEF TypeOK
  <2>3. DOMAIN sources = 1 .. Len(sources)
    BY <2>2
  <2>4. sources \in Seq(Profile)
    BY <1>2, <2>2, <2>3
  <2>5. TypeOK'
    BY <2>1, <2>4 DEF TypeOK
  <2>6. Collected'
    BY <2>1 DEF Collected, NotStarted, Explained
  <2>. QED
    BY <2>1, <2>5, <2>6 DEF NotStarted, Complete, HistoryCurrent
<1>. QED  BY <1>1, <1>2

LEMMA LoadStep == IInv /\ LoadProfile => IInv'
<1>. SUFFICES ASSUME IInv, LoadProfile PROVE IInv'
  OBVIOUS
<1>. USE DEF IInv, LoadProfile
<1>1. sources \in Seq(Profile) /\ Len(sources) \in Nat
  BY DEF TypeOK
<1>2. next \in 1 .. Len(sources)
  BY <1>1 DEF TypeOK
<1>3. sources[next] \in Profile
  BY <1>1, <1>2
<1>4. store[sources[next]] \in Contents
  BY <1>3 DEF TypeOK
<1>5. TypeOK'
  <2>1. merged' \in Contents
    BY <1>4 DEF TypeOK, Override, Contents
  <2>2. next' \in 1 .. Len(sources') + 1
    BY <1>1, <1>2
  <2>. QED  BY <2>1, <2>2 DEF TypeOK
<1>6. Collected'
  <2>1. SUFFICES ASSUME NEW k \in Key
                 PROVE  Explained(k, merged[k], next - 1)'
    BY DEF Collected
  <2>2. Explained(k, merged[k], next - 1)
    BY DEF Collected
  <2>3. store[sources[next]][k] \in seen[sources[next]][k]
    BY <1>3 DEF HistoryCurrent
  <2>4. next' - 1 = next /\ next - 1 \in Nat
    BY <1>2
  <2>5. CASE store[sources[next]][k] # Absent
    <3>1. merged'[k] = store[sources[next]][k]
      BY <2>5 DEF Override
    <3>2. Explained(k, merged'[k], next)
      BY <1>2, <2>3, <2>5, <3>1 DEF Explained
    <3>. QED  BY <2>4, <3>2 DEF Explained
  <2>6. CASE store[sources[next]][k] = Absent
    <3>1. merged'[k] = merged[k]
      BY <2>6 DEF Override
    <3>2. Absent \in seen[sources[next]][k]
      BY <2>3, <2>6
    <3>3. Explained(k, merged[k], next)
      <4>1. \A j \in 1 .. next : j \in 1 .. next - 1 \/ j = next
        BY <1>2
      <4>2. CASE merged[k] = Absent /\ \A j \in 1 .. next - 1 :
                     Absent \in seen[sources[j]][k]
        BY <3>2, <4>1, <4>2 DEF Explained
      <4>3. CASE \E i \in 1 .. next - 1 :
                     /\ merged[k] # Absent /\ merged[k] \in seen[sources[i]][k]
                     /\ \A j \in i + 1 .. next - 1 : Absent \in seen[sources[j]][k]
        <5>1. PICK i \in 1 .. next - 1 :
                     /\ merged[k] # Absent /\ merged[k] \in seen[sources[i]][k]
                     /\ \A j \in i + 1 .. next - 1 : Absent \in seen[sources[j]][k]
          BY <4>3
        <5>2. i \in 1 .. next
          BY <1>2, <5>1
        <5>3. \A j \in i + 1 .. next : j \in i + 1 .. next - 1 \/ j = next
          BY <1>2, <5>1
        <5>. QED  BY <3>2, <5>1, <5>2, <5>3 DEF Explained
      <4>. QED  BY <2>2, <4>2, <4>3 DEF Explained
    <3>. QED  BY <2>4, <3>1, <3>3 DEF Explained
  <2>. QED  BY <2>5, <2>6
<1>. QED  BY <1>5, <1>6 DEF NotStarted, Complete, HistoryCurrent

LEMMA FailStep == IInv /\ LoadFails => IInv'
BY DEF IInv, LoadFails, TypeOK, Contents, Collected, NotStarted, Complete,
       HistoryCurrent

LEMMA RespondStep == IInv /\ Respond => IInv'
<1>. SUFFICES ASSUME IInv, Respond PROVE IInv'
  OBVIOUS
<1>. USE DEF IInv, Respond
<1>1. TypeOK'
  BY DEF TypeOK
<1>2. Collected'
  BY DEF Collected, Explained
<1>3. Len(sources) \in Nat
  BY RequestsAreSequences DEF TypeOK
<1>4. Complete'
  BY <1>3 DEF TypeOK, Complete
<1>. QED  BY <1>1, <1>2, <1>4 DEF NotStarted, HistoryCurrent

LEMMA OtherWriteStep ==
    ASSUME IInv, NEW d \in Profile, NEW new \in Contents, OtherWrite(d, new)
    PROVE  IInv'
<1>. USE DEF IInv, OtherWrite
<1>1. TypeOK'
  <2>1. store' \in [Profile -> Contents]
    BY DEF TypeOK
  <2>2. seen' \in [Profile -> [Key -> SUBSET (Value \cup {Absent})]]
    BY DEF TypeOK, Contents
  <2>. QED  BY <2>1, <2>2 DEF TypeOK
<1>2. \A e \in Profile, k \in Key : seen[e][k] \subseteq seen'[e][k]
  BY DEF TypeOK
<1>3. Collected'
  <2>1. SUFFICES ASSUME status = "loading", NEW k \in Key
                 PROVE  Explained(k, merged[k], next - 1)'
    BY DEF Collected
  <2>2. Explained(k, merged[k], next - 1)
    BY <2>1 DEF Collected
  <2>3. next - 1 \in 0 .. Len(sources)
    BY RequestsAreSequences DEF TypeOK
  <2>. QED  BY <1>2, <2>1, <2>2, <2>3, HistoryGrows
<1>4. HistoryCurrent'
  BY DEF TypeOK, HistoryCurrent, Contents
<1>. QED  BY <1>1, <1>3, <1>4 DEF NotStarted, Complete

LEMMA Inductive == IInv /\ [Next]_vars => IInv'
<1>. SUFFICES ASSUME IInv, [Next]_vars PROVE IInv'
  OBVIOUS
<1>1. CASE ParseProfiles
  BY <1>1, ParseStep
<1>2. CASE LoadProfile
  BY <1>2, LoadStep
<1>3. CASE LoadFails
  BY <1>3, FailStep
<1>4. CASE Respond
  BY <1>4, RespondStep
<1>5. ASSUME NEW d \in Profile, NEW new \in Contents, OtherWrite(d, new)
      PROVE  IInv'
  BY <1>5, OtherWriteStep
<1>6. CASE UNCHANGED vars
  BY <1>6 DEF vars, IInv, TypeOK, Collected, NotStarted, Complete,
              HistoryCurrent, Explained
<1>. QED  BY <1>1, <1>2, <1>3, <1>4, <1>5, <1>6 DEF Next, Load, Answered

-----------------------------------------------------------------------------
(* The variables have their types in every reachable state.                *)
THEOREM TypeCorrect == Spec => []TypeOK
<1>1. IInv => TypeOK
  BY DEF IInv
<1>. QED  BY <1>1, Initial, Inductive, PTL DEF Spec

(* An answer of loadMergedProperties is explained by what the profiles     *)
(* held while the request ran, for every number of profiles and writers.   *)
THEOREM AnswersAreExplained == Spec => []AnswerExplained
<1>1. IInv => AnswerExplained
  <2>. SUFFICES ASSUME IInv, status = "ok" PROVE AnswerExplained
    BY DEF AnswerExplained
  <2>1. next - 1 = Len(sources)
    BY RequestsAreSequences DEF IInv, TypeOK, Complete
  <2>. QED  BY <2>1 DEF IInv, Collected, AnswerExplained
<1>. QED  BY <1>1, Initial, Inductive, PTL DEF Spec

(* A key nobody touches during the request is answered exactly: with the   *)
(* value of the last profile that has it, or not at all.                   *)
THEOREM UntouchedKeysAreExact == Spec => []UntouchedIsExact
<1>1. TypeOK /\ AnswerExplained => UntouchedIsExact
  <2>. SUFFICES ASSUME TypeOK, AnswerExplained, status = "ok",
                       NEW k \in Key, Untouched(k)
                PROVE  LET having == {i \in 1 .. Len(sources) :
                                          store[sources[i]][k] # Absent}
                       IN  IF having = {}
                           THEN merged[k] = Absent
                           ELSE \E i \in having :
                                    /\ \A j \in having : j <= i
                                    /\ merged[k] = store[sources[i]][k]
    BY DEF UntouchedIsExact
  <2>. DEFINE having == {i \in 1 .. Len(sources) : store[sources[i]][k] # Absent}
  <2>1. Explained(k, merged[k], Len(sources))
    BY DEF AnswerExplained
  <2>2. \A i \in 1 .. Len(sources) :
            seen[sources[i]][k] = {store[sources[i]][k]}
    BY DEF Untouched
  <2>3. Len(sources) \in Nat
    BY RequestsAreSequences DEF TypeOK
  <2>4. CASE merged[k] = Absent /\ \A j \in 1 .. Len(sources) :
                 Absent \in seen[sources[j]][k]
    <3>1. having = {}
      BY <2>2, <2>4
    <3>. QED  BY <2>4, <3>1
  <2>5. CASE \E i \in 1 .. Len(sources) :
                 /\ merged[k] # Absent /\ merged[k] \in seen[sources[i]][k]
                 /\ \A j \in i + 1 .. Len(sources) : Absent \in seen[sources[j]][k]
    <3>1. PICK i \in 1 .. Len(sources) :
                 /\ merged[k] # Absent /\ merged[k] \in seen[sources[i]][k]
                 /\ \A j \in i + 1 .. Len(sources) : Absent \in seen[sources[j]][k]
      BY <2>5
    <3>2. merged[k] = store[sources[i]][k] /\ i \in having
      BY <2>2, <3>1
    <3>3. ASSUME NEW j \in having PROVE j <= i
      <4>1. CASE j \in i + 1 .. Len(sources)
        BY <2>2, <3>1, <4>1
      <4>. QED  BY <2>3, <4>1
    <3>. QED  BY <3>2, <3>3
  <2>. QED  BY <2>1, <2>4, <2>5 DEF Explained
<1>. QED  BY <1>1, TypeCorrect, AnswersAreExplained, PTL
=============================================================================
