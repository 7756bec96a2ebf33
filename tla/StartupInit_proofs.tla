------------------------- MODULE StartupInit_proofs -------------------------
(***************************************************************************)
(* Safety of the startup initialization for any number of replicas and any *)
(* defaults.  The inductive invariant says, for every replica, which steps *)
(* are behind it (StepInv) and that between its read and its write what it *)
(* is about to write is missing or overtaken (RacedInv); the transactions  *)
(* of dead replicas obey the latter too (LateInv).                         *)
(***************************************************************************)
EXTENDS StartupInit, TLAPS

Done(s, r) == s # "baseline" =>
                 \A p \in Defaults[s] : store[p] # Absent \/ p \in deleted[r]

StepInv(r) ==
    /\ pc[r] = "fetching" => Steps[step[r]] = "baseline"
    /\ pc[r] \in Starting => \A i \in 1 .. step[r] - 1 : Done(Steps[i], r)
    /\ pc[r] = "reading" /\ Steps[step[r]] # "baseline"
          => todo[r] = Defaults[Steps[step[r]]]
    /\ pc[r] = "writing" /\ Steps[step[r]] # "baseline"
          => \A p \in Defaults[Steps[step[r]]] :
                p \in todo[r] \/ store[p] # Absent \/ p \in deleted[r]

RacedInv(r) == pc[r] = "writing" =>
                  \A p \in todo[r] : store[p] # Absent => p \in stored[r]

LateInv == \A t \in late : \A p \in t.todo : store[p] # Absent => p \in t.stored

IInv == /\ TypeOK
        /\ LateInv
        /\ \A r \in Replica : StepInv(r) /\ RacedInv(r)

-----------------------------------------------------------------------------
LEMMA StepsFacts == /\ Len(Steps) \in Nat \ {0}
                    /\ \A i \in 1 .. Len(Steps) : Steps[i] \in AllSteps
                    /\ Steps[1] # "baseline"
                    /\ \A s \in AllSteps \ {"baseline"} :
                          \E i \in 1 .. Len(Steps) : Steps[i] = s
<1>1. CASE BaselineProj
  <2>1. Steps = <<"global", "baseline", "tenant-manager", "dmp-tenant-activator">>
    BY <1>1 DEF Steps
  <2>2. /\ Len(Steps) = 4 /\ Steps[1] = "global" /\ Steps[2] = "baseline"
        /\ Steps[3] = "tenant-manager" /\ Steps[4] = "dmp-tenant-activator"
    BY <2>1
  <2> QED
    BY <2>2 DEF AllSteps
<1>2. CASE ~ BaselineProj
  <2>1. Steps = <<"global", "tenant-manager", "dmp-tenant-activator">>
    BY <1>2 DEF Steps
  <2>2. /\ Len(Steps) = 3 /\ Steps[1] = "global"
        /\ Steps[2] = "tenant-manager" /\ Steps[3] = "dmp-tenant-activator"
    BY <2>1
  <2> QED
    BY <2>2 DEF AllSteps
<1> QED
  BY <1>1, <1>2

(* Going to a step keeps the types of what it changes. *)
LEMMA GoToTypes ==
  ASSUME TypeOK, NEW r \in Replica, NEW n \in 1 .. Len(Steps) + 1, GoTo(r, n)
  PROVE  /\ pc' \in [Replica -> {"down", "fetching", "reading", "writing", "serving"}]
         /\ step' \in [Replica -> 1 .. Len(Steps)]
         /\ todo' \in [Replica -> SUBSET Path]
         /\ deleted' \in [Replica -> SUBSET Path]
         /\ pc'[r] # "writing"
         /\ \A q \in Replica \ {r} : /\ pc'[q] = pc[q] /\ step'[q] = step[q]
                                     /\ todo'[q] = todo[q] /\ deleted'[q] = deleted[q]
<1>1. PICK c \in {"fetching", "reading", "serving"}, m \in 1 .. Len(Steps),
           d \in SUBSET Path :
         /\ pc' = [pc EXCEPT ![r] = c]
         /\ step' = [step EXCEPT ![r] = m]
         /\ todo' = [todo EXCEPT ![r] = d]
  <2>1. CASE n > Len(Steps)
    <3>1. 1 \in 1 .. Len(Steps)
      BY StepsFacts
    <3> QED
      BY <2>1, <3>1 DEF GoTo
  <2>2. CASE ~ (n > Len(Steps))
    <3>1. n \in 1 .. Len(Steps) /\ Defaults[Steps[n]] \in SUBSET Path
      BY <2>2, StepsFacts, StartupAssumption
    <3>2. CASE Steps[n] = "baseline"
      BY <2>2, <3>1, <3>2 DEF GoTo
    <3>3. CASE Steps[n] # "baseline"
      BY <2>2, <3>1, <3>3 DEF GoTo
    <3> QED
      BY <3>2, <3>3
  <2> QED
    BY <2>1, <2>2
<1>2. deleted' = deleted \/ deleted' = [deleted EXCEPT ![r] = {}]
  BY DEF GoTo
<1> QED
  BY <1>1, <1>2 DEF TypeOK

(* Going to step n is right once all steps before it are done. *)
LEMMA GoToStepInv ==
  ASSUME TypeOK, NEW r \in Replica, NEW n \in 1 .. Len(Steps) + 1, GoTo(r, n),
         \A i \in 1 .. n - 1 : Steps[i] # "baseline" =>
            \A p \in Defaults[Steps[i]] : store'[p] # Absent \/ p \in deleted[r]
  PROVE  StepInv(r)'
<1> USE StepsFacts
<1>1. CASE n > Len(Steps)
  BY <1>1 DEF GoTo, TypeOK, StepInv, Starting
<1>2. CASE ~ (n > Len(Steps))
  <2>1. /\ step'[r] = n /\ todo'[r] = Defaults[Steps[n]] /\ deleted' = deleted
        /\ pc'[r] = IF Steps[n] = "baseline" THEN "fetching" ELSE "reading"
    BY <1>2 DEF GoTo, TypeOK
  <2> QED
    BY <2>1 DEF StepInv, Done, Starting
<1> QED
  BY <1>1, <1>2

(* A replica that does not move keeps its StepInv as long as nothing it    *)
(* relies on disappears unnoticed.                                         *)
LEMMA OthersStepInv ==
  ASSUME TypeOK, NEW q \in Replica, StepInv(q),
         pc'[q] = pc[q], step'[q] = step[q], todo'[q] = todo[q],
         pc[q] \in Starting => deleted[q] \subseteq deleted'[q],
         pc[q] \in Starting =>
            \A p \in Path : store[p] # Absent => store'[p] # Absent \/ p \in deleted'[q]
  PROVE  StepInv(q)'
<1> USE StartupAssumption, StepsFacts
<1>1. \A i \in 1 .. Len(Steps) : Defaults[Steps[i]] \subseteq Path
  OBVIOUS
<1>2. step[q] \in 1 .. Len(Steps)
  BY DEF TypeOK
<1>3. \A i \in 1 .. step[q] - 1 : i \in 1 .. Len(Steps)
  BY <1>2
<1>4. CASE pc[q] \in Starting
  <2>1. ASSUME NEW i \in 1 .. step[q] - 1 PROVE Done(Steps[i], q)'
    <3>1. Done(Steps[i], q) /\ i \in 1 .. Len(Steps)
      BY <1>3, <1>4 DEF StepInv
    <3> QED
      BY <1>1, <1>4, <3>1 DEF Done
  <2>2. ASSUME pc[q] = "writing", Steps[step[q]] # "baseline",
               NEW p \in Defaults[Steps[step[q]]]
        PROVE  p \in todo[q] \/ store'[p] # Absent \/ p \in deleted'[q]
    <3>1. p \in Path
      BY <1>1, <1>2
    <3> QED
      BY <1>4, <2>2, <3>1 DEF StepInv
  <2> QED
    BY <2>1, <2>2 DEF StepInv
<1>5. CASE pc[q] \notin Starting
  BY <1>5 DEF StepInv, Starting
<1> QED
  BY <1>4, <1>5

(* A replica between its read and its write is told of what is stored. *)
LEMMA NoteStoredRaced ==
  ASSUME TypeOK, NEW q \in Replica, RacedInv(q),
         NEW over, NEW ps, NoteStored(over, ps), q \notin over,
         pc'[q] = pc[q], todo'[q] = todo[q],
         \A p \in Path \ ps : store'[p] # Absent => store[p] # Absent
  PROVE  RacedInv(q)'
<1>1. pc[q] = "writing" => stored'[q] = stored[q] \cup (ps \cap todo[q])
  BY DEF NoteStored
<1>2. todo[q] \subseteq Path
  BY DEF TypeOK
<1> QED
  BY <1>1, <1>2 DEF RacedInv

LEMMA NoteStoredType ==
  ASSUME TypeOK, NEW over, NEW ps, NoteStored(over, ps)
  PROVE  stored' \in [Replica -> SUBSET Path]
<1> SUFFICES ASSUME NEW q \in Replica
             PROVE  (IF q \notin over /\ pc[q] = "writing"
                     THEN stored[q] \cup (ps \cap todo[q]) ELSE {}) \subseteq Path
  BY DEF NoteStored
<1> QED
  BY DEF TypeOK

(* So is a transaction under way. *)
LEMMA OvertakeLateInv ==
  ASSUME TypeOK, LateInv, NEW txns \in SUBSET late, NEW ps,
         late' = OvertakeLate(txns, ps),
         \A p \in Path \ ps : store'[p] # Absent => store[p] # Absent
  PROVE  /\ LateInv'
         /\ late' \subseteq [from : Replica, todo : SUBSET Path, stored : SUBSET Path]
<1> SUFFICES ASSUME NEW u \in late'
             PROVE  /\ \A p \in u.todo : store'[p] # Absent => p \in u.stored
                    /\ u \in [from : Replica, todo : SUBSET Path, stored : SUBSET Path]
  BY DEF LateInv
<1>1. PICK t \in txns : u = [t EXCEPT !.stored = @ \cup (ps \cap t.todo)]
  BY DEF OvertakeLate
<1>2. t \in late /\ t \in [from : Replica, todo : SUBSET Path, stored : SUBSET Path]
  BY DEF TypeOK
<1>3. /\ u \in [from : Replica, todo : SUBSET Path, stored : SUBSET Path]
      /\ u.todo = t.todo /\ u.stored = t.stored \cup (ps \cap t.todo)
  BY <1>1, <1>2
<1> QED
  BY <1>2, <1>3 DEF LateInv

(* A transaction fills its paths and changes no other. *)
LEMMA FillFacts ==
  ASSUME TypeOK, NEW ps \in SUBSET Path, NEW r \in Replica, store' = Fill(ps, r)
  PROVE  /\ store' \in [Path -> Replica \cup ClientValue \cup {Absent}]
         /\ \A p \in ps : store'[p] # Absent
         /\ \A p \in Path \ ps : store'[p] = store[p]
BY StartupAssumption DEF TypeOK, Fill
-----------------------------------------------------------------------------
LEMMA InitIInv == Init => IInv
<1> SUFFICES ASSUME Init PROVE IInv
  OBVIOUS
<1> USE StartupAssumption, StepsFacts
<1>1. TypeOK
  BY DEF Init, TypeOK
<1>2. LateInv /\ \A r \in Replica : StepInv(r) /\ RacedInv(r)
  BY DEF Init, LateInv, StepInv, RacedInv, Starting
<1> QED
  BY <1>1, <1>2 DEF IInv

LEMMA StartKeepsIInv == ASSUME IInv, NEW r \in Replica, Start(r) PROVE IInv'
<1>1. GoTo(r, 1) /\ UNCHANGED <<store, consulUp, late, faults, stored>> /\ TypeOK
  BY DEF Start, IInv
<1>2. 1 \in 1 .. Len(Steps) + 1
  BY StepsFacts
<1>3. TypeOK'
  BY <1>1, <1>2, GoToTypes DEF TypeOK
<1>4. LateInv'
  BY <1>1 DEF IInv, LateInv
<1>5. StepInv(r)' /\ RacedInv(r)'
  BY <1>1, <1>2, GoToTypes, GoToStepInv DEF RacedInv
<1>6. ASSUME NEW q \in Replica \ {r} PROVE StepInv(q)' /\ RacedInv(q)'
  BY <1>1, <1>2, GoToTypes, OthersStepInv DEF IInv, RacedInv
<1> QED
  BY <1>3, <1>4, <1>5, <1>6 DEF IInv

(* The steps before the current one are done, in terms of the next state. *)
LEMMA StepsBehind ==
  ASSUME TypeOK, NEW r \in Replica, StepInv(r), pc[r] \in Starting,
         \A p \in Path : store[p] # Absent => store'[p] # Absent,
         Steps[step[r]] # "baseline" =>
            \A p \in Defaults[Steps[step[r]]] : store'[p] # Absent \/ p \in deleted[r]
  PROVE  /\ step[r] + 1 \in 1 .. Len(Steps) + 1
         /\ \A i \in 1 .. (step[r] + 1) - 1 : Steps[i] # "baseline" =>
               \A p \in Defaults[Steps[i]] : store'[p] # Absent \/ p \in deleted[r]
<1>1. step[r] \in 1 .. Len(Steps) /\ Len(Steps) \in Nat
  BY StepsFacts DEF TypeOK
<1>2. \A i \in 1 .. Len(Steps) : Defaults[Steps[i]] \subseteq Path
  BY StepsFacts, StartupAssumption
<1>3. ASSUME NEW i \in 1 .. (step[r] + 1) - 1, Steps[i] # "baseline",
             NEW p \in Defaults[Steps[i]]
      PROVE  store'[p] # Absent \/ p \in deleted[r]
  <2>1. CASE i = step[r]
    BY <1>3, <2>1
  <2>2. CASE i # step[r]
    <3>1. i \in 1 .. step[r] - 1 /\ i \in 1 .. Len(Steps)
      BY <1>1, <2>2
    <3>2. store[p] # Absent \/ p \in deleted[r]
      BY <1>3, <3>1 DEF StepInv, Done
    <3> QED
      BY <1>2, <3>1, <3>2
  <2> QED
    BY <2>1, <2>2
<1> QED
  BY <1>1, <1>3

LEMMA FetchKeepsIInv == ASSUME IInv, NEW r \in Replica, FetchBaseline(r) PROVE IInv'
<1>1. /\ TypeOK /\ StepInv(r) /\ pc[r] = "fetching" /\ Steps[step[r]] = "baseline"
      /\ UNCHANGED <<store, consulUp, late, faults, stored>>
  BY DEF FetchBaseline, IInv, StepInv
<1>2. LateInv'
  BY <1>1 DEF IInv, LateInv
<1>3. CASE GoTo(r, step[r] + 1)
  <2>1. /\ step[r] + 1 \in 1 .. Len(Steps) + 1
        /\ \A i \in 1 .. (step[r] + 1) - 1 : Steps[i] # "baseline" =>
              \A p \in Defaults[Steps[i]] : store'[p] # Absent \/ p \in deleted[r]
    BY <1>1, StepsBehind DEF Starting
  <2>2. StepInv(r)' /\ RacedInv(r)'
    BY <1>1, <1>3, <2>1, GoToTypes, GoToStepInv DEF RacedInv
  <2>3. ASSUME NEW q \in Replica \ {r} PROVE StepInv(q)' /\ RacedInv(q)'
    BY <1>1, <1>3, <2>1, GoToTypes, OthersStepInv DEF IInv, RacedInv
  <2>4. TypeOK'
    BY <1>1, <1>3, <2>1, GoToTypes DEF TypeOK
  <2> QED
    BY <1>2, <2>2, <2>3, <2>4 DEF IInv
<1>4. CASE ~ GoTo(r, step[r] + 1)
  <2>1. PICK found \in SUBSET todo[r] :
          /\ pc' = [pc EXCEPT ![r] = "reading"]
          /\ todo' = [todo EXCEPT ![r] = found]
          /\ UNCHANGED <<step, deleted>>
    BY <1>4 DEF FetchBaseline
  <2>2. TypeOK'
    BY <1>1, <2>1 DEF TypeOK
  <2>3. StepInv(r)' /\ RacedInv(r)'
    BY <1>1, <2>1 DEF TypeOK, StepInv, RacedInv, Done, Starting
  <2>4. ASSUME NEW q \in Replica \ {r} PROVE StepInv(q)' /\ RacedInv(q)'
    BY <1>1, <2>1 DEF IInv, TypeOK, StepInv, RacedInv, Done
  <2> QED
    BY <1>2, <2>2, <2>3, <2>4 DEF IInv
<1> QED
  BY <1>3, <1>4

LEMMA ReadKeepsIInv == ASSUME IInv, NEW r \in Replica, ReadStored(r) PROVE IInv'
<1> DEFINE missing == {p \in todo[r] : store[p] = Absent}
<1>1. /\ TypeOK /\ StepInv(r) /\ pc[r] = "reading"
      /\ UNCHANGED <<store, consulUp, late, faults, stored>>
      /\ missing \subseteq todo[r]
  BY DEF ReadStored, IInv
<1>2. LateInv'
  BY <1>1 DEF IInv, LateInv
<1>3. CASE missing = {}
  <2>1. GoTo(r, step[r] + 1)
    BY <1>3 DEF ReadStored
  <2>2. /\ step[r] + 1 \in 1 .. Len(Steps) + 1
        /\ \A i \in 1 .. (step[r] + 1) - 1 : Steps[i] # "baseline" =>
              \A p \in Defaults[Steps[i]] : store'[p] # Absent \/ p \in deleted[r]
    <3>1. Steps[step[r]] # "baseline" =>
             \A p \in Defaults[Steps[step[r]]] : store'[p] # Absent \/ p \in deleted[r]
      BY <1>1, <1>3 DEF StepInv
    <3> QED
      BY <1>1, <3>1, StepsBehind DEF Starting
  <2>3. StepInv(r)' /\ RacedInv(r)'
    BY <1>1, <2>1, <2>2, GoToTypes, GoToStepInv DEF RacedInv
  <2>4. ASSUME NEW q \in Replica \ {r} PROVE StepInv(q)' /\ RacedInv(q)'
    BY <1>1, <2>1, <2>2, GoToTypes, OthersStepInv DEF IInv, RacedInv
  <2>5. TypeOK'
    BY <1>1, <2>1, <2>2, GoToTypes DEF TypeOK
  <2> QED
    BY <1>2, <2>3, <2>4, <2>5 DEF IInv
<1>4. CASE missing # {}
  <2>1. /\ pc' = [pc EXCEPT ![r] = "writing"]
        /\ todo' = [todo EXCEPT ![r] = missing]
        /\ UNCHANGED <<step, deleted>>
    BY <1>4 DEF ReadStored
  <2>2. TypeOK'
    BY <1>1, <2>1 DEF TypeOK
  <2>3. pc'[r] = "writing" /\ todo'[r] = missing
    BY <1>1, <2>1 DEF TypeOK
  <2>4. RacedInv(r)'
    BY <1>1, <2>3 DEF RacedInv
  <2>5. StepInv(r)'
    <3>1. \A i \in 1 .. step[r] - 1 : Done(Steps[i], r)'
      BY <1>1, <2>1 DEF StepInv, Done, Starting
    <3>2. Steps[step[r]] # "baseline" =>
             \A p \in Defaults[Steps[step[r]]] : p \in missing \/ store[p] # Absent
      BY <1>1 DEF StepInv
    <3> QED
      BY <1>1, <2>1, <2>3, <3>1, <3>2 DEF StepInv
  <2>6. ASSUME NEW q \in Replica \ {r} PROVE StepInv(q)' /\ RacedInv(q)'
    BY <1>1, <2>1 DEF IInv, TypeOK, StepInv, RacedInv, Done
  <2> QED
    BY <1>2, <2>2, <2>4, <2>5, <2>6 DEF IInv
<1> QED
  BY <1>3, <1>4

LEMMA AddMissingKeepsIInv == ASSUME IInv, NEW r \in Replica, AddMissing(r) PROVE IInv'
<1>1. /\ TypeOK /\ StepInv(r) /\ pc[r] = "writing" /\ todo[r] \in SUBSET Path
      /\ store' = Fill(todo[r], r) /\ GoTo(r, step[r] + 1)
      /\ NoteStored({r}, todo[r]) /\ late' = OvertakeLate(late, todo[r])
      /\ UNCHANGED <<consulUp, faults>>
  BY DEF AddMissing, IInv, TypeOK
<1>2. /\ store' \in [Path -> Replica \cup ClientValue \cup {Absent}]
      /\ \A p \in todo[r] : store'[p] # Absent
      /\ \A p \in Path \ todo[r] : store'[p] = store[p]
  BY <1>1, FillFacts
<1>3. \A p \in Path : store[p] # Absent => store'[p] # Absent
  BY <1>2
<1>4. /\ step[r] + 1 \in 1 .. Len(Steps) + 1
      /\ \A i \in 1 .. (step[r] + 1) - 1 : Steps[i] # "baseline" =>
            \A p \in Defaults[Steps[i]] : store'[p] # Absent \/ p \in deleted[r]
  <2>1. Defaults[Steps[step[r]]] \subseteq Path
    BY <1>1, StepsFacts, StartupAssumption DEF TypeOK
  <2>2. Steps[step[r]] # "baseline" =>
           \A p \in Defaults[Steps[step[r]]] : store'[p] # Absent \/ p \in deleted[r]
    BY <1>1, <1>2, <1>3, <2>1 DEF StepInv
  <2> QED
    BY <1>1, <1>3, <2>2, StepsBehind DEF Starting
<1>5. /\ LateInv'
      /\ late' \subseteq [from : Replica, todo : SUBSET Path, stored : SUBSET Path]
  BY <1>1, <1>2, OvertakeLateInv DEF IInv
<1>6. stored' \in [Replica -> SUBSET Path]
  BY <1>1, NoteStoredType
<1>7. TypeOK'
  BY <1>1, <1>2, <1>4, <1>5, <1>6, GoToTypes DEF TypeOK
<1>8. StepInv(r)' /\ RacedInv(r)'
  BY <1>1, <1>4, GoToTypes, GoToStepInv DEF RacedInv
<1>9. ASSUME NEW q \in Replica \ {r} PROVE StepInv(q)' /\ RacedInv(q)'
  <2>1. /\ pc'[q] = pc[q] /\ step'[q] = step[q]
        /\ todo'[q] = todo[q] /\ deleted'[q] = deleted[q]
    BY <1>1, <1>4, GoToTypes
  <2>2. StepInv(q)'
    BY <1>1, <1>3, <2>1, OthersStepInv DEF IInv
  <2>3. RacedInv(q)'
    BY <1>1, <1>2, <2>1, NoteStoredRaced DEF IInv
  <2> QED
    BY <2>2, <2>3
<1> QED
  BY <1>5, <1>7, <1>8, <1>9 DEF IInv

(* The end of a process leaves nothing to be said about it. *)
LEMMA GoDownFacts ==
  ASSUME TypeOK, NEW r \in Replica, GoDown(r)
  PROVE  /\ pc' \in [Replica -> {"down", "fetching", "reading", "writing", "serving"}]
         /\ step' \in [Replica -> 1 .. Len(Steps)]
         /\ todo' \in [Replica -> SUBSET Path]
         /\ deleted' \in [Replica -> SUBSET Path]
         /\ StepInv(r)' /\ RacedInv(r)'
         /\ \A q \in Replica \ {r} : /\ pc'[q] = pc[q] /\ step'[q] = step[q]
                                     /\ todo'[q] = todo[q] /\ deleted'[q] = deleted[q]
<1>1. 1 \in 1 .. Len(Steps)
  BY StepsFacts
<1>2. pc'[r] = "down"
  BY DEF GoDown, TypeOK
<1> QED
  BY <1>1, <1>2 DEF GoDown, TypeOK, StepInv, RacedInv, Starting

(* A process ends while its transaction, if any, fills ps. *)
LEMMA DownKeepsIInv ==
  ASSUME IInv, NEW r \in Replica, NEW ps \in SUBSET Path, GoDown(r),
         NoteStored({r}, ps),
         store' \in [Path -> Replica \cup ClientValue \cup {Absent}],
         \A p \in Path \ ps : store'[p] = store[p],
         \A p \in ps : store'[p] # Absent,
         LateInv',
         late' \subseteq [from : Replica, todo : SUBSET Path, stored : SUBSET Path],
         faults' \in 0 .. MaxFaults, UNCHANGED consulUp
  PROVE  IInv'
<1>1. TypeOK
  BY DEF IInv
<1>2. \A p \in Path : store[p] # Absent => store'[p] # Absent
  OBVIOUS
<1>3. TypeOK'
  BY <1>1, GoDownFacts, NoteStoredType DEF TypeOK
<1>4. ASSUME NEW q \in Replica \ {r} PROVE StepInv(q)' /\ RacedInv(q)'
  <2>1. /\ pc'[q] = pc[q] /\ step'[q] = step[q]
        /\ todo'[q] = todo[q] /\ deleted'[q] = deleted[q]
    BY <1>1, GoDownFacts
  <2>2. StepInv(q)'
    BY <1>1, <1>2, <2>1, OthersStepInv DEF IInv
  <2>3. RacedInv(q)'
    BY <1>1, <2>1, NoteStoredRaced DEF IInv
  <2> QED
    BY <2>2, <2>3
<1> QED
  BY <1>1, <1>3, <1>4, GoDownFacts DEF IInv

LEMMA PanicKeepsIInv == ASSUME IInv, NEW r \in Replica, Panic(r) PROVE IInv'
<1>1. /\ GoDown(r) /\ NoteStored({r}, {}) /\ {} \in SUBSET Path
      /\ UNCHANGED <<store, consulUp, late, faults>>
  BY DEF Panic
<1>2. LateInv'
  BY <1>1 DEF IInv, LateInv
<1> QED
  BY <1>1, <1>2, DownKeepsIInv DEF IInv, TypeOK

LEMMA DieKeepsIInv == ASSUME IInv, NEW r \in Replica, Die(r) PROVE IInv'
<1>1. /\ TypeOK /\ GoDown(r) /\ UNCHANGED consulUp /\ todo[r] \in SUBSET Path
      /\ {} \in SUBSET Path
  BY DEF Die, IInv, TypeOK
<1>2. faults' \in 0 .. MaxFaults
  BY <1>1, StartupAssumption DEF Die, TypeOK
<1>3. CASE NoteStored({r}, {}) /\ UNCHANGED <<store, late>>
  <2>1. LateInv'
    BY <1>3 DEF IInv, LateInv
  <2> QED
    BY <1>1, <1>2, <1>3, <2>1, DownKeepsIInv DEF TypeOK
<1>4. CASE /\ store' = Fill(todo[r], r) /\ NoteStored({r}, todo[r])
           /\ late' = OvertakeLate(late, todo[r])
  <2>1. /\ store' \in [Path -> Replica \cup ClientValue \cup {Absent}]
        /\ \A p \in todo[r] : store'[p] # Absent
        /\ \A p \in Path \ todo[r] : store'[p] = store[p]
    BY <1>1, <1>4, FillFacts
  <2>2. /\ LateInv'
        /\ late' \subseteq [from : Replica, todo : SUBSET Path, stored : SUBSET Path]
    BY <1>1, <1>4, <2>1, OvertakeLateInv DEF IInv
  <2> QED
    BY <1>1, <1>2, <1>4, <2>1, <2>2, DownKeepsIInv
<1>5. CASE /\ pc[r] = "writing"
           /\ late' = late \cup {[from |-> r, todo |-> todo[r], stored |-> stored[r]]}
           /\ NoteStored({r}, {}) /\ UNCHANGED store
  <2>1. LateInv'
    BY <1>5 DEF IInv, LateInv, RacedInv
  <2>2. late' \subseteq [from : Replica, todo : SUBSET Path, stored : SUBSET Path]
    BY <1>1, <1>5 DEF TypeOK
  <2> QED
    BY <1>1, <1>2, <1>5, <2>1, <2>2, DownKeepsIInv DEF TypeOK
<1> QED
  BY <1>3, <1>4, <1>5 DEF Die

(* Steps of the environment: a set of paths is stored and no replica moves. *)
LEMMA StoringKeepsIInv ==
  ASSUME IInv, NEW ps \in SUBSET Path, NEW txns \in SUBSET late,
         NoteStored({}, ps), late' = OvertakeLate(txns, ps),
         store' \in [Path -> Replica \cup ClientValue \cup {Absent}],
         \A p \in ps : store'[p] # Absent,
         \A p \in Path \ ps : store'[p] = store[p],
         UNCHANGED <<consulUp, pc, step, todo, faults, deleted>>
  PROVE  IInv'
<1>1. TypeOK
  BY DEF IInv
<1>2. \A p \in Path : store[p] # Absent => store'[p] # Absent
  OBVIOUS
<1>3. /\ LateInv'
      /\ late' \subseteq [from : Replica, todo : SUBSET Path, stored : SUBSET Path]
  BY <1>1, OvertakeLateInv DEF IInv
<1>4. TypeOK'
  BY <1>1, <1>3, NoteStoredType DEF TypeOK
<1>5. ASSUME NEW q \in Replica PROVE StepInv(q)' /\ RacedInv(q)'
  <2>1. StepInv(q)'
    BY <1>1, <1>2, OthersStepInv DEF IInv
  <2>2. RacedInv(q)'
    BY <1>1, NoteStoredRaced DEF IInv
  <2> QED
    BY <2>1, <2>2
<1> QED
  BY <1>3, <1>4, <1>5 DEF IInv

LEMMA LateTxnKeepsIInv == ASSUME IInv, NEW t \in late, LateTxn(t) PROVE IInv'
<1>1. /\ TypeOK /\ t.todo \in SUBSET Path /\ t.from \in Replica
      /\ UNCHANGED <<consulUp, pc, step, todo, faults, deleted>>
      /\ late \ {t} \in SUBSET late
  BY DEF LateTxn, IInv, TypeOK
<1>2. CASE /\ store' = Fill(t.todo, t.from) /\ NoteStored({}, t.todo)
           /\ late' = OvertakeLate(late \ {t}, t.todo)
  <2>1. /\ store' \in [Path -> Replica \cup ClientValue \cup {Absent}]
        /\ \A p \in t.todo : store'[p] # Absent
        /\ \A p \in Path \ t.todo : store'[p] = store[p]
    BY <1>1, <1>2, FillFacts
  <2> QED
    BY <1>1, <1>2, <2>1, StoringKeepsIInv
<1>3. CASE late' = late \ {t} /\ UNCHANGED <<store, stored>>
  BY <1>1, <1>3 DEF IInv, TypeOK, LateInv, StepInv, RacedInv, Done
<1> QED
  BY <1>2, <1>3 DEF LateTxn

LEMMA ClientPutKeepsIInv ==
  ASSUME IInv, NEW p \in Path, NEW v \in ClientValue, ClientPut(p, v) PROVE IInv'
<1>1. /\ TypeOK /\ store' = [store EXCEPT ![p] = v]
      /\ NoteStored({}, {p}) /\ late' = OvertakeLate(late, {p})
      /\ UNCHANGED <<consulUp, pc, step, todo, faults, deleted>>
      /\ {p} \in SUBSET Path /\ late \in SUBSET late
  BY DEF ClientPut, IInv
<1>2. /\ store' \in [Path -> Replica \cup ClientValue \cup {Absent}]
      /\ \A x \in {p} : store'[x] # Absent
      /\ \A x \in Path \ {p} : store'[x] = store[x]
  BY <1>1, StartupAssumption DEF TypeOK
<1> QED
  BY <1>1, <1>2, StoringKeepsIInv

LEMMA ClientDeleteKeepsIInv ==
  ASSUME IInv, NEW p \in Path, ClientDelete(p) PROVE IInv'
<1>1. /\ TypeOK /\ store' = [store EXCEPT ![p] = Absent]
      /\ deleted' = [q \in Replica |-> IF pc[q] \in Starting
                                       THEN deleted[q] \cup {p} ELSE {}]
      /\ UNCHANGED <<consulUp, pc, step, todo, late, faults, stored>>
  BY DEF ClientDelete, IInv
<1>2. \A q \in Replica : deleted'[q] \subseteq deleted[q] \cup {p}
  BY <1>1
<1>3. TypeOK'
  BY <1>1, <1>2 DEF TypeOK
<1>4. \A x \in Path : store'[x] # Absent => store[x] # Absent
  BY <1>1 DEF TypeOK
<1>5. LateInv'
  BY <1>1, <1>4 DEF IInv, LateInv, TypeOK
<1>6. ASSUME NEW q \in Replica PROVE StepInv(q)' /\ RacedInv(q)'
  <2>1. ASSUME pc[q] \in Starting
        PROVE  /\ deleted[q] \subseteq deleted'[q]
               /\ \A x \in Path : store[x] # Absent => store'[x] # Absent \/ x \in deleted'[q]
    BY <1>1, <2>1 DEF TypeOK
  <2>2. StepInv(q)'
    BY <1>1, <2>1, OthersStepInv DEF IInv
  <2>3. RacedInv(q)'
    BY <1>1, <1>4 DEF IInv, RacedInv, TypeOK
  <2> QED
    BY <2>2, <2>3
<1> QED
  BY <1>3, <1>5, <1>6 DEF IInv

LEMMA NextKeepsIInv == IInv /\ [Next]_vars => IInv'
<1> SUFFICES ASSUME IInv, [Next]_vars PROVE IInv'
  OBVIOUS
<1>1. ASSUME NEW r \in Replica, Start(r) PROVE IInv'
  BY <1>1, StartKeepsIInv
<1>2. ASSUME NEW r \in Replica, FetchBaseline(r) PROVE IInv'
  BY <1>2, FetchKeepsIInv
<1>3. ASSUME NEW r \in Replica, ReadStored(r) PROVE IInv'
  BY <1>3, ReadKeepsIInv
<1>4. ASSUME NEW r \in Replica, AddMissing(r) PROVE IInv'
  BY <1>4, AddMissingKeepsIInv
<1>5. ASSUME NEW r \in Replica, Panic(r) PROVE IInv'
  BY <1>5, PanicKeepsIInv
<1>6. ASSUME NEW r \in Replica, Die(r) PROVE IInv'
  BY <1>6, DieKeepsIInv
<1>7. ASSUME NEW t \in late, LateTxn(t) PROVE IInv'
  BY <1>7, LateTxnKeepsIInv
<1>8. ASSUME NEW p \in Path, ClientDelete(p) PROVE IInv'
  BY <1>8, ClientDeleteKeepsIInv
<1>9. ASSUME NEW p \in Path, NEW v \in ClientValue, ClientPut(p, v) PROVE IInv'
  BY <1>9, ClientPutKeepsIInv
<1>10. CASE ConsulChanges
  BY <1>10 DEF ConsulChanges, IInv, TypeOK, LateInv, StepInv, RacedInv, Done
<1>11. CASE UNCHANGED vars
  BY <1>11 DEF vars, IInv, TypeOK, LateInv, StepInv, RacedInv, Done
<1> QED
  BY <1>1, <1>2, <1>3, <1>4, <1>5, <1>6, <1>7, <1>8, <1>9, <1>10, <1>11
  DEF Next, Initialize

(* The inductive invariant holds in every reachable state. *)
THEOREM Inductive == Spec => []IInv
<1> QED
  BY InitIInv, NextKeepsIInv, PTL DEF Spec

(* Type correctness for any replicas, defaults and bounds. *)
THEOREM TypeCorrect == Spec => []TypeOK
<1>1. IInv => TypeOK
  BY DEF IInv
<1> QED
  BY <1>1, Inductive, PTL

-----------------------------------------------------------------------------
(* A replica begins to serve only after its last step, with all of them done. *)
LEMMA ServesWhenDone ==
  ASSUME IInv, NEW r \in Replica, Initialize(r), pc'[r] = "serving"
  PROVE  \A s \in AllSteps \ {"baseline"} : \A p \in Defaults[s] :
            store'[p] # Absent \/ p \in deleted[r]
<1>1. TypeOK /\ StepInv(r)
  BY DEF IInv
<1>2. /\ GoTo(r, step[r] + 1) /\ pc[r] \in Starting
      /\ \A p \in Path : store[p] # Absent => store'[p] # Absent
      /\ Steps[step[r]] # "baseline" =>
            \A p \in Defaults[Steps[step[r]]] : store'[p] # Absent \/ p \in deleted[r]
  <2>1. CASE FetchBaseline(r)
    BY <1>1, <2>1 DEF FetchBaseline, StepInv, Starting, TypeOK
  <2>2. CASE ReadStored(r)
    <3>1. {p \in todo[r] : store[p] = Absent} = {}
      BY <1>1, <2>2 DEF ReadStored, TypeOK
    <3>2. GoTo(r, step[r] + 1) /\ pc[r] = "reading" /\ store' = store
      BY <2>2, <3>1 DEF ReadStored
    <3> QED
      BY <1>1, <3>1, <3>2 DEF StepInv, Starting
  <2>3. CASE AddMissing(r)
    <3>1. /\ store' = Fill(todo[r], r) /\ GoTo(r, step[r] + 1) /\ pc[r] = "writing"
          /\ todo[r] \in SUBSET Path
      BY <1>1, <2>3 DEF AddMissing, TypeOK
    <3>2. /\ \A p \in todo[r] : store'[p] # Absent
          /\ \A p \in Path \ todo[r] : store'[p] = store[p]
      BY <1>1, <3>1, FillFacts
    <3>3. Defaults[Steps[step[r]]] \subseteq Path
      BY <1>1, StepsFacts, StartupAssumption DEF TypeOK
    <3> QED
      BY <1>1, <3>1, <3>2, <3>3 DEF StepInv, Starting
  <2>4. CASE Panic(r)
    BY <1>1, <2>4 DEF Panic, GoDown, TypeOK
  <2> QED
    BY <2>1, <2>2, <2>3, <2>4 DEF Initialize
<1>3. /\ step[r] + 1 \in 1 .. Len(Steps) + 1
      /\ \A i \in 1 .. (step[r] + 1) - 1 : Steps[i] # "baseline" =>
            \A p \in Defaults[Steps[i]] : store'[p] # Absent \/ p \in deleted[r]
  BY <1>1, <1>2, StepsBehind
<1>4. step[r] = Len(Steps)
  <2>1. step[r] + 1 > Len(Steps)
    BY <1>1, <1>2 DEF GoTo, TypeOK
  <2> QED
    BY <1>1, <2>1, StepsFacts DEF TypeOK
<1> QED
  BY <1>3, <1>4, StepsFacts

(* A replica that begins to serve finds its defaults in place, for any     *)
(* number of replicas, crashes and lost answers.                           *)
THEOREM ServingFindsDefaults == Spec => FilledAtStart
<1> DEFINE Filled == \A r \in Replica : pc[r] # "serving" /\ pc'[r] = "serving" =>
                        \A s \in AllSteps \ {"baseline"} : \A p \in Defaults[s] :
                           store'[p] # Absent \/ p \in deleted[r]
<1>1. IInv /\ [Next]_vars => [Filled]_vars
  <2> SUFFICES ASSUME IInv, Next, NEW r \in Replica,
                      pc[r] # "serving", pc'[r] = "serving"
               PROVE  Initialize(r)
    BY ServesWhenDone
  <2>1. TypeOK /\ 1 \in 1 .. Len(Steps) + 1 /\ ~ (1 > Len(Steps))
    BY StepsFacts DEF IInv
  <2>2. ASSUME NEW q \in Replica, Start(q) PROVE FALSE
    <3>1. pc'[q] \in {"fetching", "reading"}
      BY <2>1, <2>2 DEF Start, GoTo, TypeOK
    <3> QED
      BY <2>1, <2>2, <3>1, GoToTypes DEF Start
  <2>3. ASSUME NEW q \in Replica, Die(q) PROVE FALSE
    BY <2>1, <2>3, GoDownFacts DEF Die, GoDown, TypeOK
  <2>4. ASSUME NEW q \in Replica, Initialize(q), q # r PROVE FALSE
    <3>1. step[q] + 1 \in 1 .. Len(Steps) + 1
      BY <2>1, StepsFacts DEF TypeOK
    <3>2. pc'[r] = pc[r]
      BY <2>1, <2>4, <3>1, GoToTypes, GoDownFacts
      DEF Initialize, FetchBaseline, ReadStored, AddMissing, Panic, TypeOK
    <3> QED
      BY <3>2
  <2> QED
    BY <2>2, <2>3, <2>4 DEF Next, LateTxn, ClientDelete, ClientPut, ConsulChanges
<1>2. Spec => [][Filled]_vars
  BY <1>1, Inductive, PTL DEF Spec
<1> QED
  BY <1>2 DEF FilledAtStart

(* One step of the system and a default that replaces a value. *)
LEMMA OverwriteIsRaced ==
  ASSUME IInv, Next, NEW p \in Path,
         store'[p] \in Replica, store'[p] # store[p], store[p] # Absent
  PROVE  \/ p \in stored[store'[p]] /\ pc[store'[p]] = "writing"
         \/ \E t \in late : t.from = store'[p] /\ p \in t.todo \cap t.stored
<1> USE StartupAssumption
<1>1. ASSUME NEW r \in Replica, pc[r] = "writing", store' = Fill(todo[r], r)
      PROVE  p \in stored[store'[p]] /\ pc[store'[p]] = "writing"
  <2>1. p \in todo[r] /\ store'[p] = r
    BY <1>1 DEF Fill
  <2> QED
    BY <1>1, <2>1 DEF IInv, RacedInv
<1>2. ASSUME NEW t \in late, store' = Fill(t.todo, t.from)
      PROVE  t.from = store'[p] /\ p \in t.todo \cap t.stored
  <2>1. p \in t.todo /\ store'[p] = t.from
    BY <1>2 DEF Fill
  <2> QED
    BY <2>1 DEF IInv, LateInv
<1>3. ASSUME NEW x \in Path, NEW v \in ClientValue \cup {Absent},
             store' = [store EXCEPT ![x] = v]
      PROVE  FALSE
  BY <1>3 DEF IInv, TypeOK
<1>4. ASSUME NEW r \in Replica, Start(r) \/ Initialize(r) \/ Die(r)
      PROVE  store' = store \/ (pc[r] = "writing" /\ store' = Fill(todo[r], r))
  BY <1>4 DEF Start, Initialize, FetchBaseline, ReadStored, AddMissing, Panic, Die
<1>5. ASSUME NEW t \in late, LateTxn(t)
      PROVE  store' = store \/ store' = Fill(t.todo, t.from)
  BY <1>5 DEF LateTxn
<1>6. store' # store
  OBVIOUS
<1>7. CASE \E r \in Replica : Start(r) \/ Initialize(r) \/ Die(r)
  BY <1>1, <1>4, <1>6, <1>7
<1>8. CASE \E t \in late : LateTxn(t)
  BY <1>2, <1>5, <1>6, <1>8
<1>9. CASE \E x \in Path : ClientDelete(x) \/ \E v \in ClientValue : ClientPut(x, v)
  BY <1>3, <1>9 DEF ClientDelete, ClientPut
<1>10. CASE ConsulChanges
  BY <1>6, <1>10 DEF ConsulChanges
<1> QED
  BY <1>7, <1>8, <1>9, <1>10 DEF Next

(* Only a value stored after the replica's read can fall to a default. *)
THEOREM OnlyRacedValuesLost == Spec => OverwritesOnlyRaced
<1> DEFINE Raced ==
      \A p \in Path :
         store'[p] \in Replica /\ store'[p] # store[p] /\ store[p] # Absent
            => \/ p \in stored[store'[p]] /\ pc[store'[p]] = "writing"
               \/ \E t \in late : t.from = store'[p] /\ p \in t.todo \cap t.stored
<1>1. IInv /\ [Next]_vars => [Raced]_vars
  BY OverwriteIsRaced
<1>2. Spec => [][Raced]_vars
  BY <1>1, Inductive, PTL DEF Spec
<1> QED
  BY <1>2 DEF OverwritesOnlyRaced

-----------------------------------------------------------------------------
(* With a single replica nobody stores anything between its read and its   *)
(* write, as it does not serve at that time, and nothing of it is left     *)
(* under way when its transactions do not outlive it.                      *)
NeverRaced == late = {} /\ \A r \in Replica : stored[r] = {}

LEMMA SingleNeverRaced ==
  ASSUME \A r, q \in Replica : r = q, ~ MayDelay, NeverRaced, [Next]_vars
  PROVE  NeverRaced'
<1>1. ASSUME NEW r \in Replica, NEW ps, NoteStored({r}, ps)
      PROVE  \A q \in Replica : stored'[q] = {}
  BY <1>1 DEF NoteStored
<1>2. \A ps : OvertakeLate({}, ps) = {}
  BY DEF OvertakeLate
<1>3. ASSUME NEW r \in Replica, Start(r) \/ Initialize(r) PROVE NeverRaced'
  BY <1>1, <1>2, <1>3 DEF Start, Initialize, FetchBaseline, ReadStored, AddMissing,
     Panic, NeverRaced
<1>4. ASSUME NEW r \in Replica, Die(r) PROVE NeverRaced'
  BY <1>1, <1>2, <1>4 DEF Die, NeverRaced
<1>5. ASSUME NEW p \in Path, NEW v \in ClientValue, ClientPut(p, v) PROVE NeverRaced'
  <2>1. \A q \in Replica : pc[q] = "serving"
    BY <1>5 DEF ClientPut, ServedByAnyone
  <2>2. \A q \in Replica : stored'[q] = {}
    BY <1>5, <2>1 DEF ClientPut, NoteStored
  <2> QED
    BY <1>2, <1>5, <2>2 DEF ClientPut, NeverRaced
<1>6. ASSUME NEW p \in Path, ClientDelete(p) PROVE NeverRaced'
  BY <1>6 DEF ClientDelete, NeverRaced
<1>7. CASE ConsulChanges
  BY <1>7 DEF ConsulChanges, NeverRaced
<1>8. CASE UNCHANGED vars
  BY <1>8 DEF vars, NeverRaced
<1> QED
  BY <1>3, <1>4, <1>5, <1>6, <1>7, <1>8 DEF Next, NeverRaced

(* "A property that is already stored keeps its value", with one replica. *)
THEOREM SingleReplicaKeepsValues ==
  ASSUME \A r, q \in Replica : r = q, ~ MayDelay
  PROVE  Spec => StoredKeepsValue
<1> DEFINE Kept == \A p \in Path : store'[p] \in Replica /\ store'[p] # store[p]
                                     => store[p] = Absent
<1>1. Init => NeverRaced
  BY DEF Init, NeverRaced
<1>2. NeverRaced /\ [Next]_vars => NeverRaced'
  BY SingleNeverRaced
<1>3. IInv /\ NeverRaced /\ [Next]_vars => [Kept]_vars
  BY OverwriteIsRaced DEF NeverRaced
<1>4. Spec => [][Kept]_vars
  BY <1>1, <1>2, <1>3, Inductive, PTL DEF Spec
<1> QED
  BY <1>4 DEF StoredKeepsValue
=============================================================================
