----------------------------- MODULE MergedRead -----------------------------
(***************************************************************************)
(* One read of an application's properties: loadMergedProperties lists the *)
(* global default profile and then every active profile, one Consul call   *)
(* each, and lets later ones override earlier ones, while other requests   *)
(* keep changing the profiles.  The calls together are no snapshot: what   *)
(* the answer then still means is the subject of this module.              *)
(*                                                                         *)
(* A write is one Consul transaction and belongs to one profile, so it     *)
(* replaces the contents of a profile at once (ConfigWrites).              *)
(***************************************************************************)
EXTENDS Naturals, Sequences

CONSTANTS Profile,     \* application/profile pairs, as Consul prefixes
          Global,      \* global/default, one of them
          Key, Value,
          Absent,
          Invalid,     \* a profile whose name parseProfiles refuses
          MaxActive    \* bound: active profiles in a request

ASSUME ReadAssumption == /\ Global \in Profile
                         /\ Absent \notin Value
                         /\ Invalid \notin Profile
                         /\ MaxActive \in Nat \ {0}

VARIABLES store,    \* Consul: the contents of every profile
          sources,  \* the profiles to list, in order
          next,     \* index of the profile listed next
          merged,   \* the properties collected so far
          status,   \* "parsing", "loading", then "ok", "error" or "rejected"
          seen      \* history: what each key of each profile was meanwhile

vars == <<store, sources, next, merged, status, seen>>

Contents == [Key -> Value \cup {Absent}]

(* The global default profile comes first; a request can name a profile    *)
(* twice, and the application it asks for can be global itself.            *)
Requests == UNION {[1 .. n -> Profile \cup {Invalid}] : n \in 2 .. MaxActive + 1}

Init == /\ store \in [Profile -> Contents]
        /\ sources \in {s \in Requests : s[1] = Global}
        /\ next = 1
        /\ merged = [k \in Key |-> Absent]
        /\ status = "parsing"
        /\ seen = [d \in Profile |-> [k \in Key |-> {store[d][k]}]]

-----------------------------------------------------------------------------
(* Mutant: what is there already is kept: the global default would win. *)
Override_FirstWins(dst, src) ==
    [k \in Key |-> IF dst[k] # Absent THEN dst[k] ELSE src[k]]

(* mergeConfigProperties: what the profile has overrides. *)
Override(dst, src) == [k \in Key |-> IF src[k] # Absent THEN src[k] ELSE dst[k]]

(* Mutant: the profiles are not looked at before they are loaded. *)
ParseProfiles_Accepts == /\ status = "parsing"
                         /\ status' = "loading"
                         /\ UNCHANGED <<store, sources, next, merged, seen>>

(* parseProfiles: one invalid name in the list refuses the whole request   *)
(* (400) before Consul is asked for anything.                              *)
ParseProfiles ==
    /\ status = "parsing"
    /\ status' = IF \E i \in DOMAIN sources : sources[i] = Invalid
                 THEN "rejected" ELSE "loading"
    /\ UNCHANGED <<store, sources, next, merged, seen>>

(* FindByApplicationAndProfile of the next profile succeeds. *)
LoadProfile == /\ status = "loading"
               /\ next <= Len(sources)
               /\ merged' = Override(merged, store[sources[next]])
               /\ next' = next + 1
               /\ UNCHANGED <<store, sources, status, seen>>

(* Mutant: a profile that cannot be loaded is left out of the answer. *)
LoadFails_Ignored == /\ status = "loading"
                     /\ next <= Len(sources)
                     /\ next' = next + 1
                     /\ UNCHANGED <<store, sources, merged, status, seen>>

(* Mutant: a failed call starts the request over. *)
LoadFails_StartsOver == /\ status = "loading"
                        /\ next <= Len(sources)
                        /\ merged' = [k \in Key |-> Absent]
                        /\ next' = 1
                        /\ UNCHANGED <<store, sources, status, seen>>

(* Any failing call fails the request with 500: no part of it is answered. *)
LoadFails == /\ status = "loading"
             /\ next <= Len(sources)
             /\ merged' = [k \in Key |-> Absent]
             /\ status' = "error"
             /\ UNCHANGED <<store, sources, next, seen>>

Respond == /\ status = "loading"
           /\ next > Len(sources)
           /\ status' = "ok"
           /\ UNCHANGED <<store, sources, next, merged, seen>>

(* Somebody else's write or delete while the request runs. *)
OtherWrite(d, new) ==
    /\ status \in {"parsing", "loading"}
    /\ store' = [store EXCEPT ![d] = new]
    /\ seen' = [seen EXCEPT ![d] = [k \in Key |-> @[k] \cup {new[k]}]]
    /\ UNCHANGED <<sources, next, merged, status>>

Answered == status \in {"ok", "error", "rejected"} /\ UNCHANGED vars

Load == ParseProfiles \/ LoadProfile \/ LoadFails \/ Respond

Next == \/ Load
        \/ \E d \in Profile, new \in Contents : OtherWrite(d, new)
        \/ Answered

Spec == Init /\ [][Next]_vars

(* The handler runs on and each of its Consul calls returns something. *)
FairSpec == Spec /\ WF_vars(Load)

-----------------------------------------------------------------------------
(* Only requests with valid profiles load anything, and none past the last. *)
TypeOK == /\ store \in [Profile -> Contents]
          /\ sources \in Requests
          /\ next \in 1 .. Len(sources) + 1
          /\ merged \in Contents
          /\ status \in {"parsing", "loading", "ok", "error", "rejected"}
          /\ status \in {"loading", "ok"} => sources \in Seq(Profile)
          /\ seen \in [Profile -> [Key -> SUBSET (Value \cup {Absent})]]

(* The value v for k is explained by the first n profiles: it was stored   *)
(* in one of them during the request and every later one lacked the key at *)
(* some time during the request.                                           *)
Explained(k, v, n) ==
    \/ v = Absent /\ \A j \in 1 .. n : Absent \in seen[sources[j]][k]
    \/ \E i \in 1 .. n : /\ v # Absent /\ v \in seen[sources[i]][k]
                         /\ \A j \in i + 1 .. n : Absent \in seen[sources[j]][k]

(* Every property of an answer, and every one it lacks, is explained by    *)
(* what the profiles held while the request ran: later profiles win, and   *)
(* nothing is left over from a profile that was overridden all the time.   *)
(* Properties nobody touches are read as by a snapshot.                    *)
AnswerExplained ==
    status = "ok" => \A k \in Key : Explained(k, merged[k], Len(sources))

(* Nobody wrote k in the profiles of the request while it ran. *)
Untouched(k) == \A i \in 1 .. Len(sources) : seen[sources[i]][k] = {store[sources[i]][k]}

(* A key nobody touched is answered exactly: with the value of the last    *)
(* profile that has it, the active profiles coming after the global        *)
(* default and in the order of the request, or not at all.                 *)
UntouchedIsExact ==
    status = "ok" =>
        \A k \in Key : Untouched(k) =>
            LET having == {i \in 1 .. Len(sources) : store[sources[i]][k] # Absent}
            IN  IF having = {}
                THEN merged[k] = Absent
                ELSE \E i \in having : /\ \A j \in having : j <= i
                                       /\ merged[k] = store[sources[i]][k]

(* Every read request is answered, whatever its Consul calls return and    *)
(* however often others write meanwhile: no retry, no waiting for a        *)
(* consistent reading.                                                     *)
AnsweredEventually == <>(status \in {"ok", "error", "rejected"})
=============================================================================
