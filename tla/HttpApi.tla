------------------------------ MODULE HttpApi ------------------------------
(***************************************************************************)
(* The HTTP interface over the store: which handler a URL reaches, which   *)
(* application and profiles the handler takes out of it, which requests it *)
(* refuses, and what a read answers.  Applications, profiles, extensions   *)
(* and separators share one URL, and writes and reads parse it differently.*)
(*                                                                         *)
(* Requests follow each other here; ConfigWrites and MergedRead interleave *)
(* them and let Consul fail, Placeholders and NestedDocument say what the  *)
(* file formats make of the properties.  A URL is a sequence of segments,  *)
(* each a text; "%2F" and "(_)" are one symbol each.                       *)
(***************************************************************************)
EXTENDS ConsulPaths

CONSTANTS ProfileList,   \* texts a reader may give for the profiles
          Body,          \* bodies of AddProperties: keys to JSON values
          NoList,        \* DeleteProperties without a list of keys
          MaxStored      \* bound on the properties stored

Extensions == <<"json", "properties", "yaml", "yml">>
NotAlphanumeric == {"-", "_", ".", "+", "@", ",", "/", "*", "%2F", "(_)"}
InnerProfileSymbols == {"-", "_", ".", "+", "@"}
Label == <<"label">>

ASSUME HttpAssumption ==
    /\ NotAlphanumeric \subseteq Symbol
    /\ ProfileList \subseteq Seq(Symbol)
    /\ MaxStored \in Nat

-----------------------------------------------------------------------------
(* Routes.  A segment of a pattern is a text, or ":", a parameter, and the *)
(* text behind it.                                                         *)
Parameter == <<":">>
File(i) == <<":", ".", Extensions[i]>>

Probe == <<<<"health">>, <<"readiness">>>>
Get(pattern, handler) == [method |-> "GET", path |-> pattern, handler |-> handler]

FileRoutes == [i \in 1..4 |-> Get(<<Parameter, File(i)>>, "FindFile")]
              \o [i \in 1..4 |-> Get(<<File(i)>>, "FindFile")]

FindOneRoutes == <<Get(<<Parameter, Parameter>>, "FindOne"),
                   Get(<<Parameter, Parameter, Parameter>>, "FindOne")>>

OtherRoutes ==
    <<Get(<<<<"health">>>>, "Probe"), Get(<<<<"health">>, <<"liveness">>>>, "Probe"),
      Get(<<<<"readiness">>>>, "Probe"), Get(Probe, "Probe"),
      Get(<<<<"swagger-ui">>, <<"swagger", ".", "json">>>>, "Swagger"),
      Get(<<<<"applications">>>>, "GetApplicationsAndProfiles")>>

WriteRoutes ==
    <<[method |-> "POST", path |-> <<Parameter, Parameter>>, handler |-> "AddProperties"],
      [method |-> "PUT", path |-> <<Parameter, Parameter>>, handler |-> "AddProperties"],
      [method |-> "POST", path |-> <<Parameter, Parameter, <<"properties-delete">>>>,
       handler |-> "DeleteProperties"]>>

(* Mutant: two segments are a name and profiles before they are a file. *)
Routes_FindOneFirst == OtherRoutes \o FindOneRoutes \o FileRoutes \o WriteRoutes

(* RunService: the routes in the order they are registered. *)
Routes == OtherRoutes \o FileRoutes \o FindOneRoutes \o WriteRoutes

(* A parameter ends where the text behind it first occurs. *)
SegmentMatches(pattern, text) ==
    IF pattern[1] # ":" THEN text = pattern
    ELSE LET suffix == Tail(pattern)
         IN  /\ Len(text) > Len(suffix)
             /\ IsSuffix(suffix, text)
             /\ suffix = <<>> \/ \A i \in 1..(Len(text) - Len(suffix)) :
                                     SubSeq(text, i, i + Len(suffix) - 1) # suffix

RouteMatches(route, path) ==
    Len(route.path) = Len(path) /\ \A i \in DOMAIN path : SegmentMatches(route.path[i], path[i])

(* The first route that matches decides. *)
Handler(method, path) ==
    LET route == SelectInSeq(Routes, LAMBDA r : r.method = method /\ RouteMatches(r, path))
    IN  IF route # 0 THEN Routes[route].handler
        ELSE IF \E r \in Range(Routes) : RouteMatches(r, path) THEN "MethodNotAllowed"
        ELSE "NotFound"

-----------------------------------------------------------------------------
(* What the handlers take out of a URL. *)
GetFiberParam(text) == ReplaceAll(text, "%2F", "/")
ReplaceSlashPlaceholder(text) == ReplaceAll(text, "(_)", "/")

(* Mutant: the first "-" separates name and profiles. *)
LastDash_First(s) == SelectInSeq(s, LAMBDA c : c = "-")

LastDash(s) == SelectLastInSeq(s, LAMBDA c : c = "-")

(* splitApplicationAndProfiles, when it succeeds. *)
CanSplit(s) == LastDash(s) > 1 /\ LastDash(s) < Len(s)
ApplicationOf(s) == SubSeq(s, 1, LastDash(s) - 1)
ProfilesOf(s) == SubSeq(s, LastDash(s) + 1, Len(s))

IsValidProfile(p) ==
    /\ p # <<>>
    /\ \A i \in 1..(Len(p) - 1) : ~ (p[i] = "." /\ p[i + 1] = ".")
    /\ \A i \in DOMAIN p : p[i] \in NotAlphanumeric => i \notin {1, Len(p)} /\ p[i] \in InnerProfileSymbols

(* Mutant: any profile that is not empty is valid. *)
ProfilesValid_NotEmpty(s) == \A p \in Range(Split(s, ",")) : p # <<>>

ProfilesValid(s) == \A p \in Range(Split(s, ",")) : IsValidProfile(p)

-----------------------------------------------------------------------------
(* Answers.  Errors as FiberErrorHandler turns them into a status.         *)
Status(error) == CASE error \in {"InvalidPropertyKeys", "BadRequest"} -> 400
                   [] error = "NotFound" -> 404
                   [] error = "MethodNotAllowed" -> 405
                   [] OTHER -> 500

Error(error) == [status |-> Status(error), body |-> <<>>]
Ok(body) == [status |-> 200, body |-> body]

(* GetPropertiesAsMap *)
AsMap(app, profile) ==
    LET found == Found(app, profile)
    IN  [key \in {f[1] : f \in found} |-> (CHOOSE f \in found : f[1] = key)[2]]

(* loadMergedProperties: the global properties, overridden by the profiles *)
(* from left to right.                                                     *)
LoadMergedProperties(app, profiles) ==
    FoldLeft(LAMBDA merged, p : Over(AsMap(app, p), merged), AsMap(ConsulGlobal, Default), profiles)

Load(app, profiles) ==
    IF ProfilesValid(profiles)
    THEN Ok(LoadMergedProperties(ReplaceSlashPlaceholder(app), Split(profiles, ",")))
    ELSE Error("BadRequest")

FindOne(path) == Load(GetFiberParam(path[1]), GetFiberParam(path[2]))

(* FindOneJSON, FindOneProperties, FindOneYaml: loadRequestedProperties of *)
(* the last segment without its extension.                                 *)
FindFile(path) ==
    LET file == path[Len(path)]
        name == GetFiberParam(SubSeq(file, 1, Len(file) - 2))
    IN  IF CanSplit(name) THEN Load(ApplicationOf(name), ProfilesOf(name)) ELSE Error("NotFound")

(* Mutant: each profile of an application is listed once. *)
GroupProfilesByApplication_Once(listed) ==
    [app \in {listed[n][1] : n \in DOMAIN listed} |->
        [p \in {listed[n][2] : n \in {m \in DOMAIN listed : listed[m][1] = app}} |-> 1]]

(* groupProfilesByApplication, toApplicationResponses: the profiles of an  *)
(* application are a bag, a sorted list with repetitions.                  *)
GroupProfilesByApplication(listed) ==
    [app \in {listed[n][1] : n \in DOMAIN listed} |->
        LET own == {n \in DOMAIN listed : listed[n][1] = app}
        IN  [p \in {listed[n][2] : n \in own} |-> Cardinality({n \in own : listed[n][2] = p})]]

GetApplicationsAndProfiles == Ok(GroupProfilesByApplication(Listed))

(* The answer to GET; probes and the API document have no properties. *)
Answer(path) ==
    LET handler == Handler("GET", path)
    IN  CASE handler = "FindOne" -> FindOne(path)
          [] handler = "FindFile" -> FindFile(path)
          [] handler = "GetApplicationsAndProfiles" -> GetApplicationsAndProfiles
          [] handler \in {"Probe", "Swagger"} -> Ok(<<>>)
          [] OTHER -> Error(handler)

-----------------------------------------------------------------------------
(* Writes. *)
PropertyValueAsText(raw) == IF raw = "null" THEN "" ELSE raw
PropertyValuesAsText(body) == [key \in DOMAIN body |-> PropertyValueAsText(body[key])]

DotKeys(body) == {key \in DOMAIN body : key # <<>> /\ key[1] = "."}
Accepted(body) == "object" \notin Range(body) /\ DotKeys(body) = {}

(* A JSON object has finitely many keys. *)
ASSUME BodyAssumption ==
    \A body \in Body : Accepted(body) =>
        /\ IsFiniteSet(DOMAIN body)
        /\ \A key \in DOMAIN body : key \in PropertyKey /\ PropertyValueAsText(body[key]) \in Value

(* Mutant: the properties with a valid key are stored although the request *)
(* is refused.                                                             *)
AddProperties_TheRest(app, profile, body) ==
    LET kept == [key \in DOMAIN body \ DotKeys(body) |-> PropertyValueAsText(body[key])]
    IN  IF "object" \in Range(body) THEN UNCHANGED vars
        ELSE IF DotKeys(body) = {} THEN Put(app, profile, kept)
        ELSE /\ kv' = Over([p \in {PathOf(app, profile, key) : key \in DOMAIN kept} |->
                               kept[CHOOSE key \in DOMAIN kept : PathOf(app, profile, key) = p]],
                           kv)
             /\ UNCHANGED wrote

(* AddProperties: all of a request or, refused, nothing.  The profile is   *)
(* not validated.                                                          *)
AddProperties(app, profile, body) ==
    IF Accepted(body) THEN Put(app, profile, PropertyValuesAsText(body))
    ELSE UNCHANGED vars

(* DeleteProperties: the keys of a list, or without one the whole profile. *)
DeleteProperties(app, profile, keys) ==
    IF keys = NoList THEN DeleteTree(app, profile) ELSE DeleteKeys(app, profile, keys)

(* A write escapes "/" in a segment. *)
Escaped(text) == ReplaceAll(text, "/", "%2F")
PathTo(t) == <<Escaped(t[1]), Escaped(t[2])>>

Post(path) ==
    /\ \E method \in {"POST", "PUT"} : Handler(method, path) = "AddProperties"
    /\ \E body \in Body :
          /\ Cardinality(DOMAIN kv) + Cardinality(DOMAIN body) <= MaxStored
          /\ AddProperties(GetFiberParam(path[1]), GetFiberParam(path[2]), body)

PostDelete(path) ==
    /\ Handler("POST", Append(path, <<"properties-delete">>)) = "DeleteProperties"
    /\ \E keys \in (SUBSET PropertyKey) \cup {NoList} :
          DeleteProperties(GetFiberParam(path[1]), GetFiberParam(path[2]), keys)

Next == \E t \in Target : Post(PathTo(t)) \/ PostDelete(PathTo(t))

Spec == Init /\ [][Next]_vars

-----------------------------------------------------------------------------
(* The URLs a client may read an application and a list of profiles under: *)
(* "/" in the name as "%2F" or "(_)", with a label or without, as an       *)
(* environment or as a file.                                               *)
Spelled(app) == {Escaped(app), ReplaceAll(app, "/", "(_)")}

HasExtension(s, i) == <<".", Extensions[i]>> \in SubSeqs(s)
FileName(app, profiles, i) == app \o <<"-">> \o profiles \o <<".", Extensions[i]>>

LabelledEnvironment(app, profiles) == {<<a, profiles, Label>> : a \in Spelled(app)}
Environment(app, profiles) == {<<a, profiles>> : a \in Spelled(app)}
Files(app, profiles) ==
    LET names == {FileName(a, profiles, i) : a \in Spelled(app),
                                             i \in {j \in 1..4 : ~ HasExtension(profiles, j)}}
    IN  {<<name>> : name \in names} \cup {<<Label, name>> : name \in names}

(* The short URLs that belong to other routes: of the readiness probe, and *)
(* those that look like a labelled file.                                   *)
Shadowed(app, profiles) ==
    \/ <<app, profiles>> \in {Probe, <<<<"health">>, <<"liveness">>>>}
    \/ \E i \in 1..4 : IsSuffix(<<".", Extensions[i]>>, profiles)

Urls(app, profiles) ==
    LabelledEnvironment(app, profiles)
        \cup (IF Shadowed(app, profiles) THEN {} ELSE Environment(app, profiles))
        \cup (IF "-" \in Range(profiles) THEN {} ELSE Files(app, profiles))

Applications == {t[1] : t \in Target}

(* What clients stored in a profile and can get back. *)
Written(app, profile) ==
    [key \in {w[3] : w \in {u \in DOMAIN wrote : u[1] = app /\ u[2] = profile}} \ {<<>>} |->
        wrote[<<app, profile, key>>]]

(* What a read of the profiles must answer. *)
Expected(app, profiles) ==
    FoldLeft(LAMBDA merged, p : Over(Written(app, p), merged), Written(Global, Default),
             Split(profiles, ","))

(* Reads may spell "/" as "(_)", so a name with "(_)" itself cannot be     *)
(* read, and they refuse profiles that writes accept.                      *)
Readable(app) == "(_)" \notin Range(app)

-----------------------------------------------------------------------------
(* What a read of such a list looks at. *)
Reads ==
    {<<Global, Default>>}
        \cup (Applications \X UNION {Range(Split(profiles, ",")) : profiles \in ProfileList})

(* The names ReadsBack is about: applications that can be in a URL and have *)
(* no extension in them, valid profiles, and, as in NamesAssumption, no     *)
(* name that is a directory of another.                                     *)
ReadableNames ==
    /\ \A app \in Applications : app # <<>> /\ \A i \in 1..4 : ~ HasExtension(app, i)
    /\ \A profiles \in ProfileList : ProfilesValid(profiles)
    /\ \A t \in Reads, u \in Target, key \in PropertyKey :
           IsPrefix(FormatKeyPrefix(t[1], t[2]), PathOf(u[1], u[2], key)) => t = u

(* Every URL of an application and a list of profiles answers with exactly *)
(* what clients stored in them, later profiles overriding earlier ones and *)
(* the global properties: whichever form the URL has, it reaches the right *)
(* handler, which takes the right names out of it.  A profile with "-" has *)
(* no file, because the last "-" of a file name ends the application.      *)
ReadsBack ==
    \A app \in {a \in Applications : Readable(a)}, profiles \in ProfileList :
        \A url \in Urls(app, profiles) : Answer(url) = Ok(Expected(app, profiles))

(* Every URL of a name and of a list that clients know, a profile they     *)
(* write to taken for a list.                                              *)
EveryUrl ==
    UNION {LabelledEnvironment(app, profiles) \cup Environment(app, profiles) \cup Files(app, profiles) :
               app \in Applications, profiles \in ProfileList \cup {t[2] : t \in Target}}

(* The application and the profiles that the handler of a URL takes out of *)
(* it, and what the reads of all these URLs look at.                       *)
Named(url) ==
    LET file == url[Len(url)]
        name == GetFiberParam(SubSeq(file, 1, Len(file) - 2))
    IN  IF Handler("GET", url) = "FindOne" THEN {<<GetFiberParam(url[1]), GetFiberParam(url[2])>>}
        ELSE IF CanSplit(name) THEN {<<ApplicationOf(name), ProfilesOf(name)>>} ELSE {}

LookedAt ==
    {<<Global, Default>>} \cup
    UNION {{<<ReplaceSlashPlaceholder(n[1]), p>> : p \in {q \in Range(Split(n[2], ",")) : IsValidProfile(q)}} :
               n \in UNION {Named(url) : url \in EveryUrl}}

(* The names LostIffBadName is about: the lists name the valid profiles    *)
(* that clients write to, and no URL names a directory of a property of    *)
(* another name.                                                           *)
LosableNames ==
    /\ \A t \in Target : t[2] \in ProfileList <=> IsValidProfile(t[2])
    /\ \A t \in LookedAt, u \in Target, key \in PropertyKey :
           IsPrefix(FormatKeyPrefix(t[1], t[2]), PathOf(u[1], u[2], key)) => t = u

(* Writes validate neither application nor profile.  A property is out of  *)
(* the reach of every URL exactly if its application contains "(_)", its   *)
(* profile is not a valid one, or its key is empty: no other name is lost, *)
(* and none of these shows up under the name of another.                   *)
LostIffBadName ==
    (\E url \in EveryUrl : Answer(url).body # <<>>)
    <=> \E w \in DOMAIN wrote : Readable(w[1]) /\ w[2] \in ProfileList /\ w[3] # <<>>

(* The directory below the namespace that holds the properties of an       *)
(* application and a profile: an application with "/" is in the directory  *)
(* of its first part.                                                      *)
Directory(app, profile) ==
    IF "/" \in Range(app) THEN <<Split(app, "/")[1], Default>>
    ELSE <<IF app = Global THEN ConsulGlobal ELSE app, profile>>

(* What /applications calls it: a list of profiles by its first one. *)
ListedAs(d) == <<IF d[1] = ConsulGlobal THEN Global ELSE d[1], Split(d[2], ",")[1]>>

(* The names these are right about: the first "," ends an application, a *)
(* "/" ends what is listed of a name, and a spelling of the global         *)
(* application is listed as that.                                          *)
Listable ==
    \A t \in Target :
        /\ "," \notin Range(t[1])
        /\ "/" \in Range(t[1]) \/ "/" \notin Range(t[2])
        /\ t[1] # Global => Split(t[1], "/")[1] \notin GlobalSpellings

(* /applications lists each directory that holds a property, exactly once  *)
(* and under the names ListedAs gives it: none is left out, hidden by      *)
(* another or left behind by a delete, and a profile is listed as often as *)
(* there are directories of that name, "dev" twice if both "dev" and       *)
(* "dev,x" hold a property.                                                *)
ListsWhatIsStored ==
    LET directories == {Directory(w[1], w[2]) : w \in DOMAIN wrote}
        Of(app) == {d \in directories : ListedAs(d)[1] = app}
    IN  Answer(<<<<"applications">>>>) =
            Ok([app \in {ListedAs(d)[1] : d \in directories} |->
                   [p \in {ListedAs(d)[2] : d \in Of(app)} |->
                       Cardinality({d \in directories : ListedAs(d) = <<app, p>>})]])
=============================================================================
