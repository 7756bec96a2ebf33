# core-legacy-api in TLA+

`core-legacy-api` serves the REST API of config-server and keeps the properties
in Consul. This directory holds TLA+ models of it, the TLC runs that check them
and theorems about them that TLAPS checks. Source paths below are relative to
`core-legacy-api/core-legacy-api-service/`, docs to `core-legacy-api/docs/`.

## 1. The system

A replica is one Go process behind a Service; the chart may run several, and a
rolling update starts a new one while an old one serves. A replica has no state
of its own that outlives a request: everything is in Consul's key-value store,
which applies one transaction at a time. There is no lock, no cache and no
background worker.

| Component | Source | State | Operations |
| --- | --- | --- | --- |
| Transaction batcher | `config/consul_txn_batcher.go` | the operations and the length of the current batch, for one call | `add`, `done`, `flushBatch` |
| Consul service | `config/consul.go` | none (Consul's KV store) | `AddProperties`, `DeleteProperties`, `DeleteProfile`, `FindByApplicationAndProfile`, `FindAll`, `performTransaction`, `HealthCheck` |
| Controller | `config/controller.go` | one request | the HTTP handlers, `loadMergedProperties`, `loadRequestedProperties` |
| Pure helpers | `config/utils.go` | none, but `resolveProperties` and `buildNestedProperties` build up a map | key encoding, profile parsing, placeholders, nesting, formats |
| Startup initialization | `config/init_properties.go` | the step it is at and what it read | `InitializeDefaultProperties`, `addMissingProperties`, `getBaselineProperties` |
| Lifecycle | `lib/runner.go` | how far the process is, the last result of each health service, the handlers running | `RunService`, probes, shutdown hooks |
| Errors | `config/response.go` | none | errors to status codes |

How they interact:

- HTTP handlers run concurrently, in one replica and in several. A write handler
  makes the batcher send one or more Consul transactions, one after the other.
- A read handler lists one Consul prefix for the global defaults and one for
  each active profile, merges them, resolves placeholders, and renders the map.
- Before it serves, a replica reads and fills four sets of defaults with the
  same operations of the Consul service the handlers use. It panics on an error
  of Consul and the pod restarts.

What is hard: writes split into several transactions that may fail halfway;
lost answers and transactions that arrive late; reads that are not snapshots; a
read-modify-write at startup with no lock, against other replicas; a map that
is changed while Go ranges over it in random order; a nested document whose
containers and scalars collide; one flat name space for all profiles, and one
space of URLs in which names, files and probes overlap; a shutdown beside a start.

What makes each component correct:

| Component | Properties |
| --- | --- |
| Batcher | respects the limits, loses and repeats nothing, reports success only when all is applied, keeps a small call atomic, always ends |
| Write requests | an acknowledged write is there until someone else's write, is never undone by its own leftovers, values are those requested; small requests are atomic |
| Startup | stored values are kept; a replica serves only when the defaults are there; it comes up once Consul does |
| Merged read | every value, and every absence, in an answer is explained by what was stored meanwhile; untouched keys are exact |
| Placeholders | independent of the order of the map, complete, refused exactly for cycles |
| Nested document | every property once, under its own key, in a tree, flat only where needed |
| Paths and listing | profiles do not see each other, keys come back unchanged, the listing agrees with the store |
| Routes and parsing | every URL of an application and profiles reads exactly these, and only names that reads refuse can be lost |
| Lifecycle | in service only while Consul is there, not restarted by an outage, stops when told to, cancels no running request unless told to stop before it listened |

## 2. The modules

| Module | Models | Composed with |
| --- | --- | --- |
| `PartialWrite` | the promise of one write call to its caller | implemented by `TxnBatcher` |
| `TxnBatcher` | one `AddProperties` or `DeleteProperties` call and its batcher | |
| `AtomicWrites` | the promise of write requests: each takes effect once, as a growing prefix of its operations, and in one step if it fits one transaction | implemented by `ConfigWrites` |
| `ConfigWrites` | concurrent write requests, with `TxnBatcher` abstracted to the batches it can form | |
| `StartupInit` | the initialization of every replica while clients write | |
| `Lifecycle` | a replica from its start to its end, with its probes and signals | `StartupInit` is its step `Initialize` in full |
| `MergedRead` | one read request while others write | |
| `Placeholders` | `resolveProperties` on the merged map | follows `MergedRead` in a handler |
| `NestedDocument` | `buildNestedProperties` on the resolved map | follows `Placeholders` |
| `ConsulPaths` | paths of properties, reads and deletes by prefix, the listing | extended by `HttpApi` |
| `HttpApi` | routes, what handlers take out of a URL, refusals, answers | `ConsulPaths` is its store; the encoding the other modules take for granted: they use a profile and a key as they are |

`*_proofs` hold the theorems of the module they name; `MC*` give the constants
their values for TLC. An operator with a suffix and the comment "Mutant" is a
plausible bug: it is not part of the specification; it stands for the original
in a test that the property it is listed with in `PROJECT.json` can fail.

### TxnBatcher

`input` is the sequence of operations of the call, `next` the loop of the Consul
service, `ops` and `size` the fields of the batcher. `AddOp` is `add` with room,
`FlushThenAdd` is `add` after a successful flush, `Done` is `done`, and
`FlushFails` any failing flush, from either. A failed transaction may have been
applied (`TxnFails`): the HTTP answer can be lost. The order of operations is
any, since `AddProperties` ranges over a map. `Size` is a constant function.

### ConfigWrites

All requests concern one profile; others do not share keys (`HttpApi`). A
operation has a length, and `BatchSizes` says which batches the batcher can form:
the longest that fit a transaction by count and by length. A
request goes from `new` through `sending` and `waiting` (a transaction is on its
way), `answered` (Consul has applied it), and ends in `ok`, `error` or
`rejected`. `TxnFails` in `waiting` leaves the transaction in `inflight`: it is
applied or lost later. A crash of a replica looks the same to the store and to
the client. `pos` counts the operations applied. A value is named after the
request that asked for it. `settled[r]` remembers which requests were over, with
nothing on its way, when `r` arrived; it is only used to state properties.

### StartupInit

`pc` and `step` locate a replica in `InitializeDefaultProperties`; `todo` is the
set of defaults of the step and, from the read on, what was missing. `ReadStored`
and `AddMissing` are the two halves of `addMissingProperties`, two separate
Consul calls. Every step is one transaction: the largest has 37 properties, and
64 are allowed. `Panic` is an error of Consul, `Die` any other end of a process,
with its transaction not sent, applied, or still on its way (`late`, only if
`MayDelay`). Clients put and delete through any replica that serves. `stored` and
`deleted` are history variables.

### MergedRead

`sources` is the global default profile followed by the active profiles. One
`LoadProfile` is one `FindByApplicationAndProfile`; `OtherWrite` replaces the
contents of one profile between two of them. `seen` records what each key was
during the request.

### Placeholders

Texts are sequences of words and the symbols `${`, `:` and `}`; `MatchAt` is the
regular expression, with its quirk that a key or a default may contain `${`.
`ResolveProperty` is one turn of the loop over the map, for any key not yet met,
and writes back what it resolved. `ResolvePropertyValue` is the body of the
recursive function, which `Resolver` ties to itself. Words stand for all that is
not a symbol, so the end of one text and the beginning of another never make up a
`${` together. `NothingNested` is the condition under which the answer is well
defined: every `${` of a stored value begins a placeholder, and none lies within
another. TLC evaluates it for the answers of `placeholders`; `placeholders_nested`
shows that it is needed.

### NestedDocument

A document is the set of its scalars, each with the path of its container and
the name, index or flat key it has there; containers exist where a scalar needs
them, as in the code. The nulls that pad a list are not modelled. `Conflicts`
are the tokens of a key where `setNestedValue` would return false, `SetFlat` is
what the innermost map on the way then does. Keys are added in byte order: the
constant `Order`. What the proofs need of that order is `InPlaceOrder`, which TLC
evaluates for the keys of `nested_document`: different keys name different
places, and a key comes before those below it.

### Lifecycle

`phase` is where `RunService` is, `hook` where the goroutine that
`registerShutdownHooks` starts is: both run side by side once it is there. What
`InitializeDefaultProperties` does is left to `StartupInit`; here it ends,
panics because Consul is down, or hangs, since the client has no timeout.
`Shutdown` closes the listener, `StartServer` returns, and the process ends
(`ServerReturns`) whether or not `Shutdown` still waits for handlers. A signal
that comes after the goroutine waits and before the server listens makes
`Shutdown` return at once (`missed`), and `Cancel` follows (`cancelled`): the
server then starts and handles requests under the cancelled context. `RunChecks`
is a health service refreshing its result and `ProbeAnswers` what the endpoint
makes of it. `ReadinessProbe`, `ProbeKill`, `Restart`, `Terminate` and `Kill`
are the kubelet with the probes of the chart, `Fault` a crash or a start that
hangs.

### ConsulPaths

Texts are sequences of symbols, with `&sol;` and `&ast;` as one symbol each,
written without the semicolon. `Found` is `FindByApplicationAndProfile`,
`Listed` gives the `ConfigProfile` that `FindAll` makes of each raw name, the
third part of a path; those of two raw names can be equal. `Put`, `DeleteKeys`
and `DeleteTree` are the writes. `wrote` is what clients wrote, in their own
terms.

### HttpApi

A URL is a sequence of segments. `Routes` lists the routes in the order of
`RunService`, and `Handler` is fiber's choice: the first that matches. `FindOne`,
`FindFile` and `GetApplicationsAndProfiles` are the handlers of reads, `Answer`
what a `GET` returns; they change nothing, so the properties evaluate them in
every state. `/applications` answers with a bag of profiles for each application,
a sorted list with repetitions: with properties in `dev` and in `dev,x`, the code
lists `dev` twice. `Post` and `PostDelete` are the handlers of writes, reached through
the route as well. `Urls` are the URLs a client may use for an application and
profiles; `Shadowed` says which short ones belong to another route. `EveryUrl`
has those too, and the URLs of the profiles that writes accept and reads refuse.

## 3. The runs

| Run | Instance | Shows |
| --- | --- | --- |
| `batcher` | up to 4 operations of 3 sizes, one of them too large for any transaction; limits of 3 operations and length 4 | the batcher's invariants, its termination, and that it implements `PartialWrite` |
| `writes` | 2 requests, 3 keys, up to 3 operations, 2 and length 3 per transaction, adds of length 1 or 2 | `AckMeansWritten`, `AckIsFinal`, `ValuesAreRequested`, `ImplementsAtomicWrites` |
| `startup_single` | 1 replica, 5 paths, 2 crashes, outages at any time | `StoredKeepsValue`, `EventuallyServing` |
| `startup_rolling` | 2 replicas, 4 paths, 1 crash, a late transaction | `OverwritesOnlyRaced`, `FilledAtStart` |
| `startup_race` | 2 replicas, no fault | violates `ClientValueKept` |
| `merged_read` | 3 profiles, 1 key with 2 values, 2 active profiles | `AnswerExplained`, `UntouchedIsExact`, `AnsweredEventually` |
| `placeholders` | 3 properties, about 5,300 answers with references, defaults and cycles | the placeholder properties |
| `placeholders_nested` | the same with a nested placeholder | violates `NestedNotResolved` |
| `nested_document` | every subset of 14 keys | the document properties |
| `nested_aliases` | 5 keys that name 2 places in different spellings | violates `NothingOverwritten` |
| `http_api` | 12 pairs of application and profile, 7 lists of profiles, 3 keys, 2 properties at a time | no mixing of profiles, every URL reads what it names, what is lost, the listing |
| `lifecycle` | 1 pod, 2 handlers, 2 stops, 2 faults, outages at any time | the probes through outages and restarts, and the shutdown |

Why the bounds are enough. Four operations against a limit of three give a full
batch and a second one, and sizes 1, 2 and 5 against 4 give each way the length
limit can bite. Handlers share nothing but the store, so two requests are enough
for a violation: the last writer of a key and the one it may not overwrite.
Three keys with two operations to a transaction give a request that is split by
count and one that is not, and two adds of length 2 against 3 a request within
the count that is split all the same. Deletes have no value, so one length is
enough for them. An operation that no transaction could hold is `batcher`'s; to
`ConfigWrites` it is a transaction that fails. A race at startup has two actors
and one path; the further paths put a missing and a stored default side by side
in a step and something in each other step. Keys do not interact in a merged
read, so one is enough, and two active profiles over the global one give every
order of overriding. Three properties give cycles of each length up to three and
diamonds. The fourteen keys hold a pair for each way a scalar, a map and a list
meet at the top, in a map and in a list.

The names of `http_api` hold each separator, `-`, `.`, `,`, `/` and `(_)`, the
beginning of another name, the global application, and a pair that spells the
readiness probe; the keys have each kind of symbol, and one is empty. Two stored
properties are enough: a property can only hide, change or delete another, and
how three profiles override each other is `merged_read`. `NamesAssumption`, which
TLC checks of these names, leaves out what the store cannot tell apart:
application `c` beside `c/d`, which lies in its directory, and keys that hold an
entity, which `unescape` changes. Applications spelled like `application` are
left out of the targets, since the global one has that name in Consul.

Pods share nothing but Consul, and it may change at any time, so one pod shows
all of `lifecycle`. Two handlers let one end while another runs; two stops and
two faults are what it takes for one to hit the restart after the other.

All runs are checked for deadlock; the models stutter explicitly where the
program has nothing left to do.

Fairness. `TxnBatcher` (`WF` of the call): goroutines run on, and each Consul
call returns something, an answer or an error; the client has no timeout, so
this is an assumption about the transport. `StartupInit`: the kubelet restarts a
pod that is down, and a replica goes on when its call has an outcome (the
baseline fetch ends after 30 seconds). Nothing is assumed of Consul, of clients
or of the number of restarts, and `EventuallyServing` is about runs in which
Consul is up from some point on. `MergedRead`: the handler runs on, whatever
others write. The faults are bounded by `MaxFaults`. `Lifecycle`: the process,
its goroutines and its health services go on, and the kubelet probes and
restarts; nothing is assumed of handlers, of Consul, or of a `SIGKILL`, so that
`StopsWithoutKill` holds with a handler that never returns. A start that does
not hang is taken to fit the time of the startup probe, and a health check to
end. `StopsWithoutKill` and `CancelAfterDrain` except a signal that comes after
the goroutine of the hooks waits and before the server listens: `Shutdown` then
finds no listener, the context is cancelled, the server starts all the same, and
only `SIGKILL` ends it.

## 4. What the code does differently from its docs

1. **A default overwrites a client's value at startup** (`startup_race`).
   `docs/00-startup-initialization.md:5-6` says that a stored property keeps its
   value, and `docs/03-why-writes-take-no-lock.md:33` that there is no
   read-modify-write sequence. `addMissingProperties` is one: it lists the
   profile (`init_properties.go:43`) and sets what was missing (line 60) without
   a check-and-set. With a second replica serving, a client that stores one of
   these properties in between loses its value after a 201. What still holds is
   `OverwritesOnlyRaced`, and `StoredKeepsValue` with a single replica.
2. **Keys for the same place overwrite each other** (`nested_aliases`). `a[0]`,
   `a[00]` and `a.[0]` parse to the same path, so in JSON and YAML one of them
   replaces the other, and a scalar can replace a whole subtree. The comment at
   `utils.go:203-206` says conflicting keys are kept "instead of overwriting
   existing data".
3. **Nested placeholders are sometimes resolved** (`placeholders_nested`).
   `docs/06-replacing-config-server.md:133` says they are not. With
   `a=${z:${c}}`, `a` becomes the text `${c}`, and a property that refers to `a`
   resolves that text if the loop meets it later, and does not if it meets it
   earlier. The order is that of a Go map, so the answer differs between
   identical requests.

## 5. What is proved

All of the following hold for every value of the constants that satisfies the
modules' `ASSUME`s and the hypotheses named below, and rest on nothing else.

`TxnBatcher_proofs`: `TypeCorrect`, `BatchLimits`, `NoOperationLost`,
`OkIsComplete`, `SmallCallIsAtomic`, and `RefinesPartialWrite`
(`Spec => PW!Spec`). The inductive invariant is `TypeOK`, `BatchWithinLimits`,
`NothingLost` and `OkMeansAll` with two facts they need: an empty batch has size
0, and `size` is the running total of the batch. For a call that fits one
transaction, the running total of any stretch of it is within the limit, so
`MustFlushFirst` is never true (`SmallCallNeverSplits`), and `committed` goes
from empty to the whole input in one step. The refinement maps `FlushThenAdd`
and `Done` to `Apply` or `Answer`.

`ConfigWrites_proofs`: `TypeCorrect`, `AcknowledgedIsWritten`,
`AcknowledgedIsFinal`, `StoredIsRequested`, and `RefinesAtomicWrites`, for
requests of any number and length of operations and any limits.
`AckMeansWritten` alone is not inductive, because it says nothing of a request
still running. The strengthening says of every operation a live request has
already had applied that its keys hold its value or that of a request that may
overwrite it; that a transaction under way starts where its request stands, with
one at most for each request; and that a settled request has none. The
refinement adds that a transaction holds the whole request if the batcher never
splits it (`OneTxn`): if the whole of it fits, by count and by length, the
longest batch that does is all of it (`WholeBatch`), so a transaction starts at
0 and ends at its end (`WholeTxns`); then applying one is `TakeEffect`, the
arrival and the answers are those of `AtomicWrites`, and all else is a stutter.

`StartupInit_proofs`: `TypeCorrect`, `ServingFindsDefaults`,
`OnlyRacedValuesLost`, and `SingleReplicaKeepsValues`, which assumes one replica
and `MayDelay = FALSE`. The invariant says that a replica at step `n` has every
default of the steps before `n` in place unless a client deleted it since the
start, that after the read the defaults outside `todo` are in place too, and that
a path of `todo` not in `stored` has nothing stored. With one replica, nobody
serves while it starts, so `stored` stays empty.

`MergedRead_proofs`: `TypeCorrect`, `AnswersAreExplained`,
`UntouchedKeysAreExact`. The invariant is `Explained` for the profiles loaded so
far, and that the current contents of a profile are among what was `seen`.

`Lifecycle_proofs`: `TypeCorrect`, `CancelledOnlyWhenDrained` and
`OutagesRestartNobody`, for any number of pods, handlers, stops and faults. The
invariant adds to the types that the listener stays closed from the shutdown on,
so that no handler starts after the last has ended, that a hook which found
nothing to shut down was told before the process listened (`MissesEarly`), and
that the health service never reports a problem, since the check of Consul is
not one of its checks: a pod whose liveness probe fails does not listen.

`HttpApi_proofs`: `TypeCorrect`, `ReadsAreExact`, `PlainNamesAreSeparate`,
`FileNamesSplit`, `ListingIsExact`, `UrlsReadBack` and `LostNames`, for any
symbols, names, keys and values. The invariant `Stores` says that `kv` is the
image of `wrote` under `PathOf`, value by value; it needs that two properties
never share a path, which follows from decoding: a key comes back from its path
(`KeyDecoded`), and a path that lies in a directory belongs to its application
and profile. The last is the third part of `NamesAssumption`, and
`PlainNamesAreSeparate` proves it, for all keys, of names without `/` whose
applications hold no `,`: then the first `/` behind the root ends the name, and
the first `,` the application. Keys without an entity stay an assumption.
`ListingIsExact` says that each directory below the namespace is listed once,
under `Listable`, which TLC evaluates for the names of the run: a `,` in an
application, a `/` in a profile or a spelling of the global application is
listed under another name by `FindAll`. The raw names are, by `Stores`, those of
the directories that hold a property (`ListedIsStored`), no two of which share
one (`RawNamesDiffer`). So there is a bijection between the directories of a
name and its entries in the answer, and both are equally many
(`AsOftenAsDirectories`), being finite: clients store finitely many properties,
because a JSON object has finitely many keys (`AlwaysFinitelyMany`). The lemmas
say of `Split`, a fold, what its first part is and that the others are the parts
of the rest (`SplitNone`, `SplitFirst`); as with the resolver, that the fold is
defined is proved first (`CutsExist`).

`UrlsReadBack` is `ReadsBack`, under `ReadableNames`, which TLC evaluates too:
applications are not empty and hold no `.json` or the like, the lists hold valid
profiles only, and what a list names is no directory of a stored property. Each
part is what the code needs: the router ends a parameter at the first extension,
a read refuses invalid profiles, and `List` finds what lies below. The proof takes
a URL through the code. The table of routes (`RouteTable`, `RouteKinds`) and
`RouteFound` give its handler: the fixed paths do not match unless `Shadowed`, and
among the four routes for files, which share a handler, the one of the extension
does (`FileMatches`, `StemHasNoExtension`). What the handler takes out of the URL
is the application in every spelling (`SpelledName`, `StemDecoded`,
`FileNamesSplit`) and the profiles unchanged, because valid ones hold no `%2F`
(`SplitHolds`, `ValidProfiles`). The merge of what the store holds is then the merge
of what was written (`MergeIsExpected`): the two folds have the same step.

`LostNames` is `LostIffBadName`, under `ReadableNames` and `LosableNames`. The
latter, which TLC evaluates for the names of the run, says that the lists name
the valid profiles that clients write to, and that no name a read looks up is a
directory of a property of another name. The lists of the property include the
profiles that reads refuse, and the names looked up (`LookedAt`) those that a
handler takes out of a file name at the wrong `-`; if all of them and the names
written are plain, `PlainNamesAreSeparate` gives this second part. That nothing
lost shows up: any of these URLs, whichever route it falls to (`HandlerRoute`),
answers with properties only by loading texts it names (`UrlLoads`). They hold
no `(_)` once they are decoded (`LooksReadable`), and their profiles are valid.
What the merge then answers are the keys of those profiles and of the global
ones (`MergedKeys`), so one of them was written under that very name. That
nothing else is lost: the URL with a label reads a readable application and a
valid profile, by `UrlsReadBack`'s lemmas, and its answer holds the key.

`NestedDocument_proofs`: `TypeCorrect`, `PropertiesReturned`,
`DocumentWellFormed`, `FlatKeysCollide` and `AddedForGood`, for keys of any length
and number of which `InPlaceOrder` holds. A step puts the key where one of three
cases of `Placed` says and removes nothing, because nothing can lie at its path or
below when its turn comes. On the way to its place nothing conflicts with it
(`ClearWay`), so it meets no scalar and only containers of its kind (`Fits`); hence
the document stays a tree. The token with the first conflict names the property
that collides with a key kept flat. That `FlattenSeq` gives a sequence of tokens
is proved from its recursive function by the least place where it would not.

`Placeholders_proofs`: `TypeCorrect`, for any answers, and for answers of any size
with `NothingNested`, `AnswerAnyOrder`, `EverythingResolved` and `CirclesRefused`.
That `Resolver` is a function at all is the lemma `Resolves`: each call leaves
fewer keys open, or as many and a shorter text, so resolvers of growing parts of
the arguments exist and agree, and a least argument at which there was none would
have calls with results. Resolving a text gives a text in which nothing can be
resolved any more (`ResolvedIsDead`), and succeeds exactly if no key it reaches is
being resolved or reaches itself (`ResolvedIf`, `ResolvedOnlyIf`). The three
properties are about the end of the loop; the inductive invariant `IInv` is about
its middle: the keys passed hold what the stored values make of them, and the
others what was stored (`Partly`). It is inductive because a text resolves to the
same against such a map as against the original one (`SameAsStored`), which
rests on this: what went in for a placeholder is dead, and stays so beside other
text (`Together`, `SameMatch`) as long as no placeholder can reach across its end.
A nested or unterminated one can, hence `NothingNested`.

Only model-checked: liveness under fairness, which is out of TLAPS's reach:
`EveryCallAnswered`, `AnsweredEventually`, `EventuallyServing`, `EventuallyInService`,
`OutageEmptiesService`, `StopsWithoutKill`, and the liveness part of
`ImplementsPartialWrite`, whose safety part is `RefinesPartialWrite`.

## 6. What is not modelled

- The bytes of an operation (`calculateOperationSize`): whether its estimate is
  enough depends on what the Consul client writes and what Consul counts, and
  neither is in this repository.
- The output formats (`buildPropertiesText`, `buildEnvironment`,
  `marshalWithSingleQuotes`): layout of what `Placeholders` and `NestedDocument`
  produce, with the quoting done by a YAML library. One consequence is listed as
  a hazard: a line break in a value is not escaped in `.properties`.
- Case in paths: fiber matches the fixed parts of a route, `applications` or
  `.json`, in any case (the configuration leaves `CaseSensitive` off);
  `SegmentMatches` compares them as they are, so URLs in other spellings are not in
  the model.
- Malformed JSON and invalid percent-encodings, which are refused with 400 before
  a handler looks at them; the wording of errors.
- Tracing, metrics, logging, the security of the calls, the library that watches
  Consul for the service's own settings.
- In `HttpApi`, names that are a directory of another and keys that contain an
  entity: the code does not escape names and decodes an entity it did not encode.
- The generated API documentation, the generated mock, the Helm chart beyond its
  probes.

## 7. Plan

Done, in the order of importance: batcher, write requests, startup, merged read,
nested document, placeholders, lifecycle, paths and the HTTP interface.

Next, models:

1. A read of keys that a split write is changing: `ConfigWrites` with
   `MergedRead`, to state what a reader sees of a half-applied request.
2. The `.properties` text as lines, and what its reader makes of them.

Next, a theorem: for the composition of `ConfigWrites` and `MergedRead`, that a
reader sees a growing prefix of a split request, from `RefinesAtomicWrites`.
