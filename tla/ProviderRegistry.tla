-------------------------- MODULE ProviderRegistry --------------------------
(***************************************************************************)
(* The Provider profiles of a Backend (providers/files.py and              *)
(* providers/registry.py): a document is validated as a whole and swapped  *)
(* in, Workers get an environment with the credentials of their Provider,  *)
(* and model lists are fetched in a thread and cached, while the document  *)
(* is edited and reloaded.  The variable with the base address goes the    *)
(* way of the credential and is left out.                                  *)
(***************************************************************************)
EXTENDS Naturals, FiniteSets

CONSTANTS
    Providers,
    Callers,        \* concurrent requests for a model list
    Documents,      \* what the Provider file may hold, by Provider, or None
    Environment,    \* the credentials in the Backend's own environment, by name
    None,
    MaxReloads      \* bound on the generations

VARIABLES
    document,       \* what the Provider file holds
    profiles,       \* _profiles
    generation,     \* _generation
    names,          \* _credential_environment_names
    error,          \* _configuration_error
    cache,          \* _cache of the discovery
    call,           \* what each request is doing
    history         \* the profiles of every generation

registry == <<profiles, generation, names, error, history>>
vars == <<document, registry, cache, call>>

Names == DOMAIN Environment

-----------------------------------------------------------------------------
(* The document.                                                           *)

\* discovery.mode, or what the profile suggests.
DiscoveryMode(p) ==
    IF p.mode # None THEN p.mode
    ELSE IF p.models # {} THEN "static"
    ELSE IF p.base # None THEN "openai" ELSE "disabled"

\* ProviderFileProfile: a credential is given once, and there is something to call.
ValidProfile(p) ==
    /\ p.key = None \/ p.source = None
    /\ p.base # None \/ p.models # {}
    /\ DiscoveryMode(p) = "static" => p.models # {}

\* load_provider_file: one bad profile refuses the document.
ValidDocument(d) ==
    /\ DOMAIN d # {}
    /\ \A i \in DOMAIN d : ValidProfile(d[i])

\* The credential: in the document, or named by it.
Credential(p) ==
    IF p.key # None THEN p.key
    ELSE IF p.source \in Names THEN Environment[p.source] ELSE None

Resolve(p) ==
    [base |-> p.base, key |-> Credential(p), dest |-> p.dest, source |-> p.source,
     discovery |-> DiscoveryMode(p), models |-> p.models, ttl |-> p.ttl]

\* The profiles of a valid document, by Provider.
Load(d) == [i \in Providers |-> IF i \in DOMAIN d THEN Resolve(d[i]) ELSE None]

Present(ps) == {i \in Providers : ps[i] # None}

\* The variables that carry a credential of some profile, in or out.
CredentialNames(ps) ==
    UNION {{ps[i].dest, ps[i].source} \ {None} : i \in Present(ps)}

-----------------------------------------------------------------------------
(* The registry.                                                           *)

Empty == [i \in Providers |-> None]

\* from_loader: a bad document leaves the Backend without Providers, and running.
Init ==
    /\ document \in Documents
    /\ profiles = IF ValidDocument(document) THEN Load(document) ELSE Empty
    /\ error = ~ValidDocument(document)
    /\ generation = 0
    /\ names = CredentialNames(profiles)
    /\ history = [g \in {0} |-> profiles]
    /\ cache = Empty
    /\ call = [c \in Callers |-> [pc |-> "idle"]]

Edit ==
    /\ document' \in Documents \ {document}
    /\ UNCHANGED <<registry, cache, call>>

\* The names of a profile stay known after it is gone.
NamesAfter(known, current) == known \cup CredentialNames(current)

\* reload_providers: the candidate is complete before the swap, and the model
\* lists are dropped with it.
Reload ==
    /\ generation < MaxReloads
    /\ ValidDocument(document)
    /\ profiles' = Load(document)
    /\ error' = FALSE
    /\ names' = NamesAfter(names, profiles')
    /\ generation' = generation + 1
    /\ history' = [g \in DOMAIN history \cup {generation'} |->
                      IF g = generation' THEN profiles' ELSE history[g]]
    /\ cache' = Empty
    /\ UNCHANGED <<document, call>>

ReloadRefused ==
    /\ ~ValidDocument(document)
    /\ error' = TRUE
    /\ UNCHANGED <<document, profiles, generation, names, history, cache, call>>

\* worker_environment: what a Worker of the Provider finds under each name.
WorkerEnvironment(i) ==
    [n \in Names \cup {profiles[i].dest} |->
        IF n = profiles[i].dest /\ profiles[i].key # None THEN profiles[i].key
        ELSE IF n \in names THEN None
        ELSE Environment[n]]

-----------------------------------------------------------------------------
(* ProviderModelDiscovery.models.                                          *)

\* What the Provider answers: its models are those of its endpoint.
Catalog(p) == IF p.discovery = "static" THEN p.models ELSE {p.base}

\* Variant: an entry is good until it expires.
HitOfAnyGeneration(i) == cache[i] # None /\ cache[i].fresh

\* An entry answers as long as it is fresh and of this generation.
CacheHit(i) ==
    /\ cache[i] # None
    /\ cache[i].fresh
    /\ cache[i].generation = generation

Done(c, j, models) ==
    call' = [call EXCEPT ![c] =
        [pc |-> "done", provider |-> j.provider, generation |-> j.generation, models |-> models]]

\* The entry carries the generation its profile was read with.
Store(c, j) ==
    /\ cache' = [cache EXCEPT ![j.provider] =
            [models |-> Catalog(j.profile), fresh |-> j.profile.ttl > 0,
             generation |-> j.generation]]
    /\ Done(c, j, Catalog(j.profile))

Ask(c, i, refresh) ==
    LET j == [pc |-> "fetch", provider |-> i, profile |-> profiles[i], generation |-> generation]
    IN /\ call[c].pc = "idle"
       /\ profiles[i] # None
       /\ \/ /\ CacheHit(i) /\ ~refresh
             /\ Done(c, j, cache[i].models)
             /\ UNCHANGED cache
          \/ /\ ~CacheHit(i) \/ refresh
             /\ profiles[i].discovery = "static"
             /\ Store(c, j)
          \/ /\ ~CacheHit(i) \/ refresh
             /\ profiles[i].discovery = "openai" /\ profiles[i].base # None
             /\ call' = [call EXCEPT ![c] = j]
             /\ UNCHANGED cache
       /\ UNCHANGED <<document, registry>>

\* The thread comes back, after any number of reloads.
FetchDone(c) ==
    /\ call[c].pc = "fetch"
    /\ Store(c, call[c])
    /\ UNCHANGED <<document, registry>>

FetchFails(c) ==
    /\ call[c].pc = "fetch"
    /\ call' = [call EXCEPT ![c] = [pc |-> "idle"]]
    /\ UNCHANGED <<document, registry, cache>>

Answer(c) ==
    /\ call[c].pc = "done"
    /\ call' = [call EXCEPT ![c] = [pc |-> "idle"]]
    /\ UNCHANGED <<document, registry, cache>>

Expire(i) ==
    /\ cache[i] # None /\ cache[i].fresh
    /\ cache' = [cache EXCEPT ![i].fresh = FALSE]
    /\ UNCHANGED <<document, registry, call>>

-----------------------------------------------------------------------------
Next ==
    \/ Edit \/ Reload \/ ReloadRefused
    \/ \E i \in Providers : Expire(i)
    \/ \E c \in Callers :
        \/ \E i \in Providers, refresh \in BOOLEAN : Ask(c, i, refresh)
        \/ FetchDone(c) \/ FetchFails(c) \/ Answer(c)

Spec == Init /\ [][Next]_vars

-----------------------------------------------------------------------------
\* A model list is of the profile the registry had when it was asked for: neither
\* a fetch that outlives a reload nor the entry it leaves in the cache shows the
\* models of an endpoint that is gone.
ListsMatchTheProfile ==
    \A c \in Callers : call[c].pc = "done" =>
        call[c].models = Catalog(history[call[c].generation][call[c].provider])

\* A Worker finds no credential of the Backend's environment that any profile was
\* ever loaded from, of another Provider, of one that was removed or of its own
\* before the key was changed: only the one its Provider has now.
CredentialsStayHome ==
    \A i \in Present(profiles), g \in DOMAIN history :
        \A n \in CredentialNames(history[g]) \cap Names :
            WorkerEnvironment(i)[n] \in {None, profiles[i].key}

-----------------------------------------------------------------------------
(* What the two rest on.                                                   *)

\* A cached list is that of a profile of the generation it carries.
EntryMatches(i, e) ==
    \E g \in 0..generation :
        /\ history[g][i] # None
        /\ e = [models |-> Catalog(history[g][i]), fresh |-> e.fresh, generation |-> g]

\* So is a request under way, and an answer.
CallMatches(j) ==
    \E i \in Providers, g \in 0..generation :
        /\ history[g][i] # None
        /\ \/ j = [pc |-> "fetch", provider |-> i, profile |-> history[g][i], generation |-> g]
           \/ j = [pc |-> "done", provider |-> i, generation |-> g,
                   models |-> Catalog(history[g][i])]

\* The history ends with the profiles, and the names of every generation stay known.
RegistryInvariant ==
    /\ generation \in Nat
    /\ history = [g \in 0..generation |-> history[g]]
    /\ history[generation] = profiles
    /\ \A g \in 0..generation : CredentialNames(history[g]) \subseteq names
    /\ cache = [i \in Providers |-> cache[i]]
    /\ \A i \in Providers : cache[i] # None => EntryMatches(i, cache[i])
    /\ call = [c \in Callers |-> call[c]]
    /\ \A c \in Callers : call[c] # [pc |-> "idle"] => CallMatches(call[c])

=============================================================================
