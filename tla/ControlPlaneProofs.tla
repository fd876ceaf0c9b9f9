------------------------- MODULE ControlPlaneProofs -------------------------
(***************************************************************************)
(* Proofs about the services of ControlPlane.  Each service keeps an       *)
(* inductive invariant of its own, stated in its module, and the property  *)
(* of the service follows from it in every state.  The last section is     *)
(* about the mailbox of a Runner (MessageBus), a service of another kind   *)
(* with a state and a specification of its own.                            *)
(***************************************************************************)
EXTENDS ControlPlane, MessageBus, FiniteSetTheorems, NaturalsInduction, WellFoundedInduction,
        SequenceTheorems, TLAPS

\* A step of the services is one of the service that was chosen.
LEMMA ServiceStep ==
    ASSUME [ServicesNext /\ UNCHANGED part]_<<part, serviceVars>>
    PROVE  /\ part' = part
           /\ part = "artifacts" => A!Next \/ UNCHANGED artifactVars
           /\ part = "providers" => P!Next \/ UNCHANGED providerVars
           /\ part = "keys" => K!Next \/ UNCHANGED keyVars
           /\ part = "status" => C!Next \/ UNCHANGED statusVars
           /\ part = "probes" => Q!Next \/ UNCHANGED probeVars
           /\ part = "threads" => T!Next \/ UNCHANGED threadVars
           /\ part = "prompts" => I!Next \/ UNCHANGED promptVars
           /\ part = "views" => V!Next \/ UNCHANGED viewVars
  BY DEF ServicesNext, serviceVars

-----------------------------------------------------------------------------
(* The trusted keys.                                                       *)

LEMMA FileInit == ASSUME K!Init PROVE K!FileInvariant
  <1>1. (CHOOSE k \in FileKeys : TRUE) \in FileKeys
    BY KeysAssumption
  <1>2. /\ now \in Nat /\ nextCheck \in Nat
        /\ file \in [key : FileKeys \cup {Bad}, signature : Nat]
        /\ active \in [key : FileKeys, signature : 0..file.signature]
        /\ noticed \in [FileKeys -> [at : 0..now, by : 0..active.signature]]
    BY <1>1 DEF K!Init, K!NotReplaced
  <1>3. K!GraceKept(previous, noticed)
    BY DEF K!Init, K!GraceKept, K!NoKey, K!NotReplaced
  <1> QED  BY <1>2, <1>3 DEF K!FileInvariant

\* A key that has expired is dropped with nothing lost.
LEMMA ExpiryKeeps ==
    ASSUME now \in Nat, NEW notes \in [FileKeys -> [at : Nat, by : Nat]], NEW p,
           K!GraceKept(p, notes)
    PROVE  K!GraceKept(K!ExpirePrevious(p), notes)
  BY KeysAssumption DEF K!GraceKept, K!ExpirePrevious

\* What a look at the file makes of the keys keeps the grace: the key it replaces
\* is the last one, because files are numbered upwards.
LEMMA RefreshKeeps ==
    ASSUME K!FileInvariant
    PROVE  /\ K!Refreshed.active \in [key : FileKeys, signature : 0..file.signature]
           /\ K!Refreshed.nextCheck \in Nat
           /\ K!Refreshed.noticed \in [FileKeys -> [at : 0..now, by : 0..K!Refreshed.active.signature]]
           /\ K!GraceKept(K!Refreshed.previous, K!Refreshed.noticed)
  <1> DEFINE same == file.signature = active.signature
             rotated == ~same /\ file.key \notin {Bad, active.key}
  <1> USE KeysAssumption DEF K!FileInvariant
  <1>1. CASE now < nextCheck
    BY <1>1 DEF K!Refreshed
  <1>2. CASE ~(now < nextCheck) /\ rotated
    BY <1>2 DEF K!Refreshed, K!GraceKept
  <1>3. CASE ~(now < nextCheck) /\ ~rotated
    <2>1. K!Refreshed.noticed = noticed
      BY <1>3 DEF K!Refreshed
    <2>2. K!Refreshed.active \in {active, file} /\ active.signature <= file.signature
      BY <1>3 DEF K!Refreshed
    <2>3. K!Refreshed.active \in [key : FileKeys, signature : active.signature..file.signature]
      BY <1>3 DEF K!Refreshed
    <2>4. K!Refreshed.noticed \in [FileKeys -> [at : 0..now, by : 0..K!Refreshed.active.signature]]
      BY <2>1, <2>3
    <2>5. K!Refreshed.previous \in {previous, K!ExpirePrevious(previous)}
      BY <1>3 DEF K!Refreshed
    <2>6. K!GraceKept(K!Refreshed.previous, noticed)
      BY <2>5, ExpiryKeeps
    <2>7. K!Refreshed.nextCheck \in Nat
      BY <1>3 DEF K!Refreshed
    <2> QED  BY <2>1, <2>3, <2>4, <2>6, <2>7
  <1> QED  BY <1>1, <1>2, <1>3

\* The bootstrap key follows its file.
LEMMA FileStep == ASSUME K!FileInvariant, K!Next \/ UNCHANGED keyVars PROVE K!FileInvariant'
  <1>1. CASE K!Tick
    <2>1. K!GraceKept(previous, noticed)'
      BY <1>1, KeysAssumption DEF K!Tick, K!fileVars, K!FileInvariant, K!GraceKept
    <2> QED  BY <1>1, <2>1 DEF K!Tick, K!fileVars, K!FileInvariant
  <1>2. CASE K!ReplaceFile
    <2>1. K!GraceKept(previous, noticed)'
      BY <1>2 DEF K!ReplaceFile, K!FileInvariant, K!GraceKept
    <2> QED  BY <1>2, <2>1 DEF K!ReplaceFile, K!FileInvariant
  <1>3. CASE K!Verify
    <2>1. K!GraceKept(K!PreviousAtVerify, K!Refreshed.noticed)
      BY RefreshKeeps, ExpiryKeeps DEF K!FileInvariant, K!PreviousAtVerify
    <2>2. K!GraceKept(previous, noticed)'
      BY <1>3, <2>1 DEF K!Verify, K!GraceKept
    <2> QED  BY <1>3, <2>2, RefreshKeeps DEF K!Verify, K!FileInvariant
  <1>4. CASE UNCHANGED <<now, K!fileVars>>
    BY <1>4 DEF K!fileVars, K!FileInvariant, K!GraceKept
  <1>5. (\E a \in Admins : K!BeginUpsert(a) \/ K!BeginRevoke(a) \/ K!Upsert(a) \/ K!Revoke(a)
                           \/ K!Abort(a)) => UNCHANGED <<now, K!fileVars>>
    BY DEF K!BeginUpsert, K!BeginRevoke, K!Begin, K!Upsert, K!Revoke, K!Abort
  <1>6. UNCHANGED keyVars => UNCHANGED <<now, K!fileVars>>
    BY DEF keyVars, K!fileVars
  <1> QED  BY <1>1, <1>2, <1>3, <1>4, <1>5, <1>6 DEF K!Next

\* The grace is exact whenever a token comes.
LEMMA FileInvariantSuffices == ASSUME K!FileInvariant PROVE K!BootstrapGraceIsExact
  <1> DEFINE notes == K!Refreshed.noticed
             p == K!PreviousAtVerify
             gone == {k \in FileKeys : notes[k].by > 0}
             last == {k \in gone : \A j \in gone : notes[j].by <= notes[k].by}
  <1>1. K!GraceKept(p, notes)
    BY RefreshKeeps, ExpiryKeeps DEF K!FileInvariant, K!PreviousAtVerify
  <1>2. K!Refreshed.active.key \in FileKeys /\ now \in Nat
        /\ notes \in [FileKeys -> [at : Nat, by : Nat]]
    BY RefreshKeeps DEF K!FileInvariant
  <1>3. p = K!NoKey \/ ~(now >= p.until)
    BY DEF K!PreviousAtVerify, K!ExpirePrevious
  <1>4. CASE p = K!NoKey /\ \A k \in FileKeys : notes[k].by > 0 => now >= notes[k].at + Grace
    <2>1. p.key = Nothing
      BY <1>4 DEF K!NoKey
    <2>2. {k \in last : now < notes[k].at + Grace} = {}
      BY <1>4, <1>2, KeysAssumption
    <2> QED  BY <2>1, <2>2, <1>2, KeysAssumption DEF K!BootstrapGraceIsExact, K!BootstrapKeys
  <1>5. CASE /\ p = [key |-> p.key, until |-> notes[p.key].at + Grace]
             /\ p.key \in FileKeys /\ notes[p.key].by > 0
             /\ \A k \in FileKeys \ {p.key} :
                    notes[k].by < notes[p.key].by /\ notes[k].at <= notes[p.key].at
    <2>0. p # K!NoKey
      BY <1>5, KeysAssumption DEF K!NoKey
    <2>1. now < notes[p.key].at + Grace
      BY <2>0, <1>3, <1>5, <1>2, KeysAssumption
    <2>2. last = {p.key}
      BY <1>5, <1>2
    <2>3. {k \in last : now < notes[k].at + Grace} = {p.key}
      BY <2>1, <2>2
    <2> QED  BY <2>3, <1>2, <1>5, KeysAssumption DEF K!BootstrapGraceIsExact, K!BootstrapKeys
  <1> QED  BY <1>1, <1>4, <1>5 DEF K!GraceKept

LEMMA ClientInit == ASSUME K!Init PROVE K!ClientInvariant
  BY DEF K!Init, K!ClientInvariant, K!Absent, K!KeyRows, K!Transactions, K!NoTransaction

\* An upsert leaves every other key disabled, expired or with the grace it gives.
LEMMA UpsertKeeps ==
    ASSUME K!ClientInvariant, NEW a \in Admins, K!Upsert(a) PROVE K!ClientInvariant'
  <1> DEFINE t == transaction[a]
  <1> USE KeysAssumption DEF K!ClientInvariant
  <1>1. t \in [kind : {"upsert"}, key : ClientKeys, user : {"absent", "enabled", "disabled"},
               row : K!KeyRows, at : Nat]
    BY DEF K!Upsert, K!Transactions, K!NoTransaction
  <1> HIDE DEF t
  <1>2. lastWrite' = [kind |-> "upsert", key |-> t.key, at |-> t.at]
    BY DEF K!Upsert, t
  <1>3. K!WrittenRow(t) \in K!KeyRows
    BY <1>1 DEF K!WrittenRow, K!KeyRows
  <1>4. row' = [k \in ClientKeys |->
                  IF k = t.key THEN K!WrittenRow(t)
                  ELSE IF k \in K!CurrentKeys(t) THEN [row[k] EXCEPT !.until = t.at + Grace]
                  ELSE row[k]]
    BY DEF K!Upsert, t
  <1>5. row' \in [ClientKeys -> K!KeyRows]
    BY <1>1, <1>3, <1>4 DEF K!KeyRows
  <1>6. ASSUME NEW k \in ClientKeys, row'[k].enabled, k # t.key
        PROVE  row'[k].until \in Nat /\ row'[k].until <= t.at + Grace
    BY <1>1, <1>4, <1>6 DEF K!CurrentKeys, K!KeyRows
  <1>7. transaction' \in [Admins -> K!Transactions]
    BY DEF K!Upsert, K!Transactions
  <1>8. user' \in {"absent", "enabled", "disabled"} /\ now' \in Nat
    BY DEF K!Upsert
  <1> QED  BY <1>1, <1>2, <1>5, <1>6, <1>7, <1>8

\* Transactions that overlap leave the keys of a client as the last one says.
LEMMA ClientStep == ASSUME K!ClientInvariant, K!Next \/ UNCHANGED keyVars PROVE K!ClientInvariant'
  <1>1. CASE UNCHANGED K!clientVars /\ now' \in Nat
    BY <1>1 DEF K!clientVars, K!ClientInvariant
  <1>2. K!Tick \/ K!ReplaceFile \/ K!Verify \/ UNCHANGED keyVars =>
            UNCHANGED K!clientVars /\ now' \in Nat
    BY DEF K!Tick, K!ReplaceFile, K!Verify, keyVars, K!clientVars, K!ClientInvariant
  <1>3. ASSUME NEW a \in Admins, K!BeginUpsert(a) \/ K!BeginRevoke(a) PROVE K!ClientInvariant'
    BY <1>3 DEF K!BeginUpsert, K!BeginRevoke, K!Begin, K!ClientInvariant, K!Transactions
  <1>4. ASSUME NEW a \in Admins, K!Revoke(a) PROVE K!ClientInvariant'
    <2>1. row' = [k \in ClientKeys |-> [row[k] EXCEPT !.enabled = FALSE]]
      BY <1>4 DEF K!Revoke
    <2>2. row' \in [ClientKeys -> K!KeyRows] /\ \A k \in ClientKeys : ~row'[k].enabled
      BY <2>1 DEF K!ClientInvariant, K!KeyRows
    <2>3. transaction' \in [Admins -> K!Transactions]
      BY <1>4 DEF K!Revoke, K!ClientInvariant, K!Transactions
    <2>4. transaction[a].at \in Nat
      BY <1>4 DEF K!Revoke, K!ClientInvariant, K!Transactions, K!NoTransaction
    <2>5. lastWrite' \in [kind : {"none", "upsert", "revoke"}, key : ClientKeys \cup {Nothing}, at : Nat]
      BY <1>4, <2>4 DEF K!Revoke
    <2>6. user' \in {"absent", "enabled", "disabled"} /\ now' \in Nat
      BY <1>4 DEF K!Revoke, K!ClientInvariant
    <2> QED  BY <2>2, <2>3, <2>5, <2>6 DEF K!ClientInvariant
  <1>5. ASSUME NEW a \in Admins, K!Abort(a) PROVE K!ClientInvariant'
    BY <1>5 DEF K!Abort, K!ClientInvariant, K!Transactions
  <1> QED  BY <1>1, <1>2, <1>3, <1>4, <1>5, UpsertKeeps DEF K!Next

LEMMA ClientInvariantSuffices ==
    ASSUME K!ClientInvariant PROVE K!ClientKeysFollowTheLastWrite
  BY KeysAssumption DEF K!ClientInvariant, K!ClientKeysFollowTheLastWrite, K!Trusted, K!KeyRows

\* In every state of the trusted keys (api/auth.py, upsert_trusted_client,
\* revoke_trusted_client), for any keys, superusers, grace and interval: a replaced
\* bootstrap key is accepted for just its grace, and a client's keys are those its
\* last committed change left it.
THEOREM KeysAlwaysExpire == ServicesSpec => []KeysExpireAsSaid
  <1> DEFINE Inv == part = "keys" => K!FileInvariant /\ K!ClientInvariant
  <1>1. ServicesInit => Inv
    BY FileInit, ClientInit DEF ServicesInit
  <1>2. Inv /\ [ServicesNext /\ UNCHANGED part]_<<part, serviceVars>> => Inv'
    BY ServiceStep, FileStep, ClientStep
  <1>3. Inv => KeysExpireAsSaid
    BY FileInvariantSuffices, ClientInvariantSuffices DEF KeysExpireAsSaid
  <1> QED  BY <1>1, <1>2, <1>3, PTL DEF ServicesSpec

-----------------------------------------------------------------------------
(* The Provider registry.                                                  *)

LEMMA RegistryInit == ASSUME P!Init PROVE P!RegistryInvariant
  <1>1. generation = 0 /\ history = [g \in {0} |-> profiles] /\ 0..generation = {0}
    BY DEF P!Init
  <1>2. history = [g \in 0..generation |-> history[g]] /\ history[0] = profiles
    BY <1>1
  <1>3. \A g \in 0..generation : P!CredentialNames(history[g]) \subseteq names
    BY <1>1 DEF P!Init
  <1> QED  BY <1>1, <1>2, <1>3 DEF P!Init, P!Empty, P!RegistryInvariant

\* What matches a generation does so for good.
LEMMA MatchesStay ==
    ASSUME generation \in Nat, generation' \in Nat, generation <= generation',
           \A g \in 0..generation : history'[g] = history[g]
    PROVE  /\ \A i, e : P!EntryMatches(i, e) => P!EntryMatches(i, e)'
           /\ \A j : P!CallMatches(j) => P!CallMatches(j)'
  <1>1. 0..generation \subseteq 0..generation'
    OBVIOUS
  <1>2. ASSUME NEW i, NEW e, P!EntryMatches(i, e) PROVE P!EntryMatches(i, e)'
    BY <1>1, <1>2 DEF P!EntryMatches
  <1>3. ASSUME NEW j, P!CallMatches(j) PROVE P!CallMatches(j)'
    BY <1>1, <1>3 DEF P!CallMatches
  <1> QED  BY <1>2, <1>3

\* The profiles stay, and the request of one caller or the list of one Provider
\* changes.
LEMMA DiscoveryKeeps ==
    ASSUME P!RegistryInvariant, UNCHANGED P!registry,
           cache' = [i \in Providers |-> cache'[i]],
           \A i \in Providers : cache'[i] = cache[i] \/ P!EntryMatches(i, cache'[i]),
           call' = [c \in Callers |-> call'[c]],
           \A c \in Callers : \/ call'[c] = call[c] \/ call'[c] = [pc |-> "idle"]
                              \/ P!CallMatches(call'[c])
    PROVE  P!RegistryInvariant'
  <1>1. /\ \A i, e : P!EntryMatches(i, e) => P!EntryMatches(i, e)'
        /\ \A j : P!CallMatches(j) => P!CallMatches(j)'
    BY MatchesStay DEF P!RegistryInvariant, P!registry
  <1>2. \A i \in Providers : cache'[i] # Nothing => P!EntryMatches(i, cache[i])'
    BY <1>1 DEF P!RegistryInvariant
  <1>3. \A c \in Callers : call'[c] # [pc |-> "idle"] => P!CallMatches(call[c])'
    BY <1>1 DEF P!RegistryInvariant
  <1> QED  BY <1>2, <1>3 DEF P!RegistryInvariant, P!registry

LEMMA ExpiredEntry ==
    ASSUME NEW e, NEW m, NEW f, NEW g, NEW v, e = [models |-> m, fresh |-> f, generation |-> g]
    PROVE  [e EXCEPT !.fresh = v] = [models |-> m, fresh |-> v, generation |-> g]
  OBVIOUS

LEMMA RegistryStep ==
    ASSUME P!RegistryInvariant, P!Next \/ UNCHANGED providerVars PROVE P!RegistryInvariant'
  <1>0. /\ cache = [i \in Providers |-> cache[i]]
        /\ call = [c \in Callers |-> call[c]]
        /\ generation \in Nat /\ generation \in 0..generation /\ history[generation] = profiles
    BY DEF P!RegistryInvariant
  <1>1. CASE UNCHANGED <<P!registry, cache, call>>
    BY <1>1, <1>0, DiscoveryKeeps
  <1>2. P!Edit \/ UNCHANGED providerVars => UNCHANGED <<P!registry, cache, call>>
    BY DEF P!Edit, providerVars, P!registry
  <1>3. CASE P!ReloadRefused
    <2>1. UNCHANGED <<profiles, generation, names, history, cache, call>>
      BY <1>3 DEF P!ReloadRefused
    <2>2. \A i, e : P!EntryMatches(i, e) => P!EntryMatches(i, e)'
      BY <2>1, <1>0, MatchesStay
    <2>3. \A j : P!CallMatches(j) => P!CallMatches(j)'
      BY <2>1, <1>0, MatchesStay
    <2> QED  BY <2>1, <2>2, <2>3 DEF P!RegistryInvariant
  <1>4. CASE P!Reload
    <2>1. generation' = generation + 1 /\ generation' \in Nat
          /\ 0..generation \subseteq 0..generation' /\ generation' \notin 0..generation
      BY <1>0, <1>4 DEF P!Reload
    <2>2. DOMAIN history \cup {generation'} = 0..generation'
      BY <2>1, <1>0 DEF P!RegistryInvariant
    <2>3. history' = [g \in 0..generation' |-> IF g = generation' THEN profiles' ELSE history[g]]
      BY <1>4, <2>2 DEF P!Reload
    <2>4. history'[generation'] = profiles' /\ \A g \in 0..generation : history'[g] = history[g]
      BY <2>1, <2>3
    <2>5. \A g \in 0..generation' : P!CredentialNames(history'[g]) \subseteq names'
      <3>1. names' = names \cup P!CredentialNames(profiles')
        BY <1>4 DEF P!Reload, P!NamesAfter
      <3>2. \A g \in 0..generation' : g \in 0..generation \/ g = generation'
        BY <2>1, <1>0
      <3> QED  BY <3>1, <3>2, <2>4 DEF P!RegistryInvariant
    <2>6. history' = [g \in 0..generation' |-> history'[g]]
      BY <2>3
    <2>7. cache' = [i \in Providers |-> cache'[i]] /\ \A i \in Providers : cache'[i] = Nothing
      BY <1>4 DEF P!Reload, P!Empty
    <2>8. \A c \in Callers : call'[c] # [pc |-> "idle"] => P!CallMatches(call[c])'
      BY <1>4, <1>0, <2>1, <2>4, MatchesStay DEF P!RegistryInvariant, P!Reload
    <2>9. call' = [c \in Callers |-> call'[c]]
      BY <1>4, <1>0 DEF P!Reload
    <2> QED  BY <2>1, <2>4, <2>5, <2>6, <2>7, <2>8, <2>9 DEF P!RegistryInvariant
  <1>5. ASSUME NEW i \in Providers, P!Expire(i) PROVE P!RegistryInvariant'
    <2>1. P!EntryMatches(i, cache[i]) /\ cache' = [cache EXCEPT ![i].fresh = FALSE]
      BY <1>5 DEF P!Expire, P!RegistryInvariant
    <2>2. P!EntryMatches(i, cache'[i])
      <3>1. PICK g \in 0..generation :
                /\ history[g][i] # Nothing
                /\ cache[i] = [models |-> P!Catalog(history[g][i]), fresh |-> cache[i].fresh,
                               generation |-> g]
        BY <2>1 DEF P!EntryMatches
      <3> DEFINE m == P!Catalog(history[g][i])
                 f == cache[i].fresh
                 v == FALSE
      <3>2. cache'[i] = [cache[i] EXCEPT !.fresh = v]
        BY <2>1, <1>0
      <3>3. cache[i] = [models |-> m, fresh |-> f, generation |-> g]
        BY <3>1
      <3> HIDE DEF m, f, v
      <3>4. cache'[i] = [models |-> m, fresh |-> v, generation |-> g]
        BY <3>2, <3>3, ExpiredEntry
      <3>5. cache'[i] = [models |-> m, fresh |-> cache'[i].fresh, generation |-> g]
        BY <3>4
      <3> QED  BY <3>1, <3>5 DEF P!EntryMatches, m
    <2> QED  BY <1>0, <1>5, <2>1, <2>2, DiscoveryKeeps DEF P!Expire
  <1>6. ASSUME NEW c \in Callers, NEW j, NEW i \in Providers, NEW g \in 0..generation,
               j = [pc |-> "fetch", provider |-> i, profile |-> history[g][i], generation |-> g],
               history[g][i] # Nothing, P!Store(c, j), UNCHANGED P!registry
        PROVE  P!RegistryInvariant'
    <2>1. cache' = [cache EXCEPT ![i] =
                [models |-> P!Catalog(history[g][i]), fresh |-> history[g][i].ttl > 0,
                 generation |-> g]]
      BY <1>6 DEF P!Store
    <2>2. call' = [call EXCEPT ![c] =
                [pc |-> "done", provider |-> i, generation |-> g, models |-> P!Catalog(history[g][i])]]
      BY <1>6 DEF P!Store, P!Done
    <2>3. P!EntryMatches(i, cache'[i])
      BY <2>1, <1>0, <1>6 DEF P!EntryMatches
    <2>4. P!CallMatches(call'[c])
      BY <2>2, <1>0, <1>6 DEF P!CallMatches
    <2> QED  BY <1>0, <1>6, <2>1, <2>2, <2>3, <2>4, DiscoveryKeeps
  <1>7. ASSUME NEW c \in Callers, NEW i \in Providers, NEW refresh \in BOOLEAN, P!Ask(c, i, refresh)
        PROVE  P!RegistryInvariant'
    <2> DEFINE j == [pc |-> "fetch", provider |-> i, profile |-> history[generation][i],
                     generation |-> generation]
    <2>1. history[generation][i] # Nothing /\ UNCHANGED P!registry
      BY <1>7, <1>0 DEF P!Ask
    <2>2. \/ P!CacheHit(i) /\ P!Done(c, j, cache[i].models) /\ UNCHANGED cache
          \/ P!Store(c, j)
          \/ call' = [call EXCEPT ![c] = j] /\ UNCHANGED cache
      BY <1>7, <1>0 DEF P!Ask
    <2>3. CASE P!CacheHit(i) /\ P!Done(c, j, cache[i].models) /\ UNCHANGED cache
      <3>1. cache[i].models = P!Catalog(history[generation][i])
        BY <2>3 DEF P!CacheHit, P!RegistryInvariant, P!EntryMatches
      <3>2. call' = [call EXCEPT ![c] =
                [pc |-> "done", provider |-> i, generation |-> generation, models |-> cache[i].models]]
        BY <2>3 DEF P!Done
      <3>3. P!CallMatches(call'[c])
        BY <3>1, <3>2, <2>1, <1>0 DEF P!CallMatches
      <3> QED  BY <1>0, <2>1, <2>3, <3>2, <3>3, DiscoveryKeeps
    <2>4. CASE P!Store(c, j)
      BY <1>0, <1>6, <2>1, <2>4
    <2>5. CASE call' = [call EXCEPT ![c] = j] /\ UNCHANGED cache
      <3>1. P!CallMatches(call'[c])
        BY <2>1, <2>5, <1>0 DEF P!CallMatches
      <3> QED  BY <1>0, <2>1, <2>5, <3>1, DiscoveryKeeps
    <2> QED  BY <2>2, <2>3, <2>4, <2>5
  <1>8. ASSUME NEW c \in Callers, P!FetchDone(c) PROVE P!RegistryInvariant'
    <2>1. P!CallMatches(call[c]) /\ call[c].pc = "fetch"
      BY <1>8 DEF P!FetchDone, P!RegistryInvariant
    <2>2. PICK i \in Providers, g \in 0..generation :
            /\ history[g][i] # Nothing
            /\ call[c] = [pc |-> "fetch", provider |-> i, profile |-> history[g][i], generation |-> g]
      BY <2>1 DEF P!CallMatches
    <2> QED  BY <1>6, <1>8, <2>2 DEF P!FetchDone
  <1>9. ASSUME NEW c \in Callers, P!FetchFails(c) \/ P!Answer(c) PROVE P!RegistryInvariant'
    BY <1>0, <1>9, DiscoveryKeeps DEF P!FetchFails, P!Answer
  <1> QED  BY <1>1, <1>2, <1>3, <1>4, <1>5, <1>7, <1>8, <1>9 DEF P!Next

LEMMA RegistryInvariantSuffices ==
    ASSUME P!RegistryInvariant PROVE P!ListsMatchTheProfile /\ P!CredentialsStayHome
  <1>1. P!ListsMatchTheProfile
    BY DEF P!RegistryInvariant, P!ListsMatchTheProfile, P!CallMatches
  <1>2. P!CredentialsStayHome
    BY DEF P!RegistryInvariant, P!CredentialsStayHome, P!WorkerEnvironment
  <1> QED  BY <1>1, <1>2

\* In every state of the Provider registry (providers/registry.py), for any
\* documents, credentials and numbers of reloads and concurrent fetches: a model
\* list is of the profile it was asked for, and a Worker finds no credential that a
\* profile of any generation was loaded from but its own Provider's.
THEOREM ProfilesStayApart == ServicesSpec => []ProfilesAreKeptApart
  <1> DEFINE Inv == part = "providers" => P!RegistryInvariant
  <1>1. ServicesInit => Inv
    BY RegistryInit DEF ServicesInit
  <1>2. Inv /\ [ServicesNext /\ UNCHANGED part]_<<part, serviceVars>> => Inv'
    BY ServiceStep, RegistryStep
  <1>3. Inv => ProfilesAreKeptApart
    BY RegistryInvariantSuffices DEF ProfilesAreKeptApart
  <1> QED  BY <1>1, <1>2, <1>3, PTL DEF ServicesSpec

-----------------------------------------------------------------------------
(* The artifact caches.                                                    *)

LEMMA CacheInit == ASSUME A!Init PROVE A!CacheInvariant
  <1>1. head \in Commits
    BY ArtifactsAssumption DEF A!Init
  <1>2. A!ConfigInvariant
    BY ArtifactsAssumption DEF A!Init, A!ConfigInvariant
  <1>3. A!FilesInvariant
    BY <1>1 DEF A!Init, A!FilesInvariant
  <1>4. A!EntriesInvariant
    BY DEF A!Init, A!EntriesInvariant
  <1>5. A!FrozenInvariant
    <2>1. \A f \in frozen : f = [revision |-> head, content |-> head]
      BY DEF A!Init, A!Entry
    <2>2. [revision |-> head, content |-> head] \in A!Entries
      BY <1>1 DEF A!Entries, A!Revisions
    <2> QED  BY <2>1, <2>2 DEF A!FrozenInvariant
  <1>6. A!JobsInvariant
    BY DEF A!Init, A!JobsInvariant
  <1> QED  BY <1>2, <1>3, <1>4, <1>5, <1>6 DEF A!CacheInvariant

\* The parts of the invariant are about separate variables.
LEMMA ConfigKept ==
    ASSUME UNCHANGED A!config
    PROVE  /\ A!ConfigInvariant => A!ConfigInvariant'
           /\ \A b, r, e : A!Faithful(b, r, e) => A!Faithful(b, r, e)'
           /\ \A t, j : A!JobFaithful(t, j) => A!JobFaithful(t, j)'
           /\ UNCHANGED entries /\ A!EntriesInvariant => A!EntriesInvariant'
           /\ UNCHANGED frozen /\ A!FrozenInvariant => A!FrozenInvariant'
           /\ UNCHANGED job /\ A!JobsInvariant => A!JobsInvariant'
  <1> USE DEF A!config
  <1>1. A!ConfigInvariant => A!ConfigInvariant'
    BY DEF A!ConfigInvariant
  <1>2. \A b, r, e : A!Faithful(b, r, e) => A!Faithful(b, r, e)'
    BY DEF A!Faithful
  <1>3. \A t, j : A!JobFaithful(t, j) => A!JobFaithful(t, j)'
    BY DEF A!JobFaithful, A!Faithful, A!Telling, A!Online
  <1>4. UNCHANGED entries /\ A!EntriesInvariant => A!EntriesInvariant'
    BY <1>2 DEF A!EntriesInvariant
  <1>5. UNCHANGED frozen /\ A!FrozenInvariant => A!FrozenInvariant'
    BY DEF A!FrozenInvariant, A!Telling
  <1>6. UNCHANGED job /\ A!JobsInvariant => A!JobsInvariant'
    BY <1>3 DEF A!JobsInvariant
  <1> QED  BY <1>1, <1>2, <1>3, <1>4, <1>5, <1>6

LEMMA FilesKept == ASSUME UNCHANGED <<head, A!files>>, A!FilesInvariant PROVE A!FilesInvariant'
  BY DEF A!files, A!FilesInvariant

\* A thread that goes on, or gives up.
LEMMA StepKept ==
    ASSUME A!JobsInvariant, UNCHANGED A!config, NEW t \in Threads, NEW j, A!Step(t, j),
           j = A!NoJob \/ A!JobFaithful(t, j)
    PROVE  A!JobsInvariant'
  <1>1. job' = [job EXCEPT ![t] = j]
    BY DEF A!Step
  <1>2. job' = [s \in Threads |-> job'[s]] /\ \A s \in Threads : job'[s] = IF s = t THEN j ELSE job[s]
    BY <1>1 DEF A!JobsInvariant
  <1>3. \A s \in Threads : job'[s] = A!NoJob \/ A!JobFaithful(s, job[s])'
    BY <1>2, ConfigKept DEF A!JobsInvariant
  <1> QED  BY <1>2, <1>3 DEF A!JobsInvariant

\* A thread with a faithful result remembers it under both names.
LEMMA FinishKept ==
    ASSUME A!CacheInvariant, UNCHANGED A!config, NEW t \in Threads, ~A!At(t, "idle"), NEW e,
           A!Faithful(backend[t], job[t].revision, e), A!Finish(t, e)
    PROVE  A!EntriesInvariant' /\ A!JobsInvariant'
  <1> DEFINE b == backend[t]
             r == job[t].revision
             j == [pc |-> "done", revision |-> r, expected |-> job[t].expected, result |-> e]
  <1>1. b \in Backends
    BY DEF A!CacheInvariant, A!ConfigInvariant
  <1>2. A!JobFaithful(t, job[t]) /\ job[t] \in A!Jobs
    BY DEF A!CacheInvariant, A!JobsInvariant, A!JobFaithful, A!At, A!NoJob
  <1>3. r \in A!Revisions /\ job[t].expected \in Commits \cup {Nothing}
    BY <1>2 DEF A!Jobs
  <1>4. e \in A!Entries /\ e.revision \in A!Revisions
    BY DEF A!Faithful, A!Entries
  <1>5. A!JobFaithful(t, j)
    <2>1. j \in A!Jobs
      BY <1>3, <1>4 DEF A!Jobs
    <2> QED  BY <1>2, <2>1 DEF A!JobFaithful
  <1>6. A!JobsInvariant'
    BY <1>5, StepKept DEF A!CacheInvariant, A!Finish
  <1>7. entries' = [entries EXCEPT ![b][r] = e, ![b][e.revision] = e]
    BY DEF A!Finish
  <1>8. A!Faithful(b, e.revision, e)
    BY DEF A!Faithful, A!CacheInvariant, A!ConfigInvariant
  <1>9. entries = [c \in Backends |-> [q \in A!Revisions |-> entries[c][q]]]
    BY DEF A!CacheInvariant, A!EntriesInvariant
  <1> HIDE DEF b, r
  <1>10. entries' = [c \in Backends |-> [q \in A!Revisions |->
                IF c = b /\ q \in {r, e.revision} THEN e ELSE entries[c][q]]]
    BY <1>1, <1>3, <1>4, <1>7, <1>9
  <1>11. \A c \in Backends, q \in A!Revisions :
                entries'[c][q] = A!NoEntry \/ A!Faithful(c, q, entries'[c][q])
    BY <1>8, <1>10 DEF A!CacheInvariant, A!EntriesInvariant, b, r
  <1>12. \A c \in Backends, q \in A!Revisions :
                entries'[c][q] = A!NoEntry \/ A!Faithful(c, q, entries[c][q])'
    BY <1>11, ConfigKept
  <1>13. entries' = [c \in Backends |-> [q \in A!Revisions |-> entries'[c][q]]]
    BY <1>10
  <1> QED  BY <1>6, <1>12, <1>13 DEF A!EntriesInvariant

LEMMA FailKept ==
    ASSUME A!CacheInvariant, UNCHANGED A!config, NEW t \in Threads, A!Fail(t)
    PROVE  A!EntriesInvariant' /\ A!JobsInvariant'
  BY StepKept, ConfigKept DEF A!CacheInvariant, A!Fail

\* A job that goes on with the same request.
LEMMA GoesOn ==
    ASSUME NEW t, NEW j, A!JobFaithful(t, j), j.pc # "done", NEW step, NEW c \in Commits,
           step \in {"lookup", "lock", "inspect", "load", "download", "files", "save", "rename"},
           step \in {"lock", "inspect", "load", "files", "save", "rename"} => kind = "tokenizer",
           A!Online(t) /\ j.revision \in Commits => c = j.revision
    PROVE  A!JobFaithful(t, [j EXCEPT !.pc = step, !.commit = c])
  <1> DEFINE k == [j EXCEPT !.pc = step, !.commit = c]
  <1>1. j \in [pc : {"lookup", "lock", "inspect", "load", "download", "files", "save", "rename"},
               revision : A!Revisions, expected : Commits \cup {Nothing},
               commit : Commits \cup {Nothing}]
    BY DEF A!JobFaithful, A!Jobs
  <1>2. k \in A!Jobs /\ k.pc = step /\ k.revision = j.revision /\ k.expected = j.expected /\ k.commit = c
    BY <1>1 DEF A!Jobs
  <1> QED  BY <1>2 DEF A!JobFaithful

LEMMA GoesOnSame ==
    ASSUME NEW t, NEW j, A!JobFaithful(t, j), j.pc # "done", NEW step,
           step \in {"lookup", "lock", "inspect", "load", "download", "files", "save", "rename"},
           step \in {"lock", "inspect", "load", "files", "save", "rename"} => kind = "tokenizer",
           step \in {"load", "files", "save", "rename"} =>
                j.pc \in {"load", "files", "save", "rename"}
    PROVE  A!JobFaithful(t, [j EXCEPT !.pc = step])
  <1> DEFINE k == [j EXCEPT !.pc = step]
  <1>1. j \in [pc : {"lookup", "lock", "inspect", "load", "download", "files", "save", "rename"},
               revision : A!Revisions, expected : Commits \cup {Nothing},
               commit : Commits \cup {Nothing}]
    BY DEF A!JobFaithful, A!Jobs
  <1>2. k \in A!Jobs /\ k.pc = step /\ k.revision = j.revision /\ k.expected = j.expected
        /\ k.commit = j.commit
    BY <1>1 DEF A!Jobs
  <1> QED  BY <1>2 DEF A!JobFaithful

\* The commits a request may be answered with.
LEMMA CandidatesAreFaithful ==
    ASSUME A!CacheInvariant, NEW t \in Threads, job[t].revision \in A!Revisions
    PROVE  LET r == job[t].revision IN
           /\ A!HubCommit(r) \in Commits /\ (r \in Commits => A!HubCommit(r) = r)
           /\ \A c \in A!DatasetFound(t) \cup A!SnapshotToLoad(t) \cup A!ExistingTarget(t) :
                c \in Commits /\ (A!Online(t) /\ r \in Commits => c = r)
           /\ \A c \in A!ExistingTarget(t) : target[c] = c
  <1> DEFINE r == job[t].revision
  <1> USE ArtifactsAssumption
  <1>1. r \in Commits \/ r = main
    BY DEF A!Revisions
  <1>2. head \in Commits /\ ref \in Commits \cup {Nothing} /\ \A c \in Commits : target[c] \in {Nothing, c}
    BY DEF A!CacheInvariant, A!FilesInvariant
  <1> HIDE DEF r
  <1>3. A!HubCommit(r) \in Commits /\ (r \in Commits => A!HubCommit(r) = r)
    BY <1>1, <1>2 DEF A!HubCommit
  <1>4. A!CachedCommit(r) \in Commits \cup {Nothing}
        /\ (r \in Commits => A!CachedCommit(r) \in {r, Nothing})
    BY <1>1, <1>2 DEF A!CachedCommit
  <1>5. A!OfflineDatasets(r) \subseteq Commits /\ A!OfflineSnapshots(r) \subseteq Commits
    BY DEF A!OfflineDatasets, A!OfflineSnapshots
  <1>6. \A c \in A!DatasetFound(t) \cup A!SnapshotToLoad(t) :
            c \in Commits /\ (A!Online(t) /\ r \in Commits => c = r)
    BY <1>4, <1>5 DEF A!DatasetFound, A!SnapshotToLoad, r
  <1>7. A!KnownCommit(r) \in Commits \cup {Nothing} /\ (r \in Commits => A!KnownCommit(r) = r)
    BY <1>1, <1>4 DEF A!KnownCommit
  <1>8. \A c \in A!ExistingTarget(t) :
            c \in Commits /\ (A!Online(t) /\ r \in Commits => c = r) /\ target[c] # Nothing
    BY <1>6, <1>7 DEF A!ExistingTarget, r
  <1> QED  BY <1>2, <1>3, <1>6, <1>8 DEF r

\* What memory holds of a revision whose directory is there.
LEMMA RememberedIsFaithful ==
    ASSUME A!CacheInvariant, NEW t \in Threads, kind = "tokenizer",
           job[t].revision \in A!Revisions, A!Remembered(t, job[t].revision)
    PROVE  A!Faithful(backend[t], job[t].revision,
                      A!Resolved(entries[backend[t]][job[t].revision].revision))
  <1> DEFINE b == backend[t]
             r == job[t].revision
             e == entries[b][r]
  <1>1. b \in Backends
    BY DEF A!CacheInvariant, A!ConfigInvariant
  <1>2. A!Faithful(b, r, e)
    BY <1>1 DEF A!CacheInvariant, A!EntriesInvariant, A!Remembered
  <1>3. e.revision = e.content /\ e.content \in Commits
    BY <1>2 DEF A!Faithful, A!Entries
  <1>4. target[e.revision] = e.revision
    BY <1>3 DEF A!CacheInvariant, A!FilesInvariant, A!Remembered
  <1> QED  BY <1>2, <1>3, <1>4 DEF A!Faithful, A!Resolved, A!Entry, A!Entries

\* A directory named after the commit it holds answers for it.
LEMMA CommitIsFaithful ==
    ASSUME NEW b, NEW r, NEW c \in Commits, kind = "tokenizer",
           b \notin offline /\ r \in Commits => c = r
    PROVE  A!Faithful(b, r, A!Entry(c, c))
  BY DEF A!Faithful, A!Entry, A!Entries, A!Revisions

LEMMA DatasetIsFaithful ==
    ASSUME NEW b, NEW r \in A!Revisions, NEW c \in Commits, kind = "dataset",
           b \notin offline /\ r \in Commits => c = r
    PROVE  A!Faithful(b, r, A!Entry(A!DatasetRevision(r, c), c))
  BY DEF A!Faithful, A!Entry, A!Entries, A!DatasetRevision

\* The job of a thread that is not idle.
LEMMA JobOf ==
    ASSUME A!CacheInvariant, NEW t \in Threads, job[t].pc # "idle"
    PROVE  A!JobFaithful(t, job[t]) /\ job[t].revision \in A!Revisions /\ ~A!At(t, "idle")
  BY DEF A!CacheInvariant, A!JobsInvariant, A!JobFaithful, A!Jobs, A!NoJob, A!At

LEMMA DatasetsKeep ==
    ASSUME A!CacheInvariant, NEW t \in Threads, A!DatasetLookup(t) \/ A!DatasetDownload(t)
    PROVE  A!CacheInvariant'
  <1> DEFINE b == backend[t]
             r == job[t].revision
  <1> USE DEF A!CacheInvariant
  <1>1. job[t].pc \in {"lookup", "download"} /\ kind = "dataset"
    BY DEF A!DatasetLookup, A!DatasetDownload, A!At
  <1>2. A!JobFaithful(t, job[t]) /\ r \in A!Revisions /\ ~A!At(t, "idle")
    BY <1>1, JobOf
  <1>3. UNCHANGED A!config /\ UNCHANGED frozen
    BY DEF A!DatasetLookup, A!DatasetDownload
  <1>4. A!FilesInvariant'
    <2>1. CASE A!DatasetLookup(t)
      BY <2>1, FilesKept DEF A!DatasetLookup
    <2>2. CASE A!DatasetDownload(t)
      BY <2>2, <1>2, CandidatesAreFaithful DEF A!DatasetDownload, A!FilesInvariant
    <2> QED  BY <2>1, <2>2
  <1>5. A!EntriesInvariant' /\ A!JobsInvariant'
    <2>1. CASE A!DatasetDownload(t)
      <3>1. A!Finish(t, A!Entry(A!DatasetRevision(r, A!HubCommit(r)), A!HubCommit(r)))
        BY <2>1 DEF A!DatasetDownload
      <3>2. A!Faithful(b, r, A!Entry(A!DatasetRevision(r, A!HubCommit(r)), A!HubCommit(r)))
        BY <1>1, <1>2, CandidatesAreFaithful, DatasetIsFaithful
      <3> QED  BY <3>1, <3>2, <1>2, <1>3, FinishKept
    <2>2. CASE entries[b][r] # A!NoEntry /\ A!Finish(t, entries[b][r])
      <3>1. A!Faithful(b, r, entries[b][r])
        BY <1>2, <2>2 DEF A!EntriesInvariant, A!ConfigInvariant
      <3> QED  BY <3>1, <2>2, <1>2, <1>3, FinishKept
    <2>3. ASSUME NEW c \in A!DatasetFound(t), A!Finish(t, A!Entry(A!DatasetRevision(r, c), c))
          PROVE  A!EntriesInvariant' /\ A!JobsInvariant'
      <3>1. A!Faithful(b, r, A!Entry(A!DatasetRevision(r, c), c))
        BY <1>1, <1>2, CandidatesAreFaithful, DatasetIsFaithful DEF A!Online
      <3> QED  BY <3>1, <2>3, <1>2, <1>3, FinishKept
    <2>4. CASE A!Step(t, [job[t] EXCEPT !.pc = "download"]) /\ UNCHANGED entries
      <3>1. A!JobFaithful(t, [job[t] EXCEPT !.pc = "download"])
        BY <1>1, <1>2, GoesOnSame
      <3> QED  BY <2>4, <3>1, <1>3, StepKept, ConfigKept
    <2>5. CASE A!Fail(t)
      BY <2>5, <1>3, FailKept
    <2> QED  BY <2>1, <2>2, <2>3, <2>4, <2>5 DEF A!DatasetLookup
  <1> QED  BY <1>3, <1>4, <1>5, ConfigKept

LEMMA TokenizersKeep ==
    ASSUME A!CacheInvariant, NEW t \in Threads,
           A!TokenizerLookup(t) \/ A!Acquire(t) \/ A!Inspect(t) \/ A!Load(t) \/ A!Save(t)
    PROVE  A!CacheInvariant'
  <1> DEFINE b == backend[t]
             r == job[t].revision
  <1> USE DEF A!CacheInvariant
  <1>1. job[t].pc \in {"lookup", "lock", "inspect", "load", "save"}
    BY DEF A!TokenizerLookup, A!Acquire, A!Inspect, A!Load, A!Save, A!At
  <1>2. A!JobFaithful(t, job[t]) /\ r \in A!Revisions /\ ~A!At(t, "idle")
    BY <1>1, JobOf
  <1>3. UNCHANGED <<A!config, frozen, head, A!files>>
    BY DEF A!TokenizerLookup, A!Acquire, A!Inspect, A!Load, A!Save
  <1>4. kind = "tokenizer"
    BY <1>2 DEF A!TokenizerLookup, A!Acquire, A!Inspect, A!Load, A!Save, A!At, A!JobFaithful
  <1>5. ASSUME NEW c \in Commits, target[c] # Nothing, A!Finish(t, A!Resolved(c)),
               A!Online(t) /\ r \in Commits => c = r
        PROVE  A!EntriesInvariant' /\ A!JobsInvariant'
    <2>1. A!Resolved(c) = A!Entry(c, c)
      BY <1>5 DEF A!Resolved, A!FilesInvariant
    <2>2. A!Faithful(b, r, A!Resolved(c))
      BY <2>1, <1>4, <1>5, CommitIsFaithful DEF A!Online
    <2> QED  BY <2>2, <1>2, <1>3, <1>5, FinishKept
  <1>6. ASSUME A!Remembered(t, r), A!Finish(t, A!Resolved(entries[b][r].revision))
        PROVE  A!EntriesInvariant' /\ A!JobsInvariant'
    BY <1>2, <1>3, <1>4, <1>6, FinishKept, RememberedIsFaithful
  <1>7. ASSUME NEW step \in {"lock", "inspect", "download", "rename", "save"},
               A!Step(t, [job[t] EXCEPT !.pc = step]), UNCHANGED entries,
               step \in {"save", "rename"} => job[t].pc \in {"load", "save"}
        PROVE  A!EntriesInvariant' /\ A!JobsInvariant'
    <2>1. A!JobFaithful(t, [job[t] EXCEPT !.pc = step])
      BY <1>1, <1>2, <1>4, <1>7, GoesOnSame
    <2> QED  BY <2>1, <1>3, <1>7, StepKept, ConfigKept
  <1>8. ASSUME A!Fail(t) PROVE A!EntriesInvariant' /\ A!JobsInvariant'
    BY <1>3, <1>8, FailKept
  <1>9. A!EntriesInvariant' /\ A!JobsInvariant'
    <2>1. CASE A!TokenizerLookup(t)
      BY <2>1, <1>6, <1>7 DEF A!TokenizerLookup
    <2>2. CASE A!Acquire(t)
      BY <2>2, <1>7 DEF A!Acquire
    <2>3. CASE A!Load(t)
      BY <2>3, <1>1, <1>7, <1>8 DEF A!Load, A!At
    <2>4. CASE A!Save(t)
      <3>1. job[t].commit \in Commits /\ (A!Online(t) /\ r \in Commits => job[t].commit = r)
        BY <2>4, <1>2 DEF A!Save, A!At, A!JobFaithful
      <3> QED  BY <2>4, <3>1, <1>5, <1>7 DEF A!Save, A!At, A!TargetOf
    <2>5. CASE A!Inspect(t)
      <3>1. CASE A!Remembered(t, r) /\ A!Finish(t, A!Resolved(entries[b][r].revision))
        BY <3>1, <1>6
      <3>2. ASSUME NEW c \in A!ExistingTarget(t), A!Finish(t, A!Resolved(c))
            PROVE  A!EntriesInvariant' /\ A!JobsInvariant'
        <4>1. c \in Commits /\ (A!Online(t) /\ r \in Commits => c = r) /\ target[c] = c
          BY <1>2, CandidatesAreFaithful
        <4> QED  BY <4>1, <3>2, <1>5, ArtifactsAssumption
      <3>3. ASSUME NEW c \in A!SnapshotToLoad(t), UNCHANGED entries,
                   A!Step(t, [job[t] EXCEPT !.pc = "load", !.commit = c])
            PROVE  A!EntriesInvariant' /\ A!JobsInvariant'
        <4>1. c \in Commits /\ (A!Online(t) /\ r \in Commits => c = r)
          BY <1>2, CandidatesAreFaithful
        <4>2. A!JobFaithful(t, [job[t] EXCEPT !.pc = "load", !.commit = c])
          BY <4>1, <1>1, <1>2, <1>4, GoesOn
        <4> QED  BY <4>2, <3>3, <1>3, StepKept, ConfigKept
      <3>4. CASE A!Step(t, [job[t] EXCEPT !.pc = "download"]) /\ UNCHANGED <<entries, holder>>
        BY <3>4, <1>7
      <3> QED  BY <2>5, <3>1, <3>2, <3>3, <3>4, <1>8 DEF A!Inspect
    <2> QED  BY <2>1, <2>2, <2>3, <2>4, <2>5
  <1> QED  BY <1>3, <1>9, ConfigKept, FilesKept

LEMMA DownloadsKeep ==
    ASSUME A!CacheInvariant, NEW t \in Threads,
           A!DownloadStart(t) \/ A!DownloadEnd(t) \/ A!DownloadFails(t) \/ A!Rename(t)
    PROVE  A!CacheInvariant'
  <1> DEFINE r == job[t].revision
  <1> USE DEF A!CacheInvariant
  <1>1. job[t].pc \in {"download", "files", "rename"}
    BY DEF A!DownloadStart, A!DownloadEnd, A!DownloadFails, A!Rename, A!At
  <1>2. A!JobFaithful(t, job[t]) /\ r \in A!Revisions /\ ~A!At(t, "idle")
    BY <1>1, JobOf
  <1>3. UNCHANGED <<A!config, frozen, head>>
    BY DEF A!DownloadStart, A!DownloadEnd, A!DownloadFails, A!Rename, A!Fail
  <1>4. CASE A!DownloadStart(t)
    <2> DEFINE c == A!HubCommit(r)
    <2>1. c \in Commits /\ (r \in Commits => c = r)
      BY <1>2, CandidatesAreFaithful
    <2>2. A!JobFaithful(t, [job[t] EXCEPT !.pc = "files", !.commit = c])
      BY <2>1, <1>1, <1>2, <1>4, GoesOn DEF A!DownloadStart
    <2>3. A!JobsInvariant' /\ A!EntriesInvariant'
      BY <1>3, <1>4, <2>2, StepKept, ConfigKept DEF A!DownloadStart
    <2>4. A!FilesInvariant'
      BY <1>4, <2>1 DEF A!DownloadStart, A!FilesInvariant
    <2> QED  BY <1>3, <2>3, <2>4, ConfigKept
  <1>5. CASE A!DownloadEnd(t)
    <2>1. A!JobFaithful(t, [job[t] EXCEPT !.pc = "save"])
      BY <1>1, <1>2, <1>5, GoesOnSame DEF A!DownloadEnd, A!At, A!JobFaithful
    <2>2. A!JobsInvariant' /\ A!EntriesInvariant'
      BY <1>3, <1>5, <2>1, StepKept, ConfigKept DEF A!DownloadEnd
    <2>3. A!FilesInvariant'
      BY <1>5 DEF A!DownloadEnd, A!FilesInvariant
    <2> QED  BY <1>3, <2>2, <2>3, ConfigKept
  <1>6. CASE A!DownloadFails(t)
    BY <1>3, <1>6, FailKept, FilesKept, ConfigKept DEF A!DownloadFails
  <1>7. CASE A!Rename(t)
    <2> DEFINE c == job[t].commit
    <2>1. c \in Commits /\ (A!Online(t) /\ r \in Commits => c = r) /\ kind = "tokenizer"
      BY <1>2, <1>7 DEF A!Rename, A!At, A!JobFaithful
    <2>2. target[c] \in {Nothing, c}
      BY <2>1 DEF A!FilesInvariant
    <2>3. target' = [target EXCEPT ![c] = c] /\ A!Finish(t, A!Entry(c, c))
      BY <1>7, <2>2 DEF A!Rename, A!TargetOf
    <2>4. A!FilesInvariant'
      BY <1>7, <2>1, <2>3 DEF A!Rename, A!FilesInvariant
    <2>5. A!Faithful(backend[t], r, A!Entry(c, c))
      BY <2>1, CommitIsFaithful DEF A!Online
    <2>6. A!JobsInvariant' /\ A!EntriesInvariant'
      BY <1>2, <1>3, <2>3, <2>5, FinishKept
    <2> QED  BY <1>3, <2>4, <2>6, ConfigKept
  <1> QED  BY <1>4, <1>5, <1>6, <1>7

\* What is frozen tells its content, and a Runner asks for what was frozen.
LEMMA RequestsKeep ==
    ASSUME A!CacheInvariant, NEW t \in Threads, A!Submit(t) \/ A!Execute(t) \/ A!Return(t)
    PROVE  A!CacheInvariant'
  <1> USE DEF A!CacheInvariant
  <1>1. ASSUME NEW r \in A!Revisions, NEW x \in Commits \cup {Nothing}, A!Start(t, r, x),
               x # Nothing /\ A!Telling(r) => r = x
        PROVE  A!CacheInvariant'
    <2> DEFINE j == [pc |-> "lookup", revision |-> r, expected |-> x, commit |-> Nothing]
    <2>1. A!JobFaithful(t, j)
      BY <1>1 DEF A!JobFaithful, A!Jobs
    <2>2. UNCHANGED <<A!config, head, A!files, entries, frozen>> /\ A!Step(t, j)
      BY <1>1 DEF A!Start
    <2> HIDE DEF j
    <2> QED  BY <2>1, <2>2, StepKept, ConfigKept, FilesKept
  <1>2. CASE A!Submit(t)
    BY <1>1, <1>2 DEF A!Submit
  <1>3. CASE A!Execute(t)
    <2>1. PICK f \in frozen : A!Start(t, f.revision, f.content)
      BY <1>3 DEF A!Execute
    <2>2. f \in A!Entries /\ (A!Telling(f.revision) => f.revision = f.content)
      BY DEF A!FrozenInvariant
    <2>3. f.revision \in A!Revisions /\ f.content \in Commits \cup {Nothing}
      BY <2>2 DEF A!Entries
    <2> QED  BY <1>1, <2>1, <2>2, <2>3
  <1>4. CASE A!Return(t)
    <2> DEFINE e == job[t].result
    <2>1. A!JobFaithful(t, job[t]) /\ job[t].pc = "done"
      BY <1>4, JobOf DEF A!Return, A!At
    <2>2. A!Faithful(backend[t], job[t].revision, e)
      BY <2>1 DEF A!JobFaithful
    <2>3. e \in A!Entries /\ A!Entry(e.revision, e.content) = e
      BY <2>2 DEF A!Faithful, A!Entry, A!Entries
    <2>4. A!Telling(e.revision) => e.revision = e.content
      BY <2>2 DEF A!Telling, A!Faithful, A!ConfigInvariant
    <2>5. frozen' \subseteq frozen \cup {e}
      BY <1>4, <2>3 DEF A!Return
    <2>6. UNCHANGED <<A!config, head, A!files, entries>> /\ A!Step(t, A!NoJob)
      BY <1>4 DEF A!Return
    <2>7. A!FrozenInvariant'
      BY <2>3, <2>4, <2>5, <2>6 DEF A!FrozenInvariant, A!Telling, A!config
    <2> QED  BY <2>6, <2>7, StepKept, ConfigKept, FilesKept
  <1> QED  BY <1>2, <1>3, <1>4

LEMMA CacheStep ==
    ASSUME A!CacheInvariant, A!Next \/ UNCHANGED artifactVars PROVE A!CacheInvariant'
  <1> USE DEF A!CacheInvariant
  <1>1. CASE UNCHANGED artifactVars
    <2>1. UNCHANGED <<A!config, head, A!files, entries, frozen, job>>
      BY <1>1 DEF artifactVars, A!config, A!files
    <2> QED  BY <2>1, ConfigKept, FilesKept
  <1>2. CASE A!HubPush
    <2>1. A!FilesInvariant'
      BY <1>2 DEF A!HubPush, A!files, A!FilesInvariant
    <2> QED  BY <1>2, <2>1, ConfigKept DEF A!HubPush
  <1>3. ASSUME NEW c \in Commits, A!Evict(c) PROVE A!CacheInvariant'
    <2>1. A!FilesInvariant'
      BY <1>3 DEF A!Evict, A!FilesInvariant
    <2> QED  BY <1>3, <2>1, ConfigKept DEF A!Evict
  <1>4. ASSUME NEW b \in Backends, A!Crash(b) PROVE A!CacheInvariant'
    <2>1. UNCHANGED <<A!config, head, A!files, frozen>>
      BY <1>4 DEF A!Crash
    <2>2. job' = [t \in Threads |-> job'[t]] /\ \A t \in Threads : job'[t] \in {A!NoJob, job[t]}
      BY <1>4 DEF A!Crash
    <2>3. A!JobsInvariant'
      BY <2>1, <2>2, ConfigKept DEF A!JobsInvariant
    <2>4. entries = [c \in Backends |-> [r \in A!Revisions |-> entries[c][r]]]
      BY DEF A!EntriesInvariant
    <2>5. entries' = [c \in Backends |-> [r \in A!Revisions |->
                IF c = b THEN A!NoEntry ELSE entries[c][r]]]
      BY <1>4, <2>4 DEF A!Crash
    <2>6. \A c \in Backends, r \in A!Revisions : entries'[c][r] \in {A!NoEntry, entries[c][r]}
      BY <2>5
    <2>7. \A c \in Backends, r \in A!Revisions :
                entries'[c][r] = A!NoEntry \/ A!Faithful(c, r, entries[c][r])'
      BY <2>1, <2>6, ConfigKept DEF A!EntriesInvariant
    <2>8. entries' = [c \in Backends |-> [r \in A!Revisions |-> entries'[c][r]]]
      BY <2>5
    <2>9. A!EntriesInvariant'
      BY <2>7, <2>8 DEF A!EntriesInvariant
    <2> QED  BY <2>1, <2>3, <2>9, ConfigKept, FilesKept
  <1>5. ASSUME NEW t \in Threads, A!Submit(t) \/ A!Execute(t) \/ A!Resolve(t)
        PROVE  A!CacheInvariant'
    BY <1>5, RequestsKeep, DatasetsKeep, TokenizersKeep, DownloadsKeep DEF A!Resolve
  <1> QED  BY <1>1, <1>2, <1>3, <1>4, <1>5 DEF A!Next

LEMMA CacheInvariantSuffices ==
    ASSUME A!CacheInvariant PROVE A!FrozenIsExecuted /\ A!RevisionNamesContent
  <1>1. A!RevisionNamesContent
    BY DEF A!CacheInvariant, A!FilesInvariant, A!FrozenInvariant, A!Telling, A!RevisionNamesContent
  <1>2. ASSUME NEW t \in Threads, A!Done(t), job[t].expected # Nothing,
               \/ kind = "tokenizer" /\ A!Online(t)
               \/ job[t].revision # main /\ offline = {}
        PROVE  job[t].result.content = job[t].expected
    <2>1. A!JobFaithful(t, job[t]) /\ job[t].pc = "done" /\ job[t] \in A!Jobs
      BY <1>2, JobOf DEF A!Done, A!At, A!JobFaithful
    <2>2. A!Telling(job[t].revision) /\ A!Online(t)
      BY <1>2, <2>1 DEF A!Telling, A!Online, A!Jobs, A!Revisions
    <2>3. job[t].revision = job[t].expected
      BY <1>2, <2>1, <2>2 DEF A!JobFaithful
    <2>4. job[t].expected \in Commits
      BY <1>2, <2>1 DEF A!Jobs
    <2> QED  BY <2>1, <2>2, <2>3, <2>4 DEF A!JobFaithful, A!Faithful, A!Online
  <1> QED  BY <1>1, <1>2 DEF A!FrozenIsExecuted

\* In every state of the artifact caches (artifacts/resolver.py), for any threads,
\* processes and commits, pushes, evictions, failures and crashes: a Runner executes
\* the content its revision was frozen with, and a resolved directory holds the
\* commit that names it.
THEOREM FrozenIsAlwaysExecuted == ServicesSpec => []FrozenIsExecuted
  <1> DEFINE Inv == part = "artifacts" => A!CacheInvariant
  <1>1. ServicesInit => Inv
    BY CacheInit DEF ServicesInit
  <1>2. Inv /\ [ServicesNext /\ UNCHANGED part]_<<part, serviceVars>> => Inv'
    BY ServiceStep, CacheStep
  <1>3. Inv => FrozenIsExecuted
    BY CacheInvariantSuffices DEF FrozenIsExecuted
  <1> QED  BY <1>1, <1>2, <1>3, PTL DEF ServicesSpec

-----------------------------------------------------------------------------
(* The probe queue.                                                        *)

\* A nonempty set of natural numbers has a least element.
LEMMA LeastNumber ==
    ASSUME NEW N \in SUBSET Nat, N # {}
    PROVE  \E x \in N : \A y \in N : x <= y
  <1> DEFINE R == OpToRel(<, Nat)
  <1>1. IsWellFoundedOn(R, Nat)
    BY NatLessThanWellFounded
  <1>2. \A x, y \in Nat : x < y => <<x, y>> \in R
    BY DEF OpToRel
  <1> HIDE DEF R
  <1>3. PICK x \in N : \A y \in N : ~(<<y, x>> \in R)
    BY <1>1, WFMin
  <1>4. ASSUME NEW y \in N PROVE x <= y
    <2>1. x \in Nat /\ y \in Nat /\ ~(y < x)
      BY <1>2, <1>3
    <2> QED  BY <2>1
  <1> QED  BY <1>4

\* ProbeQueue counts as FiniteSets does.
LEMMA SameCardinality == \A s : Q!Cardinality(s) = Cardinality(s)
  BY Zenon DEF Q!Cardinality, Cardinality

LEMMA PlanOf ==
    ASSUME NEW r \in Q!Plan
    PROVE  r[1] \in Families /\ r[2] \in 0..Repeats /\ r = <<r[1], r[2]>> /\ r[2] \in Nat
  BY ProbesAssumption DEF Q!Plan, Q!Occurrences

\* The sets that are counted are finite.
LEMMA PlacesFinite ==
    ASSUME Q!FamilyAt
    PROVE  IsFiniteSet(Q!Busy) /\ IsFiniteSet(timers) /\ IsFiniteSet(Q!Plan)
  <1>1. IsFiniteSet(Q!Busy)
    BY ProbesAssumption, FS_Subset, Q!Busy \subseteq Slots DEF Q!Busy
  <1>2. timers \subseteq Q!Plan
    BY DEF Q!FamilyAt, Q!Live
  <1>3. IsFiniteSet(Q!Plan)
    <2>1. IsFiniteSet(0..Repeats)
      BY ProbesAssumption, FS_Interval
    <2> QED  BY <2>1, ProbesAssumption, FS_Product DEF Q!Plan, Q!Occurrences
  <1> QED  BY <1>1, <1>2, <1>3, FS_Subset

LEMMA ProbeInit == ASSUME Q!Init PROVE Q!ProbeInvariant
  <1>1. Q!Busy = {}
    BY ProbesAssumption DEF Q!Init, Q!Busy, Q!Plan, Q!Occurrences
  <1>2. Q!Live = {<<f, 0>> : f \in Families}
    BY <1>1 DEF Q!Init, Q!Live
  <1>3. Q!OnePlace
    BY <1>1, <1>2 DEF Q!Init, Q!OnePlace
  <1>4. Q!FamilyAt
    <2>1. (0..Repeats) \ {0} = (0 + 1)..Repeats /\ 0..(0 - 1) = {} /\ 0 \in 0..Repeats
      BY ProbesAssumption
    <2>2. results = {} /\ \A f \in Families : left[f] = (0 + 1)..Repeats
      BY <2>1 DEF Q!Init, Q!Occurrences
    <2>3. ASSUME NEW r \in Q!Live PROVE r \in Q!Plan /\ r[1] \in Families /\ r[2] = 0
      BY <1>2, <2>1 DEF Q!Plan, Q!Occurrences
    <2> QED  BY <2>1, <2>2, <2>3 DEF Q!FamilyAt
  <1>5. Q!Recorded
    BY DEF Q!Init, Q!Recorded
  <1>6. Q!Settled
    <2>1. ASSUME NEW f \in Families PROVE \E r \in Q!Live : r[1] = f
      <3>1. <<f, 0>> \in Q!Live /\ <<f, 0>>[1] = f
        BY <1>2
      <3> QED  BY <3>1
    <2> QED  BY <2>1 DEF Q!Settled
  <1>7. Q!Counted
    <2>1. Cardinality({}) = 0
      BY FS_EmptySet
    <2> QED  BY <1>1, <2>1, SameCardinality DEF Q!Init, Q!Counted
  <1> QED  BY <1>3, <1>4, <1>5, <1>6, <1>7 DEF Q!Init, Q!ProbeInvariant

LEMMA PlacesKept ==
    ASSUME Q!FamilyAt, Q!Recorded, UNCHANGED <<left, results, skipped>>, Q!Live' \subseteq Q!Live
    PROVE  Q!FamilyAt' /\ Q!Recorded'
  <1>1. Q!FamilyAt'
    BY DEF Q!FamilyAt, Q!Plan
  <1>2. Q!Recorded'
    BY DEF Q!Recorded, Q!Plan
  <1> QED  BY <1>1, <1>2

LEMMA SettledKept ==
    ASSUME Q!Settled, UNCHANGED <<results, skipped, failed>>, Q!Live \subseteq Q!Live'
    PROVE  Q!Settled'
  BY DEF Q!Settled

\* Steps that move no request.
LEMMA StillKept ==
    ASSUME Q!ProbeInvariant, UNCHANGED <<left, ready, timers, results, skipped, failed>>,
           slot' = [t \in Slots |-> slot'[t]], Q!Busy' = Q!Busy,
           \A t \in Q!Busy : slot'[t] = slot[t]
    PROVE  /\ Q!Live' = Q!Live
           /\ Q!Counted' => Q!ProbeInvariant'
  <1>1. Q!Live' = Q!Live
    BY DEF Q!Live
  <1>2. Q!OnePlace'
    BY <1>1 DEF Q!ProbeInvariant, Q!OnePlace
  <1>3. Q!FamilyAt' /\ Q!Recorded' /\ Q!Settled'
    BY <1>1, PlacesKept, SettledKept DEF Q!ProbeInvariant
  <1> QED  BY <1>1, <1>2, <1>3 DEF Q!ProbeInvariant

\* A thread that leaves has seen that nothing is live.
LEMMA NothingLive ==
    ASSUME Q!ProbeInvariant, ready = {}, inflight = 0, ~failed PROVE Q!Live = {}
  <1>1. IsFiniteSet(Q!Busy) /\ IsFiniteSet(timers)
    BY PlacesFinite DEF Q!ProbeInvariant
  <1>5. Cardinality(Q!Busy) \in Nat /\ Cardinality(timers) \in Nat
    BY <1>1, FS_CardinalityType
  <1>6. Cardinality(Q!Busy) = 0 /\ Cardinality(timers) = 0
    BY <1>5, SameCardinality DEF Q!ProbeInvariant, Q!Counted
  <1>7. Q!Busy = {} /\ timers = {}
    BY <1>1, <1>6, FS_EmptySet
  <1> QED  BY <1>7 DEF Q!Live

LEMMA WaitingKeeps ==
    ASSUME Q!ProbeInvariant, NEW t \in Slots, Q!Loop(t) \/ Q!GiveUp(t) \/ Q!Leave(t)
    PROVE  Q!ProbeInvariant'
  <1>1. slot = [u \in Slots |-> slot[u]] /\ Idle \notin Q!Plan /\ Claiming \notin Q!Plan
    BY ProbesAssumption DEF Q!ProbeInvariant, Q!Plan, Q!Occurrences
  <1>2. UNCHANGED <<left, ready, timers, results, skipped, failed, late, inflight>>
    BY DEF Q!Loop, Q!GiveUp, Q!Leave, Q!queue
  <1>3. \A u \in Slots : slot'[u] = slot[u] \/ (slot[u] = Idle /\ slot'[u] = Claiming)
    BY <1>1 DEF Q!Loop, Q!GiveUp, Q!Leave, Q!At
  <1>4. slot' = [u \in Slots |-> slot'[u]]
    BY <1>1 DEF Q!Loop, Q!GiveUp, Q!Leave
  <1>5. Q!Busy' = Q!Busy /\ \A u \in Q!Busy : slot'[u] = slot[u]
    BY <1>1, <1>3 DEF Q!Busy, Q!Plan
  <1>6. Q!Live' = Q!Live
    BY <1>2, <1>4, <1>5, StillKept
  <1>7. queueClosed' => late \/ failed
    BY DEF Q!ProbeInvariant, Q!Counted, Q!Loop, Q!GiveUp, Q!Leave, Q!queue
  <1>8. slotEnded' # {} => late \/ failed \/ Q!Live = {}
    <2>1. CASE slotEnded' = slotEnded
      BY <2>1 DEF Q!ProbeInvariant, Q!Counted
    <2>2. CASE late
      BY <2>2
    <2>3. CASE Q!Leave(t) /\ ~late /\ ~failed
      BY <2>3, NothingLive DEF Q!Leave, Q!ProbeInvariant, Q!Counted
    <2> QED  BY <2>1, <2>2, <2>3 DEF Q!Loop, Q!GiveUp
  <1>9. Q!Counted'
    BY <1>2, <1>5, <1>6, <1>7, <1>8 DEF Q!ProbeInvariant, Q!Counted
  <1> QED  BY <1>2, <1>4, <1>5, <1>9, StillKept

\* There is a first ready request.
LEMMA FirstReady ==
    ASSUME Q!FamilyAt, ready # {}
    PROVE  (CHOOSE x \in ready : \A y \in ready : Q!Index(x) <= Q!Index(y)) \in ready
  <1> DEFINE N == {Q!Index(x) : x \in ready}
  <1>1. \A x \in ready : Q!Index(x) \in Nat
    <2>1. ASSUME NEW x \in ready PROVE x[1] \in Nat /\ x[2] \in Nat
      BY PlanOf, ProbesAssumption DEF Q!FamilyAt, Q!Live
    <2> QED  BY <2>1, ProbesAssumption DEF Q!Index
  <1>2. PICK n \in N : \A m \in N : n <= m
    <2>1. N \in SUBSET Nat /\ N # {}
      BY <1>1
    <2> HIDE DEF N
    <2> QED  BY <2>1, LeastNumber
  <1>3. \E x \in ready : \A y \in ready : Q!Index(x) <= Q!Index(y)
    BY <1>2
  <1> QED  BY <1>3

LEMMA ClaimKeeps ==
    ASSUME Q!ProbeInvariant, NEW t \in Slots, Q!Claim(t) PROVE Q!ProbeInvariant'
  <1> DEFINE r == CHOOSE x \in ready : \A y \in ready : Q!Index(x) <= Q!Index(y)
  <1>1. r \in ready
    BY FirstReady DEF Q!ProbeInvariant, Q!Claim
  <1>2. slot' = [slot EXCEPT ![t] = r] /\ ready' = ready \ {r}
    BY DEF Q!Claim
  <1> HIDE DEF r
  <1>3. /\ slot = [u \in Slots |-> slot[u]] /\ slot[t] = Claiming
        /\ UNCHANGED <<left, timers, results, skipped, failed, late, queueClosed, slotEnded>>
        /\ inflight' = inflight + 1 /\ ~queueClosed
    BY DEF Q!ProbeInvariant, Q!Claim, Q!At
  <1>4. r \in Q!Plan /\ Claiming \notin Q!Plan
    BY <1>1, ProbesAssumption DEF Q!ProbeInvariant, Q!FamilyAt, Q!Live, Q!Plan, Q!Occurrences
  <1>5. /\ slot' = [u \in Slots |-> slot'[u]]
        /\ \A u \in Slots : slot'[u] = IF u = t THEN r ELSE slot[u]
    BY <1>2, <1>3
  <1>6. Q!Busy' = Q!Busy \cup {t} /\ t \notin Q!Busy
    BY <1>3, <1>4, <1>5 DEF Q!Busy, Q!Plan
  <1>7. Q!Live' = Q!Live
    BY <1>1, <1>2, <1>3, <1>5, <1>6 DEF Q!Live, Q!Busy
  <1>8. Q!OnePlace'
    <2>1. Q!OnePlace
      BY DEF Q!ProbeInvariant
    <2>2. \A u \in Q!Busy : slot'[u] = slot[u] /\ slot[u] # r
      BY <2>1, <1>1, <1>5, <1>6 DEF Q!OnePlace, Q!Busy
    <2>3. (ready \cap timers = {})' /\ \A u \in Q!Busy' : slot'[u] \notin ready' \cup timers'
      BY <2>1, <2>2, <1>1, <1>2, <1>3, <1>5, <1>6 DEF Q!OnePlace
    <2>4. \A u, v \in Q!Busy' : slot'[u] = slot'[v] => u = v
      BY <2>1, <2>2, <1>5, <1>6 DEF Q!OnePlace
    <2> QED  BY <2>1, <2>3, <2>4, <1>7 DEF Q!OnePlace
  <1>9. Q!FamilyAt' /\ Q!Recorded' /\ Q!Settled'
    BY <1>3, <1>7, PlacesKept, SettledKept DEF Q!ProbeInvariant
  <1>10. Q!Counted'
    <2>1. Cardinality(Q!Busy') = Cardinality(Q!Busy) + 1
          /\ Cardinality(Q!Busy) \in Nat /\ Cardinality(timers) \in Nat
      BY <1>6, PlacesFinite, FS_AddElement, FS_CardinalityType DEF Q!ProbeInvariant
    <2>2. Q!Live # {}
      BY <1>1 DEF Q!Live
    <2> QED  BY <1>3, <1>7, <2>1, <2>2, SameCardinality DEF Q!ProbeInvariant, Q!Counted
  <1> QED  BY <1>3, <1>5, <1>8, <1>9, <1>10 DEF Q!ProbeInvariant

LEMMA ReleaseKeeps == ASSUME Q!ProbeInvariant, Q!Release PROVE Q!ProbeInvariant'
  <1>1. PICK r \in timers : timers' = timers \ {r} /\ ready' = ready \cup {r}
    BY DEF Q!Release
  <1>2. /\ inflight' = inflight - 1
        /\ UNCHANGED <<left, slot, results, skipped, failed, late, queueClosed, slotEnded>>
    BY DEF Q!Release, Q!TimerCount
  <1>3. Q!Busy' = Q!Busy
    BY <1>2 DEF Q!Busy, Q!Plan
  <1>4. Q!Live' = Q!Live
    BY <1>1, <1>2, <1>3 DEF Q!Live
  <1>5. Q!OnePlace'
    BY <1>1, <1>2, <1>3, <1>4 DEF Q!ProbeInvariant, Q!OnePlace
  <1>6. Q!FamilyAt' /\ Q!Recorded' /\ Q!Settled'
    BY <1>2, <1>4, PlacesKept, SettledKept DEF Q!ProbeInvariant
  <1>7. Q!Counted'
    <2>1. Cardinality(timers') = Cardinality(timers) - 1
          /\ Cardinality(Q!Busy) \in Nat /\ Cardinality(timers) \in Nat
      BY <1>1, PlacesFinite, FS_RemoveElement, FS_CardinalityType DEF Q!ProbeInvariant
    <2> QED  BY <1>2, <1>3, <1>4, <2>1, SameCardinality DEF Q!ProbeInvariant, Q!Counted
  <1> QED  BY <1>2, <1>5, <1>6, <1>7 DEF Q!ProbeInvariant

LEMMA BreakKeeps ==
    ASSUME Q!ProbeInvariant, NEW t \in Slots, Q!Break(t) PROVE Q!ProbeInvariant'
  <1>1. /\ slot = [u \in Slots |-> slot[u]] /\ slot' = [slot EXCEPT ![t] = Idle]
        /\ UNCHANGED <<left, ready, timers, results, skipped, inflight>> /\ failed' = TRUE
    BY DEF Q!ProbeInvariant, Q!Break
  <1>2. Idle \notin Q!Plan
    BY ProbesAssumption DEF Q!Plan, Q!Occurrences
  <1>3. /\ slot' = [u \in Slots |-> slot'[u]]
        /\ \A u \in Slots : slot'[u] = IF u = t THEN Idle ELSE slot[u]
    BY <1>1
  <1>4. Q!Busy' = Q!Busy \ {t} /\ \A u \in Q!Busy' : slot'[u] = slot[u]
    BY <1>2, <1>3 DEF Q!Busy, Q!Plan
  <1>5. Q!Live' \subseteq Q!Live
    BY <1>1, <1>4 DEF Q!Live
  <1>6. Q!OnePlace'
    BY <1>1, <1>4, <1>5 DEF Q!ProbeInvariant, Q!OnePlace
  <1>7. Q!FamilyAt' /\ Q!Recorded'
    BY <1>1, <1>5, PlacesKept DEF Q!ProbeInvariant
  <1>8. Q!Settled' /\ Q!Counted'
    BY <1>1 DEF Q!ProbeInvariant, Q!Settled, Q!Counted
  <1> QED  BY <1>1, <1>3, <1>6, <1>7, <1>8 DEF Q!ProbeInvariant

\* A request ends: its place is free, and no other of its family is live.
LEMMA PlaceFreed ==
    ASSUME Q!ProbeInvariant, NEW t \in Slots, slot[t] \in Q!Plan,
           slot' = [slot EXCEPT ![t] = Idle]
    PROVE  /\ slot' = [u \in Slots |-> slot'[u]]
           /\ Q!Busy' = Q!Busy \ {t} /\ t \in Q!Busy /\ slot[t] \in Q!Live
           /\ \A u \in Q!Busy' : slot'[u] = slot[u]
           /\ ready \cup timers \cup {slot'[u] : u \in Q!Busy'} = Q!Live \ {slot[t]}
           /\ \A s \in Q!Live \ {slot[t]} : s[1] # slot[t][1]
  <1>1. slot = [u \in Slots |-> slot[u]] /\ Q!OnePlace
    BY DEF Q!ProbeInvariant
  <1>2. Idle \notin Q!Plan
    BY ProbesAssumption DEF Q!Plan, Q!Occurrences
  <1>3. /\ slot' = [u \in Slots |-> slot'[u]]
        /\ \A u \in Slots : slot'[u] = IF u = t THEN Idle ELSE slot[u]
    BY <1>1
  <1>4. Q!Busy' = Q!Busy \ {t} /\ t \in Q!Busy /\ \A u \in Q!Busy' : slot'[u] = slot[u]
    BY <1>2, <1>3 DEF Q!Busy, Q!Plan
  <1>5. slot[t] \in Q!Live
    BY <1>4 DEF Q!Live
  <1>6. ready \cup timers \cup {slot'[u] : u \in Q!Busy'} = Q!Live \ {slot[t]}
    <2>1. slot[t] \notin ready \cup timers /\ \A u \in Q!Busy : slot[u] = slot[t] => u = t
      BY <1>1, <1>4 DEF Q!OnePlace
    <2>2. {slot'[u] : u \in Q!Busy'} = {slot[u] : u \in Q!Busy \ {t}}
      BY <1>4
    <2>3. {slot[u] : u \in Q!Busy \ {t}} = {slot[u] : u \in Q!Busy} \ {slot[t]}
      BY <2>1
    <2> QED  BY <2>1, <2>2, <2>3 DEF Q!Live
  <1>7. \A s \in Q!Live \ {slot[t]} : s[1] # slot[t][1]
    BY <1>1, <1>5 DEF Q!OnePlace
  <1> QED  BY <1>3, <1>4, <1>5, <1>6, <1>7

\* A request succeeds and the next of its family is released or delayed.
LEMMA GoOnKeeps ==
    ASSUME Q!ProbeInvariant, NEW t \in Slots, slot[t] \in Q!Plan, left[slot[t][1]] # {},
           slot' = [slot EXCEPT ![t] = Idle],
           results' = results \cup {<<slot[t], TRUE>>},
           left' = [left EXCEPT ![slot[t][1]] = @ \ {Q!FirstLeft(slot[t][1])}],
           ready' = (IF delayed THEN ready ELSE ready \cup {Q!Following(slot[t][1])}),
           timers' = (IF delayed THEN timers \cup {Q!Following(slot[t][1])} ELSE timers),
           inflight' = inflight - 1 + (IF delayed THEN 1 ELSE 0),
           UNCHANGED <<skipped, queueClosed, slotEnded, failed, late>>
    PROVE  Q!ProbeInvariant'
  <1> DEFINE r == slot[t]
             f == r[1]
             k == r[2]
             n == <<f, k + 1>>
             z == <<r, TRUE>>
             rest == Q!Live \ {r}
  <1>0. z[1] = r /\ z[2] = TRUE /\ results' = results \cup {z} /\ z \in Q!Plan \X BOOLEAN
    OBVIOUS
  <1>1. Q!OnePlace /\ Q!FamilyAt /\ Q!Recorded /\ Q!Settled /\ Q!Counted
        /\ left = [g \in Families |-> left[g]]
    BY DEF Q!ProbeInvariant
  <1>2. /\ slot' = [u \in Slots |-> slot'[u]]
        /\ Q!Busy' = Q!Busy \ {t} /\ t \in Q!Busy /\ r \in Q!Live
        /\ \A u \in Q!Busy' : slot'[u] = slot[u]
        /\ ready \cup timers \cup {slot'[u] : u \in Q!Busy'} = rest
        /\ \A s \in rest : s[1] # f
    BY PlaceFreed
  <1>3. f \in Families /\ k \in Nat /\ r = <<f, k>> /\ k \in 0..Repeats /\ Repeats \in Nat
    BY PlanOf, ProbesAssumption
  <1>4. left[f] = (k + 1)..Repeats
    BY <1>1, <1>2 DEF Q!FamilyAt
  <1>5. k + 1 \in 0..Repeats /\ k + 1 \in left[f] /\ \A y \in left[f] : k + 1 <= y
    BY <1>3, <1>4
  <1>6. Q!FirstLeft(f) = k + 1
    BY <1>3, <1>4, <1>5 DEF Q!FirstLeft, Q!Min
  <1>7. Q!Following(f) = n
    BY <1>6 DEF Q!Following
  <1>8. left' = [g \in Families |-> IF g = f THEN (k + 2)..Repeats ELSE left[g]]
    <2>1. left[f] \ {k + 1} = (k + 2)..Repeats
      BY <1>3, <1>4
    <2> QED  BY <1>1, <1>3, <1>6, <2>1
  <1>9. n \in Q!Plan /\ n[1] = f /\ n[2] = k + 1 /\ n \notin rest
    BY <1>2, <1>3, <1>5 DEF Q!Plan, Q!Occurrences
  <1>10. ready' \cup timers' = ready \cup timers \cup {n}
    BY <1>7
  <1>11. Q!Live' = rest \cup {n}
    BY <1>2, <1>10 DEF Q!Live
  <1> HIDE DEF r, f, k, n, rest, z
  <1>12. Q!OnePlace'
    <2>1. n \notin ready \cup timers /\ \A u \in Q!Busy' : slot'[u] # n
      BY <1>2, <1>9
    <2>2. (ready \cap timers = {})'
      BY <1>1, <1>7, <2>1 DEF Q!OnePlace, r, f
    <2>3. \A u \in Q!Busy' : slot'[u] \notin ready' \cup timers'
      BY <1>1, <1>2, <1>10, <2>1 DEF Q!OnePlace
    <2>4. \A u, v \in Q!Busy' : slot'[u] = slot'[v] => u = v
      BY <1>1, <1>2 DEF Q!OnePlace
    <2>5. \A p, q \in Q!Live' : p[1] = q[1] => p = q
      BY <1>1, <1>2, <1>9, <1>11 DEF Q!OnePlace, rest
    <2> QED  BY <2>2, <2>3, <2>4, <2>5 DEF Q!OnePlace
  <1>13. results' = results \cup {z} /\ results \subseteq results' /\ z = <<<<f, k>>, TRUE>>
    BY <1>0, <1>3 DEF z
  <1>14. \A j \in 0..(k - 1) : <<<<f, j>>, TRUE>> \in results
    BY <1>1, <1>2 DEF Q!FamilyAt, f, k
  <1>15. Q!FamilyAt'
    <2>1. ASSUME NEW p \in rest
          PROVE  /\ p \in Q!Plan /\ left'[p[1]] = (p[2] + 1)..Repeats
                 /\ \A j \in 0..(p[2] - 1) : <<<<p[1], j>>, TRUE>> \in results'
                 /\ \A x \in results' : x[1][1] = p[1] => x[1][2] < p[2] /\ x[2] = TRUE
      <3>1. p \in Q!Live /\ p \in Q!Plan /\ p[1] \in Families /\ p[1] # f
        BY <1>1, <1>2, <2>1, PlanOf DEF Q!FamilyAt, rest
      <3>2. left'[p[1]] = left[p[1]]
        BY <1>8, <3>1
      <3>3. \A x \in results' : x[1][1] = p[1] => x \in results
        BY <1>0, <1>3, <1>13, <3>1 DEF f
      <3> QED  BY <1>1, <1>13, <3>1, <3>2, <3>3 DEF Q!FamilyAt
    <2>2. n \in Q!Plan /\ left'[n[1]] = (n[2] + 1)..Repeats
      <3>1. left'[f] = (k + 2)..Repeats
        BY <1>3, <1>8
      <3>2. n[2] + 1 = k + 2
        BY <1>3, <1>9
      <3> QED  BY <1>9, <3>1, <3>2
    <2>3. \A j \in 0..(n[2] - 1) : <<<<n[1], j>>, TRUE>> \in results'
      <3>1. \A j \in 0..(n[2] - 1) : j \in 0..(k - 1) \/ j = k
        BY <1>3, <1>9
      <3> QED  BY <3>1, <1>3, <1>9, <1>13, <1>14
    <2>4. ASSUME NEW x \in results', x[1][1] = n[1] PROVE x[1][2] < n[2] /\ x[2] = TRUE
      <3>1. CASE x = z
        <4>1. x[1][2] = k /\ x[2] = TRUE
          BY <3>1, <1>0, <1>3
        <4> QED  BY <4>1, <1>3, <1>9
      <3>2. CASE x \in results
        <4>1. x[1][2] < k /\ x[2] = TRUE
          BY <1>1, <1>2, <1>9, <2>4, <3>2 DEF Q!FamilyAt, f, k
        <4>2. x[1][2] \in Nat
          BY <1>1, <3>2, PlanOf DEF Q!Recorded
        <4> QED  BY <4>1, <4>2, <1>3, <1>9
      <3> QED  BY <3>1, <3>2, <1>13
    <2> QED  BY <1>11, <2>1, <2>2, <2>3, <2>4 DEF Q!FamilyAt, Q!Plan
  <1>16. Q!Recorded'
    <2>1. ASSUME NEW x \in results, x[1] = r PROVE FALSE
      <3>1. x[1][1] = r[1] => x[1][2] < r[2]
        BY <1>1, <1>2 DEF Q!FamilyAt
      <3>2. r[1] = f /\ r[2] = k
        BY DEF f, k
      <3> QED  BY <2>1, <3>1, <3>2, <1>3
    <2>2. \A p \in skipped : p # r
      <3>1. ASSUME NEW p \in skipped, p = r PROVE FALSE
        <4>1. PICK j \in 0..(p[2] - 1) : <<<<p[1], j>>, FALSE>> \in results
          BY <1>1 DEF Q!Recorded
        <4>2. <<<<p[1], j>>, FALSE>>[2] = TRUE
          BY <1>1, <1>2, <3>1, <4>1 DEF Q!FamilyAt
        <4> QED  BY <4>2
      <3> QED  BY <3>1
    <2>3. results' \subseteq Q!Plan \X BOOLEAN
      BY <1>0, <1>1, <1>13 DEF Q!Recorded
    <2>4. \A x, y \in results' : x[1] = y[1] => x = y
      BY <1>0, <1>1, <1>13, <2>1 DEF Q!Recorded
    <2>5. \A x \in results' : \A j \in 0..(x[1][2] - 1) : <<<<x[1][1], j>>, TRUE>> \in results'
      <3>1. z[1][1] = f /\ z[1][2] = k
        BY <1>0, <1>3
      <3> QED  BY <1>1, <1>13, <1>14, <3>1 DEF Q!Recorded
    <2>6. \A p \in skipped : \A x \in results' : x[1] # p
      BY <1>0, <1>1, <1>13, <2>2 DEF Q!Recorded
    <2> QED  BY <1>1, <1>13, <2>3, <2>4, <2>5, <2>6 DEF Q!Recorded, Q!Plan
  <1>17. Q!Settled'
    <2>1. \A g \in Families : (\E p \in Q!Live : p[1] = g) => \E p \in Q!Live' : p[1] = g
      BY <1>9, <1>11 DEF rest, f
    <2> QED  BY <1>1, <1>13, <2>1 DEF Q!Settled, Q!Occurrences
  <1>18. Q!Counted'
    <2>1. Cardinality(Q!Busy') = Cardinality(Q!Busy) - 1
          /\ Cardinality(Q!Busy) \in Nat /\ Cardinality(timers) \in Nat
      BY <1>1, <1>2, PlacesFinite, FS_RemoveElement, FS_CardinalityType
    <2>2. delayed => Cardinality(timers') = Cardinality(timers) + 1
      <3>1. n \notin timers
        BY <1>2, <1>9
      <3> QED  BY <1>1, <1>7, <3>1, PlacesFinite, FS_AddElement DEF f, r
    <2>3. Q!Live # {}
      BY <1>2
    <2> QED  BY <1>1, <2>1, <2>2, <2>3, SameCardinality DEF Q!Counted
  <1> QED  BY <1>2, <1>8, <1>12, <1>15, <1>16, <1>17, <1>18 DEF Q!ProbeInvariant

\* A request is the last of its family: it failed, or none is left.
LEMMA LastKeeps ==
    ASSUME Q!ProbeInvariant, NEW t \in Slots, slot[t] \in Q!Plan, NEW ok \in BOOLEAN,
           ~ok \/ left[slot[t][1]] = {},
           slot' = [slot EXCEPT ![t] = Idle],
           results' = results \cup {<<slot[t], ok>>},
           left' = [left EXCEPT ![slot[t][1]] = {}],
           skipped' = (IF ok THEN skipped ELSE skipped \cup {<<slot[t][1], j>> : j \in left[slot[t][1]]}),
           inflight' = inflight - 1,
           UNCHANGED <<ready, timers, queueClosed, slotEnded, failed, late>>
    PROVE  Q!ProbeInvariant'
  <1> DEFINE r == slot[t]
             f == r[1]
             k == r[2]
             z == <<r, ok>>
             rest == Q!Live \ {r}
             lost == {<<f, j>> : j \in left[f]}
  <1>0. z[1] = r /\ z[2] = ok /\ results' = results \cup {z} /\ z \in Q!Plan \X BOOLEAN
    OBVIOUS
  <1>1. Q!OnePlace /\ Q!FamilyAt /\ Q!Recorded /\ Q!Settled /\ Q!Counted
        /\ left = [g \in Families |-> left[g]]
    BY DEF Q!ProbeInvariant
  <1>2. /\ slot' = [u \in Slots |-> slot'[u]]
        /\ Q!Busy' = Q!Busy \ {t} /\ t \in Q!Busy /\ r \in Q!Live
        /\ \A u \in Q!Busy' : slot'[u] = slot[u]
        /\ ready \cup timers \cup {slot'[u] : u \in Q!Busy'} = rest
        /\ \A s \in rest : s[1] # f
    BY PlaceFreed
  <1>3. f \in Families /\ k \in Nat /\ r = <<f, k>> /\ k \in 0..Repeats /\ Repeats \in Nat
    BY PlanOf, ProbesAssumption
  <1>4. left[f] = (k + 1)..Repeats
    BY <1>1, <1>2 DEF Q!FamilyAt
  <1>5. left' = [g \in Families |-> IF g = f THEN {} ELSE left[g]]
    BY <1>1
  <1>6. Q!Live' = rest
    BY <1>2 DEF Q!Live
  <1>7. skipped' = (IF ok THEN skipped ELSE skipped \cup lost)
    OBVIOUS
  <1>8. ~ok \/ k = Repeats
    BY <1>3, <1>4
  <1> HIDE DEF r, f, k, z, rest, lost
  <1>9. Q!OnePlace'
    BY <1>1, <1>2, <1>6 DEF Q!OnePlace, rest
  <1>10. results \subseteq results' /\ z = <<<<f, k>>, ok>>
    BY <1>0, <1>3 DEF z
  <1>11. \A j \in 0..(k - 1) : <<<<f, j>>, TRUE>> \in results
    BY <1>1, <1>2 DEF Q!FamilyAt, f, k
  <1>12. Q!FamilyAt'
    <2>1. ASSUME NEW p \in rest
          PROVE  /\ p \in Q!Plan /\ left'[p[1]] = (p[2] + 1)..Repeats
                 /\ \A j \in 0..(p[2] - 1) : <<<<p[1], j>>, TRUE>> \in results'
                 /\ \A x \in results' : x[1][1] = p[1] => x[1][2] < p[2] /\ x[2] = TRUE
      <3>1. p \in Q!Live /\ p \in Q!Plan /\ p[1] \in Families /\ p[1] # f
        BY <1>1, <1>2, <2>1, PlanOf DEF Q!FamilyAt, rest
      <3>2. left'[p[1]] = left[p[1]]
        BY <1>5, <3>1
      <3>3. \A x \in results' : x[1][1] = p[1] => x \in results
        BY <1>0, <1>3, <3>1 DEF f
      <3> QED  BY <1>1, <1>10, <3>1, <3>2, <3>3 DEF Q!FamilyAt
    <2> QED  BY <1>6, <2>1 DEF Q!FamilyAt, Q!Plan
  <1>13. \A x \in results : x[1][1] = f => x[1][2] < k /\ x[2] = TRUE
    BY <1>1, <1>2 DEF Q!FamilyAt, f, k
  <1>14. \A p \in lost : p \in Q!Plan /\ p[1] = f /\ p[2] \in Nat /\ p[2] > k
    BY <1>3, <1>4 DEF lost, Q!Plan, Q!Occurrences
  <1>15. Q!Recorded'
    <2>1. ASSUME NEW x \in results, x[1] = r PROVE FALSE
      <3>1. x[1][1] = f /\ x[1][2] = k
        BY <2>1 DEF f, k
      <3> QED  BY <3>1, <1>3, <1>13
    <2>2. ASSUME NEW p \in skipped, p = r PROVE FALSE
      <3>1. PICK j \in 0..(p[2] - 1) : <<<<p[1], j>>, FALSE>> \in results
        BY <1>1 DEF Q!Recorded
      <3>2. <<<<p[1], j>>, FALSE>>[2] = TRUE
        BY <1>1, <1>2, <2>2, <3>1 DEF Q!FamilyAt
      <3> QED  BY <3>2
    <2>3. results' \subseteq Q!Plan \X BOOLEAN
      BY <1>0, <1>1 DEF Q!Recorded
    <2>4. \A x, y \in results' : x[1] = y[1] => x = y
      BY <1>0, <1>1, <2>1 DEF Q!Recorded
    <2>5. \A x \in results' : \A j \in 0..(x[1][2] - 1) : <<<<x[1][1], j>>, TRUE>> \in results'
      <3>1. z[1][1] = f /\ z[1][2] = k
        BY <1>0, <1>3
      <3> QED  BY <1>0, <1>1, <1>10, <1>11, <3>1 DEF Q!Recorded
    <2>6. \A p \in skipped : \A x \in results' : x[1] # p
      BY <1>0, <1>1, <2>2 DEF Q!Recorded
    <2>7. ASSUME NEW p \in lost, NEW x \in results', x[1] = p PROVE FALSE
      <3>1. CASE x = z
        BY <3>1, <2>7, <1>0, <1>3, <1>14
      <3>2. CASE x \in results
        BY <3>2, <2>7, <1>3, <1>13, <1>14
      <3> QED  BY <3>1, <3>2, <1>0
    <2>8. ASSUME ~ok, NEW p \in lost
          PROVE  \E j \in 0..(p[2] - 1) : <<<<p[1], j>>, FALSE>> \in results'
      <3>1. k \in 0..(p[2] - 1)
        BY <1>3, <1>14
      <3>2. ok = FALSE
        BY <2>8
      <3>3. <<<<f, k>>, FALSE>> \in results'
        BY <1>0, <1>10, <3>2
      <3> QED  BY <3>1, <3>3, <1>14
    <2>9. skipped' \subseteq Q!Plan
      BY <1>1, <1>7, <1>14 DEF Q!Recorded
    <2>10. ASSUME NEW p \in skipped'
           PROVE  /\ \A x \in results' : x[1] # p
                  /\ \E j \in 0..(p[2] - 1) : <<<<p[1], j>>, FALSE>> \in results'
      <3>1. CASE p \in skipped
        BY <3>1, <1>1, <1>10, <2>6 DEF Q!Recorded
      <3>2. CASE ~ok /\ p \in lost
        BY <3>2, <2>7, <2>8
      <3> QED  BY <3>1, <3>2, <1>7
    <2> QED  BY <2>3, <2>4, <2>5, <2>9, <2>10 DEF Q!Recorded, Q!Plan
  <1>16. ASSUME NEW j \in 0..Repeats
         PROVE  <<f, j>> \in skipped' \/ \E x \in results' : x[1] = <<f, j>>
    <2>1. CASE j < k
      <3> DEFINE x == <<<<f, j>>, TRUE>>
      <3>1. j \in 0..(k - 1)
        BY <2>1, <1>3
      <3>2. x \in results' /\ x[1] = <<f, j>>
        BY <3>1, <1>10, <1>11
      <3> QED  BY <3>2
    <2>2. CASE j = k
      BY <2>2, <1>0, <1>3
    <2>3. CASE j > k
      <3>1. ~ok /\ j \in left[f]
        BY <2>3, <1>3, <1>4, <1>8
      <3> QED  BY <3>1, <1>7 DEF lost
    <2> QED  BY <2>1, <2>2, <2>3, <1>3
  <1>17. Q!Settled'
    <2>1. \A g \in Families : g # f /\ (\E p \in Q!Live : p[1] = g) => \E p \in Q!Live' : p[1] = g
      BY <1>6 DEF rest, f
    <2>2. skipped \subseteq skipped'
      BY <1>7
    <2> QED  BY <1>1, <1>10, <1>16, <2>1, <2>2 DEF Q!Settled, Q!Occurrences
  <1>18. Q!Counted'
    <2>1. Cardinality(Q!Busy') = Cardinality(Q!Busy) - 1
          /\ Cardinality(Q!Busy) \in Nat /\ Cardinality(timers) \in Nat
      BY <1>1, <1>2, PlacesFinite, FS_RemoveElement, FS_CardinalityType
    <2>2. Q!Live # {}
      BY <1>2
    <2> QED  BY <1>1, <2>1, <2>2, SameCardinality DEF Q!Counted
  <1> QED  BY <1>2, <1>5, <1>9, <1>12, <1>15, <1>17, <1>18 DEF Q!ProbeInvariant

LEMMA CompleteKeeps ==
    ASSUME Q!ProbeInvariant, NEW t \in Slots, Q!Complete(t) PROVE Q!ProbeInvariant'
  <1> DEFINE f == slot[t][1]
             more == left[f] # {}
  <1>1. /\ slot[t] \in Q!Plan /\ slot' = [slot EXCEPT ![t] = Idle]
        /\ UNCHANGED <<queueClosed, slotEnded, failed, late>>
    BY DEF Q!Complete
  <1>2. PICK ok \in BOOLEAN :
        /\ results' = results \cup {<<slot[t], ok>>}
        /\ left' = [left EXCEPT ![f] = IF ~ok \/ ~more THEN {} ELSE @ \ {Q!FirstLeft(f)}]
        /\ ready' = IF ok /\ more /\ ~delayed THEN ready \cup {Q!Following(f)} ELSE ready
        /\ timers' = IF ok /\ more /\ delayed THEN timers \cup {Q!Following(f)} ELSE timers
        /\ inflight' = inflight - 1 + IF ok /\ more /\ delayed THEN 1 ELSE 0
        /\ skipped' = IF ok THEN skipped ELSE skipped \cup {<<f, j>> : j \in left[f]}
    BY DEF Q!Complete, Q!TimerCount
  <1>3. CASE ok /\ more
    <2>1. ok = TRUE
      BY <1>3
    <2>2. results' = results \cup {<<slot[t], TRUE>>}
      BY <1>2, <2>1
    <2>3. left' = [left EXCEPT ![f] = @ \ {Q!FirstLeft(f)}]
      BY <1>2, <1>3
    <2>4. /\ ready' = IF delayed THEN ready ELSE ready \cup {Q!Following(f)}
          /\ timers' = IF delayed THEN timers \cup {Q!Following(f)} ELSE timers
          /\ skipped' = skipped
      BY <1>2, <1>3
    <2>5. inflight' = inflight - 1 + (IF delayed THEN 1 ELSE 0)
      BY <1>2, <1>3
    <2> QED  BY <1>1, <1>3, <2>2, <2>3, <2>4, <2>5, GoOnKeeps
  <1>4. CASE ~(ok /\ more)
    <2>1. left' = [left EXCEPT ![f] = {}] /\ UNCHANGED <<ready, timers>>
      BY <1>2, <1>4
    <2>2. inflight' = inflight - 1
      BY <1>2, <1>4 DEF Q!ProbeInvariant, Q!Counted
    <2> QED  BY <1>1, <1>2, <1>4, <2>1, <2>2, LastKeeps
  <1> QED  BY <1>3, <1>4

LEMMA ProbeStep ==
    ASSUME Q!ProbeInvariant, Q!Next \/ UNCHANGED probeVars PROVE Q!ProbeInvariant'
  <1>1. CASE Q!Expire \/ UNCHANGED probeVars
    <2>1. /\ UNCHANGED <<left, ready, timers, results, skipped, failed, slot, slotEnded, inflight>>
          /\ queueClosed' = queueClosed /\ (late => late')
      BY <1>1 DEF Q!Expire, Q!queue, probeVars
    <2>2. Q!Busy' = Q!Busy
      BY <2>1 DEF Q!Busy, Q!Plan
    <2>3. Q!Live' = Q!Live
      BY <2>1, <2>2 DEF Q!Live
    <2>4. Q!Counted'
      BY <2>1, <2>2, <2>3 DEF Q!ProbeInvariant, Q!Counted
    <2>5. slot' = [t \in Slots |-> slot'[t]]
      BY <2>1 DEF Q!ProbeInvariant
    <2> QED  BY <2>1, <2>2, <2>4, <2>5, StillKept
  <1> QED  BY <1>1, WaitingKeeps, ClaimKeeps, CompleteKeeps, BreakKeeps, ReleaseKeeps DEF Q!Next

\* With as many results as requests, every request has one.
LEMMA NoneMissing ==
    ASSUME Q!FamilyAt, Q!Recorded, NEW r \in Q!Plan, \A x \in results : x[1] # r
    PROVE  Cardinality(results) < Cardinality(Q!Plan)
  <1> DEFINE others == Q!Plan \ {r}
             g == [x \in results |-> x[1]]
  <1>1. IsFiniteSet(Q!Plan)
    BY PlacesFinite
  <1>2. IsFiniteSet(others) /\ Cardinality(others) = Cardinality(Q!Plan) - 1
    BY <1>1, FS_RemoveElement
  <1>3. \A x \in results : x[1] \in others
    BY DEF Q!Recorded
  <1>4. g \in Injection(results, others)
    BY <1>3 DEF Q!Recorded, Injection, IsInjective
  <1> HIDE DEF others, g
  <1>5. IsFiniteSet(results) /\ Cardinality(results) <= Cardinality(others)
    BY <1>2, <1>4, FS_Injection DEF ExistsInjection
  <1>6. Cardinality(Q!Plan) \in Nat /\ Cardinality(results) \in Nat
    BY <1>1, <1>5, FS_CardinalityType
  <1> QED  BY <1>2, <1>5, <1>6

LEMMA ProbeInvariantSuffices == ASSUME Q!ProbeInvariant PROVE Q!FamiliesInOrder
  <1>1. Q!FamilyAt /\ Q!Recorded /\ Q!Settled /\ Q!Counted
    BY DEF Q!ProbeInvariant
  <1>2. ASSUME NEW r \in Q!Sent
        PROVE  r \in Q!Live \/ \E x \in results : x[1] = r
    BY DEF Q!Sent, Q!Live, Q!Busy
  <1>3. ASSUME NEW r \in Q!Sent, NEW k \in 0..(r[2] - 1) PROVE <<<<r[1], k>>, TRUE>> \in results
    BY <1>1, <1>2 DEF Q!FamilyAt, Q!Recorded
  <1>4. ASSUME NEW r \in skipped
        PROVE  r \notin Q!Sent /\ \E k \in 0..(r[2] - 1) : <<<<r[1], k>>, FALSE>> \in results
    <2>1. PICK k \in 0..(r[2] - 1) : <<<<r[1], k>>, FALSE>> \in results
      BY <1>1 DEF Q!Recorded
    <2>2. ASSUME r \in Q!Live PROVE FALSE
      <3> DEFINE x == <<<<r[1], k>>, FALSE>>
      <3>1. x[1][1] = r[1] /\ x[2] = FALSE
        OBVIOUS
      <3>2. x[2] = TRUE
        BY <1>1, <2>1, <2>2, <3>1 DEF Q!FamilyAt
      <3> QED  BY <3>1, <3>2
    <2> QED  BY <1>1, <1>2, <2>1, <2>2 DEF Q!Recorded
  <1>5. ASSUME Q!Joined, ~failed, NEW r \in Q!Plan
        PROVE  r \in skipped \/ r \in {x[1] : x \in results} \/ Q!TimedOut
    <2>1. late \/ Q!Live = {}
      BY <1>1, <1>5, ProbesAssumption DEF Q!Joined, Q!Counted
    <2>2. CASE late
      BY <1>1, <2>2, NoneMissing, SameCardinality DEF Q!TimedOut
    <2>3. CASE Q!Live = {}
      <3>1. r[1] \in Families /\ r[2] \in Q!Occurrences /\ r = <<r[1], r[2]>>
        BY PlanOf DEF Q!Occurrences
      <3> QED  BY <1>1, <1>5, <2>3, <3>1 DEF Q!Settled
    <2> QED  BY <2>1, <2>2, <2>3
  <1> QED  BY <1>3, <1>4, <1>5 DEF Q!FamiliesInOrder

\* In every state of a cache probe (DependentPlanQueue, _execute_cache_probe), for
\* any number of families, repeats and threads: the requests of a family run in
\* order and one after the other's success, and none is lost between the queue, the
\* timers and the threads.
THEOREM FamiliesStayInOrder == ServicesSpec => []FamiliesInOrder
  <1> DEFINE Inv == part = "probes" => Q!ProbeInvariant
  <1>1. ServicesInit => Inv
    BY ProbeInit DEF ServicesInit
  <1>2. Inv /\ [ServicesNext /\ UNCHANGED part]_<<part, serviceVars>> => Inv'
    BY ServiceStep, ProbeStep
  <1>3. Inv => FamiliesInOrder
    BY ProbeInvariantSuffices DEF FamiliesInOrder
  <1> QED  BY <1>1, <1>2, <1>3, PTL DEF ServicesSpec

-----------------------------------------------------------------------------
(* The status of a Campaign.                                               *)

LEMMA StatusInit == ASSUME C!Init PROVE C!StatusInvariant
  <1>1. source \in [Runners -> {"direct", "added", "plan", "task"}]
    BY StatusAssumption DEF C!Init
  <1>2. C!RowsTyped
    <2>1. runner \in [Runners -> C!RunnerStates \cup {"absent"}]
      BY <1>1 DEF C!Init, C!RunnerStates
    <2>2. node \in [Runners -> C!NodeStates \cup {"absent"}]
      BY DEF C!Init, C!NodeStates
    <2>3. \A r \in Runners : /\ source[r] = "direct" => runner[r] # "absent"
                             /\ source[r] # "direct" => runner[r] = "absent"
                             /\ source[r] # "task" => node[r] = "absent"
      BY DEF C!Init
    <2>4. plan \in C!PlanStates \cup {"none"} /\ instance \in C!TaskStates \cup {"none"}
      BY DEF C!Init, C!NewPlan, C!PlanStates, C!TaskStates
    <2>5. client \in {"campaign", "runners"} /\ poll = "idle"
      BY DEF C!Init
    <2>6. emitted \in BOOLEAN
      BY Zenon DEF C!Init
    <2> QED  BY <1>1, <2>1, <2>2, <2>3, <2>4, <2>5, <2>6 DEF C!RowsTyped
  <1>3. C!ReadIsCurrent
    BY DEF C!Init, C!NothingSeen, C!ReadIsCurrent, C!EndsAreKept
  <1>4. C!AnswerStays
    BY DEF C!Init, C!AnswerStays
  <1> QED  BY <1>2, <1>3, <1>4 DEF C!StatusInvariant

\* A Runner and the task instance never leave their last state, and nothing else does
\* unless something is added.
Stable ==
    /\ UNCHANGED <<source, C!reader>>
    /\ emitted => emitted'
    /\ emitted' \/ \A r \in Runners : runner[r] \notin {"queued", "running"} => runner'[r] = runner[r]
    /\ emitted' \/ \A r \in Runners : ~C!Open(r) => node'[r] = node[r]
    /\ emitted' \/ plan \in {"active", "paused"} \/ plan' = plan
    /\ \A r \in Runners : runner[r] \in C!Outcomes => runner'[r] = runner[r]
    /\ ~C!TaskPending => instance' = instance
    /\ emitted' \/ (C!Over => UNCHANGED <<runner, node, plan, instance>>)

\* The Planner and a task create Runners.
LEMMA CreationStable ==
    ASSUME C!RowsTyped, NEW r \in Runners, C!Fire(r) \/ C!Activate(r)
    PROVE  C!RowsTyped' /\ Stable
  <1> USE DEF C!RowsTyped
  <1>1. emitted'
    BY DEF C!Fire, C!Activate
  <1>2. emitted' \in BOOLEAN
    BY Zenon DEF C!Fire, C!Activate
  <1>3. runner' \in [Runners -> C!RunnerStates \cup {"absent"}]
    BY DEF C!Fire, C!Activate, C!RunnerStates
  <1>4. node' \in [Runners -> C!NodeStates \cup {"absent"}]
    BY DEF C!Fire, C!Activate, C!NodeStates
  <1>5. plan' \in C!PlanStates \cup {"none"} /\ instance' \in C!TaskStates \cup {"none"}
    BY DEF C!Fire, C!Activate, C!PlanAfterFire, C!PlanStates, C!TaskStates
  <1>6. UNCHANGED <<source, C!reader>>
    BY DEF C!Fire, C!Activate
  <1>7. source[r] \in {"plan", "task"} /\ node[r] # "emitted"
    BY DEF C!Fire, C!Activate
  <1>8. /\ \A q \in Runners : q # r => runner'[q] = runner[q] /\ node'[q] = node[q]
        /\ node'[r] = "emitted"
    BY DEF C!Fire, C!Activate
  <1>9. ~C!TaskPending => instance' = instance
    BY DEF C!Fire, C!Activate
  <1>10. C!RowsTyped'
    BY <1>2, <1>3, <1>4, <1>5, <1>6, <1>7, <1>8 DEF C!reader
  <1>11. runner[r] \notin C!Outcomes
    BY <1>7 DEF C!Outcomes
  <1> QED  BY <1>1, <1>6, <1>8, <1>9, <1>10, <1>11 DEF Stable

\* A request adds Runners or a plan.
LEMMA AdditionStable ==
    ASSUME C!RowsTyped, C!AddRunners \/ C!AddPlan
    PROVE  C!RowsTyped' /\ Stable
  <1>1. emitted' /\ UNCHANGED <<source, node, instance, C!reader>>
    BY DEF C!AddRunners, C!AddPlan
  <1>2. emitted' \in BOOLEAN
    BY Zenon DEF C!AddRunners, C!AddPlan
  <1>3. plan' \in C!PlanStates \cup {"none"}
    BY DEF C!AddRunners, C!AddPlan, C!NewPlan, C!PlanStates, C!RowsTyped
  <1>4. /\ runner' \in [Runners -> C!RunnerStates \cup {"absent"}]
        /\ \A q \in Runners :
              \/ runner'[q] = runner[q]
              \/ /\ source[q] = "added" /\ runner[q] = "absent"
                 /\ runner'[q] = "queued"
    <2>1. CASE C!AddPlan
      BY <2>1 DEF C!AddPlan, C!RowsTyped
    <2>2. CASE C!AddRunners
      <3>1. PICK batched \in SUBSET {r \in C!Of("added") : runner[r] = "absent"} :
                runner' = [r \in Runners |-> IF r \in batched THEN "queued" ELSE runner[r]]
        BY <2>2 DEF C!AddRunners
      <3> QED  BY <3>1 DEF C!RowsTyped, C!RunnerStates, C!Of
    <2> QED  BY <2>1, <2>2
  <1>5. C!RowsTyped'
    BY <1>1, <1>2, <1>3, <1>4 DEF C!RowsTyped, C!reader
  <1>6. \A q \in Runners : runner[q] \in C!Outcomes => runner'[q] = runner[q]
    BY <1>4 DEF C!Outcomes
  <1> QED  BY <1>1, <1>5, <1>6 DEF Stable

\* A Runner starts or ends.
LEMMA EndStable ==
    ASSUME C!RowsTyped, NEW r \in Runners, NEW outcome \in C!Outcomes,
           runner[r] \in {"queued", "running"}, C!End(r, outcome),
           UNCHANGED <<source, plan, C!reader, emitted>>
    PROVE  C!RowsTyped' /\ Stable
  <1> USE DEF C!RowsTyped
  <1>1. runner' \in [Runners -> C!RunnerStates \cup {"absent"}]
    BY DEF C!End, C!RunnerStates, C!Outcomes
  <1>2. node' \in [Runners -> C!NodeStates \cup {"absent"}]
    BY DEF C!End, C!NodeStates
  <1>3. instance' \in C!TaskStates \cup {"none"}
    BY DEF C!End, C!TaskStates
  <1>4. \A q \in Runners : /\ runner[q] \notin {"queued", "running"} => runner'[q] = runner[q]
                           /\ runner'[q] = runner[q] \/ runner'[q] \in C!Outcomes
                           /\ ~C!Open(q) => node'[q] = node[q]
                           /\ node'[q] = node[q] \/ node'[q] = "cancelled"
    BY DEF C!End, C!Outcomes
  <1>5. ~C!TaskPending => instance' = instance
    BY DEF C!End
  <1>6. ~C!Over
    BY DEF C!Over
  <1>7. \A q \in Runners : /\ source[q] = "direct" => runner'[q] # "absent"
                           /\ source[q] \in {"direct", "added"} => node'[q] = "absent"
                           /\ source[q] \in {"plan", "task"} /\ node'[q] # "emitted" => runner'[q] = "absent"
    BY <1>4 DEF C!Outcomes, C!Open
  <1>8. C!RowsTyped'
    BY <1>1, <1>2, <1>3, <1>7 DEF C!reader
  <1>9. \A q \in Runners : runner[q] \in C!Outcomes => runner'[q] = runner[q]
    BY <1>4 DEF C!Outcomes
  <1> QED  BY <1>4, <1>5, <1>6, <1>8, <1>9 DEF Stable

LEMMA RunnerStable ==
    ASSUME C!RowsTyped, NEW r \in Runners, C!Start(r) \/ C!Finish(r) \/ C!RequestCancel(r)
    PROVE  C!RowsTyped' /\ Stable
  <1>1. CASE C!Start(r)
    <2> USE <1>1 DEF C!Start, C!RowsTyped
    <2>1. runner' \in [Runners -> C!RunnerStates \cup {"absent"}]
      BY DEF C!RunnerStates
    <2>2. runner'[r] # "absent" /\ runner[r] = "queued"
          /\ \A q \in Runners : q # r => runner'[q] = runner[q]
      OBVIOUS
    <2>3. \A q \in Runners : /\ source[q] = "direct" => runner'[q] # "absent"
                             /\ source[q] \in {"plan", "task"} /\ node[q] # "emitted" => runner'[q] = "absent"
      BY <2>2
    <2>4. C!RowsTyped'
      BY <2>1, <2>3 DEF C!reader
    <2>5. ~C!Over
      BY <2>2 DEF C!Over
    <2> QED  BY <2>2, <2>4, <2>5 DEF Stable, C!Outcomes
  <1>2. CASE C!Finish(r)
    <2>1. PICK outcome \in C!Outcomes : C!End(r, outcome)
      BY <1>2 DEF C!Finish, C!Outcomes
    <2> QED  BY <1>2, <2>1, EndStable DEF C!Finish
  <1>3. CASE C!RequestCancel(r) /\ runner[r] = "queued"
    <2>1. "cancelled" \in C!Outcomes /\ C!End(r, "cancelled")
      BY <1>3 DEF C!RequestCancel, C!Outcomes
    <2> QED  BY <1>3, <2>1, EndStable DEF C!RequestCancel
  <1>4. CASE C!RequestCancel(r) /\ runner[r] # "queued"
    <2>1. UNCHANGED <<source, runner, node, plan, instance, C!reader, emitted>>
      BY <1>4 DEF C!RequestCancel
    <2>2. C!RowsTyped'
      BY <2>1 DEF C!RowsTyped, C!reader
    <2> QED  BY <2>1, <2>2 DEF Stable
  <1> QED  BY <1>1, <1>2, <1>3, <1>4

\* A plan changes, or the Campaign is cancelled.
LEMMA CampaignStable ==
    ASSUME C!RowsTyped, C!SkipRest \/ C!SetPlan \/ C!CancelCampaign
    PROVE  C!RowsTyped' /\ Stable
  <1>1. CASE C!SkipRest \/ C!SetPlan
    <2>1. UNCHANGED <<source, runner, node, instance, C!reader, emitted>>
      BY <1>1 DEF C!SkipRest, C!SetPlan
    <2>2. plan \in {"active", "paused"} /\ plan' \in C!PlanStates
      BY <1>1 DEF C!SkipRest, C!SetPlan, C!PlanStates
    <2>3. C!RowsTyped'
      BY <2>1, <2>2 DEF C!RowsTyped, C!reader
    <2> QED  BY <2>1, <2>2, <2>3 DEF Stable, C!Over
  <1>2. CASE C!CancelCampaign
    <2> USE <1>2 DEF C!CancelCampaign, C!RowsTyped
    <2>1. runner' \in [Runners -> C!RunnerStates \cup {"absent"}]
      BY DEF C!RunnerStates
    <2>2. node' \in [Runners -> C!NodeStates \cup {"absent"}]
      BY DEF C!NodeStates
    <2>3. instance' \in C!TaskStates \cup {"none"} /\ plan' \in C!PlanStates \cup {"none"}
      BY DEF C!TaskStates, C!PlanStates
    <2>4. \A q \in Runners : /\ runner[q] # "queued" => runner'[q] = runner[q]
                             /\ runner'[q] \in {runner[q], "cancelled"}
                             /\ ~C!Open(q) => node'[q] = node[q]
                             /\ C!Open(q) => node'[q] = "cancelled"
      OBVIOUS
    <2>5. /\ ~C!TaskPending => instance' = instance
          /\ plan \notin {"active", "paused"} => plan' = plan
          /\ UNCHANGED <<source, C!reader, emitted>>
      OBVIOUS
    <2>6. \A q \in Runners : /\ source[q] = "direct" => runner'[q] # "absent"
                             /\ source[q] \in {"direct", "added"} => node'[q] = "absent"
                             /\ source[q] \in {"plan", "task"} /\ node'[q] # "emitted" => runner'[q] = "absent"
      BY <2>4 DEF C!Open
    <2>7. C!RowsTyped'
      BY <2>1, <2>2, <2>3, <2>5, <2>6 DEF C!reader
    <2>8. C!Over => UNCHANGED <<runner, node, plan, instance>>
      <3> SUFFICES ASSUME C!Over PROVE UNCHANGED <<runner, node, plan, instance>>
        OBVIOUS
      <3>1. \A q \in Runners : runner'[q] = runner[q] /\ node'[q] = node[q]
        BY <2>4 DEF C!Over
      <3>2. runner' = runner /\ node' = node
        BY <3>1, <2>1, <2>2
      <3> QED  BY <2>5, <3>2 DEF C!Over
    <2>9. \A q \in Runners : runner[q] \notin {"queued", "running"} => runner'[q] = runner[q]
      BY <2>4
    <2>10. \A q \in Runners : runner[q] \in C!Outcomes => runner'[q] = runner[q]
      BY <2>4 DEF C!Outcomes
    <2> HIDE DEF C!CancelCampaign
    <2> QED  BY <2>4, <2>5, <2>7, <2>8, <2>9, <2>10 DEF Stable
  <1> QED  BY <1>1, <1>2

LEMMA CampaignCardinality == \A s : C!Cardinality(s) = Cardinality(s)
  BY Zenon DEF C!Cardinality, Cardinality

\* The tables that a poll can read.
Tables == [runners : SUBSET (Runners \X C!RunnerStates), plans : SUBSET ({0} \X C!PlanStates),
           tasks : SUBSET ({0} \X C!TaskStates), nodes : SUBSET (Runners \X C!NodeStates)]

\* A count is zero just if no row is in the state.
LEMMA CountOf ==
    ASSUME NEW table, IsFiniteSet(table), NEW state
    PROVE  /\ C!Count(table, state) \in Nat
           /\ C!Count(table, state) = 0 <=> \A z \in table : z[2] # state
  <1> DEFINE in == {z \in table : z[2] = state}
  <1>1. IsFiniteSet(in)
    BY FS_Subset
  <1>2. Cardinality(in) \in Nat /\ (Cardinality(in) = 0 <=> in = {})
    BY <1>1, FS_CardinalityType, FS_EmptySet
  <1>3. C!Count(table, state) = Cardinality(in)
    BY CampaignCardinality DEF C!Count
  <1>4. in = {} <=> \A z \in table : z[2] # state
    OBVIOUS
  <1> QED  BY <1>2, <1>3, <1>4

LEMMA TablesFinite ==
    ASSUME NEW s \in Tables
    PROVE  /\ IsFiniteSet(s.runners) /\ IsFiniteSet(s.plans)
           /\ IsFiniteSet(s.tasks) /\ IsFiniteSet(s.nodes)
  <1>1. /\ IsFiniteSet(C!RunnerStates) /\ IsFiniteSet(C!PlanStates) /\ IsFiniteSet(C!TaskStates)
        /\ IsFiniteSet(C!NodeStates) /\ IsFiniteSet({0})
    <2>1. \A x : IsFiniteSet({x})
      BY FS_Singleton
    <2>2. C!RunnerStates = {"queued"} \cup {"running"} \cup {"succeeded"} \cup {"failed"} \cup {"cancelled"}
      BY DEF C!RunnerStates
    <2>3. C!PlanStates = {"active"} \cup {"paused"} \cup {"completed"} \cup {"cancelled"}
      BY DEF C!PlanStates
    <2>4. C!TaskStates = {"planned"} \cup {"active"} \cup {"completed"} \cup {"failed"} \cup {"cancelled"}
      BY DEF C!TaskStates
    <2>5. C!NodeStates = {"blocked"} \cup {"pending"} \cup {"emitted"} \cup {"cancelled"}
      BY DEF C!NodeStates
    <2>6. \A x, y : IsFiniteSet(x) /\ IsFiniteSet(y) => IsFiniteSet(x \cup y)
      BY FS_Union
    <2> QED  BY <2>1, <2>2, <2>3, <2>4, <2>5, <2>6, Zenon
  <1>2. /\ IsFiniteSet(Runners \X C!RunnerStates) /\ IsFiniteSet({0} \X C!PlanStates)
        /\ IsFiniteSet({0} \X C!TaskStates) /\ IsFiniteSet(Runners \X C!NodeStates)
    BY <1>1, StatusAssumption, FS_Product
  <1> QED  BY <1>2, FS_Subset DEF Tables

\* A Campaign is said to be at its end just when no row read is on its way.
LEMMA TerminalIsFree ==
    ASSUME NEW s \in Tables, C!Status(s) \in C!CAMPAIGN_TERMINAL_STATUSES
    PROVE  /\ C!Free(s.runners, {"queued", "running"}) /\ C!Free(s.plans, {"active", "paused"})
           /\ C!Free(s.tasks, {"planned", "active"}) /\ C!Free(s.nodes, {"blocked", "pending"})
  <1>1. \A x \in {"queued", "running"} : C!Count(s.runners, x) \in Nat
            /\ (C!Count(s.runners, x) = 0 => \A z \in s.runners : z[2] # x)
    BY TablesFinite, CountOf
  <1>2. \A x \in {"active", "paused"} : C!Count(s.plans, x) \in Nat
            /\ (C!Count(s.plans, x) = 0 => \A z \in s.plans : z[2] # x)
    BY TablesFinite, CountOf
  <1>3. \A x \in {"planned", "active"} : C!Count(s.tasks, x) \in Nat
            /\ (C!Count(s.tasks, x) = 0 => \A z \in s.tasks : z[2] # x)
    BY TablesFinite, CountOf
  <1>4. \A x \in {"blocked", "pending"} : C!Count(s.nodes, x) \in Nat
            /\ (C!Count(s.nodes, x) = 0 => \A z \in s.nodes : z[2] # x)
    BY TablesFinite, CountOf
  <1>5. ~(C!Count(s.runners, "running") > 0)
    BY DEF C!Status, C!CAMPAIGN_TERMINAL_STATUSES
  <1>6. ~(C!Count(s.runners, "queued") > 0)
    BY <1>5, <1>1 DEF C!Status, C!CAMPAIGN_TERMINAL_STATUSES
  <1>7. /\ ~(C!Count(s.tasks, "planned") + C!Count(s.tasks, "active") > 0)
        /\ ~(C!Count(s.nodes, "blocked") + C!Count(s.nodes, "pending") > 0)
        /\ ~(C!Count(s.plans, "active") > 0)
    BY <1>5, <1>6 DEF C!Status, C!CAMPAIGN_TERMINAL_STATUSES
  <1>8. ~(C!Count(s.plans, "paused") > 0)
    BY <1>5, <1>6, <1>7 DEF C!Status, C!CAMPAIGN_TERMINAL_STATUSES
  <1>9. /\ C!Count(s.runners, "running") = 0 /\ C!Count(s.runners, "queued") = 0
        /\ C!Count(s.plans, "active") = 0 /\ C!Count(s.plans, "paused") = 0
    BY <1>1, <1>2, <1>5, <1>6, <1>7, <1>8
  <1>10. /\ C!Count(s.tasks, "planned") = 0 /\ C!Count(s.tasks, "active") = 0
         /\ C!Count(s.nodes, "blocked") = 0 /\ C!Count(s.nodes, "pending") = 0
    BY <1>3, <1>4, <1>7
  <1> QED  BY <1>1, <1>2, <1>3, <1>4, <1>9, <1>10 DEF C!Free

\* The tables as they are now.
LEMMA NowOf ==
    ASSUME C!RowsTyped
    PROVE  /\ C!Now \in Tables
           /\ C!Free(C!Now.runners, {"queued", "running"})
                <=> \A r \in Runners : runner[r] \notin {"queued", "running"}
           /\ C!Free(C!Now.nodes, {"blocked", "pending"}) <=> \A r \in Runners : ~C!Open(r)
           /\ C!Free(C!Now.plans, {"active", "paused"}) <=> plan \notin {"active", "paused"}
           /\ C!Free(C!Now.tasks, {"planned", "active"}) <=> ~C!TaskPending
           /\ \A r \in Runners : runner[r] # "absent" => \E z \in C!Now.runners : z[2] = runner[r]
           /\ instance # "none" => \E z \in C!Now.tasks : z[2] = instance
  <1> DEFINE n == C!Now
  <1>1. /\ n = [runners |-> n.runners, plans |-> n.plans, tasks |-> n.tasks, nodes |-> n.nodes]
        /\ n.runners = C!Rows(runner, "absent") /\ n.plans = C!One(plan)
        /\ n.tasks = C!One(instance) /\ n.nodes = C!Rows(node, "absent")
    BY DEF C!Now
  <1>2. n.runners = {<<r, runner[r]>> : r \in {q \in Runners : runner[q] # "absent"}}
    BY <1>1 DEF C!Rows, C!RowsTyped
  <1>3. n.nodes = {<<r, node[r]>> : r \in {q \in Runners : node[q] # "absent"}}
    BY <1>1 DEF C!Rows, C!RowsTyped
  <1>4. n.plans = IF plan = "none" THEN {} ELSE {<<0, plan>>}
    BY <1>1 DEF C!One
  <1>5. n.tasks = IF instance = "none" THEN {} ELSE {<<0, instance>>}
    BY <1>1 DEF C!One
  <1> HIDE DEF n
  <1>6. n.runners \in SUBSET (Runners \X C!RunnerStates)
    BY <1>2 DEF C!RowsTyped
  <1>7. n.nodes \in SUBSET (Runners \X C!NodeStates)
    BY <1>3 DEF C!RowsTyped
  <1>8. n.plans \in SUBSET ({0} \X C!PlanStates) /\ n.tasks \in SUBSET ({0} \X C!TaskStates)
    BY <1>4, <1>5 DEF C!RowsTyped
  <1>9. n \in Tables
    BY <1>1, <1>6, <1>7, <1>8 DEF Tables
  <1>10. ASSUME NEW r \in Runners
         PROVE  /\ runner[r] # "absent" => \E z \in n.runners : z[2] = runner[r]
                /\ node[r] # "absent" => \E z \in n.nodes : z[2] = node[r]
    <2> DEFINE x == <<r, runner[r]>>
               y == <<r, node[r]>>
    <2>1. /\ runner[r] # "absent" => x \in n.runners
          /\ node[r] # "absent" => y \in n.nodes
          /\ x[2] = runner[r] /\ y[2] = node[r]
      BY <1>2, <1>3
    <2> HIDE DEF x, y
    <2> QED  BY <2>1
  <1>11. /\ plan # "none" => \E z \in n.plans : z[2] = plan
         /\ instance # "none" => \E z \in n.tasks : z[2] = instance
    <2> DEFINE x == <<0, plan>>
               y == <<0, instance>>
    <2>1. /\ plan # "none" => x \in n.plans
          /\ instance # "none" => y \in n.tasks
          /\ x[2] = plan /\ y[2] = instance
      BY <1>4, <1>5
    <2> HIDE DEF x, y
    <2> QED  BY <2>1
  <1>12. /\ \A z \in n.runners : \E r \in Runners : z[2] = runner[r]
         /\ \A z \in n.nodes : \E r \in Runners : z[2] = node[r]
         /\ \A z \in n.plans : z[2] = plan
         /\ \A z \in n.tasks : z[2] = instance
    BY <1>2, <1>3, <1>4, <1>5
  <1>13. /\ C!Free(n.runners, {"queued", "running"})
                <=> \A r \in Runners : runner[r] \notin {"queued", "running"}
         /\ C!Free(n.nodes, {"blocked", "pending"}) <=> \A r \in Runners : ~C!Open(r)
    BY <1>10, <1>12 DEF C!Free, C!Open
  <1>14. /\ C!Free(n.plans, {"active", "paused"}) <=> plan \notin {"active", "paused"}
         /\ C!Free(n.tasks, {"planned", "active"}) <=> ~C!TaskPending
    BY <1>11, <1>12 DEF C!Free, C!TaskPending
  <1> QED  BY <1>9, <1>10, <1>11, <1>13, <1>14 DEF n

\* The Runners of a table that are at their end stay there.
LEMMA KeptEnds ==
    ASSUME Stable, NEW table, table \subseteq Runners \X C!RunnerStates, C!EndsAreKept(table)
    PROVE  \A z \in table : z[2] \in C!Outcomes => runner'[z[1]] = z[2]
  BY DEF Stable, C!EndsAreKept

\* What was read at its end is still so.
LEMMA StableKeeps ==
    ASSUME C!StatusInvariant, C!RowsTyped', Stable
    PROVE  C!StatusInvariant'
  <1>1. UNCHANGED <<source, client, poll, seen, answer>>
    BY DEF Stable, C!reader
  <1>2. ~emitted' /\ C!Free(C!Now.runners, {"queued", "running"}) => C!Now'.runners = C!Now.runners
    <2> SUFFICES ASSUME ~emitted', C!Free(C!Now.runners, {"queued", "running"})
                 PROVE  C!Now'.runners = C!Now.runners
      OBVIOUS
    <2>1. \A r \in Runners : runner[r] \notin {"queued", "running"}
      BY NowOf DEF C!StatusInvariant
    <2>2. \A r \in Runners : runner'[r] = runner[r]
      BY <2>1 DEF Stable
    <2>3. runner' = runner
      BY <2>2 DEF C!RowsTyped, C!StatusInvariant
    <2> QED  BY <2>3 DEF C!Now
  <1>3. ~emitted' /\ C!Free(C!Now.nodes, {"blocked", "pending"}) => C!Now'.nodes = C!Now.nodes
    <2> SUFFICES ASSUME ~emitted', C!Free(C!Now.nodes, {"blocked", "pending"})
                 PROVE  C!Now'.nodes = C!Now.nodes
      OBVIOUS
    <2>1. \A r \in Runners : ~C!Open(r)
      BY NowOf DEF C!StatusInvariant
    <2>2. \A r \in Runners : node'[r] = node[r]
      BY <2>1 DEF Stable
    <2>3. node' = node
      BY <2>2 DEF C!RowsTyped, C!StatusInvariant
    <2> QED  BY <2>3 DEF C!Now
  <1>4. ~emitted' /\ C!Free(C!Now.plans, {"active", "paused"}) => C!Now'.plans = C!Now.plans
    <2>1. ~emitted' /\ C!Free(C!Now.plans, {"active", "paused"}) => plan' = plan
      BY NowOf DEF C!StatusInvariant, Stable
    <2> QED  BY <2>1 DEF C!Now
  <1>5. C!Free(C!Now.tasks, {"planned", "active"}) => C!Now'.tasks = C!Now.tasks
    <2>1. C!Free(C!Now.tasks, {"planned", "active"}) => instance' = instance
      BY NowOf DEF C!StatusInvariant, Stable
    <2> QED  BY <2>1 DEF C!Now
  <1>6. C!ReadIsCurrent'
    <2> USE <1>1 DEF C!ReadIsCurrent, C!StatusInvariant
    <2>1. (client = "campaign" /\ poll # "idle" /\ ~emitted /\ C!Free(seen.runners, {"queued", "running"})
              => seen.runners = C!Now.runners)'
      BY <1>2 DEF Stable
    <2>2. (poll \in {"tasks", "nodes", "read"} /\ ~emitted /\ C!Free(seen.plans, {"active", "paused"})
              => seen.plans = C!Now.plans)'
      BY <1>4 DEF Stable
    <2>3. (poll \in {"nodes", "read"} /\ C!Free(seen.tasks, {"planned", "active"})
              => seen.tasks = C!Now.tasks)'
      BY <1>5
    <2>4. (poll = "read" /\ ~emitted /\ C!Free(seen.nodes, {"blocked", "pending"})
              => seen.nodes = C!Now.nodes)'
      BY <1>3 DEF Stable
    <2>5. C!EndsAreKept(seen.runners)'
      BY KeptEnds DEF C!EndsAreKept
    <2>6. (client = "campaign" /\ poll # "idle" => C!Of("direct") \subseteq C!RowIds(seen.runners))'
      BY DEF C!Of, C!RowIds
    <2> QED  BY <2>1, <2>2, <2>3, <2>4, <2>5, <2>6 DEF C!RunnerStates, C!PlanStates, C!TaskStates, C!NodeStates
  <1>7. C!AnswerStays'
    <2> USE <1>1
    <2>1. ~emitted' /\ C!Over => C!Over' /\ C!Now' = C!Now
      BY DEF Stable, C!Over, C!Now, C!TaskPending, C!Open
    <2>2. ~emitted' /\ C!Over /\ answer.status = C!Status(C!Now) /\ answer.outcome = C!Outcome(C!Now) =>
            C!Over' /\ answer'.status = C!Status(C!Now)' /\ answer'.outcome = C!Outcome(C!Now)'
      BY <2>1 DEF C!Status, C!Outcome
    <2>3. ASSUME answer # NoAnswer PROVE C!EndsAreKept(answer.runners)'
      <3>1. answer.runners \subseteq Runners \X C!RunnerStates /\ C!EndsAreKept(answer.runners)
        BY <2>3 DEF C!AnswerStays, C!StatusInvariant, C!Outcomes, C!RunnerStates
      <3> QED  BY <3>1, KeptEnds DEF C!EndsAreKept
    <2>4. C!ExitSuccess' = C!ExitSuccess
      BY DEF C!ExitSuccess
    <2>5. ~C!TaskPending => ~C!TaskPending' /\ instance' = instance
      BY DEF Stable, C!TaskPending
    <2>6. ~emitted' => ~emitted
      BY DEF Stable
    <2> QED  BY <2>2, <2>3, <2>4, <2>5, <2>6
             DEF C!AnswerStays, C!StatusInvariant, C!CAMPAIGN_TERMINAL_STATUSES, C!Of, C!RowIds
  <1> QED  BY <1>6, <1>7 DEF C!StatusInvariant

\* A statement of get_campaign_status reads its rows as they are.
LEMMA ReadKeeps ==
    ASSUME C!StatusInvariant, C!ReadRunners \/ C!ReadPlans \/ C!ReadTasks \/ C!ReadNodes
    PROVE  C!StatusInvariant'
  <1> USE DEF C!StatusInvariant
  <1>1. /\ client = "campaign" /\ answer = NoAnswer
        /\ UNCHANGED <<source, runner, node, plan, instance, client, answer>>
    BY DEF C!ReadRunners, C!ReadPlans, C!ReadTasks, C!ReadNodes, C!Read, C!rows
  <1>2. C!Now' = C!Now
    BY <1>1 DEF C!Now
  <1>3. seen \in Tables
    BY DEF C!ReadIsCurrent, Tables
  <1>4. C!Now \in Tables
    BY NowOf
  <1>5. emitted' \in BOOLEAN
    BY Zenon DEF C!ReadRunners, C!ReadPlans, C!ReadTasks, C!ReadNodes, C!RowsTyped
  <1>6. poll' \in {"plans", "tasks", "nodes", "read"}
    BY DEF C!ReadRunners, C!ReadPlans, C!ReadTasks, C!ReadNodes, C!Read
  <1>7. C!RowsTyped'
    BY <1>1, <1>5, <1>6 DEF C!RowsTyped, C!RunnerStates, C!NodeStates, C!PlanStates, C!TaskStates
  <1>8. C!AnswerStays'
    BY <1>1 DEF C!AnswerStays
  <1>14. ASSUME seen'.runners = seen.runners, poll # "idle"
         PROVE  /\ C!EndsAreKept(seen.runners)'
                /\ C!Of("direct")' \subseteq C!RowIds(seen'.runners)
    BY <1>1, <1>14 DEF C!ReadIsCurrent, C!EndsAreKept, C!Of, C!RowIds
  <1>9. seen' \in Tables
    BY <1>3, <1>4 DEF C!ReadRunners, C!ReadPlans, C!ReadTasks, C!ReadNodes, C!Read, Tables
  <1>10. CASE C!ReadRunners
    <2>1. seen'.runners = C!Now.runners /\ poll' = "plans"
      BY <1>10, <1>3 DEF C!ReadRunners, C!Read, Tables
    <2>2. C!Now.runners = {<<r, runner[r]>> : r \in {q \in Runners : runner[q] # "absent"}}
      BY DEF C!Now, C!Rows, C!RowsTyped
    <2>3. C!EndsAreKept(seen.runners)'
      <3>1. \A z \in C!Now.runners : runner[z[1]] = z[2]
        BY <2>2
      <3> QED  BY <1>1, <2>1, <3>1 DEF C!EndsAreKept
    <2>4. C!Of("direct")' \subseteq C!RowIds(seen'.runners)
      <3> SUFFICES ASSUME NEW r \in C!Of("direct") PROVE r \in C!RowIds(C!Now.runners)
        BY <1>1, <2>1 DEF C!Of
      <3> DEFINE z == <<r, runner[r]>>
      <3>1. z \in C!Now.runners /\ z[1] = r
        BY <2>2 DEF C!RowsTyped, C!Of
      <3> HIDE DEF z
      <3> QED  BY <3>1 DEF C!RowIds
    <2> QED  BY <1>1, <1>2, <1>7, <1>8, <1>9, <2>1, <2>3, <2>4
             DEF C!ReadIsCurrent, Tables, C!RunnerStates, C!NodeStates, C!PlanStates, C!TaskStates
  <1>11. CASE C!ReadPlans
    <2>1. seen'.plans = C!Now.plans /\ seen'.runners = seen.runners /\ poll = "plans" /\ poll' = "tasks"
          /\ emitted' = emitted
      BY <1>11, <1>3 DEF C!ReadPlans, C!Read, Tables
    <2> QED  BY <1>1, <1>2, <1>7, <1>8, <1>9, <1>14, <2>1
             DEF C!ReadIsCurrent, Tables, C!RunnerStates, C!NodeStates, C!PlanStates, C!TaskStates, C!Free
  <1>12. CASE C!ReadTasks
    <2>1. /\ seen'.tasks = C!Now.tasks /\ seen'.runners = seen.runners /\ seen'.plans = seen.plans
          /\ poll = "tasks" /\ poll' = "nodes" /\ emitted' = emitted
      BY <1>12, <1>3 DEF C!ReadTasks, C!Read, Tables
    <2> QED  BY <1>1, <1>2, <1>7, <1>8, <1>9, <1>14, <2>1
             DEF C!ReadIsCurrent, Tables, C!RunnerStates, C!NodeStates, C!PlanStates, C!TaskStates, C!Free
  <1>13. CASE C!ReadNodes
    <2>1. /\ seen'.nodes = C!Now.nodes /\ seen'.runners = seen.runners /\ seen'.plans = seen.plans
          /\ seen'.tasks = seen.tasks /\ poll = "nodes" /\ poll' = "read" /\ emitted' = emitted
      BY <1>13, <1>3 DEF C!ReadNodes, C!Read, Tables
    <2> QED  BY <1>1, <1>2, <1>7, <1>8, <1>9, <1>14, <2>1
             DEF C!ReadIsCurrent, Tables, C!RunnerStates, C!NodeStates, C!PlanStates, C!TaskStates, C!Free
  <1> QED  BY <1>10, <1>11, <1>12, <1>13

\* An exit code of success is made of an outcome that no failed or cancelled Runner
\* and no failed task allows.
LEMMA SuccessOf ==
    ASSUME NEW s \in Tables, C!Outcome(s) \notin C!UNSUCCESSFUL_OUTCOMES,
           C!Status(s) \in {"completed", "empty"}
    PROVE  /\ \A z \in s.tasks : z[2] # "failed"
           /\ \A z \in s.runners : z[2] \in C!Outcomes => z[2] = "succeeded"
  <1>1. /\ C!Count(s.tasks, "failed") \in Nat
        /\ C!Count(s.tasks, "failed") = 0 <=> \A y \in s.tasks : y[2] # "failed"
        /\ C!Count(s.runners, "failed") \in Nat
        /\ C!Count(s.runners, "failed") = 0 <=> \A y \in s.runners : y[2] # "failed"
        /\ C!Count(s.runners, "cancelled") \in Nat
        /\ C!Count(s.runners, "cancelled") = 0 <=> \A y \in s.runners : y[2] # "cancelled"
    BY TablesFinite, CountOf
  <1>2. ~(C!Count(s.tasks, "failed") > 0)
    BY DEF C!Outcome, C!UNSUCCESSFUL_OUTCOMES
  <1>3. CASE s.runners = {}
    BY <1>1, <1>2, <1>3
  <1>4. CASE s.runners # {}
    <2>1. ~(C!Count(s.runners, "failed") > 0)
      BY <1>2, <1>4 DEF C!Outcome, C!UNSUCCESSFUL_OUTCOMES
    <2>2. C!All(s.runners, "succeeded") \/ ~(C!Count(s.runners, "cancelled") > 0)
      BY <1>2, <1>4, <2>1 DEF C!Outcome, C!UNSUCCESSFUL_OUTCOMES
    <2>3. CASE C!All(s.runners, "succeeded")
      BY <1>1, <1>2, <2>3 DEF C!All
    <2>4. CASE ~(C!Count(s.runners, "cancelled") > 0)
      BY <1>1, <1>2, <2>1, <2>4 DEF C!Outcomes
    <2> QED  BY <2>2, <2>3, <2>4
  <1> QED  BY <1>3, <1>4

\* A poll that finds the Campaign at its end, with nothing added meanwhile, has read
\* the rows as they are.
LEMMA DecideKeeps == ASSUME C!StatusInvariant, C!Decide PROVE C!StatusInvariant'
  <1> USE DEF C!StatusInvariant
  <1>1. /\ UNCHANGED <<source, runner, node, plan, instance, client, emitted>>
        /\ poll = "read" /\ poll' = "idle" /\ seen' = C!NothingSeen
    BY DEF C!Decide, C!rows
  <1>2. C!Now' = C!Now /\ C!Over' = C!Over
    BY <1>1 DEF C!Now, C!Over, C!TaskPending, C!Open
  <1>3. C!RowsTyped'
    BY <1>1 DEF C!RowsTyped, C!RunnerStates, C!NodeStates, C!PlanStates, C!TaskStates
  <1>4. C!ReadIsCurrent'
    BY <1>1 DEF C!ReadIsCurrent, C!NothingSeen, C!EndsAreKept
  <1>5. client = "campaign"
    BY <1>1 DEF C!RowsTyped
  <1>6. C!AnswerStays'
    <2> SUFFICES ASSUME answer' # NoAnswer PROVE C!AnswerStays'
      BY DEF C!AnswerStays
    <2>1. /\ C!Status(seen) \in C!CAMPAIGN_TERMINAL_STATUSES
          /\ answer'.status = C!Status(seen) /\ answer'.outcome = C!Outcome(seen)
          /\ answer'.runners = seen.runners
      BY DEF C!Decide
    <2>2. seen \in Tables
      BY DEF C!ReadIsCurrent, Tables
    <2>3. /\ C!Free(seen.runners, {"queued", "running"}) /\ C!Free(seen.plans, {"active", "paused"})
          /\ C!Free(seen.tasks, {"planned", "active"}) /\ C!Free(seen.nodes, {"blocked", "pending"})
      BY <2>1, <2>2, TerminalIsFree
    <2>4. C!Now \in Tables /\ seen.tasks = C!Now.tasks
      BY <2>3, <1>1, NowOf DEF C!ReadIsCurrent
    <2>5. ASSUME ~emitted
          PROVE  /\ C!Over' /\ answer'.status = C!Status(C!Now)' /\ answer'.outcome = C!Outcome(C!Now)'
                 /\ answer'.status \in C!CAMPAIGN_TERMINAL_STATUSES
      <3>1. /\ seen.runners = C!Now.runners /\ seen.plans = C!Now.plans /\ seen.nodes = C!Now.nodes
        BY <2>3, <2>5, <1>1, <1>5 DEF C!ReadIsCurrent
      <3>2. seen = C!Now
        BY <2>2, <2>4, <3>1 DEF Tables
      <3>3. C!Over
        BY <2>3, <3>2, NowOf DEF C!Over
      <3>4. C!Status(seen) = C!Status(C!Now)' /\ C!Outcome(seen) = C!Outcome(C!Now)'
        BY <3>2, <1>2 DEF C!Status, C!Outcome
      <3> QED  BY <2>1, <1>2, <3>3, <3>4
    <2>6. answer'.runners \subseteq Runners \X C!Outcomes
      BY <2>1, <2>2, <2>3 DEF Tables, C!Free, C!RunnerStates, C!Outcomes
    <2>7. C!Of("direct")' \subseteq C!RowIds(answer'.runners) /\ C!EndsAreKept(answer.runners)'
      BY <1>1, <1>5, <2>1 DEF C!ReadIsCurrent, C!EndsAreKept, C!Of, C!RowIds
    <2>8. ~C!TaskPending'
      BY <1>1, <2>3, <2>4, NowOf DEF C!TaskPending
    <2>9. ASSUME C!ExitSuccess' PROVE instance' # "failed" /\ \A z \in answer'.runners : z[2] = "succeeded"
      <3>1. C!Outcome(seen) \notin C!UNSUCCESSFUL_OUTCOMES /\ C!Status(seen) \in {"completed", "empty"}
        BY <2>1, <2>9 DEF C!ExitSuccess, C!CAMPAIGN_TERMINAL_STATUSES
      <3>2. /\ \A z \in seen.tasks : z[2] # "failed"
            /\ \A z \in seen.runners : z[2] \in C!Outcomes => z[2] = "succeeded"
        BY <2>2, <3>1, SuccessOf
      <3>3. instance # "none" => \E z \in C!Now.tasks : z[2] = instance
        BY NowOf
      <3> QED  BY <1>1, <2>1, <2>4, <2>6, <3>2, <3>3
    <2> QED  BY <1>1, <1>5, <2>5, <2>6, <2>7, <2>8, <2>9 DEF C!AnswerStays
  <1> QED  BY <1>3, <1>4, <1>6

\* A Runner of the submission is seen at its end, and all of them.
LEMMA RunnersKeep ==
    ASSUME C!StatusInvariant, C!ReturnRunners \/ \E r \in Runners : C!PollRunner(r)
    PROVE  C!StatusInvariant'
  <1> USE DEF C!StatusInvariant
  <1>1. /\ client = "runners" /\ poll = "idle"
        /\ UNCHANGED <<source, runner, node, plan, instance, client, poll, emitted>>
    BY DEF C!ReturnRunners, C!PollRunner, C!rows, C!RowsTyped
  <1>2. C!RowsTyped'
    BY <1>1 DEF C!RowsTyped, C!RunnerStates, C!NodeStates, C!PlanStates, C!TaskStates
  <1>3. ASSUME NEW r \in Runners, C!PollRunner(r) PROVE C!StatusInvariant'
    <2> DEFINE z == <<r, runner[r]>>
    <2>1. /\ seen.runners \subseteq Runners \X C!RunnerStates
          /\ seen' = [seen EXCEPT !.runners = seen.runners \cup {z}] /\ answer' = NoAnswer
          /\ r \in C!Of("direct") /\ runner[r] \in C!Outcomes
      BY <1>3 DEF C!PollRunner, C!ReadIsCurrent, C!Of
    <2>2. z \in Runners \X C!RunnerStates /\ z[1] = r /\ z[2] = runner[r]
      BY <2>1 DEF C!Outcomes, C!RunnerStates
    <2> HIDE DEF z
    <2>3. /\ seen' = [runners |-> seen'.runners, plans |-> seen.plans, tasks |-> seen.tasks,
                      nodes |-> seen.nodes]
          /\ seen'.runners = seen.runners \cup {z}
      BY <2>1 DEF C!ReadIsCurrent
    <2>4. seen' \in Tables
      BY <2>2, <2>3, <2>1 DEF C!ReadIsCurrent, Tables
    <2>5. \A y \in seen'.runners : runner[y[1]] = y[2] /\ y[2] \in C!Outcomes
      BY <1>1, <2>1, <2>2, <2>3 DEF C!ReadIsCurrent, C!EndsAreKept
    <2>6. C!ReadIsCurrent'
      BY <1>1, <2>4, <2>5
         DEF C!ReadIsCurrent, Tables, C!RunnerStates, C!NodeStates, C!PlanStates, C!TaskStates,
             C!Outcomes, C!EndsAreKept
    <2>7. C!AnswerStays'
      BY <2>1 DEF C!AnswerStays
    <2> QED  BY <1>2, <2>6, <2>7
  <1>4. CASE C!ReturnRunners
    <2>1. C!ReadIsCurrent'
      BY <1>1, <1>4 DEF C!ReturnRunners, C!ReadIsCurrent, C!RunnerStates, C!NodeStates, C!PlanStates,
                        C!TaskStates, C!Outcomes, C!EndsAreKept
    <2>2. answer'.runners = seen.runners /\ C!RowIds(seen.runners) = C!Of("direct")
      BY <1>4 DEF C!ReturnRunners, C!RowIds
    <2>3. C!ExitSuccess' => \A y \in seen.runners : y[2] = "succeeded"
      BY <1>4 DEF C!ReturnRunners, C!ExitSuccess, C!UNSUCCESSFUL_OUTCOMES
    <2>4. seen.runners \subseteq Runners \X C!Outcomes
      BY <1>1 DEF C!ReadIsCurrent
    <2>5. C!EndsAreKept(answer.runners)'
      BY <1>1, <2>2 DEF C!ReadIsCurrent, C!EndsAreKept
    <2>6. C!Of("direct")' \subseteq C!RowIds(answer'.runners)
      BY <1>1, <2>2 DEF C!Of
    <2>7. C!AnswerStays'
      BY <1>1, <2>2, <2>3, <2>4, <2>5, <2>6 DEF C!AnswerStays
    <2> QED  BY <1>2, <2>1, <2>7
  <1> QED  BY <1>3, <1>4

LEMMA StatusStep ==
    ASSUME C!StatusInvariant, C!Next \/ UNCHANGED statusVars PROVE C!StatusInvariant'
  <1>1. CASE \E r \in Runners : C!Fire(r) \/ C!Activate(r)
    BY <1>1, CreationStable, StableKeeps DEF C!StatusInvariant
  <1>2. CASE \E r \in Runners : C!Start(r) \/ C!Finish(r) \/ C!RequestCancel(r)
    BY <1>2, RunnerStable, StableKeeps DEF C!StatusInvariant
  <1>3. CASE C!SkipRest \/ C!SetPlan \/ C!CancelCampaign
    BY <1>3, CampaignStable, StableKeeps DEF C!StatusInvariant
  <1>5. CASE C!AddRunners \/ C!AddPlan
    BY <1>5, AdditionStable, StableKeeps DEF C!StatusInvariant
  <1>4. CASE UNCHANGED statusVars
    <2>1. C!RowsTyped'
      BY <1>4 DEF statusVars, C!StatusInvariant, C!RowsTyped, C!RunnerStates, C!NodeStates, C!PlanStates,
                  C!TaskStates
    <2>2. Stable
      BY <1>4 DEF statusVars, Stable, C!reader
    <2> QED  BY <2>1, <2>2, StableKeeps
  <1> QED  BY <1>1, <1>2, <1>3, <1>4, <1>5, ReadKeeps, DecideKeeps, RunnersKeep DEF C!Next, C!PollCampaign

LEMMA StatusInvariantSuffices == ASSUME C!StatusInvariant PROVE C!AnswerIsTrue
  <1> USE DEF C!StatusInvariant
  <1> SUFFICES ASSUME answer # NoAnswer PROVE C!AnswerIsTrue
    BY DEF C!AnswerIsTrue
  <1>1. /\ C!Of("direct") \subseteq C!RowIds(answer.runners)
        /\ \A z \in answer.runners : z[2] \in C!Outcomes /\ runner[z[1]] = z[2]
        /\ client = "campaign" => ~C!TaskPending
        /\ C!ExitSuccess => \A z \in answer.runners : z[2] = "succeeded"
        /\ C!ExitSuccess /\ client = "campaign" => instance # "failed"
    BY DEF C!AnswerStays, C!EndsAreKept
  <1>2. ASSUME C!ExitSuccess, NEW r \in Runners,
               source[r] = "direct" \/ r \in C!RowIds(answer.runners)
        PROVE  runner[r] = "succeeded"
    BY <1>1, <1>2 DEF C!RowIds, C!Of
  <1>3. ASSUME client = "campaign", ~emitted
        PROVE  /\ C!Over /\ answer.status = C!Status(C!Now) /\ answer.outcome = C!Outcome(C!Now)
               /\ C!ExitSuccess => \A r \in Runners : runner[r] \in {"absent", "succeeded"}
    <2>1. /\ C!Over /\ answer.status = C!Status(C!Now) /\ answer.outcome = C!Outcome(C!Now)
          /\ answer.status \in C!CAMPAIGN_TERMINAL_STATUSES
      BY <1>3 DEF C!AnswerStays
    <2> SUFFICES ASSUME C!ExitSuccess, NEW r \in Runners PROVE runner[r] \in {"absent", "succeeded"}
      BY <2>1
    <2> DEFINE n == C!Now
    <2>2. C!Outcome(n) \notin C!UNSUCCESSFUL_OUTCOMES /\ C!Status(n) \in {"completed", "empty"}
      BY <2>1 DEF C!ExitSuccess, C!CAMPAIGN_TERMINAL_STATUSES
    <2>3. n \in Tables /\ (runner[r] # "absent" => \E z \in n.runners : z[2] = runner[r])
      BY NowOf
    <2> HIDE DEF n
    <2>4. \A z \in n.runners : z[2] \in C!Outcomes => z[2] = "succeeded"
      BY <2>2, <2>3, SuccessOf
    <2>5. runner[r] \in C!Outcomes \cup {"absent"}
      BY <2>1 DEF C!Over, C!RowsTyped, C!RunnerStates, C!Outcomes
    <2> QED  BY <2>3, <2>4, <2>5
  <1> QED  BY <1>1, <1>2, <1>3 DEF C!AnswerIsTrue

\* What a client that waits for a Campaign reports is true, whatever the Planner, the
\* tasks, the Runners and a cancellation do between the statements of its polls: all
\* of it, as long as no Runner and no plan was created since the first of them; and
\* what it says of the Runners it read and of the task, whatever was created.
THEOREM AnswersAreTrue == ServicesSpec => []AnswerIsTrue
  <1> DEFINE Inv == part = "status" => C!StatusInvariant
  <1>1. part \in Services /\ ServicesInit => Inv
    BY StatusInit DEF ServicesInit
  <1>2. Inv /\ [ServicesNext /\ UNCHANGED part]_<<part, serviceVars>> => Inv'
    BY ServiceStep, StatusStep
  <1>3. Inv => AnswerIsTrue
    BY StatusInvariantSuffices DEF AnswerIsTrue
  <1> QED  BY <1>1, <1>2, <1>3, PTL DEF ServicesSpec

-----------------------------------------------------------------------------
(* The request threads.                                                    *)

LEMMA SamePair == \A i, j : T!Same(i)[1] = i /\ T!Same(i)[2] = i /\ (T!Same(i) = T!Same(j) => i = j)
  BY DEF T!Same

\* A set of requests has as many results.
LEMMA OneEach ==
    ASSUME NEW S, IsFiniteSet(S)
    PROVE  /\ IsFiniteSet({T!Same(i) : i \in S})
           /\ Cardinality({T!Same(i) : i \in S}) = Cardinality(S)
  <1> DEFINE D == {T!Same(i) : i \in S}
             f == [i \in S |-> T!Same(i)]
  <1>1. f \in Bijection(S, D)
    <2>1. f \in [S -> D] /\ \A i \in S : f[i] = T!Same(i)
      OBVIOUS
    <2>2. \A i, j \in S : f[i] = f[j] => i = j
      BY <2>1, SamePair
    <2>3. \A d \in D : \E i \in S : f[i] = d
      BY <2>1
    <2> HIDE DEF f, D
    <2> QED  BY <2>1, <2>2, <2>3 DEF Bijection, Injection, Surjection, IsInjective
  <1>2. ExistsBijection(S, D)
    BY <1>1 DEF ExistsBijection
  <1> QED  BY <1>2, FS_Bijection

\* The results as a set.
LEMMA ReportedKept == ASSUME UNCHANGED collected
                      PROVE  /\ T!Reported' = T!Reported /\ T!OneOfEach' = T!OneOfEach
                             /\ T!ResultsTyped' = T!ResultsTyped
  BY DEF T!Reported, T!OneOfEach, T!ResultsTyped

LEMMA ReportedMore ==
    ASSUME T!ResultsTyped, NEW x \in Int \X Int, collected' = Append(collected, x)
    PROVE  /\ T!ResultsTyped'
           /\ T!Reported' = T!Reported \cup {x}
           /\ T!OneOfEach /\ (\A d \in T!Reported : d[1] # x[1]) => T!OneOfEach'
  <1> DEFINE n == Len(collected)
  <1>1. /\ n \in Nat /\ DOMAIN collected = 1..n /\ DOMAIN collected' = 1..(n + 1)
        /\ T!ResultsTyped'
        /\ \A k \in 1..n : collected'[k] = collected[k]
        /\ collected'[n + 1] = x
    BY DEF T!ResultsTyped
  <1>2. \A k : k \in 1..(n + 1) <=> k \in 1..n \/ k = n + 1
    BY <1>1
  <1> HIDE DEF n
  <1>3. T!Reported' = T!Reported \cup {x}
    BY <1>1, <1>2 DEF T!Reported
  <1>4. ASSUME T!OneOfEach, \A d \in T!Reported : d[1] # x[1] PROVE T!OneOfEach'
    <2>1. \A i \in 1..n : collected[i][1] # x[1]
      BY <1>1, <1>4 DEF T!Reported
    <2>2. ASSUME NEW j \in 1..(n + 1), NEW k \in 1..(n + 1), collected'[j][1] = collected'[k][1]
          PROVE  j = k
      <3>1. CASE j = n + 1 /\ k # n + 1
        BY <1>1, <1>2, <2>1, <2>2, <3>1
      <3>2. CASE j # n + 1 /\ k = n + 1
        BY <1>1, <1>2, <2>1, <2>2, <3>2
      <3>3. CASE j # n + 1 /\ k # n + 1
        <4>1. j \in 1..n /\ k \in 1..n /\ collected[j][1] = collected[k][1]
          BY <1>1, <1>2, <2>2, <3>3
        <4> QED  BY <4>1, <1>1, <1>4 DEF T!OneOfEach
      <3> QED  BY <3>1, <3>2, <3>3
    <2> QED  BY <1>1, <2>2 DEF T!OneOfEach
  <1> QED  BY <1>1, <1>3, <1>4

\* There are as many as the list is long.
LEMMA ReportedCount ==
    ASSUME T!ResultsTyped, T!OneOfEach
    PROVE  /\ IsFiniteSet(T!Reported) /\ Len(collected) \in Nat
           /\ Cardinality(T!Reported) = Len(collected)
  <1> DEFINE n == Len(collected)
             f == [k \in 1..n |-> collected[k]]
  <1>1. n \in Nat /\ DOMAIN collected = 1..n
    BY DEF T!ResultsTyped
  <1> HIDE DEF n
  <1>2. f \in Bijection(1..n, T!Reported)
    <2>1. f \in [1..n -> T!Reported] /\ \A k \in 1..n : f[k] = collected[k]
      BY <1>1 DEF T!Reported
    <2>2. \A j, k \in 1..n : f[j] = f[k] => j = k
      BY <1>1, <2>1 DEF T!OneOfEach
    <2>3. \A d \in T!Reported : \E k \in 1..n : f[k] = d
      BY <1>1, <2>1 DEF T!Reported
    <2> HIDE DEF f
    <2> QED  BY <2>1, <2>2, <2>3 DEF Bijection, Injection, Surjection, IsInjective
  <1>3. IsFiniteSet(1..n) /\ Cardinality(1..n) = n
    <2>1. /\ IsFiniteSet(1..n)
          /\ Cardinality(1..n) = IF 1 > n THEN 0 ELSE n - 1 + 1
      BY <1>1, 1 \in Int, n \in Int, FS_Interval
    <2> QED  BY <1>1, <2>1
  <1>4. ExistsBijection(1..n, T!Reported)
    BY <1>2 DEF ExistsBijection
  <1>5. IsFiniteSet(T!Reported) /\ Cardinality(T!Reported) = n
    BY <1>3, <1>4, FS_Bijection
  <1> QED  BY <1>1, <1>5 DEF n

\* The first calls of _submit are as many as the prompts or the buffer need.
LEMMA PrefetchedOf ==
    /\ T!Prefetched \in 0..Buffer
    /\ T!Prefetched = Buffer \/ T!Prefetched * Chunk >= Total
    /\ \A k \in 0..(T!Prefetched - 1) : k * Chunk < Total
  <1> DEFINE N == {n \in 0..Buffer : n = Buffer \/ n * Chunk >= Total}
  <1>1. Buffer \in N /\ N \in SUBSET Nat
    BY ThreadsAssumption
  <1>2. PICK n \in N : \A m \in N : n <= m
    BY <1>1, LeastNumber
  <1>3. ASSUME NEW k \in 0..(n - 1) PROVE k * Chunk < Total
    <2>1. k \in 0..Buffer /\ k # Buffer /\ k \notin N
      BY <1>1, <1>2, ThreadsAssumption
    <2>2. k * Chunk \in Int
      BY <2>1, ThreadsAssumption
    <2> QED  BY <2>1, <2>2, ThreadsAssumption
  <1>4. \E m \in 0..Buffer : (m = Buffer \/ m * Chunk >= Total)
                             /\ \A k \in 0..(m - 1) : k * Chunk < Total
    BY <1>2, <1>3
  <1> QED  BY <1>4 DEF T!Prefetched

\* Sequences, as the provers need them.
LEMMA SeqOfFunction ==
    ASSUME NEW R, NEW n \in Nat, NEW f \in [1..n -> R]
    PROVE  f \in Seq(R) /\ Len(f) = n
  OBVIOUS

LEMMA ThreadsInit == ASSUME T!Init PROVE T!ThreadsInvariant
  <1> USE ThreadsAssumption
  <1> DEFINE n == T!Prefetched
  <1>0. n \in 0..Buffer /\ (n = Buffer \/ n * Chunk >= Total) /\ \A k \in 0..(n - 1) : k * Chunk < Total
    BY PrefetchedOf
  <1> HIDE DEF n
  <1>1. \A k \in Int : k * Chunk \in Int /\ (k - 1) * Chunk + Chunk = k * Chunk
    OBVIOUS
  <1>1a. \A k \in Nat : k * Chunk \in Nat
    OBVIOUS
  <1>2. ASSUME streamed, NEW k \in 1..n
        PROVE  /\ pending[k] = T!ChunkFrom((k - 1) * Chunk)
               /\ (k - 1) * Chunk \in Nat /\ (k - 1) * Chunk < Total
               /\ pending[k].start = (k - 1) * Chunk
               /\ pending[k].count \in Nat /\ pending[k].count > 0
               /\ k < n => pending[k].count = Chunk
               /\ pending[k].start + pending[k].count = IF k * Chunk < Total THEN k * Chunk ELSE Total
    <2>1. pending[k] = T!ChunkFrom((k - 1) * Chunk)
      BY <1>2, <1>0 DEF T!Init, n
    <2>2. k - 1 \in 0..(n - 1) /\ k - 1 \in Nat /\ k \in Int /\ (k < n => k \in 0..(n - 1))
      BY <1>0
    <2>3. (k - 1) * Chunk \in Nat /\ (k - 1) * Chunk < Total /\ (k < n => k * Chunk < Total)
      BY <1>0, <1>1a, <2>2
    <2>4. k * Chunk = (k - 1) * Chunk + Chunk /\ k * Chunk \in Int
      BY <1>1, <2>2
    <2> DEFINE a == (k - 1) * Chunk
               b == k * Chunk
    <2>5. a \in Nat /\ a < Total /\ (k < n => b < Total) /\ b = a + Chunk /\ b \in Int
          /\ pending[k] = T!ChunkFrom(a)
      BY <2>1, <2>3, <2>4
    <2> HIDE DEF a, b
    <2>6. /\ pending[k].start = a /\ pending[k].count \in Nat /\ pending[k].count > 0
          /\ k < n => pending[k].count = Chunk
          /\ pending[k].start + pending[k].count = IF b < Total THEN b ELSE Total
      BY <2>5 DEF T!ChunkFrom
    <2> QED  BY <2>5, <2>6 DEF a, b
  <1>3. streamed => pending = [k \in 1..n |-> T!ChunkFrom((k - 1) * Chunk)]
    BY DEF T!Init, n
  <1>4. streamed => Len(pending) = n /\ pending \in Seq([start : Nat, count : Nat])
    <2> SUFFICES ASSUME streamed PROVE Len(pending) = n /\ pending \in Seq([start : Nat, count : Nat])
      OBVIOUS
    <2>1. \A k \in 1..n : pending[k] \in [start : Nat, count : Nat]
      <3> TAKE k \in 1..n
      <3> DEFINE a == (k - 1) * Chunk
      <3>1. pending[k] = T!ChunkFrom(a) /\ a \in Nat /\ a < Total
        BY <1>2
      <3> HIDE DEF a
      <3> QED  BY <3>1 DEF T!ChunkFrom
    <2> DEFINE R == [start : Nat, count : Nat]
    <2>2. n \in Nat /\ DOMAIN pending = 1..n /\ pending = [k \in 1..n |-> pending[k]]
      BY <1>3, <1>0
    <2> HIDE DEF R
    <2>3. pending \in [1..n -> R]
      BY <2>1, <2>2 DEF R
    <2>4. pending \in Seq(R) /\ Len(pending) = n
      BY <2>2, <2>3, SeqOfFunction
    <2> QED  BY <2>4 DEF R
  <1>5. pending \in Seq([start : Nat, count : Nat]) /\ Len(pending) <= Buffer
    <2>1. CASE streamed
      BY <2>1, <1>0, <1>4
    <2>2. CASE ~streamed
      BY <2>2 DEF T!Init
    <2> QED  BY <2>1, <2>2
  <1>6. nextChunk \in 0..Total /\ (streamed => nextChunk = IF n * Chunk < Total THEN n * Chunk ELSE Total)
    <2>1. n * Chunk \in Nat
      BY <1>0, <1>1a
    <2> QED  BY <2>1 DEF T!Init, n
  <1>7. /\ nextIndex = 0 /\ prepared = [next |-> 0, end |-> 0] /\ collected = <<>> /\ ~stop
        /\ \A t \in Senders : sender[t].pc = "loop"
        /\ sender \in [Senders -> [pc : {"loop", "take", "taken", "send", "failing", "stopping", "ended"},
                               index : Int, prompt : Int]]
    BY DEF T!Init, T!At
  <1>8. T!ThreadsTyped
    BY <1>5, <1>6, <1>7 DEF T!ThreadsTyped
  <1>9. T!EachOnce
    BY <1>7 DEF T!EachOnce, T!Holding, T!OneOfEach, T!Reported
  <1>11. T!ResultsTyped
    BY <1>7 DEF T!ResultsTyped
  <1>10. ASSUME streamed PROVE T!InSequence
    <2>1. DOMAIN pending = 1..n /\ Len(pending) = n
      BY <1>10, <1>3, <1>4
    <2>2. \A k \in DOMAIN pending : pending[k].count > 0
      BY <1>10, <1>2, <2>1
    <2>3. ASSUME NEW k \in DOMAIN pending
          PROVE  pending[k].start = IF k = 1 THEN prepared.end
                                    ELSE pending[k - 1].start + pending[k - 1].count
      <3>1. CASE k = 1
        <4>1. pending[k].start = (k - 1) * Chunk
          BY <1>10, <1>2, <2>1
        <4> QED  BY <3>1, <4>1, <1>7
      <3>2. CASE k # 1
        <4>1. k - 1 \in 1..n /\ k \in 1..n /\ k - 1 < n /\ k - 1 \in Int /\ k - 1 \in 0..(n - 1)
          BY <2>1, <3>2, <1>0
        <4>2. (k - 1) * Chunk < Total
          BY <4>1, <1>0
        <4>3. pending[k - 1].start + pending[k - 1].count = (k - 1) * Chunk
          BY <4>1, <4>2, <1>10, <1>2
        <4>4. pending[k].start = (k - 1) * Chunk
          BY <4>1, <1>10, <1>2
        <4> QED  BY <3>2, <4>3, <4>4
      <3> QED  BY <3>1, <3>2
    <2>4. nextChunk = IF pending = <<>> THEN prepared.end
                      ELSE pending[Len(pending)].start + pending[Len(pending)].count
      <3>1. CASE n = 0
        <4>1. pending = <<>> /\ n * Chunk = 0 /\ n # Buffer
          BY <3>1, <2>1, <1>5
        <4> QED  BY <4>1, <1>0, <1>6, <1>7, <1>10
      <3>2. CASE n # 0
        <4>1. n \in 1..n /\ pending # <<>>
          BY <3>2, <1>0, <2>1
        <4>2. pending[n].start + pending[n].count = IF n * Chunk < Total THEN n * Chunk ELSE Total
          BY <4>1, <1>10, <1>2
        <4> QED  BY <4>1, <4>2, <2>1, <1>6, <1>10
      <3> QED  BY <3>1, <3>2
    <2>5. prepared.next = nextIndex /\ prepared.next <= prepared.end
      BY <1>7
    <2> QED  BY <2>2, <2>3, <2>4, <2>5 DEF T!InSequence
  <1> QED  BY <1>8, <1>9, <1>10, <1>11 DEF T!ThreadsInvariant

\* What a thread may be at.
SenderStates ==
    [pc : {"loop", "take", "taken", "send", "failing", "stopping", "ended"}, index : Int, prompt : Int]

\* One thread moves.
LEMMA GoOf ==
    ASSUME T!ThreadsTyped, NEW t \in Senders, NEW state \in SenderStates, T!Go(t, state)
    PROVE  /\ sender' \in [Senders -> SenderStates]
           /\ sender'[t] = state
           /\ \A u \in Senders \ {t} : sender'[u] = sender[u]
  BY DEF T!ThreadsTyped, T!Go, SenderStates

LEMMA AtOf ==
    /\ \A at \in {"loop", "failing", "stopping", "ended"} : T!At(at) \in SenderStates
    /\ \A at : T!At(at).pc = at
  BY DEF T!At, SenderStates

\* A step in which no request is taken or recorded.
LEMMA EachOnceKept ==
    ASSUME T!EachOnce, UNCHANGED <<nextIndex, collected>>, overdue => overdue',
           \A u \in Senders : T!Holding(u)' => /\ T!Holding(u) /\ sender'[u].index = sender[u].index
                                               /\ sender'[u].prompt = sender[u].prompt,
           \A u \in Senders : ~overdue' /\ T!Holding(u) => T!Holding(u)',
           \A u \in Senders : sender'[u].pc = "ended" =>
                sender[u].pc = "ended" \/ nextIndex = Total \/ overdue'
    PROVE  T!EachOnce'
  <1>0. T!Reported' = T!Reported /\ T!OneOfEach'
    BY ReportedKept DEF T!EachOnce
  <1>1. (T!Reported \subseteq {T!Same(i) : i \in 0..(nextIndex - 1)})'
    BY <1>0 DEF T!EachOnce, T!Same
  <1>2. (\A t \in Senders : T!Holding(t) =>
            /\ sender[t].index = sender[t].prompt
            /\ sender[t].index \in 0..(nextIndex - 1) /\ T!Same(sender[t].index) \notin T!Reported
            /\ \A u \in Senders \ {t} : T!Holding(u) => sender[u].index # sender[t].index)'
    BY <1>0 DEF T!EachOnce, T!Same
  <1>3. ~overdue' => \A i \in 0..(nextIndex' - 1) :
            T!Same(i) \in T!Reported' \/ \E t \in Senders : T!Holding(t)' /\ sender'[t].index = i
    <2> SUFFICES ASSUME ~overdue', NEW i \in 0..(nextIndex - 1), T!Same(i) \notin T!Reported
                 PROVE  \E t \in Senders : T!Holding(t)' /\ sender'[t].index = i
      BY <1>0
    <2>1. PICK t \in Senders : T!Holding(t) /\ sender[t].index = i
      BY DEF T!EachOnce
    <2> QED  BY <2>1
  <1>4. (\A t \in Senders : sender[t].pc = "ended" => nextIndex = Total \/ overdue)'
    BY DEF T!EachOnce
  <1> QED  BY <1>0, <1>1, <1>2, <1>3, <1>4 DEF T!EachOnce, T!Same

\* The stream is left alone.
LEMMA SequenceKept ==
    ASSUME UNCHANGED <<nextIndex, nextChunk, pending, prepared>>
    PROVE  T!InSequence => T!InSequence'
  BY DEF T!InSequence

\* A thread looks around, finds nothing to take, or time passes.
LEMMA LookKeeps ==
    ASSUME T!ThreadsInvariant, NEW t \in Senders, T!Look(t) \/ T!Finish(t)
    PROVE  T!ThreadsInvariant'
  <1> USE DEF T!ThreadsInvariant
  <1>1. UNCHANGED <<streamed, nextIndex, nextChunk, pending, prepared, broken, stop, overdue, collected>>
    BY DEF T!Look, T!Finish, T!config, T!stream
  <1>2. PICK state \in SenderStates :
            /\ T!Go(t, state)
            /\ \/ state.pc = "ended" /\ (nextIndex = Total \/ stop \/ overdue)
               \/ /\ state.pc = IF sender[t].pc = "loop" THEN "take" ELSE "send"
                  /\ sender[t].pc \in {"loop", "taken"}
                  /\ state.index = sender[t].index /\ state.prompt = sender[t].prompt
    <2>1. CASE T!Finish(t)
      BY <2>1, AtOf, ThreadsAssumption DEF T!Finish, T!ThreadsTyped
    <2>2. CASE T!Look(t) /\ (stop \/ overdue)
      BY <2>2, AtOf DEF T!Look
    <2>3. CASE T!Look(t) /\ ~(stop \/ overdue)
      <3> DEFINE st == [sender[t] EXCEPT !.pc = IF sender[t].pc = "loop" THEN "take" ELSE "send"]
      <3>1. T!Go(t, st) /\ sender[t].pc \in {"loop", "taken"} /\ sender[t] \in SenderStates
        BY <2>3 DEF T!Look, T!ThreadsTyped, SenderStates
      <3>2. st \in SenderStates /\ st.index = sender[t].index /\ st.prompt = sender[t].prompt
            /\ st.pc = IF sender[t].pc = "loop" THEN "take" ELSE "send"
        BY <3>1 DEF SenderStates
      <3> HIDE DEF st
      <3> st \in SenderStates
        BY <3>2
      <3> WITNESS st \in SenderStates
      <3> QED  BY <3>1, <3>2
    <2> QED  BY <2>1, <2>2, <2>3
  <1>3. /\ sender' \in [Senders -> SenderStates] /\ sender'[t] = state
        /\ \A u \in Senders \ {t} : sender'[u] = sender[u]
    BY <1>2, GoOf
  <1>4. state.pc \notin {"failing", "stopping"} /\ sender[t].pc \notin {"failing", "stopping"}
    <2>1. sender[t].pc \in {"loop", "taken", "take"}
      BY DEF T!Look, T!Finish
    <2> QED  BY <1>2, <2>1
  <1>5. T!ThreadsTyped'
    <2>1. (stop \/ (\E u \in Senders : sender[u].pc = "stopping") => broken)'
      BY <1>1, <1>3, <1>4 DEF T!ThreadsTyped
    <2> QED  BY <1>1, <1>3, <2>1 DEF T!ThreadsTyped, SenderStates
  <1>6. T!Faulty' = T!Faulty
    BY <1>1, <1>3, <1>4 DEF T!Faulty
  <1>7. ASSUME ~T!Faulty PROVE T!EachOnce'
    <2>1. ~stop
      BY <1>7 DEF T!Faulty, T!ThreadsTyped
    <2>2. \A u \in Senders : T!Holding(u)' => /\ T!Holding(u) /\ sender'[u].index = sender[u].index
                                              /\ sender'[u].prompt = sender[u].prompt
      BY <1>2, <1>3 DEF T!Holding
    <2>3. \A u \in Senders : ~overdue' /\ T!Holding(u) => T!Holding(u)'
      <3>1. T!Holding(t) => sender[t].pc = "taken"
        BY DEF T!Holding, T!Look, T!Finish
      <3>2. CASE T!Finish(t)
        BY <3>2, <1>3 DEF T!Finish, T!Holding
      <3>3. CASE T!Look(t) /\ ~overdue
        <4>1. T!Holding(t) => sender'[t].pc = "send"
          BY <3>1, <3>3, <2>1, <1>1, <1>3 DEF T!Look, T!Go, T!ThreadsTyped
        <4> QED  BY <4>1, <1>3 DEF T!Holding
      <3> QED  BY <3>2, <3>3, <1>1
    <2>4. \A u \in Senders : sender'[u].pc = "ended" =>
                sender[u].pc = "ended" \/ nextIndex = Total \/ overdue'
      BY <1>1, <1>2, <1>3, <2>1
    <2> QED  BY <1>1, <1>7, <2>2, <2>3, <2>4, EachOnceKept
  <1> QED  BY <1>1, <1>5, <1>6, <1>7, SequenceKept, ReportedKept

LEMMA TimeoutKeeps ==
    ASSUME T!ThreadsInvariant, T!Timeout \/ UNCHANGED threadVars PROVE T!ThreadsInvariant'
  <1> USE DEF T!ThreadsInvariant
  <1>1. /\ UNCHANGED <<streamed, nextIndex, nextChunk, pending, prepared, sender, broken, stop, collected>>
        /\ overdue => overdue'
    BY DEF T!Timeout, T!config, T!stream, threadVars
  <1>2. T!ThreadsTyped'
    BY <1>1 DEF T!ThreadsTyped
  <1>3. T!Faulty' = T!Faulty
    BY <1>1 DEF T!Faulty
  <1>4. T!EachOnce => T!EachOnce'
    <2>1. \A u \in Senders : T!Holding(u)' = T!Holding(u)
      BY <1>1 DEF T!Holding
    <2>2. \A u \in Senders : T!EachOnce /\ sender'[u].pc = "ended" =>
                sender[u].pc = "ended" \/ nextIndex = Total \/ overdue'
      BY <1>1 DEF T!EachOnce
    <2> QED  BY <1>1, <2>1, <2>2, EachOnceKept
  <1> QED  BY <1>1, <1>2, <1>3, <1>4, SequenceKept, ReportedKept

\* After an error nothing more is claimed.
LEMMA ErrorKeeps ==
    ASSUME T!ThreadsInvariant, NEW t \in Senders,
           T!ChunkLost(t) \/ T!NoChunk(t) \/ T!Raise(t) \/ T!KeepError(t) \/ T!SetStop(t)
    PROVE  T!ThreadsInvariant'
  <1> USE DEF T!ThreadsInvariant
  <1>1. UNCHANGED <<nextIndex, nextChunk, prepared, collected>>
    BY DEF T!ChunkLost, T!NoChunk, T!Raise, T!KeepError, T!SetStop, T!stream
  <1>2. pending' \in Seq([start : Nat, count : Nat]) /\ Len(pending') <= Buffer
    <2>1. CASE T!ChunkLost(t)
      BY <2>1, ThreadsAssumption DEF T!ChunkLost, T!ThreadsTyped
    <2>2. CASE ~T!ChunkLost(t)
      BY <2>2 DEF T!ThreadsTyped, T!NoChunk, T!Raise, T!KeepError, T!SetStop, T!stream
    <2> QED  BY <2>1, <2>2
  <1>3. CASE T!ChunkLost(t) \/ T!NoChunk(t) \/ T!Raise(t)
    <2>1. T!Go(t, T!At("failing")) /\ UNCHANGED <<broken, stop>>
      BY <1>3 DEF T!ChunkLost, T!NoChunk, T!Raise
    <2>2. /\ sender' \in [Senders -> SenderStates] /\ sender'[t].pc = "failing"
          /\ \A u \in Senders \ {t} : sender'[u] = sender[u]
      BY <2>1, GoOf, AtOf
    <2>3. T!Faulty'
      BY <2>2 DEF T!Faulty
    <2>4. (stop \/ (\E u \in Senders : sender[u].pc = "stopping") => broken)'
      BY <2>1, <2>2 DEF T!ThreadsTyped
    <2>5. T!ThreadsTyped'
      BY <1>1, <1>2, <2>2, <2>4 DEF T!ThreadsTyped, SenderStates
    <2> QED  BY <1>1, <2>3, <2>5, ReportedKept
  <1>4. CASE T!KeepError(t) \/ T!SetStop(t)
    <2>1. broken'
      BY <1>4 DEF T!KeepError, T!SetStop, T!ThreadsTyped
    <2>2. sender' \in [Senders -> SenderStates]
      BY <1>4, GoOf, AtOf DEF T!KeepError, T!SetStop
    <2>3. T!ThreadsTyped'
      BY <1>1, <1>2, <2>1, <2>2 DEF T!ThreadsTyped, SenderStates
    <2> QED  BY <1>1, <2>1, <2>3, ReportedKept DEF T!Faulty
  <1> QED  BY <1>3, <1>4

LEMMA TailOf ==
    ASSUME NEW R, NEW s \in Seq(R), s # <<>>
    PROVE  /\ Head(s) \in R /\ Head(s) = s[1] /\ Len(s) \in Nat \ {0} /\ DOMAIN s = 1..Len(s)
           /\ Tail(s) \in Seq(R) /\ Len(Tail(s)) = Len(s) - 1
           /\ \A k \in 1..(Len(s) - 1) : Tail(s)[k] = s[k + 1]
  OBVIOUS

LEMMA AppendOf ==
    ASSUME NEW R, NEW s \in Seq(R), NEW x \in R
    PROVE  /\ Append(s, x) \in Seq(R) /\ Len(Append(s, x)) = Len(s) + 1
           /\ \A k \in 1..Len(s) : Append(s, x)[k] = s[k]
           /\ Append(s, x)[Len(s) + 1] = x
  OBVIOUS

\* The chunks move up by one, and one is rendered behind them.
LEMMA NextChunkKeeps ==
    ASSUME T!ThreadsTyped, pending # <<>>, T!NoneReady,
           prepared' = [next |-> Head(pending).start + 1,
                        end |-> Head(pending).start + Head(pending).count],
           \/ nextChunk >= Total /\ pending' = Tail(pending) /\ nextChunk' = nextChunk
           \/ /\ nextChunk < Total /\ pending' = Append(Tail(pending), T!ChunkFrom(nextChunk))
              /\ nextChunk' = nextChunk + T!ChunkFrom(nextChunk).count,
           nextIndex' = nextIndex + 1
    PROVE  /\ pending' \in Seq([start : Nat, count : Nat]) /\ Len(pending') <= Buffer
           /\ prepared' \in [next : Nat, end : Nat] /\ nextChunk' \in 0..Total
           /\ T!InSequence => Head(pending).start = nextIndex /\ T!InSequence'
  <1> USE ThreadsAssumption DEF T!ThreadsTyped
  <1> DEFINE R == [start : Nat, count : Nat]
             h == Head(pending)
             p == Tail(pending)
             more == T!ChunkFrom(nextChunk)
             n == Len(pending)
  <1>1. /\ h \in R /\ h = pending[1] /\ n \in Nat \ {0} /\ DOMAIN pending = 1..n
        /\ p \in Seq(R) /\ Len(p) = n - 1 /\ n <= Buffer
        /\ \A k \in 1..(n - 1) : p[k] = pending[k + 1]
    <2> pending \in Seq(R) /\ n <= Buffer
      OBVIOUS
    <2> HIDE DEF R, T!ThreadsTyped
    <2> QED  BY TailOf
  <1>2. nextChunk < Total => /\ more \in R /\ more.start = nextChunk /\ more.count > 0
                             /\ nextChunk + more.count \in 0..Total
    BY DEF T!ChunkFrom
  <1>3. prepared' = [next |-> h.start + 1, end |-> h.start + h.count]
    OBVIOUS
  <1>4. prepared' \in [next : Nat, end : Nat]
    BY <1>1, <1>3
  <1>5. \/ nextChunk >= Total /\ pending' = p /\ nextChunk' = nextChunk
        \/ nextChunk < Total /\ pending' = Append(p, more) /\ nextChunk' = nextChunk + more.count
    OBVIOUS
  <1> HIDE DEF R, h, p, more, n
  <1>6. /\ pending' \in Seq(R) /\ Len(pending') \in {n - 1, n}
        /\ \A k \in 1..(n - 1) : pending'[k] = p[k]
        /\ nextChunk < Total => Len(pending') = n /\ pending'[n] = more
        /\ nextChunk >= Total => Len(pending') = n - 1
    <2>1. CASE nextChunk >= Total
      <3>1. ~(nextChunk < Total)
        BY <2>1
      <3>2. pending' = p
        BY <3>1, <1>5
      <3> HIDE DEF T!ThreadsTyped
      <3> QED  BY <3>1, <3>2, <1>1
    <2>2. CASE nextChunk < Total
      <3>1. pending' = Append(p, more) /\ more \in R /\ (n - 1) + 1 = n
        BY <2>2, <1>1, <1>2, <1>5 DEF R
      <3>2. /\ pending' \in Seq(R) /\ Len(pending') = n /\ pending'[n] = more
            /\ \A k \in 1..(n - 1) : pending'[k] = p[k]
        BY <3>1, <1>1, AppendOf
      <3>3. ~(nextChunk >= Total)
        BY <2>2
      <3> HIDE DEF T!ThreadsTyped
      <3> QED  BY <3>2, <3>3
    <2> QED  BY <2>1, <2>2
  <1>7. nextChunk' \in 0..Total
    BY <1>2, <1>5
  <1>8. ASSUME T!InSequence PROVE h.start = nextIndex /\ T!InSequence'
    <2>1. /\ \A k \in 1..n :
                /\ pending[k].count > 0
                /\ pending[k].start = IF k = 1 THEN prepared.end
                                      ELSE pending[k - 1].start + pending[k - 1].count
          /\ nextChunk = pending[n].start + pending[n].count
          /\ prepared.next = nextIndex
      BY <1>1, <1>8 DEF T!InSequence, n
    <2>2. 1 \in 1..n /\ \A k \in 1..(n - 1) : k + 1 \in 1..n /\ k \in 1..n /\ k + 1 # 1 /\ (k + 1) - 1 = k
      BY <1>1
    <2>3. h.start = prepared.end /\ h.count > 0 /\ prepared.end = nextIndex
      BY <1>1, <2>1, <2>2 DEF T!NoneReady
    <2>4. prepared'.next = nextIndex' /\ prepared'.next <= prepared'.end
          /\ prepared'.end = h.start + h.count
      BY <1>1, <1>3, <2>3 DEF R
    <2>5. \A k \in 1..(n - 1) :
            /\ pending'[k].count > 0
            /\ pending'[k].start = pending[k].start + pending[k].count
      <3> TAKE k \in 1..(n - 1)
      <3>1. pending'[k] = pending[k + 1]
        BY <1>1, <1>6
      <3>2. pending[k + 1].count > 0 /\ pending[k + 1].start = pending[k].start + pending[k].count
        BY <2>1, <2>2
      <3> QED  BY <3>1, <3>2
    <2>6. \A k \in 1..(n - 1) : pending'[k].start =
              IF k = 1 THEN prepared'.end ELSE pending'[k - 1].start + pending'[k - 1].count
      <3> TAKE k \in 1..(n - 1)
      <3>1. CASE k = 1
        BY <3>1, <2>4, <2>5, <1>1
      <3>2. CASE k # 1
        <4>1. k - 1 \in 1..(n - 1) /\ (k - 1) + 1 = k
          BY <3>2, <1>1
        <4>2. pending'[k - 1] = pending[k]
          BY <4>1, <1>1, <1>6
        <4> QED  BY <3>2, <4>2, <2>5
      <3> QED  BY <3>1, <3>2
    <2>7. nextChunk = IF n = 1 THEN prepared'.end ELSE pending'[n - 1].start + pending'[n - 1].count
      <3>1. CASE n = 1
        BY <3>1, <2>1, <2>4, <1>1
      <3>2. CASE n # 1
        <4>1. n - 1 \in 1..(n - 1) /\ (n - 1) + 1 = n
          BY <3>2, <1>1
        <4>2. pending'[n - 1] = p[n - 1] /\ p[n - 1] = pending[(n - 1) + 1]
          BY <4>1, <1>1, <1>6
        <4>3. pending'[n - 1] = pending[n]
          BY <4>1, <4>2
        <4> QED  BY <3>2, <4>3, <2>1
      <3> QED  BY <3>1, <3>2
    <2>8. CASE nextChunk >= Total
      <3>1. Len(pending') = n - 1 /\ DOMAIN pending' = 1..(n - 1) /\ (pending' = <<>> <=> n = 1)
            /\ nextChunk' = nextChunk
        BY <2>8, <1>1, <1>5, <1>6, <1>7
      <3>2. \A k \in DOMAIN pending' :
              /\ pending'[k].count > 0
              /\ pending'[k].start = IF k = 1 THEN prepared'.end
                                     ELSE pending'[k - 1].start + pending'[k - 1].count
        BY <3>1, <2>5, <2>6
      <3> QED  BY <3>1, <3>2, <2>3, <2>4, <2>7 DEF T!InSequence
    <2>9. CASE nextChunk < Total
      <3>1. Len(pending') = n /\ DOMAIN pending' = 1..n /\ pending' # <<>> /\ pending'[n] = more
            /\ nextChunk' = more.start + more.count
        BY <2>9, <1>1, <1>2, <1>5, <1>6, <1>7
      <3>2. more.start = IF n = 1 THEN prepared'.end ELSE pending'[n - 1].start + pending'[n - 1].count
        BY <2>7, <2>9, <1>2
      <3>3. \A k \in DOMAIN pending' :
              /\ pending'[k].count > 0
              /\ pending'[k].start = IF k = 1 THEN prepared'.end
                                     ELSE pending'[k - 1].start + pending'[k - 1].count
        <4> TAKE k \in DOMAIN pending'
        <4>1. CASE k = n
          BY <4>1, <3>1, <3>2, <1>2, <2>9
        <4>2. CASE k # n
          <5>1. k \in 1..(n - 1)
            BY <4>2, <3>1, <1>1
          <5> QED  BY <5>1, <2>5, <2>6
        <4> QED  BY <4>1, <4>2
      <3> QED  BY <3>1, <3>3, <2>3, <2>4 DEF T!InSequence
    <2> QED  BY <2>8, <2>9, <1>7
  <1>9. Len(pending') <= Buffer
    BY <1>1, <1>6
  <1> QED  BY <1>4, <1>6, <1>7, <1>8, <1>9 DEF R, h

\* A request that is taken is held by the thread that took it.
LEMMA TakeKeeps ==
    ASSUME T!ThreadsInvariant, NEW t \in Senders, T!TakeNext(t) PROVE T!ThreadsInvariant'
  <1> USE DEF T!ThreadsInvariant
  <1>1. /\ sender[t].pc = "take" /\ nextIndex < Total /\ nextIndex' = nextIndex + 1
        /\ UNCHANGED <<streamed, broken, stop, overdue, collected>>
    BY DEF T!TakeNext, T!config
  <1>2. nextIndex \in Nat /\ nextIndex' \in 0..Total
    BY <1>1, ThreadsAssumption DEF T!ThreadsTyped
  <1>3. PICK prompted \in Int :
            /\ T!Go(t, [pc |-> "taken", index |-> nextIndex, prompt |-> prompted])
            /\ pending' \in Seq([start : Nat, count : Nat]) /\ Len(pending') <= Buffer
            /\ prepared' \in [next : Nat, end : Nat] /\ nextChunk' \in 0..Total
            /\ (streamed => T!InSequence) => prompted = nextIndex /\ (streamed => T!InSequence')
    <2>1. CASE ~streamed
      BY <2>1, <1>2 DEF T!TakeNext, T!ThreadsTyped
    <2>2. CASE streamed /\ ~T!NoneReady
      <3>1. /\ T!Go(t, [pc |-> "taken", index |-> nextIndex, prompt |-> prepared.next])
            /\ prepared' = [prepared EXCEPT !.next = prepared.next + 1]
            /\ UNCHANGED <<nextChunk, pending>>
        BY <2>2 DEF T!TakeNext
      <3>2. /\ prepared.next \in Int /\ prepared' \in [next : Nat, end : Nat]
            /\ prepared'.next = prepared.next + 1 /\ prepared'.end = prepared.end
        <4>1. prepared = [next |-> prepared.next, end |-> prepared.end]
              /\ prepared.next \in Nat /\ prepared.end \in Nat /\ prepared.next + 1 \in Nat
          BY DEF T!ThreadsTyped
        <4>2. prepared' = [next |-> prepared.next + 1, end |-> prepared.end]
          BY <3>1, <4>1
        <4> QED  BY <4>1, <4>2
      <3>3. T!InSequence => prepared.next = nextIndex /\ T!InSequence'
        BY <1>1, <1>2, <2>2, <3>1, <3>2 DEF T!InSequence, T!NoneReady, T!ThreadsTyped
      <3> QED  BY <2>2, <3>1, <3>2, <3>3 DEF T!ThreadsTyped
    <2>3. CASE streamed /\ T!NoneReady
      <3>1. /\ T!Go(t, [pc |-> "taken", index |-> nextIndex, prompt |-> Head(pending).start])
            /\ pending # <<>>
            /\ prepared' = [next |-> Head(pending).start + 1,
                            end |-> Head(pending).start + Head(pending).count]
            /\ \/ nextChunk >= Total /\ pending' = Tail(pending) /\ nextChunk' = nextChunk
               \/ /\ nextChunk < Total /\ pending' = Append(Tail(pending), T!ChunkFrom(nextChunk))
                  /\ nextChunk' = nextChunk + T!ChunkFrom(nextChunk).count
        BY <2>3 DEF T!TakeNext
      <3>2. Head(pending) \in [start : Nat, count : Nat]
        BY <3>1, TailOf DEF T!ThreadsTyped
      <3>3. Head(pending).start \in Int
        BY <3>2
      <3> QED  BY <1>1, <2>3, <3>1, <3>3, NextChunkKeeps
    <2> QED  BY <2>1, <2>2, <2>3
  <1> DEFINE state == [pc |-> "taken", index |-> nextIndex, prompt |-> prompted]
  <1>4. state \in SenderStates /\ state.pc = "taken" /\ state.index = nextIndex /\ state.prompt = prompted
    BY <1>2 DEF SenderStates
  <1>5. /\ sender' \in [Senders -> SenderStates] /\ sender'[t] = state
        /\ \A u \in Senders \ {t} : sender'[u] = sender[u]
    BY <1>3, <1>4, GoOf
  <1> HIDE DEF state
  <1>6. T!ThreadsTyped'
    <2>1. (stop \/ (\E u \in Senders : sender[u].pc = "stopping") => broken)'
      BY <1>1, <1>4, <1>5 DEF T!ThreadsTyped
    <2> QED  BY <1>2, <1>3, <1>5, <2>1 DEF T!ThreadsTyped, SenderStates
  <1>7. T!Faulty' = T!Faulty
    BY <1>1, <1>4, <1>5 DEF T!Faulty
  <1>8. ASSUME ~T!Faulty PROVE T!EachOnce' /\ (streamed => T!InSequence')
    <2>1. T!EachOnce /\ prompted = nextIndex /\ (streamed => T!InSequence')
      BY <1>3, <1>8
    <2>2. /\ \A i \in 0..(nextIndex - 1) : i \in 0..(nextIndex' - 1) /\ i # nextIndex
          /\ nextIndex \in 0..(nextIndex' - 1)
          /\ \A i \in 0..(nextIndex' - 1) : i = nextIndex \/ i \in 0..(nextIndex - 1)
      BY <1>1, <1>2
    <2>3. /\ T!Holding(t)' /\ ~T!Holding(t) /\ sender'[t].index = nextIndex /\ sender'[t].prompt = nextIndex
          /\ \A u \in Senders \ {t} : T!Holding(u)' = T!Holding(u)
      BY <1>1, <1>4, <1>5, <2>1 DEF T!Holding
    <2>4. T!Same(nextIndex) \notin T!Reported
      BY <2>1, <2>2, SamePair DEF T!EachOnce
    <2>4a. T!Reported' = T!Reported /\ T!OneOfEach'
      BY <1>1, <2>1, ReportedKept DEF T!EachOnce
    <2>5. (T!Reported \subseteq {T!Same(i) : i \in 0..(nextIndex - 1)})'
      BY <2>1, <2>2, <2>4a DEF T!EachOnce, T!Same
    <2>6. (\A u \in Senders : T!Holding(u) =>
              /\ sender[u].index = sender[u].prompt
              /\ sender[u].index \in 0..(nextIndex - 1) /\ T!Same(sender[u].index) \notin T!Reported
              /\ \A v \in Senders \ {u} : T!Holding(v) => sender[v].index # sender[u].index)'
      BY <1>5, <2>1, <2>2, <2>3, <2>4, <2>4a DEF T!EachOnce, T!Same
    <2>7. ~overdue' => \A i \in 0..(nextIndex' - 1) :
              T!Same(i) \in T!Reported' \/ \E u \in Senders : T!Holding(u)' /\ sender'[u].index = i
      <3> SUFFICES ASSUME ~overdue, NEW i \in 0..(nextIndex' - 1)
                   PROVE  T!Same(i) \in T!Reported \/ \E u \in Senders : T!Holding(u)' /\ sender'[u].index = i
        BY <1>1, <2>4a
      <3>1. CASE i = nextIndex
        BY <3>1, <2>3
      <3>2. CASE i # nextIndex
        BY <3>2, <1>5, <2>1, <2>2, <2>3 DEF T!EachOnce
      <3> QED  BY <3>1, <3>2
    <2>8. (\A u \in Senders : sender[u].pc = "ended" => nextIndex = Total \/ overdue)'
      BY <1>1, <1>2, <1>4, <1>5, <2>1 DEF T!EachOnce
    <2> QED  BY <2>1, <2>4a, <2>5, <2>6, <2>7, <2>8 DEF T!EachOnce, T!Same
  <1> QED  BY <1>1, <1>6, <1>7, <1>8, ReportedKept

\* The results of all requests, and of those without one.
LEMMA AllResults ==
    /\ IsFiniteSet({T!Same(i) : i \in 0..(Total - 1)})
    /\ Cardinality({T!Same(i) : i \in 0..(Total - 1)}) = Total
  <1>1. IsFiniteSet(0..(Total - 1)) /\ Cardinality(0..(Total - 1)) = Total
    <2>1. 0 \in Int /\ Total - 1 \in Int
      BY ThreadsAssumption
    <2>2. /\ IsFiniteSet(0..(Total - 1))
          /\ Cardinality(0..(Total - 1)) = IF 0 > Total - 1 THEN 0 ELSE (Total - 1) - 0 + 1
      BY <2>1, FS_Interval
    <2> QED  BY <2>2, ThreadsAssumption
  <1> QED  BY <1>1, OneEach

LEMMA RoomLeft ==
    ASSUME NEW i \in 0..(Total - 1), NEW S \in SUBSET {T!Same(j) : j \in 0..(Total - 1)}, T!Same(i) \notin S
    PROVE  Cardinality(S) < Total /\ Cardinality(S) \in Nat
  <1> DEFINE D == {T!Same(j) : j \in 0..(Total - 1)}
  <1>1. T!Same(i) \in D /\ S \in SUBSET (D \ {T!Same(i)}) /\ IsFiniteSet(D) /\ Cardinality(D) = Total
    BY AllResults
  <1> HIDE DEF D
  <1>2. IsFiniteSet(D \ {T!Same(i)}) /\ Cardinality(D \ {T!Same(i)}) = Total - 1
    BY <1>1, FS_RemoveElement
  <1>3. Cardinality(S) <= Total - 1 /\ Cardinality(S) \in Nat
    BY <1>1, <1>2, FS_Subset, FS_CardinalityType
  <1> QED  BY <1>3, ThreadsAssumption

\* A result is that of the request the thread held, and there is room for it.
LEMMA RecordKeeps ==
    ASSUME T!ThreadsInvariant, NEW t \in Senders, T!Record(t) PROVE T!ThreadsInvariant'
  <1> USE DEF T!ThreadsInvariant
  <1>1. /\ sender[t].pc = "send" /\ T!Go(t, T!At("loop"))
        /\ UNCHANGED <<streamed, nextIndex, nextChunk, pending, prepared, broken, stop, overdue>>
    BY DEF T!Record, T!config, T!stream
  <1>2. /\ sender' \in [Senders -> SenderStates] /\ sender'[t].pc = "loop"
        /\ \A u \in Senders \ {t} : sender'[u] = sender[u]
    BY <1>1, GoOf, AtOf
  <1>2a. T!ResultsTyped'
    <2>1. sender[t].index \in Int /\ sender[t].prompt \in Int
      BY DEF T!ThreadsTyped
    <2>2. <<sender[t].index, sender[t].prompt>> \in Int \X Int
      BY <2>1
    <2> QED  BY <2>2, ReportedMore, ReportedKept DEF T!Record
  <1>3. T!ThreadsTyped'
    <2>1. (stop \/ (\E u \in Senders : sender[u].pc = "stopping") => broken)'
      BY <1>1, <1>2 DEF T!ThreadsTyped
    <2> QED  BY <1>1, <1>2, <2>1 DEF T!ThreadsTyped, SenderStates
  <1>4. T!Faulty' = T!Faulty
    BY <1>1, <1>2 DEF T!Faulty
  <1>5. ASSUME ~T!Faulty PROVE T!EachOnce'
    <2> DEFINE i == sender[t].index
    <2>1. T!EachOnce /\ T!Holding(t) /\ ~T!Holding(t)' /\ \A u \in Senders \ {t} : T!Holding(u)' = T!Holding(u)
      BY <1>1, <1>2, <1>5 DEF T!Holding
    <2>2. i \in 0..(nextIndex - 1) /\ sender[t].prompt = i /\ T!Same(i) \notin T!Reported
      BY <2>1 DEF T!EachOnce
    <2>3. 0..(nextIndex - 1) \subseteq 0..(Total - 1)
      BY ThreadsAssumption DEF T!ThreadsTyped
    <2>4. T!Reported \in SUBSET {T!Same(j) : j \in 0..(Total - 1)}
      BY <2>1, <2>3 DEF T!EachOnce
    <2>5. Len(collected) < Total
      BY <2>1, <2>2, <2>3, <2>4, RoomLeft, ReportedCount DEF T!EachOnce, T!ThreadsTyped
    <2>5a. collected' = Append(collected, T!Same(i)) /\ T!Same(i) \in Int \X Int
      BY <2>2, <2>5 DEF T!Record, T!Same, T!ThreadsTyped
    <2>5b. \A d \in T!Reported : d[1] # T!Same(i)[1]
      BY <2>1, <2>2, SamePair DEF T!EachOnce
    <2>6. T!Reported' = T!Reported \cup {T!Same(i)} /\ T!OneOfEach'
      BY <2>1, <2>5a, <2>5b, ReportedMore DEF T!EachOnce, T!ThreadsTyped
    <2> HIDE DEF i
    <2>7. (T!Reported \subseteq {T!Same(j) : j \in 0..(nextIndex - 1)})'
      BY <1>1, <2>1, <2>2, <2>6 DEF T!EachOnce, T!Same
    <2>8. (\A u \in Senders : T!Holding(u) =>
              /\ sender[u].index = sender[u].prompt
              /\ sender[u].index \in 0..(nextIndex - 1) /\ T!Same(sender[u].index) \notin T!Reported
              /\ \A v \in Senders \ {u} : T!Holding(v) => sender[v].index # sender[u].index)'
      <3> SUFFICES ASSUME NEW u \in Senders, T!Holding(u)'
                   PROVE  /\ sender'[u].index = sender'[u].prompt
                          /\ sender'[u].index \in 0..(nextIndex - 1) /\ T!Same(sender'[u].index) \notin T!Reported'
                          /\ \A v \in Senders \ {u} : T!Holding(v)' => sender'[v].index # sender'[u].index
        BY <1>1 DEF T!Same
      <3>1. u # t /\ T!Holding(u) /\ sender'[u] = sender[u]
        BY <2>1, <1>2
      <3>2. sender[u].index # i
        BY <3>1, <2>1 DEF T!EachOnce, i
      <3>3. T!Same(sender[u].index) \notin T!Reported'
        BY <3>1, <3>2, <2>1, <2>6, SamePair DEF T!EachOnce
      <3> QED  BY <3>1, <3>3, <1>2, <2>1 DEF T!EachOnce
    <2>9. ~overdue' => \A j \in 0..(nextIndex' - 1) :
              T!Same(j) \in T!Reported' \/ \E u \in Senders : T!Holding(u)' /\ sender'[u].index = j
      <3> SUFFICES ASSUME ~overdue, NEW j \in 0..(nextIndex - 1), j # i
                   PROVE  T!Same(j) \in T!Reported \/ \E u \in Senders : T!Holding(u)' /\ sender'[u].index = j
        BY <1>1, <2>6
      <3> QED  BY <1>2, <2>1 DEF T!EachOnce, i
    <2>10. (\A u \in Senders : sender[u].pc = "ended" => nextIndex = Total \/ overdue)'
      BY <1>1, <1>2, <2>1 DEF T!EachOnce
    <2> QED  BY <2>6, <2>7, <2>8, <2>9, <2>10 DEF T!EachOnce, T!Same
  <1> QED  BY <1>1, <1>2a, <1>3, <1>4, <1>5, SequenceKept

LEMMA ThreadsStep ==
    ASSUME T!ThreadsInvariant, T!Next \/ UNCHANGED threadVars PROVE T!ThreadsInvariant'
  BY TimeoutKeeps, LookKeeps, TakeKeeps, RecordKeeps, ErrorKeeps DEF T!Next

\* When every thread has ended nothing is held, and all was taken unless time was over.
LEMMA ThreadsInvariantSuffices == ASSUME T!ThreadsInvariant PROVE T!ResultsAreComplete
  <1> USE DEF T!ThreadsInvariant
  <1>1. Len(pending) <= Buffer
    BY DEF T!ThreadsTyped
  <1>2. ASSUME T!AllEnded, ~broken
        PROVE  /\ T!OneOfEach
               /\ \A k \in DOMAIN collected : collected[k][1] = collected[k][2]
               /\ T!ReportedTimeout \/ Len(collected) = Total
    <2>1. T!EachOnce /\ \A t \in Senders : ~T!Holding(t)
      BY <1>2 DEF T!AllEnded, T!Faulty, T!Holding
    <2> DEFINE D == {T!Same(i) : i \in 0..(Total - 1)}
    <2>2. 0..(nextIndex - 1) \subseteq 0..(Total - 1)
      BY ThreadsAssumption DEF T!ThreadsTyped
    <2>3. T!Reported \in SUBSET D
      BY <2>1, <2>2 DEF T!EachOnce
    <2>4. \A k \in DOMAIN collected : collected[k][1] = collected[k][2]
      BY <2>3, SamePair DEF T!Reported
    <2>5. IsFiniteSet(D) /\ Cardinality(D) = Total
      BY AllResults
    <2>6. /\ Cardinality(T!Reported) = Len(collected) /\ Len(collected) \in Nat
          /\ Len(collected) <= Total
      <3>1. Cardinality(T!Reported) = Len(collected) /\ Len(collected) \in Nat
        BY <2>1, ReportedCount DEF T!EachOnce, T!ThreadsTyped
      <3>2. Cardinality(T!Reported) <= Cardinality(D)
        BY <2>3, <2>5, FS_Subset
      <3> QED  BY <3>1, <3>2, <2>5
    <2>7. ASSUME ~overdue PROVE T!Reported = D
      <3>1. nextIndex = Total \/ Total = 0
        BY <1>2, <2>1, <2>7, ThreadsAssumption DEF T!EachOnce, T!AllEnded
      <3>2. \A i \in 0..(Total - 1) : T!Same(i) \in T!Reported
        BY <3>1, <2>1, <2>7 DEF T!EachOnce
      <3> QED  BY <3>2, <2>3
    <2>8. T!ReportedTimeout \/ Len(collected) = Total
      <3>1. CASE overdue
        BY <3>1, <2>6, ThreadsAssumption DEF T!ReportedTimeout
      <3>2. CASE ~overdue
        BY <3>2, <2>5, <2>6, <2>7
      <3> QED  BY <3>1, <3>2
    <2> QED  BY <2>1, <2>4, <2>8 DEF T!EachOnce
  <1> QED  BY <1>1, <1>2 DEF T!ResultsAreComplete

\* However many threads share the list or the stream of prompts and whatever fails,
\* a benchmark that ends without an error has one entry for every request in its list
\* of results, none twice and each with the prompt of its index, or is reported as
\* timed out; and the chunks rendered ahead never exceed the buffer.
THEOREM ResultsStayComplete == ServicesSpec => []ResultsAreComplete
  <1> DEFINE Inv == part = "threads" => T!ThreadsInvariant
  <1>1. part \in Services /\ ServicesInit => Inv
    BY ThreadsInit DEF ServicesInit
  <1>2. Inv /\ [ServicesNext /\ UNCHANGED part]_<<part, serviceVars>> => Inv'
    BY ServiceStep, ThreadsStep
  <1>3. Inv => ResultsAreComplete
    BY ThreadsInvariantSuffices DEF ResultsAreComplete
  <1> QED  BY <1>1, <1>2, <1>3, PTL DEF ServicesSpec

-----------------------------------------------------------------------------
(* Loops.                                                                  *)

\* The states of a loop of n turns that stay in a set.
IsLoop(f, S, init, step, n) ==
    f \in [0..n -> S] /\ f[0] = init /\ \A i \in 1..n : f[i] = step[f[i - 1]]

LEMMA LoopExists ==
    ASSUME NEW S, NEW init \in S, NEW step \in [S -> S], NEW n \in Nat
    PROVE  \E f : IsLoop(f, S, init, step, n)
  <1> DEFINE Is(f, m) == IsLoop(f, S, init, step, m)
             Stuck == {m \in Nat : ~\E f : Is(f, m)}
  <1>1. Stuck = {}
    <2> SUFFICES ASSUME Stuck # {} PROVE FALSE
      OBVIOUS
    <2>1. PICK m \in Stuck : \A k \in Stuck : m <= k
      BY LeastNumber, Stuck \in SUBSET Nat
    <2>2. CASE m = 0
      <3> DEFINE f == [i \in 0..0 |-> init]
      <3>1. Is(f, 0)
        BY 0..0 = {0}, 1..0 = {} DEF IsLoop
      <3> QED  BY <2>1, <2>2, <3>1
    <2>3. CASE m # 0
      <3>1. m \in Nat /\ m - 1 \in Nat /\ m - 1 \notin Stuck
        <4>1. m \in Nat /\ m - 1 \in Nat /\ ~(m <= m - 1)
          BY <2>3
        <4> HIDE DEF Stuck
        <4> QED  BY <2>1, <4>1
      <3>2. PICK f : Is(f, m - 1)
        BY <3>1
      <3>0. /\ f \in [0..(m - 1) -> S] /\ f[0] = init
            /\ \A i \in 1..(m - 1) : f[i] = step[f[i - 1]]
        BY <3>2 DEF IsLoop
      <3> DEFINE g == [i \in 0..m |-> IF i = m THEN step[f[m - 1]] ELSE f[i]]
      <3>3. \A i \in 0..m : i # m => i \in 0..(m - 1)
        BY <3>1
      <3>4. \A i \in 1..m : /\ i \in 0..m /\ i - 1 \in 0..m /\ i - 1 # m
                            /\ i # m => i \in 1..(m - 1)
        BY <3>1
      <3>5. m - 1 \in 0..(m - 1) /\ 0 \in 0..m /\ m \in 0..m
        BY <3>1
      <3>6. step[f[m - 1]] \in S
        BY <3>0, <3>5
      <3>7. g \in [0..m -> S]
        BY <3>0, <3>3, <3>6
      <3>8. g[0] = init
        BY <2>3, <3>0, <3>5
      <3>9. \A i \in 1..m : g[i] = step[g[i - 1]]
        <4> TAKE i \in 1..m
        <4>1. g[i - 1] = f[i - 1]
          BY <3>4
        <4>2. CASE i = m
          BY <3>5, <4>1, <4>2
        <4>3. CASE i # m
          BY <3>0, <3>4, <4>1, <4>3
        <4> QED  BY <4>2, <4>3
      <3>10. Is(g, m)
        BY <3>7, <3>8, <3>9 DEF IsLoop
      <3> HIDE DEF g, Is
      <3> QED  BY <2>1, <3>10
    <2> QED  BY <2>2, <2>3
  <1>2. \E f : Is(f, n)
    <2> HIDE DEF Is
    <2> QED  BY <1>1
  <1> QED  BY <1>2

\* What holds before a loop and is kept by each turn holds after it.
LEMMA LoopInduction ==
    ASSUME NEW n \in Nat, NEW Good \in SUBSET (0..n), 0 \in Good,
           \A i \in 1..n : i - 1 \in Good => i \in Good
    PROVE  n \in Good
  <1> DEFINE Unkept == (0..n) \ Good
  <1>1. Unkept = {}
    <2> SUFFICES ASSUME Unkept # {} PROVE FALSE
      OBVIOUS
    <2>1. Unkept \in SUBSET Nat
      OBVIOUS
    <2>2. PICK i \in Unkept : \A j \in Unkept : i <= j
      BY <2>1, LeastNumber
    <2>3. i \in 1..n /\ i - 1 \in 0..n /\ ~(i <= i - 1)
      OBVIOUS
    <2>4. i - 1 \in Good
      BY <2>2, <2>3
    <2> QED  BY <2>3, <2>4
  <1> QED  BY <1>1

-----------------------------------------------------------------------------
(* Sums over finite sets.                                                  *)

\* A family of subsets that holds {} and, with a set, what one more element
\* makes of it, holds every finite set.
LEMMA SetInduction ==
    ASSUME NEW S, IsFiniteSet(S), NEW Good \in SUBSET (SUBSET S), {} \in Good,
           \A G \in Good : \A x \in S \ G : G \cup {x} \in Good
    PROVE  S \in Good
  <1> DEFINE Failing == (SUBSET S) \ Good
             Sizes == {Cardinality(G) : G \in Failing}
  <1>1. ASSUME NEW G \in SUBSET S PROVE IsFiniteSet(G) /\ Cardinality(G) \in Nat
    BY FS_Subset, FS_CardinalityType
  <1>2. Failing = {}
    <2> SUFFICES ASSUME Failing # {} PROVE FALSE
      OBVIOUS
    <2>1. Sizes \in SUBSET Nat /\ Sizes # {}
      BY <1>1
    <2>2. PICK n \in Sizes : \A m \in Sizes : n <= m
      BY <2>1, LeastNumber
    <2>3. PICK G \in Failing : Cardinality(G) = n
      BY <2>2
    <2>4. PICK x \in G : TRUE
      BY <2>3
    <2> DEFINE U == G \ {x}
    <2>5. U \in SUBSET S /\ G = U \cup {x} /\ x \in S \ U
      BY <2>4
    <2>6. Cardinality(U) = Cardinality(G) - 1 /\ Cardinality(G) \in Nat
      BY <1>1, <2>4, FS_RemoveElement
    <2>7. U \in Good
      <3> SUFFICES ASSUME U \in Failing PROVE FALSE
        BY <2>5
      <3>1. Cardinality(U) \in Sizes
        OBVIOUS
      <3>2. n <= Cardinality(U)
        BY <2>2, <3>1
      <3> QED  BY <2>3, <2>6, <3>2
    <2> HIDE DEF U
    <2> QED  BY <2>5, <2>7
  <1> QED  BY <1>2

\* The element the sum of the library adds first.
First(s) == CHOOSE x \in s : TRUE

\* What it computes, for the subsets of S.
IsSumOn(g, S, f) ==
    g = [s \in SUBSET S |-> IF s = {} THEN 0 ELSE f[First(s)] + g[s \ {First(s)}]]

LEMMA SumExists ==
    ASSUME NEW S, IsFiniteSet(S), NEW f \in [S -> Int]
    PROVE  \E g \in [SUBSET S -> Int] : IsSumOn(g, S, f)
  <1> DEFINE Sums == [SUBSET S -> Int]
             zero == [s \in SUBSET S |-> 0]
             More(h) == [s \in SUBSET S |-> IF s = {} THEN 0 ELSE f[First(s)] + h[s \ {First(s)}]]
             more == [h \in Sums |-> More(h)]
             n == Cardinality(S) + 1
  <1>1. n \in Nat /\ n \in 1..n /\ n - 1 \in 0..n
    BY FS_CardinalityType
  <1>2. ASSUME NEW s \in SUBSET S, s # {} PROVE First(s) \in s /\ s \ {First(s)} \in SUBSET S
    BY <1>2 DEF First
  <1>3. more \in [Sums -> Sums] /\ zero \in Sums
    BY <1>2
  <1>4. PICK h : IsLoop(h, Sums, zero, more, n)
    <2> HIDE DEF Sums, zero, more, n
    <2> QED  BY <1>1, <1>3, LoopExists, Zenon
  <1> HIDE DEF Sums, n
  <1>5. h \in [0..n -> Sums] /\ \A i \in 1..n : i \in 0..n /\ i - 1 \in 0..n /\ h[i] = More(h[i - 1])
    <2>1. h \in [0..n -> Sums] /\ \A i \in 1..n : h[i] = more[h[i - 1]]
      BY <1>4 DEF IsLoop
    <2>2. \A i \in 1..n : i \in 0..n /\ i - 1 \in 0..n
      BY <1>1
    <2> HIDE DEF More
    <2> QED  BY <2>1, <2>2
  <1> DEFINE Good == {i \in 0..n : i # 0 => \A s \in SUBSET S : Cardinality(s) < i => h[i][s] = h[i - 1][s]}
  <1>6. 0 \in Good
    BY <1>1
  <1>7. ASSUME NEW i \in 1..n, i - 1 \in Good PROVE i \in Good
    <2> SUFFICES ASSUME NEW s \in SUBSET S, Cardinality(s) < i PROVE h[i][s] = h[i - 1][s]
      OBVIOUS
    <2>0. IsFiniteSet(s) /\ Cardinality(s) \in Nat
      BY FS_Subset, FS_CardinalityType
    <2>1. h[i][s] = IF s = {} THEN 0 ELSE f[First(s)] + h[i - 1][s \ {First(s)}]
      BY <1>5
    <2>2. CASE i = 1
      <3>1. Cardinality(s) = 0
        BY <2>0, <2>2
      <3>2. s = {}
        BY <2>0, <3>1, FS_EmptySet
      <3>3. h[0] = zero
        BY <1>4 DEF IsLoop
      <3> QED  BY <2>1, <2>2, <3>2, <3>3
    <2>3. CASE i # 1
      <3>1. i - 1 \in 1..n /\ i - 1 # 0
        BY <1>1, <2>3
      <3>2. h[i - 1][s] = IF s = {} THEN 0 ELSE f[First(s)] + h[i - 1 - 1][s \ {First(s)}]
        BY <1>5, <3>1
      <3>3. ASSUME s # {} PROVE h[i - 1][s \ {First(s)}] = h[i - 1 - 1][s \ {First(s)}]
        <4> DEFINE u == s \ {First(s)}
        <4>1. u \in SUBSET S /\ First(s) \in s
          BY <1>2, <3>3
        <4>2. Cardinality(u) = Cardinality(s) - 1
          BY <2>0, <4>1, FS_RemoveElement
        <4>3. Cardinality(u) < i - 1
          BY <2>0, <4>2
        <4>4. \A t \in SUBSET S : Cardinality(t) < i - 1 => h[i - 1][t] = h[i - 1 - 1][t]
          BY <1>7, <3>1
        <4> HIDE DEF u
        <4>5. h[i - 1][u] = h[i - 1 - 1][u]
          BY <4>1, <4>3, <4>4
        <4> QED  BY <4>5 DEF u
      <3> QED  BY <2>1, <3>2, <3>3
    <2> QED  BY <2>2, <2>3
  <1>8. n \in Good
    <2> HIDE DEF Good
    <2> QED  BY <1>1, <1>6, <1>7, LoopInduction, Good \in SUBSET (0..n) DEF Good
  <1>9. h[n - 1] \in Sums /\ h[n] \in Sums /\ h[n] = More(h[n - 1])
    <2> HIDE DEF More
    <2> QED  BY <1>1, <1>5
  <1>10. h[n] = h[n - 1]
    <2>1. ASSUME NEW s \in SUBSET S PROVE h[n][s] = h[n - 1][s]
      <3>1. Cardinality(s) < n
        BY FS_Subset, FS_CardinalityType DEF n
      <3>2. n # 0
        BY <1>1
      <3> QED  BY <1>8, <3>1, <3>2
    <2> QED  BY <1>9, <2>1 DEF Sums
  <1>11. IsSumOn(h[n], S, f) /\ h[n] \in [SUBSET S -> Int]
    <2> DEFINE g == h[n]
    <2>1. g = More(g)
      BY <1>9, <1>10
    <2>2. g \in Sums
      BY <1>9
    <2> HIDE DEF g
    <2>3. IsSumOn(g, S, f) /\ g \in [SUBSET S -> Int]
      BY <2>1, <2>2 DEF IsSumOn, Sums
    <2> QED  BY <2>3 DEF g
  <1> QED  BY <1>11

\* The sums on two sets are the same below the smaller one.
LEMMA SumsAgree ==
    ASSUME NEW S, IsFiniteSet(S), NEW G \in SUBSET S, NEW f, NEW e, \A x \in G : f[x] = e[x],
           NEW g, IsSumOn(g, S, f), NEW h, IsSumOn(h, G, e)
    PROVE  g[G] = h[G]
  <1> DEFINE Sizes == {Cardinality(H) : H \in {H \in SUBSET G : g[H] # h[H]}}
  <1>0. IsFiniteSet(G)
    BY FS_Subset
  <1>1. \A s \in SUBSET G :
            /\ s = {} => g[s] = 0 /\ h[s] = 0
            /\ s # {} => /\ g[s] = f[First(s)] + g[s \ {First(s)}]
                         /\ h[s] = e[First(s)] + h[s \ {First(s)}]
                         /\ First(s) \in s
    <2> TAKE s \in SUBSET G
    <2>1. s \in SUBSET S
      OBVIOUS
    <2>2. g[s] = IF s = {} THEN 0 ELSE f[First(s)] + g[s \ {First(s)}]
      BY <2>1 DEF IsSumOn
    <2>3. h[s] = IF s = {} THEN 0 ELSE e[First(s)] + h[s \ {First(s)}]
      BY DEF IsSumOn
    <2>4. s # {} => First(s) \in s
      BY DEF First
    <2> QED  BY <2>2, <2>3, <2>4
  <1>2. ASSUME Sizes # {} PROVE FALSE
    <2>1. \A H \in SUBSET G : IsFiniteSet(H) /\ Cardinality(H) \in Nat
      BY <1>0, FS_Subset, FS_CardinalityType
    <2>2. Sizes \in SUBSET Nat
      BY <2>1
    <2>3. PICK n \in Sizes : \A m \in Sizes : n <= m
      BY <1>2, <2>2, LeastNumber
    <2>4. PICK H \in SUBSET G : g[H] # h[H] /\ Cardinality(H) = n
      BY <2>3
    <2> DEFINE y == First(H)
               R == H \ {y}
    <2>5. /\ y \in H /\ y \in G /\ R \in SUBSET G
          /\ g[H] = f[y] + g[R] /\ h[H] = e[y] + h[R]
      BY <1>1, <2>4
    <2>6. Cardinality(R) = Cardinality(H) - 1 /\ Cardinality(H) \in Nat
      BY <2>1, <2>4, <2>5, FS_RemoveElement
    <2> HIDE DEF y, R
    <2>7. g[R] # h[R]
      BY <2>4, <2>5
    <2>8. n <= Cardinality(R)
      BY <2>3, <2>5, <2>7
    <2> QED  BY <2>4, <2>6, <2>8
  <1>3. G \in SUBSET G
    OBVIOUS
  <1> QED  BY <1>2, <1>3

\* The sum of f over S.
Sum(f, S) == V!SumFunctionOnSet(f, S)

\* One sum gives those over all subsets.
SumsUp(g, S, f) ==
    /\ g \in [SUBSET S -> Int] /\ IsSumOn(g, S, f)
    /\ \A G \in SUBSET S : \A e : (\A x \in G : f[x] = e[x]) => Sum(e, G) = g[G]

LEMMA SumOf ==
    ASSUME NEW S, IsFiniteSet(S), NEW f \in [S -> Int]
    PROVE  \E g : SumsUp(g, S, f)
  <1>1. PICK g \in [SUBSET S -> Int] : IsSumOn(g, S, f)
    BY SumExists
  <1>2. ASSUME NEW G \in SUBSET S, NEW e, \A x \in G : f[x] = e[x] PROVE Sum(e, G) = g[G]
    <2> DEFINE d == [x \in G |-> e[x]]
               it == CHOOSE it : IsSumOn(it, G, e)
    <2>1. IsFiniteSet(G) /\ d \in [G -> Int]
      BY <1>2, FS_Subset
    <2>2. PICK h : IsSumOn(h, G, d)
      BY <2>1, SumExists
    <2>3. \A s \in SUBSET G : s # {} => d[First(s)] = e[First(s)]
      BY DEF First
    <2>4. IsSumOn(h, G, e)
      BY <2>2, <2>3 DEF IsSumOn
    <2> HIDE DEF it
    <2>5. IsSumOn(it, G, e)
      BY <2>4 DEF it
    <2>6. g[G] = it[G]
      BY <1>1, <1>2, <2>5, SumsAgree
    <2>7. Sum(e, G) = it[G]
      BY Zenon DEF it, IsSumOn, First, Sum, V!SumFunctionOnSet, V!FoldFunctionOnSet, V!MapThenFoldSet
    <2> QED  BY <2>6, <2>7
  <1>3. SumsUp(g, S, f)
    BY <1>1, <1>2 DEF SumsUp
  <1> QED  BY <1>3

LEMMA SumType ==
    ASSUME NEW S, IsFiniteSet(S), NEW f \in [S -> Int]
    PROVE  Sum(f, S) \in Int /\ Sum(f, {}) = 0
  <1>0. PICK g : SumsUp(g, S, f)
    BY SumOf
  <1>1. /\ g \in [SUBSET S -> Int] /\ IsSumOn(g, S, f)
            /\ \A G \in SUBSET S : \A e : (\A x \in G : f[x] = e[x]) => Sum(e, G) = g[G]
    BY <1>0 DEF SumsUp
  <1>2. g[{}] = 0
    BY <1>1 DEF IsSumOn
  <1>3. {} \in SUBSET S /\ S \in SUBSET S
    OBVIOUS
  <1>4. Sum(f, S) = g[S] /\ Sum(f, {}) = g[{}]
    BY <1>1, <1>3
  <1> QED  BY <1>1, <1>2, <1>4

\* Sums of functions that agree are the same.
LEMMA SumSame ==
    ASSUME NEW S, IsFiniteSet(S), NEW f \in [S -> Int], NEW G \in SUBSET S,
           NEW e, \A x \in G : f[x] = e[x]
    PROVE  Sum(f, G) = Sum(e, G) /\ Sum(f, G) \in Int
  <1>0. PICK g : SumsUp(g, S, f)
    BY SumOf
  <1>1. /\ g \in [SUBSET S -> Int] /\ IsSumOn(g, S, f)
            /\ \A U \in SUBSET S : \A d : (\A x \in U : f[x] = d[x]) => Sum(d, U) = g[U]
    BY <1>0 DEF SumsUp
  <1>2. Sum(f, G) = g[G] /\ Sum(e, G) = g[G]
    BY <1>1
  <1> QED  BY <1>1, <1>2

\* Any element can be added last.
LEMMA SumStep ==
    ASSUME NEW S, IsFiniteSet(S), NEW f \in [S -> Int], NEW x \in S
    PROVE  Sum(f, S) = f[x] + Sum(f, S \ {x})
  <1>0. PICK g : SumsUp(g, S, f)
    BY SumOf
  <1>1. /\ g \in [SUBSET S -> Int] /\ IsSumOn(g, S, f)
            /\ \A U \in SUBSET S : \A d : (\A y \in U : f[y] = d[y]) => Sum(d, U) = g[U]
    BY <1>0 DEF SumsUp
  <1>2. \A G \in SUBSET S : G # {} => First(G) \in G /\ g[G] = f[First(G)] + g[G \ {First(G)}]
    BY <1>1 DEF IsSumOn, First
  <1> DEFINE Out(G, y) == g[G] = f[y] + g[G \ {y}]
             Sizes == {Cardinality(G) : G \in {G \in SUBSET S : ~\A y \in G : Out(G, y)}}
  <1>3. ASSUME Sizes # {} PROVE FALSE
    <2>1. \A G \in SUBSET S : IsFiniteSet(G) /\ Cardinality(G) \in Nat
      BY FS_Subset, FS_CardinalityType
    <2>2. Sizes \in SUBSET Nat
      BY <2>1
    <2>3. PICK n \in Sizes : \A m \in Sizes : n <= m
      BY <1>3, <2>2, LeastNumber
    <2>4. PICK G \in SUBSET S : Cardinality(G) = n /\ ~\A y \in G : Out(G, y)
      BY <2>3
    <2>5. PICK y \in G : ~Out(G, y)
      BY <2>4
    <2> DEFINE z == First(G)
    <2>6. z \in G /\ z # y /\ g[G] = f[z] + g[G \ {z}]
      BY <1>2, <2>5
    <2> HIDE DEF z
    <2> DEFINE U == G \ {z}
               W == G \ {y}
    <2>7. U \in SUBSET S /\ W \in SUBSET S /\ y \in U /\ z \in W /\ U \ {y} = W \ {z}
      BY <2>5, <2>6
    <2>8. Cardinality(U) = n - 1 /\ Cardinality(W) = n - 1 /\ n \in Nat
      BY <2>1, <2>4, <2>5, <2>6, FS_RemoveElement
    <2> HIDE DEF U, W
    <2>9. Out(U, y) /\ Out(W, z)
      <3>1. ~(n <= n - 1)
        BY <2>8
      <3>2. Cardinality(U) \notin Sizes /\ Cardinality(W) \notin Sizes
        BY <2>3, <2>8, <3>1
      <3> QED  BY <2>7, <3>2
    <2>10. g[U] = f[y] + g[U \ {y}] /\ g[W] = f[z] + g[U \ {y}]
      BY <2>7, <2>9
    <2>11. f[y] \in Int /\ f[z] \in Int /\ g[U \ {y}] \in Int
      BY <1>1, <2>5, <2>6, <2>7
    <2>12. g[G] = f[z] + g[U] /\ g[G] # f[y] + g[W]
      BY <2>5, <2>6 DEF U, W
    <2> HIDE DEF Out
    <2> QED  BY <2>10, <2>11, <2>12
  <1>4. g[S] = f[x] + g[S \ {x}]
    <2>1. S \in SUBSET S
      OBVIOUS
    <2> QED  BY <1>3, <2>1
  <1>5. Sum(f, S) = g[S] /\ Sum(f, S \ {x}) = g[S \ {x}]
    BY <1>1
  <1> QED  BY <1>4, <1>5

\* ... so a set is summed up element by element.
LEMMA SumAdd ==
    ASSUME NEW S, IsFiniteSet(S), NEW f \in [S -> Int], NEW G \in SUBSET S, NEW x \in S \ G
    PROVE  /\ Sum(f, G \cup {x}) = f[x] + Sum(f, G)
           /\ Sum(f, G) \in Int /\ f[x] \in Int
  <1> DEFINE U == G \cup {x}
             e == [y \in U |-> f[y]]
  <1>1. U \in SUBSET S /\ U \ {x} = G /\ x \in U /\ e \in [U -> Int]
    OBVIOUS
  <1>2. IsFiniteSet(U)
    BY <1>1, FS_Subset
  <1>3. e[x] = f[x] /\ (\A y \in U : f[y] = e[y]) /\ (\A y \in G : f[y] = e[y])
    OBVIOUS
  <1> HIDE DEF e, U
  <1>4. Sum(e, U) = e[x] + Sum(e, G)
    BY <1>1, <1>2, SumStep
  <1>5. Sum(f, U) = Sum(e, U)
    BY <1>1, <1>3, SumSame
  <1>6. Sum(f, G) = Sum(e, G) /\ Sum(f, G) \in Int
    BY <1>3, SumSame
  <1> QED  BY <1>3, <1>4, <1>5, <1>6 DEF U

\* Elements that count for nothing can be left out.
LEMMA SumRestrict ==
    ASSUME NEW S, IsFiniteSet(S), NEW f \in [S -> Int], NEW G \in SUBSET S,
           \A x \in S \ G : f[x] = 0
    PROVE  Sum(f, S) = Sum(f, G)
  <1> DEFINE Good == {U \in SUBSET S : Sum(f, U) = Sum(f, U \cap G)}
  <1>1. {} \in Good
    BY {} \cap G = {}
  <1>2. ASSUME NEW U \in Good, NEW x \in S \ U PROVE U \cup {x} \in Good
    <2>1. Sum(f, U \cup {x}) = f[x] + Sum(f, U) /\ Sum(f, U) \in Int
      BY SumAdd
    <2>2. CASE x \in G
      <3>1. (U \cup {x}) \cap G = (U \cap G) \cup {x} /\ x \in S \ (U \cap G)
        BY <2>2
      <3>2. Sum(f, (U \cap G) \cup {x}) = f[x] + Sum(f, U \cap G)
        BY <3>1, SumAdd
      <3> QED  BY <2>1, <3>1, <3>2
    <2>3. CASE x \notin G
      <3>1. (U \cup {x}) \cap G = U \cap G /\ f[x] = 0
        BY <2>3
      <3>2. Sum(f, U \cup {x}) = Sum(f, U)
        BY <2>1, <3>1
      <3>3. Sum(f, U) = Sum(f, U \cap G)
        OBVIOUS
      <3>4. Sum(f, U \cup {x}) = Sum(f, (U \cup {x}) \cap G)
        BY <3>1, <3>2, <3>3, Zenon
      <3> QED  BY <3>4
    <2> QED  BY <2>2, <2>3
  <1>3. S \in Good
    <2> HIDE DEF Good
    <2> QED  BY <1>1, <1>2, SetInduction, Good \in SUBSET (SUBSET S) DEF Good
  <1> QED  BY <1>3, S \cap G = G

\* The sum of two functions.
LEMMA SumPlus ==
    ASSUME NEW S, IsFiniteSet(S), NEW f \in [S -> Int], NEW g \in [S -> Int]
    PROVE  Sum([x \in S |-> f[x] + g[x]], S) = Sum(f, S) + Sum(g, S)
  <1> DEFINE h == [x \in S |-> f[x] + g[x]]
             Good == {U \in SUBSET S : Sum(h, U) = Sum(f, U) + Sum(g, U)}
  <1>0. h \in [S -> Int] /\ \A x \in S : h[x] = f[x] + g[x]
    OBVIOUS
  <1> HIDE DEF h
  <1>1. {} \in Good
    BY <1>0, SumType
  <1>2. ASSUME NEW U \in Good, NEW x \in S \ U PROVE U \cup {x} \in Good
    <2> HIDE DEF Good
    <2>0. U \in SUBSET S
      BY DEF Good
    <2>1. /\ Sum(f, U \cup {x}) = f[x] + Sum(f, U) /\ Sum(f, U) \in Int /\ f[x] \in Int
          /\ Sum(g, U \cup {x}) = g[x] + Sum(g, U) /\ Sum(g, U) \in Int /\ g[x] \in Int
          /\ Sum(h, U \cup {x}) = h[x] + Sum(h, U)
      <3>1. \A e \in [S -> Int] : /\ Sum(e, U \cup {x}) = e[x] + Sum(e, U)
                                   /\ Sum(e, U) \in Int /\ e[x] \in Int
        <4> TAKE e \in [S -> Int]
        <4>1. U \in SUBSET S /\ x \in S \ U /\ U \cup {x} = {x} \cup U
          BY <2>0
        <4> QED  BY <4>1, SumAdd
      <3> QED  BY <1>0, <3>1
    <2>2. Sum(h, U) = Sum(f, U) + Sum(g, U)
      BY DEF Good
    <2>3. Sum(h, U \cup {x}) = Sum(f, U \cup {x}) + Sum(g, U \cup {x})
      BY <1>0, <2>1, <2>2
    <2> QED  BY <2>0, <2>3 DEF Good
  <1>3. S \in Good
    <2> HIDE DEF Good
    <2> QED  BY <1>1, <1>2, SetInduction, Good \in SUBSET (SUBSET S) DEF Good
  <1> QED  BY <1>3 DEF h

\* Sums keep an order.
LEMMA SumMono ==
    ASSUME NEW S, IsFiniteSet(S), NEW f \in [S -> Int], NEW g \in [S -> Int],
           \A x \in S : f[x] <= g[x]
    PROVE  Sum(f, S) <= Sum(g, S)
  <1> DEFINE Good == {U \in SUBSET S : Sum(f, U) <= Sum(g, U)}
  <1>1. {} \in Good
    BY SumType
  <1>2. ASSUME NEW U \in Good, NEW x \in S \ U PROVE U \cup {x} \in Good
    <2>1. /\ Sum(f, U \cup {x}) = f[x] + Sum(f, U) /\ Sum(f, U) \in Int /\ f[x] \in Int
          /\ Sum(g, U \cup {x}) = g[x] + Sum(g, U) /\ Sum(g, U) \in Int /\ g[x] \in Int
      BY SumAdd
    <2>2. Sum(f, U) <= Sum(g, U) /\ f[x] <= g[x]
      OBVIOUS
    <2>3. Sum(f, U \cup {x}) <= Sum(g, U \cup {x})
      BY <2>1, <2>2
    <2> QED  BY <2>3
  <1>3. S \in Good
    <2> HIDE DEF Good
    <2> QED  BY <1>1, <1>2, SetInduction, Good \in SUBSET (SUBSET S) DEF Good
  <1> QED  BY <1>3

\* Disjoint sets are summed up one after the other.
LEMMA SumUnion ==
    ASSUME NEW S, IsFiniteSet(S), NEW f \in [S -> Int], NEW G \in SUBSET S
    PROVE  Sum(f, S) = Sum(f, G) + Sum(f, S \ G)
  <1> DEFINE U == S \ G
             g == [x \in S |-> IF x \in G THEN f[x] ELSE 0]
             h == [x \in S |-> IF x \in G THEN 0 ELSE f[x]]
  <1>1. g \in [S -> Int] /\ h \in [S -> Int] /\ U \in SUBSET S
    OBVIOUS
  <1>2. f = [x \in S |-> g[x] + h[x]]
    OBVIOUS
  <1>3. /\ (\A x \in S \ G : g[x] = 0) /\ (\A x \in G : g[x] = f[x])
        /\ (\A x \in S \ U : h[x] = 0) /\ (\A x \in U : h[x] = f[x])
    OBVIOUS
  <1> HIDE DEF g, h, U
  <1>4. Sum(f, S) = Sum(g, S) + Sum(h, S)
    BY <1>1, <1>2, SumPlus
  <1>5. Sum(g, S) = Sum(g, G) /\ Sum(g, G) = Sum(f, G)
    BY <1>1, <1>3, SumRestrict, SumSame
  <1>6. Sum(h, S) = Sum(h, U) /\ Sum(h, U) = Sum(f, U)
    BY <1>1, <1>3, SumRestrict, SumSame
  <1> QED  BY <1>4, <1>5, <1>6 DEF U

\* It does not matter what the elements are called.
Renames(b, S, G, f, g) ==
    /\ b \in [S -> G] /\ f \in [S -> Int] /\ g \in [G -> Int]
    /\ \A x, y \in S : b[x] = b[y] => x = y
    /\ \A y \in G : \E x \in S : b[x] = y
    /\ \A x \in S : f[x] = g[b[x]]

LEMMA SumRenamed ==
    ASSUME NEW S, IsFiniteSet(S), NEW G, IsFiniteSet(G), NEW b, NEW f, NEW g,
           Renames(b, S, G, f, g)
    PROVE  Sum(f, S) = Sum(g, G)
  <1> USE DEF Renames
  <1> DEFINE Of(U) == {b[x] : x \in U}
             Good == {U \in SUBSET S : Sum(f, U) = Sum(g, Of(U))}
  <1>1. {} \in Good
    BY Of({}) = {}, SumType
  <1>2. ASSUME NEW U \in Good, NEW x \in S \ U PROVE U \cup {x} \in Good
    <2>1. /\ Of(U) \in SUBSET G /\ b[x] \in G \ Of(U) /\ Of(U \cup {x}) = Of(U) \cup {b[x]}
          /\ U \in SUBSET S /\ Sum(f, U) = Sum(g, Of(U))
      OBVIOUS
    <2> HIDE DEF Good, Of
    <2>2. Sum(f, U \cup {x}) = f[x] + Sum(f, U)
      BY <2>1, SumAdd
    <2>3. Sum(g, Of(U) \cup {b[x]}) = g[b[x]] + Sum(g, Of(U))
      BY <2>1, SumAdd
    <2>4. Sum(f, U \cup {x}) = Sum(g, Of(U \cup {x}))
      BY <2>1, <2>2, <2>3
    <2> QED  BY <2>1, <2>4 DEF Good
  <1>3. S \in Good
    <2> HIDE DEF Good
    <2> QED  BY <1>1, <1>2, SetInduction, Good \in SUBSET (SUBSET S) DEF Good
  <1>4. Of(S) = G
    OBVIOUS
  <1> QED  BY <1>3, <1>4

-----------------------------------------------------------------------------
(* Prompts: the size of a cache.                                           *)

\* Entries that have a size.
Sized(X) == \A e \in X : e.bytes \in Int

LEMMA BytesOf ==
    ASSUME NEW X, Sized(X), NEW s \in Seq(X)
    PROVE  LET size == [i \in 1..Len(s) |-> s[i].bytes] IN
           /\ I!Bytes(s) = Sum(size, 1..Len(s))
           /\ size \in [1..Len(s) -> Int] /\ IsFiniteSet(1..Len(s)) /\ Len(s) \in Nat
           /\ I!Bytes(s) \in Int
  <1> DEFINE size == [i \in 1..Len(s) |-> s[i].bytes]
  <1>1. DOMAIN s = 1..Len(s) /\ Len(s) \in Nat /\ \A i \in 1..Len(s) : s[i] \in X
    BY LenProperties, ElementOfSeq
  <1>2. size \in [1..Len(s) -> Int]
    BY <1>1 DEF Sized
  <1>3. IsFiniteSet(1..Len(s))
    BY <1>1, FS_Interval
  <1>4. I!Bytes(s) = I!SumFunction([i \in DOMAIN s |-> s[i].bytes])
    BY DEF I!Bytes
  <1>5. [i \in DOMAIN s |-> s[i].bytes] = size /\ DOMAIN size = 1..Len(s)
    BY <1>1
  <1> HIDE DEF size
  <1>6. I!SumFunction(size) = Sum(size, DOMAIN size)
    BY Zenon DEF I!SumFunction, I!SumFunctionOnSet, I!FoldFunctionOnSet, I!MapThenFoldSet,
        Sum, V!SumFunctionOnSet, V!FoldFunctionOnSet, V!MapThenFoldSet
  <1>7. I!Bytes(s) = Sum(size, 1..Len(s))
    BY <1>4, <1>5, <1>6
  <1>8. Sum(size, 1..Len(s)) \in Int
    BY <1>2, <1>3, SumType
  <1> QED  BY <1>1, <1>2, <1>3, <1>7, <1>8 DEF size

LEMMA BytesConcat ==
    ASSUME NEW X, Sized(X), NEW s \in Seq(X), NEW t \in Seq(X)
    PROVE  I!Bytes(s \o t) = I!Bytes(s) + I!Bytes(t)
  <1> DEFINE u == s \o t
             m == Len(s)
             n == Len(t)
             f == [i \in 1..Len(u) |-> u[i].bytes]
             g == [i \in 1..m |-> s[i].bytes]
             h == [i \in 1..n |-> t[i].bytes]
             G == (1..Len(u)) \ (1..m)
             b == [i \in G |-> i - m]
             fT == [i \in G |-> f[i]]
  <1>1. /\ u \in Seq(X) /\ Len(u) = m + n
        /\ \A i \in 1..(m + n) : u[i] = IF i <= m THEN s[i] ELSE t[i - m]
    BY ConcatProperties
  <1>2. /\ I!Bytes(s) = Sum(g, 1..m) /\ g \in [1..m -> Int] /\ m \in Nat
    BY BytesOf
  <1>3. /\ I!Bytes(t) = Sum(h, 1..n) /\ h \in [1..n -> Int] /\ IsFiniteSet(1..n) /\ n \in Nat
    BY BytesOf
  <1>4. /\ I!Bytes(u) = Sum(f, 1..Len(u)) /\ f \in [1..Len(u) -> Int] /\ IsFiniteSet(1..Len(u))
    <2> HIDE DEF u
    <2> QED  BY <1>1, BytesOf
  <1>5. \A i \in 1..Len(u) : f[i] = IF i <= m THEN g[i] ELSE h[i - m]
    <2> TAKE i \in 1..Len(u)
    <2>1. f[i] = (IF i <= m THEN s[i] ELSE t[i - m]).bytes
      BY <1>1
    <2>2. i <= m => i \in 1..m
      BY <1>1, <1>2, <1>3
    <2>3. ~(i <= m) => i - m \in 1..n
      BY <1>1, <1>2, <1>3
    <2> HIDE DEF f
    <2> QED  BY <2>1, <2>2, <2>3
  <1> HIDE DEF f, g, h, u
  <1>6. 1..m \in SUBSET (1..Len(u)) /\ \A i \in 1..m : f[i] = g[i]
    <2>1. \A i \in 1..m : i \in 1..Len(u) /\ i <= m
      BY <1>1, <1>2, <1>3
    <2> QED  BY <1>5, <2>1
  <1>7. Sum(f, 1..Len(u)) = Sum(f, 1..m) + Sum(f, G)
    BY <1>4, <1>6, SumUnion
  <1>8. Sum(f, 1..m) = Sum(g, 1..m)
    <2> DEFINE D == 1..Len(u)
               E == 1..m
    <2>1. IsFiniteSet(D) /\ f \in [D -> Int] /\ E \in SUBSET D /\ \A i \in E : f[i] = g[i]
      BY <1>4, <1>6
    <2> HIDE DEF D, E
    <2>2. Sum(f, E) = Sum(g, E)
      BY <2>1, SumSame
    <2> QED  BY <2>2 DEF E
  <1>9. /\ G \in SUBSET (1..Len(u)) /\ fT \in [G -> Int] /\ \A i \in G : f[i] = fT[i]
    BY <1>4
  <1>10. IsFiniteSet(G) /\ Sum(f, G) = Sum(fT, G)
    <2> DEFINE D == 1..Len(u)
    <2>1. IsFiniteSet(D) /\ f \in [D -> Int] /\ G \in SUBSET D /\ \A i \in G : f[i] = fT[i]
      BY <1>4, <1>9
    <2> HIDE DEF D, G, fT
    <2>2. Sum(f, G) = Sum(fT, G)
      BY <2>1, SumSame
    <2> QED  BY <2>1, <2>2, FS_Subset
  <1>11. b \in [G -> 1..n] /\ \A i \in G : ~(i <= m)
    BY <1>1, <1>2, <1>3
  <1>12. \A i \in G : \A j \in G : b[i] = b[j] => i = j
    BY <1>1, <1>2, <1>3
  <1>13. \A j \in 1..n : \E i \in G : b[i] = j
    <2> TAKE j \in 1..n
    <2>1. m + j \in G /\ b[m + j] = j
      BY <1>1, <1>2, <1>3
    <2> QED  BY <2>1
  <1>14. \A i \in G : fT[i] = h[b[i]]
    BY <1>5, <1>9, <1>11
  <1>15. Sum(fT, G) = Sum(h, 1..n)
    <2> DEFINE R == 1..n
    <2>1. /\ IsFiniteSet(G) /\ IsFiniteSet(R) /\ b \in [G -> R]
          /\ \A i \in G : \A j \in G : b[i] = b[j] => i = j
          /\ \A j \in R : \E i \in G : b[i] = j
          /\ fT \in [G -> Int] /\ h \in [R -> Int] /\ \A i \in G : fT[i] = h[b[i]]
      BY <1>3, <1>9, <1>10, <1>11, <1>12, <1>13, <1>14
    <2> HIDE DEF R, G, b, fT
    <2>2. Sum(fT, G) = Sum(h, R)
      <3>1. Renames(b, G, R, fT, h)
        BY <2>1 DEF Renames
      <3> QED  BY <2>1, <3>1, SumRenamed
    <2> QED  BY <2>2 DEF R
  <1> QED  BY <1>2, <1>3, <1>4, <1>7, <1>8, <1>10, <1>15 DEF u

LEMMA BytesOfOne ==
    ASSUME NEW X, Sized(X), NEW e \in X
    PROVE  I!Bytes(<<e>>) = e.bytes /\ <<e>> \in Seq(X)
  <1> DEFINE s == <<e>>
             f == [i \in 1..Len(s) |-> s[i].bytes]
  <1>1. s \in Seq(X) /\ Len(s) = 1 /\ s[1] = e
    OBVIOUS
  <1> HIDE DEF s
  <1>2. I!Bytes(s) = Sum(f, 1..Len(s)) /\ f \in [1..Len(s) -> Int] /\ IsFiniteSet(1..Len(s))
    BY <1>1, BytesOf
  <1>3. 1 \in 1..Len(s) /\ (1..Len(s)) \ {1} = {} /\ f[1] = e.bytes
    BY <1>1
  <1> HIDE DEF f
  <1>4. Sum(f, 1..Len(s)) = f[1] + Sum(f, {})
    <2>1. Sum(f, 1..Len(s)) = f[1] + Sum(f, (1..Len(s)) \ {1})
      BY <1>2, <1>3, SumStep
    <2> QED  BY <1>3, <2>1
  <1>5. Sum(f, {}) = 0 /\ e.bytes \in Int
    BY <1>2, SumType DEF Sized
  <1> QED  BY <1>1, <1>2, <1>3, <1>4, <1>5 DEF s

-----------------------------------------------------------------------------
(* Prompts: the operations of a cache.                                     *)

LEMMA BytesOfNone == I!Bytes(<<>>) = 0
  <1> DEFINE f == [i \in 1..Len(<<>>) |-> <<>>[i].bytes]
  <1>1. Sized({}) /\ <<>> \in Seq({}) /\ 1..Len(<<>>) = {}
    BY EmptySeq DEF Sized
  <1>2. I!Bytes(<<>>) = Sum(f, 1..Len(<<>>)) /\ f \in [1..Len(<<>>) -> Int]
    BY <1>1, BytesOf
  <1> HIDE DEF f
  <1>3. Sum(f, {}) = 0
    BY <1>1, <1>2, SumType, FS_EmptySet
  <1> QED  BY <1>1, <1>2, <1>3

LEMMA BytesAppend ==
    ASSUME NEW X, Sized(X), NEW s \in Seq(X), NEW e \in X
    PROVE  I!Bytes(Append(s, e)) = I!Bytes(s) + e.bytes
  <1>1. Append(s, e) = s \o <<e>>
    BY AppendIsConcat
  <1>2. I!Bytes(<<e>>) = e.bytes /\ <<e>> \in Seq(X)
    BY BytesOfOne
  <1>3. I!Bytes(s \o <<e>>) = I!Bytes(s) + I!Bytes(<<e>>)
    BY <1>2, BytesConcat
  <1> QED  BY <1>1, <1>2, <1>3

\* Parts of a sequence.
LEMMA PartOf ==
    ASSUME NEW X, NEW s \in Seq(X), NEW m \in 1..(Len(s) + 1), NEW n \in 0..Len(s)
    PROVE  /\ SubSeq(s, m, n) \in Seq(X)
           /\ Len(SubSeq(s, m, n)) = IF m <= n THEN n - m + 1 ELSE 0
           /\ \A i \in 1..(n - m + 1) : SubSeq(s, m, n)[i] = s[m + i - 1]
  <1>1. Len(s) \in Nat
    BY LenProperties
  <1>2. m \in Int /\ n \in Int
    BY <1>1
  <1>3. ASSUME NEW i \in m..n PROVE s[i] \in X
    <2>1. i \in 1..Len(s)
      BY <1>1
    <2> QED  BY <2>1, ElementOfSeq
  <1> QED  BY <1>2, <1>3, SubSeqProperties

LEMMA BytesSplit ==
    ASSUME NEW X, Sized(X), NEW s \in Seq(X), NEW k \in 0..Len(s)
    PROVE  I!Bytes(s) = I!Bytes(SubSeq(s, 1, k)) + I!Bytes(SubSeq(s, k + 1, Len(s)))
  <1>1. Len(s) \in Nat
    BY LenProperties
  <1>2. 1 \in 1..(Len(s) + 1) /\ k \in 0..Len(s) /\ k + 1 \in 1..(Len(s) + 1)
        /\ Len(s) \in 0..Len(s) /\ k \in (1 - 1)..Len(s) /\ Len(s) \in k..Len(s)
    BY <1>1
  <1>3. SubSeq(s, 1, k) \in Seq(X) /\ SubSeq(s, k + 1, Len(s)) \in Seq(X)
    BY <1>2, PartOf
  <1>4. SubSeq(s, 1, k) \o SubSeq(s, k + 1, Len(s)) = SubSeq(s, 1, Len(s))
    BY <1>2, ConcatAdjacentSubSeq
  <1>5. SubSeq(s, 1, Len(s)) = s
    BY SubSeqFull
  <1> QED  BY <1>3, <1>4, <1>5, BytesConcat

LEMMA PlaceOf ==
    ASSUME NEW X, NEW s \in Seq(X), NEW key, key \in I!Keys(s)
    PROVE  /\ I!Place(s, key) \in 1..Len(s) /\ Len(s) \in Nat
           /\ I!Entry(s, key) = s[I!Place(s, key)]
           /\ I!Entry(s, key) \in X /\ I!Entry(s, key).key = key
  <1>1. DOMAIN s = 1..Len(s) /\ Len(s) \in Nat
    BY LenProperties
  <1>2. PICK i \in DOMAIN s : s[i].key = key
    BY DEF I!Keys
  <1>3. I!Place(s, key) \in DOMAIN s /\ s[I!Place(s, key)].key = key
    BY <1>2 DEF I!Place
  <1>4. I!Entry(s, key) = s[I!Place(s, key)]
    BY DEF I!Entry
  <1> QED  BY <1>1, <1>3, <1>4, ElementOfSeq

\* A key is among those of a cache that ends with its entry.
LEMMA KeyOf ==
    ASSUME NEW X, NEW s \in Seq(X), NEW i \in 1..Len(s)
    PROVE  s[i].key \in I!Keys(s)
  <1>1. DOMAIN s = 1..Len(s)
    BY LenProperties
  <1> QED  BY <1>1 DEF I!Keys

LEMMA MoveToEndOf ==
    ASSUME NEW X, NEW s \in Seq(X), NEW key, key \in I!Keys(s)
    PROVE  LET t == I!MoveToEnd(s, key) IN
           /\ t \in Seq(X) /\ Len(t) = Len(s) /\ Len(s) \in Nat \ {0}
           /\ t[Len(s)] \in X /\ t[Len(s)].key = key
           /\ Sized(X) => I!Bytes(t) = I!Bytes(s)
  <1> DEFINE p == I!Place(s, key)
             e == I!Entry(s, key)
             n == Len(s)
             before == SubSeq(s, 1, p - 1)
             after == SubSeq(s, p + 1, n)
             rest == before \o after
             t == I!MoveToEnd(s, key)
  <1>1. p \in 1..n /\ n \in Nat /\ e = s[p] /\ e \in X /\ e.key = key
    BY PlaceOf
  <1>2. /\ 1 \in 1..(n + 1) /\ p + 1 \in 1..(n + 1) /\ p - 1 \in 0..n /\ n \in 0..n
        /\ p \in 0..n /\ p - 1 + 1 = p /\ n \in Nat \ {0} /\ n \in p..n
    BY <1>1
  <1>3. before \in Seq(X) /\ Len(before) = p - 1
    BY <1>1, <1>2, PartOf
  <1>4. after \in Seq(X) /\ Len(after) = n - p
    BY <1>1, <1>2, PartOf
  <1>5. t = Append(rest, e)
    BY DEF I!MoveToEnd, I!RemoveAt
  <1> HIDE DEF t, e, p
  <1>6. rest \in Seq(X) /\ Len(rest) = n - 1
    <2> HIDE DEF before, after, n
    <2>1. rest \in Seq(X) /\ Len(rest) = Len(before) + Len(after)
      BY <1>3, <1>4, ConcatProperties
    <2>2. p - 1 + (n - p) = n - 1
      BY <1>1
    <2> QED  BY <1>3, <1>4, <2>1, <2>2
  <1>7. t \in Seq(X) /\ Len(t) = n /\ t[n] = e
    <2> HIDE DEF rest, n
    <2>1. t \in Seq(X) /\ Len(t) = Len(rest) + 1 /\ t[Len(rest) + 1] = e
      BY <1>1, <1>5, <1>6, AppendProperties
    <2>2. Len(rest) + 1 = n
      BY <1>1, <1>6
    <2> QED  BY <2>1, <2>2
  <1>8. ASSUME Sized(X) PROVE I!Bytes(t) = I!Bytes(s)
    <2>1. I!Bytes(t) = I!Bytes(rest) + e.bytes
      <3> HIDE DEF rest
      <3> QED  BY <1>1, <1>5, <1>6, <1>8, BytesAppend
    <2>2. I!Bytes(rest) = I!Bytes(before) + I!Bytes(after)
      BY <1>3, <1>4, <1>8, BytesConcat
    <2>3. I!Bytes(s) = I!Bytes(SubSeq(s, 1, p)) + I!Bytes(after)
      BY <1>2, <1>8, BytesSplit
    <2>4. SubSeq(s, 1, p) = before \o <<e>>
      <3>1. 1 \in 1..Len(s) /\ p \in 1..Len(s)
        BY <1>1, <1>2
      <3> QED  BY <1>1, <3>1, SubSeqRecursiveSecond
    <2>5. I!Bytes(<<e>>) = e.bytes /\ <<e>> \in Seq(X)
      BY <1>1, <1>8, BytesOfOne
    <2>6. I!Bytes(before \o <<e>>) = I!Bytes(before) + e.bytes
      BY <1>3, <1>8, <2>5, BytesConcat
    <2>7. I!Bytes(before) \in Int /\ I!Bytes(after) \in Int /\ e.bytes \in Int
      BY <1>1, <1>3, <1>4, <1>8, BytesOf DEF Sized
    <2>8. I!Bytes(rest) = I!Bytes(before) + I!Bytes(after) /\ I!Bytes(SubSeq(s, 1, p)) = I!Bytes(before) + e.bytes
      BY <2>2, <2>4, <2>6
    <2> HIDE DEF before, after, rest
    <2> QED  BY <2>1, <2>3, <2>7, <2>8
  <1> QED  BY <1>1, <1>2, <1>7, <1>8 DEF t

\* A cache without its oldest entries.
LEMMA WithoutOldest ==
    ASSUME NEW X, NEW s \in Seq(X), NEW k \in 0..(Len(s) - 1)
    PROVE  LET t == SubSeq(s, k + 1, Len(s)) IN
           /\ t \in Seq(X) /\ Len(t) = Len(s) - k /\ Len(t) \in Nat \ {0}
           /\ t[Len(t)] = s[Len(s)]
  <1> DEFINE n == Len(s)
             t == SubSeq(s, k + 1, n)
  <1>1. n \in Nat /\ n >= 1
    BY LenProperties
  <1>2. k + 1 \in 1..(n + 1) /\ n \in 0..n /\ k + 1 <= n /\ n - (k + 1) + 1 = n - k
        /\ n - k \in 1..(n - (k + 1) + 1) /\ k + 1 + (n - k) - 1 = n
    BY <1>1
  <1>3. t \in Seq(X) /\ Len(t) = n - k /\ t[n - k] = s[k + 1 + (n - k) - 1]
    BY <1>2, PartOf
  <1>4. Len(t) \in Nat \ {0}
    <2>1. n - k \in Nat \ {0}
      BY <1>1
    <2> HIDE DEF t, n
    <2> QED  BY <1>3, <2>1
  <1>5. t[Len(t)] = s[n]
    <2>1. t[Len(t)] = t[n - k]
      BY <1>3
    <2> HIDE DEF t, n
    <2>2. t[n - k] = s[n]
      BY <1>2, <1>3
    <2> QED  BY <2>1, <2>2
  <1> QED  BY <1>3, <1>4, <1>5

-----------------------------------------------------------------------------
(* Prompts: the caches of an actor.                                        *)

\* A calibration is known once it was asked for.
LEMMA CalibratedOf ==
    ASSUME NEW s \in Seq(I!CalibrationEntries), Len(s) <= MaxCalibrations,
           NEW r \in I!Recipes
    PROVE  LET t == I!Calibrated(s, r) IN
           /\ t \in Seq(I!CalibrationEntries) /\ Len(t) <= MaxCalibrations
           /\ I!Entry(t, I!CalibrationKey(r)).ratio = I!CalibrateCorpus(r)
  <1> DEFINE X == I!CalibrationEntries
             key == I!CalibrationKey(r)
             new == [key |-> key, ratio |-> I!CalibrateCorpus(r)]
             known == IF key \in I!Keys(s) THEN s ELSE Append(s, new)
             moved == I!MoveToEnd(known, key)
             t == I!Calibrated(s, r)
  <1>1. new \in X /\ new.key = key
    BY DEF I!CalibrationEntries
  <1>2. Len(s) \in Nat /\ MaxCalibrations \in Nat \ {0}
    BY LenProperties, PromptsAssumption
  <1>3. t = IF Len(moved) > MaxCalibrations THEN Tail(moved) ELSE moved
    BY Zenon DEF I!Calibrated
  <1>4. \A e \in X : e.key = key => e.ratio = I!CalibrateCorpus(r)
    <2> TAKE e \in X
    <2>1. PICK q \in I!Recipes : e = [key |-> I!CalibrationKey(q), ratio |-> I!CalibrateCorpus(q)]
      BY DEF I!CalibrationEntries
    <2> HAVE e.key = key
    <2>2. I!CalibrationKey(q) = I!CalibrationKey(r)
      BY <2>1
    <2>3. q.dataset = r.dataset /\ q.tokenizer = r.tokenizer
      BY <2>2 DEF I!CalibrationKey
    <2> QED  BY <2>1, <2>3 DEF I!CalibrateCorpus
  <1> HIDE DEF X, key, new, t, moved
  <1>5. known \in Seq(X) /\ key \in I!Keys(known) /\ Len(known) <= MaxCalibrations + 1
    <2>1. CASE key \in I!Keys(s)
      BY <1>2, <2>1 DEF X
    <2>2. CASE key \notin I!Keys(s)
      <3> DEFINE a == Append(s, new)
      <3>1. a \in Seq(X) /\ Len(a) = Len(s) + 1 /\ a[Len(s) + 1] = new
        BY <1>1, AppendProperties DEF X
      <3>2. Len(s) + 1 \in 1..Len(a)
        BY <1>2, <3>1
      <3> HIDE DEF a
      <3>3. a[Len(s) + 1].key \in I!Keys(a)
        BY <3>1, <3>2, KeyOf
      <3>4. key \in I!Keys(a) /\ Len(a) <= MaxCalibrations + 1
        BY <1>1, <1>2, <3>1, <3>3
      <3> QED  BY <2>2, <3>1, <3>4 DEF a
    <2> QED  BY <2>1, <2>2
  <1> HIDE DEF known
  <1> DEFINE n == Len(known)
  <1>6. /\ moved \in Seq(X) /\ Len(moved) = n /\ n \in Nat \ {0}
        /\ moved[n] \in X /\ moved[n].key = key
    BY <1>5, MoveToEndOf DEF moved
  <1> HIDE DEF n
  <1>7. t \in Seq(X) /\ Len(t) \in Nat \ {0} /\ Len(t) <= MaxCalibrations /\ t[Len(t)] = moved[n]
    <2>1. CASE n > MaxCalibrations
      <3>1. t = Tail(moved)
        BY <1>3, <1>6, <2>1
      <3>2. moved # <<>>
        BY <1>6, EmptySeq
      <3>3. Tail(moved) = SubSeq(moved, 2, n)
        BY <1>6, <3>2, TailIsSubSeq
      <3>4. PICK k \in 0..(Len(moved) - 1) : k = 1
        BY <1>2, <1>6, <2>1
      <3>5. LET u == SubSeq(moved, k + 1, Len(moved)) IN
            /\ u \in Seq(X) /\ Len(u) = Len(moved) - k /\ Len(u) \in Nat \ {0}
            /\ u[Len(u)] = moved[Len(moved)]
        BY <1>6, WithoutOldest
      <3>6. SubSeq(moved, k + 1, Len(moved)) = t
        BY <1>6, <3>1, <3>3, <3>4
      <3>7. t \in Seq(X) /\ Len(t) = n - 1 /\ Len(t) \in Nat \ {0} /\ t[Len(t)] = moved[n]
        BY <1>6, <3>4, <3>5, <3>6
      <3>8. n - 1 <= MaxCalibrations
        BY <1>2, <1>5, <1>6 DEF n
      <3> QED  BY <3>7, <3>8
    <2>2. CASE ~(n > MaxCalibrations)
      BY <1>2, <1>3, <1>6, <2>2
    <2> QED  BY <2>1, <2>2
  <1>8. key \in I!Keys(t)
    <2>1. Len(t) \in 1..Len(t)
      BY <1>7
    <2> QED  BY <1>6, <1>7, <2>1, KeyOf
  <1>9. I!Entry(t, key) \in X /\ I!Entry(t, key).key = key
    BY <1>7, <1>8, PlaceOf
  <1>10. I!Entry(t, key).ratio = I!CalibrateCorpus(r)
    BY <1>4, <1>9
  <1> QED  BY <1>7, <1>10 DEF X, key, t

\* The eviction loop ends, at the first rest that fits.
LEMMA EvictionsOf ==
    ASSUME NEW X, NEW s \in Seq(X), Len(s) # 0, NEW bytes
    PROVE  /\ I!Evictions(s, bytes) \in 0..(Len(s) - 1)
           /\ I!Fits(s, bytes, I!Evictions(s, bytes))
  <1> DEFINE N == {k \in 0..(Len(s) - 1) : I!Fits(s, bytes, k)}
  <1>1. Len(s) \in Nat \ {0}
    BY LenProperties
  <1>2. Len(s) - 1 \in 0..(Len(s) - 1)
    BY <1>1
  <1>3. Len(s) - 1 \in N
    BY <1>2 DEF I!Fits
  <1>4. PICK k \in N : \A j \in N : k <= j
    BY <1>3, LeastNumber, N \in SUBSET Nat
  <1>5. \A j \in 0..(k - 1) : ~I!Fits(s, bytes, j)
    <2> SUFFICES ASSUME NEW j \in 0..(k - 1), I!Fits(s, bytes, j) PROVE FALSE
      OBVIOUS
    <2>1. j \in 0..(Len(s) - 1) /\ ~(k <= j)
      BY <1>1, <1>4
    <2> QED  BY <1>4, <2>1
  <1>6. \E x \in 0..(Len(s) - 1) :
            I!Fits(s, bytes, x) /\ \A j \in 0..(x - 1) : ~I!Fits(s, bytes, j)
    BY <1>4, <1>5
  <1> QED  BY <1>6 DEF I!Evictions

\* The recipes of a benchmark, by the input of a request.
LEMMA RecipeOf ==
    ASSUME NEW b \in I!Benchmarks, NEW w \in DOMAIN I!RequestInputs(b)
    PROVE  LET r == I!WorkerSteps(b)[w] IN
           /\ r \in I!Recipes
           /\ DOMAIN I!WorkerSteps(b) = DOMAIN I!RequestInputs(b)
           /\ r.input = I!RequestInputs(b)[w] /\ r.input \in DOMAIN b.inputs
           /\ r.seed = I!InputSeed(b, I!Context(b, w), r.input)
           /\ r.prefix_seed = I!PrefixSeed(b, I!Context(b, w), r.input)
           /\ r.tokens = b.inputs[r.input].tokens
           /\ r.prefix_tokens = b.inputs[r.input].prefix_tokens /\ r.prefix_tokens \in Nat
           /\ r.mode = b.inputs[r.input].mode
           /\ r.repeat_count = b.inputs[r.input].repeat_count
           /\ r.dataset = b.inputs[r.input].dataset
           /\ r.tokenizer = b.tokenizer /\ r.calibrated = (b.estimate /\ b.probe = Unset)
           /\ r.atomic = I!Atomic(I!Context(b, w)) /\ r.probe = b.probe
           /\ r.calibrated => r.probe = Unset
           /\ b.probe = Unset => r.index = I!NamedIndex(I!RequestInputs(b), w)
  <1> DEFINE asked == I!RequestInputs(b)
             name == asked[w]
             context == I!Context(b, w)
             r == I!WorkerSteps(b)[w]
  <1>1. PICK p \in Programs : \E i \in DOMAIN p : b = p[i]
    BY DEF I!Benchmarks
  <1>2. /\ b.requests \in Seq(DOMAIN b.inputs) /\ "default" \in DOMAIN b.inputs
        /\ \A n \in DOMAIN b.inputs : b.inputs[n].prefix_tokens \in Nat
    BY <1>1, PromptsAssumption
  <1>3. name \in DOMAIN b.inputs
    <2>1. CASE b.probe = Unset
      <3>1. asked = b.requests
        BY <2>1 DEF I!RequestInputs
      <3>2. w \in 1..Len(b.requests)
        BY <1>2, <3>1, LenProperties
      <3> QED  BY <1>2, <3>1, <3>2, ElementOfSeq
    <2>2. CASE b.probe # Unset
      BY <1>2, <2>2 DEF I!RequestInputs
    <2> QED  BY <2>1, <2>2
  <1>4. /\ DOMAIN I!WorkerSteps(b) = DOMAIN asked
        /\ r = [input |-> name, seed |-> I!InputSeed(b, context, name),
                prefix_seed |-> I!PrefixSeed(b, context, name),
                index |-> IF b.probe = Unset THEN I!NamedIndex(asked, w)
                          ELSE (IF b.probe = Unset THEN <<0, 0>>
                                ELSE I!ProbeCoordinates(b.probe)[w])[1],
                tokens |-> b.inputs[name].tokens, prefix_tokens |-> b.inputs[name].prefix_tokens,
                mode |-> b.inputs[name].mode, repeat_count |-> b.inputs[name].repeat_count,
                text |-> IF I!Atomic(context) THEN context.text ELSE b.inputs[name].text,
                dataset |-> b.inputs[name].dataset, tokenizer |-> b.tokenizer,
                calibrated |-> b.estimate /\ b.probe = Unset,
                atomic |-> I!Atomic(context),
                probe |-> b.probe,
                occurrence |-> (IF b.probe = Unset THEN <<0, 0>>
                                ELSE I!ProbeCoordinates(b.probe)[w])[2]]
    BY DEF I!WorkerSteps
  <1>5. r \in I!Recipes
    BY DEF I!Recipes
  <1>6. r.input = name
    BY <1>4
  <1> HIDE DEF r, asked, context
  <1>7. /\ r.input = asked[w]
        /\ r.seed = I!InputSeed(b, context, name)
        /\ r.prefix_seed = I!PrefixSeed(b, context, name)
        /\ r.tokens = b.inputs[name].tokens
        /\ r.prefix_tokens = b.inputs[name].prefix_tokens
        /\ r.mode = b.inputs[name].mode
    BY <1>4
  <1>8. /\ r.repeat_count = b.inputs[name].repeat_count
        /\ r.dataset = b.inputs[name].dataset
        /\ r.tokenizer = b.tokenizer /\ r.probe = b.probe
        /\ b.probe = Unset => r.index = I!NamedIndex(asked, w)
    BY <1>4
  <1>9. /\ r.calibrated = (b.estimate /\ b.probe = Unset)
        /\ r.atomic = I!Atomic(context)
    BY <1>4, Zenon
  <1>10. r.calibrated => r.probe = Unset
    BY <1>8, <1>9, Zenon
  <1> QED  BY <1>2, <1>3, <1>4, <1>5, <1>6, <1>7, <1>8, <1>9, <1>10 DEF r, asked, context

LEMMA PlansAreSized ==
    /\ Sized(I!PlanEntries)
    /\ \A r \in I!Recipes : /\ r.prefix_tokens \in Nat
                            /\ I!NewPlan(r, I!CalibrateCorpus(r)) \in I!PlanEntries
  <1>1. \A r \in I!Recipes : r.prefix_tokens \in Nat
    <2> TAKE r \in I!Recipes
    <2>1. PICK b \in I!Benchmarks : \E w \in DOMAIN I!RequestInputs(b) : r = I!WorkerSteps(b)[w]
      BY DEF I!Recipes
    <2> QED  BY <2>1, RecipeOf
  <1>2. \A r \in I!Recipes : I!NewPlan(r, I!CalibrateCorpus(r)) \in I!PlanEntries
    BY DEF I!PlanEntries
  <1>3. Sized(I!PlanEntries)
    <2> SUFFICES ASSUME NEW e \in I!PlanEntries PROVE e.bytes \in Int
      BY DEF Sized
    <2>1. PICK r \in I!Recipes : e = I!NewPlan(r, I!CalibrateCorpus(r))
      BY DEF I!PlanEntries
    <2> QED  BY <1>1, <2>1 DEF I!NewPlan
  <1> QED  BY <1>1, <1>2, <1>3

\* The bounds of the plans of an actor, with prefix_bytes.
PlansInBounds(s, bytes) ==
    /\ Len(s) <= MaxPlans /\ bytes = I!Bytes(s)
    /\ bytes <= MaxPrefixBytes \/ Len(s) = 1

\* A plan is there once it was asked for, and the caches are within their bounds.
LEMMA WithPlanOf ==
    ASSUME NEW s \in Seq(I!PlanEntries), NEW bytes, PlansInBounds(s, bytes),
           NEW r \in I!Recipes
    PROVE  LET after == I!WithPlan(s, bytes, r, I!CalibrateCorpus(r)) IN
           /\ after.plans \in Seq(I!PlanEntries) /\ after.bytes \in Int
           /\ PlansInBounds(after.plans, after.bytes)
           /\ I!Entry(after.plans, I!PlanKey(r)).prefix = I!Calibrate(r, I!CalibrateCorpus(r))
  <1> DEFINE X == I!PlanEntries
             key == I!PlanKey(r)
             new == I!NewPlan(r, I!CalibrateCorpus(r))
             grown == Append(s, new)
             more == bytes + r.prefix_tokens
             k == I!Evictions(grown, more)
             after == I!WithPlan(s, bytes, r, I!CalibrateCorpus(r))
             n == Len(after.plans)
  <1>1. /\ new \in X /\ new.key = key /\ new.bytes = r.prefix_tokens /\ r.prefix_tokens \in Nat
        /\ Sized(X)
    BY PlansAreSized DEF I!NewPlan
  <1>2. Len(s) \in Nat /\ MaxPlans \in Nat \ {0} /\ bytes \in Int /\ MaxPrefixBytes \in Nat
    BY <1>1, BytesOf, PromptsAssumption DEF PlansInBounds
  <1>3. after = IF key \in I!Keys(s) THEN [plans |-> I!MoveToEnd(s, key), bytes |-> bytes]
                ELSE [plans |-> SubSeq(grown, k + 1, Len(grown)),
                      bytes |-> I!BytesWithout(grown, more, k)]
    BY Zenon DEF I!WithPlan
  <1>4. \A e \in X : e.key = key => e.prefix = I!Calibrate(r, I!CalibrateCorpus(r))
    <2> TAKE e \in X
    <2>1. PICK q \in I!Recipes : e = I!NewPlan(q, I!CalibrateCorpus(q))
      BY DEF I!PlanEntries
    <2> HAVE e.key = key
    <2>2. I!PlanKey(q) = I!PlanKey(r) /\ e.prefix = I!Calibrate(q, I!CalibrateCorpus(q))
      BY <2>1 DEF I!NewPlan
    <2>3. /\ (IF q.prefix_seed # Unset THEN q.prefix_seed ELSE q.seed)
                = (IF r.prefix_seed # Unset THEN r.prefix_seed ELSE r.seed)
          /\ q.prefix_tokens = r.prefix_tokens
          /\ q.dataset = r.dataset /\ q.tokenizer = r.tokenizer
      BY <2>2 DEF I!PlanKey
    <2> QED  BY <2>2, <2>3 DEF I!Calibrate, I!CalibrateCorpus
  <1> HIDE DEF X, key, new, after
  <1>5. /\ after.plans \in Seq(X) /\ n \in Nat \ {0} /\ after.plans[n] \in X
        /\ after.plans[n].key = key
        /\ after.bytes = I!Bytes(after.plans)
        /\ n <= MaxPlans /\ (after.bytes <= MaxPrefixBytes \/ n = 1)
    <2>1. CASE key \in I!Keys(s)
      <3> DEFINE t == I!MoveToEnd(s, key)
      <3>1. after.plans = t /\ after.bytes = bytes
        BY <1>3, <2>1
      <3>2. /\ t \in Seq(X) /\ Len(t) = Len(s) /\ Len(s) \in Nat \ {0}
            /\ t[Len(s)] \in X /\ t[Len(s)].key = key /\ I!Bytes(t) = I!Bytes(s)
        BY <1>1, <2>1, MoveToEndOf DEF X
      <3> HIDE DEF t
      <3> QED  BY <3>1, <3>2 DEF PlansInBounds
    <2>2. CASE key \notin I!Keys(s)
      <3> DEFINE t == SubSeq(grown, k + 1, Len(grown))
      <3>1. after.plans = t /\ after.bytes = I!BytesWithout(grown, more, k)
        BY <1>3, <2>2
      <3>2. /\ grown \in Seq(X) /\ Len(grown) = Len(s) + 1 /\ grown[Len(grown)] = new
            /\ I!Bytes(grown) = more
        BY <1>1, AppendProperties, BytesAppend DEF X, PlansInBounds
      <3> HIDE DEF grown, more
      <3>3. Len(grown) # 0 /\ Len(grown) \in Nat
        BY <1>2, <3>2
      <3>4. k \in 0..(Len(grown) - 1) /\ I!Fits(grown, more, k)
        BY <3>2, <3>3, EvictionsOf
      <3> HIDE DEF k
      <3>5. /\ t \in Seq(X) /\ Len(t) = Len(grown) - k /\ Len(t) \in Nat \ {0}
            /\ t[Len(t)] = new
        BY <3>2, <3>4, WithoutOldest
      <3>6. I!Bytes(grown) = I!Bytes(SubSeq(grown, 1, k)) + I!Bytes(t)
        <4>1. k \in 0..Len(grown)
          BY <3>3, <3>4
        <4> QED  BY <1>1, <3>2, <4>1, BytesSplit
      <3>7. I!BytesWithout(grown, more, k) = I!Bytes(t)
        <4>1. SubSeq(grown, 1, k) \in Seq(X)
          <5>1. 1 \in 1..(Len(grown) + 1) /\ k \in 0..Len(grown)
            BY <3>3, <3>4
          <5> QED  BY <3>2, <5>1, PartOf
        <4>2. I!Bytes(SubSeq(grown, 1, k)) \in Int /\ I!Bytes(t) \in Int
          BY <1>1, <3>5, <4>1, BytesOf
        <4>3. I!BytesWithout(grown, more, k) = more - I!Bytes(SubSeq(grown, 1, k))
          BY DEF I!BytesWithout
        <4> HIDE DEF t
        <4> QED  BY <3>2, <3>6, <4>2, <4>3
      <3>8. Len(t) <= MaxPlans /\ (I!BytesWithout(grown, more, k) <= MaxPrefixBytes \/ Len(t) = 1)
        <4>1. CASE k = Len(grown) - 1
          <5>1. Len(t) = 1
            BY <3>3, <3>5, <4>1
          <5> HIDE DEF t
          <5> QED  BY <1>2, <5>1
        <4>2. CASE k # Len(grown) - 1
          <5>1. Len(grown) - k <= MaxPlans /\ I!BytesWithout(grown, more, k) <= MaxPrefixBytes
            BY <3>4, <4>2 DEF I!Fits
          <5> HIDE DEF t
          <5> QED  BY <3>5, <5>1
        <4> QED  BY <4>1, <4>2
      <3> HIDE DEF t
      <3> QED  BY <1>1, <3>1, <3>5, <3>7, <3>8
    <2> QED  BY <2>1, <2>2
  <1>6. key \in I!Keys(after.plans)
    <2>1. n \in 1..Len(after.plans)
      BY <1>5
    <2> QED  BY <1>5, <2>1, KeyOf
  <1>7. I!Entry(after.plans, key) \in X /\ I!Entry(after.plans, key).key = key
    BY <1>5, <1>6, PlaceOf
  <1>8. I!Entry(after.plans, key).prefix = I!Calibrate(r, I!CalibrateCorpus(r))
    BY <1>4, <1>7
  <1>9. after.bytes \in Int
    BY <1>1, <1>5, BytesOf
  <1>10. PlansInBounds(after.plans, after.bytes)
    BY <1>5 DEF PlansInBounds
  <1> QED  BY <1>5, <1>8, <1>9, <1>10 DEF X, key, after

\* The prompt that prepare makes of a recipe, with these calibrations and this entry.
LEMMA PreparedAlone ==
    ASSUME NEW r, NEW calibration, NEW prefix,
           calibration = IF r.calibrated THEN I!CalibrateCorpus(r) ELSE Unset,
           r.calibrated => r.probe = Unset
    PROVE  /\ r.text # Unset => I!Alone(r) = I!Literal(r.text)
           /\ I!Planned(r) /\ prefix = I!Calibrate(r, I!CalibrateCorpus(r)) =>
                I!Alone(r) = I!ProbePrompt(r, I!RenderChunk(r, prefix))
           /\ r.text = Unset /\ ~I!Planned(r) =>
                I!Alone(r) = I!ProbePrompt(r, I!PreparePromptRequests(r, calibration))
  <1>1. r.text # Unset => I!Alone(r) = I!Literal(r.text)
    BY Zenon DEF I!Alone
  <1>2. ASSUME I!Planned(r), prefix = I!Calibrate(r, I!CalibrateCorpus(r))
        PROVE  I!Alone(r) = I!ProbePrompt(r, I!RenderChunk(r, prefix))
    <2>1. r.calibrated /\ r.text = Unset /\ r.probe = Unset
      BY <1>2 DEF I!Planned
    <2>2. I!Alone(r) = I!RenderChunk(r, prefix)
      BY <1>2, <2>1, Zenon DEF I!Alone
    <2>3. I!ProbePrompt(r, I!RenderChunk(r, prefix)) = I!RenderChunk(r, prefix)
      BY <2>1, Zenon DEF I!ProbePrompt
    <2> QED  BY <2>2, <2>3
  <1>3. ASSUME r.text = Unset, ~I!Planned(r)
        PROVE  I!Alone(r) = I!ProbePrompt(r, I!PreparePromptRequests(r, calibration))
    BY <1>3, Zenon DEF I!Alone
  <1> QED  BY <1>1, <1>2, <1>3

-----------------------------------------------------------------------------
(* Prompts: the invariant.                                                 *)

LEMMA PromptsInit ==
    ASSUME I!Init
    PROVE  I!PromptsInvariant
  <1>1. Len(<<>>) = 0 /\ <<>> \in Seq(I!CalibrationEntries) /\ <<>> \in Seq(I!PlanEntries)
    BY EmptySeq
  <1>2. MaxCalibrations \in Nat /\ MaxPlans \in Nat /\ MaxPrefixBytes \in Nat
    BY PromptsAssumption
  <1>3. /\ benchmarks \in Programs
        /\ calibrations = [a \in Actors |-> <<>>] /\ promptPlans = [a \in Actors |-> <<>>]
        /\ prefixBytes = [a \in Actors |-> 0]
        /\ prompt = [i \in DOMAIN benchmarks |->
                        [w \in DOMAIN I!RequestInputs(benchmarks[i]) |-> Unset]]
    BY DEF I!Init
  <1>4. /\ \A i \in DOMAIN prompt : \A w \in DOMAIN prompt[i] : prompt[i][w] = Unset
        /\ prompt = [i \in DOMAIN benchmarks |->
                        [w \in DOMAIN I!RequestInputs(benchmarks[i]) |-> prompt[i][w]]]
    BY <1>3
  <1>5. \A a \in Actors :
            /\ Len(calibrations[a]) <= MaxCalibrations /\ Len(promptPlans[a]) <= MaxPlans
            /\ prefixBytes[a] = I!Bytes(promptPlans[a])
            /\ prefixBytes[a] <= MaxPrefixBytes \/ Len(promptPlans[a]) = 1
    BY <1>1, <1>2, <1>3, BytesOfNone
  <1>6. /\ calibrations \in [Actors -> Seq(I!CalibrationEntries)]
        /\ promptPlans \in [Actors -> Seq(I!PlanEntries)] /\ prefixBytes \in [Actors -> Int]
    BY <1>1, <1>3
  <1> QED  BY <1>3, <1>4, <1>5, <1>6 DEF I!PromptsInvariant, I!PromptsAreReproducible

LEMMA PrepareStep ==
    ASSUME I!PromptsInvariant, NEW a \in Actors, NEW i \in DOMAIN benchmarks,
           NEW w \in DOMAIN prompt[i], I!Prepare(a, i, w)
    PROVE  I!PromptsInvariant'
  <1> DEFINE r == I!WorkerSteps(benchmarks[i])[w]
             known == IF r.calibrated THEN I!Calibrated(calibrations[a], r) ELSE calibrations[a]
             calibration == IF r.calibrated THEN I!Entry(known, I!CalibrationKey(r)).ratio
                            ELSE Unset
             after == I!WithPlan(promptPlans[a], prefixBytes[a], r, calibration)
             given == [prompt EXCEPT ![i][w] = I!Alone(r)]
  <1>1. /\ benchmarks \in Programs
        /\ prompt = [j \in DOMAIN benchmarks |->
                        [v \in DOMAIN I!RequestInputs(benchmarks[j]) |-> prompt[j][v]]]
        /\ calibrations \in [Actors -> Seq(I!CalibrationEntries)]
        /\ promptPlans \in [Actors -> Seq(I!PlanEntries)] /\ prefixBytes \in [Actors -> Int]
    BY DEF I!PromptsInvariant
  <1>2. /\ \A j \in DOMAIN prompt : \A v \in DOMAIN prompt[j] :
                prompt[j][v] # Unset => prompt[j][v] = I!Alone(I!WorkerSteps(benchmarks[j])[v])
        /\ \A b \in Actors : /\ Len(calibrations[b]) <= MaxCalibrations
                             /\ PlansInBounds(promptPlans[b], prefixBytes[b])
    BY DEF I!PromptsInvariant, I!PromptsAreReproducible, PlansInBounds
  <1>3. benchmarks[i] \in I!Benchmarks
    BY <1>1 DEF I!Benchmarks
  <1>4. w \in DOMAIN I!RequestInputs(benchmarks[i])
    BY <1>1
  <1>5. r \in I!Recipes /\ (r.calibrated => r.probe = Unset)
    <2> HIDE DEF r
    <2> DEFINE b == benchmarks[i]
    <2>1. b \in I!Benchmarks /\ w \in DOMAIN I!RequestInputs(b)
      BY <1>3, <1>4
    <2>2. r = I!WorkerSteps(b)[w]
      BY DEF r
    <2> HIDE DEF b
    <2>3. I!WorkerSteps(b)[w] \in I!Recipes
      BY <2>1, RecipeOf
    <2>4. I!WorkerSteps(b)[w].calibrated => I!WorkerSteps(b)[w].probe = Unset
      BY <2>1, RecipeOf
    <2> QED  BY <2>2, <2>3, <2>4
  <1>6. /\ calibrations' = [calibrations EXCEPT ![a] = known]
        /\ benchmarks' = benchmarks
        /\ \/ /\ r.text # Unset
              /\ prompt' = [prompt EXCEPT ![i][w] = I!Literal(r.text)]
              /\ promptPlans' = promptPlans /\ prefixBytes' = prefixBytes
           \/ /\ I!Planned(r)
              /\ promptPlans' = [promptPlans EXCEPT ![a] = after.plans]
              /\ prefixBytes' = [prefixBytes EXCEPT ![a] = after.bytes]
              /\ prompt' = [prompt EXCEPT ![i][w] =
                    I!ProbePrompt(r, I!RenderChunk(r, I!Entry(after.plans, I!PlanKey(r)).prefix))]
           \/ /\ r.text = Unset /\ ~I!Planned(r)
              /\ prompt' = [prompt EXCEPT ![i][w] =
                    I!ProbePrompt(r, I!PreparePromptRequests(r, calibration))]
              /\ promptPlans' = promptPlans /\ prefixBytes' = prefixBytes
    BY Zenon DEF I!Prepare
  <1> HIDE DEF r, after
  <1>7. /\ known \in Seq(I!CalibrationEntries) /\ Len(known) <= MaxCalibrations
        /\ calibration = IF r.calibrated THEN I!CalibrateCorpus(r) ELSE Unset
    <2>1. calibrations[a] \in Seq(I!CalibrationEntries) /\ Len(calibrations[a]) <= MaxCalibrations
      BY <1>1, <1>2
    <2>2. CASE r.calibrated
      BY <1>5, <2>1, <2>2, CalibratedOf
    <2>3. CASE ~r.calibrated
      BY <2>1, <2>3
    <2> QED  BY <2>2, <2>3
  <1> HIDE DEF known, calibration
  <1>8. /\ benchmarks' = benchmarks /\ prompt' = given
        /\ promptPlans' \in [Actors -> Seq(I!PlanEntries)] /\ prefixBytes' \in [Actors -> Int]
        /\ \A b \in Actors : PlansInBounds(promptPlans'[b], prefixBytes'[b])
    <2>1. CASE r.text # Unset
      <3>1. ~I!Planned(r) /\ ~(r.text = Unset)
        BY <2>1 DEF I!Planned
      <3>2. I!Alone(r) = I!Literal(r.text)
        BY <1>5, <1>7, <2>1, PreparedAlone
      <3> QED  BY <1>1, <1>2, <1>6, <3>1, <3>2
    <2>2. CASE I!Planned(r)
      <3>1. r.calibrated /\ r.text = Unset
        BY <2>2 DEF I!Planned
      <3>2. calibration = I!CalibrateCorpus(r)
        BY <1>7, <3>1
      <3>3. promptPlans[a] \in Seq(I!PlanEntries) /\ PlansInBounds(promptPlans[a], prefixBytes[a])
        BY <1>1, <1>2
      <3>4. /\ after.plans \in Seq(I!PlanEntries) /\ after.bytes \in Int
            /\ PlansInBounds(after.plans, after.bytes)
            /\ I!Entry(after.plans, I!PlanKey(r)).prefix = I!Calibrate(r, I!CalibrateCorpus(r))
        BY <1>5, <3>2, <3>3, WithPlanOf DEF after
      <3>5. I!Alone(r) =
                I!ProbePrompt(r, I!RenderChunk(r, I!Entry(after.plans, I!PlanKey(r)).prefix))
        BY <1>5, <1>7, <2>2, <3>4, PreparedAlone
      <3>6. /\ promptPlans' = [promptPlans EXCEPT ![a] = after.plans]
            /\ prefixBytes' = [prefixBytes EXCEPT ![a] = after.bytes] /\ prompt' = given
        BY <1>6, <2>2, <3>1, <3>5
      <3> HIDE DEF given
      <3>7. \A b \in Actors : PlansInBounds(promptPlans'[b], prefixBytes'[b])
        <4> TAKE b \in Actors
        <4>1. CASE b = a
          BY <1>1, <3>4, <3>6, <4>1
        <4>2. CASE b # a
          BY <1>1, <1>2, <3>6, <4>2
        <4> QED  BY <4>1, <4>2
      <3> QED  BY <1>1, <1>6, <3>4, <3>6, <3>7
    <2>3. CASE r.text = Unset /\ ~I!Planned(r)
      <3>1. I!Alone(r) = I!ProbePrompt(r, I!PreparePromptRequests(r, calibration))
        BY <1>5, <1>7, <2>3, PreparedAlone
      <3> QED  BY <1>1, <1>2, <1>6, <2>3, <3>1
    <2> QED  BY <1>6, <2>1, <2>2, <2>3
  <1>9. calibrations' \in [Actors -> Seq(I!CalibrationEntries)]
        /\ \A b \in Actors : Len(calibrations'[b]) <= MaxCalibrations
    BY <1>1, <1>2, <1>6, <1>7
  <1>10. prompt' = [j \in DOMAIN benchmarks' |->
                        [v \in DOMAIN I!RequestInputs(benchmarks'[j]) |-> prompt'[j][v]]]
    <2>1. given = [j \in DOMAIN benchmarks |->
                        [v \in DOMAIN I!RequestInputs(benchmarks[j]) |-> given[j][v]]]
      BY <1>1
    <2> HIDE DEF given
    <2> QED  BY <1>8, <2>1
  <1>11. ASSUME NEW j \in DOMAIN prompt', NEW v \in DOMAIN prompt'[j], prompt'[j][v] # Unset
         PROVE  prompt'[j][v] = I!Alone(I!WorkerSteps(benchmarks'[j])[v])
    <2>1. j \in DOMAIN prompt /\ v \in DOMAIN prompt[j]
      BY <1>8, <1>11
    <2>2. CASE j = i /\ v = w
      BY <1>8, <2>1, <2>2 DEF r
    <2>3. CASE ~(j = i /\ v = w)
      <3>1. prompt'[j][v] = prompt[j][v]
        BY <1>8, <2>1, <2>3
      <3> QED  BY <1>2, <1>8, <1>11, <2>1, <3>1
    <2> QED  BY <2>2, <2>3
  <1>12. I!PromptsAreReproducible'
    BY <1>8, <1>9, <1>11 DEF I!PromptsAreReproducible, PlansInBounds
  <1> QED  BY <1>1, <1>8, <1>9, <1>10, <1>12 DEF I!PromptsInvariant

LEMMA RestartStep ==
    ASSUME I!PromptsInvariant, NEW a \in Actors, I!RestartActor(a)
    PROVE  I!PromptsInvariant'
  <1>1. <<>> \in Seq(I!CalibrationEntries) /\ <<>> \in Seq(I!PlanEntries) /\ Len(<<>>) = 0
    BY EmptySeq
  <1>2. MaxCalibrations \in Nat /\ MaxPlans \in Nat /\ MaxPrefixBytes \in Nat
    BY PromptsAssumption
  <1>3. /\ calibrations' = [calibrations EXCEPT ![a] = <<>>]
        /\ promptPlans' = [promptPlans EXCEPT ![a] = <<>>]
        /\ prefixBytes' = [prefixBytes EXCEPT ![a] = 0]
        /\ benchmarks' = benchmarks /\ prompt' = prompt
    BY DEF I!RestartActor
  <1>4. /\ calibrations \in [Actors -> Seq(I!CalibrationEntries)]
        /\ promptPlans \in [Actors -> Seq(I!PlanEntries)] /\ prefixBytes \in [Actors -> Int]
    BY DEF I!PromptsInvariant
  <1>5. /\ calibrations' \in [Actors -> Seq(I!CalibrationEntries)]
        /\ promptPlans' \in [Actors -> Seq(I!PlanEntries)] /\ prefixBytes' \in [Actors -> Int]
    BY <1>1, <1>3, <1>4
  <1>6. ASSUME NEW b \in Actors
        PROVE  /\ Len(calibrations'[b]) <= MaxCalibrations /\ Len(promptPlans'[b]) <= MaxPlans
               /\ prefixBytes'[b] = I!Bytes(promptPlans'[b])
               /\ prefixBytes'[b] <= MaxPrefixBytes \/ Len(promptPlans'[b]) = 1
    <2>1. CASE b = a
      BY <1>1, <1>2, <1>3, <1>4, <2>1, BytesOfNone
    <2>2. CASE b # a
      BY <1>3, <1>4, <2>2 DEF I!PromptsInvariant, I!PromptsAreReproducible
    <2> QED  BY <2>1, <2>2
  <1> QED  BY <1>3, <1>5, <1>6 DEF I!PromptsInvariant, I!PromptsAreReproducible

LEMMA PromptsStep ==
    ASSUME I!PromptsInvariant, I!Next \/ UNCHANGED promptVars
    PROVE  I!PromptsInvariant'
  <1>1. CASE I!Next
    BY <1>1, RestartStep, PrepareStep DEF I!Next
  <1>2. CASE UNCHANGED promptVars
    BY <1>2 DEF promptVars, I!PromptsInvariant, I!PromptsAreReproducible
  <1> QED  BY <1>1, <1>2

-----------------------------------------------------------------------------
(* Prompts: which Workers get the same.                                    *)

LEMMA PromptsCount == \A s : I!Cardinality(s) = Cardinality(s)
  BY Zenon DEF I!Cardinality, Cardinality

LEMMA NamedIndexIsANumber ==
    ASSUME NEW asked, NEW i \in Int
    PROVE  I!NamedIndex(asked, i) \in Nat
  <1> DEFINE before == {j \in 1..(i - 1) : asked[j] = asked[i]}
  <1>1. before \in SUBSET (1..(i - 1))
    OBVIOUS
  <1>2. i - 1 \in Int /\ 1 \in Int
    OBVIOUS
  <1>3. IsFiniteSet(before)
    BY <1>1, <1>2, FS_Interval, FS_Subset
  <1>4. I!NamedIndex(asked, i) = Cardinality(before)
    BY PromptsCount DEF I!NamedIndex
  <1> HIDE DEF before
  <1> QED  BY <1>3, <1>4, FS_CardinalityType

\* A request of its probe that is not sent as it was first sent.
Changed(r) == IF r.probe = Unset \/ r.occurrence = 0 \/ r.probe.exact THEN FALSE ELSE TRUE

\* The prefix and the seed that a generated prompt is made with.
Calibration(r) == IF r.calibrated THEN I!CalibrateCorpus(r) ELSE Unset
Prefix(r) == I!Calibrate(r, Calibration(r))
Evidence(r) == IF I!Planned(r) THEN <<r.seed, r.index>> ELSE I!RequestSeed(r)

\* The prompt of a recipe, before a token of it is replaced.
Base(r) ==
    IF I!Planned(r) THEN I!RenderChunk(r, Prefix(r)) ELSE I!PreparePromptRequests(r, Calibration(r))

LEMMA AloneIsOfBase ==
    ASSUME NEW r, r.text = Unset, r.calibrated => r.probe = Unset
    PROVE  I!Alone(r) = I!ProbePrompt(r, Base(r))
  <1>1. CASE I!Planned(r)
    <2>1. r.calibrated
      BY <1>1 DEF I!Planned
    <2>2. Prefix(r) = I!Calibrate(r, I!CalibrateCorpus(r))
      BY <2>1, Zenon DEF Prefix, Calibration
    <2>3. I!Alone(r) = I!ProbePrompt(r, I!RenderChunk(r, Prefix(r)))
      <3>1. Calibration(r) = IF r.calibrated THEN I!CalibrateCorpus(r) ELSE Unset
        BY Zenon DEF Calibration
      <3> QED  BY <1>1, <2>2, <3>1, PreparedAlone
    <2> QED  BY <1>1, <2>3, Zenon DEF Base
  <1>2. CASE ~I!Planned(r)
    <2>1. Calibration(r) = IF r.calibrated THEN I!CalibrateCorpus(r) ELSE Unset
      BY Zenon DEF Calibration
    <2>2. I!Alone(r) = I!ProbePrompt(r, I!PreparePromptRequests(r, Calibration(r)))
      BY <1>2, <2>1, PreparedAlone
    <2> QED  BY <1>2, <2>2, Zenon DEF Base
  <1> QED  BY <1>1, <1>2

LEMMA BaseIs ==
    ASSUME NEW r
    PROVE  \E x, y, z :
                /\ Base(r) = [prefix |-> x, body |-> y, tokens |-> z, seed |-> Evidence(r),
                              changed |-> FALSE]
                /\ I!EffectiveMode(r) = "concatenate" => x = Prefix(r)
  <1>1. CASE I!Planned(r)
    <2>1. Base(r) = I!RenderChunk(r, Prefix(r)) /\ Evidence(r) = <<r.seed, r.index>>
      BY <1>1, Zenon DEF Base, Evidence
    <2>2. Base(r) = [prefix |-> Prefix(r), body |-> <<r.seed, r.index>>, tokens |-> r.tokens,
                     seed |-> Evidence(r), changed |-> FALSE]
      BY <2>1, Zenon DEF I!RenderChunk
    <2> QED  BY <2>2, Zenon
  <1>2. CASE ~I!Planned(r)
    <2>1. /\ Base(r) = I!PreparePromptRequests(r, Calibration(r))
          /\ Evidence(r) = I!RequestSeed(r)
      BY <1>2, Zenon DEF Base, Evidence
    <2>2. CASE I!EffectiveMode(r) = "sample"
      <3>1. Base(r) = I!SamplePromptRequests(r)
        BY <2>1, <2>2, Zenon DEF I!PreparePromptRequests
      <3>2. Base(r) = [prefix |-> Unset,
                       body |-> DrawRecord(I!RequestSeed(r), r.dataset, r.tokens),
                       tokens |-> Unset, seed |-> Evidence(r), changed |-> FALSE]
        BY <2>1, <3>1, Zenon DEF I!SamplePromptRequests
      <3>3. "sample" # "concatenate"
        OBVIOUS
      <3> QED  BY <2>2, <3>2, <3>3, Zenon
    <2>3. CASE I!EffectiveMode(r) # "sample"
      <3>1. Base(r) = I!ConcatenatePromptRequests(r, Calibration(r))
        BY <2>1, <2>3, Zenon DEF I!PreparePromptRequests
      <3>2. Base(r) = [prefix |-> Prefix(r), body |-> I!RequestSeed(r), tokens |-> r.tokens,
                       seed |-> Evidence(r), changed |-> FALSE]
        BY <2>1, <3>1, Zenon DEF I!ConcatenatePromptRequests, Prefix, I!Calibrate
      <3> QED  BY <3>2, Zenon
    <2> QED  BY <2>2, <2>3
  <1> QED  BY <1>1, <1>2

\* The evidence and the prefix of a generated prompt.
LEMMA AloneIs ==
    ASSUME NEW r, r.text = Unset, r.calibrated => r.probe = Unset
    PROVE  /\ I!Alone(r).seed = Evidence(r) /\ I!Alone(r).changed = Changed(r)
           /\ I!EffectiveMode(r) = "concatenate" => I!Alone(r).prefix = Prefix(r)
  <1>1. PICK x, y, z :
            /\ Base(r) = [prefix |-> x, body |-> y, tokens |-> z, seed |-> Evidence(r),
                          changed |-> FALSE]
            /\ I!EffectiveMode(r) = "concatenate" => x = Prefix(r)
    BY BaseIs
  <1> DEFINE base == Base(r)
  <1>2. base.prefix = x /\ base.seed = Evidence(r) /\ base.changed = FALSE
    BY <1>1
  <1>3. /\ [base EXCEPT !.changed = TRUE].prefix = x
        /\ [base EXCEPT !.changed = TRUE].seed = Evidence(r)
        /\ [base EXCEPT !.changed = TRUE].changed = TRUE
    <2>1. \A d : LET c == [prefix |-> x, body |-> y, tokens |-> z, seed |-> d, changed |-> FALSE]
                 IN /\ [c EXCEPT !.changed = TRUE].prefix = x
                    /\ [c EXCEPT !.changed = TRUE].seed = d
                    /\ [c EXCEPT !.changed = TRUE].changed = TRUE
      OBVIOUS
    <2> QED  BY <1>1, <2>1
  <1>4. I!Alone(r) = IF r.probe = Unset \/ r.occurrence = 0 \/ r.probe.exact THEN base
                     ELSE [base EXCEPT !.changed = TRUE]
    BY AloneIsOfBase, Zenon DEF I!ProbePrompt
  <1> HIDE DEF base
  <1>5. CASE r.probe = Unset \/ r.occurrence = 0 \/ r.probe.exact
    <2>1. I!Alone(r) = base /\ Changed(r) = FALSE
      BY <1>4, <1>5, Zenon DEF Changed
    <2> QED  BY <1>1, <1>2, <2>1
  <1>6. CASE ~(r.probe = Unset \/ r.occurrence = 0 \/ r.probe.exact)
    <2>1. I!Alone(r) = [base EXCEPT !.changed = TRUE] /\ Changed(r) = TRUE
      BY <1>4, <1>6, Zenon DEF Changed
    <2> QED  BY <1>1, <1>3, <2>1
  <1> QED  BY <1>5, <1>6

-----------------------------------------------------------------------------
(* The recipes of one benchmark.                                           *)

\* The contexts of a benchmark are alike, but for payloads and texts.
LEMMA ContextsAlike ==
    ASSUME NEW b \in I!Benchmarks, NEW v \in DOMAIN I!RequestInputs(b),
           NEW w \in DOMAIN I!RequestInputs(b)
    PROVE  /\ I!Atomic(I!Context(b, v)) <=> I!Atomic(I!Context(b, w))
           /\ I!Context(b, v).explicit_prefix <=> I!Context(b, w).explicit_prefix
           /\ DOMAIN b.seed = {1}
           /\ I!Atomic(I!Context(b, v)) => DOMAIN I!Context(b, v).payload_seed = {1}
  <1>1. PICK p \in Programs : \E i \in DOMAIN p : b = p[i]
    BY DEF I!Benchmarks
  <1>2. /\ DOMAIN b.seed = {1}
        /\ b.context.payload_seed # Unset => DOMAIN b.context.payload_seed = {1}
    BY <1>1, PromptsAssumption
  <1>3. b.contexts # <<>> =>
            /\ b.probe = Unset /\ DOMAIN b.contexts = DOMAIN b.requests
            /\ \A k \in DOMAIN b.contexts :
                /\ b.contexts[k].payload_seed # Unset /\ ~b.contexts[k].explicit_prefix
                /\ DOMAIN b.contexts[k].payload_seed = {1}
    BY <1>1, PromptsAssumption
  <1>4. CASE b.contexts = <<>>
    <2>1. I!Context(b, v) = b.context /\ I!Context(b, w) = b.context
      BY <1>4, Zenon DEF I!Context
    <2> QED  BY <1>2, <2>1 DEF I!Atomic
  <1>5. CASE b.contexts # <<>>
    <2>1. I!Context(b, v) = b.contexts[v] /\ I!Context(b, w) = b.contexts[w]
      BY <1>5, Zenon DEF I!Context
    <2>2. v \in DOMAIN b.contexts /\ w \in DOMAIN b.contexts
      <3>1. I!RequestInputs(b) = b.requests
        BY <1>3, <1>5, Zenon DEF I!RequestInputs
      <3> QED  BY <1>3, <1>5, <3>1
    <2> QED  BY <1>2, <1>3, <1>5, <2>1, <2>2 DEF I!Atomic
  <1> QED  BY <1>4, <1>5

\* Inputs have different seeds.
LEMMA SeedsDiffer ==
    ASSUME NEW b, NEW c, NEW d, NEW n, NEW m,
           DOMAIN b.seed = {1},
           I!Atomic(c) => DOMAIN c.payload_seed = {1}, I!Atomic(d) => DOMAIN d.payload_seed = {1},
           I!InputSeed(b, c, n) = I!InputSeed(b, d, m)
    PROVE  n = m
  <1> DEFINE first(x) == IF I!Atomic(x) THEN x.payload_seed ELSE b.seed
  <1>1. DOMAIN first(c) = {1} /\ DOMAIN first(d) = {1}
    OBVIOUS
  <1>2. /\ I!InputSeed(b, c, n) = IF n = "default" THEN first(c)
                                  ELSE <<first(c), b.inputs[n].seed, n>>
        /\ I!InputSeed(b, d, m) = IF m = "default" THEN first(d)
                                  ELSE <<first(d), b.inputs[m].seed, m>>
    BY Zenon DEF I!InputSeed
  <1> HIDE DEF first
  <1>3. CASE n = "default" /\ m = "default"
    BY <1>3
  <1>4. CASE n = "default" /\ m # "default"
    <2>1. first(c) = <<first(d), b.inputs[m].seed, m>>
      BY <1>2, <1>4
    <2>2. 3 \in DOMAIN <<first(d), b.inputs[m].seed, m>>
      OBVIOUS
    <2> QED  BY <1>1, <2>1, <2>2
  <1>5. CASE n # "default" /\ m = "default"
    <2>1. first(d) = <<first(c), b.inputs[n].seed, n>>
      BY <1>2, <1>5
    <2>2. 3 \in DOMAIN <<first(c), b.inputs[n].seed, n>>
      OBVIOUS
    <2> QED  BY <1>1, <2>1, <2>2
  <1>6. CASE n # "default" /\ m # "default"
    <2>1. <<first(c), b.inputs[n].seed, n>> = <<first(d), b.inputs[m].seed, m>>
      BY <1>2, <1>6
    <2> QED  BY <2>1
  <1> QED  BY <1>3, <1>4, <1>5, <1>6

\* The seed of an input has one part or three.
LEMMA SeedIsNoPair ==
    ASSUME NEW b, NEW c, NEW n, DOMAIN b.seed = {1},
           I!Atomic(c) => DOMAIN c.payload_seed = {1}
    PROVE  \A x, y : I!InputSeed(b, c, n) # <<x, y>>
  <1> DEFINE first == IF I!Atomic(c) THEN c.payload_seed ELSE b.seed
  <1>1. DOMAIN first = {1}
    OBVIOUS
  <1>2. I!InputSeed(b, c, n) = IF n = "default" THEN first ELSE <<first, b.inputs[n].seed, n>>
    BY Zenon DEF I!InputSeed
  <1> HIDE DEF first
  <1> TAKE x, y
  <1>3. DOMAIN <<x, y>> = 1..2 /\ 2 \in 1..2 /\ 3 \notin 1..2
    OBVIOUS
  <1>4. CASE n = "default"
    BY <1>1, <1>2, <1>3, <1>4
  <1>5. CASE n # "default"
    <2>1. 3 \in DOMAIN <<first, b.inputs[n].seed, n>>
      OBVIOUS
    <2> QED  BY <1>2, <1>3, <1>5, <2>1
  <1> QED  BY <1>4, <1>5

\* Recipes for one input differ in their place and, with payloads, their seed.
AlikeFor(r, s) ==
    /\ r.probe = s.probe /\ (r.atomic <=> s.atomic) /\ (r.calibrated <=> s.calibrated)
    /\ r.calibrated => r.probe = Unset
    /\ r.input = s.input =>
        /\ r.prefix_seed = s.prefix_seed /\ r.tokens = s.tokens
        /\ r.prefix_tokens = s.prefix_tokens /\ r.mode = s.mode
        /\ r.repeat_count = s.repeat_count /\ r.dataset = s.dataset
        /\ r.tokenizer = s.tokenizer

LEMMA RecipesAlike ==
    ASSUME NEW b \in I!Benchmarks, NEW v \in DOMAIN I!RequestInputs(b),
           NEW w \in DOMAIN I!RequestInputs(b)
    PROVE  LET r == I!WorkerSteps(b)[v]
               s == I!WorkerSteps(b)[w]
           IN /\ AlikeFor(r, s) /\ AlikeFor(s, r)
              /\ r.seed = s.seed => r.input = s.input
              /\ \A x, y : r.seed # <<x, y>>
  <1> DEFINE r == I!WorkerSteps(b)[v]
             s == I!WorkerSteps(b)[w]
             c == I!Context(b, v)
             d == I!Context(b, w)
  <1>1. /\ r.seed = I!InputSeed(b, c, r.input) /\ r.prefix_seed = I!PrefixSeed(b, c, r.input)
        /\ r.tokens = b.inputs[r.input].tokens
        /\ r.prefix_tokens = b.inputs[r.input].prefix_tokens
        /\ r.mode = b.inputs[r.input].mode /\ r.repeat_count = b.inputs[r.input].repeat_count
        /\ r.dataset = b.inputs[r.input].dataset /\ r.tokenizer = b.tokenizer
        /\ r.probe = b.probe
    BY RecipeOf
  <1>2. /\ s.seed = I!InputSeed(b, d, s.input) /\ s.prefix_seed = I!PrefixSeed(b, d, s.input)
        /\ s.tokens = b.inputs[s.input].tokens
        /\ s.prefix_tokens = b.inputs[s.input].prefix_tokens
        /\ s.mode = b.inputs[s.input].mode /\ s.repeat_count = b.inputs[s.input].repeat_count
        /\ s.dataset = b.inputs[s.input].dataset /\ s.tokenizer = b.tokenizer
        /\ s.probe = b.probe
    BY RecipeOf
  <1>3. /\ r.calibrated = (b.estimate /\ b.probe = Unset) /\ r.atomic = I!Atomic(c)
        /\ r.calibrated => r.probe = Unset
    BY RecipeOf
  <1>4. /\ s.calibrated = (b.estimate /\ b.probe = Unset) /\ s.atomic = I!Atomic(d)
        /\ s.calibrated => s.probe = Unset
    BY RecipeOf
  <1>5. /\ I!Atomic(c) <=> I!Atomic(d)
        /\ c.explicit_prefix <=> d.explicit_prefix
        /\ DOMAIN b.seed = {1}
        /\ I!Atomic(c) => DOMAIN c.payload_seed = {1}
        /\ I!Atomic(d) => DOMAIN d.payload_seed = {1}
    BY ContextsAlike
  <1> HIDE DEF r, s, c, d
  <1>6. (r.atomic <=> s.atomic) /\ (r.calibrated <=> s.calibrated)
    BY <1>3, <1>4, <1>5, Zenon
  <1>7. ASSUME r.input = s.input PROVE r.prefix_seed = s.prefix_seed
    <2>1. \A n : I!PrefixSeed(b, c, n) = I!PrefixSeed(b, d, n)
      BY <1>5, Zenon DEF I!PrefixSeed
    <2> QED  BY <1>1, <1>2, <1>7, <2>1
  <1>8. AlikeFor(r, s)
    <2>1. r.input = s.input =>
            /\ r.tokens = s.tokens /\ r.prefix_tokens = s.prefix_tokens /\ r.mode = s.mode
            /\ r.repeat_count = s.repeat_count /\ r.dataset = s.dataset
            /\ r.tokenizer = s.tokenizer
      BY <1>1, <1>2
    <2>2. r.probe = s.probe
      BY <1>1, <1>2
    <2> QED  BY <1>3, <1>6, <1>7, <2>1, <2>2, Zenon DEF AlikeFor
  <1>9. AlikeFor(s, r)
    <2>1. s.probe = r.probe /\ (s.calibrated => s.probe = Unset)
      BY <1>1, <1>2, <1>4
    <2> QED  BY <1>6, <1>8, <2>1, Zenon DEF AlikeFor
  <1>10. ASSUME r.seed = s.seed PROVE r.input = s.input
    <2>1. I!InputSeed(b, c, r.input) = I!InputSeed(b, d, s.input)
      BY <1>1, <1>2, <1>10
    <2> QED  BY <1>5, <2>1, SeedsDiffer
  <1>11. \A x, y : r.seed # <<x, y>>
    BY <1>1, <1>5, SeedIsNoPair
  <1> QED  BY <1>8, <1>9, <1>10, <1>11 DEF r, s

\* Recipes of one input, seed and place make one prompt.
LEMMA SameBase ==
    ASSUME NEW r, NEW s, AlikeFor(r, s), r.input = s.input, r.seed = s.seed,
           r.text = Unset, s.text = Unset, I!SamePlace(r, s),
           I!Planned(r) => r.index \in Int /\ s.index \in Int
    PROVE  Base(r) = Base(s)
  <1>1. /\ r.prefix_seed = s.prefix_seed /\ r.tokens = s.tokens
        /\ r.prefix_tokens = s.prefix_tokens /\ r.mode = s.mode
        /\ r.repeat_count = s.repeat_count /\ r.dataset = s.dataset
        /\ r.tokenizer = s.tokenizer
        /\ (r.atomic <=> s.atomic) /\ (r.calibrated <=> s.calibrated)
    BY Zenon DEF AlikeFor
  <1>2. I!Planned(r) <=> I!Planned(s)
    BY <1>1, Zenon DEF I!Planned
  <1>3. Calibration(r) = Calibration(s)
    <2>1. I!CalibrateCorpus(r) = I!CalibrateCorpus(s)
      BY <1>1, Zenon DEF I!CalibrateCorpus
    <2> QED  BY <1>1, <2>1, Zenon DEF Calibration
  <1>4. \A c : I!Calibrate(r, c) = I!Calibrate(s, c)
    BY <1>1, Zenon DEF I!Calibrate
  <1>5. CASE I!Planned(r)
    <2>1. r.repeat_count = 1 /\ s.repeat_count = 1 /\ r.index \in Int /\ s.index \in Int
      BY <1>1, <1>5 DEF I!Planned
    <2>2. r.index \div 1 = s.index \div 1
      <3>1. r.index \div r.repeat_count = s.index \div s.repeat_count
        BY <1>5, Zenon DEF I!SamePlace
      <3> QED  BY <2>1, <3>1
    <2>3. r.index = s.index
      BY <2>1, <2>2
    <2>4. \A p : I!RenderChunk(r, p) = I!RenderChunk(s, p)
      BY <1>1, <2>3, Zenon DEF I!RenderChunk
    <2>5. Prefix(r) = Prefix(s)
      BY <1>3, <1>4, Zenon DEF Prefix
    <2> QED  BY <1>2, <1>5, <2>4, <2>5, Zenon DEF Base
  <1>6. CASE ~I!Planned(r)
    <2>1. I!RequestSeed(r) = I!RequestSeed(s)
      <3>1. CASE r.atomic
        BY <1>1, <3>1, Zenon DEF I!RequestSeed
      <3>2. CASE ~r.atomic
        <4>1. r.index \div r.repeat_count = s.index \div s.repeat_count
          BY <3>2, Zenon DEF I!SamePlace
        <4> QED  BY <1>1, <3>2, <4>1, Zenon DEF I!RequestSeed
      <3> QED  BY <3>1, <3>2
    <2>2. I!EffectiveMode(r) = I!EffectiveMode(s)
      BY <1>1, Zenon DEF I!EffectiveMode
    <2>3. I!SamplePromptRequests(r) = I!SamplePromptRequests(s)
      BY <1>1, <2>1, Zenon DEF I!SamplePromptRequests
    <2>4. \A c : I!ConcatenatePromptRequests(r, c) = I!ConcatenatePromptRequests(s, c)
      BY <1>1, <2>1, Zenon DEF I!ConcatenatePromptRequests
    <2>5. \A c : I!PreparePromptRequests(r, c) = I!PreparePromptRequests(s, c)
      BY <2>2, <2>3, <2>4, Zenon DEF I!PreparePromptRequests
    <2> QED  BY <1>2, <1>3, <1>6, <2>5, Zenon DEF Base
  <1> QED  BY <1>5, <1>6

\* Planned requests have a place of their own.
LEMMA PlannedPlace ==
    ASSUME NEW b \in I!Benchmarks, NEW w \in DOMAIN I!RequestInputs(b),
           I!Planned(I!WorkerSteps(b)[w])
    PROVE  I!WorkerSteps(b)[w].index \in Nat
  <1> DEFINE r == I!WorkerSteps(b)[w]
  <1>1. /\ r.calibrated => r.probe = Unset
        /\ r.probe = b.probe
        /\ b.probe = Unset => r.index = I!NamedIndex(I!RequestInputs(b), w)
    BY RecipeOf
  <1>2. I!Planned(r)
    OBVIOUS
  <1> HIDE DEF r
  <1>3. b.probe = Unset
    BY <1>1, <1>2 DEF I!Planned
  <1>4. w \in Int
    <2>1. PICK p \in Programs : \E i \in DOMAIN p : b = p[i]
      BY DEF I!Benchmarks
    <2>2. b.requests \in Seq(DOMAIN b.inputs)
      BY <2>1, PromptsAssumption
    <2>3. w \in 1..Len(b.requests) /\ Len(b.requests) \in Nat
      BY <1>3, <2>2, LenProperties DEF I!RequestInputs
    <2> QED  BY <2>3
  <1> QED  BY <1>1, <1>3, <1>4, NamedIndexIsANumber DEF r

LEMMA WorkersDiffer ==
    ASSUME NEW b \in I!Benchmarks, NEW v \in DOMAIN I!RequestInputs(b),
           NEW w \in DOMAIN I!RequestInputs(b)
    PROVE  LET r == I!WorkerSteps(b)[v]
               s == I!WorkerSteps(b)[w]
               p == I!Alone(r)
               q == I!Alone(s)
           IN /\ I!SameText(r, s) => I!Text(p) = I!Text(q)
              /\ I!Generated(r) /\ I!Generated(s) =>
                    (<<p.seed, p.changed>> = <<q.seed, q.changed>> => I!SameText(r, s))
              /\ /\ I!Generated(r) /\ I!Generated(s) /\ I!EffectiveMode(r) = "concatenate"
                 /\ r.input = s.input /\ (r.seed = s.seed \/ r.prefix_seed # Unset)
                 => p.prefix = q.prefix
  <1> DEFINE r == I!WorkerSteps(b)[v]
             s == I!WorkerSteps(b)[w]
             SameForm == r.probe = Unset \/ r.probe.exact \/ (r.occurrence = 0 <=> s.occurrence = 0)
  <1>1. /\ AlikeFor(r, s) /\ AlikeFor(s, r)
        /\ r.seed = s.seed => r.input = s.input
        /\ \A x, y : r.seed # <<x, y>>
    BY RecipesAlike
  <1>2. \A x, y : s.seed # <<x, y>>
    BY RecipesAlike
  <1>3. (I!Planned(r) => r.index \in Int) /\ (I!Planned(s) => s.index \in Int)
    BY PlannedPlace
  <1> HIDE DEF r, s
  <1>4. (r.calibrated => r.probe = Unset) /\ (s.calibrated => s.probe = Unset)
    BY <1>1, Zenon DEF AlikeFor
  <1>5. r.probe = s.probe
    BY <1>1, Zenon DEF AlikeFor
  <1>6. Changed(r) = Changed(s) <=> SameForm
    BY <1>5, Zenon DEF Changed
  <1> HIDE DEF SameForm
  <1>7. ASSUME r.input = s.input, I!Generated(r), I!Generated(s)
        PROVE  I!Planned(r) <=> I!Planned(s)
    BY <1>1, <1>7, Zenon DEF AlikeFor, I!Planned, I!Generated
  <1>8. ASSUME I!SameText(r, s) PROVE I!Text(I!Alone(r)) = I!Text(I!Alone(s))
    <2>1. CASE ~I!Generated(r) /\ r.text = s.text
      <3>1. r.text # Unset /\ s.text # Unset
        BY <2>1 DEF I!Generated
      <3>2. I!Alone(r) = I!Literal(r.text) /\ I!Alone(s) = I!Literal(s.text)
        BY <3>1, Zenon DEF I!Alone
      <3> QED  BY <2>1, <3>2
    <2>2. CASE /\ I!Generated(r) /\ I!Generated(s)
               /\ r.input = s.input /\ r.seed = s.seed /\ I!SamePlace(r, s) /\ SameForm
      <3>1. r.text = Unset /\ s.text = Unset
        BY <2>2 DEF I!Generated
      <3>2. I!Planned(r) => r.index \in Int /\ s.index \in Int
        BY <1>3, <1>7, <2>2
      <3>3. Base(r) = Base(s)
        BY <1>1, <2>2, <3>1, <3>2, SameBase
      <3>4. /\ I!Alone(r) = I!ProbePrompt(r, Base(r))
            /\ I!Alone(s) = I!ProbePrompt(s, Base(s))
        BY <1>4, <3>1, AloneIsOfBase
      <3>5. \A x : I!ProbePrompt(r, x) = I!ProbePrompt(s, x)
        <4>1. Changed(r) = Changed(s)
          BY <1>6, <2>2
        <4>2. \A x : I!ProbePrompt(r, x) = IF Changed(r) = TRUE THEN [x EXCEPT !.changed = TRUE] ELSE x
          BY Zenon DEF I!ProbePrompt, Changed
        <4>3. \A x : I!ProbePrompt(s, x) = IF Changed(s) = TRUE THEN [x EXCEPT !.changed = TRUE] ELSE x
          BY Zenon DEF I!ProbePrompt, Changed
        <4> QED  BY <4>1, <4>2, <4>3, Zenon
      <3>6. I!Alone(r) = I!Alone(s)
        BY <3>3, <3>4, <3>5, Zenon
      <3> QED  BY <3>6
    <2> QED  BY <1>8, <2>1, <2>2, Zenon DEF I!SameText, SameForm
  <1>9. ASSUME I!Generated(r), I!Generated(s)
        PROVE  /\ I!Alone(r).seed = Evidence(r) /\ I!Alone(r).changed = Changed(r)
               /\ I!Alone(s).seed = Evidence(s) /\ I!Alone(s).changed = Changed(s)
               /\ I!EffectiveMode(r) = "concatenate" => I!Alone(r).prefix = Prefix(r)
               /\ I!EffectiveMode(s) = "concatenate" => I!Alone(s).prefix = Prefix(s)
    <2>1. r.text = Unset /\ s.text = Unset
      BY <1>9 DEF I!Generated
    <2> QED  BY <1>4, <2>1, AloneIs
  <1>10. ASSUME I!Generated(r), I!Generated(s), Evidence(r) = Evidence(s), Changed(r) = Changed(s)
         PROVE  I!SameText(r, s)
    <2>1. /\ Evidence(r) = IF I!Planned(r) THEN <<r.seed, r.index>>
                           ELSE IF r.atomic THEN r.seed
                           ELSE <<r.seed, r.index \div r.repeat_count>>
          /\ Evidence(s) = IF I!Planned(s) THEN <<s.seed, s.index>>
                           ELSE IF s.atomic THEN s.seed
                           ELSE <<s.seed, s.index \div s.repeat_count>>
      BY Zenon DEF Evidence, I!RequestSeed, I!IndexedSeed
    <2>2. r.atomic <=> s.atomic
      BY <1>1, Zenon DEF AlikeFor
    <2>3. r.seed = s.seed
      <3>1. CASE ~I!Planned(r) /\ r.atomic
        <4>1. Evidence(r) = r.seed
          BY <2>1, <3>1
        <4>2. ~I!Planned(s)
          <5>1. I!Planned(s) => Evidence(s) = <<s.seed, s.index>>
            BY <2>1
          <5> QED  BY <1>1, <1>10, <4>1, <5>1
        <4> QED  BY <1>10, <2>1, <2>2, <3>1, <4>1, <4>2
      <3>2. CASE I!Planned(r) \/ ~r.atomic
        <4>1. PICK x : Evidence(r) = <<r.seed, x>>
          BY <2>1, <3>2
        <4>2. ~(~I!Planned(s) /\ s.atomic)
          <5>1. ~I!Planned(s) /\ s.atomic => Evidence(s) = s.seed
            BY <2>1
          <5> QED  BY <1>2, <1>10, <4>1, <5>1
        <4>3. PICK y : Evidence(s) = <<s.seed, y>>
          BY <2>1, <4>2
        <4>4. <<r.seed, x>> = <<s.seed, y>>
          BY <1>10, <4>1, <4>3, Zenon
        <4> QED  BY <4>4
      <3> QED  BY <3>1, <3>2
    <2>4. r.input = s.input
      BY <1>1, <2>3
    <2>5. (I!Planned(r) <=> I!Planned(s)) /\ r.repeat_count = s.repeat_count
      <3>1. r.repeat_count = s.repeat_count
        BY <1>1, <2>4, Zenon DEF AlikeFor
      <3> QED  BY <1>7, <1>10, <2>4, <3>1
    <2>6. I!SamePlace(r, s)
      <3>1. CASE r.atomic /\ ~I!Planned(r)
        BY <3>1, Zenon DEF I!SamePlace
      <3>2. CASE I!Planned(r)
        <4>1. <<r.seed, r.index>> = <<s.seed, s.index>>
          BY <1>10, <2>1, <2>5, <3>2
        <4>2. r.index = s.index
          BY <4>1
        <4> QED  BY <2>5, <4>2, Zenon DEF I!SamePlace
      <3>3. CASE ~r.atomic /\ ~I!Planned(r)
        <4> DEFINE i == r.index \div r.repeat_count
                   j == s.index \div s.repeat_count
        <4>1. Evidence(r) = <<r.seed, i>> /\ Evidence(s) = <<s.seed, j>>
          BY <2>1, <2>2, <2>5, <3>3
        <4> HIDE DEF i, j
        <4>2. <<r.seed, i>> = <<s.seed, j>>
          BY <1>10, <4>1, Zenon
        <4>3. i = j
          BY <4>2
        <4> QED  BY <4>3, Zenon DEF I!SamePlace, i, j
      <3> QED  BY <3>1, <3>2, <3>3
    <2>7. SameForm
      BY <1>6, <1>10
    <2> QED  BY <1>10, <2>3, <2>4, <2>6, <2>7, Zenon DEF I!SameText, SameForm
  <1>11. ASSUME I!Generated(r), I!Generated(s), I!EffectiveMode(r) = "concatenate",
                r.input = s.input, r.seed = s.seed \/ r.prefix_seed # Unset
         PROVE  I!Alone(r).prefix = I!Alone(s).prefix
    <2>1. /\ r.prefix_seed = s.prefix_seed /\ r.prefix_tokens = s.prefix_tokens
          /\ r.mode = s.mode /\ r.dataset = s.dataset /\ r.tokenizer = s.tokenizer
          /\ (r.calibrated <=> s.calibrated)
      BY <1>1, <1>11, Zenon DEF AlikeFor
    <2>2. I!EffectiveMode(s) = "concatenate"
      BY <1>11, <2>1, Zenon DEF I!EffectiveMode
    <2>3. Calibration(r) = Calibration(s)
      <3>1. I!CalibrateCorpus(r) = I!CalibrateCorpus(s)
        BY <2>1, Zenon DEF I!CalibrateCorpus
      <3> QED  BY <2>1, <3>1, Zenon DEF Calibration
    <2>4. (IF r.prefix_seed # Unset THEN r.prefix_seed ELSE r.seed)
            = (IF s.prefix_seed # Unset THEN s.prefix_seed ELSE s.seed)
      BY <1>11, <2>1
    <2>5. \A c : I!Calibrate(r, c) = I!Calibrate(s, c)
      BY <2>1, <2>4, Zenon DEF I!Calibrate
    <2>6. Prefix(r) = Prefix(s)
      BY <2>3, <2>5, Zenon DEF Prefix
    <2> QED  BY <1>9, <1>11, <2>2, <2>6
  <1>12. ASSUME I!Generated(r), I!Generated(s),
                <<I!Alone(r).seed, I!Alone(r).changed>> = <<I!Alone(s).seed, I!Alone(s).changed>>
         PROVE  I!SameText(r, s)
    <2>1. I!Alone(r).seed = I!Alone(s).seed /\ I!Alone(r).changed = I!Alone(s).changed
      BY <1>12
    <2>2. Evidence(r) = Evidence(s) /\ Changed(r) = Changed(s)
      BY <1>9, <1>12, <2>1
    <2> QED  BY <1>10, <1>12, <2>2
  <1> QED  BY <1>8, <1>11, <1>12, Zenon DEF r, s

LEMMA PromptsInvariantSuffices ==
    ASSUME I!PromptsInvariant
    PROVE  I!PromptsAreReproducible /\ I!WorkersDifferAsPlanned
  <1>1. /\ benchmarks \in Programs
        /\ prompt = [i \in DOMAIN benchmarks |->
                        [w \in DOMAIN I!RequestInputs(benchmarks[i]) |-> prompt[i][w]]]
        /\ \A i \in DOMAIN prompt : \A w \in DOMAIN prompt[i] :
                prompt[i][w] # Unset => prompt[i][w] = I!Alone(I!WorkerSteps(benchmarks[i])[w])
    BY DEF I!PromptsInvariant, I!PromptsAreReproducible
  <1>2. ASSUME NEW i \in DOMAIN prompt, NEW v \in DOMAIN prompt[i], NEW w \in DOMAIN prompt[i],
               prompt[i][v] # Unset, prompt[i][w] # Unset
        PROVE  LET r == I!WorkerSteps(benchmarks[i])[v]
                   s == I!WorkerSteps(benchmarks[i])[w]
                   p == prompt[i][v]
                   q == prompt[i][w]
               IN /\ I!SameText(r, s) => I!Text(p) = I!Text(q)
                  /\ I!Generated(r) /\ I!Generated(s) =>
                        (<<p.seed, p.changed>> = <<q.seed, q.changed>> => I!SameText(r, s))
                  /\ /\ I!Generated(r) /\ I!Generated(s) /\ I!EffectiveMode(r) = "concatenate"
                     /\ r.input = s.input /\ (r.seed = s.seed \/ r.prefix_seed # Unset)
                     => p.prefix = q.prefix
    <2> DEFINE b == benchmarks[i]
               p == prompt[i][v]
               q == prompt[i][w]
               r == I!WorkerSteps(b)[v]
               s == I!WorkerSteps(b)[w]
    <2>1. b \in I!Benchmarks
      BY <1>1 DEF I!Benchmarks
    <2>2. v \in DOMAIN I!RequestInputs(b) /\ w \in DOMAIN I!RequestInputs(b)
      BY <1>1
    <2>3. p = I!Alone(r) /\ q = I!Alone(s)
      BY <1>1, <1>2
    <2> HIDE DEF b
    <2>4. /\ I!SameText(r, s) => I!Text(I!Alone(r)) = I!Text(I!Alone(s))
          /\ I!Generated(r) /\ I!Generated(s) =>
                (<<I!Alone(r).seed, I!Alone(r).changed>> = <<I!Alone(s).seed, I!Alone(s).changed>>
                    => I!SameText(r, s))
          /\ /\ I!Generated(r) /\ I!Generated(s) /\ I!EffectiveMode(r) = "concatenate"
             /\ r.input = s.input /\ (r.seed = s.seed \/ r.prefix_seed # Unset)
             => I!Alone(r).prefix = I!Alone(s).prefix
      BY <2>1, <2>2, WorkersDiffer
    <2> HIDE DEF p, q, r, s
    <2>5. /\ I!SameText(r, s) => I!Text(p) = I!Text(q)
          /\ I!Generated(r) /\ I!Generated(s) =>
                (<<p.seed, p.changed>> = <<q.seed, q.changed>> => I!SameText(r, s))
          /\ /\ I!Generated(r) /\ I!Generated(s) /\ I!EffectiveMode(r) = "concatenate"
             /\ r.input = s.input /\ (r.seed = s.seed \/ r.prefix_seed # Unset)
             => p.prefix = q.prefix
      BY <2>3, <2>4, Zenon
    <2> QED  BY <2>5 DEF b, p, q, r, s
  <1>3. I!WorkersDifferAsPlanned
    BY <1>2, Zenon DEF I!WorkersDifferAsPlanned
  <1> QED  BY <1>3 DEF I!PromptsInvariant

\* In every run of the services, a Worker's prompt is the one that an actor with
\* empty caches makes of its recipe, whatever actor made it and whatever that had
\* cached or forgotten, and the caches keep their bounds and prefix_bytes the size of
\* the plans.  Two Workers of a Runner send the same text where the benchmark asks
\* for it, and elsewhere draw with different seeds or change a token, which for an
\* intact record of a dataset may still be the same text (runtime/worker_input.py).
THEOREM PromptsStayReproducible == ServicesSpec => []PromptsAreReproducible
  <1> DEFINE Inv == part = "prompts" => I!PromptsInvariant
  <1>1. ServicesInit => Inv
    BY PromptsInit DEF ServicesInit
  <1>2. Inv /\ [ServicesNext /\ UNCHANGED part]_<<part, serviceVars>> => Inv'
    BY ServiceStep, PromptsStep
  <1>3. Inv => PromptsAreReproducible
    BY PromptsInvariantSuffices DEF PromptsAreReproducible
  <1> QED  BY <1>1, <1>2, <1>3, PTL DEF ServicesSpec

-----------------------------------------------------------------------------
(* The progress views.                                                     *)

\* ProgressViews counts as FiniteSets does, and Null stands for nothing else.
LEMMA ViewsCount == \A s : V!Cardinality(s) = Cardinality(s)
  BY Zenon DEF V!Cardinality, Cardinality

LEMMA NullApart == Null \notin V!Handles /\ Null \notin {"queued", "running", "terminal"}
  BY ViewsAssumption DEF V!Handles

LEMMA NumbersOf ==
    ASSUME NEW u \in Units
    PROVE  /\ V!PlannedWorkerCount(BenchmarkOf[u]) \in Nat
           /\ V!PlannedOf(BenchmarkOf[u]) = V!PlannedWorkerCount(BenchmarkOf[u])
           /\ IsFiniteSet(V!Numbers(u))
           /\ Cardinality(V!Numbers(u)) = V!PlannedWorkerCount(BenchmarkOf[u])
  <1> DEFINE b == BenchmarkOf[u]
             n == V!PlannedWorkerCount(b)
  <1>1. /\ b.repeat \in Nat /\ b.steps \in Nat
        /\ b.probe # Null => b.probe.trials \in Nat /\ b.probe.repeats \in Nat
    BY ViewsAssumption
  <1>2. \A k, m \in Nat : k * m \in Nat /\ k * (1 + m) \in Nat /\ k * 1 \in Nat
    OBVIOUS
  <1>3. n \in Nat
    BY <1>1, <1>2 DEF V!PlannedWorkerCount
  <1>4. V!PlannedOf(b) = n
    BY DEF V!PlannedOf, V!PlannedWorkerCount
  <1>5. V!Numbers(u) = 1..n
    BY DEF V!Numbers
  <1> HIDE DEF n
  <1>6. IsFiniteSet(1..n) /\ Cardinality(1..n) = n
    BY <1>3, FS_Interval
  <1> QED  BY <1>3, <1>4, <1>5, <1>6 DEF n

LEMMA ViewsInit == ASSUME V!Init PROVE V!ViewsInvariant
  <1>1. ASSUME NEW u \in Units PROVE V!RunnerKept(u)
    <2>1. /\ unit[u] = Null /\ handle[u] = Null /\ waiting[u] = 0 /\ pool[u] = Null
          /\ worker[u] = [n \in V!Numbers(u) |-> Null]
      BY DEF V!Init
    <2>2. V!Workers(u) = {}
      BY <2>1 DEF V!Workers
    <2> QED  BY <2>1, <2>2 DEF V!RunnerKept
  <1>2. /\ unit = [u \in Units |-> unit[u]] /\ worker = [u \in Units |-> worker[u]]
        /\ handle = [u \in Units |-> handle[u]] /\ waiting = [u \in Units |-> waiting[u]]
        /\ pool = [u \in Units |-> pool[u]]
    BY DEF V!Init
  <1> QED  BY <1>1, <1>2 DEF V!ViewsInvariant

\* A step of one Runner leaves the others as they are.
SameRunner(u) ==
    /\ unit'[u] = unit[u] /\ worker'[u] = worker[u] /\ handle'[u] = handle[u]
    /\ waiting'[u] = waiting[u] /\ pool'[u] = pool[u]
StillFunctions ==
    /\ unit' = [u \in Units |-> unit'[u]] /\ worker' = [u \in Units |-> worker'[u]]
    /\ handle' = [u \in Units |-> handle'[u]] /\ waiting' = [u \in Units |-> waiting'[u]]
    /\ pool' = [u \in Units |-> pool'[u]]

LEMMA OneRunnerSteps ==
    ASSUME V!ViewsInvariant, NEW u \in Units, StillFunctions,
           \A w \in Units \ {u} : SameRunner(w), V!RunnerKept(u)'
    PROVE  V!ViewsInvariant'
  <1>1. ASSUME NEW w \in Units PROVE V!RunnerKept(w)'
    <2>1. CASE w = u
      BY <2>1
    <2>2. CASE w # u
      <3>1. SameRunner(w) /\ V!RunnerKept(w)
        BY <2>2 DEF V!ViewsInvariant
      <3>2. V!Workers(w)' = V!Workers(w)
        BY <3>1 DEF V!Workers, SameRunner
      <3> QED  BY <3>1, <3>2 DEF V!RunnerKept, SameRunner
    <2> QED  BY <2>1, <2>2
  <1> QED  BY <1>1 DEF V!ViewsInvariant, StillFunctions

\* What the actions of a Runner do to it.
LEMMA RunnerStep ==
    ASSUME V!ViewsInvariant, NEW u \in Units,
           \/ V!CreateRunner(u) \/ V!StartRunner(u) \/ V!TakeHandle(u) \/ V!CreateSteps(u)
           \/ V!SwitchAdmission(u) \/ V!Aggregate(u) \/ V!DropHandle(u)
    PROVE  V!RunnerKept(u)' /\ StillFunctions /\ \A w \in Units \ {u} : SameRunner(w)
  <1>1. /\ unit = [w \in Units |-> unit[w]] /\ worker = [w \in Units |-> worker[w]]
        /\ handle = [w \in Units |-> handle[w]] /\ waiting = [w \in Units |-> waiting[w]]
        /\ pool = [w \in Units |-> pool[w]] /\ V!RunnerKept(u)
    BY DEF V!ViewsInvariant
  <1>2. worker' = worker /\ waiting' = waiting /\ pool' = pool
    BY DEF V!CreateRunner, V!StartRunner, V!TakeHandle, V!CreateSteps, V!SwitchAdmission,
           V!Aggregate, V!DropHandle
  <1>3. V!Workers(u)' = V!Workers(u)
    BY <1>2 DEF V!Workers
  <1>4. IsFiniteSet(V!Numbers(u)) /\ Cardinality(V!Numbers(u)) \in Nat
    BY NumbersOf
  <1>5. /\ unit[u] \in {Null, "queued", "running", "terminal"}
        /\ handle[u] = Null => waiting[u] = 0 /\ (unit[u] # "terminal" => V!Workers(u) = {})
        /\ handle[u] # Null =>
              /\ handle[u] \in V!Handles
              /\ unit[u] = IF handle[u].phase = "finished" THEN "terminal" ELSE "running"
              /\ handle[u].phase = "finished" => waiting[u] = 0
              /\ \/ handle[u].created = Cardinality(V!Numbers(u))
                 \/ /\ handle[u].created = 0 /\ V!Workers(u) = {}
                    /\ handle[u].phase \in {"creating", "finished"}
    BY <1>1, ViewsCount DEF V!RunnerKept
  <1> DEFINE x == unit'[u]
             h == handle'[u]
             Others == \A w \in Units \ {u} : unit'[w] = unit[w] /\ handle'[w] = handle[w]
             Functions == unit' = [w \in Units |-> unit'[w]] /\ handle' = [w \in Units |-> handle'[w]]
             Kept == /\ x \in {Null, "queued", "running", "terminal"}
                     /\ h = Null => waiting[u] = 0 /\ (x # "terminal" => V!Workers(u) = {})
                     /\ h # Null =>
                            /\ h \in V!Handles
                            /\ x = IF h.phase = "finished" THEN "terminal" ELSE "running"
                            /\ h.phase = "finished" => waiting[u] = 0
                            /\ \/ h.created = Cardinality(V!Numbers(u))
                               \/ /\ h.created = 0 /\ V!Workers(u) = {}
                                  /\ h.phase \in {"creating", "finished"}
  <1>6. Others /\ Functions /\ Kept
    <2>1. CASE V!CreateRunner(u)
      <3>1. unit[u] = Null /\ handle' = handle /\ unit' = [unit EXCEPT ![u] = "queued"]
        BY <2>1 DEF V!CreateRunner
      <3>2. x = "queued" /\ h = handle[u] /\ Others /\ Functions
        BY <1>1, <3>1
      <3>3. handle[u] = Null
        BY <1>5, <3>1, NullApart
      <3> HIDE DEF x, h, Others, Functions
      <3> QED  BY <1>5, <3>1, <3>2, <3>3, NullApart
    <2>2. CASE V!StartRunner(u)
      <3>1. unit[u] = "queued" /\ handle' = handle /\ unit' = [unit EXCEPT ![u] = "running"]
        BY <2>2 DEF V!StartRunner
      <3>2. x = "running" /\ h = handle[u] /\ Others /\ Functions
        BY <1>1, <3>1
      <3>3. handle[u] = Null
        BY <1>5, <3>1
      <3> HIDE DEF x, h, Others, Functions
      <3> QED  BY <1>5, <3>1, <3>2, <3>3
    <2>3. CASE V!TakeHandle(u)
      <3> DEFINE new == [phase |-> "creating", created |-> 0, admitted |-> TRUE]
      <3>1. unit[u] = "running" /\ handle[u] = Null /\ unit' = unit /\ handle' = [handle EXCEPT ![u] = new]
        BY <2>3 DEF V!TakeHandle
      <3>2. x = "running" /\ h = new /\ Others /\ Functions
        BY <1>1, <3>1
      <3>3. new \in V!Handles /\ new.phase = "creating" /\ new.created = 0 /\ new # Null
        <4>1. new \in V!Handles
          BY DEF V!Handles
        <4> QED  BY <4>1, NullApart
      <3> HIDE DEF x, h, Others, Functions, new
      <3> QED  BY <1>5, <3>1, <3>2, <3>3
    <2>4. CASE V!CreateSteps(u)
      <3> DEFINE new == [phase |-> "submitting", created |-> Cardinality(V!Numbers(u)), admitted |-> TRUE]
      <3>1. /\ handle[u] # Null /\ handle[u].phase = "creating"
            /\ unit' = unit /\ handle' = [handle EXCEPT ![u] = new]
        BY <2>4, ViewsCount DEF V!CreateSteps
      <3>2. x = unit[u] /\ h = new /\ Others /\ Functions
        BY <1>1, <3>1
      <3>3. /\ new \in V!Handles /\ new.phase = "submitting" /\ new # Null
            /\ new.created = Cardinality(V!Numbers(u))
        <4>1. new \in V!Handles
          BY <1>4 DEF V!Handles
        <4> QED  BY <4>1, NullApart
      <3> HIDE DEF x, h, Others, Functions, new
      <3> QED  BY <1>5, <3>1, <3>2, <3>3
    <2>5. CASE V!SwitchAdmission(u)
      <3> DEFINE new == [handle[u] EXCEPT !.admitted = ~@]
      <3>1. /\ handle[u] # Null /\ handle[u].phase = "submitting" /\ unit' = unit
            /\ handle' = [handle EXCEPT ![u].admitted = ~@]
        BY <2>5 DEF V!SwitchAdmission, V!Executing
      <3>2. x = unit[u] /\ h = new /\ Others /\ Functions
        BY <1>1, <3>1
      <3>3. /\ new \in V!Handles /\ new.phase = "submitting" /\ new # Null
            /\ new.created = handle[u].created
        BY <1>5, <3>1, NullApart DEF V!Handles
      <3> HIDE DEF x, h, Others, Functions, new
      <3> QED  BY <1>5, <3>1, <3>2, <3>3
    <2>6. CASE V!Aggregate(u)
      <3> DEFINE new == [handle[u] EXCEPT !.phase = "aggregating"]
      <3>1. /\ handle[u] # Null /\ handle[u].phase = "submitting" /\ unit' = unit
            /\ handle' = [handle EXCEPT ![u].phase = "aggregating"]
        BY <2>6 DEF V!Aggregate, V!Executing
      <3>2. x = unit[u] /\ h = new /\ Others /\ Functions
        BY <1>1, <3>1
      <3>3. /\ new \in V!Handles /\ new.phase = "aggregating" /\ new # Null
            /\ new.created = handle[u].created
        BY <1>5, <3>1, NullApart DEF V!Handles
      <3> HIDE DEF x, h, Others, Functions, new
      <3> QED  BY <1>5, <3>1, <3>2, <3>3
    <2>7. CASE V!DropHandle(u)
      <3>1. handle[u] # Null /\ handle[u].phase = "finished" /\ unit' = unit /\ handle' = [handle EXCEPT ![u] = Null]
        BY <2>7 DEF V!DropHandle
      <3>2. x = unit[u] /\ h = Null /\ Others /\ Functions
        BY <1>1, <3>1
      <3> HIDE DEF x, h, Others, Functions
      <3> QED  BY <1>5, <3>1, <3>2
    <2> QED  BY <2>1, <2>2, <2>3, <2>4, <2>5, <2>6, <2>7
  <1>7. V!RunnerKept(u)'
    BY <1>1, <1>2, <1>3, <1>6, ViewsCount DEF V!RunnerKept
  <1> QED  BY <1>1, <1>2, <1>6, <1>7 DEF StillFunctions, SameRunner

\* What the actions of a Worker do to its Runner.
LEMMA WorkerStep ==
    ASSUME V!ViewsInvariant, NEW u \in Units, NEW n \in V!Numbers(u),
           V!InsertWorker(u, n) \/ V!SubmitWorker(u, n) \/ V!EndWorker(u, n)
    PROVE  V!RunnerKept(u)' /\ StillFunctions /\ \A w \in Units \ {u} : SameRunner(w)
  <1>1. /\ unit = [w \in Units |-> unit[w]] /\ worker = [w \in Units |-> worker[w]]
        /\ handle = [w \in Units |-> handle[w]] /\ waiting = [w \in Units |-> waiting[w]]
        /\ pool = [w \in Units |-> pool[w]] /\ V!RunnerKept(u)
    BY DEF V!ViewsInvariant
  <1>2. unit' = unit /\ handle' = handle /\ pool' = pool /\ V!Executing(u)
    BY DEF V!InsertWorker, V!SubmitWorker, V!EndWorker
  <1>3. \E e \in V!WorkerRows : worker' = [worker EXCEPT ![u][n] = e]
    BY DEF V!InsertWorker, V!SubmitWorker, V!EndWorker, V!With, V!WorkerRows
  <1>4. waiting' = [waiting EXCEPT ![u] = waiting'[u]] /\ (waiting[u] \in Int => waiting'[u] \in Int)
    <2>1. CASE V!InsertWorker(u, n)
      <3>1. waiting' = [waiting EXCEPT ![u] = waiting[u] + 1]
        BY <2>1 DEF V!InsertWorker
      <3> QED  BY <1>1, <3>1
    <2>2. CASE V!SubmitWorker(u, n)
      <3>1. waiting' = [waiting EXCEPT ![u] = waiting[u] - 1]
        BY <2>2 DEF V!SubmitWorker
      <3> QED  BY <1>1, <3>1
    <2>3. CASE V!EndWorker(u, n)
      <3>1. waiting' = waiting
        BY <2>3 DEF V!EndWorker
      <3> QED  BY <1>1, <3>1
    <2> QED  BY <2>1, <2>2, <2>3
  <1>5. /\ unit[u] \in {Null, "queued", "running", "terminal"} /\ waiting[u] \in Int
        /\ worker[u] \in [V!Numbers(u) -> V!WorkerRows \cup {Null}]
        /\ pool[u] # Null => pool[u].queued \in Int /\ pool[u].running \in Int
        /\ handle[u] # Null /\ handle[u].phase = "submitting" /\ handle[u] \in V!Handles
        /\ unit[u] = "running" /\ handle[u].created = Cardinality(V!Numbers(u))
    BY <1>1, <1>2, ViewsCount DEF V!RunnerKept, V!Executing
  <1>6. /\ worker' = [w \in Units |-> worker'[w]] /\ \A w \in Units \ {u} : worker'[w] = worker[w]
        /\ worker'[u] \in [V!Numbers(u) -> V!WorkerRows \cup {Null}]
    <2>1. PICK e \in V!WorkerRows : worker' = [worker EXCEPT ![u][n] = e]
      BY <1>3
    <2> DEFINE after == [worker[u] EXCEPT ![n] = e]
    <2>2. after \in [V!Numbers(u) -> V!WorkerRows \cup {Null}]
      BY <1>5
    <2>3. worker' = [w \in Units |-> IF w = u THEN after ELSE worker[w]]
      BY <1>1, <2>1
    <2> HIDE DEF after
    <2> QED  BY <2>2, <2>3
  <1>7. /\ waiting' = [w \in Units |-> waiting'[w]] /\ \A w \in Units \ {u} : waiting'[w] = waiting[w]
        /\ waiting'[u] \in Int
    BY <1>1, <1>4, <1>5
  <1>8. V!RunnerKept(u)'
    BY <1>2, <1>5, <1>6, <1>7, ViewsCount DEF V!RunnerKept
  <1> QED  BY <1>1, <1>2, <1>6, <1>7, <1>8 DEF StillFunctions, SameRunner

LEMMA EndRunnerStep ==
    ASSUME V!ViewsInvariant, NEW u \in Units, V!EndRunner(u)
    PROVE  V!RunnerKept(u)' /\ StillFunctions /\ \A w \in Units \ {u} : SameRunner(w)
  <1>1. /\ unit = [w \in Units |-> unit[w]] /\ worker = [w \in Units |-> worker[w]]
        /\ handle = [w \in Units |-> handle[w]] /\ waiting = [w \in Units |-> waiting[w]]
        /\ pool = [w \in Units |-> pool[w]] /\ V!RunnerKept(u)
    BY DEF V!ViewsInvariant
  <1> DEFINE old == worker[u]
             rows == [n \in V!Numbers(u) |->
                        CASE old[n] = V!Row("created", FALSE) -> V!Row("cancelled", FALSE)
                          [] old[n] = V!Row("submitted", TRUE) -> V!Row("indeterminate", TRUE)
                          [] OTHER -> old[n]]
             new == IF handle[u] = Null THEN handle[u] ELSE [handle[u] EXCEPT !.phase = "finished"]
  <1>2. /\ unit[u] = "running" /\ unit' = [unit EXCEPT ![u] = "terminal"]
        /\ worker' = [worker EXCEPT ![u] = rows] /\ waiting' = [waiting EXCEPT ![u] = 0]
        /\ pool' = pool
    BY DEF V!EndRunner
  <1>3. handle' = [w \in Units |-> IF w = u THEN new ELSE handle[w]]
    <2>1. handle' = IF handle[u] = Null THEN handle ELSE [handle EXCEPT ![u].phase = "finished"]
      BY DEF V!EndRunner
    <2>2. CASE handle[u] = Null
      BY <1>1, <2>1, <2>2
    <2>3. CASE handle[u] # Null
      BY <1>1, <2>1, <2>3
    <2> QED  BY <2>2, <2>3
  <1>4. /\ old \in [V!Numbers(u) -> V!WorkerRows \cup {Null}]
        /\ pool[u] # Null => pool[u].queued \in Int /\ pool[u].running \in Int
        /\ handle[u] # Null =>
              /\ handle[u] \in V!Handles
              /\ \/ handle[u].created = Cardinality(V!Numbers(u))
                 \/ handle[u].created = 0 /\ V!Workers(u) = {}
    BY <1>1, ViewsCount DEF V!RunnerKept
  <1>5. rows \in [V!Numbers(u) -> V!WorkerRows \cup {Null}]
    <2>1. ASSUME NEW n \in V!Numbers(u) PROVE rows[n] \in V!WorkerRows \cup {Null}
      <3>1. /\ V!Row("cancelled", FALSE) \in V!WorkerRows
            /\ V!Row("indeterminate", TRUE) \in V!WorkerRows
        BY DEF V!WorkerRows
      <3>2. old[n] \in V!WorkerRows \cup {Null}
        BY <1>4
      <3> HIDE DEF old
      <3> QED  BY <3>1, <3>2
    <2> QED  BY <2>1
  <1>6. V!Workers(u) = {} => V!Workers(u)' = {}
    <2> SUFFICES ASSUME V!Workers(u) = {}, NEW n \in V!Numbers(u) PROVE worker'[u][n] = Null
      BY DEF V!Workers
    <2>1. old[n] = Null
      BY DEF V!Workers
    <2>2. Null \notin {V!Row("created", FALSE), V!Row("submitted", TRUE)}
      <3>1. \A s \in {"created", "submitted"}, b \in BOOLEAN :
                V!Row(s, b) \in [state : {"created", "submitted"}, at : BOOLEAN]
        BY DEF V!Row
      <3> QED  BY <3>1, ViewsAssumption
    <2>3. worker'[u][n] = rows[n]
      BY <1>1, <1>2
    <2> QED  BY <2>1, <2>2, <2>3
  <1>7. handle[u] # Null =>
            /\ new \in V!Handles /\ new # Null /\ new.phase = "finished"
            /\ new.created = handle[u].created
    BY <1>4, NullApart DEF V!Handles
  <1> HIDE DEF rows, new, old
  <1>8. /\ unit' = [w \in Units |-> unit'[w]] /\ unit'[u] = "terminal"
        /\ \A w \in Units \ {u} : unit'[w] = unit[w]
        /\ worker' = [w \in Units |-> worker'[w]] /\ worker'[u] = rows
        /\ \A w \in Units \ {u} : worker'[w] = worker[w]
        /\ waiting' = [w \in Units |-> waiting'[w]] /\ waiting'[u] = 0
        /\ \A w \in Units \ {u} : waiting'[w] = waiting[w]
    BY <1>1, <1>2
  <1>9. /\ handle' = [w \in Units |-> handle'[w]] /\ handle'[u] = new
        /\ \A w \in Units \ {u} : handle'[w] = handle[w]
    BY <1>3
  <1>10. handle[u] = Null => new = Null
    BY DEF new
  <1>11. V!RunnerKept(u)'
    BY <1>2, <1>4, <1>5, <1>6, <1>7, <1>8, <1>9, <1>10, ViewsCount DEF V!RunnerKept
  <1> QED  BY <1>1, <1>2, <1>8, <1>9, <1>11 DEF StillFunctions, SameRunner

LEMMA ObserveStep == ASSUME V!ViewsInvariant, V!Observe \/ V!Outdated PROVE V!ViewsInvariant'
  <1>1. UNCHANGED <<unit, worker, handle, waiting>>
    BY DEF V!Observe, V!Outdated
  <1> DEFINE Counts(w) == pool'[w] # Null => pool'[w].queued \in Int /\ pool'[w].running \in Int
  <1>2. pool' = [w \in Units |-> pool'[w]] /\ \A w \in Units : Counts(w)
    <2>1. CASE V!Outdated
      BY <2>1 DEF V!Outdated, V!ViewsInvariant, V!RunnerKept
    <2>2. CASE V!Observe
      <3> DEFINE Out(w) == {k \in V!Numbers(w) : worker[w][k] = V!Row("submitted", TRUE)}
                 At(n) == IF n = 0 THEN Null ELSE [queued |-> n - 1, running |-> 1]
      <3>1. pool' = [w \in Units |-> At(Cardinality(Out(w)))]
        BY <2>2, ViewsCount DEF V!Observe
      <3>2. ASSUME NEW w \in Units PROVE Cardinality(Out(w)) \in Nat
        BY NumbersOf, FS_Subset, FS_CardinalityType
      <3>3. ASSUME NEW n \in Nat, At(n) # Null PROVE At(n).queued \in Int /\ At(n).running \in Int
        BY <3>3
      <3> HIDE DEF At, Out
      <3> QED  BY <3>1, <3>2, <3>3
    <2> QED  BY <2>1, <2>2
  <1>3. ASSUME NEW w \in Units PROVE V!RunnerKept(w)'
    <2>1. V!RunnerKept(w) /\ Counts(w)
      BY <1>2 DEF V!ViewsInvariant
    <2>2. V!Workers(w)' = V!Workers(w)
      BY <1>1 DEF V!Workers
    <2> QED  BY <1>1, <2>1, <2>2 DEF V!RunnerKept
  <1> QED  BY <1>1, <1>2, <1>3 DEF V!ViewsInvariant

LEMMA ViewsStep == ASSUME V!ViewsInvariant, V!Next \/ UNCHANGED viewVars PROVE V!ViewsInvariant'
  <1>1. CASE UNCHANGED viewVars
    <2>1. \A u \in Units : SameRunner(u) /\ V!RunnerKept(u)
      BY <1>1 DEF V!ViewsInvariant, SameRunner, viewVars
    <2>2. ASSUME NEW u \in Units PROVE V!RunnerKept(u)'
      <3>1. V!Workers(u)' = V!Workers(u)
        BY <2>1 DEF V!Workers, SameRunner
      <3> QED  BY <2>1, <3>1 DEF V!RunnerKept, SameRunner
    <2> QED  BY <1>1, <2>2 DEF V!ViewsInvariant, viewVars
  <1>2. CASE V!Observe \/ V!Outdated
    BY <1>2, ObserveStep
  <1>3. ASSUME NEW u \in Units,
               \/ V!CreateRunner(u) \/ V!StartRunner(u) \/ V!TakeHandle(u) \/ V!CreateSteps(u)
               \/ V!SwitchAdmission(u) \/ V!Aggregate(u) \/ V!DropHandle(u)
        PROVE  V!ViewsInvariant'
    BY <1>3, RunnerStep, OneRunnerSteps
  <1>4. ASSUME NEW u \in Units, V!EndRunner(u) PROVE V!ViewsInvariant'
    BY <1>4, EndRunnerStep, OneRunnerSteps
  <1>5. ASSUME NEW u \in Units, NEW n \in V!Numbers(u),
               V!InsertWorker(u, n) \/ V!SubmitWorker(u, n) \/ V!EndWorker(u, n)
        PROVE  V!ViewsInvariant'
    BY <1>5, WorkerStep, OneRunnerSteps
  <1> QED  BY <1>1, <1>2, <1>3, <1>4, <1>5 DEF V!Next

-----------------------------------------------------------------------------
(* The progress views: the sums.                                           *)

LEMMA DisjointUnion ==
    ASSUME NEW X, IsFiniteSet(X), NEW Y, IsFiniteSet(Y), X \cap Y = {}
    PROVE  Cardinality(X \cup Y) = Cardinality(X) + Cardinality(Y)
  <1>1. Cardinality(X \cap Y) = 0
    BY FS_EmptySet
  <1>2. Cardinality(X) \in Nat /\ Cardinality(Y) \in Nat
    BY FS_CardinalityType
  <1>3. Cardinality(X \cup Y) = Cardinality(X) + Cardinality(Y) - Cardinality(X \cap Y)
    BY FS_Union
  <1> QED  BY <1>1, <1>2, <1>3

\* The counts of one Runner.
LEMMA RunnerCounts ==
    ASSUME NEW u \in Units, V!RunnerKept(u)
    PROVE  /\ Cardinality(V!Workers(u)) \in Nat /\ V!SubmittedOf(u) \in Nat
           /\ V!SubmittedOf(u) <= Cardinality(V!Workers(u))
           /\ Cardinality(V!Workers(u)) <= V!PlannedWorkerCount(BenchmarkOf[u])
           /\ \A s : V!InState(u, s) \in Nat
           /\ V!InState(u, "submitted") + V!InState(u, "succeeded") + V!InState(u, "failed")
                + V!InState(u, "indeterminate") <= V!SubmittedOf(u)
  <1> DEFINE W == V!Workers(u)
             In(s) == {n \in W : worker[u][n].state = s}
             At == {n \in W : worker[u][n].at}
  <1>1. W \in SUBSET V!Numbers(u) /\ IsFiniteSet(V!Numbers(u))
    BY NumbersOf DEF V!Workers
  <1>2. IsFiniteSet(W) /\ Cardinality(W) \in Nat
        /\ Cardinality(W) <= V!PlannedWorkerCount(BenchmarkOf[u])
    <2> HIDE DEF W
    <2> QED  BY <1>1, NumbersOf, FS_Subset, FS_CardinalityType
  <1>3. /\ V!SubmittedOf(u) = Cardinality(At)
        /\ \A s : V!InState(u, s) = Cardinality(In(s))
    BY ViewsCount DEF V!SubmittedOf, V!InState
  <1>4. \A n \in W : worker[u][n] \in V!WorkerRows
    BY DEF V!Workers, V!RunnerKept
  <1> DEFINE Sent == {"submitted", "succeeded", "failed", "indeterminate"}
  <1>5. \A n \in W : worker[u][n].state \in Sent => worker[u][n].at
    <2> TAKE n \in W
    <2> DEFINE r == worker[u][n]
    <2>1. r \in V!WorkerRows
      BY <1>4
    <2> HIDE DEF r
    <2>2. r.state \in Sent => r.at = TRUE
      BY <2>1 DEF V!WorkerRows, V!Row
    <2> QED  BY <2>2 DEF r
  <1> DEFINE C0 == In("submitted")
             B == In("succeeded")
             C1 == In("failed")
             D == In("indeterminate")
  <1>6. /\ C0 \in SUBSET W /\ B \in SUBSET W /\ C1 \in SUBSET W /\ D \in SUBSET W /\ At \in SUBSET W
        /\ C0 \cap B = {} /\ (C0 \cup B) \cap C1 = {} /\ (C0 \cup B \cup C1) \cap D = {}
        /\ C0 \cup B \cup C1 \cup D \in SUBSET At
    BY <1>5
  <1> HIDE DEF C0, B, C1, D, At, W
  <1>7. \A X \in SUBSET W : IsFiniteSet(X) /\ Cardinality(X) \in Nat /\ Cardinality(X) <= Cardinality(W)
    BY <1>2, FS_Subset, FS_CardinalityType
  <1>8. \A X, Y \in SUBSET W : X \cap Y = {} => Cardinality(X \cup Y) = Cardinality(X) + Cardinality(Y)
    BY <1>7, DisjointUnion
  <1>9. Cardinality(C0 \cup B) = Cardinality(C0) + Cardinality(B)
    BY <1>6, <1>8
  <1>10. Cardinality(C0 \cup B \cup C1) = Cardinality(C0 \cup B) + Cardinality(C1)
    BY <1>6, <1>8, C0 \cup B \in SUBSET W
  <1>11. Cardinality(C0 \cup B \cup C1 \cup D) = Cardinality(C0 \cup B \cup C1) + Cardinality(D)
    BY <1>6, <1>8, C0 \cup B \cup C1 \in SUBSET W
  <1>12. Cardinality(C0 \cup B \cup C1 \cup D) <= Cardinality(At)
    BY <1>6, <1>7, FS_Subset
  <1>13. Cardinality(C0) + Cardinality(B) + Cardinality(C1) + Cardinality(D) <= Cardinality(At)
    BY <1>6, <1>7, <1>9, <1>10, <1>11, <1>12
  <1>14. \A s : In(s) \in SUBSET W
    OBVIOUS
  <1>15. \A s : V!InState(u, s) \in Nat
    BY <1>3, <1>7, <1>14
  <1>16. V!SubmittedOf(u) \in Nat /\ V!SubmittedOf(u) <= Cardinality(W)
    BY <1>3, <1>6, <1>7
  <1>17. V!InState(u, "submitted") + V!InState(u, "succeeded") + V!InState(u, "failed")
            + V!InState(u, "indeterminate") <= V!SubmittedOf(u)
    <2> HIDE DEF In
    <2> QED  BY <1>3, <1>13 DEF C0, B, C1, D
  <1> QED  BY <1>2, <1>15, <1>16, <1>17 DEF W

\* What a view says of one Runner, field by field.
LEMMA WorkerFields ==
    ASSUME NEW u \in Units
    PROVE  LET v == V!WorkerProgress(u) IN
           /\ v["planned"] = V!PlannedWorkerCount(BenchmarkOf[u])
           /\ v["created"] = Cardinality(V!Workers(u))
           /\ v["submitted"] = V!SubmittedOf(u)
           /\ v["not_submitted"] =
                V!NotSubmitted(V!PlannedWorkerCount(BenchmarkOf[u]), V!SubmittedOf(u))
           /\ v["pending_results"] = V!InState(u, "submitted")
           /\ \A f \in V!ResultFields : v[f] = V!InState(u, f)
  BY NumbersOf, ViewsCount DEF V!WorkerProgress, V!DurableFields, V!ResultFields

LEMMA RunnerFields ==
    ASSUME NEW u \in Units
    PROVE  /\ \A f \in V!DurableFields : V!RunnerView(u)[f] =
                IF f = "created" /\ handle[u] # Null THEN handle[u].created
                ELSE V!WorkerProgress(u)[f]
           /\ \A f \in V!LiveFields : sampled => V!RunnerView(u)[f] = V!LiveOf(u)[f]
  BY DEF V!RunnerView, V!DurableFields, V!LiveFields

\* ... and of a Campaign.
LEMMA CampaignFields ==
    ASSUME NEW c
    PROVE  LET S == {u \in V!Rows : CampaignOf[u] = c}
               v == V!CampaignWorkerProgress(c)
               planned == Sum([u \in S |-> V!PlannedWorkerCount(BenchmarkOf[u])], S)
               submitted == Sum([u \in S |-> V!SubmittedOf(u)], S)
           IN /\ v["planned"] = planned
              /\ v["created"] = Sum([u \in S |-> Cardinality(V!Workers(u))], S)
              /\ v["submitted"] = submitted
              /\ v["not_submitted"] = V!NotSubmitted(planned, submitted)
              /\ v["pending_results"] = Sum([u \in S |-> V!InState(u, "submitted")], S)
              /\ \A f \in V!ResultFields : v[f] = Sum([u \in S |-> V!InState(u, f)], S)
  BY ViewsCount DEF V!CampaignWorkerProgress, V!DurableFields, V!ResultFields, V!TotalOf, Sum

\* Every Runner of a Campaign counts once, whether it is resident or not.
LEMMA ViewsInvariantSuffices == ASSUME V!ViewsInvariant PROVE V!CampaignViewIsTheSum
  <1> SUFFICES ASSUME NEW c PROVE
        LET S == {u \in V!Rows : CampaignOf[u] = c}
            view == V!CampaignView(c)
        IN /\ \A f \in V!DurableFields \cup (IF sampled THEN V!LiveFields ELSE {}) :
                view[f] = V!TotalOf(S, LAMBDA u : V!RunnerView(u)[f])
           /\ \A p \in V!Phases :
                V!CampaignPhases(c)[p] = V!Cardinality({u \in S : V!PhaseOf(u) = p})
           /\ view["created"] <= view["planned"] /\ view["submitted"] <= view["created"]
           /\ view["submitted"] >= view["pending_results"] + view["succeeded"] + view["failed"]
                                   + view["indeterminate"]
    BY Zenon DEF V!CampaignViewIsTheSum
  <1> DEFINE S == {u \in V!Rows : CampaignOf[u] = c}
             held == {u \in S : handle[u] # Null}
             view == V!CampaignView(c)
             Of(f) == [u \in S |-> V!RunnerView(u)[f]]
             planned == [u \in S |-> V!PlannedWorkerCount(BenchmarkOf[u])]
             created == [u \in S |-> Cardinality(V!Workers(u))]
             submitted == [u \in S |-> V!SubmittedOf(u)]
             inState(s) == [u \in S |-> V!InState(u, s)]
  <1>1. S \in SUBSET Units /\ IsFiniteSet(S) /\ \A u \in S : V!RunnerKept(u)
    <2>1. S \in SUBSET Units
      BY DEF V!Rows
    <2> HIDE DEF S
    <2> QED  BY <2>1, FS_Subset, ViewsAssumption DEF V!ViewsInvariant
  <1>2. \A f : V!TotalOf(S, LAMBDA u : V!RunnerView(u)[f]) = Sum(Of(f), S)
    BY Zenon DEF V!TotalOf, Sum
  <1>3. {u \in V!Resident(c) : handle[u] # Null} = held
    BY DEF V!Resident, V!Live, V!Rows
  <1> DEFINE correction == [u \in held |-> V!Correction(u)]
  <1>4. /\ view["created"] = Sum(created, S) + Sum(correction, held)
        /\ \A f \in V!DurableFields \ {"created"} : view[f] = V!CampaignWorkerProgress(c)[f]
        /\ sampled => \A f \in V!LiveFields :
                view[f] = Sum([u \in V!Resident(c) |-> V!LiveOf(u)[f]], V!Resident(c))
    <2>1. /\ view["created"] = V!CampaignWorkerProgress(c)["created"] + Sum(correction, held)
          /\ \A f \in V!DurableFields \ {"created"} : view[f] = V!CampaignWorkerProgress(c)[f]
          /\ sampled => \A f \in V!LiveFields :
                view[f] = Sum([u \in V!Resident(c) |-> V!LiveOf(u)[f]], V!Resident(c))
      BY <1>3 DEF V!CampaignView, V!DurableFields, V!LiveFields, V!TotalOf, Sum
    <2>2. V!CampaignWorkerProgress(c)["created"] = Sum(created, S)
      BY CampaignFields
    <2> QED  BY <2>1, <2>2
  <1>5. /\ view["planned"] = Sum(planned, S)
        /\ view["submitted"] = Sum(submitted, S)
        /\ view["not_submitted"] = V!NotSubmitted(Sum(planned, S), Sum(submitted, S))
        /\ view["pending_results"] = Sum(inState("submitted"), S)
        /\ \A f \in V!ResultFields : view[f] = Sum(inState(f), S)
    <2>1. /\ {"planned", "submitted", "not_submitted", "pending_results"} \subseteq V!DurableFields \ {"created"}
          /\ V!ResultFields \subseteq V!DurableFields \ {"created"}
      BY DEF V!DurableFields, V!ResultFields
    <2> HIDE DEF view
    <2> QED  BY <1>4, <2>1, CampaignFields
  <1> HIDE DEF view
  <1>6. /\ planned \in [S -> Int] /\ created \in [S -> Int] /\ submitted \in [S -> Int]
        /\ \A s : inState(s) \in [S -> Int]
    BY <1>1, RunnerCounts, NumbersOf
  <1> DEFINE extra == [u \in S |-> IF u \in held THEN handle[u].created - created[u] ELSE 0]
             counted == [u \in S |-> created[u] + extra[u]]
  <1>7. /\ extra \in [S -> Int] /\ held \in SUBSET S
        /\ \A u \in held : handle[u].created \in Nat /\ correction[u] = extra[u]
    <2>1. ASSUME NEW u \in held
          PROVE  handle[u].created \in Nat /\ correction[u] = handle[u].created - created[u]
      <3>1. handle[u].created \in Nat
        BY <1>1 DEF V!RunnerKept, V!Handles
      <3>2. V!Correction(u) = handle[u].created - created[u]
        BY <1>1, WorkerFields DEF V!Correction
      <3> QED  BY <3>1, <3>2
    <2>2. held \in SUBSET S
      OBVIOUS
    <2> HIDE DEF correction, created, held, S
    <2> QED  BY <1>6, <2>1, <2>2
  <1>0. ASSUME NEW u \in S
        PROVE  counted[u] = IF u \in held THEN handle[u].created ELSE created[u]
    <2>1. counted[u] = created[u] + (IF u \in held THEN handle[u].created - created[u] ELSE 0)
      OBVIOUS
    <2> HIDE DEF counted, created, held, S
    <2>2. created[u] \in Int /\ (u \in held => handle[u].created \in Int)
      <3>1. created[u] \in Int
        BY <1>6
      <3>2. u \in held => handle[u].created \in Nat
        BY <1>7
      <3> QED  BY <3>1, <3>2
    <2> QED  BY <2>1, <2>2
  <1>8. Sum(correction, held) = Sum(extra, S)
    <2> HIDE DEF extra, correction, held, S
    <2>1. \A u \in S \ held : extra[u] = 0
      BY DEF extra
    <2>2. Sum(extra, S) = Sum(extra, held)
      BY <1>1, <1>7, <2>1, SumRestrict
    <2>3. Sum(extra, held) = Sum(correction, held)
      BY <1>1, <1>7, SumSame
    <2> QED  BY <2>2, <2>3
  <1>9. Sum(created, S) + Sum(extra, S) = Sum(counted, S)
    <2> HIDE DEF extra, created, S
    <2> QED  BY <1>1, <1>6, <1>7, SumPlus
  <1>10. counted = Of("created")
    <2>1. ASSUME NEW u \in S PROVE counted[u] = V!RunnerView(u)["created"]
      <3>1. V!RunnerView(u)["created"] =
                IF handle[u] # Null THEN handle[u].created ELSE created[u]
        BY <1>1, RunnerFields, WorkerFields DEF V!DurableFields
      <3>2. u \in held <=> handle[u] # Null
        OBVIOUS
      <3> HIDE DEF created, counted, held, S
      <3> QED  BY <1>0, <3>1, <3>2
    <2> QED  BY <2>1
  <1>11. view["created"] = Sum(Of("created"), S)
    BY <1>4, <1>8, <1>9, <1>10
  <1>12. ASSUME NEW u \in S
         PROVE  /\ submitted[u] <= created[u] /\ created[u] <= planned[u]
                /\ submitted[u] \in Nat /\ created[u] \in Nat /\ planned[u] \in Nat
                /\ created[u] <= counted[u] /\ counted[u] <= planned[u]
                /\ inState("submitted")[u] + inState("succeeded")[u] + inState("failed")[u]
                        + inState("indeterminate")[u] <= submitted[u]
    <2>1. /\ submitted[u] <= created[u] /\ created[u] <= planned[u]
          /\ submitted[u] \in Nat /\ created[u] \in Nat /\ planned[u] \in Nat
          /\ inState("submitted")[u] + inState("succeeded")[u] + inState("failed")[u]
                        + inState("indeterminate")[u] <= submitted[u]
      BY <1>1, RunnerCounts, NumbersOf
    <2>2. counted[u] = IF u \in held THEN handle[u].created ELSE created[u]
      BY <1>0
    <2>3. u \in held => created[u] <= handle[u].created /\ handle[u].created <= planned[u]
      <3> SUFFICES ASSUME u \in held PROVE created[u] <= handle[u].created /\ handle[u].created <= planned[u]
        OBVIOUS
      <3>1. \/ handle[u].created = planned[u]
            \/ handle[u].created = 0 /\ V!Workers(u) = {}
        BY <1>1, ViewsCount, NumbersOf DEF V!RunnerKept
      <3>2. V!Workers(u) = {} => created[u] = 0
        BY FS_EmptySet
      <3> QED  BY <2>1, <3>1, <3>2
    <2> HIDE DEF created, held, S, counted, planned, submitted, inState
    <2> QED  BY <2>1, <2>2, <2>3
  <1>16. \A p \in V!Phases :
            V!CampaignPhases(c)[p] = V!Cardinality({u \in S : V!PhaseOf(u) = p})
    <2> TAKE p \in V!Phases
    <2> DEFINE inRows == {u \in S : V!StoredPhase(u) = p}
               was == {u \in held : V!StoredPhase(u) = p}
               is == {u \in held : V!HandlePhase(u) = p}
               phase == {u \in S : V!PhaseOf(u) = p}
               rest == {u \in S \ held : V!StoredPhase(u) = p}
    <2>1. V!CampaignPhases(c)[p] = Cardinality(inRows) - Cardinality(was) + Cardinality(is)
      BY <1>3, ViewsCount DEF V!CampaignPhases
    <2>2. /\ inRows = was \cup rest /\ was \cap rest = {}
          /\ phase = is \cup rest /\ is \cap rest = {}
          /\ was \in SUBSET S /\ is \in SUBSET S /\ rest \in SUBSET S
      BY DEF V!PhaseOf
    <2> HIDE DEF inRows, was, is, phase, rest, S, held
    <2>3. \A X \in SUBSET S : IsFiniteSet(X) /\ Cardinality(X) \in Nat
      BY <1>1, FS_Subset, FS_CardinalityType
    <2>4. /\ Cardinality(inRows) = Cardinality(was) + Cardinality(rest)
          /\ Cardinality(phase) = Cardinality(is) + Cardinality(rest)
      BY <2>2, <2>3, DisjointUnion
    <2>5. V!CampaignPhases(c)[p] = Cardinality(phase)
      BY <2>1, <2>2, <2>3, <2>4
    <2> QED  BY <2>5, ViewsCount DEF phase
  <1>17. ASSUME sampled, NEW f \in V!LiveFields PROVE view[f] = Sum(Of(f), S)
    <2> DEFINE R == V!Resident(c)
               live == [u \in R |-> V!LiveOf(u)[f]]
    <2>1. R \in SUBSET S
      BY DEF V!Resident
    <2>2. ASSUME NEW u \in S PROVE Of(f)[u] = V!LiveOf(u)[f] /\ V!LiveOf(u)[f] \in Int
      <3>1. Of(f)[u] = V!LiveOf(u)[f]
        BY <1>1, <1>17, RunnerFields
      <3>2. /\ waiting[u] \in Int
            /\ pool[u] # Null => pool[u].queued \in Int /\ pool[u].running \in Int
        BY <1>1 DEF V!RunnerKept
      <3> QED  BY <3>1, <3>2 DEF V!LiveOf, V!LiveFields
    <2>3. ASSUME NEW u \in S \ R PROVE V!LiveOf(u)[f] = 0
      <3>1. handle[u] = Null /\ pool[u] = Null
        BY <1>1 DEF V!Resident, V!Live
      <3>2. waiting[u] = 0
        BY <1>1, <3>1 DEF V!RunnerKept
      <3> QED  BY <3>1, <3>2 DEF V!LiveOf, V!LiveFields
    <2>4. view[f] = Sum(live, R)
      BY <1>4, <1>17
    <2>5. Of(f) \in [S -> Int]
      BY <2>2
    <2>6. \A u \in R : Of(f)[u] = live[u]
      BY <2>1, <2>2
    <2>7. \A u \in S \ R : Of(f)[u] = 0
      BY <2>2, <2>3
    <2> HIDE DEF R, S, live, Of
    <2>8. Sum(Of(f), S) = Sum(Of(f), R)
      BY <1>1, <2>1, <2>5, <2>7, SumRestrict
    <2>9. Sum(Of(f), R) = Sum(live, R)
      BY <1>1, <2>1, <2>5, <2>6, SumSame
    <2> QED  BY <2>4, <2>8, <2>9
  <1> HIDE DEF S, held
  <1>13. V!NotSubmitted(Sum(planned, S), Sum(submitted, S)) = Sum(Of("not_submitted"), S)
    <2> DEFINE rest == [u \in S |-> planned[u] - submitted[u]]
               both == [u \in S |-> submitted[u] + rest[u]]
    <2>1. rest \in [S -> Int] /\ both = planned
      BY <1>6, <1>12
    <2>2. Of("not_submitted") = rest
      <3>1. ASSUME NEW u \in S PROVE V!RunnerView(u)["not_submitted"] = planned[u] - submitted[u]
        <4>1. V!RunnerView(u)["not_submitted"] = V!NotSubmitted(planned[u], submitted[u])
          BY <1>1, RunnerFields, WorkerFields DEF V!DurableFields
        <4> QED  BY <1>12, <4>1 DEF V!NotSubmitted
      <3> HIDE DEF planned, submitted
      <3> QED  BY <3>1
    <2> HIDE DEF planned, submitted, rest
    <2>3. Sum(planned, S) = Sum(submitted, S) + Sum(rest, S)
      BY <1>1, <1>6, <2>1, SumPlus
    <2>4. Sum(submitted, S) <= Sum(planned, S)
      BY <1>1, <1>6, <1>12, SumMono
    <2>5. Sum(planned, S) \in Int /\ Sum(submitted, S) \in Int /\ Sum(rest, S) \in Int
      BY <1>1, <1>6, <2>1, SumType
    <2>6. V!NotSubmitted(Sum(planned, S), Sum(submitted, S)) = Sum(rest, S)
      BY <2>3, <2>4, <2>5 DEF V!NotSubmitted
    <2> QED  BY <2>2, <2>6
  <1>14. /\ Of("planned") = planned /\ Of("submitted") = submitted
         /\ Of("pending_results") = inState("submitted")
         /\ \A f \in V!ResultFields : Of(f) = inState(f)
    <2>1. ASSUME NEW u \in S
          PROVE  /\ V!RunnerView(u)["planned"] = planned[u]
                 /\ V!RunnerView(u)["submitted"] = submitted[u]
                 /\ V!RunnerView(u)["pending_results"] = inState("submitted")[u]
                 /\ \A f \in V!ResultFields : V!RunnerView(u)[f] = inState(f)[u]
      BY <1>1, RunnerFields, WorkerFields DEF V!DurableFields, V!ResultFields
    <2> QED  BY <2>1
  <1>15. \A f \in V!DurableFields : view[f] = Sum(Of(f), S)
    <2>1. V!DurableFields = {"planned", "created", "submitted", "not_submitted", "pending_results"}
                            \cup V!ResultFields
      BY DEF V!DurableFields, V!ResultFields
    <2> HIDE DEF Of, planned, created, submitted, inState
    <2> QED  BY <1>5, <1>11, <1>13, <1>14, <2>1
  <1>18. view["created"] <= view["planned"] /\ view["submitted"] <= view["created"]
    <2>1. view["created"] = Sum(counted, S) /\ counted \in [S -> Int]
      <3>1. counted \in [S -> Int]
        <4>1. ASSUME NEW u \in S PROVE counted[u] \in Int
          <5> HIDE DEF counted, created
          <5>1. created[u] \in Int /\ (u \in held => handle[u].created \in Int)
            <6>1. created[u] \in Int
              BY <1>6
            <6>2. u \in held => handle[u].created \in Nat
              BY <1>7
            <6> QED  BY <6>1, <6>2
          <5> QED  BY <1>0, <5>1
        <4> QED  BY <4>1
      <3> HIDE DEF counted
      <3> QED  BY <1>10, <1>11, <3>1
    <2> HIDE DEF planned, counted, submitted
    <2>2. Sum(counted, S) <= Sum(planned, S)
      BY <1>1, <1>6, <1>12, <2>1, SumMono
    <2>3. \A u \in S : submitted[u] <= counted[u]
      <3> TAKE u \in S
      <3>1. /\ submitted[u] \in Nat /\ created[u] \in Nat /\ counted[u] \in Int
            /\ submitted[u] <= created[u] /\ created[u] <= counted[u]
        BY <1>12, <2>1
      <3> HIDE DEF created
      <3> QED  BY <3>1
    <2>4. Sum(submitted, S) <= Sum(counted, S)
      BY <1>1, <1>6, <2>1, <2>3, SumMono
    <2> QED  BY <1>5, <2>1, <2>2, <2>4
  <1>19. view["submitted"] >= view["pending_results"] + view["succeeded"] + view["failed"]
                              + view["indeterminate"]
    <2> DEFINE a == inState("submitted")
               b == inState("succeeded")
               d == inState("failed")
               e == inState("indeterminate")
               ab == [u \in S |-> a[u] + b[u]]
               abd == [u \in S |-> ab[u] + d[u]]
               abde == [u \in S |-> abd[u] + e[u]]
    <2>1. a \in [S -> Int] /\ b \in [S -> Int] /\ d \in [S -> Int] /\ e \in [S -> Int]
      BY <1>6
    <2>2. /\ view["pending_results"] = Sum(a, S) /\ view["succeeded"] = Sum(b, S)
          /\ view["failed"] = Sum(d, S) /\ view["indeterminate"] = Sum(e, S)
      BY <1>5 DEF V!ResultFields
    <2>3. \A u \in S : a[u] + b[u] + d[u] + e[u] <= submitted[u]
      BY <1>12
    <2> HIDE DEF a, b, d, e, submitted
    <2>4. ab \in [S -> Int] /\ abd \in [S -> Int] /\ abde \in [S -> Int]
          /\ \A u \in S : abde[u] <= submitted[u]
      BY <2>1, <2>3
    <2>5. Sum(ab, S) = Sum(a, S) + Sum(b, S)
      BY <1>1, <2>1, SumPlus
    <2> HIDE DEF ab
    <2>6. Sum(abd, S) = Sum(ab, S) + Sum(d, S)
      BY <1>1, <2>1, <2>4, SumPlus
    <2> HIDE DEF abd
    <2>7. Sum(abde, S) = Sum(abd, S) + Sum(e, S)
      BY <1>1, <2>1, <2>4, SumPlus
    <2> HIDE DEF abde
    <2>8. Sum(abde, S) <= Sum(submitted, S)
      BY <1>1, <1>6, <2>4, SumMono
    <2>9. /\ Sum(a, S) \in Int /\ Sum(b, S) \in Int /\ Sum(d, S) \in Int /\ Sum(e, S) \in Int
          /\ Sum(submitted, S) \in Int
      BY <1>1, <1>6, <2>1, SumType
    <2> QED  BY <1>5, <2>2, <2>5, <2>6, <2>7, <2>8, <2>9
  <1>20. ASSUME NEW f \in V!DurableFields \cup (IF sampled THEN V!LiveFields ELSE {})
         PROVE  view[f] = V!TotalOf(S, LAMBDA u : V!RunnerView(u)[f])
    BY <1>2, <1>15, <1>17
  <1> QED  BY <1>16, <1>18, <1>19, <1>20 DEF S, view

\* In every state of any number of Runners, the progress of a Campaign (one count
\* by the database, corrected for the resident Runners) is the sum of the progress
\* of its Runners, and no Worker is counted twice or lost (api/progress.py).
THEOREM CampaignsSumUp == ServicesSpec => []CampaignViewIsTheSum
  <1> DEFINE Inv == part = "views" => V!ViewsInvariant
  <1>1. ServicesInit => Inv
    BY ViewsInit DEF ServicesInit
  <1>2. Inv /\ [ServicesNext /\ UNCHANGED part]_<<part, serviceVars>> => Inv'
    BY ServiceStep, ViewsStep
  <1>3. Inv => CampaignViewIsTheSum
    BY ViewsInvariantSuffices DEF CampaignViewIsTheSum
  <1> QED  BY <1>1, <1>2, <1>3, PTL DEF ServicesSpec

-----------------------------------------------------------------------------
(* The mailbox of a Runner.                                                *)

\* What the steps need besides TypeOK: finite sets have a cardinality, and a
\* reconciler that recovers has found a message.
BufferTyped ==
    /\ TypeOK
    /\ IsFiniteSet(buffer)
    /\ IsFiniteSet(batch)
    /\ reader.at = "recovering" => reader.found \in stored

\* The capacities are positive.
LEMMA Positive == Capacity \in Nat \ {0} /\ BatchLimit \in Nat \ {0}
BY CapacityAssumption

\* An empty buffer is within its capacity.
LEMMA EmptyBuffer == IsFiniteSet({}) /\ Cardinality({}) = 0 /\ Cardinality({}) <= Capacity
BY FS_EmptySet, Positive

\* Adding a message to a finite buffer adds at most one to its size.
LEMMA GrowByOne ==
    ASSUME IsFiniteSet(buffer), Cardinality(buffer) < Capacity, NEW m
    PROVE  IsFiniteSet(buffer \cup {m}) /\ Cardinality(buffer \cup {m}) <= Capacity
<1>1. Cardinality(buffer) \in Nat
  BY FS_CardinalityType
<1>2. IsFiniteSet(buffer \cup {m})
      /\ Cardinality(buffer \cup {m}) \in {Cardinality(buffer), Cardinality(buffer) + 1}
  BY FS_AddElement
<1> QED BY <1>1, <1>2, Positive

\* Removing messages from a finite buffer does not make it larger.
LEMMA ShrinkBuffer ==
    ASSUME IsFiniteSet(buffer), Cardinality(buffer) <= Capacity, NEW B
    PROVE  IsFiniteSet(buffer \ B) /\ Cardinality(buffer \ B) <= Capacity
<1>1. IsFiniteSet(buffer \ B) /\ Cardinality(buffer \ B) <= Cardinality(buffer)
  BY FS_Subset, buffer \ B \subseteq buffer
<1> QED BY <1>1, FS_CardinalityType, Positive

\* What receive returns is a non-empty part of the buffer.
LEMMA BatchNonEmpty ==
    ASSUME IsFiniteSet(buffer), buffer # {}, NEW b \in Batches
    PROVE  b \subseteq buffer /\ b # {}
<1>1. Cardinality(buffer) \in Nat \ {0}
  BY FS_CardinalityType, FS_EmptySet
<1>2. Cardinality(b) # 0
  BY <1>1, Positive DEF Batches
<1> QED BY <1>2, FS_EmptySet DEF Batches

-----------------------------------------------------------------------------
\* One step keeps the types: the buffer stays within its capacity on every path
\* into it, direct delivery and recovery.
LEMMA TypeStep == BufferTyped /\ [Next]_vars => BufferTyped'
<1> SUFFICES ASSUME BufferTyped, [Next]_vars PROVE BufferTyped'
  OBVIOUS
<1> USE DEF BufferTyped, TypeOK, ConsumerStates, ReaderStates, None, NoPass
<1>1. ASSUME NEW m \in Message, Store(m) PROVE BufferTyped'
  BY <1>1 DEF Store
<1>2. ASSUME NEW m \in Message, Deliver(m) PROVE BufferTyped'
  BY <1>2, GrowByOne DEF Deliver, Fits
<1>3. CASE StartPass
  BY <1>3 DEF StartPass, store
<1>4. CASE ReadPending
  <2>1. CASE reader' = NoPass
    BY <1>4, <2>1 DEF ReadPending, store
  <2>2. CASE reader' # NoPass
    <3>1. PICK m \in Pending :
            reader' = [reader EXCEPT !.at = "recovering", !.found = m]
      BY <1>4, <2>2 DEF ReadPending
    <3>2. reader' \in [at : ReaderStates, revision : Nat, found : stored \cup {None}]
          /\ reader'.found \in stored
      BY <3>1 DEF Pending
    <3> QED BY <1>4, <3>2 DEF ReadPending, store
  <2> QED BY <2>1, <2>2
<1>5. CASE Recover
  <2>1. CASE Fresh /\ reader.found \notin buffer
    <3>1. buffer' = buffer \cup {reader.found} /\ recovered' = recovered \cup {reader.found}
      BY <1>5, <2>1 DEF Recover
    <3>2. IsFiniteSet(buffer') /\ Cardinality(buffer') <= Capacity
      BY <3>1, <2>1, GrowByOne DEF Fresh
    <3> QED BY <1>5, <3>1, <3>2 DEF Recover, store
  <2>2. CASE ~(Fresh /\ reader.found \notin buffer)
    BY <1>5, <2>2 DEF Recover, store
  <2> QED BY <2>1, <2>2
<1>6. CASE Look
  <2>1. CASE pc' = "received"
    <3>1. batch' \in Batches /\ buffer # {} /\ subscribed' = TRUE
          /\ times' = [m \in Message |-> times[m] + IF m \in batch' THEN 1 ELSE 0]
      BY <1>6, <2>1 DEF Look
    <3>2. times' \in [Message -> Nat]
      BY <3>1
    <3>3. batch' \subseteq buffer /\ IsFiniteSet(batch')
      BY <3>1, FS_Subset DEF Batches
    <3> QED BY <1>6, <2>1, <3>1, <3>2, <3>3 DEF Look, store
  <2>2. CASE pc' # "received"
    BY <1>6, <2>2 DEF Look, store
  <2> QED BY <2>1, <2>2
<1>7. CASE WakeUp
  BY <1>7 DEF WakeUp, store
<1>8. CASE Apply
  BY <1>8 DEF Apply, store
<1>9. CASE Acknowledge
  BY <1>9 DEF Acknowledge
<1>10. CASE Drop
  <2>1. IsFiniteSet(buffer') /\ Cardinality(buffer') <= Capacity
    BY <1>10, ShrinkBuffer DEF Drop
  <2>2. revision' \in Nat
    BY <1>10, FS_CardinalityType DEF Drop
  <2> QED BY <1>10, <2>1, <2>2, EmptyBuffer DEF Drop, store
<1>11. CASE EndRun
  BY <1>11, EmptyBuffer DEF EndRun, store
<1>12. CASE Close
  BY <1>12, EmptyBuffer DEF Close, store
<1>13. CASE UNCHANGED vars
  BY <1>13 DEF vars
<1> QED
  BY <1>1, <1>2, <1>3, <1>4, <1>5, <1>6, <1>7, <1>8, <1>9, <1>10, <1>11, <1>12,
     <1>13 DEF Next, Reader, Consumer

\* BufferTyped holds initially.
LEMMA InitTyped == Init => BufferTyped
<1> SUFFICES ASSUME Init PROVE BufferTyped
  OBVIOUS
<1>1. times \in [Message -> Nat]
  BY DEF Init
<1>2. reader \in [at : ReaderStates, revision : Nat, found : stored \cup {None}]
      /\ reader.at = "idle"
  BY DEF Init, NoPass, ReaderStates
<1>3. IsFiniteSet(buffer) /\ IsFiniteSet(batch) /\ Cardinality(buffer) <= Capacity
  BY EmptyBuffer DEF Init
<1> QED BY <1>1, <1>2, <1>3 DEF Init, BufferTyped, TypeOK, ConsumerStates

\* BufferTyped holds in every reachable state.
LEMMA BufferInvariant == Spec => []BufferTyped
BY InitTyped, TypeStep, PTL DEF Spec

\* Every variable of the bus keeps its type; in particular the buffer never
\* holds more than Capacity messages.
THEOREM BusTypes == Spec => []TypeOK
<1>1. BufferTyped => TypeOK
  BY DEF BufferTyped
<1> QED BY <1>1, BufferInvariant, PTL

-----------------------------------------------------------------------------
\* One step keeps ReadsAreCurrent: an acknowledgement reaches the buffer and
\* the revision in the same step, and only a recovery adds to recovered.
LEMMA ReadsStep ==
    BufferTyped /\ ReadsAreCurrent /\ [Next]_vars => ReadsAreCurrent'
<1> SUFFICES ASSUME BufferTyped, ReadsAreCurrent, [Next]_vars
             PROVE  ReadsAreCurrent'
  OBVIOUS
<1> USE DEF BufferTyped, TypeOK, ReadsAreCurrent, RecoveredIsPending
<1>1. ASSUME NEW m \in Message, Store(m) PROVE ReadsAreCurrent'
  BY <1>1 DEF Store
<1>2. ASSUME NEW m \in Message, Deliver(m) PROVE ReadsAreCurrent'
  BY <1>2 DEF Deliver
<1>3. CASE StartPass
  BY <1>3 DEF StartPass, store
<1>4. CASE ReadPending
  <2>1. CASE reader' = NoPass
    BY <1>4, <2>1 DEF ReadPending, store, NoPass
  <2>2. CASE reader' # NoPass
    <3>1. PICK m \in Pending :
            reader' = [reader EXCEPT !.at = "recovering", !.found = m]
      BY <1>4, <2>2 DEF ReadPending
    <3>2. reader'.found \notin receipts /\ reader'.revision = reader.revision
      BY <3>1 DEF Pending
    <3> QED BY <1>4, <3>2 DEF ReadPending, store
  <2> QED BY <2>1, <2>2
<1>5. CASE Recover
  <2>1. reader'.at = "idle"
    BY <1>5 DEF Recover, NoPass
  <2>2. ASSUME NEW m \in recovered' \cap receipts'
        PROVE  pc = "stopped" \/ (pc = "acknowledged" /\ m \in batch)
    <3>1. CASE m \in recovered
      BY <1>5, <2>2, <3>1 DEF Recover, store
    <3>2. CASE m \notin recovered
      BY <1>5, <2>2, <3>2 DEF Recover, Fresh, store
    <3> QED BY <3>1, <3>2
  <2> QED BY <1>5, <2>1, <2>2 DEF Recover, store
<1>6. CASE Look
  <2>1. batch' # {} \/ pc' # "received"
    BY <1>6, BatchNonEmpty DEF Look
  <2>2. recovered \cap receipts = {} /\ pc = "looking"
    BY <1>6 DEF Look
  <2> QED BY <1>6, <2>1, <2>2 DEF Look, store
<1>7. CASE WakeUp
  BY <1>7 DEF WakeUp, store
<1>8. CASE Apply
  BY <1>8 DEF Apply, store
<1>9. CASE Acknowledge
  BY <1>9 DEF Acknowledge
<1>10. CASE Drop
  <2>1. recovered' \cap receipts' = {}
    BY <1>10 DEF Drop, store
  <2>2. Cardinality(batch) \in Nat \ {0}
    BY <1>10, FS_CardinalityType, FS_EmptySet DEF Drop
  <2>3. closed \/ revision' > revision
    BY <1>10, <2>2 DEF Drop
  <2>4. revision' >= revision
    BY <1>10, <2>2 DEF Drop
  <2> QED BY <1>10, <2>1, <2>3, <2>4 DEF Drop, store
<1>11. CASE EndRun
  BY <1>11 DEF EndRun, store
<1>12. CASE Close
  BY <1>12 DEF Close, store
<1>13. CASE UNCHANGED vars
  BY <1>13 DEF vars
<1> QED
  BY <1>1, <1>2, <1>3, <1>4, <1>5, <1>6, <1>7, <1>8, <1>9, <1>10, <1>11, <1>12,
     <1>13 DEF Next, Reader, Consumer

\* The reconciler never brings an acknowledged message back into the buffer,
\* however its reads and the acknowledgements interleave.
THEOREM RecoveryIsCurrent == Spec => []RecoveredIsPending
<1>1. Init => ReadsAreCurrent
  BY DEF Init, NoPass, ReadsAreCurrent, RecoveredIsPending
<1>2. ReadsAreCurrent => RecoveredIsPending
  BY DEF ReadsAreCurrent
<1> QED BY <1>1, <1>2, ReadsStep, BufferInvariant, PTL DEF Spec

\* receive never sleeps over a buffered message: every path into the buffer
\* moves the generation that receive compares.
THEOREM WakeupsAreKept == Spec => []NoLostWakeup
<1>1. Init => NoLostWakeup
  BY DEF Init, NoLostWakeup
<1>2. NoLostWakeup /\ [Next]_vars => NoLostWakeup'
  BY DEF NoLostWakeup, Next, Reader, Consumer, Store, Deliver, StartPass,
         ReadPending, Recover, Look, WakeUp, Apply, Acknowledge, Drop, EndRun,
         Close, vars, store
<1> QED BY <1>1, <1>2, PTL DEF Spec

\* What run() received stays in the buffer until its receipts are committed.
THEOREM BatchesStayBuffered == Spec => []BatchIsBuffered
<1>1. Init => BatchIsBuffered
  BY DEF Init, BatchIsBuffered
<1>2. BatchIsBuffered /\ [Next]_vars => BatchIsBuffered'
  BY DEF BatchIsBuffered, Next, Reader, Consumer, Store, Deliver, StartPass,
         ReadPending, Recover, Look, Batches, WakeUp, Apply, Acknowledge, Drop,
         EndRun, Close, vars, store
<1> QED BY <1>1, <1>2, PTL DEF Spec

-----------------------------------------------------------------------------
\* One step keeps HandedOverOnce: the reconciler only adds a message that was
\* never handed over, and a delivery uses up the one redelivery it may cause.
LEMMA HandedOverStep ==
    /\ BufferTyped /\ ReadsAreCurrent /\ BatchIsBuffered
    /\ HandedOverOnce /\ AtMostOneRedelivery /\ [Next]_vars
    => HandedOverOnce' /\ AtMostOneRedelivery'
<1> DEFINE Handed == HandedOverOnce /\ AtMostOneRedelivery
<1> SUFFICES ASSUME BufferTyped, ReadsAreCurrent, BatchIsBuffered, Handed, [Next]_vars
             PROVE  Handed'
  OBVIOUS
<1> USE DEF BufferTyped, TypeOK, BatchIsBuffered, HandedOverOnce, AtMostOneRedelivery
<1>1. ASSUME NEW m \in Message, Store(m) PROVE Handed'
  BY <1>1 DEF Store
<1>2. ASSUME NEW m \in Message, Deliver(m) PROVE Handed'
  BY <1>2 DEF Deliver, Fits
<1>3. CASE StartPass \/ ReadPending
  BY <1>3 DEF StartPass, ReadPending, store
<1>4. CASE Recover
  <2>1. ASSUME NEW m \in buffer' \ batch', m \notin buffer, pc # "stopped"
        PROVE  times[m] = 0
    <3>1. m = reader.found /\ Fresh /\ m \notin batch
      BY <1>4, <2>1 DEF Recover, Fresh
    <3>2. m \notin receipts
      BY <1>4, <2>1, <3>1 DEF Recover, Fresh, ReadsAreCurrent
    <3> QED BY <3>1, <3>2, <2>1, <1>4 DEF Recover
  <2> QED BY <1>4, <2>1 DEF Recover, store
<1>5. CASE Look
  <2>1. CASE pc' = "received"
    <3>1. batch = {} /\ batch' \subseteq buffer
          /\ times' = [m \in Message |-> times[m] + IF m \in batch' THEN 1 ELSE 0]
      BY <1>5, <2>1 DEF Look, Batches
    <3> QED BY <1>5, <2>1, <3>1 DEF Look, store
  <2>2. CASE pc' # "received"
    BY <1>5, <2>2 DEF Look, store
  <2> QED BY <2>1, <2>2
<1>6. CASE WakeUp \/ Apply \/ Acknowledge \/ Drop
  BY <1>6 DEF WakeUp, Apply, Acknowledge, Drop, store
<1>7. CASE EndRun \/ Close
  BY <1>7 DEF EndRun, Close, store
<1>8. CASE UNCHANGED vars
  BY <1>8 DEF vars
<1> QED
  BY <1>1, <1>2, <1>3, <1>4, <1>5, <1>6, <1>7, <1>8 DEF Next, Reader, Consumer

\* A message reaches run() at most twice, and a second time only through its own
\* late delivery, whatever the reconciler recovers in the meantime.
THEOREM RedeliveredAtMostOnce == Spec => []AtMostOneRedelivery
<1>1. Init => HandedOverOnce /\ AtMostOneRedelivery
  BY DEF Init, HandedOverOnce, AtMostOneRedelivery
<1>2. Init => ReadsAreCurrent
  BY DEF Init, NoPass, ReadsAreCurrent, RecoveredIsPending
<1> QED
  BY <1>1, <1>2, HandedOverStep, ReadsStep, BufferInvariant, BatchesStayBuffered, PTL DEF Spec

-----------------------------------------------------------------------------
\* The bus implements the safety part of the abstract Mailbox: a message is
\* handled only after it was stored, and never un-handled.
THEOREM ImplementsMailbox == Spec => Abstract!Safety
<1>1. Init => Abstract!Init
  BY DEF Init, Abstract!Init
<1>2. BufferTyped /\ [Next]_vars => [Abstract!Next]_(Abstract!mailboxVars)
  <2> SUFFICES ASSUME BufferTyped, [Next]_vars
               PROVE  Abstract!Next \/ UNCHANGED Abstract!mailboxVars
    OBVIOUS
  <2> USE DEF BufferTyped, TypeOK, Abstract!Next, Abstract!mailboxVars
  <2>1. ASSUME NEW m \in Message, Store(m) PROVE Abstract!Store(m)
    BY <2>1 DEF Store, Abstract!Store
  <2>2. ASSUME NEW m \in Message, Deliver(m) PROVE UNCHANGED Abstract!mailboxVars
    BY <2>2 DEF Deliver
  <2>3. CASE Reader
    BY <2>3 DEF Reader, StartPass, ReadPending, Recover, store
  <2>4. CASE Apply
    <3>1. Abstract!Handle(batch)
      BY <2>4 DEF Apply, Abstract!Handle, store
    <3> QED BY <3>1
  <2>5. CASE Look
    <3>1. CASE closed
      BY <2>5, <3>1 DEF Look, store
    <3>2. CASE ~closed
      BY <2>5, <3>2 DEF Look, store
    <3> QED BY <3>1, <3>2
  <2>6. CASE WakeUp \/ Acknowledge \/ Drop
    BY <2>6 DEF WakeUp, Acknowledge, Drop, store
  <2>7. CASE EndRun
    <3>1. Abstract!Close
      BY <2>7 DEF EndRun, Abstract!Close, store
    <3> QED BY <3>1
  <2>8. CASE Close
    <3>1. Abstract!Close
      BY <2>8 DEF Close, Abstract!Close, store
    <3> QED BY <3>1
  <2>9. CASE UNCHANGED vars
    BY <2>9 DEF vars
  <2> QED
    BY <2>1, <2>2, <2>3, <2>4, <2>5, <2>6, <2>7, <2>8, <2>9 DEF Next, Consumer
<1> QED BY <1>1, <1>2, BufferInvariant, PTL DEF Spec, Abstract!Safety

\* The buffer is consistent: the theorems about it together.
THEOREM BufferStaysConsistent == Spec => []BufferConsistent
<1>1. TypeOK /\ RecoveredIsPending /\ NoLostWakeup /\ BatchIsBuffered => BufferConsistent
  BY DEF BufferConsistent
<1> QED BY <1>1, BusTypes, RecoveryIsCurrent, WakeupsAreKept, BatchesStayBuffered, PTL
=============================================================================
