---------------------------- MODULE ArtifactCache ----------------------------
(***************************************************************************)
(* Resolution of Hugging Face artifacts (artifacts/resolver.py): threads   *)
(* of one or more Backends resolve one dataset file or one tokenizer, over *)
(* a memory cache per Backend and a directory all of them share.  The API  *)
(* resolves what a submission asks for and freezes the revision into the   *)
(* Runner; the Scheduler resolves the frozen revision again to execute it. *)
(*                                                                         *)
(* The content of an artifact is the commit it was made from.  The Hub and *)
(* its cache are external: a commit has a snapshot directory, the cache    *)
(* remembers the commit main was last seen at, and a file below snapshots/ *)
(* is a symbolic link into blobs/.                                         *)
(***************************************************************************)
EXTENDS Naturals, FiniteSets

CONSTANTS
    Threads,        \* executor threads that resolve
    Backends,       \* processes
    Commits,        \* the commits of the repository, a set of naturals
    main,           \* the mutable revision
    None,           \* no commit, no thread, no entry
    Deployments,    \* where the threads run and which processes are offline
    MaxCalls,       \* bound on the resolutions of a behaviour
    MaxFaults       \* bound on lost processes, lost directories, failed downloads

VARIABLES
    kind,       \* "dataset" or "tokenizer": the two caches are independent
    backend,    \* the process of each thread
    offline,    \* the processes with local_files_only
    head,       \* the commit main stands for on the Hub
    snap,       \* the local snapshot of each commit: absent, partial, complete
    ref,        \* the commit the local cache has for main
    target,     \* resolved/: what the directory of each commit holds
    entries,    \* _entries of each process: what a revision was resolved to
    holder,     \* the key locks of each process
    job,        \* what each thread is doing
    frozen,     \* the revisions frozen into Runners, with the content of then
    calls, faults

files == <<snap, ref, target>>
config == <<kind, backend, offline>>
budget == <<calls, faults>>
vars == <<config, head, files, entries, holder, job, frozen, budget>>

Revisions == Commits \cup {main}
NoJob == [pc |-> "idle"]
Entry(revision, content) == [revision |-> revision, content |-> content]
NoEntry == [revision |-> None, content |-> None]

Init ==
    /\ kind \in {"dataset", "tokenizer"}
    /\ \E d \in Deployments : backend = d.backend /\ offline = d.offline
    /\ head = CHOOSE c \in Commits : \A d \in Commits : c <= d
    /\ snap \in {[c \in Commits |-> IF c = head THEN state ELSE "absent"] :
                    state \in {"absent", "complete"}}
    /\ ref \in {None} \cup {c \in {head} : snap[c] = "complete"}
    /\ target = [c \in Commits |-> None]
    /\ entries = [b \in Backends |-> [r \in Revisions |-> NoEntry]]
    /\ holder = [b \in Backends |-> [r \in Revisions |-> None]]
    /\ job = [t \in Threads |-> NoJob]
    /\ frozen \in {{}, {Entry(head, head)}}     \* a Runner of before a restart
    /\ calls = 0
    /\ faults = 0

Online(t) == backend[t] \notin offline

-----------------------------------------------------------------------------
(* The Hub.                                                                *)

\* Someone pushes to the repository.
HubPush ==
    /\ \E c \in Commits : c > head /\ head' = c
    /\ UNCHANGED <<config, files, entries, holder, job, frozen, budget>>

\* The commit the Hub answers for a revision.
HubCommit(r) == IF r = main THEN head ELSE r

\* try_to_load_from_cache: the local commit of a revision, if a file of it is there.
CachedCommit(r) ==
    LET c == IF r = main THEN ref ELSE r
    IN IF c # None /\ snap[c] # "absent" THEN c ELSE None

Fault == faults < MaxFaults /\ faults' = faults + 1

\* An operator clears a resolved directory.
Evict(c) ==
    /\ target[c] = c
    /\ Fault
    /\ target' = [target EXCEPT ![c] = None]
    /\ UNCHANGED <<config, head, snap, ref, entries, holder, job, frozen, calls>>

-----------------------------------------------------------------------------
(* Requests.                                                               *)

Step(t, j) == job' = [job EXCEPT ![t] = j]
At(t, pc) == job[t].pc = pc

\* The API resolves what a submission names, the Scheduler what a Runner was
\* frozen with.
Start(t, r, expected) ==
    /\ At(t, "idle")
    /\ calls < MaxCalls
    /\ calls' = calls + 1
    /\ Step(t, [pc |-> "lookup", revision |-> r, expected |-> expected, commit |-> None])
    /\ UNCHANGED <<config, head, files, entries, holder, frozen, faults>>

Submit(t) == \E r \in Revisions : Start(t, r, None)
Execute(t) == \E f \in frozen : Start(t, f.revision, f.content)

\* The result is remembered under the requested and the resolved revision, and
\* the key lock is released.
Finish(t, e) ==
    LET b == backend[t]
        r == job[t].revision
    IN /\ entries' = [entries EXCEPT ![b][r] = e, ![b][e.revision] = e]
       /\ holder' = [holder EXCEPT ![b][r] = IF @ = t THEN None ELSE @]
       /\ Step(t, [pc |-> "done", revision |-> r, expected |-> job[t].expected, result |-> e])

\* Variant: the lock of the key survives the error.
FailLocked(t) ==
    /\ Step(t, NoJob)
    /\ UNCHANGED <<entries, holder>>

\* An error: the submission is refused, or the Runner fails.
Fail(t) ==
    /\ Step(t, NoJob)
    /\ holder' = [holder EXCEPT ![backend[t]] =
                    [r \in Revisions |-> IF @[r] = t THEN None ELSE @[r]]]
    /\ UNCHANGED entries

\* The caller takes the result.
Return(t) ==
    /\ At(t, "done")
    /\ frozen' = IF job[t].expected = None
                 THEN frozen \cup {Entry(job[t].result.revision, job[t].result.content)}
                 ELSE frozen
    /\ Step(t, NoJob)
    /\ UNCHANGED <<config, head, files, entries, holder, budget>>

\* A process dies: its memory and its threads are gone, what it was writing stays.
Crash(b) ==
    /\ \E t \in Threads : backend[t] = b /\ job[t].pc \notin {"idle", "done"}
    /\ Fault
    /\ job' = [t \in Threads |-> IF backend[t] = b THEN NoJob ELSE job[t]]
    /\ entries' = [entries EXCEPT ![b] = [r \in Revisions |-> NoEntry]]
    /\ holder' = [holder EXCEPT ![b] = [r \in Revisions |-> None]]
    /\ UNCHANGED <<config, head, files, frozen, calls>>

-----------------------------------------------------------------------------
(* DatasetCache._resolve_sync.                                             *)

\* What the code records: it resolves the link first, the path of a blob has no
\* snapshots/ part, and snapshot_revision returns the requested revision.
DatasetRevision(requested, commit) == requested

\* _offline_artifact: the exact snapshot, else the only one there is.
OfflineDatasets(r) ==
    LET there == {c \in Commits : snap[c] = "complete"}
    IN IF r \in there THEN {r} ELSE IF Cardinality(there) = 1 THEN there ELSE {}

DatasetFound(t) ==
    LET r == job[t].revision IN
    IF CachedCommit(r) # None THEN {CachedCommit(r)}
    ELSE IF Online(t) THEN {} ELSE OfflineDatasets(r)

DatasetLookup(t) ==
    /\ kind = "dataset" /\ At(t, "lookup")
    /\ LET r == job[t].revision
           e == entries[backend[t]][r]
       IN \/ /\ e # NoEntry
             /\ Finish(t, e)
          \/ /\ e = NoEntry
             /\ \E c \in DatasetFound(t) : Finish(t, Entry(DatasetRevision(r, c), c))
          \/ /\ e = NoEntry /\ DatasetFound(t) = {}
             /\ IF Online(t)
                THEN /\ Step(t, [job[t] EXCEPT !.pc = "download"])
                     /\ UNCHANGED <<entries, holder>>
                ELSE Fail(t)
    /\ UNCHANGED <<config, head, files, frozen, budget>>

\* hf_hub_download: a file appears complete, under the commit the Hub names.
DatasetDownload(t) ==
    /\ kind = "dataset" /\ At(t, "download")
    /\ LET r == job[t].revision
           c == HubCommit(r)
       IN /\ snap' = [snap EXCEPT ![c] = "complete"]
          /\ ref' = IF r = main THEN c ELSE ref
          /\ Finish(t, Entry(DatasetRevision(r, c), c))
    /\ UNCHANGED <<config, head, target, frozen, budget>>

-----------------------------------------------------------------------------
(* TokenizerCache._resolve_sync.                                           *)

\* Is the memory entry of a revision usable: is its directory there?
Remembered(t, r) ==
    LET e == entries[backend[t]][r] IN e # NoEntry /\ target[e.revision] # None

Resolved(c) == Entry(c, target[c])

TokenizerLookup(t) ==
    /\ kind = "tokenizer" /\ At(t, "lookup")
    /\ LET r == job[t].revision IN
       IF Remembered(t, r)
       THEN Finish(t, Resolved(entries[backend[t]][r].revision))
       ELSE /\ Step(t, [job[t] EXCEPT !.pc = "lock"])
            /\ UNCHANGED <<entries, holder>>
    /\ UNCHANGED <<config, head, files, frozen, budget>>

Acquire(t) ==
    /\ At(t, "lock")
    /\ holder[backend[t]][job[t].revision] = None
    /\ holder' = [holder EXCEPT ![backend[t]][job[t].revision] = t]
    /\ Step(t, [job[t] EXCEPT !.pc = "inspect"])
    /\ UNCHANGED <<config, head, files, entries, frozen, budget>>

\* _resolved_revision without a tokenizer: a commit as it is, main as the local
\* cache has it.
KnownCommit(r) == IF r \in Commits THEN r ELSE CachedCommit(r)

\* _offline_snapshot: the exact snapshot, resolved before loadable, else the only
\* one that is resolved, or loadable if none is.
OfflineSnapshots(r) ==
    LET there == {c \in Commits : snap[c] # "absent"}
        resolved == {c \in there : target[c] # None}
        selectable == IF resolved # {} THEN resolved ELSE there
    IN IF r \in there THEN {r}
       ELSE IF Cardinality(selectable) = 1 THEN selectable ELSE {}

\* The snapshot to load: of the revision, or offline any that is unambiguous.
SnapshotToLoad(t) ==
    LET r == job[t].revision IN
    IF CachedCommit(r) # None THEN {CachedCommit(r)}
    ELSE IF Online(t) THEN {} ELSE OfflineSnapshots(r)

\* The commits whose resolved directory answers the request.
ExistingTarget(t) ==
    LET r == job[t].revision
        known == {KnownCommit(r)} \ {None}
        offered == IF Online(t) THEN {} ELSE SnapshotToLoad(t)
        there == {c \in known : target[c] # None}
    IN IF there # {} THEN there ELSE {c \in offered : target[c] # None}

\* With the key lock: the memory again, the resolved directories, the snapshots.
Inspect(t) ==
    /\ At(t, "inspect")
    /\ LET r == job[t].revision IN
       \/ /\ Remembered(t, r)
          /\ Finish(t, Resolved(entries[backend[t]][r].revision))
       \/ /\ ~Remembered(t, r)
          /\ \E c \in ExistingTarget(t) : Finish(t, Resolved(c))
       \/ /\ ~Remembered(t, r) /\ ExistingTarget(t) = {}
          /\ \E c \in SnapshotToLoad(t) :
                Step(t, [job[t] EXCEPT !.pc = "load", !.commit = c])
          /\ UNCHANGED <<entries, holder>>
       \/ /\ ~Remembered(t, r) /\ ExistingTarget(t) = {} /\ SnapshotToLoad(t) = {}
          /\ IF Online(t)
             THEN Step(t, [job[t] EXCEPT !.pc = "download"]) /\ UNCHANGED <<entries, holder>>
             ELSE Fail(t)
    /\ UNCHANGED <<config, head, files, frozen, budget>>

\* _load_local_tokenizer: a partial snapshot lacks a file, and is downloaded
\* again unless the process is offline.
Load(t) ==
    /\ At(t, "load")
    /\ IF snap[job[t].commit] = "complete"
       THEN Step(t, [job[t] EXCEPT !.pc = "save"]) /\ UNCHANGED <<entries, holder>>
       ELSE IF Online(t)
       THEN Step(t, [job[t] EXCEPT !.pc = "download"]) /\ UNCHANGED <<entries, holder>>
       ELSE Fail(t)
    /\ UNCHANGED <<config, head, files, frozen, budget>>

\* snapshot_download: the files of the commit the Hub names appear one by one.
DownloadStart(t) ==
    /\ kind = "tokenizer" /\ At(t, "download")
    /\ LET c == HubCommit(job[t].revision) IN
       /\ Step(t, [job[t] EXCEPT !.pc = "files", !.commit = c])
       /\ ref' = IF job[t].revision = main THEN c ELSE ref
       /\ snap' = [snap EXCEPT ![c] = IF @ = "complete" THEN @ ELSE "partial"]
    /\ UNCHANGED <<config, head, target, entries, holder, frozen, budget>>

DownloadEnd(t) ==
    /\ At(t, "files")
    /\ snap' = [snap EXCEPT ![job[t].commit] = "complete"]
    /\ Step(t, [job[t] EXCEPT !.pc = "save"])
    /\ UNCHANGED <<config, head, ref, target, entries, holder, frozen, budget>>

\* The network fails, of either download.
DownloadFails(t) ==
    /\ job[t].pc \in {"download", "files"}
    /\ Fault
    /\ Fail(t)
    /\ UNCHANGED <<config, head, files, frozen, calls>>

\* Variant: the directory is named after what the request was known as.
TargetOfRequest(t) ==
    IF KnownCommit(job[t].revision) # None THEN KnownCommit(job[t].revision) ELSE job[t].commit

\* The directory is named after the snapshot that was loaded.
TargetOf(t) == job[t].commit

\* save_pretrained writes into a temporary directory of its own.
Save(t) ==
    /\ At(t, "save")
    /\ IF target[TargetOf(t)] # None
       THEN Finish(t, Resolved(TargetOf(t)))
       ELSE /\ Step(t, [job[t] EXCEPT !.pc = "rename"])
            /\ UNCHANGED <<entries, holder>>
    /\ UNCHANGED <<config, head, files, frozen, budget>>

\* The rename: a directory that another process put there first is kept.
Rename(t) ==
    /\ At(t, "rename")
    /\ LET c == TargetOf(t)
           now == IF target[c] = None THEN job[t].commit ELSE target[c]
       IN /\ target' = [target EXCEPT ![c] = now]
          /\ Finish(t, Entry(c, now))
    /\ UNCHANGED <<config, head, snap, ref, frozen, budget>>

-----------------------------------------------------------------------------
Resolve(t) ==
    \/ DatasetLookup(t) \/ DatasetDownload(t)
    \/ TokenizerLookup(t) \/ Acquire(t) \/ Inspect(t) \/ Load(t)
    \/ DownloadStart(t) \/ DownloadEnd(t) \/ DownloadFails(t)
    \/ Save(t) \/ Rename(t) \/ Return(t)

Next ==
    \/ HubPush
    \/ \E c \in Commits : Evict(c)
    \/ \E b \in Backends : Crash(b)
    \/ \E t \in Threads : Submit(t) \/ Execute(t) \/ Resolve(t)

\* A thread of the executor goes on until its call returns.
Fairness == \A t \in Threads : WF_vars(Resolve(t))

Spec == Init /\ [][Next]_vars /\ Fairness

-----------------------------------------------------------------------------
Done(t) == At(t, "done")

\* A resolved directory is complete from the moment it can be seen, and the
\* commit it is named after is the one it was made from, whichever processes
\* raced for it, were killed on the way or saw main move.
RevisionNamesContent ==
    /\ \A c \in Commits : target[c] \in {None, c}
    /\ kind = "tokenizer" => \A f \in frozen : f.revision = f.content

\* A tokenizer that was frozen into a Runner is the one the Runner is executed
\* with, on any Backend that can reach the Hub; so is a dataset that was asked for
\* by its commit, where every Backend can.
FrozenIsExecuted ==
    \A t \in Threads :
        /\ Done(t) /\ job[t].expected # None
        /\ \/ kind = "tokenizer" /\ Online(t)
           \/ job[t].revision # main /\ offline = {}
        => job[t].result.content = job[t].expected

\* Every call returns: no lock of a key is left behind by an error or a race.
ResolvesEnd == \A t \in Threads : ~At(t, "idle") ~> At(t, "idle")

-----------------------------------------------------------------------------
(* What the first two rest on.                                             *)

Entries == [revision : Revisions, content : Commits]

\* What a process makes of a revision: a tokenizer is named after its content, a
\* dataset as it was asked for, and a commit is itself where the Hub is in reach.
Faithful(b, r, e) ==
    /\ e \in Entries
    /\ kind = "tokenizer" => e.revision = e.content
    /\ kind = "dataset" => e.revision = r
    /\ b \notin offline /\ r \in Commits => e.revision = r /\ e.content = r

\* A revision whose name in a Runner tells its content.
Telling(r) == kind = "tokenizer" \/ (offline = {} /\ r \in Commits)

ConfigInvariant ==
    /\ kind \in {"dataset", "tokenizer"}
    /\ backend \in [Threads -> Backends]

FilesInvariant ==
    /\ head \in Commits
    /\ ref \in Commits \cup {None}
    /\ target = [c \in Commits |-> target[c]]
    /\ \A c \in Commits : target[c] \in {None, c}

EntriesInvariant ==
    /\ entries = [b \in Backends |-> [r \in Revisions |-> entries[b][r]]]
    /\ \A b \in Backends, r \in Revisions :
        entries[b][r] = NoEntry \/ Faithful(b, r, entries[b][r])

FrozenInvariant ==
    \A f \in frozen : f \in Entries /\ (Telling(f.revision) => f.revision = f.content)

Jobs ==
    [pc : {"lookup", "lock", "inspect", "load", "download", "files", "save", "rename"},
     revision : Revisions, expected : Commits \cup {None}, commit : Commits \cup {None}]
    \cup [pc : {"done"}, revision : Revisions, expected : Commits \cup {None}, result : Entries]

\* A thread works on the commit its request names, if the Hub is in reach.
JobFaithful(t, j) ==
    /\ j \in Jobs
    /\ j.expected # None /\ Telling(j.revision) => j.revision = j.expected
    /\ j.pc \in {"lock", "inspect", "load", "files", "save", "rename"} => kind = "tokenizer"
    /\ j.pc \in {"load", "files", "save", "rename"} =>
            j.commit \in Commits /\ (Online(t) /\ j.revision \in Commits => j.commit = j.revision)
    /\ j.pc = "done" => Faithful(backend[t], j.revision, j.result)

JobsInvariant ==
    /\ job = [t \in Threads |-> job[t]]
    /\ \A t \in Threads : job[t] = NoJob \/ JobFaithful(t, job[t])

CacheInvariant ==
    ConfigInvariant /\ FilesInvariant /\ EntriesInvariant /\ FrozenInvariant /\ JobsInvariant

=============================================================================
