--------------------------- MODULE BundleManager ---------------------------
(***************************************************************************)
(* The runtime bundle manager (go/runtime/bundle/manager.go).              *)
(*                                                                         *)
(* One worker goroutine (run) prepares the bundle directory at start-up,   *)
(* then loops: it wakes on the download channel or on the retry ticker and *)
(* downloads the queued bundles of every followed runtime.  Any number of  *)
(* other goroutines call Queue.  Queue filters the hashes already in the   *)
(* manifest store without holding the lock, then replaces the runtime's    *)
(* queue under the lock and signals the one-slot channel.  The worker      *)
(* copies a runtime's queue under the read lock, downloads without the     *)
(* lock, and under the lock removes from the queue as it is by then the    *)
(* hashes it downloaded.  A bundle is a hash; a download either succeeds  *)
(* (exploded on disk and added to the store) or fails.  A process restart  *)
(* keeps the disk and loses the store, the queue and the goroutines.      *)
(***************************************************************************)
EXTENDS Naturals, FiniteSets

CONSTANTS
    Callers,            \* goroutines calling Queue
    RuntimeIDs,         \* runtimes bundles can belong to
    Followed,           \* runtimeIDs given to NewManager
    Endpoints,          \* runtimes with a registry URL (own or global)
    Hashes,             \* manifest hashes
    ManifestRuntime,    \* manifest.ID
    Detached,           \* manifests with IsDetached()
    ConfigBundles,      \* bundles of config Runtime.Paths
    InitDisk            \* bundles exploded in the bundle directory

ASSUME Followed \subseteq RuntimeIDs /\ Endpoints \subseteq RuntimeIDs
ASSUME ManifestRuntime \in [Hashes -> RuntimeIDs]
ASSUME Detached \cup ConfigBundles \cup InitDisk \subseteq Hashes

VARIABLES
    disk,           \* manifests exploded in bundleDir
    store,          \* the manifest store (HasManifest)
    queue,          \* downloadQueue
    ch,             \* items buffered in downloadCh (capacity 1)
    wpc,            \* worker: "init", "wait", "dl" (in Download), "fetch", "stopped"
    pass,           \* followed runtimes Download has still to visit
    cur,            \* runtime downloadBundles is working on
    hashes,         \* downloadBundles' copy of the runtime's queue
    todo,           \* hashes of the copy not yet tried
    downloaded,     \* hashes downloaded in this downloadBundles call
    cpc,            \* Queue callers: "idle" or "locking"
    crt,            \* the runtime a caller queues for
    chs,            \* the hashes a caller kept after filtering
    unseen          \* history: queued hashes no snapshot has included since

worker == <<wpc, pass, cur, hashes, todo, downloaded>>
callers == <<cpc, crt, chs>>
vars == <<disk, store, queue, ch, worker, callers, unseen>>

RuntimeHashes(r) == {h \in Hashes : ManifestRuntime[h] = r}

(***************************************************************************)
(* run, before the loop: explodeBundles writes the configured bundles one *)
(* by one into the bundle directory, loadManifests reads every manifest   *)
(* there, cleanupBundles removes the directories of runtimes not followed *)
(* and of detached bundles not among the configured ones, and             *)
(* registerManifests adds what is left to the store, detached manifests   *)
(* first.  An error in any step is logged and the worker returns for good,*)
(* keeping what the steps before it already wrote.                        *)
(***************************************************************************)
ShouldKeep(h) ==
    /\ ManifestRuntime[h] \in Followed
    /\ h \in Detached => h \in ConfigBundles \cap Detached

\* explodeBundles: each configured bundle written into its directory, the
\* ones in paths before the first that fails to open or write.
ExplodeBundles(d, paths) == d \cup paths

\* Mutant: cleanup returns the manifests it was given.
CleanupBundlesReturnsAll(manifests) == manifests

\* cleanupBundles: the manifests it retains; the others' directories go.
CleanupBundles(manifests) == {h \in manifests : ShouldKeep(h)}

\* registerManifests: the sets of manifests registered before the first
\* failing AddManifest, detached ones first; the whole set on success.
RegisteredPrefixes(ms) ==
    {R \in SUBSET ms : R \subseteq Detached \/ ms \cap Detached \subseteq R}

Startup ==
    /\ wpc = "init"
    /\ UNCHANGED <<queue, ch, pass, cur, hashes, todo, downloaded, callers, unseen>>
    /\ \E done \in SUBSET ConfigBundles :
        LET exploded == ExplodeBundles(disk, done)
            retained == CleanupBundles(exploded)
            removed  == {h \in exploded : ~ShouldKeep(h)}
        IN  \* explodeBundles or loadManifests fails
            \/ /\ disk' = exploded /\ wpc' = "stopped"
               /\ UNCHANGED store
            \* removeBundle fails after removing some directories
            \/ /\ done = ConfigBundles
               /\ \E gone \in SUBSET removed :
                    gone # removed /\ disk' = exploded \ gone
               /\ wpc' = "stopped" /\ UNCHANGED store
            \* cleanup succeeds; registration completes or stops part-way
            \/ /\ done = ConfigBundles
               /\ disk' = exploded \ removed
               /\ \E reg \in RegisteredPrefixes(retained) :
                    /\ store' = store \cup reg
                    /\ wpc' = IF reg = retained THEN "wait" ELSE "stopped"

\* The select of the loop: the channel or the ticker wakes the worker for
\* a Download pass over the followed runtimes; ctx.Done stops it.
WakeOnSignal ==
    /\ wpc = "wait" /\ ch = 1
    /\ ch' = 0 /\ wpc' = "dl" /\ pass' = Followed
    /\ UNCHANGED <<disk, store, queue, cur, hashes, todo, downloaded, callers, unseen>>

WakeOnTick ==
    /\ wpc = "wait"
    /\ wpc' = "dl" /\ pass' = Followed
    /\ UNCHANGED <<disk, store, queue, ch, cur, hashes, todo, downloaded, callers, unseen>>

Stop ==
    /\ wpc = "wait"
    /\ wpc' = "stopped"
    /\ UNCHANGED <<disk, store, queue, ch, pass, cur, hashes, todo, downloaded, callers, unseen>>

\* downloadBundles, first lock region: copy the runtime's queue.
Snapshot ==
    /\ wpc = "dl"
    /\ \E r \in pass :
        /\ cur' = r /\ hashes' = queue[r] /\ todo' = queue[r] /\ downloaded' = {}
        /\ pass' = pass \ {r}
        /\ unseen' = [unseen EXCEPT ![r] = @ \ queue[r]]
    /\ wpc' = "fetch"
    /\ UNCHANGED <<disk, store, queue, ch, callers>>

DownloadDone ==
    /\ wpc = "dl" /\ pass = {}
    /\ wpc' = "wait"
    /\ UNCHANGED <<disk, store, queue, ch, pass, cur, hashes, todo, downloaded, callers, unseen>>

\* downloadBundle over the runtime's and the global registries: a success
\* explodes the bundle and adds its manifest to the store; a failure leaves
\* nothing, or the exploded directory when only the registration failed.
DownloadBundle ==
    /\ wpc = "fetch"
    /\ \E h \in todo :
        /\ todo' = todo \ {h}
        /\ \/ /\ disk' = disk \cup {h} /\ store' = store \cup {h}
              /\ downloaded' = downloaded \cup {h}
           \/ UNCHANGED <<disk, store, downloaded>>
           \* exploded, then registerManifest failed
           \/ /\ disk' = disk \cup {h}
              /\ UNCHANGED <<store, downloaded>>
    /\ UNCHANGED <<queue, ch, wpc, pass, cur, hashes, callers, unseen>>

\* Mutant: the queue is rebuilt from the stale snapshot.
CommitFromSnapshot(q, r, snap, done) == [q EXCEPT ![r] = snap \ done]

\* Mutant: every hash that was tried leaves the queue.
CommitDropTried(q, r, snap, done) == [q EXCEPT ![r] = @ \ snap]

\* downloadBundles, second lock region: drop the downloaded hashes from the
\* queue as it is now (an empty list deletes the entry).
CommitQueue(q, r, snap, done) == [q EXCEPT ![r] = @ \ done]

DownloadCommit ==
    /\ wpc = "fetch" /\ todo = {}
    /\ queue' = CommitQueue(queue, cur, hashes, downloaded)
    /\ wpc' = "dl"
    /\ UNCHANGED <<disk, store, ch, pass, cur, hashes, todo, downloaded, callers, unseen>>

\* Mutant: bundles are queued for runtimes that are not followed.
QueueFilterNoFollowCheck(c, r, hs) ==
    /\ cpc[c] = "idle"
    /\ IF r \in Endpoints
       THEN /\ cpc' = [cpc EXCEPT ![c] = "locking"]
            /\ crt' = [crt EXCEPT ![c] = r]
            /\ chs' = [chs EXCEPT ![c] = hs \ store]
       ELSE UNCHANGED callers
    /\ UNCHANGED <<disk, store, queue, ch, worker, unseen>>

(***************************************************************************)
(* Queue(runtimeID, manifestHashes).  Nothing for a runtime that is not    *)
(* followed or has no registry; otherwise the hashes the store does not    *)
(* have are kept, outside the lock.                                       *)
(***************************************************************************)
QueueFilter(c, r, hs) ==
    /\ cpc[c] = "idle"
    /\ IF r \in Followed /\ r \in Endpoints
       THEN /\ cpc' = [cpc EXCEPT ![c] = "locking"]
            /\ crt' = [crt EXCEPT ![c] = r]
            /\ chs' = [chs EXCEPT ![c] = hs \ store]
       ELSE UNCHANGED callers
    /\ UNCHANGED <<disk, store, queue, ch, worker, unseen>>

\* Mutant: the queue is updated but the worker is not signalled.
QueueUpdateNoSignal(c) ==
    /\ cpc[c] = "locking"
    /\ queue' = [queue EXCEPT ![crt[c]] = chs[c]]
    /\ unseen' = [unseen EXCEPT ![crt[c]] = chs[c]]
    /\ cpc' = [cpc EXCEPT ![c] = "idle"]
    /\ UNCHANGED <<disk, store, ch, worker, crt, chs>>

\* Queue, under the lock: replace the runtime's queue (or delete it when
\* nothing is left) and signal the channel unless it is already full.
QueueUpdate(c) ==
    /\ cpc[c] = "locking"
    /\ queue' = [queue EXCEPT ![crt[c]] = chs[c]]
    /\ unseen' = [unseen EXCEPT ![crt[c]] = chs[c]]
    /\ ch' = IF chs[c] = {} THEN ch ELSE 1
    /\ cpc' = [cpc EXCEPT ![c] = "idle"]
    /\ UNCHANGED <<disk, store, worker, crt, chs>>

\* The node process restarts: only the bundle directory survives.
Restart ==
    /\ wpc # "init"
    /\ store' = {}
    /\ queue' = [r \in RuntimeIDs |-> {}]
    /\ ch' = 0
    /\ wpc' = "init" /\ pass' = {} /\ hashes' = {} /\ todo' = {} /\ downloaded' = {}
    /\ cpc' = [c \in Callers |-> "idle"] /\ chs' = [c \in Callers |-> {}]
    /\ unseen' = [r \in RuntimeIDs |-> {}]
    /\ UNCHANGED <<disk, cur, crt>>

Init ==
    /\ disk = InitDisk
    /\ store = {}
    /\ queue = [r \in RuntimeIDs |-> {}]
    /\ ch = 0
    /\ wpc = "init" /\ pass = {} /\ cur = CHOOSE r \in Followed : TRUE
    /\ hashes = {} /\ todo = {} /\ downloaded = {}
    /\ cpc = [c \in Callers |-> "idle"]
    /\ crt = [c \in Callers |-> CHOOSE r \in Followed : TRUE]
    /\ chs = [c \in Callers |-> {}]
    /\ unseen = [r \in RuntimeIDs |-> {}]

WorkerStep ==
    Startup \/ WakeOnSignal \/ Snapshot \/ DownloadBundle \/ DownloadCommit \/ DownloadDone

Next ==
    \/ WorkerStep
    \/ WakeOnTick
    \/ Stop
    \/ \E c \in Callers, r \in RuntimeIDs, hs \in SUBSET Hashes :
           hs \subseteq RuntimeHashes(r) /\ QueueFilter(c, r, hs)
    \/ \E c \in Callers : QueueUpdate(c)
    \/ Restart

Spec == Init /\ [][Next]_vars

\* The worker and the Queue callers are goroutines the Go scheduler runs;
\* the retry ticker, Stop and restarts get no fairness, so that liveness
\* rests on the download channel alone.
Fairness ==
    /\ WF_vars(WorkerStep)
    /\ \A c \in Callers : WF_vars(QueueUpdate(c))

FairSpec == Spec /\ Fairness

-----------------------------------------------------------------------------
TypeOK ==
    /\ disk \subseteq Hashes /\ store \subseteq Hashes
    /\ queue \in [RuntimeIDs -> SUBSET Hashes]
    /\ ch \in 0..1
    /\ wpc \in {"init", "wait", "dl", "fetch", "stopped"}
    /\ pass \subseteq Followed /\ cur \in Followed
    /\ hashes \subseteq Hashes /\ todo \subseteq hashes /\ downloaded \subseteq hashes
    /\ cpc \in [Callers -> {"idle", "locking"}]
    /\ crt \in [Callers -> Followed] /\ chs \in [Callers -> SUBSET Hashes]
    /\ unseen \in [RuntimeIDs -> SUBSET Hashes]

\* A hash some Queue call put in the queue stays queued until a download
\* pass has copied it or the store has it: the commit after the unlocked
\* downloads does not drop what a concurrent Queue added meanwhile.
NoLostQueued == \A r \in RuntimeIDs : unseen[r] \ store \subseteq queue[r]

\* Only a Queue call, a restart or a successful download removes a hash
\* from the queue: a failed download leaves it for the retry.
DroppedOnlyWhenStored ==
    [][ \/ \E c \in Callers : QueueUpdate(c)
        \/ Restart
        \/ \A r \in RuntimeIDs : \A h \in queue[r] \ queue'[r] : h \in store'
      ]_vars

\* Without waiting for the retry ticker, a queued hash is copied by a
\* download pass, unless the store has it by then or the worker stopped:
\* the signal on downloadCh is never lost.
QueuedIsPickedUp ==
    \A r \in Followed, h \in Hashes :
        h \in unseen[r] ~> (h \notin unseen[r] \/ h \in store \/ wpc = "stopped")

\* When no Queue call is in flight and the worker is idle, no queued hash
\* is one the store already has: Queue filters out fetched bundles.
NoFetchedQueued ==
    (wpc \in {"wait", "stopped"} /\ \A c \in Callers : cpc[c] = "idle") =>
        \A r \in RuntimeIDs : queue[r] \cap store = {}
\* Every manifest the store has is backed by an exploded bundle on disk:
\* start-up registers only what cleanupBundles retained after it removed
\* the other directories, a download registers only after exploding, and a
\* restart keeps the disk and empties the store.  Failures part-way through
\* start-up or a download leave directories without manifests, never the
\* reverse.
StoreOnDisk == store \subseteq disk
=============================================================================
