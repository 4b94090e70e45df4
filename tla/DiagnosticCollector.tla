------------------------ MODULE DiagnosticCollector ------------------------
(***************************************************************************)
(* The Agent's diagnostic bundles: CreateBundle under mutex_, the registry *)
(* of at most kMaximumBundles bundles, the archives and staging            *)
(* directories on disk, the download handlers that look a bundle up under  *)
(* the mutex and open its file after releasing it, graceful exit, crashes  *)
(* and restarts.                                                           *)
(*                                                                         *)
(* A bundle is its number.  sequence_ restarts at 0 in a new process, but  *)
(* the id also holds the time and the pid, so numbers are not reused here. *)
(* A handler inside CreateBundle holds the mutex for the whole call, with  *)
(* the file writes and the tar child it waits for; every step another      *)
(* thread or a crash can see is an action.                                 *)
(*                                                                         *)
(* An operator X_Y is X with the defect Y, for the mutation runs only.     *)
(***************************************************************************)
EXTENDS Integers, Sequences, FiniteSets

CONSTANTS
    Creators,       \* gRPC threads that may serve CreateDiagnosticBundle
    Downloads,      \* gRPC threads that may serve DownloadDiagnosticBundle
    NoThread,       \* mutex_ is free
    MaximumBundles, \* kMaximumBundles
    MaxId,          \* bound: no bundle is started after this number
    RemovalMayFail  \* whether std::filesystem::remove may fail

ASSUME MaximumBundlesAssumption == MaximumBundles \in Nat \ {0}
ASSUME MaxIdAssumption == MaxId \in Nat
ASSUME NoThreadAssumption == NoThread \notin Creators
ASSUME RemovalAssumption == RemovalMayFail \in BOOLEAN

VARIABLES
    agent,      \* "up", or "down" after an exit or a crash
    mutex,      \* the creator that holds mutex_, or NoThread
    sequence,   \* the last number used for an id
    bundles,    \* bundles_, oldest first
    registered, \* history: every bundle this process has registered
    staging,    \* the staging directories on disk
    partial,    \* the archives on disk that tar has not finished
    complete,   \* the finished archives on disk
    lost,       \* history: archives left behind by a crash or failed removal
    orphans,    \* history: staging directories left behind likewise
    create,     \* where each creator is
    id,         \* the number a creator works on
    download,   \* where each download handler is
    path,       \* the bundle a download was asked for, then its path
    opened      \* what the file a download opened contained

diskVars == <<staging, partial, complete, lost, orphans>>
createVars == <<create, id>>
downloadVars == <<download, path, opened>>
vars == <<agent, mutex, sequence, bundles, registered, diskVars, createVars,
          downloadVars>>

Ids == 1..MaxId
Archives == partial \cup complete
Elements(s) == {s[i] : i \in DOMAIN s}
Registry == Elements(bundles)

(* The variables have their types, and mutex_ is held exactly by the        *)
(* creator that is inside CreateBundle.                                     *)
TypeOK ==
    /\ agent \in {"up", "down"}
    /\ mutex \in Creators \cup {NoThread}
    /\ sequence \in 0..MaxId
    /\ bundles \in Seq(Ids)
    /\ registered \subseteq Ids
    /\ staging \subseteq Ids
    /\ partial \subseteq Ids
    /\ complete \subseteq Ids
    /\ lost \subseteq Ids
    /\ orphans \subseteq staging
    /\ create \in [Creators -> {"idle", "waiting", "stage", "secure",
                                "collect", "fork", "tar", "cleanup", "register"}]
    /\ id \in [Creators -> 0..MaxId]
    /\ download \in [Downloads -> {"idle", "resolve", "open", "read"}]
    /\ path \in [Downloads -> 0..MaxId]
    /\ opened \in [Downloads -> {"nothing", "partial", "complete"}]
    /\ \A c \in Creators : create[c] \notin {"idle", "waiting"} <=> mutex = c

Init ==
    /\ agent = "up"
    /\ mutex = NoThread
    /\ sequence = 0
    /\ bundles = <<>>
    /\ registered = {}
    /\ staging = {}
    /\ partial = {}
    /\ complete = {}
    /\ lost = {}
    /\ orphans = {}
    /\ create = [c \in Creators |-> "idle"]
    /\ id = [c \in Creators |-> 0]
    /\ download = [d \in Downloads |-> "idle"]
    /\ path = [d \in Downloads |-> 0]
    /\ opened = [d \in Downloads |-> "nothing"]

-----------------------------------------------------------------------------
(* CreateBundle.  A PrepareRoot that fails returns with nothing changed.   *)

(* Errors of remove and remove_all are ignored: what was to go then stays. *)
RemoveStaging(c) ==
    \E failed \in (IF RemovalMayFail THEN BOOLEAN ELSE {FALSE}) :
        /\ staging' = IF failed THEN staging ELSE staging \ {id[c]}
        /\ orphans' = IF failed THEN orphans \cup {id[c]} ELSE orphans

Remove(archives) ==
    \E failed \in (IF RemovalMayFail THEN SUBSET archives ELSE {{}}) :
        /\ partial' = partial \ (archives \ failed)
        /\ complete' = complete \ (archives \ failed)
        /\ lost' = lost \cup failed

ReturnFromCreate(c) ==
    /\ create' = [create EXCEPT ![c] = "idle"]
    /\ id' = [id EXCEPT ![c] = 0]
    /\ mutex' = NoThread

RequestCreate(c) ==
    /\ agent = "up"
    /\ create[c] = "idle"
    /\ sequence < MaxId
    /\ create' = [create EXCEPT ![c] = "waiting"]
    /\ UNCHANGED <<agent, mutex, sequence, bundles, registered, diskVars, id,
                   downloadVars>>

LockMutex(c) ==
    /\ create[c] = "waiting"
    /\ mutex = NoThread
    /\ mutex' = c
    /\ create' = [create EXCEPT ![c] = "stage"]
    /\ UNCHANGED <<agent, sequence, bundles, registered, diskVars, id,
                   downloadVars>>

(* create_directory makes the staging directory or fails, at the bound it   *)
(* fails.  A number whose directory could not be made is no bundle's, so    *)
(* here the next creation may have it.                                     *)
MakeStaging(c, made) ==
    /\ create[c] = "stage"
    /\ made => sequence < MaxId
    /\ IF made
       THEN /\ sequence' = sequence + 1
            /\ id' = [id EXCEPT ![c] = sequence + 1]
            /\ staging' = staging \cup {sequence + 1}
            /\ create' = [create EXCEPT ![c] = "secure"]
            /\ UNCHANGED mutex
       ELSE ReturnFromCreate(c) /\ UNCHANGED <<sequence, staging>>
    /\ UNCHANGED <<agent, bundles, registered, partial, complete, lost, orphans,
                   downloadVars>>

(* permissions secures the directory, or it is removed again and the call   *)
(* fails.                                                                  *)
SecureStaging(c, secured) ==
    /\ create[c] = "secure"
    /\ IF secured
       THEN /\ create' = [create EXCEPT ![c] = "collect"]
            /\ UNCHANGED <<mutex, id, staging, orphans>>
       ELSE RemoveStaging(c) /\ ReturnFromCreate(c)
    /\ UNCHANGED <<agent, sequence, bundles, registered, partial, complete, lost,
                   downloadVars>>

(* A file of the snapshot that cannot be written ends the collection; a    *)
(* collector that fails is only noted in collection_errors.txt.            *)
CollectFiles(c, written) ==
    /\ create[c] = "collect"
    /\ create' = [create EXCEPT ![c] = IF written THEN "fork" ELSE "cleanup"]
    /\ UNCHANGED <<agent, mutex, sequence, bundles, registered, diskVars, id,
                   downloadVars>>

(* tar creates the archive and writes into it.                             *)
ForkTar(c, forked) ==
    /\ create[c] = "fork"
    /\ IF forked
       THEN /\ create' = [create EXCEPT ![c] = "tar"]
            /\ partial' = partial \cup {id[c]}
       ELSE /\ create' = [create EXCEPT ![c] = "cleanup"]
            /\ UNCHANGED partial
    /\ UNCHANGED <<agent, mutex, sequence, bundles, registered, staging,
                   complete, lost, orphans, id, downloadVars>>

(* waitpid returns; a tar that failed may leave a partial archive.         *)
TarExits(c, success) ==
    /\ create[c] = "tar"
    /\ create' = [create EXCEPT ![c] = "cleanup"]
    /\ IF success
       THEN /\ partial' = partial \ {id[c]}
            /\ complete' = complete \cup {id[c]}
       ELSE UNCHANGED <<partial, complete>>
    /\ UNCHANGED <<agent, mutex, sequence, bundles, registered, staging, lost,
                   orphans, id, downloadVars>>

Archived_IgnoringExitStatus(c) == id[c] \in Archives

(* The local success: every file was written and tar exited with 0.        *)
Archived(c) == id[c] \in complete

CleanUp_KeepingArchive(c) ==
    /\ create[c] = "cleanup"
    /\ RemoveStaging(c)
    /\ IF Archived(c)
       THEN /\ create' = [create EXCEPT ![c] = "register"]
            /\ UNCHANGED <<mutex, id>>
       ELSE ReturnFromCreate(c)
    /\ UNCHANGED <<agent, sequence, bundles, registered, partial, complete,
                   lost, downloadVars>>

CleanUp(c) ==
    /\ create[c] = "cleanup"
    /\ RemoveStaging(c)
    /\ IF Archived(c)
       THEN /\ create' = [create EXCEPT ![c] = "register"]
            /\ UNCHANGED <<mutex, id, partial, complete, lost>>
       ELSE ReturnFromCreate(c) /\ Remove(Archives \cap {id[c]})
    /\ UNCHANGED <<agent, sequence, bundles, registered, downloadVars>>

Newest_DroppingNewest(s) ==
    IF Len(s) > MaximumBundles THEN SubSeq(s, 1, MaximumBundles) ELSE s

(* What RemoveOldBundles keeps of a registry.                              *)
Newest(s) ==
    IF Len(s) > MaximumBundles
    THEN SubSeq(s, Len(s) - MaximumBundles + 1, Len(s))
    ELSE s

(* The bundle is registered and old ones are evicted with their files, or  *)
(* file_size fails and the archive goes.                                   *)
Register(c, sized) ==
    /\ create[c] = "register"
    /\ IF sized
       THEN LET all == Append(bundles, id[c]) IN
            /\ bundles' = Newest(all)
            /\ registered' = registered \cup {id[c]}
            /\ Remove(Elements(all) \ Elements(Newest(all)))
       ELSE /\ Remove({id[c]})
            /\ UNCHANGED <<bundles, registered>>
    /\ ReturnFromCreate(c)
    /\ UNCHANGED <<agent, sequence, staging, orphans, downloadVars>>

CreateStep(c) ==
    \/ LockMutex(c)
    \/ \E success \in BOOLEAN :
          \/ MakeStaging(c, success)
          \/ SecureStaging(c, success)
          \/ CollectFiles(c, success)
          \/ ForkTar(c, success)
          \/ TarExits(c, success)
          \/ Register(c, success)
    \/ CleanUp(c)

-----------------------------------------------------------------------------
(* DownloadDiagnosticBundle.                                               *)

RequestDownload(d, bundle) ==
    /\ agent = "up"
    /\ download[d] = "idle"
    /\ download' = [download EXCEPT ![d] = "resolve"]
    /\ path' = [path EXCEPT ![d] = bundle]
    /\ UNCHANGED <<agent, mutex, sequence, bundles, registered, diskVars,
                   createVars, opened>>

ReturnFromDownload(d) ==
    /\ download' = [download EXCEPT ![d] = "idle"]
    /\ path' = [path EXCEPT ![d] = 0]
    /\ opened' = [opened EXCEPT ![d] = "nothing"]

GetBundlePath_ByFile(d) ==
    /\ download[d] = "resolve"
    /\ mutex = NoThread
    /\ IF path[d] \in Archives
       THEN /\ download' = [download EXCEPT ![d] = "open"]
            /\ UNCHANGED <<path, opened>>
       ELSE ReturnFromDownload(d)
    /\ UNCHANGED <<agent, mutex, sequence, bundles, registered, diskVars,
                   createVars>>

(* GetBundlePath waits for the mutex, so for any bundle being created; an  *)
(* unknown id is NOT_FOUND.                                                *)
GetBundlePath(d) ==
    /\ download[d] = "resolve"
    /\ mutex = NoThread
    /\ IF path[d] \in Registry
       THEN /\ download' = [download EXCEPT ![d] = "open"]
            /\ UNCHANGED <<path, opened>>
       ELSE ReturnFromDownload(d)
    /\ UNCHANGED <<agent, mutex, sequence, bundles, registered, diskVars,
                   createVars>>

(* The file is opened without the mutex: a bundle evicted since is         *)
(* INTERNAL, one evicted later is read to its end all the same.            *)
OpenArchive(d) ==
    /\ download[d] = "open"
    /\ IF path[d] \in Archives
       THEN /\ opened' = [opened EXCEPT ![d] =
                   IF path[d] \in complete THEN "complete" ELSE "partial"]
            /\ download' = [download EXCEPT ![d] = "read"]
            /\ UNCHANGED path
       ELSE ReturnFromDownload(d)
    /\ UNCHANGED <<agent, mutex, sequence, bundles, registered, diskVars,
                   createVars>>

(* The chunks are written, or the call is cancelled or broken.             *)
FinishDownload(d) ==
    /\ download[d] = "read"
    /\ ReturnFromDownload(d)
    /\ UNCHANGED <<agent, mutex, sequence, bundles, registered, diskVars,
                   createVars>>

DownloadStep(d) == GetBundlePath(d) \/ OpenArchive(d) \/ FinishDownload(d)

-----------------------------------------------------------------------------
(* The process.                                                            *)

(* The destructor runs once the server has drained its handlers.           *)
Exit ==
    /\ agent = "up"
    /\ \A c \in Creators : create[c] = "idle"
    /\ \A d \in Downloads : download[d] = "idle"
    /\ Remove(Registry)
    /\ agent' = "down"
    /\ bundles' = <<>>
    /\ registered' = {}
    /\ UNCHANGED <<mutex, sequence, staging, orphans, createVars, downloadVars>>

Crash ==
    /\ agent = "up"
    /\ agent' = "down"
    /\ mutex' = NoThread
    /\ bundles' = <<>>
    /\ registered' = {}
    /\ lost' = lost \cup Archives
    /\ orphans' = staging
    /\ create' = [c \in Creators |-> "idle"]
    /\ id' = [c \in Creators |-> 0]
    /\ download' = [d \in Downloads |-> "idle"]
    /\ path' = [d \in Downloads |-> 0]
    /\ opened' = [d \in Downloads |-> "nothing"]
    /\ UNCHANGED <<sequence, staging, partial, complete>>

(* A new process does not look at what is in its directory.                *)
Start ==
    /\ agent = "down"
    /\ agent' = "up"
    /\ UNCHANGED <<mutex, sequence, bundles, registered, diskVars, createVars,
                   downloadVars>>

-----------------------------------------------------------------------------
Next ==
    \/ \E c \in Creators : RequestCreate(c) \/ CreateStep(c)
    \/ \E d \in Downloads : DownloadStep(d)
    \/ \E d \in Downloads, bundle \in Ids : RequestDownload(d, bundle)
    \/ Exit \/ Crash \/ Start

Spec == Init /\ [][Next]_vars

-----------------------------------------------------------------------------
(* Properties *)

(* Whatever a creator does, wherever it fails, every registered bundle has  *)
(* its finished archive on disk, each once, and there are never more than   *)
(* kMaximumBundles.                                                         *)
RegistryBacked ==
    /\ Registry \subseteq complete
    /\ Len(bundles) <= MaximumBundles
    /\ \A i, j \in DOMAIN bundles : i < j => bundles[i] < bundles[j]

(* A bundle this process has registered is only forgotten once              *)
(* kMaximumBundles newer ones are: a client that creates a bundle and then  *)
(* asks for it is told NOT_FOUND only after that many other creations.      *)
EvictsOldestOnly ==
    \A b \in registered \ Registry :
        /\ Len(bundles) = MaximumBundles
        /\ \A kept \in Registry : kept > b

(* Between calls the directory holds the registered archives and no other,  *)
(* except those a crash or a failing remove left behind: whichever call of  *)
(* CreateBundle fails, from create_directory to file_size, the archive and  *)
(* the staging directory of that call are removed, or their removal was    *)
(* tried and failed (its result is not looked at).                         *)
NothingLeftBehind ==
    mutex = NoThread => Archives \ lost = Registry /\ staging = orphans

(* A download that got a file reads a finished archive, even when its       *)
(* bundle was evicted between the lookup and the open.                      *)
DownloadsFinishedArchive ==
    \A d \in Downloads : download[d] = "read" => opened[d] = "complete"

(* A creator has drawn the number in sequence_ and is not through yet.       *)
Unsettled == \E c \in Creators : create[c] \notin {"idle", "waiting", "stage"}

(* What a client sees of its download.                                     *)
ToClient(d) ==
    CASE download[d] = "idle"    -> "none"
      [] download[d] = "resolve" -> "asked"
      [] download[d] = "open"    -> "found"
      [] download[d] = "read"    -> IF opened[d] = "complete" THEN "reading" ELSE "corrupt"

(* BundleStore is what a client can rely on.  A number is issued when its    *)
(* creation is over; a file that is not a finished archive is no download.   *)
Store == INSTANCE BundleStore
         WITH up       <- agent = "up",
              issued   <- IF Unsettled THEN sequence - 1 ELSE sequence,
              stored   <- bundles,
              creating <- {c \in Creators : create[c] # "idle"},
              download <- [d \in Downloads |-> ToClient(d)],
              wanted   <- path

(* With all its files, its mutex and its crashes the collector does what      *)
(* BundleStore does: a creation takes effect at one moment or not at all,      *)
(* whatever fails in it, and a download that found its bundle reads the whole *)
(* archive, or fails because newer bundles displaced it in between.           *)
ImplementsBundleStore == Store!Spec

=============================================================================
