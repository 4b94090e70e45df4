---------------------- MODULE DiagnosticCollectorProofs ----------------------
(***************************************************************************)
(* Theorems about DiagnosticCollector, for any number of handlers, any     *)
(* capacity of the registry and any bound on the ids.                      *)
(***************************************************************************)
EXTENDS DiagnosticCollector, TLAPS

Busy == {"secure", "collect", "fork", "tar", "cleanup", "register"}

(* The archive and the staging directory of the bundle in the making.       *)
InProgress == {id[c] : c \in {x \in Creators : create[x] \in Busy}}
InStaging == {id[c] : c \in {x \in Creators : create[x] \in Busy \ {"register"}}}

(* The bundle in the making has the newest number, and its archive is where *)
(* the creator's step says.                                                 *)
CreatorOK ==
    \A c \in Creators :
        /\ create[c] \in Busy => id[c] = sequence /\ sequence >= 1
        /\ create[c] \in {"secure", "collect", "fork"} => sequence \notin Archives
        /\ create[c] = "register" => sequence \in complete
        /\ create[c] \in Busy => sequence \notin registered \cup lost
        /\ create[c] \in Busy \ {"register"} => sequence \notin orphans

(* No number ahead of sequence_ is in use.                                  *)
NumbersOK ==
    /\ registered \subseteq 1..sequence
    /\ Archives \subseteq 1..sequence
    /\ staging \subseteq 1..sequence
    /\ lost \subseteq 1..sequence
    /\ Registry \subseteq registered

(* Every archive on disk is registered, in the making or lost, and never    *)
(* two of these.                                                            *)
DiskOK ==
    /\ Registry \cap lost = {}
    /\ Archives \ lost \subseteq Registry \cup InProgress
    /\ staging = orphans \cup InStaging
    /\ partial \cap complete = {}

IInv ==
    /\ TypeOK
    /\ RegistryBacked
    /\ EvictsOldestOnly
    /\ CreatorOK
    /\ NumbersOK
    /\ DiskOK

-----------------------------------------------------------------------------
(* Appending a larger number to a full registry and evicting drops exactly  *)
(* the oldest one.                                                          *)
LEMMA EvictionDropsOldest ==
    ASSUME NEW s \in Seq(Ids), NEW e \in Ids,
           Len(s) <= MaximumBundles,
           \A i, j \in DOMAIN s : i < j => s[i] < s[j],
           \A x \in Elements(s) : x < e
    PROVE  LET all == Append(s, e)
               kept == Newest(all)
           IN /\ kept \in Seq(Ids)
              /\ Len(kept) <= MaximumBundles
              /\ \A i, j \in DOMAIN kept : i < j => kept[i] < kept[j]
              /\ Elements(all) = Elements(s) \cup {e}
              /\ e \in Elements(kept)
              /\ Elements(kept) \subseteq Elements(all)
              /\ Len(s) = MaximumBundles => Len(kept) = MaximumBundles
              /\ \A x \in Elements(all) \ Elements(kept) :
                    /\ Len(kept) = MaximumBundles
                    /\ Len(s) = MaximumBundles
                    /\ \A y \in Elements(kept) : x < y
  <1> DEFINE all == Append(s, e)
             kept == Newest(all)
  <1>1. /\ all \in Seq(Ids)
        /\ Len(all) = Len(s) + 1
        /\ all[Len(s) + 1] = e
        /\ \A i \in 1..Len(s) : all[i] = s[i]
        /\ Len(s) \in Nat
    OBVIOUS
  <1>2. Elements(all) = Elements(s) \cup {e}
    BY <1>1 DEF Elements
  <1>3. \A i, j \in 1..Len(all) : i < j => all[i] < all[j]
    BY <1>1 DEF Elements
  <1>4. CASE Len(all) <= MaximumBundles
    <2>1. kept = all
      BY <1>1, <1>4, MaximumBundlesAssumption DEF Newest
    <2>2. e \in Elements(all)
      BY <1>2
    <2> HIDE DEF all
    <2> QED
      BY <1>1, <1>2, <1>3, <1>4, <2>1, <2>2 DEF all
  <1>5. CASE Len(all) > MaximumBundles
    <2>1. Len(s) = MaximumBundles /\ MaximumBundles \in Nat /\ MaximumBundles >= 1
      BY <1>1, <1>5, MaximumBundlesAssumption
    <2>2. kept = SubSeq(all, 2, MaximumBundles + 1)
      BY <1>1, <1>5, <2>1 DEF Newest
    <2>3. /\ kept \in Seq(Ids)
          /\ Len(kept) = MaximumBundles
          /\ \A i \in 1..MaximumBundles : kept[i] = all[i + 1]
      BY <1>1, <2>1, <2>2
    <2> HIDE DEF all, kept
    <2>4. \A i, j \in DOMAIN kept : i < j => kept[i] < kept[j]
      BY <1>1, <1>3, <2>1, <2>3
    <2>5. kept[MaximumBundles] = e
      BY <1>1, <2>1, <2>3
    <2>6. e \in Elements(kept)
      BY <2>1, <2>3, <2>5 DEF Elements
    <2>. DOMAIN all = 1..(MaximumBundles + 1) /\ DOMAIN kept = 1..MaximumBundles
      BY <1>1, <2>1, <2>3
    <2>7. Elements(kept) \subseteq Elements(all)
      <3>1. \A i \in 1..MaximumBundles :
               i + 1 \in DOMAIN all /\ kept[i] = all[i + 1]
        BY <2>1, <2>3
      <3>2. \A x \in Elements(kept) : \E i \in 1..MaximumBundles : x = kept[i]
        BY DEF Elements
      <3>3. \A i \in DOMAIN all : all[i] \in Elements(all)
        BY DEF Elements
      <3> QED
        BY <3>1, <3>2, <3>3
    <2>8. \A x \in Elements(all) \ Elements(kept) : x = all[1]
      <3> TAKE x \in Elements(all) \ Elements(kept)
      <3>1. PICK i \in DOMAIN all : x = all[i]
        BY DEF Elements
      <3>2. CASE i = 1
        BY <3>1, <3>2
      <3>3. CASE i > 1
        <4>1. i - 1 \in 1..MaximumBundles /\ kept[i - 1] = all[i]
          BY <1>1, <2>1, <2>3, <3>1, <3>3
        <4> QED
          BY <3>1, <4>1 DEF Elements
      <3> QED
        BY <3>1, <3>2, <3>3
    <2>9. \A y \in Elements(kept) : all[1] < y
      BY <1>1, <1>3, <2>1, <2>3 DEF Elements
    <2> QED
      BY <1>2, <2>1, <2>3, <2>4, <2>6, <2>7, <2>8, <2>9 DEF all, kept
  <1> QED
    BY <1>1, <1>4, <1>5, MaximumBundlesAssumption

LEMMA InitIInv == Init => IInv
  <1> SUFFICES ASSUME Init
               PROVE  IInv
    OBVIOUS
  <1>1. Registry = {} /\ bundles \in Seq(Ids) /\ Len(bundles) = 0
    BY DEF Init, Registry, Elements
  <1>2. TypeOK
    BY <1>1, MaxIdAssumption, NoThreadAssumption DEF Init, TypeOK, Ids
  <1>3. RegistryBacked
    BY <1>1, MaximumBundlesAssumption DEF RegistryBacked
  <1>4. EvictsOldestOnly /\ NumbersOK
    BY <1>1 DEF Init, EvictsOldestOnly, NumbersOK, Archives
  <1>5. CreatorOK
    BY DEF Init, CreatorOK, Busy
  <1>6. InStaging = {}
    BY DEF Init, InStaging, Busy
  <1>7. DiskOK
    BY <1>1, <1>6 DEF Init, DiskOK, Archives
  <1> QED
    BY <1>2, <1>3, <1>4, <1>5, <1>7 DEF IInv

(* Removing archives keeps the parts of the disk disjoint and the lost ones *)
(* within what was asked to go.                                             *)
LEMMA RemoveResult ==
    ASSUME NEW gone, gone \subseteq Archives, Remove(gone)
    PROVE  /\ partial' \subseteq partial
           /\ complete' \subseteq complete
           /\ complete \ gone \subseteq complete'
           /\ Archives' \subseteq Archives
           /\ lost \subseteq lost'
           /\ lost' \subseteq lost \cup gone
           /\ gone \cap Archives' \subseteq lost'
  BY DEF Remove, Archives

(* Creators other than the one inside CreateBundle hold no number.          *)
LEMMA OnlyOneBusy ==
    ASSUME IInv, NEW c \in Creators, create[c] \notin {"idle", "waiting"}
    PROVE  /\ mutex = c
           /\ \A x \in Creators \ {c} : create[x] \in {"idle", "waiting"}
           /\ InProgress = IF create[c] \in Busy THEN {id[c]} ELSE {}
           /\ InStaging = IF create[c] \in Busy \ {"register"} THEN {id[c]} ELSE {}
  <1>1. mutex = c /\ \A x \in Creators \ {c} : create[x] \in {"idle", "waiting"}
    BY DEF IInv, TypeOK
  <1>2. {x \in Creators : create[x] \in Busy}
            = IF create[c] \in Busy THEN {c} ELSE {}
    BY <1>1 DEF Busy
  <1>3. {x \in Creators : create[x] \in Busy \ {"register"}}
            = IF create[c] \in Busy \ {"register"} THEN {c} ELSE {}
    BY <1>1 DEF Busy
  <1> QED
    BY <1>1, <1>2, <1>3 DEF InProgress, InStaging

-----------------------------------------------------------------------------
(* A creator that has done nothing yet may return, and so may one whose     *)
(* staging directory and archive are accounted for.                         *)

LEMMA RequestCreateIInv ==
    ASSUME IInv, NEW c \in Creators, RequestCreate(c)
    PROVE  IInv'
  <1>1. TypeOK'
    BY DEF IInv, TypeOK, RequestCreate, diskVars, downloadVars, Ids
  <1>2. InProgress' = InProgress /\ InStaging' = InStaging
    BY DEF IInv, TypeOK, RequestCreate, InProgress, InStaging, Busy
  <1> QED
    BY <1>1, <1>2
    DEF IInv, TypeOK, RequestCreate, RegistryBacked, EvictsOldestOnly, CreatorOK,
        NumbersOK, DiskOK, Registry, Elements, Archives, Busy, diskVars

LEMMA LockMutexIInv ==
    ASSUME IInv, NEW c \in Creators, LockMutex(c)
    PROVE  IInv'
  <1>1. TypeOK'
    BY NoThreadAssumption
    DEF IInv, TypeOK, LockMutex, diskVars, downloadVars, Ids
  <1>2. InProgress' = InProgress /\ InStaging' = InStaging
    BY DEF IInv, TypeOK, LockMutex, InProgress, InStaging, Busy
  <1> QED
    BY <1>1, <1>2
    DEF IInv, TypeOK, LockMutex, RegistryBacked, EvictsOldestOnly, CreatorOK,
        NumbersOK, DiskOK, Registry, Elements, Archives, Busy, diskVars

(* After the creator inside CreateBundle returns, nothing is in the making. *)
CreatorsReturned ==
    /\ create' \in [Creators -> {"idle", "waiting"}]
    /\ id' \in [Creators -> 0..MaxId]
    /\ mutex' = NoThread
    /\ \A x \in Creators : create'[x] \notin {"idle", "waiting"} <=> mutex' = x
    /\ CreatorOK'
    /\ InProgress' = {}
    /\ InStaging' = {}

LEMMA ReturnResult ==
    ASSUME IInv, NEW c \in Creators, create[c] \notin {"idle", "waiting"},
           ReturnFromCreate(c)
    PROVE  CreatorsReturned
  <1>1. \A x \in Creators \ {c} : create[x] \in {"idle", "waiting"}
    BY OnlyOneBusy
  <1>2. create' \in [Creators -> {"idle", "waiting"}]
    BY <1>1 DEF ReturnFromCreate, IInv, TypeOK
  <1>3. id' \in [Creators -> 0..MaxId] /\ mutex' = NoThread
    BY MaxIdAssumption DEF ReturnFromCreate, IInv, TypeOK
  <1>4. \A x \in Creators : create'[x] \notin Busy
    BY <1>2 DEF Busy
  <1>5. CreatorOK' /\ InProgress' = {} /\ InStaging' = {}
    BY <1>4 DEF CreatorOK, InProgress, InStaging, Busy
  <1> QED
    BY <1>2, <1>3, <1>5, NoThreadAssumption DEF CreatorsReturned

LEMMA MakeStagingIInv ==
    ASSUME IInv, NEW c \in Creators, NEW made \in BOOLEAN, MakeStaging(c, made)
    PROVE  IInv'
  <1>1. create[c] = "stage" /\ mutex = c /\ InProgress = {} /\ InStaging = {}
    BY OnlyOneBusy DEF MakeStaging, Busy
  <1>2. CASE made
    <2>1. /\ create' = [create EXCEPT ![c] = "secure"]
          /\ id' = [id EXCEPT ![c] = sequence + 1]
          /\ sequence' = sequence + 1
          /\ staging' = staging \cup {sequence + 1}
          /\ sequence \in Nat
          /\ sequence + 1 \in 1..MaxId
      BY <1>2, MaxIdAssumption DEF MakeStaging, IInv, TypeOK
    <2>2. TypeOK'
      BY <1>1, <1>2, <2>1, MaxIdAssumption
      DEF IInv, TypeOK, MakeStaging, downloadVars, Ids
    <2>3. \A x \in Creators : create'[x] \in Busy <=> x = c
      BY <1>1, <2>1 DEF IInv, TypeOK, Busy
    <2>4. InProgress' = {sequence + 1} /\ InStaging' = {sequence + 1}
      BY <2>1, <2>3 DEF InProgress, InStaging, IInv, TypeOK, Busy
    <2>5. NumbersOK'
      BY <1>2, <2>1 DEF IInv, NumbersOK, MakeStaging, Archives, Registry, Elements
    <2>6. CreatorOK'
      <3>1. /\ sequence + 1 \notin registered
            /\ sequence + 1 \notin Archives
            /\ sequence + 1 \notin lost
            /\ sequence + 1 \notin orphans
        BY <2>1 DEF IInv, TypeOK, NumbersOK
      <3> QED
        BY <1>2, <2>1, <2>3, <3>1
        DEF IInv, TypeOK, CreatorOK, MakeStaging, Archives, Busy
    <2>7. DiskOK'
      BY <1>1, <1>2, <2>1, <2>4 DEF IInv, DiskOK, MakeStaging, Archives, Registry,
                               Elements
    <2> QED
      BY <1>2, <2>2, <2>5, <2>6, <2>7
      DEF IInv, MakeStaging, RegistryBacked, EvictsOldestOnly, Registry, Elements
  <1>3. CASE ~made
    <2>1. ReturnFromCreate(c) /\ UNCHANGED <<sequence, staging>>
      BY <1>3 DEF MakeStaging
    <2>2. CreatorsReturned
      BY <1>1, <2>1, ReturnResult
    <2>3. TypeOK'
      BY <1>3, <2>1, <2>2
      DEF IInv, TypeOK, MakeStaging, downloadVars, CreatorsReturned
    <2>4. DiskOK' /\ NumbersOK'
      BY <1>1, <1>3, <2>1, <2>2
      DEF IInv, MakeStaging, NumbersOK, DiskOK, Registry, Elements, Archives,
          CreatorsReturned
    <2> QED
      BY <1>3, <2>1, <2>2, <2>3, <2>4
      DEF IInv, MakeStaging, RegistryBacked, EvictsOldestOnly, Registry, Elements,
          CreatorsReturned
  <1> QED
    BY <1>2, <1>3

(* A directory that could not be secured is removed, or is an orphan.       *)
LEMMA SecureStagingIInv ==
    ASSUME IInv, NEW c \in Creators, NEW secured \in BOOLEAN,
           SecureStaging(c, secured)
    PROVE  IInv'
  <1>0. create[c] = "secure"
    BY DEF SecureStaging
  <1>1. /\ sequence \in Ids
        /\ sequence \notin Archives
        /\ sequence \notin orphans
        /\ InProgress = {sequence}
        /\ InStaging = {sequence}
        /\ id[c] = sequence
    <2>1. id[c] = sequence /\ sequence \in Ids
      BY <1>0 DEF IInv, CreatorOK, TypeOK, Ids, Busy
    <2>2. sequence \notin Archives /\ sequence \notin orphans
      BY <1>0 DEF IInv, CreatorOK, Busy
    <2> QED
      BY <1>0, <2>1, <2>2, OnlyOneBusy DEF Busy
  <1>2. UNCHANGED <<agent, sequence, bundles, registered, partial, complete, lost,
                    downloadVars>>
    BY DEF SecureStaging
  <1>3. Registry' = Registry /\ Archives' = Archives
    BY <1>2 DEF Registry, Elements, Archives
  <1>4. CASE secured
    <2>1. /\ create' = [create EXCEPT ![c] = "collect"]
          /\ UNCHANGED <<mutex, id, staging, orphans>>
      BY <1>4 DEF SecureStaging
    <2>2. \A x \in Creators : /\ create'[x] = IF x = c THEN "collect" ELSE create[x]
                              /\ create'[x] \in Busy <=> create[x] \in Busy
      BY <1>0, <2>1 DEF IInv, TypeOK, Busy
    <2>3. TypeOK'
      BY <1>0, <1>2, <2>1, <2>2 DEF IInv, TypeOK, downloadVars
    <2>4. InProgress' = InProgress /\ InStaging' = InStaging
      BY <1>0, <2>1, <2>2 DEF InProgress, InStaging, Busy
    <2>5. CreatorOK'
      BY <1>0, <1>1, <1>2, <1>3, <2>1, <2>2 DEF IInv, CreatorOK, Busy
    <2> QED
      BY <1>2, <1>3, <2>1, <2>3, <2>4, <2>5
      DEF IInv, RegistryBacked, EvictsOldestOnly, NumbersOK, DiskOK
  <1>5. CASE ~secured
    <2>1. RemoveStaging(c) /\ ReturnFromCreate(c)
      BY <1>5 DEF SecureStaging
    <2>2. CreatorsReturned
      BY <1>0, <2>1, ReturnResult
    <2>3. staging = orphans \cup {sequence} /\ staging \subseteq Ids
      BY <1>1 DEF IInv, DiskOK, TypeOK
    <2>4. \/ staging' = staging /\ orphans' = orphans \cup {sequence}
          \/ staging' = staging \ {sequence} /\ orphans' = orphans
      BY <1>1, <2>1 DEF RemoveStaging
    <2>5. staging' = orphans' /\ staging' \subseteq staging
      BY <1>1, <2>3, <2>4
    <2>6. TypeOK'
      BY <1>2, <2>2, <2>3, <2>5 DEF IInv, TypeOK, downloadVars, CreatorsReturned
    <2>7. NumbersOK' /\ DiskOK'
      BY <1>1, <1>2, <1>3, <2>2, <2>5 DEF IInv, NumbersOK, DiskOK, CreatorsReturned
    <2> QED
      BY <1>2, <1>3, <2>2, <2>6, <2>7
      DEF IInv, RegistryBacked, EvictsOldestOnly, CreatorsReturned
  <1> QED
    BY <1>4, <1>5

LEMMA CollectFilesIInv ==
    ASSUME IInv, NEW c \in Creators, NEW written \in BOOLEAN,
           CollectFiles(c, written)
    PROVE  IInv'
  <1>1. TypeOK'
    BY NoThreadAssumption
    DEF IInv, TypeOK, CollectFiles, diskVars, downloadVars, Ids
  <1>2. InProgress' = InProgress /\ InStaging' = InStaging
    BY DEF IInv, TypeOK, CollectFiles, InProgress, InStaging, Busy
  <1> QED
    BY <1>1, <1>2
    DEF IInv, TypeOK, CollectFiles, RegistryBacked, EvictsOldestOnly, CreatorOK,
        NumbersOK, DiskOK, Registry, Elements, Archives, Busy, diskVars

LEMMA ForkTarIInv ==
    ASSUME IInv, NEW c \in Creators, NEW forked \in BOOLEAN, ForkTar(c, forked)
    PROVE  IInv'
  <1>0. create[c] = "fork"
    BY DEF ForkTar
  <1>1. /\ create[c] = "fork"
        /\ id[c] = sequence
        /\ sequence \in Ids
        /\ InProgress = {sequence}
        /\ InStaging = {sequence}
        /\ \A x \in Creators \ {c} : create[x] \in {"idle", "waiting"}
    <2>1. id[c] = sequence /\ sequence \in Ids
      BY <1>0 DEF IInv, CreatorOK, TypeOK, Ids, Busy
    <2> QED
      BY <1>0, <2>1, OnlyOneBusy DEF Busy
  <1>2. TypeOK'
    <2>1. \A x \in Creators : create'[x] \notin {"idle", "waiting"}
                                 <=> create[x] \notin {"idle", "waiting"}
      BY <1>0 DEF IInv, TypeOK, ForkTar
    <2> QED
      BY <1>1, <2>1 DEF IInv, TypeOK, ForkTar, downloadVars
  <1>3. InProgress' = InProgress /\ InStaging' = InStaging
    <2>1. \A x \in Creators : create'[x] \in Busy \ {"register"}
                                 <=> create[x] \in Busy \ {"register"}
      BY <1>1 DEF IInv, TypeOK, ForkTar, Busy
    <2>2. \A x \in Creators : create'[x] \in Busy <=> create[x] \in Busy
      BY <1>1 DEF IInv, TypeOK, ForkTar, Busy
    <2> QED
      BY <2>1, <2>2 DEF InProgress, InStaging, ForkTar
  <1>4. Archives' \subseteq Archives \cup {sequence}
    BY <1>1 DEF ForkTar, Archives
  <1>5. CreatorOK'
    <2>1. \A x \in Creators \ {c} : create'[x] \in {"idle", "waiting"}
      BY <1>1 DEF ForkTar, IInv, TypeOK
    <2>2. create'[c] \notin {"secure", "collect", "fork", "register"}
      BY <1>1 DEF ForkTar, IInv, TypeOK
    <2> QED
      BY <1>1, <2>1, <2>2 DEF IInv, CreatorOK, ForkTar, Busy
  <1>6. NumbersOK'
    BY <1>1, <1>4 DEF IInv, TypeOK, NumbersOK, ForkTar, Registry, Elements, Ids
  <1>7. DiskOK'
    BY <1>1, <1>3, <1>4
    DEF IInv, CreatorOK, DiskOK, ForkTar, Archives, Registry, Elements
  <1> QED
    BY <1>2, <1>5, <1>6, <1>7
    DEF IInv, ForkTar, RegistryBacked, EvictsOldestOnly, Registry, Elements

LEMMA TarExitsIInv ==
    ASSUME IInv, NEW c \in Creators, NEW success \in BOOLEAN, TarExits(c, success)
    PROVE  IInv'
  <1>0. create[c] = "tar"
    BY DEF TarExits
  <1>1. /\ create[c] = "tar"
        /\ id[c] = sequence
        /\ sequence \in Ids
        /\ InProgress = {sequence}
        /\ InStaging = {sequence}
        /\ \A x \in Creators \ {c} : create[x] \in {"idle", "waiting"}
    <2>1. id[c] = sequence /\ sequence \in Ids
      BY <1>0 DEF IInv, CreatorOK, TypeOK, Ids, Busy
    <2> QED
      BY <1>0, <2>1, OnlyOneBusy DEF Busy
  <1>2. TypeOK'
    <2>1. \A x \in Creators : create'[x] \notin {"idle", "waiting"}
                                 <=> create[x] \notin {"idle", "waiting"}
      BY <1>0 DEF IInv, TypeOK, TarExits
    <2>2. /\ create' \in [Creators -> {"idle", "waiting", "secure", "collect", "fork", "tar", "cleanup", "register"}]
          /\ partial' \subseteq Ids /\ complete' \subseteq Ids
      BY <1>1 DEF IInv, TypeOK, TarExits
    <2> QED
      BY <2>1, <2>2 DEF IInv, TypeOK, TarExits, downloadVars
  <1>3. InProgress' = InProgress /\ InStaging' = InStaging
    <2>1. \A x \in Creators : create'[x] \in Busy \ {"register"}
                                 <=> create[x] \in Busy \ {"register"}
      BY <1>1 DEF IInv, TypeOK, TarExits, Busy
    <2>2. \A x \in Creators : create'[x] \in Busy <=> create[x] \in Busy
      BY <1>1 DEF IInv, TypeOK, TarExits, Busy
    <2> QED
      BY <2>1, <2>2 DEF InProgress, InStaging, TarExits
  <1>4. Archives' \subseteq Archives \cup {sequence}
    BY <1>1 DEF TarExits, Archives
  <1>5. CreatorOK'
    <2>1. \A x \in Creators \ {c} : create'[x] \in {"idle", "waiting"}
      BY <1>1 DEF TarExits, IInv, TypeOK
    <2>2. create'[c] \notin {"secure", "collect", "fork", "register"}
      BY <1>1 DEF TarExits, IInv, TypeOK
    <2> QED
      BY <1>1, <2>1, <2>2 DEF IInv, CreatorOK, TarExits, Busy
  <1>6. NumbersOK'
    BY <1>1, <1>4 DEF IInv, TypeOK, NumbersOK, TarExits, Registry, Elements, Ids
  <1>7. DiskOK'
    BY <1>1, <1>3, <1>4
    DEF IInv, CreatorOK, DiskOK, TarExits, Archives, Registry, Elements
  <1> QED
    BY <1>2, <1>5, <1>6, <1>7
    DEF IInv, TarExits, RegistryBacked, EvictsOldestOnly, Registry, Elements

(* The archive stays when tar made it, and goes when not; the staging       *)
(* directory goes in either case.                                           *)
LEMMA CleanUpIInv ==
    ASSUME IInv, NEW c \in Creators, CleanUp(c)
    PROVE  IInv'
  <1>0. create[c] = "cleanup"
    BY DEF CleanUp
  <1>1. /\ create[c] = "cleanup"
        /\ id[c] = sequence
        /\ sequence \in Ids
        /\ InProgress = {sequence}
        /\ InStaging = {sequence}
        /\ \A x \in Creators \ {c} : create[x] \in {"idle", "waiting"}
    <2>1. id[c] = sequence /\ sequence \in Ids
      BY <1>0 DEF IInv, CreatorOK, TypeOK, Ids, Busy
    <2> QED
      BY <1>0, <2>1, OnlyOneBusy DEF Busy
  <1>2. /\ staging' \subseteq Ids
        /\ orphans' \subseteq staging'
        /\ staging' = orphans'
        /\ staging' \subseteq staging
    <2>1. staging = orphans \cup {sequence} /\ sequence \notin orphans
      BY <1>1 DEF IInv, DiskOK, CreatorOK, Busy
    <2>2. \/ staging' = staging /\ orphans' = orphans \cup {sequence}
          \/ staging' = staging \ {sequence} /\ orphans' = orphans
      BY <1>1 DEF CleanUp, RemoveStaging
    <2>3. staging \subseteq Ids
      BY DEF IInv, TypeOK
    <2>4. orphans \cup {sequence} = staging /\ staging \ {sequence} = orphans
      BY <2>1
    <2> QED
      BY <2>2, <2>3, <2>4
  <1>3. CASE Archived(c)
    <2>1. /\ create' = [create EXCEPT ![c] = "register"]
          /\ UNCHANGED <<mutex, id, partial, complete, lost>>
          /\ sequence \in complete
      BY <1>1, <1>3 DEF CleanUp, Archived
    <2>2. TypeOK'
      BY <1>1, <1>2, <2>1, NoThreadAssumption
      DEF IInv, TypeOK, CleanUp, downloadVars
    <2>3. \A x \in Creators : create'[x] \in Busy <=> x = c
      BY <1>1, <2>1 DEF IInv, TypeOK, Busy
    <2>4. create'[c] = "register"
      BY <2>1 DEF IInv, TypeOK
    <2>5. InProgress' = {sequence} /\ InStaging' = {}
      BY <1>1, <2>1, <2>3, <2>4 DEF InProgress, InStaging
    <2>6. CreatorOK'
      <3>1. sequence \notin registered \cup lost /\ sequence >= 1
        BY <1>1 DEF IInv, CreatorOK, Busy
      <3> QED
        BY <1>1, <2>1, <2>3, <2>4, <3>1 DEF CreatorOK, CleanUp, Busy
    <2>7. DiskOK' /\ NumbersOK'
      BY <1>1, <1>2, <2>1, <2>5
      DEF IInv, DiskOK, NumbersOK, CleanUp, Archives, Registry, Elements
    <2> QED
      BY <2>1, <2>2, <2>6, <2>7
      DEF IInv, CleanUp, RegistryBacked, EvictsOldestOnly, Registry, Elements
  <1>4. CASE ~Archived(c)
    <2> DEFINE gone == Archives \cap {id[c]}
    <2>1. ReturnFromCreate(c) /\ Remove(gone)
      BY <1>4 DEF CleanUp
    <2>2. CreatorsReturned
      BY <1>1, <2>1, ReturnResult
    <2>3. /\ partial' \subseteq partial
          /\ complete' \subseteq complete
          /\ complete \ gone \subseteq complete'
          /\ Archives' \subseteq Archives
          /\ lost \subseteq lost'
          /\ lost' \subseteq lost \cup gone
          /\ gone \cap Archives' \subseteq lost'
      BY <2>1, RemoveResult
    <2>4. gone \subseteq {sequence} /\ sequence \notin Registry
      BY <1>1 DEF IInv, CreatorOK, NumbersOK, Busy
    <2>5. UNCHANGED <<agent, sequence, bundles, registered, downloadVars>>
      BY DEF CleanUp
    <2> HIDE DEF gone
    <2>6. Registry' = Registry
      BY <2>5 DEF Registry, Elements
    <2>7. TypeOK'
      BY <1>1, <1>2, <2>2, <2>3, <2>4, <2>5
      DEF IInv, TypeOK, downloadVars, CreatorsReturned
    <2>8. NumbersOK'
      BY <1>1, <1>2, <2>3, <2>4, <2>5, <2>6 DEF IInv, NumbersOK, Ids
    <2>9. DiskOK'
      <3>1. Archives' \ lost' \subseteq Registry
        BY <1>1, <2>3, <2>4 DEF IInv, DiskOK, gone
      <3> QED
        BY <1>2, <2>2, <2>3, <2>4, <2>6, <3>1 DEF IInv, DiskOK, CreatorsReturned
    <2> QED
      BY <2>2, <2>3, <2>4, <2>5, <2>6, <2>7, <2>8, <2>9
      DEF IInv, RegistryBacked, EvictsOldestOnly, CreatorsReturned
  <1> QED
    BY <1>3, <1>4

(* Registration with eviction, or a file whose size cannot be read.         *)
LEMMA RegisterIInv ==
    ASSUME IInv, NEW c \in Creators, NEW sized \in BOOLEAN, Register(c, sized)
    PROVE  IInv'
  <1>1. /\ create[c] = "register"
        /\ id[c] = sequence
        /\ sequence \in Ids
        /\ sequence \in complete
        /\ sequence \notin registered
        /\ sequence \notin lost
        /\ sequence \notin Registry
        /\ InProgress = {sequence}
        /\ InStaging = {}
    BY OnlyOneBusy DEF Register, Busy, IInv, CreatorOK, NumbersOK, TypeOK, Ids
  <1>2. CreatorsReturned
    BY <1>1, ReturnResult DEF Register
  <1>3. UNCHANGED <<agent, sequence, staging, orphans, downloadVars>>
    BY DEF Register
  <1>4. CASE sized
    <2> DEFINE all == Append(bundles, sequence)
               gone == Elements(all) \ Elements(Newest(all))
    <2>1. /\ bundles' = Newest(all)
          /\ registered' = registered \cup {sequence}
          /\ Remove(gone)
      BY <1>1, <1>4 DEF Register
    <2>2. \A x \in Registry : x < sequence
      BY <1>1 DEF IInv, NumbersOK, TypeOK, Ids
    <2>3. /\ bundles' \in Seq(Ids)
          /\ Len(bundles') <= MaximumBundles
          /\ \A i, j \in DOMAIN bundles' : i < j => bundles'[i] < bundles'[j]
          /\ Elements(all) = Registry \cup {sequence}
          /\ sequence \in Registry'
          /\ Registry' \subseteq Elements(all)
          /\ gone = Elements(all) \ Registry'
          /\ Len(bundles) = MaximumBundles => Len(bundles') = MaximumBundles
          /\ \A x \in gone :
                /\ Len(bundles') = MaximumBundles
                /\ Len(bundles) = MaximumBundles
                /\ \A y \in Registry' : x < y
      <3>1. Registry' = Elements(bundles')
        BY DEF Registry, Elements
      <3>2. /\ bundles \in Seq(Ids)
            /\ Len(bundles) <= MaximumBundles
            /\ \A i, j \in DOMAIN bundles : i < j => bundles[i] < bundles[j]
        BY DEF IInv, TypeOK, RegistryBacked
      <3> QED
        BY <1>1, <2>1, <2>2, <3>1, <3>2, EvictionDropsOldest DEF Registry
    <2>4. gone \subseteq Registry /\ gone \subseteq Archives
      BY <2>3 DEF IInv, RegistryBacked, Archives
    <2>5. /\ partial' \subseteq partial
          /\ complete' \subseteq complete
          /\ complete \ gone \subseteq complete'
          /\ Archives' \subseteq Archives
          /\ lost \subseteq lost'
          /\ lost' \subseteq lost \cup gone
          /\ gone \cap Archives' \subseteq lost'
      BY <2>1, <2>4, RemoveResult
    <2> HIDE DEF all, gone
    <2>6. TypeOK'
      BY <1>1, <1>2, <1>3, <2>1, <2>3, <2>4, <2>5
      DEF IInv, TypeOK, downloadVars, CreatorsReturned, RegistryBacked
    <2>7. RegistryBacked'
      BY <1>1, <2>3, <2>5 DEF IInv, RegistryBacked
    <2>8. EvictsOldestOnly'
      <3> SUFFICES ASSUME NEW b \in registered' \ Registry'
                   PROVE  /\ Len(bundles') = MaximumBundles
                          /\ \A kept \in Registry' : kept > b
        BY DEF EvictsOldestOnly
      <3>1. b \in Ids /\ \A kept \in Registry' \cup Registry : kept \in Ids
        BY <1>1, <2>1, <2>3 DEF IInv, TypeOK, Registry, Elements
      <3>2. CASE b \in gone
        BY <2>3, <3>1, <3>2 DEF Ids
      <3>3. CASE b \notin gone
        <4>1. b \in registered \ Registry
          BY <2>1, <2>3, <3>3
        <4>2. Len(bundles) = MaximumBundles /\ \A kept \in Registry : kept > b
          BY <4>1 DEF IInv, EvictsOldestOnly
        <4>3. b < sequence
          BY <1>1, <3>1, <4>1 DEF IInv, NumbersOK, Ids
        <4> QED
          BY <2>3, <4>2, <4>3
      <3> QED
        BY <3>2, <3>3
    <2>9. NumbersOK'
      <3>1. Registry' \subseteq registered'
        BY <2>1, <2>3 DEF IInv, NumbersOK
      <3> QED
        BY <1>1, <1>3, <2>1, <2>4, <2>5, <3>1 DEF IInv, NumbersOK, Ids
    <2>10. DiskOK'
      <3>1. Registry' \cap lost' = {}
        BY <1>1, <2>3, <2>5 DEF IInv, DiskOK
      <3>2. Archives' \ lost' \subseteq Registry'
        BY <1>1, <2>3, <2>4, <2>5 DEF IInv, DiskOK
      <3> QED
        BY <1>1, <1>2, <1>3, <2>5, <3>1, <3>2 DEF IInv, DiskOK, CreatorsReturned
    <2> QED
      BY <1>2, <2>6, <2>7, <2>8, <2>9, <2>10 DEF IInv, CreatorsReturned
  <1>5. CASE ~sized
    <2> DEFINE gone == {sequence}
    <2>1. Remove(gone) /\ UNCHANGED <<bundles, registered>>
      BY <1>1, <1>5 DEF Register
    <2>2. /\ partial' \subseteq partial
          /\ complete' \subseteq complete
          /\ complete \ gone \subseteq complete'
          /\ Archives' \subseteq Archives
          /\ lost \subseteq lost'
          /\ lost' \subseteq lost \cup gone
          /\ gone \cap Archives' \subseteq lost'
      BY <1>1, <2>1, RemoveResult DEF Archives
    <2>3. Registry' = Registry
      BY <2>1 DEF Registry, Elements
    <2>4. TypeOK'
      BY <1>1, <1>2, <1>3, <2>1, <2>2
      DEF IInv, TypeOK, downloadVars, CreatorsReturned
    <2>5. NumbersOK'
      BY <1>1, <1>3, <2>1, <2>2, <2>3 DEF IInv, NumbersOK, Ids
    <2>6. DiskOK'
      BY <1>1, <1>2, <1>3, <2>2, <2>3 DEF IInv, DiskOK, CreatorsReturned
    <2> QED
      BY <1>1, <1>2, <2>1, <2>2, <2>3, <2>4, <2>5, <2>6
      DEF IInv, RegistryBacked, EvictsOldestOnly, CreatorsReturned
  <1> QED
    BY <1>4, <1>5

-----------------------------------------------------------------------------
(* The downloads leave everything but their own state alone.                *)
DownloadTypes ==
    /\ download \in [Downloads -> {"idle", "resolve", "open", "read"}]
    /\ path \in [Downloads -> 0..MaxId]
    /\ opened \in [Downloads -> {"nothing", "partial", "complete"}]

LEMMA DownloadFrame ==
    ASSUME IInv, DownloadTypes',
           UNCHANGED <<agent, mutex, sequence, bundles, registered, diskVars,
                       createVars>>
    PROVE  IInv'
  <1>1. TypeOK'
    BY DEF IInv, TypeOK, DownloadTypes, diskVars, createVars
  <1> QED
    BY <1>1
    DEF IInv, RegistryBacked, EvictsOldestOnly, CreatorOK, NumbersOK, DiskOK,
        Registry, Elements, Archives, InProgress, InStaging, diskVars, createVars

LEMMA DownloadReturns ==
    ASSUME IInv, NEW d \in Downloads, ReturnFromDownload(d)
    PROVE  DownloadTypes'
  <1>1. DownloadTypes
    BY DEF IInv, TypeOK, DownloadTypes
  <1> QED
    BY <1>1, MaxIdAssumption DEF ReturnFromDownload, DownloadTypes

LEMMA DownloadIInv ==
    ASSUME IInv, NEW d \in Downloads,
           DownloadStep(d) \/ \E bundle \in Ids : RequestDownload(d, bundle)
    PROVE  IInv'
  <1>1. DownloadTypes
    BY DEF IInv, TypeOK, DownloadTypes
  <1>2. CASE GetBundlePath(d)
    <2>1. CASE path[d] \in Registry
      <3>1. DownloadTypes'
        BY <1>1, <1>2, <2>1 DEF GetBundlePath, DownloadTypes
      <3> QED
        BY <1>2, <3>1, DownloadFrame DEF GetBundlePath
    <2>2. CASE path[d] \notin Registry
      BY <1>2, <2>2, DownloadReturns, DownloadFrame DEF GetBundlePath
    <2> QED
      BY <2>1, <2>2
  <1>3. CASE OpenArchive(d)
    <2>1. CASE path[d] \in Archives
      <3>1. DownloadTypes'
        BY <1>1, <1>3, <2>1 DEF OpenArchive, DownloadTypes
      <3> QED
        BY <1>3, <3>1, DownloadFrame DEF OpenArchive
    <2>2. CASE path[d] \notin Archives
      BY <1>3, <2>2, DownloadReturns, DownloadFrame DEF OpenArchive
    <2> QED
      BY <2>1, <2>2
  <1>4. CASE FinishDownload(d)
    BY <1>4, DownloadReturns, DownloadFrame DEF FinishDownload
  <1>5. CASE \E bundle \in Ids : RequestDownload(d, bundle)
    <2>1. DownloadTypes'
      BY <1>1, <1>5 DEF RequestDownload, DownloadTypes, Ids
    <2> QED
      BY <1>5, <2>1, DownloadFrame DEF RequestDownload
  <1> QED
    BY <1>2, <1>3, <1>4, <1>5 DEF DownloadStep

(* The destructor removes what is registered.                               *)
LEMMA ExitIInv ==
    ASSUME IInv, Exit
    PROVE  IInv'
  <1>1. /\ \A c \in Creators : create[c] = "idle"
        /\ Remove(Registry)
        /\ agent' = "down" /\ bundles' = <<>> /\ registered' = {}
        /\ UNCHANGED <<mutex, sequence, staging, orphans, createVars,
                       downloadVars>>
    BY DEF Exit
  <1>2. InProgress = {} /\ InStaging = {} /\ InProgress' = {} /\ InStaging' = {}
    BY <1>1 DEF InProgress, InStaging, Busy, createVars
  <1>3. Registry \subseteq Archives
    BY DEF IInv, RegistryBacked, Archives
  <1>4. /\ partial' \subseteq partial
        /\ complete' \subseteq complete
        /\ Archives' \subseteq Archives
        /\ lost \subseteq lost'
        /\ lost' \subseteq lost \cup Registry
        /\ Registry \cap Archives' \subseteq lost'
    BY <1>1, <1>3, RemoveResult
  <1>5. Registry' = {} /\ Len(bundles') = 0 /\ bundles' \in Seq(Ids)
    BY <1>1 DEF Registry, Elements
  <1>6. TypeOK'
    BY <1>1, <1>3, <1>4, <1>5
    DEF IInv, TypeOK, createVars, downloadVars, Archives
  <1>7. RegistryBacked' /\ EvictsOldestOnly'
    BY <1>1, <1>5, MaximumBundlesAssumption DEF RegistryBacked, EvictsOldestOnly
  <1>8. CreatorOK'
    BY <1>1 DEF CreatorOK, Busy, createVars
  <1>9. NumbersOK'
    BY <1>1, <1>3, <1>4, <1>5 DEF IInv, NumbersOK
  <1>10. DiskOK'
    BY <1>1, <1>2, <1>4, <1>5 DEF IInv, DiskOK
  <1> QED
    BY <1>6, <1>7, <1>8, <1>9, <1>10 DEF IInv

(* A crash turns every archive and staging directory into a leftover.       *)
LEMMA CrashIInv ==
    ASSUME IInv, Crash
    PROVE  IInv'
  <1>1. Registry' = {} /\ Len(bundles') = 0 /\ bundles' \in Seq(Ids)
    BY DEF Crash, Registry, Elements
  <1>2. InProgress' = {} /\ InStaging' = {}
    BY DEF Crash, InProgress, InStaging, Busy
  <1>3. TypeOK'
    BY <1>1, NoThreadAssumption, MaxIdAssumption
    DEF IInv, TypeOK, Crash, Archives
  <1>4. RegistryBacked' /\ EvictsOldestOnly'
    BY <1>1, MaximumBundlesAssumption DEF Crash, RegistryBacked, EvictsOldestOnly
  <1>5. CreatorOK'
    BY DEF Crash, CreatorOK, Busy
  <1>6. NumbersOK' /\ DiskOK'
    BY <1>1, <1>2 DEF IInv, NumbersOK, DiskOK, Crash, Archives
  <1> QED
    BY <1>3, <1>4, <1>5, <1>6 DEF IInv

LEMMA NextIInv == IInv /\ [Next]_vars => IInv'
  <1> SUFFICES ASSUME IInv, [Next]_vars
               PROVE  IInv'
    OBVIOUS
  <1>1. ASSUME NEW c \in Creators, RequestCreate(c) \/ CreateStep(c)
        PROVE  IInv'
    BY <1>1, RequestCreateIInv, LockMutexIInv, MakeStagingIInv, SecureStagingIInv, CollectFilesIInv,
       ForkTarIInv, TarExitsIInv, CleanUpIInv, RegisterIInv DEF CreateStep
  <1>2. ASSUME NEW d \in Downloads,
               DownloadStep(d) \/ \E bundle \in Ids : RequestDownload(d, bundle)
        PROVE  IInv'
    BY <1>2, DownloadIInv
  <1>3. CASE Start
    <2>1. TypeOK'
      BY <1>3 DEF Start, IInv, TypeOK, diskVars, createVars, downloadVars
    <2> QED
      BY <1>3, <2>1
      DEF Start, IInv, RegistryBacked, EvictsOldestOnly, CreatorOK, NumbersOK,
          DiskOK, Registry, Elements, Archives, InProgress, InStaging, diskVars,
          createVars
  <1>4. CASE UNCHANGED vars
    <2>1. DownloadTypes'
      BY <1>4 DEF vars, IInv, TypeOK, DownloadTypes, downloadVars
    <2> QED
      BY <1>4, <2>1, DownloadFrame DEF vars
  <1> QED
    BY <1>1, <1>2, <1>3, <1>4, ExitIInv, CrashIInv DEF Next

(* The strengthened invariant holds in every reachable state.               *)
THEOREM Invariance == Spec => []IInv
  BY InitIInv, NextIInv, PTL DEF Spec

(* The state is well formed and mutex_ is held by the creator at work.      *)
THEOREM TypeCorrectness == Spec => []TypeOK
  <1>1. IInv => TypeOK
    BY DEF IInv
  <1> QED
    BY <1>1, Invariance, PTL

(* Every registered bundle has its finished archive on disk.                *)
THEOREM RegistryIsBacked == Spec => []RegistryBacked
  <1>1. IInv => RegistryBacked
    BY DEF IInv
  <1> QED
    BY <1>1, Invariance, PTL

(* Only the oldest bundles are ever forgotten.                              *)
THEOREM EvictionIsOldestFirst == Spec => []EvictsOldestOnly
  <1>1. IInv => EvictsOldestOnly
    BY DEF IInv
  <1> QED
    BY <1>1, Invariance, PTL

(* Wherever a creation fails, between calls there is nothing on disk that is *)
(* neither registered nor a leftover of a crash or of a removal that was    *)
(* tried and failed.                                                       *)
THEOREM NoLitter == Spec => []NothingLeftBehind
  <1>1. IInv => NothingLeftBehind
    <2> SUFFICES ASSUME IInv, mutex = NoThread
                 PROVE  Archives \ lost = Registry /\ staging = orphans
      BY DEF NothingLeftBehind
    <2>1. \A c \in Creators : create[c] \in {"idle", "waiting"}
      BY NoThreadAssumption DEF IInv, TypeOK
    <2>2. InProgress = {} /\ InStaging = {}
      BY <2>1 DEF InProgress, InStaging, Busy
    <2> QED
      BY <2>2 DEF IInv, DiskOK, RegistryBacked, Archives
  <1> QED
    BY <1>1, Invariance, PTL

-----------------------------------------------------------------------------
(* The downloads.  The lookup and the open are two steps: what a download   *)
(* carries from one to the other is a bundle that was once registered, and  *)
(* no registered bundle is ever again the one tar is writing.               *)
OpenOK ==
    /\ registered \cap partial = {}
    /\ \A d \in Downloads : download[d] = "open" => path[d] \in registered
    /\ DownloadsFinishedArchive

LEMMA CreateOpenOK ==
    ASSUME IInv, OpenOK, NEW c \in Creators, RequestCreate(c) \/ CreateStep(c)
    PROVE  OpenOK'
  <1>1. UNCHANGED downloadVars
    BY DEF RequestCreate, CreateStep, LockMutex, MakeStaging, SecureStaging,
           CollectFiles, ForkTar, TarExits, CleanUp, Register
  <1>2. registered \subseteq registered' /\ registered' \cap partial' = {}
    <2>1. CASE \E forked \in BOOLEAN : ForkTar(c, forked)
      <3>1. id[c] \notin registered
        BY <2>1 DEF ForkTar, IInv, CreatorOK, Busy
      <3> QED
        BY <2>1, <3>1 DEF ForkTar, OpenOK
    <2>2. CASE CleanUp(c)
      BY <2>2, RemoveResult DEF CleanUp, OpenOK
    <2>3. CASE \E sized \in BOOLEAN : Register(c, sized)
      <3>1. id[c] \notin partial
        BY <2>3 DEF Register, IInv, CreatorOK, DiskOK, Busy
      <3>2. partial' \subseteq partial
        BY <2>3 DEF Register, Remove
      <3>3. registered' \subseteq registered \cup {id[c]}
              /\ registered \subseteq registered'
        BY <2>3 DEF Register
      <3> QED
        BY <3>1, <3>2, <3>3 DEF OpenOK
    <2>4. CASE registered' = registered /\ partial' \subseteq partial
      BY <2>4 DEF OpenOK
    <2>5. \/ RequestCreate(c) \/ LockMutex(c)
          \/ \E success \in BOOLEAN : \/ MakeStaging(c, success)
                                     \/ SecureStaging(c, success)
                                     \/ CollectFiles(c, success)
                                     \/ TarExits(c, success)
          => registered' = registered /\ partial' \subseteq partial
      BY DEF RequestCreate, LockMutex, MakeStaging, SecureStaging, CollectFiles, TarExits,
             diskVars
    <2> QED
      BY <2>1, <2>2, <2>3, <2>4, <2>5 DEF CreateStep
  <1> QED
    BY <1>1, <1>2 DEF OpenOK, DownloadsFinishedArchive, downloadVars

LEMMA DownloadOpenOK ==
    ASSUME IInv, OpenOK, NEW d \in Downloads,
           DownloadStep(d) \/ \E bundle \in Ids : RequestDownload(d, bundle)
    PROVE  OpenOK'
  <1>1. UNCHANGED <<registered, diskVars>>
    BY DEF DownloadStep, GetBundlePath, OpenArchive, FinishDownload,
           RequestDownload
  <1>2. DownloadTypes
    BY DEF IInv, TypeOK, DownloadTypes
  <1>3. /\ \A z \in Downloads : download'[z] = "open" => path'[z] \in registered
        /\ \A z \in Downloads : download'[z] = "read" => opened'[z] = "complete"
    <2>1. CASE GetBundlePath(d)
      BY <1>2, <2>1
      DEF GetBundlePath, ReturnFromDownload, OpenOK, DownloadsFinishedArchive,
          DownloadTypes, IInv, NumbersOK
    <2>2. CASE OpenArchive(d)
      <3>1. path[d] \notin partial
        BY <2>2 DEF OpenArchive, OpenOK
      <3> QED
        BY <1>2, <2>2, <3>1
        DEF OpenArchive, ReturnFromDownload, OpenOK, DownloadsFinishedArchive,
            DownloadTypes, Archives
    <2>3. CASE FinishDownload(d)
      BY <1>2, <2>3
      DEF FinishDownload, ReturnFromDownload, OpenOK, DownloadsFinishedArchive,
          DownloadTypes
    <2>4. CASE \E bundle \in Ids : RequestDownload(d, bundle)
      BY <1>2, <2>4
      DEF RequestDownload, OpenOK, DownloadsFinishedArchive, DownloadTypes
    <2> QED
      BY <2>1, <2>2, <2>3, <2>4 DEF DownloadStep
  <1> QED
    BY <1>1, <1>3 DEF OpenOK, DownloadsFinishedArchive, diskVars

(* OpenOK is inductive beside the other invariants.                         *)
LEMMA OpenOKKept == IInv /\ OpenOK /\ [Next]_vars => OpenOK'
  <1> SUFFICES ASSUME IInv, OpenOK, [Next]_vars
               PROVE  OpenOK'
    OBVIOUS
  <1>1. CASE Exit
    BY <1>1 DEF Exit, OpenOK, DownloadsFinishedArchive, downloadVars
  <1>2. CASE Crash
    BY <1>2 DEF Crash, OpenOK, DownloadsFinishedArchive
  <1>3. CASE Start
    BY <1>3 DEF Start, OpenOK, DownloadsFinishedArchive, diskVars, downloadVars
  <1>4. CASE UNCHANGED vars
    BY <1>4 DEF vars, OpenOK, DownloadsFinishedArchive, diskVars, downloadVars
  <1> QED
    BY <1>1, <1>2, <1>3, <1>4, CreateOpenOK, DownloadOpenOK DEF Next

(* A download never serves an archive that tar had not finished.            *)
THEOREM DownloadsAreFinished == Spec => []DownloadsFinishedArchive
  <1>1. Init => OpenOK
    BY DEF Init, OpenOK, DownloadsFinishedArchive
  <1>2. OpenOK => DownloadsFinishedArchive
    BY DEF OpenOK
  <1> QED
    BY <1>1, <1>2, OpenOKKept, Invariance, PTL DEF Spec

-----------------------------------------------------------------------------
(* DiagnosticCollector implements BundleStore: the initial state is an        *)
(* initial state, and every step is a step of the store or none.             *)

Issued == IF Unsettled THEN sequence - 1 ELSE sequence
Creating == {c \in Creators : create[c] # "idle"}
Seen == [d \in Downloads |-> ToClient(d)]

(* What the refinement needs of a reachable state.                           *)
IdlePaths == \A d \in Downloads : download[d] = "idle" => path[d] = 0

RInv == IInv /\ OpenOK /\ IdlePaths

-----------------------------------------------------------------------------
(* The mapped variables, where a creator has the mutex.                      *)
LEMMA CreatorAtWork ==
    ASSUME IInv, NEW c \in Creators, create[c] \notin {"idle", "waiting"}
    PROVE  /\ Unsettled <=> create[c] # "stage"
           /\ \A x \in Creators \ {c} : create[x] \in {"idle", "waiting"}
           /\ sequence \in Nat /\ sequence <= MaxId /\ MaxId \in Nat
           /\ create[c] # "stage" => id[c] = sequence /\ sequence >= 1
  <1>1. \A x \in Creators \ {c} : create[x] \in {"idle", "waiting"}
    BY OnlyOneBusy
  <1>2. sequence \in Nat /\ sequence <= MaxId /\ MaxId \in Nat
    BY MaxIdAssumption DEF IInv, TypeOK
  <1>3. create[c] # "stage" => create[c] \in Busy
    BY DEF IInv, TypeOK, Busy
  <1>4. create[c] # "stage" => id[c] = sequence /\ sequence >= 1
    BY <1>3 DEF IInv, CreatorOK
  <1> QED
    BY <1>1, <1>2, <1>4 DEF Unsettled

(* The mapped variables after it has moved on.                               *)
LEMMA CreatorMoves ==
    ASSUME IInv, NEW c \in Creators, create[c] \notin {"idle", "waiting"},
           NEW where \in {"idle", "secure", "collect", "fork", "tar", "cleanup", "register"},
           create' = [create EXCEPT ![c] = where]
    PROVE  /\ Unsettled' <=> where # "idle"
           /\ Creating' = IF where = "idle" THEN Creating \ {c} ELSE Creating
           /\ c \in Creating
  <1>1. create \in [Creators -> {"idle", "waiting", "stage", "secure",
                                 "collect", "fork", "tar", "cleanup", "register"}]
    BY DEF IInv, TypeOK
  <1>2. \A x \in Creators \ {c} : create'[x] = create[x] /\ create[x] \in {"idle", "waiting"}
    BY <1>1, CreatorAtWork
  <1>3. create'[c] = where
    BY <1>1
  <1>4. Unsettled' <=> where # "idle"
    BY <1>2, <1>3 DEF Unsettled
  <1>5. Creating' = IF where = "idle" THEN Creating \ {c} ELSE Creating
    BY <1>2, <1>3 DEF Creating
  <1> QED
    BY <1>4, <1>5 DEF Creating

(* RemoveOldBundles is the eviction of the store.                            *)
LEMMA NewestIsEviction ==
    ASSUME NEW s \in Seq(Ids), NEW e \in Ids, Len(s) <= MaximumBundles
    PROVE  Newest(Append(s, e))
               = Append(IF Len(s) < MaximumBundles THEN s ELSE Tail(s), e)
  <1>1. Len(s) \in Nat /\ MaximumBundles \in Nat /\ MaximumBundles >= 1
    BY MaximumBundlesAssumption
  <1>2. Append(s, e) \in Seq(Ids) /\ Len(Append(s, e)) = Len(s) + 1
    OBVIOUS
  <1>3. CASE Len(s) < MaximumBundles
    BY <1>1, <1>2, <1>3 DEF Newest
  <1>4. CASE ~(Len(s) < MaximumBundles)
    <2>1. Len(s) = MaximumBundles
      BY <1>1, <1>4
    <2>2. Newest(Append(s, e)) = SubSeq(Append(s, e), 2, MaximumBundles + 1)
      BY <1>1, <1>2, <2>1 DEF Newest
    <2>3. SubSeq(Append(s, e), 2, MaximumBundles + 1) = Append(Tail(s), e)
      BY <1>1, <2>1
    <2> QED
      BY <1>4, <2>2, <2>3
  <1> QED
    BY <1>3, <1>4

-----------------------------------------------------------------------------
(* Frames: what a step leaves alone stays so in the store.                   *)
LEMMA DownloadsUnseen ==
    ASSUME UNCHANGED downloadVars
    PROVE  Seen' = Seen /\ path' = path
  BY DEF downloadVars, Seen, ToClient

LEMMA CreationsUnseen ==
    ASSUME UNCHANGED <<agent, sequence, bundles, createVars>>
    PROVE  Issued' = Issued /\ Creating' = Creating /\ bundles' = bundles /\ agent' = agent
  BY DEF createVars, Issued, Unsettled, Creating

(* The names above are what Store's variables stand for.                     *)
LEMMA NothingSeen ==
    ASSUME UNCHANGED <<agent, bundles, path>>, Issued' = Issued, Creating' = Creating,
           Seen' = Seen
    PROVE  UNCHANGED Store!vars
  BY DEF Store!vars, Issued, Creating, Seen

LEMMA Failure ==
    ASSUME NEW c \in Creators, c \in Creating, Creating' = Creating \ {c},
           Issued' \in Issued..MaxId, UNCHANGED <<agent, bundles, path>>, Seen' = Seen
    PROVE  Store!Next
  BY DEF Store!Next, Store!Fail, Issued, Creating, Seen

-----------------------------------------------------------------------------
(* The steps of a creator.                                                   *)
LEMMA CreateStepRefines ==
    ASSUME IInv, NEW c \in Creators, RequestCreate(c) \/ CreateStep(c)
    PROVE  [Store!Next]_Store!vars
  <1>0. create \in [Creators -> {"idle", "waiting", "stage", "secure",
                                 "collect", "fork", "tar", "cleanup", "register"}]
    BY DEF IInv, TypeOK
  <1>1. CASE RequestCreate(c)
    <2>1. /\ agent = "up" /\ create[c] = "idle"
          /\ create' = [create EXCEPT ![c] = "waiting"]
          /\ UNCHANGED <<agent, sequence, bundles, downloadVars>>
      BY <1>1 DEF RequestCreate
    <2>2. Unsettled' <=> Unsettled
      BY <1>0, <2>1 DEF Unsettled
    <2>3. Issued' = Issued
      BY <2>1, <2>2 DEF Issued
    <2>4. c \notin Creating /\ Creating' = Creating \cup {c}
      BY <1>0, <2>1 DEF Creating
    <2>5. Seen' = Seen /\ path' = path
      BY <2>1, DownloadsUnseen
    <2>6. Store!BeginCreate(c)
      BY <2>1, <2>3, <2>4, <2>5 DEF Store!BeginCreate, Issued, Creating, Seen
    <2> QED
      BY <2>6 DEF Store!Next
  <1>2. CASE LockMutex(c)
    <2>1. /\ create[c] = "waiting" /\ create' = [create EXCEPT ![c] = "stage"]
          /\ UNCHANGED <<agent, sequence, bundles, downloadVars>>
      BY <1>2 DEF LockMutex
    <2>2. Unsettled' <=> Unsettled
      BY <1>0, <2>1 DEF Unsettled
    <2>3. Issued' = Issued /\ Creating' = Creating
      BY <1>0, <2>1, <2>2 DEF Issued, Creating
    <2> QED
      BY <2>1, <2>3, DownloadsUnseen, NothingSeen
  <1>3. CASE \E made \in BOOLEAN : MakeStaging(c, made)
    <2>1. PICK made \in BOOLEAN : MakeStaging(c, made)
      BY <1>3
    <2>2. /\ create[c] = "stage" /\ UNCHANGED <<agent, bundles, downloadVars>>
          /\ made => sequence' = sequence + 1 /\ create' = [create EXCEPT ![c] = "secure"]
          /\ ~made => sequence' = sequence /\ create' = [create EXCEPT ![c] = "idle"]
      BY <2>1 DEF MakeStaging, ReturnFromCreate
    <2>3. Issued = sequence /\ sequence \in Nat /\ sequence <= MaxId /\ MaxId \in Nat
      BY <2>2, CreatorAtWork DEF Issued
    <2>4. CASE made
      <3>1. Unsettled' /\ Creating' = Creating
        BY <2>2, <2>4, CreatorMoves
      <3>2. Issued' = Issued
        BY <2>2, <2>3, <2>4, <3>1 DEF Issued
      <3> QED
        BY <2>2, <3>1, <3>2, DownloadsUnseen, NothingSeen
    <2>5. CASE ~made
      <3>1. ~Unsettled' /\ c \in Creating /\ Creating' = Creating \ {c}
        BY <2>2, <2>5, CreatorMoves
      <3>2. Issued' = sequence
        BY <2>2, <2>5, <3>1 DEF Issued
      <3>3. Issued' \in Issued..MaxId
        BY <2>3, <3>2
      <3> QED
        BY <2>2, <3>1, <3>3, DownloadsUnseen, Failure
    <2> QED
      BY <2>4, <2>5
  <1>4. CASE \E success \in BOOLEAN : \/ CollectFiles(c, success) \/ ForkTar(c, success)
                                      \/ TarExits(c, success)
    <2>1. PICK where \in {"fork", "tar", "cleanup"} :
             /\ create[c] \in {"collect", "fork", "tar"}
             /\ create' = [create EXCEPT ![c] = where]
             /\ UNCHANGED <<agent, sequence, bundles, downloadVars>>
      BY <1>4 DEF CollectFiles, ForkTar, TarExits
    <2>2. Unsettled /\ Unsettled' /\ Creating' = Creating
      BY <2>1, CreatorAtWork, CreatorMoves
    <2>3. Issued' = Issued
      BY <2>1, <2>2 DEF Issued
    <2> QED
      BY <2>1, <2>2, <2>3, DownloadsUnseen, NothingSeen
  <1>5. CASE CleanUp(c)
    <2>1. /\ create[c] = "cleanup" /\ UNCHANGED <<agent, sequence, bundles, downloadVars>>
          /\ Archived(c) => create' = [create EXCEPT ![c] = "register"]
          /\ ~Archived(c) => create' = [create EXCEPT ![c] = "idle"]
      BY <1>5 DEF CleanUp, ReturnFromCreate
    <2>2. /\ Unsettled /\ Issued = sequence - 1
          /\ sequence \in Nat /\ sequence <= MaxId /\ MaxId \in Nat
      BY <2>1, CreatorAtWork DEF Issued
    <2>3. CASE Archived(c)
      <3>1. Unsettled' /\ Creating' = Creating
        BY <2>1, <2>3, CreatorMoves
      <3>2. Issued' = Issued
        BY <2>1, <2>2, <3>1 DEF Issued
      <3> QED
        BY <2>1, <3>1, <3>2, DownloadsUnseen, NothingSeen
    <2>4. CASE ~Archived(c)
      <3>1. ~Unsettled' /\ c \in Creating /\ Creating' = Creating \ {c}
        BY <2>1, <2>4, CreatorMoves
      <3>2. Issued' = sequence
        BY <2>1, <3>1 DEF Issued
      <3>3. Issued' \in Issued..MaxId
        BY <2>2, <3>2
      <3> QED
        BY <2>1, <3>1, <3>3, DownloadsUnseen, Failure
    <2> QED
      BY <2>3, <2>4
  <1>6. CASE \E sized \in BOOLEAN : Register(c, sized)
    <2>1. PICK sized \in BOOLEAN : Register(c, sized)
      BY <1>6
    <2>2. /\ create[c] = "register" /\ UNCHANGED <<agent, sequence, downloadVars>>
          /\ create' = [create EXCEPT ![c] = "idle"]
          /\ sized => bundles' = Newest(Append(bundles, id[c]))
          /\ ~sized => bundles' = bundles
      BY <2>1 DEF Register, ReturnFromCreate
    <2>3. /\ Unsettled /\ Issued = sequence - 1 /\ id[c] = sequence /\ sequence >= 1
          /\ sequence \in Nat /\ sequence <= MaxId /\ MaxId \in Nat
      BY <2>2, CreatorAtWork DEF Issued
    <2>4. ~Unsettled' /\ c \in Creating /\ Creating' = Creating \ {c}
      BY <2>2, CreatorMoves
    <2>5. Issued' = sequence
      BY <2>2, <2>4 DEF Issued
    <2>6. Seen' = Seen /\ path' = path
      BY <2>2, DownloadsUnseen
    <2>7. CASE sized
      <3>1. bundles \in Seq(Ids) /\ Len(bundles) <= MaximumBundles
        BY DEF IInv, TypeOK, RegistryBacked
      <3>2. sequence \in Ids
        BY <2>3 DEF Ids
      <3>3. bundles' = Append(IF Len(bundles) < MaximumBundles THEN bundles ELSE Tail(bundles),
                              sequence)
        BY <2>2, <2>3, <2>7, <3>1, <3>2, NewestIsEviction
      <3>4. sequence \in (Issued + 1)..MaxId
        BY <2>3
      <3>5. Store!Store(c)
        BY <2>2, <2>4, <2>5, <2>6, <3>3, <3>4 DEF Store!Store, Issued, Creating, Seen
      <3> QED
        BY <3>5 DEF Store!Next
    <2>8. CASE ~sized
      <3>1. Issued' \in Issued..MaxId
        BY <2>3, <2>5
      <3> QED
        BY <2>2, <2>4, <2>6, <2>8, <3>1, Failure
    <2> QED
      BY <2>7, <2>8
  <1>7. CASE \E secured \in BOOLEAN : SecureStaging(c, secured)
    <2>1. PICK secured \in BOOLEAN : SecureStaging(c, secured)
      BY <1>7
    <2>2. /\ create[c] = "secure" /\ UNCHANGED <<agent, sequence, bundles, downloadVars>>
          /\ secured => create' = [create EXCEPT ![c] = "collect"]
          /\ ~secured => create' = [create EXCEPT ![c] = "idle"]
      BY <2>1 DEF SecureStaging, ReturnFromCreate
    <2>3. /\ Unsettled /\ Issued = sequence - 1
          /\ sequence \in Nat /\ sequence <= MaxId /\ MaxId \in Nat
      BY <2>2, CreatorAtWork DEF Issued
    <2>4. CASE secured
      <3>1. Unsettled' /\ Creating' = Creating
        BY <2>2, <2>4, CreatorMoves
      <3>2. Issued' = Issued
        BY <2>2, <2>3, <3>1 DEF Issued
      <3> QED
        BY <2>2, <3>1, <3>2, DownloadsUnseen, NothingSeen
    <2>5. CASE ~secured
      <3>1. ~Unsettled' /\ c \in Creating /\ Creating' = Creating \ {c}
        BY <2>2, <2>5, CreatorMoves
      <3>2. Issued' = sequence
        BY <2>2, <3>1 DEF Issued
      <3>3. Issued' \in Issued..MaxId
        BY <2>3, <3>2
      <3> QED
        BY <2>2, <3>1, <3>3, DownloadsUnseen, Failure
    <2> QED
      BY <2>4, <2>5
  <1> QED
    BY <1>1, <1>2, <1>3, <1>4, <1>5, <1>6, <1>7 DEF CreateStep

-----------------------------------------------------------------------------
(* The steps of a download.                                                  *)
LEMMA DownloadMoves ==
    ASSUME IInv, NEW d \in Downloads, NEW where \in {"idle", "resolve", "open", "read"},
           download' = [download EXCEPT ![d] = where],
           \A z \in Downloads \ {d} : opened'[z] = opened[z],
           where = "read" => opened'[d] = "complete"
    PROVE  Seen' = [Seen EXCEPT ![d] = CASE where = "idle"    -> "none"
                                         [] where = "resolve" -> "asked"
                                         [] where = "open"    -> "found"
                                         [] where = "read"    -> "reading"]
  <1>1. \A z \in Downloads : download'[z] = IF z = d THEN where ELSE download[z]
    BY DEF IInv, TypeOK
  <1>2. \A z \in Downloads \ {d} : ToClient(z)' = ToClient(z)
    BY <1>1 DEF ToClient
  <1>3. ToClient(d)' = CASE where = "idle"    -> "none"
                         [] where = "resolve" -> "asked"
                         [] where = "open"    -> "found"
                         [] where = "read"    -> "reading"
    BY <1>1 DEF ToClient
  <1> QED
    BY <1>2, <1>3 DEF Seen

LEMMA ReturnIsLeave ==
    ASSUME RInv, NEW d \in Downloads, ReturnFromDownload(d),
           UNCHANGED <<agent, mutex, sequence, bundles, registered, diskVars, createVars>>
    PROVE  /\ Issued' = Issued /\ Creating' = Creating /\ bundles' = bundles /\ agent' = agent
           /\ Seen' = [Seen EXCEPT ![d] = "none"]
           /\ path' = [path EXCEPT ![d] = 0]
  <1>1. Seen' = [Seen EXCEPT ![d] = "none"]
    BY DownloadMoves DEF RInv, ReturnFromDownload, IInv, TypeOK
  <1> QED
    BY <1>1, CreationsUnseen DEF ReturnFromDownload

LEMMA MissingStep ==
    ASSUME RInv, NEW d \in Downloads, ReturnFromDownload(d),
           download[d] \in {"resolve", "open"}, path[d] \notin Registry,
           UNCHANGED <<agent, mutex, sequence, bundles, registered, diskVars, createVars>>
    PROVE  Store!Next
  <1>1. /\ Issued' = Issued /\ Creating' = Creating /\ bundles' = bundles /\ agent' = agent
        /\ Seen' = [Seen EXCEPT ![d] = "none"] /\ path' = [path EXCEPT ![d] = 0]
    BY ReturnIsLeave
  <1>2. Seen[d] \in {"asked", "found"}
    BY DEF Seen, ToClient
  <1>3. path[d] \notin Store!Members
    BY DEF Store!Members, Registry, Elements
  <1>4. Store!Missing(d)
    BY <1>1, <1>2, <1>3 DEF Store!Missing, Store!Leave, Store!Goto, Issued, Creating, Seen
  <1> QED
    BY <1>4 DEF Store!Next

LEMMA DownloadStepRefines ==
    ASSUME RInv, NEW d \in Downloads,
           DownloadStep(d) \/ \E bundle \in Ids : RequestDownload(d, bundle)
    PROVE  Store!Next
  <1>0. IInv /\ opened \in [Downloads -> {"nothing", "partial", "complete"}]
    BY DEF RInv, IInv, TypeOK
  <1>1. CASE \E bundle \in Ids : RequestDownload(d, bundle)
    <2>1. PICK bundle \in Ids : RequestDownload(d, bundle)
      BY <1>1
    <2>2. Issued' = Issued /\ Creating' = Creating /\ bundles' = bundles /\ agent' = agent
      BY <2>1, CreationsUnseen DEF RequestDownload
    <2>3. Seen' = [Seen EXCEPT ![d] = "asked"]
      BY <1>0, <2>1, DownloadMoves DEF RequestDownload
    <2>4. Seen[d] = "none"
      BY <2>1 DEF RequestDownload, Seen, ToClient
    <2>5. Store!Ask(d, bundle)
      BY <2>1, <2>2, <2>3, <2>4
      DEF RequestDownload, Store!Ask, Store!Goto, Issued, Creating, Seen
    <2> QED
      BY <2>5 DEF Store!Next, Ids
  <1>2. CASE GetBundlePath(d)
    <2>1. CASE path[d] \in Registry
      <3>1. Issued' = Issued /\ Creating' = Creating /\ bundles' = bundles /\ agent' = agent
        BY <1>2, CreationsUnseen DEF GetBundlePath
      <3>2. Seen' = [Seen EXCEPT ![d] = "found"] /\ path' = path
        BY <1>0, <1>2, <2>1, DownloadMoves DEF GetBundlePath
      <3>3. Seen[d] = "asked"
        BY <1>2 DEF GetBundlePath, Seen, ToClient
      <3>4. path[d] \in Store!Members
        BY <2>1 DEF Store!Members, Registry, Elements
      <3>5. Store!Find(d)
        BY <3>1, <3>2, <3>3, <3>4 DEF Store!Find, Store!Goto, Issued, Creating, Seen
      <3> QED
        BY <3>5 DEF Store!Next
    <2>2. CASE path[d] \notin Registry
      BY <1>2, <2>2, MissingStep DEF GetBundlePath
    <2> QED
      BY <2>1, <2>2
  <1>3. CASE OpenArchive(d)
    <2>1. CASE path[d] \in Archives
      <3>1. path[d] \in complete
        BY <1>3, <2>1 DEF RInv, OpenOK, OpenArchive, Archives
      <3>2. Issued' = Issued /\ Creating' = Creating /\ bundles' = bundles /\ agent' = agent
        BY <1>3, CreationsUnseen DEF OpenArchive
      <3>3. /\ download' = [download EXCEPT ![d] = "read"] /\ path' = path
            /\ opened' = [opened EXCEPT ![d] = "complete"]
        BY <1>3, <2>1, <3>1 DEF OpenArchive
      <3>4. Seen' = [Seen EXCEPT ![d] = "reading"]
        BY <1>0, <3>3, DownloadMoves
      <3>5. Seen[d] = "found"
        BY <1>3 DEF OpenArchive, Seen, ToClient
      <3>6. Store!Open(d)
        BY <3>2, <3>3, <3>4, <3>5 DEF Store!Open, Store!Goto, Issued, Creating, Seen
      <3> QED
        BY <3>6 DEF Store!Next
    <2>2. CASE path[d] \notin Archives
      <3>1. path[d] \notin Registry
        BY <1>0, <2>2 DEF IInv, RegistryBacked, Archives
      <3> QED
        BY <1>3, <2>2, <3>1, MissingStep DEF OpenArchive
    <2> QED
      BY <2>1, <2>2
  <1>4. CASE FinishDownload(d)
    <2>1. /\ Issued' = Issued /\ Creating' = Creating /\ bundles' = bundles /\ agent' = agent
          /\ Seen' = [Seen EXCEPT ![d] = "none"] /\ path' = [path EXCEPT ![d] = 0]
      BY <1>4, ReturnIsLeave DEF FinishDownload
    <2>2. Seen[d] = "reading"
      BY <1>4 DEF FinishDownload, RInv, OpenOK, DownloadsFinishedArchive, Seen, ToClient
    <2>3. Store!Finish(d)
      BY <2>1, <2>2 DEF Store!Finish, Store!Leave, Store!Goto, Issued, Creating, Seen
    <2> QED
      BY <2>3 DEF Store!Next
  <1> QED
    BY <1>1, <1>2, <1>3, <1>4 DEF DownloadStep

-----------------------------------------------------------------------------
(* The process: whoever was at work, a number that was drawn is used up.      *)
LEMMA IssuedBySequence ==
    ASSUME IInv
    PROVE  Issued \in Int /\ Issued <= sequence /\ sequence \in Nat /\ sequence <= MaxId
           /\ MaxId \in Nat
  BY MaxIdAssumption DEF IInv, TypeOK, Issued

LEMMA StopStep ==
    ASSUME IInv, agent = "up", agent' = "down", bundles' = <<>>, sequence' = sequence,
           create' = [c \in Creators |-> "idle"], download' = [d \in Downloads |-> "idle"],
           path' = [d \in Downloads |-> 0]
    PROVE  Store!Next
  <1>1. ~Unsettled' /\ Creating' = {}
    BY DEF Unsettled, Creating
  <1>2. Issued' = sequence
    BY <1>1 DEF Issued
  <1>3. Issued' \in Issued..MaxId
    BY <1>2, IssuedBySequence
  <1>4. Seen' = [d \in Downloads |-> "none"]
    BY DEF Seen, ToClient
  <1>5. Store!Stop
    BY <1>1, <1>3, <1>4 DEF Store!Stop, Issued, Creating, Seen
  <1> QED
    BY <1>5 DEF Store!Next

LEMMA ProcessRefines ==
    ASSUME RInv, Exit \/ Crash \/ Start
    PROVE  Store!Next
  <1>0. IInv /\ IdlePaths
    BY DEF RInv
  <1>1. CASE Exit
    <2>1. create' = [c \in Creators |-> "idle"] /\ download' = [d \in Downloads |-> "idle"]
      BY <1>0, <1>1 DEF Exit, IInv, TypeOK, createVars, downloadVars
    <2>2. path' = [d \in Downloads |-> 0]
      BY <1>0, <1>1 DEF Exit, IdlePaths, IInv, TypeOK, downloadVars
    <2> QED
      BY <1>0, <1>1, <2>1, <2>2, StopStep DEF Exit
  <1>2. CASE Crash
    BY <1>0, <1>2, StopStep DEF Crash
  <1>3. CASE Start
    <2>1. Issued' = Issued /\ Creating' = Creating /\ bundles' = bundles
      BY <1>3 DEF Start, createVars, Issued, Unsettled, Creating
    <2>2. Seen' = Seen /\ path' = path
      BY <1>3, DownloadsUnseen DEF Start
    <2>3. Store!Start
      BY <1>3, <2>1, <2>2 DEF Start, Store!Start, Issued, Creating, Seen
    <2> QED
      BY <2>3 DEF Store!Next
  <1> QED
    BY <1>1, <1>2, <1>3

-----------------------------------------------------------------------------
(* A download handler without a call has no path.                            *)
LEMMA IdlePathsKept == IInv /\ IdlePaths /\ [Next]_vars => IdlePaths'
  <1> SUFFICES ASSUME IInv, IdlePaths, [Next]_vars
               PROVE  IdlePaths'
    OBVIOUS
  <1>1. CASE UNCHANGED downloadVars
    BY <1>1 DEF downloadVars, IdlePaths
  <1>2. ASSUME NEW d \in Downloads, NEW where \in {"resolve", "open", "read"},
               download' = [download EXCEPT ![d] = where],
               \A z \in Downloads \ {d} : path'[z] = path[z]
        PROVE  IdlePaths'
    BY <1>2 DEF IInv, TypeOK, IdlePaths
  <1>3. ASSUME NEW d \in Downloads, ReturnFromDownload(d)
        PROVE  IdlePaths'
    BY <1>3 DEF ReturnFromDownload, IInv, TypeOK, IdlePaths
  <1>4. ASSUME NEW d \in Downloads, DownloadStep(d) \/ \E bundle \in Ids : RequestDownload(d, bundle)
        PROVE  IdlePaths'
    <2>1. CASE \E bundle \in Ids : RequestDownload(d, bundle)
      BY <1>2, <2>1 DEF RequestDownload, IInv, TypeOK
    <2>2. CASE GetBundlePath(d)
      BY <1>2, <1>3, <2>2 DEF GetBundlePath
    <2>3. CASE OpenArchive(d)
      BY <1>2, <1>3, <2>3 DEF OpenArchive
    <2>4. CASE FinishDownload(d)
      BY <1>3, <2>4 DEF FinishDownload
    <2> QED
      BY <1>4, <2>1, <2>2, <2>3, <2>4 DEF DownloadStep
  <1>5. ASSUME NEW c \in Creators, RequestCreate(c) \/ CreateStep(c)
        PROVE  UNCHANGED downloadVars
    BY <1>5 DEF RequestCreate, CreateStep, LockMutex, MakeStaging, SecureStaging,
                CollectFiles, ForkTar, TarExits, CleanUp, Register
  <1>6. CASE Exit \/ Start \/ UNCHANGED vars
    BY <1>1, <1>6 DEF Exit, Start, vars
  <1>7. CASE Crash
    BY <1>7 DEF Crash, IdlePaths
  <1> QED
    BY <1>1, <1>4, <1>5, <1>6, <1>7 DEF Next

(* A step of the collector is a step of the store, or nothing it shows.       *)
LEMMA StepRefines == RInv /\ [Next]_vars => [Store!Next]_Store!vars
  <1> SUFFICES ASSUME RInv, [Next]_vars
               PROVE  [Store!Next]_Store!vars
    OBVIOUS
  <1>1. ASSUME NEW c \in Creators, RequestCreate(c) \/ CreateStep(c)
        PROVE  [Store!Next]_Store!vars
    BY <1>1, CreateStepRefines DEF RInv
  <1>2. ASSUME NEW d \in Downloads, DownloadStep(d) \/ \E bundle \in Ids : RequestDownload(d, bundle)
        PROVE  [Store!Next]_Store!vars
    BY <1>2, DownloadStepRefines
  <1>3. CASE Exit \/ Crash \/ Start
    BY <1>3, ProcessRefines
  <1>4. CASE UNCHANGED vars
    BY <1>4, DownloadsUnseen, CreationsUnseen, NothingSeen DEF vars
  <1> QED
    BY <1>1, <1>2, <1>3, <1>4 DEF Next

LEMMA InitRefines == Init => RInv /\ Store!Init
  <1> SUFFICES ASSUME Init
               PROVE  RInv /\ Store!Init
    OBVIOUS
  <1>1. RInv
    BY InitIInv DEF Init, RInv, OpenOK, IdlePaths, DownloadsFinishedArchive
  <1>2. ~Unsettled
    BY DEF Init, Unsettled
  <1>3. {c \in Creators : create[c] # "idle"} = {}
    BY DEF Init
  <1>4. [d \in Downloads |-> ToClient(d)] = [d \in Downloads |-> "none"]
    BY DEF Init, ToClient
  <1>5. Store!Init
    BY <1>2, <1>3, <1>4 DEF Init, Store!Init
  <1> QED
    BY <1>1, <1>5

(* The collector, with its mutex, its files, its child process and its        *)
(* crashes, does nothing a client could tell from BundleStore.               *)
THEOREM Refinement == Spec => ImplementsBundleStore
  <1>1. RInv /\ [Next]_vars => RInv'
    BY NextIInv, OpenOKKept, IdlePathsKept DEF RInv
  <1>2. Spec => []RInv
    BY InitRefines, <1>1, PTL DEF Spec
  <1> QED
    BY InitRefines, StepRefines, <1>2, PTL DEF Spec, ImplementsBundleStore, Store!Spec
=============================================================================
