---------------------------- MODULE FileSyncProofs ----------------------------
(***************************************************************************)
(* Theorems about FileSync, for any directories and files, any number of   *)
(* changes and any order in which scanDir finds the paths: what is edited   *)
(* in place and not taken for a double, and what is deleted, is the same on *)
(* both sides when Syndir rests.                                           *)
(***************************************************************************)
EXTENDS FileSync, SelectionLemmas, FiniteSetTheorems

-----------------------------------------------------------------------------
(* What each file's fate leaves true of it.                                *)

Stages == {"idle", "watch", "connect", "next", "open", "stat", "transfer"}
FileStages == {"open", "stat", "transfer"}
Fates == {"none", "kept", "new", "deleted", "other"}

DiskTypes ==
    /\ ops \in 0 .. MaxOps
    /\ disk \in [Files -> Versions \cup {Absent}]
    /\ stamp \in [Files -> Versions]
    /\ \A f \in Files : disk[f] <= ops + 1 /\ stamp[f] <= ops + 1
    /\ dirs \in [Dirs -> {"new", "there", "gone", "again"}]
    /\ fate \in [Files -> Fates]
WatchTypes ==
    /\ watched \subseteq Paths /\ pending \subseteq Paths
    /\ last \in {Root} \cup Files
    /\ lastModified \in {0} \cup Versions
    /\ doubled \subseteq Files
ListTypes ==
    /\ files \in Seq(Paths) /\ oldFiles \in Seq(Paths) /\ list \in Seq(Paths)
    /\ Once(files)
ThreadTypes ==
    /\ pc \in Stages
    /\ conn \in {"none", "open", "unauthenticated", "dead"}
    /\ remote \in [Files -> Versions \cup {Absent, Torn}]
    /\ remoteDirs \in [SubDirs -> {"absent", "directory", "file"}]
    /\ {opened, sized, handle} \subseteq Versions \cup {Absent}
    /\ lost \in BOOLEAN
Types == DiskTypes /\ WatchTypes /\ ListTypes /\ ThreadTypes

Stage ==
    /\ pc \in {"idle", "watch"} => list = <<>>
    /\ pc \in FileStages => list # <<>> /\ Head(list) \in Paths
    /\ pc \in {"next"} \cup FileStages /\ ~ lost => conn = "open"

\* Every file lies in a directory that is there; and a directory that is watched,
\* signalled or listed was there once, and is listed for copying only when it was gone.
Tree ==
    /\ dirs[Root] = "there"
    /\ \A f \in Files : disk[f] # Absent => Exists(DirOf[f])
    /\ \A d \in Dirs : Holds(files, d) => dirs[d] # "new"
    /\ \A d \in Dirs : Holds(list, d) => dirs[d] \in {"gone", "again"}

Listed(f) == Holds(list, f)
Due(f) == f \in pending /\ Changed(f)
Handling(f) == pc \in FileStages /\ Head(list) = f

NoneHolds(f) ==
    /\ disk[f] = Absent /\ remote[f] = Absent
    /\ ~ Holds(files, f) /\ ~ Listed(f) /\ f \notin pending /\ last # f

AliveHolds(f) ==
    /\ disk[f] # Absent
    /\ last = f => lastModified # 0
    /\ remote[f] # Absent \/ Listed(f) \/ f \in pending => f \in watched

KeptHolds(f) ==
    /\ f \in watched
    /\ pc \in {"stat", "transfer"} /\ Head(list) = f => handle = Absent
    /\ pc = "transfer" /\ Head(list) = f /\ sized # disk[f] => f \in pending
    /\ remote[f] = disk[f] \/ f \in pending \/ Listed(f) \/ f \in doubled

DeletedHolds(f) ==
    /\ disk[f] = Absent
    /\ lost \/ Due(f) \/ (~ Handling(f) /\ (remote[f] = Absent \/ Listed(f)))

FateOf(f) ==
    /\ fate[f] = "none" => NoneHolds(f)
    /\ fate[f] \in {"kept", "new"} => AliveHolds(f)
    /\ fate[f] = "deleted" => DeletedHolds(f)

SyncInv == Types /\ Stage /\ Tree /\ \A f \in Files : FateOf(f)

\* No change of a file goes unseen, though one may be taken for a double.
EditInv == \A f \in Files : fate[f] = "kept" => KeptHolds(f)
-----------------------------------------------------------------------------
(* Sequences of paths.                                                     *)

LEMMA HoldsConcat ==
    ASSUME NEW X, NEW s \in Seq(X), NEW t \in Seq(X), NEW e
    PROVE  Holds(s \o t, e) <=> Holds(s, e) \/ Holds(t, e)
<1> DEFINE u == s \o t
<1>1. /\ Len(s) \in Nat /\ Len(t) \in Nat /\ Len(u) = Len(s) + Len(t)
      /\ \A i \in 1 .. Len(s) : u[i] = s[i]
      /\ \A i \in 1 .. Len(t) : u[Len(s) + i] = t[i]
  OBVIOUS
<1> HIDE DEF u
<1>2. \A i \in 1 .. Len(u) : i \in 1 .. Len(s) \/ (i - Len(s) \in 1 .. Len(t)
                                                   /\ i = Len(s) + (i - Len(s)))
  BY <1>1
<1>3. /\ \A i \in 1 .. Len(s) : i \in 1 .. Len(u)
      /\ \A i \in 1 .. Len(t) : Len(s) + i \in 1 .. Len(u)
  BY <1>1
<1>4. ASSUME NEW i \in 1 .. Len(u), u[i] = e PROVE Holds(s, e) \/ Holds(t, e)
  <2>1. CASE i \in 1 .. Len(s)
    BY <2>1, <1>1, <1>4 DEF Holds
  <2>2. CASE i - Len(s) \in 1 .. Len(t) /\ i = Len(s) + (i - Len(s))
    <3>1. t[i - Len(s)] = e
      BY <2>2, <1>1, <1>4
    <3> QED BY <2>2, <3>1 DEF Holds
  <2> QED BY <2>1, <2>2, <1>2
<1>5. ASSUME NEW i \in 1 .. Len(s), s[i] = e PROVE Holds(u, e)
  BY <1>1, <1>3, <1>5 DEF Holds
<1>6. ASSUME NEW i \in 1 .. Len(t), t[i] = e PROVE Holds(u, e)
  <2>1. Len(s) + i \in 1 .. Len(u) /\ u[Len(s) + i] = e
    BY <1>1, <1>3, <1>6
  <2> QED BY <2>1 DEF Holds
<1>7. Holds(u, e) <=> Holds(s, e) \/ Holds(t, e)
  BY <1>4, <1>5, <1>6 DEF Holds
<1> QED BY <1>7 DEF u

LEMMA OnceConcat ==
    ASSUME NEW X, NEW s \in Seq(X), NEW t \in Seq(X), Once(s), Once(t),
           \A e \in X : ~ (Holds(s, e) /\ Holds(t, e))
    PROVE  Once(s \o t)
<1> DEFINE u == s \o t
<1>1. /\ Len(s) \in Nat /\ Len(t) \in Nat /\ Len(u) = Len(s) + Len(t)
      /\ \A i \in 1 .. Len(s) : u[i] = s[i] /\ s[i] \in X
      /\ \A i \in 1 .. Len(t) : u[Len(s) + i] = t[i]
  OBVIOUS
<1> HIDE DEF u
<1>2. \A i \in 1 .. Len(u) : i \in 1 .. Len(s) \/ (i - Len(s) \in 1 .. Len(t)
                                                   /\ i = Len(s) + (i - Len(s)))
  BY <1>1
<1>3. ASSUME NEW i \in 1 .. Len(s), NEW j \in 1 .. Len(t) PROVE s[i] # t[j]
  BY <1>1, <1>3 DEF Holds
<1>4. ASSUME NEW i \in 1 .. Len(u), NEW j \in 1 .. Len(u), u[i] = u[j]
      PROVE  i = j
  <2>1. CASE i \in 1 .. Len(s) /\ j \in 1 .. Len(s)
    BY <2>1, <1>1, <1>4 DEF Once
  <2>2. CASE i \in 1 .. Len(s) /\ j - Len(s) \in 1 .. Len(t) /\ j = Len(s) + (j - Len(s))
    <3>1. u[j] = t[j - Len(s)] /\ u[i] = s[i]
      BY <2>2, <1>1
    <3> QED BY <2>2, <3>1, <1>3, <1>4
  <2>3. CASE j \in 1 .. Len(s) /\ i - Len(s) \in 1 .. Len(t) /\ i = Len(s) + (i - Len(s))
    <3>1. u[i] = t[i - Len(s)] /\ u[j] = s[j]
      BY <2>3, <1>1
    <3> QED BY <2>3, <3>1, <1>3, <1>4
  <2>4. CASE /\ i - Len(s) \in 1 .. Len(t) /\ i = Len(s) + (i - Len(s))
             /\ j - Len(s) \in 1 .. Len(t) /\ j = Len(s) + (j - Len(s))
    <3>1. t[i - Len(s)] = t[j - Len(s)]
      BY <2>4, <1>1, <1>4
    <3>2. i - Len(s) = j - Len(s)
      BY <3>1, <2>4 DEF Once
    <3> QED BY <3>2, <2>4
  <2> QED BY <2>1, <2>2, <2>3, <2>4, <1>2
<1> QED BY <1>4 DEF Once, u

LEMMA HoldsTail ==
    ASSUME NEW X, NEW s \in Seq(X), s # <<>>, NEW e
    PROVE  /\ Tail(s) \in Seq(X) /\ Head(s) \in X /\ Holds(s, Head(s))
           /\ Holds(s, e) <=> e = Head(s) \/ Holds(Tail(s), e)
<1> DEFINE t == Tail(s)
<1>1. /\ t \in Seq(X) /\ Head(s) = s[1] /\ s[1] \in X
      /\ Len(s) \in Nat \ {0} /\ Len(t) = Len(s) - 1
      /\ \A i \in 1 .. Len(t) : t[i] = s[i + 1]
  OBVIOUS
<1> HIDE DEF t
<1>2. /\ 1 \in 1 .. Len(s)
      /\ \A i \in 1 .. Len(t) : i + 1 \in 1 .. Len(s)
      /\ \A i \in 1 .. Len(s) : i = 1 \/ (i - 1 \in 1 .. Len(t) /\ i = (i - 1) + 1)
  BY <1>1
<1>3. Holds(s, e) <=> e = Head(s) \/ Holds(t, e)
  <2>1. ASSUME NEW i \in 1 .. Len(s), s[i] = e PROVE e = Head(s) \/ Holds(t, e)
    <3>1. CASE i = 1
      BY <3>1, <2>1, <1>1
    <3>2. CASE i - 1 \in 1 .. Len(t) /\ i = (i - 1) + 1
      <4>1. t[i - 1] = e
        BY <3>2, <2>1, <1>1
      <4> QED BY <3>2, <4>1 DEF Holds
    <3> QED BY <3>1, <3>2, <1>2
  <2>2. ASSUME NEW i \in 1 .. Len(t), t[i] = e PROVE Holds(s, e)
    BY <2>2, <1>1, <1>2 DEF Holds
  <2>3. e = Head(s) => Holds(s, e)
    BY <1>1, <1>2 DEF Holds
  <2> QED BY <2>1, <2>2, <2>3 DEF Holds
<1>4. Holds(s, Head(s))
  BY <1>1, <1>2 DEF Holds
<1> QED BY <1>1, <1>3, <1>4 DEF t

LEMMA HoldsToSet ==
    ASSUME NEW X, NEW s \in Seq(X), NEW e
    PROVE  e \in ToSet(s) <=> Holds(s, e)
  BY DEF ToSet, Holds

LEMMA HoldsType ==
    ASSUME NEW X, NEW s \in Seq(X), NEW e, Holds(s, e)
    PROVE  e \in X
  BY DEF Holds

LEMMA HoldsEmpty ==
    ASSUME NEW e
    PROVE  ~ Holds(<<>>, e)
  BY DEF Holds

LEMMA HoldsSingle ==
    ASSUME NEW a, NEW e
    PROVE  /\ Holds(<<a>>, e) <=> e = a
           /\ Once(<<a>>) /\ Head(<<a>>) = a /\ <<a>> # <<>>
<1>1. Len(<<a>>) = 1 /\ <<a>>[1] = a /\ 1 .. 1 = {1}
  OBVIOUS
<1> QED BY <1>1 DEF Holds, Once

\* What the order of a set is.
LEMMA OrdersAre ==
    ASSUME NEW S, IsFiniteSet(S), NEW s \in Orders(S)
    PROVE  s \in Seq(S) /\ Once(s)
<1>1. Cardinality(S) \in Nat
  BY FS_CardinalityType
<1>2. s \in [1 .. Cardinality(S) -> S] /\
      \A i, j \in 1 .. Cardinality(S) : i # j => s[i] # s[j]
  BY DEF Orders, SetToSeqs
<1>3. Len(s) = Cardinality(S) /\ s \in Seq(S)
  BY <1>1, <1>2
<1> QED BY <1>2, <1>3 DEF Once

LEMMA FinitePaths == IsFiniteSet(Paths)
<1>1. IsFiniteSet({Root})
  BY FS_Singleton
<1>2. IsFiniteSet(Dirs)
  BY <1>1, FileSyncAssumption, FS_Union DEF Dirs
<1> QED BY <1>2, FileSyncAssumption, FS_Union DEF Paths

LEMMA BelowAre ==
    ASSUME NEW d \in Dirs
    PROVE  /\ Below(d) \subseteq Paths /\ IsFiniteSet(Below(d))
           /\ d \notin Below(d) /\ \A p \in Below(d) : Exists(p)
<1>1. Below(d) \subseteq Paths /\ d \notin Below(d) /\ \A p \in Below(d) : Exists(p)
  BY FileSyncAssumption DEF Below, Paths
<1> QED BY <1>1, FinitePaths, FS_Subset

LEMMA SurvivorsAre ==
    ASSUME files \in Seq(Paths), Once(files)
    PROVE  /\ Survivors \in Seq(Paths) /\ Once(Survivors)
           /\ \A e : Holds(Survivors, e) => Holds(files, e)
<1> DEFINE n == Len(files) \div 2
<1>1. Len(files) \in Nat /\ n \in Nat /\ 2 * n <= Len(files)
  OBVIOUS
<1> HIDE DEF n
<1>2. \A i \in 1 .. n : 2 * i \in 1 .. Len(files)
  BY <1>1
<1>3. Survivors = [i \in 1 .. n |-> files[2 * i]]
  BY DEF Survivors, n
<1>4. Survivors \in [1 .. n -> Paths] /\ \A i \in 1 .. n : Survivors[i] = files[2 * i]
  BY <1>2, <1>3
<1>5. Len(Survivors) = n /\ Survivors \in Seq(Paths)
  BY <1>1, <1>4
<1>6. \A i, j \in 1 .. n : 2 * i = 2 * j => i = j
  BY <1>1
<1> QED BY <1>2, <1>4, <1>5, <1>6 DEF Once, Holds

LEMMA ScanDirGives ==
    ASSUME files \in Seq(Paths), Once(files), NEW top \in Paths, NEW found \in Seq(Paths),
           Once(found), ~ Holds(found, top), ScanDir(top, found)
    PROVE  /\ oldFiles' = files /\ files' \in Seq(Paths) /\ Once(files')
           /\ \A e : Holds(files', e) => Holds(files, e) \/ e = top \/ Holds(found, e)
<1> DEFINE all == <<top>> \o found
           added == Selection(all, Paths \ ToSet(Survivors))
<1>1. all \in Seq(Paths) /\ Once(all) /\ \A e : Holds(all, e) <=> e = top \/ Holds(found, e)
  <2>1. <<top>> \in Seq(Paths) /\ Once(<<top>>) /\ \A e : Holds(<<top>>, e) <=> e = top
    BY HoldsSingle
  <2>2. \A e : Holds(all, e) <=> Holds(<<top>>, e) \/ Holds(found, e)
    BY <2>1, HoldsConcat
  <2>3. \A e \in Paths : ~ (Holds(<<top>>, e) /\ Holds(found, e))
    BY <2>1
  <2>4. Once(all)
    BY <2>1, <2>3, OnceConcat
  <2> HIDE DEF all
  <2>5. all \in Seq(Paths)
    BY <2>1 DEF all
  <2> QED BY <2>1, <2>2, <2>4, <2>5
<1>2. /\ Survivors \in Seq(Paths) /\ Once(Survivors)
      /\ \A e : Holds(Survivors, e) => Holds(files, e)
  BY SurvivorsAre
<1> HIDE DEF all
<1>3. /\ added \in Seq(Paths \cap (Paths \ ToSet(Survivors))) /\ Once(added)
      /\ \A e : Holds(added, e) <=> Holds(all, e) /\ e \in Paths \ ToSet(Survivors)
  BY <1>1, SelectionType, SelectionOnce, SelectionHolds
<1>4. files' = Survivors \o added /\ oldFiles' = files
  BY DEF ScanDir, all
<1> HIDE DEF added
<1>5. added \in Seq(Paths)
  BY <1>3
<1>6. \A e \in Paths : ~ (Holds(Survivors, e) /\ Holds(added, e))
  BY <1>2, <1>3, HoldsToSet
<1>7. files' \in Seq(Paths)
  BY <1>2, <1>4, <1>5
<1>8. Once(files')
  BY <1>2, <1>3, <1>4, <1>5, <1>6, OnceConcat
<1>9. ASSUME NEW e, Holds(files', e)
      PROVE  Holds(files, e) \/ e = top \/ Holds(found, e)
  BY <1>1, <1>2, <1>3, <1>4, <1>5, <1>9, HoldsConcat
<1> QED BY <1>4, <1>7, <1>8, <1>9
-----------------------------------------------------------------------------
(* The shape of the state.                                                 *)

LEMMA ConstantsType ==
    /\ MaxOps \in Nat /\ MaxOps + 1 \in Nat
    /\ Absent = 0 /\ Torn = MaxOps + 2 /\ Versions = 1 .. (MaxOps + 1)
    /\ Root \in Dirs /\ SubDirs \subseteq Dirs /\ Root \notin SubDirs
    /\ Dirs \cap Files = {} /\ Paths = Dirs \cup Files
    /\ \A f \in Files : DirOf[f] \in Dirs
  BY FileSyncAssumption DEF Absent, Torn, Versions, Dirs, Paths

LEMMA InitTypes == Init => Types
<1> SUFFICES ASSUME Init PROVE Types
  OBVIOUS
<1> USE ConstantsType
<1>1. DiskTypes
  BY FileSyncAssumption DEF Init, DiskTypes, Fates
<1>2. WatchTypes
  BY FileSyncAssumption DEF Init, WatchTypes
<1>3. ListTypes
  <2>1. PICK found \in Orders(Below(Root)) : files = <<Root>> \o found
    BY DEF Init
  <2>2. Below(Root) \in SUBSET Paths /\ Root \notin Below(Root) /\ IsFiniteSet(Below(Root))
    BY BelowAre
  <2>3. found \in Seq(Below(Root)) /\ Once(found)
    BY <2>2, OrdersAre
  <2>4. found \in Seq(Paths) /\ ~ Holds(found, Root)
    BY <2>2, <2>3, HoldsType
  <2>5. <<Root>> \in Seq(Paths) /\ Once(<<Root>>) /\ \A e : Holds(<<Root>>, e) <=> e = Root
    BY HoldsSingle
  <2>6. Once(<<Root>> \o found)
    <3>1. \A e \in Paths : ~ (Holds(<<Root>>, e) /\ Holds(found, e))
      BY <2>4, <2>5
    <3> QED BY <2>3, <2>4, <2>5, <3>1, OnceConcat
  <2>7. files \in Seq(Paths)
    BY <2>1, <2>4, <2>5
  <2>8. oldFiles = <<>> /\ list = <<>> /\ <<>> \in Seq(Paths)
    BY DEF Init
  <2> QED BY <2>1, <2>6, <2>7, <2>8 DEF ListTypes
<1>4. ThreadTypes
  <2>1. /\ remote \in [Files -> Versions \cup {Absent, Torn}]
        /\ remoteDirs \in [SubDirs -> {"absent", "directory", "file"}]
    BY DEF Init
  <2>2. pc \in Stages /\ conn = "none" /\ {opened, sized, handle} \subseteq {Absent}
    BY DEF Init, Stages
  <2>3. lost \in BOOLEAN
    BY DEF Init
  <2> QED BY <2>1, <2>2, <2>3 DEF ThreadTypes
<1> QED BY <1>1, <1>2, <1>3, <1>4 DEF Types

LEMMA DiskTypesNext == Types /\ [Next]_vars => DiskTypes'
<1> SUFFICES ASSUME Types, [Next]_vars PROVE DiskTypes'
  OBVIOUS
<1> USE ConstantsType
<1>0. DiskTypes
  BY DEF Types
<1> USE DEF DiskTypes, Versions
<1>1. ASSUME NEW f \in Files, NewVersion(f), May("write") \/ May("create") \/ May("replace")
      PROVE  /\ ops' \in 0 .. MaxOps /\ ops' = ops + 1
             /\ disk' \in [Files -> Versions \cup {Absent}]
             /\ stamp' \in [Files -> Versions]
             /\ \A g \in Files : disk'[g] <= ops' + 1 /\ stamp'[g] <= ops' + 1
  BY <1>0, <1>1 DEF NewVersion, May
<1>2. CASE \E f \in Files : Write(f)
  BY <1>0, <1>1, <1>2 DEF Write
<1>3. CASE \E f \in Files : Create(f)
  BY <1>0, <1>1, <1>3 DEF Create, Fates
<1>4. CASE \E f \in Files : Delete(f)
  BY <1>0, <1>4 DEF Delete, May, Fates
<1>5. CASE \E f \in Files : Replace(f)
  BY <1>0, <1>1, <1>5 DEF Replace, Fates
<1>6. CASE \E d \in SubDirs : MakeDir(d) \/ RemoveDir(d)
  BY <1>0, <1>6 DEF MakeDir, RemoveDir, May
<1>7. CASE UNCHANGED diskVars
  BY <1>0, <1>7 DEF diskVars
<1>8. UNCHANGED diskVars \/ User
  BY DEF Next, vars, Slots, Copy, Die, FileChangedSlot, DirChangedSlot, DirGone, WatchAndGather,
    ConnectToRemoteHost, ConnectWithBadKey, SyncDeletion, SyncModification,
    DisconnectSSHSession, OpenFile, StartAgain, ScpSendInit, Transfer, TransferFails
<1> QED BY <1>2, <1>3, <1>4, <1>5, <1>6, <1>7, <1>8 DEF User

LEMMA SlotScans ==
    ASSUME Types, Tree, NEW d \in Dirs, DirChangedSlot(d) \/ DirGone(d)
    PROVE  /\ oldFiles' = files /\ files' \in Seq(Paths) /\ Once(files')
           /\ \A e : Holds(files', e) => Holds(files, e) \/ Exists(e)
<1>0. files \in Seq(Paths) /\ Once(files) /\ Root \in Paths /\ Exists(Root)
  BY ConstantsType DEF Types, ListTypes, Tree, Exists
<1>1. CASE DirChangedSlot(d)
  <2>1. PICK found \in Orders(Below(d)) : ScanDir(d, found)
    BY <1>1 DEF DirChangedSlot
  <2>2. /\ Below(d) \subseteq Paths /\ IsFiniteSet(Below(d))
        /\ d \notin Below(d) /\ \A p \in Below(d) : Exists(p)
    BY BelowAre
  <2>3. found \in Seq(Below(d)) /\ Once(found)
    BY <2>2, OrdersAre
  <2>4. \A e : Holds(found, e) => e \in Below(d)
    BY <2>3, HoldsType
  <2>5. found \in Seq(Paths) /\ d \in Paths /\ ~ Holds(found, d) /\ Exists(d)
    BY <1>1, <2>2, <2>3, <2>4, ConstantsType DEF DirChangedSlot
  <2>6. /\ oldFiles' = files /\ files' \in Seq(Paths) /\ Once(files')
        /\ \A e : Holds(files', e) => Holds(files, e) \/ e = d \/ Holds(found, e)
    BY <1>0, <2>1, <2>3, <2>5, ScanDirGives
  <2> QED BY <2>2, <2>4, <2>5, <2>6
<1>2. CASE DirGone(d)
  <2>1. ScanDir(Root, <<>>)
    BY <1>2 DEF DirGone
  <2>2. <<>> \in Seq(Paths) /\ Once(<<>>) /\ \A e : ~ Holds(<<>>, e)
    BY HoldsEmpty DEF Once
  <2>3. /\ oldFiles' = files /\ files' \in Seq(Paths) /\ Once(files')
        /\ \A e : Holds(files', e) => Holds(files, e) \/ e = Root \/ Holds(<<>>, e)
    BY <1>0, <2>1, <2>2, ScanDirGives
  <2> QED BY <1>0, <2>2, <2>3
<1> QED BY <1>1, <1>2

LEMMA DeletionRemoves ==
    ASSUME Types, SyncDeletion
    PROVE  /\ list # <<>> /\ Head(list) \in Paths
           /\ files' \in Seq(Paths) /\ Once(files')
           /\ \A e : Holds(files', e) <=> Holds(files, e) /\ e # Head(list)
<1> DEFINE p == Head(list)
<1>1. files \in Seq(Paths) /\ Once(files) /\ list \in Seq(Paths)
  BY DEF Types, ListTypes
<1>2. list # <<>> /\ files' = Selection(files, Paths \ {p})
  BY DEF SyncDeletion
<1>3. p \in Paths
  BY <1>1, <1>2, HoldsTail
<1> HIDE DEF p
<1>4. /\ files' \in Seq(Paths \cap (Paths \ {p})) /\ Once(files')
      /\ \A e : Holds(files', e) <=> Holds(files, e) /\ e \in Paths \ {p}
  BY <1>1, <1>2, SelectionType, SelectionOnce, SelectionHolds
<1>5. files' \in Seq(Paths)
  BY <1>4
<1>6. \A e : Holds(files, e) => e \in Paths
  BY <1>1, HoldsType
<1> QED BY <1>2, <1>3, <1>4, <1>5, <1>6 DEF p

LEMMA ListTypesNext == Types /\ Stage /\ Tree /\ [Next]_vars => ListTypes'
<1> SUFFICES ASSUME Types, Stage, Tree, [Next]_vars PROVE ListTypes'
  OBVIOUS
<1>0. ListTypes /\ Files \subseteq Paths
  BY ConstantsType DEF Types
<1> USE DEF ListTypes, listVars
<1>1. CASE \E d \in Dirs : DirChangedSlot(d) \/ DirGone(d)
  BY <1>0, <1>1, SlotScans DEF DirChangedSlot, DirGone
<1>2. CASE WatchAndGather
  <2>1. Selection(files, Gather) \in Seq(Paths \cap Gather)
    BY <1>0, SelectionType
  <2> QED BY <1>0, <1>2, <2>1 DEF WatchAndGather
<1>3. CASE SyncDeletion
  BY <1>0, <1>3, DeletionRemoves, HoldsTail DEF SyncDeletion
<1>4. CASE Transfer
  <2>1. list # <<>> => Tail(list) \in Seq(Paths)
    BY <1>0
  <2>2. files' = files /\ oldFiles' = oldFiles /\ list' = Tail(list)
    BY <1>4 DEF Transfer
  <2>3. list # <<>>
    BY <1>4 DEF Transfer, Stage, FileStages
  <2> QED BY <1>0, <2>1, <2>2, <2>3
<1>5. CASE \E f \in Files : FileChangedSlot(f)
  <2>1. PICK f \in Files : FileChangedSlot(f)
    BY <1>5
  <2>2. UNCHANGED <<files, oldFiles>> /\ (list' = list \/ list' = <<f>>)
    BY <2>1 DEF FileChangedSlot
  <2>3. f \in Paths
    BY <1>0
  <2>4. <<f>> \in Seq(Paths)
    BY ONLY <2>3
  <2> QED BY <1>0, <2>2, <2>4
<1>6. CASE UNCHANGED <<files, oldFiles, list>>
  BY <1>0, <1>6
<1>7. \/ UNCHANGED <<files, oldFiles, list>> \/ WatchAndGather \/ SyncDeletion \/ Transfer
      \/ \E d \in Dirs : DirChangedSlot(d) \/ DirGone(d)
      \/ \E f \in Files : FileChangedSlot(f)
  BY DEF Next, vars, Slots, Copy, Die, User, Write, Create, Delete, Replace, MakeDir, RemoveDir,
    ConnectToRemoteHost, ConnectWithBadKey, SyncModification,
    DisconnectSSHSession, OpenFile, StartAgain, ScpSendInit, TransferFails
<1> QED BY <1>1, <1>2, <1>3, <1>4, <1>5, <1>6, <1>7

LEMMA WatchTypesNext == Types /\ Stage /\ Tree /\ [Next]_vars => WatchTypes'
<1> SUFFICES ASSUME Types, Stage, Tree, [Next]_vars PROVE WatchTypes'
  OBVIOUS
<1> USE ConstantsType
<1>0. WatchTypes /\ stamp \in [Files -> Versions]
  BY DEF Types, DiskTypes
<1> USE DEF WatchTypes
<1>1. CASE User
  <2>1. /\ UNCHANGED <<last, lastModified>> /\ watched' \subseteq watched
        /\ pending' \subseteq Paths /\ doubled' \subseteq doubled
    BY <1>0, <1>1 DEF User, Write, Create, Delete, Replace, MakeDir, RemoveDir, lastVars
  <2> QED BY <1>0, <2>1
<1>2. ASSUME NEW f \in Files, FileChangedSlot(f) PROVE WatchTypes'
  BY <1>0, <1>2 DEF FileChangedSlot, Created, lastVars
<1>3. ASSUME NEW d \in Dirs, DirChangedSlot(d) \/ DirGone(d) PROVE WatchTypes'
  <2>1. UNCHANGED lastVars /\ pending' \subseteq Paths /\ watched' \subseteq Paths
    <3>1. files' \in Seq(Paths)
      BY ListTypesNext DEF ListTypes
    <3>2. ToSet(files') \subseteq Paths
      BY <3>1, HoldsToSet, HoldsType
    <3> QED BY <1>0, <1>3, <3>2 DEF DirChangedSlot, DirGone
  <2> QED BY <1>0, <2>1 DEF lastVars
<1>4. CASE WatchAndGather
  <2>1. ToSet(files) \subseteq Paths
    BY HoldsToSet, HoldsType DEF Types, ListTypes
  <2> QED BY <1>0, <1>4, <2>1 DEF WatchAndGather, AddPaths, lastVars
<1>5. CASE Copy \/ Die \/ UNCHANGED vars
  <2>1. UNCHANGED lastVars /\ watched' \subseteq watched /\ pending' \subseteq pending
    BY <1>5 DEF Copy, Die, vars, watchVars,
      ConnectToRemoteHost, ConnectWithBadKey, SyncDeletion, SyncModification,
      DisconnectSSHSession, OpenFile, StartAgain, ScpSendInit, Transfer, TransferFails
  <2> QED BY <1>0, <2>1 DEF lastVars
<1> QED BY <1>1, <1>2, <1>3, <1>4, <1>5 DEF Next, Slots

LEMMA ThreadTypesNext == Types /\ Stage /\ [Next]_vars => ThreadTypes'
<1> SUFFICES ASSUME Types, Stage, [Next]_vars PROVE ThreadTypes'
  OBVIOUS
<1> USE ConstantsType
<1>0. /\ ThreadTypes /\ disk \in [Files -> Versions \cup {Absent}]
      /\ ops \in Versions \cup {Absent}
      /\ pc \in FileStages => list # <<>> /\ Head(list) \in Paths
  BY DEF Types, DiskTypes, Stage
<1> USE DEF ThreadTypes, Stages, FileStages
<1>1. pc' \in Stages /\ conn' \in {"none", "open", "unauthenticated", "dead"}
  BY <1>0 DEF Next, vars, User, Write, Create, Delete, Replace, MakeDir, RemoveDir,
    Slots, Copy, Die, FileChangedSlot, DirChangedSlot, DirGone, WatchAndGather,
    ConnectToRemoteHost, ConnectWithBadKey, SyncDeletion, SyncModification,
    DisconnectSSHSession, OpenFile, StartAgain, ScpSendInit, Transfer, TransferFails
<1>2. lost' = lost \/ lost' = TRUE
  BY DEF Next, vars, User, Write, Create, Delete, Replace, MakeDir, RemoveDir,
    Slots, Copy, Die, FileChangedSlot, DirChangedSlot, DirGone, WatchAndGather,
    ConnectToRemoteHost, ConnectWithBadKey, SyncDeletion, SyncModification,
    DisconnectSSHSession, OpenFile, StartAgain, ScpSendInit, Transfer, TransferFails
<1>3. {opened, sized, handle}' \subseteq Versions \cup {Absent}
  <2>1. CASE User
    BY <1>0, <2>1 DEF User, Write, Create, Delete, Replace, MakeDir, RemoveDir, Unlink, sendVars
  <2>2. CASE OpenFile \/ ScpSendInit
    <3>1. Size(Head(list)) \in Versions \cup {Absent}
      BY <1>0, <2>2 DEF OpenFile, ScpSendInit, Size
    <3> QED BY <1>0, <2>2, <3>1 DEF OpenFile, ScpSendInit
  <2>3. CASE UNCHANGED sendVars
    BY <1>0, <2>3 DEF sendVars
  <2>4. User \/ OpenFile \/ ScpSendInit \/ UNCHANGED sendVars
    BY DEF Next, vars,
    Slots, Copy, Die, FileChangedSlot, DirChangedSlot, DirGone, WatchAndGather,
    ConnectToRemoteHost, ConnectWithBadKey, SyncDeletion, SyncModification,
    DisconnectSSHSession, StartAgain, Transfer, TransferFails
  <2> QED BY <2>1, <2>2, <2>3, <2>4
<1>4. remote' \in [Files -> Versions \cup {Absent, Torn}]
  <2>1. CASE SyncDeletion
    BY <1>0, <2>1 DEF SyncDeletion, RemoveRemote, remoteVars
  <2>2. CASE ScpSendInit
    BY <1>0, <2>2 DEF ScpSendInit
  <2>3. CASE Transfer
    <3>1. CASE Head(list) \in Files
      <4>1. (IF handle # Absent THEN handle ELSE disk[Head(list)]) \in Versions \cup {Absent}
        BY <1>0, <3>1
      <4> QED BY <1>0, <2>3, <3>1, <4>1 DEF Transfer
    <3>2. CASE Head(list) \notin Files
      BY <1>0, <2>3, <3>2 DEF Transfer
    <3> QED BY <3>1, <3>2
  <2>4. CASE UNCHANGED remote
    BY <1>0, <2>4
  <2>5. SyncDeletion \/ ScpSendInit \/ Transfer \/ UNCHANGED remote
    BY DEF Next, vars, User, Write, Create, Delete, Replace, MakeDir, RemoveDir,
    Slots, Copy, Die, FileChangedSlot, DirChangedSlot, DirGone, WatchAndGather, remoteVars,
    ConnectToRemoteHost, ConnectWithBadKey, SyncModification,
    DisconnectSSHSession, OpenFile, StartAgain, TransferFails
  <2> QED BY <2>1, <2>2, <2>3, <2>4, <2>5
<1>5. lost' \in BOOLEAN
  BY <1>0, <1>2
<1>6. remoteDirs' \in [SubDirs -> {"absent", "directory", "file"}]
  <2>1. CASE SyncDeletion
    BY <1>0, <2>1 DEF SyncDeletion, RemoveRemote, remoteVars
  <2>2. CASE ScpSendInit \/ OpenFile
    BY <1>0, <2>2 DEF ScpSendInit, OpenFile
  <2>3. CASE UNCHANGED remoteDirs
    BY <1>0, <2>3
  <2>4. SyncDeletion \/ ScpSendInit \/ OpenFile \/ UNCHANGED remoteDirs
    BY DEF Next, vars, User, Write, Create, Delete, Replace, MakeDir, RemoveDir,
    Slots, Copy, Die, FileChangedSlot, DirChangedSlot, DirGone, WatchAndGather, remoteVars,
    ConnectToRemoteHost, ConnectWithBadKey, SyncModification,
    DisconnectSSHSession, StartAgain, Transfer, TransferFails
  <2> QED BY <2>1, <2>2, <2>3, <2>4
<1> QED BY <1>1, <1>3, <1>4, <1>5, <1>6
LEMMA TypesNext == Types /\ Stage /\ Tree /\ [Next]_vars => Types'
  BY DiskTypesNext, WatchTypesNext, ListTypesNext, ThreadTypesNext DEF Types

-----------------------------------------------------------------------------
(* The thread and its list, and the directories.                           *)

LEMMA InitStage == Init => Stage
  BY DEF Init, Stage, FileStages

\* What a step may do to the list.
LEMMA ListSteps ==
    ASSUME Types, Stage, [Next]_vars
    PROVE  \/ UNCHANGED list
           \/ \E f \in Files : FileChangedSlot(f) /\ Changed(f) /\ list = <<>> /\ list' = <<f>>
           \/ WatchAndGather /\ list = <<>> /\ list' = Selection(files, Gather)
           \/ (SyncDeletion \/ Transfer) /\ list # <<>> /\ list' = Tail(list)
<1> USE DEF Stage, FileStages
<1>1. CASE \E f \in Files : FileChangedSlot(f)
  BY <1>1 DEF FileChangedSlot
<1>2. CASE WatchAndGather
  BY <1>2 DEF WatchAndGather
<1>3. CASE SyncDeletion \/ Transfer
  BY <1>3 DEF SyncDeletion, Transfer
<1>4. \/ UNCHANGED list \/ WatchAndGather \/ SyncDeletion \/ Transfer
      \/ \E f \in Files : FileChangedSlot(f)
  BY DEF Next, vars, User, Write, Create, Delete, Replace, MakeDir, RemoveDir,
    Slots, Copy, Die, DirChangedSlot, DirGone,
    ConnectToRemoteHost, ConnectWithBadKey, SyncModification,
    DisconnectSSHSession, OpenFile, StartAgain, ScpSendInit, TransferFails
<1> QED BY <1>1, <1>2, <1>3, <1>4

LEMMA ListHolds ==
    ASSUME Types, Stage, [Next]_vars, NEW e, Holds(list', e)
    PROVE  \/ Holds(list, e)
           \/ e \in Files /\ FileChangedSlot(e) /\ list' = <<e>>
           \/ WatchAndGather /\ Holds(files, e) /\ e \in Gather
<1>1. ASSUME NEW f \in Files, FileChangedSlot(f), list' = <<f>>
      PROVE  e = f
  BY <1>1, HoldsSingle
<1>2. ASSUME list' = Selection(files, Gather)
      PROVE  Holds(files, e) /\ e \in Gather
  BY <1>2, SelectionHolds DEF Types, ListTypes
<1>3. ASSUME list # <<>>, list' = Tail(list)
      PROVE  Holds(list, e)
  BY <1>3, HoldsTail DEF Types, ListTypes
<1> QED BY <1>1, <1>2, <1>3, ListSteps

LEMMA StageNext == Types /\ Stage /\ Tree /\ [Next]_vars => Stage'
<1> SUFFICES ASSUME Types, Stage, Tree, [Next]_vars PROVE Stage'
  OBVIOUS
<1> USE DEF Stage, FileStages
<1>1. CASE User
  BY <1>1 DEF User, Write, Create, Delete, Replace, MakeDir, RemoveDir
<1>2. CASE Slots
  BY <1>2 DEF Slots, FileChangedSlot, DirChangedSlot, DirGone, WatchAndGather
<1>3. CASE ConnectToRemoteHost \/ ConnectWithBadKey \/ DisconnectSSHSession \/ Die
  BY <1>3 DEF ConnectToRemoteHost, ConnectWithBadKey, DisconnectSSHSession, Die
<1>4. CASE SyncDeletion \/ Transfer
  BY <1>4 DEF SyncDeletion, Transfer
<1>5. CASE SyncModification
  <2>1. list # <<>>
    BY <1>5 DEF SyncModification
  <2>2. Head(list) \in Paths
    BY <2>1, HoldsTail DEF Types, ListTypes
  <2> QED BY <1>5, <2>1, <2>2 DEF SyncModification
<1>6. CASE OpenFile \/ StartAgain \/ ScpSendInit \/ TransferFails
  BY <1>6 DEF OpenFile, StartAgain, ScpSendInit, TransferFails
<1>7. CASE UNCHANGED vars
  BY <1>7 DEF vars
<1> QED BY <1>1, <1>2, <1>3, <1>4, <1>5, <1>6, <1>7 DEF Next, Copy

LEMMA InitTree == Init => Tree
<1> SUFFICES ASSUME Init PROVE Tree
  OBVIOUS
<1> USE ConstantsType
<1>1. dirs[Root] = "there"
  BY DEF Init
<1>2. ASSUME NEW f \in Files, disk[f] # Absent PROVE Exists(DirOf[f])
  BY <1>2 DEF Init
<1>3. ASSUME NEW d \in Dirs, Holds(files, d) PROVE dirs[d] # "new"
  <2>1. PICK found \in Orders(Below(Root)) : files = <<Root>> \o found
    BY DEF Init
  <2>2. Below(Root) \in SUBSET Paths /\ IsFiniteSet(Below(Root)) /\ \A p \in Below(Root) : Exists(p)
    BY BelowAre
  <2>3. found \in Seq(Below(Root))
    BY <2>2, OrdersAre
  <2>4. found \in Seq(Paths) /\ <<Root>> \in Seq(Paths)
    BY <2>2, <2>3
  <2>5. Holds(<<Root>>, d) \/ Holds(found, d)
    BY <1>3, <2>1, <2>4, HoldsConcat
  <2>6. d = Root \/ Exists(d)
    BY <2>2, <2>3, <2>5, HoldsSingle, HoldsType
  <2> QED BY <1>1, <2>6 DEF Exists
<1>4. \A d \in Dirs : ~ Holds(list, d)
  BY HoldsEmpty DEF Init
<1> QED BY <1>1, <1>2, <1>3, <1>4 DEF Tree

LEMMA DirsStep ==
    ASSUME Types, Tree, [Next]_vars
    PROVE  /\ \A d \in Dirs :
                 /\ dirs[d] \in {"gone", "again"} => dirs'[d] \in {"gone", "again"}
                 /\ dirs'[d] = "new" => dirs[d] = "new"
           /\ dirs'[Root] = "there"
<1>0. dirs \in [Dirs -> {"new", "there", "gone", "again"}] /\ dirs[Root] = "there"
  BY DEF Types, DiskTypes, Tree
<1>1. CASE \E e \in SubDirs : MakeDir(e) \/ RemoveDir(e)
  <2>1. PICK e \in SubDirs : MakeDir(e) \/ RemoveDir(e)
    BY <1>1
  <2>2. e \in Dirs /\ e # Root /\ e \notin Files
    BY ConstantsType
  <2>3. CASE MakeDir(e)
    <3>1. dirs' = [dirs EXCEPT ![e] = IF @ = "new" THEN "there" ELSE "again"]
      BY <2>3 DEF MakeDir
    <3> QED BY <1>0, <2>2, <2>3, <3>1 DEF MakeDir, Exists
  <2>4. CASE RemoveDir(e)
    BY <1>0, <2>2, <2>4 DEF RemoveDir, Exists
  <2> QED BY <2>1, <2>3, <2>4
<1>2. CASE UNCHANGED dirs
  BY <1>0, <1>2
<1>3. UNCHANGED dirs \/ \E e \in SubDirs : MakeDir(e) \/ RemoveDir(e)
  BY DEF Next, vars, diskVars, User, Write, Create, Delete, Replace,
    Slots, Copy, Die, FileChangedSlot, DirChangedSlot, DirGone, WatchAndGather,
    ConnectToRemoteHost, ConnectWithBadKey, SyncDeletion, SyncModification,
    DisconnectSSHSession, OpenFile, StartAgain, ScpSendInit, Transfer, TransferFails
<1> QED BY <1>1, <1>2, <1>3

LEMMA FilesHolds ==
    ASSUME Types, Tree, [Next]_vars, NEW e, Holds(files', e)
    PROVE  Holds(files, e) \/ Exists(e)
<1>1. CASE \E d \in Dirs : DirChangedSlot(d) \/ DirGone(d)
  BY <1>1, SlotScans
<1>2. CASE SyncDeletion
  BY <1>2, DeletionRemoves
<1>3. CASE UNCHANGED files
  BY <1>3
<1>4. \/ UNCHANGED files \/ SyncDeletion
      \/ \E d \in Dirs : DirChangedSlot(d) \/ DirGone(d)
  BY DEF Next, vars, listVars, User, Write, Create, Delete, Replace, MakeDir, RemoveDir,
    Slots, Copy, Die, FileChangedSlot, WatchAndGather,
    ConnectToRemoteHost, ConnectWithBadKey, SyncModification,
    DisconnectSSHSession, OpenFile, StartAgain, ScpSendInit, Transfer, TransferFails
<1> QED BY <1>1, <1>2, <1>3, <1>4

LEMMA TreeNext == Types /\ Stage /\ Tree /\ [Next]_vars => Tree'
<1> SUFFICES ASSUME Types, Stage, Tree, [Next]_vars PROVE Tree'
  OBVIOUS
<1> DEFINE There == {"there", "again"}
<1> USE ConstantsType
<1>0. /\ dirs \in [Dirs -> {"new", "there", "gone", "again"}]
      /\ disk \in [Files -> Versions \cup {Absent}]
      /\ \A d \in Dirs : Exists(d) <=> dirs[d] \in There
      /\ \A f \in Files : Exists(f) <=> disk[f] # Absent
  BY DEF Types, DiskTypes, Exists
<1>1. ASSUME NEW f \in Files, disk'[f] # Absent
      PROVE  dirs'[DirOf[f]] \in There
  <2> DEFINE d == DirOf[f]
  <2>0. d \in Dirs /\ (disk[f] # Absent => dirs[d] \in There)
    BY <1>0 DEF Tree
  <2> HIDE DEF d
  <2>1. ASSUME UNCHANGED dirs PROVE dirs'[d] \in There
    <3>1. CASE disk[f] # Absent
      BY <2>0, <2>1, <3>1
    <3>2. CASE Create(f)
      BY <1>0, <2>0, <2>1, <3>2 DEF Create, d
    <3>3. disk'[f] # Absent => disk[f] # Absent \/ Create(f)
      <4>1. CASE \E g \in Files : Write(g) \/ Replace(g)
        BY <1>0, <4>1 DEF Write, Replace, NewVersion
      <4>2. CASE \E g \in Files : Delete(g)
        BY <1>0, <4>2 DEF Delete
      <4>3. CASE \E g \in Files : Create(g)
        BY <1>0, <4>3, ZenonT(40) DEF Create, NewVersion
      <4>4. CASE UNCHANGED disk
        BY <4>4
      <4>5. \/ UNCHANGED disk
            \/ \E g \in Files : Write(g) \/ Replace(g) \/ Delete(g) \/ Create(g)
        BY DEF Next, vars, diskVars, User, MakeDir, RemoveDir,
    Slots, Copy, Die, FileChangedSlot, DirChangedSlot, DirGone, WatchAndGather,
    ConnectToRemoteHost, ConnectWithBadKey, SyncDeletion, SyncModification,
    DisconnectSSHSession, OpenFile, StartAgain, ScpSendInit, Transfer, TransferFails
      <4> QED BY <4>1, <4>2, <4>3, <4>4, <4>5
    <3> QED BY <1>1, <3>1, <3>2, <3>3
  <2>2. ASSUME NEW e \in SubDirs, MakeDir(e) PROVE dirs'[d] \in There
    BY <1>0, <1>1, <2>0, <2>2 DEF MakeDir
  <2>3. ASSUME NEW e \in SubDirs, RemoveDir(e) PROVE dirs'[d] \in There
    <3>1. disk[f] # Absent
      BY <1>1, <2>3 DEF RemoveDir
    <3>2. f \notin Below(e) /\ f \in Paths \ {Root} /\ Exists(f)
      BY <1>0, <2>3, <3>1 DEF RemoveDir
    <3>3. d # e
      BY <3>2 DEF Below, d
    <3> QED BY <1>0, <2>0, <2>3, <3>1, <3>3 DEF RemoveDir
  <2>4. UNCHANGED dirs \/ \E e \in SubDirs : MakeDir(e) \/ RemoveDir(e)
    BY DEF Next, vars, diskVars, User, Write, Create, Delete, Replace,
    Slots, Copy, Die, FileChangedSlot, DirChangedSlot, DirGone, WatchAndGather,
    ConnectToRemoteHost, ConnectWithBadKey, SyncDeletion, SyncModification,
    DisconnectSSHSession, OpenFile, StartAgain, ScpSendInit, Transfer, TransferFails
  <2> QED BY <2>1, <2>2, <2>3, <2>4 DEF d
<1>2. ASSUME NEW d \in Dirs, Holds(files', d) PROVE dirs'[d] # "new"
  <2>1. Holds(files, d) \/ Exists(d)
    BY <1>2, FilesHolds
  <2> QED BY <2>1, <1>0, DirsStep DEF Tree
<1>3. ASSUME NEW d \in Dirs, Holds(list', d) PROVE dirs'[d] \in {"gone", "again"}
  <2>1. Holds(list, d) \/ (WatchAndGather /\ Holds(files, d) /\ d \in Gather)
    BY <1>3, ListHolds
  <2>2. CASE Holds(list, d)
    BY <2>2, DirsStep DEF Tree
  <2>3. CASE Holds(files, d) /\ d \in Gather
    <3>1. dirs[d] # "new" /\ ~ Exists(d)
      BY <2>3 DEF Tree, Gather
    <3>2. dirs[d] = "gone"
      BY <1>0, <3>1
    <3> QED BY <3>2, DirsStep
  <2> QED BY <2>1, <2>2, <2>3
<1>4. \A f \in Files : disk'[f] # Absent => Exists(DirOf[f])'
  <2> SUFFICES ASSUME NEW f \in Files, disk'[f] # Absent PROVE Exists(DirOf[f])'
    OBVIOUS
  <2>1. DirOf[f] \in Dirs /\ DirOf[f] \notin Files
    OBVIOUS
  <2> QED BY <1>1, <2>1 DEF Exists
<1> QED BY <1>2, <1>3, <1>4, DirsStep DEF Tree
-----------------------------------------------------------------------------
(* The fate of one file.                                                   *)

LEMMA ListKeeps ==
    ASSUME Types, Stage, [Next]_vars, NEW e, Holds(list, e)
    PROVE  Holds(list', e) \/ ((SyncDeletion \/ Transfer) /\ Head(list) = e)
<1>1. list # <<>>
  BY HoldsEmpty
<1>2. list' = Tail(list) => Holds(list', e) \/ Head(list) = e
  BY <1>1, HoldsTail DEF Types, ListTypes
<1> QED BY <1>1, <1>2, ListSteps

LEMMA InitFates == Init => \A f \in Files : FateOf(f)
<1> SUFFICES ASSUME Init, NEW f \in Files PROVE FateOf(f)
  OBVIOUS
<1> USE ConstantsType
<1>1. ~ Listed(f) /\ pending = {} /\ last # f /\ pc = "idle"
  BY HoldsEmpty DEF Init, Listed
<1>2. CASE Exists(f)
  <2>1. fate[f] = "kept" /\ disk[f] # Absent /\ f \in watched
    BY <1>2 DEF Init, Exists
  <2> QED BY <1>1, <2>1 DEF FateOf, AliveHolds
<1>3. CASE ~ Exists(f)
  <2>1. fate[f] = "none" /\ disk[f] = Absent /\ remote[f] = Absent
    BY <1>3 DEF Init, Exists
  <2>2. ~ Holds(files, f)
    <3>1. PICK found \in Orders(Below(Root)) : files = <<Root>> \o found
      BY DEF Init
    <3>2. /\ Below(Root) \in SUBSET Paths /\ IsFiniteSet(Below(Root))
          /\ \A p \in Below(Root) : Exists(p)
      BY BelowAre
    <3>3. found \in Seq(Below(Root))
      BY <3>2, OrdersAre
    <3>4. found \in Seq(Paths) /\ <<Root>> \in Seq(Paths)
      BY <3>2, <3>3
    <3>5. ~ Holds(found, f) /\ ~ Holds(<<Root>>, f)
      BY <1>3, <3>2, <3>3, HoldsSingle, HoldsType
    <3> QED BY <3>1, <3>4, <3>5, HoldsConcat
  <2> QED BY <1>1, <2>1, <2>2 DEF FateOf, NoneHolds
<1> QED BY <1>2, <1>3

LEMMA FateUser ==
    ASSUME SyncInv, NEW f \in Files, User
    PROVE  FateOf(f)'
<1> USE ConstantsType
<1>0. /\ Types /\ Stage /\ Tree /\ FateOf(f)
      /\ ops \in Nat /\ disk \in [Files -> Nat] /\ fate \in [Files -> Fates]
      /\ stamp \in [Files -> Nat] /\ \A g \in Files : stamp[g] # 0
      /\ \A g \in Files : DirOf[g] # f
      /\ Exists(f) <=> disk[f] # Absent
  BY DEF SyncInv, Types, DiskTypes, Exists
<1>1. UNCHANGED <<remote, listVars, last, lastModified, pc, list, conn, opened, sized, lost>>
  BY DEF User, Write, Create, Delete, Replace, MakeDir, RemoveDir, sendVars, remoteVars, lastVars
<1>2. /\ Listed(f)' <=> Listed(f)
      /\ Holds(files, f)' <=> Holds(files, f)
      /\ Handling(f)' <=> Handling(f)
      /\ UNCHANGED <<remote, last, lastModified, lost, pc>>
  BY <1>1 DEF Listed, Handling, listVars
<1> HIDE DEF Listed, Handling
<1> USE DEF FateOf
<1>3. ASSUME UNCHANGED <<disk, fate>>, watched' \subseteq watched,
             f \in watched => f \in watched',
             f \in pending' <=> f \in pending
      PROVE  FateOf(f)'
  <2>1. NoneHolds(f) => NoneHolds(f)'
    BY <1>2, <1>3 DEF NoneHolds
  <2>2. AliveHolds(f) => AliveHolds(f)'
    BY <1>2, <1>3 DEF AliveHolds
  <2>3. DeletedHolds(f) => DeletedHolds(f)'
    BY <1>2, <1>3 DEF DeletedHolds, Due, Changed, Created
  <2> QED BY <1>0, <1>3, <2>1, <2>2, <2>3
<1>4. ASSUME NEW d \in SubDirs, MakeDir(d) \/ RemoveDir(d) PROVE FateOf(f)'
  <2>1. d # f /\ Root # f
    OBVIOUS
  <2> QED BY <1>3, <1>4, <2>1 DEF MakeDir, RemoveDir
<1>5. ASSUME NEW g \in Files, g # f, Write(g) \/ Create(g) \/ Delete(g) \/ Replace(g)
      PROVE  FateOf(f)'
  <2>1. disk'[f] = disk[f] /\ fate'[f] = fate[f] /\ (f \in watched' <=> f \in watched)
    BY <1>0, <1>5 DEF Write, Create, Delete, Replace, NewVersion
  <2>2. f \in pending' <=> f \in pending
    BY <1>0, <1>5 DEF Write, Create, Delete, Replace
  <2>3. NoneHolds(f) => NoneHolds(f)'
    BY <1>2, <2>1, <2>2 DEF NoneHolds
  <2>4. AliveHolds(f) => AliveHolds(f)'
    BY <1>2, <2>1, <2>2 DEF AliveHolds
  <2>5. DeletedHolds(f) => DeletedHolds(f)'
    BY <1>2, <2>1, <2>2 DEF DeletedHolds, Due, Changed, Created
  <2> QED BY <1>0, <2>1, <2>3, <2>4, <2>5
<1>6. ASSUME Write(f) PROVE FateOf(f)'
  <2>1. /\ disk[f] # Absent /\ disk'[f] # Absent /\ UNCHANGED <<fate, watched>>
        /\ f \in pending' => f \in pending \/ f \in watched
    BY <1>0, <1>6 DEF Write, NewVersion
  <2>2. fate[f] \notin {"none", "deleted"}
    BY <1>0, <2>1 DEF NoneHolds, DeletedHolds
  <2>3. AliveHolds(f) => AliveHolds(f)'
    BY <1>2, <2>1 DEF AliveHolds
  <2> QED BY <1>0, <2>1, <2>2, <2>3
<1>7. ASSUME Create(f) PROVE FateOf(f)'
  <2>1. /\ disk'[f] # Absent /\ UNCHANGED watched
        /\ fate'[f] = IF fate[f] = "none" THEN "new" ELSE "other"
        /\ f \in pending' <=> f \in pending
    BY <1>0, <1>7 DEF Create, NewVersion
  <2>2. CASE fate[f] = "none"
    <3>1. NoneHolds(f)
      BY <1>0, <2>2
    <3>2. AliveHolds(f)'
      BY <1>2, <2>1, <3>1 DEF NoneHolds, AliveHolds
    <3> QED BY <2>1, <2>2, <3>2
  <2>3. CASE fate[f] # "none"
    BY <2>1, <2>3
  <2> QED BY <2>2, <2>3
<1>8. ASSUME Delete(f) PROVE FateOf(f)'
  <2>1. /\ disk[f] # Absent /\ disk'[f] = Absent
        /\ fate'[f] = IF fate[f] = "other" THEN "other" ELSE "deleted"
        /\ f \in watched => f \in pending'
    BY <1>0, <1>8 DEF Delete, Exists
  <2>2. CASE fate[f] \in {"kept", "new"}
    <3>1. AliveHolds(f)
      BY <1>0, <2>2
    <3>2. f \in pending' => Due(f)'
      BY <1>2, <2>1, <3>1 DEF AliveHolds, Due, Changed, Created
    <3>3. f \notin pending' => remote[f] = Absent /\ ~ Listed(f)
      BY <2>1, <3>1 DEF AliveHolds
    <3>4. Handling(f) => Listed(f)
      BY <1>0, HoldsTail DEF Types, ListTypes, Stage, Handling, Listed
    <3>5. DeletedHolds(f)'
      BY <1>2, <2>1, <3>2, <3>3, <3>4 DEF DeletedHolds
    <3> QED BY <2>1, <2>2, <3>5
  <2>3. CASE fate[f] \notin {"kept", "new"}
    <3>1. fate[f] = "other"
      BY <1>0, <2>1, <2>3 DEF Fates, NoneHolds, DeletedHolds
    <3> QED BY <2>1, <3>1
  <2> QED BY <2>2, <2>3
<1>9. ASSUME Replace(f) PROVE FateOf(f)'
  <2>1. fate'[f] = "other"
    BY <1>0, <1>9 DEF Replace
  <2> QED BY <2>1
<1> QED BY <1>4, <1>5, <1>6, <1>7, <1>8, <1>9 DEF User

LEMMA FateSlots ==
    ASSUME SyncInv, NEW f \in Files, Slots, [Next]_vars
    PROVE  FateOf(f)'
<1> USE ConstantsType
<1>0. /\ Types /\ Stage /\ Tree /\ FateOf(f)
      /\ disk \in [Files -> Nat] /\ stamp \in [Files -> Nat \ {0}]
      /\ Exists(f) <=> disk[f] # Absent
  BY DEF SyncInv, Types, DiskTypes, Exists
<1>1. UNCHANGED <<disk, stamp, fate, remote, lost>> /\ pc' \notin FileStages
  BY DEF Slots, FileChangedSlot, DirChangedSlot, DirGone, WatchAndGather, diskVars, FileStages,
         Stages, remoteVars
<1>2. ~ Handling(f)'
  BY <1>1 DEF Handling
<1>3. Listed(f) => Listed(f)'
  BY <1>0, ListKeeps DEF Slots, FileChangedSlot, DirChangedSlot, DirGone, WatchAndGather,
    SyncDeletion, Transfer, Stage, FileStages, Listed
<1>4. Holds(files', f) => Holds(files, f) \/ Exists(f)
  BY <1>0, FilesHolds
<1>5. f \in watched => f \in watched'
  BY DEF Slots, FileChangedSlot, DirChangedSlot, DirGone, WatchAndGather, AddPaths
<1>6. Due(f) => Due(f)' \/ (FileChangedSlot(f) /\ list' = <<f>>)
  BY <1>1 DEF Due, Changed, Created, Slots, FileChangedSlot, DirChangedSlot, DirGone,
              WatchAndGather, lastVars
<1>7. f \in pending' => f \in pending
  BY DEF Slots, FileChangedSlot, DirChangedSlot, DirGone, WatchAndGather
<1>8. \/ UNCHANGED <<last, lastModified>>
      \/ FileChangedSlot(f) /\ f \in pending /\ last' = f /\ lastModified' = Created(f)
      \/ last' # f
  BY DEF Slots, FileChangedSlot, DirChangedSlot, DirGone, WatchAndGather, lastVars
<1>9. ASSUME Listed(f)'
      PROVE  Listed(f) \/ f \in pending \/ (Holds(files, f) /\ (Exists(f) => f \in watched'))
  <2>1. \/ Listed(f) \/ (FileChangedSlot(f) /\ f \in Files)
        \/ (WatchAndGather /\ Holds(files, f))
    BY <1>0, <1>9, ListHolds DEF Listed
  <2>2. FileChangedSlot(f) => f \in pending
    BY DEF FileChangedSlot
  <2>3. WatchAndGather /\ Holds(files, f) /\ Exists(f) => f \in watched'
    BY <1>0, HoldsToSet DEF WatchAndGather, AddPaths, Types, ListTypes
  <2> QED BY <2>1, <2>2, <2>3
<1> HIDE DEF Listed
<1> USE DEF FateOf
<1>10. NoneHolds(f) => NoneHolds(f)'
  BY <1>0, <1>1, <1>4, <1>7, <1>8, <1>9 DEF NoneHolds
<1>11. AliveHolds(f) => AliveHolds(f)'
  <2> SUFFICES ASSUME AliveHolds(f) PROVE AliveHolds(f)'
    OBVIOUS
  <2>1. Created(f) # 0 /\ disk[f] # Absent
    BY <1>0 DEF Created, AliveHolds
  <2>2. last' = f => lastModified' # 0
    BY <1>8, <2>1 DEF AliveHolds
  <2>3. remote[f] # Absent \/ f \in pending \/ Listed(f) => f \in watched
    BY DEF AliveHolds
  <2>4. remote'[f] # Absent \/ Listed(f)' \/ f \in pending' => f \in watched'
    BY <1>0, <1>1, <1>5, <1>7, <1>9, <2>1, <2>3
  <2> QED BY <1>1, <2>1, <2>2, <2>4 DEF AliveHolds
<1>12. DeletedHolds(f) => DeletedHolds(f)'
  <2>1. FileChangedSlot(f) /\ list' = <<f>> => Listed(f)'
    BY HoldsSingle DEF Listed
  <2> QED BY <1>1, <1>2, <1>3, <1>6, <2>1 DEF DeletedHolds
<1> QED BY <1>0, <1>1, <1>10, <1>11, <1>12

LEMMA FateCopy ==
    ASSUME SyncInv, NEW f \in Files, Copy \/ Die \/ UNCHANGED vars, [Next]_vars
    PROVE  FateOf(f)'
<1> USE ConstantsType
<1>0. /\ Types /\ Stage /\ Tree /\ FateOf(f)
      /\ Exists(f) <=> disk[f] # Absent
      /\ remote \in [Files -> Nat]
      /\ DirOf[f] # f
  BY DEF SyncInv, Types, ThreadTypes, Exists
<1>1. UNCHANGED <<disk, stamp, fate, last, lastModified>> /\ (lost => lost')
  BY DEF Copy, Die, vars, diskVars, lastVars,
    ConnectToRemoteHost, ConnectWithBadKey, SyncDeletion, SyncModification,
    DisconnectSSHSession, OpenFile, StartAgain, ScpSendInit, Transfer, TransferFails
<1>2. Listed(f)' => Listed(f)
  BY <1>0, ListHolds DEF Listed, FileChangedSlot, WatchAndGather, Stage, Copy, Die, vars,
    ConnectToRemoteHost, ConnectWithBadKey, SyncDeletion, SyncModification,
    DisconnectSSHSession, OpenFile, StartAgain, ScpSendInit, Transfer, TransferFails
<1>3. Listed(f) => Listed(f)' \/ ((SyncDeletion \/ Transfer) /\ Head(list) = f)
  BY <1>0, ListKeeps DEF Listed
<1>4. Holds(files', f) => Holds(files, f) \/ Exists(f)
  BY <1>0, FilesHolds
<1>5. /\ pending' = pending \/ (SyncDeletion /\ pending' = pending \ {Head(list)})
      /\ watched' = watched \/ (SyncDeletion /\ watched' = watched \ {Head(list)})
  BY DEF Copy, Die, vars, watchVars,
    ConnectToRemoteHost, ConnectWithBadKey, SyncDeletion, SyncModification,
    DisconnectSSHSession, OpenFile, StartAgain, ScpSendInit, Transfer, TransferFails
<1>6. ASSUME Head(list) = f, list # <<>> PROVE Listed(f)
  BY <1>0, <1>6, HoldsTail DEF Listed, Types, ListTypes
<1>7. \/ UNCHANGED remote
      \/ SyncDeletion /\ remote'[f] \in {remote[f], Absent}
      \/ (ScpSendInit \/ Transfer) /\ (Head(list) = f \/ remote'[f] = remote[f])
  <2>1. CASE SyncDeletion
    BY <1>0, <2>1 DEF SyncDeletion, RemoveRemote, remoteVars
  <2>2. CASE ScpSendInit
    BY <1>0, <2>2 DEF ScpSendInit
  <2>3. CASE Transfer
    BY <1>0, <2>3 DEF Transfer
  <2>4. SyncDeletion \/ ScpSendInit \/ Transfer \/ UNCHANGED remote
    BY DEF Copy, Die, vars, remoteVars,
    ConnectToRemoteHost, ConnectWithBadKey, SyncModification,
    DisconnectSSHSession, OpenFile, StartAgain, TransferFails
  <2> QED BY <2>1, <2>2, <2>3, <2>4
<1>8. (ScpSendInit \/ Transfer) /\ Head(list) = f => Handling(f)
  BY DEF ScpSendInit, Transfer, Handling, FileStages
<1>9. SyncDeletion => list # <<>> /\ pc = "next" /\ pc' = "next" /\ ~ Exists(Head(list))
  BY DEF SyncDeletion
<1>10. Handling(f)' => Handling(f) \/ (SyncModification /\ Exists(f))
  BY <1>0 DEF Stage, Handling, FileStages, Copy, Die, vars,
    ConnectToRemoteHost, ConnectWithBadKey, SyncDeletion, SyncModification,
    DisconnectSSHSession, OpenFile, StartAgain, ScpSendInit, Transfer, TransferFails
<1>11. Handling(f) => Listed(f)
  BY <1>0, <1>6 DEF Stage, Handling
<1>12. SyncDeletion /\ ~ lost => conn = "open"
  BY <1>0, <1>9 DEF Stage
<1>16. SyncDeletion /\ conn = "open" /\ Head(list) = f => remote'[f] = Absent
  BY <1>0 DEF SyncDeletion, RemoveRemote, remoteVars
<1> HIDE DEF Listed, Handling, SyncDeletion, ScpSendInit, Transfer, SyncModification
<1> USE DEF FateOf
<1>13. NoneHolds(f) => NoneHolds(f)'
  <2> SUFFICES ASSUME NoneHolds(f) PROVE NoneHolds(f)'
    OBVIOUS
  <2>1. remote'[f] = Absent
    BY <1>7, <1>8, <1>11 DEF NoneHolds
  <2> QED BY <1>0, <1>1, <1>2, <1>4, <1>5, <2>1 DEF NoneHolds
<1>14. AliveHolds(f) => AliveHolds(f)'
  <2> SUFFICES ASSUME AliveHolds(f) PROVE AliveHolds(f)'
    OBVIOUS
  <2>1. Exists(f)
    BY <1>0 DEF AliveHolds
  <2>2. f \in watched => f \in watched'
    BY <1>5, <1>9, <2>1
  <2>3. remote'[f] # Absent => remote[f] # Absent \/ Listed(f)
    BY <1>7, <1>8, <1>11
  <2> QED BY <1>1, <1>2, <1>5, <2>2, <2>3 DEF AliveHolds
<1>15. DeletedHolds(f) => DeletedHolds(f)'
  <2> SUFFICES ASSUME DeletedHolds(f), ~ lost' PROVE DeletedHolds(f)'
    BY <1>1 DEF DeletedHolds
  <2>0. ~ lost /\ ~ Exists(f)
    BY <1>0, <1>1 DEF DeletedHolds
  <2>1. CASE SyncDeletion /\ Head(list) = f
    <3>1. remote'[f] = Absent /\ ~ Handling(f)'
      BY <1>9, <1>12, <1>16, <2>0, <2>1 DEF Handling, FileStages
    <3> QED BY <1>1, <3>1 DEF DeletedHolds
  <2>2. CASE ~ (SyncDeletion /\ Head(list) = f)
    <3>1. Due(f) => Due(f)'
      BY <1>1, <1>5, <2>2 DEF Due, Changed, Created
    <3>2. ~ Handling(f) => ~ Handling(f)'
      BY <1>10, <2>0
    <3>3. remote[f] = Absent /\ ~ Handling(f) => remote'[f] = Absent
      BY <1>7, <1>8
    <3>4. Listed(f) /\ ~ Handling(f) => Listed(f)'
      BY <1>3, <1>8, <2>2
    <3> QED BY <1>1, <2>0, <3>1, <3>2, <3>3, <3>4 DEF DeletedHolds
  <2> QED BY <2>1, <2>2
<1> QED BY <1>0, <1>1, <1>13, <1>14, <1>15

LEMMA SyncInvInit == Init => SyncInv
  BY InitTypes, InitStage, InitTree, InitFates DEF SyncInv

LEMMA SyncInvNext == SyncInv /\ [Next]_vars => SyncInv'
<1> SUFFICES ASSUME SyncInv, [Next]_vars PROVE SyncInv'
  OBVIOUS
<1>1. (Types /\ Stage /\ Tree)'
  BY TypesNext, StageNext, TreeNext DEF SyncInv
<1>2. ASSUME NEW f \in Files PROVE FateOf(f)'
  BY FateUser, FateSlots, FateCopy DEF Next
<1> QED BY <1>1, <1>2 DEF SyncInv

-----------------------------------------------------------------------------
(* A file that is only ever written in place.                              *)

LEMMA InitEdits == Init => EditInv
<1> SUFFICES ASSUME Init, NEW f \in Files, fate[f] = "kept" PROVE KeptHolds(f)
  BY DEF EditInv
<1>1. f \in watched /\ remote[f] = disk[f] /\ pc = "idle"
  BY ConstantsType DEF Init
<1> QED BY <1>1 DEF KeptHolds

LEMMA KeptStays ==
    ASSUME SyncInv, NEW f \in Files, fate'[f] = "kept", [Next]_vars
    PROVE  /\ fate[f] = "kept" /\ AliveHolds(f) /\ AliveHolds(f)'
           /\ \/ Write(f)
              \/ /\ disk'[f] = disk[f]
                 /\ User => (f \in pending => f \in pending') /\ (f \in doubled => f \in doubled')
<1>0. /\ fate \in [Files -> Fates] /\ ops \in Nat
      /\ disk \in [Files -> Nat]
  BY ConstantsType DEF SyncInv, Types, DiskTypes
<1>1. ASSUME NEW g \in Files, Write(g)
      PROVE  fate[f] = "kept" /\ (Write(f) \/ disk'[f] = disk[f])
  BY <1>0, <1>1 DEF Write, NewVersion
<1>2. ASSUME NEW g \in Files, Create(g) \/ Delete(g) \/ Replace(g)
      PROVE  fate[f] = "kept" /\ disk'[f] = disk[f]
  BY <1>0, <1>2 DEF Create, Delete, Replace, NewVersion
<1>3. \/ UNCHANGED <<disk, fate>>
      \/ \E g \in Files : Write(g) \/ Create(g) \/ Delete(g) \/ Replace(g)
  BY DEF Next, vars, diskVars, User, MakeDir, RemoveDir,
    Slots, Copy, Die, FileChangedSlot, DirChangedSlot, DirGone, WatchAndGather,
    ConnectToRemoteHost, ConnectWithBadKey, SyncDeletion, SyncModification,
    DisconnectSSHSession, OpenFile, StartAgain, ScpSendInit, Transfer, TransferFails
<1>4. User /\ f \in pending => f \in pending'
  BY DEF User, Write, Create, Delete, Replace, MakeDir, RemoveDir
<1>5. fate[f] = "kept"
  BY <1>1, <1>2, <1>3
<1>6. FateOf(f) /\ FateOf(f)'
  BY SyncInvNext DEF SyncInv
<1>7. AliveHolds(f) /\ AliveHolds(f)'
  BY <1>5, <1>6 DEF FateOf
<1>8. User /\ f \in doubled => f \in doubled' \/ Write(f)
  BY DEF User, Write, Create, Delete, Replace, MakeDir, RemoveDir, lastVars
<1> QED BY <1>1, <1>2, <1>3, <1>4, <1>5, <1>7, <1>8

LEMMA KeptUser ==
    ASSUME SyncInv, NEW f \in Files, KeptHolds(f), fate'[f] = "kept", User
    PROVE  KeptHolds(f)'
<1> USE ConstantsType
<1>0. [Next]_vars
  BY DEF Next
<1>1. /\ fate[f] = "kept" /\ AliveHolds(f)
      /\ \/ Write(f)
         \/ /\ disk'[f] = disk[f]
            /\ (f \in pending => f \in pending') /\ (f \in doubled => f \in doubled')
  BY <1>0, KeptStays
<1>2. UNCHANGED <<remote, pc, list, sized>>
  BY DEF User, Write, Create, Delete, Replace, MakeDir, RemoveDir, sendVars, remoteVars
<1>3. /\ Listed(f)' <=> Listed(f)
      /\ UNCHANGED <<remote, pc, list, sized>>
  BY <1>2 DEF Listed
<1> HIDE DEF Listed
<1>5. ASSUME Write(f) PROVE KeptHolds(f)'
  <2>1. f \in pending' /\ UNCHANGED <<handle, watched>>
    BY <1>5 DEF Write, KeptHolds, sendVars
  <2> QED BY <1>3, <2>1 DEF KeptHolds
<1>6. ASSUME disk'[f] = disk[f], f \in pending => f \in pending', f \in doubled => f \in doubled'
      PROVE  KeptHolds(f)'
  <2>1. f \in watched' /\ (pc \in {"stat", "transfer"} /\ Head(list) = f => handle' = handle)
    <3>1. ASSUME NEW g \in Files, Delete(g) \/ Replace(g)
          PROVE  g # f
      <4>1. g = f => fate'[f] # "kept"
        BY <1>1, <3>1 DEF Delete, Replace, SyncInv, Types, DiskTypes
      <4> QED BY <4>1
    <3>2. \/ UNCHANGED handle \/ \E g \in Files : (Delete(g) \/ Replace(g)) /\ Unlink(g)
      BY DEF User, Write, Create, Delete, Replace, MakeDir, RemoveDir, sendVars
    <3>3. \/ UNCHANGED watched
          \/ \E g \in Files : (Delete(g) \/ Replace(g)) /\ watched' = watched \ {g}
          \/ \E d \in Dirs : watched' = watched \ {d}
      BY DEF User, Write, Create, Delete, Replace, MakeDir, RemoveDir
    <3>4. f \in watched'
      BY <3>1, <3>3 DEF KeptHolds
    <3>5. ASSUME pc \in {"stat", "transfer"}, Head(list) = f PROVE handle' = handle
      BY <3>1, <3>2, <3>5 DEF Unlink, Sending
    <3> QED BY <3>4, <3>5
  <2> QED BY <1>3, <1>6, <2>1 DEF KeptHolds
<1> QED BY <1>1, <1>5, <1>6

LEMMA KeptSlots ==
    ASSUME SyncInv, NEW f \in Files, KeptHolds(f), fate'[f] = "kept", Slots
    PROVE  KeptHolds(f)'
<1> USE ConstantsType
<1>0. [Next]_vars
  BY DEF Next
<1>1. Stage /\ Types
  BY DEF SyncInv
<1>2. UNCHANGED <<disk, remote>> /\ pc' \notin FileStages
  BY DEF Slots, FileChangedSlot, DirChangedSlot, DirGone, WatchAndGather, diskVars, remoteVars,
         FileStages, Stages
<1>3. Listed(f) => Listed(f)'
  BY <1>0, <1>1, ListKeeps DEF Slots, FileChangedSlot, DirChangedSlot, DirGone, WatchAndGather,
    SyncDeletion, Transfer, Stage, FileStages, Listed
<1>4. f \in watched => f \in watched'
  BY DEF Slots, FileChangedSlot, DirChangedSlot, DirGone, WatchAndGather, AddPaths
<1>5. f \in doubled => f \in doubled'
  BY DEF Slots, FileChangedSlot, DirChangedSlot, DirGone, WatchAndGather, lastVars
<1>6. f \in pending => f \in pending' \/ FileChangedSlot(f)
  BY DEF Slots, FileChangedSlot, DirChangedSlot, DirGone, WatchAndGather
<1>7. FileChangedSlot(f) => f \in doubled' \/ Listed(f)'
  <2>1. ASSUME FileChangedSlot(f), ~ Changed(f) PROVE f \in doubled'
    BY <2>1 DEF FileChangedSlot, Changed
  <2>2. ASSUME FileChangedSlot(f), Changed(f) PROVE Listed(f)'
    BY <2>2, HoldsSingle DEF FileChangedSlot, Listed
  <2> QED BY <2>1, <2>2
<1> HIDE DEF Listed
<1> QED BY <1>2, <1>3, <1>4, <1>5, <1>6, <1>7 DEF KeptHolds, FileStages

LEMMA KeptCopy ==
    ASSUME SyncInv, NEW f \in Files, KeptHolds(f), fate'[f] = "kept",
           Copy \/ Die \/ UNCHANGED vars
    PROVE  KeptHolds(f)'
<1> USE ConstantsType
<1>0. [Next]_vars
  BY DEF Next
<1>1. /\ Stage /\ Types /\ Tree /\ AliveHolds(f)
      /\ Exists(f) /\ Exists(DirOf[f])
      /\ remote \in [Files -> Nat]
  BY <1>0, KeptStays DEF SyncInv, Types, ThreadTypes, AliveHolds, Exists, Tree
<1>2. UNCHANGED <<disk, doubled>>
  BY DEF Copy, Die, vars, diskVars, lastVars,
    ConnectToRemoteHost, ConnectWithBadKey, SyncDeletion, SyncModification,
    DisconnectSSHSession, OpenFile, StartAgain, ScpSendInit, Transfer, TransferFails
<1>3. Listed(f) => Listed(f)' \/ ((SyncDeletion \/ Transfer) /\ Head(list) = f)
  BY <1>0, <1>1, ListKeeps DEF Listed
<1>4. ASSUME Head(list) = f, list # <<>> PROVE Listed(f)
  BY <1>1, <1>4, HoldsTail DEF Listed, Types, ListTypes
<1>5. SyncDeletion => list # <<>> /\ Head(list) # f /\ Head(list) # DirOf[f] /\ pc' = "next"
  BY <1>1 DEF SyncDeletion
<1>6. (f \in pending => f \in pending') /\ f \in watched'
  BY <1>5 DEF Copy, Die, vars, watchVars, KeptHolds,
    ConnectToRemoteHost, ConnectWithBadKey, SyncDeletion, SyncModification,
    DisconnectSSHSession, OpenFile, StartAgain, ScpSendInit, Transfer, TransferFails
<1>7. (f \in pending => f \in pending') /\ (f \in doubled => f \in doubled')
  BY <1>2, <1>6
<1>8. Handling(f)' => UNCHANGED list /\ (Handling(f) \/ SyncModification)
  BY <1>1 DEF Stage, Handling, FileStages, Copy, Die, vars,
    ConnectToRemoteHost, ConnectWithBadKey, SyncDeletion, SyncModification,
    DisconnectSSHSession, OpenFile, StartAgain, ScpSendInit, Transfer, TransferFails
<1>9. ASSUME pc' \in {"stat", "transfer"}, Head(list') = f PROVE handle' = Absent
  <2>1. Handling(f)'
    BY <1>9 DEF Handling, FileStages
  <2>2. UNCHANGED list
    BY <1>8, <2>1
  <2> QED BY <1>9, <2>2 DEF KeptHolds, Copy, Die, vars, sendVars,
    ConnectToRemoteHost, ConnectWithBadKey, SyncDeletion, SyncModification,
    DisconnectSSHSession, OpenFile, StartAgain, ScpSendInit, Transfer, TransferFails
<1>10. ASSUME pc' = "transfer", Head(list') = f, sized' # disk'[f] PROVE f \in pending'
  <2>1. Handling(f)'
    BY <1>10 DEF Handling, FileStages
  <2>2. UNCHANGED list
    BY <1>8, <2>1
  <2>3. ~ ScpSendInit
    BY <1>2, <1>10, <2>2 DEF ScpSendInit, Size
  <2>4. pc = "transfer" /\ UNCHANGED sized
    BY <1>10, <2>3 DEF Copy, Die, vars, sendVars,
    ConnectToRemoteHost, ConnectWithBadKey, SyncDeletion, SyncModification,
    DisconnectSSHSession, OpenFile, StartAgain, Transfer, TransferFails
  <2> QED BY <1>2, <1>7, <1>10, <2>2, <2>4 DEF KeptHolds
<1>11. remote'[f] = disk'[f] \/ f \in pending' \/ Listed(f)' \/ f \in doubled'
  <2>1. CASE SyncDeletion
    <3>1. remote'[f] = remote[f]
      BY <1>1, <1>5, <2>1 DEF SyncDeletion, RemoveRemote, remoteVars
    <3>2. ~ (Transfer /\ Head(list) = f)
      BY <1>5, <2>1
    <3> QED BY <1>2, <1>3, <1>5, <1>7, <2>1, <3>1, <3>2 DEF KeptHolds
  <2>2. CASE ScpSendInit
    <3>1. list # <<>> /\ UNCHANGED list
      BY <1>1, <2>2 DEF ScpSendInit, Stage, FileStages
    <3>2. CASE Head(list) = f
      BY <1>4, <3>1, <3>2 DEF Listed
    <3>3. CASE Head(list) # f
      <4>1. remote'[f] = remote[f]
        BY <1>1, <2>2, <3>1, <3>3 DEF ScpSendInit
      <4>2. Listed(f) => Listed(f)'
        BY <3>1 DEF Listed
      <4> QED BY <1>2, <1>7, <4>1, <4>2 DEF KeptHolds
    <3> QED BY <3>2, <3>3
  <2>3. CASE Transfer
    <3>1. list # <<>> /\ Head(list) \in Paths /\ pc = "transfer"
      BY <1>1, <2>3 DEF Transfer, Stage, FileStages
    <3>2. CASE Head(list) = f
      <4>1. handle = Absent /\ (sized = disk[f] \/ f \in pending)
        BY <3>1, <3>2 DEF KeptHolds
      <4>2. sized = disk[f] => remote'[f] = disk[f]
        BY <1>1, <2>3, <3>1, <3>2, <4>1 DEF Transfer
      <4> QED BY <1>2, <1>7, <4>1, <4>2
    <3>3. CASE Head(list) # f
      <4>1. remote'[f] = remote[f]
        BY <1>1, <2>3, <3>1, <3>3 DEF Transfer
      <4>2. Listed(f) => Listed(f)'
        BY <1>3, <3>3
      <4> QED BY <1>2, <1>7, <4>1, <4>2 DEF KeptHolds
    <3> QED BY <3>2, <3>3
  <2>4. CASE UNCHANGED <<remote, list>>
    <3>1. Listed(f)' <=> Listed(f)
      BY <2>4 DEF Listed
    <3> QED BY <1>2, <1>7, <2>4, <3>1 DEF KeptHolds
  <2>5. SyncDeletion \/ ScpSendInit \/ Transfer \/ UNCHANGED <<remote, list>>
    BY DEF Copy, Die, vars, remoteVars,
    ConnectToRemoteHost, ConnectWithBadKey, SyncModification,
    DisconnectSSHSession, OpenFile, StartAgain, TransferFails
  <2> QED BY <2>1, <2>2, <2>3, <2>4, <2>5
<1> HIDE DEF Listed
<1> QED BY <1>6, <1>9, <1>10, <1>11 DEF KeptHolds

LEMMA EditInvNext == SyncInv /\ EditInv /\ [Next]_vars => EditInv'
<1> SUFFICES ASSUME SyncInv, EditInv, [Next]_vars, NEW f \in Files, fate'[f] = "kept"
             PROVE  KeptHolds(f)'
  BY DEF EditInv
<1>1. KeptHolds(f)
  BY KeptStays DEF EditInv
<1> QED BY <1>1, KeptUser, KeptSlots, KeptCopy DEF Next

-----------------------------------------------------------------------------
(* The theorems.                                                           *)

LEMMA SyncInvTypes == SyncInv => TypeOK
<1> SUFFICES ASSUME SyncInv PROVE TypeOK
  OBVIOUS
<1>1. Types
  BY DEF SyncInv
<1>2. {ToSet(files), ToSet(oldFiles), ToSet(list)} \subseteq SUBSET Paths
  BY <1>1, HoldsToSet, HoldsType DEF Types, ListTypes
<1>3. IsInjective(files)
  BY <1>1 DEF Types, ListTypes, IsInjective, Once
<1> QED BY <1>1, <1>2, <1>3 DEF Types, DiskTypes, WatchTypes, ThreadTypes, TypeOK, Stages, Fates

LEMMA SyncInvDeletions == SyncInv => DeletionsSynced
<1> SUFFICES ASSUME SyncInv, Quiet, ~ lost, NEW f \in Files, fate[f] = "deleted"
             PROVE  remote[f] = Absent
  BY DEF DeletionsSynced
<1>1. list = <<>> /\ pending = {} /\ FateOf(f)
  BY DEF SyncInv, Stage, Quiet
<1>2. ~ Listed(f) /\ ~ Due(f)
  BY <1>1, HoldsEmpty DEF Listed, Due
<1> QED BY <1>1, <1>2 DEF FateOf, DeletedHolds

LEMMA EditInvSays == SyncInv /\ EditInv => EditsSynced
<1> SUFFICES ASSUME SyncInv, EditInv, Quiet, NEW f \in Files, fate[f] = "kept", f \notin doubled
             PROVE  remote[f] = disk[f]
  BY DEF EditsSynced
<1>1. list = <<>> /\ pending = {} /\ KeptHolds(f)
  BY DEF SyncInv, EditInv, Stage, Quiet
<1>2. ~ Listed(f)
  BY <1>1, HoldsEmpty DEF Listed
<1> QED BY <1>1, <1>2 DEF KeptHolds

\* The shape of the state: among it that no path is twice in the list of the watched
\* ones, though scanDir keeps every other path of the old list and adds what it finds.
THEOREM SyncTypes == Spec => []TypeOK
  BY SyncInvInit, SyncInvNext, SyncInvTypes, PTL DEF Spec

\* A deleted file is gone from the remote side when Syndir rests, whatever was being
\* listed, connected, opened or sent when it was deleted, if no connection was lost.
THEOREM DeletionsAlways == Spec => []DeletionsSynced
  BY SyncInvInit, SyncInvNext, SyncInvDeletions, PTL DEF Spec

\* A file that is only written in place is equal on both sides when Syndir rests, even
\* after lost connections, unless its last change came with the name and the created()
\* time of the one handled last, which fileChangedSlot takes for a double.
THEOREM EditsAlways == Spec => []EditsSynced
<1>1. SyncInv /\ EditInv /\ [Next]_vars => SyncInv' /\ EditInv'
  BY SyncInvNext, EditInvNext
<1> QED BY <1>1, SyncInvInit, InitEdits, EditInvSays, PTL DEF Spec
=============================================================================
