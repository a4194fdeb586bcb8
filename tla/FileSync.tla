------------------------------- MODULE FileSync -------------------------------
(***************************************************************************)
(* Syndir itself: one FileWatchersManager keeps a remote directory like a  *)
(* local one.  Qt tells it which watched path has changed; its two slots   *)
(* make a list of files, and copyFilesToRemoteHost connects, sends or      *)
(* removes every file of the list and disconnects, all on one thread,      *)
(* while the user goes on changing the directory.                          *)
(*                                                                         *)
(* A file's content is its version.  A connection attempt that fails is    *)
(* repeated from the beginning and is a stuttering step here.              *)
(***************************************************************************)
EXTENDS Integers, Sequences, SequencesExt, FiniteSetsExt, Selections

CONSTANTS
    Root,        \* the directory kept in sync
    SubDirs,     \* directories below it
    Files,       \* the files of interest: names that allowed_file_types matches
    DirOf,       \* DirOf[f]: the directory of f
    InitFiles,   \* the files that are there when Syndir starts, if their directory is
    InitDirs,    \* the subdirectories that may be there when Syndir starts
    UserOps,     \* what the user does: "write", "create", "delete", "replace", "mkdir", "rmdir"
    MayDie,      \* whether the connection may be lost
    BadKeys,     \* whether the key file may be unreadable or not a key
    MaxOps       \* bound: changes the user makes

Dirs == {Root} \cup SubDirs
Paths == Dirs \cup Files

ASSUME FileSyncAssumption ==
    /\ IsFiniteSet(SubDirs) /\ IsFiniteSet(Files)
    /\ Root \notin SubDirs /\ Dirs \cap Files = {}
    /\ DirOf \in [Files -> Dirs]
    /\ InitFiles \subseteq Files /\ InitDirs \subseteq SubDirs
    /\ UserOps \subseteq {"write", "create", "delete", "replace", "mkdir", "rmdir"}
    /\ {MayDie, BadKeys} \subseteq BOOLEAN
    /\ MaxOps \in Nat

\* Not there; and, on the remote side, there with neither version's content.
Absent == 0
Torn == MaxOps + 2
Versions == 1..(MaxOps + 1)

VARIABLES
    disk,     \* disk[f]: the version of f, or Absent
    stamp,    \* stamp[f]: its created() time
    dirs,     \* dirs[d]: "new" (not yet made), "there", "gone" or "again" (there once more)
    watched,  \* the paths Qt watches
    pending,  \* the paths whose signal is still to be delivered
    remote,   \* remote[f]: what the remote host has of f
    remoteDirs, \* remoteDirs[d]: what it has under d's name: "absent", "directory" or "file"
    files,    \* files
    oldFiles, \* oldFiles
    last,     \* last and lastModified
    lastModified,
    doubled,  \* history: files whose last change came with their name and time in last
    pc,       \* where the thread is
    list,     \* what is left of copyFilesToRemoteHost's list
    conn,     \* connection
    opened,   \* sendFileToRemote: the version at the first stat
    sized,    \* the version at the second stat, whose length the header gave
    handle,   \* what the FILE still reads when its file was unlinked, or Absent
    ops,      \* changes made so far
    fate,     \* history: what has happened to a file (see Properties)
    lost      \* history: a connection was lost or not authenticated

diskVars == <<disk, stamp, dirs, ops, fate>>
watchVars == <<watched, pending>>
listVars == <<files, oldFiles>>
remoteVars == <<remote, remoteDirs>>
lastVars == <<last, lastModified, doubled>>
sendVars == <<opened, sized, handle>>
vars == <<diskVars, watchVars, remoteVars, listVars, lastVars, pc, list, conn, sendVars, lost>>

\* Every sequence of the members of S, each once.
Orders(S) == SetToSeqs(S)

Exists(p) == IF p \in Files THEN disk[p] # Absent ELSE dirs[p] \in {"there", "again"}

Below(d) ==
    {p \in Paths \ {Root} : Exists(p) /\
        (d = Root \/ (p \in Files /\ DirOf[p] = d))}

\* QFileInfo(f).created(): no valid time when the file is not there.
Created(f) == IF disk[f] = Absent THEN 0 ELSE stamp[f]

Init ==
    /\ dirs \in [Dirs -> {"new", "there"}]
    /\ dirs[Root] = "there" /\ \A d \in SubDirs \ InitDirs : dirs[d] = "new"
    /\ disk = [f \in Files |-> IF f \in InitFiles /\ Exists(DirOf[f]) THEN 1 ELSE Absent]
    /\ stamp = [f \in Files |-> 1]
    /\ watched = {p \in Paths : Exists(p)}
    /\ pending = {}
    /\ remote = disk
    /\ remoteDirs = [d \in SubDirs |-> IF Exists(d) THEN "directory" ELSE "absent"]
    /\ \E found \in Orders(Below(Root)) : files = <<Root>> \o found
    /\ oldFiles = <<>>
    /\ last = Root
    /\ lastModified = 0
    /\ doubled = {}
    /\ pc = "idle"
    /\ list = <<>>
    /\ conn = "none"
    /\ opened = Absent
    /\ sized = Absent
    /\ handle = Absent
    /\ ops = 0
    /\ fate = [f \in Files |-> IF Exists(f) THEN "kept" ELSE "none"]
    /\ lost = FALSE
-----------------------------------------------------------------------------
(* The user, and the signals of QFileSystemWatcher. *)

May(op) == op \in UserOps /\ ops < MaxOps /\ ops' = ops + 1

Sending(f) == pc \in {"stat", "transfer"} /\ Head(list) = f

\* An open FILE goes on reading a file that has lost its name.
Unlink(f) ==
    handle' = IF Sending(f) /\ handle = Absent THEN disk[f] ELSE handle

\* The created() time may be another one after a change, or the same; which it is
\* makes a difference only for the file that was handled last.
NewVersion(f) ==
    /\ disk' = [disk EXCEPT ![f] = ops + 2]
    /\ \E later \in IF last = f THEN {0, 1} ELSE {0} : stamp' = [stamp EXCEPT ![f] = @ + later]

Write(f) ==
    /\ May("write")
    /\ Exists(f)
    /\ NewVersion(f)
    /\ pending' = pending \cup ({f} \cap watched)
    /\ doubled' = doubled \ {f}
    /\ UNCHANGED <<dirs, fate, watched, remoteVars, listVars, last, lastModified, pc, list, conn,
                   sendVars, lost>>

Create(f) ==
    /\ May("create")
    /\ ~ Exists(f) /\ Exists(DirOf[f])
    /\ NewVersion(f)
    /\ fate' = [fate EXCEPT ![f] = IF @ = "none" THEN "new" ELSE "other"]
    /\ pending' = pending \cup ({DirOf[f]} \cap watched)
    /\ UNCHANGED <<dirs, watched, remoteVars, listVars, lastVars, pc, list, conn, sendVars, lost>>

Delete(f) ==
    /\ May("delete")
    /\ Exists(f)
    /\ disk' = [disk EXCEPT ![f] = Absent]
    /\ fate' = [fate EXCEPT ![f] = IF @ = "other" THEN "other" ELSE "deleted"]
    /\ Unlink(f)
    /\ pending' = pending \cup ({f, DirOf[f]} \cap watched)
    /\ watched' = watched \ {f}
    /\ UNCHANGED <<stamp, dirs, remoteVars, listVars, lastVars, pc, list, conn, opened, sized, lost>>

\* An editor saves: a new file takes the name, and the watch went with the old one.
Replace(f) ==
    /\ May("replace")
    /\ Exists(f)
    /\ NewVersion(f)
    /\ fate' = [fate EXCEPT ![f] = "other"]
    /\ Unlink(f)
    /\ pending' = pending \cup ({f, DirOf[f]} \cap watched)
    /\ watched' = watched \ {f}
    /\ UNCHANGED <<dirs, remoteVars, listVars, lastVars, pc, list, conn, opened, sized, lost>>

MakeDir(d) ==
    /\ May("mkdir")
    /\ ~ Exists(d)
    /\ dirs' = [dirs EXCEPT ![d] = IF @ = "new" THEN "there" ELSE "again"]
    /\ pending' = pending \cup {Root}
    /\ UNCHANGED <<disk, stamp, fate, watched, remoteVars, listVars, lastVars, pc, list, conn,
                   sendVars, lost>>

RemoveDir(d) ==
    /\ May("rmdir")
    /\ Exists(d) /\ Below(d) = {}
    /\ dirs' = [dirs EXCEPT ![d] = "gone"]
    /\ pending' = pending \cup ({d, Root} \cap watched)
    /\ watched' = watched \ {d}
    /\ UNCHANGED <<disk, stamp, fate, remoteVars, listVars, lastVars, pc, list, conn, sendVars,
                   lost>>

User ==
    \/ \E f \in Files : Write(f) \/ Create(f) \/ Delete(f) \/ Replace(f)
    \/ \E d \in SubDirs : MakeDir(d) \/ RemoveDir(d)
-----------------------------------------------------------------------------
(* The slots. *)

\* Deviation: a file that changes twice in a row is a double.
ChangedByName(f) == last # f

Changed(f) == last # f \/ Created(f) # lastModified

FileChangedSlot(f) ==
    /\ pc = "idle" /\ f \in pending
    /\ pending' = pending \ {f}
    /\ doubled' = IF last = f /\ Created(f) = lastModified THEN doubled \cup {f} ELSE doubled
    /\ IF Changed(f)
       THEN /\ last' = f
            /\ lastModified' = Created(f)
            /\ list' = <<f>>
            /\ pc' = "connect"
       ELSE UNCHANGED <<last, lastModified, list, pc>>
    /\ UNCHANGED <<diskVars, watched, remoteVars, listVars, conn, sendVars, lost>>

\* "for (index = 0; index < files.length(); index++) files.removeAt(index)"
Survivors == [i \in 1..(Len(files) \div 2) |-> files[2 * i]]

\* Deviation: the duplicates stay.
ScanDirNoRemoveDuplicates(top, found) ==
    /\ oldFiles' = files
    /\ files' = Survivors \o <<top>> \o found

\* scanDir up to addPaths: the directory's path and what is found below it are
\* added to what was left of the list, without duplicates.
ScanDir(top, found) ==
    /\ oldFiles' = files
    /\ files' = Survivors \o Selection(<<top>> \o found, Paths \ ToSet(Survivors))

AddPaths(paths) == watched' = watched \cup {p \in ToSet(paths) : Exists(p)}

DirChangedSlot(d) ==
    /\ pc = "idle" /\ d \in pending
    /\ pending' = pending \ {d}
    /\ Exists(d)
    /\ \E found \in Orders(Below(d)) : ScanDir(d, found)
    /\ pc' = "watch"
    /\ UNCHANGED <<diskVars, watched, remoteVars, lastVars, list, conn, sendVars, lost>>

\* The directory is gone: its path with /.. is scanned, where nothing is found.
DirGone(d) ==
    /\ pc = "idle" /\ d \in pending
    /\ ~ Exists(d)
    /\ pending' = pending \ {d}
    /\ ScanDir(Root, <<>>)
    /\ watched' = (watched \ {d}) \cup {p \in ToSet(files') : Exists(p)}
    /\ UNCHANGED <<diskVars, remoteVars, lastVars, pc, list, conn, sendVars, lost>>

\* Deviation: only the removed files are gathered.
GatherRemoved == {p \in Paths : ~ Exists(p)}

Gather == {p \in Paths : ~ Exists(p) \/ (p \in Files /\ p \notin ToSet(oldFiles))}

\* addPaths, the end of scanDir; then the new and the removed files are gathered
\* when the number of paths has changed.
WatchAndGather ==
    /\ pc = "watch"
    /\ AddPaths(files)
    /\ IF Len(files) # Len(oldFiles)
       THEN list' = Selection(files, Gather) /\ pc' = "connect"
       ELSE list' = list /\ pc' = "idle"
    /\ UNCHANGED <<diskVars, pending, remoteVars, listVars, lastVars, conn, sendVars, lost>>
-----------------------------------------------------------------------------
(* copyFilesToRemoteHost. *)

ConnectToRemoteHost ==
    /\ pc = "connect"
    /\ conn' = "open"
    /\ pc' = "next"
    /\ UNCHANGED <<diskVars, watchVars, remoteVars, listVars, lastVars, list, sendVars, lost>>

\* The key file is there and cannot be used: it returns without authentication.
ConnectWithBadKey ==
    /\ BadKeys
    /\ pc = "connect"
    /\ conn' = "unauthenticated"
    /\ lost' = TRUE
    /\ pc' = "next"
    /\ UNCHANGED <<diskVars, watchVars, remoteVars, listVars, lastVars, list, sendVars>>

Die ==
    /\ MayDie
    /\ conn = "open"
    /\ conn' = "dead"
    /\ lost' = TRUE
    /\ UNCHANGED <<diskVars, watchVars, remoteVars, listVars, lastVars, pc, list, sendVars>>

\* Deviation: the remote file stays.
RemoveRemoteNothing(p) == UNCHANGED remoteVars

\* executeRemoteCommand("/bin/rm -rf " ...): without a channel nothing is done.
RemoveRemote(p) ==
    IF conn = "open"
    THEN /\ remote' = [f \in Files |-> IF f = p \/ DirOf[f] = p THEN Absent ELSE remote[f]]
         /\ remoteDirs' = [d \in SubDirs |-> IF d = p THEN "absent" ELSE remoteDirs[d]]
    ELSE UNCHANGED remoteVars

SyncDeletion ==
    /\ pc = "next" /\ list # <<>>
    /\ LET p == Head(list) IN
          /\ ~ Exists(p)
          /\ RemoveRemote(p)
          /\ watched' = watched \ {p}
          /\ pending' = pending \ {p}
          /\ files' = Selection(files, Paths \ {p})
    /\ list' = Tail(list)
    /\ UNCHANGED <<diskVars, oldFiles, lastVars, pc, conn, sendVars, lost>>

SyncModification ==
    /\ pc = "next" /\ list # <<>>
    /\ Exists(Head(list))
    /\ pc' = "open"
    /\ UNCHANGED <<diskVars, watchVars, remoteVars, listVars, lastVars, list, conn, sendVars, lost>>

DisconnectSSHSession ==
    /\ pc = "next" /\ list = <<>>
    /\ conn' = "none"
    /\ pc' = "idle"
    /\ UNCHANGED <<diskVars, watchVars, remoteVars, listVars, lastVars, list, sendVars, lost>>
-----------------------------------------------------------------------------
(* sendFileToRemote, called again while it returns false; what cannot be opened *)
(* leaves it at "open".  A directory can: one that was gone when the list was   *)
(* made and is there again when its turn comes is sent like a file.             *)

\* What stat's size tells apart; any change may alter the size of a directory.
Size(p) == IF p \in Files THEN disk[p] ELSE ops

\* fopen, then mkdir -p of the remote directory, then stat.
OpenFile ==
    /\ pc = "open"
    /\ Exists(Head(list))
    /\ opened' = Size(Head(list))
    /\ handle' = Absent
    /\ remoteDirs' = [d \in SubDirs |->
                         IF /\ conn = "open" /\ Head(list) \in Files /\ d = DirOf[Head(list)]
                            /\ remoteDirs[d] = "absent"
                         THEN "directory" ELSE remoteDirs[d]]
    /\ pc' = "stat"
    /\ UNCHANGED <<diskVars, watchVars, remote, listVars, lastVars, list, conn, sized, lost>>

\* A remote file has the name of the directory that f belongs into.
Blocked(p) == p \in Files /\ DirOf[p] \in SubDirs /\ remoteDirs[DirOf[p]] = "file"

\* The two sizes differ, or scpSendInit fails.
StartAgain ==
    /\ pc = "stat"
    /\ Size(Head(list)) # opened \/ conn # "open" \/ Blocked(Head(list))
    /\ pc' = "open"
    /\ UNCHANGED <<diskVars, watchVars, remoteVars, listVars, lastVars, list, conn, sendVars,
                   lost>>

\* scpSendInit has the remote file created anew; a directory's is put into the remote
\* directory, or takes its name when there is none.  Two versions may have the same
\* size; of what is gone both sizes are whatever was on the stack.
ScpSendInit ==
    /\ pc = "stat"
    /\ conn = "open" /\ ~ Blocked(Head(list))
    /\ sized' = Size(Head(list))
    /\ remote' = [f \in Files |-> IF f = Head(list) THEN Torn ELSE remote[f]]
    /\ remoteDirs' = [d \in SubDirs |-> IF d = Head(list) /\ remoteDirs[d] = "absent"
                                       THEN "file" ELSE remoteDirs[d]]
    /\ pc' = "transfer"
    /\ UNCHANGED <<diskVars, watchVars, listVars, lastVars, list, conn, opened, handle, lost>>

\* What is read is what the file holds now, cut or padded to the size announced;
\* of a directory nothing is read.
Transfer ==
    /\ pc = "transfer"
    /\ conn = "open"
    /\ LET p == Head(list)
           data == IF handle # Absent THEN handle ELSE disk[p]
       IN  IF p \in Files
           THEN \E got \in {data} \cup (IF data = sized THEN {} ELSE {Torn}) :
                   remote' = [remote EXCEPT ![p] = got]
           ELSE UNCHANGED remote
    /\ list' = Tail(list)
    /\ pc' = "next"
    /\ UNCHANGED <<diskVars, watchVars, remoteDirs, listVars, lastVars, conn, sendVars, lost>>

TransferFails ==
    /\ pc = "transfer"
    /\ conn # "open"
    /\ pc' = "open"
    /\ UNCHANGED <<diskVars, watchVars, remoteVars, listVars, lastVars, list, conn, sendVars, lost>>

Slots ==
    \/ \E f \in Files : FileChangedSlot(f)
    \/ \E d \in Dirs : DirChangedSlot(d) \/ DirGone(d)
    \/ WatchAndGather

Copy ==
    \/ ConnectToRemoteHost \/ ConnectWithBadKey
    \/ SyncDeletion \/ SyncModification \/ DisconnectSSHSession
    \/ OpenFile \/ StartAgain \/ ScpSendInit \/ Transfer \/ TransferFails

Next == User \/ Slots \/ Copy \/ Die

Spec == Init /\ [][Next]_vars

\* The thread runs, and a connection that is tried again and again is made.
FairSpec == Spec /\ WF_vars(Slots \/ Copy)
-----------------------------------------------------------------------------
(* Properties.  fate[f] is "none" for a file not yet made, "kept" for one there *)
(* from the start and only written in place, "new" for one made once, "deleted" *)
(* for one deleted once, and "other" for one made again or replaced.            *)

\* The shape of the state.
TypeOK ==
    /\ disk \in [Files -> Versions \cup {Absent}]
    /\ stamp \in [Files -> Versions]
    /\ dirs \in [Dirs -> {"new", "there", "gone", "again"}]
    /\ watched \subseteq Paths /\ pending \subseteq Paths
    /\ remote \in [Files -> Versions \cup {Absent, Torn}]
    /\ remoteDirs \in [SubDirs -> {"absent", "directory", "file"}]
    /\ {ToSet(files), ToSet(oldFiles), ToSet(list)} \subseteq SUBSET Paths
    /\ IsInjective(files)
    /\ last \in {Root} \cup Files
    /\ lastModified \in {0} \cup Versions
    /\ doubled \subseteq Files
    /\ pc \in {"idle", "watch", "connect", "next", "open", "stat", "transfer"}
    /\ conn \in {"none", "open", "unauthenticated", "dead"}
    /\ {opened, sized, handle} \subseteq Versions \cup {Absent}
    /\ ops \in 0..MaxOps
    /\ fate \in [Files -> {"none", "kept", "new", "deleted", "other"}]
    /\ lost \in BOOLEAN

Quiet == pc = "idle" /\ pending = {}

\* A file that is written in place, at whatever moment of the watching, scanning and
\* sending of other files or of itself, is the same on both sides when Syndir rests,
\* unless its last change came with the name and the created() time of the one that
\* was handled last: "Ignore doubles".
EditsSynced ==
    Quiet => \A f \in Files : fate[f] = "kept" /\ f \notin doubled => remote[f] = disk[f]

\* "On each file change it will automatically upload changed file to remote host".
EveryEditSynced ==
    Quiet => \A f \in Files : fate[f] = "kept" => remote[f] = disk[f]

\* A file that was deleted, while it was being scanned or sent too, is gone from the
\* remote side when Syndir rests, if no connection was lost.
DeletionsSynced ==
    Quiet /\ ~ lost => \A f \in Files : fate[f] = "deleted" => remote[f] = Absent

\* A file made once and written, directly in Root, is equal on both sides again and
\* again, unless its last change was taken for a double; until anything is deleted,
\* replaced or removed (see DeletionReaches) or a connection lost.  Not so below Root:
\* a scan of a subdirectory finds what is in it and leaves every other path of the old
\* list, which with a new file can be as many as before (see CreationsSynced).
Disturbed ==
    \/ lost \/ \E f \in Files : fate[f] \in {"deleted", "other"}
    \/ \E d \in Dirs : dirs[d] \in {"gone", "again"}
SyncedAgain ==
    \A f \in Files : DirOf[f] = Root =>
        []<>(remote[f] = disk[f] \/ f \in doubled \/ Disturbed)

\* "Full support for File & Directory creation/ deletion": a new file is on the
\* remote side when Syndir rests.
CreationsSynced ==
    Quiet => \A f \in Files : fate[f] = "new" => remote[f] # Absent

\* "deal with deletion of local file with remote sync": a deletion reaches the
\* remote side.
DeletionReaches ==
    \A f \in Files : (disk[f] = Absent) ~> (remote[f] = Absent \/ disk[f] # Absent)
=============================================================================
