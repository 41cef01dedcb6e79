---------------------------- MODULE ArtifactFile ----------------------------
(***************************************************************************)
(* Saving an artifact over a path others load from (cafein-py artifact.rs  *)
(* write_container) and the CRCs a loaded network keeps of its file          *)
(* (artifact.rs load_owned; streets.rs load).                              *)
(*                                                                         *)
(* Savers stage into a file of their own, write the header and the two     *)
(* sections, sync and rename; they may fail at any step, be killed, or     *)
(* lose power.  A saved network is one of Artifacts; its header CRCs are    *)
(* taken to tell contents apart.  Inodes are numbered in the order they    *)
(* are created; 0 is no file.                                              *)
(***************************************************************************)
EXTENDS Naturals

CONSTANTS
  Processes,   \* the processes that save
  Networks,    \* transport networks that load the path
  Streets,     \* street networks that load the path
  Artifacts,    \* what may be saved
  Unread,      \* the content of an artifact not read yet
  Parts,       \* the writes of a container: header, META, STREETS
  MaxSaves     \* bound: the files created

ASSUME PartsAssumption == Parts \in Nat \ {0}
ASSUME MaxSavesAssumption == MaxSaves \in Nat
ASSUME UnreadAssumption == Unread \notin Artifacts
ASSUME KindsAssumption == Networks \cap Streets = {}

VARIABLES
  inode,      \* the files' contents, how far they are written, and synced
  created,    \* the files created so far
  path,       \* the inode the destination names
  on_disk,    \* the inode it names after a power loss
  staging,    \* the inode each staging name names: process and sequence number
  sequence,   \* SAVE_SEQUENCE of each process
  save,       \* the save each process is in
  loaded,     \* the loaded artifacts
  orphans     \* history: the staging names a killed process left

pathVars == <<inode, created, path, on_disk, staging, sequence, save, loaded, orphans>>

Inodes == 1..MaxSaves
Names == Processes \X (0..MaxSaves)
Loaders == Networks \cup Streets

NoFile == [content |-> Unread, written |-> 0, synced |-> FALSE]
Idle == [pc |-> "idle", number |-> 0, inode |-> 0]
NotLoaded == [pc |-> "out", source |-> Unread, content |-> Unread, inode |-> 0]

Whole(i) == i # 0 /\ inode[i].written = Parts

----------------------------------------------------------------------------
(* Saving.                                                                 *)

\* Mutant: the artifact is rewritten in place once it exists.
CreateInPlace(p, content) ==
  LET name == <<p, sequence[p]>>
      i == IF path = 0 THEN created + 1 ELSE path
  IN /\ save[p].pc = "idle"
     /\ sequence[p] < MaxSaves
     /\ created < MaxSaves
     /\ sequence' = [sequence EXCEPT ![p] = @ + 1]
     /\ created' = created + 1
     /\ inode' = [inode EXCEPT ![i] = [content |-> content, written |-> 0, synced |-> FALSE]]
     /\ staging' = [staging EXCEPT ![name] = i]
     /\ save' = [save EXCEPT ![p] = [pc |-> "writing", number |-> sequence[p], inode |-> i]]
     /\ UNCHANGED <<path, on_disk, loaded, orphans>>

\* The staging name is new to this process; creating it is exclusive, and a
\* name left over there fails the save, whose error path removes it.
Create(p, content) ==
  LET name == <<p, sequence[p]>>
      i == created + 1
  IN /\ save[p].pc = "idle"
     /\ sequence[p] < MaxSaves
     /\ created < MaxSaves
     /\ sequence' = [sequence EXCEPT ![p] = @ + 1]
     /\ \/ /\ staging[name] = 0
           /\ created' = i
           /\ inode' = [inode EXCEPT ![i] = [content |-> content, written |-> 0, synced |-> FALSE]]
           /\ staging' = [staging EXCEPT ![name] = i]
           /\ save' = [save EXCEPT ![p] = [pc |-> "writing", number |-> sequence[p], inode |-> i]]
           /\ UNCHANGED orphans
        \/ /\ staging[name] # 0
           /\ staging' = [staging EXCEPT ![name] = 0]
           /\ orphans' = orphans \ {name}
           /\ UNCHANGED <<created, inode, save>>
     /\ UNCHANGED <<path, on_disk, loaded>>

Write(p) ==
  LET i == save[p].inode
  IN /\ save[p].pc = "writing"
     /\ inode[i].written < Parts
     /\ inode' = [inode EXCEPT ![i].written = @ + 1]
     /\ UNCHANGED <<created, path, on_disk, staging, sequence, save, loaded, orphans>>

\* flush and sync_all
Sync(p) ==
  LET i == save[p].inode
  IN /\ save[p].pc = "writing"
     /\ inode[i].written = Parts
     /\ inode' = [inode EXCEPT ![i].synced = TRUE]
     /\ save' = [save EXCEPT ![p].pc = "synced"]
     /\ UNCHANGED <<created, path, on_disk, staging, sequence, loaded, orphans>>

\* Mutant: the rename does not wait for the sync.
RenameUnsynced(p) ==
  /\ save[p].pc = "writing"
  /\ inode[save[p].inode].written = Parts
  /\ path' = save[p].inode
  /\ staging' = [staging EXCEPT ![<<p, save[p].number>>] = 0]
  /\ save' = [save EXCEPT ![p] = Idle]
  /\ UNCHANGED <<inode, created, on_disk, sequence, loaded, orphans>>

Rename(p) ==
  /\ save[p].pc = "synced"
  /\ path' = save[p].inode
  /\ staging' = [staging EXCEPT ![<<p, save[p].number>>] = 0]
  /\ save' = [save EXCEPT ![p] = Idle]
  /\ UNCHANGED <<inode, created, on_disk, sequence, loaded, orphans>>

\* Any step may fail: the error removes the staging file.
Fail(p) ==
  /\ save[p].pc # "idle"
  /\ staging' = [staging EXCEPT ![<<p, save[p].number>>] = 0]
  /\ save' = [save EXCEPT ![p] = Idle]
  /\ UNCHANGED <<inode, created, path, on_disk, sequence, loaded, orphans>>

\* A killed process leaves its staging file; a later one may get its pid, and
\* counts from 0 again.
Left(p) == IF save[p].pc = "idle" THEN {} ELSE {<<p, save[p].number>>}

Kill(p) ==
  /\ orphans' = orphans \cup Left(p)
  /\ save' = [save EXCEPT ![p] = Idle]
  /\ sequence' = [sequence EXCEPT ![p] = 0]
  /\ UNCHANGED <<inode, created, path, on_disk, staging, loaded>>

\* The file system gets the rename to the disk some time.
Settle ==
  /\ on_disk' = path
  /\ UNCHANGED <<inode, created, path, staging, sequence, save, loaded, orphans>>

\* Unsynced writes are lost, and the rename may be.
PowerLoss ==
  /\ \E i \in {path, on_disk} : path' = i /\ on_disk' = i
  /\ inode' = [i \in Inodes |-> IF inode[i].synced THEN inode[i]
                                ELSE [inode[i] EXCEPT !.written = 0]]
  /\ orphans' = orphans \cup UNION {Left(p) : p \in Processes}
  /\ save' = [p \in Processes |-> Idle]
  /\ sequence' = [p \in Processes |-> 0]
  /\ loaded' = [l \in Loaders |-> NotLoaded]
  /\ UNCHANGED <<created, staging>>

----------------------------------------------------------------------------
(* Loading.                                                                *)

\* A network takes the CRCs from the file it reads; the mapped load keeps it.
LoadNetwork(l) ==
  /\ loaded[l].pc = "out"
  /\ Whole(path)
  /\ loaded' = [loaded EXCEPT ![l] = [pc |-> "loaded", source |-> inode[path].content,
                                      content |-> inode[path].content, inode |-> path]]
  /\ UNCHANGED <<inode, created, path, on_disk, staging, sequence, save, orphans>>

\* A street network opens the path for its header's CRCs, and again to load;
\* without a file it remembers none.
ReadSource(l) ==
  /\ loaded[l].pc = "out"
  /\ loaded' = [loaded EXCEPT ![l] =
       [pc |-> "header", source |-> IF path = 0 THEN Unread ELSE inode[path].content,
        content |-> Unread, inode |-> 0]]
  /\ UNCHANGED <<inode, created, path, on_disk, staging, sequence, save, orphans>>

LoadStreets(l) ==
  /\ loaded[l].pc = "header"
  /\ Whole(path)
  /\ loaded' = [loaded EXCEPT ![l].pc = "loaded", ![l].content = inode[path].content,
                              ![l].inode = path]
  /\ UNCHANGED <<inode, created, path, on_disk, staging, sequence, save, orphans>>

Drop(l) ==
  /\ loaded[l].pc = "loaded"
  /\ loaded' = [loaded EXCEPT ![l] = NotLoaded]
  /\ UNCHANGED <<inode, created, path, on_disk, staging, sequence, save, orphans>>

----------------------------------------------------------------------------

PathInit ==
  /\ inode = [i \in Inodes |-> NoFile]
  /\ created = 0
  /\ path = 0
  /\ on_disk = 0
  /\ staging = [n \in Names |-> 0]
  /\ sequence = [p \in Processes |-> 0]
  /\ save = [p \in Processes |-> Idle]
  /\ loaded = [l \in Loaders |-> NotLoaded]
  /\ orphans = {}

SaveStep(p) ==
  \/ \E content \in Artifacts : Create(p, content)
  \/ Write(p)
  \/ Sync(p)
  \/ Rename(p)
  \/ Fail(p)
  \/ Kill(p)

PathNext ==
  \/ \E p \in Processes : SaveStep(p)
  \/ Settle
  \/ PowerLoss
  \/ \E l \in Networks : LoadNetwork(l)
  \/ \E l \in Streets : ReadSource(l) \/ LoadStreets(l)
  \/ \E l \in Loaders : Drop(l)

PathSpec == PathInit /\ [][PathNext]_pathVars

----------------------------------------------------------------------------
(* Properties.                                                             *)

\* Every variable holds values of its type.
PathTypeOK ==
  /\ inode \in [Inodes -> [content : Artifacts \cup {Unread}, written : 0..Parts,
                           synced : BOOLEAN]]
  /\ created \in 0..MaxSaves
  /\ path \in 0..MaxSaves
  /\ on_disk \in 0..MaxSaves
  /\ staging \in [Names -> 0..MaxSaves]
  /\ sequence \in [Processes -> 0..MaxSaves]
  /\ save \in [Processes -> [pc : {"idle", "writing", "synced"}, number : 0..MaxSaves,
                             inode : 0..MaxSaves]]
  /\ loaded \in [Loaders -> [pc : {"out", "header", "loaded"}, source : Artifacts \cup {Unread},
                             content : Artifacts \cup {Unread}, inode : 0..MaxSaves]]
  /\ orphans \subseteq Names

\* The path names a whole save or nothing, also after a failed or killed save
\* and after a power loss: staged, synced, then renamed (artifact.rs
\* write_container).
PathWhole == \A i \in {path, on_disk} : i # 0 => Whole(i)

\* A loaded artifact's file stays as it was mapped, whatever is saved over the
\* path: the artifact "must never be rewritten in place under live mapped
\* readers" (artifact.rs write_container).
HeldUnchanged ==
  \A l \in Loaders :
    loaded[l].pc = "loaded" =>
      /\ Whole(loaded[l].inode)
      /\ inode[loaded[l].inode].content = loaded[l].content

\* A save that returned, either way, left no staging file; only a killed one
\* does, and two saves never stage into one file (artifact.rs write_container).
StagingOwned ==
  /\ \A n \in Names :
       staging[n] # 0 =>
         \/ n \in orphans
         \/ save[n[1]].pc # "idle" /\ save[n[1]].number = n[2] /\ save[n[1]].inode = staging[n]
  /\ \A m, n \in Names : (staging[m] # 0 /\ staging[m] = staging[n]) => m = n

\* A loaded street network holds the CRCs of the file it was loaded from
\* (streets.rs:157).
StreetSource ==
  \A l \in Streets :
    loaded[l].pc = "loaded" => loaded[l].source \in {Unread, loaded[l].content}

\* However a save ends, the path names a whole artifact and no staging file is
\* left behind a save that returned (artifact.rs write_container).
SavesWhole == PathWhole /\ StagingOwned
=============================================================================
