------------------------- MODULE ArtifactFile_proofs -------------------------
(***************************************************************************)
(* Proofs about ArtifactFile, for any number of saving processes, loaders, *)
(* contents, writes and files.  The inductive invariant separates the      *)
(* inodes a save still writes from the published ones: an inode the path   *)
(* names, or a loaded artifact holds, is whole, synced and in no save.     *)
(***************************************************************************)
EXTENDS ArtifactFile, TLAPS

Busy(p) == save[p].pc # "idle"

\* An inode no save will touch again, and no power loss will cut.
Published(i) ==
  /\ i \in 1..created
  /\ inode[i].written = Parts
  /\ inode[i].synced
  /\ \A p \in Processes : Busy(p) => save[p].inode # i

\* A save in progress owns the inode it created; its bytes are on the disk once synced.
SaveInv(p) ==
  Busy(p) =>
    /\ save[p].inode \in 1..created
    /\ save[p].pc = "synced" =>
         inode[save[p].inode].written = Parts /\ inode[save[p].inode].synced
    /\ \A r \in Processes : (r # p /\ Busy(r)) => save[r].inode # save[p].inode

LoadInv(l) ==
  loaded[l].pc = "loaded" =>
    Published(loaded[l].inode) /\ inode[loaded[l].inode].content = loaded[l].content

IInv ==
  /\ PathTypeOK
  /\ \A i \in {path, on_disk} : i # 0 => Published(i)
  /\ \A p \in Processes : SaveInv(p)
  /\ \A l \in Loaders : LoadInv(l)

----------------------------------------------------------------------------

LEMMA TypeInit == PathInit => PathTypeOK
<1>. SUFFICES ASSUME PathInit PROVE PathTypeOK
  OBVIOUS
<1>1. 0 \in 0..MaxSaves /\ 0 \in 0..Parts
  BY PartsAssumption, MaxSavesAssumption
<1>. QED
  BY <1>1 DEF PathInit, PathTypeOK, NoFile, Idle, NotLoaded

LEMMA TypeStep == PathTypeOK /\ [PathNext]_pathVars => PathTypeOK'
<1>. SUFFICES ASSUME PathTypeOK, [PathNext]_pathVars PROVE PathTypeOK'
  OBVIOUS
<1>0. /\ 0 \in 0..MaxSaves /\ 0 \in 0..Parts
      /\ MaxSaves \in Nat /\ Parts \in Nat
  BY PartsAssumption, MaxSavesAssumption
<1>1. ASSUME NEW p \in Processes, NEW content \in Artifacts, Create(p, content)
      PROVE  PathTypeOK'
  <2>1. sequence[p] \in 0..MaxSaves /\ sequence[p] + 1 \in 0..MaxSaves
        /\ <<p, sequence[p]>> \in Names
    BY <1>0, <1>1 DEF Create, PathTypeOK, Names
  <2>2. CASE staging[<<p, sequence[p]>>] = 0
    <3>1. created + 1 \in Inodes /\ created + 1 \in 0..MaxSaves
      BY <1>0, <1>1 DEF Create, PathTypeOK, Inodes
    <3>2. inode' = [inode EXCEPT ![created + 1] =
                      [content |-> content, written |-> 0, synced |-> FALSE]]
          /\ staging' = [staging EXCEPT ![<<p, sequence[p]>>] = created + 1]
          /\ save' = [save EXCEPT ![p] = [pc |-> "writing", number |-> sequence[p],
                                          inode |-> created + 1]]
          /\ created' = created + 1
          /\ sequence' = [sequence EXCEPT ![p] = sequence[p] + 1]
          /\ UNCHANGED <<path, on_disk, loaded, orphans>>
      BY <1>1, <2>2 DEF Create
    <3>. QED
      BY <1>0, <2>1, <3>1, <3>2 DEF PathTypeOK
  <2>3. CASE staging[<<p, sequence[p]>>] # 0
    <3>1. staging' = [staging EXCEPT ![<<p, sequence[p]>>] = 0]
          /\ sequence' = [sequence EXCEPT ![p] = sequence[p] + 1]
          /\ orphans' = orphans \ {<<p, sequence[p]>>}
          /\ UNCHANGED <<created, inode, save, path, on_disk, loaded>>
      BY <1>1, <2>3 DEF Create
    <3>. QED
      BY <1>0, <2>1, <3>1 DEF PathTypeOK
  <2>. QED
    BY <2>2, <2>3
<1>2. ASSUME NEW p \in Processes, Write(p)
      PROVE  PathTypeOK'
  <2>1. CASE save[p].inode \in Inodes
    <3> DEFINE i == save[p].inode
    <3>1. inode[i].written + 1 \in 0..Parts
      BY <1>0, <1>2, <2>1 DEF Write, PathTypeOK
    <3>2. inode' = [inode EXCEPT ![i] = [inode[i] EXCEPT !.written = inode[i].written + 1]]
          /\ UNCHANGED <<created, path, on_disk, staging, sequence, save, loaded, orphans>>
      BY <1>2 DEF Write
    <3>3. [inode[i] EXCEPT !.written = inode[i].written + 1] \in
            [content : Artifacts \cup {Unread}, written : 0..Parts, synced : BOOLEAN]
      <4>1. inode[i] \in [content : Artifacts \cup {Unread}, written : 0..Parts, synced : BOOLEAN]
        BY <1>0, <2>1 DEF PathTypeOK
      <4> HIDE DEF i
      <4>. QED
        BY <3>1, <4>1
    <3>. QED
      BY <1>0, <2>1, <3>2, <3>3 DEF PathTypeOK
  <2>2. CASE save[p].inode \notin Inodes
    <3>1. inode' = inode
      BY <1>0, <1>2, <2>2 DEF Write, PathTypeOK
    <3>. QED
      BY <1>0, <1>2, <3>1 DEF Write, PathTypeOK
  <2>. QED
    BY <2>1, <2>2
<1>3. ASSUME NEW p \in Processes, Sync(p)
      PROVE  PathTypeOK'
  <2>1. inode' \in [Inodes -> [content : Artifacts \cup {Unread}, written : 0..Parts,
                               synced : BOOLEAN]]
    <3>1. inode' = [inode EXCEPT ![save[p].inode].synced = TRUE]
      BY <1>3 DEF Sync
    <3>2. ASSUME NEW i \in Inodes
          PROVE  [inode[i] EXCEPT !.synced = TRUE] \in
                   [content : Artifacts \cup {Unread}, written : 0..Parts, synced : BOOLEAN]
      <4>1. inode[i] \in [content : Artifacts \cup {Unread}, written : 0..Parts,
                           synced : BOOLEAN]
        BY DEF PathTypeOK
      <4>. QED
        BY <4>1
    <3>. QED
      BY <3>1, <3>2 DEF PathTypeOK
  <2>2. save' \in [Processes -> [pc : {"idle", "writing", "synced"}, number : 0..MaxSaves,
                                 inode : 0..MaxSaves]]
    BY <1>3 DEF Sync, PathTypeOK
  <2>. QED
    BY <1>3, <2>1, <2>2 DEF Sync, PathTypeOK
<1>4. ASSUME NEW p \in Processes, Rename(p)
      PROVE  PathTypeOK'
  BY <1>0, <1>4 DEF Rename, PathTypeOK, Idle
<1>5. ASSUME NEW p \in Processes, Fail(p)
      PROVE  PathTypeOK'
  BY <1>0, <1>5 DEF Fail, PathTypeOK, Idle
<1>6. \A p \in Processes : Left(p) \subseteq Names
  BY DEF Left, PathTypeOK, Names
<1>7. ASSUME NEW p \in Processes, Kill(p)
      PROVE  PathTypeOK'
  BY <1>0, <1>6, <1>7 DEF Kill, PathTypeOK, Idle
<1>8. CASE Settle
  BY <1>8 DEF Settle, PathTypeOK
<1>9. CASE PowerLoss
  <2>1. inode' \in [Inodes -> [content : Artifacts \cup {Unread}, written : 0..Parts,
                               synced : BOOLEAN]]
    BY <1>0, <1>9, ZenonT(60) DEF PowerLoss, PathTypeOK
  <2>2. /\ path' \in 0..MaxSaves /\ on_disk' \in 0..MaxSaves
        /\ save' \in [Processes -> [pc : {"idle", "writing", "synced"}, number : 0..MaxSaves,
                                    inode : 0..MaxSaves]]
        /\ sequence' \in [Processes -> 0..MaxSaves]
    BY <1>0, <1>9 DEF PowerLoss, PathTypeOK, Idle
  <2>3. loaded' \in [Loaders -> [pc : {"out", "header", "loaded"}, source : Artifacts \cup {Unread},
                                 content : Artifacts \cup {Unread}, inode : 0..MaxSaves]]
    BY <1>0, <1>9 DEF PowerLoss, NotLoaded
  <2>4. orphans' \subseteq Names
    BY <1>6, <1>9 DEF PowerLoss, PathTypeOK
  <2>. QED
    BY <1>9, <2>1, <2>2, <2>3, <2>4 DEF PowerLoss, PathTypeOK
<1>10. ASSUME path # 0
       PROVE  inode[path].content \in Artifacts \cup {Unread}
  BY <1>0, <1>10 DEF PathTypeOK, Inodes
<1>11. ASSUME NEW l \in Networks, LoadNetwork(l)
       PROVE  PathTypeOK'
  <2>1. l \in Loaders /\ path # 0
    BY <1>11 DEF Loaders, LoadNetwork, Whole
  <2>. QED
    BY <1>10, <1>11, <2>1 DEF LoadNetwork, PathTypeOK
<1>12. ASSUME NEW l \in Streets, ReadSource(l)
       PROVE  PathTypeOK'
  <2>1. l \in Loaders
    BY DEF Loaders
  <2>2. (IF path = 0 THEN Unread ELSE inode[path].content) \in Artifacts \cup {Unread}
    BY <1>10
  <2>. QED
    BY <1>0, <1>12, <2>1, <2>2 DEF ReadSource, PathTypeOK
<1>13. ASSUME NEW l \in Streets, LoadStreets(l)
       PROVE  PathTypeOK'
  <2>1. l \in Loaders /\ path # 0
    BY <1>13 DEF Loaders, LoadStreets, Whole
  <2>2. inode[path].content \in Artifacts \cup {Unread}
    BY <1>10, <2>1
  <2>3. [loaded[l] EXCEPT !.pc = "loaded", !.content = inode[path].content, !.inode = path]
          \in [pc : {"out", "header", "loaded"}, source : Artifacts \cup {Unread},
              content : Artifacts \cup {Unread}, inode : 0..MaxSaves]
    BY <2>1, <2>2, ZenonT(60) DEF PathTypeOK
  <2>4. loaded' = [loaded EXCEPT ![l] = [loaded[l] EXCEPT
          !.pc = "loaded", !.content = inode[path].content, !.inode = path]]
    BY <1>13, <2>1 DEF LoadStreets, PathTypeOK
  <2>. QED
    BY <1>13, <2>1, <2>3, <2>4 DEF LoadStreets, PathTypeOK
<1>14. ASSUME NEW l \in Loaders, Drop(l)
       PROVE  PathTypeOK'
  BY <1>0, <1>14 DEF Drop, PathTypeOK, NotLoaded
<1>15. CASE UNCHANGED pathVars
  BY <1>15 DEF pathVars, PathTypeOK
<1>. QED
  BY <1>1, <1>2, <1>3, <1>4, <1>5, <1>7, <1>8, <1>9, <1>11, <1>12, <1>13, <1>14, <1>15
     DEF PathNext, SaveStep

----------------------------------------------------------------------------
(* The inductive invariant.                                                *)

LEMMA IInvInit == PathInit => IInv
<1>. SUFFICES ASSUME PathInit PROVE IInv
  OBVIOUS
<1>1. PathTypeOK
  BY TypeInit
<1>2. path = 0 /\ on_disk = 0
  BY DEF PathInit
<1>3. \A p \in Processes : SaveInv(p)
  BY DEF PathInit, SaveInv, Busy, Idle
<1>4. \A l \in Loaders : LoadInv(l)
  BY DEF PathInit, LoadInv, NotLoaded
<1>. QED
  BY <1>1, <1>2, <1>3, <1>4 DEF IInv

\* A step that writes only inodes of saves, and adds to them only new ones,
\* leaves the published inodes published.
LEMMA PublishedStays ==
  ASSUME NEW i, Published(i), created' \in Nat, created \in Nat, created <= created',
         inode'[i] = inode[i],
         \A p \in Processes : Busy(p)' => save'[p].inode # i
  PROVE  Published(i)'
BY DEF Published

LEMMA LoadsStay ==
  ASSUME NEW l \in Loaders, LoadInv(l), loaded' = loaded,
         \A i \in Inodes : Published(i) => Published(i)' /\ inode'[i].content = inode[i].content,
         PathTypeOK
  PROVE  LoadInv(l)'
<1>1. Published(loaded[l].inode) => loaded[l].inode \in Inodes
  BY MaxSavesAssumption DEF Published, PathTypeOK, Inodes
<1>. QED
  BY <1>1 DEF LoadInv

LEMMA CreateKeeps ==
  ASSUME IInv, PathTypeOK', NEW p \in Processes, NEW content \in Artifacts, Create(p, content)
  PROVE  IInv'
<1>0. /\ created \in Nat /\ created \in 0..MaxSaves /\ MaxSaves \in Nat
      /\ PathTypeOK /\ UNCHANGED <<path, on_disk, loaded>>
  BY MaxSavesAssumption DEF IInv, PathTypeOK, Create
<1>1. CASE staging[<<p, sequence[p]>>] # 0
  <2>1. UNCHANGED <<created, inode, save, path, on_disk, loaded>>
    BY <1>1 DEF Create
  <2>. QED
    BY <2>1 DEF IInv, Published, SaveInv, LoadInv, Busy
<1>2. CASE staging[<<p, sequence[p]>>] = 0
  <2>1. /\ created' = created + 1 /\ created + 1 \in Inodes
        /\ inode' = [inode EXCEPT ![created + 1] =
                       [content |-> content, written |-> 0, synced |-> FALSE]]
        /\ save' = [save EXCEPT ![p] = [pc |-> "writing", number |-> sequence[p],
                                        inode |-> created + 1]]
        /\ ~Busy(p)
    BY <1>0, <1>2 DEF Create, Inodes, Busy
  <2>2. /\ save'[p].pc = "writing" /\ save'[p].inode = created + 1
        /\ \A r \in Processes : r # p => save'[r] = save[r]
    BY <1>0, <2>1 DEF PathTypeOK
  <2>3. \A i \in 1..created : inode'[i] = inode[i]
    BY <1>0, <2>1 DEF PathTypeOK, Inodes
  <2>4. ASSUME NEW i, Published(i)
        PROVE  Published(i)' /\ inode'[i] = inode[i]
    <3>1. i \in 1..created
      BY <2>4 DEF Published
    <3>2. inode'[i] = inode[i]
      BY <2>3, <3>1
    <3>3. \A r \in Processes : Busy(r)' => save'[r].inode # i
      BY <1>0, <2>2, <2>4, <3>1 DEF Published, Busy
    <3>. QED
      <4>1. created' \in Nat /\ created <= created'
        BY <1>0, <2>1
      <4>. QED
        BY <1>0, <2>4, <3>2, <3>3, <4>1, PublishedStays
  <2>5. \A i \in {path', on_disk'} : i # 0 => Published(i)'
    BY <1>0, <2>4 DEF IInv
  <2>6. ASSUME NEW r \in Processes
        PROVE  SaveInv(r)'
    <3>1. \A s \in Processes : Busy(s) => save[s].inode \in 1..created
      BY DEF IInv, SaveInv
    <3>2. CASE r = p
      BY <1>0, <2>1, <2>2, <3>1, <3>2 DEF SaveInv, Busy
    <3>3. CASE r # p
      <4>1. SaveInv(r)
        BY DEF IInv
      <4>2. Busy(r) => inode'[save[r].inode] = inode[save[r].inode]
        BY <2>3, <3>1
      <4>. QED
        BY <1>0, <2>1, <2>2, <3>1, <3>3, <4>1, <4>2 DEF SaveInv, Busy
    <3>. QED
      BY <3>2, <3>3
  <2>7. ASSUME NEW l \in Loaders
        PROVE  LoadInv(l)'
    <3>1. LoadInv(l)
      BY DEF IInv
    <3>. QED
      BY <1>0, <2>4, <3>1, LoadsStay
  <2>. QED
    BY <2>5, <2>6, <2>7 DEF IInv
<1>. QED
  BY <1>1, <1>2

\* A write or a sync touches the inode of its own save alone.
LEMMA WritingKeeps ==
  ASSUME IInv, PathTypeOK', NEW p \in Processes, Write(p) \/ Sync(p)
  PROVE  IInv'
<1>0. /\ created \in Nat /\ MaxSaves \in Nat /\ PathTypeOK /\ Busy(p)
      /\ UNCHANGED <<created, path, on_disk, loaded>>
  BY MaxSavesAssumption DEF IInv, PathTypeOK, Write, Sync, Busy
<1>1. /\ \A i \in Inodes : i # save[p].inode => inode'[i] = inode[i]
      /\ \A r \in Processes : save'[r].inode = save[r].inode /\ (Busy(r)' <=> Busy(r))
      /\ \A r \in Processes : r # p => save'[r] = save[r]
      /\ save[p].pc = "writing"
  BY <1>0 DEF Write, Sync, PathTypeOK, Busy
<1>2. save'[p].pc = "synced" =>
        inode'[save[p].inode].written = Parts /\ inode'[save[p].inode].synced
  <2>1. CASE Write(p)
    BY <1>1, <2>1 DEF Write
  <2>2. CASE Sync(p)
    <3>1. save[p].inode \in Inodes
      BY <1>0 DEF IInv, SaveInv, PathTypeOK, Inodes
    <3>2. /\ inode[save[p].inode].written = Parts
          /\ inode' = [inode EXCEPT ![save[p].inode].synced = TRUE]
      BY <2>2 DEF Sync
    <3>. QED
      BY <1>0, <3>1, <3>2 DEF PathTypeOK
  <2>. QED
    BY <2>1, <2>2
<1>3. \A r \in Processes : Busy(r) => save[r].inode \in 1..created /\ save[r].inode \in Inodes
  BY <1>0 DEF IInv, SaveInv, PathTypeOK, Inodes
<1>4. ASSUME NEW i, Published(i)
      PROVE  Published(i)' /\ inode'[i] = inode[i]
  <2>1. i \in Inodes /\ i # save[p].inode
    BY <1>0, <1>4 DEF Published, Inodes, PathTypeOK
  <2>2. inode'[i] = inode[i]
    BY <1>1, <2>1
  <2>3. \A r \in Processes : Busy(r)' => save'[r].inode # i
    BY <1>1, <1>4 DEF Published
  <2>. QED
    BY <1>0, <1>4, <2>2, <2>3, PublishedStays
<1>5. \A i \in {path', on_disk'} : i # 0 => Published(i)'
  BY <1>0, <1>4 DEF IInv
<1>6. ASSUME NEW r \in Processes
      PROVE  SaveInv(r)'
  <2>1. SaveInv(r)
    BY DEF IInv
  <2>2. CASE r = p
    BY <1>0, <1>1, <1>2, <1>3, <2>1, <2>2 DEF SaveInv
  <2>3. CASE r # p
    <3>1. Busy(r) => inode'[save[r].inode] = inode[save[r].inode]
      BY <1>0, <1>1, <1>3, <2>1, <2>3 DEF SaveInv
    <3>. QED
      BY <1>0, <1>1, <2>1, <2>3, <3>1 DEF SaveInv
  <2>. QED
    BY <2>2, <2>3
<1>7. ASSUME NEW l \in Loaders
      PROVE  LoadInv(l)'
  <2>1. LoadInv(l)
    BY DEF IInv
  <2>. QED
    BY <1>0, <1>4, <2>1, LoadsStay
<1>. QED
  BY <1>5, <1>6, <1>7 DEF IInv

\* The save that renames had published its inode when it synced it.
LEMMA RenameKeeps ==
  ASSUME IInv, PathTypeOK', NEW p \in Processes, Rename(p)
  PROVE  IInv'
<1>0. /\ created \in Nat /\ PathTypeOK /\ Busy(p) /\ save[p].pc = "synced"
      /\ path' = save[p].inode
      /\ UNCHANGED <<created, inode, on_disk, loaded>>
  BY DEF IInv, PathTypeOK, Rename, Busy
<1>1. ~Busy(p)' /\ \A r \in Processes : r # p => save'[r] = save[r]
  BY DEF IInv, PathTypeOK, Rename, Busy, Idle
<1>2. ASSUME NEW i, Published(i)
      PROVE  Published(i)' /\ inode'[i] = inode[i]
  BY <1>0, <1>1, <1>2 DEF Published, Busy
<1>3. Published(path)'
  <2>1. SaveInv(p)
    BY DEF IInv
  <2>2. /\ path' \in 1..created' /\ inode'[path'].written = Parts /\ inode'[path'].synced
        /\ \A r \in Processes : Busy(r)' => save'[r].inode # path'
    BY <1>0, <1>1, <2>1 DEF SaveInv, Busy
  <2>. QED
    BY <2>2 DEF Published
<1>4. \A i \in {path', on_disk'} : i # 0 => Published(i)'
  <2>1. Published(on_disk) \/ on_disk = 0
    BY DEF IInv
  <2>. QED
    BY <1>0, <1>2, <1>3, <2>1 DEF Published
<1>5. ASSUME NEW r \in Processes
      PROVE  SaveInv(r)'
  BY <1>0, <1>1 DEF IInv, SaveInv, Busy
<1>6. ASSUME NEW l \in Loaders
      PROVE  LoadInv(l)'
  <2>1. LoadInv(l)
    BY DEF IInv
  <2>. QED
    BY <1>0, <1>2, <2>1, LoadsStay
<1>. QED
  BY <1>4, <1>5, <1>6 DEF IInv

\* A save that ends without a rename publishes nothing and disturbs nothing.
LEMMA EndingKeeps ==
  ASSUME IInv, PathTypeOK', NEW p \in Processes, Fail(p) \/ Kill(p)
  PROVE  IInv'
<1>0. /\ PathTypeOK
      /\ UNCHANGED <<created, inode, path, on_disk, loaded>>
  BY DEF IInv, Fail, Kill
<1>1. ~Busy(p)' /\ \A r \in Processes : r # p => save'[r] = save[r]
  BY DEF IInv, PathTypeOK, Fail, Kill, Busy, Idle
<1>2. ASSUME NEW i, Published(i)
      PROVE  Published(i)' /\ inode'[i] = inode[i]
  BY <1>0, <1>1, <1>2 DEF Published, Busy
<1>3. \A i \in {path', on_disk'} : i # 0 => Published(i)'
  BY <1>0, <1>2 DEF IInv
<1>4. ASSUME NEW r \in Processes
      PROVE  SaveInv(r)'
  BY <1>0, <1>1 DEF IInv, SaveInv, Busy
<1>5. ASSUME NEW l \in Loaders
      PROVE  LoadInv(l)'
  <2>1. LoadInv(l)
    BY DEF IInv
  <2>. QED
    BY <1>0, <1>2, <2>1, LoadsStay
<1>. QED
  BY <1>3, <1>4, <1>5 DEF IInv

\* A power loss cuts unsynced files only, and none of those is published.
LEMMA PowerLossKeeps ==
  ASSUME IInv, PathTypeOK', PowerLoss
  PROVE  IInv'
<1>0. PathTypeOK /\ created' = created
  BY DEF IInv, PowerLoss
<1>1. \A r \in Processes : ~Busy(r)'
  BY DEF PowerLoss, Busy, Idle
<1>2. ASSUME NEW i, Published(i)
      PROVE  Published(i)'
  <2>1. i \in Inodes
    BY <1>0, <1>2, MaxSavesAssumption DEF Published, Inodes, PathTypeOK
  <2>2. inode'[i] = inode[i]
    BY <1>2, <2>1 DEF PowerLoss, Published
  <2>. QED
    BY <1>0, <1>1, <1>2, <2>2 DEF Published
<1>3. \A i \in {path', on_disk'} : i # 0 => Published(i)'
  BY <1>2 DEF IInv, PowerLoss
<1>4. \A r \in Processes : SaveInv(r)'
  BY <1>1 DEF SaveInv
<1>5. \A l \in Loaders : LoadInv(l)'
  BY DEF PowerLoss, LoadInv, NotLoaded
<1>. QED
  BY <1>3, <1>4, <1>5 DEF IInv

\* A load takes what the path names, which is published.
LEMMA LoadingKeeps ==
  ASSUME IInv, PathTypeOK', NEW l \in Loaders,
         \/ l \in Networks /\ LoadNetwork(l)
         \/ l \in Streets /\ (ReadSource(l) \/ LoadStreets(l))
         \/ Drop(l)
  PROVE  IInv'
<1>0. /\ PathTypeOK
      /\ UNCHANGED <<created, inode, path, on_disk, save>>
  BY DEF IInv, LoadNetwork, ReadSource, LoadStreets, Drop
<1>1. \A k \in Loaders : k # l => loaded'[k] = loaded[k]
  BY DEF IInv, PathTypeOK, LoadNetwork, ReadSource, LoadStreets, Drop
<1>2. ASSUME NEW i
      PROVE  Published(i)' = Published(i)
  BY <1>0 DEF Published, Busy
<1>3. \A i \in {path', on_disk'} : i # 0 => Published(i)'
  BY <1>0, <1>2 DEF IInv
<1>4. \A r \in Processes : SaveInv(r)'
  BY <1>0 DEF IInv, SaveInv, Busy
<1>5. path # 0 => Published(path)
  BY DEF IInv
<1>6. LoadInv(l)'
  <2>1. CASE l \in Networks /\ LoadNetwork(l)
    <3>1. /\ path # 0
          /\ loaded'[l] = [pc |-> "loaded", source |-> inode[path].content,
                           content |-> inode[path].content, inode |-> path]
      BY <1>0, <2>1 DEF LoadNetwork, Whole, PathTypeOK
    <3>. QED
      BY <1>0, <1>2, <1>5, <3>1 DEF LoadInv
  <2>2. CASE l \in Streets /\ ReadSource(l)
    <3>1. loaded'[l].pc = "header"
      BY <1>0, <2>2 DEF ReadSource, PathTypeOK
    <3>. QED
      BY <2>2, <3>1 DEF LoadInv
  <2>3. CASE l \in Streets /\ LoadStreets(l)
    <3>1. /\ path # 0
          /\ loaded'[l].pc = "loaded" /\ loaded'[l].content = inode[path].content
          /\ loaded'[l].inode = path
      BY <1>0, <2>3 DEF LoadStreets, Whole, PathTypeOK
    <3>. QED
      BY <1>0, <1>2, <1>5, <2>3, <3>1 DEF LoadInv
  <2>4. CASE Drop(l)
    <3>1. loaded'[l].pc = "out"
      BY <1>0, <2>4 DEF Drop, PathTypeOK, NotLoaded
    <3>. QED
      BY <3>1 DEF LoadInv
  <2>. QED
    BY <2>1, <2>2, <2>3, <2>4
<1>7. ASSUME NEW k \in Loaders
      PROVE  LoadInv(k)'
  <2>1. CASE k = l
    BY <1>6, <2>1
  <2>2. CASE k # l
    <3>1. LoadInv(k)
      BY DEF IInv
    <3>. QED
      BY <1>0, <1>1, <1>2, <2>2, <3>1 DEF LoadInv
  <2>. QED
    BY <2>1, <2>2
<1>. QED
  BY <1>3, <1>4, <1>7 DEF IInv

LEMMA IInvStep == IInv /\ [PathNext]_pathVars => IInv'
<1>. SUFFICES ASSUME IInv, [PathNext]_pathVars PROVE IInv'
  OBVIOUS
<1>0. PathTypeOK'
  BY TypeStep DEF IInv
<1>1. ASSUME NEW p \in Processes, SaveStep(p)
      PROVE  IInv'
  BY <1>0, <1>1, CreateKeeps, WritingKeeps, RenameKeeps, EndingKeeps DEF SaveStep
<1>2. CASE Settle
  BY <1>0, <1>2 DEF Settle, IInv, Published, SaveInv, LoadInv, Busy
<1>3. CASE PowerLoss
  BY <1>0, <1>3, PowerLossKeeps
<1>4. CASE \/ \E l \in Networks : LoadNetwork(l)
           \/ \E l \in Streets : ReadSource(l) \/ LoadStreets(l)
           \/ \E l \in Loaders : Drop(l)
  BY <1>0, <1>4, LoadingKeeps DEF Loaders
<1>5. CASE UNCHANGED pathVars
  BY <1>0, <1>5 DEF pathVars, IInv, Published, SaveInv, LoadInv, Busy
<1>. QED
  BY <1>1, <1>2, <1>3, <1>4, <1>5 DEF PathNext

LEMMA IInvAlways == PathSpec => []IInv
<1>. QED
  BY IInvInit, IInvStep, PTL DEF PathSpec

\* Every variable keeps its type, for every value of the constants.
THEOREM TypeCorrect == PathSpec => []PathTypeOK
<1>1. IInv => PathTypeOK
  BY DEF IInv
<1>. QED
  BY <1>1, IInvAlways, PTL

\* Whatever fails, is killed or loses power, the path names a whole save or
\* nothing (artifact.rs write_container).
THEOREM PathAlwaysWhole == PathSpec => []PathWhole
<1>1. IInv => PathWhole
  BY DEF IInv, PathWhole, Whole, Published
<1>. QED
  BY <1>1, IInvAlways, PTL

\* No save rewrites a file a loaded artifact still maps.
THEOREM HeldFilesUnchanged == PathSpec => []HeldUnchanged
<1>1. IInv => HeldUnchanged
  BY DEF IInv, HeldUnchanged, Whole, LoadInv, Published
<1>. QED
  BY <1>1, IInvAlways, PTL

----------------------------------------------------------------------------
(* Staging files.  Each belongs to the save that created it, or to a       *)
(* killed one, and is a file of its own: a save takes a new inode.          *)

Owned(n) ==
  \/ n \in orphans
  \/ save[n[1]].pc # "idle" /\ save[n[1]].number = n[2] /\ save[n[1]].inode = staging[n]

SInv ==
  /\ \A n \in Names : staging[n] # 0 => staging[n] \in 1..created /\ Owned(n)
  /\ \A m, n \in Names : (staging[m] # 0 /\ staging[m] = staging[n]) => m = n

LEMMA NamesArePairs ==
  ASSUME NEW n \in Names
  PROVE  n[1] \in Processes /\ n[2] \in 0..MaxSaves /\ n = <<n[1], n[2]>>
BY DEF Names

\* A save that starts finds its name free, or frees it.
LEMMA CreateOwns ==
  ASSUME PathTypeOK, SInv, NEW p \in Processes, NEW content \in Artifacts, Create(p, content)
  PROVE  SInv'
<1>0. /\ <<p, sequence[p]>> \in Names /\ save[p].pc = "idle"
      /\ created \in Nat /\ MaxSaves \in Nat /\ staging \in [Names -> 0..MaxSaves]
      /\ save \in [Processes -> [pc : {"idle", "writing", "synced"}, number : 0..MaxSaves, inode : 0..MaxSaves]]
  BY MaxSavesAssumption DEF Create, PathTypeOK, Names
<1>1. CASE staging[<<p, sequence[p]>>] = 0
  <2>1. /\ staging' = [staging EXCEPT ![<<p, sequence[p]>>] = created + 1]
        /\ save' = [save EXCEPT ![p] = [pc |-> "writing", number |-> sequence[p], inode |-> created + 1]]
        /\ created' = created + 1 /\ orphans' = orphans
    BY <1>1 DEF Create
  <2>2. ASSUME NEW n \in Names, staging'[n] # 0
        PROVE  staging'[n] \in 1..created' /\ Owned(n)'
    <3>1. CASE n = <<p, sequence[p]>>
      <4>1. staging'[n] = created + 1 /\ n[1] = p /\ n[2] = sequence[p]
        BY <1>0, <2>1, <3>1
      <4>2. save'[p].pc = "writing" /\ save'[p].number = sequence[p] /\ save'[p].inode = created + 1
        BY <1>0, <2>1
      <4>. QED
        BY <1>0, <2>1, <4>1, <4>2 DEF Owned
    <3>2. CASE n # <<p, sequence[p]>>
      <4>1. staging'[n] = staging[n]
        BY <1>0, <2>1, <3>2
      <4>2. staging[n] \in 1..created /\ Owned(n)
        BY <2>2, <4>1 DEF SInv
      <4>3. CASE n[1] = p
        BY <1>0, <2>1, <4>1, <4>2, <4>3 DEF Owned
      <4>4. CASE n[1] # p
        <5>1. save'[n[1]] = save[n[1]]
          BY <1>0, <2>1, <4>4, NamesArePairs
        <5>. QED
          BY <1>0, <2>1, <4>1, <4>2, <5>1 DEF Owned
      <4>. QED
        BY <4>3, <4>4
    <3>. QED
      BY <3>1, <3>2
  <2>3. ASSUME NEW m \in Names, NEW n \in Names, staging'[m] # 0, staging'[m] = staging'[n]
        PROVE  m = n
    <3>1. \A k \in Names : k # <<p, sequence[p]>> =>
            staging'[k] = staging[k] /\ (staging[k] # 0 => staging[k] # created + 1)
      BY <1>0, <2>1 DEF SInv
    <3>2. staging'[<<p, sequence[p]>>] = created + 1
      BY <1>0, <2>1
    <3>. QED
      BY <1>0, <2>3, <3>1, <3>2 DEF SInv
  <2>. QED
    BY <2>2, <2>3 DEF SInv
<1>2. CASE staging[<<p, sequence[p]>>] # 0
  <2>1. /\ staging' = [staging EXCEPT ![<<p, sequence[p]>>] = 0]
        /\ orphans' = orphans \ {<<p, sequence[p]>>}
        /\ UNCHANGED <<created, save>>
    BY <1>2 DEF Create
  <2>2. \A n \in Names : staging'[n] # 0 => n # <<p, sequence[p]>> /\ staging'[n] = staging[n]
    BY <1>0, <2>1
  <2>. QED
    BY <1>0, <2>1, <2>2 DEF SInv, Owned
<1>. QED
  BY <1>1, <1>2

\* A rename and a failure take the name away with the save.
LEMMA LeavingOwns ==
  ASSUME PathTypeOK, SInv, NEW p \in Processes, Rename(p) \/ Fail(p)
  PROVE  SInv'
<1>0. /\ staging \in [Names -> 0..MaxSaves] /\ save \in [Processes -> [pc : {"idle", "writing", "synced"}, number : 0..MaxSaves, inode : 0..MaxSaves]]
      /\ <<p, save[p].number>> \in Names
  BY DEF PathTypeOK, Names
<1>1. /\ staging' = [staging EXCEPT ![<<p, save[p].number>>] = 0]
      /\ save' = [save EXCEPT ![p] = Idle]
      /\ UNCHANGED <<created, orphans>>
  BY DEF Rename, Fail
<1>2. \A n \in Names : staging'[n] # 0 => n # <<p, save[p].number>> /\ staging'[n] = staging[n]
  BY <1>0, <1>1
<1>3. ASSUME NEW n \in Names, staging'[n] # 0
      PROVE  staging'[n] \in 1..created' /\ Owned(n)'
  <2>1. staging[n] \in 1..created /\ Owned(n) /\ staging'[n] = staging[n] /\ n # <<p, save[p].number>>
    BY <1>2, <1>3 DEF SInv
  <2>2. CASE n[1] = p
    <3>1. n \in orphans
      BY <2>1, <2>2, NamesArePairs DEF Owned
    <3>. QED
      BY <1>1, <2>1, <3>1 DEF Owned
  <2>3. CASE n[1] # p
    <3>1. save'[n[1]] = save[n[1]]
      BY <1>0, <1>1, <2>3, NamesArePairs
    <3>. QED
      BY <1>1, <2>1, <3>1 DEF Owned
  <2>. QED
    BY <2>2, <2>3
<1>. QED
  BY <1>2, <1>3 DEF SInv

\* The names of killed saves are orphans from then on.
LEMMA KillOwns ==
  ASSUME PathTypeOK, SInv, NEW Killed \in SUBSET Processes,
         orphans' = orphans \cup UNION {Left(p) : p \in Killed},
         \A p \in Processes \ Killed : save'[p] = save[p],
         UNCHANGED <<staging, created>>
  PROVE  SInv'
<1>1. ASSUME NEW n \in Names, staging[n] # 0
      PROVE  staging'[n] \in 1..created' /\ Owned(n)'
  <2>1. staging[n] \in 1..created /\ Owned(n)
    BY <1>1 DEF SInv
  <2>2. CASE n \in orphans
    BY <2>1, <2>2 DEF Owned
  <2>3. CASE n \notin orphans /\ n[1] \in Killed
    <3>1. n \in Left(n[1])
      BY <2>1, <2>3, NamesArePairs DEF Owned, Left
    <3>2. n \in orphans'
      BY <2>3, <3>1
    <3>. QED
      BY <2>1, <3>2 DEF Owned
  <2>4. CASE n \notin orphans /\ n[1] \notin Killed
    <3>1. save'[n[1]] = save[n[1]]
      BY <2>4, NamesArePairs
    <3>. QED
      BY <2>1, <2>4, <3>1 DEF Owned
  <2>. QED
    BY <2>2, <2>3, <2>4
<1>. QED
  BY <1>1 DEF SInv

\* Writing and syncing keep the save's name and inode.
LEMMA WritingOwns ==
  ASSUME PathTypeOK, SInv, NEW p \in Processes, Write(p) \/ Sync(p)
  PROVE  SInv'
<1>1. /\ UNCHANGED <<staging, created, orphans>>
      /\ save' = save \/ save' = [save EXCEPT ![p].pc = "synced"]
      /\ save[p].pc # "idle"
  BY DEF Write, Sync
<1>2. ASSUME NEW r \in Processes, save[r].pc # "idle"
      PROVE  save'[r].pc # "idle" /\ save'[r].number = save[r].number /\ save'[r].inode = save[r].inode
  <2>1. save \in [Processes -> [pc : {"idle", "writing", "synced"}, number : 0..MaxSaves, inode : 0..MaxSaves]]
    BY DEF PathTypeOK
  <2>2. CASE save' = save
    BY <1>2, <2>2
  <2>3. CASE save' = [save EXCEPT ![p].pc = "synced"]
    <3>1. save'[r] = IF r = p THEN [save[p] EXCEPT !.pc = "synced"] ELSE save[r]
      BY <2>1, <2>3
    <3>. QED
      BY <1>2, <2>1, <3>1
  <2>. QED
    BY <1>1, <2>2, <2>3
<1>3. ASSUME NEW n \in Names, Owned(n)
      PROVE  Owned(n)'
  BY <1>1, <1>2, <1>3, NamesArePairs DEF Owned
<1>. QED
  BY <1>1, <1>3 DEF SInv

LEMMA SInvStep == PathTypeOK /\ SInv /\ [PathNext]_pathVars => SInv'
<1>. SUFFICES ASSUME PathTypeOK, SInv, [PathNext]_pathVars PROVE SInv'
  OBVIOUS
<1>1. ASSUME NEW p \in Processes, Kill(p)
      PROVE  SInv'
  <2>0. {p} \in SUBSET Processes /\ UNION {Left(r) : r \in {p}} = Left(p)
    OBVIOUS
  <2>1. /\ orphans' = orphans \cup Left(p)
        /\ UNCHANGED <<staging, created>>
    BY <1>1 DEF Kill
  <2>2. \A r \in Processes \ {p} : save'[r] = save[r]
    BY <1>1 DEF Kill, PathTypeOK
  <2>. QED
    BY <2>0, <2>1, <2>2, KillOwns
<1>2. ASSUME NEW p \in Processes, SaveStep(p)
      PROVE  SInv'
  BY <1>1, <1>2, CreateOwns, WritingOwns, LeavingOwns DEF SaveStep
<1>3. CASE PowerLoss
  <2>1. /\ orphans' = orphans \cup UNION {Left(r) : r \in Processes}
        /\ UNCHANGED <<staging, created>>
    BY <1>3 DEF PowerLoss
  <2>. QED
    BY <2>1, KillOwns
<1>4. CASE \/ Settle
           \/ \E l \in Networks : LoadNetwork(l)
           \/ \E l \in Streets : ReadSource(l) \/ LoadStreets(l)
           \/ \E l \in Loaders : Drop(l)
           \/ UNCHANGED pathVars
  <2>1. UNCHANGED <<staging, created, orphans, save>>
    BY <1>4 DEF Settle, LoadNetwork, ReadSource, LoadStreets, Drop, pathVars
  <2>. QED
    BY <2>1 DEF SInv, Owned
<1>. QED
  BY <1>2, <1>3, <1>4 DEF PathNext

\* Whatever fails, is killed or loses power, the path names a whole artifact or
\* nothing, and only a killed save leaves its staging file behind.
THEOREM SavesAreWhole == PathSpec => []SavesWhole
<1>1. PathInit => SInv
  BY DEF PathInit, SInv
<1>2. SInv => StagingOwned
  BY DEF SInv, StagingOwned, Owned
<1>3. PathSpec => []SInv
  BY <1>1, SInvStep, TypeCorrect, PTL DEF PathSpec
<1>4. PathSpec => []StagingOwned
  BY <1>2, <1>3, PTL
<1>. QED
  BY <1>4, PathAlwaysWhole, PTL DEF SavesWhole
=============================================================================
