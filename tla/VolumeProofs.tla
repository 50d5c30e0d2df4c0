---------------------------- MODULE VolumeProofs ----------------------------
(***************************************************************************)
(* Which partition the file system code works on and where its blocks are, *)
(* for every partition map and every set of file systems.                  *)
(***************************************************************************)
EXTENDS Volume, TLAPS

OnFs == {"mounted", "indir1", "indir2"}

(* part_t is what part_open found for the device and number it was called  *)
(* with, and nothing while part_open runs.                                 *)
PartIsLocated ==
    /\ target \in Targets \/ vpc = "idle"
    /\ part.valid \in BOOLEAN
    /\ vpc \in {"disk_open", "part_table"} => part = NoPart
    /\ part.valid =>
          /\ part.at \in Targets
          /\ \E p \in Located(part.at[1], part.at[2]) : part.start = p.start /\ part.len = p.len
    /\ vpc \in {"mount"} \cup OnFs => part.valid /\ part.at = target

RootIsMounted ==
    /\ seen \subseteq DOMAIN Fs
    /\ vpc \in OnFs =>
          root \in seen /\ root[1] = part.at[1] /\ Place(root).start = part.start

Looking ==
    /\ vpc \in {"indir1", "indir2"} =>
          look.node \in Nodes /\ look.fb \in Fileblocks /\ look.fb[1] \in {"ind", "dbl"}
    /\ vpc = "indir2" => look.fb[1] = "dbl"

(* Nothing of what BlockMapsRightUnlessShared excludes has happened. *)
Unshared == (\A s, t \in seen : s # t => Fs[s].blksz # Fs[t].blksz) /\ ~torn

(* A cache that has a number holds that block of a file system with blocks *)
(* of its size.                                                            *)
CacheOK(c) ==
    c.blkno # -1 => \E s \in seen : c.size = Fs[s].blksz /\ c.data = <<s, c.blkno>>

Caches ==
    Unshared =>
        /\ CacheOK(indir1) /\ CacheOK(indir2)
        /\ vpc = "indir2" => indir1.data = <<root, Fs[root].double[look.node]>>
        /\ BlockMapsRight

OpenType == open \in [Devices -> Nat] /\ torn \in BOOLEAN

VInv == OpenType /\ PartIsLocated /\ RootIsMounted /\ Looking /\ Caches /\ OneInstance

-----------------------------------------------------------------------------
(* Lemmas about the maps. *)

(* A file system is known by the entry of the map it begins at. *)
LEMMA RootByStart ==
    ASSUME NEW r \in DOMAIN Fs, NEW i \in DOMAIN Maps[r[1]].entry, i # 0,
           Place(<<r[1], i>>).start = Place(r).start
    PROVE  r = <<r[1], i>>
  <1>1. i = r[2]
    BY VolumeAssumption
  <1>2. r \in Devices \X Nat
    BY VolumeAssumption
  <1> QED
    BY <1>1, <1>2

(* read_mac_partition takes the entry a number means; the blocks its loop  *)
(* comes to are all those before, so the first bootable one is the first   *)
(* of the whole map.                                                       *)
LEMMA MacFindsNamed ==
    ASSUME NEW d \in Devices, NEW n \in Nat, Maps[d].scheme = "mac",
           NEW p \in read_mac_partition(Maps[d], n)
    PROVE  \E i \in DOMAIN Maps[d].entry :
               /\ i # 0 /\ p = Region(Maps[d].entry[i], Maps[d].secsize)
               /\ Named(<<d, n>>) = <<d, i>>
  <1> DEFINE m == Maps[d]
             hit == { i \in InMap(m) : i = n \/ (n = 0 /\ m.entry[i].boot) }
             boot == { i \in DOMAIN m.entry : m.entry[i].boot }
  <1>1. /\ m.map_count \in Nat /\ DOMAIN m.entry \subseteq Nat \ {0}
    BY MapAssumption DEF Devices
  <1>2. PICK i \in hit : (\A k \in hit : i <= k) /\ p = Region(m.entry[i], m.secsize)
    BY DEF read_mac_partition
  <1>3. /\ i \in DOMAIN m.entry /\ i \in Nat /\ i # 0
        /\ \A j \in DOMAIN m.entry : j <= i => j \in InMap(m)
    BY <1>1, <1>2 DEF InMap
  <1>4. CASE n # 0
    BY <1>2, <1>3, <1>4 DEF Named
  <1>5. CASE n = 0
    <2>1. i \in boot
      BY <1>2, <1>3, <1>5
    <2>2. ASSUME NEW j \in boot PROVE i <= j
      <3>1. j \in Nat
        BY <1>1
      <3>2. CASE j <= i
        BY <1>2, <1>3, <1>5, <3>2
      <3> QED
        BY <1>3, <3>1, <3>2
    <2>3. \A k \in boot : (\A j \in boot : k <= j) => k = i
      BY <1>1, <1>3, <2>1, <2>2
    <2>4. (CHOOSE k \in boot : \A j \in boot : k <= j) = i
      BY <2>1, <2>2, <2>3
    <2> QED
      BY <1>2, <1>3, <1>5, <2>4 DEF Named
  <1> QED
    BY <1>4, <1>5

LEMMA DosFindsNamed ==
    ASSUME NEW d \in Devices, NEW n \in Nat, Maps[d].scheme = "dos",
           NEW p \in read_dos_partition(Maps[d], n), Addressable(<<d, n>>)
    PROVE  n \in DOMAIN Maps[d].entry /\ n # 0 /\ p.start = Place(<<d, n>>).start
  <1>1. n # 0 /\ Place(<<d, n>>).start < Width
    BY DEF Addressable
  <1>2. n \in 0 .. 3 /\ DOMAIN Maps[d].entry = 0 .. 4
    BY MapAssumption DEF read_dos_partition, Devices
  <1>3. n \in DOMAIN Maps[d].entry
    BY <1>2
  <1> DEFINE r == Region(Maps[d].entry[n], SECTOR_SIZE)
  <1>4. Place(<<d, n>>) = r /\ r.start = Maps[d].entry[n].start * SECTOR_SIZE
    BY DEF Place, Region
  <1>5. r.start \in Nat
    <2>1. Maps[d].entry[n].start \in Nat /\ SECTOR_SIZE \in Nat
      BY <1>3, MapAssumption DEF Devices
    <2> QED
      BY <1>4, <2>1
  <1>6. p.start = r.start % Width
    BY <1>2 DEF read_dos_partition
  <1> QED
    BY <1>1, <1>3, <1>4, <1>5, <1>6, MapAssumption

(* part_open finds the partition that was named, or none at all. *)
LEMMA FoundIsNamed ==
    ASSUME NEW t \in Targets, NEW p \in Located(t[1], t[2]), Addressable(t),
           NEW r \in DOMAIN Fs, r[1] = t[1], Place(r).start = p.start
    PROVE  r = Named(t)
  <1>1. t[1] \in Devices /\ t[2] \in Nat /\ t = <<t[1], t[2]>>
    BY VolumeAssumption
  <1>2. CASE Maps[t[1]].scheme = "mac"
    <2>1. p \in read_mac_partition(Maps[t[1]], t[2])
      BY <1>2 DEF Located
    <2>2. PICK i \in DOMAIN Maps[t[1]].entry :
               /\ i # 0 /\ p = Region(Maps[t[1]].entry[i], Maps[t[1]].secsize)
               /\ Named(<<t[1], t[2]>>) = <<t[1], i>>
      BY <1>1, <1>2, <2>1, MacFindsNamed
    <2>3. Place(<<t[1], i>>) = p
      BY <1>2, <2>2 DEF Place
    <2> QED
      BY <1>1, <2>2, <2>3, RootByStart
  <1>3. CASE Maps[t[1]].scheme = "dos"
    <2>1. p \in read_dos_partition(Maps[t[1]], t[2])
      BY <1>3 DEF Located
    <2>2. t[2] \in DOMAIN Maps[t[1]].entry /\ t[2] # 0 /\ p.start = Place(<<t[1], t[2]>>).start
      BY <1>1, <1>3, <2>1, DosFindsNamed
    <2>3. r = <<t[1], t[2]>>
      BY <2>2, RootByStart
    <2> QED
      BY <1>1, <2>2, <2>3 DEF Named
  <1>4. CASE Maps[t[1]].scheme \notin {"mac", "dos"}
    BY <1>4 DEF Located
  <1> QED
    BY <1>2, <1>3, <1>4

-----------------------------------------------------------------------------
(* Lemmas about the caches. *)

LEMMA FsShape ==
    ASSUME NEW t \in DOMAIN Fs
    PROVE  /\ Blocks(t) \subseteq Nat
           /\ \A n \in Nodes : Fs[t].indir[n] \in Blocks(t) /\ Fs[t].double[n] \in Blocks(t)
           /\ \A b \in Blocks(t), i \in Entry : Fs[t].table[b][i] \in Nat
           /\ \A n \in Nodes, i \in Entry :
                Fs[t].double[n] # 0 => Fs[t].table[Fs[t].double[n]][i] \in Blocks(t)
  <1>1. Blocks(t) \subseteq Nat
    BY DEF Blocks
  <1>2. /\ Fs[t].indir \in [Nodes -> Blocks(t)] /\ Fs[t].double \in [Nodes -> Blocks(t)]
        /\ Fs[t].table \in [Blocks(t) -> [Entry -> Nat]]
        /\ \A n \in Nodes, i \in Entry :
             Fs[t].double[n] # 0 => Fs[t].table[Fs[t].double[n]][i] \in Blocks(t)
    BY VolumeAssumption
  <1> QED
    BY <1>1, <1>2

LEMMA FileblockShape ==
    ASSUME NEW fb \in Fileblocks
    PROVE  /\ fb[1] = "ind" => fb[2] \in Entry
           /\ fb[1] = "dbl" => fb[2] \in Entry /\ fb[3] \in Entry
           /\ fb[1] \in {"dir", "triple", "ind", "dbl"}
  BY VolumeAssumption

(* A cache serves a block of the mounted file system: had it the number    *)
(* from another, that one would have blocks of the same size.              *)
LEMMA ServedIsRight ==
    ASSUME RootIsMounted, vpc \in OnFs, Unshared, NEW c, CacheOK(c), NEW b \in Nat,
           NEW e \in CacheServes(c, b)
    PROVE  e.blkno = b /\ e.size = Fs[root].blksz /\ e.data = <<root, b>>
  <1>1. root \in seen
    BY DEF RootIsMounted
  <1>2. CASE Ready(c).blkno = b
    <2>1. e = Ready(c)
      BY <1>2 DEF CacheServes
    <2>2. c.size = Fs[root].blksz /\ e = c
      BY <1>2, <2>1 DEF Ready, Fresh
    <2>3. PICK s \in seen : c.size = Fs[s].blksz /\ c.data = <<s, b>>
      BY <1>2, <2>1, <2>2 DEF CacheOK
    <2>4. s = root
      BY <1>1, <2>2, <2>3 DEF Unshared
    <2> QED
      BY <1>2, <2>1, <2>2, <2>3, <2>4
  <1>3. CASE Ready(c).blkno # b
    BY <1>3 DEF CacheServes
  <1> QED
    BY <1>2, <1>3

(* A cache that fails without a short read is empty or as it was. *)
LEMMA FailedIsRight ==
    ASSUME NEW c, CacheOK(c), NEW b, NEW e \in CacheFails(c, b), e \notin ShortRead(c, b)
    PROVE  CacheOK(e)
  <1>1. CASE e \in NoMemory(c)
    BY <1>1 DEF NoMemory, Empty, CacheOK
  <1>2. CASE e \in Beyond(c, b)
    <2>1. e = c \/ e = Fresh(Fs[root].blksz)
      BY <1>2 DEF Beyond, Ready
    <2> QED
      BY <2>1 DEF Fresh, CacheOK
  <1> QED
    BY <1>1, <1>2 DEF CacheFails

(* Steps that leave the caches alone. *)
LEMMA CachesKept ==
    ASSUME Caches, UNCHANGED <<indir1, indir2, torn>>, seen \subseteq seen', vpc' # "indir2",
           got' \in {got, NoGot}
    PROVE  Caches'
  <1> SUFFICES ASSUME Unshared'
               PROVE  CacheOK(indir1)' /\ CacheOK(indir2)' /\ BlockMapsRight'
    BY DEF Caches
  <1>1. Unshared
    BY DEF Unshared
  <1>2. CacheOK(indir1) /\ CacheOK(indir2) /\ BlockMapsRight
    BY <1>1 DEF Caches
  <1>3. CacheOK(indir1)' /\ CacheOK(indir2)'
    BY <1>2 DEF CacheOK
  <1>4. BlockMapsRight'
    BY <1>2 DEF BlockMapsRight
  <1> QED
    BY <1>3, <1>4

-----------------------------------------------------------------------------
LEMMA VInit == Init => VInv
  <1> SUFFICES ASSUME Init PROVE VInv
    OBVIOUS
  <1>1. part.valid = FALSE /\ part = NoPart
    BY DEF Init, NoPart
  <1>2. OpenType
    BY DEF Init, OpenType
  <1>3. OneInstance
    BY <1>1 DEF Init, OneInstance
  <1>4. PartIsLocated
    BY <1>1 DEF Init, PartIsLocated, OnFs
  <1>5. RootIsMounted /\ Looking
    BY DEF Init, RootIsMounted, Looking, OnFs
  <1>6. Caches
    BY DEF Init, Caches, CacheOK, Empty, BlockMapsRight
  <1> QED
    BY <1>2, <1>3, <1>4, <1>5, <1>6 DEF VInv

(* part_open. *)
LEMMA VOpenSame == ASSUME VInv, NEW t \in Targets, OpenSame(t) PROVE VInv'
  <1>1. /\ vpc = "idle" /\ vpc' = "mount" /\ target' = t /\ part.valid /\ part.at = t
        /\ UNCHANGED <<open, part, root, indir1, indir2, look, got, seen, torn>>
    BY DEF OpenSame, cacheVars, histVars
  <1>2. OpenType' /\ RootIsMounted' /\ Looking'
    BY <1>1 DEF VInv, OpenType, RootIsMounted, Looking, OnFs
  <1>3. PartIsLocated'
    BY <1>1 DEF VInv, PartIsLocated
  <1>4. Caches'
    BY <1>1, CachesKept DEF VInv
  <1>5. OneInstance'
    BY <1>1 DEF VInv, OneInstance
  <1> QED
    BY <1>2, <1>3, <1>4, <1>5 DEF VInv

LEMMA VOpenOther == ASSUME VInv, NEW t \in Targets, OpenOther(t) PROVE VInv'
  <1>1. /\ vpc = "idle" /\ vpc' = "disk_open" /\ target' = t /\ part' = NoPart
        /\ open' = IF part.valid THEN Closed(open, part.at[1]) ELSE open
        /\ UNCHANGED <<root, indir1, indir2, look, got, seen, torn>>
    BY DEF OpenOther, cacheVars, histVars
  <1>2. part'.valid = FALSE
    BY <1>1 DEF NoPart
  <1>3. part.valid => part.at[1] \in Devices
    BY VolumeAssumption DEF VInv, PartIsLocated
  <1>4. open' \in [Devices -> Nat] /\ \A d \in Devices : open'[d] = 0
    <2>1. open \in [Devices -> Nat]
      BY DEF VInv, OpenType
    <2>2. CASE part.valid
      <3>1. open' = [open EXCEPT ![part.at[1]] = @ - 1]
        BY <1>1, <2>2 DEF Closed
      <3>2. \A d \in Devices : open[d] = IF part.at[1] = d THEN 1 ELSE 0
        BY <1>1, <2>2 DEF VInv, OneInstance
      <3> QED
        BY <1>3, <2>1, <2>2, <3>1, <3>2
    <2>3. CASE ~part.valid
      <3>1. \A d \in Devices : open[d] = 0
        BY <1>1, <2>3 DEF VInv, OneInstance
      <3> QED
        BY <1>1, <2>1, <2>3, <3>1
    <2> QED
      BY <2>2, <2>3
  <1>5. OpenType' /\ OneInstance'
    BY <1>1, <1>2, <1>4 DEF VInv, OpenType, OneInstance
  <1>6. PartIsLocated'
    BY <1>1, <1>2 DEF PartIsLocated, OnFs
  <1>7. RootIsMounted' /\ Looking'
    BY <1>1 DEF VInv, RootIsMounted, Looking, OnFs
  <1>8. Caches'
    BY <1>1, CachesKept DEF VInv
  <1> QED
    BY <1>5, <1>6, <1>7, <1>8 DEF VInv

LEMMA VDiskOpen == ASSUME VInv, DiskOpen PROVE VInv'
  <1>1. /\ vpc = "disk_open" /\ part = NoPart /\ target \in Targets
        /\ UNCHANGED <<target, part, root, indir1, indir2, seen, torn>>
    BY DEF DiskOpen, cacheVars, histVars, VInv, PartIsLocated
  <1>2. ~part.valid /\ target[1] \in Devices /\ open \in [Devices -> Nat]
    BY <1>1, VolumeAssumption DEF NoPart, VInv, OpenType
  <1>3. \A d \in Devices : open[d] = 0
    BY <1>1, <1>2 DEF VInv, OneInstance
  <1>4. \/ /\ open' = [open EXCEPT ![target[1]] = @ + 1]
           /\ vpc' = "part_table" /\ UNCHANGED <<look, got>>
        \/ open' = open /\ vpc' = "idle" /\ got' = NoGot
    BY DEF DiskOpen, Opened, Return
  <1>5. OpenType' /\ OneInstance'
    BY <1>1, <1>2, <1>3, <1>4 DEF VInv, OpenType, OneInstance
  <1>6. PartIsLocated'
    BY <1>1, <1>2, <1>4 DEF VInv, PartIsLocated, OnFs
  <1>7. RootIsMounted' /\ Looking'
    BY <1>1, <1>4 DEF VInv, RootIsMounted, Looking, OnFs
  <1>8. Caches'
    BY <1>1, <1>4, CachesKept DEF VInv
  <1> QED
    BY <1>5, <1>6, <1>7, <1>8 DEF VInv

LEMMA VPartTable == ASSUME VInv, PartTable PROVE VInv'
  <1>1. /\ vpc = "part_table" /\ part = NoPart /\ target \in Targets
        /\ UNCHANGED <<target, root, indir1, indir2, seen, torn>>
    BY DEF PartTable, cacheVars, histVars, VInv, PartIsLocated
  <1>2. ~part.valid /\ target[1] \in Devices /\ open \in [Devices -> Nat]
    BY <1>1, VolumeAssumption DEF NoPart, VInv, OpenType
  <1>3. \A d \in Devices : open[d] = IF target[1] = d THEN 1 ELSE 0
    BY <1>1, <1>2 DEF VInv, OneInstance
  <1>4. RootIsMounted' /\ Looking' /\ Caches'
    <2>1. vpc' \in {"idle", "mount"} /\ got' \in {got, NoGot}
      BY DEF PartTable, Return
    <2>2. RootIsMounted' /\ Looking'
      BY <1>1, <2>1 DEF VInv, RootIsMounted, Looking, OnFs
    <2> QED
      BY <1>1, <2>1, <2>2, CachesKept DEF VInv
  <1>5. CASE open' = Closed(open, target[1]) /\ Return /\ UNCHANGED part
    <2>1. vpc' = "idle" /\ open' = [open EXCEPT ![target[1]] = @ - 1] /\ part' = part
      BY <1>5 DEF Return, Closed
    <2>2. OpenType' /\ OneInstance'
      BY <1>1, <1>2, <1>3, <2>1 DEF VInv, OpenType, OneInstance
    <2>3. PartIsLocated'
      BY <1>1, <1>2, <2>1 DEF VInv, PartIsLocated, OnFs
    <2> QED
      BY <1>4, <2>2, <2>3 DEF VInv
  <1>6. CASE ~(open' = Closed(open, target[1]) /\ Return /\ UNCHANGED part)
    <2>1. PICK p \in Located(target[1], target[2]) :
            part' = [valid |-> TRUE, at |-> target, start |-> p.start, len |-> p.len]
      BY <1>6 DEF PartTable
    <2>2. vpc' = "mount" /\ open' = open
      BY <1>6 DEF PartTable
    <2>3. part'.valid = TRUE /\ part'.at = target /\ part'.start = p.start /\ part'.len = p.len
      BY <2>1
    <2>4. OpenType' /\ OneInstance'
      BY <1>1, <1>2, <1>3, <2>2, <2>3 DEF VInv, OpenType, OneInstance
    <2>5. PartIsLocated'
      BY <1>1, <2>2, <2>3 DEF PartIsLocated
    <2> QED
      BY <1>4, <2>4, <2>5 DEF VInv
  <1> QED
    BY <1>5, <1>6

(* Steps that return to file.c, or go on, with part_t as it is. *)
LEMMA PartKept ==
    ASSUME VInv, UNCHANGED <<target, open, part, torn>>, vpc \in {"mount"} \cup OnFs,
           vpc' \in {"idle"} \cup OnFs
    PROVE  OpenType' /\ OneInstance' /\ PartIsLocated'
  <1>1. OpenType'
    BY DEF VInv, OpenType
  <1>2. OneInstance'
    BY DEF VInv, OneInstance, OnFs
  <1>3. PartIsLocated'
    BY DEF VInv, PartIsLocated, OnFs
  <1> QED
    BY <1>1, <1>2, <1>3

(* ext2fs_mount. *)
LEMMA VMountFails == ASSUME VInv, MountNoMem \/ MountFails PROVE VInv'
  <1>1. /\ vpc = "mount" /\ vpc' = "idle" /\ got' = NoGot
        /\ UNCHANGED <<target, open, part, indir1, indir2, seen, torn>>
    BY DEF MountNoMem, MountFails, Return, cacheVars, histVars
  <1>2. OpenType' /\ OneInstance' /\ PartIsLocated'
    BY <1>1, PartKept
  <1>3. RootIsMounted' /\ Looking'
    BY <1>1 DEF VInv, RootIsMounted, Looking, OnFs
  <1>4. Caches'
    BY <1>1, CachesKept DEF VInv
  <1> QED
    BY <1>2, <1>3, <1>4 DEF VInv

LEMMA VMount == ASSUME VInv, Mount PROVE VInv'
  <1>1. /\ vpc = "mount" /\ vpc' = "mounted" /\ seen' = seen \cup {root'}
        /\ UNCHANGED <<target, open, part, indir1, indir2, look, got, torn>>
        /\ root' \in DOMAIN Fs /\ root'[1] = part.at[1] /\ Place(root').start = part.start
    BY DEF Mount, cacheVars
  <1>2. OpenType' /\ OneInstance' /\ PartIsLocated'
    BY <1>1, PartKept DEF OnFs
  <1>3. RootIsMounted'
    <2>1. seen' \subseteq DOMAIN Fs
      BY <1>1 DEF VInv, RootIsMounted
    <2> QED
      BY <1>1, <2>1 DEF RootIsMounted, Place
  <1>4. Looking'
    BY <1>1 DEF Looking
  <1>5. Caches'
    BY <1>1, CachesKept DEF VInv
  <1> QED
    BY <1>2, <1>3, <1>4, <1>5 DEF VInv

LEMMA VFinish == ASSUME VInv, Finish PROVE VInv'
  <1>1. /\ vpc = "mounted" /\ vpc' = "idle" /\ got' = NoGot
        /\ UNCHANGED <<target, open, part, root, indir1, indir2, seen, torn>>
    BY DEF Finish, Return, cacheVars, histVars
  <1>2. OpenType' /\ OneInstance' /\ PartIsLocated'
    BY <1>1, PartKept DEF OnFs
  <1>3. RootIsMounted' /\ Looking'
    BY <1>1 DEF VInv, RootIsMounted, Looking, OnFs
  <1>4. Caches'
    BY <1>1, CachesKept DEF VInv
  <1> QED
    BY <1>2, <1>3, <1>4 DEF VInv

(* ext2fs_read_block. *)
LEMMA VLookup == ASSUME VInv, NEW n \in Nodes, NEW fb \in Fileblocks, Lookup(n, fb) PROVE VInv'
  <1>1. /\ vpc = "mounted"
        /\ UNCHANGED <<target, open, part, root, indir1, indir2, seen, torn>>
    BY DEF Lookup, cacheVars, histVars
  <1>2. CASE fb[1] = "dir"
    <2>1. vpc' = "mounted" /\ got' = [at |-> root, node |-> n, fb |-> fb, blk |-> Fs[root].dir[n]]
      BY <1>2 DEF Lookup, Answer
    <2>2. BlockMapsRight'
      <3>1. got'.at = root /\ got'.node = n /\ got'.fb = fb /\ got'.blk = Fs[root].dir[n]
        BY <2>1
      <3> QED
        BY <1>2, <3>1 DEF BlockMapsRight, BlockOf
    <2>3. Caches'
      BY <1>1, <2>1, <2>2 DEF VInv, Caches, Unshared, CacheOK
    <2>4. OpenType' /\ OneInstance' /\ PartIsLocated'
      BY <1>1, <2>1, PartKept DEF OnFs
    <2>5. RootIsMounted' /\ Looking'
      BY <1>1, <2>1 DEF VInv, RootIsMounted, Looking, OnFs, Place
    <2> QED
      BY <2>3, <2>4, <2>5 DEF VInv
  <1>3. CASE fb[1] # "dir"
    <2>1. \/ vpc' = "idle" /\ got' = NoGot
          \/ vpc' = "indir1" /\ look' = [node |-> n, fb |-> fb] /\ fb[1] \in {"ind", "dbl"} /\ got' = got
      BY <1>3, FileblockShape DEF Lookup, Return
    <2>2. OpenType' /\ OneInstance' /\ PartIsLocated'
      BY <1>1, <2>1, PartKept DEF OnFs
    <2>3. RootIsMounted' /\ Looking'
      BY <1>1, <2>1 DEF VInv, RootIsMounted, Looking, OnFs, Place
    <2>4. Caches'
      BY <1>1, <2>1, CachesKept DEF VInv
    <2> QED
      BY <2>2, <2>3, <2>4 DEF VInv
  <1> QED
    BY <1>2, <1>3

(* What the first cache is asked for is a block of the file system, or     *)
(* block 0.                                                                *)
LEMMA IndirBlockShape ==
    ASSUME RootIsMounted, Looking, vpc = "indir1"
    PROVE  IndirBlock \in Blocks(root) /\ IndirBlock \in Nat
  <1>1. root \in DOMAIN Fs /\ look.node \in Nodes
    BY DEF RootIsMounted, Looking, OnFs
  <1> QED
    BY <1>1, FsShape DEF IndirBlock

LEMMA EntryOfCached ==
    ASSUME NEW c, NEW t \in DOMAIN Fs, NEW b \in Blocks(t), c.data = <<t, b>>, NEW i
    PROVE  Entries(c, i) = {Fs[t].table[b][i]}
  <1>1. c.data # None
    BY FsShape, VolumeAssumption
  <1> QED
    BY <1>1 DEF Entries

LEMMA VIndir1 == ASSUME VInv, Indir1 PROVE VInv'
  <1> DEFINE b == IndirBlock
  <1>1. /\ vpc = "indir1" /\ look.fb[1] \in {"ind", "dbl"} /\ look.fb \in Fileblocks
        /\ UNCHANGED <<target, open, part, root, indir2, seen>>
    BY DEF Indir1, VInv, Looking
  <1>2. b \in Nat /\ b \in Blocks(root) /\ root \in seen /\ root \in DOMAIN Fs
    BY <1>1, IndirBlockShape DEF VInv, RootIsMounted, OnFs
  <1> HIDE DEF b
  <1>3. CASE /\ indir1' \in CacheServes(indir1, b)
             /\ IF look.fb[1] = "ind"
                THEN \E e \in Entries(indir1', look.fb[2]) : Answer(look.node, look.fb, e)
                ELSE vpc' = "indir2" /\ UNCHANGED <<look, got>>
             /\ UNCHANGED torn
    <2>1. vpc' \in {"mounted", "indir2"} /\ (vpc' = "indir2" => look.fb[1] = "dbl" /\ look' = look)
      BY <1>1, <1>3 DEF Answer
    <2>2. OpenType' /\ OneInstance' /\ PartIsLocated'
      BY <1>1, <1>3, <2>1, PartKept DEF OnFs
    <2>3. RootIsMounted' /\ Looking'
      BY <1>1, <2>1 DEF VInv, RootIsMounted, Looking, OnFs, Place
    <2>4. ASSUME Unshared'
          PROVE  /\ CacheOK(indir1)' /\ CacheOK(indir2)'
                 /\ vpc' = "indir2" => indir1'.data = <<root, Fs[root].double[look.node]>>
                 /\ BlockMapsRight'
      <3>1. Unshared /\ CacheOK(indir1) /\ CacheOK(indir2) /\ BlockMapsRight
        BY <1>1, <1>3, <2>4 DEF VInv, Caches, Unshared
      <3>2. indir1'.blkno = b /\ indir1'.size = Fs[root].blksz /\ indir1'.data = <<root, b>>
        BY <1>1, <1>2, <1>3, <3>1, ServedIsRight DEF VInv, OnFs
      <3>3. CacheOK(indir1)' /\ CacheOK(indir2)'
        BY <1>1, <1>2, <3>1, <3>2 DEF CacheOK
      <3>4. CASE look.fb[1] = "ind"
        <4>1. Entries(indir1', look.fb[2]) = {Fs[root].table[b][look.fb[2]]}
          BY <1>2, <3>2, EntryOfCached
        <4>2. vpc' = "mounted" /\
              got' = [at |-> root, node |-> look.node, fb |-> look.fb,
                      blk |-> Fs[root].table[b][look.fb[2]]]
          BY <1>3, <3>4, <4>1 DEF Answer
        <4>3. got'.at = root /\ got'.node = look.node /\ got'.fb = look.fb
              /\ got'.blk = Fs[root].table[b][look.fb[2]]
          BY <4>2
        <4>4. b = Fs[root].indir[look.node]
          BY <3>4 DEF b, IndirBlock
        <4>5. BlockMapsRight'
          BY <3>4, <4>3, <4>4 DEF BlockMapsRight, BlockOf
        <4> QED
          BY <3>3, <4>2, <4>5
      <3>5. CASE look.fb[1] # "ind"
        <4>1. vpc' = "indir2" /\ got' = got
          BY <1>3, <3>5
        <4>2. b = Fs[root].double[look.node]
          BY <3>5 DEF b, IndirBlock
        <4>3. BlockMapsRight'
          BY <3>1, <4>1 DEF BlockMapsRight
        <4> QED
          BY <3>2, <3>3, <4>2, <4>3
      <3> QED
        BY <3>4, <3>5
    <2>5. Caches'
      BY <1>1, <2>1, <2>4 DEF Caches
    <2> QED
      BY <2>2, <2>3, <2>5 DEF VInv
  <1>4. CASE /\ indir1' \in CacheFails(indir1, b)
             /\ torn' = (torn \/ indir1' \in ShortRead(indir1, b))
             /\ Return
    <2>1. vpc' = "idle" /\ got' = NoGot
      BY <1>4 DEF Return
    <2>2. OpenType'
      BY <1>1, <1>4 DEF VInv, OpenType
    <2>3. OneInstance' /\ PartIsLocated' /\ RootIsMounted' /\ Looking'
      BY <1>1, <2>1 DEF VInv, OneInstance, PartIsLocated, RootIsMounted, Looking, OnFs
    <2>4. Caches'
      <3> SUFFICES ASSUME Unshared' PROVE CacheOK(indir1)' /\ CacheOK(indir2)'
        BY <2>1 DEF Caches, BlockMapsRight
      <3>1. Unshared /\ indir1' \notin ShortRead(indir1, b)
        BY <1>1, <1>4 DEF Unshared
      <3>2. CacheOK(indir1) /\ CacheOK(indir2)
        BY <3>1 DEF VInv, Caches
      <3>3. \A e \in CacheFails(indir1, b) : e \notin ShortRead(indir1, b) => CacheOK(e)
        BY <3>2, FailedIsRight
      <3> QED
        BY <1>1, <1>4, <3>1, <3>2, <3>3 DEF CacheOK
    <2> QED
      BY <2>2, <2>3, <2>4 DEF VInv
  <1> QED
    BY <1>3, <1>4 DEF Indir1, b

LEMMA VIndir2 == ASSUME VInv, Indir2 PROVE VInv'
  <1>1. /\ vpc = "indir2" /\ look.fb[1] = "dbl" /\ look.fb \in Fileblocks /\ look.node \in Nodes
        /\ UNCHANGED <<target, open, part, root, indir1, seen>>
        /\ root \in seen /\ root \in DOMAIN Fs
    BY DEF Indir2, VInv, Looking, RootIsMounted, OnFs
  <1>2. PICK b \in Entries(indir1, look.fb[2]) :
         \/ /\ indir2' \in CacheServes(indir2, b)
            /\ \E e \in Entries(indir2', look.fb[3]) : Answer(look.node, look.fb, e)
            /\ UNCHANGED torn
         \/ /\ indir2' \in CacheFails(indir2, b)
            /\ torn' = (torn \/ indir2' \in ShortRead(indir2, b))
            /\ Return
    BY DEF Indir2
  <1>3. ASSUME Unshared
        PROVE  /\ b = Fs[root].table[Fs[root].double[look.node]][look.fb[2]] /\ b \in Nat
               /\ Fs[root].double[look.node] # 0 => b \in Blocks(root)
               /\ CacheOK(indir1) /\ CacheOK(indir2)
    <2>1. /\ CacheOK(indir1) /\ CacheOK(indir2)
          /\ indir1.data = <<root, Fs[root].double[look.node]>>
      BY <1>1, <1>3 DEF VInv, Caches
    <2>2. Fs[root].double[look.node] \in Blocks(root) /\ Blocks(root) \subseteq Nat
          /\ look.fb[2] \in Entry
      BY <1>1, FsShape, FileblockShape
    <2>3. Entries(indir1, look.fb[2]) = {Fs[root].table[Fs[root].double[look.node]][look.fb[2]]}
      BY <1>1, <2>1, <2>2, EntryOfCached
    <2> QED
      BY <1>1, <2>1, <2>2, <2>3, FsShape
  <1>4. CASE /\ indir2' \in CacheServes(indir2, b)
             /\ \E e \in Entries(indir2', look.fb[3]) : Answer(look.node, look.fb, e)
             /\ UNCHANGED torn
    <2>1. vpc' = "mounted"
      BY <1>4 DEF Answer
    <2>2. OpenType' /\ OneInstance' /\ PartIsLocated'
      BY <1>1, <1>4, <2>1, PartKept DEF OnFs
    <2>3. RootIsMounted' /\ Looking'
      BY <1>1, <2>1 DEF VInv, RootIsMounted, Looking, OnFs, Place
    <2>4. ASSUME Unshared'
          PROVE  CacheOK(indir1)' /\ CacheOK(indir2)' /\ BlockMapsRight'
      <3>1. Unshared
        BY <1>1, <1>4, <2>4 DEF Unshared
      <3>2. indir2'.blkno = b /\ indir2'.size = Fs[root].blksz /\ indir2'.data = <<root, b>>
        BY <1>1, <1>3, <1>4, <3>1, ServedIsRight DEF VInv, OnFs
      <3>3. CacheOK(indir1)' /\ CacheOK(indir2)'
        BY <1>1, <1>3, <3>1, <3>2 DEF CacheOK
      <3>4. PICK e \in Entries(indir2', look.fb[3]) :
                got' = [at |-> root, node |-> look.node, fb |-> look.fb, blk |-> e]
        BY <1>4 DEF Answer
      <3>5. got'.at = root /\ got'.node = look.node /\ got'.fb = look.fb /\ got'.blk = e
        BY <3>4
      <3>6. Fs[root].double[look.node] # 0 => e = Fs[root].table[b][look.fb[3]]
        BY <1>1, <1>3, <3>1, <3>2, EntryOfCached
      <3>7. BlockMapsRight'
        BY <1>1, <1>3, <3>1, <3>5, <3>6 DEF BlockMapsRight, BlockOf, ThroughHole
      <3> QED
        BY <3>3, <3>7
    <2>5. Caches'
      BY <2>1, <2>4 DEF Caches
    <2> QED
      BY <2>2, <2>3, <2>5 DEF VInv
  <1>5. CASE /\ indir2' \in CacheFails(indir2, b)
             /\ torn' = (torn \/ indir2' \in ShortRead(indir2, b))
             /\ Return
    <2>1. vpc' = "idle" /\ got' = NoGot
      BY <1>5 DEF Return
    <2>2. OpenType'
      BY <1>1, <1>5 DEF VInv, OpenType
    <2>3. OneInstance' /\ PartIsLocated' /\ RootIsMounted' /\ Looking'
      BY <1>1, <2>1 DEF VInv, OneInstance, PartIsLocated, RootIsMounted, Looking, OnFs
    <2>4. Caches'
      <3> SUFFICES ASSUME Unshared' PROVE CacheOK(indir1)' /\ CacheOK(indir2)'
        BY <2>1 DEF Caches, BlockMapsRight
      <3>1. Unshared /\ indir2' \notin ShortRead(indir2, b)
        BY <1>1, <1>5 DEF Unshared
      <3>2. \A e \in CacheFails(indir2, b) : e \notin ShortRead(indir2, b) => CacheOK(e)
        BY <1>3, <3>1, FailedIsRight
      <3> QED
        BY <1>1, <1>3, <1>5, <3>1, <3>2 DEF CacheOK
    <2> QED
      BY <2>2, <2>3, <2>4 DEF VInv
  <1> QED
    BY <1>2, <1>4, <1>5

LEMMA VStep == VInv /\ [Next]_vars => VInv'
  <1> SUFFICES ASSUME VInv, [Next]_vars PROVE VInv'
    OBVIOUS
  <1>1. CASE UNCHANGED vars
    <2>1. UNCHANGED <<vpc, target, open, part, root, indir1, indir2, look, got, seen, torn>>
      BY <1>1 DEF vars, cacheVars, histVars
    <2>2. OpenType' /\ OneInstance' /\ PartIsLocated'
      BY <2>1 DEF VInv, OpenType, OneInstance, PartIsLocated
    <2>3. RootIsMounted' /\ Looking'
      BY <2>1 DEF VInv, RootIsMounted, Looking, Place
    <2>4. Caches'
      BY <2>1 DEF VInv, Caches, Unshared, CacheOK, BlockMapsRight
    <2> QED
      BY <2>2, <2>3, <2>4 DEF VInv
  <1> QED
    BY <1>1, VOpenSame, VOpenOther, VDiskOpen, VPartTable, VMountFails, VMount, VLookup, VIndir1,
       VIndir2, VFinish DEF Next

LEMMA VInvariant == Spec => []VInv
  BY VInit, VStep, PTL DEF Spec

-----------------------------------------------------------------------------
(* The firmware has exactly the device of the static part_t open, once:    *)
(* part_open closes what it replaces, and what it opened when the map has  *)
(* no such partition.                                                      *)
THEOREM InstanceIsOne == Spec => []OneInstance
  <1>1. VInv => OneInstance
    BY DEF VInv
  <1> QED
    BY <1>1, VInvariant, PTL

(* ext2fs.c only ever reads from the partition that was named, for every   *)
(* Mac map and for DOS maps within the reach of their 32 bit sums.         *)
THEOREM ReadsTheNamedPartition == Spec => []ReadsWhatWasOpened
  <1>1. VInv => ReadsWhatWasOpened
    <2> SUFFICES ASSUME VInv, vpc \in OnFs
                 PROVE  part.at = target /\ (Addressable(target) => root = Named(target))
      BY DEF ReadsWhatWasOpened, OnFs
    <2>1. part.valid /\ part.at = target /\ target \in Targets
      BY DEF VInv, PartIsLocated, OnFs
    <2>2. PICK p \in Located(target[1], target[2]) : part.start = p.start
      BY <2>1 DEF VInv, PartIsLocated
    <2>3. root \in DOMAIN Fs /\ root[1] = target[1] /\ Place(root).start = p.start
      BY <2>1, <2>2 DEF VInv, RootIsMounted
    <2> QED
      BY <2>1, <2>3, FoundIsNamed
  <1> QED
    BY <1>1, VInvariant, PTL

(* Where file systems differ in block size and no read of an indirect      *)
(* block came up short, every answer of ext2fs_read_block is the block of  *)
(* the file, whatever the two caches held before, block 0 included; except *)
(* where a sparse file has no indirect block, for which the code reads     *)
(* block 0.                                                                *)
THEOREM BlocksMapRight == Spec => []BlockMapsRightUnlessShared
  <1>1. VInv => BlockMapsRightUnlessShared
    BY DEF VInv, Caches, Unshared, BlockMapsRightUnlessShared
  <1> QED
    BY <1>1, VInvariant, PTL
=============================================================================
