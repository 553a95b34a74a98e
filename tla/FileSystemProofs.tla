-------------------------- MODULE FileSystemProofs --------------------------
(***************************************************************************)
(* Proofs about the file system of module FileSystem: for every number of  *)
(* files, descriptors and blocks, and any number of disks.                 *)
(***************************************************************************)
EXTENDS FileSystem, FiniteSetTheorems, TLAPS

(* The tables of the disk, in memory and in block 0. *)
InodeEntry ==
    [isUsed : BOOLEAN, singleIndirectBlock : Blocks, fileSize : 0..(SIZE_RANGE - 1)]
NameEntry ==
    [isUsed : BOOLEAN, inodeNum : 0..(MAX_FILES - 1), name : Names \cup {NoName}]
FdEntry ==
    [isUsed : BOOLEAN, inodeNum : 0..(MAX_FILES - 1), offset : 0..OFFSET_LIMIT]
InodeTable == [0..(MAX_FILES - 1) -> InodeEntry]
NameTable == [0..(MAX_FILES - 1) -> NameEntry]
FdTable == [0..(MAX_FDS - 1) -> FdEntry]

Superblock ==
    [entry : {0, DISK_BLOCKS}, bitmap : SUBSET Blocks,
     inodes : InodeTable, directory : NameTable \cup {<<>>}]
Image == {image \in [Blocks -> Block \cup Superblock] :
            \A b \in Blocks \ {0} : image[b] \in Block}
Mountable(image) == image[0] \in Superblock /\ image[0].directory \in NameTable

(* Block 0 of the mounted disk may be garbled, of any other it may not. *)
DisksOK ==
    /\ disks = [d \in DOMAIN disks |-> disks[d]]
    /\ \A d \in DOMAIN disks : disks[d] \in Image
    /\ \A d \in DOMAIN disks \ {handle} : Mountable(disks[d])
    /\ readyForUse => handle \in DOMAIN disks

TInv == FTypeOK /\ DisksOK

(* A directory lists an inode once, by a name of its own; the entry of a   *)
(* file without a name is used, yet free for the next file.                *)
Listed(nodes, names) ==
    \A e \in DOMAIN names :
        /\ names[e].isUsed =>
            /\ nodes[names[e].inodeNum].isUsed
            /\ \A g \in DOMAIN names :
                names[g].isUsed /\ names[g].inodeNum = names[e].inodeNum => g = e
        /\ names[e].name # NoName =>
            /\ names[e].isUsed
            /\ names[e].name \in Names \ LongNames
            /\ \A g \in DOMAIN names : names[g].name = names[e].name => g = e

ListedInv ==
    /\ Listed(inodes, directory)
    /\ \A d \in DOMAIN disks \ {handle} : Listed(disks[d][0].inodes, disks[d][0].directory)

(* A file has an index and a data block, which no other file and not the   *)
(* tables have, and whose bits are set.                                    *)
OwnedOn(image, nodes, i) ==
    {nodes[i].singleIndirectBlock, image[nodes[i].singleIndirectBlock].entry}

Apart(image, bits, nodes) ==
    /\ 0 \in bits
    /\ \A i \in DOMAIN nodes : nodes[i].isUsed =>
        /\ image[nodes[i].singleIndirectBlock].entry # nodes[i].singleIndirectBlock
        /\ OwnedOn(image, nodes, i) \subseteq bits \ {0}
    /\ \A i, j \in DOMAIN nodes :
        nodes[i].isUsed /\ nodes[j].isUsed /\ i # j =>
            OwnedOn(image, nodes, i) \cap OwnedOn(image, nodes, j) = {}

ApartInv ==
    /\ readyForUse => Apart(disks[handle], usedBlocksBitmap, inodes)
    /\ \A d \in DOMAIN disks \ {handle} :
        Apart(disks[d], disks[d][0].bitmap, disks[d][0].inodes)

(* The tables are in use exactly while a disk is open. *)
MountInv ==
    /\ readyForUse <=> handle # NoDisk
    /\ ~readyForUse => fds = NoFds

(* An open file is listed. *)
FdsInv ==
    \A f \in DOMAIN fds : fds[f].isUsed =>
        \E e \in DOMAIN directory :
            directory[e].name # NoName /\ directory[e].inodeNum = fds[f].inodeNum

FilesInv == TInv /\ ListedInv /\ ApartInv /\ MountInv /\ FdsInv
----------------------------------------------------------------------------
(* Operators. *)

(* Every nonempty set of natural numbers has a first one. *)
LEMMA FirstOf ==
    ASSUME NEW S \in SUBSET Nat, S # {}
    PROVE  First(S) \in S /\ \A y \in S : First(S) <= y
<1> DEFINE Less == {p \in Nat \X Nat : p[1] < p[2]}
<1>1. OpToRel(<, Nat) = Less
  BY Zenon DEF OpToRel
<1>2. IsWellFoundedOn(Less, Nat)
  BY <1>1, NatLessThanWellFounded, Zenon
<1>3. PICK x \in S : \A y \in S : ~ (<<y, x>> \in Less)
  <2> HIDE DEF Less
  <2>1. QED
    BY <1>2, WFMin
<1>4. \A y \in S : x <= y
  <2>1. SUFFICES ASSUME NEW y \in S, y < x PROVE FALSE
    OBVIOUS
  <2>2. <<y, x>> \in Less
    BY <2>1
  <2>3. QED
    BY <1>3, <2>2, Zenon
<1>5. First(S) = CHOOSE z \in S : \A y \in S : z <= y
  BY DEF First
<1>6. QED
  BY <1>4, <1>5

LEMMA EmptyEntries ==
    /\ NoInode \in InodeEntry
    /\ NoEntry \in NameEntry
    /\ NoFd \in FdEntry
BY FileSystemAssumption
   DEF NoInode, NoEntry, NoFd, InodeEntry, NameEntry, FdEntry, Blocks

LEMMA EmptyTables ==
    /\ NoInodes \in InodeTable
    /\ NoNames \in NameTable
    /\ NoFds \in FdTable
BY EmptyEntries DEF NoInodes, NoNames, NoFds, InodeTable, NameTable, FdTable

LEMMA ZeroIsBlock == 0 \in Blocks /\ Blocks \subseteq Nat
BY FileSystemAssumption DEF Blocks

LEMMA BlankBlocks ==
    /\ Zeroes \in Block
    /\ Junk \in Block
    /\ \A b \in Blocks : Index(b) \in Block
<1>1. Zeroes \in Block
  BY ZeroIsBlock DEF Zeroes, Block, Zero
<1>2. Junk \in Block
  BY ZeroIsBlock DEF Junk, Block
<1>3. \A b \in Blocks : Index(b) \in Block
  BY ZeroIsBlock DEF Index, Zeroes, Block, Zero
<1>4. QED
  BY <1>1, <1>2, <1>3

LEMMA Superblocks ==
    /\ \A bits \in SUBSET Blocks, nodes \in InodeTable, names \in NameTable :
            Metadata(bits, nodes, names) \in Superblock
    /\ Garbled \in Superblock
    /\ Mountable(Blank)
<1>1. Blank[0] = [Metadata({}, NoInodes, NoNames) EXCEPT !.entry = 0]
  BY ZeroIsBlock DEF Blank
<1>2. QED
  BY <1>1, EmptyTables DEF Metadata, Garbled, Superblock, Mountable

LEMMA BlankImage == Blank \in Image
<1>1. \A b \in Blocks \ {0} : Blank[b] \in Block
  BY BlankBlocks DEF Blank
<1>2. Blank = [b \in Blocks |-> Blank[b]]
  BY Zenon DEF Blank
<1>3. Blank[0] \in Superblock
  BY Superblocks DEF Mountable
<1>4. Blank \in [Blocks -> Block \cup Superblock]
  <2>1. \A b \in Blocks : Blank[b] \in Block \cup Superblock
    BY <1>1, <1>3
  <2>2. QED
    BY <1>2, <2>1, Zenon
<1>5. QED
  BY <1>1, <1>4 DEF Image

LEMMA ImageExcept ==
    ASSUME NEW image \in Image, NEW b \in Blocks, NEW block,
           block \in Block \cup Superblock, b # 0 => block \in Block
    PROVE  [image EXCEPT ![b] = block] \in Image
<1> DEFINE written == [image EXCEPT ![b] = block]
<1>1. image \in [Blocks -> Block \cup Superblock]
      /\ \A c \in Blocks \ {0} : image[c] \in Block
  BY DEF Image
<1>2. \A c \in Blocks : written[c] = IF c = b THEN block ELSE image[c]
  BY <1>1
<1>3. written \in [Blocks -> Block \cup Superblock]
  BY <1>1
<1>4. \A c \in Blocks \ {0} : written[c] \in Block
  BY <1>1, <1>2
<1>5. QED
  BY <1>3, <1>4 DEF Image

LEMMA SizeRange == \A n \in Int : n % SIZE_RANGE \in 0..(SIZE_RANGE - 1)
BY FileSystemAssumption
----------------------------------------------------------------------------
(* Types. *)

(* A block of the mounted disk is written. *)
LEMMA WriteType ==
    ASSUME TInv, readyForUse, NEW b \in Blocks, NEW block, BlockWrite(b, block),
           block \in Block \cup Superblock, b # 0 => block \in Block
    PROVE  /\ DOMAIN disks' = DOMAIN disks
           /\ disks' = [d \in DOMAIN disks' |-> disks'[d]]
           /\ \A d \in DOMAIN disks : disks'[d] \in Image
           /\ \A d \in DOMAIN disks \ {handle} : disks'[d] = disks[d]
           /\ \A c \in Blocks \ {b} : disks'[handle][c] = disks[handle][c]
           /\ disks'[handle][b] = block
<1>1. handle \in DOMAIN disks /\ disks[handle] \in Image
  BY DEF TInv, DisksOK
<1>2. [disks[handle] EXCEPT ![b] = block] \in Image
  BY <1>1, ImageExcept
<1>3. disks' = [disks EXCEPT ![handle] = [disks[handle] EXCEPT ![b] = block]]
  BY DEF BlockWrite
<1>4. disks[handle] = [c \in Blocks |-> disks[handle][c]]
  BY <1>1 DEF Image
<1> HIDE DEF Image
<1>5. DOMAIN disks' = DOMAIN disks /\ disks'[handle] = [disks[handle] EXCEPT ![b] = block]
      /\ \A d \in DOMAIN disks \ {handle} : disks'[d] = disks[d]
  BY <1>1, <1>3
<1>6. disks' = [d \in DOMAIN disks' |-> disks'[d]]
  BY <1>3
<1>7. \A d \in DOMAIN disks : disks'[d] \in Image
  BY <1>2, <1>5 DEF TInv, DisksOK
<1>8. QED
  BY <1>4, <1>5, <1>6, <1>7

LEMMA TablesType ==
    FTypeOK <=> /\ inodes \in InodeTable
                /\ directory \in NameTable
                /\ fds \in FdTable
                /\ usedBlocksBitmap \subseteq Blocks
                /\ readyForUse \in BOOLEAN
                /\ DOMAIN disks \subseteq Disks
                /\ \A d \in DOMAIN disks, b \in Blocks \ {0} : disks[d][b] \in Block
                /\ handle \in DOMAIN disks \cup {NoDisk}
BY DEF FTypeOK, InodeTable, NameTable, FdTable, InodeEntry, NameEntry, FdEntry

(* What is left to show of a step that keeps the images. *)
LEMMA TInvFrom ==
    ASSUME inodes' \in InodeTable, directory' \in NameTable, fds' \in FdTable,
           usedBlocksBitmap' \subseteq Blocks, readyForUse' \in BOOLEAN,
           DOMAIN disks' \subseteq Disks, handle' \in DOMAIN disks' \cup {NoDisk},
           disks' = [d \in DOMAIN disks' |-> disks'[d]],
           \A d \in DOMAIN disks' : disks'[d] \in Image,
           \A d \in DOMAIN disks' \ {handle'} : Mountable(disks'[d]),
           readyForUse' => handle' \in DOMAIN disks'
    PROVE  TInv'
<1>1. \A d \in DOMAIN disks', b \in Blocks \ {0} : disks'[d][b] \in Block
  BY DEF Image
<1>2. FTypeOK'
  BY <1>1 DEF FTypeOK, InodeTable, NameTable, FdTable, InodeEntry, NameEntry, FdEntry
<1>3. QED
  BY <1>2 DEF TInv, DisksOK
LEMMA MakeType == ASSUME TInv, NEW d \in Disks, make_fs(d) PROVE TInv'
<1> DEFINE fresh == [Blank EXCEPT ![0] = Metadata({0}, NoInodes, NoNames)]
<1>1. fresh \in Image /\ Mountable(fresh)
  <2>1. Metadata({0}, NoInodes, NoNames) \in Superblock
    BY Superblocks, EmptyTables, ZeroIsBlock
  <2>2. fresh[0] = Metadata({0}, NoInodes, NoNames)
    BY ZeroIsBlock DEF Blank
  <2>3. QED
    BY <2>1, <2>2, BlankImage, ImageExcept, ZeroIsBlock, EmptyTables DEF Metadata, Mountable
<1> HIDE DEF fresh
<1>2. /\ DOMAIN disks' = DOMAIN disks \cup {d}
      /\ disks' = [e \in DOMAIN disks' |-> disks'[e]]
      /\ \A e \in DOMAIN disks : e # d => disks'[e] = disks[e]
      /\ disks'[d] \in {Blank, fresh}
  BY DEF make_fs, fresh
<1>3. \A e \in DOMAIN disks' : disks'[e] \in Image
  BY <1>1, <1>2, BlankImage DEF TInv, DisksOK
<1>4. \A e \in DOMAIN disks' \ {handle'} : Mountable(disks'[e])
  BY <1>1, <1>2, Superblocks DEF TInv, DisksOK, make_fs
<1>5. readyForUse' => handle' \in DOMAIN disks'
  BY <1>2 DEF TInv, DisksOK, make_fs
<1>6. inodes' \in InodeTable /\ directory' \in NameTable /\ fds' \in FdTable
      /\ usedBlocksBitmap' \subseteq Blocks /\ readyForUse' \in BOOLEAN
  BY EmptyTables, ZeroIsBlock, TablesType DEF make_fs, TInv
<1>7. DOMAIN disks' \subseteq Disks /\ handle' \in DOMAIN disks' \cup {NoDisk}
  BY <1>2, TablesType DEF make_fs, TInv
<1>8. QED
  BY <1>2, <1>3, <1>4, <1>5, <1>6, <1>7, TInvFrom

LEMMA MountType ==
    ASSUME TInv, NEW d \in Disks, mount_fs(d) \/ MountFails(d)
    PROVE  TInv'
<1>1. CASE mount_fs(d)
  <2>1. disks[d][0] \in Superblock /\ disks[d][0].directory \in NameTable
    BY <1>1, FileSystemAssumption DEF mount_fs, TInv, DisksOK, Mountable
  <2>2. inodes' \in InodeTable /\ directory' \in NameTable /\ usedBlocksBitmap' \subseteq Blocks
    BY <1>1, <2>1 DEF mount_fs, Superblock
  <2>3. UNCHANGED <<disks, fds>> /\ handle' \in DOMAIN disks /\ readyForUse' = TRUE
    BY <1>1 DEF mount_fs
  <2>4. \A e \in DOMAIN disks : Mountable(disks[e])
    BY <1>1, TablesType, FileSystemAssumption DEF mount_fs, TInv, DisksOK
  <2>5. QED
    BY <2>2, <2>3, <2>4, TInvFrom, TablesType DEF TInv, DisksOK
<1>2. CASE MountFails(d)
  BY <1>2, EmptyTables, TInvFrom, TablesType DEF MountFails, TInv, DisksOK
<1>3. QED
  BY <1>1, <1>2

LEMMA UmountType == ASSUME TInv, umount_fs PROVE TInv'
<1> DEFINE block == Metadata(usedBlocksBitmap, inodes, directory)
<1>1. block \in Superblock /\ block.directory \in NameTable
  BY Superblocks, TablesType DEF TInv, Metadata
<1> HIDE DEF block
<1>2. BlockWrite(0, block) /\ readyForUse
  BY DEF umount_fs, block
<1>3. handle \in DOMAIN disks /\ DOMAIN disks \subseteq Disks
  BY <1>2, TablesType DEF TInv, DisksOK
<1>4. /\ DOMAIN disks' = DOMAIN disks
      /\ disks' = [d \in DOMAIN disks' |-> disks'[d]]
      /\ \A d \in DOMAIN disks : disks'[d] \in Image
      /\ \A d \in DOMAIN disks \ {handle} : disks'[d] = disks[d]
      /\ disks'[handle][0] = block
  BY <1>1, <1>2, WriteType, ZeroIsBlock
<1>5. \A d \in DOMAIN disks' \ {handle'} : Mountable(disks'[d])
  BY <1>1, <1>4 DEF TInv, DisksOK, Mountable
<1>6. inodes' \in InodeTable /\ directory' \in NameTable /\ fds' \in FdTable
      /\ usedBlocksBitmap' \subseteq Blocks /\ readyForUse' \in BOOLEAN
  BY EmptyTables DEF umount_fs
<1>7. handle' \in DOMAIN disks' \cup {NoDisk} /\ ~readyForUse'
  BY DEF umount_fs
<1>8. QED
  BY <1>3, <1>4, <1>5, <1>6, <1>7, TInvFrom

(* Calls that leave the disks alone. *)
LEMMA SameDisksType ==
    ASSUME TInv, UNCHANGED <<disks, handle, readyForUse>>,
           inodes' \in InodeTable, directory' \in NameTable, fds' \in FdTable,
           usedBlocksBitmap' \subseteq Blocks
    PROVE  TInv'
BY TInvFrom, TablesType DEF TInv, DisksOK

(* Calls that change the mounted disk only. *)
LEMMA MountedDiskType ==
    ASSUME TInv, readyForUse, UNCHANGED <<handle, readyForUse>>,
           inodes' \in InodeTable, directory' \in NameTable, fds' \in FdTable,
           usedBlocksBitmap' \subseteq Blocks,
           DOMAIN disks' = DOMAIN disks,
           disks' = [d \in DOMAIN disks' |-> disks'[d]],
           \A d \in DOMAIN disks : disks'[d] \in Image,
           \A d \in DOMAIN disks \ {handle} : disks'[d] = disks[d]
    PROVE  TInv'
BY TInvFrom, TablesType DEF TInv, DisksOK

(* The entries fs_create takes, and its two blocks. *)
LEMMA CanCreateTakes ==
    ASSUME TInv, NEW name, CanCreate(name)
    PROVE  /\ First(FreeInodes) \in 0..(MAX_FILES - 1)
           /\ ~ inodes[First(FreeInodes)].isUsed
           /\ First(FreeEntries) \in 0..(MAX_FILES - 1)
           /\ directory[First(FreeEntries)].name = NoName
           /\ \E a, b \in FreeBlocks :
                /\ a < b
                /\ Taken = {a, b}
                /\ First(Taken) = a
                /\ First(Taken \ {First(Taken)}) = b
<1>1. FreeInodes \in SUBSET Nat /\ FreeInodes \subseteq 0..(MAX_FILES - 1) /\ FreeInodes # {}
  BY TablesType DEF FreeInodes, CanCreate, TInv, InodeTable
<1>2. FreeEntries \in SUBSET Nat /\ FreeEntries \subseteq 0..(MAX_FILES - 1) /\ FreeEntries # {}
  BY TablesType DEF FreeEntries, CanCreate, TInv, NameTable
<1>3. Taken \in SUBSET Nat /\ Taken \subseteq FreeBlocks
  BY ZeroIsBlock DEF Taken, FreeBlocks
<1>4. IsFiniteSet(Taken) /\ Cardinality(Taken) = 2
  <2>1. IsFiniteSet(Blocks)
    BY FileSystemAssumption, FS_Interval DEF Blocks
  <2>2. QED
    BY <1>3, <2>1, FS_Subset DEF CanCreate, FreeBlocks
<1> DEFINE a == First(Taken)
           rest == Taken \ {a}
           b == First(rest)
<1>5. a \in Taken /\ \A y \in Taken : a <= y
  BY <1>3, <1>4, FS_EmptySet, FirstOf
<1>6. IsFiniteSet(rest) /\ Cardinality(rest) = 1
  <2> HIDE DEF a
  <2>1. QED
    BY <1>4, <1>5, FS_RemoveElement
<1>7. PICK x : rest = {x}
  BY <1>6, FS_Singleton, Zenon
<1>8. b = x
  BY <1>3, <1>7, FirstOf
<1>9. Taken = {a, b} /\ a < b
  <2>1. x \in Taken /\ x # a
    BY <1>7
  <2> HIDE DEF a, b
  <2>2. a \in Nat /\ x \in Nat /\ a <= x
    BY <1>3, <1>5, <2>1
  <2>3. QED
    BY <1>5, <1>7, <1>8, <2>1, <2>2
<1>10. First(FreeInodes) \in FreeInodes /\ First(FreeEntries) \in FreeEntries
  BY <1>1, <1>2, FirstOf
<1>11. ~ inodes[First(FreeInodes)].isUsed /\ directory[First(FreeEntries)].name = NoName
  BY <1>10 DEF FreeInodes, FreeEntries
<1>12. QED
  BY <1>1, <1>2, <1>3, <1>9, <1>10, <1>11
LEMMA CreateType ==
    ASSUME TInv, NEW name \in Names, fs_create(name)
    PROVE  TInv'
<1> DEFINE i == First(FreeInodes)
           e == First(FreeEntries)
<1>1. CanCreate(name) /\ readyForUse
  BY DEF fs_create, CanCreate
<1>2. PICK a, b \in FreeBlocks : Taken = {a, b} /\ First(Taken) = a /\ First(Taken \ {First(Taken)}) = b
  BY <1>1, CanCreateTakes
<1>3. i \in 0..(MAX_FILES - 1) /\ e \in 0..(MAX_FILES - 1)
  BY <1>1, CanCreateTakes
<1> HIDE DEF i, e
<1>4. a \in Blocks /\ b \in Blocks
  BY DEF FreeBlocks
<1>5. inodes' = [inodes EXCEPT ![i] = [isUsed |-> TRUE, singleIndirectBlock |-> a, fileSize |-> 0]]
  BY <1>2 DEF fs_create, i
<1>6. directory' = [directory EXCEPT ![e] = [isUsed |-> TRUE, inodeNum |-> i, name |-> name]]
  BY DEF fs_create, i, e
<1>7. BlockWrite(a, Index(b)) /\ usedBlocksBitmap' = usedBlocksBitmap \cup {a, b}
  BY <1>2 DEF fs_create
<1>8. inodes' \in InodeTable
  BY <1>3, <1>4, <1>5, TablesType, FileSystemAssumption DEF InodeTable, InodeEntry, TInv
<1>9. directory' \in NameTable
  BY <1>3, <1>6, TablesType DEF NameTable, NameEntry, TInv
<1>10. Index(b) \in Block
  BY <1>4, BlankBlocks
<1>11. /\ DOMAIN disks' = DOMAIN disks
       /\ disks' = [d \in DOMAIN disks' |-> disks'[d]]
       /\ \A d \in DOMAIN disks : disks'[d] \in Image
       /\ \A d \in DOMAIN disks \ {handle} : disks'[d] = disks[d]
  BY <1>1, <1>4, <1>7, <1>10, WriteType
<1>12. UNCHANGED <<fds, readyForUse, handle>>
  BY DEF fs_create
<1>13. fds' \in FdTable /\ usedBlocksBitmap' \subseteq Blocks
  BY <1>4, <1>7, <1>12, TablesType DEF TInv
<1>14. QED
  BY <1>1, <1>8, <1>9, <1>11, <1>12, <1>13, MountedDiskType

LEMMA CreateFailsType ==
    ASSUME TInv, NEW name, CreateFails(name)
    PROVE  TInv'
<1>1. usedBlocksBitmap' \subseteq Blocks
  BY TablesType DEF TInv, CreateFails, Taken, FreeBlocks
<1>2. QED
  BY <1>1, SameDisksType, TablesType DEF TInv, CreateFails

(* What deletion does to the mounted disk: the file's blocks are emptied. *)
LEMMA RemoveDisk ==
    ASSUME TInv, readyForUse, NEW e \in DOMAIN directory, Remove(e)
    PROVE  LET i     == directory[e].inodeNum
               index == inodes[i].singleIndirectBlock
               block == disks[handle][index].entry
               freed == {index} \cup ({block} \ {0})
           IN  /\ i \in 0..(MAX_FILES - 1) /\ index \in Blocks /\ block \in Blocks
               /\ DOMAIN disks' = DOMAIN disks
               /\ disks' = [d \in DOMAIN disks' |-> disks'[d]]
               /\ \A d \in DOMAIN disks : disks'[d] \in Image
               /\ \A d \in DOMAIN disks \ {handle} : disks'[d] = disks[d]
               /\ \A b \in Blocks \ freed : disks'[handle][b] = disks[handle][b]
<1> DEFINE i     == directory[e].inodeNum
           index == inodes[i].singleIndirectBlock
           block == disks[handle][index].entry
           freed == {index} \cup ({block} \ {0})
<1>1. i \in 0..(MAX_FILES - 1) /\ index \in Blocks
  BY TablesType DEF TInv, NameTable, InodeTable, NameEntry, InodeEntry
<1>2. block \in Blocks
  BY DEF Remove
<1>3. handle \in DOMAIN disks /\ disks[handle] \in Image
  BY DEF TInv, DisksOK
<1>4. PICK empty \in {Zeroes, Junk} :
        disks' = [disks EXCEPT ![handle] =
                    [b \in Blocks |-> IF b \in freed THEN empty ELSE @[b]]]
  BY DEF Remove
<1> HIDE DEF freed
<1> DEFINE image == [b \in Blocks |-> IF b \in freed THEN empty ELSE disks[handle][b]]
<1>5. image \in Image
  <2>1. empty \in Block
    BY BlankBlocks
  <2>2. QED
    BY <1>3, <2>1 DEF Image
<1>6. \A b \in Blocks \ freed : image[b] = disks[handle][b]
  OBVIOUS
<1>7. disks' = [disks EXCEPT ![handle] = image]
  BY <1>4
<1> HIDE DEF image, Image
<1>8. /\ DOMAIN disks' = DOMAIN disks
      /\ disks' = [d \in DOMAIN disks' |-> disks'[d]]
      /\ \A d \in DOMAIN disks \ {handle} : disks'[d] = disks[d]
      /\ disks'[handle] = image
  BY <1>3, <1>7
<1>9. \A d \in DOMAIN disks : disks'[d] \in Image
  BY <1>5, <1>8 DEF TInv, DisksOK
<1>10. QED
  BY <1>1, <1>2, <1>6, <1>8, <1>9 DEF freed

LEMMA DeleteType ==
    ASSUME TInv, NEW name, fs_delete(name)
    PROVE  TInv'
<1>1. PICK e \in EntriesOf(name) : Remove(e)
  BY DEF fs_delete
<1>2. readyForUse /\ e \in DOMAIN directory
  BY DEF fs_delete, EntriesOf
<1>3. /\ DOMAIN disks' = DOMAIN disks
      /\ disks' = [d \in DOMAIN disks' |-> disks'[d]]
      /\ \A d \in DOMAIN disks : disks'[d] \in Image
      /\ \A d \in DOMAIN disks \ {handle} : disks'[d] = disks[d]
      /\ directory[e].inodeNum \in 0..(MAX_FILES - 1)
  BY <1>1, <1>2, RemoveDisk
<1>4. /\ inodes' = [inodes EXCEPT ![directory[e].inodeNum] = NoInode]
      /\ directory' = [directory EXCEPT ![e] = NoEntry]
      /\ usedBlocksBitmap' \subseteq usedBlocksBitmap
      /\ UNCHANGED <<fds, readyForUse, handle>>
  BY <1>1 DEF Remove
<1>5. inodes' \in InodeTable
  BY <1>4, TablesType, EmptyEntries DEF TInv, InodeTable
<1>6. directory' \in NameTable
  BY <1>4, TablesType, EmptyEntries DEF TInv, NameTable
<1>7. fds' \in FdTable /\ usedBlocksBitmap' \subseteq Blocks
  BY <1>4, TablesType DEF TInv
<1>8. QED
  BY <1>2, <1>3, <1>4, <1>5, <1>6, <1>7, MountedDiskType
(* Calls on descriptors. *)
LEMMA FdType ==
    ASSUME TInv, NEW f \in DOMAIN fds
    PROVE  /\ f \in 0..(MAX_FDS - 1)
           /\ fds[f].inodeNum \in DOMAIN inodes
           /\ fds[f].offset \in 0..OFFSET_LIMIT
           /\ Inode(f) \in InodeEntry
BY TablesType DEF TInv, FdTable, InodeTable, FdEntry, Inode

LEMMA OpenType == ASSUME TInv, NEW name, fs_open(name) PROVE TInv'
<1>1. FreeFds \in SUBSET Nat /\ FreeFds \subseteq 0..(MAX_FDS - 1) /\ FreeFds # {}
  BY TablesType DEF FreeFds, fs_open, TInv, FdTable
<1>2. First(FreeFds) \in 0..(MAX_FDS - 1)
  BY <1>1, FirstOf
<1>3. PICK e \in DOMAIN directory :
        fds' = [fds EXCEPT ![First(FreeFds)] =
                    [isUsed |-> TRUE, inodeNum |-> directory[e].inodeNum, offset |-> 0]]
  BY DEF fs_open, EntriesOf
<1>4. directory[e].inodeNum \in 0..(MAX_FILES - 1)
  BY TablesType DEF TInv, NameTable, NameEntry
<1>5. fds' \in FdTable
  <2>1. [isUsed |-> TRUE, inodeNum |-> directory[e].inodeNum, offset |-> 0] \in FdEntry
    BY <1>4, FileSystemAssumption DEF FdEntry
  <2>2. QED
    BY <1>2, <1>3, <2>1, TablesType DEF TInv, FdTable
<1>6. QED
  BY <1>5, SameDisksType, TablesType DEF TInv, fs_open

LEMMA CloseType == ASSUME TInv, NEW f \in DOMAIN fds, fs_close(f) PROVE TInv'
<1>1. fds' \in FdTable
  BY TablesType, EmptyEntries DEF fs_close, TInv, FdTable
<1>2. QED
  BY <1>1, SameDisksType, TablesType DEF TInv, fs_close

(* A new place of the file pointer. *)
LEMMA SeekType ==
    ASSUME TInv, NEW f \in DOMAIN fds, NEW at \in 0..OFFSET_LIMIT,
           fds' = [fds EXCEPT ![f].offset = at]
    PROVE  fds' \in FdTable
BY TablesType DEF TInv, FdTable, FdEntry

LEMMA SizeType ==
    ASSUME TInv, NEW f \in DOMAIN fds, NEW n \in Int,
           inodes' = [inodes EXCEPT ![fds[f].inodeNum].fileSize = n % SIZE_RANGE]
    PROVE  inodes' \in InodeTable
<1>1. n % SIZE_RANGE \in 0..(SIZE_RANGE - 1)
  BY SizeRange
<1> DEFINE m == n % SIZE_RANGE
<1>2. inodes' = [inodes EXCEPT ![fds[f].inodeNum].fileSize = m]
  OBVIOUS
<1> HIDE DEF m
<1>3. m \in 0..(SIZE_RANGE - 1)
  BY <1>1 DEF m
<1>4. QED
  BY <1>2, <1>3, TablesType, FdType DEF TInv, InodeTable, InodeEntry

LEMMA SeekReadType ==
    ASSUME TInv, NEW f \in DOMAIN fds,
           \/ \E nbyte \in 1..BLOCK_SIZE : fs_read(f, nbyte)
           \/ \E offset \in 0..OFFSET_LIMIT : fs_lseek(f, offset)
    PROVE  TInv'
<1>1. \E at \in 0..OFFSET_LIMIT : fds' = [fds EXCEPT ![f].offset = at]
  <2>1. CASE \E nbyte \in 1..BLOCK_SIZE : fs_read(f, nbyte)
    <3>1. PICK nbyte \in 1..BLOCK_SIZE : fs_read(f, nbyte)
      BY <2>1
    <3>2. fds[f].offset + nbyte \in 0..OFFSET_LIMIT
      BY <3>1, FdType, FileSystemAssumption DEF fs_read, Within
    <3>3. fds' = [fds EXCEPT ![f].offset = fds[f].offset + nbyte]
      BY <3>1 DEF fs_read
    <3>4. QED
      BY <3>2, <3>3
  <2>2. CASE \E offset \in 0..OFFSET_LIMIT : fs_lseek(f, offset)
    BY <2>2 DEF fs_lseek
  <2>3. QED
    BY <2>1, <2>2
<1>2. fds' \in FdTable
  BY <1>1, SeekType
<1>3. UNCHANGED <<inodes, directory, usedBlocksBitmap, readyForUse, disks, handle>>
  BY DEF fs_read, fs_lseek
<1>4. QED
  BY <1>2, <1>3, SameDisksType, TablesType DEF TInv

LEMMA TruncateType ==
    ASSUME TInv, NEW f \in DOMAIN fds, NEW length \in Lengths, fs_truncate(f, length)
    PROVE  TInv'
<1>1. length \in Int
  BY FileSystemAssumption
<1>2. inodes' \in InodeTable
  BY <1>1, SizeType DEF fs_truncate
<1>3. QED
  BY <1>2, SameDisksType, TablesType DEF TInv, fs_truncate

(* A block with new contents keeps its number. *)
LEMMA WrittenBlock ==
    ASSUME NEW block \in Block, NEW at, NEW v \in Data, NEW nbyte
    PROVE  /\ Written(block, at, v, nbyte) \in Block
           /\ Written(block, at, v, nbyte).entry = block.entry
BY DEF Written, Block

LEMMA WriteDisk ==
    ASSUME TInv, NEW f \in DOMAIN fds, NEW v \in Data, NEW nbyte \in 1..BLOCK_SIZE,
           fs_write(f, v, nbyte)
    PROVE  /\ DOMAIN disks' = DOMAIN disks
           /\ disks' = [d \in DOMAIN disks' |-> disks'[d]]
           /\ \A d \in DOMAIN disks : disks'[d] \in Image
           /\ \A d \in DOMAIN disks \ {handle} : disks'[d] = disks[d]
           /\ \A c \in Blocks \ {BlockOf(f)} : disks'[handle][c] = disks[handle][c]
           /\ BlockOf(f) # 0 =>
                disks'[handle][BlockOf(f)] =
                    Written(disks[handle][BlockOf(f)], InBlock(fds[f].offset), v, nbyte)
           /\ \A c \in Blocks \ {0} : disks'[handle][c].entry = disks[handle][c].entry
<1> DEFINE b == BlockOf(f)
           block == IF b = 0 THEN Garbled
                    ELSE Written(disks[handle][b], InBlock(fds[f].offset), v, nbyte)
<1>1. b \in Blocks /\ readyForUse /\ BlockWrite(b, block)
  BY DEF fs_write
<1>2. b # 0 => disks[handle][b] \in Block
  BY <1>1 DEF TInv, DisksOK, Image
<1>3. /\ block \in Block \cup Superblock
      /\ b # 0 => block \in Block /\ block.entry = disks[handle][b].entry
  BY <1>2, Superblocks, WrittenBlock
<1>4. b # 0 => block = Written(disks[handle][b], InBlock(fds[f].offset), v, nbyte)
  OBVIOUS
<1> HIDE DEF b, block
<1>5. /\ DOMAIN disks' = DOMAIN disks
      /\ disks' = [d \in DOMAIN disks' |-> disks'[d]]
      /\ \A d \in DOMAIN disks : disks'[d] \in Image
      /\ \A d \in DOMAIN disks \ {handle} : disks'[d] = disks[d]
      /\ \A c \in Blocks \ {b} : disks'[handle][c] = disks[handle][c]
      /\ disks'[handle][b] = block
  BY <1>1, <1>3, WriteType
<1>6. \A c \in Blocks \ {0} : disks'[handle][c].entry = disks[handle][c].entry
  BY <1>3, <1>5
<1>7. QED
  BY <1>4, <1>5, <1>6 DEF b

LEMMA WriteCallType ==
    ASSUME TInv, NEW f \in DOMAIN fds, NEW v \in Data, NEW nbyte \in 1..BLOCK_SIZE,
           fs_write(f, v, nbyte)
    PROVE  TInv'
<1>1. /\ DOMAIN disks' = DOMAIN disks
      /\ disks' = [d \in DOMAIN disks' |-> disks'[d]]
      /\ \A d \in DOMAIN disks : disks'[d] \in Image
      /\ \A d \in DOMAIN disks \ {handle} : disks'[d] = disks[d]
  BY WriteDisk
<1>2. fds[f].offset + nbyte \in 0..OFFSET_LIMIT
  BY FdType, FileSystemAssumption DEF fs_write, Within
<1>3. fds' = [fds EXCEPT ![f].offset = fds[f].offset + nbyte]
  BY DEF fs_write
<1>4. fds' \in FdTable
  BY <1>2, <1>3, SeekType
<1>5. Inode(f).fileSize + nbyte \in Int
  BY FdType, FileSystemAssumption DEF InodeEntry
<1>6. inodes' = [inodes EXCEPT ![fds[f].inodeNum].fileSize =
                    (Inode(f).fileSize + nbyte) % SIZE_RANGE]
  BY DEF fs_write, Inode
<1>7. inodes' \in InodeTable
  BY <1>5, <1>6, SizeType
<1>8. readyForUse /\ UNCHANGED <<directory, usedBlocksBitmap, readyForUse, handle>>
  BY DEF fs_write
<1>9. QED
  BY <1>1, <1>4, <1>7, <1>8, MountedDiskType, TablesType DEF TInv

LEMMA TypesStep == TInv /\ [Next]_fsVars => TInv'
<1> SUFFICES ASSUME TInv, [Next]_fsVars PROVE TInv'
  OBVIOUS
<1>1. CASE \E d \in Disks : make_fs(d) \/ mount_fs(d) \/ MountFails(d)
  BY <1>1, MakeType, MountType
<1>2. CASE umount_fs
  BY <1>2, UmountType
<1>3. CASE \E name \in Names :
            fs_create(name) \/ CreateFails(name) \/ fs_delete(name) \/ fs_open(name)
  BY <1>3, CreateType, CreateFailsType, DeleteType, OpenType
<1>4. CASE \E f \in DOMAIN fds :
            \/ fs_close(f)
            \/ \E nbyte \in 1..BLOCK_SIZE :
                \/ fs_read(f, nbyte)
                \/ \E v \in Data : fs_write(f, v, nbyte)
            \/ \E offset \in 0..OFFSET_LIMIT : fs_lseek(f, offset)
            \/ \E length \in Lengths : fs_truncate(f, length)
  BY <1>4, CloseType, SeekReadType, WriteCallType, TruncateType
<1>5. CASE UNCHANGED fsVars
  BY <1>5 DEF fsVars, TInv, FTypeOK, DisksOK, Mountable
<1>6. QED
  BY <1>1, <1>2, <1>3, <1>4, <1>5 DEF Next

LEMMA InitTypes == Init => TInv
<1> SUFFICES ASSUME Init PROVE TInv
  OBVIOUS
<1>1. FTypeOK
  BY EmptyTables, TablesType, ZeroIsBlock DEF Init
<1>2. DisksOK
  BY DEF Init, DisksOK
<1>3. QED
  BY <1>1, <1>2 DEF TInv

(* The tables, in memory and on every disk, hold what their types allow,   *)
(* whatever the order of the calls; only the mounted disk's block 0 may be *)
(* garbled.                                                                *)
THEOREM FileTypes == Spec => []FTypeOK
<1>1. TInv => FTypeOK
  BY DEF TInv
<1>2. QED
  BY <1>1, InitTypes, TypesStep, PTL DEF Spec
----------------------------------------------------------------------------
(* Directories. *)

LEMMA ListedEmpty == Listed(NoInodes, NoNames)
BY DEF Listed, NoNames, NoEntry

LEMMA ListedCreate ==
    ASSUME NEW nodes \in InodeTable, NEW names \in NameTable, Listed(nodes, names),
           NEW i \in 0..(MAX_FILES - 1), ~ nodes[i].isUsed,
           NEW e \in 0..(MAX_FILES - 1), names[e].name = NoName,
           NEW name \in Names \ LongNames,
           name # NoName => \A g \in DOMAIN names : names[g].name # name,
           NEW nodes2, NEW names2, NEW node, node.isUsed,
           nodes2 = [nodes EXCEPT ![i] = node],
           names2 = [names EXCEPT ![e] = [isUsed |-> TRUE, inodeNum |-> i, name |-> name]]
    PROVE  Listed(nodes2, names2)
<1>1. /\ DOMAIN names2 = DOMAIN names /\ DOMAIN names = 0..(MAX_FILES - 1)
      /\ DOMAIN nodes = 0..(MAX_FILES - 1)
      /\ \A g \in DOMAIN names : names[g].inodeNum \in DOMAIN nodes
  BY DEF NameTable, InodeTable, NameEntry
<1>2. /\ names2[e].isUsed /\ names2[e].inodeNum = i /\ names2[e].name = name
      /\ \A g \in DOMAIN names : g # e => names2[g] = names[g]
  BY <1>1
<1>3. nodes2[i].isUsed /\ \A j \in DOMAIN nodes : j # i => nodes2[j] = nodes[j]
  BY <1>1
<1>4. \A g \in DOMAIN names : names[g].isUsed => names[g].inodeNum # i
  BY DEF Listed
<1>5. ASSUME NEW g \in DOMAIN names, names2[g].isUsed
      PROVE  /\ nodes2[names2[g].inodeNum].isUsed
             /\ \A h \in DOMAIN names :
                    names2[h].isUsed /\ names2[h].inodeNum = names2[g].inodeNum => h = g
  BY <1>1, <1>2, <1>3, <1>4, <1>5 DEF Listed
<1>6. ASSUME NEW g \in DOMAIN names, names2[g].name # NoName
      PROVE  /\ names2[g].isUsed
             /\ names2[g].name \in Names \ LongNames
             /\ \A h \in DOMAIN names : names2[h].name = names2[g].name => h = g
  BY <1>1, <1>2, <1>6 DEF Listed
<1>7. QED
  BY <1>1, <1>5, <1>6 DEF Listed

LEMMA ListedDelete ==
    ASSUME NEW nodes \in InodeTable, NEW names \in NameTable, Listed(nodes, names),
           NEW e \in DOMAIN names, names[e].name # NoName,
           NEW nodes2, NEW names2,
           nodes2 = [nodes EXCEPT ![names[e].inodeNum] = NoInode],
           names2 = [names EXCEPT ![e] = NoEntry]
    PROVE  Listed(nodes2, names2)
<1>1. /\ DOMAIN names2 = DOMAIN names
      /\ \A g \in DOMAIN names : g # e => names2[g] = names[g]
      /\ names2[e] = NoEntry
  BY DEF NameTable
<1>2. \A j \in DOMAIN nodes : j # names[e].inodeNum => nodes2[j] = nodes[j]
  BY DEF InodeTable
<1>3. \A g \in DOMAIN names : names[g].inodeNum \in DOMAIN nodes
  BY DEF NameTable, InodeTable, NameEntry
<1>4. ~ NoEntry.isUsed /\ NoEntry.name = NoName
  BY DEF NoEntry
<1>5. \A g \in DOMAIN names : names[g].isUsed /\ g # e => names[g].inodeNum # names[e].inodeNum
  BY DEF Listed
<1>6. QED
  BY <1>1, <1>2, <1>3, <1>4, <1>5 DEF Listed

(* Only which inodes are used matters. *)
LEMMA ListedSize ==
    ASSUME NEW nodes \in InodeTable, NEW names \in NameTable, Listed(nodes, names),
           NEW nodes2, \A i \in DOMAIN nodes : nodes2[i].isUsed = nodes[i].isUsed
    PROVE  Listed(nodes2, names)
<1>1. \A g \in DOMAIN names : names[g].inodeNum \in DOMAIN nodes
  BY DEF NameTable, InodeTable, NameEntry
<1>2. QED
  BY <1>1 DEF Listed

LEMMA SizeKeepsInodes ==
    ASSUME TInv, NEW f \in DOMAIN fds, NEW n,
           inodes' = [inodes EXCEPT ![fds[f].inodeNum].fileSize = n]
    PROVE  /\ DOMAIN inodes' = DOMAIN inodes
           /\ \A i \in DOMAIN inodes :
                /\ inodes'[i].isUsed = inodes[i].isUsed
                /\ inodes'[i].singleIndirectBlock = inodes[i].singleIndirectBlock
                /\ i # fds[f].inodeNum => inodes'[i] = inodes[i]
           /\ inodes'[fds[f].inodeNum].fileSize = n
<1>1. inodes \in InodeTable /\ fds[f].inodeNum \in DOMAIN inodes
  BY TablesType, FdType DEF TInv
<1>2. inodes[fds[f].inodeNum] \in InodeEntry
  BY <1>1 DEF InodeTable
<1>3. inodes'[fds[f].inodeNum] = [inodes[fds[f].inodeNum] EXCEPT !.fileSize = n]
  BY <1>1
<1>4. QED
  BY <1>1, <1>2, <1>3 DEF InodeEntry

(* Calls after which no other disk has changed. *)
LEMMA ListedFrom ==
    ASSUME ListedInv, UNCHANGED handle, DOMAIN disks' = DOMAIN disks,
           \A d \in DOMAIN disks \ {handle} : disks'[d] = disks[d],
           Listed(inodes', directory')
    PROVE  ListedInv'
BY DEF ListedInv

LEMMA ListedMakeMount ==
    ASSUME TInv, ListedInv, NEW d \in Disks, make_fs(d) \/ mount_fs(d) \/ MountFails(d)
    PROVE  ListedInv'
<1>1. CASE make_fs(d)
  <2>1. Listed(inodes', directory')
    BY <1>1, ListedEmpty DEF make_fs
  <2>2. /\ DOMAIN disks' = DOMAIN disks \cup {d} /\ handle' = handle
        /\ \A e \in DOMAIN disks : e # d => disks'[e] = disks[e]
        /\ disks'[d][0].inodes = NoInodes /\ disks'[d][0].directory = NoNames
    BY <1>1, ZeroIsBlock DEF make_fs, Blank, Metadata
  <2>3. QED
    BY <2>1, <2>2, ListedEmpty DEF ListedInv
<1>2. CASE mount_fs(d)
  <2>1. Listed(inodes', directory') /\ UNCHANGED disks
    BY <1>2, FileSystemAssumption DEF mount_fs, ListedInv, TInv, FTypeOK
  <2>2. \A e \in DOMAIN disks \ {d} : Listed(disks[e][0].inodes, disks[e][0].directory)
    BY <1>2, FileSystemAssumption DEF mount_fs, ListedInv, TInv, FTypeOK
  <2>3. QED
    BY <1>2, <2>1, <2>2 DEF ListedInv, mount_fs
<1>3. CASE MountFails(d)
  BY <1>3, ListedEmpty DEF MountFails, ListedInv
<1>4. QED
  BY <1>1, <1>2, <1>3

LEMMA ListedUmount == ASSUME TInv, ListedInv, umount_fs PROVE ListedInv'
<1> DEFINE block == Metadata(usedBlocksBitmap, inodes, directory)
<1>1. block \in Superblock /\ block.inodes = inodes /\ block.directory = directory
  BY Superblocks, TablesType DEF TInv, Metadata
<1> HIDE DEF block
<1>2. BlockWrite(0, block) /\ readyForUse
  BY DEF umount_fs, block
<1>3. /\ DOMAIN disks' = DOMAIN disks
      /\ \A d \in DOMAIN disks \ {handle} : disks'[d] = disks[d]
      /\ disks'[handle][0] = block
  BY <1>1, <1>2, WriteType, ZeroIsBlock
<1>4. \A d \in DOMAIN disks' : Listed(disks'[d][0].inodes, disks'[d][0].directory)
  BY <1>1, <1>3 DEF ListedInv
<1>5. Listed(inodes', directory')
  BY ListedEmpty DEF umount_fs
<1>6. QED
  BY <1>4, <1>5 DEF ListedInv

LEMMA ListedNames ==
    ASSUME TInv, ListedInv, NEW name \in Names,
           fs_create(name) \/ CreateFails(name) \/ fs_delete(name) \/ fs_open(name)
    PROVE  ListedInv'
<1>0. inodes \in InodeTable /\ directory \in NameTable /\ Listed(inodes, directory)
  BY TablesType DEF TInv, ListedInv
<1>1. CASE fs_create(name)
  <2> DEFINE i == First(FreeInodes)
             e == First(FreeEntries)
             node == [isUsed |-> TRUE, singleIndirectBlock |-> First(Taken), fileSize |-> 0]
  <2>1. CanCreate(name) /\ readyForUse
    BY <1>1 DEF fs_create, CanCreate
  <2>2. i \in 0..(MAX_FILES - 1) /\ ~inodes[i].isUsed
        /\ e \in 0..(MAX_FILES - 1) /\ directory[e].name = NoName
    BY <2>1, CanCreateTakes
  <2>3. name \notin LongNames /\ (name # NoName => \A g \in DOMAIN directory : directory[g].name # name)
    BY <2>1 DEF CanCreate, EntriesOf
  <2>4. /\ inodes' = [inodes EXCEPT ![i] = node]
        /\ directory' = [directory EXCEPT ![e] = [isUsed |-> TRUE, inodeNum |-> i, name |-> name]]
    BY <1>1 DEF fs_create
  <2>5. node.isUsed
    OBVIOUS
  <2>6. PICK a, b \in FreeBlocks : First(Taken) = a /\ First(Taken \ {First(Taken)}) = b
    BY <2>1, CanCreateTakes
  <2> HIDE DEF i, e, node
  <2>7. Listed(inodes', directory')
    BY <1>0, <2>2, <2>3, <2>4, <2>5, ListedCreate
  <2>8. BlockWrite(a, Index(b)) /\ UNCHANGED handle /\ a \in Blocks /\ Index(b) \in Block
    BY <1>1, <2>6, BlankBlocks DEF fs_create, FreeBlocks
  <2>9. DOMAIN disks' = DOMAIN disks /\ \A d \in DOMAIN disks \ {handle} : disks'[d] = disks[d]
    BY <2>1, <2>8, WriteType
  <2>10. QED
    BY <2>7, <2>8, <2>9, ListedFrom
<1>2. CASE CreateFails(name) \/ fs_open(name)
  BY <1>2 DEF CreateFails, fs_open, ListedInv
<1>3. CASE fs_delete(name)
  <2>1. PICK e \in EntriesOf(name) : Remove(e)
    BY <1>3 DEF fs_delete
  <2>2. readyForUse /\ e \in DOMAIN directory /\ directory[e].name # NoName
    BY <1>3 DEF fs_delete, EntriesOf
  <2>3. DOMAIN disks' = DOMAIN disks /\ \A d \in DOMAIN disks \ {handle} : disks'[d] = disks[d]
    BY <2>1, <2>2, RemoveDisk
  <2>4. /\ inodes' = [inodes EXCEPT ![directory[e].inodeNum] = NoInode]
        /\ directory' = [directory EXCEPT ![e] = NoEntry]
        /\ UNCHANGED handle
    BY <2>1 DEF Remove
  <2>5. Listed(inodes', directory')
    BY <1>0, <2>2, <2>4, ListedDelete
  <2>6. QED
    BY <2>3, <2>4, <2>5, ListedFrom
<1>4. QED
  BY <1>1, <1>2, <1>3

LEMMA ListedFds ==
    ASSUME TInv, ListedInv, NEW f \in DOMAIN fds,
           \/ fs_close(f)
           \/ \E nbyte \in 1..BLOCK_SIZE :
                \/ fs_read(f, nbyte)
                \/ \E v \in Data : fs_write(f, v, nbyte)
           \/ \E offset \in 0..OFFSET_LIMIT : fs_lseek(f, offset)
           \/ \E length \in Lengths : fs_truncate(f, length)
    PROVE  ListedInv'
<1>0. inodes \in InodeTable /\ directory \in NameTable /\ Listed(inodes, directory)
  BY TablesType DEF TInv, ListedInv
<1>1. CASE UNCHANGED <<inodes, directory, disks, handle>>
  BY <1>1 DEF ListedInv
<1>2. ASSUME NEW nbyte \in 1..BLOCK_SIZE, NEW v \in Data, fs_write(f, v, nbyte)
      PROVE  ListedInv'
  <2> DEFINE n == (Inode(f).fileSize + nbyte) % SIZE_RANGE
  <2>1. inodes' = [inodes EXCEPT ![fds[f].inodeNum].fileSize = n] /\ UNCHANGED <<directory, handle>>
    BY <1>2 DEF fs_write, Inode
  <2> HIDE DEF n
  <2>2. Listed(inodes', directory')
    BY <1>0, <2>1, SizeKeepsInodes, ListedSize
  <2>3. DOMAIN disks' = DOMAIN disks /\ \A d \in DOMAIN disks \ {handle} : disks'[d] = disks[d]
    BY <1>2, WriteDisk
  <2>4. QED
    BY <2>1, <2>2, <2>3, ListedFrom
<1>3. ASSUME NEW length \in Lengths, fs_truncate(f, length)
      PROVE  ListedInv'
  <2> DEFINE n == length % SIZE_RANGE
  <2>1. inodes' = [inodes EXCEPT ![fds[f].inodeNum].fileSize = n] /\ UNCHANGED <<directory, handle, disks>>
    BY <1>3 DEF fs_truncate
  <2> HIDE DEF n
  <2>2. Listed(inodes', directory')
    BY <1>0, <2>1, SizeKeepsInodes, ListedSize
  <2>3. QED
    BY <2>1, <2>2, ListedFrom
<1>4. CASE \/ fs_close(f)
           \/ \E nbyte \in 1..BLOCK_SIZE : fs_read(f, nbyte)
           \/ \E offset \in 0..OFFSET_LIMIT : fs_lseek(f, offset)
  BY <1>1, <1>4 DEF fs_close, fs_read, fs_lseek
<1>5. QED
  BY <1>2, <1>3, <1>4

LEMMA ListedStep == TInv /\ ListedInv /\ [Next]_fsVars => ListedInv'
<1> SUFFICES ASSUME TInv, ListedInv, [Next]_fsVars PROVE ListedInv'
  OBVIOUS
<1>1. CASE UNCHANGED fsVars
  BY <1>1 DEF fsVars, ListedInv
<1>2. QED
  BY <1>1, ListedMakeMount, ListedUmount, ListedNames, ListedFds DEF Next

LEMMA ListedInit == Init => ListedInv
BY ListedEmpty DEF Init, ListedInv

LEMMA TypesAlways == Spec => []TInv
BY InitTypes, TypesStep, PTL DEF Spec

(* Every directory entry in use has an inode of its own: through creations *)
(* that take the lowest free entries, deletions, remounts, and calls of    *)
(* make_fs and mount_fs that empty the tables of a mounted disk.           *)
THEOREM InodesAreNotShared == Spec => []OneInodeEach
<1>1. ListedInv => OneInodeEach
  BY DEF ListedInv, Listed, OneInodeEach
<1>2. QED
  BY <1>1, ListedInit, ListedStep, TypesAlways, PTL DEF Spec
----------------------------------------------------------------------------
(* Blocks. *)

LEMMA ApartEmpty == ASSUME NEW image, NEW bits, 0 \in bits PROVE Apart(image, bits, NoInodes)
BY DEF Apart, NoInodes, NoInode

(* Writing file contents, or block 0, keeps the files apart; so does a     *)
(* larger bitmap.                                                          *)
LEMMA ApartKeep ==
    ASSUME NEW image, NEW nodes \in InodeTable, NEW bits, Apart(image, bits, nodes),
           NEW image2, \A c \in Blocks \ {0} : image2[c].entry = image[c].entry,
           NEW nodes2, DOMAIN nodes2 = DOMAIN nodes,
           \A i \in DOMAIN nodes :
                /\ nodes2[i].isUsed = nodes[i].isUsed
                /\ nodes2[i].singleIndirectBlock = nodes[i].singleIndirectBlock,
           NEW bits2, bits \subseteq bits2
    PROVE  Apart(image2, bits2, nodes2)
<1>1. \A i \in DOMAIN nodes : nodes[i].singleIndirectBlock \in Blocks
  BY DEF InodeTable, InodeEntry
<1>2. ASSUME NEW i \in DOMAIN nodes, nodes[i].isUsed
      PROVE  /\ OwnedOn(image2, nodes2, i) = OwnedOn(image, nodes, i)
             /\ image2[nodes2[i].singleIndirectBlock].entry
                    = image[nodes[i].singleIndirectBlock].entry
  <2>1. nodes[i].singleIndirectBlock \in Blocks \ {0}
    BY <1>1, <1>2 DEF Apart, OwnedOn
  <2>2. QED
    BY <2>1 DEF OwnedOn
<1>3. QED
  BY <1>2 DEF Apart

LEMMA ApartCreate ==
    ASSUME NEW image, NEW nodes \in InodeTable, NEW bits, Apart(image, bits, nodes),
           NEW i \in DOMAIN nodes, ~nodes[i].isUsed,
           NEW a \in Blocks \ bits, NEW b \in Blocks \ bits, a # b,
           NEW image2, image2[a].entry = b,
           \A c \in Blocks \ {a} : image2[c] = image[c],
           NEW nodes2,
           nodes2 = [nodes EXCEPT ![i] =
                        [isUsed |-> TRUE, singleIndirectBlock |-> a, fileSize |-> 0]]
    PROVE  Apart(image2, bits \cup {a, b}, nodes2)
<1>1. \A j \in DOMAIN nodes : nodes[j].singleIndirectBlock \in Blocks
  BY DEF InodeTable, InodeEntry
<1>2. DOMAIN nodes2 = DOMAIN nodes /\ \A j \in DOMAIN nodes : j # i => nodes2[j] = nodes[j]
  OBVIOUS
<1>3. nodes2[i].singleIndirectBlock = a
  OBVIOUS
<1>4. OwnedOn(image2, nodes2, i) = {a, b} /\ 0 \notin {a, b}
  BY <1>3 DEF OwnedOn, Apart
<1>5. ASSUME NEW j \in DOMAIN nodes, j # i, nodes2[j].isUsed
      PROVE  /\ nodes[j].isUsed
             /\ OwnedOn(image2, nodes2, j) = OwnedOn(image, nodes, j)
             /\ OwnedOn(image, nodes, j) \subseteq bits \ {0}
             /\ image2[nodes2[j].singleIndirectBlock].entry # nodes2[j].singleIndirectBlock
  <2>1. nodes2[j] = nodes[j]
    BY <1>2, <1>5
  <2>2. nodes[j].singleIndirectBlock \in bits
    BY <1>5, <2>1 DEF Apart, OwnedOn
  <2>3. image2[nodes[j].singleIndirectBlock] = image[nodes[j].singleIndirectBlock]
    BY <1>1, <2>2
  <2>4. QED
    BY <1>5, <2>1, <2>3 DEF OwnedOn, Apart
<1>6. ASSUME NEW j \in DOMAIN nodes, NEW k \in DOMAIN nodes,
             nodes2[j].isUsed, nodes2[k].isUsed, j # k
      PROVE  OwnedOn(image2, nodes2, j) \cap OwnedOn(image2, nodes2, k) = {}
  <2>1. CASE j # i /\ k # i
    BY <1>5, <1>6, <2>1 DEF Apart
  <2>2. CASE j = i \/ k = i
    BY <1>4, <1>5, <1>6, <2>2
  <2>3. QED
    BY <2>1, <2>2
<1>7. \A j \in DOMAIN nodes : nodes2[j].isUsed =>
        /\ image2[nodes2[j].singleIndirectBlock].entry # nodes2[j].singleIndirectBlock
        /\ OwnedOn(image2, nodes2, j) \subseteq (bits \cup {a, b}) \ {0}
  BY <1>3, <1>4, <1>5
<1>8. QED
  BY <1>2, <1>6, <1>7, ZenonT(60) DEF Apart

LEMMA ApartDelete ==
    ASSUME NEW image, NEW nodes \in InodeTable, NEW bits, Apart(image, bits, nodes),
           NEW i \in DOMAIN nodes, nodes[i].isUsed,
           NEW image2, \A c \in Blocks \ OwnedOn(image, nodes, i) : image2[c] = image[c],
           NEW nodes2, nodes2 = [nodes EXCEPT ![i] = NoInode]
    PROVE  Apart(image2, bits \ OwnedOn(image, nodes, i), nodes2)
<1>1. \A j \in DOMAIN nodes : nodes[j].singleIndirectBlock \in Blocks
  BY DEF InodeTable, InodeEntry
<1>2. DOMAIN nodes2 = DOMAIN nodes /\ \A j \in DOMAIN nodes : j # i => nodes2[j] = nodes[j]
  OBVIOUS
<1>3. ~nodes2[i].isUsed
  BY DEF NoInode
<1>4. ASSUME NEW j \in DOMAIN nodes, nodes2[j].isUsed
      PROVE  /\ j # i /\ nodes[j].isUsed
             /\ OwnedOn(image2, nodes2, j) = OwnedOn(image, nodes, j)
             /\ OwnedOn(image, nodes, j) \subseteq (bits \ OwnedOn(image, nodes, i)) \ {0}
             /\ image2[nodes2[j].singleIndirectBlock].entry # nodes2[j].singleIndirectBlock
  <2>1. j # i /\ nodes2[j] = nodes[j] /\ nodes[j].isUsed
    BY <1>2, <1>3, <1>4
  <2>2. OwnedOn(image, nodes, j) \cap OwnedOn(image, nodes, i) = {}
    BY <2>1 DEF Apart
  <2>3. nodes[j].singleIndirectBlock \notin OwnedOn(image, nodes, i)
    BY <2>2 DEF OwnedOn
  <2>4. image2[nodes[j].singleIndirectBlock] = image[nodes[j].singleIndirectBlock]
    BY <1>1, <2>3
  <2>5. OwnedOn(image, nodes, j) \subseteq bits \ {0}
        /\ image[nodes[j].singleIndirectBlock].entry # nodes[j].singleIndirectBlock
    BY <2>1 DEF Apart
  <2>6. OwnedOn(image2, nodes2, j) = OwnedOn(image, nodes, j)
    BY <2>1, <2>4 DEF OwnedOn
  <2>7. QED
    BY <2>1, <2>2, <2>4, <2>5, <2>6
<1>5. 0 \in bits \ OwnedOn(image, nodes, i)
  BY DEF Apart
<1>6. ASSUME NEW j \in DOMAIN nodes, NEW k \in DOMAIN nodes,
             nodes2[j].isUsed, nodes2[k].isUsed, j # k
      PROVE  OwnedOn(image2, nodes2, j) \cap OwnedOn(image2, nodes2, k) = {}
  BY <1>4, <1>6 DEF Apart
<1> DEFINE bits2 == bits \ OwnedOn(image, nodes, i)
<1>7. \A j \in DOMAIN nodes : nodes2[j].isUsed =>
        /\ image2[nodes2[j].singleIndirectBlock].entry # nodes2[j].singleIndirectBlock
        /\ OwnedOn(image2, nodes2, j) \subseteq bits2 \ {0}
  BY <1>4
<1>8. 0 \in bits2 /\ DOMAIN nodes2 = DOMAIN nodes
  BY <1>2, <1>5
<1> HIDE DEF bits2
<1>9. Apart(image2, bits2, nodes2)
  BY <1>6, <1>7, <1>8 DEF Apart
<1>10. QED
  BY <1>9 DEF bits2

Careful == "mounts" \notin Careless

LEMMA ApartMakeMount ==
    ASSUME Careful, TInv, ApartInv, MountInv, NEW d \in Disks,
           make_fs(d) \/ mount_fs(d) \/ MountFails(d)
    PROVE  ApartInv' /\ MountInv'
<1>1. handle = NoDisk /\ ~readyForUse
  BY DEF Careful, MountInv, make_fs, mount_fs, MountFails
<1>2. CASE make_fs(d)
  <2>1. UNCHANGED <<fds, readyForUse, handle>>
    BY <1>2 DEF make_fs
  <2>2. /\ DOMAIN disks' = DOMAIN disks \cup {d}
        /\ \A e \in DOMAIN disks : e # d => disks'[e] = disks[e]
        /\ disks'[d][0].bitmap = {0} /\ disks'[d][0].inodes = NoInodes
    BY <1>1, <1>2, ZeroIsBlock DEF make_fs, Blank, Metadata
  <2>3. QED
    BY <1>1, <2>1, <2>2, ApartEmpty DEF ApartInv, MountInv
<1>3. CASE mount_fs(d)
  <2>1. d \in DOMAIN disks /\ d # NoDisk /\ UNCHANGED <<disks, fds>>
    BY <1>3, FileSystemAssumption DEF mount_fs
  <2>2. /\ readyForUse' /\ handle' = d
        /\ usedBlocksBitmap' = disks[d][0].bitmap /\ inodes' = disks[d][0].inodes
    BY <1>3 DEF mount_fs
  <2>3. handle \notin DOMAIN disks
    BY <1>1, TablesType, FileSystemAssumption DEF TInv
  <2>4. QED
    BY <2>1, <2>2, <2>3 DEF ApartInv, MountInv
<1>4. CASE MountFails(d)
  BY <1>1, <1>4 DEF MountFails, ApartInv, MountInv
<1>5. QED
  BY <1>2, <1>3, <1>4

LEMMA ApartUmount ==
    ASSUME TInv, ApartInv, MountInv, umount_fs
    PROVE  ApartInv' /\ MountInv'
<1> DEFINE block == Metadata(usedBlocksBitmap, inodes, directory)
<1>1. block \in Superblock /\ block.inodes = inodes /\ block.bitmap = usedBlocksBitmap
  BY Superblocks, TablesType DEF TInv, Metadata
<1> HIDE DEF block
<1>2. BlockWrite(0, block) /\ readyForUse
  BY DEF umount_fs, block
<1>3. /\ DOMAIN disks' = DOMAIN disks
      /\ \A d \in DOMAIN disks \ {handle} : disks'[d] = disks[d]
      /\ \A c \in Blocks \ {0} : disks'[handle][c] = disks[handle][c]
      /\ disks'[handle][0] = block
  BY <1>1, <1>2, WriteType, ZeroIsBlock
<1>4. Apart(disks'[handle], usedBlocksBitmap, inodes)
  BY <1>2, <1>3, ApartKeep, TablesType DEF ApartInv, TInv
<1>5. \A d \in DOMAIN disks' : Apart(disks'[d], disks'[d][0].bitmap, disks'[d][0].inodes)
  BY <1>1, <1>3, <1>4 DEF ApartInv
<1>6. handle' = NoDisk /\ ~readyForUse' /\ fds' = NoFds
  BY DEF umount_fs
<1>7. QED
  BY <1>5, <1>6 DEF ApartInv, MountInv

(* Calls on the mounted disk. *)
LEMMA ApartFrom ==
    ASSUME ApartInv, MountInv, readyForUse, UNCHANGED <<handle, readyForUse>>,
           DOMAIN disks' = DOMAIN disks,
           \A d \in DOMAIN disks \ {handle} : disks'[d] = disks[d],
           Apart(disks'[handle], usedBlocksBitmap', inodes')
    PROVE  ApartInv' /\ MountInv'
BY DEF ApartInv, MountInv

LEMMA ApartCreateCall ==
    ASSUME TInv, ApartInv, MountInv, NEW name \in Names, fs_create(name)
    PROVE  ApartInv' /\ MountInv'
<1> DEFINE i == First(FreeInodes)
<1>1. CanCreate(name) /\ readyForUse /\ UNCHANGED <<handle, readyForUse>>
  BY DEF fs_create, CanCreate
<1>2. PICK a, b \in FreeBlocks : a < b /\ Taken = {a, b} /\ First(Taken) = a
                                 /\ First(Taken \ {First(Taken)}) = b
  BY <1>1, CanCreateTakes
<1>3. i \in 0..(MAX_FILES - 1) /\ ~inodes[i].isUsed
  BY <1>1, CanCreateTakes
<1> HIDE DEF i
<1>4. a \in Blocks \ usedBlocksBitmap /\ b \in Blocks \ usedBlocksBitmap /\ a # b
  BY <1>2, ZeroIsBlock DEF FreeBlocks
<1>5. inodes' = [inodes EXCEPT ![i] = [isUsed |-> TRUE, singleIndirectBlock |-> a, fileSize |-> 0]]
  BY <1>2 DEF fs_create, i
<1>6. BlockWrite(a, Index(b)) /\ usedBlocksBitmap' = usedBlocksBitmap \cup {a, b}
  BY <1>2 DEF fs_create
<1>7. Index(b) \in Block /\ Index(b).entry = b
  BY <1>4, BlankBlocks DEF Index, Zeroes
<1>8. /\ DOMAIN disks' = DOMAIN disks
      /\ \A d \in DOMAIN disks \ {handle} : disks'[d] = disks[d]
      /\ \A c \in Blocks \ {a} : disks'[handle][c] = disks[handle][c]
      /\ disks'[handle][a] = Index(b)
  BY <1>1, <1>4, <1>6, <1>7, WriteType
<1>9. Apart(disks[handle], usedBlocksBitmap, inodes) /\ inodes \in InodeTable
      /\ DOMAIN inodes = 0..(MAX_FILES - 1)
  BY <1>1, TablesType DEF ApartInv, TInv, InodeTable
<1>10. Apart(disks'[handle], usedBlocksBitmap', inodes')
  BY <1>3, <1>4, <1>5, <1>6, <1>7, <1>8, <1>9, ApartCreate, ZenonT(60)
<1>11. QED
  BY <1>1, <1>8, <1>10, ApartFrom

LEMMA ApartDeleteCall ==
    ASSUME TInv, ListedInv, ApartInv, MountInv, NEW name \in Names, fs_delete(name)
    PROVE  ApartInv' /\ MountInv'
<1>1. PICK e \in EntriesOf(name) : Remove(e)
  BY DEF fs_delete
<1>2. readyForUse /\ e \in DOMAIN directory /\ directory[e].name # NoName
  BY DEF fs_delete, EntriesOf
<1> DEFINE i     == directory[e].inodeNum
           index == inodes[i].singleIndirectBlock
           block == disks[handle][index].entry
           freed == {index} \cup ({block} \ {0})
<1>3. Apart(disks[handle], usedBlocksBitmap, inodes) /\ inodes \in InodeTable
  BY <1>2, TablesType DEF ApartInv, TInv
<1>4. i \in DOMAIN inodes /\ inodes[i].isUsed
  BY <1>2, TablesType DEF TInv, NameTable, NameEntry, InodeTable, ListedInv, Listed
<1>5. freed = OwnedOn(disks[handle], inodes, i)
  BY <1>3, <1>4 DEF Apart, OwnedOn
<1>6. /\ DOMAIN disks' = DOMAIN disks
      /\ \A d \in DOMAIN disks \ {handle} : disks'[d] = disks[d]
      /\ \A b \in Blocks \ freed : disks'[handle][b] = disks[handle][b]
  BY <1>1, <1>2, RemoveDisk
<1>7. /\ inodes' = [inodes EXCEPT ![i] = NoInode]
      /\ usedBlocksBitmap' = usedBlocksBitmap \ freed
      /\ UNCHANGED <<handle, readyForUse>>
  BY <1>1 DEF Remove
<1> HIDE DEF freed, i
<1>8. Apart(disks'[handle], usedBlocksBitmap', inodes')
  BY <1>3, <1>4, <1>5, <1>6, <1>7, ApartDelete
<1>9. QED
  BY <1>2, <1>6, <1>7, <1>8, ApartFrom

LEMMA ApartNameCall ==
    ASSUME TInv, ApartInv, MountInv, NEW name, CreateFails(name) \/ fs_open(name)
    PROVE  ApartInv' /\ MountInv'
<1>1. CASE CreateFails(name)
  <2>1. UNCHANGED <<disks, inodes, handle, readyForUse, fds>> /\ usedBlocksBitmap \subseteq usedBlocksBitmap'
    BY <1>1 DEF CreateFails
  <2>2. readyForUse => Apart(disks'[handle], usedBlocksBitmap', inodes')
    BY <2>1, ApartKeep, TablesType DEF ApartInv, TInv
  <2>3. QED
    BY <2>1, <2>2 DEF ApartInv, MountInv
<1>2. CASE fs_open(name)
  BY <1>2 DEF fs_open, ApartInv, MountInv
<1>3. QED
  BY <1>1, <1>2

LEMMA ApartFileCall ==
    ASSUME TInv, ApartInv, MountInv, NEW f \in DOMAIN fds,
           \/ fs_close(f)
           \/ \E nbyte \in 1..BLOCK_SIZE :
                \/ fs_read(f, nbyte)
                \/ \E v \in Data : fs_write(f, v, nbyte)
           \/ \E offset \in 0..OFFSET_LIMIT : fs_lseek(f, offset)
           \/ \E length \in Lengths : fs_truncate(f, length)
    PROVE  ApartInv' /\ MountInv'
<1>0. inodes \in InodeTable /\ f \in 0..(MAX_FDS - 1)
  BY TablesType, FdType DEF TInv
<1>1. CASE fs_close(f)
  <2>1. readyForUse
    <3>1. fds[f].isUsed
      BY <1>1 DEF fs_close
    <3>2. QED
      BY <1>0, <3>1 DEF MountInv, NoFds, NoFd
  <2>2. QED
    BY <1>1, <2>1 DEF fs_close, ApartInv, MountInv
<1>2. CASE \/ \E nbyte \in 1..BLOCK_SIZE : fs_read(f, nbyte)
           \/ \E offset \in 0..OFFSET_LIMIT : fs_lseek(f, offset)
  BY <1>2 DEF fs_read, fs_lseek, ApartInv, MountInv
<1>3. ASSUME NEW nbyte \in 1..BLOCK_SIZE, NEW v \in Data, fs_write(f, v, nbyte)
      PROVE  ApartInv' /\ MountInv'
  <2> DEFINE n == (Inode(f).fileSize + nbyte) % SIZE_RANGE
  <2>1. /\ inodes' = [inodes EXCEPT ![fds[f].inodeNum].fileSize = n]
        /\ UNCHANGED <<usedBlocksBitmap, handle, readyForUse>> /\ readyForUse
    BY <1>3 DEF fs_write, Inode
  <2> HIDE DEF n
  <2>2. /\ DOMAIN disks' = DOMAIN disks
        /\ \A d \in DOMAIN disks \ {handle} : disks'[d] = disks[d]
        /\ \A c \in Blocks \ {0} : disks'[handle][c].entry = disks[handle][c].entry
    BY <1>3, WriteDisk
  <2>3. /\ DOMAIN inodes' = DOMAIN inodes
        /\ \A i \in DOMAIN inodes :
            /\ inodes'[i].isUsed = inodes[i].isUsed
            /\ inodes'[i].singleIndirectBlock = inodes[i].singleIndirectBlock
    BY <2>1, SizeKeepsInodes
  <2>4. Apart(disks[handle], usedBlocksBitmap, inodes) /\ usedBlocksBitmap \subseteq usedBlocksBitmap'
    BY <2>1 DEF ApartInv
  <2>5. Apart(disks'[handle], usedBlocksBitmap', inodes')
    BY <1>0, <2>2, <2>3, <2>4, ApartKeep
  <2>6. QED
    BY <2>1, <2>2, <2>5, ApartFrom
<1>4. ASSUME NEW length \in Lengths, fs_truncate(f, length)
      PROVE  ApartInv' /\ MountInv'
  <2> DEFINE n == length % SIZE_RANGE
  <2>1. /\ inodes' = [inodes EXCEPT ![fds[f].inodeNum].fileSize = n]
        /\ UNCHANGED <<usedBlocksBitmap, handle, readyForUse, disks>> /\ readyForUse
    BY <1>4 DEF fs_truncate
  <2> HIDE DEF n
  <2>2. Apart(disks'[handle], usedBlocksBitmap', inodes')
    BY <1>0, <2>1, SizeKeepsInodes, ApartKeep DEF ApartInv
  <2>3. QED
    BY <2>1, <2>2, ApartFrom
<1>5. QED
  BY <1>1, <1>2, <1>3, <1>4

LEMMA ApartStep ==
    ASSUME Careful
    PROVE  TInv /\ ListedInv /\ ApartInv /\ MountInv /\ [Next]_fsVars => ApartInv' /\ MountInv'
<1> SUFFICES ASSUME TInv, ListedInv, ApartInv, MountInv, [Next]_fsVars
             PROVE  ApartInv' /\ MountInv'
  OBVIOUS
<1>1. CASE UNCHANGED fsVars
  BY <1>1 DEF fsVars, ApartInv, MountInv
<1>2. CASE \E name \in Names :
            fs_create(name) \/ CreateFails(name) \/ fs_delete(name) \/ fs_open(name)
  BY <1>2, ApartCreateCall, ApartDeleteCall, ApartNameCall
<1>3. CASE \E f \in DOMAIN fds :
            \/ fs_close(f)
            \/ \E nbyte \in 1..BLOCK_SIZE :
                \/ fs_read(f, nbyte)
                \/ \E v \in Data : fs_write(f, v, nbyte)
            \/ \E offset \in 0..OFFSET_LIMIT : fs_lseek(f, offset)
            \/ \E length \in Lengths : fs_truncate(f, length)
  BY <1>3, ApartFileCall
<1>4. QED
  BY <1>1, <1>2, <1>3, ApartMakeMount, ApartUmount DEF Next

LEMMA ApartInit == Init => ApartInv /\ MountInv
BY DEF Init, ApartInv, MountInv

(* Two blocks of their own. *)
LEMMA OwnedPair ==
    ASSUME TInv, ApartInv, readyForUse
    PROVE  FilesApart
<1>1. \A i \in DOMAIN inodes : Owned(i) = OwnedOn(disks[handle], inodes, i)
  BY DEF Owned, OwnedOn
<1>2. Apart(disks[handle], usedBlocksBitmap, inodes)
  BY DEF ApartInv
<1>3. ASSUME NEW x, NEW y, x # y PROVE Cardinality({x, y}) = 2
  <2>1. IsFiniteSet({x}) /\ Cardinality({x}) = 1
    BY FS_Singleton
  <2>2. y \notin {x} /\ {x, y} = {x} \cup {y}
    BY <1>3
  <2>3. Cardinality({x} \cup {y}) = Cardinality({x}) + 1
    BY <2>1, <2>2, FS_AddElement
  <2>4. QED
    BY <2>1, <2>2, <2>3
<1>4. \A i \in UsedInodes : Cardinality(OwnedOn(disks[handle], inodes, i)) = 2
  BY <1>2, <1>3 DEF Apart, OwnedOn, UsedInodes
<1>5. QED
  BY <1>1, <1>2, <1>4 DEF Apart, FilesApart, UsedInodes

(* No two files share a block and none has block 0, on any disk and across *)
(* any number of creations, deletions, failed creations and remounts, if   *)
(* make_fs and mount_fs are called only while nothing is mounted.          *)
THEOREM FilesStayApart == ASSUME Careful PROVE Spec => []FilesApart
<1> DEFINE I == ApartInv /\ MountInv
<1>1. TInv /\ I => FilesApart
  BY OwnedPair DEF FilesApart
<1>2. Init => I
  BY ApartInit
<1>3. TInv /\ ListedInv /\ I /\ [Next]_fsVars => I'
  BY ApartStep
<1>4. Spec => [](TInv /\ ListedInv)
  BY TypesAlways, ListedInit, ListedStep, PTL DEF Spec
<1> HIDE DEF I
<1>5. QED
  BY <1>1, <1>2, <1>3, <1>4, PTL DEF Spec
----------------------------------------------------------------------------
(* Descriptors. *)

(* A listed inode has one name. *)
LEMMA NamesOne ==
    ASSUME NEW nodes, NEW names, Listed(nodes, names),
           NEW e \in DOMAIN names, names[e].name # NoName, NEW n, names[e].inodeNum = n
    PROVE  {names[x].name : x \in {g \in DOMAIN names : names[g].isUsed /\ names[g].inodeNum = n}}
                = {names[e].name}
<1>1. {g \in DOMAIN names : names[g].isUsed /\ names[g].inodeNum = n} = {e}
  BY DEF Listed
<1>2. QED
  BY <1>1

(* What an open descriptor stands for before and after a call. *)
Keeps(f) ==
    fds'[f].isUsed =>
        \E e \in DOMAIN directory :
            /\ directory'[e].name # NoName
            /\ directory'[e].inodeNum = fds'[f].inodeNum
            /\ fds[f].isUsed => /\ directory[e].name = directory'[e].name
                                /\ directory[e].inodeNum = fds[f].inodeNum

LEMMA KeepsMakeMount ==
    ASSUME Careful, FilesInv, NEW d \in Disks, make_fs(d) \/ mount_fs(d) \/ MountFails(d),
           NEW f \in DOMAIN fds
    PROVE  Keeps(f)
<1>1. ~readyForUse /\ fds' = fds
  BY DEF Careful, FilesInv, MountInv, make_fs, mount_fs, MountFails
<1>2. fds = NoFds
  BY <1>1 DEF FilesInv, MountInv
<1>3. ~fds[f].isUsed
  BY <1>2 DEF NoFds, NoFd
<1>4. QED
  BY <1>1, <1>3 DEF Keeps

LEMMA KeepsUmount == ASSUME FilesInv, umount_fs, NEW f \in DOMAIN fds PROVE Keeps(f)
<1>1. f \in 0..(MAX_FDS - 1) /\ fds' = NoFds
  BY FdType DEF FilesInv, umount_fs
<1>2. QED
  BY <1>1 DEF Keeps, NoFds, NoFd

(* Calls that change neither the directory nor what a descriptor is of. *)
LEMMA KeepsSame ==
    ASSUME FilesInv, UNCHANGED directory, NEW f \in DOMAIN fds,
           fds'[f].isUsed =>
                fds[f].isUsed /\ fds'[f].inodeNum = fds[f].inodeNum
    PROVE  Keeps(f)
BY DEF Keeps, FilesInv, FdsInv

LEMMA KeepsCreate ==
    ASSUME FilesInv, NEW name \in Names, fs_create(name), NEW f \in DOMAIN fds
    PROVE  Keeps(f)
<1> DEFINE e == First(FreeEntries)
           entry == [isUsed |-> TRUE, inodeNum |-> First(FreeInodes), name |-> name]
<1>1. directory[e].name = NoName
  BY CanCreateTakes DEF fs_create, FilesInv
<1>2. directory' = [directory EXCEPT ![e] = entry] /\ UNCHANGED fds
  BY DEF fs_create
<1> HIDE DEF e, entry
<1>3. SUFFICES ASSUME fds[f].isUsed PROVE Keeps(f)
  BY <1>2 DEF Keeps
<1>4. PICK g \in DOMAIN directory :
        directory[g].name # NoName /\ directory[g].inodeNum = fds[f].inodeNum
  BY <1>3 DEF FilesInv, FdsInv
<1>5. directory'[g] = directory[g]
  BY <1>1, <1>2, <1>4
<1>6. QED
  BY <1>2, <1>4, <1>5 DEF Keeps

LEMMA KeepsDelete ==
    ASSUME FilesInv, NEW name, fs_delete(name), NEW f \in DOMAIN fds
    PROVE  Keeps(f)
<1>1. PICK e \in EntriesOf(name) : ~IsOpen(directory[e].inodeNum) /\ Remove(e)
  BY DEF fs_delete
<1>2. directory' = [directory EXCEPT ![e] = NoEntry] /\ UNCHANGED fds
  BY <1>1 DEF Remove
<1>3. SUFFICES ASSUME fds[f].isUsed PROVE Keeps(f)
  BY <1>2 DEF Keeps
<1>4. PICK g \in DOMAIN directory :
        directory[g].name # NoName /\ directory[g].inodeNum = fds[f].inodeNum
  BY <1>3 DEF FilesInv, FdsInv
<1>5. g # e
  BY <1>1, <1>3, <1>4 DEF IsOpen
<1>6. directory'[g] = directory[g]
  BY <1>2, <1>4, <1>5
<1>7. QED
  BY <1>2, <1>4, <1>6 DEF Keeps

LEMMA KeepsOpen ==
    ASSUME FilesInv, NEW name, fs_open(name), NEW f \in DOMAIN fds
    PROVE  Keeps(f)
<1> DEFINE o == First(FreeFds)
<1>1. PICK e \in EntriesOf(name) :
        fds' = [fds EXCEPT ![o] =
                    [isUsed |-> TRUE, inodeNum |-> directory[e].inodeNum, offset |-> 0]]
  BY DEF fs_open
<1>2. e \in DOMAIN directory /\ directory[e].name # NoName /\ UNCHANGED directory
  BY DEF EntriesOf, fs_open
<1>3. o \in FreeFds
  <2>1. FreeFds \in SUBSET Nat /\ FreeFds # {}
    BY TablesType DEF FreeFds, fs_open, TInv, FdTable, FilesInv
  <2>2. QED
    BY <2>1, FirstOf
<1>4. o \in DOMAIN fds /\ ~fds[o].isUsed
  BY <1>3 DEF FreeFds
<1> HIDE DEF o
<1>5. CASE f = o
  BY <1>1, <1>2, <1>4, <1>5 DEF Keeps
<1>6. CASE f # o
  <2>1. fds'[f] = fds[f]
    BY <1>1, <1>6
  <2>2. QED
    BY <1>2, <2>1, KeepsSame
<1>7. QED
  BY <1>5, <1>6

LEMMA KeepsFileCall ==
    ASSUME FilesInv, NEW f \in DOMAIN fds, NEW g \in DOMAIN fds,
           \/ fs_close(g)
           \/ \E nbyte \in 1..BLOCK_SIZE :
                \/ fs_read(g, nbyte)
                \/ \E v \in Data : fs_write(g, v, nbyte)
           \/ \E offset \in 0..OFFSET_LIMIT : fs_lseek(g, offset)
           \/ \E length \in Lengths : fs_truncate(g, length)
    PROVE  Keeps(f)
<1>0. fds \in FdTable
  BY TablesType DEF FilesInv, TInv
<1>1. UNCHANGED directory
  BY DEF fs_close, fs_read, fs_write, fs_lseek, fs_truncate
<1>2. CASE fs_close(g)
  <2>1. fds' = [fds EXCEPT ![g] = NoFd] /\ ~NoFd.isUsed
    BY <1>2 DEF fs_close, NoFd
  <2>2. fds'[f].isUsed => fds'[f] = fds[f]
    BY <2>1
  <2>3. QED
    BY <1>1, <2>2, KeepsSame
<1>3. CASE \E at : fds' = [fds EXCEPT ![g].offset = at]
  <2>1. fds'[f].isUsed = fds[f].isUsed /\ fds'[f].inodeNum = fds[f].inodeNum
    BY <1>0, <1>3 DEF FdTable, FdEntry
  <2>2. QED
    BY <1>1, <2>1, KeepsSame
<1>4. CASE UNCHANGED fds
  BY <1>1, <1>4, KeepsSame
<1>5. QED
  BY <1>2, <1>3, <1>4 DEF fs_read, fs_write, fs_lseek, fs_truncate

LEMMA KeepsStep ==
    ASSUME Careful, FilesInv, [Next]_fsVars, NEW f \in DOMAIN fds
    PROVE  Keeps(f)
<1>1. CASE UNCHANGED fsVars
  BY <1>1, KeepsSame DEF fsVars
<1>2. CASE \E name \in Names :
            fs_create(name) \/ CreateFails(name) \/ fs_delete(name) \/ fs_open(name)
  <2>1. ASSUME NEW name, CreateFails(name) PROVE Keeps(f)
    BY <2>1, KeepsSame DEF CreateFails
  <2>2. QED
    BY <1>2, <2>1, KeepsCreate, KeepsDelete, KeepsOpen
<1>3. CASE \E g \in DOMAIN fds :
            \/ fs_close(g)
            \/ \E nbyte \in 1..BLOCK_SIZE :
                \/ fs_read(g, nbyte)
                \/ \E v \in Data : fs_write(g, v, nbyte)
            \/ \E offset \in 0..OFFSET_LIMIT : fs_lseek(g, offset)
            \/ \E length \in Lengths : fs_truncate(g, length)
  BY <1>3, KeepsFileCall
<1>4. QED
  BY <1>1, <1>2, <1>3, KeepsMakeMount, KeepsUmount DEF Next

LEMMA SameDomains ==
    ASSUME TInv, TInv' PROVE DOMAIN fds' = DOMAIN fds /\ DOMAIN directory' = DOMAIN directory
<1>1. fds \in FdTable /\ directory \in NameTable
  BY TablesType DEF TInv
<1>2. fds' \in FdTable /\ directory' \in NameTable
  BY DEF TInv, FTypeOK, FdTable, NameTable, FdEntry, NameEntry
<1>3. QED
  BY <1>1, <1>2 DEF FdTable, NameTable

LEMMA FilesStep == ASSUME Careful PROVE FilesInv /\ [Next]_fsVars => FilesInv'
<1> SUFFICES ASSUME FilesInv, [Next]_fsVars PROVE FilesInv'
  OBVIOUS
<1>1. TInv' /\ ListedInv' /\ ApartInv' /\ MountInv'
  BY TypesStep, ListedStep, ApartStep DEF FilesInv
<1>2. \A f \in DOMAIN fds : Keeps(f)
  BY KeepsStep
<1>3. FdsInv'
  BY <1>1, <1>2, SameDomains DEF FdsInv, Keeps, FilesInv
<1>4. QED
  BY <1>1, <1>3 DEF FilesInv

LEMMA FilesInit == Init => FilesInv
<1>1. Init => FdsInv
  BY DEF Init, FdsInv, NoFds, NoFd
<1>2. QED
  BY <1>1, InitTypes, ListedInit, ApartInit DEF FilesInv

LEMMA FilesAlways == ASSUME Careful PROVE Spec => []FilesInv
BY FilesInit, FilesStep, PTL DEF Spec

LEMMA NamesKept ==
    ASSUME Careful, FilesInv, FilesInv', [Next]_fsVars,
           NEW f \in DOMAIN fds, fds[f].isUsed, fds'[f].isUsed
    PROVE  NamesOf(f)' = NamesOf(f) /\ NamesOf(f) # {}
<1>1. PICK e \in DOMAIN directory :
        /\ directory'[e].name # NoName
        /\ directory'[e].inodeNum = fds'[f].inodeNum
        /\ directory[e].name = directory'[e].name
        /\ directory[e].inodeNum = fds[f].inodeNum
  BY KeepsStep DEF Keeps
<1>2. Listed(inodes, directory) /\ Listed(inodes', directory')
  BY DEF FilesInv, ListedInv
<1>3. e \in DOMAIN directory'
  BY SameDomains DEF FilesInv
<1>4. NamesOf(f) = {directory[e].name}
  BY <1>1, <1>2, NamesOne DEF NamesOf
<1>5. NamesOf(f)' = {directory'[e].name}
  BY <1>1, <1>2, <1>3, NamesOne DEF NamesOf
<1>6. QED
  BY <1>1, <1>4, <1>5

(* A descriptor never outlives its file, nor comes to stand for another    *)
(* one, however deletions and creations reuse inodes and entries.          *)
THEOREM DescriptorsKeepFiles == ASSUME Careful PROVE Spec => FdKeepsFile
<1> DEFINE Kept == \A f \in DOMAIN fds :
                        fds[f].isUsed /\ fds'[f].isUsed =>
                            NamesOf(f)' = NamesOf(f) /\ NamesOf(f) # {}
<1>1. FilesInv /\ FilesInv' /\ [Next]_fsVars => [Kept]_fsVars
  BY NamesKept
<1>2. QED
  BY <1>1, FilesAlways, PTL DEF Spec, FdKeepsFile
----------------------------------------------------------------------------
(***************************************************************************)
(* The file system implements the files by name of AbstractFileSystem, as  *)
(* long as the program mounts and makes disks only while none is mounted,  *)
(* keeps its reads within the file, its sizes within 16 bits and both      *)
(* within the first block, and gives fs_truncate no negative length.       *)
(***************************************************************************)

InFirstBlock == OFFSET_LIMIT <= BLOCK_SIZE
NoNegative   == Lengths \subseteq Nat
CarefulCalls == "reads" \notin Careless /\ "sizes" \notin Careless

(* What inode i holds. *)
FileOf(image, nodes, i) ==
    [size     |-> nodes[i].fileSize,
     contents |-> image[image[nodes[i].singleIndirectBlock].entry].cells]

NamesListed(names) == {names[e].name : e \in {x \in DOMAIN names : names[x].name # NoName}}

EmptyFiles == [n \in {} |-> {}]
----------------------------------------------------------------------------
(* The files of a disk, entry by entry. *)

LEMMA FilesOfListed ==
    ASSUME NEW image, NEW nodes, NEW names, Listed(nodes, names)
    PROVE  /\ FilesOf(image, nodes, names)
                = [n \in NamesListed(names) |-> FilesOf(image, nodes, names)[n]]
           /\ \A e \in DOMAIN names : names[e].name # NoName =>
                FilesOf(image, nodes, names)[names[e].name]
                    = FileOf(image, nodes, names[e].inodeNum)
<1> DEFINE listed == {e \in DOMAIN names : names[e].name # NoName}
           Of(n) == CHOOSE x \in listed : names[x].name = n
<1>1. FilesOf(image, nodes, names)
        = [n \in {names[e].name : e \in listed} |-> FileOf(image, nodes, names[Of(n)].inodeNum)]
  BY DEF FilesOf, FileOf
<1>2. \A e \in listed : Of(names[e].name) = e
  BY DEF Listed
<1> HIDE DEF Of
<1>3. \A e \in listed : FilesOf(image, nodes, names)[names[e].name]
                            = FileOf(image, nodes, names[e].inodeNum)
  BY <1>1, <1>2
<1>4. {names[e].name : e \in listed} = NamesListed(names)
  BY DEF NamesListed
<1>5. QED
  BY <1>1, <1>3, <1>4

LEMMA FilesAre ==
    ASSUME NEW image, NEW nodes, NEW names, Listed(nodes, names),
           NEW F, F = [n \in NamesListed(names) |-> F[n]],
           \A e \in DOMAIN names : names[e].name # NoName =>
                F[names[e].name] = FileOf(image, nodes, names[e].inodeNum)
    PROVE  FilesOf(image, nodes, names) = F
<1> DEFINE G == FilesOf(image, nodes, names)
<1>1. G = [n \in NamesListed(names) |-> G[n]]
      /\ \A e \in DOMAIN names : names[e].name # NoName =>
            G[names[e].name] = FileOf(image, nodes, names[e].inodeNum)
  BY FilesOfListed
<1> HIDE DEF G
<1>2. \A n \in NamesListed(names) : G[n] = F[n]
  BY <1>1 DEF NamesListed
<1>3. G = F
  BY <1>1, <1>2
<1>4. QED
  BY <1>3 DEF G

LEMMA FilesSame ==
    ASSUME NEW image, NEW nodes, NEW names, Listed(nodes, names),
           NEW image2, NEW nodes2, Listed(nodes2, names),
           \A e \in DOMAIN names : names[e].name # NoName =>
                FileOf(image2, nodes2, names[e].inodeNum) = FileOf(image, nodes, names[e].inodeNum)
    PROVE  FilesOf(image2, nodes2, names) = FilesOf(image, nodes, names)
<1> DEFINE F == FilesOf(image, nodes, names)
<1>1. F = [n \in NamesListed(names) |-> F[n]]
      /\ \A e \in DOMAIN names : names[e].name # NoName =>
            F[names[e].name] = FileOf(image2, nodes2, names[e].inodeNum)
  BY FilesOfListed
<1> HIDE DEF F
<1>2. FilesOf(image2, nodes2, names) = F
  BY <1>1, FilesAre
<1>3. QED
  BY <1>2 DEF F

LEMMA FilesNone == ASSUME NEW image PROVE FilesOf(image, NoInodes, NoNames) = EmptyFiles
<1>1. NamesListed(NoNames) = {}
  BY DEF NamesListed, NoNames, NoEntry
<1>2. FilesOf(image, NoInodes, NoNames)
        = [n \in NamesListed(NoNames) |-> FilesOf(image, NoInodes, NoNames)[n]]
  BY ListedEmpty, FilesOfListed
<1>3. QED
  BY <1>1, <1>2 DEF EmptyFiles

(* A file keeps its contents when its two blocks and its inode do. *)
LEMMA FileKept ==
    ASSUME NEW image, NEW nodes, NEW i, NEW image2, NEW nodes2,
           nodes2[i].fileSize = nodes[i].fileSize,
           nodes2[i].singleIndirectBlock = nodes[i].singleIndirectBlock,
           \A b \in OwnedOn(image, nodes, i) : image2[b] = image[b]
    PROVE  FileOf(image2, nodes2, i) = FileOf(image, nodes, i)
<1>1. image2[nodes2[i].singleIndirectBlock] = image[nodes[i].singleIndirectBlock]
  BY DEF OwnedOn
<1>2. image2[image[nodes[i].singleIndirectBlock].entry]
        = image[image[nodes[i].singleIndirectBlock].entry]
  BY DEF OwnedOn
<1>3. QED
  BY <1>1, <1>2 DEF FileOf
----------------------------------------------------------------------------
(* The state that the calls are to keep. *)

(* A listed entry's inode is in use, with blocks of its own. *)
LEMMA ListedInode ==
    ASSUME FilesInv, NEW e \in DOMAIN directory, directory[e].name # NoName
    PROVE  directory[e].inodeNum \in DOMAIN inodes /\ inodes[directory[e].inodeNum].isUsed
<1>1. inodes \in InodeTable /\ directory \in NameTable /\ Listed(inodes, directory)
  BY TablesType DEF FilesInv, TInv, ListedInv
<1>2. QED
  BY <1>1 DEF Listed, InodeTable, NameTable, NameEntry

LEMMA MountedListed ==
    ASSUME FilesInv, readyForUse
    PROVE  /\ MountedFiles = FilesOf(disks[handle], inodes, directory)
           /\ MountedFiles = [n \in NamesListed(directory) |-> MountedFiles[n]]
           /\ DOMAIN MountedFiles = NamesListed(directory)
           /\ \A e \in DOMAIN directory : directory[e].name # NoName =>
                /\ directory[e].name \in DOMAIN MountedFiles
                /\ MountedFiles[directory[e].name]
                    = FileOf(disks[handle], inodes, directory[e].inodeNum)
<1>1. Listed(inodes, directory)
  BY DEF FilesInv, ListedInv
<1>2. MountedFiles = FilesOf(disks[handle], inodes, directory)
  BY DEF MountedFiles
<1>3. MountedFiles = [n \in NamesListed(directory) |-> MountedFiles[n]]
  BY <1>1, <1>2, FilesOfListed
<1>4. DOMAIN MountedFiles = NamesListed(directory)
  BY <1>3
<1>5. \A e \in DOMAIN directory : directory[e].name # NoName =>
        directory[e].name \in NamesListed(directory)
  BY DEF NamesListed
<1>6. \A e \in DOMAIN directory : directory[e].name # NoName =>
        FilesOf(disks[handle], inodes, directory)[directory[e].name]
            = FileOf(disks[handle], inodes, directory[e].inodeNum)
  BY <1>1, FilesOfListed
<1>7. QED
  BY <1>2, <1>3, <1>4, <1>5, <1>6

LEMMA OpenFile ==
    ASSUME FilesInv, NEW f \in DOMAIN fds, fds[f].isUsed
    PROVE  /\ readyForUse
           /\ f \in DOMAIN OpenFiles
           /\ OpenFiles[f].at = fds[f].offset
           /\ OpenFiles[f].file \in DOMAIN MountedFiles
           /\ \E e \in DOMAIN directory :
                /\ directory[e].name # NoName
                /\ directory[e].inodeNum = fds[f].inodeNum
                /\ OpenFiles[f].file = directory[e].name
           /\ MountedFiles[OpenFiles[f].file] = FileOf(disks[handle], inodes, fds[f].inodeNum)
<1>1. readyForUse
  <2>1. f \in 0..(MAX_FDS - 1)
    BY FdType DEF FilesInv
  <2>2. QED
    BY <2>1 DEF FilesInv, MountInv, NoFds, NoFd
<1>2. PICK e \in DOMAIN directory :
        directory[e].name # NoName /\ directory[e].inodeNum = fds[f].inodeNum
  BY DEF FilesInv, FdsInv
<1>3. NamesOf(f) = {directory[e].name}
  <2>1. Listed(inodes, directory)
    BY DEF FilesInv, ListedInv
  <2>2. QED
    BY <1>2, <2>1, NamesOne DEF NamesOf
<1>4. (CHOOSE n \in NamesOf(f) : TRUE) = directory[e].name
  BY <1>3
<1>5. f \in DOMAIN OpenFiles /\ OpenFiles[f] = [file |-> directory[e].name, at |-> fds[f].offset]
  BY <1>4 DEF OpenFiles
<1>6. QED
  BY <1>1, <1>2, <1>5, MountedListed

LEMMA OpenDomain ==
    ASSUME FilesInv
    PROVE  /\ DOMAIN OpenFiles = {f \in DOMAIN fds : fds[f].isUsed}
           /\ OpenFiles = [f \in DOMAIN OpenFiles |-> OpenFiles[f]]
           /\ \A f \in DOMAIN OpenFiles :
                OpenFiles[f] = [file |-> OpenFiles[f].file, at |-> OpenFiles[f].at]
BY DEF OpenFiles

(* Calls that leave the disks that are not mounted. *)
LEMMA StoredSame ==
    ASSUME UNCHANGED handle, DOMAIN disks' = DOMAIN disks,
           \A d \in DOMAIN disks \ {handle} : disks'[d] = disks[d]
    PROVE  StoredFiles' = StoredFiles
BY DEF StoredFiles

LEMMA OpenSame ==
    ASSUME Careful, FilesInv, FilesInv', [Next]_fsVars, UNCHANGED fds
    PROVE  OpenFiles' = OpenFiles
<1>1. \A f \in DOMAIN fds : fds[f].isUsed => NamesOf(f)' = NamesOf(f)
  BY NamesKept
<1>2. QED
  BY <1>1 DEF OpenFiles

(* What is left to show of a call that opens or moves: the descriptors     *)
(* other than f stay as they are.                                          *)
LEMMA OpenOthers ==
    ASSUME Careful, FilesInv, FilesInv', [Next]_fsVars,
           NEW f \in DOMAIN fds, \A g \in DOMAIN fds \ {f} : fds'[g] = fds[g]
    PROVE  \A g \in DOMAIN fds \ {f} :
                /\ g \in DOMAIN OpenFiles' <=> g \in DOMAIN OpenFiles
                /\ g \in DOMAIN OpenFiles => OpenFiles'[g] = OpenFiles[g]
<1>1. \A g \in DOMAIN fds : fds[g].isUsed /\ fds'[g].isUsed => NamesOf(g)' = NamesOf(g)
  BY NamesKept
<1>2. DOMAIN fds' = DOMAIN fds
  BY SameDomains DEF FilesInv
<1>3. QED
  BY <1>1, <1>2 DEF OpenFiles
----------------------------------------------------------------------------
(* make_fs, mount_fs, umount_fs *)

Unmounted ==
    /\ MountedFiles = EmptyFiles
    /\ OpenFiles = EmptyFiles
    /\ handle = NoDisk
    /\ handle \notin DOMAIN disks

LEMMA EmptyWhenUnmounted == FilesInv /\ ~readyForUse => Unmounted
<1> SUFFICES ASSUME FilesInv, ~readyForUse PROVE Unmounted
  OBVIOUS
<1>1. fds = NoFds /\ handle = NoDisk
  BY DEF FilesInv, MountInv
<1>2. {g \in DOMAIN fds : fds[g].isUsed} = {}
  BY <1>1 DEF NoFds, NoFd
<1>3. OpenFiles = EmptyFiles
  BY <1>2 DEF OpenFiles, EmptyFiles
<1>4. QED
  BY <1>1, <1>3, TablesType, FileSystemAssumption
     DEF MountedFiles, EmptyFiles, FilesInv, TInv, Unmounted

LEMMA EmptyAfterwards == (FilesInv /\ ~readyForUse => Unmounted)'
BY EmptyWhenUnmounted, PTL

LEMMA MakeImplements ==
    ASSUME Careful, FilesInv, FilesInv', NEW d \in Disks, make_fs(d)
    PROVE  Abstract!MakeFS(d)
<1>1. handle = NoDisk /\ ~readyForUse /\ UNCHANGED <<fds, readyForUse, handle>>
  BY DEF Careful, FilesInv, MountInv, make_fs
<1>2. /\ MountedFiles = EmptyFiles /\ OpenFiles = EmptyFiles
      /\ handle \notin DOMAIN disks
  BY <1>1, EmptyWhenUnmounted DEF Unmounted
<1>3. MountedFiles' = EmptyFiles /\ OpenFiles' = EmptyFiles
      /\ handle' \notin DOMAIN disks'
  BY <1>1, EmptyAfterwards DEF Unmounted
<1>4. /\ DOMAIN disks' = DOMAIN disks \cup {d}
      /\ \A e \in DOMAIN disks : e # d => disks'[e] = disks[e]
      /\ disks'[d][0].inodes = NoInodes /\ disks'[d][0].directory = NoNames
  BY <1>1, ZeroIsBlock DEF make_fs, Blank, Metadata
<1>5. DOMAIN StoredFiles = DOMAIN disks /\ DOMAIN StoredFiles' = DOMAIN disks \cup {d}
  BY <1>2, <1>3, <1>4 DEF StoredFiles
<1>6. StoredFiles'[d] = EmptyFiles
  BY <1>3, <1>4, FilesNone DEF StoredFiles
<1>7. \A e \in DOMAIN disks : e # d => StoredFiles'[e] = StoredFiles[e]
  BY <1>2, <1>3, <1>4 DEF StoredFiles
<1>8. StoredFiles' = [e \in DOMAIN StoredFiles' |-> StoredFiles'[e]]
  BY DEF StoredFiles
<1>9. StoredFiles' = [e \in DOMAIN StoredFiles \cup {d} |->
                        IF e = d THEN EmptyFiles ELSE StoredFiles[e]]
  BY <1>5, <1>6, <1>7, <1>8
<1>10. QED
  BY <1>1, <1>2, <1>3, <1>9 DEF Abstract!MakeFS, EmptyFiles

LEMMA MountImplements ==
    ASSUME Careful, FilesInv, FilesInv', NEW d \in Disks, mount_fs(d)
    PROVE  Abstract!Mount(d)
<1>1. /\ handle = NoDisk /\ ~readyForUse /\ d \in DOMAIN disks
      /\ UNCHANGED <<fds, disks>> /\ handle' = d /\ readyForUse'
      /\ inodes' = disks[d][0].inodes /\ directory' = disks[d][0].directory
  BY DEF FilesInv, MountInv, mount_fs
<1>2. handle \notin DOMAIN disks /\ OpenFiles = EmptyFiles
  BY <1>1, EmptyWhenUnmounted DEF Unmounted
<1>3. DOMAIN StoredFiles = DOMAIN disks /\ DOMAIN StoredFiles' = DOMAIN disks \ {d}
  BY <1>1, <1>2 DEF StoredFiles
<1>4. StoredFiles' = [e \in DOMAIN StoredFiles \ {d} |-> StoredFiles[e]]
  BY <1>1, <1>2, <1>3 DEF StoredFiles
<1>5. MountedFiles' = StoredFiles[d]
  BY <1>1, <1>2 DEF MountedFiles, StoredFiles
<1>6. OpenFiles' = EmptyFiles
  <2>1. fds' = NoFds
    BY <1>1 DEF FilesInv, MountInv
  <2>2. {g \in DOMAIN fds' : fds'[g].isUsed} = {}
    BY <2>1 DEF NoFds, NoFd
  <2>3. QED
    BY <2>2 DEF OpenFiles, EmptyFiles
<1>7. QED
  BY <1>1, <1>2, <1>3, <1>4, <1>5, <1>6 DEF Abstract!Mount

LEMMA MountFailsImplements ==
    ASSUME Careful, FilesInv, FilesInv', NEW d \in Disks, MountFails(d)
    PROVE  UNCHANGED <<StoredFiles, handle, MountedFiles, OpenFiles>>
<1>1. ~readyForUse /\ UNCHANGED <<readyForUse, disks, handle>>
  BY DEF Careful, FilesInv, MountInv, MountFails
<1>2. UNCHANGED <<MountedFiles, OpenFiles>>
  BY <1>1, EmptyWhenUnmounted, EmptyAfterwards DEF Unmounted
<1>3. UNCHANGED StoredFiles
  BY <1>1, StoredSame
<1>4. QED
  BY <1>1, <1>2, <1>3

LEMMA UmountImplements ==
    ASSUME FilesInv, FilesInv', umount_fs
    PROVE  Abstract!Umount
<1> DEFINE block == Metadata(usedBlocksBitmap, inodes, directory)
<1>1. block \in Superblock /\ block.inodes = inodes /\ block.directory = directory
  BY Superblocks, TablesType DEF FilesInv, TInv, Metadata
<1> HIDE DEF block
<1>2. BlockWrite(0, block) /\ readyForUse /\ ~readyForUse' /\ handle' = NoDisk
  BY DEF umount_fs, block
<1>3. /\ DOMAIN disks' = DOMAIN disks
      /\ \A d \in DOMAIN disks \ {handle} : disks'[d] = disks[d]
      /\ \A c \in Blocks \ {0} : disks'[handle][c] = disks[handle][c]
      /\ disks'[handle][0] = block
  BY <1>1, <1>2, WriteType, ZeroIsBlock DEF FilesInv
<1>4. handle \in DOMAIN disks /\ handle # NoDisk
  BY <1>2 DEF FilesInv, TInv, DisksOK, MountInv
<1>5. MountedFiles' = EmptyFiles /\ OpenFiles' = EmptyFiles /\ handle' \notin DOMAIN disks'
  BY <1>2, EmptyAfterwards DEF Unmounted
<1>6. FilesOf(disks'[handle], inodes, directory) = MountedFiles
  <2>1. Listed(inodes, directory) /\ Apart(disks[handle], usedBlocksBitmap, inodes)
    BY <1>2 DEF FilesInv, ListedInv, ApartInv
  <2>2. ASSUME NEW e \in DOMAIN directory, directory[e].name # NoName
        PROVE  FileOf(disks'[handle], inodes, directory[e].inodeNum)
                = FileOf(disks[handle], inodes, directory[e].inodeNum)
    <3>1. directory[e].inodeNum \in DOMAIN inodes /\ inodes[directory[e].inodeNum].isUsed
      BY <2>2, ListedInode
    <3>2. OwnedOn(disks[handle], inodes, directory[e].inodeNum) \subseteq usedBlocksBitmap \ {0}
      BY <2>1, <3>1 DEF Apart
    <3>3. usedBlocksBitmap \subseteq Blocks
      BY TablesType DEF FilesInv, TInv
    <3>4. QED
      BY <1>3, <3>2, <3>3, FileKept
  <2>3. QED
    BY <1>2, <2>1, <2>2, FilesSame DEF MountedFiles
<1>7. DOMAIN StoredFiles = DOMAIN disks \ {handle} /\ DOMAIN StoredFiles' = DOMAIN disks
  BY <1>3, <1>5 DEF StoredFiles
<1>8. \A d \in DOMAIN disks \ {handle} : StoredFiles'[d] = StoredFiles[d]
  BY <1>3, <1>5 DEF StoredFiles
<1>9. StoredFiles'[handle] = MountedFiles
  BY <1>1, <1>3, <1>4, <1>5, <1>6 DEF StoredFiles
<1>10. StoredFiles' = [d \in DOMAIN StoredFiles' |-> StoredFiles'[d]]
  BY DEF StoredFiles
<1>11. StoredFiles' = [d \in DOMAIN StoredFiles \cup {handle} |->
                        IF d = handle THEN MountedFiles ELSE StoredFiles[d]]
  BY <1>4, <1>7, <1>8, <1>9, <1>10
<1>12. QED
  BY <1>2, <1>4, <1>5, <1>11 DEF Abstract!Umount, EmptyFiles
----------------------------------------------------------------------------
(* fs_create, fs_delete *)

LEMMA MountedIs ==
    ASSUME FilesInv', readyForUse',
           NEW F, F = [n \in NamesListed(directory') |-> F[n]],
           \A e \in DOMAIN directory' : directory'[e].name # NoName =>
                F[directory'[e].name] = FileOf(disks'[handle'], inodes', directory'[e].inodeNum)
    PROVE  MountedFiles' = F
<1>1. Listed(inodes', directory')
  BY DEF FilesInv, ListedInv
<1>2. FilesOf(disks'[handle'], inodes', directory') = F
  BY <1>1, FilesAre
<1>3. QED
  BY <1>2 DEF MountedFiles

(* With a free entry there is room for one more name. *)
LEMMA RoomForName ==
    ASSUME FilesInv, NEW e \in DOMAIN directory, directory[e].name = NoName
    PROVE  Cardinality(NamesListed(directory)) < MAX_FILES
<1> DEFINE all == 0..(MAX_FILES - 1)
           listed == {x \in DOMAIN directory : directory[x].name # NoName}
           named == [x \in listed |-> directory[x].name]
<1>1. DOMAIN directory = all
  BY TablesType DEF FilesInv, TInv, NameTable
<1>2. IsFiniteSet(all) /\ Cardinality(all) = MAX_FILES
  <2>1. MAX_FILES \in Nat \ {0} /\ MAX_FILES - 1 \in Int /\ 0 \in Int /\ ~(0 > MAX_FILES - 1)
    BY FileSystemAssumption
  <2>2. IsFiniteSet(0..(MAX_FILES - 1))
        /\ Cardinality(0..(MAX_FILES - 1)) = IF 0 > MAX_FILES - 1 THEN 0 ELSE (MAX_FILES - 1) - 0 + 1
    BY <2>1, FS_Interval, Zenon
  <2>3. QED
    BY <2>1, <2>2
<1>3. listed \in SUBSET all /\ listed # all
  BY <1>1
<1> HIDE DEF listed, all
<1>4. IsFiniteSet(listed) /\ Cardinality(listed) <= MAX_FILES /\ Cardinality(listed) # MAX_FILES
  <2>1. /\ IsFiniteSet(listed)
        /\ Cardinality(listed) <= Cardinality(all)
        /\ Cardinality(all) = Cardinality(listed) => all = listed
    BY <1>2, <1>3, FS_Subset, Zenon
  <2>2. QED
    BY <1>2, <1>3, <2>1
<1>5. named \in Surjection(listed, NamesListed(directory))
  BY DEF Surjection, NamesListed, listed
<1> HIDE DEF named
<1>6. IsFiniteSet(NamesListed(directory))
      /\ Cardinality(NamesListed(directory)) <= Cardinality(listed)
  BY <1>4, <1>5, FS_Surjection
<1>7. Cardinality(listed) \in Nat /\ Cardinality(NamesListed(directory)) \in Nat
  BY <1>4, <1>6, FS_CardinalityType
<1>8. QED
  BY <1>4, <1>6, <1>7, FileSystemAssumption

LEMMA SameCardinality == ASSUME NEW S PROVE Abstract!Cardinality(S) = Cardinality(S)
BY DEF Cardinality, Abstract!Cardinality

LEMMA CreateImplements ==
    ASSUME Careful, FilesInv, FilesInv', NEW name \in Names, fs_create(name), [Next]_fsVars
    PROVE  IF name = NoName THEN UNCHANGED <<StoredFiles, handle, MountedFiles, OpenFiles>>
                            ELSE Abstract!Create(name)
<1> DEFINE i == First(FreeInodes)
           e == First(FreeEntries)
           entry == [isUsed |-> TRUE, inodeNum |-> i, name |-> name]
           image == disks[handle]
<1>1. CanCreate(name) /\ readyForUse /\ UNCHANGED <<fds, handle, readyForUse>>
  BY DEF fs_create, CanCreate
<1>2. PICK a, b \in FreeBlocks : a < b /\ Taken = {a, b} /\ First(Taken) = a
                                 /\ First(Taken \ {First(Taken)}) = b
  BY <1>1, CanCreateTakes DEF FilesInv
<1>3. /\ i \in 0..(MAX_FILES - 1) /\ ~inodes[i].isUsed
      /\ e \in 0..(MAX_FILES - 1) /\ directory[e].name = NoName
  BY <1>1, CanCreateTakes DEF FilesInv
<1>4. name \notin LongNames /\ (name # NoName => \A g \in DOMAIN directory : directory[g].name # name)
  BY <1>1 DEF CanCreate, EntriesOf
<1>5. directory' = [directory EXCEPT ![e] = entry]
  BY DEF fs_create
<1>6. entry.name = name /\ entry.inodeNum = i
  OBVIOUS
<1> HIDE DEF i, e, entry
<1>7. a \in Blocks \ usedBlocksBitmap /\ b \in Blocks \ usedBlocksBitmap /\ a # b
  BY <1>2, ZeroIsBlock DEF FreeBlocks
<1>8. inodes' = [inodes EXCEPT ![i] = [isUsed |-> TRUE, singleIndirectBlock |-> a, fileSize |-> 0]]
  BY <1>2 DEF fs_create, i
<1>9. BlockWrite(a, Index(b))
  BY <1>2 DEF fs_create
<1>10. Index(b) \in Block /\ Index(b).entry = b
  BY <1>7, BlankBlocks DEF Index, Zeroes
<1>11. /\ DOMAIN disks' = DOMAIN disks
       /\ \A d \in DOMAIN disks \ {handle} : disks'[d] = disks[d]
       /\ \A c \in Blocks \ {a} : disks'[handle][c] = image[c]
       /\ disks'[handle][a] = Index(b)
  BY <1>1, <1>7, <1>9, <1>10, WriteType DEF FilesInv
<1>12. DOMAIN inodes = 0..(MAX_FILES - 1) /\ DOMAIN directory = 0..(MAX_FILES - 1)
  BY TablesType DEF FilesInv, TInv, InodeTable, NameTable
<1>13. /\ \A g \in DOMAIN directory : g # e => directory'[g] = directory[g]
       /\ directory'[e] = entry /\ DOMAIN directory' = DOMAIN directory
  BY <1>3, <1>5, <1>12
<1>14. ASSUME NEW g \in DOMAIN directory, directory[g].name # NoName
       PROVE  FileOf(disks'[handle], inodes', directory[g].inodeNum)
                = FileOf(image, inodes, directory[g].inodeNum)
  <2> DEFINE j == directory[g].inodeNum
  <2>1. j \in DOMAIN inodes /\ inodes[j].isUsed
    BY <1>14, ListedInode
  <2>2. inodes'[j] = inodes[j]
    BY <1>3, <1>8, <2>1
  <2>3. OwnedOn(image, inodes, j) \subseteq usedBlocksBitmap
    BY <1>1, <2>1 DEF FilesInv, ApartInv, Apart
  <2>4. \A c \in OwnedOn(image, inodes, j) : disks'[handle][c] = image[c]
    BY <1>7, <1>11, <2>3, TablesType DEF FilesInv, TInv
  <2> HIDE DEF j, image
  <2>5. FileOf(disks'[handle], inodes', j) = FileOf(image, inodes, j)
    BY <2>2, <2>4, FileKept
  <2>6. QED
    BY <2>5 DEF j
<1>15. UNCHANGED StoredFiles /\ UNCHANGED OpenFiles
  BY <1>1, <1>11, StoredSame, OpenSame
<1>16. CASE name = NoName
  <2>1. NamesListed(directory') = NamesListed(directory)
    BY <1>3, <1>6, <1>13, <1>16 DEF NamesListed
  <2>2. MountedFiles = [n \in NamesListed(directory') |-> MountedFiles[n]]
    BY <1>1, <2>1, MountedListed
  <2>3. \A g \in DOMAIN directory' : directory'[g].name # NoName =>
            MountedFiles[directory'[g].name] = FileOf(disks'[handle'], inodes', directory'[g].inodeNum)
    BY <1>1, <1>6, <1>13, <1>14, <1>16, MountedListed
  <2>4. MountedFiles' = MountedFiles
    BY <1>1, <2>2, <2>3, MountedIs
  <2>5. QED
    BY <1>1, <1>15, <1>16, <2>4
<1>17. CASE name # NoName
  <2> DEFINE c == disks'[handle][b].cells
             new == [size |-> 0, contents |-> c]
             F == [n \in NamesListed(directory) \cup {name} |->
                        IF n = name THEN new ELSE MountedFiles[n]]
  <2>1. NamesListed(directory') = NamesListed(directory) \cup {name}
    <3>1. \A n \in NamesListed(directory') : n \in NamesListed(directory) \cup {name}
      BY <1>6, <1>13 DEF NamesListed
    <3>2. name \in NamesListed(directory')
      BY <1>3, <1>6, <1>12, <1>13, <1>17 DEF NamesListed
    <3>3. \A n \in NamesListed(directory) : n \in NamesListed(directory')
      BY <1>3, <1>13 DEF NamesListed
    <3>4. QED
      BY <3>1, <3>2, <3>3
  <2>2. c \in [Cells -> Data \cup {Zero, Stray}]
    <3>1. b # 0
      BY <1>1, <1>7 DEF FilesInv, ApartInv, Apart
    <3>2. disks'[handle][b] = image[b] /\ handle \in DOMAIN disks
      BY <1>1, <1>7, <1>11 DEF FilesInv, TInv, DisksOK
    <3>3. image[b] \in Block
      BY <1>7, <3>1, <3>2, TablesType DEF FilesInv, TInv
    <3>4. QED
      BY <3>2, <3>3 DEF Block
  <2>3. FileOf(disks'[handle], inodes', i) = new
    BY <1>3, <1>8, <1>10, <1>11, <1>12 DEF FileOf
  <2>4. name \notin DOMAIN MountedFiles /\ DOMAIN MountedFiles = NamesListed(directory)
    BY <1>1, <1>4, <1>17, MountedListed DEF NamesListed
  <2> HIDE DEF new
  <2>5. F = [n \in NamesListed(directory') |-> F[n]]
    BY <2>1
  <2>6. \A g \in DOMAIN directory' : directory'[g].name # NoName =>
            F[directory'[g].name] = FileOf(disks'[handle'], inodes', directory'[g].inodeNum)
    <3>1. SUFFICES ASSUME NEW g \in DOMAIN directory, directory'[g].name # NoName
          PROVE  F[directory'[g].name] = FileOf(disks'[handle], inodes', directory'[g].inodeNum)
      BY <1>1, <1>13
    <3>2. CASE g = e
      BY <1>6, <1>13, <2>3, <3>2
    <3>3. CASE g # e
      <4>1. directory'[g] = directory[g] /\ directory[g].name # name
        BY <1>4, <1>13, <1>17, <3>3
      <4>2. directory[g].name \in NamesListed(directory)
        BY <3>1, <4>1 DEF NamesListed
      <4>3. F[directory[g].name] = MountedFiles[directory[g].name]
        BY <4>1, <4>2
      <4>4. MountedFiles[directory[g].name] = FileOf(image, inodes, directory[g].inodeNum)
        BY <1>1, <3>1, <4>1, MountedListed
      <4>5. QED
        BY <1>14, <3>1, <4>1, <4>3, <4>4
    <3>4. QED
      BY <3>2, <3>3
  <2>7. MountedFiles' = F
    <3> HIDE DEF F
    <3>1. QED
      BY <1>1, <2>5, <2>6, MountedIs
  <2>8. Abstract!Cardinality(DOMAIN MountedFiles) < MAX_FILES
    BY <1>3, <1>12, <2>4, RoomForName, SameCardinality
  <2>9. handle # NoDisk
    BY <1>1 DEF FilesInv, MountInv
  <2>10. \E z \in [Cells -> Data \cup {Zero, Stray}] :
            MountedFiles' = [k \in DOMAIN MountedFiles \cup {name} |->
                IF k = name THEN [size |-> 0, contents |-> z] ELSE MountedFiles[k]]
    BY <2>2, <2>4, <2>7 DEF new
  <2>11. QED
    BY <1>1, <1>15, <1>17, <2>4, <2>8, <2>9, <2>10 DEF Abstract!Create
<1>18. QED
  BY <1>16, <1>17

LEMMA DeleteImplements ==
    ASSUME Careful, FilesInv, FilesInv', NEW name \in Names, fs_delete(name), [Next]_fsVars
    PROVE  Abstract!Delete(name)
<1> DEFINE image == disks[handle]
<1>1. PICK e \in EntriesOf(name) : ~IsOpen(directory[e].inodeNum) /\ Remove(e)
  BY DEF fs_delete
<1>2. readyForUse /\ e \in DOMAIN directory /\ directory[e].name = name /\ name # NoName
  BY DEF fs_delete, EntriesOf
<1> DEFINE i     == directory[e].inodeNum
           index == inodes[i].singleIndirectBlock
           block == disks[handle][index].entry
           freed == {index} \cup ({block} \ {0})
<1>3. /\ DOMAIN disks' = DOMAIN disks
      /\ \A d \in DOMAIN disks \ {handle} : disks'[d] = disks[d]
      /\ \A b \in Blocks \ freed : disks'[handle][b] = image[b]
  BY <1>1, <1>2, RemoveDisk DEF FilesInv
<1>4. /\ inodes' = [inodes EXCEPT ![i] = NoInode]
      /\ directory' = [directory EXCEPT ![e] = NoEntry]
      /\ UNCHANGED <<fds, handle, readyForUse>>
  BY <1>1 DEF Remove
<1>5. Apart(image, usedBlocksBitmap, inodes) /\ Listed(inodes, directory)
  BY <1>2 DEF FilesInv, ApartInv, ListedInv
<1>6. i \in DOMAIN inodes /\ inodes[i].isUsed
  BY <1>2, ListedInode
<1>7. freed \subseteq OwnedOn(image, inodes, i)
  BY DEF OwnedOn
<1> HIDE DEF i, freed
<1>8. /\ \A g \in DOMAIN directory : g # e => directory'[g] = directory[g]
      /\ directory'[e].name = NoName /\ DOMAIN directory' = DOMAIN directory
  BY <1>2, <1>4 DEF NoEntry
<1>9. ASSUME NEW g \in DOMAIN directory, directory[g].name # NoName, g # e
      PROVE  FileOf(disks'[handle], inodes', directory[g].inodeNum)
                = FileOf(image, inodes, directory[g].inodeNum)
  <2> DEFINE j == directory[g].inodeNum
  <2>1. j \in DOMAIN inodes /\ inodes[j].isUsed
    BY <1>9, ListedInode
  <2>2. j # i
    BY <1>2, <1>5, <1>9 DEF Listed, i
  <2>3. inodes'[j] = inodes[j]
    BY <1>4, <2>1, <2>2
  <2>4. OwnedOn(image, inodes, j) \subseteq usedBlocksBitmap
        /\ OwnedOn(image, inodes, j) \cap OwnedOn(image, inodes, i) = {}
    BY <1>5, <1>6, <2>1, <2>2 DEF Apart
  <2>5. \A c \in OwnedOn(image, inodes, j) : disks'[handle][c] = image[c]
    BY <1>3, <1>7, <2>4, TablesType DEF FilesInv, TInv
  <2> HIDE DEF j, image
  <2>6. FileOf(disks'[handle], inodes', j) = FileOf(image, inodes, j)
    BY <2>3, <2>5, FileKept
  <2>7. QED
    BY <2>6 DEF j
<1>10. UNCHANGED StoredFiles /\ UNCHANGED OpenFiles
  BY <1>3, <1>4, StoredSame, OpenSame
<1> DEFINE F == [n \in NamesListed(directory) \ {name} |-> MountedFiles[n]]
<1>11. \A g \in DOMAIN directory : directory[g].name = name => g = e
  BY <1>2, <1>5 DEF Listed
<1>12. NamesListed(directory') = NamesListed(directory) \ {name}
  <2>1. \A n \in NamesListed(directory') : n \in NamesListed(directory) \ {name}
    BY <1>8, <1>11 DEF NamesListed
  <2>2. \A n \in NamesListed(directory) \ {name} : n \in NamesListed(directory')
    BY <1>2, <1>8 DEF NamesListed
  <2>3. QED
    BY <2>1, <2>2
<1>13. F = [n \in NamesListed(directory') |-> F[n]]
  BY <1>12
<1>14. \A g \in DOMAIN directory' : directory'[g].name # NoName =>
        F[directory'[g].name] = FileOf(disks'[handle'], inodes', directory'[g].inodeNum)
  <2>1. SUFFICES ASSUME NEW g \in DOMAIN directory, directory'[g].name # NoName
        PROVE  F[directory'[g].name] = FileOf(disks'[handle], inodes', directory'[g].inodeNum)
    BY <1>4, <1>8
  <2>2. g # e /\ directory'[g] = directory[g] /\ directory[g].name # name
    BY <1>8, <1>11, <2>1
  <2>3. directory[g].name \in NamesListed(directory)
    BY <2>1, <2>2 DEF NamesListed
  <2>4. F[directory[g].name] = MountedFiles[directory[g].name]
    BY <2>2, <2>3
  <2>5. MountedFiles[directory[g].name] = FileOf(image, inodes, directory[g].inodeNum)
    BY <1>2, <2>1, <2>2, MountedListed
  <2>6. QED
    BY <1>9, <2>1, <2>2, <2>4, <2>5
<1>15. MountedFiles' = F
  <2> HIDE DEF F
  <2>1. QED
    BY <1>2, <1>4, <1>13, <1>14, MountedIs
<1>16. DOMAIN MountedFiles = NamesListed(directory) /\ name \in DOMAIN MountedFiles
  BY <1>2, MountedListed
<1>17. ASSUME NEW f \in DOMAIN OpenFiles PROVE OpenFiles[f].file # name
  <2>1. f \in DOMAIN fds /\ fds[f].isUsed
    BY OpenDomain
  <2>2. PICK g \in DOMAIN directory :
            directory[g].inodeNum = fds[f].inodeNum /\ OpenFiles[f].file = directory[g].name
    BY <2>1, OpenFile
  <2>3. g # e
    BY <1>1, <2>1, <2>2 DEF IsOpen
  <2>4. QED
    BY <1>11, <2>2, <2>3
<1>18. QED
  BY <1>4, <1>10, <1>15, <1>16, <1>17 DEF Abstract!Delete
----------------------------------------------------------------------------
(* Calls on descriptors. *)

(* The descriptors after a call that leaves all but f. *)
LEMMA OpenAll ==
    ASSUME Careful, FilesInv, FilesInv', [Next]_fsVars,
           NEW f \in DOMAIN fds, \A g \in DOMAIN fds \ {f} : fds'[g] = fds[g],
           fds'[f].isUsed
    PROVE  OpenFiles' = [g \in DOMAIN OpenFiles \cup {f} |->
                            IF g = f THEN OpenFiles'[f] ELSE OpenFiles[g]]
<1>1. DOMAIN fds' = DOMAIN fds
  BY SameDomains DEF FilesInv
<1>2. DOMAIN OpenFiles = {g \in DOMAIN fds : fds[g].isUsed}
      /\ DOMAIN OpenFiles' = {g \in DOMAIN fds' : fds'[g].isUsed}
      /\ OpenFiles' = [g \in DOMAIN OpenFiles' |-> OpenFiles'[g]]
  BY DEF OpenFiles
<1>3. DOMAIN OpenFiles' = DOMAIN OpenFiles \cup {f}
  BY <1>1, <1>2
<1>4. \A g \in DOMAIN OpenFiles \ {f} : OpenFiles'[g] = OpenFiles[g]
  BY <1>2, OpenOthers
<1>5. QED
  BY <1>2, <1>3, <1>4

LEMMA OpenImplements ==
    ASSUME Careful, FilesInv, FilesInv', NEW name \in Names, fs_open(name), [Next]_fsVars
    PROVE  Abstract!Open(name)
<1>0. PICK o : o = First(FreeFds)
  OBVIOUS
<1>1. PICK e \in EntriesOf(name) :
        fds' = [fds EXCEPT ![o] =
                    [isUsed |-> TRUE, inodeNum |-> directory[e].inodeNum, offset |-> 0]]
  BY <1>0 DEF fs_open
<1>2. /\ e \in DOMAIN directory /\ directory[e].name = name /\ name # NoName
      /\ readyForUse
      /\ UNCHANGED <<inodes, directory, usedBlocksBitmap, readyForUse, disks, handle>>
  BY DEF EntriesOf, fs_open
<1>3. o \in FreeFds
  <2>1. FreeFds \in SUBSET Nat /\ FreeFds # {}
    BY TablesType DEF FreeFds, fs_open, TInv, FdTable, FilesInv
  <2>2. QED
    BY <1>0, <2>1, FirstOf
<1>4. o \in 0..(MAX_FDS - 1) /\ o \in DOMAIN fds /\ ~fds[o].isUsed
  BY <1>3, FdType DEF FreeFds, FilesInv
<1>5. o \notin DOMAIN OpenFiles
  BY <1>4 DEF OpenFiles
<1>6. /\ fds'[o].isUsed /\ fds'[o].inodeNum = directory[e].inodeNum /\ fds'[o].offset = 0
      /\ \A g \in DOMAIN fds \ {o} : fds'[g] = fds[g]
      /\ DOMAIN fds' = DOMAIN fds
  BY <1>1, <1>4
<1>7. NamesOf(o)' = {name}
  <2>1. Listed(inodes, directory)
    BY DEF FilesInv, ListedInv
  <2>2. {directory[x].name : x \in {g \in DOMAIN directory :
            directory[g].isUsed /\ directory[g].inodeNum = fds'[o].inodeNum}} = {name}
    BY <1>2, <1>6, <2>1, NamesOne
  <2>3. QED
    BY <1>2, <2>2 DEF NamesOf
<1>8. (CHOOSE n \in NamesOf(o)' : TRUE) = name
  BY <1>7
<1>9. OpenFiles'[o] = [file |-> name, at |-> 0]
  BY <1>4, <1>6, <1>8 DEF OpenFiles
<1>10. OpenFiles' = [g \in DOMAIN OpenFiles \cup {o} |->
                        IF g = o THEN [file |-> name, at |-> 0] ELSE OpenFiles[g]]
  BY <1>4, <1>6, <1>9, OpenAll
<1>11. UNCHANGED <<StoredFiles, MountedFiles>>
  BY <1>2, StoredSame DEF MountedFiles
<1>12. name \in DOMAIN MountedFiles
  BY <1>2, MountedListed
<1>13. QED
  BY <1>2, <1>4, <1>5, <1>10, <1>11, <1>12 DEF Abstract!Open

LEMMA CloseImplements ==
    ASSUME Careful, FilesInv, FilesInv', NEW f \in DOMAIN fds, fs_close(f), [Next]_fsVars
    PROVE  Abstract!Close(f) /\ f \in DOMAIN OpenFiles
<1>1. /\ fds' = [fds EXCEPT ![f] = NoFd] /\ fds[f].isUsed
      /\ UNCHANGED <<inodes, directory, usedBlocksBitmap, readyForUse, disks, handle>>
  BY DEF fs_close
<1>2. /\ ~fds'[f].isUsed /\ DOMAIN fds' = DOMAIN fds
      /\ \A g \in DOMAIN fds \ {f} : fds'[g] = fds[g]
  BY <1>1 DEF NoFd
<1>3. DOMAIN OpenFiles = {g \in DOMAIN fds : fds[g].isUsed}
      /\ DOMAIN OpenFiles' = {g \in DOMAIN fds' : fds'[g].isUsed}
      /\ OpenFiles' = [g \in DOMAIN OpenFiles' |-> OpenFiles'[g]]
  BY DEF OpenFiles
<1>4. DOMAIN OpenFiles' = DOMAIN OpenFiles \ {f}
  BY <1>2, <1>3
<1>5. \A g \in DOMAIN OpenFiles \ {f} : OpenFiles'[g] = OpenFiles[g]
  BY <1>2, <1>3, OpenOthers
<1>6. OpenFiles' = [g \in DOMAIN OpenFiles \ {f} |-> OpenFiles[g]]
  BY <1>3, <1>4, <1>5
<1>7. UNCHANGED <<StoredFiles, MountedFiles>>
  BY <1>1, StoredSame DEF MountedFiles
<1>8. QED
  BY <1>1, <1>3, <1>6, <1>7 DEF Abstract!Close

(* A new place of the file pointer. *)
LEMMA OpenMoved ==
    ASSUME Careful, FilesInv, FilesInv', [Next]_fsVars,
           NEW f \in DOMAIN fds, fds[f].isUsed, NEW at,
           fds' = [fds EXCEPT ![f].offset = at]
    PROVE  OpenFiles' = [OpenFiles EXCEPT ![f].at = at]
<1>1. fds[f] \in FdEntry
  BY TablesType DEF FilesInv, TInv, FdTable
<1>2. /\ fds'[f].isUsed /\ fds'[f].inodeNum = fds[f].inodeNum /\ fds'[f].offset = at
      /\ \A g \in DOMAIN fds \ {f} : fds'[g] = fds[g]
      /\ DOMAIN fds' = DOMAIN fds
  <2>1. fds'[f] = [fds[f] EXCEPT !.offset = at]
    OBVIOUS
  <2>2. QED
    BY <1>1, <2>1 DEF FdEntry
<1>3. NamesOf(f)' = NamesOf(f)
  BY <1>2, NamesKept
<1>4. f \in DOMAIN OpenFiles /\ OpenFiles[f] = [file |-> CHOOSE n \in NamesOf(f) : TRUE, at |-> fds[f].offset]
  BY DEF OpenFiles
<1>5. OpenFiles'[f] = [file |-> CHOOSE n \in NamesOf(f)' : TRUE, at |-> at]
  BY <1>2 DEF OpenFiles
<1> DEFINE name == CHOOSE n \in NamesOf(f) : TRUE
<1>6. OpenFiles'[f] = [file |-> name, at |-> at] /\ OpenFiles[f] = [file |-> name, at |-> fds[f].offset]
  BY <1>3, <1>4, <1>5, Zenon
<1> HIDE DEF name
<1>7. OpenFiles'[f] = [OpenFiles[f] EXCEPT !.at = at]
  BY <1>6
<1>8. OpenFiles' = [g \in DOMAIN OpenFiles \cup {f} |->
                        IF g = f THEN OpenFiles'[f] ELSE OpenFiles[g]]
  BY <1>2, OpenAll
<1>9. OpenFiles = [g \in DOMAIN OpenFiles |-> OpenFiles[g]] /\ DOMAIN OpenFiles \cup {f} = DOMAIN OpenFiles
  BY <1>4, OpenDomain
<1>10. QED
  BY <1>7, <1>8, <1>9

LEMMA OpenSize ==
    ASSUME FilesInv, NEW f \in DOMAIN fds, fds[f].isUsed
    PROVE  /\ f \in DOMAIN OpenFiles
           /\ OpenFiles[f].at = fds[f].offset
           /\ MountedFiles[OpenFiles[f].file].size = Inode(f).fileSize
<1>1. /\ f \in DOMAIN OpenFiles
      /\ OpenFiles[f].at = fds[f].offset
      /\ MountedFiles[OpenFiles[f].file] = FileOf(disks[handle], inodes, fds[f].inodeNum)
  BY OpenFile
<1>2. FileOf(disks[handle], inodes, fds[f].inodeNum).size = Inode(f).fileSize
  BY DEF FileOf, Inode
<1>3. QED
  BY <1>1, <1>2

LEMMA SeekImplements ==
    ASSUME Careful, InFirstBlock, FilesInv, FilesInv', [Next]_fsVars,
           NEW f \in DOMAIN fds, NEW offset \in 0..OFFSET_LIMIT, fs_lseek(f, offset)
    PROVE  /\ Abstract!Seek(f, offset) /\ f \in DOMAIN OpenFiles
           /\ offset \in 0..MountedFiles[OpenFiles[f].file].size
<1>1. /\ fds[f].isUsed /\ offset <= Inode(f).fileSize
      /\ fds' = [fds EXCEPT ![f].offset = offset]
      /\ UNCHANGED <<inodes, directory, usedBlocksBitmap, readyForUse, disks, handle>>
  BY DEF fs_lseek
<1>2. f \in DOMAIN OpenFiles /\ MountedFiles[OpenFiles[f].file].size = Inode(f).fileSize
  BY <1>1, OpenSize
<1>3. OpenFiles' = [OpenFiles EXCEPT ![f].at = offset]
  BY <1>1, OpenMoved
<1>4. UNCHANGED <<StoredFiles, MountedFiles>>
  BY <1>1, StoredSame DEF MountedFiles
<1>5. offset \in 0..MountedFiles[OpenFiles[f].file].size
  <2>1. Inode(f).fileSize \in Nat
    BY <1>1, FdType, FileSystemAssumption DEF FilesInv, InodeEntry
  <2>2. QED
    BY <1>1, <1>2, <2>1, FileSystemAssumption
<1>6. QED
  BY <1>1, <1>2, <1>3, <1>4, <1>5 DEF Abstract!Seek

LEMMA ReadImplements ==
    ASSUME Careful, CarefulCalls, FilesInv, FilesInv', [Next]_fsVars,
           NEW f \in DOMAIN fds, NEW nbyte \in 1..BLOCK_SIZE, fs_read(f, nbyte)
    PROVE  Abstract!Read(f, nbyte) /\ f \in DOMAIN OpenFiles
<1>1. /\ fds[f].isUsed /\ fds[f].offset + nbyte <= Inode(f).fileSize
      /\ fds' = [fds EXCEPT ![f].offset = fds[f].offset + nbyte]
      /\ UNCHANGED <<inodes, directory, usedBlocksBitmap, readyForUse, disks, handle>>
  BY DEF fs_read, ReadsWithin, CarefulCalls
<1>2. /\ f \in DOMAIN OpenFiles /\ MountedFiles[OpenFiles[f].file].size = Inode(f).fileSize
      /\ OpenFiles[f].at = fds[f].offset
  BY <1>1, OpenSize
<1>3. OpenFiles' = [OpenFiles EXCEPT ![f].at = fds[f].offset + nbyte]
  BY <1>1, OpenMoved
<1>4. OpenFiles' = [OpenFiles EXCEPT ![f].at = @ + nbyte]
  BY <1>2, <1>3
<1>5. UNCHANGED <<StoredFiles, MountedFiles>>
  BY <1>1, StoredSame DEF MountedFiles
<1>6. QED
  BY <1>1, <1>2, <1>4, <1>5 DEF Abstract!Read

(* The files after a call that changes the file of f only. *)
LEMMA OneFileChanged ==
    ASSUME FilesInv, FilesInv', UNCHANGED <<directory, handle, readyForUse>>,
           NEW f \in DOMAIN fds, fds[f].isUsed,
           NEW new, FileOf(disks'[handle], inodes', fds[f].inodeNum) = new,
           \A j \in DOMAIN inodes : inodes[j].isUsed /\ j # fds[f].inodeNum =>
                FileOf(disks'[handle], inodes', j) = FileOf(disks[handle], inodes, j)
    PROVE  MountedFiles' = [MountedFiles EXCEPT ![OpenFiles[f].file] = new]
<1> DEFINE name == OpenFiles[f].file
           F == [n \in NamesListed(directory) |-> IF n = name THEN new ELSE MountedFiles[n]]
<1>1. readyForUse /\ name \in DOMAIN MountedFiles
  BY OpenFile
<1>2. PICK e \in DOMAIN directory : directory[e].name # NoName
            /\ directory[e].inodeNum = fds[f].inodeNum /\ name = directory[e].name
  BY OpenFile
<1> HIDE DEF name
<1>3. Listed(inodes, directory)
  BY DEF FilesInv, ListedInv
<1>4. F = [n \in NamesListed(directory') |-> F[n]]
  OBVIOUS
<1>5. ASSUME NEW g \in DOMAIN directory, directory[g].name # NoName
      PROVE  F[directory[g].name] = FileOf(disks'[handle], inodes', directory[g].inodeNum)
  <2>1. directory[g].name \in NamesListed(directory)
    BY <1>5 DEF NamesListed
  <2>2. CASE g = e
    BY <1>2, <2>1, <2>2
  <2>3. CASE g # e
    <3>1. directory[g].name # name /\ directory[g].inodeNum # fds[f].inodeNum
      BY <1>2, <1>3, <1>5, <2>3 DEF Listed
    <3>2. directory[g].inodeNum \in DOMAIN inodes /\ inodes[directory[g].inodeNum].isUsed
      BY <1>5, ListedInode
    <3>3. FileOf(disks'[handle], inodes', directory[g].inodeNum)
            = FileOf(disks[handle], inodes, directory[g].inodeNum)
      BY <3>1, <3>2
    <3>4. F[directory[g].name] = MountedFiles[directory[g].name]
      BY <2>1, <3>1
    <3>5. QED
      BY <1>1, <1>5, <3>3, <3>4, MountedListed
  <2>4. QED
    BY <2>2, <2>3
<1>6. \A g \in DOMAIN directory' : directory'[g].name # NoName =>
            F[directory'[g].name] = FileOf(disks'[handle'], inodes', directory'[g].inodeNum)
  BY <1>5
<1>7. MountedFiles' = F
  <2> HIDE DEF F
  <2>1. QED
    BY <1>1, <1>4, <1>6, MountedIs
<1>8. MountedFiles = [n \in NamesListed(directory) |-> MountedFiles[n]]
  BY <1>1, MountedListed
<1>9. F = [MountedFiles EXCEPT ![name] = new]
  BY <1>1, <1>8
<1>10. QED
  BY <1>7, <1>9 DEF name

LEMMA TruncateImplements ==
    ASSUME Careful, NoNegative, FilesInv, FilesInv', [Next]_fsVars,
           NEW f \in DOMAIN fds, NEW length \in Lengths, fs_truncate(f, length)
    PROVE  /\ Abstract!Truncate(f, length) /\ f \in DOMAIN OpenFiles
           /\ length \in 0..MountedFiles[OpenFiles[f].file].size
<1> DEFINE i == fds[f].inodeNum
           new == FileOf(disks'[handle], inodes', i)
<1>1. /\ fds[f].isUsed /\ length <= Inode(f).fileSize
      /\ inodes' = [inodes EXCEPT ![i].fileSize = length % SIZE_RANGE]
      /\ UNCHANGED <<directory, fds, usedBlocksBitmap, readyForUse, disks, handle>>
  BY DEF fs_truncate
<1>2. length \in 0..(SIZE_RANGE - 1)
  BY <1>1, FdType, FileSystemAssumption DEF NoNegative, InodeEntry, FilesInv
<1>3. length % SIZE_RANGE = length
  BY <1>2, FileSystemAssumption
<1>4. inodes' = [inodes EXCEPT ![i].fileSize = length]
  BY <1>1, <1>3
<1>5. /\ \A j \in DOMAIN inodes : inodes'[j].singleIndirectBlock = inodes[j].singleIndirectBlock
      /\ \A j \in DOMAIN inodes : j # i => inodes'[j] = inodes[j]
      /\ inodes'[i].fileSize = length
      /\ i \in DOMAIN inodes
  BY <1>4, SizeKeepsInodes, FdType DEF FilesInv
<1>6. /\ f \in DOMAIN OpenFiles /\ OpenFiles[f].file \in DOMAIN MountedFiles
      /\ MountedFiles[OpenFiles[f].file] = FileOf(disks[handle], inodes, i)
  BY <1>1, OpenFile
<1> HIDE DEF i
<1>7. new = [FileOf(disks[handle], inodes, i) EXCEPT !.size = length]
  <2>1. inodes'[i].singleIndirectBlock = inodes[i].singleIndirectBlock /\ inodes'[i].fileSize = length
    BY <1>5
  <2>2. UNCHANGED <<disks, handle>>
    BY <1>1
  <2>3. QED
    BY <2>1, <2>2 DEF FileOf
<1>8. \A j \in DOMAIN inodes : inodes[j].isUsed /\ j # i =>
            FileOf(disks'[handle], inodes', j) = FileOf(disks[handle], inodes, j)
  BY <1>1, <1>5 DEF FileOf
<1>9. MountedFiles' = [MountedFiles EXCEPT ![OpenFiles[f].file] = new]
  <2> HIDE DEF new
  <2>1. FileOf(disks'[handle], inodes', i) = new
    BY DEF new
  <2>2. QED
    BY <1>1, <1>8, <2>1, OneFileChanged DEF i
<1>10. MountedFiles' = [MountedFiles EXCEPT ![OpenFiles[f].file].size = length]
  BY <1>6, <1>7, <1>9
<1>11. UNCHANGED <<StoredFiles, OpenFiles>>
  BY <1>1, StoredSame, OpenSame
<1>12. MountedFiles[OpenFiles[f].file].size = Inode(f).fileSize
  BY <1>1, OpenSize
<1>13. length \in 0..MountedFiles[OpenFiles[f].file].size
  <2>1. Inode(f).fileSize \in Nat
    BY <1>1, FdType, FileSystemAssumption DEF FilesInv, InodeEntry
  <2>2. QED
    BY <1>1, <1>2, <1>12, <2>1
<1>14. QED
  BY <1>1, <1>2, <1>6, <1>10, <1>11, <1>12, <1>13 DEF Abstract!Truncate

(* Within the first block, the block fs_write finds is the file's own and  *)
(* its place there is the file pointer.                                    *)
LEMMA WritePlace ==
    ASSUME InFirstBlock, FilesInv, NEW f \in DOMAIN fds, fds[f].isUsed,
           NEW nbyte \in 1..BLOCK_SIZE, Within(f, nbyte)
    PROVE  /\ fds[f].offset \in Nat /\ fds[f].offset + nbyte <= BLOCK_SIZE
           /\ InBlock(fds[f].offset) = fds[f].offset
           /\ BlockOf(f) = disks[handle][Inode(f).singleIndirectBlock].entry
           /\ BlockOf(f) \in Blocks \ {0}
           /\ BlockOf(f) # Inode(f).singleIndirectBlock
           /\ Inode(f).singleIndirectBlock \in Blocks
           /\ Inode(f).isUsed /\ fds[f].inodeNum \in DOMAIN inodes
           /\ disks[handle][BlockOf(f)] \in Block
<1>1. fds[f].offset \in Nat /\ BLOCK_SIZE \in Nat \ {0} /\ OFFSET_LIMIT \in Nat /\ nbyte \in Nat \ {0}
  BY FdType, FileSystemAssumption DEF FilesInv
<1>2. fds[f].offset + nbyte <= OFFSET_LIMIT
  BY DEF Within
<1>3. fds[f].offset + nbyte <= BLOCK_SIZE /\ fds[f].offset < BLOCK_SIZE
  BY <1>1, <1>2 DEF InFirstBlock
<1>4. InBlock(fds[f].offset) = fds[f].offset
  BY <1>1, <1>3 DEF InBlock
<1>5. BlockOf(f) = disks[handle][Inode(f).singleIndirectBlock].entry
  BY <1>3 DEF BlockOf
<1>6. PICK e \in DOMAIN directory :
        directory[e].name # NoName /\ directory[e].inodeNum = fds[f].inodeNum
  BY DEF FilesInv, FdsInv
<1>7. fds[f].inodeNum \in DOMAIN inodes /\ Inode(f).isUsed
  BY <1>6, ListedInode DEF Inode
<1>8. readyForUse /\ handle \in DOMAIN disks
  BY OpenFile DEF FilesInv, TInv, DisksOK
<1>9. Apart(disks[handle], usedBlocksBitmap, inodes) /\ usedBlocksBitmap \subseteq Blocks
  BY <1>8, TablesType DEF FilesInv, ApartInv, TInv
<1>10. /\ disks[handle][Inode(f).singleIndirectBlock].entry \in Blocks \ {0}
       /\ disks[handle][Inode(f).singleIndirectBlock].entry # Inode(f).singleIndirectBlock
       /\ Inode(f).singleIndirectBlock \in Blocks
  BY <1>7, <1>9 DEF Apart, OwnedOn, Inode
<1>11. disks[handle][BlockOf(f)] \in Block
  BY <1>5, <1>8, <1>10, TablesType DEF FilesInv, TInv
<1>12. QED
  BY <1>1, <1>3, <1>4, <1>5, <1>7, <1>10, <1>11

Changed(file, size2, contents2) ==
    [file EXCEPT !.size = size2, !.contents = contents2]

LEMMA FileChanged ==
    ASSUME NEW file, file = [size |-> file.size, contents |-> file.contents],
           NEW size2, NEW contents2
    PROVE  Changed(file, size2, contents2) = [size |-> size2, contents |-> contents2]
<1>0. PICK s, c : file = [size |-> s, contents |-> c]
  OBVIOUS
<1>1. PICK mid : mid = [size |-> size2, contents |-> c]
  OBVIOUS
<1>2. mid = [file EXCEPT !.size = size2]
  BY <1>0, <1>1
<1>3. PICK new : new = [size |-> size2, contents |-> contents2]
  OBVIOUS
<1>4. new = [mid EXCEPT !.contents = contents2]
  BY <1>1, <1>3
<1>5. [file EXCEPT !.size = size2, !.contents = contents2]
        = [[file EXCEPT !.size = size2] EXCEPT !.contents = contents2]
  OBVIOUS
<1>6. QED
  BY <1>2, <1>3, <1>4, <1>5 DEF Changed

LEMMA WriteImplements ==
    ASSUME Careful, CarefulCalls, InFirstBlock, FilesInv, FilesInv', [Next]_fsVars,
           NEW f \in DOMAIN fds, NEW v \in Data, NEW nbyte \in 1..BLOCK_SIZE,
           fs_write(f, v, nbyte)
    PROVE  Abstract!Write(f, v, nbyte) /\ f \in DOMAIN OpenFiles
<1> DEFINE image == disks[handle]
           at == fds[f].offset
           n == Inode(f).fileSize + nbyte
<1>0. n % SIZE_RANGE = n
  <2>1. fds[f].isUsed /\ n < SIZE_RANGE
    BY DEF fs_write, SizeFits, CarefulCalls
  <2>2. Inode(f).fileSize \in Nat /\ SIZE_RANGE \in Nat \ {0} /\ nbyte \in Nat
    BY <2>1, FdType, FileSystemAssumption DEF FilesInv, InodeEntry
  <2>3. QED
    BY <2>1, <2>2
<1>1. /\ readyForUse /\ fds[f].isUsed /\ Within(f, nbyte)
      /\ fds' = [fds EXCEPT ![f].offset = at + nbyte]
      /\ inodes' = [inodes EXCEPT ![fds[f].inodeNum].fileSize = n]
      /\ UNCHANGED <<directory, usedBlocksBitmap, readyForUse, handle>>
  <2>1. /\ readyForUse /\ fds[f].isUsed /\ Within(f, nbyte)
        /\ fds' = [fds EXCEPT ![f].offset = at + nbyte]
        /\ inodes' = [inodes EXCEPT ![fds[f].inodeNum].fileSize = n % SIZE_RANGE]
        /\ UNCHANGED <<directory, usedBlocksBitmap, readyForUse, handle>>
    BY DEF fs_write, Inode
  <2> HIDE DEF n
  <2>2. QED
    BY <1>0, <2>1
<1>2. PICK i, x, y : i = fds[f].inodeNum /\ x = Inode(f).singleIndirectBlock /\ y = BlockOf(f)
  OBVIOUS
<1>3. /\ at \in Nat /\ at + nbyte <= BLOCK_SIZE /\ InBlock(at) = at
      /\ y = image[x].entry /\ y \in Blocks \ {0} /\ y # x /\ x \in Blocks
      /\ inodes[i].isUsed /\ i \in DOMAIN inodes /\ image[y] \in Block
      /\ x = inodes[i].singleIndirectBlock
  BY <1>1, <1>2, WritePlace DEF Inode
<1>4. /\ DOMAIN disks' = DOMAIN disks
      /\ \A d \in DOMAIN disks \ {handle} : disks'[d] = disks[d]
      /\ \A c \in Blocks \ {y} : disks'[handle][c] = image[c]
      /\ disks'[handle][y] = Written(image[y], at, v, nbyte)
  <2>1. TInv
    BY DEF FilesInv
  <2>2. /\ DOMAIN disks' = DOMAIN disks
        /\ \A d \in DOMAIN disks \ {handle} : disks'[d] = disks[d]
        /\ \A c \in Blocks \ {BlockOf(f)} : disks'[handle][c] = disks[handle][c]
        /\ BlockOf(f) # 0 =>
                disks'[handle][BlockOf(f)] =
                    Written(disks[handle][BlockOf(f)], InBlock(fds[f].offset), v, nbyte)
    BY <2>1, WriteDisk
  <2>3. BlockOf(f) = y /\ y # 0 /\ InBlock(fds[f].offset) = fds[f].offset
    BY <1>2, <1>3
  <2>4. QED
    BY <2>2, <2>3
<1>5. /\ \A j \in DOMAIN inodes : inodes'[j].singleIndirectBlock = inodes[j].singleIndirectBlock
      /\ \A j \in DOMAIN inodes : j # i => inodes'[j] = inodes[j]
      /\ inodes'[i].fileSize = n
  <2> HIDE DEF n
  <2>1. TInv
    BY DEF FilesInv
  <2>2. inodes' = [inodes EXCEPT ![fds[f].inodeNum].fileSize = n]
    BY <1>1
  <2>3. /\ \A j \in DOMAIN inodes :
            /\ inodes'[j].singleIndirectBlock = inodes[j].singleIndirectBlock
            /\ j # fds[f].inodeNum => inodes'[j] = inodes[j]
        /\ inodes'[fds[f].inodeNum].fileSize = n
    BY <2>1, <2>2, SizeKeepsInodes
  <2>4. QED
    BY <1>2, <2>3
<1> DEFINE old == FileOf(image, inodes, i)
           contents == [p \in DOMAIN old.contents |->
                            IF p \in at..(at + nbyte - 1) THEN v ELSE old.contents[p]]
<1>6. old.contents = image[y].cells /\ old.size = inodes[i].fileSize
      /\ old = [size |-> old.size, contents |-> old.contents]
  BY <1>3 DEF FileOf
<1>7. image[y].cells \in [Cells -> Data \cup {Zero, Stray}]
  BY <1>3 DEF Block
<1>8. Written(image[y], at, v, nbyte).cells = contents
  <2> DEFINE k == at + nbyte - 1
  <2>1. image[y] \in Block
    BY <1>3
  <2>2. DOMAIN old.contents = Cells
    BY <1>6, <1>7
  <2>3. Written(image[y], at, v, nbyte).cells
            = [c \in Cells |-> IF c \in at..k THEN v ELSE image[y].cells[c]]
    <3> HIDE DEF at, image
    <3>1. QED
      BY <2>1 DEF Written, Block
  <2>4. QED
    BY <1>6, <2>2, <2>3
<1> HIDE DEF n
<1>9. FileOf(disks'[handle], inodes', i) = [size |-> n, contents |-> contents]
  <2>1. inodes'[i].singleIndirectBlock = x /\ inodes'[i].fileSize = n
    BY <1>3, <1>5
  <2>2. disks'[handle][x].entry = y
    BY <1>3, <1>4
  <2>3. disks'[handle][y].cells = contents
    BY <1>4, <1>8
  <2> HIDE DEF contents
  <2>4. QED
    BY <2>1, <2>2, <2>3 DEF FileOf
<1>10. ASSUME NEW j \in DOMAIN inodes, inodes[j].isUsed, j # i
       PROVE  FileOf(disks'[handle], inodes', j) = FileOf(image, inodes, j)
  <2>1. inodes'[j] = inodes[j]
    BY <1>5, <1>10
  <2>2. Apart(image, usedBlocksBitmap, inodes)
    BY <1>1 DEF FilesInv, ApartInv
  <2>3. OwnedOn(image, inodes, j) \subseteq usedBlocksBitmap
        /\ OwnedOn(image, inodes, j) \cap OwnedOn(image, inodes, i) = {}
    BY <1>3, <1>10, <2>2 DEF Apart
  <2>4. y \in OwnedOn(image, inodes, i)
    BY <1>3 DEF OwnedOn
  <2>5. \A c \in OwnedOn(image, inodes, j) : disks'[handle][c] = image[c]
    BY <1>4, <2>3, <2>4, TablesType DEF FilesInv, TInv
  <2> HIDE DEF image
  <2>6. QED
    BY <2>1, <2>5, FileKept
<1> DEFINE name == OpenFiles[f].file
           new == [size |-> n, contents |-> contents]
<1>11. MountedFiles' = [MountedFiles EXCEPT ![name] = new]
  <2>1. FileOf(disks'[handle], inodes', fds[f].inodeNum) = new
    BY <1>2, <1>9
  <2>2. \A j \in DOMAIN inodes : inodes[j].isUsed /\ j # fds[f].inodeNum =>
                FileOf(disks'[handle], inodes', j) = FileOf(disks[handle], inodes, j)
    BY <1>2, <1>10
  <2> HIDE DEF new
  <2>3. QED
    BY <1>1, <2>1, <2>2, OneFileChanged
<1>12. /\ f \in DOMAIN OpenFiles /\ name \in DOMAIN MountedFiles
       /\ MountedFiles[name] = old /\ OpenFiles[f].at = at
  BY <1>1, <1>2, OpenFile
<1>13. n = old.size + nbyte
  BY <1>2, <1>6 DEF n, Inode
<1>14. MountedFiles' = [MountedFiles EXCEPT
            ![name].size = @ + nbyte,
            ![name].contents = [p \in DOMAIN @ |->
                IF p \in OpenFiles[f].at..(OpenFiles[f].at + nbyte - 1) THEN v ELSE @[p]]]
  <2> HIDE DEF name, old, at
  <2>1. MountedFiles[name].size = old.size /\ MountedFiles[name].contents = old.contents
    BY <1>12
  <2>2. new = Changed(MountedFiles[name], n, contents)
    <3> HIDE DEF contents
    <3>1. MountedFiles[name]
            = [size |-> MountedFiles[name].size, contents |-> MountedFiles[name].contents]
      BY <1>6, <1>12, Zenon
    <3>2. QED
      BY <3>1, FileChanged
  <2>3. contents = [p \in DOMAIN MountedFiles[name].contents |->
            IF p \in OpenFiles[f].at..(OpenFiles[f].at + nbyte - 1)
            THEN v ELSE MountedFiles[name].contents[p]]
    BY <1>12
  <2>4. n = MountedFiles[name].size + nbyte
    BY <1>13, <2>1
  <2> HIDE DEF contents, new
  <2>5. QED
    BY <1>11, <1>12, <2>2, <2>3, <2>4 DEF Changed
<1>15. OpenFiles' = [OpenFiles EXCEPT ![f].at = @ + nbyte]
  BY <1>1, <1>12, OpenMoved
<1>16. UNCHANGED StoredFiles
  BY <1>1, <1>4, StoredSame
<1>17. QED
  BY <1>1, <1>3, <1>12, <1>14, <1>15, <1>16 DEF Abstract!Write
----------------------------------------------------------------------------
(* The refinement. *)

AbstractStutter == UNCHANGED <<StoredFiles, handle, MountedFiles, OpenFiles>>

LEMMA NamesImplement ==
    ASSUME Careful, FilesInv, FilesInv', [Next]_fsVars, NEW name \in Names,
           fs_create(name) \/ CreateFails(name) \/ fs_delete(name) \/ fs_open(name)
    PROVE  \/ AbstractStutter
           \/ /\ name \in Names \ LongNames
              /\ Abstract!Create(name) \/ Abstract!Delete(name) \/ Abstract!Open(name)
<1>1. CASE fs_create(name)
  <2>1. name \notin LongNames
    BY <1>1 DEF fs_create, CanCreate
  <2>2. QED
    BY <1>1, <2>1, CreateImplements DEF AbstractStutter
<1>2. CASE CreateFails(name)
  <2>1. UNCHANGED <<inodes, directory, fds, readyForUse, disks, handle>>
    BY <1>2 DEF CreateFails
  <2>2. UNCHANGED <<StoredFiles, MountedFiles, OpenFiles>>
    BY <2>1, StoredSame, OpenSame DEF MountedFiles
  <2>3. QED
    BY <2>1, <2>2 DEF AbstractStutter
<1>3. CASE fs_delete(name) \/ fs_open(name)
  <2>1. name \in Names \ LongNames
    <3>1. PICK e \in DOMAIN directory : directory[e].name = name /\ name # NoName
      BY <1>3 DEF fs_delete, fs_open, EntriesOf
    <3>2. QED
      BY <3>1 DEF FilesInv, ListedInv, Listed
  <2>2. QED
    BY <1>3, <2>1, DeleteImplements, OpenImplements
<1>4. QED
  BY <1>1, <1>2, <1>3

LEMMA CallsImplement ==
    ASSUME Careful, CarefulCalls, InFirstBlock, NoNegative,
           FilesInv, FilesInv', [Next]_fsVars, NEW f \in DOMAIN fds,
           \/ fs_close(f)
           \/ \E nbyte \in 1..BLOCK_SIZE :
                \/ fs_read(f, nbyte)
                \/ \E v \in Data : fs_write(f, v, nbyte)
           \/ \E offset \in 0..OFFSET_LIMIT : fs_lseek(f, offset)
           \/ \E length \in Lengths : fs_truncate(f, length)
    PROVE  /\ f \in DOMAIN OpenFiles
           /\ \/ Abstract!Close(f)
              \/ \E n \in 0..MountedFiles[OpenFiles[f].file].size :
                    Abstract!Seek(f, n) \/ Abstract!Truncate(f, n)
              \/ \E k \in 1..BLOCK_SIZE :
                    Abstract!Read(f, k) \/ \E v \in Data : Abstract!Write(f, v, k)
<1>1. CASE fs_close(f)
  BY <1>1, CloseImplements
<1>2. CASE \E nbyte \in 1..BLOCK_SIZE : fs_read(f, nbyte)
  BY <1>2, ReadImplements
<1>3. CASE \E nbyte \in 1..BLOCK_SIZE : \E v \in Data : fs_write(f, v, nbyte)
  BY <1>3, WriteImplements
<1>4. CASE \E offset \in 0..OFFSET_LIMIT : fs_lseek(f, offset)
  BY <1>4, SeekImplements
<1>5. CASE \E length \in Lengths : fs_truncate(f, length)
  BY <1>5, TruncateImplements
<1>6. QED
  BY <1>1, <1>2, <1>3, <1>4, <1>5

LEMMA StepImplements ==
    ASSUME Careful, CarefulCalls, InFirstBlock, NoNegative, FilesInv, FilesInv', [Next]_fsVars
    PROVE  Abstract!Next \/ AbstractStutter
<1>1. CASE UNCHANGED fsVars
  <2>1. UNCHANGED <<inodes, directory, fds, readyForUse, disks, handle>>
    BY <1>1 DEF fsVars
  <2>2. UNCHANGED <<StoredFiles, MountedFiles, OpenFiles>>
    BY <2>1, StoredSame, OpenSame DEF MountedFiles
  <2>3. QED
    BY <2>1, <2>2 DEF AbstractStutter
<1>2. CASE \E d \in Disks : make_fs(d) \/ mount_fs(d) \/ MountFails(d)
  <2>1. PICK d \in Disks : make_fs(d) \/ mount_fs(d) \/ MountFails(d)
    BY <1>2
  <2>2. Abstract!MakeFS(d) \/ Abstract!Mount(d) \/ AbstractStutter
    BY <2>1, MakeImplements, MountImplements, MountFailsImplements DEF AbstractStutter
  <2>3. QED
    BY <2>2 DEF Abstract!Next
<1>3. CASE umount_fs
  BY <1>3, UmountImplements DEF Abstract!Next
<1>4. CASE \E name \in Names :
            fs_create(name) \/ CreateFails(name) \/ fs_delete(name) \/ fs_open(name)
  <2>1. PICK name \in Names :
            fs_create(name) \/ CreateFails(name) \/ fs_delete(name) \/ fs_open(name)
    BY <1>4
  <2>2. \/ AbstractStutter
        \/ /\ name \in Names \ LongNames
           /\ Abstract!Create(name) \/ Abstract!Delete(name) \/ Abstract!Open(name)
    BY <2>1, NamesImplement
  <2>3. QED
    BY <2>2 DEF Abstract!Next
<1>5. CASE \E f \in DOMAIN fds :
            \/ fs_close(f)
            \/ \E nbyte \in 1..BLOCK_SIZE :
                \/ fs_read(f, nbyte)
                \/ \E v \in Data : fs_write(f, v, nbyte)
            \/ \E offset \in 0..OFFSET_LIMIT : fs_lseek(f, offset)
            \/ \E length \in Lengths : fs_truncate(f, length)
  <2>1. PICK f \in DOMAIN fds :
            \/ fs_close(f)
            \/ \E nbyte \in 1..BLOCK_SIZE :
                \/ fs_read(f, nbyte)
                \/ \E v \in Data : fs_write(f, v, nbyte)
            \/ \E offset \in 0..OFFSET_LIMIT : fs_lseek(f, offset)
            \/ \E length \in Lengths : fs_truncate(f, length)
    BY <1>5
  <2>2. /\ f \in DOMAIN OpenFiles
        /\ \/ Abstract!Close(f)
           \/ \E n \in 0..MountedFiles[OpenFiles[f].file].size :
                Abstract!Seek(f, n) \/ Abstract!Truncate(f, n)
           \/ \E k \in 1..BLOCK_SIZE :
                Abstract!Read(f, k) \/ \E v \in Data : Abstract!Write(f, v, k)
    BY <2>1, CallsImplement
  <2>3. QED
    BY <2>2 DEF Abstract!Next
<1>6. QED
  BY <1>1, <1>2, <1>3, <1>4, <1>5 DEF Next

LEMMA InitImplements == Init => Abstract!Init
<1> SUFFICES ASSUME Init PROVE Abstract!Init
  OBVIOUS
<1>1. Unmounted
  BY FilesInit, EmptyWhenUnmounted DEF Init
<1>2. StoredFiles = [d \in {} |-> {}]
  BY DEF StoredFiles, Init
<1>3. QED
  BY <1>1, <1>2 DEF Abstract!Init, Unmounted, EmptyFiles

(* Each call does to the files by name and to the descriptors what the     *)
(* README promises, or nothing: a write makes the file larger, a read      *)
(* stays within it, and what was unmounted is there at the next mount,     *)
(* whatever blocks, inodes and entries the calls reuse.  (fs.c 569-738,    *)
(* 370-567, 240-346.)                                                      *)
THEOREM CallsKeepTheirPromises ==
    ASSUME Careful, CarefulCalls, InFirstBlock, NoNegative PROVE Spec => ImplementsFS
<1>1. FilesInv /\ FilesInv' /\ [Next]_fsVars => Abstract!Next \/ AbstractStutter
  BY StepImplements
<1>2. AbstractStutter => UNCHANGED Abstract!absVars
  BY DEF AbstractStutter, Abstract!absVars
<1>3. QED
  BY <1>1, <1>2, InitImplements, FilesAlways, PTL DEF Spec, ImplementsFS, Abstract!Spec
=============================================================================
