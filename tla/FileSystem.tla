----------------------------- MODULE FileSystem -----------------------------
(***************************************************************************)
(* Challenge5/fs.c on top of disk.c: a file system of one program whose    *)
(* tables live in memory between mount_fs and umount_fs and in block 0 of  *)
(* the disk otherwise, while index and data blocks are written at once.    *)
(*                                                                         *)
(* A call is one action; there is no concurrency.  A block holds the       *)
(* number its first four bytes give when read as an index, and cells for   *)
(* its bytes.  The index of fs_create has one block number (512 bytes of   *)
(* zeros, of which it sets the first two), so a file has one data block    *)
(* and every later entry reads 0.  (From entry 128 on, an index holds what *)
(* was on the stack: offsets that far are left out.)                       *)
(*                                                                         *)
(* Host I/O is taken not to fail, a call of read or write not to cross the *)
(* end of a block (it would overrun a malloc'd buffer), and the program    *)
(* not to pass a number that is no descriptor.                             *)
(***************************************************************************)
EXTENDS Integers, FiniteSets

CONSTANTS
    Disks, NoDisk,      \* host files that hold a disk
    Names, LongNames,   \* names, and those of more than 15 characters
    NoName,             \* the empty string
    MAX_FILES, MAX_FDS, DISK_BLOCKS, BLOCK_SIZE,
    SIZE_RANGE,         \* fileSize is kept modulo this (2^16)
    Data,               \* what a program writes
    Lengths,            \* lengths given to fs_truncate
    OFFSET_LIMIT,       \* bound: no read or write goes further
    Careless            \* what the program takes no care of

ASSUME FileSystemAssumption ==
    /\ {MAX_FILES, MAX_FDS, DISK_BLOCKS, BLOCK_SIZE, SIZE_RANGE} \subseteq Nat \ {0}
    /\ OFFSET_LIMIT \in 0..(128 * BLOCK_SIZE)
    /\ LongNames \subseteq Names /\ NoName \notin LongNames
    /\ NoDisk \notin Disks
    /\ Data \subseteq Int /\ Lengths \subseteq Int
    /\ Careless \subseteq {"mounts", "reads", "sizes"}

VARIABLES
    inodes, directory, fds,
    usedBlocksBitmap,   \* the blocks whose bit is set
    readyForUse,
    disks,              \* the blocks of each disk that exists
    handle              \* the open disk; NoDisk: not active

fsVars == <<inodes, directory, fds, usedBlocksBitmap, readyForUse, disks, handle>>

Blocks == 0..(DISK_BLOCKS - 1)
Cells  == 0..(BLOCK_SIZE - 1)
Zero   == 0
Stray  == -1            \* a byte left over on the stack

Zeroes == [entry |-> 0, cells |-> [c \in Cells |-> Zero]]
Junk   == [entry |-> 0, cells |-> [c \in Cells |-> Stray]]
Index(b) == [Zeroes EXCEPT !.entry = b]

NoInode == [isUsed |-> FALSE, singleIndirectBlock |-> 0, fileSize |-> 0]
NoEntry == [isUsed |-> FALSE, inodeNum |-> 0, name |-> NoName]
NoFd    == [isUsed |-> FALSE, inodeNum |-> 0, offset |-> 0]

NoInodes == [i \in 0..(MAX_FILES - 1) |-> NoInode]
NoNames  == [e \in 0..(MAX_FILES - 1) |-> NoEntry]
NoFds    == [f \in 0..(MAX_FDS - 1) |-> NoFd]

(* What block 0 holds: the tables as they were written last.  Read as an   *)
(* index, its superblock gives a number no block has.                      *)
Metadata(bits, nodes, names) ==
    [entry |-> DISK_BLOCKS, bitmap |-> bits, inodes |-> nodes, directory |-> names]

(* A block 0 that fs_write has written file contents into. *)
Garbled == Metadata(Blocks, NoInodes, <<>>)

Blank == [b \in Blocks |->
            IF b = 0 THEN [Metadata({}, NoInodes, NoNames) EXCEPT !.entry = 0]
                     ELSE Zeroes]

Init ==
    /\ inodes = NoInodes
    /\ directory = NoNames
    /\ fds = NoFds
    /\ usedBlocksBitmap = {}
    /\ readyForUse = FALSE
    /\ disks = [d \in {} |-> Blank]
    /\ handle = NoDisk

First(S) == IF S = {} THEN -1 ELSE CHOOSE x \in S : \A y \in S : x <= y

BlockWrite(b, block) == disks' = [disks EXCEPT ![handle][b] = block]
----------------------------------------------------------------------------
(* make_fs, mount_fs, umount_fs *)

(* The disk is emptied before it is known whether it can be opened; with   *)
(* another (or this very) disk open it cannot, and the tables are gone.    *)
make_fs(d) ==
    /\ handle = NoDisk \/ "mounts" \in Careless
    /\ inodes' = NoInodes
    /\ directory' = NoNames
    /\ usedBlocksBitmap' = {0}
    /\ disks' = [e \in DOMAIN disks \cup {d} |->
                    IF e # d THEN disks[e]
                    ELSE IF handle # NoDisk THEN Blank
                    ELSE [Blank EXCEPT ![0] = Metadata({0}, NoInodes, NoNames)]]
    /\ UNCHANGED <<fds, readyForUse, handle>>

mount_fs(d) ==
    /\ handle = NoDisk
    /\ d \in DOMAIN disks
    /\ handle' = d
    /\ readyForUse' = TRUE
    /\ usedBlocksBitmap' = disks[d][0].bitmap
    /\ inodes' = disks[d][0].inodes
    /\ directory' = disks[d][0].directory
    /\ UNCHANGED <<fds, disks>>

(* open_disk fails: the tables have been cleared already. *)
MountFails(d) ==
    /\ handle = NoDisk => d \notin DOMAIN disks
    /\ handle # NoDisk => "mounts" \in Careless
    /\ inodes' = NoInodes
    /\ directory' = NoNames
    /\ usedBlocksBitmap' = {}
    /\ UNCHANGED <<fds, readyForUse, disks, handle>>

(* A slip: the disk is closed without block 0 having been written. *)
umount_fsUnsaved ==
    /\ readyForUse
    /\ handle' = NoDisk
    /\ inodes' = NoInodes
    /\ directory' = NoNames
    /\ usedBlocksBitmap' = {}
    /\ fds' = NoFds
    /\ readyForUse' = FALSE
    /\ UNCHANGED disks

umount_fs ==
    /\ readyForUse
    /\ BlockWrite(0, Metadata(usedBlocksBitmap, inodes, directory))
    /\ handle' = NoDisk
    /\ inodes' = NoInodes
    /\ directory' = NoNames
    /\ usedBlocksBitmap' = {}
    /\ fds' = NoFds
    /\ readyForUse' = FALSE
----------------------------------------------------------------------------
(* fs_create, fs_delete *)

FreeInodes  == {i \in DOMAIN inodes : ~inodes[i].isUsed}
FreeEntries == {e \in DOMAIN directory : directory[e].name = NoName}
FreeBlocks  == Blocks \ usedBlocksBitmap
EntriesOf(name) ==
    {e \in DOMAIN directory : name # NoName /\ directory[e].name = name}

(* The two blocks findUsedBlocksBit comes up with, or as many as are left. *)
(* With none left it returns -1; the bit that is then set is set already.  *)
Taken == {b \in FreeBlocks : Cardinality({c \in FreeBlocks : c < b}) < 2}

(* A slip: a block may be the -1 of findUsedBlocksBit. *)
CanCreateUnchecked(name) ==
    /\ readyForUse
    /\ name \notin LongNames
    /\ FreeInodes # {}
    /\ EntriesOf(name) = {} /\ FreeEntries # {}

CanCreate(name) ==
    /\ readyForUse
    /\ name \notin LongNames
    /\ FreeInodes # {}
    /\ EntriesOf(name) = {} /\ FreeEntries # {}
    /\ Cardinality(Taken) = 2

(* A slip: the first bit is set only after the second block is looked for. *)
fs_createOneBlock(name) ==
    /\ CanCreate(name)
    /\ LET index == First(Taken)
       IN  /\ inodes' = [inodes EXCEPT ![First(FreeInodes)] =
                            [isUsed |-> TRUE, singleIndirectBlock |-> index, fileSize |-> 0]]
           /\ directory' = [directory EXCEPT ![First(FreeEntries)] =
                            [isUsed |-> TRUE, inodeNum |-> First(FreeInodes), name |-> name]]
           /\ usedBlocksBitmap' = usedBlocksBitmap \cup {index}
           /\ BlockWrite(index, Index(index))
    /\ UNCHANGED <<fds, readyForUse, handle>>

fs_create(name) ==
    /\ CanCreate(name)
    /\ LET index == First(Taken)
       IN  /\ inodes' = [inodes EXCEPT ![First(FreeInodes)] =
                            [isUsed |-> TRUE, singleIndirectBlock |-> index, fileSize |-> 0]]
           /\ directory' = [directory EXCEPT ![First(FreeEntries)] =
                            [isUsed |-> TRUE, inodeNum |-> First(FreeInodes), name |-> name]]
           /\ usedBlocksBitmap' = usedBlocksBitmap \cup Taken
           /\ BlockWrite(index, Index(First(Taken \ {index})))
    /\ UNCHANGED <<fds, readyForUse, handle>>

(* The blocks are allocated before anything is checked, and stay so. *)
CreateFails(name) ==
    /\ ~CanCreate(name)
    /\ usedBlocksBitmap' = usedBlocksBitmap \cup Taken
    /\ UNCHANGED <<inodes, directory, fds, readyForUse, disks, handle>>

IsOpen(i) == \E f \in DOMAIN fds : fds[f].isUsed /\ fds[f].inodeNum = i

(* A slip: of the directory entry, only the name is cleared. *)
RemoveKeepsEntry(e) ==
    LET i     == directory[e].inodeNum
        index == inodes[i].singleIndirectBlock
        block == disks[handle][index].entry
        freed == {index} \cup ({block} \ {0})
    IN  /\ block \in Blocks
        /\ disks' = [disks EXCEPT ![handle] =
                        [b \in Blocks |-> IF b \in freed THEN Zeroes ELSE @[b]]]
        /\ usedBlocksBitmap' = usedBlocksBitmap \ freed
        /\ inodes' = [inodes EXCEPT ![i] = NoInode]
        /\ directory' = [directory EXCEPT ![e].name = NoName]
        /\ UNCHANGED <<fds, readyForUse, handle>>

(* The effect of fs_delete on the file of directory entry e.  Reading the  *)
(* 4096-byte index into a 1024-byte array overwrites the zeros that the    *)
(* blocks are then filled with, or not, as the stack is laid out.          *)
Remove(e) ==
    LET i     == directory[e].inodeNum
        index == inodes[i].singleIndirectBlock
        block == disks[handle][index].entry
        freed == {index} \cup ({block} \ {0})
    IN  /\ block \in Blocks
        /\ \E empty \in {Zeroes, Junk} :
            disks' = [disks EXCEPT ![handle] =
                        [b \in Blocks |-> IF b \in freed THEN empty ELSE @[b]]]
        /\ usedBlocksBitmap' = usedBlocksBitmap \ freed
        /\ inodes' = [inodes EXCEPT ![i] = NoInode]
        /\ directory' = [directory EXCEPT ![e] = NoEntry]
        /\ UNCHANGED <<fds, readyForUse, handle>>

(* A slip: no look whether the file is open. *)
fs_deleteOpen(name) ==
    /\ readyForUse
    /\ \E e \in EntriesOf(name) : Remove(e)

fs_delete(name) ==
    /\ readyForUse
    /\ \E e \in EntriesOf(name) :
        /\ ~IsOpen(directory[e].inodeNum)
        /\ Remove(e)
----------------------------------------------------------------------------
(* Calls on an open file. *)

FreeFds == {f \in DOMAIN fds : ~fds[f].isUsed}

fs_open(name) ==
    /\ readyForUse
    /\ FreeFds # {}
    /\ \E e \in EntriesOf(name) :
        fds' = [fds EXCEPT ![First(FreeFds)] =
                    [isUsed |-> TRUE, inodeNum |-> directory[e].inodeNum, offset |-> 0]]
    /\ UNCHANGED <<inodes, directory, usedBlocksBitmap, readyForUse, disks, handle>>

fs_close(f) ==
    /\ fds[f].isUsed
    /\ fds' = [fds EXCEPT ![f] = NoFd]
    /\ UNCHANGED <<inodes, directory, usedBlocksBitmap, readyForUse, disks, handle>>

Inode(f) == inodes[fds[f].inodeNum]
InBlock(offset) == offset % BLOCK_SIZE

(* inodeBlocksArray[blockIndex] *)
BlockOf(f) == IF fds[f].offset < BLOCK_SIZE
              THEN disks[handle][Inode(f).singleIndirectBlock].entry
              ELSE 0

Within(f, nbyte) ==
    /\ fds[f].offset + nbyte <= OFFSET_LIMIT
    /\ InBlock(fds[f].offset) + nbyte <= BLOCK_SIZE

(* What makefs.c and fileTest.c do take care of: they read what was        *)
(* written and no more, and no file comes to a size beyond 16 bits.        *)
ReadsWithin(f, nbyte) ==
    "reads" \in Careless \/ fds[f].offset + nbyte <= Inode(f).fileSize
SizeFits(f, nbyte) ==
    "sizes" \in Careless \/ Inode(f).fileSize + nbyte < SIZE_RANGE

(* Not more than the file holds, but all that is asked for, is read. *)
fs_read(f, nbyte) ==
    /\ readyForUse
    /\ fds[f].isUsed
    /\ Within(f, nbyte) /\ ReadsWithin(f, nbyte)
    /\ fds[f].offset < Inode(f).fileSize
    /\ BlockOf(f) \in Blocks \ {0}
    /\ fds' = [fds EXCEPT ![f].offset = @ + nbyte]
    /\ UNCHANGED <<inodes, directory, usedBlocksBitmap, readyForUse, disks, handle>>

Written(block, at, v, nbyte) ==
    [block EXCEPT !.cells = [c \in Cells |-> IF c \in at..(at + nbyte - 1)
                                             THEN v ELSE @[c]]]

(* An entry that reads 0 is not told from a block: block 0 it is. *)
fs_write(f, v, nbyte) ==
    /\ readyForUse
    /\ fds[f].isUsed
    /\ Within(f, nbyte) /\ SizeFits(f, nbyte)
    /\ BlockOf(f) \in Blocks
    /\ LET b == BlockOf(f)
       IN  BlockWrite(b, IF b = 0 THEN Garbled
                         ELSE Written(disks[handle][b], InBlock(fds[f].offset), v, nbyte))
    /\ fds' = [fds EXCEPT ![f].offset = @ + nbyte]
    /\ inodes' = [inodes EXCEPT ![fds[f].inodeNum].fileSize = (@ + nbyte) % SIZE_RANGE]
    /\ UNCHANGED <<directory, usedBlocksBitmap, readyForUse, handle>>

fs_lseek(f, offset) ==
    /\ readyForUse
    /\ fds[f].isUsed
    /\ offset <= Inode(f).fileSize
    /\ fds' = [fds EXCEPT ![f].offset = offset]
    /\ UNCHANGED <<inodes, directory, usedBlocksBitmap, readyForUse, disks, handle>>

(* length is an off_t, fileSize a uint16_t. *)
fs_truncate(f, length) ==
    /\ readyForUse
    /\ fds[f].isUsed
    /\ length <= Inode(f).fileSize
    /\ inodes' = [inodes EXCEPT ![fds[f].inodeNum].fileSize = length % SIZE_RANGE]
    /\ UNCHANGED <<directory, fds, usedBlocksBitmap, readyForUse, disks, handle>>

(* The names fs_listfiles returns. *)
fs_listfiles == {directory[e].name : e \in DOMAIN directory} \ {NoName}
----------------------------------------------------------------------------
Next ==
    \/ \E d \in Disks : make_fs(d) \/ mount_fs(d) \/ MountFails(d)
    \/ umount_fs
    \/ \E name \in Names :
        fs_create(name) \/ CreateFails(name) \/ fs_delete(name) \/ fs_open(name)
    \/ \E f \in DOMAIN fds :
        \/ fs_close(f)
        \/ \E nbyte \in 1..BLOCK_SIZE :
            \/ fs_read(f, nbyte)
            \/ \E v \in Data : fs_write(f, v, nbyte)
        \/ \E offset \in 0..OFFSET_LIMIT : fs_lseek(f, offset)
        \/ \E length \in Lengths : fs_truncate(f, length)

Spec == Init /\ [][Next]_fsVars
----------------------------------------------------------------------------
Block == [entry : Blocks, cells : [Cells -> Data \cup {Zero, Stray}]]

FTypeOK ==
    /\ inodes \in [0..(MAX_FILES - 1) ->
            [isUsed : BOOLEAN, singleIndirectBlock : Blocks, fileSize : 0..(SIZE_RANGE - 1)]]
    /\ directory \in [0..(MAX_FILES - 1) ->
            [isUsed : BOOLEAN, inodeNum : 0..(MAX_FILES - 1), name : Names \cup {NoName}]]
    /\ fds \in [0..(MAX_FDS - 1) ->
            [isUsed : BOOLEAN, inodeNum : 0..(MAX_FILES - 1), offset : 0..OFFSET_LIMIT]]
    /\ usedBlocksBitmap \subseteq Blocks
    /\ readyForUse \in BOOLEAN
    /\ DOMAIN disks \subseteq Disks
    /\ \A d \in DOMAIN disks, b \in Blocks \ {0} : disks[d][b] \in Block
    /\ handle \in DOMAIN disks \cup {NoDisk}

UsedInodes == {i \in DOMAIN inodes : inodes[i].isUsed}

(* The blocks of a file: its index and what that leads to. *)
Owned(i) ==
    LET index == inodes[i].singleIndirectBlock
    IN  {index, disks[handle][index].entry}

(* No two files share a block, none has block 0, and the bitmap has every  *)
(* block of a file: across creations that take the lowest free blocks,     *)
(* deletions that free what the index on the disk says, failed creations   *)
(* and remounts (lines 376-411, 514-550).                                  *)
FilesApart ==
    readyForUse =>
        /\ \A i \in UsedInodes :
            /\ Cardinality(Owned(i)) = 2
            /\ Owned(i) \subseteq usedBlocksBitmap \ {0}
        /\ \A i, j \in UsedInodes : i # j => Owned(i) \cap Owned(j) = {}
        /\ 0 \in usedBlocksBitmap

(* Every directory entry in use has an inode of its own (lines 409-417,    *)
(* 554-562).                                                               *)
OneInodeEach ==
    \A e \in DOMAIN directory : directory[e].isUsed =>
        /\ inodes[directory[e].inodeNum].isUsed
        /\ \A g \in DOMAIN directory :
            directory[g].isUsed /\ directory[g].inodeNum = directory[e].inodeNum => g = e

(* A descriptor never outlives its file, nor comes to stand for another    *)
(* one, though deletion frees the inode for the next file (lines 502-510). *)
NamesOf(f) == {directory[e].name : e \in {g \in DOMAIN directory :
                directory[g].isUsed /\ directory[g].inodeNum = fds[f].inodeNum}}

FdKeepsFile ==
    [][\A f \in DOMAIN fds :
        fds[f].isUsed /\ fds'[f].isUsed => NamesOf(f)' = NamesOf(f) /\ NamesOf(f) # {}]_fsVars

FilesOf(image, nodes, names) ==
    LET listed == {e \in DOMAIN names : names[e].name # NoName}
    IN  [n \in {names[e].name : e \in listed} |->
            LET e == CHOOSE x \in listed : names[x].name = n
                i == names[e].inodeNum
                b == image[nodes[i].singleIndirectBlock].entry
            IN  [size |-> nodes[i].fileSize, contents |-> image[b].cells]]

(* What the calls are to keep: the files of the disks that are not         *)
(* mounted, those of the mounted one, and the open descriptors.            *)
StoredFiles ==
    [d \in DOMAIN disks \ {handle} |-> FilesOf(disks[d], disks[d][0].inodes, disks[d][0].directory)]
MountedFiles ==
    IF readyForUse THEN FilesOf(disks[handle], inodes, directory) ELSE [n \in {} |-> {}]
OpenFiles ==
    [f \in {g \in DOMAIN fds : fds[g].isUsed} |->
        [file |-> CHOOSE n \in NamesOf(f) : TRUE, at |-> fds[f].offset]]

Abstract == INSTANCE AbstractFileSystem WITH
    Names    <- Names \ LongNames,
    Descriptors <- 0..(MAX_FDS - 1),
    Contents <- [Cells -> Data \cup {Zero, Stray}],
    stored   <- StoredFiles,
    mounted  <- handle,
    files    <- MountedFiles,
    open     <- OpenFiles

(* The README's promises, to a program that takes care of its mounts, its  *)
(* reads and its sizes: each call that succeeds does to the files by name, *)
(* and to the descriptors of open ones, what it should; one that fails     *)
(* does nothing; what is unmounted is there at the next mount.             *)
ImplementsFS == Abstract!Spec

(* README, of create: it allocates blocks for the file; of destroy: it     *)
(* frees any data pertaining to the file.  A create that fails keeps two.  *)
BlocksBelongToFiles ==
    readyForUse => usedBlocksBitmap = {0} \cup UNION {Owned(i) : i \in UsedInodes}

(* README: create allocates a directory space.  For the empty name it      *)
(* marks an inode used and leaves the entry free for the next file.        *)
EveryInodeListed ==
    \A i \in UsedInodes : \E e \in DOMAIN directory :
        directory[e].isUsed /\ directory[e].inodeNum = i

(* README: read and write concern the blocks associated with the file.     *)
(* Past the first block the index reads 0, and block 0 is written.         *)
MetadataKept ==
    [][\A d \in DOMAIN disks : handle = d /\ handle' = d /\ d \in DOMAIN disks'
            => disks'[d][0] = disks[d][0]]_fsVars

(* README: the file pointer is within the file's size.  A careless fs_read *)
(* goes past it, fs_truncate leaves it behind.                             *)
OffsetWithinFile ==
    \A f \in DOMAIN fds : fds[f].isUsed => fds[f].offset <= Inode(f).fileSize

(* README: "Write will increase file size as more data is written".  The   *)
(* size is a uint16_t, and what does not fit is cut off (line 731).        *)
WritesGrow ==
    [][\A f \in DOMAIN fds, v \in Data, nbyte \in 1..BLOCK_SIZE :
        fs_write(f, v, nbyte) => Inode(f).fileSize' > Inode(f).fileSize]_fsVars

(* Comments of fs_delete: zeros are written to each used block.            *)
DeletedBlocksZeroed ==
    readyForUse => \A b \in FreeBlocks : disks[handle][b] = Zeroes

(* README: listfiles gives the currently opened files.                     *)
ListsOpenFiles ==
    readyForUse => fs_listfiles = UNION {NamesOf(f) : f \in {g \in DOMAIN fds : fds[g].isUsed}}

=============================================================================
