------------------------- MODULE AbstractFileSystem -------------------------
(***************************************************************************)
(* What Challenge5 promises (its README): files with a name, a size and    *)
(* contents, that outlive an unmount and are there at the next mount, and  *)
(* descriptors of open files, with a file pointer at which reads and       *)
(* writes begin.  What a new file contains before it is written is not     *)
(* promised.                                                               *)
(***************************************************************************)
EXTENDS Integers, FiniteSets

CONSTANTS
    Disks, NoDisk,
    Names,          \* the names a file may be given
    MAX_FILES,      \* "only 64 files can be created"
    Descriptors,    \* "only 32 file descriptors can be used at a time"
    BLOCK_SIZE,     \* the most a file can hold
    Contents,       \* what the places 0..BLOCK_SIZE - 1 of a file may hold
    Data            \* what a program writes

VARIABLES
    stored,         \* the files of each made disk that is not mounted
    mounted,        \* the mounted disk
    files,          \* its files
    open            \* of each open descriptor, the file and the file pointer

absVars == <<stored, mounted, files, open>>

Init ==
    /\ stored = [d \in {} |-> {}]
    /\ mounted = NoDisk
    /\ files = [n \in {} |-> {}]
    /\ open = [f \in {} |-> {}]

MakeFS(d) ==
    /\ mounted = NoDisk
    /\ stored' = [e \in DOMAIN stored \cup {d} |->
                    IF e = d THEN [n \in {} |-> {}] ELSE stored[e]]
    /\ UNCHANGED <<mounted, files, open>>

Mount(d) ==
    /\ mounted = NoDisk
    /\ d \in DOMAIN stored
    /\ mounted' = d
    /\ files' = stored[d]
    /\ stored' = [e \in DOMAIN stored \ {d} |-> stored[e]]
    /\ UNCHANGED open

Umount ==
    /\ mounted # NoDisk
    /\ mounted' = NoDisk
    /\ files' = [n \in {} |-> {}]
    /\ stored' = [e \in DOMAIN stored \cup {mounted} |->
                    IF e = mounted THEN files ELSE stored[e]]
    /\ open' = [f \in {} |-> {}]

Create(n) ==
    /\ mounted # NoDisk
    /\ n \notin DOMAIN files
    /\ Cardinality(DOMAIN files) < MAX_FILES
    /\ \E c \in Contents :
        files' = [k \in DOMAIN files \cup {n} |->
                    IF k = n THEN [size |-> 0, contents |-> c] ELSE files[k]]
    /\ UNCHANGED <<stored, mounted, open>>

Delete(n) ==
    /\ n \in DOMAIN files
    /\ \A f \in DOMAIN open : open[f].file # n
    /\ files' = [k \in DOMAIN files \ {n} |-> files[k]]
    /\ UNCHANGED <<stored, mounted, open>>

Open(n) ==
    /\ n \in DOMAIN files
    /\ \E f \in Descriptors \ DOMAIN open :
        open' = [g \in DOMAIN open \cup {f} |->
                    IF g = f THEN [file |-> n, at |-> 0] ELSE open[g]]
    /\ UNCHANGED <<stored, mounted, files>>

Close(f) ==
    /\ open' = [g \in DOMAIN open \ {f} |-> open[g]]
    /\ UNCHANGED <<stored, mounted, files>>

(* "provided its within the files size" *)
Seek(f, at) ==
    /\ at <= files[open[f].file].size
    /\ open' = [open EXCEPT ![f].at = at]
    /\ UNCHANGED <<stored, mounted, files>>

(* What is read is the file's. *)
Read(f, k) ==
    /\ open[f].at + k <= files[open[f].file].size
    /\ open' = [open EXCEPT ![f].at = @ + k]
    /\ UNCHANGED <<stored, mounted, files>>

(* "Write will increase file size as more data is written" *)
Write(f, v, k) ==
    LET at == open[f].at
    IN  /\ at + k <= BLOCK_SIZE
        /\ files' = [files EXCEPT
                        ![open[f].file].size = @ + k,
                        ![open[f].file].contents = [p \in DOMAIN @ |->
                                IF p \in at..(at + k - 1) THEN v ELSE @[p]]]
        /\ open' = [open EXCEPT ![f].at = @ + k]
        /\ UNCHANGED <<stored, mounted>>

(* "truncate will decrease the size of a file to a specified point" *)
Truncate(f, length) ==
    /\ length <= files[open[f].file].size
    /\ files' = [files EXCEPT ![open[f].file].size = length]
    /\ UNCHANGED <<stored, mounted, open>>

Next ==
    \/ \E d \in Disks : MakeFS(d) \/ Mount(d)
    \/ Umount
    \/ \E n \in Names : Create(n) \/ Delete(n) \/ Open(n)
    \/ \E f \in DOMAIN open :
        \/ Close(f)
        \/ \E n \in 0..files[open[f].file].size : Seek(f, n) \/ Truncate(f, n)
        \/ \E k \in 1..BLOCK_SIZE :
            \/ Read(f, k)
            \/ \E v \in Data : Write(f, v, k)

Spec == Init /\ [][Next]_absVars

=============================================================================
