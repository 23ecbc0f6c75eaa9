--------------------------- MODULE LocalResource ---------------------------
(***************************************************************************)
(* resource.py: LocalResource.store and load, on a POSIX file system.      *)
(*                                                                         *)
(* store() writes the new version to a temporary file, whose name all the  *)
(* writers of a resource share, renames it over the resource, loads the    *)
(* result to validate it, and rotates the backups.  A rename moves an      *)
(* inode, so a writer that has the temporary file open goes on writing     *)
(* wherever it has been moved to.  Versions are numbered in the order in   *)
(* which the objects were changed.                                         *)
(***************************************************************************)
EXTENDS Integers

CONSTANTS
    Writers,    \* threads that may store the resource
    Inodes,     \* inodes of the resource and of its temporary file
    NoInode,    \* the inode of a name that does not exist
    NBackups,   \* N_BACKUPS
    MaxStores   \* bound: versions that are ever stored

ASSUME BackupsAssumption == NBackups \in Nat \ {0}
ASSUME StoresAssumption == MaxStores \in Nat
ASSUME InodesAssumption == NoInode \notin Inodes

None == 0    \* no file
Torn == -1   \* a file that holds no complete JSON document

VARIABLES
    content,  \* content[n]: the version in inode n, or Torn
    file,     \* the inode of the resource
    tmp,      \* the inode of the temporary file
    bak,      \* bak[i]: the version in the i-th backup, Torn or None
    version,  \* the latest version that a store has been called for
    pc,       \* pc[w]: the next file operation of writer w
    val,      \* val[w]: the version it stores
    fd,       \* fd[w]: the inode it has open
    idx,      \* idx[w]: the backup its rotation has reached
    alone,    \* history: no other store has overlapped the (last) one of w
    returned  \* history: the version in the file when a store last returned

disk == <<content, file, tmp, bak>>
history == <<alone, returned>>
vars == <<disk, version, pc, val, fd, idx, history>>

Versions == 1..MaxStores
Data == Versions \cup {Torn}
\* The points of store() after the rename.
Published == {"validate", "rotate", "unlinkOlder", "rename", "copy", "copied"}
Points == Published \cup
    {"idle", "seed", "seedCopy", "cleanup", "unlinkTmp", "open", "write", "replace", "raised"}

TypeOK ==
    /\ content \in [Inodes -> Data]
    /\ file \in Inodes \cup {NoInode} /\ tmp \in Inodes \cup {NoInode}
    /\ bak \in [0..(NBackups - 1) -> Data \cup {None}]
    /\ version \in 0..MaxStores
    /\ pc \in [Writers -> Points]
    /\ val \in [Writers -> 0..MaxStores]
    /\ fd \in [Writers -> Inodes \cup {NoInode}]
    /\ idx \in [Writers -> 0..(NBackups - 1)]
    /\ alone \in [Writers -> BOOLEAN]
    /\ returned \in Data \cup {None}

Init ==
    /\ content = [n \in Inodes |-> Torn]
    /\ file = NoInode /\ tmp = NoInode
    /\ bak = [i \in 0..(NBackups - 1) |-> None]
    /\ version = 0
    /\ pc = [w \in Writers |-> "idle"]
    /\ val = [w \in Writers |-> 0]
    /\ fd = [w \in Writers |-> NoInode]
    /\ idx = [w \in Writers |-> 0]
    /\ alone = [w \in Writers |-> FALSE]
    /\ returned = None

-----------------------------------------------------------------------------
Goto(w, l) == pc' = [pc EXCEPT ![w] = l]

Busy(w) == pc[w] \notin {"idle", "raised"}

\* What load() reads.
Loaded == IF file = NoInode THEN None ELSE content[file]

\* The object has been changed and is stored.
Store(w) ==
    /\ ~Busy(w) /\ version < MaxStores
    /\ version' = version + 1
    /\ val' = [val EXCEPT ![w] = version + 1]
    /\ Goto(w, "seed")
    /\ alone' = [u \in Writers |-> IF u = w THEN \A x \in Writers \ {w} : ~Busy(x)
                                         ELSE alone[u] /\ ~Busy(u)]
    /\ UNCHANGED <<disk, fd, idx, returned>>

\* Mutant: the copy goes to the last backup.
SeedLast(w) ==
    /\ pc[w] = "seed"
    /\ \/ /\ file # NoInode /\ bak[0] = None
          /\ bak' = [bak EXCEPT ![NBackups - 1] = Loaded]
          /\ Goto(w, "cleanup")
       \/ /\ ~(file # NoInode /\ bak[0] = None)
          /\ Goto(w, "cleanup")
          /\ UNCHANGED bak
    /\ UNCHANGED <<content, file, tmp, version, val, fd, idx, history>>

\* A resource without a first backup gets one: copy2 creates it, then fills it.
Seed(w) ==
    /\ pc[w] = "seed"
    /\ \/ /\ file # NoInode /\ bak[0] = None
          /\ bak' = [bak EXCEPT ![0] = Torn]
          /\ Goto(w, "seedCopy")
       \/ /\ ~(file # NoInode /\ bak[0] = None)
          /\ Goto(w, "cleanup")
          /\ UNCHANGED bak
    /\ UNCHANGED <<content, file, tmp, version, val, fd, idx, history>>

SeedCopy(w) ==
    /\ pc[w] = "seedCopy"
    /\ bak' = [bak EXCEPT ![0] = Loaded]
    /\ Goto(w, "cleanup")
    /\ UNCHANGED <<content, file, tmp, version, val, fd, idx, history>>

\* Mutant: the temporary file is removed without a look whether it exists.
CleanupUnchecked(w) ==
    /\ pc[w] = "cleanup"
    /\ Goto(w, "unlinkTmp")
    /\ UNCHANGED <<disk, version, val, fd, idx, history>>

Cleanup(w) ==
    /\ pc[w] = "cleanup"
    /\ \/ tmp # NoInode /\ Goto(w, "unlinkTmp")
       \/ tmp = NoInode /\ Goto(w, "open")
    /\ UNCHANGED <<disk, version, val, fd, idx, history>>

\* Raises when another writer has moved or removed the file since the check.
UnlinkTmp(w) ==
    /\ pc[w] = "unlinkTmp"
    /\ \/ tmp # NoInode /\ tmp' = NoInode /\ Goto(w, "open")
       \/ tmp = NoInode /\ UNCHANGED tmp /\ Goto(w, "raised")
    /\ UNCHANGED <<content, file, bak, version, val, fd, idx, history>>

\* open(tmp, "w") truncates what is there, or creates it.
Open(w) ==
    /\ pc[w] = "open"
    /\ \E n \in Inodes :
         /\ \/ tmp = n
            \/ tmp = NoInode /\ n # file /\ \A u \in Writers : fd[u] # n
         /\ tmp' = n
         /\ content' = [content EXCEPT ![n] = Torn]
         /\ fd' = [fd EXCEPT ![w] = n]
    /\ Goto(w, "write")
    /\ UNCHANGED <<file, bak, version, val, idx, history>>

\* Writing over what another writer has written meanwhile leaves the end of the
\* longer one.
Write(w) ==
    /\ pc[w] = "write"
    /\ \/ content' = [content EXCEPT ![fd[w]] = val[w]]
       \/ content[fd[w]] # Torn /\ content' = [content EXCEPT ![fd[w]] = Torn]
    /\ fd' = [fd EXCEPT ![w] = NoInode]
    /\ Goto(w, "replace")
    /\ UNCHANGED <<file, tmp, bak, version, val, idx, history>>

\* Mutant: the temporary file is renamed before it has been written.
ReplaceEarly(w) ==
    /\ pc[w] \in {"write", "replace"}
    /\ \/ tmp # NoInode /\ file' = tmp /\ tmp' = NoInode
       \/ tmp = NoInode /\ UNCHANGED <<file, tmp>>
    /\ pc' = [pc EXCEPT ![w] = IF @ = "write" THEN @ ELSE "validate"]
    /\ UNCHANGED <<content, bak, version, val, fd, idx, history>>

\* os.replace; that the temporary file is gone is ignored.
Replace(w) ==
    /\ pc[w] = "replace"
    /\ \/ tmp # NoInode /\ file' = tmp /\ tmp' = NoInode
       \/ tmp = NoInode /\ UNCHANGED <<file, tmp>>
    /\ Goto(w, "validate")
    /\ UNCHANGED <<content, bak, version, val, fd, idx, history>>

\* Mutant: the rotation starts one backup too far.
ValidateFurther(w) ==
    /\ pc[w] = "validate"
    /\ idx' = [idx EXCEPT ![w] = NBackups]
    /\ Goto(w, IF Loaded \in Versions THEN "rotate" ELSE "raised")
    /\ UNCHANGED <<disk, version, val, fd, history>>

\* self.load raises when there is no file, or no JSON in it.
Validate(w) ==
    /\ pc[w] = "validate"
    /\ idx' = [idx EXCEPT ![w] = NBackups - 1]
    /\ Goto(w, IF Loaded \in Versions THEN "rotate" ELSE "raised")
    /\ UNCHANGED <<disk, version, val, fd, history>>

(* The rotation moves backup idx - 1 to idx, for every idx from the last. *)

Rotate(w) ==
    /\ pc[w] = "rotate"
    /\ LET i == idx[w] IN
         \/ i = 0 /\ Goto(w, "copy") /\ UNCHANGED idx
         \/ i > 0 /\ bak[i - 1] = None /\ idx' = [idx EXCEPT ![w] = i - 1] /\ UNCHANGED pc
         \/ i > 0 /\ bak[i - 1] # None /\ bak[i] # None /\ Goto(w, "unlinkOlder") /\ UNCHANGED idx
         \/ i > 0 /\ bak[i - 1] # None /\ bak[i] = None /\ Goto(w, "rename") /\ UNCHANGED idx
    /\ UNCHANGED <<disk, version, val, fd, history>>

UnlinkOlder(w) ==
    /\ pc[w] = "unlinkOlder"
    /\ bak' = [bak EXCEPT ![idx[w]] = None]
    /\ Goto(w, IF bak[idx[w]] = None THEN "raised" ELSE "rename")
    /\ UNCHANGED <<content, file, tmp, version, val, fd, idx, history>>

Rename(w) ==
    /\ pc[w] = "rename"
    /\ \/ /\ bak[idx[w] - 1] # None
          /\ bak' = [bak EXCEPT ![idx[w]] = bak[idx[w] - 1], ![idx[w] - 1] = None]
          /\ idx' = [idx EXCEPT ![w] = @ - 1]
          /\ Goto(w, "rotate")
       \/ /\ bak[idx[w] - 1] = None
          /\ Goto(w, "raised")
          /\ UNCHANGED <<bak, idx>>
    /\ UNCHANGED <<content, file, tmp, version, val, fd, history>>

\* Mutant: the copy that ends a store stays empty.
CopiedNot(w) ==
    /\ pc[w] = "copied"
    /\ returned' = Loaded
    /\ Goto(w, "idle")
    /\ UNCHANGED <<disk, version, val, fd, idx, alone>>

\* copy2(path, bak0)
Copy(w) ==
    /\ pc[w] = "copy"
    /\ bak' = [bak EXCEPT ![0] = Torn]
    /\ Goto(w, "copied")
    /\ UNCHANGED <<content, file, tmp, version, val, fd, idx, history>>

Copied(w) ==
    /\ pc[w] = "copied"
    /\ bak' = [bak EXCEPT ![0] = Loaded]
    /\ returned' = Loaded
    /\ Goto(w, "idle")
    /\ UNCHANGED <<content, file, tmp, version, val, fd, idx, alone>>

\* The process is killed; what it has done to the files stays.
Kill ==
    /\ \E w \in Writers : pc[w] # "idle"
    /\ pc' = [w \in Writers |-> "idle"]
    /\ fd' = [w \in Writers |-> NoInode]
    /\ UNCHANGED <<disk, version, val, idx, history>>

-----------------------------------------------------------------------------
Step(w) ==
    \/ Store(w) \/ Seed(w) \/ SeedCopy(w) \/ Cleanup(w) \/ UnlinkTmp(w) \/ Open(w) \/ Write(w)
    \/ Replace(w) \/ Validate(w) \/ Rotate(w) \/ UnlinkOlder(w) \/ Rename(w) \/ Copy(w)
    \/ Copied(w)

Next == Kill \/ \E w \in Writers : Step(w)

Spec == Init /\ [][Next]_vars

-----------------------------------------------------------------------------
(* Properties *)

\* A reader never finds a part of a document (test_no_corruption).
Readable == Loaded # Torn

\* Older backups hold older versions, whatever rotation was cut short by a kill.
BackupsOrdered ==
    \A i, j \in 0..(NBackups - 1) :
        i < j /\ bak[i] \in Versions /\ bak[j] \in Versions => bak[i] >= bak[j]

\* What a store that returned has left is in a backup when the next one
\* replaces it.
FinishedKept ==
    [][ file' # file /\ returned # None /\ Loaded = returned
          => \E i \in 0..(NBackups - 1) : bak[i] = returned ]_vars

\* Whatever overlapping stores and kills have left on the disk, a store that no
\* other one overlaps does not raise and publishes its version.
AloneWorks ==
    \A w \in Writers : alone[w] =>
        /\ pc[w] # "raised"
        /\ pc[w] \in Published => Loaded = val[w]

\* A resource with one writer is an atomic register that a kill cannot tear.
AsRegister == INSTANCE Register WITH value <- Loaded
ImplementsRegister == AsRegister!Spec
=============================================================================
