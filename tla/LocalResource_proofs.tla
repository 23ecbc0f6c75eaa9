------------------------ MODULE LocalResource_proofs ------------------------
(***************************************************************************)
(* Theorems about LocalResource, for any number of inodes, backups and     *)
(* versions: a store that no other overlaps always works, and a resource   *)
(* with one writer is, whatever is killed, an atomic register whose        *)
(* backups stay in order and keep what a finished store has left.          *)
(***************************************************************************)
EXTENDS LocalResource, TLAPS

\* The types, that a store has a version to write, and that what the rotation
\* renames is a backup.
Typed ==
    /\ TypeOK
    /\ \A w \in Writers : /\ Busy(w) => val[w] \in Versions
                          /\ pc[w] \in {"unlinkOlder", "rename"} => idx[w] > 0

\* Typed is inductive.
LEMMA AlwaysTyped == Spec => []Typed
<1>1. Init => Typed
  BY BackupsAssumption, StoresAssumption DEF Init, Typed, TypeOK, Points, Published, Data, Versions, None, Torn, Goto, Busy, Loaded, disk, history
<1>2. Typed /\ [Next]_vars => Typed'
  <2> SUFFICES ASSUME Typed, [Next]_vars PROVE Typed'
    OBVIOUS
  <2> USE DEF Typed, TypeOK, Points, Published, Data, Versions, None, Torn, Goto, Busy,
       Loaded, disk, history
  <2>1. ASSUME NEW w \in Writers, Store(w) PROVE Typed'
    <3>1. alone' \in [Writers -> BOOLEAN]
      BY <2>1, Zenon DEF Store
    <3>2. version' \in 0..MaxStores /\ version' \in Versions
      BY <2>1, StoresAssumption DEF Store
    <3>3. val' = [val EXCEPT ![w] = version'] /\ pc' = [pc EXCEPT ![w] = "seed"]
      BY <2>1 DEF Store
    <3>4. UNCHANGED <<disk, fd, idx, returned>>
      BY <2>1 DEF Store
    <3>5. QED
      BY <3>1, <3>2, <3>3, <3>4, StoresAssumption
  <2>2. ASSUME NEW w \in Writers, Seed(w) PROVE Typed'
    BY <2>2, BackupsAssumption, StoresAssumption DEF Seed
  <2>3. ASSUME NEW w \in Writers, SeedCopy(w) PROVE Typed'
    BY <2>3, BackupsAssumption, StoresAssumption DEF SeedCopy
  <2>4. ASSUME NEW w \in Writers, Cleanup(w) PROVE Typed'
    BY <2>4, BackupsAssumption, StoresAssumption DEF Cleanup
  <2>5. ASSUME NEW w \in Writers, UnlinkTmp(w) PROVE Typed'
    BY <2>5, BackupsAssumption, StoresAssumption DEF UnlinkTmp
  <2>6. ASSUME NEW w \in Writers, Open(w) PROVE Typed'
    BY <2>6, BackupsAssumption, StoresAssumption DEF Open
  <2>7. ASSUME NEW w \in Writers, Write(w) PROVE Typed'
    BY <2>7, BackupsAssumption, StoresAssumption DEF Write
  <2>8. ASSUME NEW w \in Writers, Replace(w) PROVE Typed'
    BY <2>8, BackupsAssumption, StoresAssumption DEF Replace
  <2>9. ASSUME NEW w \in Writers, Validate(w) PROVE Typed'
    <3>1. NBackups - 1 \in 0..(NBackups - 1)
      BY BackupsAssumption
    <3>2. idx' \in [Writers -> 0..(NBackups - 1)]
      BY <2>9, <3>1 DEF Validate
    <3>3. /\ pc' \in [Writers -> Points]
          /\ \A u \in Writers : pc'[u] \in {"unlinkOlder", "rename"} => u # w /\ pc'[u] = pc[u]
          /\ \A u \in Writers : Busy(u)' => Busy(u)
      BY <2>9 DEF Validate
    <3>4. UNCHANGED <<disk, version, val, fd, history>> /\ \A u \in Writers \ {w} : idx'[u] = idx[u]
      BY <2>9 DEF Validate
    <3>5. QED
      BY <3>2, <3>3, <3>4
  <2>10. ASSUME NEW w \in Writers, Rotate(w) PROVE Typed'
    <3>1. idx[w] > 0 => idx[w] - 1 \in 0..(NBackups - 1)
      BY BackupsAssumption
    <3>2. idx' \in [Writers -> 0..(NBackups - 1)]
      BY <2>10, <3>1 DEF Rotate
    <3>3. pc' \in [Writers -> Points] /\ UNCHANGED <<disk, version, val, fd, history>>
      BY <2>10 DEF Rotate
    <3>4. \A u \in Writers : Busy(u)' => Busy(u)
      BY <2>10 DEF Rotate
    <3>5. \A u \in Writers : pc'[u] \in {"unlinkOlder", "rename"} => idx'[u] > 0
      BY <2>10, BackupsAssumption DEF Rotate
    <3>6. QED
      BY <3>2, <3>3, <3>4, <3>5
  <2>11. ASSUME NEW w \in Writers, UnlinkOlder(w) PROVE Typed'
    BY <2>11, BackupsAssumption, StoresAssumption DEF UnlinkOlder
  <2>12. ASSUME NEW w \in Writers, Rename(w) PROVE Typed'
    <3>1. idx[w] \in 1..(NBackups - 1) /\ idx[w] - 1 \in 0..(NBackups - 1)
      BY <2>12, BackupsAssumption DEF Rename
    <3>2. bak' \in [0..(NBackups - 1) -> Data \cup {None}]
      BY <2>12, <3>1 DEF Rename
    <3>3. idx' \in [Writers -> 0..(NBackups - 1)]
      BY <2>12, <3>1 DEF Rename
    <3>4. QED
      BY <2>12, <3>2, <3>3 DEF Rename
  <2>13. ASSUME NEW w \in Writers, Copy(w) PROVE Typed'
    BY <2>13, BackupsAssumption, StoresAssumption DEF Copy
  <2>14. ASSUME NEW w \in Writers, Copied(w) PROVE Typed'
    BY <2>14, BackupsAssumption, StoresAssumption DEF Copied
  <2>15. CASE Kill
    BY <2>15 DEF Kill
  <2>16. CASE UNCHANGED vars
    BY <2>16 DEF vars
  <2>17. QED
    BY <2>1, <2>2, <2>3, <2>4, <2>5, <2>6, <2>7, <2>8, <2>9, <2>10, <2>11, <2>12, <2>13,
         <2>14, <2>15, <2>16 DEF Next, Step
<1>3. QED
  BY <1>1, <1>2, PTL DEF Spec

\* Type correctness: in particular a rotation stays within the backups.
THEOREM TypeCorrect == Spec => []TypeOK
  BY AlwaysTyped, PTL DEF Typed

\* The file and the temporary file are two inodes, and a writer has a file open
\* exactly while it is about to write.
Names ==
    /\ tmp # NoInode => tmp # file
    /\ \A w \in Writers : fd[w] # NoInode <=> pc[w] = "write"

\* Names is inductive, given the types.
LEMMA NamesApart == Spec => []Names
<1>1. Init => Names
  BY DEF Init, Names
<1>2. TypeOK /\ Names /\ [Next]_vars => Names'
  <2> SUFFICES ASSUME TypeOK, Names, [Next]_vars PROVE Names'
    OBVIOUS
  <2> USE DEF TypeOK, Names, Points, Published, Goto, Busy, Loaded, disk, history
  <2>1. ASSUME NEW w \in Writers, Store(w) PROVE Names'
    BY <2>1 DEF Store
  <2>2. ASSUME NEW w \in Writers, Seed(w) PROVE Names'
    BY <2>2 DEF Seed
  <2>3. ASSUME NEW w \in Writers, SeedCopy(w) PROVE Names'
    BY <2>3 DEF SeedCopy
  <2>4. ASSUME NEW w \in Writers, Cleanup(w) PROVE Names'
    BY <2>4 DEF Cleanup
  <2>5. ASSUME NEW w \in Writers, UnlinkTmp(w) PROVE Names'
    BY <2>5 DEF UnlinkTmp
  <2>6. ASSUME NEW w \in Writers, Open(w) PROVE Names'
    BY <2>6, InodesAssumption DEF Open
  <2>7. ASSUME NEW w \in Writers, Write(w) PROVE Names'
    BY <2>7, InodesAssumption DEF Write
  <2>8. ASSUME NEW w \in Writers, Replace(w) PROVE Names'
    BY <2>8 DEF Replace
  <2>9. ASSUME NEW w \in Writers, Validate(w) PROVE Names'
    BY <2>9 DEF Validate
  <2>10. ASSUME NEW w \in Writers, Rotate(w) PROVE Names'
    BY <2>10 DEF Rotate
  <2>11. ASSUME NEW w \in Writers, UnlinkOlder(w) PROVE Names'
    BY <2>11 DEF UnlinkOlder
  <2>12. ASSUME NEW w \in Writers, Rename(w) PROVE Names'
    BY <2>12 DEF Rename
  <2>13. ASSUME NEW w \in Writers, Copy(w) PROVE Names'
    BY <2>13 DEF Copy
  <2>14. ASSUME NEW w \in Writers, Copied(w) PROVE Names'
    BY <2>14 DEF Copied
  <2>15. CASE Kill
    BY <2>15 DEF Kill
  <2>16. CASE UNCHANGED vars
    BY <2>16 DEF vars
  <2>17. QED
    BY <2>1, <2>2, <2>3, <2>4, <2>5, <2>6, <2>7, <2>8, <2>9, <2>10, <2>11, <2>12, <2>13,
         <2>14, <2>15, <2>16 DEF Next, Step
<1>3. QED
  BY <1>1, <1>2, TypeCorrect, PTL DEF Spec

\* A store that is alone finds at each of its file operations what its previous
\* one has left.
Undisturbed(w) ==
    /\ pc[w] # "raised"
    /\ Busy(w) => /\ \A u \in Writers \ {w} : ~Busy(u)
                  /\ val[w] \in Versions
    /\ pc[w] = "unlinkTmp" => tmp # NoInode
    /\ pc[w] = "open" => tmp = NoInode
    /\ pc[w] = "write" => /\ tmp # NoInode /\ tmp = fd[w]
                          /\ content[tmp] = Torn
    /\ pc[w] = "replace" => tmp # NoInode /\ content[tmp] = val[w]
    /\ pc[w] \in Published => Loaded = val[w]
    /\ pc[w] = "unlinkOlder" => idx[w] > 0 /\ bak[idx[w]] # None /\ bak[idx[w] - 1] # None
    /\ pc[w] = "rename" => idx[w] > 0 /\ bak[idx[w] - 1] # None

AloneUndisturbed == \A w \in Writers : alone[w] => Undisturbed(w)

\* AloneUndisturbed is inductive, given the types and the two names.
LEMMA AloneIsUndisturbed == Spec => []AloneUndisturbed
<1>1. Init => AloneUndisturbed
  BY DEF Init, AloneUndisturbed
<1>2. Typed /\ Names /\ AloneUndisturbed /\ [Next]_vars => AloneUndisturbed'
  <2> SUFFICES ASSUME Typed, Names, AloneUndisturbed, [Next]_vars PROVE AloneUndisturbed'
    OBVIOUS
  <2> USE DEF Typed, TypeOK, Names, AloneUndisturbed, Undisturbed, Points, Published,
       Data, Versions, None, Torn, Goto, Busy, Loaded, disk, history
  <2>1. ASSUME NEW w \in Writers, Store(w) PROVE AloneUndisturbed'
    <3> SUFFICES ASSUME NEW u \in Writers, alone'[u] PROVE Undisturbed(u)'
      OBVIOUS
    <3>1. /\ val' = [val EXCEPT ![w] = version'] /\ pc' = [pc EXCEPT ![w] = "seed"]
          /\ version' \in Versions /\ ~Busy(w)
          /\ UNCHANGED <<disk, fd, idx, returned>>
      BY <2>1, StoresAssumption DEF Store
    <3>2. CASE u = w
      <4>1. \A x \in Writers \ {w} : ~Busy(x)
        BY <2>1, <3>2, Zenon DEF Store
      <4>2. QED
        BY <3>1, <3>2, <4>1
    <3>3. CASE u # w
      <4>1. alone[u] /\ ~Busy(u)
        BY <2>1, <3>3, Zenon DEF Store
      <4>2. QED
        BY <3>1, <3>3, <4>1
    <3>4. QED
      BY <3>2, <3>3
  <2>2. ASSUME NEW w \in Writers, Seed(w) PROVE AloneUndisturbed'
    <3> SUFFICES ASSUME NEW u \in Writers, alone[u] PROVE Undisturbed(u)'
      BY <2>2 DEF Seed
    <3>1. CASE u = w
      BY <2>2, <3>1, InodesAssumption DEF Seed
    <3>2. CASE u # w
      BY <2>2, <3>2 DEF Seed
    <3>3. QED
      BY <3>1, <3>2
  <2>3. ASSUME NEW w \in Writers, SeedCopy(w) PROVE AloneUndisturbed'
    BY <2>3, StoresAssumption, InodesAssumption, BackupsAssumption DEF SeedCopy
  <2>4. ASSUME NEW w \in Writers, Cleanup(w) PROVE AloneUndisturbed'
    <3> SUFFICES ASSUME NEW u \in Writers, alone[u] PROVE Undisturbed(u)'
      BY <2>4 DEF Cleanup
    <3>1. CASE u = w
      BY <2>4, <3>1, InodesAssumption DEF Cleanup
    <3>2. CASE u # w
      BY <2>4, <3>2 DEF Cleanup
    <3>3. QED
      BY <3>1, <3>2
  <2>5. ASSUME NEW w \in Writers, UnlinkTmp(w) PROVE AloneUndisturbed'
    <3> SUFFICES ASSUME NEW u \in Writers, alone[u] PROVE Undisturbed(u)'
      BY <2>5 DEF UnlinkTmp
    <3>1. CASE u = w
      BY <2>5, <3>1, InodesAssumption DEF UnlinkTmp
    <3>2. CASE u # w
      BY <2>5, <3>2 DEF UnlinkTmp
    <3>3. QED
      BY <3>1, <3>2
  <2>6. ASSUME NEW w \in Writers, Open(w) PROVE AloneUndisturbed'
    BY <2>6, StoresAssumption, InodesAssumption, BackupsAssumption DEF Open
  <2>7. ASSUME NEW w \in Writers, Write(w) PROVE AloneUndisturbed'
    BY <2>7, StoresAssumption, InodesAssumption, BackupsAssumption DEF Write
  <2>8. ASSUME NEW w \in Writers, Replace(w) PROVE AloneUndisturbed'
    BY <2>8, StoresAssumption, InodesAssumption, BackupsAssumption DEF Replace
  <2>9. ASSUME NEW w \in Writers, Validate(w) PROVE AloneUndisturbed'
    BY <2>9, StoresAssumption, InodesAssumption, BackupsAssumption DEF Validate
  <2>10. ASSUME NEW w \in Writers, Rotate(w) PROVE AloneUndisturbed'
    BY <2>10, StoresAssumption, InodesAssumption, BackupsAssumption DEF Rotate
  <2>11. ASSUME NEW w \in Writers, UnlinkOlder(w) PROVE AloneUndisturbed'
    BY <2>11, StoresAssumption, InodesAssumption, BackupsAssumption DEF UnlinkOlder
  <2>12. ASSUME NEW w \in Writers, Rename(w) PROVE AloneUndisturbed'
    BY <2>12, StoresAssumption, InodesAssumption, BackupsAssumption DEF Rename
  <2>13. ASSUME NEW w \in Writers, Copy(w) PROVE AloneUndisturbed'
    BY <2>13, StoresAssumption, InodesAssumption, BackupsAssumption DEF Copy
  <2>14. ASSUME NEW w \in Writers, Copied(w) PROVE AloneUndisturbed'
    BY <2>14, StoresAssumption, InodesAssumption, BackupsAssumption DEF Copied
  <2>15. CASE Kill
    BY <2>15 DEF Kill
  <2>16. CASE UNCHANGED vars
    BY <2>16 DEF vars
  <2>17. QED
    BY <2>1, <2>2, <2>3, <2>4, <2>5, <2>6, <2>7, <2>8, <2>9, <2>10, <2>11, <2>12, <2>13,
         <2>14, <2>15, <2>16 DEF Next, Step
<1>3. QED
  BY <1>1, <1>2, AlwaysTyped, NamesApart, PTL DEF Spec

\* However many writers there are, a store that none of the others overlaps
\* neither raises nor is lost, whatever earlier stores and kills have left.
THEOREM AloneSucceeds == Spec => []AloneWorks
<1>1. AloneUndisturbed => AloneWorks
  BY DEF AloneUndisturbed, Undisturbed, AloneWorks
<1>2. QED
  BY <1>1, AloneIsUndisturbed, PTL

-----------------------------------------------------------------------------
\* With one writer a store is ahead of everything that has been stored, and
\* what it has not yet renamed is not the resource.
OneWriter ==
    /\ \A w \in Writers :
         /\ pc[w] # "idle" /\ pc[w] \notin Published /\ Busy(w) => Loaded < val[w]
         /\ pc[w] = "open" => tmp = NoInode
         /\ pc[w] = "write" => tmp = fd[w] /\ content[fd[w]] = Torn
         /\ pc[w] = "replace" /\ tmp # NoInode => content[tmp] = val[w]
    /\ \A w \in Writers : val[w] <= version
    /\ Loaded \in 0..version

\* OneWriter is inductive, given the types and the two names.
LEMMA OneWriterKept == (\A w, u \in Writers : w = u) => (Spec => []OneWriter)
<1> SUFFICES ASSUME \A w, u \in Writers : w = u PROVE Spec => []OneWriter
  OBVIOUS
<1>1. Init => OneWriter
  <2> SUFFICES ASSUME Init PROVE OneWriter
    OBVIOUS
  <2>1. Loaded = 0 /\ \A w \in Writers : pc[w] = "idle" /\ val[w] = 0
    BY DEF Init, Loaded, None
  <2>2. version = 0
    BY DEF Init
  <2>3. QED
    BY <2>1, <2>2 DEF OneWriter, Busy
<1>2. Typed /\ Names /\ OneWriter /\ [Next]_vars => OneWriter'
  <2> SUFFICES ASSUME Typed, Names, OneWriter, [Next]_vars PROVE OneWriter'
    OBVIOUS
  <2> USE DEF Typed, TypeOK, Names, OneWriter, Points, Published, Data, Versions, None,
       Torn, Goto, Busy, Loaded, disk, history
  <2>1. ASSUME NEW w \in Writers, Store(w) PROVE OneWriter'
    BY <2>1, StoresAssumption, InodesAssumption DEF Store
  <2>2. ASSUME NEW w \in Writers, Seed(w) PROVE OneWriter'
    BY <2>2, StoresAssumption, InodesAssumption DEF Seed
  <2>3. ASSUME NEW w \in Writers, SeedCopy(w) PROVE OneWriter'
    BY <2>3, StoresAssumption, InodesAssumption DEF SeedCopy
  <2>4. ASSUME NEW w \in Writers, Cleanup(w) PROVE OneWriter'
    BY <2>4, StoresAssumption, InodesAssumption DEF Cleanup
  <2>5. ASSUME NEW w \in Writers, UnlinkTmp(w) PROVE OneWriter'
    BY <2>5, StoresAssumption, InodesAssumption DEF UnlinkTmp
  <2>6. ASSUME NEW w \in Writers, Open(w) PROVE OneWriter'
    BY <2>6, StoresAssumption, InodesAssumption DEF Open
  <2>7. ASSUME NEW w \in Writers, Write(w) PROVE OneWriter'
    BY <2>7, StoresAssumption, InodesAssumption DEF Write
  <2>8. ASSUME NEW w \in Writers, Replace(w) PROVE OneWriter'
    BY <2>8, StoresAssumption, InodesAssumption DEF Replace
  <2>9. ASSUME NEW w \in Writers, Validate(w) PROVE OneWriter'
    BY <2>9, StoresAssumption, InodesAssumption DEF Validate
  <2>10. ASSUME NEW w \in Writers, Rotate(w) PROVE OneWriter'
    BY <2>10, StoresAssumption, InodesAssumption DEF Rotate
  <2>11. ASSUME NEW w \in Writers, UnlinkOlder(w) PROVE OneWriter'
    BY <2>11, StoresAssumption, InodesAssumption DEF UnlinkOlder
  <2>12. ASSUME NEW w \in Writers, Rename(w) PROVE OneWriter'
    BY <2>12, StoresAssumption, InodesAssumption DEF Rename
  <2>13. ASSUME NEW w \in Writers, Copy(w) PROVE OneWriter'
    BY <2>13, StoresAssumption, InodesAssumption DEF Copy
  <2>14. ASSUME NEW w \in Writers, Copied(w) PROVE OneWriter'
    BY <2>14, StoresAssumption, InodesAssumption DEF Copied
  <2>15. CASE Kill
    BY <2>15 DEF Kill
  <2>16. CASE UNCHANGED vars
    BY <2>16 DEF vars
  <2>17. QED
    BY <2>1, <2>2, <2>3, <2>4, <2>5, <2>6, <2>7, <2>8, <2>9, <2>10, <2>11, <2>12, <2>13,
         <2>14, <2>15, <2>16 DEF Next, Step
<1>3. QED
  BY <1>1, <1>2, AlwaysTyped, NamesApart, PTL DEF Spec

\* A resource with a single writer is never torn, whatever is killed.
THEOREM OneWriterReadable == (\A w, u \in Writers : w = u) => (Spec => []Readable)
<1> SUFFICES ASSUME \A w, u \in Writers : w = u PROVE Spec => []Readable
  OBVIOUS
<1>1. Typed /\ OneWriter => Readable
  BY DEF Typed, TypeOK, OneWriter, Readable, Torn
<1>2. QED
  BY <1>1, AlwaysTyped, OneWriterKept, PTL

\* It implements an atomic register: every step publishes a newer complete
\* version or leaves what a reader gets as it is.
THEOREM OneWriterImplements == (\A w, u \in Writers : w = u) => (Spec => ImplementsRegister)
<1> SUFFICES ASSUME \A w, u \in Writers : w = u PROVE Spec => ImplementsRegister
  OBVIOUS
<1>1. Init => AsRegister!Init
  BY DEF Init, AsRegister!Init, Loaded, None
<1>2. Typed /\ Names /\ OneWriter /\ [Next]_vars => [AsRegister!Publish]_Loaded
  <2> SUFFICES ASSUME Typed, Names, OneWriter, [Next]_vars PROVE [AsRegister!Publish]_Loaded
    OBVIOUS
  <2> USE DEF Typed, TypeOK, Names, OneWriter, Points, Published, Data, Versions, None,
       Torn, Goto, Busy, Loaded, disk, history, AsRegister!Publish
  <2>1. ASSUME NEW w \in Writers, Store(w) PROVE [AsRegister!Publish]_Loaded
    BY <2>1, StoresAssumption, InodesAssumption DEF Store
  <2>2. ASSUME NEW w \in Writers, Seed(w) PROVE [AsRegister!Publish]_Loaded
    BY <2>2, StoresAssumption, InodesAssumption DEF Seed
  <2>3. ASSUME NEW w \in Writers, SeedCopy(w) PROVE [AsRegister!Publish]_Loaded
    BY <2>3, StoresAssumption, InodesAssumption DEF SeedCopy
  <2>4. ASSUME NEW w \in Writers, Cleanup(w) PROVE [AsRegister!Publish]_Loaded
    BY <2>4, StoresAssumption, InodesAssumption DEF Cleanup
  <2>5. ASSUME NEW w \in Writers, UnlinkTmp(w) PROVE [AsRegister!Publish]_Loaded
    BY <2>5, StoresAssumption, InodesAssumption DEF UnlinkTmp
  <2>6. ASSUME NEW w \in Writers, Open(w) PROVE [AsRegister!Publish]_Loaded
    BY <2>6, StoresAssumption, InodesAssumption DEF Open
  <2>7. ASSUME NEW w \in Writers, Write(w) PROVE [AsRegister!Publish]_Loaded
    BY <2>7, StoresAssumption, InodesAssumption DEF Write
  <2>8. ASSUME NEW w \in Writers, Replace(w) PROVE [AsRegister!Publish]_Loaded
    BY <2>8, StoresAssumption, InodesAssumption DEF Replace
  <2>9. ASSUME NEW w \in Writers, Validate(w) PROVE [AsRegister!Publish]_Loaded
    BY <2>9, StoresAssumption, InodesAssumption DEF Validate
  <2>10. ASSUME NEW w \in Writers, Rotate(w) PROVE [AsRegister!Publish]_Loaded
    BY <2>10, StoresAssumption, InodesAssumption DEF Rotate
  <2>11. ASSUME NEW w \in Writers, UnlinkOlder(w) PROVE [AsRegister!Publish]_Loaded
    BY <2>11, StoresAssumption, InodesAssumption DEF UnlinkOlder
  <2>12. ASSUME NEW w \in Writers, Rename(w) PROVE [AsRegister!Publish]_Loaded
    BY <2>12, StoresAssumption, InodesAssumption DEF Rename
  <2>13. ASSUME NEW w \in Writers, Copy(w) PROVE [AsRegister!Publish]_Loaded
    BY <2>13, StoresAssumption, InodesAssumption DEF Copy
  <2>14. ASSUME NEW w \in Writers, Copied(w) PROVE [AsRegister!Publish]_Loaded
    BY <2>14, StoresAssumption, InodesAssumption DEF Copied
  <2>15. CASE Kill
    BY <2>15 DEF Kill
  <2>16. CASE UNCHANGED vars
    BY <2>16 DEF vars
  <2>17. QED
    BY <2>1, <2>2, <2>3, <2>4, <2>5, <2>6, <2>7, <2>8, <2>9, <2>10, <2>11, <2>12, <2>13,
         <2>14, <2>15, <2>16 DEF Next, Step
<1>3. QED
  BY <1>1, <1>2, AlwaysTyped, NamesApart, OneWriterKept, PTL DEF Spec, ImplementsRegister,
     AsRegister!Spec

\* With one writer the backups hold versions no newer than the resource, and older
\* ones behind newer ones.
Ordered ==
    /\ BackupsOrdered
    /\ \A i \in 0..(NBackups - 1) : bak[i] \in Versions => bak[i] <= Loaded

\* A rotation moves a backup into the gap behind it, and what is copied into the
\* first one is the newest.
LEMMA BackupsStayOrdered == (\A w, u \in Writers : w = u) => (Spec => []Ordered)
<1> SUFFICES ASSUME \A w, u \in Writers : w = u PROVE Spec => []Ordered
  OBVIOUS
<1>1. Init => Ordered
  BY BackupsAssumption DEF Init, Ordered, BackupsOrdered, Loaded, None, Versions, Torn, Published
<1>2. Typed /\ Names /\ OneWriter /\ Ordered /\ [Next]_vars => Ordered'
  <2> SUFFICES ASSUME Typed, Names, OneWriter, Ordered, [Next]_vars PROVE Ordered'
    OBVIOUS
  <2> USE DEF Typed, TypeOK, Names, OneWriter, Ordered, BackupsOrdered, Points, Published, Data, Versions,
       None, Torn, Goto, Busy, Loaded, disk, history
  <2>1. ASSUME NEW w \in Writers, Store(w) PROVE Ordered'
    BY <2>1, StoresAssumption, InodesAssumption, BackupsAssumption DEF Store
  <2>2. ASSUME NEW w \in Writers, Seed(w) PROVE Ordered'
    <3>1. Loaded' = Loaded
      BY <2>2 DEF Seed
    <3>2. \A i \in 0..(NBackups - 1) : bak'[i] \in Versions => bak'[i] = bak[i]
      BY <2>2, BackupsAssumption DEF Seed
    <3>3. QED
      BY <3>1, <3>2, StoresAssumption DEF BackupsOrdered
  <2>3. ASSUME NEW w \in Writers, SeedCopy(w) PROVE Ordered'
    BY <2>3, StoresAssumption, InodesAssumption, BackupsAssumption DEF SeedCopy
  <2>4. ASSUME NEW w \in Writers, Cleanup(w) PROVE Ordered'
    BY <2>4, StoresAssumption, InodesAssumption, BackupsAssumption DEF Cleanup
  <2>5. ASSUME NEW w \in Writers, UnlinkTmp(w) PROVE Ordered'
    BY <2>5, StoresAssumption, InodesAssumption, BackupsAssumption DEF UnlinkTmp
  <2>6. ASSUME NEW w \in Writers, Open(w) PROVE Ordered'
    BY <2>6, StoresAssumption, InodesAssumption, BackupsAssumption DEF Open
  <2>7. ASSUME NEW w \in Writers, Write(w) PROVE Ordered'
    BY <2>7, StoresAssumption, InodesAssumption, BackupsAssumption DEF Write
  <2>8. ASSUME NEW w \in Writers, Replace(w) PROVE Ordered'
    BY <2>8, StoresAssumption, InodesAssumption, BackupsAssumption DEF Replace
  <2>9. ASSUME NEW w \in Writers, Validate(w) PROVE Ordered'
    BY <2>9, StoresAssumption, InodesAssumption, BackupsAssumption DEF Validate
  <2>10. ASSUME NEW w \in Writers, Rotate(w) PROVE Ordered'
    BY <2>10, StoresAssumption, InodesAssumption, BackupsAssumption DEF Rotate
  <2>11. ASSUME NEW w \in Writers, UnlinkOlder(w) PROVE Ordered'
    BY <2>11, StoresAssumption, InodesAssumption, BackupsAssumption DEF UnlinkOlder
  <2>12. ASSUME NEW w \in Writers, Rename(w) PROVE Ordered'
    <3>1. Loaded' = Loaded
      BY <2>12 DEF Rename
    <3>2. CASE UNCHANGED bak
      BY <3>1, <3>2 DEF BackupsOrdered
    <3>3. CASE bak' = [bak EXCEPT ![idx[w]] = bak[idx[w] - 1], ![idx[w] - 1] = None]
      <4>1. idx[w] \in 1..(NBackups - 1) /\ idx[w] - 1 \in 0..(NBackups - 1)
        BY <2>12, BackupsAssumption DEF Rename
      <4>2. \A k \in 0..(NBackups - 1) :
              bak'[k] \in Versions => /\ k # idx[w] - 1
                                      /\ bak'[k] = bak[IF k = idx[w] THEN idx[w] - 1 ELSE k]
        BY <3>3, <4>1, BackupsAssumption, StoresAssumption
      <4>3. \A k \in 0..(NBackups - 1) : bak'[k] \in Versions => bak'[k] <= Loaded
        BY <4>1, <4>2, StoresAssumption, BackupsAssumption
      <4>4. ASSUME NEW i \in 0..(NBackups - 1), NEW j \in 0..(NBackups - 1), i < j,
                   bak'[i] \in Versions, bak'[j] \in Versions
            PROVE  bak'[i] >= bak'[j]
        <5>1. CASE j = idx[w]
          <6>1. i < idx[w] - 1 /\ bak'[i] = bak[i] /\ bak'[j] = bak[idx[w] - 1]
            BY <4>1, <4>2, <4>4, <5>1, BackupsAssumption
          <6>2. QED
            BY <4>1, <4>4, <6>1 DEF BackupsOrdered
        <5>2. CASE i = idx[w]
          <6>1. idx[w] - 1 < j /\ bak'[i] = bak[idx[w] - 1] /\ bak'[j] = bak[j]
            BY <4>1, <4>2, <4>4, <5>2, BackupsAssumption
          <6>2. QED
            BY <4>1, <4>4, <6>1 DEF BackupsOrdered
        <5>3. CASE i # idx[w] /\ j # idx[w]
          <6>1. bak'[i] = bak[i] /\ bak'[j] = bak[j]
            BY <4>2, <4>4, <5>3
          <6>2. QED
            BY <4>4, <6>1 DEF BackupsOrdered
        <5>4. QED
          BY <5>1, <5>2, <5>3
      <4>5. QED
        BY <3>1, <4>3, <4>4 DEF BackupsOrdered
    <3>4. QED
      BY <2>12, <3>2, <3>3 DEF Rename
  <2>13. ASSUME NEW w \in Writers, Copy(w) PROVE Ordered'
    BY <2>13, StoresAssumption, InodesAssumption, BackupsAssumption DEF Copy
  <2>14. ASSUME NEW w \in Writers, Copied(w) PROVE Ordered'
    BY <2>14, StoresAssumption, InodesAssumption, BackupsAssumption DEF Copied
  <2>15. CASE Kill
    BY <2>15 DEF Kill
  <2>16. CASE UNCHANGED vars
    BY <2>16 DEF vars
  <2>17. QED
    BY <2>1, <2>2, <2>3, <2>4, <2>5, <2>6, <2>7, <2>8, <2>9, <2>10, <2>11, <2>12, <2>13,
         <2>14, <2>15, <2>16 DEF Next, Step
<1>3. QED
  BY <1>1, <1>2, AlwaysTyped, NamesApart, OneWriterKept, PTL DEF Spec

\* The backups of a single writer are in order, also while they are rotated and
\* after a kill in the midst of it.
THEOREM OneWriterOrdered == (\A w, u \in Writers : w = u) => (Spec => []BackupsOrdered)
<1> SUFFICES ASSUME \A w, u \in Writers : w = u PROVE Spec => []BackupsOrdered
  OBVIOUS
<1>1. Ordered => BackupsOrdered
  BY DEF Ordered
<1>2. QED
  BY <1>1, BackupsStayOrdered, PTL

\* What the last finished store has left is in a backup as long as it is the
\* resource; while backups are rotated the resource is newer than that.
Kept ==
    /\ returned \in 0..version /\ returned <= Loaded
    /\ returned # None /\ Loaded = returned =>
         \E i \in 0..(NBackups - 1) : bak[i] = returned
    /\ \A w \in Writers : /\ pc[w] = "replace" => tmp # NoInode
                          /\ pc[w] \in Published => returned < Loaded

\* Kept is inductive for one writer: only a rotation takes a backup away, and it runs
\* between the rename and the return.
LEMMA FinishedIsKept == (\A w, u \in Writers : w = u) => (Spec => []Kept)
<1> SUFFICES ASSUME \A w, u \in Writers : w = u PROVE Spec => []Kept
  OBVIOUS
<1>1. Init => Kept
  BY BackupsAssumption DEF Init, Kept, Loaded, None, Versions, Torn, Published
<1>2. Typed /\ Names /\ OneWriter /\ Kept /\ [Next]_vars => Kept'
  <2> SUFFICES ASSUME Typed, Names, OneWriter, Kept, [Next]_vars PROVE Kept'
    OBVIOUS
  <2> USE DEF Typed, TypeOK, Names, OneWriter, Kept, Points, Published, Data, Versions,
       None, Torn, Goto, Busy, Loaded, disk, history
  <2>1. ASSUME NEW w \in Writers, Store(w) PROVE Kept'
    BY <2>1, StoresAssumption, InodesAssumption, BackupsAssumption DEF Store
  <2>2. ASSUME NEW w \in Writers, Seed(w) PROVE Kept'
    BY <2>2, StoresAssumption, InodesAssumption, BackupsAssumption DEF Seed
  <2>3. ASSUME NEW w \in Writers, SeedCopy(w) PROVE Kept'
    BY <2>3, StoresAssumption, InodesAssumption, BackupsAssumption DEF SeedCopy
  <2>4. ASSUME NEW w \in Writers, Cleanup(w) PROVE Kept'
    BY <2>4, StoresAssumption, InodesAssumption, BackupsAssumption DEF Cleanup
  <2>5. ASSUME NEW w \in Writers, UnlinkTmp(w) PROVE Kept'
    BY <2>5, StoresAssumption, InodesAssumption, BackupsAssumption DEF UnlinkTmp
  <2>6. ASSUME NEW w \in Writers, Open(w) PROVE Kept'
    BY <2>6, StoresAssumption, InodesAssumption, BackupsAssumption DEF Open
  <2>7. ASSUME NEW w \in Writers, Write(w) PROVE Kept'
    BY <2>7, StoresAssumption, InodesAssumption, BackupsAssumption DEF Write
  <2>8. ASSUME NEW w \in Writers, Replace(w) PROVE Kept'
    BY <2>8, StoresAssumption, InodesAssumption, BackupsAssumption DEF Replace
  <2>9. ASSUME NEW w \in Writers, Validate(w) PROVE Kept'
    BY <2>9, StoresAssumption, InodesAssumption, BackupsAssumption DEF Validate
  <2>10. ASSUME NEW w \in Writers, Rotate(w) PROVE Kept'
    BY <2>10, StoresAssumption, InodesAssumption, BackupsAssumption DEF Rotate
  <2>11. ASSUME NEW w \in Writers, UnlinkOlder(w) PROVE Kept'
    BY <2>11, StoresAssumption, InodesAssumption, BackupsAssumption DEF UnlinkOlder
  <2>12. ASSUME NEW w \in Writers, Rename(w) PROVE Kept'
    BY <2>12, StoresAssumption, InodesAssumption, BackupsAssumption DEF Rename
  <2>13. ASSUME NEW w \in Writers, Copy(w) PROVE Kept'
    BY <2>13, StoresAssumption, InodesAssumption, BackupsAssumption DEF Copy
  <2>14. ASSUME NEW w \in Writers, Copied(w) PROVE Kept'
    BY <2>14, StoresAssumption, InodesAssumption, BackupsAssumption DEF Copied
  <2>15. CASE Kill
    BY <2>15 DEF Kill
  <2>16. CASE UNCHANGED vars
    BY <2>16 DEF vars
  <2>17. QED
    BY <2>1, <2>2, <2>3, <2>4, <2>5, <2>6, <2>7, <2>8, <2>9, <2>10, <2>11, <2>12, <2>13,
         <2>14, <2>15, <2>16 DEF Next, Step
<1>3. QED
  BY <1>1, <1>2, AlwaysTyped, NamesApart, OneWriterKept, PTL DEF Spec

\* What a finished store has left is in a backup when the next one replaces it, so that
\* it is not lost with a version that cannot be used.
THEOREM OneWriterKeeps == (\A w, u \in Writers : w = u) => (Spec => FinishedKept)
<1> SUFFICES ASSUME \A w, u \in Writers : w = u PROVE Spec => FinishedKept
  OBVIOUS
<1>1. Kept => (returned # None /\ Loaded = returned =>
                 \E i \in 0..(NBackups - 1) : bak[i] = returned)
  BY DEF Kept
<1>2. QED
  BY <1>1, FinishedIsKept, PTL DEF Spec, FinishedKept
=============================================================================
