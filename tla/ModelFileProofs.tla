---------------------------- MODULE ModelFileProofs ----------------------------
(***************************************************************************)
(* Proofs about ModelFile: its type invariant, that what was saved last is *)
(* on disk, that two instances never have one document open, and that what *)
(* was saved automatically stays on disk and is what a recovery opens; for *)
(* any number of instances, folders, edits and crashes.                    *)
(***************************************************************************)
EXTENDS ModelFile, TLAPS


\* Every step keeps the types.
LEMMA TypeStep ==
  ASSUME TypeOK, [Next]_vars
  PROVE  TypeOK'
<1> USE ModelFileAssumption DEF TypeOK, Folders, NoFolder, None, Torn,
   Contents, Mishaps, Points
<1>1. ASSUME NEW i \in Instances, Start(i) PROVE TypeOK'
  BY <1>1 DEF Start, Goes, RemoveFolders, Empty, Notes
<1>2. ASSUME NEW i \in Instances, OpenFound(i) PROVE TypeOK'
  BY <1>2 DEF OpenFound, Goes, diskVars, Recoverable, NotesRace, Notes
<1>3. ASSUME NEW i \in Instances, OpenFresh(i) PROVE TypeOK'
  BY <1>3 DEF OpenFresh, Goes, diskVars, NotesRace, Notes
<1>4. ASSUME NEW i \in Instances, DeclineRecovery(i) PROVE TypeOK'
  BY <1>4 DEF DeclineRecovery, Goes, RemoveFolders, Unlocked
<1>5. ASSUME NEW i \in Instances, AcceptRecovery(i) PROVE TypeOK'
  <2>1. pc' \in [Instances -> Points] /\ main' \in [Folders -> Contents]
    BY <1>5 DEF AcceptRecovery, Goes
  <2>2. mishaps' \subseteq Mishaps
    BY <1>5 DEF AcceptRecovery, Notes
  <2>3. folder' \in [Instances -> Folders \cup {NoFolder}]
    BY <1>5 DEF AcceptRecovery
  <2> QED
    BY <1>5, <2>1, <2>2, <2>3 DEF AcceptRecovery
<1>6. ASSUME NEW i \in Instances, MoveAutosave(i) PROVE TypeOK'
  BY <1>6 DEF MoveAutosave, Goes, history
<1>7. ASSUME NEW i \in Instances, Relock(i) PROVE TypeOK'
  <2>1. CASE 0 \in exists /\ lock[0] = NoOne
    <3>1. main[0] \in Contents
      BY <2>1
    <3>2. pc' \in [Instances -> Points]
      BY <1>7, <2>1 DEF Relock, Load
    <3>3. lock' \in [Folders -> Instances \cup {NoOne}]
      BY <1>7, <2>1 DEF Relock, Load
    <3>4. mem' \in [Instances -> Contents] /\ autoPoint' \in [Instances ->
       Contents]
      BY <1>7, <2>1, <3>1 DEF Relock, Load
    <3> QED BY <1>7, <3>2, <3>3, <3>4 DEF Relock, diskVars, history
  <2>2. CASE ~(0 \in exists /\ lock[0] = NoOne)
    BY <1>7, <2>2 DEF Relock, diskVars, history
  <2> QED BY <2>1, <2>2
<1>8. ASSUME NEW i \in Instances, CreateFolder(i) PROVE TypeOK'
  BY <1>8 DEF CreateFolder, history, FreeFolders, Load
<1>9. ASSUME NEW i \in Instances, Edit(i) PROVE TypeOK'
  BY <1>9 DEF Edit, diskVars
<1>10. ASSUME NEW i \in Instances, AutosaveBegin(i) PROVE TypeOK'
  BY <1>10 DEF AutosaveBegin, Goes, history, Here
<1>11. ASSUME NEW i \in Instances, AutosaveReplaces(i) PROVE TypeOK'
  BY <1>11 DEF AutosaveReplaces, Goes, history, Here
<1>12. ASSUME NEW i \in Instances, AutosaveEnd(i) PROVE TypeOK'
  <2>1. CASE Here(i) \in exists
    <3>1. Here(i) \in Folders /\ mem[i] \in Contents
      BY <2>1
    <3>2. Newest(mem[i]) \in 0 .. MaxVersion
      BY <3>1 DEF Newest
    <3>3. auto' \in [Folders -> Contents] /\ tmp' \in [Folders -> Contents]
      BY <1>12, <2>1, <3>1 DEF AutosaveEnd
    <3>4. pc' \in [Instances -> Points]
      BY <1>12 DEF AutosaveEnd, Goes
    <3> QED BY <1>12, <2>1, <3>2, <3>3, <3>4 DEF AutosaveEnd
  <2>2. CASE Here(i) \notin exists
    BY <1>12, <2>2 DEF AutosaveEnd, Goes, Here
  <2> QED BY <2>1, <2>2
<1>13. ASSUME NEW i \in Instances, StoreBegin(i) PROVE TypeOK'
  <2>1. pc' \in [Instances -> Points]
    BY <1>13 DEF StoreBegin, Goes
  <2>2. main' \in [Folders -> Contents] /\ tmp' \in [Folders -> Contents]
    <3>1. Torn \in Contents /\ mem[i] \in Contents
      OBVIOUS
    <3>2. CASE main[Here(i)] = None
      BY <1>13, <3>1, <3>2 DEF StoreBegin
    <3>3. CASE main[Here(i)] # None
      BY <1>13, <3>1, <3>3 DEF StoreBegin
    <3> QED  BY <3>2, <3>3
  <2>3. UNCHANGED <<file, bak, exists, auto, lock, folder, mem, autoPoint, history>>
    BY <1>13 DEF StoreBegin
  <2> QED  BY <2>1, <2>2, <2>3 DEF history
<1>14. ASSUME NEW i \in Instances, StoreReplaces(i) PROVE TypeOK'
  BY <1>14 DEF StoreReplaces, Goes, history, Here
<1>15. ASSUME NEW i \in Instances, StoreEnd(i) PROVE TypeOK'
  BY <1>15 DEF StoreEnd, Goes, history, Here
<1>16. ASSUME NEW i \in Instances, SaveGivesUp(i) PROVE TypeOK'
  BY <1>16 DEF SaveGivesUp, Goes, history
<1>17. ASSUME NEW i \in Instances, BackUp(i) PROVE TypeOK'
  BY <1>17 DEF BackUp, Goes, history, BackedUp
<1>18. ASSUME NEW i \in Instances, ClearAutosave(i) PROVE TypeOK'
  BY <1>18 DEF ClearAutosave, Goes, history, Here
<1>19. ASSUME NEW i \in Instances, Pack(i) PROVE TypeOK'
  BY <1>19 DEF Pack, Goes, Here, Newest
<1>20. ASSUME NEW i \in Instances, PackFails(i) PROVE TypeOK'
  BY <1>20 DEF PackFails, Goes, diskVars, history
<1>21. ASSUME NEW i \in Instances, CloseBegin(i) PROVE TypeOK'
  BY <1>21 DEF CloseBegin, Goes, diskVars, Here, NotesRace, Notes
<1>22. ASSUME NEW i \in Instances, CloseEnd(i) PROVE TypeOK'
  BY <1>22 DEF CloseEnd, Goes, history, RemoveFolders, Unlocked, Here
<1>23. ASSUME NEW i \in Instances, Crash(i) PROVE TypeOK'
  BY <1>23 DEF Crash, diskVars
<1>24. CASE UNCHANGED vars
  BY <1>24 DEF vars, diskVars, instanceVars, history
<1> QED
  BY <1>1, <1>2, <1>3, <1>4, <1>5, <1>6, <1>7, <1>8, <1>9, <1>10, <1>11,
     <1>12, <1>13, <1>14, <1>15, <1>16, <1>17, <1>18, <1>19, <1>20, <1>21,
     <1>22, <1>23, <1>24
  DEF Next, Open, Autosave, Save

\* Type correctness of the files, the instances and the history, for every
\* value of the constants.
THEOREM TypeCorrect == Spec => []TypeOK
<1>1. Init => TypeOK
  BY ModelFileAssumption
  DEF Init, TypeOK, Folders, NoFolder, None, Torn, Contents, Mishaps, Points
<1> QED BY <1>1, TypeStep, PTL DEF Spec

-----------------------------------------------------------------------------
\* Save never leaves both the document and its backup without what was saved
\* last: it empties the document's name only after the backup has it.
Backed == file = saved \/ (file = None /\ bak = saved)

\* Every step keeps the saved version in one of the two files.
LEMMA BackedStep ==
  ASSUME TypeOK, Backed, [Next]_vars
  PROVE  Backed'
<1> USE ModelFileAssumption DEF TypeOK, Backed, None
<1>1. ASSUME NEW i \in Instances, Start(i) PROVE Backed'
  BY <1>1 DEF Start, Goes, RemoveFolders, Empty, Notes
<1>2. ASSUME NEW i \in Instances, OpenFound(i) PROVE Backed'
  BY <1>2 DEF OpenFound, Goes, diskVars, Recoverable, NotesRace, Notes
<1>3. ASSUME NEW i \in Instances, OpenFresh(i) PROVE Backed'
  BY <1>3 DEF OpenFresh, Goes, diskVars, NotesRace, Notes
<1>4. ASSUME NEW i \in Instances, DeclineRecovery(i) PROVE Backed'
  BY <1>4 DEF DeclineRecovery, Goes, RemoveFolders, Unlocked
<1>5. ASSUME NEW i \in Instances, AcceptRecovery(i) PROVE Backed'
  BY <1>5 DEF AcceptRecovery, Goes, HasAutosave, Notes
<1>6. ASSUME NEW i \in Instances, MoveAutosave(i) PROVE Backed'
  BY <1>6 DEF MoveAutosave, Goes, history
<1>7. ASSUME NEW i \in Instances, Relock(i) PROVE Backed'
  BY <1>7 DEF Relock, diskVars, history, Load
<1>8. ASSUME NEW i \in Instances, CreateFolder(i) PROVE Backed'
  BY <1>8 DEF CreateFolder, history, FreeFolders, Load
<1>9. ASSUME NEW i \in Instances, Edit(i) PROVE Backed'
  BY <1>9 DEF Edit, diskVars
<1>10. ASSUME NEW i \in Instances, AutosaveBegin(i) PROVE Backed'
  BY <1>10 DEF AutosaveBegin, Goes, history, Here
<1>11. ASSUME NEW i \in Instances, AutosaveReplaces(i) PROVE Backed'
  BY <1>11 DEF AutosaveReplaces, Goes, history, Here
<1>12. ASSUME NEW i \in Instances, AutosaveEnd(i) PROVE Backed'
  BY <1>12 DEF AutosaveEnd, Goes, Here, Newest
<1>13. ASSUME NEW i \in Instances, StoreBegin(i) PROVE Backed'
  BY <1>13 DEF StoreBegin, Goes, history, Here
<1>14. ASSUME NEW i \in Instances, StoreReplaces(i) PROVE Backed'
  BY <1>14 DEF StoreReplaces, Goes, history, Here
<1>15. ASSUME NEW i \in Instances, StoreEnd(i) PROVE Backed'
  BY <1>15 DEF StoreEnd, Goes, history, Here
<1>16. ASSUME NEW i \in Instances, SaveGivesUp(i) PROVE Backed'
  BY <1>16 DEF SaveGivesUp, Goes, history
<1>17. ASSUME NEW i \in Instances, BackUp(i) PROVE Backed'
  BY <1>17 DEF BackUp, Goes, history, BackedUp
<1>18. ASSUME NEW i \in Instances, ClearAutosave(i) PROVE Backed'
  BY <1>18 DEF ClearAutosave, Goes, history, Here
<1>19. ASSUME NEW i \in Instances, Pack(i) PROVE Backed'
  BY <1>19 DEF Pack, Goes, Here, Newest
<1>20. ASSUME NEW i \in Instances, PackFails(i) PROVE Backed'
  BY <1>20 DEF PackFails, Goes, diskVars, history
<1>21. ASSUME NEW i \in Instances, CloseBegin(i) PROVE Backed'
  BY <1>21 DEF CloseBegin, Goes, diskVars, Here, NotesRace, Notes
<1>22. ASSUME NEW i \in Instances, CloseEnd(i) PROVE Backed'
  BY <1>22 DEF CloseEnd, Goes, history, RemoveFolders, Unlocked, Here
<1>23. ASSUME NEW i \in Instances, Crash(i) PROVE Backed'
  BY <1>23 DEF Crash, diskVars
<1>24. CASE UNCHANGED vars
  BY <1>24 DEF vars, diskVars, instanceVars, history
<1> QED
  BY <1>1, <1>2, <1>3, <1>4, <1>5, <1>6, <1>7, <1>8, <1>9, <1>10, <1>11,
     <1>12, <1>13, <1>14, <1>15, <1>16, <1>17, <1>18, <1>19, <1>20, <1>21,
     <1>22, <1>23, <1>24
  DEF Next, Open, Autosave, Save

\* What was saved last is in the file or in its backup, whatever fails and
\* whenever an instance crashes (BackUp and Pack of ModelFile::save_to).
THEOREM SavedStaysOnDisk == Spec => []SavedIsOnDisk
<1>1. Init => TypeOK /\ Backed
  BY ModelFileAssumption
  DEF Init, TypeOK, Backed, Folders, NoFolder, None, Torn, Contents, Mishaps,
     Points
<1>2. (TypeOK /\ Backed) /\ [Next]_vars => (TypeOK /\ Backed)'
  BY TypeStep, BackedStep
<1>3. Backed => SavedIsOnDisk
  BY DEF Backed, SavedIsOnDisk
<1> QED BY <1>1, <1>2, <1>3, PTL DEF Spec

-----------------------------------------------------------------------------
(* Two instances never have one document open: the inductive invariant.      *)

\* A locked folder exists: what a start or a close deletes is not locked.
LockedExist == \A d \in Folders : lock[d] # NoOne => d \in exists

\* One instance at a time is in the stretches that the lock does not cover.
OneExposed == \A i, j \in Exposed(pc) : i = j

\* Who has a document open holds the lock of its folder, which is there; so does
\* who could not load it.
Owning == {i \in Instances : i \in Holding \/ pc[i] = "failed"}
OwnersLock == \A i \in Owning : folder[i] \in exists /\ lock[folder[i]] = i

\* Between the test of the lock and the recovery the folder stays as it was.
Recovering == {i \in Instances : pc[i] \in {"asking", "moving", "relocking"}}
RecoveringFree ==
    \A i \in Recovering :
        /\ 0 \in exists /\ lock[0] = NoOne
        /\ pc[i] # "asking" => folder[i] = 0

\* A folder that is about to be deleted is nobody's.
ClosingFree ==
    \A i \in Instances :
        pc[i] = "closing" => folder[i] \in Folders /\ lock[folder[i]] = NoOne

Ownership ==
    /\ LockedExist
    /\ "raced" \notin mishaps =>
           OneExposed /\ OwnersLock /\ RecoveringFree /\ ClosingFree

\* Every step keeps the ownership of folders.
LEMMA OwnershipStep ==
  ASSUME TypeOK, Ownership, [Next]_vars
  PROVE  Ownership'
<1> USE ModelFileAssumption DEF TypeOK, Ownership, Folders, NoFolder,
   Mishaps, Holding, Owning, Recovering, Exposed, Unprotected, LockedExist,
   OneExposed, OwnersLock, RecoveringFree, ClosingFree
<1>1. ASSUME NEW i \in Instances, Start(i) PROVE Ownership'
  <2>1. LockedExist'
    BY <1>1 DEF Start, RemoveFolders, Empty, Notes, Goes
  <2>2. ASSUME "raced" \notin mishaps' PROVE OneExposed'
    BY <1>1, <2>2 DEF Start, RemoveFolders, Empty, Notes, Goes
  <2>3. ASSUME "raced" \notin mishaps' PROVE OwnersLock'
    BY <1>1, <2>3 DEF Start, RemoveFolders, Empty, Notes, Goes
  <2>4. ASSUME "raced" \notin mishaps' PROVE RecoveringFree'
    BY <1>1, <2>4 DEF Start, RemoveFolders, Empty, Notes, Goes
  <2>5. ASSUME "raced" \notin mishaps' PROVE ClosingFree'
    BY <1>1, <2>5 DEF Start, RemoveFolders, Empty, Notes, Goes
  <2> QED BY <2>1, <2>2, <2>3, <2>4, <2>5
<1>2. ASSUME NEW i \in Instances, OpenFound(i) PROVE Ownership'
  BY <1>2 DEF OpenFound, Goes, diskVars, Recoverable, NotesRace, Notes
<1>3. ASSUME NEW i \in Instances, OpenFresh(i) PROVE Ownership'
  BY <1>3 DEF OpenFresh, Goes, diskVars, NotesRace, Notes
<1>4. ASSUME NEW i \in Instances, DeclineRecovery(i) PROVE Ownership'
  BY <1>4 DEF DeclineRecovery, Goes, RemoveFolders, Unlocked
<1>5. ASSUME NEW i \in Instances, AcceptRecovery(i) PROVE Ownership'
  <2>1. LockedExist'
    BY <1>5 DEF AcceptRecovery, HasAutosave, Notes, Goes
  <2>2. ASSUME "raced" \notin mishaps' PROVE OneExposed'
    BY <1>5, <2>2 DEF AcceptRecovery, HasAutosave, Notes, Goes
  <2>3. ASSUME "raced" \notin mishaps' PROVE OwnersLock'
    BY <1>5, <2>3 DEF AcceptRecovery, HasAutosave, Notes, Goes
  <2>4. ASSUME "raced" \notin mishaps' PROVE RecoveringFree'
    BY <1>5, <2>4 DEF AcceptRecovery, HasAutosave, Notes, Goes
  <2>5. ASSUME "raced" \notin mishaps' PROVE ClosingFree'
    BY <1>5, <2>5 DEF AcceptRecovery, HasAutosave, Notes, Goes
  <2> QED BY <2>1, <2>2, <2>3, <2>4, <2>5
<1>6. ASSUME NEW i \in Instances, MoveAutosave(i) PROVE Ownership'
  BY <1>6 DEF MoveAutosave, Goes, history
<1>7. ASSUME NEW i \in Instances, Relock(i) PROVE Ownership'
  <2>1. LockedExist'
    BY <1>7 DEF Relock, Load, diskVars, history
  <2>2. ASSUME "raced" \notin mishaps' PROVE OneExposed'
    BY <1>7, <2>2 DEF Relock, Load, diskVars, history
  <2>3. ASSUME "raced" \notin mishaps' PROVE OwnersLock'
    <3>1. 0 \in exists /\ lock[0] = NoOne /\ folder[i] = 0
      BY <1>7, <2>3 DEF Relock, history
    <3>2. lock' = [lock EXCEPT ![0] = i] /\ exists' = exists /\ folder' = folder
      BY <1>7, <3>1 DEF Relock, Load, diskVars
    <3>3. pc' = [pc EXCEPT ![i] = "open"] \/ pc' = [pc EXCEPT ![i] = "failed"]
      BY <1>7, <3>1 DEF Relock, Load
    <3>4. \A j \in Owning : lock[folder[j]] = j /\ folder[j] \in exists
      BY <1>7, <2>3 DEF Relock, history
    <3>5. ASSUME NEW j \in Instances, j \in Owning'
          PROVE  folder'[j] \in exists' /\ lock'[folder'[j]] = j
      <4>1. CASE j = i
        BY <3>1, <3>2, <4>1
      <4>2. CASE j # i
        <5>1. j \in Owning
          BY <3>3, <3>5, <4>2
        <5>2. folder[j] # 0
          BY <3>1, <3>4, <5>1
        <5> QED BY <3>2, <3>4, <5>1, <5>2
      <4> QED BY <4>1, <4>2
    <3> QED BY <3>5
  <2>4. ASSUME "raced" \notin mishaps' PROVE RecoveringFree'
    BY <1>7, <2>4 DEF Relock, Load, diskVars, history
  <2>5. ASSUME "raced" \notin mishaps' PROVE ClosingFree'
    BY <1>7, <2>5 DEF Relock, Load, diskVars, history
  <2> QED BY <2>1, <2>2, <2>3, <2>4, <2>5
<1>8. ASSUME NEW i \in Instances, CreateFolder(i) PROVE Ownership'
  BY <1>8 DEF CreateFolder, history, FreeFolders, Load
<1>9. ASSUME NEW i \in Instances, Edit(i) PROVE Ownership'
  BY <1>9 DEF Edit, diskVars
<1>10. ASSUME NEW i \in Instances, AutosaveBegin(i) PROVE Ownership'
  <2>1. LockedExist'
    BY <1>10 DEF AutosaveBegin, Here, Goes, history
  <2>2. ASSUME "raced" \notin mishaps' PROVE OneExposed'
    BY <1>10, <2>2 DEF AutosaveBegin, Here, Goes, history
  <2>3. ASSUME "raced" \notin mishaps' PROVE OwnersLock'
    <3>1. pc[i] = "open" /\ "raced" \notin mishaps
      BY <1>10, <2>3 DEF AutosaveBegin, Goes, history
    <3>2. lock' = lock /\ exists' = exists /\ folder' = folder
      BY <1>10 DEF AutosaveBegin
    <3>3. pc' = [pc EXCEPT ![i] = "autosaving"] \/ pc' = [pc EXCEPT ![i] =
       "replacing"]
      BY <1>10 DEF AutosaveBegin, Goes
    <3> QED BY <3>1, <3>2, <3>3
  <2>4. ASSUME "raced" \notin mishaps' PROVE RecoveringFree'
    BY <1>10, <2>4 DEF AutosaveBegin, Here, Goes, history
  <2>5. ASSUME "raced" \notin mishaps' PROVE ClosingFree'
    BY <1>10, <2>5 DEF AutosaveBegin, Here, Goes, history
  <2> QED BY <2>1, <2>2, <2>3, <2>4, <2>5
<1>11. ASSUME NEW i \in Instances, AutosaveReplaces(i) PROVE Ownership'
  BY <1>11 DEF AutosaveReplaces, Goes, history, Here
<1>12. ASSUME NEW i \in Instances, AutosaveEnd(i) PROVE Ownership'
  BY <1>12 DEF AutosaveEnd, Goes, Here, Newest
<1>13. ASSUME NEW i \in Instances, StoreBegin(i) PROVE Ownership'
  BY <1>13 DEF StoreBegin, Goes, history, Here
<1>14. ASSUME NEW i \in Instances, StoreReplaces(i) PROVE Ownership'
  BY <1>14 DEF StoreReplaces, Goes, history, Here
<1>15. ASSUME NEW i \in Instances, StoreEnd(i) PROVE Ownership'
  BY <1>15 DEF StoreEnd, Goes, history, Here
<1>16. ASSUME NEW i \in Instances, SaveGivesUp(i) PROVE Ownership'
  BY <1>16 DEF SaveGivesUp, Goes, history
<1>17. ASSUME NEW i \in Instances, BackUp(i) PROVE Ownership'
  BY <1>17 DEF BackUp, Goes, history, BackedUp
<1>18. ASSUME NEW i \in Instances, ClearAutosave(i) PROVE Ownership'
  BY <1>18 DEF ClearAutosave, Goes, history, Here
<1>19. ASSUME NEW i \in Instances, Pack(i) PROVE Ownership'
  BY <1>19 DEF Pack, Goes, Here, Newest
<1>20. ASSUME NEW i \in Instances, PackFails(i) PROVE Ownership'
  BY <1>20 DEF PackFails, Goes, diskVars, history
<1>21. ASSUME NEW i \in Instances, CloseBegin(i) PROVE Ownership'
  <2>1. LockedExist'
    BY <1>21 DEF CloseBegin, Here, NotesRace, Notes, Goes, diskVars
  <2>2. ASSUME "raced" \notin mishaps' PROVE OneExposed'
    BY <1>21, <2>2 DEF CloseBegin, Here, NotesRace, Notes, Goes, diskVars
  <2>3. ASSUME "raced" \notin mishaps' PROVE OwnersLock'
    BY <1>21, <2>3 DEF CloseBegin, Here, NotesRace, Notes, Goes, diskVars
  <2>4. ASSUME "raced" \notin mishaps' PROVE RecoveringFree'
    BY <1>21, <2>4 DEF CloseBegin, Here, NotesRace, Notes, Goes, diskVars
  <2>5. ASSUME "raced" \notin mishaps' PROVE ClosingFree'
    BY <1>21, <2>5 DEF CloseBegin, Here, NotesRace, Notes, Goes, diskVars
  <2> QED BY <2>1, <2>2, <2>3, <2>4, <2>5
<1>22. ASSUME NEW i \in Instances, CloseEnd(i) PROVE Ownership'
  BY <1>22 DEF CloseEnd, Goes, history, RemoveFolders, Unlocked, Here
<1>23. ASSUME NEW i \in Instances, Crash(i) PROVE Ownership'
  BY <1>23 DEF Crash, diskVars
<1>24. CASE UNCHANGED vars
  BY <1>24 DEF vars, diskVars, instanceVars, history
<1> QED
  BY <1>1, <1>2, <1>3, <1>4, <1>5, <1>6, <1>7, <1>8, <1>9, <1>10, <1>11,
     <1>12, <1>13, <1>14, <1>15, <1>16, <1>17, <1>18, <1>19, <1>20, <1>21,
     <1>22, <1>23, <1>24
  DEF Next, Open, Autosave, Save

\* Two instances never have one document open, and an open document's folder is
\* there and locked, unless two were at once in what the lock does not cover
\* (ModelFile::open and cleanup).
THEOREM OneOwnerAlways == Spec => []OneOwner
<1>1. Init => TypeOK /\ Ownership
  <2> SUFFICES ASSUME Init PROVE TypeOK /\ Ownership
    OBVIOUS
  <2>1. TypeOK
    BY ModelFileAssumption
    DEF Init, TypeOK, Folders, NoFolder, None, Torn, Contents, Mishaps, Points
  <2>2. Ownership
    BY DEF Init, Ownership, Holding, Owning, Recovering, Exposed,
       Unprotected, LockedExist, OneExposed, OwnersLock, RecoveringFree,
       ClosingFree
  <2> QED BY <2>1, <2>2
<1>2. (TypeOK /\ Ownership) /\ [Next]_vars => (TypeOK /\ Ownership)'
  BY TypeStep, OwnershipStep
<1>3. (TypeOK /\ Ownership) => OneOwner
  BY ModelFileAssumption
  DEF TypeOK, Ownership, OwnersLock, Owning, OneOwner, Folders, Holding
<1> QED BY <1>1, <1>2, <1>3, PTL DEF Spec

-----------------------------------------------------------------------------
(* What was saved automatically stays on disk: the inductive invariant, of   *)
(* the behaviours without a mishap.                                          *)

Sessions == {"open", "autosaving", "replacing", "storing", "restoring",
             "stored", "backed", "cleared"}
Session(i) == pc[i] \in Sessions
Engaged(i) == pc[i] \notin {"off", "home"}

\* The versions in the order in which they can have been written.
Ages ==
    /\ bak <= saved /\ saved <= kept /\ kept <= edits
    /\ main[0] <= edits /\ auto[0] <= edits

\* The folder of the document, also the one a crash has left: it holds what
\* was kept and not saved, and its document is not older than what was saved.
FolderKeeps ==
    /\ 0 \notin exists => main[0] = None /\ auto[0] = None /\ tmp[0] = None
    /\ 0 \in exists /\ auto[0] = None /\ tmp[0] = None => main[0] # None
    /\ main[0] # Torn /\ tmp[0] # Torn
    /\ main[0] # None => saved <= main[0]
    /\ auto[0] >= 0 => kept <= auto[0]
    /\ auto[0] < 0 => kept <= main[0] \/ kept <= tmp[0] \/ kept <= saved

LockOfSession == lock[0] # NoOne => lock[0] \in Instances /\ Session(lock[0])

\* At most one instance is with the document.
Solo == \A i, j \in Instances : Engaged(i) /\ Engaged(j) => i = j

\* Before a session, and after it.
Outside(i) ==
    /\ pc[i] \in {"asking", "moving", "relocking"} =>
           0 \in exists /\ lock[0] = NoOne /\ file # None
    /\ pc[i] = "moving" => folder[i] = 0 /\ tmp[0] = None /\ auto[0] >= 0
    /\ pc[i] = "relocking" => folder[i] = 0 /\ tmp[0] = None /\ auto[0] = None
    /\ pc[i] = "creating" => file # None /\ 0 \notin exists
    /\ pc[i] = "closing" => folder[i] = 0 /\ kept = saved
    /\ pc[i] # "failed"

\* In a session, memory has what was kept, and so has what is being written.
Inside(i) ==
    /\ folder[i] = 0 /\ 0 \in exists /\ lock[0] = i
    /\ kept <= mem[i] /\ mem[i] <= edits
    /\ pc[i] # "restoring" => main[0] # None
    /\ pc[i] \in {"open", "stored", "backed", "cleared"} =>
           tmp[0] = None /\ auto[0] # Torn
    /\ pc[i] \in {"stored", "backed", "cleared"} => main[0] = mem[i]
    /\ pc[i] = "cleared" => auto[0] = None
    /\ pc[i] \in {"replacing", "storing", "restoring"} =>
           tmp[0] = mem[i] /\ auto[0] # Torn
    /\ pc[i] = "autosaving" =>
           \/ tmp[0] = mem[i] /\ auto[0] = None
           \/ tmp[0] = None /\ auto[0] = Torn

Stays(i) == Outside(i) /\ (Session(i) => Inside(i))

Work == Ages /\ FolderKeeps /\ LockOfSession /\ Solo /\ \A i \in Instances : Stays(i)

\* The numbers that are compared.
LEMMA Numbers ==
    ASSUME TypeOK
    PROVE  /\ 0 \in Folders
           /\ main[0] \in Int /\ auto[0] \in Int /\ tmp[0] \in Int
           /\ main[0] >= -2 /\ auto[0] >= -2 /\ tmp[0] >= -2
           /\ file \in Int /\ bak \in Int /\ file >= -2
           /\ saved \in Nat /\ kept \in Nat /\ edits \in Nat
           /\ \A i \in Instances : mem[i] \in Int
<1>1. 0 \in Folders
  BY ModelFileAssumption DEF Folders
<1>2. Contents \subseteq Int /\ \A c \in Contents : c >= -2
  BY ModelFileAssumption DEF Contents, None, Torn
<1>3. /\ main[0] \in Contents /\ auto[0] \in Contents /\ tmp[0] \in Contents
      /\ file \in Contents /\ bak \in Contents
      /\ \A i \in Instances : mem[i] \in Contents
  BY <1>1 DEF TypeOK
<1>4. saved \in Nat /\ kept \in Nat /\ edits \in Nat
  BY ModelFileAssumption DEF TypeOK
<1> QED
  BY <1>1, <1>2, <1>3, <1>4

\* A step after which one instance may be with the document, and no other.
LEMMA OneIsThere ==
    ASSUME NEW i \in Instances,
           \A j \in Instances : j # i => pc'[j] \in {"off", "home"},
           Ages', FolderKeeps', LockOfSession', Stays(i)'
    PROVE  Work'
<1>1. Solo'
  BY DEF Solo, Engaged
<1>2. ASSUME NEW j \in Instances, j # i PROVE Stays(j)'
  BY <1>2 DEF Stays, Outside, Session, Sessions
<1> QED
  BY <1>1, <1>2 DEF Work

\* A step of the one instance that is with the document.
LEMMA OneMoves ==
    ASSUME Work, NEW i \in Instances, Engaged(i),
           \A j \in Instances : j # i => pc'[j] = pc[j],
           Ages', FolderKeeps', LockOfSession', Stays(i)'
    PROVE  Work'
<1>1. \A j \in Instances : j # i => pc'[j] \in {"off", "home"}
  BY DEF Work, Solo, Engaged
<1> QED
  BY <1>1, OneIsThere

LEMMA InsideNow ==
    ASSUME TypeOK, Work, NEW i \in Instances, Session(i)
    PROVE  /\ Ages /\ FolderKeeps /\ LockOfSession /\ Inside(i)
           /\ Engaged(i) /\ Here(i) = 0 /\ i # NoOne
<1>1. Inside(i)
  BY DEF Work, Stays
<1>2. i # NoOne
  BY ModelFileAssumption
<1> QED
  BY <1>1, <1>2 DEF Work, Inside, Session, Sessions, Engaged, Here

\* A step within the session.
LEMMA SessionMoves ==
    ASSUME TypeOK, Work, NEW i \in Instances, Session(i),
           NEW to \in Sessions, pc' = [pc EXCEPT ![i] = to],
           lock' = lock, Ages', FolderKeeps', Inside(i)'
    PROVE  Work'
<1>1. pc'[i] = to /\ \A j \in Instances : j # i => pc'[j] = pc[j]
  BY DEF TypeOK
<1>2. LockOfSession /\ Engaged(i)
  BY InsideNow
<1>3. LockOfSession'
  BY <1>1, <1>2 DEF LockOfSession, Session
<1>4. Stays(i)'
  BY <1>1 DEF Stays, Outside, Sessions
<1> QED
  BY <1>1, <1>2, <1>3, <1>4, OneMoves

LEMMA AutosaveReplacesKeeps ==
    ASSUME TypeOK, Work, Backed, NEW i \in Instances, AutosaveReplaces(i)
    PROVE  Work'
<1>1. pc[i] = "replacing" /\ pc' = [pc EXCEPT ![i] = "autosaving"]
  BY DEF AutosaveReplaces, Goes, TypeOK
<1>2. Session(i) /\ "autosaving" \in Sessions
  BY <1>1 DEF Session, Sessions
<1>3. /\ Ages /\ FolderKeeps /\ Inside(i) /\ Here(i) = 0 /\ pc'[i] = "autosaving"
  BY <1>1, <1>2, InsideNow DEF TypeOK
<1>4. /\ auto'[0] = None
      /\ main'[0] = main[0] /\ tmp'[0] = tmp[0] /\ mem'[i] = mem[i]
      /\ file' = file /\ bak' = bak /\ exists' = exists /\ lock' = lock /\ folder' = folder
      /\ edits' = edits /\ saved' = saved /\ kept' = kept
  BY <1>1, <1>3, Numbers DEF AutosaveReplaces, history, TypeOK, Inside
<1>5. Ages'
  BY <1>1, <1>3, <1>4, Numbers DEF Ages, FolderKeeps, Inside, Backed, None, Torn
<1>6. FolderKeeps'
  BY <1>1, <1>3, <1>4, Numbers DEF Ages, FolderKeeps, Inside, Backed, None, Torn
<1>7. Inside(i)'
  BY <1>1, <1>3, <1>4, Numbers DEF Ages, FolderKeeps, Inside, Backed, None, Torn
<1>8. lock' = lock
  BY <1>4
<1> QED
  BY <1>1, <1>2, <1>5, <1>6, <1>7, <1>8, SessionMoves

LEMMA AutosaveEndKeeps ==
    ASSUME TypeOK, Work, Backed, NEW i \in Instances, AutosaveEnd(i)
    PROVE  Work'
<1>1. pc[i] = "autosaving" /\ pc' = [pc EXCEPT ![i] = "open"]
  BY DEF AutosaveEnd, Goes, TypeOK
<1>2. Session(i) /\ "open" \in Sessions
  BY <1>1 DEF Session, Sessions
<1>3. /\ Ages /\ FolderKeeps /\ Inside(i) /\ Here(i) = 0 /\ pc'[i] = "open"
  BY <1>1, <1>2, InsideNow DEF TypeOK
<1>4. /\ auto'[0] = mem[i] /\ tmp'[0] = None /\ kept' = mem[i]
      /\ main'[0] = main[0] /\ mem'[i] = mem[i]
      /\ file' = file /\ bak' = bak /\ exists' = exists /\ lock' = lock /\ folder' = folder
      /\ edits' = edits /\ saved' = saved
  BY <1>1, <1>3, Numbers DEF AutosaveEnd, Newest, TypeOK, Inside
<1>5. Ages'
  BY <1>1, <1>3, <1>4, Numbers DEF Ages, FolderKeeps, Inside, Backed, None, Torn
<1>6. FolderKeeps'
  BY <1>1, <1>3, <1>4, Numbers DEF Ages, FolderKeeps, Inside, Backed, None, Torn
<1>7. Inside(i)'
  BY <1>1, <1>3, <1>4, Numbers DEF Ages, FolderKeeps, Inside, Backed, None, Torn
<1>8. lock' = lock
  BY <1>4
<1> QED
  BY <1>1, <1>2, <1>5, <1>6, <1>7, <1>8, SessionMoves

LEMMA StoreBeginKeeps ==
    ASSUME TypeOK, Work, Backed, NEW i \in Instances, StoreBegin(i)
    PROVE  Work'
<1>1. pc[i] = "open" /\ pc' = [pc EXCEPT ![i] = "storing"]
  BY DEF StoreBegin, Goes, TypeOK
<1>2. Session(i) /\ "storing" \in Sessions
  BY <1>1 DEF Session, Sessions
<1>3. /\ Ages /\ FolderKeeps /\ Inside(i) /\ Here(i) = 0 /\ pc'[i] = "storing"
  BY <1>1, <1>2, InsideNow DEF TypeOK
<1>4. /\ tmp'[0] = mem[i]
      /\ main'[0] = main[0] /\ auto'[0] = auto[0] /\ mem'[i] = mem[i]
      /\ file' = file /\ bak' = bak /\ exists' = exists /\ lock' = lock /\ folder' = folder
      /\ edits' = edits /\ saved' = saved /\ kept' = kept
  BY <1>1, <1>3, Numbers DEF StoreBegin, history, TypeOK, Inside
<1>5. Ages'
  BY <1>1, <1>3, <1>4, Numbers DEF Ages, FolderKeeps, Inside, Backed, None, Torn
<1>6. FolderKeeps'
  BY <1>1, <1>3, <1>4, Numbers DEF Ages, FolderKeeps, Inside, Backed, None, Torn
<1>7. Inside(i)'
  BY <1>1, <1>3, <1>4, Numbers DEF Ages, FolderKeeps, Inside, Backed, None, Torn
<1>8. lock' = lock
  BY <1>4
<1> QED
  BY <1>1, <1>2, <1>5, <1>6, <1>7, <1>8, SessionMoves

LEMMA StoreReplacesKeeps ==
    ASSUME TypeOK, Work, Backed, NEW i \in Instances, StoreReplaces(i)
    PROVE  Work'
<1>1. pc[i] = "storing" /\ pc' = [pc EXCEPT ![i] = "restoring"]
  BY DEF StoreReplaces, Goes, TypeOK
<1>2. Session(i) /\ "restoring" \in Sessions
  BY <1>1 DEF Session, Sessions
<1>3. /\ Ages /\ FolderKeeps /\ Inside(i) /\ Here(i) = 0 /\ pc'[i] = "restoring"
  BY <1>1, <1>2, InsideNow DEF TypeOK
<1>4. /\ main'[0] = None
      /\ auto'[0] = auto[0] /\ tmp'[0] = tmp[0] /\ mem'[i] = mem[i]
      /\ file' = file /\ bak' = bak /\ exists' = exists /\ lock' = lock /\ folder' = folder
      /\ edits' = edits /\ saved' = saved /\ kept' = kept
  BY <1>1, <1>3, Numbers DEF StoreReplaces, history, TypeOK, Inside
<1>5. Ages'
  BY <1>1, <1>3, <1>4, Numbers DEF Ages, FolderKeeps, Inside, Backed, None, Torn
<1>6. FolderKeeps'
  BY <1>1, <1>3, <1>4, Numbers DEF Ages, FolderKeeps, Inside, Backed, None, Torn
<1>7. Inside(i)'
  BY <1>1, <1>3, <1>4, Numbers DEF Ages, FolderKeeps, Inside, Backed, None, Torn
<1>8. lock' = lock
  BY <1>4
<1> QED
  BY <1>1, <1>2, <1>5, <1>6, <1>7, <1>8, SessionMoves

LEMMA StoreEndKeeps ==
    ASSUME TypeOK, Work, Backed, NEW i \in Instances, StoreEnd(i)
    PROVE  Work'
<1>1. pc[i] = "restoring" /\ pc' = [pc EXCEPT ![i] = "stored"]
  BY DEF StoreEnd, Goes, TypeOK
<1>2. Session(i) /\ "stored" \in Sessions
  BY <1>1 DEF Session, Sessions
<1>3. /\ Ages /\ FolderKeeps /\ Inside(i) /\ Here(i) = 0 /\ pc'[i] = "stored"
  BY <1>1, <1>2, InsideNow DEF TypeOK
<1>4. /\ main'[0] = mem[i] /\ tmp'[0] = None
      /\ auto'[0] = auto[0] /\ mem'[i] = mem[i]
      /\ file' = file /\ bak' = bak /\ exists' = exists /\ lock' = lock /\ folder' = folder
      /\ edits' = edits /\ saved' = saved /\ kept' = kept
  BY <1>1, <1>3, Numbers DEF StoreEnd, history, TypeOK, Inside
<1>5. Ages'
  BY <1>1, <1>3, <1>4, Numbers DEF Ages, FolderKeeps, Inside, Backed, None, Torn
<1>6. FolderKeeps'
  BY <1>1, <1>3, <1>4, Numbers DEF Ages, FolderKeeps, Inside, Backed, None, Torn
<1>7. Inside(i)'
  BY <1>1, <1>3, <1>4, Numbers DEF Ages, FolderKeeps, Inside, Backed, None, Torn
<1>8. lock' = lock
  BY <1>4
<1> QED
  BY <1>1, <1>2, <1>5, <1>6, <1>7, <1>8, SessionMoves

LEMMA SaveGivesUpKeeps ==
    ASSUME TypeOK, Work, Backed, NEW i \in Instances, SaveGivesUp(i)
    PROVE  Work'
<1>1. pc[i] = "stored" /\ pc' = [pc EXCEPT ![i] = "open"]
  BY DEF SaveGivesUp, Goes, TypeOK
<1>2. Session(i) /\ "open" \in Sessions
  BY <1>1 DEF Session, Sessions
<1>3. /\ Ages /\ FolderKeeps /\ Inside(i) /\ Here(i) = 0 /\ pc'[i] = "open"
  BY <1>1, <1>2, InsideNow DEF TypeOK
<1>4. /\ bak' = bak \/ bak' = None
      /\ main'[0] = main[0] /\ auto'[0] = auto[0] /\ tmp'[0] = tmp[0] /\ mem'[i] = mem[i]
      /\ file' = file /\ exists' = exists /\ lock' = lock /\ folder' = folder
      /\ edits' = edits /\ saved' = saved /\ kept' = kept
  BY <1>1, <1>3, Numbers DEF SaveGivesUp, history, TypeOK, Inside
<1>5. Ages'
  BY <1>1, <1>3, <1>4, Numbers DEF Ages, FolderKeeps, Inside, Backed, None, Torn
<1>6. FolderKeeps'
  BY <1>1, <1>3, <1>4, Numbers DEF Ages, FolderKeeps, Inside, Backed, None, Torn
<1>7. Inside(i)'
  BY <1>1, <1>3, <1>4, Numbers DEF Ages, FolderKeeps, Inside, Backed, None, Torn
<1>8. lock' = lock
  BY <1>4
<1> QED
  BY <1>1, <1>2, <1>5, <1>6, <1>7, <1>8, SessionMoves

LEMMA BackUpKeeps ==
    ASSUME TypeOK, Work, Backed, NEW i \in Instances, BackUp(i)
    PROVE  Work'
<1>1. pc[i] = "stored" /\ pc' = [pc EXCEPT ![i] = "backed"]
  BY DEF BackUp, Goes, TypeOK
<1>2. Session(i) /\ "backed" \in Sessions
  BY <1>1 DEF Session, Sessions
<1>3. /\ Ages /\ FolderKeeps /\ Inside(i) /\ Here(i) = 0 /\ pc'[i] = "backed"
  BY <1>1, <1>2, InsideNow DEF TypeOK
<1>4. /\ bak' = IF file = None THEN bak ELSE file
      /\ main'[0] = main[0] /\ auto'[0] = auto[0] /\ tmp'[0] = tmp[0] /\ mem'[i] = mem[i]
      /\ exists' = exists /\ lock' = lock /\ folder' = folder
      /\ edits' = edits /\ saved' = saved /\ kept' = kept
  BY <1>1, <1>3, Numbers DEF BackUp, BackedUp, history, TypeOK, Inside
<1>5. Ages'
  BY <1>1, <1>3, <1>4, Numbers DEF Ages, FolderKeeps, Inside, Backed, None, Torn
<1>6. FolderKeeps'
  BY <1>1, <1>3, <1>4, Numbers DEF Ages, FolderKeeps, Inside, Backed, None, Torn
<1>7. Inside(i)'
  BY <1>1, <1>3, <1>4, Numbers DEF Ages, FolderKeeps, Inside, Backed, None, Torn
<1>8. lock' = lock
  BY <1>4
<1> QED
  BY <1>1, <1>2, <1>5, <1>6, <1>7, <1>8, SessionMoves

LEMMA ClearAutosaveKeeps ==
    ASSUME TypeOK, Work, Backed, NEW i \in Instances, ClearAutosave(i)
    PROVE  Work'
<1>1. pc[i] = "backed" /\ pc' = [pc EXCEPT ![i] = "cleared"]
  BY DEF ClearAutosave, Goes, TypeOK
<1>2. Session(i) /\ "cleared" \in Sessions
  BY <1>1 DEF Session, Sessions
<1>3. /\ Ages /\ FolderKeeps /\ Inside(i) /\ Here(i) = 0 /\ pc'[i] = "cleared"
  BY <1>1, <1>2, InsideNow DEF TypeOK
<1>4. /\ auto'[0] = None
      /\ main'[0] = main[0] /\ tmp'[0] = tmp[0] /\ mem'[i] = mem[i]
      /\ file' = file /\ bak' = bak /\ exists' = exists /\ lock' = lock /\ folder' = folder
      /\ edits' = edits /\ saved' = saved /\ kept' = kept
  BY <1>1, <1>3, Numbers DEF ClearAutosave, history, TypeOK, Inside
<1>5. Ages'
  BY <1>1, <1>3, <1>4, Numbers DEF Ages, FolderKeeps, Inside, Backed, None, Torn
<1>6. FolderKeeps'
  BY <1>1, <1>3, <1>4, Numbers DEF Ages, FolderKeeps, Inside, Backed, None, Torn
<1>7. Inside(i)'
  BY <1>1, <1>3, <1>4, Numbers DEF Ages, FolderKeeps, Inside, Backed, None, Torn
<1>8. lock' = lock
  BY <1>4
<1> QED
  BY <1>1, <1>2, <1>5, <1>6, <1>7, <1>8, SessionMoves

LEMMA PackKeeps ==
    ASSUME TypeOK, Work, Backed, NEW i \in Instances, Pack(i)
    PROVE  Work'
<1>1. pc[i] = "cleared" /\ pc' = [pc EXCEPT ![i] = "open"]
  BY DEF Pack, Goes, TypeOK
<1>2. Session(i) /\ "open" \in Sessions
  BY <1>1 DEF Session, Sessions
<1>3. /\ Ages /\ FolderKeeps /\ Inside(i) /\ Here(i) = 0 /\ pc'[i] = "open"
  BY <1>1, <1>2, InsideNow DEF TypeOK
<1>4. /\ file' = mem[i] /\ saved' = mem[i] /\ kept' = mem[i]
      /\ main'[0] = main[0] /\ auto'[0] = auto[0] /\ tmp'[0] = tmp[0] /\ mem'[i] = mem[i]
      /\ bak' = bak /\ exists' = exists /\ lock' = lock /\ folder' = folder
      /\ edits' = edits
  BY <1>1, <1>3, Numbers DEF Pack, Newest, TypeOK, Inside
<1>5. Ages'
  BY <1>1, <1>3, <1>4, Numbers DEF Ages, FolderKeeps, Inside, Backed, None, Torn
<1>6. FolderKeeps'
  BY <1>1, <1>3, <1>4, Numbers DEF Ages, FolderKeeps, Inside, Backed, None, Torn
<1>7. Inside(i)'
  BY <1>1, <1>3, <1>4, Numbers DEF Ages, FolderKeeps, Inside, Backed, None, Torn
<1>8. lock' = lock
  BY <1>4
<1> QED
  BY <1>1, <1>2, <1>5, <1>6, <1>7, <1>8, SessionMoves

LEMMA PackFailsKeeps ==
    ASSUME TypeOK, Work, Backed, NEW i \in Instances, PackFails(i)
    PROVE  Work'
<1>1. pc[i] = "cleared" /\ pc' = [pc EXCEPT ![i] = "open"]
  BY DEF PackFails, Goes, TypeOK
<1>2. Session(i) /\ "open" \in Sessions
  BY <1>1 DEF Session, Sessions
<1>3. /\ Ages /\ FolderKeeps /\ Inside(i) /\ Here(i) = 0 /\ pc'[i] = "open"
  BY <1>1, <1>2, InsideNow DEF TypeOK
<1>4. /\ main'[0] = main[0] /\ auto'[0] = auto[0] /\ tmp'[0] = tmp[0] /\ mem'[i] = mem[i]
      /\ file' = file /\ bak' = bak /\ exists' = exists /\ lock' = lock /\ folder' = folder
      /\ edits' = edits /\ saved' = saved /\ kept' = kept
  BY <1>1, <1>3, Numbers DEF PackFails, diskVars, history, TypeOK, Inside
<1>5. Ages'
  BY <1>1, <1>3, <1>4, Numbers DEF Ages, FolderKeeps, Inside, Backed, None, Torn
<1>6. FolderKeeps'
  BY <1>1, <1>3, <1>4, Numbers DEF Ages, FolderKeeps, Inside, Backed, None, Torn
<1>7. Inside(i)'
  BY <1>1, <1>3, <1>4, Numbers DEF Ages, FolderKeeps, Inside, Backed, None, Torn
<1>8. lock' = lock
  BY <1>4
<1> QED
  BY <1>1, <1>2, <1>5, <1>6, <1>7, <1>8, SessionMoves

LEMMA EditKeeps ==
    ASSUME TypeOK, Work, Backed, NEW i \in Instances, Edit(i)
    PROVE  Work'
<1>1. pc[i] = "open" /\ pc' = [pc EXCEPT ![i] = "open"]
  BY DEF Edit, Goes, TypeOK
<1>2. Session(i) /\ "open" \in Sessions
  BY <1>1 DEF Session, Sessions
<1>3. /\ Ages /\ FolderKeeps /\ Inside(i) /\ Here(i) = 0 /\ pc'[i] = "open"
  BY <1>1, <1>2, InsideNow DEF TypeOK
<1>4. /\ edits' = edits + 1 /\ mem'[i] = edits + 1
      /\ main'[0] = main[0] /\ auto'[0] = auto[0] /\ tmp'[0] = tmp[0]
      /\ file' = file /\ bak' = bak /\ exists' = exists /\ lock' = lock /\ folder' = folder
      /\ saved' = saved /\ kept' = kept
  BY <1>1, <1>3, Numbers DEF Edit, diskVars, TypeOK, Inside
<1>5. Ages'
  BY <1>1, <1>3, <1>4, Numbers DEF Ages, FolderKeeps, Inside, Backed, None, Torn
<1>6. FolderKeeps'
  BY <1>1, <1>3, <1>4, Numbers DEF Ages, FolderKeeps, Inside, Backed, None, Torn
<1>7. Inside(i)'
  BY <1>1, <1>3, <1>4, Numbers DEF Ages, FolderKeeps, Inside, Backed, None, Torn
<1>8. lock' = lock
  BY <1>4
<1> QED
  BY <1>1, <1>2, <1>5, <1>6, <1>7, <1>8, SessionMoves

LEMMA AutosaveBeginKeeps ==
    ASSUME TypeOK, Work, NEW i \in Instances, AutosaveBegin(i)
    PROVE  Work'
<1>1. pc[i] = "open"
  BY DEF AutosaveBegin, Goes
<1>2. Session(i)
  BY <1>1 DEF Session, Sessions
<1>3. Ages /\ FolderKeeps /\ Inside(i) /\ Here(i) = 0
  BY <1>2, InsideNow
<1>4. /\ main'[0] = main[0] /\ mem'[i] = mem[i]
      /\ file' = file /\ bak' = bak /\ exists' = exists /\ lock' = lock
      /\ folder' = folder /\ edits' = edits /\ saved' = saved /\ kept' = kept
  BY DEF AutosaveBegin, history
<1>5. CASE auto[0] = None
  <2>1. /\ pc' = [pc EXCEPT ![i] = "autosaving"] /\ pc'[i] = "autosaving"
        /\ auto'[0] = Torn /\ tmp'[0] = tmp[0]
    BY <1>3, <1>5, Numbers DEF AutosaveBegin, Goes, TypeOK
  <2>2. Ages'
    BY <1>1, <1>3, <1>4, <2>1, Numbers DEF Ages, Torn
  <2>3. FolderKeeps'
    BY <1>1, <1>3, <1>4, <1>5, <2>1, Numbers DEF Ages, FolderKeeps, Inside, None, Torn
  <2>4. Inside(i)'
    BY <1>1, <1>3, <1>4, <2>1, Numbers DEF Inside
  <2>5. "autosaving" \in Sessions
    BY DEF Sessions
  <2> QED  BY <1>2, <1>4, <2>1, <2>2, <2>3, <2>4, <2>5, SessionMoves
<1>6. CASE auto[0] # None
  <2>1. /\ pc' = [pc EXCEPT ![i] = "replacing"] /\ pc'[i] = "replacing"
        /\ auto'[0] = auto[0] /\ tmp'[0] = mem[i]
    BY <1>3, <1>6, Numbers DEF AutosaveBegin, Goes, TypeOK
  <2>2. Ages'
    BY <1>3, <1>4, <2>1 DEF Ages
  <2>3. FolderKeeps'
    BY <1>1, <1>3, <1>4, <1>6, <2>1, Numbers DEF Ages, FolderKeeps, Inside, None, Torn
  <2>4. Inside(i)'
    BY <1>1, <1>3, <1>4, <2>1, Numbers DEF Inside
  <2>5. "replacing" \in Sessions
    BY DEF Sessions
  <2> QED  BY <1>2, <1>4, <2>1, <2>2, <2>3, <2>4, <2>5, SessionMoves
<1> QED
  BY <1>5, <1>6

\* The close gives up what was not saved.
LEMMA CloseBeginKeeps ==
    ASSUME TypeOK, Work, NEW i \in Instances, CloseBegin(i)
    PROVE  Work'
<1>1. pc[i] = "open"
  BY DEF CloseBegin, Goes, Work, Stays, Outside
<1>2. Session(i)
  BY <1>1 DEF Session, Sessions
<1>3. /\ Ages /\ FolderKeeps /\ Inside(i) /\ Here(i) = 0 /\ Engaged(i)
  BY <1>2, InsideNow
<1>4. /\ kept' = saved
      /\ file' = file /\ bak' = bak /\ exists' = exists /\ main' = main
      /\ auto' = auto /\ tmp' = tmp /\ folder' = folder /\ edits' = edits
      /\ saved' = saved
      /\ pc' = [pc EXCEPT ![i] = "closing"]
  BY <1>1 DEF CloseBegin, Goes, diskVars
<1>5. lock'[0] = NoOne
  BY <1>3, Numbers DEF CloseBegin, Inside
<1>6. pc'[i] = "closing" /\ \A j \in Instances : j # i => pc'[j] = pc[j]
  BY <1>4 DEF TypeOK
<1>7. Ages'
  BY <1>3, <1>4, Numbers DEF Ages
<1>8. FolderKeeps'
  BY <1>3, <1>4, Numbers DEF Ages, FolderKeeps
<1>9. LockOfSession'
  BY <1>5 DEF LockOfSession
<1>10. Stays(i)'
  BY <1>3, <1>4, <1>6 DEF Stays, Outside, Session, Sessions, Inside
<1> QED
  BY <1>3, <1>6, <1>7, <1>8, <1>9, <1>10, OneMoves

\* What the state of the files is when nobody has them.
LEMMA OutsideNow ==
    ASSUME TypeOK, Work, NEW i \in Instances,
           pc[i] \in {"asking", "moving", "relocking", "creating", "closing"}
    PROVE  /\ Ages /\ FolderKeeps /\ Outside(i) /\ Engaged(i)
           /\ lock[0] = NoOne
<1>1. Outside(i) /\ Engaged(i) /\ Ages /\ FolderKeeps
  BY DEF Work, Stays, Engaged
<1>2. lock[0] = NoOne
  <2> SUFFICES ASSUME lock[0] # NoOne PROVE FALSE
    OBVIOUS
  <2>1. lock[0] \in Instances /\ Session(lock[0])
    BY DEF Work, LockOfSession
  <2>2. Engaged(lock[0]) /\ lock[0] # i
    BY <2>1 DEF Session, Sessions, Engaged
  <2> QED  BY <1>1, <2>1, <2>2 DEF Work, Solo
<1> QED
  BY <1>1, <1>2

LEMMA CloseEndKeeps ==
    ASSUME TypeOK, Work, NEW i \in Instances, CloseEnd(i)
    PROVE  Work'
<1>1. pc[i] = "closing" /\ pc' = [pc EXCEPT ![i] = "home"]
  BY DEF CloseEnd, Goes
<1>2. Ages /\ FolderKeeps /\ Outside(i) /\ Engaged(i) /\ lock[0] = NoOne
  BY <1>1, OutsideNow
<1>3. folder[i] = 0 /\ kept = saved
  BY <1>1, <1>2 DEF Outside
<1>4. /\ main'[0] = None /\ auto'[0] = None /\ tmp'[0] = None /\ 0 \notin exists'
      /\ lock'[0] = NoOne
      /\ file' = file /\ bak' = bak /\ edits' = edits /\ saved' = saved /\ kept' = kept
  BY <1>2, <1>3, Numbers DEF CloseEnd, Here, RemoveFolders, Unlocked, history
<1>5. pc'[i] = "home" /\ \A j \in Instances : j # i => pc'[j] = pc[j]
  BY <1>1 DEF TypeOK
<1>6. Ages'
  BY <1>2, <1>4, Numbers DEF Ages, None
<1>7. FolderKeeps'
  BY <1>3, <1>4, Numbers DEF FolderKeeps, None, Torn
<1>8. LockOfSession'
  BY <1>4 DEF LockOfSession
<1>9. Stays(i)'
  BY <1>5 DEF Stays, Outside, Session, Sessions
<1> QED
  BY <1>2, <1>5, <1>6, <1>7, <1>8, <1>9, OneMoves

\* "Continue": what was not saved is given up.
LEMMA DeclineKeeps ==
    ASSUME TypeOK, Work, NEW i \in Instances, DeclineRecovery(i)
    PROVE  Work'
<1>1. pc[i] = "asking" /\ pc' = [pc EXCEPT ![i] = "creating"]
  BY DEF DeclineRecovery, Goes
<1>2. Ages /\ FolderKeeps /\ Outside(i) /\ Engaged(i) /\ lock[0] = NoOne
  BY <1>1, OutsideNow
<1>3. file # None
  BY <1>1, <1>2 DEF Outside
<1>4. /\ main'[0] = None /\ auto'[0] = None /\ tmp'[0] = None /\ 0 \notin exists'
      /\ lock'[0] = NoOne /\ kept' = saved
      /\ file' = file /\ bak' = bak /\ edits' = edits /\ saved' = saved
  BY <1>2, Numbers DEF DeclineRecovery, RemoveFolders, Unlocked
<1>5. pc'[i] = "creating" /\ \A j \in Instances : j # i => pc'[j] = pc[j]
  BY <1>1 DEF TypeOK
<1>6. Ages'
  BY <1>2, <1>4, Numbers DEF Ages, None
<1>7. FolderKeeps'
  BY <1>4, Numbers DEF FolderKeeps, None, Torn
<1>8. LockOfSession'
  BY <1>4 DEF LockOfSession
<1>9. Stays(i)'
  BY <1>3, <1>4, <1>5 DEF Stays, Outside, Session, Sessions
<1> QED
  BY <1>2, <1>5, <1>6, <1>7, <1>8, <1>9, OneMoves

\* The recovery takes the automatic save, which has what was kept.
LEMMA AcceptKeeps ==
    ASSUME TypeOK, Work, mishaps' = {}, NEW i \in Instances, AcceptRecovery(i)
    PROVE  Work'
<1>1. pc[i] = "asking"
  BY DEF AcceptRecovery, Goes
<1>2. Ages /\ FolderKeeps /\ Outside(i) /\ Engaged(i) /\ lock[0] = NoOne
  BY <1>1, OutsideNow
<1>3. file # None /\ 0 \in exists
  BY <1>1, <1>2 DEF Outside
<1>4. auto[0] # Torn /\ tmp[0] = None
  BY DEF AcceptRecovery, Notes
<1>5. /\ auto' = auto /\ tmp' = tmp /\ exists' = exists /\ lock' = lock
      /\ file' = file /\ bak' = bak /\ edits' = edits /\ saved' = saved /\ kept' = kept
      /\ folder'[i] = 0
  BY DEF AcceptRecovery, TypeOK
<1>6. CASE HasAutosave
  <2>1. auto[0] >= 0
    <3>1. auto[0] \in Contents
      BY Numbers DEF TypeOK
    <3> QED  BY <1>4, <1>6, <3>1 DEF HasAutosave, Contents
  <2>2. pc' = [pc EXCEPT ![i] = "moving"] /\ main'[0] = None
    BY <1>6, Numbers DEF AcceptRecovery, Goes, TypeOK
  <2>3. pc'[i] = "moving" /\ \A j \in Instances : j # i => pc'[j] = pc[j]
    BY <2>2 DEF TypeOK
  <2>4. Ages'
    BY <1>2, <1>5, <2>2, Numbers DEF Ages, None
  <2>5. FolderKeeps'
    BY <1>2, <1>3, <1>4, <1>5, <2>1, <2>2, Numbers DEF FolderKeeps, None, Torn
  <2>6. LockOfSession'
    BY <1>2, <1>5 DEF LockOfSession
  <2>7. Stays(i)'
    BY <1>2, <1>3, <1>4, <1>5, <2>1, <2>3 DEF Stays, Outside, Session, Sessions
  <2> QED  BY <1>2, <2>3, <2>4, <2>5, <2>6, <2>7, OneMoves
<1>7. CASE ~HasAutosave
  <2>1. auto[0] = None
    BY <1>7 DEF HasAutosave
  <2>2. pc' = [pc EXCEPT ![i] = "relocking"] /\ main' = main
    BY <1>7 DEF AcceptRecovery, Goes
  <2>3. pc'[i] = "relocking" /\ \A j \in Instances : j # i => pc'[j] = pc[j]
    BY <2>2 DEF TypeOK
  <2>4. Ages'
    BY <1>2, <1>5, <2>2 DEF Ages
  <2>5. FolderKeeps'
    BY <1>2, <1>5, <2>2 DEF FolderKeeps
  <2>6. LockOfSession'
    BY <1>2, <1>5 DEF LockOfSession
  <2>7. Stays(i)'
    BY <1>2, <1>3, <1>4, <1>5, <2>1, <2>3 DEF Stays, Outside, Session, Sessions
  <2> QED  BY <1>2, <2>3, <2>4, <2>5, <2>6, <2>7, OneMoves
<1> QED
  BY <1>6, <1>7

LEMMA MoveKeeps ==
    ASSUME TypeOK, Work, NEW i \in Instances, MoveAutosave(i)
    PROVE  Work'
<1>1. pc[i] = "moving" /\ pc' = [pc EXCEPT ![i] = "relocking"]
  BY DEF MoveAutosave, Goes
<1>2. Ages /\ FolderKeeps /\ Outside(i) /\ Engaged(i) /\ lock[0] = NoOne
  BY <1>1, OutsideNow
<1>3. /\ file # None /\ 0 \in exists /\ folder[i] = 0 /\ tmp[0] = None
      /\ auto[0] >= 0
  BY <1>1, <1>2 DEF Outside
<1>4. /\ main'[0] = auto[0] /\ auto'[0] = None /\ tmp' = tmp
      /\ exists' = exists /\ lock' = lock /\ folder' = folder
      /\ file' = file /\ bak' = bak /\ edits' = edits /\ saved' = saved /\ kept' = kept
  BY Numbers DEF MoveAutosave, history, TypeOK
<1>5. pc'[i] = "relocking" /\ \A j \in Instances : j # i => pc'[j] = pc[j]
  BY <1>1 DEF TypeOK
<1>6. Ages'
  BY <1>2, <1>4, Numbers DEF Ages, None
<1>7. FolderKeeps'
  BY <1>2, <1>3, <1>4, Numbers DEF Ages, FolderKeeps, None, Torn
<1>8. LockOfSession'
  BY <1>2, <1>4 DEF LockOfSession
<1>9. Stays(i)'
  BY <1>2, <1>3, <1>4, <1>5 DEF Stays, Outside, Session, Sessions
<1> QED
  BY <1>2, <1>5, <1>6, <1>7, <1>8, <1>9, OneMoves

\* The document of the folder is whole, and has what was kept.
LEMMA RelockKeeps ==
    ASSUME TypeOK, Work, NEW i \in Instances, Relock(i)
    PROVE  /\ Work'
           /\ pc'[i] = "open" /\ mem'[i] = main[0] /\ kept <= main[0]
<1>1. pc[i] = "relocking"
  BY DEF Relock
<1>2. Ages /\ FolderKeeps /\ Outside(i) /\ Engaged(i) /\ lock[0] = NoOne
  BY <1>1, OutsideNow
<1>3. /\ file # None /\ 0 \in exists /\ folder[i] = 0 /\ tmp[0] = None
      /\ auto[0] = None
  BY <1>1, <1>2 DEF Outside
<1>4. main[0] >= 0 /\ main[0] # None /\ kept <= main[0]
  <2>1. main[0] # None /\ main[0] # Torn
    BY <1>2, <1>3 DEF FolderKeeps
  <2>2. main[0] \in Contents
    BY Numbers DEF TypeOK
  <2>3. main[0] >= 0
    BY <2>1, <2>2 DEF Contents
  <2> QED  BY <1>2, <1>3, <2>1, <2>3, Numbers DEF FolderKeeps, None
<1>5. /\ pc' = [pc EXCEPT ![i] = "open"] /\ mem'[i] = main[0]
      /\ lock' = [lock EXCEPT ![0] = i]
  BY <1>2, <1>3, <1>4 DEF Relock, Load, TypeOK
<1>6. /\ main' = main /\ auto' = auto /\ tmp' = tmp /\ exists' = exists
      /\ folder' = folder /\ file' = file /\ bak' = bak
      /\ edits' = edits /\ saved' = saved /\ kept' = kept
  BY DEF Relock, diskVars, history
<1>7. /\ pc'[i] = "open" /\ lock'[0] = i
      /\ \A j \in Instances : j # i => pc'[j] = pc[j]
  BY <1>5, Numbers DEF TypeOK
<1>8. Ages' /\ FolderKeeps'
  BY <1>2, <1>6 DEF Ages, FolderKeeps
<1>9. LockOfSession'
  BY <1>7 DEF LockOfSession, Session, Sessions
<1>10. Stays(i)'
  <2>1. Outside(i)'
    BY <1>7 DEF Outside
  <2>2. Inside(i)'
    BY <1>2, <1>3, <1>4, <1>5, <1>6, <1>7 DEF Inside, Ages, None, Torn
  <2> QED  BY <2>1, <2>2 DEF Stays
<1> QED
  BY <1>2, <1>4, <1>5, <1>7, <1>8, <1>9, <1>10, OneMoves

\* The folder of a document that was never opened, or whose folder was given up.
LEMMA CreateKeeps ==
    ASSUME TypeOK, Work, Backed, NEW i \in Instances, CreateFolder(i)
    PROVE  Work'
<1>1. pc[i] = "creating"
  BY DEF CreateFolder
<1>2. Ages /\ FolderKeeps /\ Outside(i) /\ Engaged(i) /\ lock[0] = NoOne
  BY <1>1, OutsideNow
<1>3. /\ file # None /\ 0 \notin exists
      /\ auto[0] = None /\ tmp[0] = None /\ main[0] = None
  BY <1>1, <1>2 DEF Outside, FolderKeeps
<1>4. file = saved /\ file >= 0 /\ kept <= saved
  BY <1>2, <1>3, Numbers DEF Backed, FolderKeeps, None
<1>5. 0 \in FreeFolders /\ \A d \in FreeFolders : d \in Nat
  BY <1>3, Numbers, ModelFileAssumption DEF FreeFolders, Folders
<1>6. /\ exists' = exists \cup {0}
      /\ main' = [main EXCEPT ![0] = file]
      /\ folder' = [folder EXCEPT ![i] = 0]
      /\ pc' = [pc EXCEPT ![i] = "open"]
      /\ mem' = [mem EXCEPT ![i] = file]
      /\ lock' = [lock EXCEPT ![0] = i]
  <2>1. PICK d \in FreeFolders :
            /\ \A e \in FreeFolders : d <= e
            /\ exists' = exists \cup {d}
            /\ main' = [main EXCEPT ![d] = IF file = None THEN @ ELSE file]
            /\ folder' = [folder EXCEPT ![i] = d]
            /\ Load(i, file, [lock EXCEPT ![d] = i])
    BY DEF CreateFolder
  <2>2. d = 0
    BY <1>5, <2>1
  <2> QED  BY <1>3, <1>4, <2>1, <2>2 DEF Load
<1>7. /\ auto' = auto /\ tmp' = tmp /\ file' = file /\ bak' = bak
      /\ edits' = edits /\ saved' = saved /\ kept' = kept
  BY DEF CreateFolder, history
<1>8. /\ 0 \in exists' /\ main'[0] = file /\ folder'[i] = 0 /\ pc'[i] = "open"
      /\ mem'[i] = file /\ lock'[0] = i
      /\ \A j \in Instances : j # i => pc'[j] = pc[j]
  BY <1>6, Numbers DEF TypeOK
<1>9. Ages'
  BY <1>2, <1>4, <1>7, <1>8, Numbers DEF Ages
<1>10. FolderKeeps'
  BY <1>3, <1>4, <1>7, <1>8, Numbers DEF FolderKeeps, None, Torn
<1>11. LockOfSession'
  BY <1>8 DEF LockOfSession, Session, Sessions
<1>12. Stays(i)'
  <2>1. Outside(i)'
    BY <1>8 DEF Outside
  <2>2. Inside(i)'
    BY <1>2, <1>3, <1>4, <1>7, <1>8, Numbers DEF Inside, Ages, None, Torn
  <2> QED  BY <2>1, <2>2 DEF Stays
<1> QED
  BY <1>2, <1>8, <1>9, <1>10, <1>11, <1>12, OneMoves

\* Who opens the document without a race is alone with it.
LEMMA OpensAlone ==
    ASSUME TypeOK, Work, NEW i \in Instances, lock[0] = NoOne,
           NEW to \in {"asking", "creating"}, pc' = [pc EXCEPT ![i] = to],
           mishaps' = NotesRace(pc'), mishaps' = {}
    PROVE  /\ pc'[i] = to
           /\ \A j \in Instances : j # i => pc'[j] \in {"off", "home"}
<1>1. pc'[i] = to /\ \A j \in Instances : j # i => pc'[j] = pc[j]
  BY DEF TypeOK
<1>2. \A j, k \in Exposed(pc') : j = k
  BY DEF NotesRace, Notes
<1>3. i \in Exposed(pc')
  BY <1>1 DEF Exposed, Unprotected
<1>4. ASSUME NEW j \in Instances, j # i PROVE pc'[j] \in {"off", "home"}
  <2>1. pc[j] \notin Unprotected
    BY <1>1, <1>2, <1>3, <1>4 DEF Exposed
  <2>2. ~Session(j)
    BY ModelFileAssumption DEF Work, Stays, Inside
  <2>3. pc[j] \in Points
    BY DEF TypeOK
  <2> QED  BY <1>1, <1>4, <2>1, <2>2, <2>3 DEF Session, Sessions, Unprotected, Points
<1> QED
  BY <1>1, <1>4

LEMMA OpenFoundKeeps ==
    ASSUME TypeOK, Work, mishaps' = {}, NEW i \in Instances, OpenFound(i)
    PROVE  Work'
<1>1. /\ file # None /\ 0 \in exists /\ lock[0] = NoOne
      /\ pc' = [pc EXCEPT ![i] = "asking"] /\ mishaps' = NotesRace(pc')
      /\ file' = file /\ bak' = bak /\ exists' = exists /\ main' = main
      /\ auto' = auto /\ tmp' = tmp /\ lock' = lock
      /\ edits' = edits /\ saved' = saved /\ kept' = kept
  BY DEF OpenFound, Goes, Recoverable, diskVars
<1>2. /\ pc'[i] = "asking"
      /\ \A j \in Instances : j # i => pc'[j] \in {"off", "home"}
  BY <1>1, OpensAlone
<1>3. Ages' /\ FolderKeeps' /\ LockOfSession'
  BY <1>1 DEF Work, Ages, FolderKeeps, LockOfSession
<1>4. Stays(i)'
  BY <1>1, <1>2 DEF Stays, Outside, Session, Sessions
<1> QED
  BY <1>2, <1>3, <1>4, OneIsThere

LEMMA OpenFreshKeeps ==
    ASSUME TypeOK, Work, mishaps' = {}, NEW i \in Instances, OpenFresh(i)
    PROVE  Work'
<1>1. /\ file # None /\ 0 \notin exists
      /\ pc' = [pc EXCEPT ![i] = "creating"] /\ mishaps' = NotesRace(pc')
      /\ file' = file /\ bak' = bak /\ exists' = exists /\ main' = main
      /\ auto' = auto /\ tmp' = tmp /\ lock' = lock
      /\ edits' = edits /\ saved' = saved /\ kept' = kept
  BY DEF OpenFresh, Goes, diskVars
<1>2. lock[0] = NoOne
  BY <1>1 DEF Work, LockOfSession, Stays, Inside
<1>3. /\ pc'[i] = "creating"
      /\ \A j \in Instances : j # i => pc'[j] \in {"off", "home"}
  BY <1>1, <1>2, OpensAlone
<1>4. Ages' /\ FolderKeeps' /\ LockOfSession'
  BY <1>1, <1>2 DEF Work, Ages, FolderKeeps, LockOfSession
<1>5. Stays(i)'
  BY <1>1, <1>3 DEF Stays, Outside, Session, Sessions
<1> QED
  BY <1>3, <1>4, <1>5, OneIsThere

\* Of a set of two numbers, and of one of five.
LEMMA MaxOfTwo ==
    ASSUME NEW a \in Int, NEW b \in Int
    PROVE  Max({a, b}) \in {a, b} /\ a <= Max({a, b}) /\ b <= Max({a, b})
<1>1. \E x \in {a, b} : \A y \in {a, b} : x >= y
  OBVIOUS
<1> QED
  BY <1>1 DEF Max

LEMMA MaxOfThree ==
    ASSUME NEW a \in Int, NEW b \in Int, NEW c \in Int
    PROVE  a <= Max({a, b, c}) /\ Max({a, b, c}) \in Int
<1>1. \E x \in {a, b, c} : \A y \in {a, b, c} : x >= y
  OBVIOUS
<1> QED
  BY <1>1 DEF Max

LEMMA MaxOfFive ==
    ASSUME NEW a \in Int, NEW b \in Int, NEW c \in Int, NEW d \in Int, NEW e \in Int
    PROVE  LET s == {a, b, c, d, e}
           IN  Max(s) \in s /\ \A x \in s : x <= Max(s)
<1> DEFINE s == {a, b, c, d, e}
           Bound(x) == \A y \in s : x >= y
<1>1. \E x \in s : Bound(x)
  <2>1. PICK m \in {a, b, c} : m >= a /\ m >= b /\ m >= c
    OBVIOUS
  <2>2. PICK n \in {m, d, e} : n >= m /\ n >= d /\ n >= e
    BY <2>1
  <2>3. n \in s /\ Bound(n)
    BY <2>1, <2>2
  <2> QED  BY <2>3
<1>2. Max(s) \in s /\ Bound(Max(s))
  <2> HIDE DEF Bound, s
  <2>1. Max(s) = CHOOSE x \in s : Bound(x)
    BY DEF Max, Bound
  <2> QED  BY <1>1, <2>1
<1>3. \A x \in s : x \in Int
  OBVIOUS
<1> HIDE DEF s
<1> QED
  BY <1>2, <1>3 DEF s

\* A start that sweeps nothing that was kept.
LEMMA StartKeeps ==
    ASSUME TypeOK, Work, Backed, mishaps' = {}, NEW i \in Instances, Start(i)
    PROVE  Work'
<1>1. /\ pc[i] = "off" /\ pc' = [pc EXCEPT ![i] = "home"]
      /\ RemoveFolders(Empty)
      /\ file' = file /\ bak' = bak /\ lock' = lock /\ folder' = folder /\ mem' = mem
      /\ edits' = edits /\ saved' = saved /\ kept' = kept
  BY DEF Start, Goes
<1>2. /\ ~(file < kept /\ \E d \in Empty : Max({main[d], tmp[d]}) >= kept)
      /\ ~(Empty # {} /\ Exposed(pc) # {})
  BY DEF Start, Notes
<1>3. pc'[i] = "home" /\ \A j \in Instances : j # i => pc'[j] = pc[j]
  BY <1>1 DEF TypeOK
<1>4. Ages /\ FolderKeeps /\ LockOfSession /\ Solo /\ \A j \in Instances : Stays(j)
  BY DEF Work
<1>5. LockOfSession'
  BY <1>1, <1>3, <1>4 DEF LockOfSession, Session, Sessions
<1>6. CASE 0 \in Empty
  <2>1. 0 \in exists /\ lock[0] = NoOne /\ auto[0] = None
    BY <1>6 DEF Empty
  <2>2. /\ main'[0] = None /\ auto'[0] = None /\ tmp'[0] = None /\ 0 \notin exists'
    BY <1>1, <1>6, Numbers DEF RemoveFolders
  <2>3. ASSUME NEW j \in Instances PROVE pc[j] \in {"off", "home"}
    <3>1. pc[j] \notin Unprotected
      BY <1>2, <1>6 DEF Exposed
    <3>2. ~Session(j)
      BY <1>4, <2>1, ModelFileAssumption DEF Stays, Inside
    <3>3. pc[j] \in Points
      BY DEF TypeOK
    <3> QED  BY <3>1, <3>2, <3>3 DEF Session, Sessions, Unprotected, Points
  <2>4. kept <= saved
    <3>1. kept <= main[0] \/ kept <= tmp[0] \/ kept <= saved
      BY <1>4, <2>1 DEF FolderKeeps, None
    <3>2. kept <= main[0] \/ kept <= tmp[0] => kept <= file
      <4>1. main[0] <= Max({main[0], tmp[0]}) /\ tmp[0] <= Max({main[0], tmp[0]})
            /\ Max({main[0], tmp[0]}) \in Int
        BY Numbers, MaxOfTwo
      <4>2. ~(file < kept /\ Max({main[0], tmp[0]}) >= kept)
        BY <1>2, <1>6
      <4> DEFINE m == Max({main[0], tmp[0]})
      <4> HIDE DEF m
      <4>3. m \in Int /\ main[0] <= m /\ tmp[0] <= m /\ ~(file < kept /\ m >= kept)
        BY <4>1, <4>2 DEF m
      <4> QED  BY <4>3, Numbers
    <3>3. kept <= file => kept <= saved
      BY Numbers DEF Backed, None
    <3> QED  BY <3>1, <3>2, <3>3
  <2>5. Ages' /\ FolderKeeps'
    BY <1>1, <1>4, <2>2, <2>4, Numbers DEF Ages, FolderKeeps, None, Torn
  <2>6. Stays(i)' /\ \A j \in Instances : j # i => pc'[j] \in {"off", "home"}
    BY <1>3, <2>3 DEF Stays, Outside, Session, Sessions
  <2> QED  BY <1>5, <2>5, <2>6, OneIsThere
<1>7. CASE 0 \notin Empty
  <2>1. main'[0] = main[0] /\ auto'[0] = auto[0] /\ tmp'[0] = tmp[0]
    BY <1>1, <1>7, Numbers DEF RemoveFolders
  <2>2. 0 \in exists' <=> 0 \in exists
    BY <1>1, <1>7 DEF RemoveFolders
  <2>3. Ages' /\ FolderKeeps'
    BY <1>1, <1>4, <2>1, <2>2 DEF Ages, FolderKeeps
  <2>4. Solo'
    BY <1>3, <1>4 DEF Solo, Engaged
  <2>5. ASSUME NEW j \in Instances PROVE Stays(j)'
    <3>1. CASE j = i
      BY <1>3, <3>1 DEF Stays, Outside, Session, Sessions
    <3>2. CASE j # i
      BY <1>1, <1>3, <1>4, <2>1, <2>2, <3>2 DEF Stays, Outside, Inside, Session
    <3> QED  BY <3>1, <3>2
  <2> QED  BY <1>5, <2>3, <2>4, <2>5 DEF Work
<1> QED
  BY <1>6, <1>7

\* A crash leaves the files as they are.
LEMMA CrashKeeps ==
    ASSUME TypeOK, Work, NEW i \in Instances, Crash(i)
    PROVE  Work'
<1>1. /\ pc[i] # "off" /\ pc' = [pc EXCEPT ![i] = "off"]
      /\ lock' = [d \in Folders |-> IF lock[d] = i THEN NoOne ELSE lock[d]]
      /\ folder' = [folder EXCEPT ![i] = NoFolder]
      /\ mem' = [mem EXCEPT ![i] = None]
      /\ file' = file /\ bak' = bak /\ exists' = exists /\ main' = main
      /\ auto' = auto /\ tmp' = tmp
      /\ edits' = edits /\ saved' = saved /\ kept' = kept
  BY DEF Crash, diskVars
<1>2. pc'[i] = "off" /\ \A j \in Instances : j # i => pc'[j] = pc[j]
  BY <1>1 DEF TypeOK
<1>3. lock'[0] = IF lock[0] = i THEN NoOne ELSE lock[0]
  BY <1>1, Numbers
<1>4. Ages /\ FolderKeeps /\ LockOfSession /\ Solo /\ \A j \in Instances : Stays(j)
  BY DEF Work
<1>5. Ages' /\ FolderKeeps'
  BY <1>1, <1>4 DEF Ages, FolderKeeps
<1>6. LockOfSession'
  BY <1>2, <1>3, <1>4 DEF LockOfSession, Session
<1>7. Solo'
  BY <1>2, <1>4 DEF Solo, Engaged
<1>8. ASSUME NEW j \in Instances PROVE Stays(j)'
  <2>1. CASE j = i
    BY <1>2, <2>1 DEF Stays, Outside, Session, Sessions
  <2>2. CASE j # i
    <3>1. folder'[j] = folder[j] /\ mem'[j] = mem[j]
      BY <1>1, <2>2 DEF TypeOK
    <3>2. lock[0] # j => lock[0] # i \/ ~Session(j)
      BY <1>4 DEF Stays, Inside
    <3>3. lock[0] = j => lock'[0] = j
      BY <1>3, <2>2
    <3>4. lock[0] = NoOne => lock'[0] = NoOne
      BY <1>3
    <3> QED  BY <1>1, <1>2, <1>4, <2>2, <3>1, <3>3, <3>4 DEF Stays, Outside, Inside, Session
  <2> QED  BY <2>1, <2>2
<1> QED
  BY <1>5, <1>6, <1>7, <1>8 DEF Work

\* A mishap is not forgotten.
LEMMA MishapsStay ==
    ASSUME [Next]_vars, mishaps' = {}
    PROVE  mishaps = {}
<1> USE DEF history, Notes
<1>1. ASSUME NEW i \in Instances, Start(i) \/ Open(i) PROVE mishaps = {}
  BY <1>1 DEF Start, Open, OpenFound, OpenFresh, NotesRace, DeclineRecovery,
     AcceptRecovery, MoveAutosave, Relock, CreateFolder
<1>2. ASSUME NEW i \in Instances, Edit(i) \/ Autosave(i) \/ Save(i) PROVE mishaps = {}
  BY <1>2 DEF Edit, Autosave, AutosaveBegin, AutosaveReplaces, AutosaveEnd, Save,
     StoreBegin, StoreReplaces, StoreEnd, SaveGivesUp, BackUp, ClearAutosave,
     Pack, PackFails
<1>3. ASSUME NEW i \in Instances, CloseBegin(i) \/ CloseEnd(i) \/ Crash(i)
      PROVE  mishaps = {}
  BY <1>3 DEF CloseBegin, NotesRace, CloseEnd, Crash
<1>4. CASE UNCHANGED vars
  BY <1>4 DEF vars
<1> QED
  BY <1>1, <1>2, <1>3, <1>4 DEF Next

WorkWithoutMishap == mishaps = {} => Work

LEMMA WorkStep ==
    ASSUME TypeOK, Backed, WorkWithoutMishap, [Next]_vars
    PROVE  WorkWithoutMishap'
<1> SUFFICES ASSUME mishaps' = {} PROVE Work'
  BY DEF WorkWithoutMishap
<1>1. Work
  BY MishapsStay DEF WorkWithoutMishap
<1>2. ASSUME NEW i \in Instances, Start(i) \/ Open(i) PROVE Work'
  BY <1>1, <1>2, StartKeeps, OpenFoundKeeps, OpenFreshKeeps, DeclineKeeps,
     AcceptKeeps, MoveKeeps, RelockKeeps, CreateKeeps DEF Open
<1>3. ASSUME NEW i \in Instances, Edit(i) \/ Autosave(i) PROVE Work'
  BY <1>1, <1>3, EditKeeps, AutosaveBeginKeeps, AutosaveReplacesKeeps,
     AutosaveEndKeeps DEF Autosave
<1>4. ASSUME NEW i \in Instances, Save(i) PROVE Work'
  BY <1>1, <1>4, StoreBeginKeeps, StoreReplacesKeeps, StoreEndKeeps,
     SaveGivesUpKeeps, BackUpKeeps, ClearAutosaveKeeps, PackKeeps, PackFailsKeeps
     DEF Save
<1>5. ASSUME NEW i \in Instances, CloseBegin(i) \/ CloseEnd(i) \/ Crash(i) PROVE Work'
  BY <1>1, <1>5, CloseBeginKeeps, CloseEndKeeps, CrashKeeps
<1>6. CASE UNCHANGED vars
  BY <1>1, <1>6 DEF vars, diskVars, instanceVars, history, Work, Ages, FolderKeeps,
     LockOfSession, Solo, Stays, Outside, Inside, Session, Engaged
<1> QED
  BY <1>2, <1>3, <1>4, <1>5, <1>6 DEF Next

LEMMA WorkInvariant == Spec => [](TypeOK /\ Backed /\ WorkWithoutMishap)
<1>1. Init => TypeOK /\ Backed /\ WorkWithoutMishap
  <2> SUFFICES ASSUME Init PROVE TypeOK /\ Backed /\ WorkWithoutMishap
    OBVIOUS
  <2>1. TypeOK
    BY ModelFileAssumption
    DEF Init, TypeOK, Folders, NoFolder, None, Torn, Contents, Mishaps, Points
  <2>2. Backed
    BY DEF Init, Backed
  <2>3. /\ 0 \in Folders /\ main[0] = None /\ auto[0] = None /\ tmp[0] = None
        /\ lock[0] = NoOne
        /\ \A i \in Instances : pc[i] = "off"
    BY <2>1, Numbers DEF Init
  <2>4. Ages /\ FolderKeeps /\ LockOfSession
    BY <2>3 DEF Init, Ages, FolderKeeps, LockOfSession, None, Torn
  <2>5. Solo /\ \A i \in Instances : Stays(i)
    BY <2>3 DEF Solo, Engaged, Stays, Outside, Session, Sessions
  <2> QED  BY <2>1, <2>2, <2>4, <2>5 DEF WorkWithoutMishap, Work
<1>2. TypeOK /\ Backed /\ WorkWithoutMishap /\ [Next]_vars =>
          (TypeOK /\ Backed /\ WorkWithoutMishap)'
  BY TypeStep, BackedStep, WorkStep
<1> QED
  BY <1>1, <1>2, PTL DEF Spec

\* What was saved automatically, and neither saved nor given up, can be found
\* in the file, its backup or the folder after a crash at any point
\* (ModelFile::save_to, WBContextModel::auto_save_document).
THEOREM WorkStaysOnDisk == Spec => []WorkIsOnDisk
<1>1. TypeOK /\ Backed /\ WorkWithoutMishap => WorkIsOnDisk
  <2> SUFFICES ASSUME TypeOK, Backed, Work PROVE kept <= OnDisk
    BY DEF WorkWithoutMishap, WorkIsOnDisk
  <2> DEFINE s == {file, bak, main[0], auto[0], tmp[0]}
  <2>1. Max(s) \in s /\ \A x \in s : x <= Max(s)
    BY Numbers, MaxOfFive
  <2>2. \E x \in s : kept <= x
    <3>1. CASE auto[0] >= 0
      BY <3>1 DEF Work, FolderKeeps
    <3>2. CASE auto[0] < 0
      <4>1. kept <= main[0] \/ kept <= tmp[0] \/ kept <= saved
        BY <3>2 DEF Work, FolderKeeps
      <4>2. saved \in {file, bak}
        BY DEF Backed
      <4> QED  BY <4>1, <4>2
    <3> QED  BY <3>1, <3>2, Numbers
  <2>3. \A x \in s : x \in Int
    BY Numbers
  <2> HIDE DEF s
  <2>4. kept <= Max(s)
    BY <2>1, <2>2, <2>3, Numbers
  <2> QED  BY <2>4 DEF OnDisk, s
<1> QED
  BY <1>1, WorkInvariant, PTL

\* A step moves one instance.
LEMMA OneActs ==
    ASSUME NEW j \in Instances,
           Start(j) \/ Open(j) \/ Edit(j) \/ Autosave(j) \/ Save(j)
              \/ CloseBegin(j) \/ CloseEnd(j) \/ Crash(j)
    PROVE  (\E to : pc' = [pc EXCEPT ![j] = to]) \/ pc' = pc
  BY DEF Start, Open, OpenFound, OpenFresh, DeclineRecovery, AcceptRecovery,
     MoveAutosave, Relock, CreateFolder, Load, Edit, Autosave, AutosaveBegin,
     AutosaveReplaces, AutosaveEnd, Save, StoreBegin, StoreReplaces, StoreEnd,
     SaveGivesUp, BackUp, ClearAutosave, Pack, PackFails, CloseBegin, CloseEnd,
     Crash, Goes

LEMMA OnlyRelockOpens ==
    ASSUME TypeOK, [Next]_vars, NEW i \in Instances,
           pc[i] = "relocking", pc'[i] = "open"
    PROVE  Relock(i)
<1>1. ~UNCHANGED vars
  BY DEF vars, instanceVars
<1>2. PICK j \in Instances :
          \/ Start(j) \/ Open(j) \/ Edit(j) \/ Autosave(j) \/ Save(j)
          \/ CloseBegin(j) \/ CloseEnd(j) \/ Crash(j)
  BY <1>1 DEF Next
<1>3. j = i
  BY <1>2, OneActs DEF TypeOK
<1>4. ~(Start(i) \/ Edit(i) \/ Autosave(i) \/ Save(i) \/ CloseBegin(i) \/ CloseEnd(i))
  BY DEF Start, Edit, Autosave, AutosaveBegin, AutosaveReplaces, AutosaveEnd, Save,
     StoreBegin, StoreReplaces, StoreEnd, SaveGivesUp, BackUp, ClearAutosave,
     Pack, PackFails, CloseBegin, CloseEnd, Goes
<1>5. ~Crash(i)
  BY DEF Crash, TypeOK
<1> QED
  BY <1>2, <1>3, <1>4, <1>5 DEF Open, OpenFound, OpenFresh, DeclineRecovery,
     AcceptRecovery, MoveAutosave, CreateFolder, Goes

\* What the recovery opens is not older than what was kept: the automatic save
\* wins over the document of the folder (ModelFile::open).
THEOREM RecoveryStaysUpToDate == Spec => RecoveryIsUpToDate
<1>1. ASSUME TypeOK, WorkWithoutMishap, [Next]_vars, NEW i \in Instances,
             pc[i] = "relocking", pc'[i] = "open", mishaps = {}
      PROVE  kept <= mem'[i] /\ mem'[i] = main[0]
  <2>1. Work
    BY <1>1 DEF WorkWithoutMishap
  <2>2. Relock(i)
    BY <1>1, OnlyRelockOpens
  <2> QED  BY <1>1, <2>1, <2>2, RelockKeeps
<1>2. ASSUME TypeOK, WorkWithoutMishap, [Next]_vars, NEW i \in Instances,
             pc[i] = "relocking", pc'[i] = "open", mishaps = {}
      PROVE  kept <= Max({mem'[i], tmp[0], file})
  <2>1. mem'[i] \in Int /\ tmp[0] \in Int /\ file \in Int /\ kept \in Int
    BY <1>1, <1>2, Numbers
  <2>2. kept <= mem'[i]
    BY <1>1, <1>2
  <2> DEFINE m == mem'[i]
  <2> HIDE DEF m
  <2>3. m <= Max({m, tmp[0], file}) /\ Max({m, tmp[0], file}) \in Int
    BY <2>1, MaxOfThree DEF m
  <2> QED  BY <2>1, <2>2, <2>3 DEF m
<1>3. TypeOK /\ WorkWithoutMishap /\ [Next]_vars =>
          [\A i \in Instances :
              pc[i] = "relocking" /\ pc'[i] = "open" /\ mishaps = {} =>
                  kept <= Max({mem'[i], tmp[0], file})]_vars
  BY <1>2
<1> QED
  BY <1>3, WorkInvariant, PTL DEF Spec, RecoveryIsUpToDate

=============================================================================
