----------------------------- MODULE ModelFile -----------------------------
(***************************************************************************)
(* A model document on disk: backend/wbprivate/workbench/wb_model_file.cpp *)
(* with its callers in wb_context.cpp and wb_context_model.cpp.  Instances *)
(* of the application open, edit, save, save automatically and close one   *)
(* document; each may crash between any two of its file operations.        *)
(*                                                                         *)
(* An open document is expanded in a folder, the first free one of d, d1,  *)
(* d2..., that holds a lock file.  The folder keeps the document as it was *)
(* opened or saved (document.mwb.xml) and as it was saved automatically    *)
(* (document-autosave.mwb.xml).  Contents are version numbers: each edit   *)
(* makes a newer one.                                                      *)
(***************************************************************************)
EXTENDS Integers, FiniteSetsExt

CONSTANTS
    Instances,      \* the running applications of one user
    NoOne,          \* the holder of a lock that is free
    MaxFolder,      \* bound: number of the last folder
    MaxVersion,     \* bound: edits
    MaxCrashes      \* bound: crashes

ASSUME ModelFileAssumption ==
    /\ NoOne \notin Instances
    /\ MaxFolder \in Nat
    /\ MaxVersion \in Nat
    /\ MaxCrashes \in Nat

Folders == 0 .. MaxFolder
NoFolder == -1

None == -2          \* no such file
Torn == -1          \* a file that was not written to its end
Contents == {None, Torn} \cup (0 .. MaxVersion)

VARIABLES
    file,       \* the document the user names, name.mwb
    bak,        \* name.mwb.bak
    exists,     \* which folders exist
    main,       \* document.mwb.xml of each folder
    auto,       \* document-autosave.mwb.xml of each folder
    tmp,        \* the .tmp file of the one of them that is being replaced
    lock,       \* the holder of each folder's lock file
    pc,         \* what each instance is doing
    folder,     \* ModelFile::_content_dir of each instance
    mem,        \* the document in memory
    autoPoint,  \* _auto_save_point: what was saved automatically last
    edits,      \* history: number of edits so far
    crashes,    \* history: number of crashes so far
    saved,      \* history: the version saved last
    kept,       \* history: the newest version that was saved, automatically
                \* or not, and that nobody has given up
    mishaps     \* history: how kept may have been lost, see Mishaps

diskVars == <<file, bak, exists, main, auto, tmp>>
instanceVars == <<pc, folder, mem, autoPoint>>
history == <<edits, crashes, saved, kept, mishaps>>
vars == <<diskVars, lock, instanceVars, history>>

\* "swept": a start has deleted a folder that held what was kept.  "cut": the
\* recovery has met what a crash in the middle of a write leaves, a torn
\* automatic save, which it takes, or a temporary file, which it does not look
\* at.  "raced": two instances were at once in the stretches that the lock
\* does not cover, or a start deleted folders while one was.
Mishaps == {"swept", "cut", "raced"}

Points == {"off", "home", "asking", "moving", "relocking", "creating", "failed",
           "open", "autosaving", "replacing", "storing", "restoring", "stored",
           "backed", "cleared", "closing"}

TypeOK ==
    /\ file \in Contents /\ bak \in Contents
    /\ exists \subseteq Folders
    /\ main \in [Folders -> Contents]
    /\ auto \in [Folders -> Contents]
    /\ tmp \in [Folders -> Contents]
    /\ lock \in [Folders -> Instances \cup {NoOne}]
    /\ pc \in [Instances -> Points]
    /\ folder \in [Instances -> Folders \cup {NoFolder}]
    /\ mem \in [Instances -> Contents]
    /\ autoPoint \in [Instances -> Contents]
    /\ edits \in 0 .. MaxVersion
    /\ crashes \in 0 .. MaxCrashes
    /\ saved \in 0 .. MaxVersion /\ kept \in 0 .. MaxVersion
    /\ mishaps \subseteq Mishaps

Init ==
    /\ file = 0 /\ bak = None
    /\ exists = {}
    /\ main = [d \in Folders |-> None]
    /\ auto = [d \in Folders |-> None]
    /\ tmp = [d \in Folders |-> None]
    /\ lock = [d \in Folders |-> NoOne]
    /\ pc = [i \in Instances |-> "off"]
    /\ folder = [i \in Instances |-> NoFolder]
    /\ mem = [i \in Instances |-> None]
    /\ autoPoint = [i \in Instances |-> None]
    /\ edits = 0 /\ crashes = 0
    /\ saved = 0 /\ kept = 0
    /\ mishaps = {}

-----------------------------------------------------------------------------
Goes(i, from, to) == pc[i] = from /\ pc' = [pc EXCEPT ![i] = to]

\* rmdir_recursively, of a set of folders: the lock files go, too.
RemoveFolders(ds) ==
    LET Without(f, none) == [d \in Folders |-> IF d \in ds THEN none ELSE f[d]]
    IN  /\ exists' = exists \ ds
        /\ main' = Without(main, None)
        /\ auto' = Without(auto, None)
        /\ tmp' = Without(tmp, None)

Unlocked(ds) == [d \in Folders |-> IF d \in ds THEN NoOne ELSE lock[d]]

\* An instance that relies on a lock it does not hold, or not yet.
Unprotected == {"asking", "moving", "relocking", "creating", "failed",
                "closing"}
Notes(mishap, happened) == mishaps \cup (IF happened THEN {mishap} ELSE {})
Exposed(pcs) == {i \in Instances : pcs[i] \in Unprotected}
NotesRace(pcs) == Notes("raced", \E i, j \in Exposed(pcs) : i # j)

-----------------------------------------------------------------------------
(* Start: detect_auto_save_files deletes the folders that nobody has locked*)
(* and that hold no automatic save.                                        *)

Empty_EvenSaved == {d \in exists : lock[d] = NoOne}
Empty == {d \in exists : lock[d] = NoOne /\ auto[d] = None}

Start(i) ==
    /\ Goes(i, "off", "home")
    /\ RemoveFolders(Empty)
    /\ mishaps' = Notes("swept", /\ file < kept
                                 /\ \E d \in Empty : Max({main[d], tmp[d]}) >= kept)
                    \cup Notes("raced", Empty # {} /\ Exposed(pc) # {})
    /\ UNCHANGED <<file, bak, lock, folder, mem, autoPoint, edits, crashes,
                   saved, kept>>

-----------------------------------------------------------------------------
(* WBContext::open_document and ModelFile::open *)

\* The folder of the document exists and its lock is free
Recoverable_EvenLocked == 0 \in exists
Recoverable == 0 \in exists /\ lock[0] = NoOne

\* Its lock is taken and given back, and the user is asked.  A document that is
\* locked is refused.
OpenFound(i) ==
    /\ file # None
    /\ Recoverable
    /\ Goes(i, "home", "asking")
    /\ mishaps' = NotesRace(pc')
    /\ UNCHANGED <<diskVars, lock, folder, mem, autoPoint, edits, crashes,
                   saved, kept>>

OpenFresh(i) ==
    /\ file # None
    /\ 0 \notin exists
    /\ Goes(i, "home", "creating")
    /\ mishaps' = NotesRace(pc')
    /\ UNCHANGED <<diskVars, lock, folder, mem, autoPoint, edits, crashes,
                   saved, kept>>

\* "Continue": the folder is deleted.
DeclineRecovery(i) ==
    /\ Goes(i, "asking", "creating")
    /\ RemoveFolders({0})
    /\ lock' = Unlocked({0})
    /\ kept' = saved
    /\ UNCHANGED <<file, bak, folder, mem, autoPoint, edits, crashes, saved,
                   mishaps>>

HasAutosave_Never == FALSE
HasAutosave == auto[0] # None

\* "Recover": the automatic save takes the place of the document, in two
\* steps; without one the document is taken as it is.
AcceptRecovery(i) ==
    /\ IF HasAutosave
         THEN Goes(i, "asking", "moving") /\ main' = [main EXCEPT ![0] = None]
         ELSE Goes(i, "asking", "relocking") /\ UNCHANGED main
    /\ folder' = [folder EXCEPT ![i] = 0]
    /\ mishaps' = Notes("cut", auto[0] = Torn \/ tmp[0] # None)
    /\ UNCHANGED <<file, bak, exists, auto, tmp, lock, mem, autoPoint, edits,
                   crashes, saved, kept>>

MoveAutosave(i) ==
    /\ Goes(i, "moving", "relocking")
    /\ main' = [main EXCEPT ![0] = auto[0]]
    /\ auto' = [auto EXCEPT ![0] = None]
    /\ UNCHANGED <<file, bak, exists, tmp, lock, folder, mem, autoPoint, history>>

\* Retrieve the document of the folder, which fails if it is not whole.
Load(i, content, locks) ==
    /\ pc' = [pc EXCEPT ![i] = IF content >= 0 THEN "open" ELSE "failed"]
    /\ mem' = [mem EXCEPT ![i] = content]
    /\ autoPoint' = [autoPoint EXCEPT ![i] = content]
    /\ lock' = locks

Relock(i) ==
    /\ pc[i] = "relocking"
    /\ IF 0 \in exists /\ lock[0] = NoOne
         THEN Load(i, main[0], [lock EXCEPT ![0] = i])
         ELSE /\ pc' = [pc EXCEPT ![i] = "failed"]
              /\ UNCHANGED <<mem, autoPoint, lock>>
    /\ UNCHANGED <<diskVars, folder, history>>

FreeFolders == {d \in Folders : d \notin exists \/ lock[d] = NoOne}

\* create_document_dir takes the first folder whose lock it gets, an existing
\* one, too, and the document is unpacked into it.
CreateFolder(i) ==
    /\ pc[i] = "creating"
    /\ \E d \in FreeFolders :
           /\ \A e \in FreeFolders : d <= e
           /\ exists' = exists \cup {d}
           /\ main' = [main EXCEPT ![d] = IF file = None THEN @ ELSE file]
           /\ folder' = [folder EXCEPT ![i] = d]
           /\ Load(i, file, [lock EXCEPT ![d] = i])
    /\ UNCHANGED <<file, bak, auto, tmp, history>>

-----------------------------------------------------------------------------
(* The open document *)

Edit(i) ==
    /\ pc[i] = "open"
    /\ edits < MaxVersion
    /\ edits' = edits + 1
    /\ mem' = [mem EXCEPT ![i] = edits + 1]
    /\ UNCHANGED <<diskVars, lock, pc, folder, autoPoint, crashes, saved,
                   kept, mishaps>>

Here(i) == folder[i]
Newest(v) == IF v > kept THEN v ELSE kept

\* auto_save_document, from its timer: nothing to do if nothing was changed.
\* A file that exists is replaced by a temporary one, a new one is written in
\* place.
AutosaveBegin(i) ==
    /\ mem[i] # autoPoint[i]
    /\ Here(i) \in exists
    /\ IF auto[Here(i)] = None
         THEN /\ Goes(i, "open", "autosaving")
              /\ auto' = [auto EXCEPT ![Here(i)] = Torn]
              /\ UNCHANGED tmp
         ELSE /\ Goes(i, "open", "replacing")
              /\ tmp' = [tmp EXCEPT ![Here(i)] = mem[i]]
              /\ UNCHANGED auto
    /\ autoPoint' = [autoPoint EXCEPT ![i] = mem[i]]
    /\ UNCHANGED <<file, bak, exists, main, lock, folder, mem, history>>

\* base_remove of the old file
AutosaveReplaces(i) ==
    /\ Goes(i, "replacing", "autosaving")
    /\ auto' = [auto EXCEPT ![Here(i)] = None]
    /\ UNCHANGED <<file, bak, exists, main, tmp, lock, folder, mem, autoPoint,
                   history>>

\* The end of the writing, or base_rename
AutosaveEnd(i) ==
    /\ Goes(i, "autosaving", "open")
    /\ IF Here(i) \in exists
         THEN /\ auto' = [auto EXCEPT ![Here(i)] = mem[i]]
              /\ tmp' = [tmp EXCEPT ![Here(i)] = None]
              /\ kept' = Newest(mem[i])
         ELSE UNCHANGED <<auto, tmp, kept>>
    /\ UNCHANGED <<file, bak, exists, main, lock, folder, mem, autoPoint,
                   edits, crashes, saved, mishaps>>

\* save_grt: store_document writes the document of the folder the same way.
StoreBegin(i) ==
    /\ Here(i) \in exists
    /\ Goes(i, "open", "storing")
    /\ IF main[Here(i)] = None
         THEN main' = [main EXCEPT ![Here(i)] = Torn] /\ UNCHANGED tmp
         ELSE tmp' = [tmp EXCEPT ![Here(i)] = mem[i]] /\ UNCHANGED main
    /\ UNCHANGED <<file, bak, exists, auto, lock, folder, mem, autoPoint,
                   history>>

StoreReplaces(i) ==
    /\ Goes(i, "storing", "restoring")
    /\ main' = [main EXCEPT ![Here(i)] = None]
    /\ UNCHANGED <<file, bak, exists, auto, tmp, lock, folder, mem, autoPoint,
                   history>>

StoreEnd(i) ==
    /\ Goes(i, "restoring", "stored")
    /\ IF Here(i) \in exists
         THEN /\ main' = [main EXCEPT ![Here(i)] = mem[i]]
              /\ tmp' = [tmp EXCEPT ![Here(i)] = None]
         ELSE UNCHANGED <<main, tmp>>
    /\ UNCHANGED <<file, bak, exists, auto, lock, folder, mem, autoPoint,
                   history>>

\* save_to: the user does not want a read-only file overwritten, or the
\* backup cannot be made; the old backup may be gone by then.
SaveGivesUp(i) ==
    /\ Goes(i, "stored", "open")
    /\ file # None
    /\ bak' \in {bak, None}
    /\ UNCHANGED <<file, exists, main, auto, tmp, lock, folder, mem, autoPoint,
                   history>>

BackedUp_Never == bak
BackedUp == IF file = None THEN bak ELSE file

\* save_to: the existing file becomes the backup.
BackUp(i) ==
    /\ Goes(i, "stored", "backed")
    /\ bak' = BackedUp
    /\ file' = None
    /\ UNCHANGED <<exists, main, auto, tmp, lock, folder, mem, autoPoint,
                   history>>

\* save_to: "saving the file for real can delete the autosave"
ClearAutosave(i) ==
    /\ Goes(i, "backed", "cleared")
    /\ auto' = [auto EXCEPT ![Here(i)] = None]
    /\ UNCHANGED <<file, bak, exists, main, tmp, lock, folder, mem, autoPoint,
                   history>>

\* pack_zip: the archive is complete or not there at all.
Pack(i) ==
    /\ Here(i) \in exists
    /\ main[Here(i)] >= 0
    /\ Goes(i, "cleared", "open")
    /\ file' = main[Here(i)]
    /\ saved' = main[Here(i)]
    /\ kept' = Newest(main[Here(i)])
    /\ UNCHANGED <<bak, exists, main, auto, tmp, lock, folder, mem, autoPoint,
                   edits, crashes, mishaps>>

PackFails(i) ==
    /\ Goes(i, "cleared", "open")
    /\ UNCHANGED <<diskVars, lock, folder, mem, autoPoint, history>>

\* close_document, after the question about unsaved changes, or the next
\* open_document after one that failed: ModelFile::cleanup unlocks first.
CloseBegin(i) ==
    /\ Goes(i, "open", "closing") \/ Goes(i, "failed", "closing")
    /\ lock' = [d \in Folders |->
                   IF d = Here(i) /\ lock[d] = i THEN NoOne ELSE lock[d]]
    /\ kept' = IF pc[i] = "open" THEN saved ELSE kept
    /\ mishaps' = NotesRace(pc')
    /\ UNCHANGED <<diskVars, folder, mem, autoPoint, edits, crashes, saved>>

CloseEnd(i) ==
    /\ Goes(i, "closing", "home")
    /\ RemoveFolders({Here(i)})
    /\ lock' = Unlocked({Here(i)})
    /\ folder' = [folder EXCEPT ![i] = NoFolder]
    /\ mem' = [mem EXCEPT ![i] = None]
    /\ autoPoint' = [autoPoint EXCEPT ![i] = None]
    /\ UNCHANGED <<file, bak, history>>

-----------------------------------------------------------------------------
\* A crash releases the lock and leaves the disk as it is.
Crash(i) ==
    /\ pc[i] # "off"
    /\ crashes < MaxCrashes
    /\ crashes' = crashes + 1
    /\ pc' = [pc EXCEPT ![i] = "off"]
    /\ lock' = [d \in Folders |-> IF lock[d] = i THEN NoOne ELSE lock[d]]
    /\ folder' = [folder EXCEPT ![i] = NoFolder]
    /\ mem' = [mem EXCEPT ![i] = None]
    /\ autoPoint' = [autoPoint EXCEPT ![i] = None]
    /\ UNCHANGED <<diskVars, edits, saved, kept, mishaps>>

Open(i) ==
    \/ OpenFound(i) \/ OpenFresh(i)
    \/ DeclineRecovery(i) \/ AcceptRecovery(i) \/ MoveAutosave(i)
    \/ Relock(i) \/ CreateFolder(i)

Autosave(i) == AutosaveBegin(i) \/ AutosaveReplaces(i) \/ AutosaveEnd(i)

Save(i) ==
    \/ StoreBegin(i) \/ StoreReplaces(i) \/ StoreEnd(i)
    \/ SaveGivesUp(i) \/ BackUp(i) \/ ClearAutosave(i)
    \/ Pack(i) \/ PackFails(i)

Next ==
    \E i \in Instances :
        \/ Start(i) \/ Open(i) \/ Edit(i) \/ Autosave(i) \/ Save(i)
        \/ CloseBegin(i) \/ CloseEnd(i) \/ Crash(i)

Spec == Init /\ [][Next]_vars

-----------------------------------------------------------------------------
(* Properties *)

\* What was saved last is in the file or in its backup, whatever fails and
\* whenever the application crashes.
SavedIsOnDisk == saved \in {file, bak}

\* What the user can get back: the document, its backup, or what the recovery
\* takes from the folder.  (The temporary file is counted although nothing in
\* the code reads it: a crash between base_remove and base_rename leaves the
\* work only there.)
OnDisk == Max({file, bak, main[0], auto[0], tmp[0]})

\* What was saved automatically stays on disk until it is saved, or given up
\* by the user, whenever the application crashes; unless a start deletes it
\* or the recovery meets a write that was cut off.
WorkIsOnDisk == mishaps = {} => kept <= OnDisk

\* "When a document is opened, it will check if there already is a document
\* folder for that file and if so, the recovery function will kick in": so
\* no start of the application may lose what was kept.
WorkSurvivesRestart == mishaps \subseteq {"swept"} => kept <= OnDisk

\* A recovered document is not older than what was kept.
RecoveryIsUpToDate ==
    [][\A i \in Instances :
          pc[i] = "relocking" /\ pc'[i] = "open" /\ mishaps = {} =>
              kept <= Max({mem'[i], tmp[0], file})]_vars

\* Two instances never have the same document open, and an open document's
\* folder is there and locked, unless two were at once in the stretches of
\* open and cleanup that the lock does not cover.
Holding == {i \in Instances : pc[i] \notin {"off", "home"} \cup Unprotected}
OneOwner ==
    "raced" \notin mishaps =>
        /\ \A i \in Holding : folder[i] \in exists /\ lock[folder[i]] = i
        /\ \A i, j \in Holding : i # j => folder[i] # folder[j]
=============================================================================
