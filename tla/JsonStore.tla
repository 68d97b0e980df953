----------------------------- MODULE JsonStore -----------------------------
(***************************************************************************)
(* JsonStore.save, step by step over the file system, for all the stores   *)
(* of one data directory.  Each store is saved by one thread at a time     *)
(* (its service's monitor); different stores are saved concurrently, with  *)
(* temp files in the same directory.  Any step may throw, and the process  *)
(* may die between any two; a write is seen half done.                     *)
(*                                                                         *)
(* Every document is serialised before the first file is touched, so what  *)
(* is written is its bytes: complete, or a proper prefix (Partial).        *)
(***************************************************************************)
CONSTANTS
  Stores,     \* the persisted documents of the data directory
  Docs,       \* the contents a document may have
  TempNames,  \* the names createTempFile may choose
  Partial,    \* bytes that are no document: an unfinished write
  None        \* no file, no name, no document

ASSUME JsonStoreAssumption ==
  /\ Partial \notin Docs /\ None \notin Docs /\ Partial # None
  /\ None \notin TempNames

VARIABLES
  file,    \* per store, the content of its file
  temp,    \* per temp name, the content of that file
  pc,      \* per store, where its save() is
  doc,     \* per store, save()'s argument
  tmp,     \* per store, save()'s temp file
  threw,   \* per store, whether save() is on its way out with an exception
  outcome, \* per store, how its last save() ended
  stray    \* history: temp files left by a crash or by a failed delete

vars == <<file, temp, pc, doc, tmp, threw, outcome, stray>>

Contents == Docs \union {Partial, None}

Init ==
  /\ file = [s \in Stores |-> None]
  /\ temp = [t \in TempNames |-> None]
  /\ pc = [s \in Stores |-> "idle"]
  /\ doc = [s \in Stores |-> None]
  /\ tmp = [s \in Stores |-> None]
  /\ threw = [s \in Stores |-> FALSE]
  /\ outcome = [s \in Stores |-> "none"]
  /\ stray = {}

Goto(s, label) == pc' = [pc EXCEPT ![s] = label]

\* A service calls save() with its state.
Save(s, d) ==
  /\ pc[s] = "idle"
  /\ Goto(s, "create")
  /\ doc' = [doc EXCEPT ![s] = d]
  /\ outcome' = [outcome EXCEPT ![s] = "none"]
  /\ UNCHANGED <<file, temp, tmp, threw, stray>>

\* Mutant of CreateTemp: any name will do, in use or not.
CreateSharedTemp(s, t) ==
  /\ pc[s] = "create"
  /\ temp' = [temp EXCEPT ![t] = Partial]
  /\ tmp' = [tmp EXCEPT ![s] = t]
  /\ Goto(s, "write")
  /\ UNCHANGED <<file, doc, threw, outcome, stray>>

\* createDirectories, the serialisation and createTempFile succeed.  The name
\* is 64 random bits: no file has it, nor does a save that already moved its
\* own away ...
CreateTemp(s, t) ==
  /\ pc[s] = "create"
  /\ temp[t] = None /\ \A r \in Stores : tmp[r] # t
  /\ temp' = [temp EXCEPT ![t] = Partial]
  /\ tmp' = [tmp EXCEPT ![s] = t]
  /\ Goto(s, "write")
  /\ UNCHANGED <<file, doc, threw, outcome, stray>>

\* ... or one of them throws, before there is anything to clean up.
CreateThrows(s) ==
  /\ pc[s] = "create"
  /\ threw' = [threw EXCEPT ![s] = TRUE]
  /\ Goto(s, "leave")
  /\ UNCHANGED <<file, temp, doc, tmp, outcome, stray>>

\* Files.write has written everything; restrictPermissions never throws.
Write(s) ==
  /\ pc[s] = "write"
  /\ temp' = [temp EXCEPT ![tmp[s]] = doc[s]]
  /\ Goto(s, "move")
  /\ UNCHANGED <<file, doc, tmp, threw, outcome, stray>>

\* Mutant of Move: the file gets the temp file's name, not its content.
MoveName(s) ==
  /\ pc[s] = "move"
  /\ file' = [file EXCEPT ![s] = tmp[s]]
  /\ temp' = [temp EXCEPT ![tmp[s]] = None]
  /\ Goto(s, "cleanup")
  /\ UNCHANGED <<doc, tmp, threw, outcome, stray>>

\* The rename replaces the store's file in one step.
Move(s) ==
  /\ pc[s] = "move"
  /\ file' = [file EXCEPT ![s] = temp[tmp[s]]]
  /\ temp' = [temp EXCEPT ![tmp[s]] = None]
  /\ Goto(s, "cleanup")
  /\ UNCHANGED <<doc, tmp, threw, outcome, stray>>

\* The write or the rename throws.
WriteOrMoveThrows(s) ==
  /\ pc[s] \in {"write", "move"}
  /\ threw' = [threw EXCEPT ![s] = TRUE]
  /\ Goto(s, "cleanup")
  /\ UNCHANGED <<file, temp, doc, tmp, outcome, stray>>

\* Mutant of Cleanup: the finally block deletes nothing.
CleanupNothing(s) ==
  /\ pc[s] = "cleanup"
  /\ Goto(s, "leave")
  /\ UNCHANGED <<file, temp, doc, tmp, threw, outcome, stray>>

\* The finally block: deleteIfExists.
Cleanup(s) ==
  /\ pc[s] = "cleanup"
  /\ temp' = [temp EXCEPT ![tmp[s]] = None]
  /\ Goto(s, "leave")
  /\ UNCHANGED <<file, doc, tmp, threw, outcome, stray>>

\* deleteIfExists throws, even if the rename has taken the temp file away.
CleanupThrows(s) ==
  /\ pc[s] = "cleanup"
  /\ threw' = [threw EXCEPT ![s] = TRUE]
  /\ stray' = stray \union ({tmp[s]} \ {t \in TempNames : temp[t] = None})
  /\ Goto(s, "leave")
  /\ UNCHANGED <<file, temp, doc, tmp, outcome>>

\* save() returns, or throws UncheckedIOException if threw.
Leave(s) ==
  /\ pc[s] = "leave"
  /\ Goto(s, "idle")
  /\ doc' = [doc EXCEPT ![s] = None]
  /\ tmp' = [tmp EXCEPT ![s] = None]
  /\ threw' = [threw EXCEPT ![s] = FALSE]
  /\ outcome' = [outcome EXCEPT ![s] = IF threw[s] THEN "error" ELSE "ok"]
  /\ UNCHANGED <<file, temp, stray>>

\* The process dies; the files stay as they are.
Crash ==
  /\ stray' = {t \in TempNames : temp[t] # None}
  /\ pc' = [s \in Stores |-> "idle"]
  /\ doc' = [s \in Stores |-> None]
  /\ tmp' = [s \in Stores |-> None]
  /\ threw' = [s \in Stores |-> FALSE]
  /\ outcome' = [s \in Stores |-> "none"]
  /\ UNCHANGED <<file, temp>>

Next ==
  \/ Crash
  \/ \E s \in Stores, d \in Docs : Save(s, d)
  \/ \E s \in Stores, t \in TempNames : CreateTemp(s, t)
  \/ \E s \in Stores : \/ CreateThrows(s) \/ Write(s) \/ Move(s) \/ WriteOrMoveThrows(s)
                       \/ Cleanup(s) \/ CleanupThrows(s) \/ Leave(s)

Spec == Init /\ [][Next]_vars

-----------------------------------------------------------------------------
(* Properties.                                                             *)

TypeOK ==
  /\ file \in [Stores -> Contents] /\ temp \in [TempNames -> Contents]
  /\ pc \in [Stores -> {"idle", "create", "write", "move", "cleanup", "leave"}]
  /\ doc \in [Stores -> Docs \union {None}]
  /\ tmp \in [Stores -> TempNames \union {None}]
  /\ threw \in [Stores -> BOOLEAN]
  /\ outcome \in [Stores -> {"none", "ok", "error"}]
  /\ stray \in SUBSET TempNames

\* A save on its way out has installed its document if the file holds it (it
\* may have held the same document before: that makes no difference).
Installed(s) == pc[s] \in {"cleanup", "leave"} /\ file[s] = doc[s]

Abstract == INSTANCE AtomicDocument
  WITH value <- file, saving <- doc, installed <- {s \in Stores : Installed(s)}

\* JsonStore implements AtomicDocument: "a crash mid-write can never leave a
\* half-written file", concurrent saves never take each other's temp file, and
\* no save returns normally unless its document is in place.
AtomicSave == Abstract!Spec

\* Whatever save() does, its temp file goes with it, except where the process
\* dies first or the delete itself fails.
NoStrayTemp ==
  \A t \in TempNames : temp[t] # None => t \in stray \/ \E s \in Stores : tmp[s] = t

-----------------------------------------------------------------------------
(* The inductive invariant behind AtomicSave.                              *)

IInv ==
  /\ \A s \in Stores :
       /\ pc[s] = "idle" <=> doc[s] = None
       /\ pc[s] \in {"write", "move", "cleanup"} => tmp[s] \in TempNames
       /\ pc[s] \in {"idle", "create"} => tmp[s] = None
       /\ pc[s] = "move" => temp[tmp[s]] = doc[s]
       /\ pc[s] \in {"cleanup", "leave"} => threw[s] \/ file[s] = doc[s]
       /\ pc[s] \notin {"cleanup", "leave"} => ~threw[s]
  /\ \A r, s \in Stores : tmp[r] = tmp[s] /\ tmp[r] # None => r = s

=============================================================================
