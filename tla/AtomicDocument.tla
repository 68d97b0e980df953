--------------------------- MODULE AtomicDocument ---------------------------
(***************************************************************************)
(* What JsonStore promises each service, and all that the services' models *)
(* use of it: the file of a store holds a whole document that was given to *)
(* save(), replaced in one step; save() returns normally only after that   *)
(* step; and an error or a crash may come before or after it.              *)
(***************************************************************************)
CONSTANTS
  Stores,   \* the persisted documents: clients, keys, revocations, audit log
  Docs,     \* the contents a document may have
  None      \* no file, no save in progress

VARIABLES
  value,      \* per store, the document a load would read
  saving,     \* per store, the document being saved
  installed,  \* the stores whose save in progress has replaced the value
  outcome     \* per store, how its last save ended

vars == <<value, saving, installed, outcome>>

Init ==
  /\ value = [s \in Stores |-> None]
  /\ saving = [s \in Stores |-> None]
  /\ installed = {}
  /\ outcome = [s \in Stores |-> "none"]

Begin(s, d) ==
  /\ saving[s] = None
  /\ saving' = [saving EXCEPT ![s] = d]
  /\ outcome' = [outcome EXCEPT ![s] = "none"]
  /\ UNCHANGED <<value, installed>>

Install(s) ==
  /\ saving[s] # None /\ s \notin installed
  /\ value' = [value EXCEPT ![s] = saving[s]]
  /\ installed' = installed \union {s}
  /\ UNCHANGED <<saving, outcome>>

Finish(s, how) ==
  /\ saving[s] # None
  /\ saving' = [saving EXCEPT ![s] = None]
  /\ installed' = installed \ {s}
  /\ outcome' = [outcome EXCEPT ![s] = how]
  /\ UNCHANGED value

\* save() returns.
Return(s) == s \in installed /\ Finish(s, "ok")

\* save() throws.
Throw(s) == Finish(s, "error")

\* The process dies, and with it every save in progress.
Crash ==
  /\ saving' = [s \in Stores |-> None]
  /\ installed' = {}
  /\ outcome' = [s \in Stores |-> "none"]
  /\ UNCHANGED value

Next ==
  \/ Crash
  \/ \E s \in Stores : \/ \E d \in Docs : Begin(s, d)
                       \/ Install(s) \/ Return(s) \/ Throw(s)

Spec == Init /\ [][Next]_vars

=============================================================================
