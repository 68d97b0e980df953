---------------------------- MODULE AuditService ----------------------------
(***************************************************************************)
(* The audit log (AuditService.java): a list in memory, saved whole on     *)
(* every append, under the service's own monitor.  An entry is the event,  *)
(* the client it concerns, and, for its time and detail, the serial number *)
(* of the request that recorded it.                                        *)
(***************************************************************************)
EXTENDS Sequences

VARIABLES
  entries,    \* AuditService.entries
  auditFile   \* the audit document

audit == <<entries, auditFile>>

AuditInit == entries = <<>> /\ auditFile = <<>>

\* Mutant of AuditLoad: starts with an empty list.
AuditLoadNothing == entries' = <<>> /\ UNCHANGED auditFile

AuditLoad == entries' = auditFile /\ UNCHANGED auditFile
AuditForget == entries' = <<>> /\ UNCHANGED auditFile

\* Mutant of Record: appends without saving.
RecordUnsaved(entry) == entries' = Append(entries, entry) /\ UNCHANGED auditFile

\* record(): the entry is in memory before the save, and stays there when the
\* save throws.
Record(entry) == entries' = Append(entries, entry) /\ auditFile' = entries'
RecordFails(entry) ==
  /\ entries' = Append(entries, entry)
  /\ auditFile' \in {auditFile, entries'}

=============================================================================
