-------------------------- MODULE JsonStore_proofs --------------------------
(***************************************************************************)
(* JsonStore implements AtomicDocument, for any number of stores, documents *)
(* and temp names.                                                          *)
(***************************************************************************)
EXTENDS JsonStore, TLAPS

\* A step keeps the types: in particular a save has a temp file to write,
\* move and delete.
LEMMA TypeStep ==
  ASSUME TypeOK, IInv, [Next]_vars
  PROVE  TypeOK'
<1> USE DEF TypeOK, Contents, Goto, IInv
<1>1. CASE Crash
  BY <1>1 DEF Crash
<1>2. ASSUME NEW s \in Stores, NEW d \in Docs, Save(s, d)
      PROVE  TypeOK'
  BY <1>2 DEF Save
<1>3. ASSUME NEW s \in Stores, NEW t \in TempNames, CreateTemp(s, t)
      PROVE  TypeOK'
  BY <1>3 DEF CreateTemp
<1>4. ASSUME NEW s \in Stores, CreateThrows(s) \/ WriteOrMoveThrows(s)
      PROVE  TypeOK'
  BY <1>4 DEF CreateThrows, WriteOrMoveThrows
<1>5. ASSUME NEW s \in Stores, Write(s)
      PROVE  TypeOK'
  BY <1>5 DEF Write
<1>6. ASSUME NEW s \in Stores, Move(s)
      PROVE  TypeOK'
  BY <1>6 DEF Move
<1>7. ASSUME NEW s \in Stores, Cleanup(s) \/ CleanupThrows(s)
      PROVE  TypeOK'
  BY <1>7 DEF Cleanup, CleanupThrows
<1>8. ASSUME NEW s \in Stores, Leave(s)
      PROVE  TypeOK'
  BY <1>8 DEF Leave
<1>9. CASE UNCHANGED vars
  BY <1>9 DEF vars
<1> QED
  BY <1>1, <1>2, <1>3, <1>4, <1>5, <1>6, <1>7, <1>8, <1>9 DEF Next

\* A temp file is written by one save only, and is whole when it is moved.
LEMMA IInvStep ==
  ASSUME TypeOK, IInv, [Next]_vars
  PROVE  IInv'
<1> USE JsonStoreAssumption DEF TypeOK, Contents, Goto, IInv
<1>1. CASE Crash
  BY <1>1 DEF Crash
<1>2. ASSUME NEW s \in Stores, NEW d \in Docs, Save(s, d)
      PROVE  IInv'
  BY <1>2 DEF Save
<1>3. ASSUME NEW s \in Stores, NEW t \in TempNames, CreateTemp(s, t)
      PROVE  IInv'
  BY <1>3 DEF CreateTemp
<1>4. ASSUME NEW s \in Stores, CreateThrows(s) \/ WriteOrMoveThrows(s)
      PROVE  IInv'
  BY <1>4 DEF CreateThrows, WriteOrMoveThrows
<1>5. ASSUME NEW s \in Stores, Write(s)
      PROVE  IInv'
  BY <1>5 DEF Write
<1>6. ASSUME NEW s \in Stores, Move(s)
      PROVE  IInv'
  BY <1>6 DEF Move
<1>7. ASSUME NEW s \in Stores, Cleanup(s) \/ CleanupThrows(s)
      PROVE  IInv'
  BY <1>7 DEF Cleanup, CleanupThrows
<1>8. ASSUME NEW s \in Stores, Leave(s)
      PROVE  IInv'
  BY <1>8 DEF Leave
<1>9. CASE UNCHANGED vars
  BY <1>9 DEF vars
<1> QED
  BY <1>1, <1>2, <1>3, <1>4, <1>5, <1>6, <1>7, <1>8, <1>9 DEF Next

LEMMA Invariants == Spec => [](TypeOK /\ IInv)
<1>1. Init => TypeOK /\ IInv
  BY DEF Init, TypeOK, Contents, IInv
<1>2. TypeOK /\ IInv /\ [Next]_vars => TypeOK' /\ IInv'
  BY TypeStep, IInvStep
<1> QED
  BY <1>1, <1>2, PTL DEF Spec

\* Every variable keeps its type.
THEOREM TypeCorrect == Spec => []TypeOK
BY Invariants, PTL

-----------------------------------------------------------------------------
(* Temp files.                                                             *)

\* The temp file of a save that leaves is gone or a stray; names of strays are
\* not given out again.
StrayInv ==
  \A s \in Stores :
    pc[s] = "leave" /\ tmp[s] # None => temp[tmp[s]] = None \/ tmp[s] \in stray

\* A save that has no temp file any more has moved or deleted it, or left it
\* behind as a stray.
LEMMA StrayStep ==
  ASSUME TypeOK, IInv, NoStrayTemp, StrayInv, [Next]_vars
  PROVE  NoStrayTemp' /\ StrayInv'
<1> USE JsonStoreAssumption DEF TypeOK, Contents, Goto, IInv, NoStrayTemp, StrayInv
<1>1. CASE Crash
  BY <1>1 DEF Crash
<1>2. ASSUME NEW s \in Stores, NEW d \in Docs, Save(s, d)
      PROVE  NoStrayTemp' /\ StrayInv'
  BY <1>2 DEF Save
<1>3. ASSUME NEW s \in Stores, NEW t \in TempNames, CreateTemp(s, t)
      PROVE  NoStrayTemp' /\ StrayInv'
  BY <1>3 DEF CreateTemp
<1>4. ASSUME NEW s \in Stores, CreateThrows(s) \/ WriteOrMoveThrows(s)
      PROVE  NoStrayTemp' /\ StrayInv'
  BY <1>4 DEF CreateThrows, WriteOrMoveThrows
<1>5. ASSUME NEW s \in Stores, Write(s)
      PROVE  NoStrayTemp' /\ StrayInv'
  BY <1>5 DEF Write
<1>6. ASSUME NEW s \in Stores, Move(s)
      PROVE  NoStrayTemp' /\ StrayInv'
  BY <1>6 DEF Move
<1>7. ASSUME NEW s \in Stores, Cleanup(s) \/ CleanupThrows(s)
      PROVE  NoStrayTemp' /\ StrayInv'
  BY <1>7 DEF Cleanup, CleanupThrows
<1>8. ASSUME NEW s \in Stores, Leave(s)
      PROVE  NoStrayTemp' /\ StrayInv'
  BY <1>8 DEF Leave
<1>9. CASE UNCHANGED vars
  BY <1>9 DEF vars
<1> QED
  BY <1>1, <1>2, <1>3, <1>4, <1>5, <1>6, <1>7, <1>8, <1>9 DEF Next

\* Only a crash or a failed delete leaves a temp file behind.
THEOREM TempsAreDeleted == Spec => []NoStrayTemp
<1>1. Init => NoStrayTemp /\ StrayInv
  BY DEF Init, NoStrayTemp, StrayInv
<1> QED
  BY <1>1, StrayStep, Invariants, PTL DEF Spec

-----------------------------------------------------------------------------
(* The refinement.                                                         *)

\* Every step is a step of AtomicDocument or leaves it alone.
LEMMA AbstractStep ==
  ASSUME TypeOK, IInv, TypeOK', IInv', [Next]_vars
  PROVE  [Abstract!Next]_(Abstract!vars)
<1> DEFINE ins == {s \in Stores : Installed(s)}
<1> USE JsonStoreAssumption DEF TypeOK, IInv, Goto, Abstract!vars
<1>1. CASE Crash
  <2>1. ins' = {}
    BY <1>1 DEF Crash, Installed
  <2>2. Abstract!Crash
    BY <1>1, <2>1 DEF Crash, Abstract!Crash
  <2> QED
    BY <2>2 DEF Abstract!Next
<1>2. ASSUME NEW s \in Stores, NEW d \in Docs, Save(s, d)
      PROVE  Abstract!Begin(s, d)
  <2>1. ins' = ins
    BY <1>2 DEF Save, Installed
  <2> QED
    BY <1>2, <2>1 DEF Save, Abstract!Begin
\* A step of a save that is under way may have installed its document.
<1>3. ASSUME NEW s \in Stores, UNCHANGED <<doc, outcome>>, doc[s] # None,
             \A r \in Stores \ {s} : pc'[r] = pc[r] /\ file'[r] = file[r],
             Installed(s) => Installed(s)' /\ file' = file,
             file' = file \/ Installed(s)'
      PROVE  [Abstract!Next]_(Abstract!vars)
  <2>1. CASE Installed(s) <=> Installed(s)'
    <3>1. ins' = ins
      BY <1>3, <2>1 DEF Installed
    <3>2. file' = file
      BY <1>3, <2>1
    <3> QED
      BY <1>3, <3>1, <3>2
  <2>2. CASE ~Installed(s) /\ Installed(s)'
    <3>1. ins' = ins \union {s}
      BY <1>3, <2>2 DEF Installed
    <3>2. file' = [file EXCEPT ![s] = doc[s]]
      BY <1>3, <2>2 DEF Installed
    <3>3. Abstract!Install(s)
      BY <1>3, <2>2, <3>1, <3>2 DEF Abstract!Install
    <3> QED
      BY <3>3 DEF Abstract!Next
  <2> QED
    BY <1>3, <2>1, <2>2
<1>4. ASSUME NEW s \in Stores, NEW t \in TempNames, CreateTemp(s, t)
      PROVE  [Abstract!Next]_(Abstract!vars)
  BY <1>3, <1>4 DEF CreateTemp, Installed
<1>5. ASSUME NEW s \in Stores,
             CreateThrows(s) \/ Write(s) \/ WriteOrMoveThrows(s) \/ Cleanup(s) \/ CleanupThrows(s)
      PROVE  [Abstract!Next]_(Abstract!vars)
  BY <1>3, <1>5 DEF CreateThrows, Write, WriteOrMoveThrows, Cleanup, CleanupThrows, Installed
<1>6. ASSUME NEW s \in Stores, Move(s)
      PROVE  [Abstract!Next]_(Abstract!vars)
  <2>1. temp[tmp[s]] = doc[s] /\ file'[s] = doc[s]
    BY <1>6 DEF Move
  <2> QED
    BY <1>3, <1>6, <2>1 DEF Move, Installed
<1>7. ASSUME NEW s \in Stores, Leave(s)
      PROVE  Abstract!Return(s) \/ Abstract!Throw(s)
  <2>1. ins' = ins \ {s}
    BY <1>7 DEF Leave, Installed
  <2>2. threw[s] \/ s \in ins
    BY <1>7 DEF Leave, Installed
  <2> QED
    BY <1>7, <2>1, <2>2 DEF Leave, Abstract!Return, Abstract!Throw, Abstract!Finish
<1>8. CASE UNCHANGED vars
  BY <1>8 DEF vars, Installed
<1> QED
  BY <1>1, <1>2, <1>4, <1>5, <1>6, <1>7, <1>8 DEF Next, Abstract!Next

\* JsonStore implements AtomicDocument.
THEOREM SaveIsAtomic == Spec => AtomicSave
<1>1. Init => Abstract!Init
  BY DEF Init, Abstract!Init, Installed
<1> QED
  BY <1>1, AbstractStep, Invariants, PTL DEF Spec, AtomicSave, Abstract!Spec

=============================================================================
