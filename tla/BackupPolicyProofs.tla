-------------------------- MODULE BackupPolicyProofs --------------------------
(* What holds of policy publication for every catalog and every schedule.  *)
EXTENDS BackupPolicy, SequenceTheorems, TLAPS

\* Every transaction that writes modes leaves the publications, the relay and
\* the feedback alone, and either marks the policy or belongs to a sync.
LEMMA WritesMarkOrSync ==
  ASSUME TypeOK, CatalogWrite
  PROVE  /\ mode' \in [Repos -> Modes]
         /\ starred' \in [Repos -> BOOLEAN]
         /\ changes' \in Nat
         /\ UNCHANGED <<publications, relayVars, vaultVars, windows>>
         /\ \/ MarkDirty /\ UNCHANGED unmarked
            \/ UNCHANGED cursorVars /\ unmarked' = unmarked + 1
<1> USE DEF TypeOK, Modes, NoMode
<1>1. PICK r \in Repos : \/ TrackRepository(r) \/ IgnoreRepository(r)
                         \/ PersistStar(r) \/ PersistUnstar(r)
                         \/ SyncStar(r) \/ SyncUnstar(r)
  BY DEF CatalogWrite
<1>2. PICK m \in Modes : WriteMode(r, m)
  <2>1. mode[r] \in Modes
    OBVIOUS
  <2> QED
    BY <1>1, <2>1 DEF TrackRepository, IgnoreRepository, PersistStar, PersistUnstar,
                      SyncStar, SyncUnstar
<1>3. mode' \in [Repos -> Modes] /\ changes' \in Nat
  BY <1>2 DEF WriteMode
<1>4. starred' \in [Repos -> BOOLEAN]
  BY <1>1 DEF TrackRepository, IgnoreRepository, PersistStar, PersistUnstar,
              SyncStar, SyncUnstar
<1>5. UNCHANGED <<publications, relayVars, vaultVars, windows>>
  BY <1>2 DEF WriteMode
<1>6. \/ MarkDirty /\ UNCHANGED unmarked
      \/ UNCHANGED cursorVars /\ unmarked' = unmarked + 1
  BY <1>1 DEF TrackRepository, IgnoreRepository, PersistStar, PersistUnstar,
              SyncStar, SyncUnstar
<1> QED
  BY <1>3, <1>4, <1>5, <1>6

\* The desired state is a set of repositories.
LEMMA InputsType == LoadInputs \in SUBSET Repos
BY PolicyConstants DEF LoadInputs

\* A longer domain of versions or of decisions admits the same sequences.
LEMMA SeqWidens ==
  ASSUME NEW S, NEW T, S \subseteq T, NEW s \in Seq(S)
  PROVE  s \in Seq(T)
OBVIOUS

\* Every reachable state is well typed, and published_generation never passes
\* dirty_generation, as the table's check demands (schema.sql 510-518).
THEOREM PolicyTypeCorrect == Spec => []TypeOK
<1>1. Init => TypeOK
  BY DEF Init, TypeOK, Modes, NoMode, NothingYet
<1>2. TypeOK /\ [Next]_vars => TypeOK'
  <2> SUFFICES ASSUME TypeOK, [Next]_vars PROVE TypeOK'
    OBVIOUS
  <2> USE DEF TypeOK
  <2>1. CASE CatalogWrite
    <3>1. CASE MarkDirty
      BY <2>1, <3>1, WritesMarkOrSync DEF MarkDirty, vaultVars, relayVars
    <3>2. CASE UNCHANGED cursorVars
      BY <2>1, <3>2, WritesMarkOrSync DEF cursorVars, vaultVars, relayVars, history
    <3> QED
      BY <2>1, <3>1, <3>2, WritesMarkOrSync
  <2>2. CASE Elapse
    BY <2>2 DEF Elapse, catalogVars, vaultVars, relayVars, history
  <2>3. CASE LockCursor
    BY <2>3, InputsType DEF LockCursor, catalogVars, cursorVars, vaultVars, relayVars, history
  <2>4. CASE Unchanged
    BY <2>4, InputsType DEF Unchanged, Settle, catalogVars, vaultVars, relayVars, history
  <2>5. CASE Publish
    <3>1. publications' \in Seq(SUBSET Repos)
      BY <2>5, InputsType DEF Publish
    <3>2. decisions' \in Seq(1..version')
      BY <2>5, SeqWidens DEF Publish, Settle, vaultVars
    <3> QED
      BY <2>5, <3>1, <3>2, InputsType DEF Publish, Settle, catalogVars, vaultVars, relayVars, history
  <2>6. CASE PublishFails
    BY <2>6 DEF PublishFails, catalogVars, cursorVars, vaultVars, relayVars, history
  <2>7. CASE Restart
    BY <2>7 DEF Restart, catalogVars, cursorVars, vaultVars, relayVars, history
  <2>8. CASE \E v \in 1..version : VaultDecides(v)
    <3>1. PICK v \in 1..version : VaultDecides(v)
      BY <2>8
    <3>2. decisions' \in Seq(1..version') /\ DOMAIN decisions \subseteq DOMAIN decisions'
      BY <3>1 DEF VaultDecides, cursorVars
    <3>3. feedback' \in Seq(DOMAIN decisions')
      BY <3>1, <3>2, SeqWidens DEF VaultDecides
    <3> QED
      BY <3>1, <3>2, <3>3 DEF VaultDecides, catalogVars, cursorVars, relayVars, history
  <2>9. CASE \E d \in DOMAIN decisions : RecordAcknowledgment(d)
    BY <2>9 DEF RecordAcknowledgment, catalogVars, cursorVars, relayVars, history
  <2>10. CASE UNCHANGED vars
    BY <2>10 DEF vars, catalogVars, cursorVars, vaultVars, relayVars, history
  <2> QED
    BY <2>1, <2>2, <2>3, <2>4, <2>5, <2>6, <2>7, <2>8, <2>9, <2>10 DEF Next
<1> QED
  BY <1>1, <1>2, PTL DEF Spec

\* A pending change has a deadline and every publication spends one window.
WindowInv == TypeOK /\ WindowsAreSpent /\ OneVersionPerWindow

\* Bursts: there are never more versions than debounce windows that have run
\* out, whatever marks, failures and restarts happen in between
\* (mark_backup_policy_dirty_in_tx, publish_due_backup_policy, settle).
THEOREM OnePublicationPerWindow == Spec => []OneVersionPerWindow
<1>1. Init => WindowsAreSpent /\ OneVersionPerWindow
  BY DEF Init, WindowsAreSpent, OneVersionPerWindow
<1>2. WindowInv /\ [Next]_vars => (WindowsAreSpent /\ OneVersionPerWindow)'
  <2> SUFFICES ASSUME WindowInv, [Next]_vars
               PROVE  (WindowsAreSpent /\ OneVersionPerWindow)'
    OBVIOUS
  <2> USE DEF WindowInv, TypeOK, WindowsAreSpent, OneVersionPerWindow
  <2>1. CASE CatalogWrite
    <3>1. windows' = windows /\ relay' = relay
      BY <2>1, WritesMarkOrSync DEF relayVars
    <3>2. CASE MarkDirty
      BY <3>1, <3>2 DEF MarkDirty
    <3>3. CASE UNCHANGED cursorVars
      BY <3>1, <3>3 DEF cursorVars
    <3> QED
      BY <2>1, <3>2, <3>3, WritesMarkOrSync
  <2>2. CASE Elapse
    BY <2>2 DEF Elapse, relayVars
  <2>3. CASE LockCursor
    BY <2>3 DEF LockCursor, Due, cursorVars
  <2>4. CASE Unchanged
    BY <2>4 DEF Unchanged, Settle, history
  <2>5. CASE Publish
    BY <2>5 DEF Publish, Settle, history
  <2>6. CASE PublishFails \/ Restart
    BY <2>6 DEF PublishFails, Restart, cursorVars, history
  <2>7. CASE \E v \in 1..version : VaultDecides(v)
    BY <2>7 DEF VaultDecides, cursorVars, relayVars, history
  <2>8. CASE \E d \in DOMAIN decisions : RecordAcknowledgment(d)
    BY <2>8 DEF RecordAcknowledgment, cursorVars, relayVars, history
  <2>9. CASE UNCHANGED vars
    BY <2>9 DEF vars, cursorVars, relayVars, history
  <2> QED
    BY <2>1, <2>2, <2>3, <2>4, <2>5, <2>6, <2>7, <2>8, <2>9 DEF Next
<1> QED
  BY <1>1, <1>2, PolicyTypeCorrect, PTL DEF Spec, WindowInv

\* The cursor always names the newest publication, so versions are counted
\* without gaps and the comparison of fingerprints is with the newest document
\* (publish_due_backup_policy, settle).
THEOREM CursorIsFaithful == Spec => []CursorNamesLastPublication
<1>1. Init => CursorNamesLastPublication
  BY DEF Init, CursorNamesLastPublication
<1>2. TypeOK /\ CursorNamesLastPublication /\ [Next]_vars => CursorNamesLastPublication'
  <2> SUFFICES ASSUME TypeOK, CursorNamesLastPublication, [Next]_vars
               PROVE  CursorNamesLastPublication'
    OBVIOUS
  <2> USE DEF TypeOK, CursorNamesLastPublication
  <2>1. CASE UNCHANGED <<version, fingerprint, publications>>
    BY <2>1
  <2>2. CASE CatalogWrite
    BY <2>1, <2>2, WritesMarkOrSync DEF MarkDirty, cursorVars
  <2>3. CASE Unchanged
    BY <2>3 DEF Unchanged, Settle, SameAsLast
  <2>4. CASE Publish
    BY <2>4, InputsType DEF Publish, Settle
  <2>5. CASE Elapse \/ LockCursor \/ PublishFails \/ Restart
    BY <2>1, <2>5 DEF Elapse, LockCursor, PublishFails, Restart, cursorVars
  <2>6. CASE \E v \in 1..version : VaultDecides(v)
    BY <2>1, <2>6 DEF VaultDecides, cursorVars
  <2>7. CASE \E d \in DOMAIN decisions : RecordAcknowledgment(d)
    BY <2>1, <2>7 DEF RecordAcknowledgment, cursorVars
  <2>8. CASE UNCHANGED vars
    BY <2>1, <2>8 DEF vars, cursorVars
  <2> QED
    BY <2>2, <2>3, <2>4, <2>5, <2>6, <2>7, <2>8 DEF Next
<1> QED
  BY <1>1, <1>2, PolicyTypeCorrect, PTL DEF Spec

\* No marked change is lost: the publication under way holds a fresh state.
CurrencyInv == DesiredIsFresh /\ MarkedChangesArePublished

\* Apart from the modes that synchronization writes, no change is lost: when
\* nothing is marked, the last published state is the desired one, whatever
\* the writers, the publication and its failures do in between.
THEOREM NoMarkedChangeIsLost == Spec => []MarkedChangesArePublished
<1>1. Init => CurrencyInv
  BY PolicyConstants DEF Init, CurrencyInv, DesiredIsFresh, MarkedChangesArePublished,
                         LoadInputs, Governed, NoMode, NothingYet
<1>2. TypeOK /\ CurrencyInv /\ [Next]_vars => CurrencyInv'
  <2> SUFFICES ASSUME TypeOK, CurrencyInv, [Next]_vars
               PROVE  CurrencyInv'
    OBVIOUS
  <2> USE DEF TypeOK, CurrencyInv, DesiredIsFresh, MarkedChangesArePublished
  <2>1. CASE CatalogWrite
    <3>1. CASE MarkDirty
      BY <2>1, <3>1, WritesMarkOrSync DEF MarkDirty, relayVars
    <3>2. CASE unmarked' = unmarked + 1
      BY <3>2
    <3> QED
      BY <2>1, <3>1, <3>2, WritesMarkOrSync
  <2>2. CASE UNCHANGED <<mode, dirty, published, fingerprint, relay, desired, unmarked>>
    BY <2>2 DEF LoadInputs
  <2>3. CASE LockCursor
    <3>1. LoadInputs' = LoadInputs
      BY <2>3 DEF LockCursor, catalogVars, LoadInputs
    <3> QED
      BY <2>3, <3>1 DEF LockCursor, Due, cursorVars
  <2>4. CASE Unchanged \/ Publish
    <3>1. LoadInputs' = LoadInputs
      BY <2>4 DEF Unchanged, Publish, catalogVars, LoadInputs
    <3> QED
      BY <2>4, <3>1 DEF Unchanged, Publish, Settle, history
  <2>5. CASE PublishFails \/ Restart
    <3>1. LoadInputs' = LoadInputs
      BY <2>5 DEF PublishFails, Restart, catalogVars, LoadInputs
    <3> QED
      BY <2>5, <3>1 DEF PublishFails, Restart, cursorVars, history
  <2>6. CASE Elapse
    BY <2>2, <2>6 DEF Elapse, catalogVars, relayVars
  <2>7. CASE \E v \in 1..version : VaultDecides(v)
    BY <2>2, <2>7 DEF VaultDecides, catalogVars, cursorVars, relayVars, history
  <2>8. CASE \E d \in DOMAIN decisions : RecordAcknowledgment(d)
    BY <2>2, <2>8 DEF RecordAcknowledgment, catalogVars, cursorVars, relayVars, history
  <2>9. CASE UNCHANGED vars
    BY <2>2, <2>9 DEF vars, catalogVars, cursorVars, relayVars, history
  <2> QED
    BY <2>1, <2>3, <2>4, <2>5, <2>6, <2>7, <2>8, <2>9 DEF Next
<1> QED
  BY <1>1, <1>2, PolicyTypeCorrect, PTL DEF Spec, CurrencyInv
================================================================================
