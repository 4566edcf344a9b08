----------------------------- MODULE NoteManager -----------------------------
(***************************************************************************)
(* contracts/note-manager.clar: the lifecycle of every shielded note.      *)
(* Authority and protocol state are the registry's; register-note also     *)
(* calls the registry's record-note-created.  Owner commitments, metadata  *)
(* and block heights, which nothing reads back, are left out.              *)
(***************************************************************************)
EXTENDS PrivacyRegistry

CONSTANT NoteManagerContract   \* the principal the contract calls others as

NOTE_STATE_ACTIVE     == 1
NOTE_STATE_SPENT      == 2
NOTE_STATE_WITHDRAWN  == 3
NOTE_STATE_FROZEN     == 4
NOTE_STATE_DEPRECATED == 5
NoteStates == 1..5

VARIABLES
  notes,            \* note id |-> [state, version]
  totalRegistered,  \* note-statistics.total-registered
  noteCounts        \* note state |-> the note-statistics counter of that state

noteVars == <<notes, totalRegistered, noteCounts>>

NotesInit ==
  /\ notes = EmptyMap
  /\ totalRegistered = 0
  /\ noteCounts = [s \in NoteStates |-> 0]

-----------------------------------------------------------------------------
(* Registration: register-note, and two of them in one transaction.        *)

NewNote(version) == [state |-> NOTE_STATE_ACTIVE, version |-> version]

RegisterNoteCall(caller, id, version) ==
  /\ CheckActive
  /\ IsProtocolCaller(caller)
  /\ id # ZeroHash
  /\ version = protocolVersions.note
  /\ id \notin DOMAIN notes
  /\ RecordNoteCreatedCall(NoteManagerContract)
  /\ notes' = MapSet(notes, id, NewNote(version))
  /\ totalRegistered' = totalRegistered + 1
  /\ noteCounts' = [noteCounts EXCEPT ![NOTE_STATE_ACTIVE] = @ + 1]

RegisterNotePairCall(caller, id1, id2, version) ==
  /\ CheckActive
  /\ IsProtocolCaller(caller)
  /\ id1 # ZeroHash /\ id2 # ZeroHash /\ id1 # id2
  /\ version = protocolVersions.note
  /\ id1 \notin DOMAIN notes /\ id2 \notin DOMAIN notes
  /\ RecordNotePairCreatedCall(NoteManagerContract)
  /\ notes' = MapSet(MapSet(notes, id1, NewNote(version)), id2, NewNote(version))
  /\ totalRegistered' = totalRegistered + 2
  /\ noteCounts' = [noteCounts EXCEPT ![NOTE_STATE_ACTIVE] = @ + 2]

-----------------------------------------------------------------------------
(* The note state machine.                                                 *)

IsValidNoteTransition(from, to) ==
  \/ from = NOTE_STATE_ACTIVE /\ to = NOTE_STATE_SPENT
  \/ from = NOTE_STATE_ACTIVE /\ to = NOTE_STATE_WITHDRAWN
  \/ from = NOTE_STATE_ACTIVE /\ to = NOTE_STATE_FROZEN
  \/ from = NOTE_STATE_FROZEN /\ to = NOTE_STATE_ACTIVE
  \/ from = NOTE_STATE_FROZEN /\ to = NOTE_STATE_DEPRECATED

\* Mutant of MoveNote: the counter of the old state is kept.
MoveNote_OneCounter(id, to) ==
  /\ IsValidNoteTransition(notes[id].state, to)
  /\ notes' = [notes EXCEPT ![id].state = to]
  /\ noteCounts' = [noteCounts EXCEPT ![to] = @ + 1]
  /\ UNCHANGED totalRegistered

\* The body every transition function shares: table, map-set, two counters.
MoveNote(id, to) ==
  /\ IsValidNoteTransition(notes[id].state, to)
  /\ notes' = [notes EXCEPT ![id].state = to]
  /\ noteCounts' = [noteCounts EXCEPT ![notes[id].state] = @ - 1, ![to] = @ + 1]
  /\ UNCHANGED totalRegistered

IsNoteAdmin(who) == IsAdmin(who, ROLE_EMERGENCY_ADMIN)

\* Mutant of SpendNote: the protocol state is not checked.
SpendNote_AnyState(caller) ==
  /\ IsProtocolCaller(caller)
  /\ \E id \in DOMAIN notes :
       notes[id].state = NOTE_STATE_ACTIVE /\ MoveNote(id, NOTE_STATE_SPENT)
  /\ UNCHANGED registryVars

SpendNote(caller) ==
  /\ CheckActive /\ IsProtocolCaller(caller)
  /\ \E id \in DOMAIN notes :
       notes[id].state = NOTE_STATE_ACTIVE /\ MoveNote(id, NOTE_STATE_SPENT)
  /\ UNCHANGED registryVars

WithdrawNote(caller) ==
  /\ CheckActive /\ IsProtocolCaller(caller)
  /\ \E id \in DOMAIN notes :
       notes[id].state = NOTE_STATE_ACTIVE /\ MoveNote(id, NOTE_STATE_WITHDRAWN)
  /\ UNCHANGED registryVars

FreezeNote(caller) ==
  /\ IsNoteAdmin(caller)
  /\ \E id \in DOMAIN notes : MoveNote(id, NOTE_STATE_FROZEN)
  /\ UNCHANGED registryVars

ReactivateNote(caller) ==
  /\ IsNoteAdmin(caller)
  /\ \E id \in DOMAIN notes : MoveNote(id, NOTE_STATE_ACTIVE)
  /\ UNCHANGED registryVars

DeprecateNote(caller) ==
  /\ IsOwner(caller)
  /\ \E id \in DOMAIN notes : MoveNote(id, NOTE_STATE_DEPRECATED)
  /\ UNCHANGED registryVars

-----------------------------------------------------------------------------
(* The note manager over a governed registry: protocol contracts call      *)
(* register-note, spend-note and withdraw-note in any order.               *)

RegisterNote(caller) ==
  /\ \E id \in Commitment, v \in VersionNumberInputs :
       RegisterNoteCall(caller, id, v)
  /\ UNCHANGED <<nonLedgerVars, commitmentVars, nullifierVars, rootVars, flowVars>>

NoteIncidentStep(caller) ==
  \/ FreezeNote(caller)
  \/ ReactivateNote(caller)
  \/ DeprecateNote(caller)

NotesStepBy(caller) ==
  \/ RegisterNote(caller)
  \/ SpendNote(caller)
  \/ WithdrawNote(caller)
  \/ NoteIncidentStep(caller)
  \/ GovernanceStep(caller) /\ UNCHANGED noteVars

NotesNext == \E caller \in Principals : NotesStepBy(caller)

NotesSpec ==
  RegistryInit /\ NotesInit /\ [][NotesNext]_<<registryVars, noteVars>>

-----------------------------------------------------------------------------
(* Properties.                                                             *)

\* Note records and counters hold values of their declared types.
NotesTypeOK ==
  /\ DOMAIN notes \subseteq Commitment \ {ZeroHash}
  /\ notes \in [DOMAIN notes -> [state : NoteStates, version : Nat]]
  /\ totalRegistered \in Nat
  /\ noteCounts \in [NoteStates -> Nat]

\* Every counter of note-statistics is the number of notes in that state, and
\* total-registered the number of notes: is-statistics-consistent never reports
\* false, after any history of freezes and reactivations.
NoteCountsExact ==
  /\ IsFiniteSet(DOMAIN notes)
  /\ totalRegistered = Cardinality(DOMAIN notes)
  /\ \A s \in NoteStates :
       noteCounts[s] = Cardinality({id \in DOMAIN notes : notes[id].state = s})

\* The ledger of notes is what its own statistics report.
NotesExact == NotesTypeOK /\ NoteCountsExact

\* The registry's total-notes, which gates capacity, and the manager's own
\* total-registered never drift apart: both are written in one transaction.
NoteTotalsAgree == totalNotes = totalRegistered

\* A spent, withdrawn or deprecated note never changes again, and no note is
\* ever deleted or changes version.
NoteEndsAreFinal ==
  [][ \A id \in DOMAIN notes :
        /\ id \in DOMAIN notes'
        /\ notes'[id].version = notes[id].version
        /\ notes[id].state \in {NOTE_STATE_SPENT, NOTE_STATE_WITHDRAWN,
                                NOTE_STATE_DEPRECATED}
             => notes'[id].state = notes[id].state ]_notes

\* Value is consumed only while the protocol is ACTIVE: in any other lifecycle
\* state notes can only be frozen, reactivated or deprecated.
NoConsumptionWhileHalted ==
  [][ protocolState # PROTOCOL_ACTIVE =>
        /\ DOMAIN notes' = DOMAIN notes
        /\ \A id \in DOMAIN notes :
             notes'[id].state \in {NOTE_STATE_SPENT, NOTE_STATE_WITHDRAWN}
               => notes[id].state = notes'[id].state ]_notes

\* What no call does to a note.
NoteMoves == NoteEndsAreFinal /\ NoConsumptionWhileHalted
=============================================================================
