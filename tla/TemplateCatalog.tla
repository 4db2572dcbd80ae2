-------------------------- MODULE TemplateCatalog --------------------------
(***************************************************************************)
(* Who knows which templates: the files on disk, the facade cell (the map  *)
(* it loaded last, and the copy its create core took when it started) and  *)
(* the template-catalog cell, the owner that GET /templates and the        *)
(* composition ask.  The facade hands the owner a whole set under a        *)
(* request id that is the digest of the set; snapshots are imported under  *)
(* ids of the importer's choice; the owner remembers every id it answered. *)
(*                                                                         *)
(* A request that changes nothing (a replay, a refusal, a read) is a       *)
(* stuttering step, except where the facade's copy changes with it.        *)
(***************************************************************************)
EXTENDS Integers, FiniteSets

CONSTANTS
    None,           \* no snapshot; an id without an answer
    TemplateSets,   \* what the disk may hold: sets of [name, game, body]
    ImportID,       \* request ids of importers
    MaxFaults,      \* bound of the model: crashes, restarts, lost answers
    MaxRevision     \* bound of the model: highest revision that is imported

ASSUME CatalogAssumption ==
    /\ {} \in TemplateSets
    /\ None \notin TemplateSets
    /\ TemplateSets \cap ImportID = {}
    /\ MaxFaults \in Nat /\ MaxRevision \in Nat

RequestID == TemplateSets \cup ImportID

VARIABLES
    disk,      \* the templates directory
    up,        \* whether the facade serves
    hot, boot, \* its templates: reloaded last, and the create core's copy
    owner,     \* the owner's memory: revision, entries and answered requests
    snapshot,  \* the snapshot the host keeps
    faults,
    accepted,  \* history: sets an owner has ever accepted from the facade
    lineage    \* history: what this owner served, by revision, since its start
               \* or its last import

vars == <<disk, up, hot, boot, owner, snapshot, faults, accepted, lineage>>

NewOwner == [revision |-> 0, entries |-> {}, requests |-> [i \in RequestID |-> None]]

Valid(set) ==
    /\ \A e \in set : e.game # ""
    /\ \A e, f \in set : e.name = f.name => e = f

\* Mutant of Accepts: the entries are not validated.
AcceptsAny(id, set) == owner.requests[id] \in {None, set}

\* Whether the owner answers without an error.
Accepts(id, set) == Valid(set) /\ owner.requests[id] \in {None, set}

\* Mutants of Answered: the set is merged into the one that is there; the
\* revision stays.
Merged(id, set, revision) ==
    IF owner.requests[id] # None THEN owner
    ELSE [revision |-> revision,
          entries  |-> owner.entries \cup set,
          requests |-> [owner.requests EXCEPT ![id] = set]]

Unnumbered(id, set, revision) ==
    IF owner.requests[id] # None THEN owner
    ELSE [revision |-> owner.revision,
          entries  |-> set,
          requests |-> [owner.requests EXCEPT ![id] = set]]

\* The owner after an accepted request; a replay finds and leaves the catalog
\* as it is now.
Answered(id, set, revision) ==
    IF owner.requests[id] # None THEN owner
    ELSE [revision |-> revision,
          entries  |-> set,
          requests |-> [owner.requests EXCEPT ![id] = set]]

Fault ==
    /\ faults < MaxFaults
    /\ faults' = faults + 1

Edit ==
    /\ disk' \in TemplateSets
    /\ UNCHANGED <<up, hot, boot, owner, snapshot, faults, accepted, lineage>>

\* synchronizeTemplateCatalog: the owner takes the set under its digest.
Synchronize ==
    /\ Accepts(disk, disk)
    /\ owner' = Answered(disk, disk, owner.revision + 1)
    /\ accepted' = accepted \cup {disk}
    /\ lineage' = lineage \cup {<<owner'.revision, owner'.entries>>}

\* The facade starts; it does not when the owner refuses.
Boot ==
    /\ ~up
    /\ Synchronize
    /\ up' = TRUE /\ hot' = disk /\ boot' = disk
    /\ UNCHANGED <<disk, snapshot, faults>>

\* Mutant: the facade takes the templates before it has the owner's answer.
ReloadFirst ==
    /\ up
    /\ hot' = disk
    /\ Synchronize \/ (~Accepts(disk, disk) /\ UNCHANGED <<owner, accepted, lineage>>)
    /\ UNCHANGED <<disk, up, boot, snapshot, faults>>

\* POST /admin/reload-templates, answered 200.
Reload ==
    /\ up
    /\ Synchronize
    /\ hot' = disk
    /\ UNCHANGED <<disk, up, boot, snapshot, faults>>

\* The owner's answer is lost; the facade reports a failure, or crashes, or
\* fails to start.
AnswerLost ==
    /\ Fault
    /\ Synchronize
    /\ up' \in {FALSE, up}
    /\ UNCHANGED <<disk, hot, boot, snapshot>>

FacadeCrash ==
    /\ up /\ Fault
    /\ up' = FALSE
    /\ UNCHANGED <<disk, hot, boot, owner, snapshot, accepted, lineage>>

\* The owner's state is its memory.
OwnerRestart ==
    /\ Fault
    /\ owner' = NewOwner
    /\ lineage' = {<<0, {}>>}
    /\ UNCHANGED <<disk, up, hot, boot, snapshot, accepted>>

Export ==
    /\ owner.revision =< MaxRevision
    /\ snapshot' = [revision |-> owner.revision, entries |-> owner.entries]
    /\ UNCHANGED <<disk, up, hot, boot, owner, faults, accepted, lineage>>

Import(id) ==
    /\ snapshot # None
    /\ Accepts(id, snapshot.entries)
    /\ owner.requests[id] = None
    /\ owner' = Answered(id, snapshot.entries, snapshot.revision)
    /\ lineage' = {<<owner'.revision, owner'.entries>>}
    /\ UNCHANGED <<disk, up, hot, boot, snapshot, faults, accepted>>

Init ==
    /\ disk \in TemplateSets
    /\ up = FALSE /\ hot = {} /\ boot = {}
    /\ owner = NewOwner /\ snapshot = None
    /\ faults = 0
    /\ accepted = {} /\ lineage = {<<0, {}>>}

Next ==
    \/ Edit \/ Boot \/ Reload \/ AnswerLost \/ FacadeCrash \/ OwnerRestart \/ Export
    \/ \E id \in ImportID : Import(id)

Spec == Init /\ [][Next]_vars

-----------------------------------------------------------------------------
\* Every variable keeps its type; the catalog is one that passed the checks of
\* validateEntries.
TypeOK ==
    /\ disk \in TemplateSets /\ hot \in TemplateSets /\ boot \in TemplateSets
    /\ up \in BOOLEAN
    /\ owner.revision \in Nat /\ Valid(owner.entries)
    /\ owner.requests \in [RequestID -> TemplateSets \cup {None}]
    /\ snapshot = None \/ snapshot.revision \in 0 .. MaxRevision
    /\ faults \in 0 .. MaxFaults
    /\ accepted \subseteq TemplateSets

\* What the owner serves is one set that was valid and on disk as a whole, and
\* the last one bound to some id: never parts of two, never a refused one.
ServesOneLoad ==
    owner.revision > 0 => \E id \in RequestID : owner.requests[id] = owner.entries

\* Between imports, a revision number names one catalog.
RevisionNamesCatalog ==
    \A s, t \in lineage : s[1] = t[1] => s[2] = t[2]

\* The facade never works with templates an owner has not accepted.
NeverAhead == up => {hot, boot} \subseteq accepted
=============================================================================
