----------------------- MODULE TemplateCatalogProofs -----------------------
(***************************************************************************)
(* Theorems about TemplateCatalog, for every choice of template sets and   *)
(* import ids and any number of faults.                                    *)
(*                                                                         *)
(* The argument: whatever reaches the owner goes through Answered, so one  *)
(* lemma says what a request makes of it.  The numbers it served since its *)
(* start or its last import lie below its revision (Served), which is why  *)
(* the next one is new.                                                    *)
(***************************************************************************)
EXTENDS TemplateCatalog, TLAPS

Catalogs == {set \in TemplateSets : Valid(set)}
Owners == [revision : Nat, entries : Catalogs, requests : [RequestID -> TemplateSets \cup {None}]]

Typed ==
    /\ disk \in TemplateSets /\ hot \in TemplateSets /\ boot \in TemplateSets
    /\ up \in BOOLEAN
    /\ owner \in Owners
    /\ snapshot = None \/ snapshot \in [revision : 0 .. MaxRevision, entries : Catalogs]
    /\ faults \in 0 .. MaxFaults
    /\ accepted \subseteq TemplateSets

Served ==
    /\ lineage \subseteq (0 .. owner.revision) \X Catalogs
    /\ <<owner.revision, owner.entries>> \in lineage

IInv == Typed /\ Served /\ ServesOneLoad /\ RevisionNamesCatalog /\ NeverAhead

\* What an accepted request makes of the owner.
LEMMA AnsweredEffect ==
    ASSUME owner \in Owners, ServesOneLoad,
           NEW id \in RequestID, NEW set \in TemplateSets, NEW revision \in Nat,
           Accepts(id, set), owner' = Answered(id, set, revision)
    PROVE  /\ owner' \in Owners
           /\ ServesOneLoad'
           /\ owner' = owner \/ owner'.revision = revision
<1>1. CASE owner.requests[id] # None
  BY <1>1 DEF Answered, ServesOneLoad
<1>2. CASE owner.requests[id] = None
  <2>1. owner' = [revision |-> revision, entries |-> set, requests |-> [owner.requests EXCEPT ![id] = set]]
    BY <1>2 DEF Answered
  <2>2. set \in Catalogs
    BY DEF Accepts, Catalogs
  <2>3. owner'.requests \in [RequestID -> TemplateSets \cup {None}] /\ owner'.requests[id] = set
    BY <2>1 DEF Owners
  <2>4. owner' \in Owners
    BY <2>1, <2>2, <2>3 DEF Owners
  <2>5. ServesOneLoad'
    BY <2>1, <2>3 DEF ServesOneLoad
  <2>6. QED
    BY <2>1, <2>4, <2>5
<1>3. QED
  BY <1>1, <1>2

\* The facade's set has been accepted, under a number nobody has seen.
LEMMA SynchronizeEffect ==
    ASSUME IInv, Synchronize
    PROVE  /\ owner' \in Owners /\ ServesOneLoad' /\ Served' /\ RevisionNamesCatalog'
           /\ disk \in accepted' /\ accepted \subseteq accepted' /\ accepted' \subseteq TemplateSets
<1>1. owner \in Owners /\ disk \in RequestID /\ disk \in TemplateSets /\ owner.revision + 1 \in Nat
  BY DEF IInv, Typed, RequestID, Owners
<1>2. /\ owner' = Answered(disk, disk, owner.revision + 1)
      /\ accepted' = accepted \cup {disk}
      /\ lineage' = lineage \cup {<<owner'.revision, owner'.entries>>}
  BY DEF Synchronize
<1>3. /\ owner' \in Owners /\ ServesOneLoad'
      /\ owner' = owner \/ owner'.revision = owner.revision + 1
  BY <1>1, <1>2, AnsweredEffect DEF IInv, Synchronize
<1>4. owner.revision \in Nat /\ owner'.revision \in Nat /\ owner'.entries \in Catalogs
  BY <1>1, <1>3 DEF Owners
<1>5. Served'
  <2>1. owner.revision =< owner'.revision
    BY <1>3, <1>4
  <2>2. (0 .. owner.revision) \X Catalogs \subseteq (0 .. owner'.revision) \X Catalogs
    BY <1>4, <2>1
  <2>3. QED
    BY <1>2, <1>4, <2>2 DEF IInv, Served
<1>6. RevisionNamesCatalog'
  <2>1. CASE owner' = owner
    BY <1>2, <2>1 DEF IInv, Served, RevisionNamesCatalog
  <2>2. CASE owner'.revision = owner.revision + 1
    <3>1. \A s \in lineage : s[1] # owner'.revision
      BY <1>4, <2>2 DEF IInv, Served
    <3>2. QED
      BY <1>2, <3>1 DEF IInv, RevisionNamesCatalog
  <2>3. QED
    BY <1>3, <2>1, <2>2
<1>7. QED
  BY <1>1, <1>2, <1>3, <1>5, <1>6 DEF IInv, Typed

LEMMA InitEstablishes == Init => IInv
<1> SUFFICES ASSUME Init PROVE IInv
  OBVIOUS
<1>1. {} \in Catalogs
  BY CatalogAssumption DEF Catalogs, Valid
<1>2. NewOwner \in Owners
  BY <1>1 DEF NewOwner, Owners
<1>3. Typed
  <2>1. 0 \in 0 .. MaxFaults
    BY CatalogAssumption
  <2>2. QED
    BY <1>2, <2>1, CatalogAssumption DEF Init, Typed
<1>4. Served /\ ServesOneLoad /\ RevisionNamesCatalog /\ NeverAhead
  BY <1>1 DEF Init, NewOwner, Served, ServesOneLoad, RevisionNamesCatalog, NeverAhead
<1>5. QED
  BY <1>3, <1>4 DEF IInv

LEMMA StepPreserves == IInv /\ [Next]_vars => IInv'
<1> SUFFICES ASSUME IInv, [Next]_vars PROVE IInv'
  OBVIOUS
<1>1. CASE Edit
  BY <1>1 DEF Edit, IInv, Typed, Served, ServesOneLoad, RevisionNamesCatalog, NeverAhead
<1>2. CASE Boot
  <2>1. Typed' /\ NeverAhead'
    BY <1>2, SynchronizeEffect DEF Boot, IInv, Typed, NeverAhead
  <2>2. QED
    BY <1>2, <2>1, SynchronizeEffect DEF Boot, IInv
<1>3. CASE Reload
  <2>1. Typed' /\ NeverAhead'
    BY <1>3, SynchronizeEffect DEF Reload, IInv, Typed, NeverAhead
  <2>2. QED
    BY <1>3, <2>1, SynchronizeEffect DEF Reload, IInv
<1>4. ASSUME Fault PROVE faults' \in 0 .. MaxFaults
  BY <1>4, CatalogAssumption DEF Fault, IInv, Typed
<1>5. CASE AnswerLost
  <2>1. /\ owner' \in Owners
        /\ accepted \subseteq accepted' /\ accepted' \subseteq TemplateSets
    BY <1>5, SynchronizeEffect DEF AnswerLost
  <2>2. up' = FALSE \/ up' = up
    BY <1>5 DEF AnswerLost
  <2>3. UNCHANGED <<disk, hot, boot, snapshot>> /\ faults' \in 0 .. MaxFaults
    BY <1>4, <1>5 DEF AnswerLost
  <2>4. Typed'
    BY <2>1, <2>2, <2>3 DEF IInv, Typed
  <2>5. NeverAhead'
    BY <2>1, <2>2, <2>3 DEF IInv, NeverAhead
  <2>6. QED
    BY <1>5, <2>4, <2>5, SynchronizeEffect DEF AnswerLost, IInv
<1>6. CASE FacadeCrash
  BY <1>4, <1>6 DEF FacadeCrash, IInv, Typed, Served, ServesOneLoad, RevisionNamesCatalog, NeverAhead
<1>7. CASE OwnerRestart
  <2>1. {} \in Catalogs
    BY CatalogAssumption DEF Catalogs, Valid
  <2>2. owner' = NewOwner /\ owner' \in Owners
    BY <1>7, <2>1 DEF OwnerRestart, NewOwner, Owners
  <2>3. Typed'
    BY <1>4, <1>7, <2>2 DEF OwnerRestart, IInv, Typed
  <2>4. Served' /\ ServesOneLoad' /\ RevisionNamesCatalog' /\ NeverAhead'
    BY <1>7, <2>1 DEF OwnerRestart, NewOwner, IInv, Served, ServesOneLoad, RevisionNamesCatalog, NeverAhead
  <2>5. QED
    BY <2>3, <2>4 DEF IInv
<1>8. CASE Export
  <2>1. owner.revision \in 0 .. MaxRevision /\ owner.entries \in Catalogs
    BY <1>8, CatalogAssumption DEF Export, IInv, Typed, Owners
  <2>2. Typed'
    BY <1>8, <2>1 DEF Export, IInv, Typed
  <2>3. QED
    BY <1>8, <2>2 DEF Export, IInv, Served, ServesOneLoad, RevisionNamesCatalog, NeverAhead
<1>9. ASSUME NEW id \in ImportID, Import(id) PROVE IInv'
  <2>1. /\ owner \in Owners /\ id \in RequestID
        /\ snapshot.entries \in TemplateSets /\ snapshot.revision \in Nat
    BY <1>9, CatalogAssumption DEF Import, IInv, Typed, RequestID, Catalogs
  <2>2. owner' \in Owners /\ ServesOneLoad'
    BY <1>9, <2>1, AnsweredEffect DEF Import, IInv
  <2>3. Typed' /\ NeverAhead'
    BY <1>9, <2>2 DEF Import, IInv, Typed, NeverAhead
  <2>4. lineage' = {<<owner'.revision, owner'.entries>>}
    BY <1>9 DEF Import
  <2>5. Served'
    BY <2>2, <2>4 DEF Served, Owners
  <2>6. RevisionNamesCatalog'
    BY <2>4 DEF RevisionNamesCatalog
  <2>7. QED
    BY <2>2, <2>3, <2>5, <2>6 DEF IInv
<1>10. CASE UNCHANGED vars
  BY <1>10 DEF vars, IInv, Typed, Served, ServesOneLoad, RevisionNamesCatalog, NeverAhead
<1>11. QED
  BY <1>1, <1>2, <1>3, <1>5, <1>6, <1>7, <1>8, <1>9, <1>10 DEF Next

\* The invariant holds in every reachable state.
THEOREM CatalogTheorem == Spec => []IInv
<1>1. QED
  BY InitEstablishes, StepPreserves, PTL DEF Spec

\* Every variable keeps its type, and the catalog passes the owner's checks.
THEOREM TypeCorrect == Spec => []TypeOK
<1>1. IInv => TypeOK
  BY DEF IInv, Typed, Owners, Catalogs, TypeOK
<1>2. QED
  BY <1>1, CatalogTheorem, PTL

\* What the owner serves is the set last bound to some id, as a whole.
THEOREM ServesOneLoadTheorem == Spec => []ServesOneLoad
<1>1. IInv => ServesOneLoad
  BY DEF IInv
<1>2. QED
  BY <1>1, CatalogTheorem, PTL

\* Between two imports a revision names one catalog, however often the facade
\* and the owner crash and answers are lost.
THEOREM RevisionNamesCatalogTheorem == Spec => []RevisionNamesCatalog
<1>1. IInv => RevisionNamesCatalog
  BY DEF IInv
<1>2. QED
  BY <1>1, CatalogTheorem, PTL

\* The facade works only with templates an owner has accepted.
THEOREM NeverAheadTheorem == Spec => []NeverAhead
<1>1. IInv => NeverAhead
  BY DEF IInv
<1>2. QED
  BY <1>1, CatalogTheorem, PTL
=============================================================================
