-------------------------- MODULE GameWorkerProofs --------------------------
(***************************************************************************)
(* Theorems about GameWorker, for every set of keys and requests and any   *)
(* number of tasks and lives.                                              *)
(*                                                                         *)
(* The argument: a job is never removed in its life (Ledger), so a key     *)
(* that is new has no task of this life, and one with an answer or a saved *)
(* job had its task in an earlier one.  Whatever holds an end of a key -   *)
(* its job, the snapshot, a caller - holds the same one (Agreed).          *)
(***************************************************************************)
EXTENDS GameWorker, FiniteSetTheorems, TLAPS

\* The host numbers its tasks from one.
Numbered == \E n \in 0 .. MaxTasks : DOMAIN tasks = 1 .. n

Task(k) == [life |-> life, number |-> jobs[k].task, key |-> k, request |-> jobs[k].request]

\* The result is that of a task that was started for the key.
IsOwn(job, k) == job.result # None => \E r \in Body : job.result \in ResultsOf(k, r)

Ledger ==
    /\ \A t \in started : t.life = life => Known(t.key)
    /\ \A k \in Key :
          /\ Known(k) /\ jobs[k].request # None =>
                /\ Task(k) \in started
                /\ jobs[k].job.result \in {None, [life |-> life, number |-> jobs[k].task]}
          /\ IsPending(k) => jobs[k].request # None /\ jobs[k].job = Pending
          /\ Known(k) \/ saved[k] # None \/ told[k] # {} => \E t \in started : t.key = k
          /\ Known(k) => IsOwn(jobs[k].job, k)
          /\ saved[k] # None => IsOwn(saved[k], k)
          /\ \A j \in told[k] : IsOwn(j, k)

\* The ends of a key that anybody holds.
Ends(k) ==
    told[k] \cup ({saved[k]} \ {None}) \cup (IF Known(k) /\ ~IsPending(k) THEN {jobs[k].job} ELSE {})

Agreed ==
    \A k \in Key \ rerun :
        /\ \A i, j \in Ends(k) : i = j
        /\ IsPending(k) => Ends(k) = {}

IInv == TypeOK /\ Numbered /\ OneTaskPerKey /\ Ledger /\ Agreed

LEMMA InitEstablishes == Init => IInv
<1> SUFFICES ASSUME Init PROVE IInv
  OBVIOUS
<1> USE DEF Init
<1>1. Numbered
  <2>1. DOMAIN tasks = 1 .. 0
    OBVIOUS
  <2>2. 0 \in 0 .. MaxTasks
    BY WorkerAssumption
  <2>3. QED
    BY <2>1, <2>2 DEF Numbered
<1>2. TypeOK
  BY WorkerAssumption DEF TypeOK, IsPending, Known
<1>3. OneTaskPerKey /\ Ledger /\ Agreed
  BY DEF OneTaskPerKey, Ledger, Agreed, Known, IsPending, Ends
<1>4. QED
  BY <1>1, <1>2, <1>3 DEF IInv

\* The host's next number.
LEMMA NextNumber ==
    ASSUME Numbered
    PROVE  LET n == Cardinality(DOMAIN tasks) + 1 IN
              n \in Nat \ {0} /\ DOMAIN tasks = 1 .. n - 1
<1>1. PICK n \in 0 .. MaxTasks : DOMAIN tasks = 1 .. n
  BY DEF Numbered
<1>2. Cardinality(1 .. n) = n
  BY FS_Interval
<1>3. QED
  BY <1>1, <1>2, WorkerAssumption

LEMMA SubmitStep ==
    ASSUME IInv, NEW k \in Key, NEW r \in Body, Submit(k, r)
    PROVE  IInv'
<1> DEFINE n == Cardinality(DOMAIN tasks) + 1
           new == [life |-> life, number |-> n, key |-> k, request |-> r]
           own == [request |-> r, task |-> n, job |-> Pending]
<1>1. n \in 1 .. MaxTasks /\ DOMAIN tasks = 1 .. n - 1
  BY NextNumber, WorkerAssumption DEF IInv, Submit
<1>2. /\ tasks' = [i \in 1 .. n |-> IF i = n THEN "running" ELSE tasks[i]]
      /\ jobs' = [jobs EXCEPT ![k] = own]
      /\ rerun' = IF \E t \in started : t.key = k /\ t.life < life THEN rerun \cup {k} ELSE rerun
      /\ started' = started \cup {new}
      /\ UNCHANGED <<life, saved, told>>
      /\ ~Known(k)
  BY DEF Submit, IsNew
<1> HIDE DEF n
<1>3. own \in Owned /\ own # None /\ Pending \in Job /\ Pending # None
  BY <1>1, WorkerAssumption DEF Owned, Pending, Job
<1>4. jobs' [k] = own /\ \A l \in Key \ {k} : jobs'[l] = jobs[l]
  BY <1>2 DEF IInv, TypeOK
<1>5. Numbered'
  BY <1>1, <1>2 DEF Numbered
<1>6. TypeOK'
  <2>1. jobs' \in [Key -> Owned \cup {None}]
    BY <1>2, <1>3 DEF IInv, TypeOK
  <2>2. DOMAIN tasks' \subseteq 1 .. MaxTasks
    BY <1>1, <1>2, WorkerAssumption
  <2>3. \A i \in DOMAIN tasks' : tasks'[i] \in {"running", "completed", "failed", "cancelled"}
    BY <1>1, <1>2 DEF IInv, TypeOK
  <2>4. \A l \in Key : IsPending(l)' => jobs'[l].task \in DOMAIN tasks'
    BY <1>1, <1>2, <1>4 DEF IInv, TypeOK, IsPending, Known
  <2>5. new \in [life : 1 .. life, number : 1 .. MaxTasks, key : Key, request : Body]
    BY <1>1, WorkerAssumption DEF IInv, TypeOK
  <2>6. QED
    BY <1>2, <2>1, <2>2, <2>3, <2>4, <2>5 DEF IInv, TypeOK
<1>7. \A t \in started : t.key = k => t.life < life
  <2> SUFFICES ASSUME NEW t \in started, t.key = k PROVE t.life < life
    OBVIOUS
  <2>1. t.life \in 1 .. life /\ life \in Nat
    BY WorkerAssumption DEF IInv, TypeOK
  <2>2. t.life # life
    BY <1>2 DEF IInv, Ledger
  <2>3. QED
    BY <2>1, <2>2
<1>8. OneTaskPerKey'
  BY <1>2, <1>7, WorkerAssumption DEF IInv, TypeOK, OneTaskPerKey
<1>9. Ledger'
  <2>1. \A t \in started' : t.life = life' => Known(t.key)'
    BY <1>2, <1>3, <1>4 DEF IInv, TypeOK, Ledger, Known
  <2>2. ASSUME NEW j, NEW l \in Key, IsOwn(j, l)
        PROVE  IsOwn(j, l)'
    BY <1>2, <2>2 DEF IsOwn, ResultsOf
  <2>3. ASSUME NEW l \in Key
        PROVE  /\ Known(l)' /\ jobs'[l].request # None =>
                     /\ Task(l)' \in started'
                     /\ jobs'[l].job.result \in {None, [life |-> life, number |-> jobs'[l].task]}
               /\ IsPending(l)' => jobs'[l].request # None /\ jobs'[l].job = Pending
               /\ Known(l)' => IsOwn(jobs[l].job, l)'
    <3>1. CASE l = k
      BY <1>2, <1>3, <1>4, <3>1, WorkerAssumption DEF Task, IsPending, Known, Pending, IsOwn
    <3>2. CASE l # k
      BY <1>2, <1>4, <2>2, <3>2 DEF IInv, Ledger, Task, IsPending, Known
    <3>3. QED
      BY <3>1, <3>2
  <2>4. ASSUME NEW l \in Key
        PROVE  Known(l)' \/ saved'[l] # None \/ told'[l] # {} => \E t \in started' : t.key = l
    <3>1. CASE l = k
      <4>1. new \in started' /\ new.key = l
        BY <1>2, <3>1
      <4>2. QED
        BY <4>1
    <3>2. CASE l # k
      BY <1>2, <1>4, <3>2 DEF IInv, Ledger, Known
    <3>3. QED
      BY <3>1, <3>2
  <2>5. ASSUME NEW l \in Key
        PROVE  /\ saved'[l] # None => IsOwn(saved[l], l)'
               /\ \A j \in told'[l] : IsOwn(j, l)'
    BY <1>2, <2>2 DEF IInv, Ledger
  <2>6. QED
    BY <1>2, <2>1, <2>3, <2>4, <2>5 DEF Ledger
<1>10. Agreed'
  <2> SUFFICES ASSUME NEW l \in Key \ rerun'
               PROVE  /\ \A i, j \in Ends(l)' : i = j
                      /\ IsPending(l)' => Ends(l)' = {}
    BY DEF Agreed
  <2>1. l \notin rerun
    BY <1>2
  <2>2. CASE l = k
    <3>1. ~\E t \in started : t.key = k
      BY <1>2, <1>7, <2>2
    <3>2. saved[k] = None /\ told[k] = {}
      BY <3>1 DEF IInv, Ledger
    <3>3. IsPending(k)'
      BY <1>3, <1>4 DEF IsPending, Known, Pending
    <3>4. Ends(k)' = {}
      BY <1>2, <3>2, <3>3 DEF Ends
    <3>5. QED
      BY <2>2, <3>4
  <2>3. CASE l # k
    BY <1>2, <1>4, <2>1, <2>3 DEF IInv, Agreed, Ends, IsPending, Known
  <2>4. QED
    BY <2>2, <2>3
<1>11. QED
  BY <1>5, <1>6, <1>8, <1>9, <1>10 DEF IInv

\* A caller is told the job a key has, which has settled.
LEMMA TellStep ==
    ASSUME IInv, NEW k \in Key, Known(k), ~IsPending(k),
           Tell(k, jobs[k].job), UNCHANGED <<jobs, tasks, life, saved, started, rerun>>
    PROVE  IInv'
<1>1. told' = [told EXCEPT ![k] = @ \cup {jobs[k].job}]
  BY DEF IInv, TypeOK, Tell, Owned, Job, Known, IsPending
<1>2. jobs[k].job \in Job
  BY DEF IInv, TypeOK, Owned, Known
<1>3. Numbered' /\ OneTaskPerKey'
  BY DEF IInv, Numbered, OneTaskPerKey
<1>4. TypeOK'
  BY <1>1, <1>2 DEF IInv, TypeOK, IsPending, Known
<1>5. Ledger'
  <2>1. \A j : \A l \in Key : IsOwn(j, l)' <=> IsOwn(j, l)
    BY DEF IsOwn, ResultsOf
  <2>2. \A l \in Key : told'[l] = IF l = k THEN told[k] \cup {jobs[k].job} ELSE told[l]
    BY <1>1 DEF IInv, TypeOK
  <2>3. \A l \in Key : \A j \in told'[l] : IsOwn(j, l)'
    BY <2>1, <2>2 DEF IInv, Ledger
  <2>4. \A l \in Key : told'[l] # {} => told[l] # {} \/ Known(l)
    BY <2>2
  <2>5. \A l \in Key : told'[l] # {} => \E t \in started' : t.key = l
    BY <2>4 DEF IInv, Ledger
  <2>6. QED
    BY <2>1, <2>3, <2>5 DEF IInv, Ledger, Task, Known, IsPending
<1>6. \A l \in Key : Ends(l)' = Ends(l)
  BY <1>1 DEF IInv, TypeOK, Ends, Known, IsPending
<1>7. Agreed'
  BY <1>6 DEF IInv, Agreed, IsPending, Known
<1>8. QED
  BY <1>3, <1>4, <1>5, <1>7 DEF IInv

\* A pending job comes to an end, and the caller is told, or not yet.
LEMMA SettleStep ==
    ASSUME IInv, NEW k \in Key, IsPending(k),
           NEW job \in Job, job.state \in Terminal,
           job.result \in {None, [life |-> life, number |-> jobs[k].task]},
           jobs' = [jobs EXCEPT ![k].job = job],
           Tell(k, job),
           DOMAIN tasks' = DOMAIN tasks,
           \A n \in DOMAIN tasks' : tasks'[n] \in {"running", "completed", "failed", "cancelled"},
           UNCHANGED <<life, saved, started, rerun>>
    PROVE  IInv'
<1>1. told' = [told EXCEPT ![k] = @ \cup {job}]
  BY DEF Tell
<1>2. jobs[k] \in Owned /\ jobs[k] # None
  BY DEF IInv, TypeOK, IsPending, Known
<1>3. /\ jobs'[k] = [jobs[k] EXCEPT !.job = job]
      /\ \A l \in Key \ {k} : jobs'[l] = jobs[l]
      /\ jobs'[k] \in Owned /\ jobs'[k] # None
      /\ jobs'[k].job = job /\ jobs'[k].request = jobs[k].request /\ jobs'[k].task = jobs[k].task
  BY <1>2, WorkerAssumption DEF IInv, TypeOK, Owned
<1>4. ~IsPending(k)' /\ Known(k)'
  BY <1>3 DEF IsPending, Known, Terminal
<1>5. Numbered' /\ OneTaskPerKey'
  BY DEF IInv, Numbered, OneTaskPerKey
<1>6. TypeOK'
  <2>1. jobs' \in [Key -> Owned \cup {None}]
    BY <1>3 DEF IInv, TypeOK
  <2>2. \A l \in Key : IsPending(l)' => jobs'[l].task \in DOMAIN tasks'
    BY <1>3, <1>4 DEF IInv, TypeOK, IsPending, Known
  <2>3. told' \in [Key -> SUBSET Job]
    BY <1>1 DEF IInv, TypeOK
  <2>4. QED
    BY <2>1, <2>2, <2>3 DEF IInv, TypeOK
<1>7. Ledger'
  <2>1. \A j : \A l \in Key : IsOwn(j, l)' <=> IsOwn(j, l)
    BY DEF IsOwn, ResultsOf
  <2>2. jobs[k].request # None /\ Task(k) \in started
    BY <1>2 DEF IInv, Ledger, Known
  <2>3. Task(k)' = Task(k)
    BY <1>3 DEF Task
  <2>4. IsOwn(job, k)
    <3>1. jobs[k].request \in Body
      BY <1>2, <2>2 DEF Owned
    <3>2. [life |-> life, number |-> jobs[k].task] \in ResultsOf(k, jobs[k].request)
      BY <2>2 DEF ResultsOf, Task
    <3>3. QED
      BY <3>1, <3>2 DEF IsOwn
  <2>5. \A l \in Key : told'[l] = IF l = k THEN told[k] \cup {job} ELSE told[l]
    BY <1>1 DEF IInv, TypeOK
  <2>6. \A l \in Key : \A j \in told'[l] : IsOwn(j, l)'
    BY <2>1, <2>4, <2>5 DEF IInv, Ledger
  <2>7. \A l \in Key : Known(l)' \/ told'[l] # {} => Known(l) \/ told[l] # {}
    BY <1>2, <1>3, <2>5 DEF Known
  <2>8. \A l \in Key : Known(l)' \/ saved'[l] # None \/ told'[l] # {} => \E t \in started' : t.key = l
    BY <2>7 DEF IInv, Ledger
  <2>9. \A t \in started' : t.life = life' => Known(t.key)'
    BY <1>3, <1>4 DEF IInv, TypeOK, Ledger, Known
  <2>10. ASSUME NEW l \in Key
         PROVE  /\ Known(l)' /\ jobs'[l].request # None =>
                     /\ Task(l)' \in started'
                     /\ jobs'[l].job.result \in {None, [life |-> life', number |-> jobs'[l].task]}
                /\ IsPending(l)' => jobs'[l].request # None /\ jobs'[l].job = Pending
                /\ Known(l)' => IsOwn(jobs[l].job, l)'
    <3>1. CASE l = k
      <4>1. IsOwn(jobs[k].job, k)'
        BY <1>3, <2>4 DEF IsOwn, ResultsOf
      <4>2. QED
        BY <1>3, <1>4, <2>2, <2>3, <3>1, <4>1
    <3>2. CASE l # k
      <4>1. jobs'[l] = jobs[l]
        BY <1>3, <3>2
      <4>2. Known(l) => IsOwn(jobs[l].job, l)'
        BY <4>1 DEF IInv, Ledger, IsOwn, ResultsOf
      <4>3. /\ Known(l)' <=> Known(l)
            /\ IsPending(l)' <=> IsPending(l)
            /\ Task(l)' = Task(l)
        BY <4>1 DEF Task, Known, IsPending
      <4>4. QED
        BY <4>1, <4>2, <4>3 DEF IInv, Ledger
    <3>3. QED
      BY <3>1, <3>2
  <2>11. \A l \in Key : saved'[l] # None => IsOwn(saved[l], l)'
    BY <2>1 DEF IInv, Ledger
  <2>12. QED
    BY <2>6, <2>8, <2>9, <2>10, <2>11 DEF Ledger
<1>8. Agreed'
  <2> SUFFICES ASSUME NEW l \in Key \ rerun
               PROVE  /\ \A i, j \in Ends(l)' : i = j
                      /\ IsPending(l)' => Ends(l)' = {}
    BY DEF Agreed
  <2>1. CASE l = k
    <3>1. Ends(k) = {}
      BY <2>1 DEF IInv, Agreed
    <3>2. told[k] = {} /\ saved[k] = None
      BY <3>1 DEF Ends
    <3>3. Ends(k)' = {job}
      BY <1>1, <1>3, <1>4, <3>2 DEF IInv, TypeOK, Ends
    <3>4. QED
      BY <1>4, <2>1, <3>3
  <2>2. CASE l # k
    <3>1. Ends(l)' = Ends(l) /\ (IsPending(l)' <=> IsPending(l))
      BY <1>1, <1>3, <2>2 DEF IInv, TypeOK, Ends, IsPending, Known
    <3>2. QED
      BY <3>1 DEF IInv, Agreed
  <2>3. QED
    BY <2>1, <2>2
<1>9. QED
  BY <1>5, <1>6, <1>7, <1>8 DEF IInv

\* Nothing of the ledger changes: a task ends, or a cancellation fails.
LEMMA TaskStep ==
    ASSUME IInv, NEW n \in DOMAIN tasks,
           NEW how \in {"running", "completed", "failed", "cancelled"},
           tasks' = [tasks EXCEPT ![n] = how],
           UNCHANGED <<jobs, life, saved, started, told, rerun>>
    PROVE  IInv'
<1>1. DOMAIN tasks' = DOMAIN tasks
  OBVIOUS
<1>2. \A i \in DOMAIN tasks' : tasks'[i] \in {"running", "completed", "failed", "cancelled"}
  BY DEF IInv, TypeOK
<1>3. TypeOK'
  BY <1>1, <1>2 DEF IInv, TypeOK, IsPending, Known
<1>4. Numbered'
  BY <1>1 DEF IInv, Numbered
<1>5. OneTaskPerKey' /\ Ledger' /\ Agreed'
  BY DEF IInv, OneTaskPerKey, Ledger, Agreed, Ends, IsPending, Known, Task, IsOwn, ResultsOf
<1>6. QED
  BY <1>3, <1>4, <1>5 DEF IInv

LEMMA ExportStep == IInv /\ Export => IInv'
<1> SUFFICES ASSUME IInv, Export PROVE IInv'
  OBVIOUS
<1>1. \A k \in Key : saved'[k] = IF Known(k) /\ ~IsPending(k) THEN jobs[k].job ELSE None
  BY DEF Export
<1>2. TypeOK'
  <2>1. \A k \in Key : Known(k) /\ ~IsPending(k) => jobs[k].job \in [state : Terminal, result : Result \cup {None}]
    BY DEF IInv, TypeOK, Owned, Job, Known, IsPending
  <2>2. QED
    BY <2>1 DEF IInv, TypeOK, Export, IsPending, Known
<1>3. Numbered' /\ OneTaskPerKey'
  BY DEF IInv, Export, Numbered, OneTaskPerKey
<1>4. Ledger'
  <2>1. \A j : \A k \in Key : IsOwn(j, k)' <=> IsOwn(j, k)
    BY DEF Export, IsOwn, ResultsOf
  <2>2. ASSUME NEW k \in Key
        PROVE  saved'[k] # None => Known(k) /\ saved'[k] = jobs[k].job
    BY <1>1
  <2>3. \A k \in Key : saved'[k] # None => IsOwn(saved[k], k)'
    BY <2>2 DEF IInv, Ledger, Export, IsOwn, ResultsOf
  <2>4. UNCHANGED <<jobs, life, started, told>>
    BY DEF Export
  <2>5. \A k \in Key : Known(k) => IsOwn(jobs[k].job, k)'
    BY <2>4 DEF IInv, Ledger, IsOwn, ResultsOf
  <2>6. QED
    BY <2>1, <2>2, <2>3, <2>4, <2>5 DEF IInv, Ledger, Task, Known, IsPending
<1>5. \A k \in Key : Ends(k)' \subseteq Ends(k) /\ (IsPending(k)' <=> IsPending(k))
  BY <1>1 DEF Export, Ends, Known, IsPending
<1>6. Agreed'
  BY <1>5 DEF IInv, Agreed, Export
<1>7. QED
  BY <1>2, <1>3, <1>4, <1>6 DEF IInv

LEMMA ImportStep == IInv /\ Import => IInv'
<1> SUFFICES ASSUME IInv, Import PROVE IInv'
  OBVIOUS
<1> DEFINE own(k) == [request |-> None, task |-> 0, job |-> saved[k]]
<1>1. \A k \in Imported : k \in Key /\ saved[k] # None /\ ~Known(k)
  BY WorkerAssumption DEF Imported
<1>2. \A k \in Key : jobs'[k] = IF k \in Imported THEN own(k) ELSE jobs[k]
  BY DEF Import
<1>3. UNCHANGED <<tasks, life, saved, started, told, rerun>>
  BY DEF Import
<1>4. \A k \in Imported : own(k) \in Owned /\ own(k) # None /\ own(k).job.state \in Terminal
  BY <1>1, WorkerAssumption DEF IInv, TypeOK, Owned, Job
<1>5. \A k \in Key : IsPending(k)' <=> IsPending(k)
  <2> TAKE k \in Key
  <2>1. CASE k \in Imported
    BY <1>1, <1>2, <1>4, <2>1 DEF IsPending, Known, Terminal
  <2>2. CASE k \notin Imported
    BY <1>2, <2>2 DEF IsPending, Known
  <2>3. QED
    BY <2>1, <2>2
<1>6. \A k \in Key : IsPending(k) => jobs'[k] = jobs[k]
  BY <1>1, <1>2 DEF IsPending
<1>7. TypeOK'
  <2>1. jobs' \in [Key -> Owned \cup {None}]
    <3>1. jobs' = [k \in Key |-> IF k \in Imported THEN own(k) ELSE jobs[k]]
      BY DEF Import
    <3>2. \A k \in Key : jobs[k] \in Owned \cup {None}
      BY DEF IInv, TypeOK
    <3>3. QED
      BY <1>4, <3>1, <3>2
  <2>2. QED
    BY <1>3, <1>5, <1>6, <2>1 DEF IInv, TypeOK
<1>8. Numbered' /\ OneTaskPerKey'
  BY <1>3 DEF IInv, Numbered, OneTaskPerKey
<1>9. Ledger'
  <2>1. \A t \in started' : t.life = life' => Known(t.key)'
    <3> SUFFICES ASSUME NEW t \in started, t.life = life PROVE Known(t.key)'
      BY <1>3
    <3>1. t.key \in Key /\ Known(t.key)
      BY DEF IInv, TypeOK, Ledger
    <3>2. QED
      BY <1>1, <1>2, <3>1 DEF Known
  <2>2. ASSUME NEW k \in Key
        PROVE  /\ Known(k)' /\ jobs'[k].request # None =>
                     /\ Task(k)' \in started'
                     /\ jobs'[k].job.result \in {None, [life |-> life', number |-> jobs'[k].task]}
               /\ IsPending(k)' => jobs'[k].request # None /\ jobs'[k].job = Pending
               /\ Known(k)' \/ saved'[k] # None \/ told'[k] # {} => \E t \in started' : t.key = k
               /\ Known(k)' => IsOwn(jobs[k].job, k)'
    <3>1. CASE k \in Imported
      <4>1. jobs'[k] = own(k) /\ saved[k] # None
        BY <1>1, <1>2, <3>1
      <4>2. IsOwn(jobs[k].job, k)'
        BY <1>3, <4>1 DEF IInv, Ledger, IsOwn, ResultsOf
      <4>3. ~IsPending(k)'
        BY <1>1, <1>5, <3>1 DEF IsPending
      <4>4. QED
        BY <1>3, <4>1, <4>2, <4>3 DEF IInv, Ledger
    <3>2. CASE k \notin Imported
      <4>1. jobs'[k] = jobs[k]
        BY <1>2, <3>2
      <4>2. (Known(k)' <=> Known(k)) /\ Task(k)' = Task(k)
        BY <1>3, <4>1 DEF Known, Task
      <4>3. Known(k) => IsOwn(jobs[k].job, k)'
        BY <1>3, <4>1 DEF IInv, Ledger, IsOwn, ResultsOf
      <4>4. QED
        BY <1>3, <1>5, <4>1, <4>2, <4>3 DEF IInv, Ledger
    <3>3. QED
      BY <3>1, <3>2
  <2>3. \A k \in Key : saved'[k] # None => IsOwn(saved[k], k)'
    BY <1>3 DEF IInv, Ledger, IsOwn, ResultsOf
  <2>4. \A k \in Key : \A j \in told'[k] : IsOwn(j, k)'
    BY <1>3 DEF IInv, Ledger, IsOwn, ResultsOf
  <2>5. QED
    BY <2>1, <2>2, <2>3, <2>4 DEF Ledger
<1>10. \A k \in Key : Ends(k)' \subseteq Ends(k)
  <2> TAKE k \in Key
  <2>1. CASE k \in Imported
    <3>1. saved[k] \in Ends(k)
      BY <1>1, <2>1 DEF Ends
    <3>2. jobs'[k] = own(k)
      BY <1>2, <2>1
    <3>3. jobs'[k].job = saved[k]
      BY <3>2
    <3>4. Ends(k)' \subseteq Ends(k) \cup {jobs'[k].job}
      BY <1>3 DEF Ends
    <3>5. QED
      BY <3>1, <3>3, <3>4
  <2>2. CASE k \notin Imported
    <3>1. jobs'[k] = jobs[k]
      BY <1>2, <2>2
    <3>2. QED
      BY <1>3, <3>1 DEF Ends, IsPending, Known
  <2>3. QED
    BY <2>1, <2>2
<1>11. Agreed'
  BY <1>3, <1>5, <1>10 DEF IInv, Agreed
<1>12. QED
  BY <1>7, <1>8, <1>9, <1>11 DEF IInv

LEMMA RestartStep == IInv /\ Restart => IInv'
<1> SUFFICES ASSUME IInv, Restart PROVE IInv'
  OBVIOUS
<1> USE DEF Restart
<1>1. \A k \in Key : ~Known(k)' /\ ~IsPending(k)'
  BY DEF Known, IsPending
<1>2. life \in Nat /\ life' \in 1 .. MaxLives
  BY WorkerAssumption DEF IInv, TypeOK
<1>3. Numbered'
  <2>1. DOMAIN tasks' = 1 .. 0
    OBVIOUS
  <2>2. QED
    BY <2>1, WorkerAssumption DEF Numbered
<1>4. \A t \in started : t.life < life'
  BY <1>2 DEF IInv, TypeOK
<1>5. TypeOK'
  <2>1. started \subseteq [life : 1 .. life', number : 1 .. MaxTasks, key : Key, request : Body]
    BY <1>2 DEF IInv, TypeOK
  <2>2. QED
    BY <1>1, <1>2, <2>1 DEF IInv, TypeOK
<1>6. OneTaskPerKey'
  BY DEF IInv, OneTaskPerKey
<1>7. Ledger'
  <2>1. \A t \in started' : t.life # life'
    BY <1>2, <1>4
  <2>2. \A k \in Key : saved'[k] # None => IsOwn(saved[k], k)'
    BY DEF IInv, Ledger, IsOwn, ResultsOf
  <2>3. \A k \in Key : \A j \in told'[k] : IsOwn(j, k)'
    BY DEF IInv, Ledger, IsOwn, ResultsOf
  <2>4. QED
    BY <1>1, <2>1, <2>2, <2>3 DEF IInv, Ledger
<1>8. \A k \in Key : Ends(k)' \subseteq Ends(k)
  BY <1>1 DEF Ends
<1>9. Agreed'
  BY <1>1, <1>8 DEF IInv, Agreed
<1>10. QED
  BY <1>3, <1>5, <1>6, <1>7, <1>9 DEF IInv

LEMMA StutterStep == IInv /\ UNCHANGED vars => IInv'
<1> SUFFICES ASSUME IInv, UNCHANGED vars PROVE IInv'
  OBVIOUS
<1>1. UNCHANGED <<jobs, tasks, life, saved, started, told, rerun>>
  BY DEF vars
<1>2. TypeOK'
  BY <1>1 DEF IInv, TypeOK, IsPending, Known
<1>3. Numbered' /\ OneTaskPerKey'
  BY <1>1 DEF IInv, Numbered, OneTaskPerKey
<1>4. Ledger'
  BY <1>1 DEF IInv, Ledger, IsPending, Known, Task, IsOwn, ResultsOf
<1>5. Agreed'
  BY <1>1 DEF IInv, Agreed, Ends, IsPending, Known
<1>6. QED
  BY <1>2, <1>3, <1>4, <1>5 DEF IInv

LEMMA StepPreserves == IInv /\ [Next]_vars => IInv'
<1> SUFFICES ASSUME IInv, [Next]_vars PROVE IInv'
  OBVIOUS
<1>1. ASSUME NEW k \in Key, NEW r \in Body, Submit(k, r) PROVE IInv'
  BY <1>1, SubmitStep
<1>2. ASSUME NEW k \in Key, NEW r \in Body, SubmitAgain(k, r) PROVE IInv'
  <2>1. CASE IsPending(k)
    <3>1. told' = told
      BY <1>2, <2>1 DEF SubmitAgain, Tell, IsPending, Terminal
    <3>2. UNCHANGED vars
      BY <1>2, <3>1 DEF SubmitAgain, vars
    <3>3. QED
      BY <3>2, StutterStep
  <2>2. CASE ~IsPending(k)
    BY <1>2, <2>2, TellStep DEF SubmitAgain, SameRequest
  <2>3. QED
    BY <2>1, <2>2
<1>3. ASSUME NEW k \in Key, Status(k) PROVE IInv'
  <2>1. IsPending(k) /\ Known(k) /\ jobs[k].task \in Nat
    BY <1>3 DEF IInv, TypeOK, Status, IsPending, Known, Owned
  <2>2. /\ Settled(k) \in Job /\ Settled(k).state \in Terminal
        /\ Settled(k).result = [life |-> life, number |-> jobs[k].task]
    BY <2>1, WorkerAssumption DEF IInv, TypeOK, Settled, Job, Terminal, Result
  <2>3. QED
    BY <1>3, <2>1, <2>2, SettleStep DEF Status, IInv, TypeOK
<1>4. ASSUME NEW k \in Key, StatusAgain(k) PROVE IInv'
  BY <1>4, TellStep DEF StatusAgain
<1>5. ASSUME NEW k \in Key, NEW n \in DOMAIN tasks, CancelTask(n)
      PROVE  \E how \in {"running", "completed", "failed", "cancelled"} : tasks' = [tasks EXCEPT ![n] = how]
  BY <1>5 DEF IInv, TypeOK, CancelTask
<1>6. ASSUME NEW k \in Key, Cancel(k) PROVE IInv'
  <2> DEFINE job == [jobs[k].job EXCEPT !.state = "cancelled"]
  <2>1. IsPending(k) /\ jobs[k] \in Owned /\ jobs[k].task \in DOMAIN tasks
    BY <1>6 DEF IInv, TypeOK, Cancel, Cancellable, IsPending, Known
  <2>2. job = [state |-> "cancelled", result |-> None]
    BY <2>1 DEF IInv, Ledger, Pending
  <2>3. job \in Job /\ job.state \in Terminal /\ job.result = None
    BY <2>2 DEF Job, Terminal
  <2>4. jobs' = [jobs EXCEPT ![k].job = job]
    <3>1. jobs' = [jobs EXCEPT ![k].job.state = "cancelled"]
      BY <1>6 DEF Cancel
    <3>2. QED
      BY <2>1, <3>1 DEF IInv, TypeOK, Owned, Job
  <2>5. PICK how \in {"running", "completed", "failed", "cancelled"} : tasks' = [tasks EXCEPT ![jobs[k].task] = how]
    BY <1>5, <1>6, <2>1 DEF Cancel
  <2>6. /\ DOMAIN tasks' = DOMAIN tasks
        /\ \A n \in DOMAIN tasks' : tasks'[n] \in {"running", "completed", "failed", "cancelled"}
    BY <2>5 DEF IInv, TypeOK
  <2>7. Tell(k, job) /\ UNCHANGED <<life, saved, started, rerun>>
    BY <1>6 DEF Cancel
  <2> HIDE DEF job
  <2>8. QED
    BY <2>1, <2>3, <2>4, <2>6, <2>7, SettleStep
<1>7. ASSUME NEW k \in Key, CancelFails(k) PROVE IInv'
  <2>1. jobs[k].task \in DOMAIN tasks
    BY <1>7 DEF IInv, TypeOK, CancelFails
  <2>2. PICK how \in {"running", "completed", "failed", "cancelled"} : tasks' = [tasks EXCEPT ![jobs[k].task] = how]
    BY <1>5, <1>7, <2>1 DEF CancelFails
  <2>3. QED
    BY <1>7, <2>1, <2>2, TaskStep DEF CancelFails
<1>8. ASSUME NEW n \in DOMAIN tasks, NEW how \in {"completed", "failed"}, Finish(n, how) PROVE IInv'
  BY <1>8, TaskStep DEF Finish
<1>9. CASE Export
  BY <1>9, ExportStep
<1>10. CASE Import
  BY <1>10, ImportStep
<1>11. CASE Restart
  BY <1>11, RestartStep
<1>12. CASE UNCHANGED vars
  BY <1>12, StutterStep
<1>13. QED
  BY <1>1, <1>2, <1>3, <1>4, <1>6, <1>7, <1>8, <1>9, <1>10, <1>11, <1>12 DEF Next

\* The invariant holds in every reachable state, for any number of lives.
THEOREM LedgerTheorem == Spec => []IInv
<1>1. Init => IInv
  BY InitEstablishes
<1>2. IInv /\ [Next]_vars => IInv'
  BY StepPreserves
<1>3. QED
  BY <1>1, <1>2, PTL DEF Spec

\* Every variable keeps its type; a pending job is that of a task of this life.
THEOREM TypeCorrect == Spec => []TypeOK
<1>1. IInv => TypeOK
  BY DEF IInv
<1>2. QED
  BY <1>1, LedgerTheorem, PTL

\* The host runs one request for a key in each life of the cell.
THEOREM OneTaskPerKeyTheorem == Spec => []OneTaskPerKey
<1>1. IInv => OneTaskPerKey
  BY DEF IInv
<1>2. QED
  BY <1>1, LedgerTheorem, PTL

\* What a caller gets is the result of a task of its key, and a submit that of
\* its very request.
THEOREM AnswersAreOwnTheorem == Spec => []AnswersAreOwn
<1>1. ASSUME IInv, NEW k \in Key, NEW r \in Body,
             SameRequest(k, r), jobs[k].job.result # None
      PROVE  jobs[k].job.result \in ResultsOf(k, r)
  <2>1. /\ Task(k) \in started /\ jobs[k].request = r
        /\ jobs[k].job.result = [life |-> life, number |-> jobs[k].task]
    BY <1>1, WorkerAssumption DEF IInv, Ledger, SameRequest
  <2>2. QED
    BY <2>1 DEF Task, ResultsOf
<1>2. IInv => AnswersAreOwn
  BY <1>1 DEF AnswersAreOwn, IInv, Ledger, IsOwn
<1>3. QED
  BY <1>2, LedgerTheorem, PTL

\* No two ends of one key are told, unless a restart lost the job.
THEOREM OneAnswerPerKeyTheorem == Spec => []OneAnswerPerKey
<1>1. IInv => OneAnswerPerKey
  BY DEF IInv, Agreed, Ends, OneAnswerPerKey
<1>2. QED
  BY <1>1, LedgerTheorem, PTL
=============================================================================
