----------------------------- MODULE GameWorker -----------------------------
(***************************************************************************)
(* The worker owner: HTTP requests under idempotency keys, run by the      *)
(* host's workers, with an answer kept per key.  The cell handles one call *)
(* at a time; the host's tasks go on beside it.  What is settled can be    *)
(* exported and imported into another cell; a cell starts with nothing.    *)
(*                                                                         *)
(* The result of a task is the task itself: the life of the cell it was    *)
(* started in and its number.  The host's workers are external, modelled   *)
(* from the calls of the adapter.  A call that is invalid, finds nothing   *)
(* or fails is a stuttering step: the host takes no task it refuses.       *)
(***************************************************************************)
EXTENDS Integers, FiniteSets

CONSTANTS
    None,
    Key,        \* idempotency keys, in their order
    Body,       \* requests
    MaxTasks,   \* bound of the model: tasks of each life
    MaxLives    \* bound of the model: lives of the cell

Terminal == {"completed", "failed", "cancelled"}
Result == [life : Nat, number : Nat]
Job == [state : Terminal \cup {"pending"}, result : Result \cup {None}]
Owned == [request : Body \cup {None}, task : Nat, job : Job]

ASSUME WorkerAssumption ==
    /\ Key \subseteq Nat
    /\ None \notin Body \cup Result \cup Job \cup Owned
    /\ MaxTasks \in Nat /\ MaxLives \in Nat \ {0}

VARIABLES
    jobs,       \* per key: its request (None if imported), host task and job; or None
    tasks,      \* the host: what became of each task of this life, by number
    life,
    saved,      \* the exported snapshot: a job or None per key
    started,    \* history: every task, with its key and request
    told,       \* history: terminal jobs that were answered, per key
    rerun       \* history: keys submitted anew after a restart had lost their job

vars == <<jobs, tasks, life, saved, started, told, rerun>>

Pending == [state |-> "pending", result |-> None]
Known(k) == jobs[k] # None
IsPending(k) == Known(k) /\ jobs[k].job.state = "pending"

\* A caller goes by a terminal job from now on.
Tell(k, job) ==
    told' = IF job.state \in Terminal THEN [told EXCEPT ![k] = @ \cup {job}] ELSE told

(***************************************************************************)
(* Submit.                                                                 *)
(***************************************************************************)
\* Mutant: a job that failed is tried again.
RetriesFailed(k) == Known(k) => jobs[k].job.state = "failed"

IsNew(k) == ~Known(k)

Submit(k, r) ==
    LET n == Cardinality(DOMAIN tasks) + 1 IN
    /\ IsNew(k) /\ n =< MaxTasks
    /\ tasks' = [i \in 1 .. n |-> IF i = n THEN "running" ELSE tasks[i]]
    /\ jobs' = [jobs EXCEPT ![k] = [request |-> r, task |-> n, job |-> Pending]]
    /\ rerun' = IF \E t \in started : t.key = k /\ t.life < life THEN rerun \cup {k} ELSE rerun
    /\ started' = started \cup {[life |-> life, number |-> n, key |-> k, request |-> r]}
    /\ UNCHANGED <<life, saved, told>>

\* Mutant: the fingerprint is not compared.
AnyRequest(k, r) == Known(k)

\* An imported job has no fingerprint: it is of no request.
SameRequest(k, r) == Known(k) /\ jobs[k].request = r

\* The answer to a request that is known already; another one is a conflict.
SubmitAgain(k, r) ==
    /\ SameRequest(k, r)
    /\ Tell(k, jobs[k].job)
    /\ UNCHANGED <<jobs, tasks, life, saved, started, rerun>>

(***************************************************************************)
(* Status and cancel.                                                      *)
(***************************************************************************)
\* Mutant: a result that is an error is not kept.
CompletedOnly(n) == tasks[n] = "completed"

Done(n) == tasks[n] # "running"

Settled(k) ==
    [state |-> IF tasks[jobs[k].task] = "completed" THEN "completed" ELSE "failed",
     result |-> [life |-> life, number |-> jobs[k].task]]

\* A pending job whose task is done takes over its result.
Status(k) ==
    /\ IsPending(k) /\ Done(jobs[k].task)
    /\ jobs' = [jobs EXCEPT ![k].job = Settled(k)]
    /\ Tell(k, Settled(k))
    /\ UNCHANGED <<tasks, life, saved, started, rerun>>

StatusAgain(k) ==
    /\ Known(k) /\ ~IsPending(k)
    /\ Tell(k, jobs[k].job)
    /\ UNCHANGED <<jobs, tasks, life, saved, started, rerun>>

\* Mutant: a cancel is accepted whatever the job has come to.
AlwaysCancellable(k) == Known(k) /\ jobs[k].task \in DOMAIN tasks

Cancellable(k) == IsPending(k)

\* The host cancels the task; one that is done stays as it is.
CancelTask(n) == tasks' = [tasks EXCEPT ![n] = IF @ = "running" THEN "cancelled" ELSE @]

Cancel(k) ==
    /\ Cancellable(k)
    /\ CancelTask(jobs[k].task)
    /\ jobs' = [jobs EXCEPT ![k].job.state = "cancelled"]
    /\ Tell(k, [jobs[k].job EXCEPT !.state = "cancelled"])
    /\ UNCHANGED <<life, saved, started, rerun>>

\* The host cancelled, and its answer is an error: the job stays pending.
CancelFails(k) ==
    /\ IsPending(k)
    /\ CancelTask(jobs[k].task)
    /\ UNCHANGED <<jobs, life, saved, started, told, rerun>>

(***************************************************************************)
(* The host.                                                               *)
(***************************************************************************)
Finish(n, how) ==
    /\ n \in DOMAIN tasks /\ tasks[n] = "running"
    /\ tasks' = [tasks EXCEPT ![n] = how]
    /\ UNCHANGED <<jobs, life, saved, started, told, rerun>>

(***************************************************************************)
(* Snapshots and restarts.                                                 *)
(***************************************************************************)
\* Pending jobs are left out.
Export ==
    /\ saved' = [k \in Key |-> IF Known(k) /\ ~IsPending(k) THEN jobs[k].job ELSE None]
    /\ UNCHANGED <<jobs, tasks, life, started, told, rerun>>

\* Jobs are taken in the order of their keys, up to the first one that is known.
Imported ==
    {k \in Key : saved[k] # None /\ \A j \in Key : j =< k /\ saved[j] # None => ~Known(j)}

Import ==
    /\ Imported # {}
    /\ jobs' = [k \in Key |-> IF k \in Imported
                              THEN [request |-> None, task |-> 0, job |-> saved[k]]
                              ELSE jobs[k]]
    /\ UNCHANGED <<tasks, life, saved, started, told, rerun>>

\* Mutant: the jobs of the last life are still there.
RestartWarm ==
    /\ life < MaxLives
    /\ life' = life + 1
    /\ tasks' = <<>>
    /\ UNCHANGED <<jobs, saved, started, told, rerun>>

\* The cell starts with no jobs, the host with no tasks and numbers from one.
Restart ==
    /\ life < MaxLives
    /\ life' = life + 1
    /\ jobs' = [k \in Key |-> None]
    /\ tasks' = <<>>
    /\ UNCHANGED <<saved, started, told, rerun>>

Init ==
    /\ jobs = [k \in Key |-> None]
    /\ tasks = <<>> /\ life = 1
    /\ saved = [k \in Key |-> None]
    /\ started = {} /\ told = [k \in Key |-> {}] /\ rerun = {}

Next ==
    \/ \E k \in Key :
          \/ \E r \in Body : Submit(k, r) \/ SubmitAgain(k, r)
          \/ Status(k) \/ StatusAgain(k) \/ Cancel(k) \/ CancelFails(k)
    \/ \E n \in DOMAIN tasks, how \in {"completed", "failed"} : Finish(n, how)
    \/ Export \/ Import \/ Restart

\* The host bounds every task in time, and a caller asks until it is done.
Fairness ==
    /\ \A n \in 1 .. MaxTasks : WF_vars(\E how \in {"completed", "failed"} : Finish(n, how))
    /\ \A k \in Key : WF_vars(Status(k))

Spec == Init /\ [][Next]_vars /\ Fairness
-----------------------------------------------------------------------------
\* The types; and a pending job is that of a task of this life, so that a poll
\* never asks for a number that means another task now.
TypeOK ==
    /\ jobs \in [Key -> Owned \cup {None}]
    /\ DOMAIN tasks \subseteq 1 .. MaxTasks
    /\ \A n \in DOMAIN tasks : tasks[n] \in {"running", "completed", "failed", "cancelled"}
    /\ \A k \in Key : IsPending(k) => jobs[k].task \in DOMAIN tasks
    /\ life \in 1 .. MaxLives
    /\ saved \in [Key -> [state : Terminal, result : Result \cup {None}] \cup {None}]
    /\ started \subseteq [life : 1 .. life, number : 1 .. MaxTasks, key : Key, request : Body]
    /\ told \in [Key -> SUBSET Job]
    /\ rerun \subseteq Key

\* However often and with whatever request a key is submitted, cancelled and
\* polled, the host runs one request for it in each life of the cell.
OneTaskPerKey ==
    \A s, t \in started : s.key = t.key /\ s.life = t.life => s = t

\* Callers never hear two different ends of one key, across cancels that race
\* with results, exports, partial imports and restarts, unless a restart lost
\* the job and the key was submitted anew.
OneAnswerPerKey ==
    \A k \in Key \ rerun : \A i, j \in told[k] : i = j

ResultsOf(k, r) ==
    {[life |-> t.life, number |-> t.number] : t \in {u \in started : u.key = k /\ u.request = r}}

\* The result a caller gets is that of a task submitted for its key, and the one
\* a submit gets is that of its very request, imported jobs included.
AnswersAreOwn ==
    /\ \A k \in Key : \A j \in told[k] : j.result # None => \E r \in Body : j.result \in ResultsOf(k, r)
    /\ \A k \in Key, r \in Body :
          SameRequest(k, r) /\ jobs[k].job.result # None => jobs[k].job.result \in ResultsOf(k, r)

\* A job that is submitted comes to an end, or a restart loses it.
JobsSettle ==
    \A k \in Key : \A l \in 1 .. MaxLives :
        IsPending(k) /\ life = l ~> ~IsPending(k) \/ life > l
=============================================================================
