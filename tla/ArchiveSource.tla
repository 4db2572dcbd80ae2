--------------------------- MODULE ArchiveSource ---------------------------
(***************************************************************************)
(* The archive source: snapshots of game worlds for backup, and cleanup of *)
(* archived worlds, by concurrent calls on the host.  A call talks to the  *)
(* facade cell of the server's node over HTTP; a backup switches saving    *)
(* off, flushes, fetches the world and switches saving on again.           *)
(*                                                                         *)
(* The cell handles one request at a time, in the order the host queued    *)
(* them, and zips a world file by file within one request.  The game runs  *)
(* beside it, and so do the deadlines of the callers: a call that gives up *)
(* leaves its request behind, in the queue or in the cell.  A caller whose *)
(* request is invalid never begins.                                        *)
(***************************************************************************)
EXTENDS Integers, Sequences, FiniteSets

CONSTANTS
    None,
    Call,
    Server,       \* each with the world of its name
    File,         \* files of a world
    Asks,         \* the requests each call may make
    MaxVersion    \* bound of the model: changes of a world in the game's memory

Request == [kind : {"snapshot", "cleanup"}, server : Server, flush : BOOLEAN, delay : BOOLEAN]

\* A delay waits for the flushed data to settle.
ValidRequest(r) ==
    /\ r \in Request
    /\ r.delay => r.flush
    /\ r.kind = "cleanup" => ~r.flush

\* The version of each file.
Content == [File -> 0 .. MaxVersion]

ASSUME ArchiveAssumption ==
    /\ None \notin Call \cup Content
    /\ IsFiniteSet(File) /\ File # {}
    /\ \A c \in Call : \A r \in Asks[c] : ValidRequest(r)
    /\ MaxVersion \in Nat

VARIABLES
    asked,      \* the request of each call, or None
    pc,         \* the caller: the request it waits for, "delay", "idle" or "ended"
    staged,     \* its staging file: version of each file fetched, or None
    result,     \* what it was told: "none", "snapshot", "cleaned" or "error"
    queue,      \* requests the host has queued for the cell
    walk,       \* the world request the cell is working on: caller and files read
    answer,     \* the answer on the way to each caller, or None
    saving,     \* the game: whether it saves by itself
    memory,     \* the game: version of the world in memory
    disk,       \* the world's files: version of each, or None
    begun,      \* history: version in memory when the call began
    crossed,    \* history: calls that another one switched saving on under
    restored,   \* history: calls whose save-on was obeyed
    unrestored  \* history: calls that were told that it was not

caller == <<asked, pc, staged, result>>
cell == <<queue, walk, answer>>
game == <<saving, memory, disk>>
history == <<begun, crossed, restored, unrestored>>
vars == <<caller, cell, game, history>>

ServerOf(c) == asked[c].server
IsBackup(c) == asked[c] # None /\ asked[c].flush
Waiting == {"off", "flush", "get", "delete", "on"}

\* A request reaches the queue of the cell, or is lost on the way.
Send(c, cmd) ==
    /\ \/ queue' = Append(queue, [call |-> c, cmd |-> cmd])
       \/ UNCHANGED queue
    /\ pc' = [pc EXCEPT ![c] = cmd]
    /\ answer' = [answer EXCEPT ![c] = None]

\* The call is over.
End(c, how) ==
    /\ pc' = [pc EXCEPT ![c] = "ended"]
    /\ result' = [result EXCEPT ![c] = how]
    /\ answer' = [answer EXCEPT ![c] = None]
    /\ UNCHANGED queue

(***************************************************************************)
(* The callers.                                                            *)
(***************************************************************************)
\* Mutant: the flush is sent without the save-off.
FlushFirst(r) ==
    IF r.kind = "cleanup" THEN "delete" ELSE IF r.flush THEN "flush" ELSE "get"

\* A backup switches saving off before anything else.
First(r) ==
    IF r.kind = "cleanup" THEN "delete" ELSE IF r.flush THEN "off" ELSE "get"

Begin(c, r) ==
    /\ pc[c] = "idle"
    /\ asked' = [asked EXCEPT ![c] = r]
    /\ Send(c, First(r))
    /\ begun' = [begun EXCEPT ![c] = memory[r.server]]
    /\ UNCHANGED <<staged, result, walk, game, crossed, restored, unrestored>>

\* No access to the node.
AccessFails(c) ==
    /\ pc[c] = "idle"
    /\ End(c, "error")
    /\ UNCHANGED <<asked, staged, walk, game, history>>

Answered(c, ok) == answer[c] # None /\ answer[c].ok = ok

\* Mutant: the world is fetched without waiting for a flush.
FetchAtOnce(c) == pc[c] \in {"off", "flush"} /\ Send(c, "get")

\* The commands of a backup, each after the answer to the one before.
NextCommand(c) ==
    \/ pc[c] = "off" /\ Send(c, "flush")
    \/ pc[c] = "flush" /\ ~asked[c].delay /\ Send(c, "get")
    \/ /\ pc[c] = "flush" /\ asked[c].delay
       /\ pc' = [pc EXCEPT ![c] = "delay"]
       /\ answer' = [answer EXCEPT ![c] = None]
       /\ UNCHANGED queue

Proceed(c) ==
    /\ Answered(c, TRUE)
    /\ NextCommand(c)
    /\ UNCHANGED <<asked, staged, result, walk, game, history>>

Delayed(c) ==
    /\ pc[c] = "delay"
    /\ Send(c, "get")
    /\ UNCHANGED <<asked, staged, result, walk, game, history>>

\* The body is copied to a staging file.
Fetched(c) ==
    /\ pc[c] = "get" /\ Answered(c, TRUE)
    /\ staged' = [staged EXCEPT ![c] = answer[c].body]
    /\ IF IsBackup(c) THEN Send(c, "on") /\ UNCHANGED result ELSE End(c, "snapshot")
    /\ UNCHANGED <<asked, walk, game, history>>

\* Mutant: a call that fails before anything was answered has nothing to restore.
GiveUpAtOnce(c) ==
    IF IsBackup(c) /\ pc[c] # "off" THEN Send(c, "on") /\ UNCHANGED result ELSE End(c, "error")

\* After every save-off attempt saving is switched on, whatever failed.
GiveUp(c) ==
    IF IsBackup(c) THEN Send(c, "on") /\ UNCHANGED result ELSE End(c, "error")

\* A refusal, the caller's cancellation or the deadline; one that comes after the
\* answer, or breaks off its body, is as one before it.
Fails(c) ==
    /\ pc[c] \in {"off", "flush", "delay", "get", "delete"}
    /\ ~Answered(c, TRUE)
    /\ GiveUp(c)
    /\ UNCHANGED <<asked, staged, walk, game, history>>

Restored(c) ==
    /\ pc[c] = "on" /\ Answered(c, TRUE)
    /\ End(c, IF staged[c] # None THEN "snapshot" ELSE "error")
    /\ UNCHANGED <<asked, staged, walk, game, history>>

\* Mutant: a snapshot is returned with the error.
KeepSnapshot(c) ==
    /\ pc[c] = "on"
    /\ Answered(c, FALSE) \/ answer[c] = None
    /\ End(c, IF staged[c] # None THEN "snapshot" ELSE "error")
    /\ UNCHANGED staged
    /\ unrestored' = unrestored \cup {c}
    /\ UNCHANGED <<asked, walk, game, begun, crossed, restored>>

\* Refused, or no answer within the time of its own that the recovery has: the
\* snapshot is closed, which removes the staging file.
RestoreFails(c) ==
    /\ pc[c] = "on"
    /\ Answered(c, FALSE) \/ answer[c] = None
    /\ End(c, "error")
    /\ staged' = [staged EXCEPT ![c] = None]
    /\ unrestored' = unrestored \cup {c}
    /\ UNCHANGED <<asked, walk, game, begun, crossed, restored>>

Cleaned(c) ==
    /\ pc[c] = "delete" /\ Answered(c, TRUE)
    /\ End(c, "cleaned")
    /\ UNCHANGED <<asked, staged, walk, game, history>>

\* Closing the snapshot removes the staging file.
Close(c) ==
    /\ pc[c] = "ended" /\ staged[c] # None
    /\ staged' = [staged EXCEPT ![c] = None]
    /\ UNCHANGED <<asked, pc, result, cell, game, history>>

(***************************************************************************)
(* The cell.                                                               *)
(***************************************************************************)
\* The caller may have given up on this request.
Reply(q, ok, body) ==
    answer' = IF pc[q.call] = q.cmd
              THEN [answer EXCEPT ![q.call] = [ok |-> ok, body |-> body]]
              ELSE answer

Oldest == Head(queue)

Take(cmds) ==
    /\ walk = None /\ queue # <<>> /\ Oldest.cmd \in cmds
    /\ queue' = Tail(queue)

\* A console command, as the game obeys it.
Obey(cmd, s) ==
    /\ saving' = IF cmd = "flush" THEN saving ELSE [saving EXCEPT ![s] = (cmd = "on")]
    /\ disk' = IF cmd = "flush" /\ disk[s] # None
               THEN [disk EXCEPT ![s] = [f \in File |-> memory[s]]] ELSE disk
    /\ UNCHANGED memory

\* The other calls a save-on meets in the middle of their backup.
Undercut(q) ==
    IF q.cmd = "on"
    THEN {c \in Call \ {q.call} : IsBackup(c) /\ ServerOf(c) = ServerOf(q.call) /\ pc[c] \in {"off", "flush", "delay", "get"}}
    ELSE {}

Obeyed(q) ==
    /\ Obey(q.cmd, ServerOf(q.call))
    /\ crossed' = crossed \cup Undercut(q)
    /\ restored' = IF q.cmd = "on" THEN restored \cup {q.call} ELSE restored

Exec ==
    /\ Take({"off", "flush", "on"})
    /\ Obeyed(Oldest)
    /\ Reply(Oldest, TRUE, None)
    /\ UNCHANGED <<caller, walk, begun, unrestored>>

\* The daemon answers an error, before or after the game obeyed.
ExecFails ==
    /\ Take({"off", "flush", "on"})
    /\ Obeyed(Oldest) \/ UNCHANGED <<game, crossed, restored>>
    /\ Reply(Oldest, FALSE, None)
    /\ UNCHANGED <<caller, walk, begun, unrestored>>

OpenWorld ==
    /\ Take({"get"})
    /\ IF disk[ServerOf(Oldest.call)] # None
       THEN walk' = [call |-> Oldest.call, read |-> <<>>] /\ UNCHANGED answer
       ELSE UNCHANGED walk /\ Reply(Oldest, FALSE, None)
    /\ UNCHANGED <<caller, game, history>>

Unread == File \ DOMAIN walk.read

\* The game may write between two files.
ReadFile(f) ==
    /\ walk # None /\ f \in Unread
    /\ walk' = [walk EXCEPT !.read = [g \in DOMAIN @ \cup {f} |->
                    IF g = f THEN disk[ServerOf(walk.call)][f] ELSE @[g]]]
    /\ UNCHANGED <<caller, queue, answer, game, history>>

\* Mutant: an error in the middle of the walk ends it as if it were complete.
EndWalkEarly(ok) ==
    /\ walk # None
    /\ Reply([call |-> walk.call, cmd |-> "get"], ok, IF ok THEN walk.read ELSE None)
    /\ walk' = None
    /\ UNCHANGED <<caller, queue, game, history>>

\* The zip is complete, or a file could not be read.
EndWalk(ok) ==
    /\ walk # None
    /\ ok => Unread = {}
    /\ Reply([call |-> walk.call, cmd |-> "get"], ok, IF ok THEN walk.read ELSE None)
    /\ walk' = None
    /\ UNCHANGED <<caller, queue, game, history>>

\* A world that is not there is removed as well.
RemoveWorld(ok) ==
    /\ Take({"delete"})
    /\ IF ok THEN disk' = [disk EXCEPT ![ServerOf(Oldest.call)] = None] ELSE UNCHANGED disk
    /\ Reply(Oldest, ok, None)
    /\ UNCHANGED <<caller, walk, saving, memory, history>>

(***************************************************************************)
(* The game.                                                               *)
(***************************************************************************)
Play(s) ==
    /\ memory[s] < MaxVersion
    /\ memory' = [memory EXCEPT ![s] = @ + 1]
    /\ UNCHANGED <<caller, cell, saving, disk, history>>

Autosave(s, f) ==
    /\ saving[s] /\ disk[s] # None
    /\ disk' = [disk EXCEPT ![s][f] = memory[s]]
    /\ UNCHANGED <<caller, cell, saving, memory, history>>

Init ==
    /\ asked = [c \in Call |-> None]
    /\ pc = [c \in Call |-> "idle"]
    /\ staged = [c \in Call |-> None]
    /\ result = [c \in Call |-> "none"]
    /\ queue = <<>> /\ walk = None
    /\ answer = [c \in Call |-> None]
    /\ saving = [s \in Server |-> TRUE]
    /\ memory = [s \in Server |-> 0]
    /\ disk = [s \in Server |-> [f \in File |-> 0]]
    /\ begun = [c \in Call |-> 0]
    /\ crossed = {} /\ restored = {} /\ unrestored = {}

CallerStep(c) ==
    Proceed(c) \/ Delayed(c) \/ Fetched(c) \/ Fails(c) \/ Restored(c) \/ RestoreFails(c) \/ Cleaned(c)

CellStep ==
    \/ Exec \/ ExecFails \/ OpenWorld \/ (\E f \in File : ReadFile(f))
    \/ \E ok \in BOOLEAN : EndWalk(ok) \/ RemoveWorld(ok)

Next ==
    \/ \E c \in Call :
          (\E r \in Asks[c] : Begin(c, r)) \/ AccessFails(c) \/ CallerStep(c) \/ Close(c)
    \/ CellStep
    \/ \E s \in Server : Play(s) \/ \E f \in File : Autosave(s, f)

\* Every request of a caller has a deadline, and the cell works off its queue.
Fairness ==
    /\ \A c \in Call : WF_vars(CallerStep(c))
    /\ WF_vars(CellStep)

Spec == Init /\ [][Next]_vars /\ Fairness
-----------------------------------------------------------------------------
TypeOK ==
    /\ asked \in [Call -> Request \cup {None}]
    /\ pc \in [Call -> Waiting \cup {"idle", "delay", "ended"}]
    /\ staged \in [Call -> Content \cup {None}]
    /\ result \in [Call -> {"none", "snapshot", "cleaned", "error"}]
    /\ queue \in Seq([call : Call, cmd : Waiting])
    /\ walk # None => walk.call \in Call /\ DOMAIN walk.read \subseteq File
    /\ \A c \in Call : answer[c] # None => answer[c].ok \in BOOLEAN /\ answer[c].body \in Content \cup {None}
    /\ saving \in [Server -> BOOLEAN]
    /\ memory \in [Server -> 0 .. MaxVersion]
    /\ disk \in [Server -> Content \cup {None}]
    /\ crossed \subseteq Call /\ restored \subseteq Call /\ unrestored \subseteq Call

Whole(content) == \A f, g \in File : content[f] = content[g]

\* A backup holds the world as of one moment, although the game runs and the
\* zip is made file by file, unless another backup of the same server switched
\* saving on under it.
BackupIsWhole ==
    \A c \in Call : IsBackup(c) /\ staged[c] # None /\ c \notin crossed => Whole(staged[c])

\* A backup holds everything the game had when the call began, even then.
BackupIsFresh ==
    \A c \in Call : IsBackup(c) /\ staged[c] # None => \A f \in File : staged[c][f] >= begun[c]

\* A backup is handed out only if saving was switched on again for it, and a
\* call that failed leaves no staging file behind.
OutcomeIsHonest ==
    \A c \in Call :
        /\ result[c] = "snapshot" /\ IsBackup(c) => c \in restored /\ c \notin unrestored
        /\ result[c] \in {"error", "cleaned"} => staged[c] = None

\* Saving that was switched off comes back, or a caller is told that it may not
\* have: no cancellation or lost answer leaves a call hanging.
SavingComesBack ==
    \A s \in Server : ~saving[s] ~> saving[s] \/ \E c \in unrestored : ServerOf(c) = s
=============================================================================
