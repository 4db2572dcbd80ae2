---------------------------- MODULE FleetEffects ----------------------------
(***************************************************************************)
(* The effect routes of the facade cell: the lifecycle actions, the access *)
(* and configuration routes, the world transfers and exec-v2.  Each looks  *)
(* for a receipt under the caller's idempotency key, works through a list  *)
(* of docker calls, and stores a receipt (a temporary file, then a rename) *)
(* before it answers.  The cell handles one request at a time.             *)
(*                                                                         *)
(* One server and its world volume are the target.  A request that is      *)
(* answered without an effect (replayed, refused with 409, malformed) is a *)
(* stuttering step.  The game server and its volume are external.          *)
(***************************************************************************)
EXTENDS Integers, Sequences, FiniteSets

CONSTANTS
    None, Torn,   \* no value; a file cut short by a crash
    Request,      \* the requests callers send, and retry
    KeyOf,        \* idempotency key of a request
    EffectIDOf,   \* X-Pulp-Effect-ID of a request
    ActionOf,     \* route of a request
    MaxFaults     \* bound of the model: crashes, failed calls and game exits

Action == {"reconfigure", "suspend", "resume", "regenerate", "restore", "exec"}

\* Mutant: a restore restarts the server before it stages the world.
RestartFirst == [reconfigure |-> <<"command", "command">>,
                 suspend     |-> <<"command", "stop">>,
                 resume      |-> <<"restart">>,
                 regenerate  |-> <<"saveOff", "command", "stage", "restart">>,
                 restore     |-> <<"restart", "stage">>,
                 exec        |-> <<"command">>]

\* Mutant: a regeneration does not restart the server.
StageOnly == [RestartFirst EXCEPT !.regenerate = <<"saveOff", "command", "stage">>]

\* The docker calls of an action.  A reconfigure (also config-apply and
\* access-apply) runs one command per setting, here two; restart is resume;
\* upload-apply is restore with another flag file.
Steps == [reconfigure |-> <<"command", "command">>,
          suspend     |-> <<"command", "stop">>,
          resume      |-> <<"restart">>,
          regenerate  |-> <<"saveOff", "command", "stage", "restart">>,
          restore     |-> <<"stage", "restart">>,
          exec        |-> <<"command">>]

StepsOf(r) == Steps[ActionOf[r]]

\* exec-v2 keeps its receipts in a directory of its own.
PathOf(r) == <<ActionOf[r] = "exec", KeyOf[r]>>
TempOf(r) == <<PathOf(r), EffectIDOf[r]>>

Path == {PathOf(r) : r \in Request}
Temp == {TempOf(r) : r \in Request}

\* Actions that replace the world when the server starts with their flag file.
Replacing == {r \in Request : ActionOf[r] \in {"regenerate", "restore"}}

ASSUME EffectsAssumption ==
    /\ ActionOf \in [Request -> Action]
    /\ None \notin Request /\ Torn \notin Request /\ None # Torn
    /\ MaxFaults \in Nat

VARIABLES
    game,      \* the server: "running", "stopping" or "stopped"
    flag,      \* the world volume: requests whose flag file is there
    autosave,  \* whether the game saves its world by itself
    active, step, phase,   \* the handler in flight and where it is
    temps, receipts,       \* the receipt files
    faults,    \* faults so far
    ran, applied, broken   \* history of each request: completed effect lists,
                           \* worlds replaced, attempts that ended after an
                           \* effect and without a receipt

world == <<game, flag, autosave>>
files == <<temps, receipts>>
history == <<ran, applied, broken>>
vars == <<game, flag, autosave, active, step, phase, temps, receipts, faults,
          ran, applied, broken>>

Idle == active = None

Finish ==
    /\ active' = None
    /\ step' = 1
    /\ phase' = "idle"

\* A fault is what the environment adds; the model bounds their number.
Fault ==
    /\ faults < MaxFaults
    /\ faults' = faults + 1

\* Mutant: the receipt of the key is not looked up.
BeginAnew(r) ==
    /\ Idle
    /\ active' = r /\ step' = 1 /\ phase' = "effects"
    /\ UNCHANGED <<world, files, faults, history>>

\* Mutant: a temporary file is taken for an operation that is under way.
BeginOnce(r) ==
    /\ Idle
    /\ receipts[PathOf(r)] = None /\ temps[TempOf(r)] = None
    /\ active' = r /\ step' = 1 /\ phase' = "effects"
    /\ UNCHANGED <<world, files, faults, history>>

\* A request without a receipt under its key starts on its effects.
Begin(r) ==
    /\ Idle
    /\ receipts[PathOf(r)] = None
    /\ active' = r /\ step' = 1 /\ phase' = "effects"
    /\ UNCHANGED <<world, files, faults, history>>

(***************************************************************************)
(* What the docker calls do to the server and its volume.                  *)
(***************************************************************************)
Answers == game \in {"running", "stopping"}   \* whether exec reaches the server

Command == Answers /\ UNCHANGED <<world, applied>>

Stop ==
    /\ Answers
    /\ game' = "stopping"
    /\ UNCHANGED <<flag, autosave, applied>>

SaveOff ==
    /\ Answers
    /\ autosave' = FALSE
    /\ UNCHANGED <<game, flag, applied>>

\* The flag file is written into the volume; of two for the same kind of
\* replacement the later one stays.
Stage ==
    /\ Answers
    /\ flag' = {r \in flag : ActionOf[r] # ActionOf[active]} \cup {active}
    /\ UNCHANGED <<game, autosave, applied>>

\* The server starts, saves again, and replaces its world by what it finds.
StartGame ==
    /\ game' = "running"
    /\ autosave' = TRUE
    /\ flag' = {}
    /\ applied' = [r \in Request |-> IF r \in flag THEN applied[r] + 1 ELSE applied[r]]

Perform(effect) ==
    \/ effect = "command" /\ Command
    \/ effect = "stop" /\ Stop
    \/ effect = "saveOff" /\ SaveOff
    \/ effect = "stage" /\ Stage
    \/ effect = "restart" /\ StartGame

(***************************************************************************)
(* The handler.                                                            *)
(***************************************************************************)
\* Mutant: one call more than the list has.
EffectPastEnd ==
    /\ phase = "effects"
    /\ Perform(StepsOf(active)[step])
    /\ IF step =< Len(StepsOf(active))
       THEN step' = step + 1 /\ UNCHANGED <<phase, ran>>
       ELSE /\ phase' = "temp"
            /\ ran' = [ran EXCEPT ![active] = @ + 1]
            /\ UNCHANGED step
    /\ UNCHANGED <<active, files, faults, broken>>

Effect ==
    /\ phase = "effects"
    /\ Perform(StepsOf(active)[step])
    /\ IF step < Len(StepsOf(active))
       THEN step' = step + 1 /\ UNCHANGED <<phase, ran>>
       ELSE /\ phase' = "temp"
            /\ ran' = [ran EXCEPT ![active] = @ + 1]
            /\ UNCHANGED step
    /\ UNCHANGED <<active, files, faults, broken>>

\* Whether the attempt has had an effect, and the attempt's end without receipt.
Started == phase # "effects" \/ step > 1
GiveUp ==
    /\ Finish
    /\ broken' = IF Started THEN [broken EXCEPT ![active] = @ + 1] ELSE broken

\* A call fails: exec does when the server is not running, any call may.
EffectFails ==
    /\ phase = "effects"
    /\ \/ ~Answers /\ StepsOf(active)[step] # "restart" /\ UNCHANGED faults
       \/ Fault
    /\ GiveUp
    /\ UNCHANGED <<world, files, ran, applied>>

\* Mutant: the receipt is written in place.
WriteInPlace ==
    /\ phase = "temp"
    /\ receipts' = [receipts EXCEPT ![PathOf(active)] = Torn]
    /\ temps' = [temps EXCEPT ![TempOf(active)] = active]
    /\ phase' = "rename"
    /\ UNCHANGED <<world, active, step, faults, history>>

WriteTemp ==
    /\ phase = "temp"
    /\ temps' = [temps EXCEPT ![TempOf(active)] = active]
    /\ phase' = "rename"
    /\ UNCHANGED <<world, active, step, receipts, faults, history>>

Rename ==
    /\ phase = "rename"
    /\ receipts' = [receipts EXCEPT ![PathOf(active)] = temps[TempOf(active)]]
    /\ temps' = [temps EXCEPT ![TempOf(active)] = None]
    /\ Finish
    /\ UNCHANGED <<world, faults, history>>

StoreFails ==
    /\ phase \in {"temp", "rename"}
    /\ Fault
    /\ GiveUp
    /\ UNCHANGED <<world, files, ran, applied>>

(***************************************************************************)
(* The world around the cell.                                              *)
(***************************************************************************)
\* The cell crashes; a docker call in flight may still have its effect, and a
\* file that is being written is cut short.
Crash ==
    /\ ~Idle
    /\ Fault
    /\ Finish
    /\ \/ /\ broken' = IF Started THEN [broken EXCEPT ![active] = @ + 1] ELSE broken
          /\ UNCHANGED <<world, ran, applied>>
       \/ /\ phase = "effects"
          /\ Perform(StepsOf(active)[step])
          /\ broken' = [broken EXCEPT ![active] = @ + 1]
          /\ ran' = IF step = Len(StepsOf(active)) THEN [ran EXCEPT ![active] = @ + 1]
                                                  ELSE ran
    /\ temps' \in {temps} \cup
          (IF phase = "temp" THEN {[temps EXCEPT ![TempOf(active)] = Torn]} ELSE {})
    /\ UNCHANGED receipts

GameStops ==
    /\ game = "stopping"
    /\ game' = "stopped"
    /\ UNCHANGED <<flag, autosave, active, step, phase, files, faults, history>>

GameExits ==
    /\ game = "running"
    /\ Fault
    /\ game' = "stopped"
    /\ UNCHANGED <<flag, autosave, active, step, phase, files, history>>

Init ==
    /\ game = "running" /\ flag = {} /\ autosave = TRUE
    /\ active = None /\ step = 1 /\ phase = "idle"
    /\ temps = [t \in Temp |-> None]
    /\ receipts = [p \in Path |-> None]
    /\ faults = 0
    /\ ran = [r \in Request |-> 0]
    /\ applied = [r \in Request |-> 0]
    /\ broken = [r \in Request |-> 0]

Handler == Effect \/ EffectFails \/ WriteTemp \/ Rename \/ StoreFails

Next ==
    \/ \E r \in Request : Begin(r)
    \/ Effect \/ EffectFails \/ WriteTemp \/ Rename \/ StoreFails
    \/ Crash \/ GameStops \/ GameExits

\* A handler runs to its end; a caller retries until it has an answer, and gets
\* its turn among other callers; a stopping server stops.
Fairness ==
    /\ WF_vars(Handler)
    /\ WF_vars(GameStops)
    /\ \A r \in Request : SF_vars(Begin(r))

Spec == Init /\ [][Next]_vars /\ Fairness

-----------------------------------------------------------------------------
(***************************************************************************)
(* Properties.                                                             *)
(***************************************************************************)
TypeOK ==
    /\ game \in {"running", "stopping", "stopped"}
    /\ flag \subseteq Replacing
    /\ autosave \in BOOLEAN
    /\ active \in Request \cup {None}
    /\ phase \in {"idle", "effects", "temp", "rename"}
    /\ (phase = "idle") = (active = None)
    /\ step \in 1 .. IF active = None THEN 1 ELSE Len(StepsOf(active))
    /\ temps \in [Temp -> Request \cup {None, Torn}]
    /\ receipts \in [Path -> Request \cup {None, Torn}]
    /\ faults \in 0 .. MaxFaults
    /\ ran \in [Request -> Nat] /\ applied \in [Request -> Nat]
    /\ broken \in [Request -> Nat]

\* A receipt is complete and says the truth: every effect of its request has
\* happened, whatever crashed or failed before.
ReceiptsSound ==
    \A r \in Request : \A p \in Path :
       /\ receipts[p] # Torn
       /\ receipts[p] = r => p = PathOf(r) /\ ran[r] > 0

\* The inductive form: what the handler knows at each place of its receipt.  A
\* key is free while its operation is in flight, and the file that is about to
\* be renamed is complete.
ReceiptProtocol ==
    /\ TypeOK
    /\ ReceiptsSound
    /\ active # None => receipts[PathOf(active)] = None
    /\ phase \in {"temp", "rename"} => ran[active] > 0
    /\ phase = "rename" => temps[TempOf(active)] = active

\* A request's effects are repeated only for an attempt that broke off without a
\* receipt: a retry of a request that was answered has no effect.
RepeatsAreForBreaks ==
    \A r \in Request : ran[r] =< 1 + broken[r] /\ applied[r] =< 1 + broken[r]

\* A world replacement with a receipt has taken place, and not just been staged.
ReceiptMeansReplaced ==
    \A r \in Replacing : receipts[PathOf(r)] = r => applied[r] > 0

\* The game saves its world whenever no regeneration is under way or broke off.
AutosaveIsBack ==
    ~autosave => \/ active # None /\ ActionOf[active] = "regenerate"
                 \/ \E r \in Request : ActionOf[r] = "regenerate" /\ broken[r] > 0

\* What a key is bound to never changes, not by another request under the key.
BindingsStable ==
    [][\A p \in Path : receipts[p] # None => receipts'[p] = receipts[p]]_receipts

\* A retried resume is answered, although the cell may crash in between.
\* Whoever took the key, it is bound in the end.
ResumeSettles ==
    \A r \in Request : ActionOf[r] = "resume" => <>(receipts[PathOf(r)] # None)
=============================================================================
