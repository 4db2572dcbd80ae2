------------------------ MODULE FleetEffectsProofs ------------------------
(***************************************************************************)
(* Theorems about FleetEffects, for every set of requests, keys and effect *)
(* ids and any number of faults.                                           *)
(*                                                                         *)
(* The argument: a receipt is written only by Rename, which moves the file *)
(* WriteTemp completed in the same attempt, after the last effect; and the *)
(* key was free when the attempt began and no other handler runs.          *)
(***************************************************************************)
EXTENDS FleetEffects, TLAPS

\* The docker calls of each action, one by one: only a world replacement stages.
LEMMA StepsShape ==
    ASSUME NEW r \in Request
    PROVE  /\ Len(StepsOf(r)) \in Nat \ {0}
           /\ \A i \in 1 .. Len(StepsOf(r)) : StepsOf(r)[i] = "stage" => r \in Replacing
<1>1. ActionOf[r] \in Action
  BY EffectsAssumption
<1>2. CASE ActionOf[r] \in {"reconfigure", "suspend"}
  <2>1. StepsOf(r) = <<"command", "command">> \/ StepsOf(r) = <<"command", "stop">>
    BY <1>2 DEF StepsOf, Steps
  <2>2. QED
    BY <2>1
<1>3. CASE ActionOf[r] \in {"resume", "exec"}
  <2>1. StepsOf(r) = <<"restart">> \/ StepsOf(r) = <<"command">>
    BY <1>3 DEF StepsOf, Steps
  <2>2. QED
    BY <2>1
<1>4. CASE ActionOf[r] \in {"regenerate", "restore"}
  <2>1. \/ StepsOf(r) = <<"saveOff", "command", "stage", "restart">>
        \/ StepsOf(r) = <<"stage", "restart">>
    BY <1>4 DEF StepsOf, Steps
  <2>2. Len(StepsOf(r)) \in Nat \ {0}
    BY <2>1
  <2>3. r \in Replacing
    BY <1>4 DEF Replacing
  <2>4. QED
    BY <2>2, <2>3
<1>5. QED
  BY <1>1, <1>2, <1>3, <1>4 DEF Action

LEMMA FilesExist ==
    ASSUME NEW r \in Request
    PROVE  PathOf(r) \in Path /\ TempOf(r) \in Temp
BY DEF Path, Temp

\* What a docker call of the handler does to the types of the world.
LEMMA PerformKeepsTypes ==
    ASSUME TypeOK, active \in Request,
           NEW effect, effect = "stage" => active \in Replacing,
           Perform(effect)
    PROVE  /\ game' \in {"running", "stopping", "stopped"}
           /\ flag' \subseteq Replacing
           /\ autosave' \in BOOLEAN
           /\ applied' \in [Request -> Nat]
<1> USE DEF TypeOK
<1>1. CASE effect = "command" /\ Command
  BY <1>1 DEF Command, world
<1>2. CASE effect = "stop" /\ Stop
  BY <1>2 DEF Stop
<1>3. CASE effect = "saveOff" /\ SaveOff
  BY <1>3 DEF SaveOff
<1>4. CASE effect = "stage" /\ Stage
  BY <1>4 DEF Stage
<1>5. CASE effect = "restart" /\ StartGame
  BY <1>5 DEF StartGame
<1>6. QED
  BY <1>1, <1>2, <1>3, <1>4, <1>5 DEF Perform

LEMMA CountKeepsType ==
    ASSUME NEW count \in [Request -> Nat], NEW r \in Request
    PROVE  [count EXCEPT ![r] = @ + 1] \in [Request -> Nat]
OBVIOUS

-----------------------------------------------------------------------------
LEMMA ProtocolInit == Init => ReceiptProtocol
BY EffectsAssumption
   DEF Init, ReceiptProtocol, TypeOK, ReceiptsSound

LEMMA ProtocolStep == ReceiptProtocol /\ [Next]_vars => ReceiptProtocol'
<1> SUFFICES ASSUME ReceiptProtocol, [Next]_vars PROVE ReceiptProtocol'
  OBVIOUS
<1> USE EffectsAssumption
<1>a. TypeOK
  BY DEF ReceiptProtocol
\* In the middle of a handler there is a request to handle.
<1>b. phase # "idle" => active \in Request
  BY <1>a DEF TypeOK
<1>1. ASSUME NEW r \in Request, Begin(r) PROVE ReceiptProtocol'
  <2>1. TypeOK'
    BY <1>1, <1>a, StepsShape DEF Begin, Idle, TypeOK, world, files, history
  <2>2. QED
    BY <1>1, <2>1 DEF Begin, ReceiptProtocol, ReceiptsSound, files, history, PathOf
<1>2. CASE Effect
  <2>1. active \in Request /\ StepsOf(active)[step] = "stage" => active \in Replacing
    BY <1>2, <1>a, <1>b, StepsShape DEF Effect, TypeOK
  <2>2. active \in Request
    BY <1>2, <1>b DEF Effect
  <2>3. /\ game' \in {"running", "stopping", "stopped"} /\ flag' \subseteq Replacing
        /\ autosave' \in BOOLEAN /\ applied' \in [Request -> Nat]
    BY <1>2, <1>a, <2>1, <2>2, PerformKeepsTypes DEF Effect
  <2>4. CASE step < Len(StepsOf(active))
    <3>1. TypeOK'
      BY <1>2, <1>a, <2>2, <2>3, <2>4, StepsShape DEF Effect, TypeOK, files, StepsOf
    <3>2. QED
      BY <1>2, <2>4, <3>1 DEF Effect, ReceiptProtocol, ReceiptsSound, files, PathOf
  <2>5. CASE ~(step < Len(StepsOf(active)))
    <3>1. ran' = [ran EXCEPT ![active] = @ + 1] /\ phase' = "temp" /\ step' = step
      BY <1>2, <2>5 DEF Effect
    <3>2. ran' \in [Request -> Nat] /\ \A r \in Request : ran'[r] >= ran[r]
      BY <1>a, <2>2, <3>1, CountKeepsType DEF TypeOK
    <3>3. ran'[active] > 0
      BY <1>a, <2>2, <3>1 DEF TypeOK
    <3>4. TypeOK'
      BY <1>2, <1>a, <2>2, <2>3, <3>1, <3>2 DEF Effect, TypeOK, files, StepsOf
    <3>5. QED
      BY <1>2, <1>a, <3>1, <3>2, <3>3, <3>4
         DEF Effect, ReceiptProtocol, ReceiptsSound, TypeOK, files, PathOf
  <2>6. QED
    BY <2>4, <2>5
\* Nothing but the end of the attempt: the receipts stay.
<1>3. ASSUME GiveUp, faults' \in 0 .. MaxFaults, active \in Request,
             UNCHANGED <<world, files, ran, applied>>
      PROVE  ReceiptProtocol'
  <2>1. broken' \in [Request -> Nat]
    BY <1>3, <1>a, CountKeepsType DEF GiveUp, TypeOK
  <2>2. TypeOK'
    BY <1>3, <1>a, <2>1 DEF GiveUp, Finish, TypeOK, world, files
  <2>3. QED
    BY <1>3, <2>2 DEF GiveUp, Finish, ReceiptProtocol, ReceiptsSound, files
<1>4. CASE EffectFails
  BY <1>3, <1>4, <1>a, <1>b DEF EffectFails, Fault, TypeOK
<1>5. CASE StoreFails
  BY <1>3, <1>5, <1>a, <1>b DEF StoreFails, Fault, TypeOK
<1>6. CASE WriteTemp
  <2>1. active \in Request /\ TempOf(active) \in Temp
    BY <1>6, <1>b, FilesExist DEF WriteTemp
  <2>2. TypeOK'
    BY <1>6, <1>a, <2>1 DEF WriteTemp, TypeOK, world, history, StepsOf
  <2>3. temps'[TempOf(active)] = active
    BY <1>6, <1>a, <2>1 DEF WriteTemp, TypeOK
  <2>4. QED
    BY <1>6, <2>1, <2>2, <2>3 DEF WriteTemp, ReceiptProtocol, ReceiptsSound, history, PathOf, TempOf
<1>7. CASE Rename
  <2>1. active \in Request /\ PathOf(active) \in Path /\ TempOf(active) \in Temp
    BY <1>7, <1>b, FilesExist DEF Rename
  <2>2. receipts' = [receipts EXCEPT ![PathOf(active)] = active]
    BY <1>7 DEF Rename, ReceiptProtocol
  <2>3. TypeOK'
    BY <1>7, <1>a, <2>1, <2>2 DEF Rename, Finish, TypeOK, world, history
  <2>4. ran[active] > 0
    BY <1>7 DEF Rename, ReceiptProtocol
  <2>5. ReceiptsSound'
    BY <1>7, <1>a, <2>1, <2>2, <2>4 DEF Rename, ReceiptProtocol, ReceiptsSound, TypeOK, history, PathOf
  <2>6. QED
    BY <1>7, <2>3, <2>5 DEF Rename, Finish, ReceiptProtocol
<1>8. CASE Crash
  <2>1. active \in Request
    BY <1>8, <1>a DEF Crash, Idle, TypeOK
  <2>2. phase = "effects" =>
          (StepsOf(active)[step] = "stage" => active \in Replacing)
    BY <1>a, <2>1, StepsShape DEF TypeOK
  <2>3. /\ game' \in {"running", "stopping", "stopped"} /\ flag' \subseteq Replacing
        /\ autosave' \in BOOLEAN /\ applied' \in [Request -> Nat]
    BY <1>8, <1>a, <2>1, <2>2, PerformKeepsTypes DEF Crash, TypeOK, world
  <2>4. broken' \in [Request -> Nat]
    BY <1>8, <1>a, <2>1, CountKeepsType DEF Crash, TypeOK
  <2>5. ran' \in [Request -> Nat] /\ \A r \in Request : ran'[r] >= ran[r]
    <3>1. ran' = ran \/ ran' = [ran EXCEPT ![active] = @ + 1]
      BY <1>8 DEF Crash
    <3>2. ran \in [Request -> Nat]
      BY <1>a DEF TypeOK
    <3>3. [ran EXCEPT ![active] = @ + 1] \in [Request -> Nat]
      BY <2>1, <3>2, CountKeepsType
    <3>4. \A r \in Request : [ran EXCEPT ![active] = @ + 1][r] >= ran[r]
      BY <2>1, <3>2
    <3>5. CASE ran' = ran
      BY <3>2, <3>5
    <3>6. CASE ran' = [ran EXCEPT ![active] = @ + 1]
      BY <3>3, <3>4, <3>6
    <3>7. QED
      BY <3>1, <3>5, <3>6
  <2>6. temps' \in [Temp -> Request \cup {None, Torn}]
    BY <1>8, <1>a, <2>1 DEF Crash, TypeOK
  <2>7. TypeOK'
    BY <1>8, <1>a, <2>3, <2>4, <2>5, <2>6 DEF Crash, Finish, Fault, TypeOK
  <2>8. QED
    BY <1>8, <1>a, <2>5, <2>7 DEF Crash, Finish, ReceiptProtocol, ReceiptsSound, TypeOK
<1>9. CASE GameStops \/ GameExits
  <2>1. TypeOK'
    BY <1>9, <1>a DEF GameStops, GameExits, Fault, TypeOK, files, history
  <2>2. QED
    BY <1>9, <2>1 DEF GameStops, GameExits, ReceiptProtocol, ReceiptsSound, files, history
<1>10. CASE UNCHANGED vars
  <2>1. TypeOK'
    BY <1>10, <1>a DEF vars, TypeOK
  <2>2. QED
    BY <1>10, <2>1 DEF vars, ReceiptProtocol, ReceiptsSound
<1>11. QED
  BY <1>1, <1>2, <1>4, <1>5, <1>6, <1>7, <1>8, <1>9, <1>10 DEF Next

\* The inductive invariant: what the handler knows about its receipt at each
\* place (store of the receipt: temporary file, rename, answer).
THEOREM ReceiptProtocolTheorem == Spec => []ReceiptProtocol
<1>1. QED
  BY ProtocolInit, ProtocolStep, PTL DEF Spec

\* A receipt is complete and its request's effects have happened, whatever
\* crashed or failed before.
THEOREM ReceiptsSoundTheorem == Spec => []ReceiptsSound
<1>1. ReceiptProtocol => ReceiptsSound
  BY DEF ReceiptProtocol
<1>2. QED
  BY <1>1, ReceiptProtocolTheorem, PTL

\* Only Rename writes receipts, and the key of the request in flight is free.
LEMMA BoundStays ==
    ReceiptProtocol /\ [Next]_vars =>
        \A p \in Path : receipts[p] # None => receipts'[p] = receipts[p]
<1> SUFFICES ASSUME ReceiptProtocol, [Next]_vars,
                    NEW p \in Path, receipts[p] # None
             PROVE  receipts'[p] = receipts[p]
  OBVIOUS
<1>1. CASE Rename
  <2>1. receipts \in [Path -> Request \cup {None, Torn}] /\ active \in Request
    BY <1>1 DEF Rename, ReceiptProtocol, TypeOK
  <2>2. receipts[PathOf(active)] = None
    BY <2>1, EffectsAssumption DEF ReceiptProtocol
  <2>3. QED
    BY <1>1, <2>1, <2>2 DEF Rename
<1>2. CASE ~Rename
  <2>1. UNCHANGED receipts
    BY <1>2 DEF Next, Begin, Effect, EffectFails, WriteTemp, StoreFails, Crash,
                GameStops, GameExits, files, vars
  <2>2. QED
    BY <2>1
<1>3. QED
  BY <1>1, <1>2

\* A key stays bound to the request whose receipt it holds.
THEOREM BindingsStableTheorem == Spec => BindingsStable
<1>1. ReceiptProtocol /\ [Next]_vars =>
        [\A p \in Path : receipts[p] # None => receipts'[p] = receipts[p]]_receipts
  BY BoundStays
<1>2. QED
  BY <1>1, ReceiptProtocolTheorem, PTL DEF Spec, BindingsStable

\* Every variable keeps its type, for any number of requests and faults.
THEOREM TypeCorrect == Spec => []TypeOK
<1>1. ReceiptProtocol => TypeOK
  BY DEF ReceiptProtocol
<1>2. QED
  BY <1>1, ReceiptProtocolTheorem, PTL

-----------------------------------------------------------------------------
(***************************************************************************)
(* What has become of an attempt's effects: the saving that is off belongs *)
(* to the attempt that will restart the server, the flag file that is      *)
(* needed is there until that restart, and every effect on record is       *)
(* accounted for by an attempt that broke off or by the one that did not.  *)
(***************************************************************************)
Recorded(r) == receipts[PathOf(r)] = r
Completing(r) == active = r /\ phase \in {"temp", "rename"}
Staged(r) == active = r /\ phase = "effects" /\ step = Len(StepsOf(r))

SavingAccounted ==
    ~autosave => \/ /\ active \in Request /\ ActionOf[active] = "regenerate"
                    /\ phase = "effects" /\ step > 1
                 \/ \E r \in Request : ActionOf[r] = "regenerate" /\ broken[r] > 0

FlagsAwaitRestart ==
    \A r \in Replacing :
        /\ Staged(r) => r \in flag
        /\ Completing(r) \/ Recorded(r) => applied[r] > 0

RunsAccounted ==
    \A r \in Request :
        ran[r] =< broken[r] + (IF Recorded(r) \/ Completing(r) THEN 1 ELSE 0)

ReplacementsAccounted ==
    \A r \in Request :
        IF r \in Replacing
        THEN applied[r] + (IF r \in flag THEN 1 ELSE 0) =<
             broken[r] + (IF Recorded(r) \/ Completing(r) \/ Staged(r) THEN 1 ELSE 0)
        ELSE applied[r] = 0

EffectsAccounted ==
    SavingAccounted /\ FlagsAwaitRestart /\ RunsAccounted /\ ReplacementsAccounted

\* Where the docker calls that matter stand in the lists: a world is staged just
\* before the restart that ends the list, saving is switched off at its start.
LEMMA StepsOrder ==
    ASSUME NEW r \in Request
    PROVE  /\ Len(StepsOf(r)) \in Nat \ {0}
           /\ \A i \in 1 .. Len(StepsOf(r)) :
                 /\ StepsOf(r)[i] = "stage" <=> r \in Replacing /\ i = Len(StepsOf(r)) - 1
                 /\ StepsOf(r)[i] = "saveOff" => ActionOf[r] = "regenerate" /\ i = 1
           /\ r \in Replacing => /\ Len(StepsOf(r)) > 1
                                 /\ StepsOf(r)[Len(StepsOf(r))] = "restart"
<1>1. ActionOf[r] \in Action
  BY EffectsAssumption
<1>2. CASE ActionOf[r] \in {"reconfigure", "suspend", "resume", "exec"}
  <2>1. \/ StepsOf(r) = <<"command", "command">> \/ StepsOf(r) = <<"command", "stop">>
        \/ StepsOf(r) = <<"restart">> \/ StepsOf(r) = <<"command">>
    BY <1>2 DEF StepsOf, Steps
  <2>2. r \notin Replacing
    BY <1>2 DEF Replacing
  <2>3. Len(StepsOf(r)) \in Nat \ {0}
    BY <2>1
  <2>4. \A i \in 1 .. Len(StepsOf(r)) : StepsOf(r)[i] # "stage" /\ StepsOf(r)[i] # "saveOff"
    BY <2>1
  <2>5. QED
    BY <2>2, <2>3, <2>4
<1>3. CASE ActionOf[r] = "regenerate"
  <2>1. StepsOf(r) = <<"saveOff", "command", "stage", "restart">> /\ r \in Replacing
    BY <1>3 DEF StepsOf, Steps, Replacing
  <2>2. QED
    BY <1>3, <2>1
<1>4. CASE ActionOf[r] = "restore"
  <2>1. StepsOf(r) = <<"stage", "restart">> /\ r \in Replacing
    BY <1>4 DEF StepsOf, Steps, Replacing
  <2>2. QED
    BY <2>1
<1>5. QED
  BY <1>1, <1>2, <1>3, <1>4 DEF Action

\* What is on its way to become a new world, with what has become one.
Pending(r) == applied[r] + (IF r \in flag THEN 1 ELSE 0)

\* What a docker call adds to the account of each request.
LEMMA PerformAccounted ==
    ASSUME TypeOK, active \in Request, NEW effect, Perform(effect)
    PROVE  /\ \A r \in Request :
                /\ Pending(r)' =< Pending(r) + (IF effect = "stage" /\ r = active THEN 1 ELSE 0)
                /\ applied'[r] >= applied[r]
                /\ effect = "restart" /\ r \in flag => applied'[r] > 0
           /\ effect = "stage" => active \in flag'
           /\ ~autosave' => effect # "restart" /\ (~autosave \/ effect = "saveOff")
<1> USE DEF TypeOK, Pending
<1>1. CASE effect = "command" /\ Command
  BY <1>1 DEF Command, world
<1>2. CASE effect = "stop" /\ Stop
  BY <1>2 DEF Stop
<1>3. CASE effect = "saveOff" /\ SaveOff
  BY <1>3 DEF SaveOff
<1>4. CASE effect = "stage" /\ Stage
  BY <1>4 DEF Stage
<1>5. CASE effect = "restart" /\ StartGame
  <2>1. autosave' /\ flag' = {}
    BY <1>5 DEF StartGame
  <2>2. \A r \in Request : applied'[r] = Pending(r) /\ applied[r] \in Nat
    BY <1>5 DEF StartGame
  <2>3. QED
    BY <1>5, <2>1, <2>2
<1>6. QED
  BY <1>1, <1>2, <1>3, <1>4, <1>5 DEF Perform

LEMMA AccountsInit == Init => EffectsAccounted
BY EffectsAssumption, StepsOrder
   DEF Init, EffectsAccounted, SavingAccounted, FlagsAwaitRestart, RunsAccounted,
       ReplacementsAccounted, Recorded, Completing, Staged, Path, PathOf, Replacing

\* An attempt that ends without a receipt is on the account, if it had an effect.
LEMMA AccountsGiveUp ==
    ASSUME ReceiptProtocol, EffectsAccounted, active \in Request, GiveUp,
           UNCHANGED <<flag, autosave, applied, ran, receipts>>
    PROVE  EffectsAccounted'
<1>a. TypeOK
  BY DEF ReceiptProtocol
<1>b. /\ active' = None /\ phase' = "idle"
      /\ broken' = IF Started THEN [broken EXCEPT ![active] = @ + 1] ELSE broken
  BY DEF GiveUp, Finish
<1>c. \A r \in Request :
         /\ Recorded(r)' = Recorded(r) /\ ~Completing(r)' /\ ~Staged(r)'
         /\ broken[r] \in Nat /\ broken'[r] \in Nat /\ broken'[r] >= broken[r]
         /\ r = active /\ Started => broken'[r] = broken[r] + 1
  BY <1>a, <1>b, EffectsAssumption DEF TypeOK, Recorded, Completing, Staged, PathOf
<1>d. \A r \in Request : Completing(r) \/ (r \in Replacing /\ Staged(r)) => r = active /\ Started
  BY StepsOrder DEF Completing, Staged, Started
<1>1. SavingAccounted'
  <2>1. autosave' = autosave
    OBVIOUS
  <2>2. CASE active \in Request /\ ActionOf[active] = "regenerate" /\ phase = "effects" /\ step > 1
    <3>1. broken'[active] > 0
      BY <1>c, <2>2 DEF Started
    <3>2. QED
      BY <2>2, <3>1 DEF SavingAccounted
  <2>3. CASE \E r \in Request : ActionOf[r] = "regenerate" /\ broken[r] > 0
    BY <1>c, <2>3 DEF SavingAccounted
  <2>4. QED
    BY <2>1, <2>2, <2>3 DEF EffectsAccounted, SavingAccounted
<1>2. FlagsAwaitRestart'
  BY <1>c DEF EffectsAccounted, FlagsAwaitRestart, Replacing
<1>3. RunsAccounted'
  BY <1>a, <1>c, <1>d DEF EffectsAccounted, RunsAccounted, TypeOK
<1>4. ReplacementsAccounted'
  <2>1. \A r \in Request : applied[r] \in Nat
    BY <1>a DEF TypeOK
  <2>2. QED
    BY <1>c, <1>d, <2>1 DEF EffectsAccounted, ReplacementsAccounted
<1>5. QED
  BY <1>1, <1>2, <1>3, <1>4 DEF EffectsAccounted

\* A docker call of the handler, which goes on to the next or to its receipt.
LEMMA AccountsEffect ==
    ASSUME ReceiptProtocol, EffectsAccounted, Effect
    PROVE  EffectsAccounted'
<1> DEFINE effect == StepsOf(active)[step]
<1>a. TypeOK
  BY DEF ReceiptProtocol
<1>b. /\ phase = "effects" /\ active \in Request /\ active' = active
      /\ step \in 1 .. Len(StepsOf(active)) /\ Len(StepsOf(active)) \in Nat \ {0}
      /\ UNCHANGED <<receipts, broken>>
      /\ Perform(effect)
  BY <1>a, StepsOrder DEF Effect, TypeOK, files
<1>c. /\ \A r \in Request :
           /\ Pending(r)' =< Pending(r) + (IF effect = "stage" /\ r = active THEN 1 ELSE 0)
           /\ applied'[r] >= applied[r]
           /\ effect = "restart" /\ r \in flag => applied'[r] > 0
      /\ effect = "stage" => active \in flag'
      /\ ~autosave' => effect # "restart" /\ (~autosave \/ effect = "saveOff")
  <2> HIDE DEF effect
  <2>1. QED
    BY <1>a, <1>b, PerformAccounted
<1>d. /\ effect = "stage" <=> active \in Replacing /\ step = Len(StepsOf(active)) - 1
      /\ effect = "saveOff" => ActionOf[active] = "regenerate" /\ step = 1
      /\ active \in Replacing => Len(StepsOf(active)) > 1
                               /\ (step = Len(StepsOf(active)) => effect = "restart")
  BY <1>b, StepsOrder
<1>e. \A r \in Request :
         /\ Recorded(r)' = Recorded(r)
         /\ ~Completing(r)
         /\ r = active => ~Recorded(r)
         /\ r # active => ~Completing(r)' /\ ~Staged(r) /\ ~Staged(r)'
  BY <1>a, <1>b, EffectsAssumption DEF ReceiptProtocol, Recorded, Completing, Staged, PathOf
<1>f. \A r \in Request : applied[r] \in Nat /\ broken[r] \in Nat /\ ran[r] \in Nat
  BY <1>a DEF TypeOK
<1>t. flag' \subseteq Replacing /\ applied' \in [Request -> Nat]
  <2>1. effect = "stage" => active \in Replacing
    BY <1>d
  <2> HIDE DEF effect
  <2>2. QED
    BY <1>a, <1>b, <2>1, PerformKeepsTypes
<1>g. \A r \in Replacing : r \in Request
  BY DEF Replacing
<1>1. CASE step < Len(StepsOf(active))
  <2>1. step' = step + 1 /\ phase' = phase /\ ran' = ran
    BY <1>1 DEF Effect
  <2>2. \A r \in Request : r = active =>
           /\ ~Completing(r)' /\ ~Staged(r)
           /\ Staged(r)' <=> step + 1 = Len(StepsOf(active))
    BY <1>b, <1>1, <2>1 DEF Completing, Staged
  <2>3. \A r \in Replacing : r = active => (Staged(r)' <=> effect = "stage")
    BY <1>b, <1>d, <1>g, <2>2
  <2> HIDE DEF effect
  <2>4. SavingAccounted'
    <3>1. CASE ~autosave
      BY <1>b, <2>1, <3>1 DEF EffectsAccounted, SavingAccounted
    <3>2. CASE effect = "saveOff"
      BY <1>b, <1>d, <2>1, <3>2 DEF SavingAccounted
    <3>3. QED
      BY <1>c, <3>1, <3>2 DEF SavingAccounted
  <2>5. FlagsAwaitRestart'
    BY <1>c, <1>e, <1>f, <1>g, <1>t, <2>2, <2>3 DEF EffectsAccounted, FlagsAwaitRestart
  <2>6. RunsAccounted'
    BY <1>b, <1>e, <2>1, <2>2 DEF EffectsAccounted, RunsAccounted
  <2>7. ReplacementsAccounted'
    <3> SUFFICES ASSUME NEW r \in Request
                 PROVE IF r \in Replacing
                       THEN Pending(r)' =< broken[r] +
                              (IF Recorded(r)' \/ Completing(r)' \/ Staged(r)' THEN 1 ELSE 0)
                       ELSE applied'[r] = 0
      BY <1>b DEF ReplacementsAccounted, Pending
    <3>1. applied'[r] \in Nat /\ applied[r] \in Nat /\ broken[r] \in Nat
      BY <1>f, <1>t
    <3>2. CASE r \in Replacing
      <4>1. Pending(r) =< broken[r] + (IF Recorded(r) \/ Completing(r) \/ Staged(r) THEN 1 ELSE 0)
        BY <3>2 DEF EffectsAccounted, ReplacementsAccounted, Pending
      <4>2. CASE r = active
        BY <1>c, <1>e, <2>2, <2>3, <3>1, <3>2, <4>1, <4>2 DEF Pending
      <4>3. CASE r # active
        BY <1>c, <1>e, <3>1, <3>2, <4>1, <4>3 DEF Pending
      <4>4. QED
        BY <4>2, <4>3
    <3>3. CASE r \notin Replacing
      <4>1. applied[r] = 0 /\ r \notin flag /\ r \notin flag'
        BY <1>a, <1>t, <3>3 DEF EffectsAccounted, ReplacementsAccounted, TypeOK
      <4>2. effect = "stage" => r # active
        BY <1>d, <3>3
      <4>3. Pending(r)' =< Pending(r)
        BY <1>c, <3>1, <4>1, <4>2 DEF Pending
      <4>4. QED
        BY <3>1, <3>3, <4>1, <4>3 DEF Pending
    <3>4. QED
      BY <3>2, <3>3
  <2>8. QED
    BY <2>4, <2>5, <2>6, <2>7 DEF EffectsAccounted
<1>2. CASE ~(step < Len(StepsOf(active)))
  <2>1. /\ step = Len(StepsOf(active))
        /\ phase' = "temp" /\ ran' = [ran EXCEPT ![active] = @ + 1]
    BY <1>b, <1>2 DEF Effect
  <2>2. \A r \in Request : r = active => Completing(r)' /\ ~Staged(r)' /\ Staged(r)
    BY <1>b, <2>1 DEF Completing, Staged
  <2>3. active \in Replacing => effect = "restart" /\ effect # "stage"
    BY <1>b, <1>d, <2>1
  <2>4. effect # "stage"
    BY <1>b, <1>d, <2>1
  <2> HIDE DEF effect
  <2>5. SavingAccounted'
    <3> SUFFICES ASSUME ~autosave' PROVE \E r \in Request : ActionOf[r] = "regenerate" /\ broken[r] > 0
      BY <1>b DEF SavingAccounted
    <3>1. ActionOf[active] # "regenerate"
      BY <1>b, <1>c, <2>3 DEF Replacing
    <3>2. ~autosave
      BY <1>c, <1>d, <3>1
    <3>3. QED
      BY <3>1, <3>2 DEF EffectsAccounted, SavingAccounted
  <2>6. FlagsAwaitRestart'
    BY <1>c, <1>e, <1>f, <1>g, <1>t, <2>2, <2>3 DEF EffectsAccounted, FlagsAwaitRestart
  <2>7. RunsAccounted'
    BY <1>b, <1>e, <1>f, <2>1, <2>2 DEF EffectsAccounted, RunsAccounted
  <2>8. ReplacementsAccounted'
    <3> SUFFICES ASSUME NEW r \in Request
                 PROVE IF r \in Replacing
                       THEN Pending(r)' =< broken[r] +
                              (IF Recorded(r)' \/ Completing(r)' \/ Staged(r)' THEN 1 ELSE 0)
                       ELSE applied'[r] = 0
      BY <1>b DEF ReplacementsAccounted, Pending
    <3>1. applied'[r] \in Nat /\ applied[r] \in Nat /\ broken[r] \in Nat /\ Pending(r)' =< Pending(r)
      BY <1>c, <1>f, <1>t, <2>4 DEF Pending
    <3>2. CASE r \in Replacing
      <4>1. Pending(r) =< broken[r] + (IF Recorded(r) \/ Completing(r) \/ Staged(r) THEN 1 ELSE 0)
        BY <3>2 DEF EffectsAccounted, ReplacementsAccounted, Pending
      <4>2. QED
        BY <1>e, <2>2, <3>1, <3>2, <4>1 DEF Pending
    <3>3. CASE r \notin Replacing
      <4>1. applied[r] = 0 /\ r \notin flag /\ r \notin flag'
        BY <1>a, <1>t, <3>3 DEF EffectsAccounted, ReplacementsAccounted, TypeOK
      <4>2. QED
        BY <3>1, <3>3, <4>1 DEF Pending
    <3>4. QED
      BY <3>2, <3>3
  <2>9. QED
    BY <2>5, <2>6, <2>7, <2>8 DEF EffectsAccounted
<1>3. QED
  BY <1>1, <1>2

\* A docker call that has its effect although the cell crashed.
LEMMA AccountsCrash ==
    ASSUME ReceiptProtocol, EffectsAccounted, phase = "effects", active \in Request, Finish,
           Perform(StepsOf(active)[step]),
           broken' = [broken EXCEPT ![active] = @ + 1],
           ran' = ran \/ ran' = [ran EXCEPT ![active] = @ + 1],
           UNCHANGED receipts
    PROVE  EffectsAccounted'
<1> DEFINE effect == StepsOf(active)[step]
<1>a. TypeOK
  BY DEF ReceiptProtocol
<1>b. /\ step \in 1 .. Len(StepsOf(active)) /\ Len(StepsOf(active)) \in Nat \ {0}
      /\ effect = "stage" => active \in Replacing /\ step = Len(StepsOf(active)) - 1
      /\ effect = "saveOff" => ActionOf[active] = "regenerate"
  BY <1>a, StepsOrder, EffectsAssumption DEF TypeOK
<1>c. /\ \A r \in Request :
           /\ Pending(r)' =< Pending(r) + (IF effect = "stage" /\ r = active THEN 1 ELSE 0)
           /\ applied'[r] >= applied[r]
      /\ ~autosave' => ~autosave \/ effect = "saveOff"
  <2> HIDE DEF effect
  <2>1. Perform(effect)
    BY DEF effect
  <2>2. QED
    BY <1>a, <2>1, PerformAccounted
<1>d. flag' \subseteq Replacing /\ applied' \in [Request -> Nat]
  <2>1. effect = "stage" => active \in Replacing
    BY <1>b
  <2>2. Perform(effect)
    OBVIOUS
  <2> HIDE DEF effect
  <2>3. QED
    BY <1>a, <2>1, <2>2, PerformKeepsTypes
<1>e. \A r \in Request :
         /\ Recorded(r)' = Recorded(r) /\ ~Completing(r) /\ ~Completing(r)' /\ ~Staged(r)'
         /\ Staged(r) => r = active /\ effect # "stage"
         /\ r = active => ~Recorded(r)
         /\ applied[r] \in Nat /\ broken[r] \in Nat /\ ran[r] \in Nat
         /\ broken'[r] = broken[r] + (IF r = active THEN 1 ELSE 0)
  <2>1. active # None /\ receipts[PathOf(active)] = None /\ active' = None
    BY EffectsAssumption DEF ReceiptProtocol, Finish
  <2>2. \A r \in Request : Staged(r) => r = active /\ effect # "stage"
    BY <1>b DEF Staged
  <2>3. \A r \in Request : Recorded(r)' = Recorded(r) /\ (r = active => ~Recorded(r))
    BY <2>1, EffectsAssumption DEF Recorded, PathOf
  <2>4. \A r \in Request : ~Completing(r) /\ ~Completing(r)' /\ ~Staged(r)'
    BY <2>1, EffectsAssumption DEF Completing, Staged, Finish
  <2>5. QED
    BY <1>a, <2>2, <2>3, <2>4 DEF TypeOK
<1>g. \A r \in Replacing : r \in Request
  BY DEF Replacing
<1>f. \A r \in Request : ran'[r] = ran[r] \/ (r = active /\ ran'[r] = ran[r] + 1)
  BY <1>a DEF TypeOK
<1> HIDE DEF effect
<1>1. SavingAccounted'
  BY <1>b, <1>c, <1>e DEF EffectsAccounted, SavingAccounted
<1>2. FlagsAwaitRestart'
  BY <1>c, <1>d, <1>e, <1>g DEF EffectsAccounted, FlagsAwaitRestart
<1>3. RunsAccounted'
  BY <1>e, <1>f DEF EffectsAccounted, RunsAccounted
<1>4. ReplacementsAccounted'
  <2> SUFFICES ASSUME NEW r \in Request
               PROVE IF r \in Replacing
                     THEN Pending(r)' =< broken'[r] +
                            (IF Recorded(r)' \/ Completing(r)' \/ Staged(r)' THEN 1 ELSE 0)
                     ELSE applied'[r] = 0
    BY DEF ReplacementsAccounted, Pending
  <2>1. applied'[r] \in Nat /\ applied[r] \in Nat /\ broken[r] \in Nat
    BY <1>d, <1>e
  <2>2. CASE r \in Replacing
    <3>1. Pending(r) =< broken[r] + (IF Recorded(r) \/ Completing(r) \/ Staged(r) THEN 1 ELSE 0)
      BY <2>2 DEF EffectsAccounted, ReplacementsAccounted, Pending
    <3>2. QED
      BY <1>c, <1>e, <2>1, <2>2, <3>1 DEF Pending
  <2>3. CASE r \notin Replacing
    <3>1. applied[r] = 0 /\ r \notin flag /\ r \notin flag'
      BY <1>a, <1>d, <2>3 DEF EffectsAccounted, ReplacementsAccounted, TypeOK
    <3>2. effect = "stage" => r # active
      BY <1>b, <2>3
    <3>3. QED
      BY <1>c, <2>1, <2>3, <3>1, <3>2 DEF Pending
  <2>4. QED
    BY <2>2, <2>3
<1>5. QED
  BY <1>1, <1>2, <1>3, <1>4 DEF EffectsAccounted

LEMMA AccountsStep == ReceiptProtocol /\ EffectsAccounted /\ [Next]_vars => EffectsAccounted'
<1> SUFFICES ASSUME ReceiptProtocol, EffectsAccounted, [Next]_vars PROVE EffectsAccounted'
  OBVIOUS
<1>a. TypeOK
  BY DEF ReceiptProtocol
<1>b. phase # "idle" => active \in Request
  BY <1>a DEF TypeOK
<1>c. Replacing \subseteq Request /\ None \notin Request
  BY EffectsAssumption DEF Replacing
\* The world, the history and the receipts stay, and so does the place of the handler.
<1>d. ASSUME UNCHANGED <<active, step, receipts, applied, ran, broken, flag, autosave>>,
             phase' = phase \/ (phase = "temp" /\ phase' = "rename")
      PROVE  EffectsAccounted'
  BY <1>d, <1>c DEF EffectsAccounted, SavingAccounted, FlagsAwaitRestart, RunsAccounted,
                   ReplacementsAccounted, Recorded, Completing, Staged, PathOf
<1>1. ASSUME NEW r \in Request, Begin(r) PROVE EffectsAccounted'
  <2>1. /\ active = None /\ active' = r /\ step' = 1 /\ phase' = "effects"
        /\ UNCHANGED <<receipts, applied, ran, broken, flag, autosave>>
    BY <1>1 DEF Begin, Idle, world, files, history
  <2>2. \A s \in Request : /\ Recorded(s)' = Recorded(s) /\ ~Completing(s) /\ ~Completing(s)'
                           /\ ~Staged(s)
    BY <1>c, <2>1 DEF Recorded, Completing, Staged, PathOf
  <2>3. \A s \in Replacing : ~Staged(s)'
    BY <1>c, <2>1, StepsOrder DEF Staged, StepsOf
  <2>4. QED
    BY <1>c, <2>1, <2>2, <2>3
       DEF EffectsAccounted, SavingAccounted, FlagsAwaitRestart, RunsAccounted, ReplacementsAccounted
<1>2. CASE Effect
  BY <1>2, AccountsEffect
<1>3. CASE EffectFails
  BY <1>3, <1>b, AccountsGiveUp DEF EffectFails, world, files
<1>4. CASE StoreFails
  BY <1>4, <1>b, AccountsGiveUp DEF StoreFails, world, files
<1>5. CASE WriteTemp
  BY <1>5, <1>d DEF WriteTemp, world, history
\* The account passes from the attempt to its receipt.
<1>6. CASE Rename
  <2>1. /\ active \in Request /\ receipts[PathOf(active)] = None
        /\ receipts' = [receipts EXCEPT ![PathOf(active)] = active]
        /\ PathOf(active) \in Path
    BY <1>6, <1>b, <1>c, FilesExist DEF Rename, ReceiptProtocol
  <2>2. /\ active' = None /\ phase = "rename" /\ phase' = "idle"
        /\ UNCHANGED <<applied, ran, broken, flag, autosave>>
    BY <1>6 DEF Rename, Finish, world, history
  <2>3. \A r \in Request : ~Completing(r)' /\ ~Staged(r) /\ ~Staged(r)'
    BY <1>c, <2>2 DEF Completing, Staged
  <2>4. ASSUME NEW r \in Request
        PROVE  Recorded(r)' <=> (Recorded(r) \/ Completing(r))
    <3>1. PathOf(r) \in Path /\ receipts \in [Path -> Request \cup {None, Torn}] /\ PathOf(r)' = PathOf(r)
      BY <1>a, FilesExist DEF TypeOK, PathOf
    <3>2. receipts'[PathOf(r)] = IF PathOf(r) = PathOf(active) THEN active ELSE receipts[PathOf(r)]
      BY <2>1, <3>1
    <3>3. Completing(r) <=> active = r
      BY <2>2 DEF Completing
    <3>4. QED
      BY <1>c, <2>1, <3>1, <3>2, <3>3 DEF Recorded
  <2>5. QED
    BY <1>c, <2>2, <2>3, <2>4
       DEF EffectsAccounted, SavingAccounted, FlagsAwaitRestart, RunsAccounted, ReplacementsAccounted
<1>7. CASE Crash
  <2>1. active \in Request
    BY <1>7, <1>a DEF Crash, Idle, TypeOK
  <2>2. CASE GiveUp /\ UNCHANGED <<flag, autosave, applied, ran, receipts>>
    BY <2>1, <2>2, AccountsGiveUp
  <2>3. CASE /\ phase = "effects" /\ Perform(StepsOf(active)[step])
             /\ broken' = [broken EXCEPT ![active] = @ + 1]
             /\ ran' = ran \/ ran' = [ran EXCEPT ![active] = @ + 1]
    BY <1>7, <2>1, <2>3, AccountsCrash DEF Crash
  <2>4. QED
    BY <1>7, <2>2, <2>3 DEF Crash, GiveUp, world
<1>8. CASE GameStops \/ GameExits
  BY <1>8, <1>d DEF GameStops, GameExits, files, history
<1>9. CASE UNCHANGED vars
  BY <1>9, <1>d DEF vars
<1>10. QED
  BY <1>1, <1>2, <1>3, <1>4, <1>5, <1>6, <1>7, <1>8, <1>9 DEF Next

LEMMA AccountsAlways == Spec => []EffectsAccounted
BY AccountsInit, AccountsStep, ReceiptProtocolTheorem, PTL DEF Spec

\* Effects are repeated only for attempts that broke off without a receipt
\* (fleet_lifecycle_routes.go, the lookup of the receipt before the effects).
THEOREM RepeatsAreForBreaksTheorem == Spec => []RepeatsAreForBreaks
<1>1. ReceiptProtocol /\ EffectsAccounted => RepeatsAreForBreaks
  <2> SUFFICES ASSUME TypeOK, EffectsAccounted, NEW r \in Request
               PROVE  ran[r] =< 1 + broken[r] /\ applied[r] =< 1 + broken[r]
    BY DEF ReceiptProtocol, RepeatsAreForBreaks
  <2>1. ran[r] \in Nat /\ applied[r] \in Nat /\ broken[r] \in Nat
    BY DEF TypeOK
  <2>2. QED
    BY <2>1 DEF EffectsAccounted, RunsAccounted, ReplacementsAccounted
<1>2. QED
  BY <1>1, ReceiptProtocolTheorem, AccountsAlways, PTL

\* A world replacement with a receipt has taken place, and not just been staged
\* (the order of the docker calls in runRegenerate and the world transfers).
THEOREM ReceiptMeansReplacedTheorem == Spec => []ReceiptMeansReplaced
<1>1. EffectsAccounted => ReceiptMeansReplaced
  BY DEF EffectsAccounted, FlagsAwaitRestart, Recorded, ReceiptMeansReplaced
<1>2. QED
  BY <1>1, AccountsAlways, PTL

\* The game saves its world whenever no regeneration is under way or broke off:
\* the restart that ends the regeneration switches saving on again.
THEOREM AutosaveIsBackTheorem == Spec => []AutosaveIsBack
<1>1. EffectsAccounted => AutosaveIsBack
  BY EffectsAssumption DEF EffectsAccounted, SavingAccounted, AutosaveIsBack
<1>2. QED
  BY <1>1, AccountsAlways, PTL
=============================================================================
