------------------------ MODULE ArchiveSourceProofs ------------------------
(***************************************************************************)
(* Theorems about ArchiveSource, for every set of calls, servers, files    *)
(* and requests.                                                           *)
(*                                                                         *)
(* The argument: from the answer to its save-off to its own save-on, a     *)
(* backup that nobody undercuts finds saving off, and from the answer to   *)
(* its flush the files on disk are good (Protected).  Its own save-on is   *)
(* not on the way before it gave up or has fetched the world (Sane); the   *)
(* files read so far are as on disk, since the cell obeys no command in    *)
(* the middle of a zip.                                                    *)
(***************************************************************************)
EXTENDS ArchiveSource, TLAPS

Partial == UNION {[S -> 0 .. MaxVersion] : S \in SUBSET File}

Typed ==
    /\ asked \in [Call -> Request \cup {None}]
    /\ pc \in [Call -> Waiting \cup {"idle", "delay", "ended"}]
    /\ staged \in [Call -> Content \cup {None}]
    /\ result \in [Call -> {"none", "snapshot", "cleaned", "error"}]
    /\ queue \in Seq([call : Call, cmd : Waiting])
    /\ walk \in [call : Call, read : Partial] \cup {None}
    /\ answer \in [Call -> [ok : BOOLEAN, body : Content \cup {None}] \cup {None}]
    /\ saving \in [Server -> BOOLEAN]
    /\ memory \in [Server -> 0 .. MaxVersion]
    /\ disk \in [Server -> Content \cup {None}]
    /\ begun \in [Call -> Nat]
    /\ crossed \subseteq Call /\ restored \subseteq Call /\ unrestored \subseteq Call

\* Requests on the way belong to a call that has begun; its save-on is the last.
Sane(c) ==
    /\ pc[c] \in Waiting \cup {"delay"} => asked[c] \in Request
    /\ \A i \in 1 .. Len(queue) : queue[i].call = c =>
          /\ pc[c] # "idle" /\ asked[c] \in Request
          /\ queue[i].cmd = "get" => pc[c] \in {"get", "on", "ended"}
          /\ queue[i].cmd = "on" => pc[c] \in {"on", "ended"}
    /\ walk # None /\ walk.call = c =>
          pc[c] \in {"get", "on", "ended"} /\ asked[c] \in Request /\ disk[ServerOf(c)] # None

Honest(c) ==
    /\ pc[c] # "ended" => result[c] = "none" /\ c \notin unrestored
    /\ pc[c] = "on" /\ Answered(c, TRUE) => c \in restored
    /\ result[c] = "snapshot" /\ IsBackup(c) => c \in restored /\ c \notin unrestored
    /\ staged[c] # None => pc[c] = "on" \/ (pc[c] = "ended" /\ result[c] = "snapshot")

\* What a backup may be made of.
Good(c, content) ==
    /\ \A f \in File : content[f] >= begun[c]
    /\ c \notin crossed => Whole(content)

SavingIsOff(c) == pc[c] \in {"flush", "delay", "get"} \/ (pc[c] = "off" /\ Answered(c, TRUE))
IsFlushed(c) == pc[c] \in {"delay", "get"} \/ (pc[c] = "flush" /\ Answered(c, TRUE))

Protected(c) ==
    IsBackup(c) =>
        /\ begun[c] =< memory[ServerOf(c)]
        /\ c \notin crossed /\ SavingIsOff(c) => ~saving[ServerOf(c)]
        /\ IsFlushed(c) => disk[ServerOf(c)] = None \/ Good(c, disk[ServerOf(c)])
        /\ pc[c] = "get" /\ walk # None /\ walk.call = c =>
              \A f \in DOMAIN walk.read :
                  /\ walk.read[f] >= begun[c]
                  /\ c \notin crossed => walk.read[f] = disk[ServerOf(c)][f]
        /\ pc[c] = "get" /\ Answered(c, TRUE) => Good(c, answer[c].body)
        /\ staged[c] # None => Good(c, staged[c])

Mine(c) == Sane(c) /\ Honest(c) /\ Protected(c)

IInv == Typed /\ \A c \in Call : Mine(c)

LEMMA InitEstablishes == Init => IInv
<1> SUFFICES ASSUME Init PROVE IInv
  OBVIOUS
<1>1. Typed
  BY ArchiveAssumption DEF Init, Typed, Content
<1>2. \A c \in Call : Mine(c)
  BY DEF Init, Mine, Sane, Honest, Protected, IsBackup, SavingIsOff, IsFlushed, Waiting
<1>3. QED
  BY <1>1, <1>2 DEF IInv

-----------------------------------------------------------------------------
(***************************************************************************)
(* The callers.                                                            *)
(***************************************************************************)
\* A request is queued or lost.
LEMMA SendEffect ==
    ASSUME Typed, NEW c \in Call, NEW cmd \in Waiting, Send(c, cmd)
    PROVE  /\ queue' \in Seq([call : Call, cmd : Waiting])
           /\ \A i \in 1 .. Len(queue') :
                 \/ i \in 1 .. Len(queue) /\ queue'[i] = queue[i]
                 \/ queue'[i] = [call |-> c, cmd |-> cmd]
           /\ pc' = [pc EXCEPT ![c] = cmd] /\ pc'[c] = cmd
           /\ answer' = [answer EXCEPT ![c] = None] /\ answer'[c] = None
<1>1. CASE queue' = queue
  BY <1>1 DEF Typed, Send
<1>2. CASE queue' = Append(queue, [call |-> c, cmd |-> cmd])
  <2>1. [call |-> c, cmd |-> cmd] \in [call : Call, cmd : Waiting]
    OBVIOUS
  <2>2. queue \in Seq([call : Call, cmd : Waiting])
    BY DEF Typed
  <2>3. /\ queue' \in Seq([call : Call, cmd : Waiting])
        /\ Len(queue') = Len(queue) + 1
        /\ \A i \in 1 .. Len(queue) : queue'[i] = queue[i]
        /\ queue'[Len(queue) + 1] = [call |-> c, cmd |-> cmd]
    BY <1>2, <2>1, <2>2
  <2>4. QED
    BY <2>2, <2>3 DEF Typed, Send
<1>3. QED
  BY <1>1, <1>2 DEF Send

\* A step of one caller is nothing to the others.
LEMMA OthersKeep ==
    ASSUME IInv, NEW c \in Call, NEW d \in Call, d # c,
           asked'[d] = asked[d], pc'[d] = pc[d], staged'[d] = staged[d],
           result'[d] = result[d], answer'[d] = answer[d], begun'[d] = begun[d],
           \A i \in 1 .. Len(queue') :
              \/ i \in 1 .. Len(queue) /\ queue'[i] = queue[i]
              \/ queue'[i].call = c,
           UNCHANGED <<walk, game, crossed, restored>>,
           unrestored' \in {unrestored, unrestored \cup {c}}
    PROVE  Mine(d)'
<1>1. UNCHANGED <<walk, saving, memory, disk, crossed, restored>>
  BY DEF game
<1>2. Sane(d)'
  BY <1>1 DEF IInv, Mine, Sane, ServerOf
<1>3. Honest(d)'
  BY <1>1 DEF IInv, Mine, Honest, Answered, IsBackup
<1>4. Protected(d)'
  BY <1>1 DEF IInv, Mine, Protected, SavingIsOff, IsFlushed, Answered, IsBackup, ServerOf, Good, Whole
<1>5. QED
  BY <1>2, <1>3, <1>4 DEF Mine

\* A caller that has begun sends a command.
LEMMA SendPreserves ==
    ASSUME IInv, NEW c \in Call, NEW cmd \in Waiting, Send(c, cmd),
           pc[c] \in {"off", "flush", "delay", "get", "delete"},
           \/ cmd = "flush" /\ pc[c] = "off"
           \/ cmd = "get" /\ pc[c] \in {"flush", "delay"}
           \/ cmd = "on",
           NEW content \in Content \cup {None}, staged' = [staged EXCEPT ![c] = content],
           content # None => cmd = "on" /\ (IsBackup(c) => Good(c, content)),
           IsBackup(c) /\ cmd \in {"flush", "get"} => SavingIsOff(c),
           IsBackup(c) /\ cmd = "get" => IsFlushed(c),
           UNCHANGED <<asked, result, walk, game, history>>
    PROVE  IInv'
<1>1. /\ queue' \in Seq([call : Call, cmd : Waiting])
      /\ \A i \in 1 .. Len(queue') :
            \/ i \in 1 .. Len(queue) /\ queue'[i] = queue[i]
            \/ queue'[i] = [call |-> c, cmd |-> cmd]
      /\ pc' = [pc EXCEPT ![c] = cmd] /\ pc'[c] = cmd
      /\ answer' = [answer EXCEPT ![c] = None] /\ answer'[c] = None
  BY SendEffect DEF IInv
<1>2. UNCHANGED <<asked, result, walk, saving, memory, disk, begun, crossed, restored, unrestored>>
  BY DEF game, history
<1>3. Typed'
  BY <1>1, <1>2 DEF IInv, Typed
<1>4. Sane(c)'
  <2>1. asked[c] \in Request
    BY DEF IInv, Mine, Sane, Waiting
  <2>2. ASSUME NEW i \in 1 .. Len(queue'), queue'[i].call = c
        PROVE  /\ queue'[i].cmd = "get" => cmd \in {"get", "on", "ended"}
               /\ queue'[i].cmd = "on" => cmd \in {"on", "ended"}
    <3>1. CASE i \in 1 .. Len(queue) /\ queue'[i] = queue[i]
      BY <2>2, <3>1 DEF IInv, Mine, Sane
    <3>2. CASE queue'[i] = [call |-> c, cmd |-> cmd]
      BY <3>2
    <3>3. QED
      BY <1>1, <3>1, <3>2
  <2>3. walk # None /\ walk.call = c => cmd = "on" /\ disk[ServerOf(c)] # None
    BY DEF IInv, Mine, Sane
  <2>4. cmd # "idle"
    BY DEF Waiting
  <2>5. QED
    BY <1>1, <1>2, <2>1, <2>2, <2>3, <2>4 DEF Sane, ServerOf
<1>5. staged'[c] = content
  BY DEF IInv, Typed
<1>6. Honest(c)'
  <2>1. result[c] = "none" /\ c \notin unrestored
    BY DEF IInv, Mine, Honest
  <2>2. ~Answered(c, TRUE)' /\ cmd # "ended"
    BY <1>1 DEF Answered, Waiting
  <2>3. result'[c] = "none" /\ c \notin unrestored'
    BY <1>2, <2>1
  <2>4. staged'[c] # None => pc'[c] = "on"
    BY <1>1, <1>5
  <2>5. QED
    BY <2>2, <2>3, <2>4 DEF Honest
<1>7. Protected(c)'
  <2>1. IsBackup(c)' <=> IsBackup(c)
    BY <1>2 DEF IsBackup
  <2>2. SUFFICES ASSUME IsBackup(c) PROVE Protected(c)'
    BY <2>1 DEF Protected
  <2>3. ServerOf(c)' = ServerOf(c)
    BY <1>2 DEF ServerOf
  <2>4. ~Answered(c, TRUE)'
    BY <1>1 DEF Answered
  <2>5. c \notin crossed /\ SavingIsOff(c)' => ~saving[ServerOf(c)]
    BY <1>1, <2>2, <2>4 DEF SavingIsOff, Waiting, IInv, Mine, Protected
  <2>6. IsFlushed(c)' => disk[ServerOf(c)] = None \/ Good(c, disk[ServerOf(c)])
    BY <1>1, <2>2, <2>4 DEF IsFlushed, Waiting, IInv, Mine, Protected
  <2>7. ~(pc'[c] = "get" /\ walk # None /\ walk.call = c)
    BY <1>1 DEF IInv, Mine, Sane
  <2>8. content # None => Good(c, content)
    BY <2>2
  <2>9. QED
    BY <1>1, <1>2, <1>5, <2>2, <2>3, <2>4, <2>5, <2>6, <2>7, <2>8 DEF Protected, Good, IInv, Mine
<1>8. ASSUME NEW d \in Call \ {c} PROVE Mine(d)'
  <2>1. pc'[d] = pc[d] /\ staged'[d] = staged[d] /\ answer'[d] = answer[d]
    BY <1>1 DEF IInv, Typed
  <2>2. \A i \in 1 .. Len(queue') : (i \in 1 .. Len(queue) /\ queue'[i] = queue[i]) \/ queue'[i].call = c
    BY <1>1
  <2>3. QED
    BY <1>2, <2>1, <2>2, OthersKeep
<1>9. QED
  BY <1>3, <1>4, <1>6, <1>7, <1>8 DEF IInv, Mine

\* A caller's call is over.
LEMMA EndPreserves ==
    ASSUME IInv, NEW c \in Call,
           NEW how \in {"snapshot", "cleaned", "error"}, End(c, how),
           NEW content \in Content \cup {None}, staged' = [staged EXCEPT ![c] = content],
           content # None => how = "snapshot" /\ (IsBackup(c) => Good(c, content)),
           unrestored' \in {unrestored, unrestored \cup {c}},
           how = "snapshot" /\ IsBackup(c) => c \in restored /\ c \notin unrestored',
           UNCHANGED <<asked, walk, game, begun, crossed, restored>>
    PROVE  IInv'
<1>1. /\ pc' = [pc EXCEPT ![c] = "ended"] /\ result' = [result EXCEPT ![c] = how]
      /\ answer' = [answer EXCEPT ![c] = None] /\ queue' = queue
  BY DEF End
<1>2. UNCHANGED <<asked, walk, saving, memory, disk, begun, crossed, restored>>
  BY DEF game
<1>3. pc'[c] = "ended" /\ result'[c] = how /\ answer'[c] = None /\ staged'[c] = content
  BY <1>1 DEF IInv, Typed
<1>4. Typed'
  BY <1>1, <1>2 DEF IInv, Typed
<1>5. Sane(c)'
  BY <1>1, <1>2, <1>3 DEF IInv, Mine, Sane, ServerOf, Waiting
<1>6. Honest(c)'
  <2>1. IsBackup(c)' <=> IsBackup(c)
    BY <1>2 DEF IsBackup
  <2>2. QED
    BY <1>2, <1>3, <2>1 DEF Honest
<1>7. Protected(c)'
  <2>1. IsBackup(c)' <=> IsBackup(c)
    BY <1>2 DEF IsBackup
  <2>2. ~SavingIsOff(c)' /\ ~IsFlushed(c)'
    BY <1>3 DEF SavingIsOff, IsFlushed
  <2>3. Good(c, content)' <=> Good(c, content)
    BY <1>2 DEF Good
  <2>4. IsBackup(c) => begun'[c] =< memory'[ServerOf(c)']
    BY <1>2 DEF IInv, Mine, Protected, ServerOf
  <2>5. QED
    BY <1>3, <2>1, <2>2, <2>3, <2>4 DEF Protected, Good
<1>8. ASSUME NEW d \in Call \ {c} PROVE Mine(d)'
  <2>1. pc'[d] = pc[d] /\ staged'[d] = staged[d] /\ answer'[d] = answer[d] /\ result'[d] = result[d]
    BY <1>1 DEF IInv, Typed
  <2>2. QED
    BY <1>1, <1>2, <2>1, OthersKeep
<1>9. QED
  BY <1>4, <1>5, <1>6, <1>7, <1>8 DEF IInv, Mine

LEMMA StagedKept ==
    ASSUME IInv, NEW c \in Call
    PROVE  /\ staged = [staged EXCEPT ![c] = staged[c]] /\ staged[c] \in Content \cup {None}
           /\ staged[c] # None /\ IsBackup(c) => Good(c, staged[c])
           /\ pc[c] \notin {"on", "ended"} => staged[c] = None
           /\ pc[c] # "ended" => c \notin unrestored
BY DEF IInv, Typed, Mine, Honest, Protected

LEMMA GiveUpPreserves ==
    ASSUME IInv, NEW c \in Call, GiveUp(c),
           pc[c] \in {"off", "flush", "delay", "get", "delete"},
           UNCHANGED <<asked, staged, walk, game, history>>
    PROVE  IInv'
<1>1. staged' = [staged EXCEPT ![c] = None]
  BY StagedKept
<1>2. UNCHANGED <<begun, crossed, restored, unrestored>>
  BY DEF history
<1>3. CASE IsBackup(c)
  <2>1. Send(c, "on") /\ UNCHANGED result /\ "on" \in Waiting
    BY <1>3 DEF GiveUp, Waiting
  <2>2. QED
    BY <1>1, <2>1, SendPreserves
<1>4. CASE ~IsBackup(c)
  BY <1>1, <1>2, <1>4, EndPreserves DEF GiveUp
<1>5. QED
  BY <1>3, <1>4

LEMMA BeginPreserves ==
    ASSUME IInv, NEW c \in Call, NEW r \in Asks[c], Begin(c, r)
    PROVE  IInv'
<1>1. r \in Request /\ First(r) \in {"delete", "off", "get"} /\ First(r) \in Waiting
      /\ (r.flush => First(r) \in {"delete", "off"})
  BY ArchiveAssumption DEF ValidRequest, First, Waiting
<1>2. pc[c] = "idle" /\ Send(c, First(r)) /\ staged[c] = None
  BY StagedKept DEF Begin
<1>3. /\ asked' = [asked EXCEPT ![c] = r] /\ begun' = [begun EXCEPT ![c] = memory[r.server]]
      /\ UNCHANGED <<staged, result, walk, saving, memory, disk, crossed, restored, unrestored>>
  BY DEF Begin, game
<1>4. /\ queue' \in Seq([call : Call, cmd : Waiting])
      /\ \A i \in 1 .. Len(queue') :
            \/ i \in 1 .. Len(queue) /\ queue'[i] = queue[i]
            \/ queue'[i] = [call |-> c, cmd |-> First(r)]
      /\ pc' = [pc EXCEPT ![c] = First(r)] /\ pc'[c] = First(r)
      /\ answer' = [answer EXCEPT ![c] = None] /\ answer'[c] = None
  BY <1>1, <1>2, SendEffect DEF IInv
<1>5. r.server \in Server /\ memory[r.server] \in Nat
  BY <1>1, ArchiveAssumption DEF Request, IInv, Typed
<1>6. Typed'
  BY <1>1, <1>3, <1>4, <1>5 DEF IInv, Typed
<1>7. asked'[c] = r /\ begun'[c] = memory[r.server]
  BY <1>3 DEF IInv, Typed
<1>8. Sane(c)'
  <2>1. \A i \in 1 .. Len(queue) : queue[i].call # c
    BY <1>2 DEF IInv, Mine, Sane
  <2>2. \A i \in 1 .. Len(queue') : queue'[i].call = c => queue'[i] = [call |-> c, cmd |-> First(r)]
    BY <1>4, <2>1
  <2>3. ~(walk # None /\ walk.call = c)
    BY <1>2 DEF IInv, Mine, Sane
  <2>4. QED
    BY <1>1, <1>3, <1>4, <1>7, <2>2, <2>3 DEF Sane
<1>9. Honest(c)'
  <2>1. result[c] = "none" /\ c \notin unrestored
    BY <1>2 DEF IInv, Mine, Honest
  <2>2. First(r) \notin {"on", "ended"}
    BY <1>1
  <2>3. QED
    BY <1>2, <1>3, <1>4, <2>1, <2>2 DEF Honest
<1>10. Protected(c)'
  <2>1. ~Answered(c, TRUE)'
    BY <1>4 DEF Answered
  <2>2. IsBackup(c)' => First(r) \in {"delete", "off"}
    BY <1>1, <1>7 DEF IsBackup
  <2>3. IsBackup(c)' => ~SavingIsOff(c)' /\ ~IsFlushed(c)'
    BY <1>4, <2>1, <2>2 DEF SavingIsOff, IsFlushed
  <2>4. begun'[c] =< memory'[ServerOf(c)']
    BY <1>3, <1>5, <1>7 DEF ServerOf
  <2>5. QED
    BY <1>2, <1>3, <1>4, <2>1, <2>2, <2>3, <2>4 DEF Protected
<1>11. ASSUME NEW d \in Call \ {c} PROVE Mine(d)'
  <2>1. pc'[d] = pc[d] /\ answer'[d] = answer[d] /\ asked'[d] = asked[d] /\ begun'[d] = begun[d]
    BY <1>3, <1>4 DEF IInv, Typed
  <2>2. \A i \in 1 .. Len(queue') : (i \in 1 .. Len(queue) /\ queue'[i] = queue[i]) \/ queue'[i].call = c
    BY <1>4
  <2>3. UNCHANGED game
    BY <1>3 DEF game
  <2>4. QED
    BY <1>3, <2>1, <2>2, <2>3, OthersKeep
<1>12. QED
  BY <1>6, <1>8, <1>9, <1>10, <1>11 DEF IInv, Mine

LEMMA CallerPreserves ==
    ASSUME IInv, NEW c \in Call,
           AccessFails(c) \/ CallerStep(c) \/ Close(c)
    PROVE  IInv'
<1> USE DEF history
<1>1. CASE AccessFails(c)
  <2>1. staged' = [staged EXCEPT ![c] = None] /\ End(c, "error")
    BY <1>1, StagedKept DEF AccessFails
  <2>2. UNCHANGED <<asked, walk, game, begun, crossed, restored, unrestored>>
    BY <1>1 DEF AccessFails
  <2>3. QED
    BY <2>1, <2>2, EndPreserves
<1>2. CASE Proceed(c)
  <2>1. /\ Answered(c, TRUE) /\ NextCommand(c)
        /\ UNCHANGED <<asked, staged, result, walk, game, history>>
    BY <1>2 DEF Proceed
  <2>2. pc[c] \in {"off", "flush"} /\ staged' = [staged EXCEPT ![c] = None]
    BY <2>1, StagedKept DEF NextCommand
  <2>3. CASE pc[c] = "off" /\ Send(c, "flush")
    BY <2>1, <2>2, <2>3, SendPreserves DEF Waiting, SavingIsOff
  <2>4. CASE pc[c] = "flush" /\ Send(c, "get")
    BY <2>1, <2>2, <2>4, SendPreserves DEF Waiting, SavingIsOff, IsFlushed
  <2>5. CASE /\ pc[c] = "flush" /\ pc' = [pc EXCEPT ![c] = "delay"]
             /\ answer' = [answer EXCEPT ![c] = None] /\ queue' = queue
    <3>1. pc'[c] = "delay" /\ answer'[c] = None
      BY <2>5 DEF IInv, Typed
    <3>2. UNCHANGED <<asked, staged, result, walk, saving, memory, disk, begun, crossed, restored, unrestored>>
      BY <2>1 DEF game
    <3>3. Typed'
      BY <2>5, <3>2 DEF IInv, Typed
    <3>4. Sane(c)'
      BY <2>5, <3>1, <3>2 DEF IInv, Mine, Sane, ServerOf, Waiting
    <3>5. Honest(c)'
      BY <2>5, <3>1, <3>2 DEF IInv, Mine, Honest, IsBackup
    <3>6. Protected(c)'
      <4>1. (SavingIsOff(c)' => SavingIsOff(c)) /\ (IsFlushed(c)' => IsFlushed(c))
        BY <2>1, <2>5 DEF SavingIsOff, IsFlushed
      <4>2. (IsBackup(c)' <=> IsBackup(c)) /\ ServerOf(c)' = ServerOf(c)
        BY <3>2 DEF IsBackup, ServerOf
      <4>3. QED
        BY <3>1, <3>2, <4>1, <4>2 DEF IInv, Mine, Protected, Good
    <3>7. ASSUME NEW d \in Call \ {c} PROVE Mine(d)'
      <4>1. pc'[d] = pc[d] /\ answer'[d] = answer[d]
        BY <2>5 DEF IInv, Typed
      <4>2. QED
        BY <2>1, <2>5, <3>2, <4>1, OthersKeep
    <3>8. QED
      BY <3>3, <3>4, <3>5, <3>6, <3>7 DEF IInv, Mine
  <2>6. QED
    BY <2>1, <2>3, <2>4, <2>5 DEF NextCommand
<1>3. CASE Delayed(c)
  <2>1. /\ pc[c] = "delay" /\ Send(c, "get")
        /\ UNCHANGED <<asked, staged, result, walk, game, history>>
    BY <1>3 DEF Delayed
  <2>2. staged' = [staged EXCEPT ![c] = None]
    BY <2>1, StagedKept
  <2>3. QED
    BY <2>1, <2>2, SendPreserves DEF Waiting, SavingIsOff, IsFlushed
<1>4. CASE Fetched(c)
  <2> DEFINE body == answer[c].body
  <2>1. /\ pc[c] = "get" /\ Answered(c, TRUE) /\ staged' = [staged EXCEPT ![c] = body]
        /\ UNCHANGED <<asked, walk, game, begun, crossed, restored, unrestored>>
    BY <1>4 DEF Fetched
  <2>2. body \in Content \cup {None} /\ (IsBackup(c) => Good(c, body))
    BY <2>1 DEF IInv, Typed, Mine, Protected, Answered
  <2> HIDE DEF body
  <2>3. CASE IsBackup(c)
    <3>1. Send(c, "on") /\ UNCHANGED result /\ "on" \in Waiting
      BY <1>4, <2>3 DEF Fetched, Waiting
    <3>2. QED
      BY <2>1, <2>2, <3>1, SendPreserves
  <2>4. CASE ~IsBackup(c)
    <3>1. End(c, "snapshot")
      BY <1>4, <2>4 DEF Fetched
    <3>2. QED
      BY <2>1, <2>2, <2>4, <3>1, EndPreserves
  <2>5. QED
    BY <2>3, <2>4
<1>5. CASE Fails(c)
  BY <1>5, GiveUpPreserves DEF Fails
<1>6. CASE Restored(c)
  <2>1. /\ pc[c] = "on" /\ Answered(c, TRUE)
        /\ End(c, IF staged[c] # None THEN "snapshot" ELSE "error")
        /\ UNCHANGED <<asked, staged, walk, game, begun, crossed, restored, unrestored>>
    BY <1>6 DEF Restored
  <2>2. c \in restored /\ c \notin unrestored
    BY <2>1 DEF IInv, Mine, Honest
  <2>3. staged' = [staged EXCEPT ![c] = staged[c]] /\ staged[c] \in Content \cup {None}
    BY <2>1, StagedKept
  <2>4. QED
    BY <2>1, <2>2, <2>3, StagedKept, EndPreserves
<1>7. CASE RestoreFails(c)
  <2>1. /\ End(c, "error") /\ staged' = [staged EXCEPT ![c] = None]
        /\ unrestored' = unrestored \cup {c}
        /\ UNCHANGED <<asked, walk, game, begun, crossed, restored>>
    BY <1>7 DEF RestoreFails
  <2>2. QED
    BY <2>1, EndPreserves
<1>8. CASE Cleaned(c)
  <2>1. /\ pc[c] = "delete" /\ End(c, "cleaned")
        /\ UNCHANGED <<asked, staged, walk, game, begun, crossed, restored, unrestored>>
    BY <1>8 DEF Cleaned
  <2>2. staged' = [staged EXCEPT ![c] = None]
    BY <2>1, StagedKept
  <2>3. QED
    BY <2>1, <2>2, EndPreserves
<1>9. CASE Close(c)
  <2>1. /\ staged' = [staged EXCEPT ![c] = None] /\ UNCHANGED <<asked, pc, result, queue, walk, answer>>
        /\ UNCHANGED <<saving, memory, disk, begun, crossed, restored, unrestored>>
        /\ UNCHANGED game
    BY <1>9 DEF Close, cell, game
  <2>2. staged'[c] = None
    BY <2>1 DEF IInv, Typed
  <2>3. Typed'
    BY <2>1 DEF IInv, Typed
  <2>4. Sane(c)' /\ Honest(c)'
    BY <2>1, <2>2 DEF IInv, Mine, Sane, Honest, ServerOf, IsBackup, Answered
  <2>5. Protected(c)'
    BY <2>1, <2>2 DEF IInv, Mine, Protected, SavingIsOff, IsFlushed, Answered, IsBackup, ServerOf, Good
  <2>6. ASSUME NEW d \in Call \ {c} PROVE Mine(d)'
    <3>1. staged'[d] = staged[d]
      BY <2>1 DEF IInv, Typed
    <3>2. QED
      BY <2>1, <3>1, OthersKeep
  <2>7. QED
    BY <2>3, <2>4, <2>5, <2>6 DEF IInv, Mine
<1>10. QED
  BY <1>1, <1>2, <1>3, <1>4, <1>5, <1>6, <1>7, <1>8, <1>9 DEF CallerStep

-----------------------------------------------------------------------------
(***************************************************************************)
(* The cell.                                                               *)
(***************************************************************************)
LEMMA TakeEffect ==
    ASSUME Typed, NEW cmds, Take(cmds)
    PROVE  /\ walk = None /\ Oldest.cmd \in cmds
           /\ 1 \in 1 .. Len(queue) /\ Oldest = queue[1]
           /\ Oldest \in [call : Call, cmd : Waiting]
           /\ queue' \in Seq([call : Call, cmd : Waiting])
           /\ \A i \in 1 .. Len(queue') : i + 1 \in 1 .. Len(queue) /\ queue'[i] = queue[i + 1]
<1>1. queue \in Seq([call : Call, cmd : Waiting]) /\ queue # <<>> /\ queue' = Tail(queue)
  BY DEF Typed, Take
<1>2. Len(queue) \in Nat \ {0} /\ Len(queue') = Len(queue) - 1
  BY <1>1
<1>3. queue' \in Seq([call : Call, cmd : Waiting]) /\ \A i \in 1 .. Len(queue') : queue'[i] = queue[i + 1]
  BY <1>1, <1>2
<1>4. 1 \in 1 .. Len(queue) /\ Oldest = queue[1] /\ queue[1] \in [call : Call, cmd : Waiting]
  <2>1. 1 \in 1 .. Len(queue)
    BY <1>2
  <2>2. Oldest = queue[1]
    BY <1>1 DEF Oldest
  <2>3. \A S : \A q \in Seq(S) : \A i \in 1 .. Len(q) : q[i] \in S
    OBVIOUS
  <2>4. queue[1] \in [call : Call, cmd : Waiting]
    BY <1>1, <2>1, <2>3
  <2>5. QED
    BY <2>1, <2>2, <2>4
<1>5. \A i \in 1 .. Len(queue') : i + 1 \in 1 .. Len(queue)
  BY <1>2
<1>6. QED
  BY <1>1, <1>3, <1>4, <1>5 DEF Take

LEMMA ReplyEffect ==
    ASSUME Typed, NEW q, q.call \in Call, NEW ok \in BOOLEAN,
           NEW body \in Content \cup {None}, Reply(q, ok, body)
    PROVE  /\ answer' \in [Call -> [ok : BOOLEAN, body : Content \cup {None}] \cup {None}]
           /\ \A d \in Call :
                 \/ answer'[d] = answer[d]
                 \/ d = q.call /\ pc[d] = q.cmd /\ answer'[d] = [ok |-> ok, body |-> body]
BY DEF Typed, Reply

\* A step of the cell or the game, for each call.
LEMMA SaneKept ==
    ASSUME IInv, NEW d \in Call, UNCHANGED <<asked, pc>>,
           \A i \in 1 .. Len(queue') : \E j \in 1 .. Len(queue) : queue'[i] = queue[j],
           walk' # None /\ walk'.call = d =>
              pc[d] \in {"get", "on", "ended"} /\ asked[d] \in Request /\ disk'[ServerOf(d)] # None
    PROVE  Sane(d)'
BY DEF IInv, Mine, Sane, ServerOf

LEMMA HonestKept ==
    ASSUME IInv, NEW d \in Call, UNCHANGED <<asked, pc, staged, result, unrestored>>,
           restored \subseteq restored',
           pc[d] = "on" /\ Answered(d, TRUE)' => Answered(d, TRUE) \/ d \in restored'
    PROVE  Honest(d)'
<1>1. IsBackup(d)' <=> IsBackup(d)
  BY DEF IsBackup
<1>2. QED
  BY <1>1 DEF IInv, Mine, Honest

\* Between its save-off and its save-on no command of its own switches saving on,
\* and one of another call counts as crossing it.
LEMMA ObeyedPreserves ==
    ASSUME IInv, Take({"off", "flush", "on"}), Obeyed(Oldest),
           NEW ok \in BOOLEAN, Reply(Oldest, ok, None), UNCHANGED <<caller, walk, begun, unrestored>>
    PROVE  IInv'
<1> DEFINE o == Oldest
           s == ServerOf(o.call)
<1>1. /\ walk = None /\ walk' = None /\ o.call \in Call /\ o.cmd \in {"off", "flush", "on"}
      /\ 1 \in 1 .. Len(queue) /\ o = queue[1]
      /\ queue' \in Seq([call : Call, cmd : Waiting])
      /\ \A i \in 1 .. Len(queue') : i + 1 \in 1 .. Len(queue) /\ queue'[i] = queue[i + 1]
  BY TakeEffect DEF IInv
<1>2. /\ answer' \in [Call -> [ok : BOOLEAN, body : Content \cup {None}] \cup {None}]
      /\ \A d \in Call :
            \/ answer'[d] = answer[d]
            \/ d = o.call /\ pc[d] = o.cmd /\ answer'[d] = [ok |-> ok, body |-> None]
  <2>1. Typed /\ None \in Content \cup {None}
    BY DEF IInv
  <2>2. QED
    BY <1>1, <2>1, ReplyEffect
<1>3. UNCHANGED <<asked, pc, staged, result, memory, begun, unrestored>>
  BY DEF caller, Obeyed, Obey
<1>4. asked[o.call] \in Request /\ s \in Server /\ (o.cmd = "on" => pc[o.call] \in {"on", "ended"})
  BY <1>1 DEF IInv, Mine, Sane, ServerOf, Request
<1> HIDE DEF o, s
<1>5. /\ saving' = IF o.cmd = "flush" THEN saving ELSE [saving EXCEPT ![s] = (o.cmd = "on")]
      /\ disk' = IF o.cmd = "flush" /\ disk[s] # None
                 THEN [disk EXCEPT ![s] = [f \in File |-> memory[s]]] ELSE disk
      /\ crossed' = crossed \cup Undercut(o)
      /\ restored' = IF o.cmd = "on" THEN restored \cup {o.call} ELSE restored
  BY DEF Obeyed, Obey, o, s
<1>6. Undercut(o) \subseteq Call /\ memory[s] \in 0 .. MaxVersion
  BY <1>4 DEF Undercut, IInv, Typed
<1>7. Typed'
  <2>1. [f \in File |-> memory[s]] \in Content
    BY <1>6 DEF Content
  <2>2. saving' \in [Server -> BOOLEAN]
    BY <1>5 DEF IInv, Typed
  <2>3. disk' \in [Server -> Content \cup {None}]
    BY <1>5, <2>1 DEF IInv, Typed
  <2>4. crossed' \subseteq Call /\ restored' \subseteq Call
    BY <1>1, <1>5, <1>6 DEF IInv, Typed
  <2>5. QED
    BY <1>1, <1>2, <1>3, <2>2, <2>3, <2>4 DEF IInv, Typed
<1>8. ASSUME NEW d \in Call PROVE Mine(d)'
  <2>1. Sane(d)'
    BY <1>1, <1>3, SaneKept
  <2>2. Honest(d)'
    <3>1. pc[d] = "on" /\ Answered(d, TRUE)' => Answered(d, TRUE) \/ d \in restored'
      BY <1>2, <1>5 DEF Answered
    <3>2. QED
      BY <1>3, <1>5, <3>1, HonestKept
  <2>3. Protected(d)'
    <3>1. (IsBackup(d)' <=> IsBackup(d)) /\ ServerOf(d)' = ServerOf(d)
      BY <1>3 DEF IsBackup, ServerOf
    <3>2. SUFFICES ASSUME IsBackup(d) PROVE Protected(d)'
      BY <3>1 DEF Protected
    <3>3. pc[d] = "get" => answer'[d] = answer[d]
      BY <1>1, <1>2
    <3>4. /\ SavingIsOff(d)' => SavingIsOff(d) \/ (d = o.call /\ o.cmd = "off")
          /\ IsFlushed(d)' => IsFlushed(d) \/ (d = o.call /\ o.cmd = "flush")
      BY <1>2, <1>3 DEF SavingIsOff, IsFlushed, Answered
    <3>5. \A content : Good(d, content) => Good(d, content)'
      BY <1>3, <1>5 DEF Good, Whole
    <3>12. ServerOf(d) \in Server
      BY <3>2 DEF IsBackup, ServerOf, Request, IInv, Typed
    <3>6. d \notin crossed' /\ SavingIsOff(d)' => ~saving'[ServerOf(d)]
      <4>1. SUFFICES ASSUME d \notin crossed', SavingIsOff(d)' PROVE ~saving'[ServerOf(d)]
        OBVIOUS
      <4>2. d \notin crossed
        BY <1>5, <4>1
      <4>3. CASE ServerOf(d) # s
        <5>1. SavingIsOff(d)
          BY <3>4, <4>1, <4>3 DEF s
        <5>2. ~saving[ServerOf(d)]
          BY <3>2, <4>2, <5>1 DEF IInv, Mine, Protected
        <5>3. QED
          BY <1>4, <1>5, <3>12, <4>3, <5>2 DEF IInv, Typed
      <4>4. CASE ServerOf(d) = s /\ o.cmd = "off"
        BY <1>4, <1>5, <4>4 DEF IInv, Typed
      <4>5. CASE o.cmd = "flush"
        BY <1>5, <3>2, <3>4, <4>1, <4>2, <4>5 DEF IInv, Mine, Protected
      <4>6. CASE ServerOf(d) = s /\ o.cmd = "on"
        <5>1. d = o.call \/ pc[d] \notin {"off", "flush", "delay", "get"}
          BY <1>5, <3>2, <4>1, <4>6 DEF Undercut, s
        <5>2. pc'[d] \notin {"off", "flush", "delay", "get"}
          BY <1>3, <1>4, <4>6, <5>1
        <5>3. QED
          BY <4>1, <5>2 DEF SavingIsOff
      <4>7. QED
        BY <1>1, <4>3, <4>4, <4>5, <4>6
    <3>7. IsFlushed(d)' => disk'[ServerOf(d)] = None \/ Good(d, disk[ServerOf(d)])'
      <4>1. SUFFICES ASSUME IsFlushed(d)' PROVE disk'[ServerOf(d)] = None \/ Good(d, disk[ServerOf(d)])'
        OBVIOUS
      <4>2. CASE o.cmd = "flush" /\ ServerOf(d) = s /\ disk[s] # None
        <5>1. disk'[s] = [f \in File |-> memory[s]]
          BY <1>4, <1>5, <4>2 DEF IInv, Typed
        <5>2. begun[d] =< memory[s]
          BY <3>2, <4>2 DEF IInv, Mine, Protected
        <5>3. Good(d, disk[ServerOf(d)])'
          <6>1. \A f \in File : disk'[ServerOf(d)'][f] = memory[s]
            BY <3>1, <4>2, <5>1
          <6>2. QED
            BY <1>3, <5>2, <6>1 DEF Good, Whole
        <5>4. QED
          BY <3>1, <5>3
      <4>3. CASE o.cmd = "flush" /\ ServerOf(d) = s /\ disk[s] = None
        BY <1>5, <4>3
      <4>4. CASE ~(o.cmd = "flush" /\ ServerOf(d) = s)
        <5>1. IsFlushed(d)
          BY <3>4, <4>1, <4>4 DEF s
        <5>2. disk'[ServerOf(d)] = disk[ServerOf(d)]
          BY <1>4, <1>5, <4>4 DEF IInv, Typed
        <5>3. disk[ServerOf(d)] = None \/ Good(d, disk[ServerOf(d)])
          BY <3>2, <5>1 DEF IInv, Mine, Protected
        <5>4. Good(d, disk[ServerOf(d)]) => Good(d, disk[ServerOf(d)])'
          BY <1>3, <1>5, <3>1, <5>2 DEF Good, Whole
        <5>5. QED
          BY <3>1, <5>2, <5>3, <5>4
      <4>5. QED
        BY <4>2, <4>3, <4>4
    <3>8. begun'[d] =< memory'[ServerOf(d)]
      BY <1>3, <3>2 DEF IInv, Mine, Protected
    <3>9. pc'[d] = "get" /\ Answered(d, TRUE)' => Good(d, answer[d].body)'
      BY <1>3, <3>2, <3>3, <3>5 DEF IInv, Mine, Protected, Answered
    <3>10. staged'[d] # None => Good(d, staged[d])'
      BY <1>3, <3>2, <3>5 DEF IInv, Mine, Protected
    <3>11. QED
      BY <1>1, <3>1, <3>6, <3>7, <3>8, <3>9, <3>10 DEF Protected
  <2>4. QED
    BY <2>1, <2>2, <2>3 DEF Mine
<1>9. QED
  BY <1>7, <1>8 DEF IInv

\* A request the cell answers with an error, and that changed nothing.
LEMMA RefusalPreserves ==
    ASSUME IInv, NEW cmds, Take(cmds), Reply(Oldest, FALSE, None),
           UNCHANGED <<caller, walk, game, history>>
    PROVE  IInv'
<1>1. /\ Oldest.call \in Call /\ walk = None
      /\ queue' \in Seq([call : Call, cmd : Waiting])
      /\ \A i \in 1 .. Len(queue') : i + 1 \in 1 .. Len(queue) /\ queue'[i] = queue[i + 1]
  BY TakeEffect DEF IInv
<1>2. /\ answer' \in [Call -> [ok : BOOLEAN, body : Content \cup {None}] \cup {None}]
      /\ \A d \in Call : answer'[d] = answer[d] \/ answer'[d] = [ok |-> FALSE, body |-> None]
  <2>1. Typed /\ FALSE \in BOOLEAN /\ None \in Content \cup {None}
    BY DEF IInv
  <2>2. /\ answer' \in [Call -> [ok : BOOLEAN, body : Content \cup {None}] \cup {None}]
        /\ \A d \in Call :
              \/ answer'[d] = answer[d]
              \/ d = Oldest.call /\ pc[d] = Oldest.cmd /\ answer'[d] = [ok |-> FALSE, body |-> None]
    BY <1>1, <2>1, ReplyEffect
  <2>3. QED
    BY <2>2
<1>3. UNCHANGED <<asked, pc, staged, result, walk, saving, memory, disk, begun, crossed, restored, unrestored>>
  BY DEF caller, game, history
<1>4. Typed'
  BY <1>1, <1>2, <1>3 DEF IInv, Typed
<1>5. ASSUME NEW d \in Call PROVE Mine(d)'
  <2>1. Sane(d)'
    BY <1>1, <1>3, SaneKept
  <2>2. Answered(d, TRUE)' => Answered(d, TRUE) /\ answer'[d] = answer[d]
    BY <1>2 DEF Answered
  <2>3. Honest(d)'
    BY <1>3, <2>2, HonestKept
  <2>4. Protected(d)'
    <3>1. (IsBackup(d)' <=> IsBackup(d)) /\ ServerOf(d)' = ServerOf(d)
      BY <1>3 DEF IsBackup, ServerOf
    <3>2. (SavingIsOff(d)' => SavingIsOff(d)) /\ (IsFlushed(d)' => IsFlushed(d))
      BY <1>3, <2>2 DEF SavingIsOff, IsFlushed
    <3>3. QED
      BY <1>3, <2>2, <3>1, <3>2 DEF IInv, Mine, Protected, Good
  <2>5. QED
    BY <2>1, <2>3, <2>4 DEF Mine
<1>6. QED
  BY <1>4, <1>5 DEF IInv

\* The numbers that are compared.
LEMMA Numbers ==
    ASSUME Typed, NEW d \in Call, asked[d] # None
    PROVE  begun[d] \in Nat /\ ServerOf(d) \in Server
           /\ memory[ServerOf(d)] \in Nat /\ memory[ServerOf(d)] \in 0 .. MaxVersion
BY ArchiveAssumption DEF Typed, ServerOf, Request

\* What the cell and the game leave of a call as it is.
LEMMA ProtectedKept ==
    ASSUME IInv, NEW d \in Call,
           UNCHANGED <<asked, pc, staged, saving, begun, crossed>>,
           IsBackup(d) => memory'[ServerOf(d)] \in Nat /\ memory'[ServerOf(d)] >= memory[ServerOf(d)],
           \/ answer'[d] = answer[d]
           \/ ~Answered(d, TRUE)'
           \/ pc[d] = "delete"
           \/ pc[d] = "get" /\ (IsBackup(d) => Good(d, answer[d].body)'),
           IsBackup(d) /\ IsFlushed(d) =>
              disk'[ServerOf(d)] \in {disk[ServerOf(d)], None} \/ Good(d, disk[ServerOf(d)])',
           IsBackup(d) /\ pc[d] = "get" /\ walk' # None /\ walk'.call = d =>
              \A f \in DOMAIN walk'.read :
                  /\ walk'.read[f] >= begun[d]
                  /\ d \notin crossed => walk'.read[f] = disk'[ServerOf(d)][f]
    PROVE  Protected(d)'
<1>1. (IsBackup(d)' <=> IsBackup(d)) /\ ServerOf(d)' = ServerOf(d)
  BY DEF IsBackup, ServerOf
<1>2. SUFFICES ASSUME IsBackup(d) PROVE Protected(d)'
  BY <1>1 DEF Protected
<1>3. Answered(d, TRUE)' => \/ Answered(d, TRUE) /\ answer'[d] = answer[d]
                            \/ pc[d] = "delete"
                            \/ pc[d] = "get" /\ Good(d, answer[d].body)'
  BY <1>2 DEF Answered
<1>4. (SavingIsOff(d)' => SavingIsOff(d)) /\ (IsFlushed(d)' => IsFlushed(d))
  BY <1>3 DEF SavingIsOff, IsFlushed
<1>5. /\ begun[d] =< memory[ServerOf(d)]
      /\ d \notin crossed /\ SavingIsOff(d) => ~saving[ServerOf(d)]
      /\ IsFlushed(d) => disk[ServerOf(d)] = None \/ Good(d, disk[ServerOf(d)])
      /\ pc[d] = "get" /\ Answered(d, TRUE) => Good(d, answer[d].body)
      /\ staged[d] # None => Good(d, staged[d])
  BY <1>2 DEF IInv, Mine, Protected
<1>6. IsFlushed(d)' => disk'[ServerOf(d)] = None \/ Good(d, disk[ServerOf(d)])'
  <2>1. disk'[ServerOf(d)] = disk[ServerOf(d)] /\ Good(d, disk[ServerOf(d)]) => Good(d, disk[ServerOf(d)])'
    BY <1>1 DEF Good, Whole
  <2>2. QED
    BY <1>2, <1>4, <1>5, <2>1
<1>7. pc'[d] = "get" /\ Answered(d, TRUE)' => Good(d, answer[d].body)'
  BY <1>3, <1>5 DEF Good, Whole
<1>8. staged'[d] # None => Good(d, staged[d])'
  BY <1>5 DEF Good, Whole
<1>9. begun'[d] =< memory'[ServerOf(d)]
  BY <1>2, <1>5, Numbers DEF IInv, IsBackup
<1>10. QED
  BY <1>1, <1>2, <1>4, <1>5, <1>6, <1>7, <1>8, <1>9 DEF Protected

\* A step of the cell or the game that leaves the callers and saving alone.
LEMMA RestPreserves ==
    ASSUME IInv, Typed', UNCHANGED <<caller, saving, history>>,
           \A i \in 1 .. Len(queue') : \E j \in 1 .. Len(queue) : queue'[i] = queue[j],
           \A s \in Server : memory'[s] \in Nat /\ memory'[s] >= memory[s],
           ASSUME NEW d \in Call
           PROVE  /\ \/ answer'[d] = answer[d]
                     \/ ~Answered(d, TRUE)'
                     \/ pc[d] = "delete"
                     \/ pc[d] = "get" /\ (IsBackup(d) => Good(d, answer[d].body)')
                  /\ walk' # None /\ walk'.call = d =>
                        pc[d] \in {"get", "on", "ended"} /\ asked[d] \in Request /\ disk'[ServerOf(d)] # None
                  /\ IsBackup(d) /\ IsFlushed(d) =>
                        disk'[ServerOf(d)] \in {disk[ServerOf(d)], None} \/ Good(d, disk[ServerOf(d)])'
                  /\ IsBackup(d) /\ pc[d] = "get" /\ walk' # None /\ walk'.call = d =>
                        \A f \in DOMAIN walk'.read :
                            /\ walk'.read[f] >= begun[d]
                            /\ d \notin crossed => walk'.read[f] = disk'[ServerOf(d)][f]
    PROVE  IInv'
<1>1. UNCHANGED <<asked, pc, staged, result, saving, begun, crossed, restored, unrestored>>
  BY DEF caller, history
<1>2. ASSUME NEW d \in Call PROVE Mine(d)'
  <2>1. Sane(d)'
    BY <1>1, SaneKept
  <2>2. Honest(d)'
    <3>1. pc[d] = "on" /\ Answered(d, TRUE)' => Answered(d, TRUE)
      BY DEF Answered
    <3>2. QED
      BY <1>1, <3>1, HonestKept
  <2>3. Protected(d)'
    <3>1. CASE ~IsBackup(d)
      BY <1>1, <3>1 DEF Protected, IsBackup
    <3>2. CASE IsBackup(d)
      <4>1. ServerOf(d) \in Server
        BY <3>2, Numbers DEF IInv, IsBackup
      <4>2. QED
        BY <1>1, <3>2, <4>1, ProtectedKept
    <3>3. QED
      BY <3>1, <3>2
  <2>4. QED
    BY <2>1, <2>2, <2>3 DEF Mine
<1>3. QED
  BY <1>2 DEF IInv

LEMMA OpenPreserves ==
    ASSUME IInv, OpenWorld
    PROVE  IInv'
<1>1. Take({"get"}) /\ UNCHANGED <<caller, game, history>>
  BY DEF OpenWorld
<1>2. CASE disk[ServerOf(Oldest.call)] = None
  <2>1. Reply(Oldest, FALSE, None) /\ UNCHANGED walk
    BY <1>2 DEF OpenWorld
  <2>2. QED
    BY <1>1, <2>1, RefusalPreserves
<1>3. CASE disk[ServerOf(Oldest.call)] # None
  <2> DEFINE o == Oldest
  <2>1. walk' = [call |-> o.call, read |-> <<>>] /\ UNCHANGED answer
    BY <1>3 DEF OpenWorld
  <2>2. /\ o.call \in Call /\ o.cmd = "get" /\ 1 \in 1 .. Len(queue) /\ o = queue[1]
        /\ queue' \in Seq([call : Call, cmd : Waiting])
        /\ \A i \in 1 .. Len(queue') : i + 1 \in 1 .. Len(queue) /\ queue'[i] = queue[i + 1]
    <3>1. Oldest.cmd \in {"get"} /\ Oldest \in [call : Call, cmd : Waiting]
      BY <1>1, TakeEffect DEF IInv
    <3>2. /\ 1 \in 1 .. Len(queue) /\ Oldest = queue[1]
          /\ queue' \in Seq([call : Call, cmd : Waiting])
          /\ \A i \in 1 .. Len(queue') : i + 1 \in 1 .. Len(queue) /\ queue'[i] = queue[i + 1]
      BY <1>1, TakeEffect DEF IInv
    <3>3. QED
      BY <3>1, <3>2
  <2>3. disk[ServerOf(o.call)] # None
    BY <1>3
  <2> HIDE DEF o
  <2>4. asked[o.call] \in Request /\ pc[o.call] \in {"get", "on", "ended"}
    BY <2>2 DEF IInv, Mine, Sane
  <2>5. UNCHANGED <<asked, pc, staged, result, saving, memory, disk, begun, crossed, restored, unrestored>>
    BY <1>1 DEF caller, game, history
  <2>6. <<>> \in Partial /\ DOMAIN <<>> = {}
    <3>1. <<>> \in [{} -> 0 .. MaxVersion]
      OBVIOUS
    <3>2. QED
      BY <3>1 DEF Partial
  <2>7. walk' \in [call : Call, read : Partial] /\ walk'.call = o.call /\ DOMAIN walk'.read = {}
    BY <2>1, <2>2, <2>6
  <2>8. Typed'
    BY <2>1, <2>2, <2>5, <2>7 DEF IInv, Typed
  <2>9. \A s \in Server : memory'[s] \in Nat /\ memory'[s] >= memory[s]
    BY <2>5, ArchiveAssumption DEF IInv, Typed
  <2>10. UNCHANGED <<caller, saving, history>>
    BY <1>1, <2>5
  <2>11. QED
    BY <2>1, <2>2, <2>3, <2>4, <2>5, <2>7, <2>8, <2>9, <2>10, RestPreserves
<1>4. QED
  BY <1>2, <1>3

LEMMA ReadPreserves ==
    ASSUME IInv, NEW f \in File, ReadFile(f)
    PROVE  IInv'
<1> DEFINE c == walk.call
           s == ServerOf(c)
           more == [g \in DOMAIN walk.read \cup {f} |-> IF g = f THEN disk[s][f] ELSE walk.read[g]]
<1>1. /\ walk # None /\ f \notin DOMAIN walk.read
      /\ walk' = [walk EXCEPT !.read = more]
      /\ UNCHANGED <<caller, queue, answer, game, history>>
  BY DEF ReadFile, Unread
<1>2. UNCHANGED <<asked, pc, staged, result, saving, memory, disk, begun, crossed, restored, unrestored>>
  BY <1>1 DEF caller, game, history
<1>3. walk \in [call : Call, read : Partial]
  BY <1>1 DEF IInv, Typed
<1>4. /\ c \in Call /\ pc[c] \in {"get", "on", "ended"} /\ asked[c] \in Request /\ disk[s] # None
      /\ s \in Server
  BY <1>1, <1>3 DEF IInv, Mine, Sane, ServerOf, Request
<1>5. disk[s] \in Content /\ disk[s][f] \in 0 .. MaxVersion
  BY <1>4 DEF IInv, Typed, Content
<1>6. PICK S \in SUBSET File : walk.read \in [S -> 0 .. MaxVersion]
  BY <1>3 DEF Partial
<1>7. more \in [S \cup {f} -> 0 .. MaxVersion] /\ S \cup {f} \in SUBSET File
  BY <1>5, <1>6
<1>8. walk' = [call |-> c, read |-> more]
  BY <1>1, <1>3
<1>9. walk' \in [call : Call, read : Partial]
  BY <1>4, <1>7, <1>8 DEF Partial
<1>10. /\ walk'.call = c /\ DOMAIN walk'.read = DOMAIN walk.read \cup {f}
       /\ walk'.read[f] = disk[s][f]
       /\ \A g \in DOMAIN walk.read : walk'.read[g] = walk.read[g]
  BY <1>1, <1>8
<1> HIDE DEF c, more
<1>11. Typed'
  BY <1>1, <1>2, <1>9 DEF IInv, Typed
<1>12. ASSUME IsBackup(c), pc[c] = "get"
       PROVE  \A g \in DOMAIN walk'.read :
                  walk'.read[g] >= begun[c] /\ (c \notin crossed => walk'.read[g] = disk'[s][g])
  <2>1. \A g \in DOMAIN walk.read :
            walk.read[g] >= begun[c] /\ (c \notin crossed => walk.read[g] = disk[s][g])
    BY <1>1, <1>4, <1>12 DEF IInv, Mine, Protected, c
  <2>2. disk[s][f] >= begun[c]
    BY <1>4, <1>12 DEF IInv, Mine, Protected, IsFlushed, Good
  <2>3. QED
    BY <1>2, <1>10, <2>1, <2>2
<1>13. \A r \in Server : memory'[r] \in Nat /\ memory'[r] >= memory[r]
  BY <1>2, ArchiveAssumption DEF IInv, Typed
<1>14. UNCHANGED <<caller, saving, history>>
  BY <1>1, <1>2
<1> HIDE DEF s
<1>15. ASSUME NEW d \in Call
       PROVE  /\ answer'[d] = answer[d]
              /\ walk' # None /\ walk'.call = d =>
                    pc[d] \in {"get", "on", "ended"} /\ asked[d] \in Request /\ disk'[ServerOf(d)] # None
              /\ disk'[ServerOf(d)] = disk[ServerOf(d)]
              /\ IsBackup(d) /\ pc[d] = "get" /\ walk' # None /\ walk'.call = d =>
                    \A g \in DOMAIN walk'.read :
                        /\ walk'.read[g] >= begun[d]
                        /\ d \notin crossed => walk'.read[g] = disk'[ServerOf(d)][g]
  BY <1>1, <1>2, <1>4, <1>10, <1>12 DEF s
<1>16. \A i \in 1 .. Len(queue') : \E j \in 1 .. Len(queue) : queue'[i] = queue[j]
  BY <1>1
<1>17. QED
  BY <1>11, <1>13, <1>14, <1>15, <1>16, RestPreserves

\* What the cell has read of a world whose zip it completes.
LEMMA EndWalkPreserves ==
    ASSUME IInv, NEW ok \in BOOLEAN, EndWalk(ok)
    PROVE  IInv'
<1> DEFINE c == walk.call
           q == [call |-> c, cmd |-> "get"]
           body == IF ok THEN walk.read ELSE None
<1>1. /\ walk # None /\ (ok => File \subseteq DOMAIN walk.read)
      /\ Reply(q, ok, body) /\ walk' = None
      /\ UNCHANGED <<caller, queue, game, history>>
  BY DEF EndWalk, Unread
<1>2. UNCHANGED <<asked, pc, staged, result, saving, memory, disk, begun, crossed, restored, unrestored>>
  BY <1>1 DEF caller, game, history
<1>3. walk \in [call : Call, read : Partial] /\ c \in Call
  BY <1>1 DEF IInv, Typed
<1>4. PICK S \in SUBSET File : walk.read \in [S -> 0 .. MaxVersion]
  BY <1>3 DEF Partial
<1>5. ok => S = File /\ body \in Content /\ body = walk.read
  BY <1>1, <1>4 DEF Content
<1>6. body \in Content \cup {None}
  BY <1>5
<1>7. q.call = c /\ q.cmd = "get"
  OBVIOUS
<1> HIDE DEF q, body
<1>8. /\ answer' \in [Call -> [ok : BOOLEAN, body : Content \cup {None}] \cup {None}]
      /\ \A d \in Call : \/ answer'[d] = answer[d]
                         \/ d = c /\ pc[d] = "get" /\ answer'[d] = [ok |-> ok, body |-> body]
  <2>1. Typed
    BY DEF IInv
  <2>2. q.call \in Call /\ Reply(q, ok, body)
    BY <1>1, <1>3, <1>7
  <2>3. /\ answer' \in [Call -> [ok : BOOLEAN, body : Content \cup {None}] \cup {None}]
        /\ \A d \in Call :
              \/ answer'[d] = answer[d]
              \/ d = q.call /\ pc[d] = q.cmd /\ answer'[d] = [ok |-> ok, body |-> body]
    BY <1>6, <2>1, <2>2, ReplyEffect
  <2>4. QED
    BY <1>7, <2>3
<1>9. Typed'
  BY <1>1, <1>2, <1>8 DEF IInv, Typed
<1>10. ASSUME NEW d \in Call
       PROVE  \/ answer'[d] = answer[d]
              \/ ~Answered(d, TRUE)'
              \/ pc[d] = "get" /\ (IsBackup(d) => Good(d, answer[d].body)')
  <2>1. SUFFICES ASSUME Answered(d, TRUE)', answer'[d] # answer[d], IsBackup(d)
                 PROVE  pc[d] = "get" /\ Good(d, answer[d].body)'
    BY <1>8
  <2>2. d = c /\ pc[d] = "get" /\ ok /\ answer'[d].body = body
    BY <1>8, <2>1 DEF Answered
  <2>3. asked[d] \in Request /\ disk[ServerOf(d)] # None
    BY <1>1, <2>2 DEF IInv, Mine, Sane
  <2>4. Good(d, disk[ServerOf(d)])
    BY <2>1, <2>2, <2>3 DEF IInv, Mine, Protected, IsFlushed
  <2>5. \A f \in File : body[f] >= begun[d] /\ (d \notin crossed => body[f] = disk[ServerOf(d)][f])
    BY <1>1, <1>5, <2>1, <2>2 DEF IInv, Mine, Protected
  <2>6. QED
    BY <1>2, <2>2, <2>4, <2>5 DEF Good, Whole
<1>11. \A r \in Server : memory'[r] \in Nat /\ memory'[r] >= memory[r]
  BY <1>2, ArchiveAssumption DEF IInv, Typed
<1>12. \A i \in 1 .. Len(queue') : \E j \in 1 .. Len(queue) : queue'[i] = queue[j]
  BY <1>1
<1>13. UNCHANGED <<caller, saving, history>>
  BY <1>1, <1>2
<1>14. QED
  BY <1>1, <1>2, <1>9, <1>10, <1>11, <1>12, <1>13, RestPreserves

LEMMA RemovePreserves ==
    ASSUME IInv, NEW ok \in BOOLEAN, RemoveWorld(ok)
    PROVE  IInv'
<1> DEFINE o == Oldest
           s == ServerOf(o.call)
<1>1. /\ Take({"delete"}) /\ Reply(o, ok, None)
      /\ disk' = IF ok THEN [disk EXCEPT ![s] = None] ELSE disk
      /\ UNCHANGED <<caller, walk, saving, memory, history>>
  BY DEF RemoveWorld
<1>2. /\ walk = None /\ o.cmd = "delete" /\ o.call \in Call
      /\ queue' \in Seq([call : Call, cmd : Waiting])
      /\ \A i \in 1 .. Len(queue') : i + 1 \in 1 .. Len(queue) /\ queue'[i] = queue[i + 1]
  <2>1. Oldest.cmd \in {"delete"} /\ Oldest \in [call : Call, cmd : Waiting] /\ walk = None
    BY <1>1, TakeEffect DEF IInv
  <2>2. /\ queue' \in Seq([call : Call, cmd : Waiting])
        /\ \A i \in 1 .. Len(queue') : i + 1 \in 1 .. Len(queue) /\ queue'[i] = queue[i + 1]
    BY <1>1, TakeEffect DEF IInv
  <2>3. QED
    BY <2>1, <2>2
<1> HIDE DEF o, s
<1>3. /\ answer' \in [Call -> [ok : BOOLEAN, body : Content \cup {None}] \cup {None}]
      /\ \A d \in Call : answer'[d] = answer[d] \/ pc[d] = "delete"
  <2>1. None \in Content \cup {None} /\ Typed
    BY DEF IInv
  <2>2. o.call \in Call /\ Reply(o, ok, None)
    BY <1>1, <1>2
  <2>4. /\ answer' \in [Call -> [ok : BOOLEAN, body : Content \cup {None}] \cup {None}]
        /\ \A d \in Call :
              \/ answer'[d] = answer[d]
              \/ d = o.call /\ pc[d] = o.cmd /\ answer'[d] = [ok |-> ok, body |-> None]
    BY <2>1, <2>2, ReplyEffect
  <2>3. QED
    BY <1>2, <2>4
<1>4. UNCHANGED <<asked, pc, staged, result, walk, saving, memory, begun, crossed, restored, unrestored>>
  BY <1>1 DEF caller, history
<1>5. disk' \in [Server -> Content \cup {None}]
      /\ \A r \in Server : disk'[r] \in {disk[r], None}
  BY <1>1 DEF IInv, Typed
<1>6. Typed'
  BY <1>2, <1>3, <1>4, <1>5 DEF IInv, Typed
<1>7. \A r \in Server : memory'[r] \in Nat /\ memory'[r] >= memory[r]
  BY <1>4, ArchiveAssumption DEF IInv, Typed
<1>8. \A i \in 1 .. Len(queue') : \E j \in 1 .. Len(queue) : queue'[i] = queue[j]
  BY <1>2
<1>9. ASSUME NEW d \in Call, IsBackup(d) PROVE disk'[ServerOf(d)] \in {disk[ServerOf(d)], None}
  BY <1>5, <1>9, Numbers DEF IInv, IsBackup
<1>10. QED
  BY <1>1, <1>2, <1>3, <1>4, <1>6, <1>7, <1>8, <1>9, RestPreserves

LEMMA CellPreserves ==
    ASSUME IInv, CellStep
    PROVE  IInv'
<1>1. CASE Exec
  BY <1>1, ObeyedPreserves DEF Exec
<1>2. CASE ExecFails
  <2>1. /\ Take({"off", "flush", "on"}) /\ Reply(Oldest, FALSE, None)
        /\ Obeyed(Oldest) \/ UNCHANGED <<game, crossed, restored>>
        /\ UNCHANGED <<caller, walk, begun, unrestored>>
    BY <1>2 DEF ExecFails
  <2>2. CASE Obeyed(Oldest)
    BY <2>1, <2>2, ObeyedPreserves
  <2>3. CASE UNCHANGED <<game, crossed, restored>>
    <3>1. UNCHANGED <<caller, walk, game, history>>
      BY <2>1, <2>3 DEF history
    <3>2. QED
      BY <2>1, <3>1, RefusalPreserves
  <2>4. QED
    BY <2>1, <2>2, <2>3
<1>3. CASE OpenWorld
  BY <1>3, OpenPreserves
<1>4. CASE \E f \in File : ReadFile(f)
  BY <1>4, ReadPreserves
<1>5. CASE \E ok \in BOOLEAN : EndWalk(ok) \/ RemoveWorld(ok)
  BY <1>5, EndWalkPreserves, RemovePreserves
<1>6. QED
  BY <1>1, <1>2, <1>3, <1>4, <1>5 DEF CellStep

-----------------------------------------------------------------------------
(***************************************************************************)
(* The game.                                                               *)
(***************************************************************************)
LEMMA PlayPreserves ==
    ASSUME IInv, NEW s \in Server, Play(s)
    PROVE  IInv'
<1>1. /\ memory[s] < MaxVersion /\ memory' = [memory EXCEPT ![s] = @ + 1]
      /\ UNCHANGED <<caller, cell, saving, disk, history>>
  BY DEF Play
<1>2. UNCHANGED <<asked, pc, staged, result, queue, walk, answer, saving, disk, begun, crossed, restored, unrestored>>
  BY <1>1 DEF caller, cell, history
<1>3. memory' \in [Server -> 0 .. MaxVersion]
      /\ \A r \in Server : memory'[r] \in Nat /\ memory'[r] >= memory[r]
  BY <1>1, ArchiveAssumption DEF IInv, Typed
<1>4. Typed'
  BY <1>2, <1>3 DEF IInv, Typed
<1>5. ASSUME NEW d \in Call
      PROVE  /\ walk' # None /\ walk'.call = d =>
                   pc[d] \in {"get", "on", "ended"} /\ asked[d] \in Request /\ disk'[ServerOf(d)] # None
             /\ IsBackup(d) /\ pc[d] = "get" /\ walk' # None /\ walk'.call = d =>
                   \A f \in DOMAIN walk'.read :
                       /\ walk'.read[f] >= begun[d]
                       /\ d \notin crossed => walk'.read[f] = disk'[ServerOf(d)][f]
  BY <1>2 DEF IInv, Mine, Sane, Protected
<1>6. QED
  BY <1>1, <1>2, <1>3, <1>4, <1>5, RestPreserves

LEMMA AutosavePreserves ==
    ASSUME IInv, NEW s \in Server, NEW f \in File, Autosave(s, f)
    PROVE  IInv'
<1>1. /\ saving[s] /\ disk[s] # None /\ disk' = [disk EXCEPT ![s][f] = memory[s]]
      /\ UNCHANGED <<caller, cell, saving, memory, history>>
  BY DEF Autosave
<1>2. UNCHANGED <<asked, pc, staged, result, queue, walk, answer, saving, memory, begun, crossed, restored, unrestored>>
  BY <1>1 DEF caller, cell, history
<1>3. memory[s] \in 0 .. MaxVersion /\ disk[s] \in Content
  BY <1>1 DEF IInv, Typed
<1>4. /\ disk' = [disk EXCEPT ![s] = [disk[s] EXCEPT ![f] = memory[s]]]
      /\ [disk[s] EXCEPT ![f] = memory[s]] \in Content
  BY <1>1, <1>3 DEF Content
<1>5. /\ disk' \in [Server -> Content \cup {None}]
      /\ disk'[s] = [disk[s] EXCEPT ![f] = memory[s]] /\ disk'[s] # None
      /\ \A r \in Server \ {s} : disk'[r] = disk[r]
  BY <1>4, ArchiveAssumption DEF IInv, Typed
<1>6. disk'[s][f] = memory[s] /\ \A g \in File \ {f} : disk'[s][g] = disk[s][g]
  BY <1>3, <1>5 DEF Content
<1>7. Typed'
  BY <1>2, <1>5 DEF IInv, Typed
<1>8. \A r \in Server : memory'[r] \in Nat /\ memory'[r] >= memory[r]
  BY <1>2, ArchiveAssumption DEF IInv, Typed
<1>9. ASSUME NEW d \in Call
      PROVE  walk' # None /\ walk'.call = d =>
                 pc[d] \in {"get", "on", "ended"} /\ asked[d] \in Request /\ disk'[ServerOf(d)] # None
  <2>1. SUFFICES ASSUME walk # None, walk.call = d PROVE disk'[ServerOf(d)] # None
                 /\ pc[d] \in {"get", "on", "ended"} /\ asked[d] \in Request
    BY <1>2
  <2>2. pc[d] \in {"get", "on", "ended"} /\ asked[d] \in Request /\ disk[ServerOf(d)] # None
    BY <2>1 DEF IInv, Mine, Sane
  <2>3. ServerOf(d) \in Server
    BY <2>2 DEF ServerOf, Request
  <2>4. QED
    BY <1>5, <2>2, <2>3
<1>10. ASSUME NEW d \in Call, IsBackup(d), IsFlushed(d)
       PROVE  disk'[ServerOf(d)] = disk[ServerOf(d)] \/ d \in crossed
  <2>1. SavingIsOff(d)
    BY <1>10 DEF IsFlushed, SavingIsOff
  <2>2. ServerOf(d) \in Server /\ (d \in crossed \/ ServerOf(d) # s)
    BY <1>1, <1>10, <2>1, Numbers DEF IInv, Mine, Protected, IsBackup
  <2>3. QED
    BY <1>5, <2>2
<1>11. ASSUME NEW d \in Call, IsBackup(d), IsFlushed(d)
       PROVE  disk'[ServerOf(d)] \in {disk[ServerOf(d)], None} \/ Good(d, disk[ServerOf(d)])'
  <2>1. SUFFICES ASSUME d \in crossed, ServerOf(d) = s PROVE Good(d, disk[ServerOf(d)])'
    BY <1>5, <1>10, <1>11, Numbers DEF IInv, IsBackup
  <2>2. Good(d, disk[s]) /\ begun[d] =< memory[s]
    BY <1>1, <1>11, <2>1 DEF IInv, Mine, Protected
  <2>3. \A g \in File : disk'[s][g] >= begun[d]
    BY <1>3, <1>6, <2>2, <1>11, Numbers DEF Good, IInv, IsBackup
  <2>4. ServerOf(d)' = s
    BY <1>2, <2>1 DEF ServerOf
  <2>5. QED
    BY <1>2, <2>1, <2>3, <2>4 DEF Good
<1>12. ASSUME NEW d \in Call, IsBackup(d), pc[d] = "get", walk' # None, walk'.call = d,
              NEW g \in DOMAIN walk'.read
       PROVE  walk'.read[g] >= begun[d] /\ (d \notin crossed => walk'.read[g] = disk'[ServerOf(d)][g])
  <2>1. walk.read[g] >= begun[d] /\ (d \notin crossed => walk.read[g] = disk[ServerOf(d)][g])
    BY <1>2, <1>12 DEF IInv, Mine, Protected
  <2>2. d \notin crossed => disk'[ServerOf(d)] = disk[ServerOf(d)]
    BY <1>10, <1>12 DEF IsFlushed
  <2>3. QED
    BY <1>2, <2>1, <2>2
<1>13. \A i \in 1 .. Len(queue') : \E j \in 1 .. Len(queue) : queue'[i] = queue[j]
  BY <1>2
<1>14. QED
  BY <1>1, <1>2, <1>7, <1>8, <1>9, <1>11, <1>12, <1>13, RestPreserves

-----------------------------------------------------------------------------
LEMMA StepPreserves == IInv /\ [Next]_vars => IInv'
<1> SUFFICES ASSUME IInv, [Next]_vars PROVE IInv'
  OBVIOUS
<1>1. ASSUME NEW c \in Call, NEW r \in Asks[c], Begin(c, r) PROVE IInv'
  BY <1>1, BeginPreserves
<1>2. ASSUME NEW c \in Call, AccessFails(c) \/ CallerStep(c) \/ Close(c) PROVE IInv'
  BY <1>2, CallerPreserves
<1>3. CASE CellStep
  BY <1>3, CellPreserves
<1>4. ASSUME NEW s \in Server, Play(s) PROVE IInv'
  BY <1>4, PlayPreserves
<1>5. ASSUME NEW s \in Server, NEW f \in File, Autosave(s, f) PROVE IInv'
  BY <1>5, AutosavePreserves
<1>6. CASE UNCHANGED vars
  <2>1. UNCHANGED <<asked, pc, staged, result, queue, walk, answer, saving, memory, disk, begun, crossed, restored, unrestored>>
    BY <1>6 DEF vars, caller, cell, game, history
  <2>2. Typed'
    BY <2>1 DEF IInv, Typed
  <2>3. ASSUME NEW c \in Call PROVE Mine(c)'
    BY <2>1 DEF IInv, Mine, Sane, Honest, Protected, Good, Whole, SavingIsOff, IsFlushed,
                Answered, IsBackup, ServerOf
  <2>4. QED
    BY <2>2, <2>3 DEF IInv
<1>7. QED
  BY <1>1, <1>2, <1>3, <1>4, <1>5, <1>6 DEF Next

\* A backup that no other save-on crosses finds saving off and, once flushed, the
\* files on disk as they are to be fetched.
THEOREM ProtectionTheorem == Spec => []IInv
<1>1. Init => IInv
  BY InitEstablishes
<1>2. IInv /\ [Next]_vars => IInv'
  BY StepPreserves
<1>3. QED
  BY <1>1, <1>2, PTL DEF Spec

\* The types of the state.
THEOREM TypeCorrect == Spec => []TypeOK
<1>1. IInv => TypeOK
  BY DEF IInv, Typed, TypeOK, Partial
<1>2. QED
  BY <1>1, ProtectionTheorem, PTL

\* A backup nobody crosses holds the world as of one moment: the game does not
\* write while saving is off, however the cell's reads fall (v2_world_source.go).
THEOREM BackupIsWholeTheorem == Spec => []BackupIsWhole
<1>1. IInv => BackupIsWhole
  BY DEF IInv, Mine, Protected, Good, BackupIsWhole
<1>2. QED
  BY <1>1, ProtectionTheorem, PTL

\* Every backup holds at least what the game had when the call began.
THEOREM BackupIsFreshTheorem == Spec => []BackupIsFresh
<1>1. IInv => BackupIsFresh
  BY DEF IInv, Mine, Protected, Good, BackupIsFresh
<1>2. QED
  BY <1>1, ProtectionTheorem, PTL

\* A backup is handed out only after its save-on was obeyed, and a call that
\* failed leaves no staging file behind.
THEOREM OutcomeIsHonestTheorem == Spec => []OutcomeIsHonest
<1>1. IInv => OutcomeIsHonest
  BY DEF IInv, Typed, Mine, Honest, OutcomeIsHonest
<1>2. QED
  BY <1>1, ProtectionTheorem, PTL
=============================================================================
