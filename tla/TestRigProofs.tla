--------------------------- MODULE TestRigProofs ---------------------------
(***************************************************************************)
(* Proofs about the two daemons, for any points, requests, keys, budgets   *)
(* and capacities.  NoStrayEntry rests on ClientInv, which only the steps  *)
(* of iec-client can disturb; SnapshotUnbroken on ServerInv, which says    *)
(* what the peer loop and the other tasks of iec-server owe each other     *)
(* while an interrogation is being answered.                               *)
(***************************************************************************)
EXTENDS TestRig, SequenceTheorems, TLAPS

(* The maps and the requests of the client fit together.  A waiter that is *)
(* still in the map has not been signalled: this is why a handler that was *)
(* signalled need not take its entry out.                                  *)
Fields == {"op", "key", "step", "signal"}

MapsOK ==
  /\ interrogations \in [IntKeys -> SUBSET Requests]
  /\ cmd_waiters \in [CmdKeys -> SUBSET Requests]
  /\ DOMAIN req = Requests
  /\ \A r \in Requests : Fields \subseteq DOMAIN req[r]

StepsOK ==
  \A r \in Requests :
    /\ req[r].step = "draining" => req[r].op = "interrogate"
    /\ req[r].step = "expired" => req[r].op = "command"
    /\ req[r].step = "idle" => req[r].signal = "none"
    /\ req[r].op = "interrogate" => req[r].key \in IntKeys
    /\ req[r].op = "command" => req[r].key \in CmdKeys

WaitersUnsignalled ==
  \A k \in CmdKeys : \A r \in cmd_waiters[k] : req[r].signal = "none"

ClientInv == MapsOK /\ StepsOK /\ WaitersUnsignalled /\ NoStrayEntry

LEMMA ClientInitial == ClientInit => ClientInv
  BY DEF ClientInit, ClientInv, MapsOK, StepsOK, WaitersUnsignalled, NoStrayEntry, Fields, NotStarted

LEMMA ClientUnchanged == ClientInv /\ UNCHANGED clientVars => ClientInv'
  BY DEF ClientInv, MapsOK, StepsOK, WaitersUnsignalled, NoStrayEntry, Running, clientVars

(* What dropping the sending ends changes: the signal of some requests. *)
LEMMA DroppedFields ==
  ASSUME NEW rs, NEW f, DOMAIN f = Requests, \A r \in Requests : Fields \subseteq DOMAIN f[r]
  PROVE  /\ DOMAIN Dropped(rs, f) = Requests
         /\ \A r \in Requests :
              /\ Fields \subseteq DOMAIN Dropped(rs, f)[r]
              /\ Dropped(rs, f)[r].op = f[r].op
              /\ Dropped(rs, f)[r].key = f[r].key
              /\ Dropped(rs, f)[r].step = f[r].step
              /\ r \notin rs => Dropped(rs, f)[r].signal = f[r].signal
  BY DEF Dropped, Fields

LEMMA StartInterrogateStep ==
  ASSUME ClientInv, NEW r \in Requests, NEW k \in IntKeys, StartInterrogate(r, k)
  PROVE  ClientInv'
<1> DEFINE d == Dropped(interrogations[k], req)
<1>1. /\ DOMAIN d = Requests
      /\ \A q \in Requests :
           /\ Fields \subseteq DOMAIN d[q]
           /\ d[q].op = req[q].op /\ d[q].key = req[q].key /\ d[q].step = req[q].step
           /\ q \notin interrogations[k] => d[q].signal = req[q].signal
  BY DroppedFields DEF ClientInv, MapsOK
<1>2. req' = [d EXCEPT ![r].op = "interrogate", ![r].key = k, ![r].step = "registered"]
  BY DEF StartInterrogate
<1> HIDE DEF d
<1>3. /\ DOMAIN req' = Requests
      /\ \A q \in Requests :
           /\ Fields \subseteq DOMAIN req'[q]
           /\ req'[q].signal = d[q].signal
           /\ req'[q].op = IF q = r THEN "interrogate" ELSE req[q].op
           /\ req'[q].key = IF q = r THEN k ELSE req[q].key
           /\ req'[q].step = IF q = r THEN "registered" ELSE req[q].step
  BY <1>1, <1>2 DEF Fields
<1>4. req[r].step = "idle"
  BY DEF StartInterrogate, NextRequest, Started
<1>5. \A q \in interrogations[k] : req[q].op = "interrogate" /\ req[q].step # "idle"
  BY DEF ClientInv, NoStrayEntry, Running
<1>6. interrogations' = [interrogations EXCEPT ![k] = {r}] /\ cmd_waiters' = cmd_waiters
  BY DEF StartInterrogate
<1>7. MapsOK'
  BY <1>3, <1>6 DEF ClientInv, MapsOK
<1>8. StepsOK'
  BY <1>1, <1>3, <1>5 DEF ClientInv, StepsOK
<1>9. WaitersUnsignalled'
  BY <1>1, <1>3, <1>5, <1>6 DEF ClientInv, WaitersUnsignalled, NoStrayEntry, MapsOK
<1>10. NoStrayEntry'
  BY <1>3, <1>4, <1>6 DEF ClientInv, NoStrayEntry, Running, MapsOK
<1> QED  BY <1>7, <1>8, <1>9, <1>10 DEF ClientInv

LEMMA StartCommandStep ==
  ASSUME ClientInv, NEW r \in Requests, NEW k \in CmdKeys, StartCommand(r, k)
  PROVE  ClientInv'
<1> DEFINE d == Dropped(cmd_waiters[k], req)
<1>1. /\ DOMAIN d = Requests
      /\ \A q \in Requests :
           /\ Fields \subseteq DOMAIN d[q]
           /\ d[q].op = req[q].op /\ d[q].key = req[q].key /\ d[q].step = req[q].step
           /\ q \notin cmd_waiters[k] => d[q].signal = req[q].signal
  BY DroppedFields DEF ClientInv, MapsOK
<1>2. req' = [d EXCEPT ![r].op = "command", ![r].key = k, ![r].step = "registered"]
  BY DEF StartCommand
<1> HIDE DEF d
<1>3. /\ DOMAIN req' = Requests
      /\ \A q \in Requests :
           /\ Fields \subseteq DOMAIN req'[q]
           /\ req'[q].signal = d[q].signal
           /\ req'[q].op = IF q = r THEN "command" ELSE req[q].op
           /\ req'[q].key = IF q = r THEN k ELSE req[q].key
           /\ req'[q].step = IF q = r THEN "registered" ELSE req[q].step
  BY <1>1, <1>2 DEF Fields
<1>4. req[r].step = "idle"
  BY DEF StartCommand, NextRequest, Started
<1>5. /\ \A q \in cmd_waiters[k] : req[q].step # "idle"
      /\ \A j \in CmdKeys : \A q \in cmd_waiters[j] : q # r /\ req[q].key = j
  BY <1>4 DEF ClientInv, NoStrayEntry, Running
<1>6. cmd_waiters' = [cmd_waiters EXCEPT ![k] = {r}] /\ interrogations' = interrogations
  BY DEF StartCommand
<1>7. MapsOK'
  BY <1>3, <1>6 DEF ClientInv, MapsOK
<1>8. StepsOK'
  BY <1>1, <1>3, <1>5 DEF ClientInv, StepsOK
<1>9. WaitersUnsignalled'
  BY <1>1, <1>3, <1>4, <1>5, <1>6 DEF ClientInv, WaitersUnsignalled, StepsOK, MapsOK
<1>10. NoStrayEntry'
  BY <1>3, <1>4, <1>6 DEF ClientInv, NoStrayEntry, Running, MapsOK
<1> QED  BY <1>7, <1>8, <1>9, <1>10 DEF ClientInv

(* The steps in which a request goes on to wait, to drain or to time out.  *)
LEMMA GoesOn ==
  ASSUME ClientInv, NEW r \in Requests, NEW s \in {"waiting", "draining", "expired"},
         Running(r), s = "draining" => req[r].op = "interrogate",
         s = "expired" => req[r].op = "command",
         req' = [req EXCEPT ![r].step = s], UNCHANGED <<interrogations, cmd_waiters>>
  PROVE  ClientInv'
<1>1. /\ DOMAIN req' = Requests
      /\ \A q \in Requests :
           /\ Fields \subseteq DOMAIN req'[q]
           /\ req'[q].signal = req[q].signal
           /\ req'[q].op = req[q].op /\ req'[q].key = req[q].key
           /\ req'[q].step = IF q = r THEN s ELSE req[q].step
  BY DEF ClientInv, MapsOK, Fields
<1>2. MapsOK' /\ StepsOK'
  BY <1>1 DEF ClientInv, MapsOK, StepsOK
<1>3. WaitersUnsignalled'
  BY <1>1 DEF ClientInv, WaitersUnsignalled, MapsOK
<1>4. NoStrayEntry'
  BY <1>1 DEF ClientInv, NoStrayEntry, Running, MapsOK
<1> QED  BY <1>2, <1>3, <1>4 DEF ClientInv

(* An interrogation ends: it empties its key, whoever is under it. *)
RemoveCollector(r, x) ==
  /\ req' = Answered(Dropped(interrogations[req[r].key], req), r, x)
  /\ interrogations' = [interrogations EXCEPT ![req[r].key] = {}]
  /\ UNCHANGED cmd_waiters

LEMMA CollectorRemoved ==
  ASSUME ClientInv, NEW r \in Requests, NEW x, req[r].op = "interrogate", RemoveCollector(r, x)
  PROVE  ClientInv'
<1> DEFINE k == req[r].key
           d == Dropped(interrogations[k], req)
<1>1. k \in IntKeys
  BY DEF ClientInv, StepsOK
<1>2. /\ DOMAIN d = Requests
      /\ \A q \in Requests :
           /\ Fields \subseteq DOMAIN d[q]
           /\ d[q].op = req[q].op /\ d[q].key = req[q].key /\ d[q].step = req[q].step
           /\ q \notin interrogations[k] => d[q].signal = req[q].signal
  BY DroppedFields DEF ClientInv, MapsOK
<1>3. /\ req' = Answered(d, r, x)
      /\ interrogations' = [interrogations EXCEPT ![k] = {}] /\ cmd_waiters' = cmd_waiters
  BY DEF RemoveCollector
<1> HIDE DEF d
<1>4. /\ DOMAIN req' = Requests
      /\ \A q \in Requests :
           /\ Fields \subseteq DOMAIN req'[q]
           /\ req'[q].signal = d[q].signal
           /\ req'[q].op = req[q].op /\ req'[q].key = req[q].key
           /\ req'[q].step = IF q = r THEN "answered" ELSE req[q].step
  BY <1>2, <1>3 DEF Answered, Fields
<1>5. \A q \in interrogations[k] : req[q].op = "interrogate" /\ req[q].step # "idle"
  BY <1>1 DEF ClientInv, NoStrayEntry, Running
<1>6. MapsOK'
  BY <1>3, <1>4 DEF ClientInv, MapsOK
<1>7. StepsOK'
  BY <1>2, <1>4, <1>5 DEF ClientInv, StepsOK
<1>8. WaitersUnsignalled'
  BY <1>2, <1>3, <1>4, <1>5 DEF ClientInv, WaitersUnsignalled, NoStrayEntry, MapsOK
<1>9. NoStrayEntry'
  BY <1>1, <1>3, <1>4 DEF ClientInv, NoStrayEntry, Running, MapsOK
<1> QED  BY <1>6, <1>7, <1>8, <1>9 DEF ClientInv

(* A command ends with its send or its timeout: likewise. *)
LEMMA WaiterRemoved ==
  ASSUME ClientInv, NEW r \in Requests, NEW x, req[r].op = "command", RemoveWaiter(r, x)
  PROVE  ClientInv'
<1> DEFINE k == req[r].key
           d == Dropped(cmd_waiters[k], req)
<1>1. k \in CmdKeys
  BY DEF ClientInv, StepsOK
<1>2. /\ DOMAIN d = Requests
      /\ \A q \in Requests :
           /\ Fields \subseteq DOMAIN d[q]
           /\ d[q].op = req[q].op /\ d[q].key = req[q].key /\ d[q].step = req[q].step
           /\ q \notin cmd_waiters[k] => d[q].signal = req[q].signal
  BY DroppedFields DEF ClientInv, MapsOK
<1>3. /\ req' = Answered(d, r, x)
      /\ cmd_waiters' = [cmd_waiters EXCEPT ![k] = {}] /\ interrogations' = interrogations
  BY DEF RemoveWaiter
<1> HIDE DEF d
<1>4. /\ DOMAIN req' = Requests
      /\ \A q \in Requests :
           /\ Fields \subseteq DOMAIN req'[q]
           /\ req'[q].signal = d[q].signal
           /\ req'[q].op = req[q].op /\ req'[q].key = req[q].key
           /\ req'[q].step = IF q = r THEN "answered" ELSE req[q].step
  BY <1>2, <1>3 DEF Answered, Fields
<1>5. /\ \A q \in cmd_waiters[k] : req[q].step # "idle"
      /\ \A j \in CmdKeys : \A q \in cmd_waiters[j] : req[q].key = j
  BY <1>1 DEF ClientInv, NoStrayEntry, Running
<1>6. MapsOK'
  BY <1>3, <1>4 DEF ClientInv, MapsOK
<1>7. StepsOK'
  BY <1>2, <1>4, <1>5 DEF ClientInv, StepsOK
<1>8. WaitersUnsignalled'
  BY <1>1, <1>2, <1>3, <1>4, <1>5 DEF ClientInv, WaitersUnsignalled, MapsOK
<1>9. NoStrayEntry'
  BY <1>1, <1>3, <1>4 DEF ClientInv, NoStrayEntry, Running, MapsOK
<1> QED  BY <1>6, <1>7, <1>8, <1>9 DEF ClientInv

(* A confirmed command ends without touching the map: its waiter is gone.  *)
LEMMA CommandSignalledStep ==
  ASSUME ClientInv, NEW r \in Requests, CommandSignalled(r)
  PROVE  ClientInv'
<1>1. req' = Answered(req, r, req[r].signal) /\ UNCHANGED <<interrogations, cmd_waiters>>
  BY DEF CommandSignalled
<1>2. /\ DOMAIN req' = Requests
      /\ \A q \in Requests :
           /\ Fields \subseteq DOMAIN req'[q]
           /\ req'[q].signal = req[q].signal
           /\ req'[q].op = req[q].op /\ req'[q].key = req[q].key
           /\ req'[q].step = IF q = r THEN "answered" ELSE req[q].step
  BY <1>1 DEF ClientInv, MapsOK, Answered, Fields
<1>3. /\ \A k \in CmdKeys : r \notin cmd_waiters[k]
      /\ \A k \in IntKeys : r \notin interrogations[k]
  BY DEF CommandSignalled, ClientInv, WaitersUnsignalled, NoStrayEntry
<1>4. MapsOK' /\ StepsOK'
  BY <1>1, <1>2 DEF ClientInv, MapsOK, StepsOK
<1>5. WaitersUnsignalled'
  BY <1>1, <1>2 DEF ClientInv, WaitersUnsignalled, MapsOK
<1>6. NoStrayEntry'
  BY <1>1, <1>2, <1>3 DEF ClientInv, NoStrayEntry, Running, MapsOK
<1> QED  BY <1>4, <1>5, <1>6 DEF ClientInv

(* The dispatch task changes signals, never a step, and it signals a       *)
(* waiter only as it takes it out of the map.                              *)
LEMMA ProcessAsduStep ==
  ASSUME ClientInv, ProcessAsdu
  PROVE  ClientInv'
<1> DEFINE SameSteps ==
      /\ DOMAIN req' = Requests
      /\ \A q \in Requests :
           /\ Fields \subseteq DOMAIN req'[q]
           /\ req'[q].op = req[q].op /\ req'[q].key = req[q].key
           /\ req'[q].step = req[q].step
<1>0. interrogations' = interrogations
  BY DEF ProcessAsdu
<1>1. \A q \in Collecting : req[q].op = "interrogate" /\ req[q].step # "idle"
  BY DEF Collecting, ClientInv, NoStrayEntry, Running
<1>2. CASE EndInterrogations
  <2>1. /\ SameSteps
        /\ \A q \in Requests : q \notin Collecting => req'[q].signal = req[q].signal
        /\ cmd_waiters' = cmd_waiters
    BY <1>2 DEF EndInterrogations, ClientInv, MapsOK, Fields
  <2>2. MapsOK' /\ StepsOK'
    BY <1>0, <1>1, <2>1 DEF ClientInv, MapsOK, StepsOK
  <2>3. WaitersUnsignalled'
    BY <1>1, <2>1 DEF ClientInv, MapsOK, WaitersUnsignalled, NoStrayEntry
  <2>4. NoStrayEntry'
    BY <1>0, <2>1 DEF ClientInv, MapsOK, NoStrayEntry, Running
  <2> QED  BY <2>2, <2>3, <2>4 DEF ClientInv
<1>3. ASSUME NEW k \in CmdKeys, ConfirmCommand(k)
      PROVE  ClientInv'
  <2>1. /\ SameSteps
        /\ \A q \in Requests : q \notin cmd_waiters[k] => req'[q].signal = req[q].signal
        /\ cmd_waiters' = [cmd_waiters EXCEPT ![k] = {}]
    BY <1>3 DEF ConfirmCommand, ClientInv, MapsOK, Fields
  <2>2. /\ \A q \in cmd_waiters[k] : req[q].step # "idle"
        /\ \A j \in CmdKeys : \A q \in cmd_waiters[j] : req[q].key = j
    BY DEF ClientInv, NoStrayEntry, Running
  <2>3. MapsOK' /\ StepsOK'
    BY <1>0, <2>1, <2>2 DEF ClientInv, MapsOK, StepsOK
  <2>4. WaitersUnsignalled'
    BY <2>1, <2>2 DEF ClientInv, MapsOK, WaitersUnsignalled
  <2>5. NoStrayEntry'
    BY <1>0, <2>1 DEF ClientInv, MapsOK, NoStrayEntry, Running
  <2> QED  BY <2>3, <2>4, <2>5 DEF ClientInv
<1>4. ASSUME NEW p, NEW data, UpdatePoint(p, data)
      PROVE  ClientInv'
  <2>1. /\ SameSteps
        /\ \A q \in Requests : req'[q].signal = req[q].signal
        /\ cmd_waiters' = cmd_waiters
    BY <1>4 DEF UpdatePoint, FeedInterrogation, ClientInv, MapsOK, Fields
  <2>2. MapsOK' /\ StepsOK' /\ WaitersUnsignalled'
    BY <1>0, <2>1 DEF ClientInv, MapsOK, StepsOK, WaitersUnsignalled
  <2>3. NoStrayEntry'
    BY <1>0, <2>1 DEF ClientInv, MapsOK, NoStrayEntry, Running
  <2> QED  BY <2>2, <2>3 DEF ClientInv
<1>5. CASE UNCHANGED <<req, cache, cmd_waiters, icEnded>>
  BY <1>0, <1>5 DEF ClientInv, MapsOK, StepsOK, WaitersUnsignalled, NoStrayEntry, Running
<1>6. \/ EndInterrogations
      \/ \E k \in CmdKeys : ConfirmCommand(k)
      \/ \E p, data : UpdatePoint(p, data)
      \/ UNCHANGED <<req, cache, cmd_waiters, icEnded>>
  BY DEF ProcessAsdu
<1> QED  BY <1>2, <1>3, <1>4, <1>5, <1>6

LEMMA RequestSteps ==
  ASSUME ClientInv, NEW r \in Requests, RequestStep(r)
  PROVE  ClientInv'
<1>1. CASE SendInterrogation(r) \/ SendCommand(r)
  BY <1>1, GoesOn DEF SendInterrogation, SendCommand, Running
<1>2. CASE InterrogationSignalled(r) \/ InterrogationExpires(r)
  BY <1>2, GoesOn DEF InterrogationSignalled, InterrogationExpires, Running
<1>3. CASE CommandExpires(r)
  BY <1>3, GoesOn DEF CommandExpires, Running
<1>4. CASE InterrogationSendFails(r) \/ FinishInterrogate(r)
  BY <1>4, CollectorRemoved DEF RemoveCollector, InterrogationSendFails, FinishInterrogate, ClientInv, StepsOK
<1>5. CASE CommandSendFails(r) \/ CommandTimesOut(r)
  BY <1>5, WaiterRemoved DEF CommandSendFails, CommandTimesOut, ClientInv, StepsOK
<1>6. CASE CommandSignalled(r)
  BY <1>6, CommandSignalledStep
<1> QED  BY <1>1, <1>2, <1>3, <1>4, <1>5, <1>6 DEF RequestStep

LEMMA ClientStep == ClientInv /\ [Next]_vars => ClientInv'
<1> SUFFICES ASSUME ClientInv, [Next]_vars PROVE ClientInv'
  OBVIOUS
<1>1. CASE UNCHANGED clientVars
  BY <1>1, ClientUnchanged
<1>2. CASE PumpEnds \/ SendSystem
  BY <1>2 DEF PumpEnds, SendSystem, ClientInv, MapsOK, StepsOK, WaitersUnsignalled, NoStrayEntry, Running
<1>3. CASE ClientNext
  BY <1>2, <1>3, StartInterrogateStep, StartCommandStep, RequestSteps, ProcessAsduStep DEF ClientNext
<1> QED  BY <1>1, <1>3 DEF Next, Disconnect, vars

(* Whatever the order of answers, timeouts, failed sends, overwritten      *)
(* entries and ASDUs, an entry of the two maps of iec-client belongs to a  *)
(* request of its key whose handler is still running, for any number of    *)
(* requests and keys (client.rs handle_interrogate, send_command_and_wait, *)
(* process_asdu).                                                          *)
THEOREM NoStrayEntrySafety == Spec => []NoStrayEntry
<1>1. Init => ClientInv
  BY ClientInitial DEF Init
<1>2. ClientInv => NoStrayEntry
  BY DEF ClientInv
<1> QED  BY <1>1, <1>2, ClientStep, PTL DEF Spec

-----------------------------------------------------------------------------
(* The server. *)

IsSeq(s) == \E S : s \in Seq(S)

JobFields == {"busy", "asdu", "late"}

(* What waits to be broadcast is a spontaneous point. *)
JobsOK ==
  /\ DOMAIN job = Tasks
  /\ \A t \in Tasks :
       /\ JobFields \subseteq DOMAIN job[t]
       /\ job[t].busy => job[t].asdu.type = "point" /\ job[t].asdu.cause = "spontaneous"

(* The peer loop keeps the write lock as long as it answers. *)
ServingOK ==
  /\ {"step", "todo"} \subseteq DOMAIN serving
  /\ serving.todo \subseteq Ioas
  /\ serving.step = "gi" => lock = "gi"

(* An answer that wants its next ASDU is being continued, from there on. *)
AnswerGoesOn ==
  up /\ toC # << >> /\ WantsNext(toC[Len(toC)]) =>
    /\ serving.step = "gi"
    /\ toC[Len(toC)].cause = "interrogated" =>
         \A p \in serving.todo : toC[Len(toC)].ioa < p

ServerInv == IsSeq(toC) /\ JobsOK /\ ServingOK /\ AnswerGoesOn /\ SnapshotUnbroken

LEMMA ServerInitial == Init => ServerInv
<1> SUFFICES ASSUME Init PROVE ServerInv
  OBVIOUS
<1>1. toC = << >> /\ toC \in Seq({})
  BY DEF Init
<1>2. IsSeq(toC)
  BY <1>1, Zenon DEF IsSeq
<1>3. JobsOK /\ ServingOK
  BY DEF Init, ServerInit, JobsOK, JobFields, ServingOK, Idle, NotServing
<1>4. AnswerGoesOn
  BY <1>1 DEF AnswerGoesOn
<1>5. SnapshotUnbroken
  BY <1>1 DEF SnapshotUnbroken
<1> QED  BY <1>2, <1>3, <1>4, <1>5 DEF ServerInv

(* An ASDU is appended where none is wanted, or where it is the next one. *)
LEMMA AppendKeeps ==
  ASSUME IsSeq(toC), SnapshotUnbroken, NEW b, toC' = Append(toC, b),
         toC # << >> /\ WantsNext(toC[Len(toC)]) => IsNext(toC[Len(toC)], b)
  PROVE  /\ IsSeq(toC)' /\ SnapshotUnbroken'
         /\ toC' # << >> /\ toC'[Len(toC')] = b
<1>1. PICK S : toC \in Seq(S)
  BY DEF IsSeq
<1>2. toC \in Seq(S \cup {b}) /\ b \in S \cup {b}
  BY <1>1
<1>3. /\ toC' \in Seq(S \cup {b}) /\ Len(toC') = Len(toC) + 1 /\ toC'[Len(toC) + 1] = b
      /\ \A i \in 1..Len(toC) : toC'[i] = toC[i]
      /\ Len(toC) \in Nat
  BY <1>2, AppendProperties
<1>4. IsSeq(toC)'
  BY <1>3 DEF IsSeq
<1>5. ASSUME NEW i \in 1..(Len(toC') - 1), WantsNext(toC'[i])
      PROVE  IsNext(toC'[i], toC'[i + 1])
  <2>1. CASE i = Len(toC)
    <3>1. toC # << >> /\ toC'[i] = toC[i] /\ toC'[i + 1] = b
      BY <1>1, <1>3, <2>1
    <3> QED  BY <1>5, <2>1, <3>1
  <2>2. CASE i # Len(toC)
    <3>1. i \in 1..(Len(toC) - 1) /\ toC'[i] = toC[i] /\ toC'[i + 1] = toC[i + 1]
      BY <1>3, <2>2
    <3> QED  BY <1>5, <3>1 DEF SnapshotUnbroken
  <2> QED  BY <2>1, <2>2
<1> QED  BY <1>3, <1>4, <1>5 DEF SnapshotUnbroken

(* What is cut off at either end leaves the rest as it was. *)
LEMMA CutKeeps ==
  ASSUME IsSeq(toC), SnapshotUnbroken, NEW k \in Nat \ {0}, NEW n \in Nat, k <= n + 1, n <= Len(toC),
         toC' = SubSeq(toC, k, n)
  PROVE  /\ IsSeq(toC)' /\ SnapshotUnbroken' /\ Len(toC') = n + 1 - k
         /\ \A i \in 1..(n + 1 - k) : toC'[i] = toC[k - 1 + i]
<1>1. PICK S : toC \in Seq(S)
  BY DEF IsSeq
<1>2. /\ toC' \in Seq(S) /\ Len(toC') = n + 1 - k
      /\ \A i \in 1..(n + 1 - k) : toC'[i] = toC[k - 1 + i]
  BY <1>1
<1>3. IsSeq(toC)'
  BY <1>2 DEF IsSeq
<1>4. ASSUME NEW i \in 1..(Len(toC') - 1), WantsNext(toC'[i])
      PROVE  IsNext(toC'[i], toC'[i + 1])
  <2>1. PICK j : j = k - 1 + i
    OBVIOUS
  <2>2. j \in 1..(Len(toC) - 1) /\ i + 1 \in 1..(n + 1 - k) /\ k - 1 + (i + 1) = j + 1
    BY <1>1, <1>2, <2>1
  <2>3. toC'[i] = toC[j] /\ toC'[i + 1] = toC[j + 1]
    BY <1>2, <2>1, <2>2
  <2> QED  BY <1>4, <2>2, <2>3 DEF SnapshotUnbroken
<1> QED  BY <1>2, <1>3, <1>4 DEF SnapshotUnbroken

LEMMA MarkLateFields ==
  ASSUME JobsOK, NEW p
  PROVE  /\ DOMAIN MarkLate(p, job) = Tasks
         /\ \A t \in Tasks :
              /\ JobFields \subseteq DOMAIN MarkLate(p, job)[t]
              /\ MarkLate(p, job)[t].busy = job[t].busy
              /\ MarkLate(p, job)[t].asdu = job[t].asdu
  BY DEF JobsOK, MarkLate, JobFields

LEMMA PendingKeepsJobs ==
  ASSUME JobsOK, NEW p, NEW q, NEW t \in Tasks,
         job' = [MarkLate(p, job) EXCEPT ![t] = Pending(PointAsdu("spontaneous", q))]
  PROVE  JobsOK'
  BY MarkLateFields DEF JobsOK, JobFields, Pending, PointAsdu

(* The tasks that leave the connection alone. *)
LEMMA QuietSteps ==
  ASSUME ServerInv, UNCHANGED <<up, toC, lock, serving>>, JobsOK'
  PROVE  ServerInv'
  BY DEF ServerInv, IsSeq, ServingOK, AnswerGoesOn, SnapshotUnbroken

LEMMA TickStep ==
  ASSUME ServerInv, NEW p \in Ioas, Tick(p)
  PROVE  ServerInv'
<1>1. \/ job' = [MarkLate(p, job) EXCEPT ![p] = Pending(PointAsdu("spontaneous", p))]
      \/ job' = job
  BY DEF Tick
<1>2. JobsOK'
  BY <1>1, PendingKeepsJobs DEF ServerInv, JobsOK, Tasks
<1> QED  BY <1>2, QuietSteps DEF Tick

LEMMA HandleSetStep ==
  ASSUME ServerInv, NEW t \in Controls, NEW p, NEW v, NEW q, HandleSet(t, p, v, q)
  PROVE  ServerInv'
<1>1. job' = [MarkLate(p, job) EXCEPT ![t] = Pending(PointAsdu("spontaneous", p))]
  BY DEF HandleSet
<1>2. JobsOK'
  BY <1>1, PendingKeepsJobs DEF ServerInv, Tasks
<1> QED  BY <1>2, QuietSteps DEF HandleSet

(* A broadcast waits for the lock: no answer is going on then. *)
LEMMA BroadcastStep ==
  ASSUME ServerInv, NEW t \in Tasks, Broadcast(t)
  PROVE  ServerInv'
<1>1. JobsOK'
  BY DEF ServerInv, JobsOK, JobFields, Broadcast, Idle
<1>2. serving' = serving /\ lock' = lock /\ up' = up /\ lock = "free"
  BY DEF Broadcast
<1>3. CASE toC' = toC
  BY <1>1, <1>2, <1>3, QuietSteps
<1>4. CASE up /\ toC' = Append(toC, job[t].asdu)
  <2>1. ~(toC # << >> /\ WantsNext(toC[Len(toC)]))
    BY <1>2, <1>4 DEF ServerInv, AnswerGoesOn, ServingOK
  <2>2. /\ IsSeq(toC)' /\ SnapshotUnbroken'
        /\ toC' # << >> /\ toC'[Len(toC')] = job[t].asdu
    BY <1>4, <2>1, AppendKeeps DEF ServerInv
  <2>3. ~WantsNext(job[t].asdu)
    BY DEF ServerInv, JobsOK, Broadcast, WantsNext
  <2>4. AnswerGoesOn'
    BY <2>2, <2>3 DEF AnswerGoesOn, WantsNext
  <2>5. ServingOK'
    BY <1>2 DEF ServerInv, ServingOK
  <2> QED  BY <1>1, <2>2, <2>4, <2>5 DEF ServerInv
<1> QED  BY <1>3, <1>4 DEF Broadcast, SendToC

(* One ASDU of the peer loop: it continues the answer that is going on. *)
LEMMA PeerLoopSends ==
  ASSUME ServerInv, NEW b, SendToC(b), up' = up, JobsOK', ServingOK',
         up /\ toC # << >> /\ WantsNext(toC[Len(toC)]) =>
           serving.step # "gi" \/ IsNext(toC[Len(toC)], b),
         WantsNext(b) => /\ serving'.step = "gi"
                         /\ b.cause = "interrogated" => \A p \in serving'.todo : b.ioa < p
  PROVE  ServerInv'
<1>1. CASE ~up
  BY <1>1 DEF ServerInv, SendToC, IsSeq, SnapshotUnbroken, AnswerGoesOn
<1>2. CASE up
  <2>1. toC # << >> /\ WantsNext(toC[Len(toC)]) => IsNext(toC[Len(toC)], b)
    BY <1>2 DEF ServerInv, AnswerGoesOn
  <2>2. toC' = Append(toC, b)
    BY <1>2 DEF SendToC
  <2>3. /\ IsSeq(toC)' /\ SnapshotUnbroken'
        /\ toC' # << >> /\ toC'[Len(toC')] = b
    BY <2>1, <2>2, AppendKeeps DEF ServerInv
  <2>4. AnswerGoesOn'
    BY <2>3 DEF AnswerGoesOn, WantsNext
  <2> QED  BY <2>3, <2>4 DEF ServerInv
<1> QED  BY <1>1, <1>2 DEF SendToC

LEMMA HandleIncomingStep ==
  ASSUME ServerInv, HandleIncomingAsdu
  PROVE  ServerInv'
<1> DEFINE b == Confirmation(Head(toS))
<1>1. SendToC(b) /\ up' = up /\ job' = job /\ serving = NotServing
  BY DEF HandleIncomingAsdu
<1>2. \/ /\ b.type = "interrogation" /\ lock' = "gi"
         /\ serving' = [step |-> "gi", key |-> Head(toS).key, todo |-> PointsOf(Head(toS).key)]
      \/ /\ b.type # "interrogation" /\ lock' = lock
         /\ serving' = [NotServing EXCEPT !.step = "command", !.key = Head(toS).key]
      \/ b.type # "interrogation" /\ lock' = lock /\ serving' = serving
  BY DEF HandleIncomingAsdu, Confirmation, Asdu
<1>3. JobsOK'
  BY <1>1 DEF ServerInv, JobsOK
<1>4. b.cause = "con"
  BY DEF Confirmation, Asdu
<1> HIDE DEF b
<1>5. ServingOK'
  <2>1. PointsOf(Head(toS).key) \subseteq Ioas
    BY DEF PointsOf
  <2>2. DOMAIN NotServing = {"step", "key", "todo"} /\ NotServing.todo = {}
    BY DEF NotServing
  <2>3. CASE serving' = [NotServing EXCEPT !.step = "command", !.key = Head(toS).key]
    BY <2>2, <2>3 DEF ServingOK
  <2> QED  BY <1>2, <2>1, <2>3 DEF ServerInv, ServingOK
<1>6. WantsNext(b) => b.cause # "interrogated" /\ serving'.step = "gi"
  BY <1>2, <1>4 DEF WantsNext
<1>7. serving.step # "gi"
  BY <1>1 DEF NotServing
<1> QED  BY <1>1, <1>3, <1>5, <1>6, <1>7, PeerLoopSends

LEMMA RespondPointStep ==
  ASSUME ServerInv, RespondPoint
  PROVE  ServerInv'
<1>1. PICK p \in Lowest(serving.todo) :
        /\ SendToC(PointAsdu("interrogated", p))
        /\ job' = MarkLate(p, job)
        /\ serving' = [serving EXCEPT !.todo = @ \ {p}]
  BY DEF RespondPoint
<1> DEFINE b == PointAsdu("interrogated", p)
<1>2. b.cause = "interrogated" /\ b.ioa = p
  BY DEF PointAsdu
<1>3. SendToC(b)
  BY <1>1
<1> HIDE DEF b
<1>4. JobsOK'
  BY <1>1, MarkLateFields DEF ServerInv, JobsOK
<1>5. serving.step = "gi" /\ lock' = lock /\ up' = up
  BY DEF RespondPoint
<1>6. /\ serving'.todo = serving.todo \ {p} /\ serving'.step = "gi"
      /\ {"step", "todo"} \subseteq DOMAIN serving'
  BY <1>1, <1>5 DEF ServerInv, ServingOK
<1>7. ServingOK'
  BY <1>5, <1>6 DEF ServerInv, ServingOK
<1>8. p \in serving.todo /\ p \in Nat /\ \A q \in serving.todo : q \in Nat /\ p <= q
  BY IoasAssumption DEF Lowest, ServerInv, ServingOK
<1>9. \A q \in serving'.todo : b.ioa < q
  BY <1>2, <1>6, <1>8
<1>10. up /\ toC # << >> /\ WantsNext(toC[Len(toC)]) => IsNext(toC[Len(toC)], b)
  BY <1>2, <1>8 DEF ServerInv, AnswerGoesOn, IsNext
<1> QED  BY <1>3, <1>4, <1>5, <1>6, <1>7, <1>9, <1>10, PeerLoopSends

LEMMA TerminationSteps ==
  ASSUME ServerInv, RespondTermination \/ CommandTermination
  PROVE  ServerInv'
<1>1. JobsOK' /\ up' = up /\ serving' = NotServing
  BY DEF RespondTermination, CommandTermination, ServerInv, JobsOK
<1>2. ServingOK'
  BY <1>1 DEF ServingOK, NotServing
<1>3. CASE RespondTermination
  <2> DEFINE b == Asdu("interrogation", "term", serving.key)
  <2>1. SendToC(b)
    BY <1>3 DEF RespondTermination
  <2>2. ~WantsNext(b) /\ \A a : IsNext(a, b)
    BY DEF WantsNext, IsNext, Asdu
  <2> QED  BY <1>1, <1>2, <2>1, <2>2, PeerLoopSends
<1>4. CASE CommandTermination
  <2> DEFINE b == Asdu("command", "term", serving.key)
  <2>1. SendToC(b) /\ serving.step # "gi"
    BY <1>4 DEF CommandTermination
  <2>2. ~WantsNext(b)
    BY DEF WantsNext, Asdu
  <2> QED  BY <1>1, <1>2, <2>1, <2>2, PeerLoopSends
<1> QED  BY <1>3, <1>4

(* The client and the line only take ASDUs away. *)
LEMMA ProcessAsduKeeps ==
  ASSUME ServerInv, ProcessAsdu, UNCHANGED serverVars
  PROVE  ServerInv'
<1>1. /\ toC # << >> /\ toC' = Tail(toC) /\ up' = up
      /\ serving' = serving /\ lock' = lock /\ job' = job
  BY DEF ProcessAsdu, serverVars
<1>2. Len(toC) \in Nat /\ Len(toC) >= 1 /\ toC' = SubSeq(toC, 2, Len(toC))
  <2>1. PICK S : toC \in Seq(S)
    BY DEF ServerInv, IsSeq
  <2> QED  BY <1>1, <2>1
<1>3. /\ IsSeq(toC)' /\ SnapshotUnbroken' /\ Len(toC') = Len(toC) + 1 - 2
      /\ \A i \in 1..(Len(toC) + 1 - 2) : toC'[i] = toC[2 - 1 + i]
  <2>1. 2 \in Nat \ {0} /\ 2 <= Len(toC) + 1 /\ Len(toC) <= Len(toC)
    BY <1>2
  <2> QED  BY <1>2, <2>1, CutKeeps DEF ServerInv
<1>4. toC' # << >> => toC'[Len(toC')] = toC[Len(toC)]
  <2>1. PICK S : toC' \in Seq(S)
    BY <1>3 DEF IsSeq
  <2> QED  BY <1>2, <1>3, <2>1
<1>5. AnswerGoesOn'
  BY <1>1, <1>4 DEF ServerInv, AnswerGoesOn, WantsNext
<1>6. JobsOK' /\ ServingOK'
  BY <1>1 DEF ServerInv, JobsOK, ServingOK
<1> QED  BY <1>3, <1>5, <1>6 DEF ServerInv

LEMMA DisconnectKeeps ==
  ASSUME ServerInv, Disconnect
  PROVE  ServerInv'
<1>1. PICK n \in 0..Len(toC) : toC' = SubSeq(toC, 1, n)
  BY DEF Disconnect
<1>2. n \in Nat /\ n <= Len(toC)
  <2>1. PICK S : toC \in Seq(S)
    BY DEF ServerInv, IsSeq
  <2> QED  BY <2>1
<1>3. IsSeq(toC)' /\ SnapshotUnbroken'
  BY <1>1, <1>2, CutKeeps DEF ServerInv
<1>4. JobsOK' /\ ServingOK' /\ AnswerGoesOn'
  BY DEF Disconnect, serverVars, ServerInv, JobsOK, ServingOK, AnswerGoesOn
<1> QED  BY <1>3, <1>4 DEF ServerInv

LEMMA ServerStep == ServerInv /\ [Next]_vars => ServerInv'
<1> SUFFICES ASSUME ServerInv, [Next]_vars PROVE ServerInv'
  OBVIOUS
<1>1. CASE UNCHANGED <<up, toC, lock, serving, job>>
  BY <1>1, QuietSteps DEF ServerInv, JobsOK
<1>2. CASE ServerTask
  BY <1>1, <1>2, BroadcastStep DEF ServerTask, Register, Unregister
<1>3. CASE PeerLoop
  BY <1>3, HandleIncomingStep, RespondPointStep, TerminationSteps DEF PeerLoop
<1>4. ASSUME NEW p \in Ioas, (\E s \in Schedules : HandleSimSet(p, s))
                               \/ (\E d \in Policies : HandleSetDeadband(p, d))
      PROVE  ServerInv'
  BY <1>1, <1>4 DEF HandleSimSet, HandleSetDeadband
<1>5. CASE ServerNext
  BY <1>2, <1>3, <1>4, <1>5, TickStep, HandleSetStep DEF ServerNext
<1>6. CASE ClientNext /\ UNCHANGED serverVars
  <2>1. CASE ProcessAsdu
    BY <1>6, <2>1, ProcessAsduKeeps
  <2>2. ASSUME NEW r \in Requests, RequestStep(r) PROVE UNCHANGED <<up, toC>>
    BY <2>2 DEF RequestStep, SendInterrogation, InterrogationSendFails, InterrogationSignalled,
         InterrogationExpires, FinishInterrogate, SendCommand, CommandSendFails, CommandSignalled,
         CommandExpires, CommandTimesOut, RemoveWaiter
  <2>3. ~ProcessAsdu => UNCHANGED <<up, toC>>
    BY <1>6, <2>2 DEF ClientNext, StartInterrogate, StartCommand, PumpEnds, SendSystem
  <2> QED  BY <1>1, <1>6, <2>1, <2>3 DEF serverVars
<1> QED  BY <1>1, <1>5, <1>6, DisconnectKeeps DEF Next, vars, serverVars

(* The answer to an interrogation reaches the line in one piece, in the    *)
(* order of the addresses, whatever the simulator tasks and the control    *)
(* handlers do meanwhile: they broadcast under the read lock, and the peer *)
(* loop has the write lock from the confirmation to the termination, for   *)
(* any points, schedules, budgets and any room on the connection           *)
(* (server.rs 642-648, respond_interrogation_general and _group).          *)
THEOREM SnapshotSafety == Spec => []SnapshotUnbroken
<1>1. ServerInv => SnapshotUnbroken
  BY DEF ServerInv
<1> QED  BY <1>1, ServerInitial, ServerStep, PTL DEF Spec
=============================================================================
