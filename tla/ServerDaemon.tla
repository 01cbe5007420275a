---------------------------- MODULE ServerDaemon ----------------------------
(***************************************************************************)
(* The iec-server daemon (test-tools/src/bin/server.rs) on TCP with one    *)
(* connected master: the process image, the deadband tracker, one          *)
(* simulator task per scheduled point, the control handlers and the loop   *)
(* that serves the master's ASDUs.                                         *)
(*                                                                         *)
(* All of them share DaemonState behind one RwLock.  A control handler or  *)
(* a tick changes the image and encodes its ASDU under the write lock,     *)
(* gives the lock up, and broadcasts under the read lock: two steps here,  *)
(* with the encoded ASDU kept in job.  An interrogation keeps the write    *)
(* lock over all of its sends (lock = "gi").  Taking the read lock and     *)
(* sending to the one master is one step: holders of the read lock do not  *)
(* exclude each other.  A request for an unknown IOA, and the Get, List    *)
(* and Status requests, change nothing and have no action.                 *)
(***************************************************************************)
EXTENDS Deadband, Sequences, FiniteSets

CONSTANTS
  Kind,            \* Kind[p]: the PointKind of information object p
  Controls,        \* control connections (negative numbers)
  SetValues,       \* values a Set request may carry
  SetQualities,    \* qualities a Set request may carry; {} leaves it alone
  Schedules,       \* schedules a SimSet request may carry
  Policies,        \* policies a SetDeadband request may carry
  Budgets,         \* bound: functions that give the stimuli of each kind
  MaxQueue         \* ASDUs between the daemons before a send has to wait

VARIABLES
  up,              \* the connection stands
  toS, toC,        \* ASDUs on their way to the server and to the client
  image,           \* DaemonState.image
  tracker,         \* DaemonState.tracker
  peer,            \* the connection is in DaemonState.peers
  lock,            \* "free", or "gi": the write lock is held by the peer loop
  job,             \* job[t]: what task t still has to broadcast
  serving,         \* the peer loop: the request it answers
  left,            \* stimuli that may still come
  excuse           \* history: why the master may see less than the deadband

serverVars ==
  <<image, tracker, peer, lock, job, serving, excuse>>

-----------------------------------------------------------------------------
(* points.rs and wire.rs.  *)

PointKind == {"SpNa", "DpNa", "MeNa", "MeNb", "MeNc",
              "SpTb", "DpTb", "MeTd", "MeTe", "MeTf"}

(* The variant of PointValue that suits a kind, and PointEntry::new's value: *)
(* Off, the initial double point, is 1.                                      *)
Variant(kind) ==
  CASE kind \in {"SpNa", "SpTb"} -> "Single"
    [] kind \in {"DpNa", "DpTb"} -> "Double"
    [] kind \in {"MeNa", "MeTd"} -> "Normalized"
    [] kind \in {"MeNb", "MeTe"} -> "Scaled"
    [] kind \in {"MeNc", "MeTf"} -> "Float"

InitialValue(kind) ==
  Value(Variant(kind), IF Variant(kind) = "Double" THEN 1 ELSE 0)

NoQuality == [overflow |-> FALSE, invalid |-> FALSE]

DefaultSchedule(kind) ==
  CASE kind \in {"SpNa", "SpTb"} -> "Toggle"
    [] kind \in {"DpNa", "DpTb"} -> "Rotate"
    [] kind \in {"MeNa", "MeTd"} -> "RandomWalk"
    [] kind \in {"MeNb", "MeTe"} -> "StepUp"
    [] kind \in {"MeNc", "MeTf"} -> "Sine"

PointEntry(kind) ==
  [value |-> InitialValue(kind), quality |-> NoQuality,
   schedule |-> DefaultSchedule(kind)]

(* Nva::from_f32 and as_f32, in units of 2^-15: clamp, with NaN sent as 0. *)
Normalized(n) ==
  CASE n = NaN     -> 0
    [] n < -32768  -> -32768
    [] n > 32767   -> 32767
    [] OTHER       -> n

(* encode_point followed by the decoder of its type: a value of the wrong   *)
(* variant is sent as the initial value of the kind, and the single and     *)
(* double point types have no overflow bit (quality_from_wire).             *)
OnTheWire(kind, entry) ==
  [value   |-> IF entry.value.kind # Variant(kind) THEN InitialValue(kind)
               ELSE IF Variant(kind) = "Normalized"
               THEN Value("Normalized", Normalized(entry.value.n))
               ELSE entry.value,
   quality |-> IF Variant(kind) \in Digital
               THEN [entry.quality EXCEPT !.overflow = FALSE]
               ELSE entry.quality]

(* entry_to_monitored: a value of the wrong variant becomes Single(false). *)
Monitored(kind, entry) ==
  IF entry.value.kind = Variant(kind) THEN entry.value ELSE Value("Single", 0)

(* kind_for_group: a group is named by the kind of its points. *)
PointsOf(key) == IF key = "general" THEN Ioas ELSE {p \in Ioas : Kind[p] = key}

(* The sorted loop of an interrogation goes on with this one. *)
Lowest(S) == {p \in S : \A q \in S : p <= q}

-----------------------------------------------------------------------------
(* advance_value.  The steps, limits and amplitudes are those of            *)
(* populate_default, scaled down: a walk of step 1 in -1..1, a step-up of 1  *)
(* wrapping at 3, a sinusoid sampled at four phases.                         *)

Clamp(n, lo, hi) == IF n < lo THEN lo ELSE IF n > hi THEN hi ELSE n

WrapAt == 3
WalkLimit == 1
SineSamples == {-2, 0, 2}

NumberIn(value, variants) == IF value.kind \in variants THEN value.n ELSE 0

Measured(value) == IF value.kind = "Normalized" THEN "Normalized" ELSE "Float"

AdvanceValue(schedule, value) ==
  CASE schedule = "None" -> {value}
    [] schedule = "Toggle" ->
         {Value("Single", IF value = Value("Single", 1) THEN 0 ELSE 1)}
    [] schedule = "Rotate" ->
         {Value("Double", IF value = Value("Double", 1) THEN 2 ELSE 1)}
    [] schedule = "RandomWalk" ->
         LET n == NumberIn(value, {"Normalized", "Float"})
         IN {Value(Measured(value), Clamp(n + d, -WalkLimit, WalkLimit)) :
               d \in {-1, 1}}
    [] schedule = "StepUp" ->
         {Value("Scaled", (NumberIn(value, {"Scaled"}) + 1) % WrapAt)}
    [] schedule = "Sine" -> {Value(Measured(value), n) : n \in SineSamples}

-----------------------------------------------------------------------------
(* ASDUs.  An interrogation's key is its qualifier, a command's its type    *)
(* and object address; "system" stands for the types the server confirms    *)
(* with one ASDU (C_CI, C_RD, C_CS and C_RP).                               *)

NoData == [value |-> Value("Single", 0), quality |-> NoQuality]

Asdu(type, cause, key) ==
  [type |-> type, cause |-> cause, key |-> key, ioa |-> 0, data |-> NoData]

PointAsdu(cause, p) ==
  [type |-> "point", cause |-> cause, key |-> Kind[p], ioa |-> p,
   data |-> OnTheWire(Kind[p], image'[p])]

Tasks == Ioas \cup Controls

Idle == [busy |-> FALSE, asdu |-> Asdu("none", "none", "none"), late |-> FALSE]

NotServing == [step |-> "none", key |-> "none", todo |-> {}]

(* The stimuli: what the environment and the simulator timers start. *)
Stimuli == {"tick", "set", "tune", "request", "system", "break"}

Use(k) == left[k] > 0 /\ left' = [left EXCEPT ![k] = @ - 1]

ServerInit ==
  /\ image = [p \in Ioas |-> PointEntry(Kind[p])]
  /\ tracker = NewTracker
  /\ peer = FALSE /\ lock = "free"
  /\ job = [t \in Tasks |-> Idle]
  /\ serving = NotServing
  /\ excuse = [p \in Ioas |-> {}]

(* ServerSender::send_asdu: waits for room, and is lost on a closed         *)
(* connection.                                                              *)
CanSend == up => Len(toC) < MaxQueue

SendToC(asdu) == toC' = IF up THEN Append(toC, asdu) ELSE toC

-----------------------------------------------------------------------------
(* History.  A task whose ASDU for p is not out yet is late once another    *)
(* handler has told the tracker about p.                                    *)

MarkLate(p, jobs) ==
  [t \in Tasks |->
     [jobs[t] EXCEPT !.late = @ \/ (jobs[t].busy /\ jobs[t].asdu.ioa = p)]]

Mistyped(p, value) == IF value.kind = Variant(Kind[p]) THEN {} ELSE {"mistyped"}

-----------------------------------------------------------------------------
(* The tasks.  *)

Pending(asdu) == [busy |-> TRUE, asdu |-> asdu, late |-> FALSE]

(* One tick of the task of point p, up to the end of its write lock. *)
Tick(p) ==
  /\ Use("tick")
  /\ ~job[p].busy /\ lock = "free"
  /\ \E value \in AdvanceValue(image[p].schedule, image[p].value) :
       LET entry == [image[p] EXCEPT !.value = value]
           sample == Monitored(Kind[p], entry)
           emits == Emits(tracker, p, sample, entry.quality)
       IN /\ image' = [image EXCEPT ![p] = entry]
          /\ tracker' = Evaluate(tracker, p, sample, entry.quality)
          /\ job' = IF emits
                    THEN [MarkLate(p, job) EXCEPT
                            ![p] = Pending(PointAsdu("spontaneous", p))]
                    ELSE job
          /\ excuse' = [excuse EXCEPT
                          ![p] = (@ \ {"retuned"}) \cup Mistyped(p, value)]
  /\ UNCHANGED <<up, toS, toC, peer, lock, serving>>

(* Mutant: the tracker does not hear of the value that is sent. *)
HandleSetUnobserved(t, p, value, quality) ==
  /\ Use("set")
  /\ ~job[t].busy /\ lock = "free"
  /\ image' = [image EXCEPT ![p].value = value]
  /\ job' = [MarkLate(p, job) EXCEPT ![t] = Pending(PointAsdu("spontaneous", p))]
  /\ excuse' = [excuse EXCEPT ![p] = (@ \ {"retuned"}) \cup Mistyped(p, value)]
  /\ UNCHANGED <<up, toS, toC, tracker, peer, lock, serving>>

(* handle_set, up to the end of its write lock. *)
HandleSet(t, p, value, quality) ==
  /\ Use("set")
  /\ ~job[t].busy /\ lock = "free"
  /\ LET q == IF quality = {} THEN image[p].quality
              ELSE CHOOSE x \in quality : TRUE
         entry == [image[p] EXCEPT !.value = value, !.quality = q]
     IN /\ image' = [image EXCEPT ![p] = entry]
        /\ tracker' = Observe(tracker, p, Monitored(Kind[p], entry), q)
        /\ job' = [MarkLate(p, job) EXCEPT
                     ![t] = Pending(PointAsdu("spontaneous", p))]
        /\ excuse' = [excuse EXCEPT
                        ![p] = (@ \ {"retuned"}) \cup Mistyped(p, value)]
  /\ UNCHANGED <<up, toS, toC, peer, lock, serving>>

(* Mutant: the read lock is not taken. *)
BroadcastUnlocked(t) ==
  /\ job[t].busy
  /\ peer => CanSend
  /\ IF peer THEN SendToC(job[t].asdu) ELSE toC' = toC
  /\ job' = [job EXCEPT ![t] = Idle]
  /\ UNCHANGED <<up, toS, image, tracker, peer, lock, serving, left, excuse>>

(* broadcast, under the read lock: the second half of a tick or a Set. *)
Broadcast(t) ==
  /\ job[t].busy /\ lock = "free"
  /\ peer => CanSend
  /\ IF peer THEN SendToC(job[t].asdu) ELSE toC' = toC
  /\ job' = [job EXCEPT ![t] = Idle]
  /\ excuse' = [excuse EXCEPT
                  ![job[t].asdu.ioa] = IF job[t].late THEN @ \cup {"raced"}
                                       ELSE @ \ {"raced"}]
  /\ UNCHANGED <<up, toS, image, tracker, peer, lock, serving, left>>

(* handle_sim_set *)
HandleSimSet(p, schedule) ==
  /\ Use("tune")
  /\ lock = "free"
  /\ image' = [image EXCEPT ![p].schedule = schedule]
  /\ UNCHANGED <<up, toS, toC, tracker, peer, lock, job, serving, excuse>>

(* handle_set_deadband: the baseline is not looked at again until a tick. *)
HandleSetDeadband(p, policy) ==
  /\ Use("tune")
  /\ lock = "free"
  /\ tracker' = SetPolicy(tracker, p, policy)
  /\ excuse' = [excuse EXCEPT ![p] = @ \cup {"retuned"}]
  /\ UNCHANGED <<up, toS, toC, image, peer, lock, job, serving>>

-----------------------------------------------------------------------------
(* run_104_peer *)

Register ==
  /\ up /\ ~peer /\ lock = "free"
  /\ peer' = TRUE
  /\ UNCHANGED <<up, toS, toC, image, tracker, lock, job, serving, excuse, left>>

(* The Closed event comes after the ASDUs that were read. *)
Unregister ==
  /\ ~up /\ peer /\ toS = << >> /\ serving = NotServing /\ lock = "free"
  /\ peer' = FALSE
  /\ UNCHANGED <<up, toS, toC, image, tracker, lock, job, serving, excuse, left>>

(* handle_incoming_asdu: the first answer of each type. *)
Confirmation(asdu) == Asdu(asdu.type, "con", asdu.key)

HandleIncomingAsdu ==
  /\ peer /\ serving = NotServing /\ toS # << >> /\ CanSend
  /\ Head(toS).type = "interrogation" => lock = "free"
  /\ toS' = Tail(toS)
  /\ SendToC(Confirmation(Head(toS)))
  /\ CASE Head(toS).type = "interrogation" ->
            /\ lock' = "gi"
            /\ serving' = [step |-> "gi", key |-> Head(toS).key,
                           todo |-> PointsOf(Head(toS).key)]
       [] Head(toS).type = "command" ->
            /\ serving' = [NotServing EXCEPT !.step = "command",
                                             !.key = Head(toS).key]
            /\ UNCHANGED lock
       [] OTHER -> UNCHANGED <<lock, serving>>
  /\ UNCHANGED <<up, image, tracker, peer, job, excuse, left>>

(* The loops of respond_interrogation_general and _group. *)
RespondPoint ==
  /\ serving.step = "gi" /\ CanSend
  /\ \E p \in Lowest(serving.todo) :
       /\ image' = image
       /\ tracker' = Observe(tracker, p, Monitored(Kind[p], image[p]),
                             image[p].quality)
       /\ SendToC(PointAsdu("interrogated", p))
       /\ job' = MarkLate(p, job)
       /\ excuse' = [excuse EXCEPT ![p] = @ \ {"raced", "retuned"}]
       /\ serving' = [serving EXCEPT !.todo = @ \ {p}]
  /\ UNCHANGED <<up, toS, peer, lock, left>>

(* Mutant: the write lock is kept. *)
RespondTerminationLocked ==
  /\ serving.step = "gi" /\ serving.todo = {} /\ CanSend
  /\ SendToC(Asdu("interrogation", "term", serving.key))
  /\ serving' = NotServing
  /\ UNCHANGED <<up, toS, image, tracker, peer, lock, job, excuse, left>>

RespondTermination ==
  /\ serving.step = "gi" /\ serving.todo = {} /\ CanSend
  /\ SendToC(Asdu("interrogation", "term", serving.key))
  /\ lock' = "free" /\ serving' = NotServing
  /\ UNCHANGED <<up, toS, image, tracker, peer, job, excuse, left>>

(* handle_command_list after its 50 ms. *)
CommandTermination ==
  /\ serving.step = "command" /\ CanSend
  /\ SendToC(Asdu("command", "term", serving.key))
  /\ serving' = NotServing
  /\ UNCHANGED <<up, toS, image, tracker, peer, lock, job, excuse, left>>

ServerTask == (\E t \in Tasks : Broadcast(t)) \/ Register \/ Unregister
PeerLoop == HandleIncomingAsdu \/ RespondPoint \/ RespondTermination \/ CommandTermination

ServerNext ==
  \/ \E p \in Ioas : Tick(p)
  \/ \E t \in Controls, p \in Ioas, v \in SetValues, q \in SetQualities :
       HandleSet(t, p, v, q)
  \/ \E p \in Ioas, s \in Schedules : HandleSimSet(p, s)
  \/ \E p \in Ioas, d \in Policies : HandleSetDeadband(p, d)
  \/ ServerTask
  \/ PeerLoop

=============================================================================
