------------------------------ MODULE TestRig ------------------------------
(***************************************************************************)
(* iec-server and iec-client joined by one IEC 60870-5-104 connection that *)
(* delivers in order and may break once.  What the master's cache shows,   *)
(* what an interrogation returns and what becomes of the entries of the    *)
(* daemons' maps depends on how the simulator tasks, the control handlers, *)
(* the peer loop, the dispatch task and the requests interleave.           *)
(***************************************************************************)
EXTENDS ClientDaemon

vars == <<up, toS, toC, left, serverVars, clientVars>>

Init ==
  /\ up = TRUE /\ toS = << >> /\ toC = << >>
  /\ left \in Budgets
  /\ ServerInit
  /\ ClientInit

(* The connection breaks: what is on its way may be cut off anywhere.       *)
Disconnect ==
  /\ up /\ up' = FALSE /\ Use("break")
  /\ \E n \in 0..Len(toC) : toC' = SubSeq(toC, 1, n)
  /\ \E n \in 0..Len(toS) : toS' = SubSeq(toS, 1, n)
  /\ UNCHANGED <<serverVars, clientVars>>

Next ==
  \/ ServerNext /\ UNCHANGED clientVars
  \/ ClientNext /\ UNCHANGED serverVars
  \/ Disconnect

Spec == Init /\ [][Next]_vars

(* The peer loop and the dispatch task are scheduled. *)
Fairness ==
  /\ WF_vars(PeerLoop /\ UNCHANGED clientVars)
  /\ WF_vars(ProcessAsdu /\ UNCHANGED serverVars)

FairSpec == Spec /\ Fairness

-----------------------------------------------------------------------------
(* Properties. *)

(* A collector holds no more points than its channel (client.rs 697), a     *)
(* request is in one of the steps of its handler, and only an interrogation *)
(* keeps the write lock between two steps.                                  *)
TypeOK ==
  /\ up \in BOOLEAN /\ peer \in BOOLEAN /\ pump \in BOOLEAN
  /\ lock \in {"free", "gi"} /\ (lock = "gi" <=> serving.step = "gi")
  /\ Len(toC) <= MaxQueue
  /\ \A p \in Ioas :
       /\ image[p].value.kind \in ValueKind
       /\ Cardinality(tracker.baselines[p]) <= 1
       /\ excuse[p] \subseteq {"raced", "retuned", "mistyped"}
  /\ \A t \in Tasks : job[t].busy => job[t].asdu.type = "point"
  /\ \A r \in Requests :
       /\ req[r].step \in {"idle", "registered", "waiting", "draining", "expired",
                           "answered"}
       /\ req[r].count <= CollectorCap

(* Every entry of the two maps belongs to a request of that key whose       *)
(* handler is still running: answers, timeouts, failed sends and overwritten *)
(* entries leave nothing behind (client.rs 683-777, 874-925).               *)
NoStrayEntry ==
  /\ \A k \in IntKeys : \A r \in interrogations[k] :
       Running(r) /\ req[r].op = "interrogate" /\ req[r].key = k
  /\ \A k \in CmdKeys : \A r \in cmd_waiters[k] :
       Running(r) /\ req[r].op = "command" /\ req[r].key = k

(* The confirmation of an interrogation and its points want a successor:    *)
(* the next point in ascending order, or the termination.                   *)
WantsNext(a) ==
  (a.type = "interrogation" /\ a.cause = "con") \/ a.cause = "interrogated"

IsNext(a, b) ==
  \/ b.cause = "interrogated" /\ (a.cause = "interrogated" => a.ioa < b.ioa)
  \/ b.type = "interrogation" /\ b.cause = "term"

(* The answer to an interrogation is not broken up: after its confirmation  *)
(* come its points in ascending order and its termination, with no          *)
(* spontaneous ASDU in between, because the write lock is held over all the *)
(* sends (server.rs 642-648).                                               *)
SnapshotUnbroken ==
  \A i \in 1..(Len(toC) - 1) : WantsNext(toC[i]) => IsNext(toC[i], toC[i + 1])

(* An interrogation ended by a termination, while no other was outstanding  *)
(* at the server, returns every point it asked for, unless spontaneous      *)
(* points filled its channel (SPECS.md test 03: "returns full process       *)
(* image").                                                                 *)
CompleteWhenAlone ==
  \A r \in Requests :
    req[r].sole => \/ req[r].count = CollectorCap
                   \/ \A p \in PointsOf(req[r].key) : req[r].points[p] # {}

(* With nothing under way, what the master last received of a point is      *)
(* within the point's deadband of the process image and has its quality     *)
(* ("baselines reflect what the master last saw").  Excused are a point     *)
(* whose newer ASDU was overtaken by an older one, a policy no sample was   *)
(* judged by yet, and a value of the wrong variant.                         *)
AtRest ==
  /\ toC = << >> /\ serving = NotServing
  /\ \A t \in Tasks : ~job[t].busy

CacheWithinDeadband ==
  up /\ peer /\ AtRest =>
    \A p \in Ioas : \A seen \in cache[p] :
      excuse[p] = {} =>
        LET now == OnTheWire(Kind[p], image[p])
            policy == PolicyOf(tracker, p)
        IN /\ seen.quality = now.quality
           /\ IF policy.kind = "None" THEN SameValue(seen.value, now.value)
              ELSE ~ThresholdCrossed(seen.value, now.value, policy)

(* An interrogation gives the write lock back: it waits for room on the     *)
(* connection with the lock held (server.rs 642-648), and the client's      *)
(* dispatch task, which makes room, needs nothing of the server's.          *)
LockReleased == []<>(lock = "free")

=============================================================================
