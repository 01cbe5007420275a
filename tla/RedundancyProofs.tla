-------------------------- MODULE RedundancyProofs --------------------------
(***************************************************************************)
(* Safety of the redundancy server for any number of sessions, addresses   *)
(* and channel capacities.                                                 *)
(***************************************************************************)
EXTENDS Redundancy, SequenceTheorems, TLAPS

(* A session that the filter rejects is never heard: the first event that  *)
(* its task receives is the promotion or the end of the session, and       *)
(* either makes the task leave its loop.                                   *)
Unheard(s) ==
  /\ task[s] # "forwarding"
  /\ task[s] \in {"none", "running"} =>
       \/ evts[s] = << >> /\ driver[s] # "Active"
       \/ evts[s] # << >> /\ Head(evts[s]) \in {"Active", "Closed"}

(* A session has no task until the accept loop has inserted it, and comes  *)
(* to the accept loop once.                                                *)
Fresh(s) ==
  /\ driver[s] = "none" => task[s] = "none"
  /\ acceptor = s => task[s] = "none" /\ driver[s] # "none"

IInv ==
  /\ TypeOK
  /\ OnlyAllowedHeard
  /\ \A s \in Session : Fresh(s) /\ (s \notin Allowed => Unheard(s))

LEMMA InitIInv == Init => IInv
  <1>1. SUFFICES ASSUME Init
                 PROVE  IInv
    OBVIOUS
  <1>2. << >> \in Seq(Event) /\ << >> \in Seq(Session) /\ Len(<< >>) = 0
    OBVIOUS
  <1>3. TypeOK
    <2>1. 0 <= EvtCap + 1 /\ 0 <= InboxCap
      BY CapAssumption
    <2>2. \A s \in Session : Len(evts[s]) <= EvtCap + 1
      BY <1>1, <1>2, <2>1 DEF Init
    <2>3. /\ driver \in [Session -> DriverState]
          /\ evts \in [Session -> Seq(Event)]
          /\ task \in [Session -> TaskState]
          /\ peers \in [Addr -> Session \cup {None}]
      BY <1>1, <1>2 DEF Init, DriverState, TaskState
    <2>4. QED
      BY <1>1, <1>2, <2>1, <2>2, <2>3 DEF Init, TypeOK
  <1>4. OnlyAllowedHeard
    BY <1>1, <1>2 DEF Init, OnlyAllowedHeard
  <1>5. ASSUME NEW s \in Session
        PROVE  Fresh(s) /\ Unheard(s)
    BY <1>1, SessionAssumption DEF Init, Fresh, Unheard
  <1>6. QED
    BY <1>3, <1>4, <1>5 DEF IInv

(* What a driver does to the state: at most one event is appended.         *)
LEMMA ReportIInv ==
  ASSUME IInv, NEW s \in Session, NEW e \in Event, NEW d \in DriverState,
         Free(s), Report(s, e, d),
         e \in {"Active", "Closed"} \/ driver[s] = "Active", d # "none",
         UNCHANGED <<task, acceptor, peers, active, inbox, sending, dropped>>
  PROVE  IInv'
  <1>1. evts[s] \in Seq(Event) /\ Len(evts[s]) \in Nat /\ Len(evts[s]) <= EvtCap
    BY DEF IInv, TypeOK, Free
  <1>2. CASE task[s] = "done"
    <2>1. driver' = [driver EXCEPT ![s] = "exited"] /\ UNCHANGED evts
      BY <1>2 DEF Report
    <2>2. TypeOK'
      BY <2>1 DEF IInv, TypeOK, DriverState
    <2>3. OnlyAllowedHeard'
      BY DEF IInv, OnlyAllowedHeard
    <2>4. \A t \in Session : Fresh(t)' /\ (t \notin Allowed => Unheard(t)')
      BY <1>2, <2>1 DEF IInv, TypeOK, Unheard, Fresh
    <2>5. QED
      BY <2>2, <2>3, <2>4 DEF IInv
  <1>3. CASE task[s] # "done"
    <2> DEFINE q == Append(evts[s], e)
    <2>1. q \in Seq(Event) /\ Len(q) = Len(evts[s]) + 1
      BY <1>1, AppendProperties
    <2>2. q # << >> /\ Head(q) = IF evts[s] = << >> THEN e ELSE Head(evts[s])
      <3>1. /\ q # << >> /\ Head(q) = q[1]
            /\ \A i \in 1 .. Len(evts[s]) : q[i] = evts[s][i]
            /\ q[Len(evts[s]) + 1] = e
        BY <1>1, <2>1, AppendProperties
      <3>2. CASE evts[s] = << >>
        BY <3>1, <3>2
      <3>3. CASE evts[s] # << >>
        <4>1. 1 \in 1 .. Len(evts[s]) /\ Head(evts[s]) = evts[s][1]
          BY <1>1, <3>3
        <4>2. QED
          BY <3>1, <3>3, <4>1
      <3>4. QED
        BY <3>2, <3>3
    <2> HIDE DEF q
    <2>3. /\ driver' = [driver EXCEPT ![s] = d]
          /\ evts' = [evts EXCEPT ![s] = q]
      BY <1>3 DEF Report, q
    <2>4. TypeOK'
      BY <1>1, <2>1, <2>3, CapAssumption DEF IInv, TypeOK
    <2>5. OnlyAllowedHeard'
      BY DEF IInv, OnlyAllowedHeard
    <2>6. ASSUME NEW t \in Session, t \notin Allowed
          PROVE  Unheard(t)'
      <3>1. CASE t = s
        BY <2>2, <2>3, <2>6, <3>1 DEF IInv, TypeOK, Unheard
      <3>2. CASE t # s
        BY <2>3, <2>6, <3>2 DEF IInv, TypeOK, Unheard
      <3>3. QED
        BY <3>1, <3>2
    <2>7. \A t \in Session : Fresh(t)'
      BY <2>3 DEF IInv, TypeOK, Fresh, Free, Connected
    <2>8. QED
      BY <2>4, <2>5, <2>6, <2>7 DEF IInv
  <1>4. QED
    BY <1>2, <1>3

LEMMA PeerStepIInv ==
  ASSUME IInv, NEW s \in Session, PeerStep(s) \/ CommandsClosed(s) \/ ReportFails(s)
  PROVE  IInv'
  <1>1. CASE StartDt(s)
    BY <1>1, ReportIInv DEF StartDt, Event, DriverState
  <1>2. CASE StopDt(s)
    BY <1>2, ReportIInv DEF StopDt, Event, DriverState
  <1>3. CASE ReceiveAsdu(s)
    BY <1>3, ReportIInv DEF ReceiveAsdu, Event, DriverState
  <1>4. CASE Close(s)
    BY <1>4, ReportIInv DEF Close, Event, DriverState
  <1>5. CASE StreamFails(s) \/ ReportFails(s)
    BY <1>5 DEF StreamFails, ReportFails, IInv, TypeOK, OnlyAllowedHeard, Unheard, Fresh, DriverState
  <1>6. QED
    BY <1>1, <1>2, <1>3, <1>4, <1>5 DEF PeerStep, CommandsClosed

LEMMA AcceptIInv ==
  ASSUME IInv, NEW s \in Session, Accept(s) \/ RefuseAccept(s)
  PROVE  IInv'
  BY DEF Accept, RefuseAccept, Arrives, IInv, TypeOK, OnlyAllowedHeard, Unheard, Fresh,
         DriverState, TaskState

LEMMA InsertIInv == IInv /\ Insert => IInv'
  BY SessionAssumption
     DEF Insert, IInv, TypeOK, OnlyAllowedHeard, Unheard, Fresh, TaskState

(* A task receives an event and does not come to forward for a session     *)
(* that was rejected.                                                      *)
LEMMA TakeEventIInv ==
  ASSUME IInv, NEW s \in Session, NEW e, NEW t \in TaskState, TakeEvent(s, e, t),
         s \notin Allowed => t = "cleanup",
         peers' \in [Addr -> Session \cup {None}], active' \in Addr \cup {None}
  PROVE  IInv'
  <1>1. /\ evts[s] \in Seq(Event) /\ evts[s] # << >>
        /\ Tail(evts[s]) \in Seq(Event) /\ Len(Tail(evts[s])) = Len(evts[s]) - 1
        /\ Len(evts[s]) \in Nat /\ Len(evts[s]) <= EvtCap + 1
    BY HeadTailProperties DEF IInv, TypeOK, TakeEvent
  <1> DEFINE q == Tail(evts[s])
  <1> HIDE DEF q
  <1>2. /\ q \in Seq(Event) /\ Len(q) <= EvtCap + 1
    BY <1>1, CapAssumption DEF q
  <1>3. /\ evts' = [evts EXCEPT ![s] = q]
        /\ task' = [task EXCEPT ![s] = t]
        /\ UNCHANGED <<driver, acceptor, inbox, sending, dropped>>
    BY DEF TakeEvent, q
  <1>4. TypeOK'
    BY <1>2, <1>3 DEF IInv, TypeOK
  <1>5. OnlyAllowedHeard'
    BY <1>3 DEF IInv, OnlyAllowedHeard
  <1>6. ASSUME NEW u \in Session, u \notin Allowed
        PROVE  Unheard(u)'
    BY <1>3, <1>6 DEF IInv, TypeOK, Unheard
  <1>7. \A u \in Session : Fresh(u)'
    BY <1>3 DEF IInv, TypeOK, Fresh, TakeEvent
  <1>8. QED
    BY <1>4, <1>5, <1>6, <1>7 DEF IInv

LEMMA TaskStepIInv ==
  ASSUME IInv, NEW s \in Session, TaskStep(s)
  PROVE  IInv'
  <1>1. CASE Promote(s)
    BY <1>1, TakeEventIInv, SessionAssumption
       DEF Promote, TaskState, IInv, TypeOK
  <1>2. CASE Reject(s)
    BY <1>2, TakeEventIInv DEF Reject, TaskState, IInv, TypeOK
  <1>3. CASE TakeAsdu(s)
    <2>1. s \in Allowed
      BY <1>3 DEF TakeAsdu, TakeEvent, IInv, Unheard
    <2>2. QED
      BY <1>3, <2>1, TakeEventIInv DEF TakeAsdu, TaskState, IInv, TypeOK
  <1>4. CASE Forward(s)
    <2>1. s \in Allowed
      BY <1>4 DEF Forward, IInv, Unheard
    <2>2. CASE dropped
      BY <1>4, <2>1, <2>2
         DEF Forward, IInv, TypeOK, OnlyAllowedHeard, Unheard, Fresh, TaskState
    <2>3. CASE ~dropped
      <3> DEFINE q == Append(inbox, s)
      <3>1. inbox \in Seq(Session) /\ Len(inbox) \in Nat /\ Len(inbox) < InboxCap
        BY <1>4, <2>3 DEF Forward, IInv, TypeOK
      <3>2. /\ q \in Seq(Session) /\ Len(q) = Len(inbox) + 1
            /\ \A i \in 1 .. Len(inbox) : q[i] = inbox[i]
            /\ q[Len(inbox) + 1] = s
        BY <3>1, AppendProperties
      <3> HIDE DEF q
      <3>3. \A i \in 1 .. Len(q) : q[i] \in Allowed
        BY <2>1, <3>1, <3>2 DEF IInv, OnlyAllowedHeard
      <3>4. inbox' = q /\ task' = [task EXCEPT ![s] = "running"]
            /\ UNCHANGED <<driver, evts, acceptor, peers, active, sending, dropped>>
        BY <1>4, <2>3 DEF Forward, q
      <3>5. TypeOK'
        BY <3>1, <3>2, <3>4, CapAssumption DEF IInv, TypeOK, TaskState
      <3>6. OnlyAllowedHeard'
        BY <3>3, <3>4 DEF OnlyAllowedHeard
      <3>7. \A u \in Session : u \notin Allowed => Unheard(u)'
        BY <2>1, <3>4 DEF IInv, TypeOK, Unheard
      <3>8. \A u \in Session : Fresh(u)'
        BY <1>4, <3>4 DEF IInv, TypeOK, Fresh, Forward
      <3>9. QED
        BY <3>5, <3>6, <3>7, <3>8 DEF IInv
    <2>4. QED
      BY <2>2, <2>3 DEF IInv, TypeOK
  <1>5. CASE TakeStopped(s)
    <2>1. s \in Allowed
      BY <1>5 DEF TakeStopped, TakeEvent, IInv, Unheard
    <2>2. QED
      BY <1>5, <2>1, TakeEventIInv DEF TakeStopped, TaskState, IInv, TypeOK
  <1>6. CASE TakeClosed(s)
    BY <1>6, TakeEventIInv DEF TakeClosed, TaskState, IInv, TypeOK
  <1>7. CASE EventsEnd(s) \/ Cleanup(s)
    BY <1>7, SessionAssumption
       DEF EventsEnd, Cleanup, IInv, TypeOK, OnlyAllowedHeard, Unheard, Fresh, TaskState
  <1>8. QED
    BY <1>1, <1>2, <1>3, <1>4, <1>5, <1>6, <1>7 DEF TaskStep

LEMMA ApplicationIInv ==
  IInv /\ (RecvAsdu \/ SendActive \/ SendDone \/ DropServer) => IInv'
  <1>1. SUFFICES ASSUME IInv, RecvAsdu \/ SendActive \/ SendDone \/ DropServer
                 PROVE  IInv'
    OBVIOUS
  <1>2. CASE RecvAsdu
    <2> DEFINE q == Tail(inbox)
    <2>1. /\ inbox \in Seq(Session) /\ inbox # << >> /\ Len(inbox) \in Nat
          /\ q \in Seq(Session) /\ Len(q) = Len(inbox) - 1
          /\ \A i \in 1 .. Len(q) : q[i] = inbox[i + 1]
      BY <1>1, <1>2, HeadTailProperties DEF RecvAsdu, IInv, TypeOK
    <2> HIDE DEF q
    <2>2. inbox' = q /\ UNCHANGED <<driver, evts, task, acceptor, peers, active, sending, dropped>>
      BY <1>2 DEF RecvAsdu, q
    <2>3. \A i \in 1 .. Len(q) : q[i] \in Allowed
      BY <1>1, <2>1 DEF IInv, OnlyAllowedHeard
    <2>4. TypeOK'
      BY <1>1, <2>1, <2>2, CapAssumption DEF IInv, TypeOK
    <2>5. QED
      BY <1>1, <2>2, <2>3, <2>4 DEF IInv, OnlyAllowedHeard, Unheard, Fresh
  <1>3. CASE SendActive \/ SendDone
    BY <1>1, <1>3 DEF SendActive, SendDone, IInv, TypeOK, OnlyAllowedHeard, Unheard, Fresh
  <1>4. CASE DropServer
    BY <1>1, <1>4, CapAssumption DEF DropServer, IInv, TypeOK, OnlyAllowedHeard, Unheard, Fresh
  <1>5. QED
    BY <1>1, <1>2, <1>3, <1>4

LEMMA NextIInv == IInv /\ [Next]_vars => IInv'
  <1>1. SUFFICES ASSUME IInv, [Next]_vars
                 PROVE  IInv'
    OBVIOUS
  <1>2. CASE UNCHANGED vars
    BY <1>1, <1>2 DEF vars, IInv, TypeOK, OnlyAllowedHeard, Unheard, Fresh
  <1>3. CASE Next
    BY <1>1, <1>3, PeerStepIInv, AcceptIInv, InsertIInv, TaskStepIInv, ApplicationIInv
       DEF Next
  <1>4. QED
    BY <1>1, <1>2, <1>3

(* The table of peers, the slot and the channels of the redundancy server  *)
(* stay well formed, and its channels within their capacities.             *)
THEOREM TypeCorrectness == Spec => []TypeOK
  <1>1. IInv => TypeOK
    BY DEF IInv
  <1>2. QED
    BY InitIInv, NextIInv, <1>1, PTL DEF Spec

(* drive_peer forwards nothing of a session that promote_filter rejects.   *)
THEOREM FilterSafety == Spec => []OnlyAllowedHeard
  <1>1. IInv => OnlyAllowedHeard
    BY DEF IInv
  <1>2. QED
    BY InitIInv, NextIInv, <1>1, PTL DEF Spec
=============================================================================
