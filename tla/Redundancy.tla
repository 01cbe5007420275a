----------------------------- MODULE Redundancy -----------------------------
(***************************************************************************)
(* The redundancy server (redundancy.rs): one accept loop, one drive_peer  *)
(* task per accepted connection and the application, which share the table *)
(* of peers and the active slot under a mutex.  Each critical section is   *)
(* one step.                                                               *)
(*                                                                         *)
(* A session is one accepted TCP connection with its driver task, reduced  *)
(* to what the redundancy server sees of it: its data-transfer state and   *)
(* its channel of events.  Several sessions may come from one address, one *)
(* after the other.                                                        *)
(***************************************************************************)
EXTENDS Naturals, Sequences, FiniteSets

CONSTANTS
  Session,        \* the connections that peers may open
  Addr,           \* socket addresses
  AddrOf,         \* [Session -> Addr]
  Allowed,        \* the sessions that promote_filter accepts when it is consulted
  MaxPeers,       \* RedundancyConfig::max_peers
  EvtCap,         \* capacity of a session's event channel (64)
  InboxCap,       \* capacity of the merged channel (128)
  FileProvider,   \* the server has a file provider, whose service holds a sender
  None

ASSUME SessionAssumption ==
  /\ AddrOf \in [Session -> Addr]
  /\ None \notin Session /\ None \notin Addr
  /\ Allowed \subseteq Session

ASSUME CapAssumption ==
  MaxPeers \in Nat /\ EvtCap \in Nat \ {0} /\ InboxCap \in Nat \ {0}

ASSUME FileProviderAssumption == FileProvider \in BOOLEAN

VARIABLES
  driver,     \* [Session -> its driver task: data-transfer state, or not running]
  evts,       \* [Session -> Seq(Event)], not yet received by drive_peer
  task,       \* [Session -> its drive_peer task]
  acceptor,   \* the connection the accept loop is about to insert, or None
  peers,      \* Inner::peers, [Addr -> the session whose sender is held, or None]
  active,     \* Inner::active
  inbox,      \* the merged channel of ASDUs, by the session they came from
  sending,    \* the session whose sender send_active has cloned, or None
  dropped     \* the RedundancyServer has been dropped

vars == <<driver, evts, task, acceptor, peers, active, inbox, sending, dropped>>

Event == {"Active", "Stopped", "Asdu", "Closed"}

DriverState == {"none", "Stopped", "Active", "exited"}

(* "forwarding": found its peer active and awaits room in the merged       *)
(* channel; "cleanup": left the loop; "done": has dropped the event        *)
(* receiver.                                                               *)
TaskState == {"none", "running", "forwarding", "cleanup", "done"}

Init ==
  /\ driver = [s \in Session |-> "none"]
  /\ evts = [s \in Session |-> << >>]
  /\ task = [s \in Session |-> "none"]
  /\ acceptor = None
  /\ peers = [a \in Addr |-> None]
  /\ active = None
  /\ inbox = << >>
  /\ sending = None
  /\ dropped = FALSE

-----------------------------------------------------------------------------
(* The driver of a session.                                                *)

Connected(s) == driver[s] \in {"Stopped", "Active"}

(* Mutant: the driver does not wait for room.                              *)
FreeUnbounded(s) == Connected(s)

(* A driver that found the channel full still holds its last event, and    *)
(* does nothing else until there is room.                                  *)
Free(s) == Connected(s) /\ Len(evts[s]) <= EvtCap

(* The driver reports e and goes on in state d, unless the receiver is     *)
(* gone.                                                                   *)
Report(s, e, d) ==
  IF task[s] = "done"
  THEN driver' = [driver EXCEPT ![s] = "exited"] /\ UNCHANGED evts
  ELSE /\ driver' = [driver EXCEPT ![s] = d]
       /\ evts' = [evts EXCEPT ![s] = Append(@, e)]

StartDt(s) ==
  /\ Free(s)
  /\ driver[s] = "Stopped"
  /\ Report(s, "Active", "Active")
  /\ UNCHANGED <<task, acceptor, peers, active, inbox, sending, dropped>>

StopDt(s) ==
  /\ Free(s)
  /\ driver[s] = "Active"
  /\ Report(s, "Stopped", "Stopped")
  /\ UNCHANGED <<task, acceptor, peers, active, inbox, sending, dropped>>

ReceiveAsdu(s) ==
  /\ Free(s)
  /\ driver[s] = "Active"
  /\ Report(s, "Asdu", "Active")
  /\ UNCHANGED <<task, acceptor, peers, active, inbox, sending, dropped>>

(* End of file or a disconnect by the state machine.                       *)
Close(s) ==
  /\ Free(s)
  /\ Report(s, "Closed", "exited")
  /\ UNCHANGED <<task, acceptor, peers, active, inbox, sending, dropped>>

(* Somebody holds a sender for the session.                                *)
HasSender(s) ==
  \/ peers[AddrOf[s]] = s
  \/ sending = s
  \/ acceptor = s
  \/ FileProvider

(* The stream fails, or the command channel is closed: the driver returns  *)
(* without an event.                                                       *)
StreamFails(s) ==
  /\ Free(s)
  /\ driver' = [driver EXCEPT ![s] = "exited"]
  /\ UNCHANGED <<evts, task, acceptor, peers, active, inbox, sending, dropped>>

CommandsClosed(s) == ~HasSender(s) /\ StreamFails(s)

(* The receiver goes while the driver awaits room.                         *)
ReportFails(s) ==
  /\ Connected(s)
  /\ ~Free(s)
  /\ task[s] = "done"
  /\ driver' = [driver EXCEPT ![s] = "exited"]
  /\ UNCHANGED <<evts, task, acceptor, peers, active, inbox, sending, dropped>>

-----------------------------------------------------------------------------
(* accept_loop                                                             *)

Held == {a \in Addr : peers[a] # None}

(* A connection arrives from an address that no open connection has.       *)
Arrives(s) ==
  /\ ~dropped
  /\ acceptor = None
  /\ driver[s] = "none"
  /\ \A t \in Session : AddrOf[t] = AddrOf[s] => ~Connected(t)
  /\ driver' = [driver EXCEPT ![s] = "Stopped"]
  /\ UNCHANGED <<evts, peers, active, inbox, sending, dropped>>

Accept(s) ==
  /\ Cardinality(Held) < MaxPeers
  /\ Arrives(s)
  /\ acceptor' = s
  /\ UNCHANGED task

(* The cap is reached: both halves of the connection are dropped.          *)
RefuseAccept(s) ==
  /\ Cardinality(Held) >= MaxPeers
  /\ Arrives(s)
  /\ task' = [task EXCEPT ![s] = "done"]
  /\ UNCHANGED acceptor

(* The accept loop does not await between the check of the cap and the     *)
(* insertion, so an abort of its task comes into effect only after it.     *)
Insert ==
  /\ acceptor # None
  /\ peers' = [peers EXCEPT ![AddrOf[acceptor]] = acceptor]
  /\ task' = [task EXCEPT ![acceptor] = "running"]
  /\ acceptor' = None
  /\ UNCHANGED <<driver, evts, active, inbox, sending, dropped>>

-----------------------------------------------------------------------------
(* drive_peer                                                              *)

(* The task of s receives the event e and goes on in state t.              *)
TakeEvent(s, e, t) ==
  /\ task[s] = "running"
  /\ evts[s] # << >>
  /\ Head(evts[s]) = e
  /\ evts' = [evts EXCEPT ![s] = Tail(@)]
  /\ task' = [task EXCEPT ![s] = t]
  /\ UNCHANGED <<driver, acceptor, inbox, sending, dropped>>

(* Mutant: the previous active peer keeps its sender.                      *)
PromoteWithoutDemotion(s) ==
  /\ s \in Allowed
  /\ TakeEvent(s, "Active", "running")
  /\ active' = AddrOf[s]
  /\ UNCHANGED peers

Promote(s) ==
  /\ s \in Allowed
  /\ TakeEvent(s, "Active", "running")
  /\ active' = AddrOf[s]
  /\ peers' = [a \in Addr |-> IF a = active /\ a # AddrOf[s] THEN None ELSE peers[a]]

(* Mutant: the filter is consulted once the peer has been promoted.        *)
RejectLate(s) ==
  /\ s \notin Allowed
  /\ TakeEvent(s, "Active", "running")
  /\ active' = AddrOf[s]
  /\ peers' = [peers EXCEPT ![AddrOf[s]] = None]

Reject(s) ==
  /\ s \notin Allowed
  /\ TakeEvent(s, "Active", "cleanup")
  /\ peers' = [peers EXCEPT ![AddrOf[s]] = None]
  /\ UNCHANGED active

TakeAsdu(s) ==
  /\ TakeEvent(s, "Asdu", IF active = AddrOf[s] THEN "forwarding" ELSE "running")
  /\ UNCHANGED <<peers, active>>

(* asdu_tx.send: room in the merged channel, or its receiver is gone.      *)
Forward(s) ==
  /\ task[s] = "forwarding"
  /\ \/ /\ dropped
        /\ task' = [task EXCEPT ![s] = "cleanup"]
        /\ UNCHANGED inbox
     \/ /\ ~dropped
        /\ Len(inbox) < InboxCap
        /\ inbox' = Append(inbox, s)
        /\ task' = [task EXCEPT ![s] = "running"]
  /\ UNCHANGED <<driver, evts, acceptor, peers, active, sending, dropped>>

TakeStopped(s) ==
  /\ TakeEvent(s, "Stopped", "running")
  /\ UNCHANGED <<peers, active>>

TakeClosed(s) ==
  /\ TakeEvent(s, "Closed", "cleanup")
  /\ UNCHANGED <<peers, active>>

(* recv() returns None: the driver has gone and nothing is left.           *)
EventsEnd(s) ==
  /\ task[s] = "running"
  /\ evts[s] = << >>
  /\ driver[s] = "exited"
  /\ task' = [task EXCEPT ![s] = "cleanup"]
  /\ UNCHANGED <<driver, evts, acceptor, peers, active, inbox, sending, dropped>>

(* Mutant: the active slot is not given back.                              *)
CleanupKeepsSlot(s) ==
  /\ task[s] = "cleanup"
  /\ peers' = [peers EXCEPT ![AddrOf[s]] = None]
  /\ task' = [task EXCEPT ![s] = "done"]
  /\ UNCHANGED <<driver, evts, acceptor, active, inbox, sending, dropped>>

Cleanup(s) ==
  /\ task[s] = "cleanup"
  /\ peers' = [peers EXCEPT ![AddrOf[s]] = None]
  /\ active' = IF active = AddrOf[s] THEN None ELSE active
  /\ task' = [task EXCEPT ![s] = "done"]
  /\ UNCHANGED <<driver, evts, acceptor, inbox, sending, dropped>>

-----------------------------------------------------------------------------
(* The application                                                         *)

RecvAsdu ==
  /\ inbox # << >>
  /\ inbox' = Tail(inbox)
  /\ UNCHANGED <<driver, evts, task, acceptor, peers, active, sending, dropped>>

(* send_active: clones the sender under the lock, and awaits the send      *)
(* after releasing it; the command channel has room as long as the driver  *)
(* is free, and a driver that has gone makes the send fail.                *)
SendActive ==
  /\ ~dropped
  /\ sending = None
  /\ active # None
  /\ peers[active] # None
  /\ sending' = peers[active]
  /\ UNCHANGED <<driver, evts, task, acceptor, peers, active, inbox, dropped>>

SendDone ==
  /\ sending # None
  /\ sending' = None
  /\ UNCHANGED <<driver, evts, task, acceptor, peers, active, inbox, dropped>>

(* Drop for RedundancyServer; nobody can be inside send_active.            *)
DropServer ==
  /\ ~dropped
  /\ sending = None
  /\ dropped' = TRUE
  /\ peers' = [a \in Addr |-> None]
  /\ active' = None
  /\ inbox' = << >>
  /\ UNCHANGED <<driver, evts, task, acceptor, sending>>

-----------------------------------------------------------------------------
PeerStep(s) ==
  StartDt(s) \/ StopDt(s) \/ ReceiveAsdu(s) \/ Close(s) \/ StreamFails(s)

TaskStep(s) ==
  \/ Promote(s) \/ Reject(s) \/ TakeAsdu(s) \/ Forward(s)
  \/ TakeStopped(s) \/ TakeClosed(s) \/ EventsEnd(s) \/ Cleanup(s)

Next ==
  \/ \E s \in Session : PeerStep(s)
  \/ \E s \in Session : CommandsClosed(s) \/ ReportFails(s)
  \/ \E s \in Session : Accept(s) \/ RefuseAccept(s)
  \/ Insert
  \/ \E s \in Session : TaskStep(s)
  \/ RecvAsdu
  \/ SendActive
  \/ SendDone
  \/ DropServer

Spec == Init /\ [][Next]_vars

(* The driver takes a command when it comes back to its select!, and the   *)
(* send that waits for room ends; if the driver has gone, the send fails.  *)
SendServed ==
  /\ sending # None
  /\ Free(sending) \/ ~Connected(sending)
  /\ SendDone

(* Tokio polls every task that can run and the application reads what it   *)
(* is sent; peers owe nothing.  The strong fairness is that of the code:   *)
(* the driver's select! is biased towards the command channel, so whenever *)
(* it comes back to it the driver takes a command or finds it closed,      *)
(* however much its peer sends; and tokio's channels serve waiting senders *)
(* first come, first served, so a forwarding task is not passed over.      *)
Fairness ==
  /\ WF_vars(Insert) /\ WF_vars(RecvAsdu) /\ SF_vars(SendServed)
  /\ \A s \in Session :
       /\ SF_vars(CommandsClosed(s)) /\ WF_vars(ReportFails(s))
       /\ WF_vars(TaskStep(s)) /\ SF_vars(Forward(s))

FairSpec == Spec /\ Fairness

-----------------------------------------------------------------------------
(* The table, the slot and the channels keep their types, and a driver is  *)
(* at most one event ahead of its channel.                                 *)
TypeOK ==
  /\ driver \in [Session -> DriverState]
  /\ evts \in [Session -> Seq(Event)]
  /\ \A s \in Session : Len(evts[s]) <= EvtCap + 1
  /\ task \in [Session -> TaskState]
  /\ acceptor \in Session \cup {None}
  /\ peers \in [Addr -> Session \cup {None}]
  /\ active \in Addr \cup {None}
  /\ inbox \in Seq(Session) /\ Len(inbox) <= InboxCap
  /\ sending \in Session \cup {None}
  /\ dropped \in BOOLEAN

(* An ASDU reaches the application only from a session that promote_filter *)
(* accepted, through any sequence of promotions, demotions and reuse of    *)
(* addresses.                                                              *)
OnlyAllowedHeard == \A i \in 1 .. Len(inbox) : inbox[i] \in Allowed

(* Nothing is left to do: every event is handled, every driver without a   *)
(* sender has gone, and the task of every driver that has gone is done.    *)
AtRest ==
  /\ acceptor = None /\ sending = None
  /\ \A s \in Session :
       /\ task[s] \in {"none", "running", "done"}
       /\ task[s] = "running" => evts[s] = << >> /\ driver[s] # "exited"
       /\ Connected(s) => HasSender(s)

(* Once the tasks have caught up, the active slot belongs to a connected   *)
(* peer whose sender is held, so that send_active reaches it.              *)
SlotSettles ==
  AtRest /\ active # None => peers[active] # None /\ Connected(peers[active])

(* "At most one in data-transfer state", again and again: a promotion      *)
(* closes the previous active peer's session.                              *)
OneTransferAgain ==
  []<>(Cardinality({s \in Session : driver[s] = "Active"}) <= 1)

(* send_active fails with NoActivePeer only when no peer holds the slot.   *)
SlotHasSender == ~dropped /\ active # None => peers[active] # None
=============================================================================
