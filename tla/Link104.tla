------------------------------ MODULE Link104 ------------------------------
(***************************************************************************)
(* A client and a server of this library joined by a TCP connection: two   *)
(* connection state machines (Connection104), each run by its driver task  *)
(* (driver.rs), and the bytes in flight between them.                      *)
(*                                                                         *)
(* TCP delivers in order and without loss until the connection ends.  A    *)
(* driver that exits drops its stream: the peer reads what is in flight    *)
(* and then the end of file, or an error before that.                      *)
(***************************************************************************)
EXTENDS Connection104

CONSTANT MaxSubmit   \* [Role -> Nat], bound on the ASDUs each side submits

ASSUME MaxSubmitAssumption == MaxSubmit \in [Role -> Nat]

VARIABLES
  conn,        \* [Role -> Connection], their actions already performed
  exit,        \* [Role -> why the driver task exited, or "running"]
  chan,        \* [Role -> Seq(Apdu)], in flight towards each side
  submitted,   \* [Role -> Nat], ASDUs each application has submitted
  delivered    \* [Role -> Seq(Asdu)], ASDUs each application has received

vars == <<conn, exit, chan, submitted, delivered>>

Peer(e) == IF e = "Client" THEN "Server" ELSE "Client"

Running(e) == exit[e] = "running"

Init ==
  /\ conn = [e \in Role |-> New(e)]
  /\ exit = [e \in Role |-> "running"]
  /\ chan = [e \in Role |-> << >>]
  /\ submitted = [e \in Role |-> 0]
  /\ delivered = [e \in Role |-> << >>]

(* The ASDUs among the events, of which a call delivers at most one.       *)
Deliveries(c) ==
  LET at == {i \in DOMAIN c.evt : c.evt[i].kind = "Asdu"}
  IN  IF at = {} THEN << >> ELSE <<c.evt[CHOOSE i \in at : TRUE].asdu>>

ExitReason(c) ==
  c.evt[CHOOSE i \in DOMAIN c.evt : c.evt[i].kind = "Closed"].reason

(* apply_actions: the state machine of e gave an answer, having read from  *)
(* what was in flight towards e and left unread.  (The quantifier only     *)
(* gives the answer a name, which TLC then evaluates once.)                *)
Apply(e, answer, unread) ==
  \E c \in {answer} :
    /\ conn' = [conn EXCEPT ![e] = Drained(c)]
    /\ exit' = [exit EXCEPT ![e] = IF Disconnects(c) THEN ExitReason(c) ELSE @]
    /\ chan' = [chan EXCEPT ![e] = unread,
                            ![Peer(e)] = IF Running(Peer(e)) THEN @ \o c.tx ELSE @]
    /\ delivered' = [delivered EXCEPT ![e] = @ \o Deliveries(c)]

(* Client104::spawn_with_ft queues a StartDt command before the            *)
(* application gets the handle.                                            *)
StartDt ==
  /\ Running("Client")
  /\ conn["Client"].state = "Stopped"
  /\ Apply("Client", HandleStartDt(conn["Client"]), chan["Client"])
  /\ UNCHANGED submitted

(* Client104::stop, after the StartDt; it has no effect while starting.    *)
StopDt ==
  /\ Running("Client")
  /\ conn["Client"].state # "Stopped"
  /\ Apply("Client", HandleStopDt(conn["Client"]), chan["Client"])
  /\ UNCHANGED submitted

(* send_asdu                                                               *)
SendAsdu(e) ==
  /\ Running(e)
  /\ e = "Client" => conn[e].state # "Stopped"
  /\ submitted[e] < MaxSubmit[e]
  /\ submitted' = [submitted EXCEPT ![e] = @ + 1]
  /\ Apply(e, HandleSend(conn[e], submitted[e] + 1), chan[e])

(* The 250 ms tick of the driver.                                          *)
Tick(e) ==
  /\ Running(e)
  /\ HandleTick(conn[e]) # conn[e]
  /\ Apply(e, HandleTick(conn[e]), chan[e])
  /\ UNCHANGED submitted

(* The driver reads and handles the next APDU.                             *)
Receive(e) ==
  /\ Running(e)
  /\ chan[e] # << >>
  /\ Apply(e, HandleApdu(conn[e], Head(chan[e])), Tail(chan[e]))
  /\ UNCHANGED submitted

(* The peer's driver has exited and e has read everything it had sent: the *)
(* read returns 0.                                                         *)
ReadEof(e) ==
  /\ Running(e)
  /\ ~Running(Peer(e))
  /\ chan[e] = << >>
  /\ exit' = [exit EXCEPT ![e] = "Ended"]
  /\ UNCHANGED <<conn, chan, submitted, delivered>>

(* The application drops its handle, which closes the command channel, or  *)
(* a read or write fails: the driver returns.                              *)
Abort(e) ==
  /\ Running(e)
  /\ exit' = [exit EXCEPT ![e] = "Ended"]
  /\ UNCHANGED <<conn, chan, submitted, delivered>>

TimePasses ==
  /\ conn' = [e \in Role |-> IF Running(e) THEN Elapse(conn[e]) ELSE conn[e]]
  /\ UNCHANGED <<exit, chan, submitted, delivered>>

(* What the drivers do by themselves.                                      *)
DriverStep(e) == Tick(e) \/ Receive(e) \/ ReadEof(e)

Next ==
  \/ StartDt
  \/ StopDt
  \/ \E e \in Role : SendAsdu(e)
  \/ \E e \in Role : DriverStep(e)
  \/ \E e \in Role : Abort(e)
  \/ TimePasses

Spec == Init /\ [][Next]_vars

-----------------------------------------------------------------------------
(* A healthy link: what is sent arrives and every tick comes within one    *)
(* unit of time, and nobody drops the handle or loses the connection.      *)
PromptTimePasses ==
  /\ \A e \in Role : Running(e) =>
       /\ Running(Peer(e))
       /\ chan[e] = << >>
       /\ HandleTick(conn[e]) = conn[e]
  /\ TimePasses

HealthyNext ==
  \/ StartDt
  \/ StopDt
  \/ \E e \in Role : SendAsdu(e)
  \/ \E e \in Role : DriverStep(e)
  \/ PromptTimePasses

(* Tokio polls a task that can run, the interval keeps ticking, and        *)
(* Client104 sends StartDt by itself; applications owe nothing.            *)
Fairness ==
  /\ WF_vars(StartDt)
  /\ WF_vars(PromptTimePasses)
  /\ \A e \in Role : WF_vars(Tick(e)) /\ WF_vars(Receive(e)) /\ WF_vars(ReadEof(e))

HealthySpec == Init /\ [][HealthyNext]_vars /\ Fairness

-----------------------------------------------------------------------------
(* Every field keeps its range, and what is in flight is a well-formed     *)
(* APDU: numbers wrap around in SeqNo::next.                               *)
TypeOK ==
  /\ conn \in [Role -> Connection]
  /\ exit \in [Role -> {"running", "Ended"} \cup Reason]
  /\ chan \in [Role -> Seq(Apdu)]
  /\ submitted \in [Role -> Nat]
  /\ delivered \in [Role -> Seq(Asdu)]

(* The link implements a reliable stream in each direction: whatever the   *)
(* interleaving of sends, acknowledgements, timers, stops and failures,    *)
(* no ASDU is lost in the middle, duplicated or overtaken.                 *)
Stream == INSTANCE ReliableStream WITH Side <- Role, Other <- Peer

ReliableDelivery == Stream!Spec

(* An I-frame leaves the send window only when the peer has delivered its  *)
(* ASDU: an N(R) never acknowledges more than was received.                *)
AckedWasDelivered ==
  \A e \in Role :
    submitted[e] - Len(conn[e].pending) - Len(conn[e].sent) <= Len(delivered[Peer(e)])

(* Two endpoints of this library never accuse each other of a protocol     *)
(* error, except that a client which stops may be accused by the server of *)
(* sending I-frames after its STOPDT_act.                                  *)
NoFalseProtocolError ==
  /\ exit["Client"] # "ProtocolError"
  /\ exit["Server"] = "ProtocolError" => conn["Client"].state \in {"Stopping", "Closed"}

(* When the client's stop() ends in StoppedCleanly, the server's           *)
(* application has received everything the client's submitted.             *)
CleanStopDeliveredAll ==
  exit["Client"] = "StoppedCleanly" => Len(delivered["Server"]) = submitted["Client"]

(* On a healthy link nobody times out waiting for an acknowledgement: the  *)
(* receiver acknowledges within t2, and t2 < t1 (Config).                  *)
HealthyNoAckTimeout == \A e \in Role : exit[e] # "AckTimeout"

(* On a healthy link everything submitted is delivered, unless the client  *)
(* stops the transfer: window, queue and acknowledgement timers never wait *)
(* on each other for ever.  (Submissions are bounded, so this says that    *)
(* the link catches up once the applications pause.)                       *)
EventuallyDelivered ==
  \A e \in Role :
    []<>(\/ Len(delivered[Peer(e)]) = submitted[e]
         \/ conn["Client"].state = "Stopping"
         \/ exit["Client"] = "StoppedCleanly")
=============================================================================
