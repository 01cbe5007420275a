---------------------------- MODULE Endpoint104 ----------------------------
(***************************************************************************)
(* One IEC 60870-5-104 endpoint: the connection state machine, driven by   *)
(* its driver task (driver.rs), against a peer that may send any APDU at   *)
(* any time.  What holds here holds whatever the peer does.                *)
(***************************************************************************)
EXTENDS Connection104

CONSTANT MaxSubmit   \* bound on the ASDUs the application submits

ASSUME MaxSubmitAssumption == MaxSubmit \in Nat

VARIABLES
  conn,        \* the state machine, with the actions of the last handle()
  running,     \* the driver task has not exited
  submitted    \* how many ASDUs the application has submitted

vars == <<conn, running, submitted>>

(* The state machine answered with c: apply_actions performs the actions,  *)
(* and the driver exits when a disconnect is among them.                   *)
Apply(c) == conn' = c /\ running' = ~Disconnects(c)

Init ==
  /\ conn \in {New(role) : role \in Role}
  /\ running = TRUE
  /\ submitted = 0

(* The driver's select!: a command, a tick or a decoded APDU.              *)
UserStartDt ==
  /\ running
  /\ Apply(HandleStartDt(conn))
  /\ UNCHANGED submitted

UserStopDt ==
  /\ running
  /\ Apply(HandleStopDt(conn))
  /\ UNCHANGED submitted

UserSend ==
  /\ running
  /\ submitted < MaxSubmit
  /\ submitted' = submitted + 1
  /\ Apply(HandleSend(conn, submitted + 1))

Tick ==
  /\ running
  /\ Apply(HandleTick(conn))
  /\ UNCHANGED submitted

Receive(apdu) ==
  /\ running
  /\ Apply(HandleApdu(conn, apdu))
  /\ UNCHANGED submitted

(* Time passes; nothing is emitted.                                        *)
TimePasses ==
  /\ running
  /\ conn' = Elapse(Drained(conn))
  /\ UNCHANGED <<running, submitted>>

(* The stream ends or fails, or the handle is dropped: the driver returns. *)
StreamEnds ==
  /\ running
  /\ running' = FALSE
  /\ conn' = Drained(conn)
  /\ UNCHANGED submitted

(* What the peer may send; the content of its ASDUs does not matter here.  *)
PeerApdu ==
  {IFrame(s, r, 0) : s \in SeqNos, r \in SeqNos}
  \cup {SFrame(r) : r \in SeqNos}
  \cup {UFrame(f) : f \in UFunction}

Next ==
  \/ UserStartDt
  \/ UserStopDt
  \/ UserSend
  \/ Tick
  \/ \E apdu \in PeerApdu : Receive(apdu)
  \/ TimePasses
  \/ StreamEnds

Spec == Init /\ [][Next]_vars

-----------------------------------------------------------------------------
(* Every field keeps its range: sequence numbers stay below the modulus,   *)
(* through SeqNo::next at the wrap-around too.                              *)
TypeOK ==
  /\ conn \in Connection
  /\ running \in BOOLEAN
  /\ submitted \in Nat

(* The send window: at most k frames are outstanding, and they carry       *)
(* consecutive numbers, the last one just below send_next.  acknowledge()  *)
(* relies on it to stop at the first frame that is not acknowledged.       *)
SendWindow == WindowOf(conn)

(* ASDUs leave in the order in which the application submitted them, with  *)
(* no gap: the I-frame that carries the n-th submitted ASDU is the n-th    *)
(* I-frame.  on_user_send bypasses the pending queue, so this rests on the *)
(* queue being empty whenever the window has room.                         *)
SentInOrder == InOrder(conn.tx)

(* No more than w - 1 received I-frames are left unacknowledged when a     *)
(* call of handle() returns.                                               *)
AcksByW == conn.unacked_recv < W

(* A clean stop leaves nothing behind: when StoppedCleanly is reported,    *)
(* every ASDU submitted was sent and acknowledged.                         *)
CleanStopDrained == StopsDrained(conn)
=============================================================================
