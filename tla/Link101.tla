------------------------------ MODULE Link101 ------------------------------
(***************************************************************************)
(* The unbalanced FT 1.2 link of IEC 60870-5-101: the sans-I/O machine of  *)
(* frame101/link.rs in its two roles, each run by the driver loop of       *)
(* driver101.rs, over a serial line that keeps order and may lose frames.  *)
(*                                                                         *)
(* A machine is a record; every function of link.rs is an operator from    *)
(* machine to machine.  The fields tx, up and err collect the actions of   *)
(* one call of Connection::handle: frames to write, ASDUs to deliver, and  *)
(* whether a LinkError was emitted.  A handler's actions are performed by  *)
(* MasterDriver and OutstationDriver in the same step.                     *)
(*                                                                         *)
(* ASDUs are numbered by the application in the order of submission.       *)
(* Options are encoded: attempts = 0 is "no pending send", NoFcb is "no    *)
(* frame count bit seen".                                                  *)
(***************************************************************************)
EXTENDS Naturals, Sequences

CONSTANTS
  MasterAddress,   \* config.link_address of the master: the station it polls
  OutstationAddress, \* config.link_address of the outstation
  AckTimeout,      \* config.timeout, in ticks of the driver's interval
  MaxRetries,      \* config.max_retries
  MaxAsdu,         \* bound: MaxAsdu[r] ASDUs the application of role r submits
  MaxPoll,         \* bound: class and status requests of the master's user
  MaxReset,        \* bound: reset_link calls beyond the first of each run
  MaxRestart,      \* bound: restarts of the two processes
  MaxLoss,         \* bound: frames the line loses
  MaxForeign,      \* bound: frames of a secondary that is not this program
  MaxFault         \* bound: resets, restarts, losses and foreign frames together

ASSUME ConstantsAreNat ==
  /\ AckTimeout \in Nat \ {0}
  /\ MaxAsdu \in [{"master", "outstation"} -> Nat]
  /\ {MaxRetries, MaxPoll, MaxReset, MaxRestart, MaxLoss, MaxForeign,
     MaxFault}
       \subseteq Nat

VARIABLES
  m, o,            \* the master's and the outstation's machine
  toO, toM,        \* frames on the line, in order
  gotO, gotM,      \* ASDUs delivered to the two running applications
  heard,           \* ASDUs ever delivered to an outstation application
  open,            \* open[r]: the driver of role r is running
  sent,            \* sent[r]: ASDUs submitted by the application of role r
  used,            \* how often each bounded action was taken
  lost,            \* ASDUs of the master a reset, a restart or a close gave up
  timely           \* no reply is on the line any more when a timeout expires

vars == <<m, o, toO, toM, gotO, gotM, heard, open, sent, used, lost, timely>>

Role == {"master", "outstation"}

-----------------------------------------------------------------------------
(* Frames.  A control field is its function code with FCB and FCV.  Class 1 *)
(* and class 2 requests are one function: both sides treat them alike, and  *)
(* the outstation serves both from one queue.                               *)

NoFcb == 2

Primary(fn, fcb, fcv, asdu) ==
  [fn |-> fn, addr |-> MasterAddress, fcb |-> fcb, fcv |-> fcv, asdu |-> asdu]

Request(fn) == Primary(fn, 0, FALSE, 0)

Secondary(fn, asdu) ==
  [fn |-> fn, addr |-> OutstationAddress, fcb |-> 0, fcv |-> FALSE, asdu |-> asdu]

NoSend == [frame |-> Request("none"), age |-> 0, attempts |-> 0]

(* Connection::new *)
NewConnection ==
  [link |-> "NotReady", fcb |-> 0, lastFcb |-> NoFcb, pending |-> NoSend,
   queue |-> << >>, tx |-> << >>, up |-> << >>, err |-> FALSE]

-----------------------------------------------------------------------------
(* Helpers of the machine. *)

Waiting(c) == c.pending.attempts > 0

SendFrame(c, f) == [c EXCEPT !.tx = Append(@, f)]

SendWithConfirm(c, f) ==
  [SendFrame(c, f) EXCEPT !.pending = [frame |-> f, age |-> 0, attempts |-> 1]]

(* Mutant: the frame count bit is not toggled. *)
MaybeFlushQueueSameFcb(c) ==
  IF Waiting(c) \/ c.queue = << >>
  THEN c
  ELSE [SendWithConfirm(c, Primary("data", c.fcb, TRUE, Head(c.queue)))
          EXCEPT !.queue = Tail(@)]

MaybeFlushQueue(c) ==
  IF Waiting(c) \/ c.queue = << >>
  THEN c
  ELSE [SendWithConfirm(c, Primary("data", c.fcb, TRUE, Head(c.queue)))
          EXCEPT !.queue = Tail(@), !.fcb = 1 - @]

TransitionLink(c, state) == [c EXCEPT !.link = state]

EmitLinkError(c) == [c EXCEPT !.err = TRUE]

TakePending(c) == [c EXCEPT !.pending = NoSend]

DeliverAsdu(c, a) == [c EXCEPT !.up = Append(@, a)]

(* Mutants: one repetition too many, one too few. *)
RunTimersUpTo(c, retries) ==
  IF ~Waiting(c) \/ c.pending.age < AckTimeout
  THEN c
  ELSE IF c.pending.attempts > retries
  THEN EmitLinkError(TransitionLink(TakePending(c), "Failed"))
  ELSE [SendFrame(c, c.pending.frame)
          EXCEPT !.pending.attempts = @ + 1, !.pending.age = 0]

RunTimersOnceMore(c) == RunTimersUpTo(c, MaxRetries + 1)

RunTimersOnceLess(c) == RunTimersUpTo(c, MaxRetries - 1)

RunTimers(c) ==
  IF ~Waiting(c) \/ c.pending.age < AckTimeout
  THEN c
  ELSE IF c.pending.attempts > MaxRetries
  THEN EmitLinkError(TransitionLink(TakePending(c), "Failed"))
  ELSE [SendFrame(c, c.pending.frame)
          EXCEPT !.pending.attempts = @ + 1, !.pending.age = 0]

ReadyIfNotReady(c) ==
  IF c.link = "NotReady" THEN TransitionLink(c, "Ready") ELSE c

-----------------------------------------------------------------------------
(* The master's receive path. *)

MasterOnSingle(c, f) ==
  IF f.fn = "singleAck"
  THEN IF Waiting(c) THEN MaybeFlushQueue(TakePending(c)) ELSE c
  ELSE EmitLinkError(TakePending(c))

MasterOnSecondaryFixed(c, f) ==
  CASE f.fn = "ack" ->
         IF Waiting(c) THEN MaybeFlushQueue(ReadyIfNotReady(TakePending(c))) ELSE c
    [] f.fn = "nack"         -> EmitLinkError(TakePending(c))
    [] f.fn = "statusOfLink" -> ReadyIfNotReady(TakePending(c))
    [] f.fn = "noData"       -> TakePending(c)
    [] OTHER                 -> EmitLinkError(c)

MasterOnFrame(c, f) ==
  CASE f.fn \in {"singleAck", "singleNack"} -> MasterOnSingle(c, f)
    [] f.fn = "respond"                     -> DeliverAsdu(TakePending(c), f.asdu)
    [] OTHER                                -> MasterOnSecondaryFixed(c, f)

-----------------------------------------------------------------------------
(* The outstation's receive path. *)

(* Mutant: the ASDU that is sent in response stays in the queue. *)
OutstationOnPrimaryFixedKeeping(c, f) ==
  CASE f.fn = "reset" ->
         TransitionLink(SendFrame([c EXCEPT !.lastFcb = NoFcb], Secondary("ack", 0)), "Ready")
    [] f.fn = "status" -> SendFrame(c, Secondary("statusOfLink", 0))
    [] f.fn = "class" ->
         SendFrame(c, IF c.queue # << >> THEN Secondary("respond", Head(c.queue))
                      ELSE Secondary("noData", 0))
    [] OTHER -> c

OutstationOnPrimaryFixed(c, f) ==
  CASE f.fn = "reset" ->
         TransitionLink(SendFrame([c EXCEPT !.lastFcb = NoFcb], Secondary("ack", 0)), "Ready")
    [] f.fn = "status" -> SendFrame(c, Secondary("statusOfLink", 0))
    [] f.fn = "class" ->
         IF c.queue # << >>
         THEN SendFrame([c EXCEPT !.queue = Tail(@)], Secondary("respond", Head(c.queue)))
         ELSE SendFrame(c, Secondary("noData", 0))
    [] OTHER -> c

(* Mutant: a repeated frame is delivered again. *)
OutstationOnConfirmedAlways(c, f) ==
  DeliverAsdu(SendFrame(IF f.fcv THEN [c EXCEPT !.lastFcb = f.fcb] ELSE c,
                        Secondary("ack", 0)), f.asdu)

OutstationOnConfirmed(c, f) ==
  LET duplicate == f.fcv /\ c.lastFcb = f.fcb
      acked     == SendFrame(IF f.fcv THEN [c EXCEPT !.lastFcb = f.fcb] ELSE c,
                             Secondary("ack", 0))
  IN IF duplicate THEN acked ELSE DeliverAsdu(acked, f.asdu)

OutstationOnFrame(c, f) ==
  CASE f.addr # OutstationAddress -> c
    [] f.fn = "data"              -> OutstationOnConfirmed(c, f)
    [] f.fn = "unconfirmed"       -> DeliverAsdu(c, f.asdu)
    [] OTHER                      -> OutstationOnPrimaryFixed(c, f)

-----------------------------------------------------------------------------
(* The send path. *)

OnSendUserData(c, role, a) ==
  LET queued == [c EXCEPT !.queue = Append(@, a)]
  IN IF role = "master" THEN MaybeFlushQueue(queued) ELSE queued

OnRequest(c, fn) == IF Waiting(c) THEN c ELSE SendWithConfirm(c, Request(fn))

OnResetRemoteLink(c) == SendWithConfirm(TakePending(c), Request("reset"))

-----------------------------------------------------------------------------
(* The drivers: Connection::handle followed by apply_actions101. *)

Drained(c) == [c EXCEPT !.tx = << >>, !.up = << >>, !.err = FALSE]

(* What a close or a reset makes the master forget: the frame in flight    *)
(* and, when the machine itself goes, its queue.                           *)
InFlight(c) ==
  IF Waiting(c) /\ c.pending.frame.fn = "data" THEN {c.pending.frame.asdu} ELSE {}

Queued(c) == {c.queue[i] : i \in DOMAIN c.queue}

MasterDriver(c, gaveUp) ==
  LET d == RunTimers(c) IN
  /\ m' = Drained(d)
  /\ toO' = toO \o d.tx
  /\ gotM' = gotM \o d.up
  /\ open' = [open EXCEPT !["master"] = ~d.err]
  /\ lost' = lost \cup gaveUp \cup (IF d.err THEN InFlight(m) \cup Queued(m) ELSE {})

OutstationDriver(c) ==
  LET d == RunTimers(c) IN
  /\ o' = Drained(d)
  /\ toM' = toM \o d.tx
  /\ gotO' = gotO \o d.up
  /\ heard' = heard \cup {d.up[i] : i \in DOMAIN d.up}

Count(k, bound) ==
  /\ used[k] < bound
  /\ k = "poll" \/ used["reset"] + used["restart"] + used["loss"] + used["foreign"] < MaxFault
  /\ used' = [used EXCEPT ![k] = @ + 1]

-----------------------------------------------------------------------------
(* The master's application.  After a start it resets the link and waits   *)
(* for LinkState::Ready before it sends or polls, as iec-client does.      *)

ResetAtStart ==
  /\ open["master"] /\ m.link = "NotReady" /\ ~Waiting(m)
  /\ MasterDriver(OnResetRemoteLink(m), {})
  /\ UNCHANGED <<o, toM, gotO, heard, sent, used, timely>>

(* reset_link at any later moment, a send in flight included. *)
ResetAgain ==
  /\ open["master"] /\ m.link = "Ready" /\ ~timely
  /\ Count("reset", MaxReset)
  /\ MasterDriver(OnResetRemoteLink(m), InFlight(m))
  /\ UNCHANGED <<o, toM, gotO, heard, sent, timely>>

MasterSend ==
  /\ open["master"] /\ m.link = "Ready"
  /\ sent["master"] < MaxAsdu["master"]
  /\ sent' = [sent EXCEPT !["master"] = @ + 1]
  /\ MasterDriver(OnSendUserData(m, "master", sent["master"] + 1), {})
  /\ UNCHANGED <<o, toM, gotO, heard, used, timely>>

MasterPoll(fn) ==
  /\ open["master"] /\ m.link = "Ready"
  /\ Count("poll", MaxPoll)
  /\ MasterDriver(OnRequest(m, fn), {})
  /\ UNCHANGED <<o, toM, gotO, heard, sent, timely>>

OutstationSend ==
  /\ open["outstation"]
  /\ sent["outstation"] < MaxAsdu["outstation"]
  /\ sent' = [sent EXCEPT !["outstation"] = @ + 1]
  /\ OutstationDriver(OnSendUserData(o, "outstation", sent["outstation"] + 1))
  /\ UNCHANGED <<m, toO, gotM, open, used, lost, timely>>

-----------------------------------------------------------------------------
(* Steps of the drivers. *)

MasterReceive ==
  /\ open["master"] /\ toM # << >>
  /\ MasterDriver(MasterOnFrame(m, Head(toM)), {})
  /\ toM' = Tail(toM)
  /\ UNCHANGED <<o, gotO, heard, sent, used, timely>>

OutstationReceive ==
  /\ open["outstation"] /\ toO # << >>
  /\ OutstationDriver(OutstationOnFrame(o, Head(toO)))
  /\ toO' = Tail(toO)
  /\ UNCHANGED <<m, gotM, open, sent, used, lost, timely>>

(* On a byte stream the outstation reads end of file once the master is    *)
(* gone, reports Closed and ends.                                          *)
OutstationEof ==
  /\ open["outstation"] /\ ~open["master"] /\ toO = << >>
  /\ open' = [open EXCEPT !["outstation"] = FALSE]
  /\ UNCHANGED <<m, o, toO, toM, gotO, gotM, heard, sent, used, lost, timely>>

(* A tick of the driver's interval, with the time that passed since the    *)
(* last one.  On a timely line the timeout is longer than the round trip:  *)
(* it expires only when nothing is under way.                              *)
MasterTick ==
  /\ open["master"] /\ Waiting(m)
  /\ timely => toO = << >> /\ toM = << >>
  /\ MasterDriver([m EXCEPT !.pending.age = @ + 1], {})
  /\ UNCHANGED <<o, toM, gotO, heard, sent, used, timely>>

-----------------------------------------------------------------------------
(* Faults. *)

(* A frame is damaged on the line: the checksum fails and the receiving    *)
(* driver skips it.                                                        *)
LoseRequest ==
  /\ toO # << >>
  /\ Count("loss", MaxLoss)
  /\ toO' = Tail(toO)
  /\ UNCHANGED <<m, o, toM, gotO, gotM, heard, open, sent, lost, timely>>

LoseReply ==
  /\ toM # << >>
  /\ Count("loss", MaxLoss)
  /\ toM' = Tail(toM)
  /\ UNCHANGED <<m, o, toO, gotO, gotM, heard, open, sent, lost, timely>>

(* A secondary that is not this program answers on the same line: single-  *)
(* character replies, refusals, functions the master does not expect.      *)
Foreign == {"singleAck", "singleNack", "nack", "ack", "unknown"}

ForeignReply(fn) ==
  /\ ~timely
  /\ Count("foreign", MaxForeign)
  /\ toM' = Append(toM, Secondary(fn, 0))
  /\ UNCHANGED <<m, o, toO, gotO, gotM, heard, open, sent, lost, timely>>

(* The master's process ends, by stop, by a crash or after a LinkError,    *)
(* and a new one opens the port.  What was on the line for it is gone or   *)
(* still in the receive buffer.                                            *)
MasterRestart ==
  /\ timely => toO = << >> /\ toM = << >>
  /\ Count("restart", MaxRestart)
  /\ m' = NewConnection
  /\ toM' \in {toM, << >>}
  /\ open' = [open EXCEPT !["master"] = TRUE]
  /\ lost' = lost \cup InFlight(m) \cup Queued(m)
  /\ UNCHANGED <<o, toO, gotO, gotM, heard, sent, timely>>

(* The outstation's process restarts: a new machine and a new application. *)
OutstationRestart ==
  /\ timely => toO = << >> /\ toM = << >>
  /\ Count("restart", MaxRestart)
  /\ o' = NewConnection
  /\ toO' \in {toO, << >>}
  /\ gotO' = << >>
  /\ open' = [open EXCEPT !["outstation"] = TRUE]
  /\ UNCHANGED <<m, toM, gotM, heard, sent, lost, timely>>

-----------------------------------------------------------------------------
Init ==
  /\ m = NewConnection /\ o = NewConnection
  /\ toO = << >> /\ toM = << >>
  /\ gotO = << >> /\ gotM = << >>
  /\ open = [r \in Role |-> TRUE]
  /\ sent = [r \in Role |-> 0]
  /\ used = [k \in {"poll", "reset", "restart", "loss", "foreign"} |-> 0]
  /\ heard = {}
  /\ lost = {}
  /\ timely \in BOOLEAN

Next ==
  \/ ResetAtStart \/ ResetAgain \/ MasterSend \/ OutstationSend
  \/ \E fn \in {"class", "status"} : MasterPoll(fn)
  \/ MasterReceive \/ OutstationReceive \/ OutstationEof \/ MasterTick
  \/ LoseRequest \/ LoseReply \/ MasterRestart \/ OutstationRestart
  \/ \E fn \in Foreign : ForeignReply(fn)

Spec == Init /\ [][Next]_vars

-----------------------------------------------------------------------------
(* The driver loop wakes for a frame, for its interval and for end of file; *)
(* the line moves.  Applications and faults owe nothing.                    *)
FairSpec ==
  /\ Spec
  /\ WF_vars(MasterReceive) /\ WF_vars(OutstationReceive)
  /\ WF_vars(MasterTick) /\ WF_vars(OutstationEof)
  /\ WF_vars(ResetAtStart)

-----------------------------------------------------------------------------
(* Properties. *)

Largest == MaxAsdu["master"] + MaxAsdu["outstation"]

Frames ==
  [fn : {"none", "reset", "status", "class", "data", "ack", "nack",
         "statusOfLink", "noData", "respond", "unknown", "singleAck", "singleNack"},
   addr : {MasterAddress, OutstationAddress}, fcb : {0, 1}, fcv : BOOLEAN,
   asdu : 0..Largest]

Machines ==
  [link : {"NotReady", "Ready", "Failed"}, fcb : {0, 1}, lastFcb : {0, 1, NoFcb},
   pending : [frame : Frames, age : 0..(AckTimeout - 1), attempts : 0..(MaxRetries + 1)],
   queue : Seq(1..Largest), tx : {<< >>}, up : {<< >>}, err : {FALSE}]

(* Every step leaves both machines well formed: no action of a handler is  *)
(* left behind in the buffer, a frame is tried at most max_retries + 1     *)
(* times, a pending send never outlives its timeout.                       *)
TypeOK ==
  /\ m \in Machines /\ o \in Machines
  /\ toO \in Seq(Frames) /\ toM \in Seq(Frames)
  /\ gotO \in Seq(1..Largest) /\ gotM \in Seq(1..Largest)
  /\ heard \subseteq 1..Largest /\ lost \subseteq 1..Largest
  /\ open \in [Role -> BOOLEAN] /\ sent \in [Role -> 0..Largest]
  /\ timely \in BOOLEAN

Increasing(s) == \A i, j \in DOMAIN s : i < j => s[i] < s[j]

(* Whatever the line loses or delays, whoever restarts and whatever is     *)
(* reset in between, an application never sees an ASDU twice nor two out   *)
(* of order: the FCB filters every retransmission, and the queue is popped *)
(* once per response.                                                      *)
AtMostOnceInOrder == Increasing(gotO) /\ Increasing(gotM)

(* On a timely line an ASDU the master has finished with (it is neither    *)
(* queued nor in flight, and no close or restart gave it up) reached the   *)
(* outstation's application: an ACK never stands for another frame, and    *)
(* the FCB never hides a new one, also across restarts of either side.     *)
ConfirmedWasDelivered ==
  timely => (1..sent["master"]) \ (lost \cup InFlight(m) \cup Queued(m)) \subseteq heard

(* On a timely line whose outstation answers as this program does, up to   *)
(* max_retries lost frames never bring the master down.                    *)
FailsOnlyAfterRetries ==
  timely /\ used["loss"] <= MaxRetries /\ open["outstation"] => open["master"]

Responses(line) ==
  LET isResponse(f) == f.fn = "respond"
      kept == SelectSeq(line, isResponse)
  IN [i \in DOMAIN kept |-> kept[i].asdu]

(* Without losses and restarts every ASDU of the outstation is exactly     *)
(* once in one place, in order: delivered, under way, or queued.  Late     *)
(* replies and repeated polls do not lose one.                             *)
PolledDataConserved ==
  used["loss"] = 0 /\ used["restart"] = 0 =>
    gotM \o Responses(toM) \o o.queue = [i \in 1..sent["outstation"] |-> i]

(* An ASDU handed to send_asdu is transmitted, unless the link closes, is  *)
(* reset or restarts first.                                                *)
QueueIsServed == []<>(Queued(m) = {} \/ ~open["master"])

=============================================================================
