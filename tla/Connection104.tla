--------------------------- MODULE Connection104 ---------------------------
(***************************************************************************)
(* The sans-I/O connection state machine of frame104/state.rs as operators *)
(* on its state, a record.  Every operator takes the record before a call  *)
(* and returns the record after it, so that a handler that calls another   *)
(* and then runs the timers is the composition of their operators.         *)
(*                                                                         *)
(* Instants are kept as ages, the time elapsed since them: the code only   *)
(* ever compares now - instant with t1, t2 and t3.  An age stops growing   *)
(* at MaxAge, beyond every timer.                                          *)
(*                                                                         *)
(* The queued actions are kept as two sequences: tx, the APDUs to write,   *)
(* and evt, the deliveries, state changes and disconnects to report.  They *)
(* go to different places and keep their order within each.                *)
(*                                                                         *)
(* An ASDU is opaque to the state machine; here it is a number, the place  *)
(* it has in the order in which its application submitted it.              *)
(***************************************************************************)
EXTENDS SeqNo, Sequences, FiniteSets

CONSTANTS
  K,    \* max unacknowledged outgoing I-frames (Config::k)
  W,    \* max unacknowledged incoming I-frames (Config::w)
  T1,   \* timeout of a sent I-frame or TESTFR_act
  T2,   \* delay before received I-frames are acknowledged
  T3    \* idle time before a TESTFR_act

(* k and w count frames; k is in its documented range 1 .. 2^15 - 1.       *)
ASSUME WindowAssumption == K \in 1 .. MAX /\ W \in Nat \ {0}

ASSUME TimerAssumption == T1 \in Nat \ {0} /\ T2 \in Nat \ {0} /\ T3 \in Nat \ {0}

None == -1

MaxAge == IF T1 >= T2 /\ T1 >= T3 THEN T1 ELSE IF T2 >= T3 THEN T2 ELSE T3

Age == 0 .. MaxAge

OptAge == Age \cup {None}

Role == {"Client", "Server"}

State == {"Stopped", "Starting", "Active", "Stopping", "Closed"}

Reason == {"AckTimeout", "ProtocolError", "StoppedCleanly"}

UFunction ==
  {"StartDtAct", "StartDtCon", "StopDtAct", "StopDtCon", "TestFrAct", "TestFrCon"}

Asdu == Nat

Apdu == [fmt : {"I"}, send : SeqNos, recv : SeqNos, asdu : Asdu]
        \cup [fmt : {"S"}, recv : SeqNos]
        \cup [fmt : {"U"}, function : UFunction]

IFrame(s, r, a) == [fmt |-> "I", send |-> s, recv |-> r, asdu |-> a]

SFrame(r) == [fmt |-> "S", recv |-> r]

UFrame(f) == [fmt |-> "U", function |-> f]

Event == [kind : {"Asdu"}, asdu : Asdu]
         \cup [kind : {"StateChanged"}, state : State]
         \cup [kind : {"Closed"}, reason : Reason]

Sent == [seq : SeqNos, at : Age]

(* last_io is the later of last_send_any and last_recv_any: the code only  *)
(* reads their maximum, and each is only ever set to the current instant.  *)
Connection ==
  [role : Role, state : State, send_next : SeqNos, recv_next : SeqNos,
   sent : Seq(Sent), unacked_recv : Nat, last_recv_iframe : OptAge,
   last_io : OptAge, test_sent : OptAge, pending : Seq(Asdu),
   tx : Seq(Apdu), evt : Seq(Event)]

New(role) ==
  [role |-> role, state |-> "Stopped", send_next |-> 0, recv_next |-> 0,
   sent |-> << >>, unacked_recv |-> 0, last_recv_iframe |-> None,
   last_io |-> None, test_sent |-> None, pending |-> << >>,
   tx |-> << >>, evt |-> << >>]

-----------------------------------------------------------------------------
(* Emitting actions.                                                       *)

(* emit_apdu and the assignment to last_send_any next to each of its calls *)
Emit(c, apdu) == [c EXCEPT !.tx = Append(@, apdu), !.last_io = 0]

Transition(c, to) ==
  IF c.state = to
  THEN c
  ELSE [c EXCEPT !.state = to,
                 !.evt = Append(@, [kind |-> "StateChanged", state |-> to])]

Disconnect(c, reason) ==
  [c EXCEPT !.evt = Append(@, [kind |-> "Closed", reason |-> reason])]

(* Disconnect first, then the transition: the order of every error path.   *)
Fail(c, reason) == Transition(Disconnect(c, reason), "Closed")

StopCleanly(c) == Disconnect(Transition(c, "Stopped"), "StoppedCleanly")

EmitSupervisory(c) == [Emit(c, SFrame(c.recv_next)) EXCEPT !.unacked_recv = 0]

-----------------------------------------------------------------------------
(* The send window.                                                        *)

(* send_iframe on each ASDU of a sequence in turn.                         *)
SendIframes(c, asdus) ==
  LET seq(i) == SeqAdd(c.send_next, i - 1)
      n == Len(asdus)
  IN  IF n = 0
      THEN c
      ELSE [c EXCEPT
             !.send_next = SeqAdd(@, n),
             !.sent = @ \o [i \in 1 .. n |-> [seq |-> seq(i), at |-> 0]],
             !.unacked_recv = 0,
             !.last_io = 0,
             !.tx = @ \o [i \in 1 .. n |-> IFrame(seq(i), c.recv_next, asdus[i])]]

(* Mutant: the flush leaves one place of the window unused.                *)
FlushableOffByOne(c) ==
  LET room == K - 1 - Len(c.sent)
  IN  IF room <= 0 THEN 0
      ELSE IF Len(c.pending) <= room THEN Len(c.pending) ELSE room

(* How many pending ASDUs the window has room for.                         *)
Flushable(c) ==
  LET room == K - Len(c.sent)
  IN  IF room <= 0 THEN 0
      ELSE IF Len(c.pending) <= room THEN Len(c.pending) ELSE room

FlushPending(c) ==
  LET n == Flushable(c)
  IN  SendIframes([c EXCEPT !.pending = SubSeq(@, n + 1, Len(@))],
                  SubSeq(c.pending, 1, n))

(* Mutant: N(R) taken for the last frame received, not the next expected.  *)
AcknowledgesInclusive(nr, seq) == Distance(seq, nr) <= MAX \div 2

(* The peer that announces N(R) = nr has received the frame numbered seq.  *)
Acknowledges(nr, seq) ==
  LET d == Distance(seq, nr) IN d # 0 /\ d <= MAX \div 2

(* The entries at the head of sent that nr acknowledges: the loop pops     *)
(* until it meets one that is not acknowledged.                            *)
AckCount(sent, nr) ==
  Cardinality({n \in 1 .. Len(sent) :
                 \A i \in 1 .. n : Acknowledges(nr, sent[i].seq)})

(* Mutant: an acknowledgement does not make the queue move.                *)
AcknowledgeWithoutFlush(c, nr) ==
  [c EXCEPT !.sent = SubSeq(@, AckCount(@, nr) + 1, Len(@))]

Acknowledge(c, nr) ==
  FlushPending([c EXCEPT !.sent = SubSeq(@, AckCount(@, nr) + 1, Len(@))])

-----------------------------------------------------------------------------
(* Received APDUs.                                                         *)

InDataTransfer(c) == c.state \in {"Active", "Stopping"}

OnUFrame(c, f) ==
  CASE f = "StartDtCon" /\ c.role = "Client" /\ c.state = "Starting" ->
         FlushPending(Transition(c, "Active"))
    [] f = "StartDtAct" /\ c.role = "Server" /\ c.state = "Stopped" ->
         FlushPending(Transition(Emit(c, UFrame("StartDtCon")), "Active"))
    [] f = "StopDtAct" /\ c.role = "Server" ->
         Transition(Emit(c, UFrame("StopDtCon")), "Stopped")
    [] f = "StopDtCon" /\ c.role = "Client" /\ c.state = "Stopping" ->
         IF c.sent = << >> THEN StopCleanly(c) ELSE c
    [] f = "TestFrAct" -> Emit(c, UFrame("TestFrCon"))
    [] f = "TestFrCon" -> [c EXCEPT !.test_sent = None]
    [] OTHER -> Fail(c, "ProtocolError")

(* Mutant: one frame too late.                                             *)
AckWindowLate(c) == IF c.unacked_recv > W THEN EmitSupervisory(c) ELSE c

(* The w-th unacknowledged frame is acknowledged at once.                  *)
AckWindow(c) == IF c.unacked_recv >= W THEN EmitSupervisory(c) ELSE c

OnIFrame(c, apdu) ==
  IF ~InDataTransfer(c) \/ apdu.send # c.recv_next
  THEN Fail(c, "ProtocolError")
  ELSE LET received == [c EXCEPT !.recv_next = SeqNext(@),
                                 !.unacked_recv = @ + 1,
                                 !.last_recv_iframe = 0]
           acked == Acknowledge(received, apdu.recv)
           delivered ==
             [acked EXCEPT !.evt = Append(@, [kind |-> "Asdu", asdu |-> apdu.asdu])]
       IN  AckWindow(delivered)

OnApdu(c0, apdu) ==
  LET c == [c0 EXCEPT !.last_io = 0]
  IN  CASE apdu.fmt = "U" -> OnUFrame(c, apdu.function)
        [] apdu.fmt = "S" -> IF InDataTransfer(c) THEN Acknowledge(c, apdu.recv) ELSE c
        [] apdu.fmt = "I" -> OnIFrame(c, apdu)

-----------------------------------------------------------------------------
(* User requests.                                                          *)

OnUserStartDt(c) ==
  IF c.role = "Client" /\ c.state = "Stopped"
  THEN Transition(Emit(c, UFrame("StartDtAct")), "Starting")
  ELSE c

OnUserStopDt(c) ==
  CASE c.state # "Active" -> c
    [] c.state = "Active" /\ c.role = "Client" ->
         Transition(Emit(c, UFrame("StopDtAct")), "Stopping")
    [] c.state = "Active" /\ c.role = "Server" -> Transition(c, "Stopped")

(* Mutant: the window is checked one frame too late.                       *)
OnUserSendOffByOne(c, asdu) ==
  IF c.state # "Active" \/ Len(c.sent) > K
  THEN [c EXCEPT !.pending = Append(@, asdu)]
  ELSE SendIframes(c, <<asdu>>)

(* Mutant: ASDUs are sent before the data transfer has started.            *)
OnUserSendAnytime(c, asdu) ==
  IF Len(c.sent) >= K
  THEN [c EXCEPT !.pending = Append(@, asdu)]
  ELSE SendIframes(c, <<asdu>>)

OnUserSend(c, asdu) ==
  IF c.state # "Active" \/ Len(c.sent) >= K
  THEN [c EXCEPT !.pending = Append(@, asdu)]
  ELSE SendIframes(c, <<asdu>>)

-----------------------------------------------------------------------------
(* Timers, run at the tail of every handle().                              *)

Expired(age, timer) == age # None /\ age >= timer

AckOverdue(c) ==
  \/ c.sent # << >> /\ Expired(Head(c.sent).at, T1)
  \/ Expired(c.test_sent, T1)

(* Mutant: t2 is not run.                                                  *)
AckReceivedNever(c) == c

AckReceived(c) ==
  IF c.unacked_recv > 0 /\ Expired(c.last_recv_iframe, T2)
  THEN EmitSupervisory(c)
  ELSE c

IdleTest(c) ==
  IF InDataTransfer(c) /\ c.test_sent = None /\ Expired(c.last_io, T3)
  THEN [Emit(c, UFrame("TestFrAct")) EXCEPT !.test_sent = 0]
  ELSE c

(* Mutant: outstanding frames are not waited for.                          *)
FinishStopEarly(c) ==
  IF c.state = "Stopping" /\ c.pending = << >> THEN StopCleanly(c) ELSE c

FinishStop(c) ==
  IF c.state = "Stopping" /\ c.sent = << >> /\ c.pending = << >>
  THEN StopCleanly(c)
  ELSE c

RunTimers(c) ==
  IF AckOverdue(c)
  THEN Fail(c, "AckTimeout")
  ELSE FinishStop(IdleTest(AckReceived(c)))

-----------------------------------------------------------------------------
(* handle(): the actions of the previous call have been drained, then the  *)
(* input's handler and the timers run.                                     *)

Drained(c) == [c EXCEPT !.tx = << >>, !.evt = << >>]

HandleApdu(c, apdu) == RunTimers(OnApdu(Drained(c), apdu))

HandleStartDt(c) == RunTimers(OnUserStartDt(Drained(c)))

HandleStopDt(c) == RunTimers(OnUserStopDt(Drained(c)))

HandleSend(c, asdu) == RunTimers(OnUserSend(Drained(c), asdu))

HandleTick(c) == RunTimers(Drained(c))

(* One unit of time passes.                                                *)
Older(age) == IF age = None \/ age = MaxAge THEN age ELSE age + 1

OlderSent(s) == [s EXCEPT !.at = Older(@)]

Elapse(c) ==
  [c EXCEPT !.sent = [i \in DOMAIN @ |-> OlderSent(@[i])],
            !.last_recv_iframe = Older(@),
            !.last_io = Older(@),
            !.test_sent = Older(@)]

(* A disconnect was among the actions: apply_actions tells the driver to   *)
(* exit.                                                                   *)
Disconnects(c) == \E i \in DOMAIN c.evt : c.evt[i].kind = "Closed"

-----------------------------------------------------------------------------
(* What a state of the machine should satisfy.                             *)

(* The outstanding frames carry consecutive numbers, up to next.           *)
Consecutive(sent, next) ==
  \A i \in 1 .. Len(sent) :
    SeqNext(sent[i].seq) = IF i = Len(sent) THEN next ELSE sent[i + 1].seq

(* At most k frames are outstanding, and they carry consecutive numbers,   *)
(* the last one just below send_next.                                      *)
WindowOf(c) == Len(c.sent) <= K /\ Consecutive(c.sent, c.send_next)

(* The n-th submitted ASDU travels in the n-th I-frame.                    *)
InOrder(tx) ==
  \A i \in 1 .. Len(tx) :
    tx[i].fmt = "I" =>
      tx[i].asdu > 0 /\ tx[i].send = SeqAdd(0, tx[i].asdu - 1)

CleanStop == [kind |-> "Closed", reason |-> "StoppedCleanly"]

(* A clean stop is reported only when nothing is left to send or to be     *)
(* acknowledged.                                                           *)
StopsDrained(c) ==
  \A i \in 1 .. Len(c.evt) :
    c.evt[i] = CleanStop => c.sent = << >> /\ c.pending = << >>
=============================================================================
