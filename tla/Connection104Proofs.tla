------------------------ MODULE Connection104Proofs ------------------------
(***************************************************************************)
(* What each operator of the connection state machine preserves.  The      *)
(* lemmas follow the call structure of the code, from the helpers to       *)
(* handle(), and hold for every window, every timer setting and every      *)
(* modulus of the sequence numbers.                                        *)
(***************************************************************************)
EXTENDS Connection104, SeqNoProofs, SequenceTheorems, FiniteSetTheorems

(* The pending ASDUs are the last ones submitted, n in all, and the next   *)
(* frame to send will carry the first of them.                             *)
Numbered(c, n) ==
  /\ Len(c.pending) <= n
  /\ \A i \in 1 .. Len(c.pending) : c.pending[i] = n - Len(c.pending) + i
  /\ c.send_next = SeqAdd(0, n - Len(c.pending))

NoCleanStop(c) == \A i \in 1 .. Len(c.evt) : c.evt[i] # CleanStop

(* Holds throughout a call of handle(), until the stop is finished.        *)
Core(c, n) ==
  /\ c \in Connection
  /\ WindowOf(c)
  /\ Numbered(c, n)
  /\ InOrder(c.tx)
  /\ NoCleanStop(c)

(* Holds between the steps of a call.                                      *)
Backpressure(c) ==
  /\ c.state = "Active" /\ c.pending # << >> => Len(c.sent) = K
  /\ c.state = "Stopping" /\ c.sent = << >> => c.pending = << >>

(* Holds when the input's handler has returned and the timers are to run.  *)
Mid(c, n) ==
  /\ Core(c, n)
  /\ Backpressure(c)
  /\ c.unacked_recv < W

(* Holds when handle() has returned.  A stopping client still has frames   *)
(* outstanding: FinishStop has ended the stop otherwise.                   *)
Settled(c, n) ==
  /\ c \in Connection
  /\ WindowOf(c)
  /\ Numbered(c, n)
  /\ InOrder(c.tx)
  /\ Backpressure(c)
  /\ c.unacked_recv < W
  /\ c.state = "Stopping" => c.sent # << >>
  /\ StopsDrained(c)

(* d agrees with c on the windows and the queue.                           *)
SameWindows(c, d) ==
  /\ d.role = c.role
  /\ d.sent = c.sent
  /\ d.send_next = c.send_next
  /\ d.pending = c.pending

-----------------------------------------------------------------------------
(* Emitting a frame that carries no ASDU disturbs nothing.                 *)
LEMMA EmitCore ==
  ASSUME NEW n \in Nat, NEW c, Core(c, n), NEW a \in Apdu, a.fmt # "I"
  PROVE  /\ Core(Emit(c, a), n)
         /\ SameWindows(c, Emit(c, a))
         /\ Emit(c, a).state = c.state
         /\ Emit(c, a).unacked_recv = c.unacked_recv
  <1> DEFINE d == Emit(c, a)
  <1>1. c \in Connection /\ c.tx \in Seq(Apdu)
    BY DEF Core, Connection
  <1>2. /\ Append(c.tx, a) \in Seq(Apdu)
        /\ Len(Append(c.tx, a)) = Len(c.tx) + 1
        /\ \A i \in 1 .. Len(c.tx) : Append(c.tx, a)[i] = c.tx[i]
        /\ Append(c.tx, a)[Len(c.tx) + 1] = a
    BY <1>1, AppendProperties
  <1>3. 0 \in OptAge
    BY TimerAssumption DEF OptAge, Age, MaxAge
  <1>4. /\ d \in Connection
        /\ d.tx = Append(c.tx, a)
        /\ d.evt = c.evt
        /\ SameWindows(c, d)
        /\ d.state = c.state
        /\ d.unacked_recv = c.unacked_recv
    BY <1>1, <1>2, <1>3 DEF Emit, Connection, SameWindows
  <1>5. InOrder(d.tx)
    BY <1>1, <1>2, <1>4 DEF Core, InOrder
  <1>6. WindowOf(d) /\ Numbered(d, n) /\ NoCleanStop(d)
    BY <1>4 DEF Core, WindowOf, Numbered, NoCleanStop, SameWindows
  <1>7. QED
    BY <1>4, <1>5, <1>6 DEF Core

LEMMA TransitionCore ==
  ASSUME NEW n \in Nat, NEW c, Core(c, n), NEW to \in State
  PROVE  /\ Core(Transition(c, to), n)
         /\ SameWindows(c, Transition(c, to))
         /\ Transition(c, to).state = to
         /\ Transition(c, to).unacked_recv = c.unacked_recv
  <1> DEFINE e == [kind |-> "StateChanged", state |-> to]
             d == Transition(c, to)
  <1>1. c \in Connection /\ c.evt \in Seq(Event)
    BY DEF Core, Connection
  <1>2. e \in Event /\ e # CleanStop
    BY DEF Event, CleanStop
  <1>3. /\ Append(c.evt, e) \in Seq(Event)
        /\ Len(Append(c.evt, e)) = Len(c.evt) + 1
        /\ \A i \in 1 .. Len(c.evt) : Append(c.evt, e)[i] = c.evt[i]
        /\ Append(c.evt, e)[Len(c.evt) + 1] = e
    BY <1>1, <1>2, AppendProperties
  <1>4. CASE c.state = to
    BY <1>4 DEF Transition, SameWindows
  <1>5. CASE c.state # to
    <2>1. /\ d \in Connection
          /\ d.tx = c.tx
          /\ d.evt = Append(c.evt, e)
          /\ SameWindows(c, d)
          /\ d.state = to
          /\ d.unacked_recv = c.unacked_recv
      BY <1>1, <1>3, <1>5 DEF Transition, Connection, SameWindows
    <2>2. NoCleanStop(d)
      BY <1>1, <1>2, <1>3, <2>1 DEF Core, NoCleanStop
    <2>3. WindowOf(d) /\ Numbered(d, n) /\ InOrder(d.tx)
      BY <2>1 DEF Core, WindowOf, Numbered, InOrder, SameWindows
    <2>4. QED
      BY <2>1, <2>2, <2>3 DEF Core
  <1>6. QED
    BY <1>4, <1>5

(* The error path reports a reason other than StoppedCleanly.              *)
LEMMA FailCore ==
  ASSUME NEW n \in Nat, NEW c, Core(c, n),
         NEW reason \in Reason \ {"StoppedCleanly"}
  PROVE  /\ Core(Fail(c, reason), n)
         /\ SameWindows(c, Fail(c, reason))
         /\ Fail(c, reason).state = "Closed"
         /\ Fail(c, reason).unacked_recv = c.unacked_recv
  <1> DEFINE e == [kind |-> "Closed", reason |-> reason]
             d == Disconnect(c, reason)
  <1>1. c \in Connection /\ c.evt \in Seq(Event)
    BY DEF Core, Connection
  <1>2. e \in Event /\ e # CleanStop
    BY DEF Event, CleanStop, Reason
  <1>3. /\ Append(c.evt, e) \in Seq(Event)
        /\ Len(Append(c.evt, e)) = Len(c.evt) + 1
        /\ \A i \in 1 .. Len(c.evt) : Append(c.evt, e)[i] = c.evt[i]
        /\ Append(c.evt, e)[Len(c.evt) + 1] = e
    BY <1>1, <1>2, AppendProperties
  <1>4. /\ d \in Connection
        /\ d.tx = c.tx
        /\ d.evt = Append(c.evt, e)
        /\ SameWindows(c, d)
        /\ d.unacked_recv = c.unacked_recv
    BY <1>1, <1>3 DEF Disconnect, Connection, SameWindows
  <1>5. NoCleanStop(d)
    BY <1>1, <1>2, <1>3, <1>4 DEF Core, NoCleanStop
  <1>6. WindowOf(d) /\ Numbered(d, n) /\ InOrder(d.tx)
    BY <1>4 DEF Core, WindowOf, Numbered, InOrder, SameWindows
  <1>7. Core(d, n)
    BY <1>4, <1>5, <1>6 DEF Core
  <1>8. "Closed" \in State
    BY DEF State
  <1>9. QED
    BY <1>4, <1>7, <1>8, TransitionCore DEF Fail, SameWindows

(* An S-frame acknowledges everything received.                            *)
LEMMA EmitSupervisoryCore ==
  ASSUME NEW n \in Nat, NEW c, Core(c, n)
  PROVE  /\ Core(EmitSupervisory(c), n)
         /\ SameWindows(c, EmitSupervisory(c))
         /\ EmitSupervisory(c).state = c.state
         /\ EmitSupervisory(c).unacked_recv = 0
  <1> DEFINE a == SFrame(c.recv_next)
             e == Emit(c, a)
             d == EmitSupervisory(c)
  <1>1. a \in Apdu /\ a.fmt # "I"
    BY DEF Core, Connection, SFrame, Apdu
  <1>2. Core(e, n) /\ SameWindows(c, e) /\ e.state = c.state
    BY <1>1, EmitCore
  <1>3. d = [e EXCEPT !.unacked_recv = 0]
    BY DEF EmitSupervisory
  <1> HIDE DEF e, d
  <1>4. /\ d \in Connection
        /\ d.tx = e.tx
        /\ d.evt = e.evt
        /\ SameWindows(e, d)
        /\ d.state = e.state
        /\ d.unacked_recv = 0
    BY <1>2, <1>3 DEF Core, Connection, SameWindows
  <1>5. WindowOf(d) /\ Numbered(d, n) /\ InOrder(d.tx) /\ NoCleanStop(d)
    BY <1>2, <1>4, ZenonT(40) DEF Core, WindowOf, Numbered, InOrder, NoCleanStop, SameWindows
  <1>6. QED
    BY <1>2, <1>4, <1>5 DEF Core, SameWindows, d

-----------------------------------------------------------------------------
(* The send window.                                                        *)

(* Frames numbered on from next extend a window that ends at next.         *)
LEMMA ConsecutiveConcat ==
  ASSUME NEW s \in Seq(Sent), NEW next \in SeqNos, Consecutive(s, next),
         NEW t \in Seq(Sent), NEW n \in Nat, n = Len(t), n > 0,
         \A i \in 1 .. n : t[i].seq = SeqAdd(next, i - 1)
  PROVE  Consecutive(s \o t, SeqAdd(next, n))
  <1> DEFINE u == s \o t
             l == Len(s)
  <1>1. /\ l \in Nat
        /\ Len(u) = l + n
        /\ \A i \in 1 .. l + n : u[i] = IF i <= l THEN s[i] ELSE t[i - l]
    BY LenProperties, ConcatProperties
  <1>2. next \in Nat
    BY DEF SeqNos
  <1> HIDE DEF u, l
  <1>3. SUFFICES ASSUME NEW i \in 1 .. l + n
                 PROVE  SeqNext(u[i].seq) =
                          IF i = l + n THEN SeqAdd(next, n) ELSE u[i + 1].seq
    BY <1>1 DEF Consecutive, u
  <1>4. CASE i < l
    <2>1. u[i] = s[i] /\ u[i + 1] = s[i + 1] /\ i # l + n /\ i # l /\ i \in 1 .. l
      BY <1>1, <1>4
    <2>2. QED
      BY <2>1 DEF Consecutive, l
  <1>5. CASE i = l
    <2>1. u[i] = s[i] /\ u[i + 1] = t[1] /\ i # l + n /\ i \in 1 .. l /\ 1 \in 1 .. n
      BY <1>1, <1>5
    <2>2. SeqNext(s[i].seq) = next
      BY <1>5, <2>1 DEF Consecutive, l
    <2>3. t[1].seq = next
      BY <2>1, SeqAddZero
    <2>4. QED
      BY <2>1, <2>2, <2>3
  <1>6. CASE i > l
    <2>1. PICK j \in 1 .. n : i = l + j
      BY <1>1, <1>6
    <2>2. u[i] = t[j]
      BY <1>1, <2>1
    <2>3. SeqNext(t[j].seq) = SeqAdd(next, j)
      <3>1. PICK h \in Nat : j = h + 1 /\ j - 1 = h
        <4>1. j - 1 \in Nat /\ j = (j - 1) + 1
          OBVIOUS
        <4>2. QED
          BY <4>1
      <3>2. SeqAdd(SeqAdd(next, h), 1) = SeqAdd(next, h + 1)
        BY <1>2, SeqAddAdd
      <3>3. t[j].seq = SeqAdd(next, h)
        BY <3>1
      <3>4. QED
        BY <3>1, <3>2, <3>3, Zenon DEF SeqNext
    <2>4. CASE j = n
      BY <1>1, <2>1, <2>2, <2>3, <2>4
    <2>5. CASE j # n
      <3>1. j + 1 \in 1 .. n /\ u[i + 1] = t[j + 1] /\ (j + 1) - 1 = j /\ i # l + n
        BY <1>1, <2>1, <2>5
      <3>2. u[i + 1].seq = SeqAdd(next, j)
        BY <3>1
      <3>3. QED
        BY <2>2, <2>3, <3>1, <3>2
    <2>6. QED
      BY <2>4, <2>5
  <1>7. QED
    BY <1>1, <1>4, <1>5, <1>6

(* Dropping the head of a window leaves a window.                          *)
LEMMA ConsecutiveSuffix ==
  ASSUME NEW s \in Seq(Sent), NEW next, Consecutive(s, next),
         NEW n \in 0 .. Len(s), NEW t, t = SubSeq(s, n + 1, Len(s))
  PROVE  /\ t \in Seq(Sent)
         /\ Len(t) = Len(s) - n
         /\ Consecutive(t, next)
  <1>1. Len(s) \in Nat /\ \A i \in n + 1 .. Len(s) : s[i] \in Sent
    BY LenProperties, ElementOfSeq
  <1>2. /\ t \in Seq(Sent)
        /\ Len(t) = Len(s) - n
        /\ \A i \in 1 .. Len(s) - n : t[i] = s[n + i]
    BY <1>1, SubSeqProperties
  <1>3. ASSUME NEW i \in 1 .. Len(t)
        PROVE  SeqNext(t[i].seq) = IF i = Len(t) THEN next ELSE t[i + 1].seq
    <2>1. n + i \in 1 .. Len(s) /\ t[i] = s[n + i]
      BY <1>1, <1>2
    <2>2. CASE i = Len(t)
      BY <1>1, <1>2, <2>1, <2>2 DEF Consecutive
    <2>3. CASE i # Len(t)
      <3>1. n + i # Len(s) /\ t[i + 1] = s[(n + i) + 1]
        BY <1>1, <1>2, <2>3, SMTT(30)
      <3>2. QED
        BY <2>1, <2>3, <3>1 DEF Consecutive
    <2>4. QED
      BY <2>2, <2>3
  <1>4. QED
    BY <1>2, <1>3 DEF Consecutive

(* I-frames numbered by their ASDUs keep the output in order.              *)
LEMMA InOrderConcat ==
  ASSUME NEW s \in Seq(Apdu), InOrder(s),
         NEW t \in Seq(Apdu), NEW m \in Nat, NEW n \in Nat, n = Len(t),
         \A i \in 1 .. n : t[i].asdu = m + i /\ t[i].send = SeqAdd(0, (m + i) - 1)
  PROVE  InOrder(s \o t)
  <1> DEFINE u == s \o t
             l == Len(s)
  <1>1. /\ l \in Nat
        /\ Len(u) = l + n
        /\ \A i \in 1 .. l + n : u[i] = IF i <= l THEN s[i] ELSE t[i - l]
    BY LenProperties, ConcatProperties
  <1> HIDE DEF u, l
  <1>2. SUFFICES ASSUME NEW i \in 1 .. l + n, u[i].fmt = "I"
                 PROVE  u[i].asdu > 0 /\ u[i].send = SeqAdd(0, u[i].asdu - 1)
    BY <1>1 DEF InOrder, u
  <1>3. CASE i <= l
    <2>1. u[i] = s[i] /\ i \in 1 .. l
      BY <1>1, <1>3
    <2>2. QED
      BY <1>2, <2>1 DEF InOrder, l
  <1>4. CASE i > l
    <2>1. PICK j \in 1 .. n : i = l + j
      BY <1>1, <1>4
    <2>2. u[i] = t[j]
      BY <1>1, <2>1
    <2>3. t[j].asdu = m + j /\ t[j].send = SeqAdd(0, (m + j) - 1) /\ m + j > 0
      OBVIOUS
    <2>4. QED
      BY <2>2, <2>3, Zenon
  <1>5. QED
    BY <1>1, <1>3, <1>4

(* The fields send_iframe assigns.                                         *)
SendUpdate(c, next, sent, tx) ==
  [c EXCEPT !.send_next = next, !.sent = sent,
            !.unacked_recv = 0, !.last_io = 0, !.tx = tx]

SendOutcome(c, d, next, sent, tx) ==
  /\ d \in Connection
  /\ d.send_next = next /\ d.sent = sent /\ d.tx = tx
  /\ d.unacked_recv = 0 /\ d.evt = c.evt /\ d.pending = c.pending
  /\ d.state = c.state /\ d.role = c.role

LEMMA SendRecord ==
  ASSUME NEW c \in Connection, NEW next \in SeqNos,
         NEW sent \in Seq(Sent), NEW tx \in Seq(Apdu), 0 \in OptAge
  PROVE  SendOutcome(c, SendUpdate(c, next, sent, tx), next, sent, tx)
  BY DEF Connection, SendUpdate, SendOutcome

(* d is c after len more I-frames, m ASDUs having been sent before.        *)
SentOn(c, d, m, len) ==
  /\ d \in Connection
  /\ Consecutive(d.sent, d.send_next) /\ InOrder(d.tx)
  /\ d.send_next = SeqAdd(0, m + len)
  /\ Len(d.sent) = Len(c.sent) + len
  /\ d.evt = c.evt
  /\ d.pending = c.pending
  /\ d.state = c.state
  /\ d.role = c.role
  /\ d.unacked_recv <= c.unacked_recv

(* send_iframe, one ASDU after the other: the frames continue the window   *)
(* and the numbering.  m ASDUs were sent before.                           *)
LEMMA SendIframesWindow ==
  ASSUME NEW m \in Nat, NEW c \in Connection, NEW asdus \in Seq(Asdu),
         Consecutive(c.sent, c.send_next), InOrder(c.tx),
         c.send_next = SeqAdd(0, m),
         \A i \in 1 .. Len(asdus) : asdus[i] = m + i,
         NEW d, d = SendIframes(c, asdus)
  PROVE  SentOn(c, d, m, Len(asdus))
  <1> DEFINE n == Len(asdus)
             s(i) == SeqAdd(c.send_next, i - 1)
             more == [i \in 1 .. n |-> [seq |-> s(i), at |-> 0]]
             out == [i \in 1 .. n |-> IFrame(s(i), c.recv_next, asdus[i])]
  <1>1. /\ n \in Nat
        /\ c.send_next \in SeqNos /\ c.send_next \in Nat
        /\ c.recv_next \in SeqNos
        /\ c.sent \in Seq(Sent) /\ Len(c.sent) \in Nat
        /\ c.tx \in Seq(Apdu) /\ Len(c.tx) \in Nat
        /\ c.unacked_recv \in Nat
    BY LenProperties DEF Connection, SeqNos
  <1>2. \A i \in 1 .. n : s(i) \in SeqNos
    BY <1>1, SeqAddType
  <1>3. 0 \in Age /\ 0 \in OptAge
    BY TimerAssumption DEF OptAge, Age, MaxAge
  <1>4. more \in Seq(Sent) /\ Len(more) = n
    <2>1. \A i \in 1 .. n : [seq |-> s(i), at |-> 0] \in Sent
      BY <1>2, <1>3 DEF Sent
    <2> HIDE DEF s
    <2>2. QED
      BY <1>1, <2>1
  <1>5. out \in Seq(Apdu) /\ Len(out) = n
    <2>1. \A i \in 1 .. n : IFrame(s(i), c.recv_next, asdus[i]) \in Apdu
      BY <1>1, <1>2, ElementOfSeq DEF IFrame, Apdu
    <2> HIDE DEF s
    <2>2. QED
      BY <1>1, <2>1
  <1>6. CASE n = 0
    BY <1>1, <1>6 DEF SendIframes, SentOn
  <1>7. CASE n # 0
    <2>1. d = SendUpdate(c, SeqAdd(c.send_next, n), c.sent \o more, c.tx \o out)
      BY <1>7 DEF SendIframes, SendUpdate
    <2>2. /\ \A i \in 1 .. n : more[i].seq = SeqAdd(c.send_next, i - 1)
          /\ \A i \in 1 .. n : out[i].send = s(i) /\ out[i].asdu = m + i
      BY DEF IFrame
    <2>3. \A i \in 1 .. n : s(i) = SeqAdd(0, (m + i) - 1)
      <3>1. SUFFICES ASSUME NEW i \in 1 .. n
                     PROVE  SeqAdd(c.send_next, i - 1) = SeqAdd(0, (m + i) - 1)
        OBVIOUS
      <3> HIDE DEF n
      <3>2. PICK h \in Nat : i - 1 = h /\ (m + i) - 1 = m + h
        <4>1. i - 1 \in Nat /\ (m + i) - 1 = m + (i - 1)
          BY <1>1
        <4>2. QED
          BY <4>1
      <3>3. SeqAdd(SeqAdd(0, m), h) = SeqAdd(0, m + h)
        BY SeqAddAdd
      <3>4. QED
        BY <3>2, <3>3, Zenon
    <2>4. /\ SeqAdd(c.send_next, n) \in SeqNos
          /\ SeqAdd(c.send_next, n) = SeqAdd(0, m + n)
      <3>1. SeqAdd(SeqAdd(0, m), n) = SeqAdd(0, m + n)
        BY <1>1, SeqAddAdd
      <3>2. QED
        BY <1>1, <3>1, SeqAddType
    <2> HIDE DEF n, s, more, out
    <2>5. Consecutive(c.sent \o more, SeqAdd(c.send_next, n))
      <3>1. n > 0
        BY <1>1, <1>7
      <3>2. QED
        BY <1>1, <1>4, <2>2, <3>1, ConsecutiveConcat, Zenon
    <2>6. InOrder(c.tx \o out)
      <3>1. \A i \in 1 .. n : /\ out[i].asdu = m + i
                               /\ out[i].send = SeqAdd(0, (m + i) - 1)
        BY <2>2, <2>3, Zenon
      <3>2. QED
        BY <1>1, <1>5, <3>1, InOrderConcat, Zenon
    <2>7. /\ c.sent \o more \in Seq(Sent)
          /\ Len(c.sent \o more) = Len(c.sent) + n
          /\ c.tx \o out \in Seq(Apdu)
      <3>1. c.sent \o more \in Seq(Sent) /\ Len(c.sent \o more) = Len(c.sent) + Len(more)
        BY <1>1, <1>4, ConcatProperties, Zenon
      <3>2. c.tx \o out \in Seq(Apdu)
        BY <1>1, <1>5, ConcatProperties, Zenon
      <3>3. QED
        BY <1>4, <3>1, <3>2, Zenon
    <2>8. /\ d \in Connection
          /\ d.send_next = SeqAdd(c.send_next, n)
          /\ d.sent = c.sent \o more
          /\ d.tx = c.tx \o out
          /\ d.unacked_recv = 0 /\ d.evt = c.evt /\ d.pending = c.pending
          /\ d.state = c.state /\ d.role = c.role
      <3>1. SendOutcome(c, d, SeqAdd(c.send_next, n), c.sent \o more, c.tx \o out)
        BY <1>3, <2>1, <2>4, <2>7, SendRecord, Zenon
      <3>2. QED
        BY <3>1 DEF SendOutcome
    <2>9. QED
      BY <1>1, <2>4, <2>5, <2>6, <2>7, <2>8 DEF n, SentOn
  <1>8. QED
    BY <1>6, <1>7

(* flush_pending sends as many pending ASDUs as the window has room for;   *)
(* what then stays pending has found it full.                              *)
LEMMA FlushPendingCore ==
  ASSUME NEW n \in Nat, NEW c, Core(c, n), NEW d, d = FlushPending(c)
  PROVE  /\ Core(d, n)
         /\ d.pending # << >> => Len(d.sent) = K
         /\ d.state = c.state
         /\ d.role = c.role
         /\ d.unacked_recv <= c.unacked_recv
  <1> DEFINE f == Flushable(c)
             l == Len(c.pending)
             rest == SubSeq(c.pending, f + 1, l)
             now == SubSeq(c.pending, 1, f)
             b == [c EXCEPT !.pending = rest]
  <1>1. /\ c \in Connection
        /\ c.pending \in Seq(Asdu) /\ l \in Nat
        /\ Len(c.sent) \in Nat
        /\ K \in Nat /\ K > 0
        /\ l <= n
        /\ Len(c.sent) <= K
    BY LenProperties, WindowAssumption, ModulusAssumption
       DEF Core, Connection, Numbered, WindowOf, MAX
  <1>2. /\ f \in Nat /\ f <= l /\ Len(c.sent) + f <= K
        /\ f # l => Len(c.sent) + f = K
    <2> DEFINE a == Len(c.sent)
    <2>1. f = IF K - a <= 0 THEN 0 ELSE IF l <= K - a THEN l ELSE K - a
      BY DEF Flushable
    <2> HIDE DEF f, l, a
    <2>2. a \in Nat /\ a <= K
      BY <1>1 DEF a
    <2>3. /\ f \in Nat /\ f <= l /\ a + f <= K
          /\ f # l => a + f = K
      BY <1>1, <2>1, <2>2
    <2>4. QED
      BY <2>3 DEF a
  <1>3. \A i \in 1 .. l : c.pending[i] \in Asdu /\ c.pending[i] = (n - l) + i
    BY <1>1, ElementOfSeq DEF Core, Numbered
  <1> HIDE DEF f, l
  <1>4. /\ rest \in Seq(Asdu) /\ Len(rest) = l - f
        /\ \A i \in 1 .. l - f : rest[i] = c.pending[f + i]
    <2>1. \A i \in f + 1 .. l : c.pending[i] \in Asdu
      BY <1>1, <1>2, <1>3
    <2>2. QED
      BY <1>1, <1>2, <2>1, SubSeqProperties
  <1>5. /\ now \in Seq(Asdu) /\ Len(now) = f
        /\ \A i \in 1 .. f : now[i] = c.pending[i]
    <2>1. \A i \in 1 .. f : c.pending[i] \in Asdu
      BY <1>1, <1>2, <1>3
    <2>2. QED
      BY <1>1, <1>2, <2>1, SubSeqProperties
  <1>6. /\ \A i \in 1 .. f : now[i] = (n - l) + i
        /\ \A i \in 1 .. l - f : rest[i] = n - (l - f) + i
    BY <1>1, <1>2, <1>3, <1>4, <1>5
  <1>7. d = SendIframes(b, now)
    BY DEF FlushPending, f, l
  <1> HIDE DEF rest, now
  <1>8. /\ b \in Connection
        /\ b.sent = c.sent /\ b.send_next = c.send_next
        /\ b.tx = c.tx /\ b.evt = c.evt /\ b.pending = rest
        /\ b.state = c.state /\ b.role = c.role
        /\ b.unacked_recv = c.unacked_recv
    BY <1>1, <1>4 DEF Connection
  <1> HIDE DEF b
  <1>9. /\ n - l \in Nat
        /\ b.send_next = SeqAdd(0, n - l)
        /\ Consecutive(b.sent, b.send_next)
        /\ InOrder(b.tx)
    BY <1>1, <1>8 DEF Core, WindowOf, Numbered, l
  <1>10. /\ d \in Connection
         /\ Consecutive(d.sent, d.send_next) /\ InOrder(d.tx)
         /\ d.send_next = SeqAdd(0, (n - l) + f)
         /\ Len(d.sent) = Len(c.sent) + f
         /\ d.evt = c.evt
         /\ d.pending = rest
         /\ d.state = c.state
         /\ d.role = c.role
         /\ d.unacked_recv <= c.unacked_recv
    <2>1. \A i \in 1 .. Len(now) : now[i] = (n - l) + i
      BY <1>5, <1>6
    <2>2. SentOn(b, d, n - l, Len(now))
      BY <1>5, <1>7, <1>8, <1>9, <2>1, SendIframesWindow, Zenon
    <2>3. QED
      BY <1>5, <1>8, <2>2, Zenon DEF SentOn
  <1>11. (n - l) + f = n - (l - f) /\ l - f <= n
    BY <1>1, <1>2
  <1>12. WindowOf(d) /\ NoCleanStop(d)
    BY <1>2, <1>10 DEF Core, WindowOf, NoCleanStop
  <1>13. Numbered(d, n)
    BY <1>4, <1>6, <1>10, <1>11 DEF Numbered
  <1>14. d.pending # << >> => Len(d.sent) = K
    <2>1. CASE f = l
      <3>1. rest = << >>
        BY <1>1, <1>4, <2>1, EmptySeq
      <3>2. QED
        BY <1>10, <3>1
    <2>2. CASE f # l
      BY <1>2, <1>10, <2>2
    <2>3. QED
      BY <2>1, <2>2
  <1>15. QED
    BY <1>10, <1>12, <1>13, <1>14 DEF Core

(* acknowledge() drops no more frames than are outstanding.                *)
LEMMA AckCountType ==
  ASSUME NEW s \in Seq(Sent), NEW nr
  PROVE  AckCount(s, nr) \in 0 .. Len(s)
  <1> DEFINE A == {n \in 1 .. Len(s) : \A i \in 1 .. n : Acknowledges(nr, s[i].seq)}
  <1>1. Len(s) \in Nat
    BY LenProperties
  <1>2. IsFiniteSet(1 .. Len(s)) /\ Cardinality(1 .. Len(s)) = Len(s)
    <2>1. 1 \in Int /\ Len(s) \in Int
      BY <1>1
    <2>2. /\ IsFiniteSet(1 .. Len(s))
          /\ Cardinality(1 .. Len(s)) = IF 1 > Len(s) THEN 0 ELSE Len(s) - 1 + 1
      BY <2>1, FS_Interval
    <2>3. QED
      BY <1>1, <2>2
  <1>3. A \in SUBSET (1 .. Len(s))
    OBVIOUS
  <1> HIDE DEF A
  <1>4. IsFiniteSet(A) /\ Cardinality(A) <= Len(s)
    BY <1>2, <1>3, FS_Subset
  <1>5. Cardinality(A) \in Nat
    BY <1>4, FS_CardinalityType
  <1>6. QED
    BY <1>1, <1>4, <1>5 DEF AckCount, A

LEMMA AcknowledgeCore ==
  ASSUME NEW n \in Nat, NEW c, Core(c, n), NEW nr, NEW d, d = Acknowledge(c, nr)
  PROVE  /\ Core(d, n)
         /\ d.pending # << >> => Len(d.sent) = K
         /\ d.state = c.state
         /\ d.role = c.role
         /\ d.unacked_recv <= c.unacked_recv
  <1> DEFINE a == AckCount(c.sent, nr)
             left == SubSeq(c.sent, a + 1, Len(c.sent))
             b == [c EXCEPT !.sent = left]
  <1>1. /\ c \in Connection /\ c.sent \in Seq(Sent) /\ Len(c.sent) \in Nat
        /\ Len(c.sent) <= K /\ K \in Nat
        /\ Consecutive(c.sent, c.send_next)
    BY LenProperties, WindowAssumption, ModulusAssumption
       DEF Core, Connection, WindowOf, MAX
  <1>2. a \in 0 .. Len(c.sent)
    BY <1>1, AckCountType
  <1> HIDE DEF a
  <1>3. left \in Seq(Sent) /\ Len(left) = Len(c.sent) - a /\ Consecutive(left, c.send_next)
    BY <1>1, <1>2, ConsecutiveSuffix
  <1>4. d = FlushPending(b)
    BY DEF Acknowledge, a
  <1> HIDE DEF left
  <1>5. /\ b \in Connection
        /\ b.sent = left /\ b.send_next = c.send_next
        /\ b.tx = c.tx /\ b.evt = c.evt /\ b.pending = c.pending
        /\ b.state = c.state /\ b.role = c.role
        /\ b.unacked_recv = c.unacked_recv
    BY <1>1, <1>3 DEF Connection
  <1> HIDE DEF b
  <1>6. Len(left) <= K
    BY <1>1, <1>2, <1>3
  <1>7. WindowOf(b) /\ Numbered(b, n) /\ InOrder(b.tx) /\ NoCleanStop(b)
    BY <1>3, <1>5, <1>6 DEF Core, WindowOf, Numbered, NoCleanStop
  <1>8. Core(b, n)
    BY <1>5, <1>7 DEF Core
  <1>9. QED
    BY <1>4, <1>5, <1>8, FlushPendingCore

-----------------------------------------------------------------------------
(* The handlers of the inputs.                                             *)

(* What a flush leaves pending is held back by a full window.              *)
LEMMA FlushedBackpressure ==
  ASSUME NEW n \in Nat, NEW c, Core(c, n), c.pending # << >> => Len(c.sent) = K
  PROVE  Backpressure(c)
  <1>1. K > 0
    BY WindowAssumption, ModulusAssumption DEF MAX
  <1>2. c.sent = << >> => Len(c.sent) = 0
    BY EmptySeq
  <1>3. QED
    BY <1>1, <1>2 DEF Backpressure

(* Outside data transfer, the queue may hold anything.                     *)
LEMMA IdleBackpressure ==
  ASSUME NEW c, c.state \in {"Stopped", "Starting", "Closed"}
  PROVE  Backpressure(c)
  BY DEF Backpressure

LEMMA SameBackpressure ==
  ASSUME NEW c, NEW d, Backpressure(c), SameWindows(c, d), d.state = c.state
  PROVE  Backpressure(d)
  BY DEF Backpressure, SameWindows

LEMMA UFrameType ==
  ASSUME NEW f \in UFunction
  PROVE  UFrame(f) \in Apdu /\ UFrame(f).fmt # "I"
  BY DEF UFrame, Apdu

LEMMA OnUserStartDtMid ==
  ASSUME NEW n \in Nat, NEW c, Mid(c, n)
  PROVE  Mid(OnUserStartDt(c), n)
  <1> DEFINE a == UFrame("StartDtAct")
             e == Emit(c, a)
             d == Transition(e, "Starting")
  <1>1. a \in Apdu /\ a.fmt # "I"
    BY UFrameType DEF UFunction
  <1>2. Core(e, n) /\ e.unacked_recv = c.unacked_recv
    BY <1>1, EmitCore DEF Mid
  <1> HIDE DEF e
  <1>3. Core(d, n) /\ d.state = "Starting" /\ d.unacked_recv = c.unacked_recv
    BY <1>2, TransitionCore DEF State
  <1>4. Mid(d, n)
    BY <1>3, IdleBackpressure DEF Mid
  <1>5. QED
    BY <1>4 DEF OnUserStartDt, e

LEMMA OnUserStopDtMid ==
  ASSUME NEW n \in Nat, NEW c, Mid(c, n)
  PROVE  Mid(OnUserStopDt(c), n)
  <1>1. CASE c.state # "Active"
    BY <1>1 DEF OnUserStopDt
  <1>2. CASE c.state = "Active" /\ c.role = "Client"
    <2> DEFINE a == UFrame("StopDtAct")
               e == Emit(c, a)
               d == Transition(e, "Stopping")
    <2>1. a \in Apdu /\ a.fmt # "I"
      BY UFrameType DEF UFunction
    <2>2. Core(e, n) /\ SameWindows(c, e) /\ e.unacked_recv = c.unacked_recv
      BY <2>1, EmitCore DEF Mid
    <2> HIDE DEF e
    <2>3. /\ Core(d, n) /\ SameWindows(e, d) /\ d.state = "Stopping"
          /\ d.unacked_recv = c.unacked_recv
      BY <2>2, TransitionCore DEF State
    <2> HIDE DEF d
    <2>4. c.sent = << >> => c.pending = << >>
      <3>1. K > 0
        BY WindowAssumption, ModulusAssumption DEF MAX
      <3>2. c.sent = << >> => Len(c.sent) = 0
        BY EmptySeq
      <3>3. QED
        BY <1>2, <3>1, <3>2 DEF Mid, Backpressure
    <2>5. Backpressure(d)
      BY <2>2, <2>3, <2>4 DEF Backpressure, SameWindows
    <2>6. Mid(d, n)
      BY <2>3, <2>5 DEF Mid
    <2>7. QED
      BY <1>2, <2>6 DEF OnUserStopDt, e, d
  <1>3. CASE c.state = "Active" /\ c.role = "Server"
    <2> DEFINE d == Transition(c, "Stopped")
    <2>1. Core(d, n) /\ d.state = "Stopped" /\ d.unacked_recv = c.unacked_recv
      BY TransitionCore DEF State, Mid
    <2>2. Mid(d, n)
      BY <2>1, IdleBackpressure DEF Mid
    <2>3. QED
      BY <1>3, <2>2 DEF OnUserStopDt
  <1>4. c.role \in Role
    BY DEF Mid, Core, Connection
  <1>5. QED
    BY <1>1, <1>2, <1>3, <1>4 DEF Role

(* The place of an ASDU appended behind l queued ones.                     *)
LEMMA QueueEnd == \A n, l \in Nat : n - l + (l + 1) = n + 1
  OBVIOUS

(* on_user_send bypasses the queue only when it is empty; an ASDU that is  *)
(* queued while stopping waits for an outstanding frame.                   *)
LEMMA OnUserSendMid ==
  ASSUME NEW n \in Nat, NEW c, Mid(c, n), c.state = "Stopping" => c.sent # << >>
  PROVE  Mid(OnUserSend(c, n + 1), n + 1)
  <1> DEFINE l == Len(c.pending)
             a == n + 1
             d == OnUserSend(c, a)
  <1>1. /\ c \in Connection
        /\ c.pending \in Seq(Asdu) /\ l \in Nat
        /\ c.sent \in Seq(Sent) /\ Len(c.sent) \in Nat
        /\ K \in Nat /\ K > 0
        /\ l <= n
        /\ Len(c.sent) <= K
        /\ c.unacked_recv \in Nat /\ c.unacked_recv < W
        /\ W \in Nat
    BY LenProperties, WindowAssumption, ModulusAssumption
       DEF Mid, Core, Connection, Numbered, WindowOf, MAX
  <1>2. a \in Asdu /\ a \in Nat
    BY DEF Asdu
  <1>3. CASE c.state # "Active" \/ Len(c.sent) >= K
    <2> DEFINE q == Append(c.pending, a)
    <2>1. /\ q \in Seq(Asdu) /\ Len(q) = l + 1
          /\ \A i \in 1 .. l : q[i] = c.pending[i]
          /\ q[l + 1] = a
      BY <1>1, <1>2, AppendProperties
    <2>2. d = [c EXCEPT !.pending = q]
      BY <1>3 DEF OnUserSend
    <2> HIDE DEF q, d
    <2>3. /\ d \in Connection
          /\ d.sent = c.sent /\ d.send_next = c.send_next
          /\ d.tx = c.tx /\ d.evt = c.evt /\ d.pending = q
          /\ d.state = c.state /\ d.role = c.role
          /\ d.unacked_recv = c.unacked_recv
      BY <1>1, <2>1, <2>2 DEF Connection
    <2>4. Numbered(d, a)
      <3>1. l + 1 <= a /\ a - (l + 1) = n - l
        BY <1>1
      <3>2. \A i \in 1 .. l : c.pending[i] = n - l + i
        BY DEF Mid, Core, Numbered
      <3>3. \A i \in 1 .. l + 1 : q[i] = n - l + i
        <4>1. SUFFICES ASSUME NEW i \in 1 .. l + 1
                       PROVE  q[i] = n - l + i
          OBVIOUS
        <4>2. CASE i = l + 1
          <5>1. n - l + (l + 1) = a
            BY <1>1, QueueEnd, Zenon
          <5>2. QED
            BY <2>1, <4>2, <5>1, Zenon
        <4>3. CASE i \in 1 .. l
          BY <2>1, <3>2, <4>3, Zenon
        <4>4. i \in 1 .. l \/ i = l + 1
          BY <1>1
        <4>5. QED
          BY <4>2, <4>3, <4>4, Zenon
      <3>4. d.send_next = SeqAdd(0, n - l)
        BY <2>3 DEF Mid, Core, Numbered
      <3> HIDE DEF l, a
      <3>5. QED
        BY <2>1, <2>3, <3>1, <3>3, <3>4 DEF Numbered
    <2>5. WindowOf(d) /\ InOrder(d.tx) /\ NoCleanStop(d)
      BY <2>3 DEF Mid, Core, WindowOf, NoCleanStop
    <2>6. Backpressure(d)
      BY <1>1, <1>3, <2>3 DEF Backpressure
    <2>7. QED
      BY <1>1, <2>3, <2>4, <2>5, <2>6 DEF Mid, Core, d
  <1>4. CASE c.state = "Active" /\ Len(c.sent) < K
    <2>1. c.pending = << >> /\ l = 0
      BY <1>1, <1>4, EmptySeq DEF Mid, Backpressure
    <2> DEFINE one == <<a>>
    <2>2. d = SendIframes(c, one)
      BY <1>1, <1>4 DEF OnUserSend
    <2>3. /\ one \in Seq(Asdu) /\ Len(one) = 1
          /\ \A i \in 1 .. Len(one) : one[i] = n + i
      BY <1>2
    <2>4. /\ Consecutive(c.sent, c.send_next) /\ InOrder(c.tx)
          /\ c.send_next = SeqAdd(0, n)
      BY <2>1 DEF Mid, Core, WindowOf, Numbered
    <2> HIDE DEF d, a, one
    <2>5. SentOn(c, d, n, 1)
      <3>1. SentOn(c, d, n, Len(one))
        BY <1>1, <2>2, <2>3, <2>4, SendIframesWindow, Zenon
      <3>2. QED
        BY <2>3, <3>1
    <2>6. WindowOf(d) /\ NoCleanStop(d)
      BY <1>1, <1>4, <2>5 DEF WindowOf, NoCleanStop, Mid, Core, SentOn
    <2>7. Numbered(d, n + 1)
      <3>1. d.pending = << >> /\ Len(d.pending) = 0
        BY <2>1, <2>5, EmptySeq DEF SentOn
      <3>2. d.send_next = SeqAdd(0, n + 1)
        BY <2>5 DEF SentOn
      <3>3. (n + 1) - 0 = n + 1
        OBVIOUS
      <3>4. QED
        BY <3>1, <3>2, <3>3 DEF Numbered
    <2>8. Backpressure(d)
      BY <2>1, <2>5 DEF Backpressure, SentOn
    <2>9. d.unacked_recv < W
      BY <1>1, <2>5 DEF Connection, SentOn
    <2>10. QED
      BY <2>5, <2>6, <2>7, <2>8, <2>9 DEF Mid, Core, SentOn, d, a
  <1>5. QED
    BY <1>1, <1>3, <1>4

LEMMA OnUFrameMid ==
  ASSUME NEW n \in Nat, NEW c, Mid(c, n), c.state = "Stopping" => c.sent # << >>,
         NEW f \in UFunction
  PROVE  Mid(OnUFrame(c, f), n)
  <1>1. CASE f = "StartDtCon" /\ c.role = "Client" /\ c.state = "Starting"
    <2> DEFINE t == Transition(c, "Active")
               d == FlushPending(t)
    <2>1. Core(t, n) /\ t.unacked_recv = c.unacked_recv
      BY TransitionCore DEF State, Mid
    <2> HIDE DEF t
    <2>2. Core(d, n) /\ Backpressure(d) /\ d.unacked_recv <= t.unacked_recv
      BY <2>1, FlushPendingCore, FlushedBackpressure
    <2>3. d.unacked_recv < W
      BY <2>1, <2>2, WindowAssumption, SMTT(30) DEF Mid, Core, Connection
    <2>4. QED
      BY <1>1, <2>2, <2>3 DEF Mid, OnUFrame, t
  <1>2. CASE f = "StartDtAct" /\ c.role = "Server" /\ c.state = "Stopped"
    <2> DEFINE e == Emit(c, UFrame("StartDtCon"))
               t == Transition(e, "Active")
               d == FlushPending(t)
    <2>1. Core(e, n) /\ e.unacked_recv = c.unacked_recv
      BY EmitCore, UFrameType DEF UFunction, Mid
    <2> HIDE DEF e
    <2>2. Core(t, n) /\ t.unacked_recv = c.unacked_recv
      BY <2>1, TransitionCore DEF State
    <2> HIDE DEF t
    <2>3. Core(d, n) /\ Backpressure(d) /\ d.unacked_recv <= t.unacked_recv
      BY <2>2, FlushPendingCore, FlushedBackpressure
    <2>4. d.unacked_recv < W
      BY <2>2, <2>3, WindowAssumption, SMTT(30) DEF Mid, Core, Connection
    <2>5. QED
      BY <1>2, <2>3, <2>4 DEF Mid, OnUFrame, t, e
  <1>3. CASE f = "StopDtAct" /\ c.role = "Server"
    <2> DEFINE e == Emit(c, UFrame("StopDtCon"))
               d == Transition(e, "Stopped")
    <2>1. Core(e, n) /\ e.unacked_recv = c.unacked_recv
      BY EmitCore, UFrameType DEF UFunction, Mid
    <2> HIDE DEF e
    <2>2. Core(d, n) /\ d.state = "Stopped" /\ d.unacked_recv = c.unacked_recv
      BY <2>1, TransitionCore DEF State
    <2>3. Mid(d, n)
      BY <2>2, IdleBackpressure DEF Mid
    <2>4. QED
      BY <1>3, <2>3 DEF OnUFrame, e
  <1>4. CASE f = "StopDtCon" /\ c.role = "Client" /\ c.state = "Stopping"
    BY <1>4 DEF OnUFrame
  <1>5. CASE f = "TestFrAct"
    <2> DEFINE d == Emit(c, UFrame("TestFrCon"))
    <2>1. /\ Core(d, n) /\ SameWindows(c, d) /\ d.state = c.state
          /\ d.unacked_recv = c.unacked_recv
      BY EmitCore, UFrameType DEF UFunction, Mid
    <2>2. Mid(d, n)
      BY <2>1, SameBackpressure DEF Mid
    <2>3. QED
      BY <1>5, <2>2 DEF OnUFrame
  <1>6. CASE f = "TestFrCon"
    <2> DEFINE d == [c EXCEPT !.test_sent = None]
    <2>1. /\ d \in Connection
          /\ d.tx = c.tx /\ d.evt = c.evt
          /\ SameWindows(c, d) /\ d.state = c.state
          /\ d.unacked_recv = c.unacked_recv
      BY DEF Mid, Core, Connection, SameWindows, OptAge
    <2> HIDE DEF d
    <2>2. WindowOf(d) /\ Numbered(d, n) /\ InOrder(d.tx) /\ NoCleanStop(d)
      BY <2>1 DEF Mid, Core, WindowOf, Numbered, NoCleanStop, SameWindows
    <2>3. Mid(d, n)
      BY <2>1, <2>2, SameBackpressure DEF Mid, Core
    <2>4. QED
      BY <1>6, <2>3 DEF OnUFrame, d
  <1>7. CASE ~ \/ f = "StartDtCon" /\ c.role = "Client" /\ c.state = "Starting"
               \/ f = "StartDtAct" /\ c.role = "Server" /\ c.state = "Stopped"
               \/ f = "StopDtAct" /\ c.role = "Server"
               \/ f = "StopDtCon" /\ c.role = "Client" /\ c.state = "Stopping"
               \/ f = "TestFrAct"
               \/ f = "TestFrCon"
    <2> DEFINE d == Fail(c, "ProtocolError")
    <2>1. Core(d, n) /\ d.state = "Closed" /\ d.unacked_recv = c.unacked_recv
      BY FailCore DEF Mid, Reason
    <2>2. Mid(d, n)
      BY <2>1, IdleBackpressure DEF Mid
    <2>3. QED
      BY <1>7, <2>2 DEF OnUFrame
  <1>8. QED
    BY <1>1, <1>2, <1>3, <1>4, <1>5, <1>6, <1>7

(* The acknowledged frame is counted, and the w-th one is answered.        *)
LEMMA OnIFrameMid ==
  ASSUME NEW n \in Nat, NEW c, Mid(c, n), NEW a \in Apdu, a.fmt = "I"
  PROVE  Mid(OnIFrame(c, a), n)
  <1> DEFINE received == [c EXCEPT !.recv_next = SeqNext(c.recv_next),
                                   !.unacked_recv = c.unacked_recv + 1,
                                   !.last_recv_iframe = 0]
             acked == Acknowledge(received, a.recv)
             v == [kind |-> "Asdu", asdu |-> a.asdu]
             delivered == [acked EXCEPT !.evt = Append(acked.evt, v)]
  <1>1. /\ c \in Connection /\ c.recv_next \in Nat
        /\ c.unacked_recv \in Nat /\ c.unacked_recv < W /\ W \in Nat /\ W > 0
        /\ 0 \in OptAge
    BY WindowAssumption, TimerAssumption
       DEF Mid, Core, Connection, SeqNos, OptAge, Age, MaxAge
  <1>2. CASE ~InDataTransfer(c) \/ a.send # c.recv_next
    <2> DEFINE d == Fail(c, "ProtocolError")
    <2>1. Core(d, n) /\ d.state = "Closed" /\ d.unacked_recv = c.unacked_recv
      BY FailCore DEF Mid, Reason
    <2>2. Mid(d, n)
      BY <2>1, IdleBackpressure DEF Mid
    <2>3. QED
      BY <1>2, <2>2 DEF OnIFrame
  <1>3. CASE InDataTransfer(c) /\ a.send = c.recv_next
    <2>1. SeqNext(c.recv_next) \in SeqNos
      BY <1>1, SeqAddType DEF SeqNext
    <2>2. /\ received \in Connection
          /\ SameWindows(c, received)
          /\ received.tx = c.tx /\ received.evt = c.evt
          /\ received.state = c.state
          /\ received.unacked_recv = c.unacked_recv + 1
      <3>1. PICK r \in SeqNos, u \in Nat :
              r = SeqNext(c.recv_next) /\ u = c.unacked_recv + 1
        BY <1>1, <2>1
      <3>2. received = [c EXCEPT !.recv_next = r, !.unacked_recv = u,
                                 !.last_recv_iframe = 0]
        BY <3>1
      <3> HIDE DEF received
      <3>3. /\ received \in Connection
            /\ SameWindows(c, received)
            /\ received.tx = c.tx /\ received.evt = c.evt
            /\ received.state = c.state
            /\ received.unacked_recv = u
        BY <1>1, <3>2 DEF Connection, SameWindows
      <3>4. QED
        BY <3>1, <3>3
    <2> HIDE DEF received
    <2>3. Core(received, n)
      BY <2>2 DEF Mid, Core, WindowOf, Numbered, NoCleanStop, SameWindows
    <2>4. /\ Core(acked, n)
          /\ acked.pending # << >> => Len(acked.sent) = K
          /\ acked.unacked_recv <= received.unacked_recv
      BY <2>3, AcknowledgeCore
    <2> HIDE DEF acked
    <2>5. v \in Event /\ v # CleanStop
      BY DEF Event, CleanStop, Apdu
    <2> HIDE DEF v
    <2>6. acked.evt \in Seq(Event)
      BY <2>4 DEF Core, Connection
    <2>7. /\ Append(acked.evt, v) \in Seq(Event)
          /\ Len(Append(acked.evt, v)) = Len(acked.evt) + 1
          /\ \A i \in 1 .. Len(acked.evt) : Append(acked.evt, v)[i] = acked.evt[i]
          /\ Append(acked.evt, v)[Len(acked.evt) + 1] = v
      BY <2>5, <2>6, AppendProperties
    <2>8. /\ delivered \in Connection
          /\ SameWindows(acked, delivered)
          /\ delivered.tx = acked.tx
          /\ delivered.evt = Append(acked.evt, v)
          /\ delivered.state = acked.state
          /\ delivered.unacked_recv = acked.unacked_recv
      BY <2>4, <2>7 DEF Core, Connection, SameWindows
    <2> HIDE DEF delivered
    <2>9. NoCleanStop(delivered)
      BY <2>4, <2>5, <2>6, <2>7, <2>8 DEF Core, NoCleanStop
    <2>10. Core(delivered, n)
      BY <2>4, <2>8, <2>9 DEF Core, WindowOf, Numbered, SameWindows
    <2>11. Backpressure(delivered)
      <3>1. Backpressure(acked)
        BY <2>4, FlushedBackpressure
      <3>2. QED
        BY <2>8, <3>1, SameBackpressure
    <2>12. OnIFrame(c, a) = IF delivered.unacked_recv >= W
                            THEN EmitSupervisory(delivered) ELSE delivered
      BY <1>3 DEF OnIFrame, AckWindow, received, acked, v, delivered
    <2>13. CASE delivered.unacked_recv >= W
      <3> DEFINE d == EmitSupervisory(delivered)
      <3>1. /\ Core(d, n) /\ SameWindows(delivered, d)
            /\ d.state = delivered.state /\ d.unacked_recv = 0
        BY <2>10, EmitSupervisoryCore
      <3>2. Mid(d, n)
        BY <1>1, <2>11, <3>1, SameBackpressure DEF Mid
      <3>3. QED
        BY <2>12, <2>13, <3>2
    <2>14. CASE ~(delivered.unacked_recv >= W)
      <3>1. delivered.unacked_recv \in Nat
        BY <2>8 DEF Connection
      <3>2. delivered.unacked_recv < W
        BY <1>1, <2>14, <3>1
      <3>3. QED
        BY <2>10, <2>11, <2>12, <2>14, <3>2 DEF Mid
    <2>15. QED
      BY <2>13, <2>14
  <1>4. QED
    BY <1>2, <1>3

LEMMA OnApduMid ==
  ASSUME NEW n \in Nat, NEW c, Mid(c, n), c.state = "Stopping" => c.sent # << >>,
         NEW a \in Apdu
  PROVE  Mid(OnApdu(c, a), n)
  <1> DEFINE b == [c EXCEPT !.last_io = 0]
  <1>1. 0 \in OptAge
    BY TimerAssumption DEF OptAge, Age, MaxAge
  <1>2. /\ b \in Connection
        /\ SameWindows(c, b)
        /\ b.tx = c.tx /\ b.evt = c.evt
        /\ b.state = c.state
        /\ b.unacked_recv = c.unacked_recv
    BY <1>1 DEF Mid, Core, Connection, SameWindows
  <1> HIDE DEF b
  <1>3. Core(b, n)
    BY <1>2 DEF Mid, Core, WindowOf, Numbered, NoCleanStop, SameWindows
  <1>4. Mid(b, n) /\ (b.state = "Stopping" => b.sent # << >>)
    BY <1>2, <1>3, SameBackpressure DEF Mid, SameWindows
  <1>5. CASE a.fmt = "U"
    <2>1. a.function \in UFunction
      BY <1>5 DEF Apdu
    <2>2. Mid(OnUFrame(b, a.function), n)
      BY <1>4, <2>1, OnUFrameMid
    <2>3. QED
      BY <1>5, <2>2 DEF OnApdu, b
  <1>6. CASE a.fmt = "S"
    <2> DEFINE d == Acknowledge(b, a.recv)
    <2>1. Core(d, n) /\ Backpressure(d) /\ d.unacked_recv <= b.unacked_recv
      BY <1>3, AcknowledgeCore, FlushedBackpressure
    <2>2. d.unacked_recv < W
      BY <1>4, <2>1, WindowAssumption, SMTT(30) DEF Mid, Core, Connection
    <2>3. Mid(d, n)
      BY <2>1, <2>2 DEF Mid
    <2>4. OnApdu(c, a) = IF InDataTransfer(b) THEN d ELSE b
      BY <1>6 DEF OnApdu, b
    <2>5. QED
      BY <1>4, <2>3, <2>4
  <1>7. CASE a.fmt = "I"
    <2>1. Mid(OnIFrame(b, a), n)
      BY <1>4, <1>7, OnIFrameMid
    <2>2. QED
      BY <1>7, <2>1 DEF OnApdu, b
  <1>8. a.fmt \in {"I", "S", "U"}
    BY DEF Apdu
  <1>9. QED
    BY <1>5, <1>6, <1>7, <1>8

-----------------------------------------------------------------------------
(* The timers and handle().                                                *)

LEMMA AckReceivedMid ==
  ASSUME NEW n \in Nat, NEW c, Mid(c, n)
  PROVE  Mid(AckReceived(c), n)
  <1> DEFINE d == EmitSupervisory(c)
  <1>1. Core(d, n) /\ SameWindows(c, d) /\ d.state = c.state /\ d.unacked_recv = 0
    BY EmitSupervisoryCore DEF Mid
  <1>2. 0 < W
    BY WindowAssumption
  <1>3. Mid(d, n)
    BY <1>1, <1>2, SameBackpressure DEF Mid
  <1>4. QED
    BY <1>3 DEF AckReceived

LEMMA IdleTestMid ==
  ASSUME NEW n \in Nat, NEW c, Mid(c, n)
  PROVE  Mid(IdleTest(c), n)
  <1> DEFINE e == Emit(c, UFrame("TestFrAct"))
             d == [e EXCEPT !.test_sent = 0]
  <1>1. /\ Core(e, n) /\ SameWindows(c, e) /\ e.state = c.state
        /\ e.unacked_recv = c.unacked_recv
    BY EmitCore, UFrameType DEF UFunction, Mid
  <1>2. 0 \in OptAge
    BY TimerAssumption DEF OptAge, Age, MaxAge
  <1> HIDE DEF e
  <1>3. /\ d \in Connection
        /\ SameWindows(e, d)
        /\ d.tx = e.tx /\ d.evt = e.evt
        /\ d.state = e.state
        /\ d.unacked_recv = e.unacked_recv
    BY <1>1, <1>2 DEF Core, Connection, SameWindows
  <1> HIDE DEF d
  <1>4. Core(d, n)
    BY <1>1, <1>3 DEF Core, WindowOf, Numbered, NoCleanStop, SameWindows
  <1>5. Backpressure(d)
    BY <1>1, <1>3 DEF Mid, Backpressure, SameWindows
  <1>6. Mid(d, n)
    BY <1>1, <1>3, <1>4, <1>5 DEF Mid
  <1>7. QED
    BY <1>6 DEF IdleTest, d, e

(* Until the stop is finished, no clean stop has been reported.            *)
LEMMA MidSettled ==
  ASSUME NEW n \in Nat, NEW c, Mid(c, n), c.state = "Stopping" => c.sent # << >>
  PROVE  Settled(c, n)
  BY DEF Mid, Core, Settled, NoCleanStop, StopsDrained

(* FinishStop reports the clean stop exactly when nothing is left; the     *)
(* backpressure property is what keeps it from waiting for ever with an    *)
(* empty window and ASDUs still pending.                                   *)
LEMMA FinishStopSettled ==
  ASSUME NEW n \in Nat, NEW c, Mid(c, n)
  PROVE  Settled(FinishStop(c), n)
  <1>1. CASE c.state = "Stopping" /\ c.sent = << >> /\ c.pending = << >>
    <2> DEFINE t == Transition(c, "Stopped")
               d == Disconnect(t, "StoppedCleanly")
               v == [kind |-> "Closed", reason |-> "StoppedCleanly"]
    <2>1. /\ Core(t, n) /\ SameWindows(c, t) /\ t.state = "Stopped"
          /\ t.unacked_recv = c.unacked_recv
      BY TransitionCore DEF Mid, State
    <2> HIDE DEF t
    <2>2. v \in Event
      BY DEF Event, Reason
    <2>3. t.evt \in Seq(Event) /\ t \in Connection
      BY <2>1 DEF Core, Connection
    <2>4. Append(t.evt, v) \in Seq(Event)
      BY <2>2, <2>3, AppendProperties
    <2>5. /\ d \in Connection
          /\ SameWindows(t, d)
          /\ d.tx = t.tx
          /\ d.state = t.state
          /\ d.unacked_recv = t.unacked_recv
      BY <2>3, <2>4 DEF Disconnect, Connection, SameWindows
    <2>6. FinishStop(c) = d
      BY <1>1 DEF FinishStop, StopCleanly, t
    <2> HIDE DEF d
    <2>7. WindowOf(d) /\ Numbered(d, n) /\ InOrder(d.tx)
      BY <2>1, <2>5 DEF Core, WindowOf, Numbered, SameWindows
    <2>8. Backpressure(d) /\ d.state # "Stopping"
      BY <2>1, <2>5 DEF Backpressure
    <2>9. StopsDrained(d) /\ d.unacked_recv < W
      BY <1>1, <2>1, <2>5 DEF StopsDrained, SameWindows, Mid
    <2>10. QED
      BY <2>5, <2>6, <2>7, <2>8, <2>9 DEF Settled
  <1>2. CASE ~(c.state = "Stopping" /\ c.sent = << >> /\ c.pending = << >>)
    <2>1. c.state = "Stopping" => c.sent # << >>
      BY <1>2 DEF Mid, Backpressure
    <2>2. QED
      BY <1>2, <2>1, MidSettled DEF FinishStop
  <1>3. QED
    BY <1>1, <1>2

LEMMA RunTimersSettled ==
  ASSUME NEW n \in Nat, NEW c, Mid(c, n)
  PROVE  Settled(RunTimers(c), n)
  <1>1. CASE AckOverdue(c)
    <2> DEFINE d == Fail(c, "AckTimeout")
    <2>1. Core(d, n) /\ d.state = "Closed" /\ d.unacked_recv = c.unacked_recv
      BY FailCore DEF Mid, Reason
    <2>2. Mid(d, n)
      BY <2>1, IdleBackpressure DEF Mid
    <2>3. Settled(d, n)
      BY <2>1, <2>2, MidSettled
    <2>4. QED
      BY <1>1, <2>3 DEF RunTimers
  <1>2. CASE ~AckOverdue(c)
    <2>1. Mid(AckReceived(c), n)
      BY AckReceivedMid
    <2>2. Mid(IdleTest(AckReceived(c)), n)
      BY <2>1, IdleTestMid
    <2>3. Settled(FinishStop(IdleTest(AckReceived(c))), n)
      BY <2>2, FinishStopSettled
    <2>4. QED
      BY <1>2, <2>3 DEF RunTimers
  <1>3. QED
    BY <1>1, <1>2

LEMMA DrainedMid ==
  ASSUME NEW n \in Nat, NEW c, Settled(c, n)
  PROVE  Mid(Drained(c), n) /\ (Drained(c).state = "Stopping" => Drained(c).sent # << >>)
  <1> DEFINE d == Drained(c)
  <1>1. << >> \in Seq(Apdu) /\ << >> \in Seq(Event) /\ Len(<< >>) = 0
    BY EmptySeq
  <1>2. /\ d \in Connection
        /\ SameWindows(c, d)
        /\ d.tx = << >> /\ d.evt = << >>
        /\ d.state = c.state
        /\ d.unacked_recv = c.unacked_recv
    BY <1>1 DEF Drained, Settled, Connection, SameWindows
  <1> HIDE DEF d
  <1>3. InOrder(d.tx) /\ NoCleanStop(d)
    BY <1>1, <1>2 DEF InOrder, NoCleanStop
  <1>4. WindowOf(d) /\ Numbered(d, n) /\ Backpressure(d)
    BY <1>2 DEF Settled, WindowOf, Numbered, Backpressure, SameWindows
  <1>5. QED
    BY <1>2, <1>3, <1>4 DEF Mid, Core, Settled, SameWindows, d

(* Time only makes the outstanding frames older.                           *)
LEMMA ElapseSettled ==
  ASSUME NEW n \in Nat, NEW c, Mid(c, n), c.state = "Stopping" => c.sent # << >>
  PROVE  Settled(Elapse(c), n)
  <1> DEFINE aged == [i \in DOMAIN c.sent |-> OlderSent(c.sent[i])]
             d == Elapse(c)
  <1>1. /\ c \in Connection /\ c.sent \in Seq(Sent) /\ Len(c.sent) \in Nat
        /\ DOMAIN c.sent = 1 .. Len(c.sent)
    BY LenProperties DEF Mid, Core, Connection
  <1>2. /\ \A a \in Age : Older(a) \in Age
        /\ \A a \in OptAge : Older(a) \in OptAge
    BY TimerAssumption DEF Older, OptAge, Age, MaxAge, None
  <1>3. \A i \in 1 .. Len(c.sent) :
          OlderSent(c.sent[i]) \in Sent /\ OlderSent(c.sent[i]).seq = c.sent[i].seq
    <2>1. SUFFICES ASSUME NEW s \in Sent
                   PROVE  OlderSent(s) \in Sent /\ OlderSent(s).seq = s.seq
      BY <1>1, ElementOfSeq
    <2>2. QED
      BY <1>2 DEF Sent, OlderSent
  <1>4. /\ aged \in Seq(Sent) /\ Len(aged) = Len(c.sent)
        /\ \A i \in 1 .. Len(c.sent) : aged[i].seq = c.sent[i].seq
    BY <1>1, <1>3
  <1>5. /\ Older(c.last_recv_iframe) \in OptAge
        /\ Older(c.last_io) \in OptAge
        /\ Older(c.test_sent) \in OptAge
    BY <1>1, <1>2 DEF Connection
  <1>6. d = [c EXCEPT !.sent = aged,
                      !.last_recv_iframe = Older(c.last_recv_iframe),
                      !.last_io = Older(c.last_io),
                      !.test_sent = Older(c.test_sent)]
    BY DEF Elapse
  <1> HIDE DEF aged, d
  <1>7. /\ d \in Connection
        /\ d.sent = aged /\ d.send_next = c.send_next
        /\ d.tx = c.tx /\ d.evt = c.evt /\ d.pending = c.pending
        /\ d.state = c.state /\ d.unacked_recv = c.unacked_recv
    BY <1>1, <1>4, <1>5, <1>6 DEF Connection
  <1>8. WindowOf(d)
    <2>1. Consecutive(c.sent, c.send_next) /\ Len(c.sent) <= K
      BY DEF Mid, Core, WindowOf
    <2>2. Consecutive(aged, c.send_next)
      BY <1>1, <1>4, <2>1 DEF Consecutive
    <2>3. QED
      BY <1>4, <1>7, <2>1, <2>2 DEF WindowOf
  <1>9. Numbered(d, n) /\ NoCleanStop(d)
    BY <1>7 DEF Mid, Core, Numbered, NoCleanStop
  <1>10. aged = << >> <=> c.sent = << >>
    BY <1>1, <1>4, EmptySeq
  <1>11. Backpressure(d)
    BY <1>4, <1>7, <1>10 DEF Mid, Backpressure
  <1>12. Mid(d, n)
    BY <1>7, <1>8, <1>9, <1>11 DEF Mid, Core
  <1>13. QED
    BY <1>7, <1>10, <1>12, MidSettled DEF d
=============================================================================
