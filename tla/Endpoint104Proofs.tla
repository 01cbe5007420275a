------------------------- MODULE Endpoint104Proofs -------------------------
(***************************************************************************)
(* The invariants of Endpoint104, for every modulus, window and timer      *)
(* setting, and whatever the peer sends.                                   *)
(***************************************************************************)
EXTENDS Endpoint104, Connection104Proofs

(* Settled, the state in which handle() leaves the machine, is inductive.  *)
IInv ==
  /\ running \in BOOLEAN
  /\ submitted \in Nat
  /\ Settled(conn, submitted)

LEMMA InitIInv == Init => IInv
  <1>1. SUFFICES ASSUME Init
                 PROVE  IInv
    OBVIOUS
  <1>2. PICK role \in Role : conn = New(role)
    BY <1>1 DEF Init
  <1>3. /\ << >> \in Seq(Sent) /\ << >> \in Seq(Asdu)
        /\ << >> \in Seq(Apdu) /\ << >> \in Seq(Event)
        /\ Len(<< >>) = 0
    BY EmptySeq
  <1>4. 0 \in SeqNos /\ None \in OptAge
    BY ModulusAssumption DEF SeqNos, MAX, OptAge
  <1>5. conn \in Connection
    BY <1>2, <1>3, <1>4 DEF New, Connection, State
  <1>6. /\ conn.state = "Stopped" /\ conn.send_next = 0 /\ conn.unacked_recv = 0
        /\ conn.sent = << >> /\ conn.pending = << >>
        /\ conn.tx = << >> /\ conn.evt = << >>
    BY <1>2 DEF New
  <1>7. WindowOf(conn)
    BY <1>3, <1>6, WindowAssumption, ModulusAssumption DEF WindowOf, Consecutive, MAX
  <1>8. Numbered(conn, 0)
    <2>1. SeqAdd(0, 0) = 0
      BY <1>4, SeqAddZero
    <2>2. QED
      BY <1>3, <1>6, <2>1 DEF Numbered
  <1>9. InOrder(conn.tx) /\ StopsDrained(conn) /\ Backpressure(conn)
    BY <1>3, <1>6 DEF InOrder, StopsDrained, Backpressure
  <1>10. conn.unacked_recv < W
    BY <1>6, WindowAssumption
  <1>11. Settled(conn, 0)
    BY <1>5, <1>6, <1>7, <1>8, <1>9, <1>10 DEF Settled
  <1>12. QED
    BY <1>1, <1>11 DEF Init, IInv

LEMMA PeerApduType == PeerApdu \subseteq Apdu
  BY DEF PeerApdu, IFrame, SFrame, UFrame, Apdu, Asdu

(* One step per arm of the driver's select!.                               *)
LEMMA NextIInv == IInv /\ [Next]_vars => IInv'
  <1>1. SUFFICES ASSUME IInv, [Next]_vars
                 PROVE  IInv'
    OBVIOUS
  <1> DEFINE n == submitted
             c == Drained(conn)
  <1>2. n \in Nat /\ Mid(c, n) /\ (c.state = "Stopping" => c.sent # << >>)
    BY <1>1, DrainedMid DEF IInv
  <1> HIDE DEF c
  <1>3. ASSUME NEW d, Apply(d), n' \in Nat, Settled(d, n')
        PROVE  IInv'
    BY <1>3 DEF Apply, IInv
  <1>4. CASE UserStartDt
    <2>1. Settled(HandleStartDt(conn), n)
      BY <1>2, OnUserStartDtMid, RunTimersSettled DEF HandleStartDt, c
    <2>2. QED
      BY <1>2, <1>3, <1>4, <2>1 DEF UserStartDt
  <1>5. CASE UserStopDt
    <2>1. Settled(HandleStopDt(conn), n)
      BY <1>2, OnUserStopDtMid, RunTimersSettled DEF HandleStopDt, c
    <2>2. QED
      BY <1>2, <1>3, <1>5, <2>1 DEF UserStopDt
  <1>6. CASE UserSend
    <2>1. Mid(OnUserSend(c, n + 1), n + 1)
      BY <1>2, OnUserSendMid
    <2>2. n + 1 \in Nat
      BY <1>2
    <2>3. Settled(HandleSend(conn, n + 1), n + 1)
      BY <2>1, <2>2, RunTimersSettled DEF HandleSend, c
    <2>4. QED
      BY <1>3, <1>6, <2>2, <2>3 DEF UserSend
  <1>7. CASE Tick
    <2>1. Settled(HandleTick(conn), n)
      BY <1>2, RunTimersSettled DEF HandleTick, c
    <2>2. QED
      BY <1>2, <1>3, <1>7, <2>1 DEF Tick
  <1>8. ASSUME NEW apdu \in PeerApdu, Receive(apdu)
        PROVE  IInv'
    <2>1. Mid(OnApdu(c, apdu), n)
      BY <1>2, PeerApduType, OnApduMid
    <2>2. Settled(HandleApdu(conn, apdu), n)
      BY <1>2, <2>1, RunTimersSettled DEF HandleApdu, c
    <2>3. QED
      BY <1>2, <1>3, <1>8, <2>2 DEF Receive
  <1>9. CASE TimePasses
    <2>1. Settled(Elapse(c), n)
      BY <1>2, ElapseSettled
    <2>2. QED
      BY <1>1, <1>9, <2>1 DEF TimePasses, IInv, c
  <1>10. CASE StreamEnds
    <2>1. Settled(c, n)
      BY <1>2, MidSettled
    <2>2. QED
      BY <1>1, <1>10, <2>1 DEF StreamEnds, IInv, c
  <1>11. CASE UNCHANGED vars
    BY <1>1, <1>11 DEF vars, IInv
  <1>12. QED
    BY <1>1, <1>4, <1>5, <1>6, <1>7, <1>8, <1>9, <1>10, <1>11 DEF Next

(* The inductive invariant holds in every reachable state.                 *)
THEOREM Invariance == Spec => []IInv
  BY InitIInv, NextIInv, PTL DEF Spec

-----------------------------------------------------------------------------
(* Type correctness of the connection record and the driver, whatever the  *)
(* application does and the peer sends.                                    *)
THEOREM TypeCorrectness == Spec => []TypeOK
  <1>1. IInv => TypeOK
    BY DEF IInv, Settled, TypeOK
  <1>2. QED
    BY <1>1, Invariance, PTL

(* The send window never exceeds k and stays consecutive: on_user_send and *)
(* flush_pending check the room, and acknowledge() only drops the head.    *)
THEOREM SendWindowSafety == Spec => []SendWindow
  <1>1. IInv => SendWindow
    BY DEF IInv, Settled, SendWindow
  <1>2. QED
    BY <1>1, Invariance, PTL

(* The n-th submitted ASDU leaves in the n-th I-frame.                     *)
THEOREM OrderSafety == Spec => []SentInOrder
  <1>1. IInv => SentInOrder
    BY DEF IInv, Settled, SentInOrder
  <1>2. QED
    BY <1>1, Invariance, PTL

(* handle() never returns with w received I-frames unacknowledged.         *)
THEOREM AckSafety == Spec => []AcksByW
  <1>1. IInv => AcksByW
    BY DEF IInv, Settled, AcksByW
  <1>2. QED
    BY <1>1, Invariance, PTL

(* StoppedCleanly is reported only when every ASDU submitted was sent and  *)
(* acknowledged.                                                           *)
THEOREM CleanStopSafety == Spec => []CleanStopDrained
  <1>1. IInv => CleanStopDrained
    BY DEF IInv, Settled, CleanStopDrained
  <1>2. QED
    BY <1>1, Invariance, PTL
=============================================================================
