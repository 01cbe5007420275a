------------------------ MODULE FileTransferProofs ------------------------
(***************************************************************************)
(* Proofs about the files of the file-transfer service, for any files,     *)
(* names, calls, connections, faults and limits.  The invariant ties every *)
(* receiving session to the fetch that waits for it: passive receivers     *)
(* never live longer than the ASDU that made them, and no two sessions     *)
(* answer the same call.                                                   *)
(***************************************************************************)
EXTENDS FileTransfer, SequenceTheorems, TLAPS

IsSeq(s) == \E S : s \in Seq(S)

Types == SelectActions \cup {"F_FR", "F_SR", "F_LS", "F_AF", "F_SG"}
Asdus(V) == [t : Types, n : Nof, ok : BOOLEAN, x : V]
WireOK == DOMAIN wire = Side /\ \E V : \A s \in Side : wire[s] \in Seq(Asdus(V))

Roles == {"none", "sender", "receiver"}
IsSession(x) ==
    /\ DOMAIN x = {"role", "st", "src", "chs", "bytes", "call"}
    /\ x.role \in Roles /\ IsSeq(x.src)

SessOK ==
    /\ DOMAIN sess = Side
    /\ \A s \in Side : DOMAIN sess[s] = Conn
    /\ \A s \in Side, c \in Conn : DOMAIN sess[s][c] = Nof
    /\ \A s \in Side, c \in Conn, n \in Nof : IsSession(sess[s][c][n])

IsFiles(f) ==
    /\ DOMAIN f = Side
    /\ \A s \in Side : DOMAIN f[s] = Nof
    /\ \A s \in Side, n \in Nof : IsSeq(f[s][n])
FilesOK == IsFiles(part) /\ IsFiles(store)

CallRecords == [kind : {"fetch", "push"}, n : Nof, res : {"wait", "ok", "err"}, before : SUBSET Nat]
CallsOK == calls \in [Side -> Seq(CallRecords)]

(* The fetch n of side s that waits for the session x. *)
WaitsFor(s, n, x) ==
    /\ x.call \in DOMAIN calls[s]
    /\ calls[s][x.call].kind = "fetch" /\ calls[s][x.call].n = n /\ calls[s][x.call].res = "wait"

Owned == \A s \in Side, c \in Conn, n \in Nof :
    /\ sess[s][c][n].role = "receiver" => WaitsFor(s, n, sess[s][c][n])
    /\ sess[s][c][n].role = "sender" /\ sess[s][c][n].call # 0 =>
          /\ sess[s][c][n].call \in DOMAIN calls[s]
          /\ calls[s][sess[s][c][n].call].kind = "push"
    /\ sess[s][c][n].role = "none" => sess[s][c][n].call = 0

OneSessionPerCall == \A s \in Side, c \in Conn, d \in Conn, n \in Nof :
    c # d /\ sess[s][c][n].role = "receiver" /\ sess[s][d][n].role = "receiver" =>
        sess[s][c][n].call # sess[s][d][n].call

FileInv ==
    /\ conn \in Conn /\ WireOK /\ SessOK /\ FilesOK /\ CallsOK
    /\ Owned /\ OneSessionPerCall /\ PartialHasWriter

-----------------------------------------------------------------------------
(* The session keeps its role and its call, and a receiver completes on a  *)
(* LastSection only, without data for the writer.                          *)
GoodResult(x, r) ==
    /\ IsSession(r.s) /\ r.s.role = x.role /\ r.s.call = x.call
    /\ r.end \in {"no", "failed", "completed"}
    /\ IsSeq(r.data)
    /\ r.end = "completed" => r.data = <<>>

LEMMA NilIsSeq == ASSUME NEW e, e = <<>> PROVE IsSeq(e)
<1>1. e \in Seq({})
  OBVIOUS
<1> QED  BY <1>1, Zenon DEF IsSeq

LEMMA UnitIsSeq == ASSUME NEW x PROVE IsSeq(<<x>>)
<1>1. <<x>> \in Seq({x})
  OBVIOUS
<1> QED  BY <1>1, Zenon DEF IsSeq

LEMMA NewSessionOK ==
    ASSUME NEW role \in Roles, NEW src, IsSeq(src), NEW call
    PROVE  /\ IsSession(NewSession(role, src, call))
           /\ NewSession(role, src, call).role = role
           /\ NewSession(role, src, call).call = call
           /\ NewSession(role, src, call).src = src
           /\ NewSession(role, src, call).st = "Idle"
BY DEF NewSession, NoSession, IsSession

LEMMA HandlersOK ==
    ASSUME NEW x, IsSession(x), NEW m, m.t \in Types, NEW read
    PROVE  GoodResult(x, Step(x, m, read))
<1>1. \A y, out : IsSession(y) /\ y.role = x.role /\ y.call = x.call =>
          GoodResult(x, Result(y, out)) /\ GoodResult(x, Fail(y, out)) /\ GoodResult(x, Done(y, out))
  <2> SUFFICES ASSUME NEW y, NEW out, IsSession(y), y.role = x.role, y.call = x.call
               PROVE  /\ GoodResult(x, Result(y, out)) /\ GoodResult(x, Fail(y, out))
                      /\ GoodResult(x, Done(y, out))
    OBVIOUS
  <2>1. PICK e : e = <<>>
    OBVIOUS
  <2>2. GoodResult(x, [s |-> y, out |-> out, data |-> e, end |-> "no"])
    BY <2>1, NilIsSeq DEF GoodResult
  <2>3. GoodResult(x, [s |-> y, out |-> out, data |-> e, end |-> "failed"])
    BY <2>1, NilIsSeq DEF GoodResult
  <2>4. GoodResult(x, [s |-> y, out |-> out, data |-> e, end |-> "completed"])
    BY <2>1, NilIsSeq DEF GoodResult
  <2> QED  BY <2>1, <2>2, <2>3, <2>4 DEF Result, Fail, Done
<1>2. GoodResult(x, OnFileReady(x, m))
  BY <1>1 DEF OnFileReady, IsSession
<1>3. GoodResult(x, OnSectionReady(x, m))
  BY <1>1, Zenon DEF OnSectionReady, IsSession
<1>4. GoodResult(x, OnLastSection(x, m))
  BY <1>1 DEF OnLastSection
<1>5. GoodResult(x, OnAckFile(x, m))
  BY <1>1 DEF OnAckFile
<1>6. GoodResult(x, OnSegment(x, m))
  <2> DEFINE y == [x EXCEPT !.chs = (@ + m.x) % 256, !.bytes = @ + 1]
  <2>1. IsSession(y) /\ y.role = x.role /\ y.call = x.call
    BY DEF IsSession
  <2> HIDE DEF y
  <2>2. GoodResult(x, [Result(y, <<>>) EXCEPT !.data = <<m.x>>])
    BY <2>1, UnitIsSeq DEF GoodResult, Result
  <2> QED  BY <1>1, <2>2 DEF OnSegment, y
<1>7. GoodResult(x, OnSelectCall(x, m, read))
  BY <1>1, Zenon DEF OnSelectCall, SendAllSegments, IsSession
<1> QED  BY <1>2, <1>3, <1>4, <1>5, <1>6, <1>7 DEF Step, Types

LEMMA NoSessionOK == IsSession(NoSession) /\ NoSession.role = "none" /\ NoSession.call = 0
<1>1. PICK e : e = <<>>
  OBVIOUS
<1>2. IsSession([role |-> "none", st |-> "Idle", src |-> e, chs |-> 0, bytes |-> 0, call |-> 0])
  BY <1>1, NilIsSeq DEF IsSession, Roles
<1> QED  BY <1>1, <1>2 DEF NoSession

LEMMA WriteSegmentOK ==
    ASSUME NEW p, IsSeq(p), NEW d, IsSeq(d)
    PROVE  IsSeq(WriteSegment(p, d)) /\ (d = <<>> => WriteSegment(p, d) = p)
<1>1. PICK S : p \in Seq(S)
  BY DEF IsSeq
<1>2. PICK T : d \in Seq(T)
  BY DEF IsSeq
<1>3. p \o d \in Seq(S \cup T)
  BY <1>1, <1>2
<1>4. d = <<>> => p \o d = p
  BY <1>1
<1> QED  BY <1>3, <1>4 DEF IsSeq, WriteSegment

-----------------------------------------------------------------------------
(* What apply_actions does to the sessions, the files and the calls, if    *)
(* the session x it was given is the one under (s, c, n), or a passive one *)
(* that fails if it is a receiver and has no call.                         *)
LEMMA ApplyKeeps ==
    ASSUME SessOK, FilesOK, CallsOK, Owned, OneSessionPerCall, PartialHasWriter,
           NEW s \in Side, NEW c \in Conn, NEW n \in Nof, NEW x, NEW r, NEW p,
           IsSession(x), GoodResult(x, r), IsSeq(p), ApplyActions(s, c, n, r, p),
           x.role = "receiver" /\ r.end # "failed" => x = sess[s][c][n] /\ p = part[s][n],
           sess[s][c][n].role = "receiver" => x = sess[s][c][n],
           x.call # 0 => x = sess[s][c][n]
    PROVE  /\ SessOK' /\ FilesOK' /\ CallsOK' /\ Owned' /\ OneSessionPerCall' /\ PartialHasWriter'
           /\ \A t \in Side, k \in Nof : store'[t][k] # store[t][k] =>
                 \E i \in DOMAIN calls[t] :
                    /\ calls[t][i].kind = "fetch" /\ calls[t][i].n = k
                    /\ calls[t][i].res = "wait" /\ calls'[t][i].res = "ok"
<1> DEFINE y == IF r.end = "no" THEN r.s ELSE NoSession
           w == WriteSegment(p, r.data)
           ends == r.end # "no" /\ x.call # 0
<1>1. /\ IsSession(y) /\ (r.end = "no" => y.role = x.role /\ y.call = x.call)
      /\ r.end # "no" => y.role = "none" /\ y.call = 0
  BY NoSessionOK DEF GoodResult
<1>2. /\ DOMAIN sess' = Side /\ \A t \in Side : DOMAIN sess'[t] = Conn
      /\ \A t \in Side, d \in Conn : DOMAIN sess'[t][d] = Nof
      /\ sess'[s][c][n] = y
      /\ \A t \in Side, d \in Conn, k \in Nof :
            ~(t = s /\ d = c /\ k = n) => sess'[t][d][k] = sess[t][d][k]
  <2>1. sess' = [sess EXCEPT ![s][c][n] = y]
    BY DEF ApplyActions
  <2> HIDE DEF y
  <2> QED  BY <2>1 DEF SessOK
<1> HIDE DEF y
<1>3. SessOK'
  BY <1>1, <1>2 DEF SessOK
<1>4. IsSeq(w) /\ (r.end = "completed" => w = p)
  BY WriteSegmentOK DEF GoodResult
<1>5. r.s.role = x.role /\ r.s.call = x.call /\ r.end \in {"no", "failed", "completed"}
  BY DEF GoodResult
<1>6. \/ x.role # "receiver" /\ part' = part /\ store' = store
      \/ x.role = "receiver" /\ r.end = "completed" /\ w # NoFile
            /\ part' = [part EXCEPT ![s][n] = NoFile] /\ store' = [store EXCEPT ![s][n] = w]
      \/ x.role = "receiver" /\ r.end = "completed" /\ w = NoFile /\ part' = part /\ store' = store
      \/ x.role = "receiver" /\ r.end = "failed"
            /\ part' = [part EXCEPT ![s][n] = NoFile] /\ store' = store
      \/ x.role = "receiver" /\ r.end = "no"
            /\ part' = [part EXCEPT ![s][n] = w] /\ store' = store
  BY <1>5, Zenon DEF ApplyActions, Finalize
<1> HIDE DEF w
<1>7. FilesOK'
  <2>1. PICK e : e = NoFile
    OBVIOUS
  <2>2. IsSeq(e)
    BY <2>1, UnitIsSeq DEF NoFile
  <2> QED  BY <1>4, <1>6, <2>1, <2>2 DEF FilesOK, IsFiles
(* The call that is answered waits for x alone. *)
<1>8. x.call # 0 => /\ x.call \in DOMAIN calls[s] /\ x = sess[s][c][n] /\ x.role # "none"
                    /\ x.role = "receiver" => WaitsFor(s, n, x)
                    /\ x.role = "sender" => calls[s][x.call].kind = "push"
  <2> SUFFICES ASSUME x.call # 0
               PROVE  /\ x.call \in DOMAIN calls[s] /\ x = sess[s][c][n] /\ x.role # "none"
                      /\ x.role = "receiver" => WaitsFor(s, n, x)
                      /\ x.role = "sender" => calls[s][x.call].kind = "push"
    OBVIOUS
  <2>1. x = sess[s][c][n] /\ x.role \in Roles
    BY DEF IsSession
  <2>2. /\ x.role = "receiver" => WaitsFor(s, n, x)
        /\ x.role = "sender" => x.call \in DOMAIN calls[s] /\ calls[s][x.call].kind = "push"
        /\ x.role # "none"
    BY <2>1 DEF Owned
  <2>3. x.role = "receiver" => x.call \in DOMAIN calls[s]
    BY <2>2 DEF WaitsFor
  <2> QED  BY <2>1, <2>2, <2>3 DEF Roles
<1>9. /\ CallsOK'
      /\ \A t \in Side : DOMAIN calls'[t] = DOMAIN calls[t]
      /\ \A t \in Side : \A i \in DOMAIN calls[t] :
            /\ calls'[t][i].kind = calls[t][i].kind /\ calls'[t][i].n = calls[t][i].n
            /\ ~(t = s /\ i = x.call /\ ends) => calls'[t][i].res = calls[t][i].res
      /\ ends /\ r.end = "completed" => calls'[s][x.call].res = "ok"
  <2>1. CASE ~ends
    BY <1>5, <2>1 DEF ApplyActions, CallsOK
  <2>2. CASE ends
    <3>1. PICK v \in {"ok", "err"} :
            /\ calls' = [calls EXCEPT ![s] = [@ EXCEPT ![x.call] = [calls[s][x.call] EXCEPT !.res = v]]]
            /\ r.end = "completed" => v = "ok"
      BY <1>5, <2>2, Zenon DEF ApplyActions, Answer
    <3>2. calls[s] \in Seq(CallRecords) /\ x.call \in DOMAIN calls[s] /\ x.call \in 1..Len(calls[s])
      BY <1>8, <2>2 DEF CallsOK
    <3> DEFINE e == [calls[s][x.call] EXCEPT !.res = v]
               z == [calls[s] EXCEPT ![x.call] = e]
    <3>3. /\ e \in CallRecords /\ e.res = v
          /\ e.kind = calls[s][x.call].kind /\ e.n = calls[s][x.call].n
      <4>1. calls[s][x.call] \in CallRecords
        BY <3>2
      <4> QED  BY <3>1, <4>1 DEF CallRecords
    <3>4. calls' = [calls EXCEPT ![s] = z]
      BY <3>1
    <3> HIDE DEF e
    <3>5. /\ z \in Seq(CallRecords) /\ DOMAIN z = DOMAIN calls[s] /\ z[x.call] = e
          /\ \A i \in DOMAIN calls[s] : i # x.call => z[i] = calls[s][i]
      BY <3>2, <3>3, ExceptSeq
    <3> HIDE DEF z
    <3> QED  BY <2>2, <3>1, <3>2, <3>3, <3>4, <3>5 DEF CallsOK
  <2> QED  BY <2>1, <2>2
<1>10. Owned'
  <2> SUFFICES ASSUME NEW t \in Side, NEW d \in Conn, NEW k \in Nof
               PROVE  /\ sess'[t][d][k].role = "receiver" => WaitsFor(t, k, sess[t][d][k])'
                      /\ sess'[t][d][k].role = "sender" /\ sess'[t][d][k].call # 0 =>
                            /\ sess'[t][d][k].call \in DOMAIN calls'[t]
                            /\ calls'[t][sess'[t][d][k].call].kind = "push"
                      /\ sess'[t][d][k].role = "none" => sess'[t][d][k].call = 0
    BY DEF Owned
  <2>1. CASE t = s /\ d = c /\ k = n
    <3>1. CASE r.end = "no"
      <4>1. y.role = "receiver" => WaitsFor(s, n, x) /\ y.call = x.call
        BY <1>1, <3>1 DEF Owned
      <4>2. sess'[s][c][n].role = "receiver" => WaitsFor(s, n, sess[s][c][n])'
        BY <1>2, <1>9, <3>1, <4>1 DEF WaitsFor
      <4>3. sess'[t][d][k] = y /\ y.role = x.role /\ y.call = x.call
        BY <1>1, <1>2, <2>1, <3>1
      <4>4. x.role = "none" => x.call = 0
        BY <1>8
      <4>5. x.role = "sender" /\ x.call # 0 =>
               /\ x.call \in DOMAIN calls'[s] /\ calls'[s][x.call].kind = "push"
        BY <1>8, <1>9
      <4> QED  BY <2>1, <4>2, <4>3, <4>4, <4>5, Zenon
    <3>2. CASE r.end # "no"
      BY <1>1, <1>2, <2>1, <3>2
    <3> QED  BY <3>1, <3>2, Zenon
  <2>2. CASE ~(t = s /\ d = c /\ k = n)
    <3>1. sess'[t][d][k] = sess[t][d][k]
      BY <1>2, <2>2
    <3>2. sess[t][d][k].role = "receiver" => ~(t = s /\ sess[t][d][k].call = x.call /\ ends)
      <4> SUFFICES ASSUME sess[t][d][k].role = "receiver", t = s, sess[t][d][k].call = x.call, ends
                   PROVE  FALSE
        OBVIOUS
      <4>1. WaitsFor(s, k, sess[s][d][k])
        BY DEF Owned
      <4>2. calls[s][x.call].kind = "fetch" /\ calls[s][x.call].n = k
        BY <4>1 DEF WaitsFor
      <4>3. x.role = "receiver" /\ x = sess[s][c][n]
        BY <1>8, <4>2 DEF IsSession, Roles
      <4>4. k = n
        BY <1>8, <4>2, <4>3, Zenon DEF WaitsFor
      <4> QED  BY <2>2, <4>3, <4>4 DEF OneSessionPerCall
    <3>3. sess[t][d][k].role = "receiver" => WaitsFor(t, k, sess[t][d][k])
      BY DEF Owned
    <3>4. sess'[t][d][k].role = "receiver" => WaitsFor(t, k, sess[t][d][k])'
      BY <1>9, <3>1, <3>2, <3>3, Zenon DEF WaitsFor
    <3>5. /\ sess[t][d][k].role = "sender" /\ sess[t][d][k].call # 0 =>
                /\ sess[t][d][k].call \in DOMAIN calls[t]
                /\ calls[t][sess[t][d][k].call].kind = "push"
          /\ sess[t][d][k].role = "none" => sess[t][d][k].call = 0
      BY Zenon DEF Owned
    <3>6. sess[t][d][k].role = "sender" /\ sess[t][d][k].call # 0 =>
             /\ sess[t][d][k].call \in DOMAIN calls'[t]
             /\ calls'[t][sess[t][d][k].call].kind = "push"
      BY <1>9, <3>5
    <3> QED  BY <3>1, <3>4, <3>5, <3>6, Zenon
  <2> QED  BY <2>1, <2>2
<1>11. OneSessionPerCall'
  <2> SUFFICES ASSUME NEW t \in Side, NEW d \in Conn, NEW f \in Conn, NEW k \in Nof, d # f,
                      sess'[t][d][k].role = "receiver", sess'[t][f][k].role = "receiver"
               PROVE  sess'[t][d][k].call # sess'[t][f][k].call
    BY SMTT(30) DEF OneSessionPerCall
  <2>1. y.role = "receiver" => x = sess[s][c][n] /\ y.role = x.role /\ y.call = x.call
    BY <1>1, <1>5
  <2>2. ASSUME NEW g \in Conn, sess'[t][g][k].role = "receiver"
        PROVE  sess[t][g][k].role = "receiver" /\ sess'[t][g][k].call = sess[t][g][k].call
    <3>1. CASE t = s /\ g = c /\ k = n
      BY <1>2, <2>1, <2>2, <3>1
    <3>2. CASE ~(t = s /\ g = c /\ k = n)
      BY <1>2, <2>2, <3>2
    <3> QED  BY <3>1, <3>2
  <2>3. /\ sess[t][d][k].role = "receiver" /\ sess'[t][d][k].call = sess[t][d][k].call
        /\ sess[t][f][k].role = "receiver" /\ sess'[t][f][k].call = sess[t][f][k].call
    BY <2>2
  <2>4. sess[t][d][k].call # sess[t][f][k].call
    BY <2>3 DEF OneSessionPerCall
  <2> QED  BY <2>3, <2>4
<1>12. PartialHasWriter'
  <2> SUFFICES ASSUME NEW t \in Side, NEW k \in Nof, part'[t][k] # NoFile
               PROVE  \E d \in Conn : sess'[t][d][k].role = "receiver"
    BY DEF PartialHasWriter
  <2>1. CASE t = s /\ k = n /\ x.role = "receiver"
    <3>1. r.end = "no"
      BY <1>4, <1>6, <2>1 DEF FilesOK, IsFiles
    <3> QED  BY <1>1, <1>2, <2>1, <3>1
  <2>2. CASE ~(t = s /\ k = n /\ x.role = "receiver")
    <3>1. part'[t][k] = part[t][k]
      BY <1>6, <2>2 DEF FilesOK, IsFiles
    <3>2. PICK d \in Conn : sess[t][d][k].role = "receiver"
      BY <3>1 DEF PartialHasWriter
    <3> QED  BY <1>2, <2>2, <3>2
  <2> QED  BY <2>1, <2>2
<1>13. ASSUME NEW t \in Side, NEW k \in Nof, store'[t][k] # store[t][k]
       PROVE  \E i \in DOMAIN calls[t] :
                 /\ calls[t][i].kind = "fetch" /\ calls[t][i].n = k
                 /\ calls[t][i].res = "wait" /\ calls'[t][i].res = "ok"
  <2>1. t = s /\ k = n /\ x.role = "receiver" /\ r.end = "completed"
    BY <1>6, <1>13 DEF FilesOK, IsFiles
  <2>2. WaitsFor(s, n, x) /\ x.call # 0
    <3>1. x = sess[s][c][n]
      BY <2>1
    <3>2. WaitsFor(s, n, x)
      BY <2>1, <3>1 DEF Owned
    <3>3. x.call \in DOMAIN calls[s]
      BY <3>2, Zenon DEF WaitsFor
    <3>4. calls[s] \in Seq(CallRecords)
      BY DEF CallsOK
    <3> QED  BY <3>2, <3>3, <3>4
  <2> QED  BY <1>9, <2>1, <2>2 DEF WaitsFor
<1> QED  BY <1>3, <1>7, <1>9, <1>10, <1>11, <1>12, <1>13

-----------------------------------------------------------------------------
(* The ASDUs. *)

IsOut(out) == \E V : out \in Seq(Asdus(V))

LEMMA NilIsOut == ASSUME NEW e, e = <<>> PROVE IsOut(e)
<1>1. e \in Seq(Asdus({}))
  OBVIOUS
<1> QED  BY <1>1, Zenon DEF IsOut

LEMMA UnitInSeq == ASSUME NEW A, NEW a \in A PROVE <<a>> \in Seq(A)
OBVIOUS

LEMMA UnitIsOut == ASSUME NEW a, NEW V, a \in Asdus(V) PROVE IsOut(<<a>>)
<1>1. <<a>> \in Seq(Asdus(V))
  OBVIOUS
<1> QED  BY <1>1 DEF IsOut

LEMMA AsdusGrow == ASSUME NEW V, NEW W, V \subseteq W PROVE Seq(Asdus(V)) \subseteq Seq(Asdus(W))
<1>1. Asdus(V) \subseteq Asdus(W)
  BY DEF Asdus
<1> QED  BY <1>1

LEMMA PeerOK == ASSUME NEW s \in Side PROVE Peer(s) \in Side /\ Peer(s) # s
  BY FileAssumption DEF Peer

LEMMA SegmentsOut ==
    ASSUME NEW x, NEW n \in Nof, NEW read \in Nat
    PROVE  IsOut(SendAllSegments(x, n, read).out)
<1> DEFINE octets == SubSeq(x.src, 1, read)
           V == {octets[i] : i \in 1..read} \cup {0, Checksum(octets)}
           segments == [i \in 1..read |-> Segment(n, octets[i])]
<1>1. \A i \in 1..read : Segment(n, octets[i]) \in Asdus(V)
  BY DEF Segment, Asdus, Types
<1>2. SectionReady(n, TRUE) \in Asdus(V) /\ LastSection(n, Checksum(octets)) \in Asdus(V)
  BY DEF SectionReady, LastSection, Asdus, Types
<1>3. SendAllSegments(x, n, read).out
        = <<SectionReady(n, TRUE)>> \o segments \o <<LastSection(n, Checksum(octets))>>
  BY Zenon DEF SendAllSegments, Result
<1> HIDE DEF octets, V
<1>4. segments \in Seq(Asdus(V))
  BY <1>1
<1> HIDE DEF segments
<1>5. <<SectionReady(n, TRUE)>> \o segments \o <<LastSection(n, Checksum(octets))>> \in Seq(Asdus(V))
  <2>1. /\ <<SectionReady(n, TRUE)>> \in Seq(Asdus(V))
        /\ <<LastSection(n, Checksum(octets))>> \in Seq(Asdus(V))
    BY <1>2, UnitInSeq, Zenon
  <2>2. <<SectionReady(n, TRUE)>> \o segments \in Seq(Asdus(V))
    BY <1>4, <2>1, ConcatProperties, Zenon
  <2> QED  BY <2>1, <2>2, ConcatProperties, Zenon
<1> QED  BY <1>3, <1>5, Zenon DEF IsOut

LEMMA StepOut ==
    ASSUME NEW x, NEW m, m.t \in Types, m.n \in Nof, NEW read \in Nat
    PROVE  IsOut(Step(x, m, read).out)
<1>1. \A y, out : Result(y, out).out = out /\ Fail(y, out).out = out /\ Done(y, out).out = out
  BY DEF Result, Fail, Done
<1>2. PICK e : e = <<>>
  OBVIOUS
<1>3. IsOut(e)
  BY <1>2, NilIsOut
<1>4. /\ IsOut(<<SelectCall(m.n, "REQUEST")>>) /\ IsOut(<<FileReady(m.n, TRUE, Len(x.src))>>)
      /\ IsOut(<<AckFile(m.n, TRUE)>>) /\ IsOut(<<AckFile(m.n, FALSE)>>)
  <2>1. /\ SelectCall(m.n, "REQUEST") \in Asdus({0})
        /\ FileReady(m.n, TRUE, Len(x.src)) \in Asdus({Len(x.src)})
        /\ AckFile(m.n, TRUE) \in Asdus({0}) /\ AckFile(m.n, FALSE) \in Asdus({0})
    BY DEF SelectCall, FileReady, AckFile, Asdus, Types, SelectActions
  <2> QED  BY <2>1, UnitIsOut, Zenon
<1>5. IsOut(OnFileReady(x, m).out)
  BY <1>1, <1>2, <1>3, <1>4 DEF OnFileReady
<1>6. IsOut(OnSectionReady(x, m).out)
  BY <1>1, <1>2, <1>3 DEF OnSectionReady
<1>7. IsOut(OnLastSection(x, m).out)
  BY <1>1, <1>2, <1>3, <1>4 DEF OnLastSection
<1>8. IsOut(OnAckFile(x, m).out)
  BY <1>1, <1>2, <1>3 DEF OnAckFile
<1>9. IsOut(OnSegment(x, m).out)
  BY <1>1, <1>2, <1>3 DEF OnSegment, Result
<1>10. IsOut(OnSelectCall(x, m, read).out)
  BY <1>1, <1>2, <1>3, <1>4, SegmentsOut DEF OnSelectCall
<1> QED  BY <1>5, <1>6, <1>7, <1>8, <1>9, <1>10 DEF Step, Types

LEMMA SentIsOut == ASSUME NEW out, IsOut(out) PROVE IsOut(Sent(out))
<1>1. PICK V : out \in Seq(Asdus(V))
  BY DEF IsOut
<1>2. CASE Broken(out)
  <2>1. Head(out) \in Asdus(V)
    BY <1>1, <1>2 DEF Broken
  <2> QED  BY <1>2, <2>1, UnitIsOut DEF Sent
<1> QED  BY <1>2 DEF Sent

(* One ASDU is taken, if any, and others are sent. *)
Sends(s, rest, out) ==
    /\ rest = wire[s] \/ (wire[s] # <<>> /\ rest = Tail(wire[s]))
    /\ DOMAIN wire' = Side
    /\ wire'[s] = rest
    /\ wire'[Peer(s)] = wire[Peer(s)] \/ wire'[Peer(s)] = wire[Peer(s)] \o out
    /\ \A t \in Side : t # s /\ t # Peer(s) => wire'[t] = wire[t]

LEMMA SendKeepsWire ==
    ASSUME WireOK, NEW s \in Side, NEW out, IsOut(out), NEW rest, Sends(s, rest, out)
    PROVE  WireOK'
<1>1. PICK V : \A t \in Side : wire[t] \in Seq(Asdus(V))
  BY DEF WireOK
<1>2. PICK W : out \in Seq(Asdus(W))
  BY DEF IsOut
<1>3. (\A t \in Side : wire[t] \in Seq(Asdus(V \cup W))) /\ out \in Seq(Asdus(V \cup W))
  <2>1. Seq(Asdus(V)) \subseteq Seq(Asdus(V \cup W)) /\ Seq(Asdus(W)) \subseteq Seq(Asdus(V \cup W))
    BY AsdusGrow
  <2> QED  BY <1>1, <1>2, <2>1, Zenon
<1>4. wire'[s] \in Seq(Asdus(V \cup W)) /\ wire'[Peer(s)] \in Seq(Asdus(V \cup W))
  <2> DEFINE A == Asdus(V \cup W)
  <2>1. wire[s] \in Seq(A) /\ wire[Peer(s)] \in Seq(A) /\ out \in Seq(A)
    BY <1>3, PeerOK, Zenon
  <2> HIDE DEF A
  <2>2. wire'[s] \in Seq(A)
    BY <2>1, HeadTailProperties, Zenon DEF Sends
  <2>3. wire'[Peer(s)] \in Seq(A)
    BY <2>1, ConcatProperties, Zenon DEF Sends
  <2> QED  BY <2>2, <2>3 DEF A
<1>5. \A t \in Side : wire'[t] \in Seq(Asdus(V \cup W))
  BY <1>3, <1>4, Zenon DEF Sends
<1> QED  BY <1>5 DEF WireOK, Sends

-----------------------------------------------------------------------------
(* The actions. *)

LEMMA StartOK ==
    ASSUME NEW role \in {"sender", "receiver"}, NEW src, IsSeq(src), NEW call, NEW n \in Nof,
           NEW r, r = OnStart(NewSession(role, src, call), n)
    PROVE  /\ IsSession(r.s) /\ r.s.role = role /\ r.s.call = call
           /\ IsOut(r.out)
<1> DEFINE x == NewSession(role, src, call)
<1>1. IsSession(x) /\ x.role = role /\ x.call = call /\ x.st = "Idle"
  BY NewSessionOK DEF Roles
<1>2. /\ IsOut(<<SelectCall(n, "SELECT")>>)
      /\ IsOut(<<FileReady(n, TRUE, Len(x.src))>>)
  <2>1. /\ SelectCall(n, "SELECT") \in Asdus({0})
        /\ FileReady(n, TRUE, Len(x.src)) \in Asdus({Len(x.src)})
    BY DEF SelectCall, FileReady, Asdus, Types, SelectActions
  <2> QED  BY <2>1, UnitIsOut, Zenon
<1>3. r = OnStart(x, n)
  OBVIOUS
<1> HIDE DEF x
<1>4. CASE role = "receiver"
  <2>1. r = Result([x EXCEPT !.st = "RxAwaitFileReady"], <<SelectCall(n, "SELECT")>>)
    BY <1>1, <1>3, <1>4, Zenon DEF OnStart
  <2> QED  BY <1>1, <1>2, <2>1 DEF Result, IsSession
<1>5. CASE role = "sender"
  <2>1. r = Result([x EXCEPT !.st = "TxAwaitSelect"], <<FileReady(n, TRUE, Len(x.src))>>)
    BY <1>1, <1>3, <1>5, Zenon DEF OnStart
  <2> QED  BY <1>1, <1>2, <2>1 DEF Result, IsSession
<1> QED  BY <1>4, <1>5

LEMMA NewCallOK ==
    ASSUME CallsOK, NEW s \in Side, NEW kind \in {"fetch", "push"}, NEW n \in Nof,
           NEW res \in {"wait", "err"}, NewCall(s, kind, n, res)
    PROVE  /\ CallsOK'
           /\ \A t \in Side : DOMAIN calls[t] \subseteq DOMAIN calls'[t]
           /\ \A t \in Side : \A i \in DOMAIN calls[t] : calls'[t][i] = calls[t][i]
           /\ Len(calls[s]) + 1 \in DOMAIN calls'[s] /\ Len(calls[s]) + 1 \notin DOMAIN calls[s]
           /\ Len(calls[s]) + 1 # 0
           /\ calls'[s][Len(calls[s]) + 1].kind = kind /\ calls'[s][Len(calls[s]) + 1].n = n
           /\ calls'[s][Len(calls[s]) + 1].res = res
<1> DEFINE b == Fetched(Peer(s), n)
           e == [kind |-> kind, n |-> n, res |-> res, before |-> b]
           z == Append(calls[s], e)
<1>1. calls[s] \in Seq(CallRecords) /\ calls[Peer(s)] \in Seq(CallRecords)
  BY PeerOK DEF CallsOK
<1>2. b \subseteq Nat
  BY <1>1 DEF Fetched
<1>3. calls' = [calls EXCEPT ![s] = z]
  BY DEF NewCall
<1> HIDE DEF b
<1>4. e \in CallRecords /\ e.kind = kind /\ e.n = n /\ e.res = res
  BY <1>2 DEF CallRecords
<1> HIDE DEF e
<1>5. /\ z \in Seq(CallRecords) /\ Len(z) = Len(calls[s]) + 1 /\ z[Len(calls[s]) + 1] = e
      /\ \A i \in 1..Len(calls[s]) : z[i] = calls[s][i]
      /\ Len(calls[s]) \in Nat
  BY <1>1, <1>4, AppendProperties
<1> HIDE DEF z
<1>6. /\ DOMAIN z = 1..(Len(calls[s]) + 1) /\ DOMAIN calls[s] = 1..Len(calls[s])
  BY <1>1, <1>5
<1>7. CallsOK' /\ calls'[s] = z /\ \A t \in Side : t # s => calls'[t] = calls[t]
  BY <1>3, <1>5 DEF CallsOK
<1> QED  BY <1>4, <1>5, <1>6, <1>7

(* New calls leave the sessions that wait for older ones as they are. *)
LEMMA OlderCalls ==
    ASSUME Owned, CallsOK, SessOK,
           \A t \in Side : DOMAIN calls[t] \subseteq DOMAIN calls'[t],
           \A t \in Side : \A i \in DOMAIN calls[t] : calls'[t][i] = calls[t][i],
           NEW t \in Side, NEW d \in Conn, NEW k \in Nof, sess'[t][d][k] = sess[t][d][k]
    PROVE  /\ sess'[t][d][k].role = "receiver" => WaitsFor(t, k, sess[t][d][k])'
           /\ sess'[t][d][k].role = "sender" /\ sess'[t][d][k].call # 0 =>
                 /\ sess'[t][d][k].call \in DOMAIN calls'[t]
                 /\ calls'[t][sess'[t][d][k].call].kind = "push"
           /\ sess'[t][d][k].role = "none" => sess'[t][d][k].call = 0
<1>1. sess[t][d][k].role = "receiver" => WaitsFor(t, k, sess[t][d][k])
  BY DEF Owned
<1>2. sess'[t][d][k].role = "receiver" => WaitsFor(t, k, sess[t][d][k])'
  BY <1>1, Zenon DEF WaitsFor
<1>3. /\ sess[t][d][k].role = "sender" /\ sess[t][d][k].call # 0 =>
            /\ sess[t][d][k].call \in DOMAIN calls[t]
            /\ calls[t][sess[t][d][k].call].kind = "push"
      /\ sess[t][d][k].role = "none" => sess[t][d][k].call = 0
  BY Zenon DEF Owned
<1>4. sess[t][d][k].role = "sender" /\ sess[t][d][k].call # 0 =>
         /\ sess[t][d][k].call \in DOMAIN calls'[t]
         /\ calls'[t][sess[t][d][k].call].kind = "push"
  BY <1>3
<1> QED  BY <1>2, <1>3, <1>4, Zenon

(* Only the session under (s, c, n) changes, and it becomes y. *)
Put(s, c, n, y) ==
    /\ DOMAIN sess' = Side /\ \A t \in Side : DOMAIN sess'[t] = Conn
    /\ \A t \in Side, d \in Conn : DOMAIN sess'[t][d] = Nof
    /\ sess'[s][c][n] = y
    /\ \A t \in Side, d \in Conn, k \in Nof :
          ~(t = s /\ d = c /\ k = n) => sess'[t][d][k] = sess[t][d][k]

(* A call that starts a session puts it where there was none. *)
LEMMA OpenKeeps ==
    ASSUME SessOK, CallsOK, Owned, OneSessionPerCall,
           NEW s \in Side, NEW c \in Conn, NEW n \in Nof, sess[s][c][n].role = "none",
           NEW kind \in {"fetch", "push"}, NewCall(s, kind, n, "wait"),
           NEW y, IsSession(y), y.role = IF kind = "fetch" THEN "receiver" ELSE "sender",
           y.call = Len(calls[s]) + 1, Put(s, c, n, y)
    PROVE  /\ SessOK' /\ CallsOK' /\ Owned' /\ OneSessionPerCall'
           /\ sess'[s][c][n].role = y.role
           /\ \A t \in Side, d \in Conn, k \in Nof :
                 sess[t][d][k].role = "receiver" => sess'[t][d][k].role = "receiver"
<1> DEFINE j == Len(calls[s]) + 1
<1>1. SessOK'
  BY DEF SessOK, Put
<1>2. /\ CallsOK'
      /\ \A t \in Side : DOMAIN calls[t] \subseteq DOMAIN calls'[t]
      /\ \A t \in Side : \A i \in DOMAIN calls[t] : calls'[t][i] = calls[t][i]
      /\ j \in DOMAIN calls'[s] /\ j \notin DOMAIN calls[s]
      /\ calls'[s][j].kind = kind /\ calls'[s][j].n = n /\ calls'[s][j].res = "wait"
  BY NewCallOK
<1>3. y.call = j
  OBVIOUS
<1> HIDE DEF j
<1>4. Owned'
  <2> SUFFICES ASSUME NEW t \in Side, NEW d \in Conn, NEW k \in Nof
               PROVE  /\ sess'[t][d][k].role = "receiver" => WaitsFor(t, k, sess[t][d][k])'
                      /\ sess'[t][d][k].role = "sender" /\ sess'[t][d][k].call # 0 =>
                            /\ sess'[t][d][k].call \in DOMAIN calls'[t]
                            /\ calls'[t][sess'[t][d][k].call].kind = "push"
                      /\ sess'[t][d][k].role = "none" => sess'[t][d][k].call = 0
    BY Zenon DEF Owned
  <2>1. CASE t = s /\ d = c /\ k = n
    <3>1. sess'[t][d][k] = y
      BY <2>1 DEF Put
    <3>2. y.role = "receiver" => WaitsFor(t, k, sess[t][d][k])'
      BY <1>2, <1>3, <2>1, <3>1 DEF WaitsFor
    <3> QED  BY <1>2, <1>3, <2>1, <3>1, <3>2
  <2>2. CASE ~(t = s /\ d = c /\ k = n)
    <3>1. sess'[t][d][k] = sess[t][d][k]
      BY <2>2 DEF Put
    <3> QED  BY <1>2, <3>1, OlderCalls, Zenon
  <2> QED  BY <2>1, <2>2, Zenon
<1>5. OneSessionPerCall'
  <2> SUFFICES ASSUME NEW t \in Side, NEW e \in Conn, NEW d \in Conn, NEW k \in Nof, e # d,
                      sess'[t][e][k].role = "receiver", sess'[t][d][k].role = "receiver"
               PROVE  sess'[t][e][k].call # sess'[t][d][k].call
    BY SMTT(30) DEF OneSessionPerCall
  <2>1. \A g \in Conn : sess[t][g][k].role = "receiver" => sess[t][g][k].call \in DOMAIN calls[t]
    BY Zenon DEF Owned, WaitsFor
  <2> QED  BY <1>2, <1>3, <2>1 DEF OneSessionPerCall, Put
<1> QED  BY <1>1, <1>2, <1>4, <1>5 DEF Put

LEMMA NoFileIsSeq == IsSeq(NoFile)
BY UnitIsSeq DEF NoFile

LEMMA LookupIsSeq == ASSUME FilesOK, NEW s \in Side, NEW n \in Nof PROVE IsSeq(Lookup(s, n))
BY NoFileIsSeq DEF FilesOK, IsFiles, Lookup

(* The body of OnlyCompletionReplaces. *)
CompletionStep == \A s \in Side, n \in Nof : store'[s][n] # store[s][n] =>
    \E i \in DOMAIN calls[s] :
        /\ calls[s][i].kind = "fetch" /\ calls[s][i].n = n
        /\ calls[s][i].res = "wait" /\ calls'[s][i].res = "ok"

LEMMA RefusalKeeps ==
    ASSUME FileInv, NEW s \in Side, NEW n \in Nof, NEW kind \in {"fetch", "push"},
           NewCall(s, kind, n, "err"), UNCHANGED <<conn, wire, sess, part, store>>
    PROVE  FileInv'
<1>1. /\ CallsOK'
      /\ \A t \in Side : DOMAIN calls[t] \subseteq DOMAIN calls'[t]
      /\ \A t \in Side : \A i \in DOMAIN calls[t] : calls'[t][i] = calls[t][i]
  BY NewCallOK DEF FileInv
<1>2. Owned'
  <2> SUFFICES ASSUME NEW t \in Side, NEW d \in Conn, NEW k \in Nof
               PROVE  /\ sess'[t][d][k].role = "receiver" => WaitsFor(t, k, sess[t][d][k])'
                      /\ sess'[t][d][k].role = "sender" /\ sess'[t][d][k].call # 0 =>
                            /\ sess'[t][d][k].call \in DOMAIN calls'[t]
                            /\ calls'[t][sess'[t][d][k].call].kind = "push"
                      /\ sess'[t][d][k].role = "none" => sess'[t][d][k].call = 0
    BY DEF Owned
  <2> QED  BY <1>1, OlderCalls, Zenon DEF FileInv
<1>3. WireOK' /\ (conn \in Conn)'
  BY DEF FileInv, WireOK
<1>4. SessOK' /\ OneSessionPerCall'
  BY DEF FileInv, SessOK, OneSessionPerCall
<1>5. FilesOK' /\ PartialHasWriter'
  BY DEF FileInv, FilesOK, IsFiles, PartialHasWriter
<1> QED  BY <1>1, <1>2, <1>3, <1>4, <1>5 DEF FileInv

LEMMA StartKeeps ==
    ASSUME FileInv, NEW s \in Side, NEW n \in Nof, NEW kind \in {"fetch", "push"},
           NewCall(s, kind, n, "wait"), ~Refused(s, n),
           NEW y, IsSession(y), y.role = IF kind = "fetch" THEN "receiver" ELSE "sender",
           y.call = Len(calls[s]) + 1, Put(s, conn, n, y),
           NEW out, IsOut(out), Sends(s, wire[s], out), FilesOK',
           \A t \in Side, k \in Nof : part'[t][k] = part[t][k] \/ (kind = "fetch" /\ t = s /\ k = n),
           UNCHANGED <<conn, store>>
    PROVE  FileInv'
<1>1. conn \in Conn /\ SessOK /\ CallsOK /\ Owned /\ OneSessionPerCall /\ FilesOK /\ WireOK
  BY DEF FileInv
<1>2. sess[s][conn][n].role = "none"
  BY NoSessionOK DEF Refused, Live
<1>3. WireOK'
  BY <1>1, SendKeepsWire
<1>4. /\ SessOK' /\ CallsOK' /\ Owned' /\ OneSessionPerCall'
      /\ sess'[s][conn][n].role = y.role
      /\ \A t \in Side, d \in Conn, k \in Nof :
            sess[t][d][k].role = "receiver" => sess'[t][d][k].role = "receiver"
  BY <1>1, <1>2, OpenKeeps
<1>5. PartialHasWriter'
  <2> SUFFICES ASSUME NEW t \in Side, NEW k \in Nof, part'[t][k] # NoFile
               PROVE  \E d \in Conn : sess'[t][d][k].role = "receiver"
    BY DEF PartialHasWriter
  <2>1. CASE kind = "fetch" /\ t = s /\ k = n
    BY <1>1, <1>4, <2>1
  <2>2. CASE part'[t][k] = part[t][k]
    <3>1. PICK d \in Conn : sess[t][d][k].role = "receiver"
      BY <2>2 DEF FileInv, PartialHasWriter
    <3> QED  BY <1>4, <3>1
  <2> QED  BY <2>1, <2>2
<1>6. (conn \in Conn)'
  BY <1>1
<1> QED  BY <1>3, <1>4, <1>5, <1>6 DEF FileInv

LEMMA IntentKeeps == ASSUME FileInv, OnIntent PROVE FileInv' /\ CompletionStep
<1>1. PICK s \in Side, n \in Nof : /\ OnFetch(s, n) \/ OnPush(s, n)
                                   /\ UNCHANGED <<conn, up, store, used>>
  BY DEF OnIntent
<1>2. CompletionStep
  BY <1>1 DEF CompletionStep
<1>3. conn \in Conn /\ SessOK /\ FilesOK /\ DOMAIN wire = Side /\ Peer(s) \in Side /\ Peer(s) # s
  BY PeerOK DEF FileInv, WireOK
<1>4. ASSUME NEW y, sess' = [sess EXCEPT ![s][conn][n] = y] PROVE Put(s, conn, n, y)
  BY <1>3, <1>4 DEF SessOK, Put
<1>5. ASSUME NEW out, wire' = [wire EXCEPT ![Peer(s)] = IF up THEN @ \o out ELSE @]
      PROVE  Sends(s, wire[s], out)
  BY <1>3, <1>5 DEF Sends
<1>6. CASE OnFetch(s, n)
  <2>1. CASE Refused(s, n)
    BY <1>1, <1>2, <1>6, <2>1, RefusalKeeps DEF OnFetch
  <2>2. CASE ~Refused(s, n)
    <3>1. PICK e : e = <<>>
      OBVIOUS
    <3>2. PICK r : r = OnStart(NewSession("receiver", e, Len(calls[s]) + 1), n)
      OBVIOUS
    <3>3. /\ NewCall(s, "fetch", n, "wait") /\ part' = [part EXCEPT ![s][n] = e]
          /\ sess' = [sess EXCEPT ![s][conn][n] = r.s]
          /\ wire' = [wire EXCEPT ![Peer(s)] = IF up THEN @ \o r.out ELSE @]
      BY <1>6, <2>2, <3>1, <3>2, Zenon DEF OnFetch, OpenWrite
    <3>4. IsSeq(e)
      BY <3>1, NilIsSeq
    <3>5. Put(s, conn, n, r.s) /\ Sends(s, wire[s], r.out)
      BY <1>4, <1>5, <3>3, Zenon
    <3>6. IsSession(r.s) /\ r.s.role = "receiver" /\ r.s.call = Len(calls[s]) + 1 /\ IsOut(r.out)
      BY <3>2, <3>4, StartOK
    <3>7. FilesOK' /\ \A t \in Side, k \in Nof : part'[t][k] = part[t][k] \/ (t = s /\ k = n)
      BY <1>1, <1>3, <3>3, <3>4 DEF FilesOK, IsFiles
    <3>8. UNCHANGED <<conn, store>> /\ NewCall(s, "fetch", n, "wait")
      BY <1>1, <3>3
    <3>9. FileInv'
      BY <2>2, <3>5, <3>6, <3>7, <3>8, StartKeeps
    <3> QED  BY <1>2, <3>9
  <2> QED  BY <2>1, <2>2
<1>7. CASE OnPush(s, n)
  <2>1. CASE Refused(s, n) \/ Lookup(s, n) = NoFile
    BY <1>1, <1>2, <1>7, <2>1, RefusalKeeps, Zenon DEF OnPush
  <2>2. CASE ~Refused(s, n) /\ Lookup(s, n) # NoFile
    <3>1. PICK r : r = OnStart(NewSession("sender", Lookup(s, n), Len(calls[s]) + 1), n)
      OBVIOUS
    <3>2. /\ NewCall(s, "push", n, "wait") /\ part' = part
          /\ sess' = [sess EXCEPT ![s][conn][n] = r.s]
          /\ wire' = [wire EXCEPT ![Peer(s)] = IF up THEN @ \o r.out ELSE @]
      BY <1>7, <2>2, <3>1, Zenon DEF OnPush
    <3>3. IsSeq(Lookup(s, n))
      BY <1>3, LookupIsSeq
    <3>4. Put(s, conn, n, r.s) /\ Sends(s, wire[s], r.out)
      BY <1>4, <1>5, <3>2, Zenon
    <3>5. IsSession(r.s) /\ r.s.role = "sender" /\ r.s.call = Len(calls[s]) + 1 /\ IsOut(r.out)
      BY <3>1, <3>3, StartOK
    <3>6. FilesOK' /\ \A t \in Side, k \in Nof : part'[t][k] = part[t][k]
      BY <1>1, <1>3, <3>2 DEF FilesOK, IsFiles
    <3>7. UNCHANGED <<conn, store>> /\ NewCall(s, "push", n, "wait")
      BY <1>1, <3>2
    <3>8. FileInv'
      BY <2>2, <3>4, <3>5, <3>6, <3>7, StartKeeps
    <3> QED  BY <1>2, <3>8
  <2> QED  BY <2>1, <2>2
<1> QED  BY <1>1, <1>6, <1>7

LEMMA OwnedStays == ASSUME Owned, UNCHANGED <<sess, calls>> PROVE Owned'
<1>1. ASSUME NEW t \in Side, NEW d \in Conn, NEW k \in Nof, sess[t][d][k].role = "receiver"
      PROVE  WaitsFor(t, k, sess[t][d][k])'
  <2>1. WaitsFor(t, k, sess[t][d][k])
    BY <1>1 DEF Owned
  <2> QED  BY <2>1, Zenon DEF WaitsFor
<1> QED  BY <1>1, Zenon DEF Owned

(* Whatever touches neither sessions nor files nor calls. *)
LEMMA OthersKeep ==
    ASSUME FileInv, UNCHANGED <<sess, part, store, calls>>, WireOK', (conn \in Conn)'
    PROVE  FileInv' /\ CompletionStep
<1>1. Owned'
  BY OwnedStays DEF FileInv
<1>2. SessOK' /\ OneSessionPerCall' /\ CallsOK'
  <2>1. SessOK' /\ CallsOK'
    BY DEF FileInv, SessOK, CallsOK
  <2>2. OneSessionPerCall'
    BY Zenon DEF FileInv, OneSessionPerCall
  <2> QED  BY <2>1, <2>2
<1>3. FilesOK' /\ PartialHasWriter' /\ CompletionStep
  BY DEF FileInv, FilesOK, IsFiles, PartialHasWriter, CompletionStep
<1> QED  BY <1>1, <1>2, <1>3 DEF FileInv

(* The passive receiver is still Idle when its FileReady is stepped into it. *)
LEMMA IdleReceiverFails ==
    ASSUME NEW x, NEW m, m.t = "F_FR", x.role = "receiver", x.st = "Idle", NEW read
    PROVE  Step(x, m, read).end = "failed"
<1>1. Step(x, m, read) = OnFileReady(x, m)
  BY DEF Step, SelectActions
<1>2. OnFileReady(x, m) = Fail(x, <<>>)
  BY DEF OnFileReady
<1> QED  BY <1>1, <1>2 DEF Fail, Result

(* The ASDU in front, with or without a session for its name. *)
LEMMA IncomingKeeps ==
    ASSUME FileInv, NEW s \in Side, wire[s] # <<>>, NEW read \in Nat, OnIncoming(s, read),
           conn' = conn
    PROVE  FileInv' /\ CompletionStep
<1>1. /\ conn \in Conn /\ WireOK /\ SessOK /\ FilesOK /\ CallsOK /\ Owned /\ OneSessionPerCall
      /\ PartialHasWriter
  BY DEF FileInv
<1>2. (conn \in Conn)'
  BY <1>1
<1>3. PICK m : m = Head(wire[s])
  OBVIOUS
<1>4. m.t \in Types /\ m.n \in Nof
  <2>1. PICK V : wire[s] \in Seq(Asdus(V))
    BY <1>1 DEF WireOK
  <2>2. m \in Asdus(V)
    BY <1>3, <2>1
  <2> QED  BY <2>2 DEF Asdus
<1>5. DOMAIN wire = Side /\ Peer(s) \in Side /\ Peer(s) # s
  BY <1>1, PeerOK DEF WireOK
<1> DEFINE n == m.n
           known == sess[s][conn][n] # NoSession
           opens == ~known /\ m.t = "F_FR"
<1>6. CASE known \/ ~Ignored(s, m)
  <2>1. PICK x : x = IF known THEN sess[s][conn][n] ELSE PassiveSession(s, m)
    OBVIOUS
  <2>2. PICK r : r = Step(x, m, read)
    OBVIOUS
  <2>3. PICK p : p = IF opens THEN OpenWrite ELSE part[s][n]
    OBVIOUS
  <2>4. /\ wire' = [wire EXCEPT ![s] = Tail(@), ![Peer(s)] = IF up THEN @ \o Sent(r.out) ELSE @]
        /\ ApplyActions(s, conn, n, r, p)
    BY <1>3, <1>6, <2>1, <2>2, <2>3, Zenon DEF OnIncoming
  <2>5. Sends(s, Tail(wire[s]), Sent(r.out))
    BY <1>5, <2>4 DEF Sends
  <2>6. IsSeq(p)
    BY <1>1, <1>4, <2>3, NilIsSeq DEF FilesOK, IsFiles, OpenWrite
  <2>7. /\ IsSession(x)
        /\ known => x = sess[s][conn][n]
        /\ ~known => /\ x.call = 0
                     /\ m.t = "F_FR" => x.st = "Idle" /\ x.role = "receiver"
                     /\ m.t # "F_FR" => x.role = "sender"
    <3>1. CASE known
      BY <1>1, <1>4, <2>1, <3>1, Zenon DEF SessOK
    <3>2. CASE ~known /\ m.t = "F_FR"
      <4>1. PICK e : e = <<>>
        OBVIOUS
      <4>2. x = NewSession("receiver", e, 0) /\ IsSeq(e)
        BY <2>1, <3>2, <4>1, NilIsSeq DEF PassiveSession
      <4> QED  BY <3>2, <4>2, NewSessionOK DEF Roles
    <3>3. CASE ~known /\ m.t # "F_FR"
      <4>1. x = OnStart(NewSession("sender", Lookup(s, n), 0), n).s
        BY <2>1, <3>3 DEF PassiveSession
      <4>2. IsSeq(Lookup(s, n))
        BY <1>1, <1>4, LookupIsSeq
      <4>3. IsSession(x) /\ x.role = "sender" /\ x.call = 0
        BY <1>4, <4>1, <4>2, StartOK
      <4> QED  BY <3>3, <4>3
    <3> QED  BY <3>1, <3>2, <3>3, Zenon
  <2>8. GoodResult(x, r) /\ IsOut(r.out) /\ IsOut(Sent(r.out))
    BY <1>4, <2>2, <2>7, HandlersOK, StepOut, SentIsOut
  <2>9. opens => r.end = "failed"
    <3> SUFFICES ASSUME opens PROVE r.end = "failed"
      OBVIOUS
    <3>1. m.t = "F_FR" /\ x.st = "Idle" /\ x.role = "receiver"
      BY <2>7
    <3> QED  BY <2>2, <3>1, IdleReceiverFails
  <2>10. sess[s][conn][n].role = "receiver" => known
    BY NoSessionOK
  <2>11. x.role = "receiver" /\ r.end # "failed" => x = sess[s][conn][n] /\ p = part[s][n]
    BY <2>3, <2>7, <2>9
  <2> HIDE DEF known, opens, n
  <2>12. n \in Nof
    BY <1>4 DEF n
  <2>13. /\ SessOK' /\ FilesOK' /\ CallsOK' /\ Owned' /\ OneSessionPerCall' /\ PartialHasWriter'
         /\ CompletionStep
    <3>1. ApplyActions(s, conn, n, r, p)
      BY <2>4
    <3> HIDE <2>4
    <3> QED  BY <1>1, <2>6, <2>7, <2>8, <2>10, <2>11, <2>12, <3>1, ApplyKeeps, Zenon DEF CompletionStep
  <2>14. WireOK'
    BY <1>1, <2>5, <2>8, SendKeepsWire
  <2> QED  BY <1>2, <2>13, <2>14 DEF FileInv
<1>7. CASE ~known /\ Ignored(s, m)
  <2>1. wire' = [wire EXCEPT ![s] = Tail(@)] /\ UNCHANGED <<up, sess, part, store, calls, shared>>
    BY <1>3, <1>7, Zenon DEF OnIncoming
  <2>2. PICK e : e = <<>>
    OBVIOUS
  <2>3. Sends(s, Tail(wire[s]), e) /\ IsOut(e)
    BY <1>5, <2>1, <2>2, NilIsOut DEF Sends
  <2>4. WireOK'
    BY <1>1, <2>3, SendKeepsWire
  <2> QED  BY <1>2, <2>1, <2>4, OthersKeep
<1> QED  BY <1>6, <1>7

LEMMA ReceiveKeeps == ASSUME FileInv, Receive PROVE FileInv' /\ CompletionStep
<1>1. PICK s \in Side : /\ wire[s] # <<>>
                        /\ \E read \in {Len(Source(s, Head(wire[s]).n))}
                                \cup 0..(Len(Source(s, Head(wire[s]).n)) - 1) : OnIncoming(s, read)
                        /\ conn' = conn
  BY DEF Receive
<1>2. PICK m : m = Head(wire[s])
  OBVIOUS
<1>3. m.n \in Nof
  <2>1. PICK V : wire[s] \in Seq(Asdus(V))
    BY DEF FileInv, WireOK
  <2>2. m \in Asdus(V)
    BY <1>1, <1>2, <2>1
  <2> QED  BY <2>2 DEF Asdus
<1>4. IsSeq(Source(s, m.n))
  BY <1>3, NilIsSeq DEF FileInv, SessOK, IsSession, Source
<1>5. Len(Source(s, m.n)) \in Nat
  BY <1>4 DEF IsSeq
<1>6. PICK read \in Nat : OnIncoming(s, read)
  BY <1>1, <1>2, <1>5
<1> QED  BY <1>1, <1>6, IncomingKeeps

LEMMA FailOK == ASSUME NEW x, IsSession(x) PROVE GoodResult(x, Fail(x, <<>>))
<1>1. PICK e : e = <<>>
  OBVIOUS
<1>2. GoodResult(x, [s |-> x, out |-> e, data |-> e, end |-> "failed"])
  BY <1>1, NilIsSeq DEF GoodResult
<1> QED  BY <1>1, <1>2 DEF Fail, Result

LEMMA TickKeeps == ASSUME FileInv, OnTick PROVE FileInv' /\ CompletionStep
<1>1. PICK s \in Side, c \in Conn, n \in Nof :
          /\ ApplyActions(s, c, n, Fail(sess[s][c][n], <<>>), part[s][n])
          /\ UNCHANGED <<conn, up, wire, shared, used>>
  BY DEF OnTick
<1>2. /\ conn \in Conn /\ WireOK /\ SessOK /\ FilesOK /\ CallsOK /\ Owned /\ OneSessionPerCall
      /\ PartialHasWriter
  BY DEF FileInv
<1>3. PICK x : x = sess[s][c][n]
  OBVIOUS
<1>4. PICK r : r = Fail(x, <<>>)
  OBVIOUS
<1>5. PICK p : p = part[s][n]
  OBVIOUS
<1>6. IsSession(x) /\ GoodResult(x, r) /\ IsSeq(p) /\ ApplyActions(s, c, n, r, p)
  BY <1>1, <1>2, <1>3, <1>4, <1>5, FailOK DEF SessOK, FilesOK, IsFiles
<1>7. /\ SessOK' /\ FilesOK' /\ CallsOK' /\ Owned' /\ OneSessionPerCall' /\ PartialHasWriter'
      /\ CompletionStep
  BY <1>2, <1>3, <1>5, <1>6, ApplyKeeps, Zenon DEF CompletionStep
<1>8. (conn \in Conn)' /\ WireOK'
  BY <1>1, <1>2 DEF WireOK
<1> QED  BY <1>7, <1>8 DEF FileInv

LEMMA ReconnectKeeps == ASSUME FileInv, Reconnect PROVE FileInv' /\ CompletionStep
<1>1. (conn \in Conn)'
  BY FileAssumption DEF FileInv, Reconnect, Conn
<1>2. WireOK'
  <2>1. PICK e : e = <<>>
    OBVIOUS
  <2>2. wire' = [s \in Side |-> e] /\ e \in Seq(Asdus({}))
    BY <2>1 DEF Reconnect
  <2> QED  BY <2>2 DEF WireOK
<1>3. UNCHANGED <<sess, part, store, calls>>
  BY DEF Reconnect
<1> QED  BY <1>1, <1>2, <1>3, OthersKeep

LEMMA ForeignKeeps == ASSUME FileInv, Foreign PROVE FileInv' /\ CompletionStep
<1>1. PICK s \in Side, n \in Nof : \E m \in ForeignAsdu(n), i \in 1..(Len(wire[s]) + 1) :
          /\ wire' = [wire EXCEPT ![s] = InsertAt(@, i, m)]
          /\ UNCHANGED <<conn, up, sess, part, store, calls, shared>>
  BY Zenon DEF Foreign
<1>2. PICK m \in ForeignAsdu(n), i \in 1..(Len(wire[s]) + 1) :
          /\ wire' = [wire EXCEPT ![s] = InsertAt(@, i, m)]
          /\ UNCHANGED <<conn, up, sess, part, store, calls, shared>>
  BY <1>1, Zenon
<1>3. PICK V : \A t \in Side : wire[t] \in Seq(Asdus(V))
  BY DEF FileInv, WireOK
<1> DEFINE A == Asdus(V \cup {0, 9})
<1>4. \A t \in Side : wire[t] \in Seq(A)
  <2>1. Seq(Asdus(V)) \subseteq Seq(A)
    BY AsdusGrow
  <2> QED  BY <1>3, <2>1, Zenon
<1>5. m \in A
  <2>1. FileReady(n, FALSE, 0) \in A /\ SectionReady(n, FALSE) \in A /\ AckFile(n, FALSE) \in A
    BY DEF FileReady, SectionReady, AckFile, Asdus, Types
  <2>2. SelectCall(n, "DEACTIVATE") \in A /\ Segment(n, 9) \in A
    BY DEF SelectCall, Segment, Asdus, Types, SelectActions
  <2> QED  BY <1>2, <2>1, <2>2, Zenon DEF ForeignAsdu
<1> DEFINE w == InsertAt(wire[s], i, m)
<1> HIDE DEF A
<1>6. w \in Seq(A)
  <2> DEFINE a == SubSeq(wire[s], 1, i - 1)
             b == SubSeq(wire[s], i, Len(wire[s]))
  <2>1. wire[s] \in Seq(A) /\ Len(wire[s]) \in Nat /\ i \in 1..(Len(wire[s]) + 1)
    BY <1>4
  <2>2. a \in Seq(A) /\ b \in Seq(A)
    BY <2>1
  <2>3. <<m>> \in Seq(A)
    BY <1>5, UnitInSeq
  <2>4. w = a \o <<m>> \o b
    BY DEF InsertAt
  <2> HIDE DEF a, b
  <2>5. a \o <<m>> \in Seq(A)
    BY <2>2, <2>3, ConcatProperties
  <2> QED  BY <2>2, <2>4, <2>5, ConcatProperties
<1>7. wire' = [wire EXCEPT ![s] = w]
  BY <1>2
<1> HIDE DEF w
<1>8. WireOK'
  <2>1. DOMAIN wire' = Side /\ \A t \in Side : wire'[t] \in Seq(A)
    BY <1>4, <1>6, <1>7 DEF FileInv, WireOK
  <2> QED  BY <2>1 DEF WireOK, A
<1>9. UNCHANGED <<sess, part, store, calls>> /\ (conn \in Conn)'
  BY <1>2 DEF FileInv
<1> QED  BY <1>8, <1>9, OthersKeep

LEMMA FileInit == Init => FileInv
<1> SUFFICES ASSUME Init PROVE FileInv
  OBVIOUS
<1>1. PICK e : e = <<>>
  OBVIOUS
<1>2. conn \in Conn
  BY FileAssumption DEF Init, Conn
<1>3. WireOK
  <2>1. wire = [s \in Side |-> e]
    BY <1>1, Zenon DEF Init
  <2>2. e \in Seq(Asdus({}))
    BY <1>1
  <2> QED  BY <2>1, <2>2 DEF WireOK
<1>4. /\ DOMAIN sess = Side /\ \A s \in Side : DOMAIN sess[s] = Conn
      /\ \A s \in Side, c \in Conn : DOMAIN sess[s][c] = Nof
      /\ \A s \in Side, c \in Conn, n \in Nof : sess[s][c][n] = NoSession
  BY DEF Init
<1>5. SessOK /\ Owned /\ OneSessionPerCall
  <2>1. PICK x : x = NoSession
    OBVIOUS
  <2>2. IsSession(x) /\ x.role = "none" /\ x.call = 0
    BY <2>1, NoSessionOK
  <2> QED  BY <1>4, <2>1, <2>2 DEF SessOK, Owned, OneSessionPerCall
<1>6. FilesOK /\ PartialHasWriter
  <2>1. PICK x : x = NoFile
    OBVIOUS
  <2>2. IsSeq(x)
    BY <2>1, NoFileIsSeq
  <2>3. /\ part = [s \in Side |-> [n \in Nof |-> x]]
        /\ store = [s \in Side |-> [n \in Nof |-> IF n \in Indexed[s] THEN File[s][n] ELSE x]]
    BY <2>1 DEF Init
  <2>4. \A s \in Side, n \in Nof : IsSeq(File[s][n])
    BY FileAssumption DEF IsSeq
  <2> QED  BY <2>1, <2>2, <2>3, <2>4 DEF FilesOK, IsFiles, PartialHasWriter
<1>7. CallsOK
  <2>1. calls = [s \in Side |-> e]
    BY <1>1, Zenon DEF Init
  <2>2. e \in Seq(CallRecords)
    BY <1>1
  <2> QED  BY <2>1, <2>2 DEF CallsOK
<1> QED  BY <1>2, <1>3, <1>5, <1>6, <1>7 DEF FileInv

LEMMA FileNext == FileInv /\ [Next]_vars => FileInv' /\ (CompletionStep \/ UNCHANGED vars)
<1> SUFFICES ASSUME FileInv, [Next]_vars PROVE FileInv' /\ (CompletionStep \/ UNCHANGED vars)
  OBVIOUS
<1>1. CASE Next
  BY <1>1, IntentKeeps, ReceiveKeeps, TickKeeps, ReconnectKeeps, ForeignKeeps DEF Next
<1>2. CASE UNCHANGED vars
  <2>1. UNCHANGED <<conn, wire, sess, part, store, calls>>
    BY <1>2 DEF vars
  <2>2. WireOK' /\ (conn \in Conn)'
    BY <2>1 DEF FileInv, WireOK
  <2> QED  BY <1>2, <2>1, <2>2, OthersKeep
<1> QED  BY <1>1, <1>2

-----------------------------------------------------------------------------
(* No exit path of the service - completion, failure, refusal, timeout, a  *)
(* dropped connection - leaves a .partial file without a session that will *)
(* rename or remove it (finalize_session, service.rs), for any number of   *)
(* files, calls, connections and faults.                                   *)
THEOREM PartialSafety == Spec => []PartialHasWriter
<1>1. FileInv /\ [Next]_vars => FileInv'
  BY FileNext
<1>2. FileInv => PartialHasWriter
  BY DEF FileInv
<1> QED  BY FileInit, <1>1, <1>2, PTL DEF Spec

(* The final path of a file is replaced only by the step that answers a    *)
(* waiting fetch of that file with Ok: an upload is written to .partial,   *)
(* and only finalize(true) renames it (service.rs, fs.rs).                 *)
THEOREM CompletionSafety == Spec => OnlyCompletionReplaces
<1>1. FileInv /\ [Next]_vars => FileInv' /\ [CompletionStep]_vars
  BY FileNext
<1>2. Spec => [][CompletionStep]_vars
  BY FileInit, <1>1, PTL DEF Spec
<1> QED  BY <1>2, PTL DEF OnlyCompletionReplaces, CompletionStep
=============================================================================
