--------------------------- MODULE FileTransfer ---------------------------
(***************************************************************************)
(* The file-transfer stack at the two ends of an IEC 104 connection: the   *)
(* sans-I/O session (iec60870-proto, file_transfer/session.rs), the        *)
(* service task that owns the sessions of one connection                   *)
(* (iec60870, file_transfer/service.rs), and the directory-backed provider *)
(* (file_transfer/fs.rs) that the services of a side share.                *)
(*                                                                         *)
(* A file is the sequence of its segments, each full (max_segment_bytes    *)
(* octets) and abstracted to one value.  The connection is a pair of FIFO  *)
(* wires; when it is dropped the services bound to it keep running,        *)
(* because their ticker keeps the loop alive, and a new connection brings  *)
(* new services over the same directories.                                 *)
(***************************************************************************)
EXTENDS Integers, Sequences, FiniteSets, SequencesExt

CONSTANTS
    Side,            \* the two ends of the connection
    Nof,             \* names of files (16-bit identifiers in the code)
    File,            \* File[s][n]: what side s holds under n when it starts
    Indexed,         \* Indexed[s]: the names in the provider's index of s
    MaxSessions,     \* config.max_concurrent_sessions
    MaxInbound,      \* config.max_inbound_file_bytes, in full segments
    MaxSegment,      \* config.max_segment_bytes
    MaxIntent,       \* bound: MaxIntent[s], calls of fetch and push at side s
    MaxConn,         \* bound: connections made
    MaxReadError,    \* bound: reads of a file that fail
    MaxForeign,      \* bound: ASDUs only a peer of another make would send
    MaxFault,        \* bound: read errors, foreign ASDUs and reconnections together
    Timely           \* sessions expire only when nothing is in flight

ASSUME FileAssumption ==
    /\ \A s \in Side : \E p \in Side : p # s
    /\ \A s \in Side, n \in Nof : File[s][n] \in Seq(1..255)
    /\ \A s \in Side : Indexed[s] \subseteq Nof
    /\ {MaxSessions, MaxInbound, MaxSegment, MaxConn, MaxReadError, MaxForeign, MaxFault} \subseteq Nat
    /\ MaxConn > 0
    /\ \A s \in Side : MaxIntent[s] \in Nat
    /\ Timely \in BOOLEAN

VARIABLES
    conn,    \* number of the connection in use
    up,      \* its driver tasks are running
    wire,    \* wire[s]: ASDUs on their way to side s
    sess,    \* sess[s][c][n]: session of the service of connection c, or NoSession
    part,    \* part[s][n]: content of the .partial file, or NoFile
    store,   \* store[s][n]: content of the final path, or NoFile
    calls,   \* calls[s]: the fetch and push calls made at s, with their answers
    shared,  \* shared[s][n]: two live writers of s have had the same .partial
    used     \* bounded faults so far

vars == <<conn, up, wire, sess, part, store, calls, shared, used>>

Peer(s) == CHOOSE p \in Side : p # s
Conn == 1..MaxConn
FaultLeft == used.readError + used.foreign + (conn - 1) < MaxFault
NoFile == <<0>>
NoSession == [role |-> "none", st |-> "Idle", src |-> <<>>, chs |-> 0, bytes |-> 0, call |-> 0]
Live(s, c) == {n \in Nof : sess[s][c][n] # NoSession}

(* The six ASDUs, with the fields the session looks at. *)
FileReady(n, ok, len) == [t |-> "F_FR", n |-> n, ok |-> ok, x |-> len]
SectionReady(n, ok)   == [t |-> "F_SR", n |-> n, ok |-> ok, x |-> 0]
SelectCall(n, action) == [t |-> action, n |-> n, ok |-> TRUE, x |-> 0]
LastSection(n, chs)   == [t |-> "F_LS", n |-> n, ok |-> TRUE, x |-> chs]
AckFile(n, ok)        == [t |-> "F_AF", n |-> n, ok |-> ok, x |-> 0]
Segment(n, octet)     == [t |-> "F_SG", n |-> n, ok |-> TRUE, x |-> octet]
SelectActions == {"SELECT", "REQUEST", "DEACTIVATE"}

(* An ASDU longer than MAX_ASDU_LEN is refused by Codec::encode, and the   *)
(* driver that was to send it returns the error and closes the connection. *)
(* A segment's ASDU has 14 octets around the data: type, VSQ, COT and CA   *)
(* (6), IOA, NOF, NOS and the length of the segment (8).  Segments are all *)
(* of one size and go out behind a SectionReady, which is then the last    *)
(* ASDU on the wire.                                                       *)
MaxAsduLen == 249
Oversize(m) == m.t = "F_SG" /\ 14 + MaxSegment > MaxAsduLen
Broken(out) == \E i \in DOMAIN out : Oversize(out[i])
Sent(out) == IF Broken(out) THEN <<Head(out)>> ELSE out

-----------------------------------------------------------------------------
(* The session: every handler maps a session to the session after it, the  *)
(* ASDUs it sends, the octets it hands to the writer, and how it ended.    *)

Checksum(octets) == FoldSeq(LAMBDA x, y : (x + y) % 256, 0, octets)

NewSession(role, src, call) == [NoSession EXCEPT !.role = role, !.src = src, !.call = call]

Result(s, out) == [s |-> s, out |-> out, data |-> <<>>, end |-> "no"]
Fail(s, out)   == [Result(s, out) EXCEPT !.end = "failed"]
Done(s, out)   == [Result(s, out) EXCEPT !.end = "completed"]

OnStart(s, n) ==
    CASE s.st # "Idle"       -> Result(s, <<>>)
      [] s.role = "receiver" -> Result([s EXCEPT !.st = "RxAwaitFileReady"],
                                       <<SelectCall(n, "SELECT")>>)
      [] s.role = "sender"   -> Result([s EXCEPT !.st = "TxAwaitSelect"],
                                       <<FileReady(n, TRUE, Len(s.src))>>)

OnFileReady(s, m) ==
    CASE s.role # "receiver" -> Result(s, <<>>)
      [] s.role = "receiver" /\ (s.st # "RxAwaitFileReady" \/ ~m.ok) -> Fail(s, <<>>)
      [] OTHER -> Result([s EXCEPT !.st = "RxAwaitSectionReady"],
                         <<SelectCall(m.n, "REQUEST")>>)

OnSectionReady(s, m) ==
    IF s.st # "RxAwaitSectionReady" \/ ~m.ok
    THEN Fail(s, <<>>)
    ELSE Result([s EXCEPT !.st = "RxReceivingSegments", !.bytes = 0, !.chs = 0], <<>>)

(* The provider is asked for the chunks one after the other, within the    *)
(* handling of the REQUEST (apply_actions and pump_reader); `read` of them *)
(* come, then the end of the file or an error that is taken for it.        *)
SendAllSegments(s, n, read) ==
    LET octets == SubSeq(s.src, 1, read)
    IN  Result([s EXCEPT !.st = "TxAwaitAck", !.bytes = read, !.chs = Checksum(octets)],
               <<SectionReady(n, TRUE)>>
                 \o [i \in 1..read |-> Segment(n, octets[i])]
                 \o <<LastSection(n, Checksum(octets))>>)

OnSelectCall(s, m, read) ==
    CASE s.role = "sender" /\ s.st \in {"Idle", "TxAwaitSelect"} /\ m.t = "SELECT" ->
             Result([s EXCEPT !.st = "TxAwaitRequest"], <<FileReady(m.n, TRUE, Len(s.src))>>)
      [] s.role = "sender" /\ s.st = "TxAwaitRequest" /\ m.t = "REQUEST" ->
             SendAllSegments(s, m.n, read)
      [] OTHER -> Fail(s, <<>>)

(* Mutant: a segment is accepted in every state. *)
OnSegmentAnytime(s, m) ==
    [Result([s EXCEPT !.chs = (@ + m.x) % 256, !.bytes = @ + 1], <<>>) EXCEPT !.data = <<m.x>>]

OnSegment(s, m) ==
    IF s.st # "RxReceivingSegments"
    THEN Fail(s, <<>>)
    ELSE [Result([s EXCEPT !.chs = (@ + m.x) % 256, !.bytes = @ + 1], <<>>)
             EXCEPT !.data = <<m.x>>]

(* Mutant: the checksum is not compared. *)
OnLastSectionUnchecked(s, m) ==
    IF s.st # "RxReceivingSegments" THEN Fail(s, <<>>) ELSE Done(s, <<AckFile(m.n, TRUE)>>)

OnLastSection(s, m) ==
    CASE s.st # "RxReceivingSegments" -> Fail(s, <<>>)
      [] s.st = "RxReceivingSegments" /\ m.x # s.chs -> Fail(s, <<AckFile(m.n, FALSE)>>)
      [] OTHER -> Done(s, <<AckFile(m.n, TRUE)>>)

(* Mutant: an acknowledgement is accepted in every state. *)
OnAckFileAnytime(s, m) == IF ~m.ok THEN Fail(s, <<>>) ELSE Done(s, <<>>)

OnAckFile(s, m) ==
    IF s.st # "TxAwaitAck" \/ ~m.ok THEN Fail(s, <<>>) ELSE Done(s, <<>>)

Step(s, m, read) ==
    CASE m.t = "F_FR" -> OnFileReady(s, m)
      [] m.t = "F_SR" -> OnSectionReady(s, m)
      [] m.t = "F_LS" -> OnLastSection(s, m)
      [] m.t = "F_AF" -> OnAckFile(s, m)
      [] m.t = "F_SG" -> OnSegment(s, m)
      [] m.t \in SelectActions -> OnSelectCall(s, m, read)

-----------------------------------------------------------------------------
(* The provider. *)

Lookup(s, n) == IF n \in Indexed[s] THEN store[s][n] ELSE NoFile

(* File::create truncates a .partial that is already there, whoever has it *)
(* open: the content is empty afterwards, and two writers may share it.    *)
OpenWrite == <<>>
NoteWriter(s, n) ==
    shared' = [shared EXCEPT ![s][n] =
                  @ \/ \E d \in Conn \ {conn} : sess[s][d][n].role = "receiver"]

(* A writer whose .partial has been removed writes to an unlinked file. *)
WriteSegment(p, octets) == IF p = NoFile THEN p ELSE p \o octets

(* Mutants: a failed transfer is renamed as well, or leaves its .partial. *)
FinalizeRenames(s, n, ended, p) ==
    IF ended # "no" /\ p # NoFile
    THEN part' = [part EXCEPT ![s][n] = NoFile] /\ store' = [store EXCEPT ![s][n] = p]
    ELSE part' = [part EXCEPT ![s][n] = p] /\ UNCHANGED store

FinalizeLeaves(s, n, ended, p) ==
    IF ended = "completed" /\ p # NoFile
    THEN part' = [part EXCEPT ![s][n] = NoFile] /\ store' = [store EXCEPT ![s][n] = p]
    ELSE part' = [part EXCEPT ![s][n] = p] /\ UNCHANGED store

(* What finalize_session does to the files of a receiver: rename, which    *)
(* fails and changes nothing when the .partial is gone, or remove_file.    *)
Finalize(s, n, ended, p) ==
    CASE ended = "completed" /\ p # NoFile -> part' = [part EXCEPT ![s][n] = NoFile]
                                              /\ store' = [store EXCEPT ![s][n] = p]
      [] ended = "completed" /\ p = NoFile -> UNCHANGED <<part, store>>
      [] ended = "failed" -> part' = [part EXCEPT ![s][n] = NoFile] /\ UNCHANGED store
      [] ended = "no" -> part' = [part EXCEPT ![s][n] = p] /\ UNCHANGED store

-----------------------------------------------------------------------------
(* The service. *)

(* Mutant: the caller hears of success only. *)
AnswerOkOnly(s, call, result) ==
    IF result = "ok" THEN [calls EXCEPT ![s][call].res = result] ELSE calls

Answer(s, call, result) == [calls EXCEPT ![s][call].res = result]

(* apply_actions: the octets go to the writer, whose .partial holds p, and *)
(* an ended session is removed, its files finalised and its caller         *)
(* answered whatever finalize returned.  The caller of this operator sends *)
(* r.out.                                                                  *)
ApplyActions(s, c, n, r, p) ==
    /\ sess' = [sess EXCEPT ![s][c][n] = IF r.end = "no" THEN r.s ELSE NoSession]
    /\ IF r.s.role = "receiver"
       THEN Finalize(s, n, r.end, WriteSegment(p, r.data))
       ELSE UNCHANGED <<part, store>>
    /\ calls' = IF r.end # "no" /\ r.s.call # 0
                THEN Answer(s, r.s.call, IF r.end = "completed" THEN "ok" ELSE "err")
                ELSE calls

(* The fetches of n that side s has completed. *)
Fetched(s, n) == {i \in DOMAIN calls[s] :
    calls[s][i].kind = "fetch" /\ calls[s][i].n = n /\ calls[s][i].res = "ok"}

(* before is history: the fetches the peer had completed when the call came. *)
NewCall(s, kind, n, result) ==
    /\ Len(calls[s]) < MaxIntent[s]
    /\ calls' = [calls EXCEPT ![s] = Append(@,
                    [kind |-> kind, n |-> n, res |-> result,
                     before |-> Fetched(Peer(s), n)])]

(* Mutant: the cap admits one session too many. *)
RefusedLate(s, n) == n \in Live(s, conn) \/ Cardinality(Live(s, conn)) > MaxSessions

Refused(s, n) == n \in Live(s, conn) \/ Cardinality(Live(s, conn)) >= MaxSessions

OnFetch(s, n) ==
    \/ /\ Refused(s, n)
       /\ NewCall(s, "fetch", n, "err")
       /\ UNCHANGED <<wire, sess, part, shared>>
    \/ /\ ~Refused(s, n)
       /\ NewCall(s, "fetch", n, "wait")
       /\ part' = [part EXCEPT ![s][n] = OpenWrite]
       /\ NoteWriter(s, n)
       /\ LET r == OnStart(NewSession("receiver", <<>>, Len(calls[s]) + 1), n)
          IN  /\ sess' = [sess EXCEPT ![s][conn][n] = r.s]
              /\ wire' = [wire EXCEPT ![Peer(s)] = IF up THEN @ \o r.out ELSE @]

OnPush(s, n) ==
    \/ /\ Refused(s, n) \/ Lookup(s, n) = NoFile
       /\ NewCall(s, "push", n, "err")
       /\ UNCHANGED <<wire, sess, part, shared>>
    \/ /\ ~Refused(s, n) /\ Lookup(s, n) # NoFile
       /\ NewCall(s, "push", n, "wait")
       /\ LET r == OnStart(NewSession("sender", Lookup(s, n), Len(calls[s]) + 1), n)
          IN  /\ sess' = [sess EXCEPT ![s][conn][n] = r.s]
              /\ wire' = [wire EXCEPT ![Peer(s)] = IF up THEN @ \o r.out ELSE @]
       /\ UNCHANGED <<part, shared>>

OnIntent == \E s \in Side, n \in Nof :
    /\ OnFetch(s, n) \/ OnPush(s, n)
    /\ UNCHANGED <<conn, up, store, used>>

(* on_incoming for a name without a session.  The passive receiver is left *)
(* Idle; the passive sender is started, and what Start emits is dropped.   *)
Ignored(s, m) ==
    \/ Cardinality(Live(s, conn)) >= MaxSessions
    \/ m.t \notin SelectActions \union {"F_FR"}
    \/ m.t = "F_FR" /\ m.x > MaxInbound
    \/ m.t \in SelectActions /\ Lookup(s, m.n) = NoFile

PassiveSession(s, m) ==
    IF m.t = "F_FR" THEN NewSession("receiver", <<>>, 0)
                    ELSE OnStart(NewSession("sender", Lookup(s, m.n), 0), m.n).s

OnIncoming(s, read) ==
    LET m == Head(wire[s])
        known == sess[s][conn][m.n] # NoSession
        opens == ~known /\ m.t = "F_FR"
        r == Step(IF known THEN sess[s][conn][m.n] ELSE PassiveSession(s, m), m, read)
    IN  \/ /\ known \/ ~Ignored(s, m)
           /\ wire' = [wire EXCEPT ![s] = Tail(@),
                                    ![Peer(s)] = IF up THEN @ \o Sent(r.out) ELSE @]
           /\ up' = (up /\ ~Broken(r.out))
           /\ ApplyActions(s, conn, m.n, r, IF opens THEN OpenWrite ELSE part[s][m.n])
           /\ IF opens THEN NoteWriter(s, m.n) ELSE UNCHANGED shared
        \/ /\ ~known /\ Ignored(s, m)
           /\ wire' = [wire EXCEPT ![s] = Tail(@)]
           /\ UNCHANGED <<up, sess, part, store, calls, shared>>

(* The octets the sender reads of the file it has open: all of them, or    *)
(* fewer when a read fails.                                                *)
Source(s, n) ==
    IF sess[s][conn][n] # NoSession THEN sess[s][conn][n].src ELSE <<>>

Receive == \E s \in Side :
    /\ wire[s] # <<>>
    /\ LET m == Head(wire[s])
           size == Len(Source(s, m.n))
       IN  \/ /\ OnIncoming(s, size)
              /\ UNCHANGED used
           \/ /\ m.t = "REQUEST" /\ sess[s][conn][m.n].st = "TxAwaitRequest"
              /\ used.readError < MaxReadError /\ FaultLeft
              /\ used' = [used EXCEPT !.readError = @ + 1]
              /\ \E read \in 0..(size - 1) : OnIncoming(s, read)
    /\ UNCHANGED conn

(* on_tick: the idle timeout of a session, in any connection's service. *)
OnTick == \E s \in Side, c \in Conn, n \in Nof :
    /\ sess[s][c][n] # NoSession
    /\ Timely => wire = [q \in Side |-> <<>>]
    /\ ApplyActions(s, c, n, Fail(sess[s][c][n], <<>>), part[s][n])
    /\ UNCHANGED <<conn, up, wire, shared, used>>

-----------------------------------------------------------------------------
(* Faults of the environment. *)

(* The connection drops and is made anew: ASDUs in flight are lost, and    *)
(* what the old services send goes to a closed channel.                    *)
Reconnect ==
    /\ conn < MaxConn /\ FaultLeft
    /\ conn' = conn + 1
    /\ up' = TRUE
    /\ wire' = [s \in Side |-> <<>>]
    /\ UNCHANGED <<sess, part, store, calls, shared, used>>

ForeignAsdu(n) == {FileReady(n, FALSE, 0), SectionReady(n, FALSE), SelectCall(n, "DEACTIVATE"),
                   AckFile(n, FALSE), Segment(n, 9)}

(* It may come between any two ASDUs of the peer. *)
Foreign == \E s \in Side, n \in Nof : \E m \in ForeignAsdu(n), i \in 1..(Len(wire[s]) + 1) :
    /\ used.foreign < MaxForeign /\ FaultLeft
    /\ up
    /\ used' = [used EXCEPT !.foreign = @ + 1]
    /\ wire' = [wire EXCEPT ![s] = InsertAt(@, i, m)]
    /\ UNCHANGED <<conn, up, sess, part, store, calls, shared>>

Init ==
    /\ conn = 1
    /\ up = TRUE
    /\ wire = [s \in Side |-> <<>>]
    /\ sess = [s \in Side |-> [c \in Conn |-> [n \in Nof |-> NoSession]]]
    /\ part = [s \in Side |-> [n \in Nof |-> NoFile]]
    /\ store = [s \in Side |-> [n \in Nof |-> IF n \in Indexed[s] THEN File[s][n] ELSE NoFile]]
    /\ calls = [s \in Side |-> <<>>]
    /\ shared = [s \in Side |-> [n \in Nof |-> FALSE]]
    /\ used = [readError |-> 0, foreign |-> 0]

Next == OnIntent \/ Receive \/ OnTick \/ Reconnect \/ Foreign

Spec == Init /\ [][Next]_vars

(* The service task always runs: its ticker fires, and with FairSpec its   *)
(* channels drain as well.                                                 *)
TickSpec == Spec /\ WF_vars(OnTick)
FairSpec == TickSpec /\ WF_vars(Receive)

-----------------------------------------------------------------------------
(* Properties. *)

Octets == 0..255
States == {"Idle", "RxAwaitFileReady", "RxAwaitSectionReady", "RxReceivingSegments",
           "TxAwaitSelect", "TxAwaitRequest", "TxAwaitAck"}

(* Type correctness, and the cap on concurrent sessions of one service     *)
(* (max_concurrent_sessions), which both on_intent and on_incoming guard.  *)
TypeOK ==
    /\ conn \in Conn /\ up \in BOOLEAN
    /\ \A s \in Side : \A i \in DOMAIN wire[s] : wire[s][i].n \in Nof /\ wire[s][i].x \in Octets
    /\ \A s \in Side, c \in Conn, n \in Nof :
          /\ sess[s][c][n].st \in States
          /\ sess[s][c][n].role \in {"none", "sender", "receiver"}
          /\ {sess[s][c][n].chs, sess[s][c][n].bytes} \subseteq Octets
          /\ sess[s][c][n].call \in 0..Len(calls[s])
    /\ \A s \in Side, c \in Conn : Cardinality(Live(s, c)) <= MaxSessions
    /\ \A s \in Side : \A i \in DOMAIN calls[s] : calls[s][i].res \in {"wait", "ok", "err"}
    /\ used \in [readError : 0..MaxReadError, foreign : 0..MaxForeign]

(* The contents a transfer of n to side s can bring: a version its peer    *)
(* held, whole, or cut short where a read of it failed.                    *)
Versions(s, n) == {File[p][n] : p \in {q \in Side : n \in Indexed[q]
                                          /\ (q = s => Fetched(Peer(s), n) # {})}}
Cut(f) == {SubSeq(f, 1, k) : k \in 0..Len(f)}

(* When fetch returns Ok the file is stored: finalize_session answers the  *)
(* caller after the rename, and the content is a version the peer held,    *)
(* whole unless a read failed at the sender (pump_reader takes an error    *)
(* for the end of the file).  It needs that no other service of this side  *)
(* has had the same .partial open, because finalize errors are only logged.*)
FetchOkMeansStored == [][
    \A s \in Side : \A i \in DOMAIN calls[s] :
        LET n == calls[s][i].n IN
        /\ calls[s][i].kind = "fetch"
        /\ calls[s][i].res = "wait" /\ calls'[s][i].res = "ok"
        /\ ~shared[s][n]
        => \E f \in Versions(s, n) :
              store'[s][n] \in IF used.readError = 0 THEN {f} ELSE Cut(f)]_vars

(* A transfer that fails, times out or is cut off never touches the final  *)
(* path: it is only replaced in the step that answers a fetch with Ok      *)
(* (write to .partial, rename in finalize).                                *)
OnlyCompletionReplaces == [][
    \A s \in Side, n \in Nof : store'[s][n] # store[s][n] =>
        \E i \in DOMAIN calls[s] :
            /\ calls[s][i].kind = "fetch" /\ calls[s][i].n = n
            /\ calls[s][i].res = "wait" /\ calls'[s][i].res = "ok"]_vars

(* ASDUs of an abandoned session that are still in flight never mix into a *)
(* later session of the same file: what the receiver has written so far is *)
(* the beginning of one version of the file (no ASDU of a foreign peer).   *)
NoMixing ==
    used.foreign = 0 =>
        \A s \in Side, n \in Nof :
            part[s][n] # NoFile => \E p \in Side : part[s][n] \in Cut(File[p][n])

(* A .partial file has a session that will rename or remove it: no exit    *)
(* path of the service leaves one behind.                                  *)
PartialHasWriter ==
    \A s \in Side, n \in Nof :
        part[s][n] # NoFile => \E c \in Conn : sess[s][c][n].role = "receiver"

(* push returns Ok only when the peer has fetched the file since the call: *)
(* the positive F_AF a sender accepts is the one of this transfer, never   *)
(* that of an earlier one on the connection (session.rs on_ack_file).      *)
PushOkMeansFetched ==
    \A s \in Side : \A i \in DOMAIN calls[s] :
        calls[s][i].kind = "push" /\ calls[s][i].res = "ok" =>
            Fetched(Peer(s), calls[s][i].n) \ calls[s][i].before # {}

(* Every fetch and push is answered, whatever the peer and the connection  *)
(* do, if only the ticker runs: sessions end, also those of services whose *)
(* connection is gone.                                                     *)
CallsAnswered ==
    []<>(\A s \in Side : \A i \in DOMAIN calls[s] : calls[s][i].res # "wait")

(* What the file-transfer documentation promises of fetch with the default *)
(* configuration: between two of these services, with no fault, a fetch of *)
(* a file the peer holds is answered Ok.                                   *)
FetchSucceeds == \A s \in Side : \A i \in 1..MaxIntent[s] :
    (i <= Len(calls[s]) /\ calls[s][i].kind = "fetch" /\ calls[s][i].res = "wait"
        /\ calls[s][i].n \in Indexed[Peer(s)])
        ~> (i <= Len(calls[s]) /\ calls[s][i].res = "ok")
=============================================================================
