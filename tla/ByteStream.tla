----------------------------- MODULE ByteStream -----------------------------
(***************************************************************************)
(* From octets to ASDUs: the receiving half of the two drivers             *)
(* (driver.rs, driver101.rs) over the codecs.                              *)
(*                                                                         *)
(* A peer has written a few frames.  The driver reads the octets in pieces *)
(* of any size, decodes the complete frames at the head of its buffer and  *)
(* hands them on: on IEC 60870-5-104 through the AsduPolicy to the file    *)
(* transfer service or to the user, who decodes the objects; on 101 to the *)
(* link layer.  A 101 line may insert or alter one octet, after which the  *)
(* driver looks for the next start octet.                                  *)
(***************************************************************************)
EXTENDS Integers, Sequences, FiniteSets, Frame101Codec

CONSTANTS Items,        \* APDUs a 104 peer may send, their ASDUs as objects
          Policies,     \* the AsduPolicy of the 104 receiver
          Frames,       \* frames a 101 peer may send
          AddrSizes,    \* LinkAddressSize of the 101 line
          Noise,        \* octets the 101 line may insert
          Flips,        \* what the 101 line may add to one octet, modulo 256
          ReadSizes     \* how many octets one read may return

VARIABLES line,     \* "104" or "101"
          sent,     \* what the peer wrote
          cfg,      \* the policy of the 104 receiver; address size and direction of the 101 line
          noise,    \* the fault of the 101 line
          wire,     \* octets not read yet
          buf,      \* rx_buf
          out,      \* what was handed on
          open      \* the driver runs

vars == <<line, sent, cfg, noise, wire, buf, out, open>>

-----------------------------------------------------------------------------
(* AsduPolicy: each axis is {} (None) or {s} (Some of the allow-list s).   *)

Unrestricted == [type_ids |-> {}, causes |-> {}, cas |-> {}]

(* allow_type_id, allow_cause and allow_common_address on an axis: the     *)
(* first value turns it into an allow-list.                                *)
Allow(axis, x) == {UNION axis \cup {x}}

IsRestrictive(policy) == \E a \in DOMAIN policy : policy[a] # {}

Allows(policy, type_id, cause, ca) ==
    /\ \A s \in policy.type_ids : type_id \in s
    /\ \A s \in policy.causes : cause \in s
    /\ \A s \in policy.cas : ca \in s

(* Mutant: the P/N and test bits are left in the cause.                    *)
PassesPolicyUnmasked(asdu, policy) ==
    Len(asdu) < 6 \/ Allows(policy, asdu[1], asdu[3], Number(SubSeq(asdu, 5, 6)))

(* asdu_passes_policy: a peek at fixed offsets; a short ASDU passes.       *)
PassesPolicy(asdu, policy) ==
    Len(asdu) < 6 \/ Allows(policy, asdu[1], asdu[3] % 64, Number(SubSeq(asdu, 5, 6)))

-----------------------------------------------------------------------------
(* Handing an ASDU on, on 104.                                             *)

TypeOf(id) == CHOOSE t \in PayloadTypes : t.id = id

(* The user decodes the objects of the type the header names.              *)
ToUser(asdu) ==
    LET a == DecodeAsdu(asdu, IEC104).result
    IN  [to |-> "user", type_id |-> a.type_id, cot |-> a.cot, ca |-> a.ca,
         objects |-> DecodePayload(a, TypeOf(a.type_id), IEC104)]

(* peek_nof; -1 stands for None.                                           *)
PeekNof(a) == IF Len(a.payload) < 5 THEN -1 ELSE Number(SubSeq(a.payload, 4, 5))

(* decode_ft_asdu has no arm for a directory.                              *)
DecodeFtAsdu(a) ==
    IF a.type_id \in 120 .. 125 THEN DecodePayload(a, TypeOf(a.type_id), IEC104) ELSE UnknownAsduType

ToService(asdu) ==
    LET a == DecodeAsdu(asdu, IEC104).result
    IN  [to |-> "ft", type_id |-> a.type_id, ca |-> a.ca, nof |-> PeekNof(a),
         objects |-> DecodeFtAsdu(a)]

(* The DeliverAsdu arm of apply_actions.                                   *)
DeliverAsdu(asdu, policy) ==
    IF IsRestrictive(policy) /\ ~PassesPolicy(asdu, policy) THEN <<>>
    ELSE IF asdu # <<>> /\ asdu[1] \in 120 .. 126
         THEN IF DecodeAsdu(asdu, IEC104).ok THEN <<ToService(asdu)>> ELSE <<>>
         ELSE <<ToUser(asdu)>>

HandOn104(apdu, policy) ==
    IF apdu.fmt = "I" THEN DeliverAsdu(apdu.asdu, policy) ELSE <<apdu>>

-----------------------------------------------------------------------------
(* The read arms of the drivers.                                           *)

MAX_RX_BUFFERED == 4096

MAX_RX_BUFFERED_101 == 1024

FT12_START_BYTES == {START_FIXED, START_VAR} \cup {SingleChar[c] : c \in DOMAIN SingleChar}

(* driver.rs: every complete APDU is handed on; an error ends the driver.  *)
RECURSIVE Drain104(_, _, _)
Drain104(b, o, policy) ==
    LET d == DecodeSlice104(b)
    IN  CASE d.res = "None" -> [buf |-> b, out |-> o, open |-> Len(b) <= MAX_RX_BUFFERED]
          [] d.res = "Err"  -> [buf |-> b, out |-> o, open |-> FALSE]
          [] d.res = "Some" -> Drain104(From(b, d.consumed + 1),
                                        o \o HandOn104(d.frame, policy), policy)

(* Mutant: the whole buffer is thrown away.                                *)
ResyncDropsAll(b) == <<>>

(* driver101.rs: past the offending octet to the next start octet.         *)
Resync(b) ==
    LET starts == {i \in 2 .. Len(b) : b[i] \in FT12_START_BYTES}
    IN  IF starts = {} THEN <<>> ELSE From(b, Min(starts))

(* The link layer reads the control octet for the direction it expects.    *)
HandOn101(frame, prm) ==
    IF frame.fmt = "single" THEN frame
    ELSE [frame EXCEPT !.control = DecodeControl(@, prm)]

(* After an error the loop breaks: what is left waits for the next read.   *)
RECURSIVE Drain101(_, _, _)
Drain101(b, o, c) ==
    LET d == DecodeSlice101(b, c.size)
        stop(rest) == [buf |-> rest, out |-> o, open |-> Len(rest) <= MAX_RX_BUFFERED_101]
    IN  CASE d.res = "None" -> stop(b)
          [] d.res = "Err"  -> stop(Resync(b))
          [] d.res = "Some" -> Drain101(From(b, d.consumed + 1), Append(o, HandOn101(d.frame, c.prm)), c)

-----------------------------------------------------------------------------
(* What the peer writes.                                                   *)

ApduOf(item) ==
    IF item.fmt = "I"
    THEN IFrame(item.send, item.recv,
                EncodeAsdu(FromPayload(item.cot, item.ca, item.vsq, TypeOf(item.type_id), item.objects,
                                       IEC104), IEC104))
    ELSE item

(* SendFrame of the 101 link layer: the control field as its octet.        *)
FrameOf(f) == IF f.fmt = "single" THEN f ELSE [f EXCEPT !.control = EncodeControl(@)]

OctetsOf(l, x, c) ==
    IF l = "104" THEN EncodeApdu(ApduOf(x)) ELSE Encode101(FrameOf(x), c.size)

Written(l, s, c) == FlattenSeq([i \in 1 .. Len(s) |-> OctetsOf(l, s[i], c)])

(* The faults of the 101 line: none, an octet inserted, an octet altered.  *)
Clean == [kind |-> "clean", at |-> 0, octet |-> 0]

Faults(bs) ==
    {Clean} \cup [kind : {"insert"}, at : 1 .. Len(bs) + 1, octet : Noise]
            \cup [kind : {"alter"}, at : 1 .. Len(bs), octet : Flips]

Disturbed(bs, f) ==
    CASE f.kind = "clean"  -> bs
      [] f.kind = "insert" -> InsertAt(bs, f.at, f.octet)
      [] f.kind = "alter"  -> [bs EXCEPT ![f.at] = (@ + f.octet) % 256]

Init ==
    /\ \/ /\ line = "104"
          /\ \E x \in Items : sent = <<x, SFrame(32767)>>
          /\ cfg \in Policies
          /\ noise = Clean
       \/ /\ line = "101"
          /\ cfg \in [size : AddrSizes, prm : {0, 1}]
          /\ LET F == {f \in Frames : f.fmt = "single" \/ f.control.prm = cfg.prm}
             IN  sent \in F \X F
          /\ noise \in Faults(Written("101", sent, cfg))
    /\ wire = Disturbed(Written(line, sent, cfg), noise)
    /\ buf = <<>> /\ out = <<>> /\ open = TRUE

Read(n) ==
    /\ open /\ wire # <<>>
    /\ LET k == IF n < Len(wire) THEN n ELSE Len(wire)
           b == buf \o SubSeq(wire, 1, k)
           r == IF line = "104" THEN Drain104(b, out, cfg) ELSE Drain101(b, out, cfg)
       IN  /\ wire' = From(wire, k + 1)
           /\ buf' = r.buf /\ out' = r.out /\ open' = r.open
    /\ UNCHANGED <<line, sent, cfg, noise>>

Next == \E n \in ReadSizes : Read(n)

Spec == Init /\ [][Next]_vars

-----------------------------------------------------------------------------
(* What the receiver should get, from the objects and not the octets.      *)

(* A field keeps what fits into its width.                                 *)
Kept(f, x) ==
    IF f.signed THEN ((x + 2 ^ (f.width - 1)) % 2 ^ f.width) - 2 ^ (f.width - 1)
                ELSE x % 2 ^ f.width

KeptObject(t, o, ioa) ==
    LET field(name) == CHOOSE f \in UNION {Range(t.e[j]) : j \in 1 .. Len(t.e)} : f.name = name
        v == [name \in DOMAIN o.v |-> Kept(field(name), o.v[name])]
    IN  IF t.shape = "segment"
        THEN [ioa |-> ioa, v |-> v, data |-> SubSeq(o.data, 1, Min({Len(o.data), MAX_SEGMENT_BYTES}))]
        ELSE [ioa |-> ioa, v |-> v]

(* As many objects as the VSQ counts, if that many were written; those of  *)
(* a sequence at consecutive addresses from the first.                     *)
KeptObjects(item) ==
    LET t == TypeOf(item.type_id)
        n == IF t.shape = "list" THEN item.vsq.count % 128 ELSE 1
        ioa(i) == IF t.shape = "list" /\ item.vsq.sequence = 1
                  THEN (item.objects[1].ioa % 256 ^ 3) + i - 1
                  ELSE item.objects[i].ioa % 256 ^ 3
    IN  IF n > Len(item.objects) THEN Incomplete
        ELSE Ok([i \in 1 .. n |-> KeptObject(t, item.objects[i], ioa(i))])

Expected(item, policy) ==
    IF item.fmt # "I" THEN <<item>>
    ELSE IF ~Allows(policy, item.type_id, item.cot.cause % 64, item.ca) THEN <<>>
    ELSE LET got == KeptObjects(item)
         IN  IF item.type_id \in 120 .. 126
             THEN <<[to |-> "ft", type_id |-> item.type_id, ca |-> item.ca,
                     nof |-> IF item.objects = <<>> THEN -1 ELSE item.objects[1].v.nof,
                     objects |-> IF item.type_id = 126 THEN UnknownAsduType ELSE got]>>
             ELSE <<[to |-> "user", type_id |-> item.type_id,
                     cot |-> [item.cot EXCEPT !.cause = @ % 64], ca |-> item.ca,
                     objects |-> got]>>

(* How many of the sent frames have been read to their last octet.         *)
ReadOctets == Len(Written(line, sent, cfg)) - Len(wire)

Complete ==
    {i \in 1 .. Len(sent) : Len(Written(line, SubSeq(sent, 1, i), cfg)) <= ReadOctets}

-----------------------------------------------------------------------------
(* The state is what it should be.                                         *)
TypeOK ==
    /\ line \in {"104", "101"}
    /\ Range(wire) \cup Range(buf) \subseteq Octet
    /\ open \in BOOLEAN

(* Codec::decode_slice, the loop of driver.rs and the payload decoders     *)
(* together: however the stream is cut into reads, at every moment exactly *)
(* the frames read to their last octet have been handed on, once, in       *)
(* order, each permitted ASDU to its receiver with the objects that were   *)
(* encoded, and no valid frame closes the driver.                          *)
HandedOnAsSent ==
    line = "104" =>
        /\ open
        /\ out = FlattenSeq([i \in 1 .. Cardinality(Complete) |-> Expected(sent[i], cfg)])

(* The checksum, length and end octets of FT 1.2 with the resync of        *)
(* driver101.rs: after one inserted or altered octet the frames with a     *)
(* control field that are handed on are frames the peer sent, in order.    *)
NoForgedFrame ==
    line = "101" =>
        LET framed(s) == SelectSeq(s, LAMBDA f : f.fmt # "single")
            got == framed(out)
        IN  \E I \in SUBSET (1 .. Len(framed(sent))) :
              got = [k \in 1 .. Cardinality(I) |-> framed(sent)[SetToSortSeq(I, <)[k]]]

(* The resync of driver101.rs: an octet between two frames that is no      *)
(* start octet costs no frame, only its delay to the next read: what was   *)
(* handed on with what is still buffered is what was sent.                 *)
NoiseCostsNoFrame ==
    (/\ line = "101" /\ wire = <<>>
     /\ \/ noise = Clean
        \/ /\ noise.kind = "insert" /\ noise.octet \notin FT12_START_BYTES
           /\ \E i \in 0 .. Len(sent) :
                noise.at = Len(Written(line, SubSeq(sent, 1, i), cfg)) + 1)
    => Drain101(buf, out, cfg).out = sent
=============================================================================
