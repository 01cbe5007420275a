----------------------------- MODULE AsduCodec -----------------------------
(***************************************************************************)
(* The ASDU encoder and decoder (asdu/header.rs, cot.rs, envelope.rs,      *)
(* io_list.rs and the payload types of asdu/types).                        *)
(*                                                                         *)
(* An ASDU is a record of its header fields and its raw payload octets; an *)
(* information object is [ioa, v] with v the fields of its element.  A     *)
(* decoder returns Ok of its result, or an error.                          *)
(***************************************************************************)
EXTENDS InfoElements

Ok(result) == [ok |-> TRUE, result |-> result]

Incomplete == [ok |-> FALSE, error |-> "Incomplete"]

UnknownAsduType == [ok |-> FALSE, error |-> "UnknownAsduType"]

(* AsduAddressing: the widths, in octets, of the COT, the common address   *)
(* and the information object address.                                     *)
IEC104 == [cot |-> 2, ca |-> 2, ioa |-> 3]

-----------------------------------------------------------------------------
(* Header.                                                                 *)

Vsq == << <<Bits("count", 7), Flag("sequence")>> >>

CotOctet == << <<Bits("cause", 6), Flag("negative"), Flag("test")>> >>

Originator == << <<Bits("originator", 8)>> >>

(* encode_1 and encode_2: the originator only in the two-octet form.       *)
EncodeCot(cot, size) ==
    EncodeElement(CotOctet, cot) \o (IF size = 2 THEN EncodeElement(Originator, cot) ELSE <<>>)

(* decode_1 and decode_2: without its octet the originator is 0.           *)
DecodeCot(bs, size) ==
    LET c == DecodeElement(CotOctet, bs)
    IN  [cause |-> c.cause, negative |-> c.negative, test |-> c.test,
         originator |-> IF size = 2 THEN bs[2] ELSE 0]

EncodeCa(ca, size) == Octets(ca, size)

DecodeCa(bs, size) == Number(SubSeq(bs, 1, size))

EncodeIoa(ioa, size) == Octets(ioa, size)

DecodeIoa(bs, size) == Number(SubSeq(bs, 1, size))

HeaderLen(p) == 1 + ElementLen(Vsq) + p.cot + p.ca

EncodeAsdu(a, p) ==
    <<a.type_id>> \o EncodeElement(Vsq, a.vsq) \o EncodeCot(a.cot, p.cot)
        \o EncodeCa(a.ca, p.ca) \o a.payload

From(bs, i) == SubSeq(bs, i, Len(bs))

DecodeAsdu(bs, p) ==
    IF Len(bs) < HeaderLen(p) THEN Incomplete
    ELSE Ok([type_id |-> bs[1], vsq |-> DecodeElement(Vsq, From(bs, 2)),
             cot |-> DecodeCot(From(bs, 3), p.cot),
             ca |-> DecodeCa(From(bs, 3 + p.cot), p.ca),
             payload |-> From(bs, HeaderLen(p) + 1)])

-----------------------------------------------------------------------------
(* Lists of information objects (io_list.rs).                              *)

(* encode_io_list: every object is written whatever the VSQ counts; in a   *)
(* sequence only the first one has its address.                            *)
EncodeIoList(e, objects, vsq, p) ==
    FlattenSeq([i \in 1 .. Len(objects) |->
        (IF vsq.sequence = 1 /\ i > 1 THEN <<>> ELSE EncodeIoa(objects[i].ioa, p.ioa))
            \o EncodeElement(e, objects[i].v)])

(* decode_io_list: vsq.count objects, or the error of the first one that   *)
(* does not fit; octets after the last object are ignored.                 *)
DecodeIoList(e, bs, vsq, p) ==
    LET n == vsq.count
        step == ElementLen(e) + (IF vsq.sequence = 1 THEN 0 ELSE p.ioa)
        need == n * step + (IF vsq.sequence = 1 /\ n > 0 THEN p.ioa ELSE 0)
        at(i) == 1 + (i - 1) * step
    IN  IF Len(bs) < need THEN Incomplete
        ELSE Ok([i \in 1 .. n |->
                   [ioa |-> IF vsq.sequence = 1 THEN DecodeIoa(bs, p.ioa) + i - 1
                                                ELSE DecodeIoa(From(bs, at(i)), p.ioa),
                    v   |-> DecodeElement(e, From(bs, p.ioa + at(i)))]])

(* The types with one object: an address and an element, the VSQ unread.   *)
EncodeSingle(e, o, p) == EncodeIoa(o.ioa, p.ioa) \o EncodeElement(e, o.v)

DecodeSingle(e, bs, p) ==
    IF Len(bs) < p.ioa + ElementLen(e) THEN Incomplete
    ELSE Ok(<<[ioa |-> DecodeIoa(bs, p.ioa), v |-> DecodeElement(e, From(bs, p.ioa + 1))]>>)

-----------------------------------------------------------------------------
(* The payload types: type identification, how its objects are laid out,   *)
(* and its element.                                                        *)

ListOf(id, e) == [id |-> id, shape |-> "list", e |-> e]

One(id, e) == [id |-> id, shape |-> "single", e |-> e]

NvaQds == Nva \o Qds

SvaQds == Sva \o Qds

R32Qds == R32 \o Qds

SiqTime == Siq \o Cp56Time2a

DiqTime == Diq \o Cp56Time2a

NvaQdsTime == Nva \o Qds \o Cp56Time2a

SvaQdsTime == Sva \o Qds \o Cp56Time2a

R32QdsTime == R32 \o Qds \o Cp56Time2a

MonitorTypes ==
    {ListOf(1, Siq), ListOf(3, Diq), ListOf(9, NvaQds), ListOf(11, SvaQds),
     ListOf(13, R32Qds), ListOf(30, SiqTime), ListOf(31, DiqTime),
     ListOf(34, NvaQdsTime), ListOf(35, SvaQdsTime), ListOf(36, R32QdsTime)}

ScoTime == Sco \o Cp56Time2a

NvaQos == Nva \o Qos

SvaQos == Sva \o Qos

R32Qos == R32 \o Qos

NvaQosTime == Nva \o Qos \o Cp56Time2a

SvaQosTime == Sva \o Qos \o Cp56Time2a

R32QosTime == R32 \o Qos \o Cp56Time2a

CommandTypes ==
    {ListOf(45, Sco), ListOf(46, Dco), ListOf(47, Rco), ListOf(48, NvaQos),
     ListOf(49, SvaQos), ListOf(50, R32Qos), ListOf(58, ScoTime),
     ListOf(61, NvaQosTime), ListOf(62, SvaQosTime), ListOf(63, R32QosTime),
     ListOf(100, Qoi)}

M_EI_NA_1 == One(70, Coi)

C_CI_NA_1 == One(101, Qcc)

C_RD_NA_1 == One(102, <<>>)

C_CS_NA_1 == One(103, Cp56Time2a)

C_RP_NA_1 == One(105, Qrp)

F_FR_NA_1 == One(120, NameOfFile \o LengthOfFile \o Frq)

F_SR_NA_1 == One(121, NameOfFile \o NameOfSection \o LengthOfSection \o Srq)

F_SC_NA_1 == One(122, NameOfFile \o NameOfSection \o Scq)

F_LS_NA_1 == One(123, NameOfFile \o NameOfSection \o Lsq \o Chs)

F_AF_NA_1 == One(124, NameOfFile \o NameOfSection \o Afq)

F_SG_NA_1 == [id |-> 125, shape |-> "segment", e |-> NameOfFile \o NameOfSection]

F_DR_TA_1 == ListOf(126, DirectoryEntry)

SystemTypes == {M_EI_NA_1, C_CI_NA_1, C_RD_NA_1, C_CS_NA_1, C_RP_NA_1}

FileTypes == {F_FR_NA_1, F_SR_NA_1, F_SC_NA_1, F_LS_NA_1, F_AF_NA_1, F_SG_NA_1, F_DR_TA_1}

PayloadTypes == MonitorTypes \cup CommandTypes \cup SystemTypes \cup FileTypes

MAX_SEGMENT_BYTES == 255

(* F_SG_NA_1: the octets of the segment, with their number before them; a  *)
(* longer segment is cut.                                                  *)
EncodeSegment(e, o, p) ==
    LET len == IF Len(o.data) < MAX_SEGMENT_BYTES THEN Len(o.data) ELSE MAX_SEGMENT_BYTES
    IN  EncodeSingle(e, o, p) \o <<len>> \o SubSeq(o.data, 1, len)

DecodeSegment(e, bs, p) ==
    LET head == p.ioa + ElementLen(e)
    IN  IF Len(bs) < head + 1 \/ Len(bs) < head + 1 + bs[head + 1] THEN Incomplete
        ELSE Ok(<<[ioa |-> DecodeIoa(bs, p.ioa), v |-> DecodeElement(e, From(bs, p.ioa + 1)),
                   data |-> SubSeq(bs, head + 2, head + 1 + bs[head + 1])]>>)

(* AsduPayload::encode_information_objects and its inverse.                *)
EncodeObjects(t, objects, vsq, p) ==
    CASE t.shape = "list"    -> EncodeIoList(t.e, objects, vsq, p)
      [] t.shape = "single"  -> EncodeSingle(t.e, objects[1], p)
      [] t.shape = "segment" -> EncodeSegment(t.e, objects[1], p)

DecodeObjects(t, bs, vsq, p) ==
    CASE t.shape = "list"    -> DecodeIoList(t.e, bs, vsq, p)
      [] t.shape = "single"  -> DecodeSingle(t.e, bs, p)
      [] t.shape = "segment" -> DecodeSegment(t.e, bs, p)

(* Asdu::from_payload                                                      *)
FromPayload(cot, ca, vsq, t, objects, p) ==
    [type_id |-> t.id, vsq |-> vsq, cot |-> cot, ca |-> ca,
     payload |-> EncodeObjects(t, objects, vsq, p)]

(* Asdu::decode_payload                                                    *)
DecodePayload(a, t, p) ==
    IF a.type_id # t.id THEN UnknownAsduType ELSE DecodeObjects(t, a.payload, a.vsq, p)
=============================================================================
