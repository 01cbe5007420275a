--------------------------- MODULE Frame104Codec ---------------------------
(***************************************************************************)
(* The APDU codec of IEC 60870-5-104 (frame104/codec.rs, apdu.rs, seq.rs)  *)
(* on octets.  decode_slice returns a frame and the octets it took, None   *)
(* when more octets are needed, or an error.                               *)
(***************************************************************************)
EXTENDS Integers, Sequences, AsduCodec

START == 104

MAX_ASDU_LEN == 249

None == [res |-> "None"]

Some(frame, consumed) == [res |-> "Some", frame |-> frame, consumed |-> consumed]

Err(error) == [res |-> "Err", error |-> error]

(* UFunction::first_octet                                                  *)
FirstOctet ==
    [StartDtAct |-> 7, StartDtCon |-> 11, StopDtAct |-> 19, StopDtCon |-> 35,
     TestFrAct |-> 67, TestFrCon |-> 131]

(* SeqNo::to_wire and from_wire: the 15 bits above the lowest one.         *)
ToWire(s) == Octets(s * 2, 2)

FromWire(bs) == Number(bs) \div 2

IFrame(send, recv, asdu) == [fmt |-> "I", send |-> send, recv |-> recv, asdu |-> asdu]

SFrame(recv) == [fmt |-> "S", recv |-> recv]

UFrame(function) == [fmt |-> "U", function |-> function]

TooLong(apdu) == apdu.fmt = "I" /\ Len(apdu.asdu) > MAX_ASDU_LEN

(* Codec::encode of an APDU that is not TooLong, which is refused whole.   *)
EncodeApdu(apdu) ==
    CASE apdu.fmt = "I" -> <<START, 4 + Len(apdu.asdu)>> \o ToWire(apdu.send)
                               \o ToWire(apdu.recv) \o apdu.asdu
      [] apdu.fmt = "S" -> <<START, 4, 1, 0>> \o ToWire(apdu.recv)
      [] apdu.fmt = "U" -> <<START, 4, FirstOctet[apdu.function], 0, 0, 0>>

(* Codec::decode_payload on the octets the length octet counts.            *)
DecodeApdu(bs) ==
    LET c1 == bs[1]
        named == {f \in DOMAIN FirstOctet : FirstOctet[f] = c1}
    IN  CASE c1 % 2 = 0 ->
               IFrame(FromWire(SubSeq(bs, 1, 2)), FromWire(SubSeq(bs, 3, 4)), From(bs, 5))
          [] c1 % 2 = 1 /\ Len(bs) # 4 -> [fmt |-> "LengthMismatch"]
          [] c1 % 4 = 1 /\ Len(bs) = 4 -> SFrame(FromWire(SubSeq(bs, 3, 4)))
          [] c1 % 4 = 3 /\ Len(bs) = 4 /\ named = {} -> [fmt |-> "UnsupportedFormat"]
          [] c1 % 4 = 3 /\ Len(bs) = 4 /\ named # {} -> UFrame(CHOOSE f \in named : TRUE)

(* Codec::decode_slice                                                     *)
DecodeSlice104(buf) ==
    LET total == 2 + buf[2]
        apdu == DecodeApdu(SubSeq(buf, 3, total))
    IN  CASE Len(buf) < 2 -> None
          [] Len(buf) >= 2 /\ buf[1] # START -> Err("InvalidStartByte")
          [] Len(buf) >= 2 /\ buf[1] = START /\ buf[2] < 4 -> Err("LengthMismatch")
          [] Len(buf) >= 2 /\ buf[1] = START /\ buf[2] >= 4 /\ Len(buf) < total -> None
          [] OTHER -> IF apdu.fmt \in {"I", "S", "U"} THEN Some(apdu, total) ELSE Err(apdu.fmt)
=============================================================================
