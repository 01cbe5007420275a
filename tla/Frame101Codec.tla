--------------------------- MODULE Frame101Codec ---------------------------
(***************************************************************************)
(* The FT 1.2 codec of IEC 60870-5-101 (frame101/codec.rs, control.rs,     *)
(* frame.rs) on octets.                                                    *)
(***************************************************************************)
EXTENDS Integers, Sequences, Frame104Codec

START_FIXED == 16

START_VAR == 104

END == 22

SingleChar == [Ack |-> 229, Nack |-> 162]

FuncCodePrimary ==
    [ResetRemoteLink |-> 0, ResetUserProcess |-> 1, UserDataConfirmed |-> 3,
     UserDataUnconfirmed |-> 4, RequestStatus |-> 9, RequestUserDataClass1 |-> 10,
     RequestUserDataClass2 |-> 11]

FuncCodeSecondary ==
    [Ack |-> 0, Nack |-> 1, RespondUserData |-> 8, NackNoData |-> 9, StatusOfLink |-> 11]

Codes(prm) == IF prm = 1 THEN FuncCodePrimary ELSE FuncCodeSecondary

(* ControlField: fcb is ACD and fcv is DFC in the secondary direction.     *)
Control == << <<Bits("func", 4), Flag("fcv"), Flag("fcb"), Flag("prm"), Spare(1)>> >>

EncodeControl(c) == Pack(Control[1], [c EXCEPT !.func = Codes(c.prm)[c.func]])

(* ControlField::decode: the direction comes from the caller, the PRM bit  *)
(* is not looked at.                                                       *)
DecodeControl(b, prm) ==
    LET c == DecodeElement(Control, <<b>>)
        named == {f \in DOMAIN Codes(prm) : Codes(prm)[f] = c.func}
    IN  IF named = {} THEN [func |-> "None"]
        ELSE [func |-> CHOOSE f \in named : TRUE, fcv |-> c.fcv, fcb |-> c.fcb, prm |-> prm]

Single(char) == [fmt |-> "single", char |-> char]

Fixed(control, address) == [fmt |-> "fixed", control |-> control, address |-> address]

Variable(control, address, asdu) ==
    [fmt |-> "variable", control |-> control, address |-> address, asdu |-> asdu]

(* LinkAddress::encode_to and decode_from, size 1 or 2.                    *)
EncodeAddress(address, size) == Octets(address, size)

DecodeAddress(bs, size) == Number(SubSeq(bs, 1, size))

SumOctets(bs) == FoldLeft(LAMBDA n, b : (n + b) % 256, 0, bs)

(* checksum_fixed, whose one-octet form adds the address itself, and       *)
(* checksum_variable.                                                      *)
ChecksumFixed(control, address, size) ==
    IF size = 1 THEN (control + address) % 256
                ELSE SumOctets(<<control>> \o Octets(address, 2))

(* Mutants: only the header is summed; the sum is not cut to an octet.     *)
ChecksumHeaderOnly(control, address, size, asdu) == ChecksumFixed(control, address, size)

ChecksumUncut(control, address, size, asdu) ==
    ChecksumFixed(control, address, size) + SumOctets(asdu)

ChecksumVariable(control, address, size, asdu) ==
    (ChecksumFixed(control, address, size) + SumOctets(asdu)) % 256

(* Codec::encode; the length octet is cut to eight bits.                   *)
Encode101(f, size) ==
    CASE f.fmt = "single" -> <<SingleChar[f.char]>>
      [] f.fmt = "fixed"  ->
           <<START_FIXED, f.control>> \o EncodeAddress(f.address, size)
               \o <<ChecksumFixed(f.control, f.address, size), END>>
      [] f.fmt = "variable" ->
           LET length == (1 + size + Len(f.asdu)) % 256
           IN  <<START_VAR, length, length, START_VAR, f.control>>
                   \o EncodeAddress(f.address, size) \o f.asdu
                   \o <<ChecksumVariable(f.control, f.address, size, f.asdu), END>>

(* The START_FIXED arm of decode_slice.                                    *)
DecodeFixed(buf, size) ==
    LET total == 4 + size
        control == buf[2]
        address == DecodeAddress(SubSeq(buf, 3, 2 + size), size)
    IN  CASE Len(buf) < total -> None
          [] Len(buf) >= total /\ buf[total] # END -> Err("InvalidEndByte")
          [] OTHER -> IF ChecksumFixed(control, address, size) = buf[total - 1]
                      THEN Some(Fixed(control, address), total)
                      ELSE Err("ChecksumMismatch")

(* The START_VAR arm: with six octets the lengths are compared, the rest   *)
(* waits for the whole frame.                                              *)
DecodeVariable(buf, size) ==
    LET total == 6 + buf[2]
        control == buf[5]
        address == DecodeAddress(SubSeq(buf, 6, 5 + size), size)
        asdu == SubSeq(buf, 6 + size, total - 2)
    IN  CASE Len(buf) < 6 -> None
          [] Len(buf) >= 6 /\ buf[2] # buf[3] -> Err("LengthOctetsDiffer")
          [] Len(buf) >= 6 /\ buf[2] = buf[3] /\ buf[2] < 1 + size -> Err("LengthMismatch")
          [] Len(buf) >= 6 /\ buf[2] = buf[3] /\ buf[2] >= 1 + size /\ Len(buf) < total -> None
          [] OTHER -> CASE buf[4] # START_VAR -> Err("InvalidStartByte")
                        [] buf[4] = START_VAR /\ buf[total] # END -> Err("InvalidEndByte")
                        [] OTHER ->
                             IF ChecksumVariable(control, address, size, asdu) = buf[total - 1]
                             THEN Some(Variable(control, address, asdu), total)
                             ELSE Err("ChecksumMismatch")

(* Codec::decode_slice                                                     *)
DecodeSlice101(buf, size) ==
    LET chars == {c \in DOMAIN SingleChar : buf # <<>> /\ SingleChar[c] = buf[1]}
    IN  CASE buf = <<>> -> None
          [] buf # <<>> /\ chars # {} -> Some(Single(CHOOSE c \in chars : TRUE), 1)
          [] buf # <<>> /\ buf[1] = START_FIXED -> DecodeFixed(buf, size)
          [] buf # <<>> /\ buf[1] = START_VAR -> DecodeVariable(buf, size)
          [] OTHER -> Err("InvalidStartByte")
=============================================================================
