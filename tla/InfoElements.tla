--------------------------- MODULE InfoElements ---------------------------
(***************************************************************************)
(* The information elements of an ASDU (asdu/ie.rs and the qualifiers of   *)
(* asdu/types/*.rs) as layouts.                                            *)
(*                                                                         *)
(* Every element of the code is a row of bit fields, the first one in the  *)
(* lowest bits, packed into little-endian octets: encode() masks a field   *)
(* to its width, decode() masks it out again, and the bits no field names  *)
(* are written as zero and ignored when read.  A layout is therefore a     *)
(* sequence of groups of whole octets, and a group a sequence of fields.   *)
(* A flag is 0 or 1; the arms of an enumeration are their codes; the two   *)
(* halves of a 32-bit value are two fields, as TLC's integers are 32 bits. *)
(***************************************************************************)
EXTENDS Integers, Sequences, SequencesExt

Bits(name, width) == [name |-> name, width |-> width, signed |-> FALSE]

Signed(name, width) == [name |-> name, width |-> width, signed |-> TRUE]

Flag(name) == Bits(name, 1)

Spare(width) == Bits("_", width)

-----------------------------------------------------------------------------
(* Octets and numbers.                                                     *)

Octet == 0 .. 255

(* put_u8, put_u16_le and the three shifts of a 24-bit number.             *)
Octets(n, k) == [i \in 1 .. k |-> (n \div 256 ^ (i - 1)) % 256]

(* get_u8, get_u16_le and the three shifts back.                           *)
Number(bs) == FoldLeft(LAMBDA n, i : n + bs[i] * 256 ^ (i - 1), 0,
                       [i \in 1 .. Len(bs) |-> i])

(* The bits below the i-th field of a group.                               *)
Below(g, i) == FoldLeft(LAMBDA n, f : n + f.width, 0, SubSeq(g, 1, i - 1))

GroupLen(g) == Below(g, Len(g) + 1) \div 8

(* ::LEN of an element.                                                    *)
ElementLen(e) == FoldLeft(LAMBDA n, g : n + GroupLen(g), 0, e)

(* What a field of v adds to its group: masked, and shifted into place.    *)
Placed(g, i, v) ==
    IF g[i].name = "_" THEN 0 ELSE (v[g[i].name] % 2 ^ g[i].width) * 2 ^ Below(g, i)

Pack(g, v) == FoldLeft(LAMBDA n, i : n + Placed(g, i, v), 0,
                       [i \in 1 .. Len(g) |-> i])

(* encode() of an element.                                                 *)
EncodeElement(e, v) ==
    FlattenSeq([j \in 1 .. Len(e) |-> Octets(Pack(e[j], v), GroupLen(e[j]))])

(* A field out of the number its group holds; an i16 is two's complement.  *)
Extract(g, i, n) ==
    LET raw == (n \div 2 ^ Below(g, i)) % 2 ^ g[i].width
    IN  IF g[i].signed /\ raw >= 2 ^ (g[i].width - 1)
        THEN raw - 2 ^ g[i].width
        ELSE raw

Places(e) == {<<j, i>> \in (1 .. Len(e)) \X (1 .. 8) :
                i <= Len(e[j]) /\ e[j][i].name # "_"}

NameAt(e, p) == e[p[1]][p[2]].name

(* The octets of group j among the octets of the element.                  *)
GroupOctets(e, j, bs) ==
    LET before == ElementLen(SubSeq(e, 1, j - 1))
    IN  SubSeq(bs, before + 1, before + GroupLen(e[j]))

(* decode() of an element from at least ElementLen(e) octets.              *)
DecodeElement(e, bs) ==
    [name \in {NameAt(e, p) : p \in Places(e)} |->
        LET p == CHOOSE q \in Places(e) : NameAt(e, q) = name
        IN  Extract(e[p[1]], p[2], Number(GroupOctets(e, p[1], bs)))]

-----------------------------------------------------------------------------
(* Process information (asdu/ie.rs).                                       *)

Quality == <<Flag("blocked"), Flag("substituted"), Flag("not_topical"), Flag("iv")>>

Siq == << <<Flag("on"), Spare(3)>> \o Quality >>

Diq == << <<Bits("state", 2), Spare(2)>> \o Quality >>

Qds == << <<Flag("overflow"), Spare(3)>> \o Quality >>

Nva == << <<Signed("value", 16)>> >>

Sva == << <<Signed("value", 16)>> >>

(* The bit pattern of the f32, which no code path changes.                 *)
R32 == << <<Bits("low", 16)>>, <<Bits("high", 16)>> >>

Cp56Time2a == << <<Bits("milliseconds", 16)>>,
                 <<Bits("minute", 6), Flag("genuine"), Flag("invalid")>>,
                 <<Bits("hour", 5), Spare(2), Flag("summer_time")>>,
                 <<Bits("day", 5), Bits("day_of_week", 3)>>,
                 <<Bits("month", 4), Spare(4)>>,
                 <<Bits("year", 7), Spare(1)>> >>

-----------------------------------------------------------------------------
(* Commands (asdu/types/command.rs) and system functions (system.rs).      *)

Sco == << <<Flag("on"), Spare(1), Bits("qualifier", 5), Flag("select")>> >>

Dco == << <<Bits("state", 2), Bits("qualifier", 5), Flag("select")>> >>

Rco == << <<Bits("direction", 2), Bits("qualifier", 5), Flag("select")>> >>

Qos == << <<Bits("qualifier", 7), Flag("select")>> >>

Qoi == << <<Bits("qoi", 8)>> >>

Coi == << <<Bits("cause", 7), Flag("after_param_change")>> >>

Qcc == << <<Bits("group", 6), Bits("freeze", 2)>> >>

Qrp == << <<Bits("qrp", 8)>> >>

-----------------------------------------------------------------------------
(* File transfer (asdu/types/file.rs).                                     *)

NameOfFile == << <<Bits("nof", 16)>> >>

NameOfSection == << <<Bits("nos", 16)>> >>

LengthOfFile == << <<Bits("lof", 24)>> >>

LengthOfSection == << <<Bits("los", 24)>> >>

Frq == << <<Bits("code", 7), Flag("negative")>> >>

Srq == << <<Bits("code", 7), Flag("negative")>> >>

Scq == << <<Bits("action", 4), Bits("status", 4)>> >>

Lsq == << <<Bits("lsq", 8)>> >>

Afq == << <<Bits("action", 4), Bits("status", 4)>> >>

Sof == << <<Bits("status", 5), Flag("last_file"), Flag("sub_directory"), Flag("active")>> >>

Chs == << <<Bits("chs", 8)>> >>

DirectoryEntry == NameOfFile \o LengthOfFile \o Sof \o Cp56Time2a
=============================================================================
