---------------------------- MODULE MCByteStream ----------------------------
(* Inputs for ByteStream: every payload type with fields at the edges of    *)
(* their widths, every shape of a VSQ, and the frames of a 101 line.        *)
EXTENDS ByteStream

(* Fields the Rust type holds in more bits than the wire: u8 or u32 values  *)
(* that are masked.                                                         *)
Masked(f) == f.width \notin {1, 8, 16} /\ f.name \notin {"state", "direction"}

Largest(f) == IF f.signed THEN 2 ^ (f.width - 1) - 1 ELSE 2 ^ f.width - 1

Smallest(f) == IF f.signed THEN -(2 ^ (f.width - 1)) ELSE 0

Edge(f, pattern) ==
    CASE pattern = "high" -> Largest(f)
      [] pattern = "low"  -> Smallest(f)
      [] pattern = "over" -> IF Masked(f) THEN Largest(f) + 2 ELSE Smallest(f)

(* One field at its edge and the others at the opposite one.                *)
Value(e, name, pattern) ==
    [n \in {NameAt(e, p) : p \in Places(e)} |->
        LET p == CHOOSE q \in Places(e) : NameAt(e, q) = n
            f == e[p[1]][p[2]]
        IN  IF n = name THEN Edge(f, pattern)
            ELSE Edge(f, IF pattern = "low" THEN "high" ELSE "low")]

MCObject(t, ioa, name, pattern) ==
    IF t.shape = "segment"
    THEN [ioa |-> ioa, v |-> Value(t.e, name, pattern), data |-> <<104, 0, 255>>]
    ELSE [ioa |-> ioa, v |-> Value(t.e, name, pattern)]

FieldNames(e) == {NameAt(e, p) : p \in Places(e)} \cup {"_"}

MCVsq(count, sequence) == [count |-> count, sequence |-> sequence]

MCCot == [cause |-> 6, negative |-> 1, test |-> 1, originator |-> 255]

Item(t, vsq, objects, cot, ca) ==
    [fmt |-> "I", send |-> 32767, recv |-> 1, type_id |-> t.id, vsq |-> vsq,
     objects |-> objects, cot |-> cot, ca |-> ca]

(* Every field of every type.                                               *)
FieldItems ==
    UNION {{Item(t, MCVsq(1, 0), <<MCObject(t, 16777215, name, pattern)>>, MCCot, 65535) :
                name \in FieldNames(t.e), pattern \in {"high", "low", "over"}} :
           t \in PayloadTypes}

(* Every VSQ: too few, too many, none, a count that needs eight bits, and   *)
(* sequences, also one that runs past the last address.                     *)
VsqItems ==
    UNION {{Item(t, MCVsq(n, sq), objects, MCCot, 1) :
                n \in {0, 1, 2, 3, 130}, sq \in {0, 1},
                objects \in {<<>>,
                             <<MCObject(t, 16777215, "on", "high"), MCObject(t, 7, "_", "low")>>}} :
           t \in {ListOf(1, Siq), ListOf(36, R32QdsTime), F_DR_TA_1}}

MCItems == FieldItems \cup VsqItems \cup {UFrame(f) : f \in DOMAIN FirstOctet}

MCPolicies ==
    {Unrestricted,
     [Unrestricted EXCEPT !.causes = Allow(@, 6), !.type_ids = Allow(Allow(@, 1), 122)],
     [Unrestricted EXCEPT !.cas = Allow(@, 1)]}

MCControl(func, prm) == [func |-> func, fcv |-> 1, fcb |-> prm, prm |-> prm]

(* The data holds start octets, among them an acknowledgement.              *)
MCFrames ==
    {Single("Ack"), Fixed(MCControl("RequestUserDataClass1", 1), 1),
     Fixed(MCControl("NackNoData", 0), 1),
     Variable(MCControl("UserDataConfirmed", 1), 1, <<1, 229>>),
     Variable(MCControl("RespondUserData", 0), 1, <<104, 16, 22>>)}
=============================================================================
