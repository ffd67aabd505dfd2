------------------------------ MODULE MC_Nanopb -----------------------------
(***************************************************************************)
(* Tables of fields, messages and fields on the wire for Nanopb.           *)
(***************************************************************************)
EXTENDS Integers, Sequences

R(tag, ltype, htype, bits) == [tag |-> tag, ltype |-> ltype, htype |-> htype, bits |-> bits]
A(tag, ltype, htype, bits, max) ==
    [tag |-> tag, ltype |-> ltype, htype |-> htype, bits |-> bits, max |-> max]
Sub(tag, htype, sub, max) ==
    [tag |-> tag, ltype |-> "submsg", htype |-> htype, sub |-> sub, max |-> max]
(* Fields of every kind, before, between and behind submessages and        *)
(* required fields; words have 8 bits.                                     *)
MsgTypes ==
    [main |-> <<R(1, "uvarint", "required", 4), A(2, "svarint", "repeated", 8, 2),
                R(3, "varint", "oneof", 8), Sub(4, "oneof", "part", 1),
                Sub(6, "optional", "pair", 1), A(7, "fixed", "fixed_count", 8, 2),
                R(8, "bool", "required", 1), A(9, "bytes", "singular", 8, 2)>>,
     part |-> <<R(1, "uvarint", "optional", 16), A(2, "bool", "fixed_count", 1, 2)>>,
     pair |-> <<R(1, "bool", "required", 1), R(2, "varint", "singular", 4),
                Sub(3, "repeated", "part", 1)>>]
(* What nanopb encodes: one message with each member of the oneof. *)
Part(has, n, flags) == [which |-> 0, of |-> <<[has |-> has, val |-> n], flags>>]
Pair(b, n, parts) == [which |-> 0, of |-> <<b, n, parts>>]
Messages ==
    {[which |-> which, of |-> [tag \in {1, 2, 3, 4, 6, 7, 8, 9} |->
        CASE tag = 1 -> 9 [] tag = 2 -> <<-128>> [] tag = 3 -> IF which = 3 THEN -3 ELSE 0
          [] tag = 4 -> IF which = 4 THEN Part(TRUE, 65535, <<TRUE, FALSE>>) ELSE Part(FALSE, 0, <<>>)
          [] tag = 6 -> [has |-> which = 3,
                         val |-> IF which = 3 THEN Pair(TRUE, -8, <<Part(TRUE, 2, <<FALSE, TRUE>>)>>)
                                 ELSE Pair(FALSE, 0, <<>>)]
          [] tag = 7 -> <<200, 1>> [] tag = 8 -> which = 4 [] tag = 9 -> <<5>>]] : which \in {3, 4}}
(* What other programs write: values at the ends of their ranges and       *)
(* beyond, all forms, fields that are unknown, incomplete or wrong.        *)
P(tag, form, val) == [tag |-> tag, form |-> form, val |-> val]
Pieces ==
    <<P(1, "one", 15), P(1, "one", 16), P(1, "padded", 9),
     P(2, "one", 127), P(2, "packed", <<-128, 1>>), P(2, "one", 128),
     P(3, "short", -100),
     P(4, "one", <<P(1, "one", 300)>>), P(4, "one", <<P(2, "packed", <<TRUE, TRUE>>)>>),
     P(4, "one", <<P(2, "one", TRUE), P(1, "one", 2), P(2, "one", FALSE)>>),
     P(6, "one", <<P(2, "one", 7), P(1, "one", TRUE)>>), P(6, "one", <<P(3, "one", <<>>)>>),
     P(6, "one", <<P(1, "padded", TRUE), P(3, "one", <<P(1, "one", 1)>>)>>),
     P(6, "one", <<P(1, "one", TRUE), P(3, "one", <<P(2, "one", TRUE)>>)>>),
     P(7, "packed", <<1, 2>>), P(8, "one", TRUE),
     P(9, "one", <<1, 2>>), P(9, "one", <<1, 2, 3>>),
     P(5, "number", 65535), P(10, "string", <<1, 0>>), P(5, "group", 0)>>
=============================================================================
