------------------------------ MODULE ElogLine ------------------------------
(***************************************************************************)
(* How EasyLogger puts a log into its line buffer: elog_output,            *)
(* elog_raw_output and elog_hexdump (elog.c:508-724, 864-936) with         *)
(* elog_strcpy.  A line is a sequence of characters of which only what     *)
(* they are part of is kept: "p" of what comes before the text, "t" of the *)
(* text, "c" of the end of the color, "n" of the newline sign, "0" the NUL *)
(* of vsnprintf.                                                           *)
(*                                                                         *)
(* A definition whose comment calls it a fault stands before the one it    *)
(* is a faulty variant of; nothing uses it but the mutants of the runs.    *)
(***************************************************************************)
EXTENDS Integers, Sequences

CONSTANTS LineSize,     \* ELOG_LINE_BUF_SIZE
          CsiEnd,       \* length of CSI_END
          Width16,      \* 2^16, of the counters of elog_hexdump
          Widths        \* of its lines

ElogLineAssumption ==
    /\ CsiEnd \in Nat /\ LineSize \in Nat /\ LineSize > CsiEnd + 1
    /\ Width16 \in Nat \ {0} /\ Widths \subseteq 1 .. Width16

VARIABLES line,         \* what is handed to elog_port_output
          dump          \* elog_hexdump in progress: its size, width and i

vars == <<line, dump>>

Newline == <<"n">>
NoLine == [text |-> Newline, kind |-> "none"]
NoDump == [size |-> 0, width |-> 1, i |-> 0, lines |-> 0]

Init == line = NoLine /\ dump = NoDump

Chars(c, n) == [k \in 1 .. n |-> c]
Smaller(a, b) == IF a < b THEN a ELSE b

(* elog_strcpy: as much of s as there is room for. *)
Strcpy(buf, s) == buf \o SubSeq(s, 1, Smaller(Len(s), LineSize - Len(buf)))

(* vsnprintf behind buf, of a text of n characters, or an error: what the  *)
(* buffer holds then, up to its end, a NUL in it.                          *)
Formatted(buf, n) ==
    LET room == LineSize - Len(buf)
    IN  IF room = 0 THEN buf
        ELSE buf \o Chars("t", Smaller(n, room - 1)) \o <<"0">>

(* Fault: no room is kept for the newline sign. *)
CutKeepsNoNewline(buf, len) ==
    SubSeq(buf, 1, IF len + CsiEnd + 1 > LineSize THEN LineSize - CsiEnd ELSE len)

(* The overflow check of elog_output, which keeps room for two ends. *)
Cut(buf, len) ==
    SubSeq(buf, 1, IF len + CsiEnd + 1 > LineSize THEN LineSize - CsiEnd - 1 ELSE len)

(* elog_output, with a prefix of p characters in several parts, a text of  *)
(* n (-1: vsnprintf fails), with colors or without, and a keyword filter   *)
(* that lets the log pass.                                                 *)
Output(p, n, color) ==
    LET prefix == Strcpy(<<>>, Chars("p", p))
        len == IF n >= 0 /\ Len(prefix) + n <= LineSize THEN Len(prefix) + n ELSE LineSize
        buf == Formatted(prefix, IF n < 0 THEN 0 ELSE n)
        whole == buf \o Chars("t", LineSize - Len(buf))     \* what lies behind
        body == Cut(whole, len)
    IN  /\ dump = NoDump
        /\ line' = [text |-> Strcpy(Strcpy(body, IF color THEN Chars("c", CsiEnd) ELSE <<>>), Newline),
                    kind |-> IF n < 0 THEN "failed" ELSE IF color THEN "color" ELSE "plain"]
        /\ UNCHANGED dump

(* elog_raw_output: no newline is added, and a text as long as the buffer  *)
(* or longer goes out with the NUL that ends it.                           *)
RawOutput(n) ==
    /\ dump = NoDump
    /\ line' = [text |-> SubSeq(Formatted(<<>>, n), 1, Smaller(n, LineSize)), kind |-> "raw"]
    /\ UNCHANGED dump

---------------------------------------------------------------------------
(* elog_hexdump, whose counter i is of 16 bits like the size.              *)
HexdumpCall(size, width) ==
    /\ dump = NoDump /\ size > 0
    /\ dump' = [size |-> size, width |-> width, i |-> 0, lines |-> 0]
    /\ UNCHANGED line

(* Fault: the counter has a bit less than the size. *)
NextOffsetNarrow(d) == (d.i + d.width) % (Width16 \div 2)

NextOffset(d) == (d.i + d.width) % Width16

(* One turn: a header of p characters, the hex and the characters.  Of the *)
(* room that is left only that for the newline sign is seen to.            *)
HexLine(p) ==
    LET header == SubSeq(Formatted(<<>>, p), 1, Smaller(p, LineSize))
        data == Strcpy(header, Chars("t", 2 * dump.width))
        body == SubSeq(data, 1, Smaller(Len(data), LineSize - 1))
    IN  /\ dump # NoDump
        /\ line' = [text |-> Strcpy(body, Newline), kind |-> "plain"]
        /\ dump' = IF NextOffset(dump) < dump.size
                   THEN [dump EXCEPT !.i = NextOffset(dump), !.lines = @ + 1]
                   ELSE NoDump

Next ==
    \/ \E p \in 0 .. LineSize + 1 :
         \/ \E n \in -1 .. LineSize + 1, color \in BOOLEAN : Output(p, n, color)
         \/ RawOutput(p)
         \/ HexLine(p)
    \/ \E width \in Widths : \E size \in 0 .. Width16 - width : HexdumpCall(size, width)

Spec == Init /\ [][Next]_vars

---------------------------------------------------------------------------
(* Every line is handed out whole: within the buffer, with the end of its  *)
(* color and with its newline, and without a NUL in it, however long its   *)
(* parts are (elog.c:646-688, 917-921).                                    *)
LinesWhole ==
    LET n == Len(line.text)
    IN  /\ n <= LineSize
        /\ line.kind # "raw" => line.text[n] = "n"
        /\ line.kind \in {"plain", "color"} => \A k \in 1 .. n : line.text[k] # "0"
        /\ line.kind = "color" =>
             /\ n > CsiEnd
             /\ \A k \in n - CsiEnd .. n - 1 : line.text[k] = "c"

(* A hexdump ends, after one line for each width bytes, as long as its     *)
(* size and width do not exceed 16 bits together: beyond, i wraps and the  *)
(* dump goes on for ever with the output locked (elog.c:868, 888).         *)
HexdumpEnds == dump.lines * dump.width <= dump.size
=============================================================================
