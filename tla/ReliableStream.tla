--------------------------- MODULE ReliableStream ---------------------------
(***************************************************************************)
(* What KCP promises to the users of two connected ends                    *)
(* (src/application/examples/kcp_test/kcp/README.md): what one of them     *)
(* sends the other one receives, once and in order.  Messages keep their   *)
(* boundaries, except in stream mode, where only the bytes count.          *)
(***************************************************************************)
EXTENDS Sequences, SequencesExt, Integers

CONSTANTS Ends

VARIABLES stream,       \* whether the ends are in stream mode
          sent,         \* sent[e]: messages accepted from the user of end e
          delivered     \* delivered[e]: what the other end's user got of them

Init ==
    /\ stream \in BOOLEAN
    /\ sent = [e \in Ends |-> <<>>]
    /\ delivered = [e \in Ends |-> <<>>]

Send(e) ==
    /\ \E m \in Range(sent'[e]) : sent' = [sent EXCEPT ![e] = Append(@, m)]
    /\ UNCHANGED <<stream, delivered>>

DeliverMessage(e) ==
    /\ ~ stream /\ Len(delivered[e]) < Len(sent[e])
    /\ delivered' = [delivered EXCEPT ![e] = Append(@, sent[e][Len(@) + 1])]
    /\ UNCHANGED <<stream, sent>>

DeliverBytes(e) ==
    LET bytes == FlattenSeq(sent[e])
        got   == Len(FlattenSeq(delivered[e]))
    IN  /\ stream
        /\ \E n \in got + 1 .. Len(bytes) :
             delivered' = [delivered EXCEPT ![e] = Append(@, SubSeq(bytes, got + 1, n))]
        /\ UNCHANGED <<stream, sent>>

Next == \E e \in Ends : Send(e) \/ DeliverMessage(e) \/ DeliverBytes(e)

Spec == Init /\ [][Next]_<<stream, sent, delivered>>
=============================================================================
