------------------------------- MODULE MC_Kcp -------------------------------
(***************************************************************************)
(* Ends of KCP, set up in six ways.  Headers have two bytes here, so that *)
(* with an mtu of 3 a segment has one byte and a datagram one segment.     *)
(***************************************************************************)
EXTENDS Kcp, TLC

CONSTANTS a, b

Setup(mtu, snd_wnd, rcv_wnd, WND_RCV, stream, ofA, ofB, ahead, acks, toB) ==
    [mtu |-> mtu, snd_wnd |-> snd_wnd, rcv_wnd |-> rcv_wnd, WND_RCV |-> WND_RCV,
     stream |-> stream, lengths |-> (a :> ofA @@ b :> ofB),
     ahead |-> ahead, acks |-> acks, in_flight |-> (a :> 1 @@ b :> toB)]

(* More messages than the windows hold, of which one is refused. *)
FullWindow == Setup(3, 2, 2, 2, FALSE, <<1, 3, 1, 1>>, <<>>, 1, 1, 1)

(* Old words about the window make the sender overrun it; what a sends, a  *)
(* datagram at a time, is heard only when there is a round trip.           *)
OldWords == Setup(3, 2, 2, 2, FALSE, <<1, 1, 1, 1, 1, 1>>, <<>>, 0, 1, 0)

(* A message of two fragments, which overtake each other. *)
InPieces == Setup(3, 2, 3, 3, FALSE, <<2, 1>>, <<>>, 3, 2, 2)

(* A stream, where of the second message only the first byte is taken. *)
AsStream == Setup(4, 2, 2, 2, TRUE, <<1, 4, 1>>, <<>>, 1, 1, 1)

(* Messages both ways, in datagrams with acknowledgements. *)
BothWays == Setup(6, 2, 2, 2, FALSE, <<1>>, <<1>>, 3, 2, 1)

(* So many messages that their numbers wrap. *)
Wrapping == Setup(3, 1, 3, 3, FALSE, <<2, 2, 2, 2, 2, 2, 1>>, <<>>, 0, 1, 1)

SetupsHere == {FullWindow, OldWords, InPieces, AsStream, BothWays, Wrapping}
=============================================================================
