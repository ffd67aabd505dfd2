-------------------------------- MODULE Kcp --------------------------------
(***************************************************************************)
(* Two connected ends of KCP (kcp_test/kcp/ikcp.c) and the datagrams       *)
(* between them, which may be lost, duplicated and overtaken.  An end's    *)
(* control block is a record with the names of struct IKCPCB; operators    *)
(* on control blocks stand for the static functions.                       *)
(*                                                                         *)
(* Time is abstracted: a flush may find any of the segments that were sent *)
(* before due again, by their timers or by fast acknowledgement, the       *)
(* window of congestion control at any value, and the time to probe come   *)
(* or not: timers, round-trip times and the growth of that window decide   *)
(* when something is said, never what is said.  A byte is its place in all *)
(* that its end's user ever sent.                                          *)
(*                                                                         *)
(* A definition whose comment calls it a fault stands before the one it    *)
(* is a faulty variant of; nothing uses it but the mutants of the runs.    *)
(***************************************************************************)
EXTENDS Integers, Sequences, FiniteSets, SequencesExt

CONSTANTS Ends,         \* the two ends
          Setups,       \* how ends may be set up, and what their users send
          Overhead,     \* IKCP_OVERHEAD, the bytes of a segment's header
          Modulus,      \* 2^32: the numbers of segments wrap
          Lifetime      \* a datagram is lost before so many new segments were sent

ASSUME KcpAssumption ==
    /\ \E a, b \in Ends : a # b /\ Ends = {a, b}
    /\ Overhead \in Nat /\ Modulus \in Nat /\ Modulus % 2 = 0 /\ Lifetime \in Nat \ {0}
    /\ \A s \in Setups :
         /\ s.mtu \in Nat /\ s.mtu > Overhead
         /\ s.snd_wnd \in Nat \ {0} /\ s.WND_RCV \in Nat \ {0}
         /\ s.rcv_wnd \in Nat /\ s.rcv_wnd >= s.WND_RCV
         /\ s.stream \in BOOLEAN /\ s.lengths \in [Ends -> Seq(Nat)]
         /\ Lifetime + s.snd_wnd - 1 <= Modulus \div 2 /\ s.snd_wnd + s.rcv_wnd < Modulus \div 2
         /\ 3 * s.snd_wnd < Modulus

VARIABLES setup,        \* mtu, windows and mode of both ends, lengths of their messages,
                        \* and, as bounds, the segments that may wait when one more is
                        \* sent, the acknowledgements that may wait for a flush, and
                        \* the datagrams on their way to each end
          kcp,          \* kcp[e]: the control block of end e
          net,          \* net[e]: datagrams on their way to end e
          calls,        \* calls[e]: messages the user of e has tried to send
          sent,         \* sent[e]: what of them was accepted
          delivered     \* delivered[e]: what the user of the other end got

vars == <<setup, kcp, net, calls, sent, delivered>>

Peer(e) == CHOOSE f \in Ends : f # e
mss == setup.mtu - Overhead

(* _itimediff, on numbers that wrap. *)
Diff(later, earlier) ==
    LET d == (later - earlier) % Modulus
    IN  IF d < Modulus \div 2 THEN d ELSE d - Modulus

Plus(a, b) == (a + b) % Modulus
Least(a, b) == IF a < b THEN a ELSE b
Longest(N) == CHOOSE n \in N : \A i \in N : i <= n

(* FoldLeft as a recursive function, which a proof can follow. *)
Along(Op(_, _), base, s) ==
    LET along[i \in 0 .. Len(s)] == IF i = 0 THEN base ELSE Op(along[i - 1], s[i])
    IN  along[Len(s)]

NewKcp(s) ==
    [snd_una |-> 0, snd_nxt |-> 0, rcv_nxt |-> 0, rmt_wnd |-> s.WND_RCV,
     probe |-> {}, probe_wait |-> FALSE, acklist |-> <<>>,
     snd_queue |-> <<>>, snd_buf |-> <<>>, rcv_buf |-> <<>>, rcv_queue |-> <<>>]

Init ==
    /\ setup \in Setups
    /\ kcp = [e \in Ends |-> NewKcp(setup)]
    /\ net = [e \in Ends |-> {}]
    /\ calls = [e \in Ends |-> 0]
    /\ sent = [e \in Ends |-> <<>>] /\ delivered = [e \in Ends |-> <<>>]

---------------------------------------------------------------------------
(* ikcp_send.                                                              *)

FragmentCount(len) == IF len <= mss THEN 1 ELSE (len + mss - 1) \div mss

Fragments(data) ==
    LET count == FragmentCount(Len(data))
    IN  [i \in 1 .. count |->
           [frg  |-> IF setup.stream THEN 0 ELSE count - i,
            data |-> SubSeq(data, (i - 1) * mss + 1, Least(i * mss, Len(data)))]]

(* In stream mode the last segment that waits is filled up first: what     *)
(* fits of data goes there.                                                *)
Extended(queue, data) ==
    IF setup.stream /\ queue # <<>>
    THEN Least(Len(data), mss - Len(Last(queue).data)) ELSE 0

ExtendLast(queue, data) ==
    IF Len(data) = 0 THEN queue
    ELSE Append(Front(queue), [frg |-> 0, data |-> Last(queue).data \o data])

(* More fragments would not fit the other end's window. *)
TooMany(count) == count >= setup.WND_RCV

Send(e) ==
    LET queue  == kcp[e].snd_queue
        before == Len(FlattenSeq(sent[e]))
        data   == [i \in 1 .. setup.lengths[e][calls[e] + 1] |-> before + i]
        n      == Extended(queue, data)
        rest   == SubSeq(data, n + 1, Len(data))
        fits   == ~ TooMany(FragmentCount(Len(rest)))
        more   == IF setup.stream /\ rest = <<>> THEN <<>> ELSE Fragments(rest)
        taken  == IF fits THEN data ELSE SubSeq(data, 1, n)
    IN  /\ calls[e] < Len(setup.lengths[e]) /\ Len(queue) <= setup.ahead
        /\ calls' = [calls EXCEPT ![e] = @ + 1]
        /\ kcp' = [kcp EXCEPT ![e].snd_queue =
                     ExtendLast(@, SubSeq(data, 1, n)) \o IF fits THEN more ELSE <<>>]
        /\ sent' = [sent EXCEPT ![e] = IF taken = <<>> THEN @ ELSE Append(@, taken)]
        /\ UNCHANGED <<setup, net, delivered>>

---------------------------------------------------------------------------
(* ikcp_recv, and how segments become available to it.                     *)

(* Fault: what is missing before the first segment in rcv_buf is forgotten. *)
InOrderFromFirst(k, n) ==
    \A i \in 1 .. n : k.rcv_buf[i].sn = Plus(k.rcv_buf[1].sn, i - 1)

InOrder(k, n) == \A i \in 1 .. n : k.rcv_buf[i].sn = Plus(k.rcv_nxt, i - 1)

(* From rcv_buf to rcv_queue, as far as numbers follow and there is room. *)
MoveReady(k) ==
    LET fits(n) == Len(k.rcv_queue) + n <= setup.rcv_wnd /\ InOrder(k, n)
        n == Longest({i \in 0 .. Len(k.rcv_buf) : fits(i)})
        ready == SubSeq(k.rcv_buf, 1, n)
    IN  [k EXCEPT !.rcv_buf = SubSeq(@, n + 1, Len(@)),
                  !.rcv_queue = @ \o [i \in 1 .. n |-> [frg |-> ready[i].frg, data |-> ready[i].data]],
                  !.rcv_nxt = Plus(@, n)]

(* ikcp_peeksize finds the whole of the first message. *)
WholeMessage(queue) ==
    queue # <<>> /\ (Head(queue).frg = 0 \/ Len(queue) >= Head(queue).frg + 1)

(* The user of e calls ikcp_recv with a buffer that is large enough.  The  *)
(* call with a negative length takes nothing, and moves nothing either.    *)
Recv(e) ==
    LET k      == kcp[e]
        n      == CHOOSE i \in DOMAIN k.rcv_queue :
                    /\ k.rcv_queue[i].frg = 0 \/ i = Len(k.rcv_queue)
                    /\ \A j \in 1 .. i - 1 : k.rcv_queue[j].frg # 0
        taken  == SubSeq(k.rcv_queue, 1, n)
        left   == MoveReady([k EXCEPT !.rcv_queue = SubSeq(@, n + 1, Len(@))])
        recover == Len(k.rcv_queue) >= setup.rcv_wnd /\ Len(left.rcv_queue) < setup.rcv_wnd
    IN  /\ WholeMessage(k.rcv_queue)
        /\ kcp' = [kcp EXCEPT ![e] = [left EXCEPT !.probe = @ \cup IF recover THEN {"tell"} ELSE {}]]
        /\ delivered' = [delivered EXCEPT ![Peer(e)] =
                           Append(@, FlattenSeq([i \in 1 .. n |-> taken[i].data]))]
        /\ UNCHANGED <<setup, net, calls, sent>>

---------------------------------------------------------------------------
(* ikcp_input.                                                             *)

ShrinkBuf(k) ==
    [k EXCEPT !.snd_una = IF k.snd_buf = <<>> THEN k.snd_nxt ELSE Head(k.snd_buf).sn]

(* How many segments at the front of buf are before sn. *)
Before(buf, sn) ==
    Longest({i \in 0 .. Len(buf) : \A j \in 1 .. i : Diff(sn, buf[j].sn) > 0})

(* What the other end has received, from the front of snd_buf. *)
ParseUna(k, una) ==
    [k EXCEPT !.snd_buf = SubSeq(@, Before(@, una) + 1, Len(@))]

ParseAck(k, sn) ==
    LET n == Before(k.snd_buf, sn) + 1
    IN  IF Diff(sn, k.snd_una) < 0 \/ Diff(sn, k.snd_nxt) >= 0 THEN k
        ELSE IF n <= Len(k.snd_buf) /\ k.snd_buf[n].sn = sn
        THEN [k EXCEPT !.snd_buf = RemoveAt(@, n)] ELSE k

(* Into rcv_buf, behind the last segment that is not after it, unless it   *)
(* is there.                                                               *)
Insert(buf, seg) ==
    LET n == Longest({i \in 0 .. Len(buf) : i > 0 => Diff(seg.sn, buf[i].sn) >= 0})
    IN  IF n > 0 /\ buf[n].sn = seg.sn THEN buf ELSE InsertAt(buf, n + 1, seg)

(* Fault: a segment is acknowledged whether or not it is in the window. *)
ParsePushAcksAll(k, seg) ==
    LET acked == [k EXCEPT !.acklist = Append(@, seg.sn)]
    IN  IF Diff(seg.sn, Plus(k.rcv_nxt, setup.rcv_wnd)) >= 0
           \/ Diff(seg.sn, k.rcv_nxt) < 0 THEN acked
        ELSE MoveReady([acked EXCEPT !.rcv_buf =
                          Insert(@, [sn |-> seg.sn, frg |-> seg.frg, data |-> seg.data])])

(* A segment before the window is only acknowledged, one beyond it is      *)
(* dropped.                                                                *)
ParsePush(k, seg) ==
    LET acked == [k EXCEPT !.acklist = Append(@, seg.sn)]
    IN  IF Diff(seg.sn, Plus(k.rcv_nxt, setup.rcv_wnd)) >= 0 THEN k
        ELSE IF Diff(seg.sn, k.rcv_nxt) < 0 THEN acked
        ELSE MoveReady([acked EXCEPT !.rcv_buf =
                          Insert(@, [sn |-> seg.sn, frg |-> seg.frg, data |-> seg.data])])

InputSegment(k, seg) ==
    LET heard == ShrinkBuf(ParseUna([k EXCEPT !.rmt_wnd = seg.wnd], seg.una))
    IN  CASE seg.cmd = "ack"  -> ShrinkBuf(ParseAck(heard, seg.sn))
          [] seg.cmd = "push" -> ParsePush(heard, seg)
          [] seg.cmd = "wask" -> [heard EXCEPT !.probe = @ \cup {"tell"}]
          [] seg.cmd = "wins" -> heard

InputDatagram(k, d) == Along(InputSegment, k, d)

(* A datagram arrives. *)
Arrive(e, d) ==
    /\ Len(kcp[e].acklist) + Len(d) <= setup.acks
    /\ kcp' = [kcp EXCEPT ![e] = InputDatagram(@, d)]
    /\ UNCHANGED <<setup, calls, sent, delivered>>

Input(e) == \E d \in net[e] : Arrive(e, d) /\ net' = [net EXCEPT ![e] = @ \ {d}]

(* The network had repeated it: it will arrive once more, or is lost. *)
InputRepeated(e) == UNCHANGED net /\ \E d \in net[e] : Arrive(e, d)

---------------------------------------------------------------------------
(* ikcp_flush.                                                             *)

WndUnused(k) ==
    IF Len(k.rcv_queue) < setup.rcv_wnd THEN setup.rcv_wnd - Len(k.rcv_queue) ELSE 0

(* Fault: the other end is asked only the first time its window is full. *)
ProbeOnce(k, due) ==
    IF k.rmt_wnd # 0 THEN [k EXCEPT !.probe_wait = FALSE]
    ELSE IF k.probe_wait THEN k
    ELSE [k EXCEPT !.probe_wait = TRUE]

(* While the other end has no room it is asked about it time and again. *)
Probe(k, due) ==
    IF k.rmt_wnd # 0 THEN [k EXCEPT !.probe_wait = FALSE]
    ELSE IF ~ k.probe_wait THEN [k EXCEPT !.probe_wait = TRUE]
    ELSE [k EXCEPT !.probe = IF due THEN @ \cup {"send"} ELSE @]

(* The windows of both ends leave room for so many new segments. *)
Room(k) ==
    LET room == - Diff(k.snd_nxt, Plus(k.snd_una, Least(setup.snd_wnd, k.rmt_wnd)))
    IN  IF room < 0 THEN 0 ELSE Least(room, Len(k.snd_queue))

MoveNew(k, n) ==
    [k EXCEPT !.snd_queue = SubSeq(@, n + 1, Len(@)),
              !.snd_buf = @ \o [i \in 1 .. n |->
                             [sn |-> Plus(k.snd_nxt, i - 1), frg |-> k.snd_queue[i].frg,
                              data |-> k.snd_queue[i].data]],
              !.snd_nxt = Plus(@, n)]

(* Of the segments sent and not acknowledged, those that k had not sent    *)
(* before and those of again.                                              *)
Pushed(buf, k, again) ==
    LET push(p, s) == IF s.sn \in again \/ Diff(s.sn, k.snd_nxt) >= 0 THEN Append(p, s) ELSE p
    IN  Along(push, <<>>, buf)

(* All that a flush puts out, from the block k before new segments are     *)
(* moved and the block m after: acknowledgements, probes, new segments and *)
(* those sent again.                                                       *)
Segments(k, m, again) ==
    LET seg(cmd, s) == [cmd |-> cmd, sn |-> s.sn, frg |-> s.frg, data |-> s.data,
                        una |-> k.rcv_nxt, wnd |-> WndUnused(k)]
        bare(sn) == [sn |-> sn, frg |-> 0, data |-> <<>>]
        pushed == Pushed(m.snd_buf, k, again)
    IN  [i \in DOMAIN k.acklist |-> seg("ack", bare(k.acklist[i]))]
          \o (IF "send" \in k.probe THEN <<seg("wask", bare(0))>> ELSE <<>>)
          \o (IF "tell" \in k.probe THEN <<seg("wins", bare(0))>> ELSE <<>>)
          \o [i \in DOMAIN pushed |-> seg("push", pushed[i])]

SegSize(seg) == Overhead + Len(seg.data)
Size(segs) == Along(LAMBDA n, seg : n + SegSize(seg), 0, segs)

(* Fault: the test whether a segment still fits leaves out the segment. *)
FitsBefore(segs, seg) == Size(segs) <= setup.mtu

Fits(segs, seg) == Size(segs) + SegSize(seg) <= setup.mtu

(* Segments are put together to datagrams of at most mtu bytes. *)
Packed(segs) ==
    LET add(p, seg) == IF p = <<>> THEN <<<<seg>>>>
                       ELSE IF Fits(Last(p), seg) THEN Append(Front(p), Append(Last(p), seg))
                       ELSE Append(p, <<seg>>)
    IN  Along(add, <<>>, segs)

(* A flush leaves nothing to acknowledge and nothing to ask or tell. *)
Flushed(k) == [k EXCEPT !.acklist = <<>>, !.probe = {}]

(* Whether a segment from the end k to the end p is not too far behind. *)
Young(seg, k, p) ==
    /\ seg.cmd = "push" => Diff(k.snd_nxt, seg.sn) \in 0 .. Lifetime - 1
    /\ seg.cmd = "ack" => Diff(p.snd_nxt, seg.sn) \in 0 .. Lifetime - 1
    /\ Diff(p.snd_nxt, seg.una) \in 0 .. Lifetime

(* Datagrams to f that are still there when the blocks are k. *)
StillThere(f, k) ==
    {d \in net[f] : \A i \in DOMAIN d : Young(d[i], k[Peer(f)], k[f])}

SentBefore(k) == {k.snd_buf[i].sn : i \in DOMAIN k.snd_buf}

(* A flush of end e that sends n new segments and those of again once      *)
(* more, and asks for the window if that is due.  Datagrams may be lost,   *)
(* and of those on their way some are when they are too many or too old.   *)
Flush(e) ==
    \E n \in 0 .. Room(kcp[e]), again \in SUBSET SentBefore(kcp[e]),
       due \in {FALSE, kcp[e].probe_wait} :
        LET f == Peer(e)
            k == Probe(kcp[e], due)
            m == MoveNew(k, n)
            out == Range(Packed(Segments(k, m, again)))
        IN  /\ kcp' = [kcp EXCEPT ![e] = Flushed(m)]
            /\ \E kept \in SUBSET (StillThere(f, kcp') \cup out) :
                 /\ Cardinality(kept) <= setup.in_flight[f]
                 /\ StillThere(f, kcp') \subseteq kept \/ Cardinality(kept) = setup.in_flight[f]
                 /\ net' = [g \in Ends |-> IF g = f THEN kept ELSE StillThere(g, kcp')]
            /\ UNCHANGED <<setup, calls, sent, delivered>>

(* The blocks when the end e flushes all it has, nothing of it is lost,    *)
(* and neither is what the other end's next flush says to it.              *)
AfterRoundTrip(e) ==
    LET f == Peer(e)
        k == Probe(kcp[e], TRUE)
        m == MoveNew(k, Room(k))
        heard == Along(InputDatagram, kcp[f], Packed(Segments(k, m, SentBefore(k))))
        p == Probe(heard, FALSE)
        answered == Along(InputDatagram, Flushed(m), Packed(Segments(p, p, {})))
    IN  [kcp EXCEPT ![e] = answered, ![f] = Flushed(p)]

RoundTrip(e) ==
    /\ UNCHANGED <<setup, calls, sent, delivered>>
    /\ kcp' = AfterRoundTrip(e)
    /\ net' = [g \in Ends |-> StillThere(g, kcp')]

(* A round trip would change nothing. *)
Settled(e) ==
    /\ kcp[Peer(e)] = Flushed(kcp[Peer(e)])
    /\ AfterRoundTrip(e) = kcp

(* Of a round trip nothing stays on the way. *)
NothingNew == \A g \in Ends : net'[g] \subseteq net[g]

---------------------------------------------------------------------------
Next ==
    \E e \in Ends :
        \/ Send(e) \/ Recv(e)
        \/ Input(e) \/ InputRepeated(e)
        \/ Flush(e) \/ RoundTrip(e)

(* Users receive what there is; of the attempts of an end to get something *)
(* through, again and again one is undisturbed; and the network does not   *)
(* repeat for ever what it was given.                                      *)
Fairness ==
    /\ \A e \in Ends :
         /\ WF_vars(Recv(e))
         /\ []<>Settled(e) \/ []<><<NothingNew /\ RoundTrip(e)>>_vars
    /\ <>[][\A e \in Ends : ~ InputRepeated(e)]_vars

Spec == Init /\ [][Next]_vars /\ Fairness

---------------------------------------------------------------------------
Stream == INSTANCE ReliableStream WITH stream <- setup.stream

(* What is sent is received once and in order, in whole messages or as a   *)
(* stream of bytes, whatever the network loses, repeats or reorders.       *)
ImplementsStream == Stream!Spec

(* What the users sent, and here they send no more some time, arrives,     *)
(* also when the other end's window was full and the word that it no       *)
(* longer is was lost (ikcp.c:984-1023).                                   *)
EverythingArrives ==
    <>[](\A e \in Ends : Len(FlattenSeq(delivered[e])) = Len(FlattenSeq(sent[e])))

(* Until the other end has put a segment in order, the sender holds it or  *)
(* it waits there in rcv_buf: no acknowledgement, repeated or late, makes  *)
(* the sender forget one that is still needed (ikcp.c:580-615, 693-750).   *)
AckedIsReceived ==
    \A e \in Ends :
        LET k == kcp[e]
            p == kcp[Peer(e)]
            ahead == Diff(k.snd_nxt, p.rcv_nxt)
        IN  /\ ahead >= 0
            /\ \A sn \in {Plus(p.rcv_nxt, i) : i \in 0 .. ahead - 1} :
                 \E seg \in Range(k.snd_buf) \cup Range(p.rcv_buf) : seg.sn = sn

Ordered(buf) == \A i \in 1 .. Len(buf) - 1 : Diff(buf[i + 1].sn, buf[i].sn) > 0

(* Queues stay within the windows and buffers in order, without doubles,   *)
(* and no datagram is longer than the mtu, whatever was put in it          *)
(* (ikcp.c:693-750, 1025-1062).                                            *)
WindowsKept ==
    \A e \in Ends :
        LET k == kcp[e]
        IN  /\ Len(k.rcv_queue) <= setup.rcv_wnd /\ Len(k.rcv_buf) <= setup.rcv_wnd
            /\ Len(k.snd_buf) <= setup.snd_wnd
            /\ Ordered(k.rcv_buf) /\ Ordered(k.snd_buf)
            /\ \A d \in net[e] : Size(d) <= setup.mtu
=============================================================================
