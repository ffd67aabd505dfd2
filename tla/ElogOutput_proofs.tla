------------------------- MODULE ElogOutput_proofs --------------------------
(***************************************************************************)
(* Proofs about what EasyLogger puts its logs in: asynchronous output, for *)
(* every size of the ring and of the poll buffer, every set of line        *)
(* lengths and every number of loggers, and the file plugin, for any       *)
(* number of processes, names and files, whoever is killed wherever.       *)
(***************************************************************************)
EXTENDS Integers, Elog, FiniteSetTheorems, SequenceTheorems, WellFoundedInduction, TLAPS

---------------------------------------------------------------------------
(* Asynchronous output.  Pos and Num stand for the two remainders of       *)
(* ElogAsync, so that the steps below reason about them through PosValue   *)
(* and NumValue only.                                                      *)
Pos(i) == i % RingSize
Num(i) == i % Async!M

Byte == (0 .. Async!M - 1) \X BOOLEAN

LEMMA ModValue ==
  ASSUME NEW n \in Nat \ {0}
  PROVE  /\ \A x \in 0 .. n - 1 : x % n = x
         /\ \A x \in n .. 2 * n - 1 : x % n = x - n
         /\ \A x \in 2 * n .. 3 * n - 1 : x % n = x - 2 * n
<1>1. ASSUME NEW x \in Nat, NEW q \in {0, 1, 2}, q * n <= x, x < q * n + n
      PROVE  x % n = x - q * n
  <2>1. x % n \in 0 .. n - 1 /\ x = n * (x \div n) + (x % n) /\ x \div n \in Int
    OBVIOUS
  <2>2. CASE x \div n < q
    BY <1>1, <2>1, <2>2
  <2>3. CASE x \div n > q
    BY <1>1, <2>1, <2>3
  <2>4. CASE x \div n = q
    BY <1>1, <2>1, <2>4
  <2>. QED
    BY <2>1, <2>2, <2>3, <2>4
<1>2. \A x \in 0 .. n - 1 : x % n = x
  BY <1>1
<1>3. \A x \in n .. 2 * n - 1 : x % n = x - n
  BY <1>1
<1>4. \A x \in 2 * n .. 3 * n - 1 : x % n = x - 2 * n
  BY <1>1
<1>. QED
  BY <1>2, <1>3, <1>4

LEMMA PosValue ==
  ASSUME Async!ElogAsyncAssumption
  PROVE  \A i \in 0 .. 2 * RingSize - 1 :
            Pos(i) = IF i < RingSize THEN i ELSE i - RingSize
<1>1. RingSize \in Nat \ {0}
  BY DEF Async!ElogAsyncAssumption
<1>2. /\ \A i \in 0 .. RingSize - 1 : i % RingSize = i
      /\ \A i \in RingSize .. 2 * RingSize - 1 : i % RingSize = i - RingSize
  BY <1>1, ModValue
<1>. QED
  BY <1>1, <1>2 DEF Pos

(* The slot k bytes on is the same from an index and from n bytes before. *)
LEMMA PosShift ==
  ASSUME Async!ElogAsyncAssumption,
         NEW r \in 0 .. RingSize - 1, NEW q \in 0 .. RingSize - 1, NEW n \in 0 .. RingSize,
         q = IF r + n < RingSize THEN r + n ELSE r + n - RingSize,
         NEW k \in 1 .. RingSize, n + k <= RingSize
  PROVE  Pos(q + k - 1) = Pos(r + (n + k) - 1)
<1>1. RingSize \in Nat \ {0}
  BY DEF Async!ElogAsyncAssumption
<1>2. q + k - 1 \in 0 .. 2 * RingSize - 1 /\ r + (n + k) - 1 \in 0 .. 2 * RingSize - 1
  BY <1>1
<1>. QED
  BY <1>1, <1>2, PosValue

LEMMA NumValue ==
  ASSUME Async!ElogAsyncAssumption
  PROVE  \A i \in 0 .. 3 * Async!M - 1 :
            Num(i) = IF i < Async!M THEN i
                      ELSE IF i < 2 * Async!M THEN i - Async!M ELSE i - 2 * Async!M
<1>1. Async!M \in Nat \ {0}
  BY DEF Async!ElogAsyncAssumption, Async!M
<1>2. /\ \A x \in 0 .. Async!M - 1 : x % Async!M = x
      /\ \A x \in Async!M .. 2 * Async!M - 1 : x % Async!M = x - Async!M
      /\ \A x \in 2 * Async!M .. 3 * Async!M - 1 : x % Async!M = x - 2 * Async!M
  BY <1>1, ModValue
<1>. QED
  BY <1>1, <1>2 DEF Num

---------------------------------------------------------------------------
(* What the output thread takes is a beginning of what the ring holds.     *)

(* t is a beginning of s, and not the empty one unless s is empty. *)
Begins(t, s) ==
    /\ t \in Seq(Byte)
    /\ Len(t) <= Len(s)
    /\ \A k \in 1 .. Len(t) : t[k] = s[k]
    /\ s # <<>> => t # <<>>

LEMMA LeastNumber ==
  ASSUME NEW S \in SUBSET Nat, S # {}
  PROVE  \E k \in S : \A j \in S : k <= j
<1> DEFINE Less == {ss \in Nat \X Nat : ss[1] < ss[2]}
<1>1. IsWellFoundedOn(Less, Nat)
  BY NatLessThanWellFounded DEF OpToRel
<1>2. PICK k \in S : \A j \in S : ~ (<<j, k>> \in Less)
  BY <1>1, WFMin
<1>3. ASSUME NEW j \in S
      PROVE  k <= j
  <2>1. j \in Nat /\ k \in Nat /\ ~ (<<j, k>> \in Less)
    BY <1>2
  <2>2. (<<j, k>>)[1] = j /\ (<<j, k>>)[2] = k
    OBVIOUS
  <2>. QED
    BY <2>1, <2>2
<1>. QED
  BY <1>3

LEMMA PrefixBegins ==
  ASSUME NEW s \in Seq(Byte), NEW n \in 0 .. Len(s), n = 0 => s = <<>>
  PROVE  Begins(SubSeq(s, 1, n), s) /\ Len(SubSeq(s, 1, n)) = n
<1>1. \A i \in 1 .. n : s[i] \in Byte
  BY ElementOfSeq
<1>2. /\ SubSeq(s, 1, n) \in Seq(Byte)
      /\ Len(SubSeq(s, 1, n)) = IF 1 <= n THEN n - 1 + 1 ELSE 0
      /\ \A i \in 1 .. n - 1 + 1 : SubSeq(s, 1, n)[i] = s[1 + i - 1]
  BY <1>1, SubSeqProperties
<1>3. Len(SubSeq(s, 1, n)) = n /\ n \in Nat
  BY <1>2
<1>. QED
  BY <1>2, <1>3, EmptySeq DEF Begins

LEMMA FirstLineBegins ==
  ASSUME NEW s \in Seq(Byte)
  PROVE  Begins(Async!FirstLine(s), s)
<1> DEFINE ends == {k \in 1 .. Len(s) : s[k][2]}
<1>1. CASE ends = {}
  <2>1. Async!FirstLine(s) = s
    BY <1>1 DEF Async!FirstLine
  <2>. QED
    BY <2>1, LenProperties DEF Begins
<1>2. CASE ends # {}
  <2>1. ends \in SUBSET Nat
    OBVIOUS
  <2>2. \E k \in ends : \A j \in ends : k <= j
    BY <2>1, <1>2, LeastNumber
  <2> DEFINE first == CHOOSE k \in ends : \A j \in ends : k <= j
  <2>3. first \in ends
    BY <2>2
  <2>4. Async!FirstLine(s) = SubSeq(s, 1, first)
    BY <1>2 DEF Async!FirstLine
  <2>5. first \in 0 .. Len(s) /\ first # 0
    <3> HIDE DEF first
    <3>. QED
      BY <2>3
  <2>. QED
    BY <2>4, <2>5, PrefixBegins
<1>. QED
  BY <1>1, <1>2

LEMMA LineOfBegins ==
  ASSUME Async!ElogAsyncAssumption, read_index \in 0 .. RingSize - 1, NEW s \in Seq(Byte)
  PROVE  Begins(Async!LineOf(s), s)
<1> DEFINE before == IF RingSize - read_index < Len(s) THEN RingSize - read_index ELSE Len(s)
           head  == SubSeq(s, 1, before)
           tail  == SubSeq(s, before + 1, Len(s))
           first == Async!FirstLine(head)
           second == Async!FirstLine(tail)
<1>1. before \in 0 .. Len(s) /\ (before = 0 => s = <<>>)
  BY EmptySeq DEF Async!ElogAsyncAssumption
<1>2. Begins(head, s) /\ Len(head) = before
  BY <1>1, PrefixBegins
<1>3. Begins(first, head)
  BY <1>2, FirstLineBegins DEF Begins
<1>4. Begins(first, s)
  BY <1>2, <1>3 DEF Begins
<1>5. CASE read_index + Len(s) < RingSize \/ Len(first) < RingSize - read_index
  BY <1>4, <1>5 DEF Async!LineOf
<1>6. CASE ~ (read_index + Len(s) < RingSize \/ Len(first) < RingSize - read_index)
  <2>1. Async!LineOf(s) = first \o second
    BY <1>6 DEF Async!LineOf
  <2>2. Len(first) = before /\ before \in Nat /\ Len(s) \in Nat
    BY <1>1, <1>2, <1>3, <1>6 DEF Begins, Async!ElogAsyncAssumption
  <2>3. /\ tail \in Seq(Byte)
        /\ Len(tail) = Len(s) - before
        /\ \A k \in 1 .. Len(tail) : tail[k] = s[before + k]
    <3>1. \A i \in before + 1 .. Len(s) : s[i] \in Byte
      BY <1>1, ElementOfSeq
    <3>2. /\ tail \in Seq(Byte)
          /\ Len(tail) = IF before + 1 <= Len(s) THEN Len(s) - (before + 1) + 1 ELSE 0
          /\ \A i \in 1 .. Len(s) - (before + 1) + 1 : tail[i] = s[before + 1 + i - 1]
      BY <3>1, <1>1, <2>2, SubSeqProperties
    <3>3. Len(tail) = Len(s) - before /\ before <= Len(s)
      BY <3>2, <1>1, <2>2
    <3>4. ASSUME NEW k \in 1 .. Len(tail)
          PROVE  tail[k] = s[before + k]
      <4>1. k \in 1 .. Len(s) - (before + 1) + 1 /\ before + 1 + k - 1 = before + k
        BY <3>3, <2>2
      <4>. QED
        BY <3>2, <4>1
    <3>. QED
      BY <3>2, <3>3, <3>4
  <2>4. Begins(second, tail)
    BY <2>3, FirstLineBegins
  <2>5. /\ first \o second \in Seq(Byte)
        /\ Len(first \o second) = Len(first) + Len(second)
        /\ \A i \in 1 .. Len(first) + Len(second) :
              (first \o second)[i] = IF i <= Len(first) THEN first[i] ELSE second[i - Len(first)]
    BY <1>3, <2>4, ConcatProperties DEF Begins
  <2> HIDE DEF before, head, tail, first, second
  <2>6. \A i \in 1 .. Len(first) + Len(second) : (first \o second)[i] = s[i]
    <3>1. ASSUME NEW i \in 1 .. Len(first)
          PROVE  (first \o second)[i] = s[i]
      BY <1>4, <2>2, <2>5 DEF Begins
    <3>2. ASSUME NEW i \in 1 .. Len(second)
          PROVE  (first \o second)[Len(first) + i] = s[Len(first) + i]
      <4>1. second[i] = tail[i] /\ i \in 1 .. Len(tail)
        BY <2>4 DEF Begins
      <4>2. tail[i] = s[before + i]
        BY <4>1, <2>3
      <4>3. Len(first) + i \in 1 .. Len(first) + Len(second) /\ i > 0
        BY <2>2, <2>4 DEF Begins
      <4>4. (first \o second)[Len(first) + i] = second[(Len(first) + i) - Len(first)]
        BY <2>2, <2>5, <4>3
      <4>. QED
        BY <2>2, <4>1, <4>2, <4>4
    <3>. QED
      <4>1. Len(second) \in Nat
        BY <2>4 DEF Begins
      <4>2. ASSUME NEW i \in 1 .. Len(first) + Len(second), ~ (i \in 1 .. Len(first))
            PROVE  (first \o second)[i] = s[i]
        <5>1. i - Len(first) \in 1 .. Len(second) /\ i = Len(first) + (i - Len(first))
          BY <4>1, <4>2, <2>2
        <5>. QED
          BY <5>1, <3>2
      <4>. QED
        BY <3>1, <4>2
  <2>7. Len(first) + Len(second) <= Len(s)
    BY <2>2, <2>3, <2>4 DEF Begins
  <2>8. s # <<>> => Len(first \o second) # 0
    BY <1>4, <2>4, <2>5, EmptySeq DEF Begins
  <2>. QED
    BY <2>1, <2>5, <2>6, <2>7, <2>8 DEF Begins
<1>. QED
  BY <1>5, <1>6
---------------------------------------------------------------------------
(* The inductive invariant. *)

AsyncPlaces == {"gone", "test", "wait", "lock", "get", "unlock", "printing"}
LoggerPlaces == {"idle", "lock", "output", "notice", "printing", "unlock"}

(* A logger in a call has a log, and a log is not empty. *)
LoggersTyped ==
    /\ logger \in [Loggers -> [pc : LoggerPlaces, level : {"none", "info", "debug"}, size : Nat]]
    /\ \A t \in Loggers : logger[t].pc # "idle" => logger[t].size > 0

Types ==
    /\ write_index \in 0 .. RingSize - 1 /\ read_index \in 0 .. RingSize - 1
    /\ buf_is_full \in BOOLEAN /\ buf_is_empty \in BOOLEAN
    /\ log_buf \in [0 .. RingSize - 1 -> Byte]
    /\ put_count \in 0 .. Async!M - 1 /\ print_count \in 0 .. Async!M - 1
    /\ async \in [pc : AsyncPlaces, buf : Seq(Byte)]
    /\ LoggersTyped

(* The thread keeps bytes from the time it gets them until they are        *)
(* printed, and it is gone when elog_init creates it again.                *)
Buffered ==
    /\ async.pc \notin {"unlock", "printing"} => async.buf = <<>>
    /\ main = "down" => async.pc = "gone"
    /\ Len(async.buf) <= PollSize

(* Equal indices mean a full or an empty ring, which the flags tell apart. *)
FlagsTell ==
    /\ ~ (buf_is_full /\ buf_is_empty)
    /\ write_index = read_index <=> buf_is_full \/ buf_is_empty

(* The bytes put and not printed: those of the thread, then of the ring. *)
Numbered ==
    /\ Len(async.buf) + Async!Used = (IF put_count >= print_count THEN put_count - print_count
                                ELSE put_count - print_count + Async!M)
    /\ \A k \in 1 .. Len(async.buf) : async.buf[k][1] = Num(print_count + k - 1)
    /\ \A k \in 1 .. Async!Used :
          log_buf[Pos(read_index + k - 1)][1] = Num(print_count + Len(async.buf) + k - 1)

AsyncInv == Types /\ Buffered /\ FlagsTell /\ Numbered

(* Used and the write index as distances from the read index. *)
LEMMA UsedValue ==
  ASSUME Async!ElogAsyncAssumption, Types, FlagsTell
  PROVE  /\ Async!Used \in 0 .. RingSize
         /\ write_index = Pos(read_index + Async!Used)
         /\ Async!Used = RingSize <=> buf_is_full
         /\ Async!Used = 0 <=> buf_is_empty
<1>1. RingSize \in Nat \ {0}
  BY DEF Async!ElogAsyncAssumption
<1>2. /\ Async!Used \in 0 .. RingSize
      /\ write_index = IF read_index + Async!Used < RingSize THEN read_index + Async!Used
                       ELSE read_index + Async!Used - RingSize
      /\ Async!Used = RingSize <=> buf_is_full
      /\ Async!Used = 0 <=> buf_is_empty
  BY <1>1 DEF Async!Used, Types, FlagsTell
<1>3. read_index + Async!Used \in 0 .. 2 * RingSize - 1
  BY <1>1, <1>2 DEF Types
<1>4. Pos(read_index + Async!Used) = IF read_index + Async!Used < RingSize
                                     THEN read_index + Async!Used
                               ELSE read_index + Async!Used - RingSize
  BY <1>1, <1>2, <1>3, PosValue DEF Types
<1>. QED
  BY <1>2, <1>4

LEMMA ContentsValue ==
  ASSUME Async!ElogAsyncAssumption, Types, FlagsTell
  PROVE  /\ Async!Contents \in Seq(Byte)
         /\ Len(Async!Contents) = Async!Used
         /\ \A k \in 1 .. Async!Used : Async!Contents[k] = log_buf[Pos(read_index + k - 1)]
<1>1. Async!Used \in 0 .. RingSize /\ RingSize \in Nat \ {0}
  BY UsedValue DEF Async!ElogAsyncAssumption
<1>2. \A k \in 1 .. Async!Used : Pos(read_index + k - 1) \in 0 .. RingSize - 1
  <2>1. ASSUME NEW k \in 1 .. Async!Used
        PROVE  read_index + k - 1 \in 0 .. 2 * RingSize - 1
    BY <1>1 DEF Types
  <2>. QED
    BY <2>1, <1>1, PosValue
<1>3. Async!Contents = [k \in 1 .. Async!Used |-> log_buf[Pos(read_index + k - 1)]]
  BY DEF Async!Contents, Pos
<1>4. \A k \in 1 .. Async!Used : log_buf[Pos(read_index + k - 1)] \in Byte
  BY <1>2 DEF Types
<1>5. Async!Contents \in [1 .. Async!Used -> Byte] /\ Async!Used \in Nat
  BY <1>1, <1>3, <1>4
<1>6. Async!Contents \in Seq(Byte)
  BY <1>5, SeqDef
<1>7. Len(Async!Contents) = Async!Used
  BY <1>5, <1>6, LenProperties
<1>. QED
  BY <1>3, <1>6, <1>7

(* The invariant says what RingMatches says. *)
LEMMA AsyncInvMatches ==
  ASSUME Async!ElogAsyncAssumption, AsyncInv
  PROVE  RingMatches
<1> USE DEF AsyncInv
<1> DEFINE held == async.buf \o Async!Contents
<1>1. async.buf \in Seq(Byte)
  BY DEF Types
<1>2. /\ Async!Contents \in Seq(Byte)
      /\ Len(Async!Contents) = Async!Used
      /\ \A k \in 1 .. Async!Used : Async!Contents[k] = log_buf[Pos(read_index + k - 1)]
  BY ContentsValue
<1>3. /\ Len(held) = Len(async.buf) + Async!Used
      /\ \A i \in 1 .. Len(async.buf) + Async!Used :
            held[i] = IF i <= Len(async.buf) THEN async.buf[i]
                      ELSE Async!Contents[i - Len(async.buf)]
  BY <1>1, <1>2, ConcatProperties
<1>4. Len(async.buf) \in Nat /\ Async!Used \in Nat /\ Async!M \in Nat \ {0}
  BY <1>1, <1>2, LenProperties DEF Async!ElogAsyncAssumption, Async!M
<1> HIDE DEF held
<1>5. Len(held) = Num(put_count - print_count + Async!M)
  <2>1. put_count - print_count + Async!M \in 0 .. 3 * Async!M - 1
    BY <1>4 DEF Types
  <2>2. put_count \in 0 .. Async!M - 1 /\ print_count \in 0 .. Async!M - 1
    BY DEF Types
  <2>. QED
    BY <1>3, <1>4, <2>1, <2>2, NumValue DEF Numbered
<1>6. ASSUME NEW k \in 1 .. Len(held)
      PROVE  held[k][1] = Num(print_count + k - 1)
  <2>1. CASE k <= Len(async.buf)
    <3>1. held[k] = async.buf[k] /\ k \in 1 .. Len(async.buf)
      BY <1>3, <1>4, <2>1
    <3>. QED
      BY <3>1 DEF Numbered
  <2>2. CASE ~ (k <= Len(async.buf))
    <3>1. k - Len(async.buf) \in 1 .. Async!Used /\ held[k] = Async!Contents[k - Len(async.buf)]
      BY <1>3, <1>4, <2>2
    <3>2. held[k][1] = log_buf[Pos(read_index + (k - Len(async.buf)) - 1)][1]
      BY <3>1, <1>2
    <3>3. held[k][1] = Num(print_count + Len(async.buf) + (k - Len(async.buf)) - 1)
      BY <3>1, <3>2 DEF Numbered
    <3>4. print_count + Len(async.buf) + (k - Len(async.buf)) - 1 = print_count + k - 1
      BY <1>4 DEF Types
    <3>. QED
      BY <3>3, <3>4
  <2>. QED
    BY <2>1, <2>2
<1>7. /\ Len(held) = (put_count - print_count + Async!M) % Async!M
      /\ \A k \in 1 .. Len(held) : held[k][1] = (print_count + k - 1) % Async!M
  BY <1>5, <1>6 DEF Num
<1>. QED
  BY <1>7 DEF RingMatches, Async!RingMatches, FlagsTell, held
---------------------------------------------------------------------------
(* The steps. *)

LEMMA AsyncInitInv ==
  ASSUME Async!ElogAsyncAssumption, Async!Init
  PROVE  AsyncInv
<1>1. RingSize \in Nat \ {0} /\ Async!M \in Nat \ {0} /\ PollSize \in Nat
  BY DEF Async!ElogAsyncAssumption, Async!M
<1>2. Types
  <2>1. 0 \in 0 .. Async!M - 1 /\ 0 \in 0 .. RingSize - 1
    BY <1>1
  <2>2. log_buf \in [0 .. RingSize - 1 -> Byte]
    BY <2>1 DEF Async!Init, Async!NoByte, Byte
  <2>3. async \in [pc : AsyncPlaces, buf : Seq(Byte)]
    BY EmptySeq DEF Async!Init, AsyncPlaces
  <2>4. /\ logger \in
             [Loggers -> [pc : LoggerPlaces, level : {"none", "info", "debug"}, size : Nat]]
        /\ \A t \in Loggers : logger[t].pc # "idle" => logger[t].size > 0
    BY DEF Async!Init, Async!Idle, LoggerPlaces
  <2>5. /\ write_index \in 0 .. RingSize - 1 /\ read_index \in 0 .. RingSize - 1
        /\ put_count \in 0 .. Async!M - 1 /\ print_count \in 0 .. Async!M - 1
    BY <2>1 DEF Async!Init
  <2>6. buf_is_full \in BOOLEAN /\ buf_is_empty \in BOOLEAN
    BY DEF Async!Init
  <2>. QED
    BY <2>2, <2>3, <2>4, <2>5, <2>6 DEF Types, LoggersTyped
<1>3. Buffered /\ FlagsTell
  BY <1>1, EmptySeq DEF Async!Init, Buffered, FlagsTell
<1>4. Numbered
  <2>1. Async!Used = 0 /\ Len(async.buf) = 0
    BY EmptySeq DEF Async!Init, Async!Used
  <2>. QED
    BY <2>1, <1>1 DEF Async!Init, Numbered
<1>. QED
  BY <1>2, <1>3, <1>4 DEF AsyncInv

(* A step that moves neither bytes nor counters. *)
LEMMA AsyncStill ==
  ASSUME AsyncInv, Types', Buffered', UNCHANGED <<Async!ring, Async!counts>>, async'.buf = async.buf
  PROVE  AsyncInv'
BY DEF AsyncInv, FlagsTell, Numbered, Async!Used, Async!ring, Async!counts

(* The copy of async_put_log: what was in the ring stays, the new bytes    *)
(* follow it, and the flags tell a ring it fills from an empty one.        *)
LEMMA PutInv ==
  ASSUME Async!ElogAsyncAssumption, AsyncInv, NEW length \in Nat \ {0}, NEW stored,
         stored = (IF RingSize - Async!Used < length THEN RingSize - Async!Used ELSE length),
         Async!Used # RingSize, Async!Put(length, stored), UNCHANGED <<async, print_count>>
  PROVE  /\ write_index' \in 0 .. RingSize - 1
         /\ log_buf' \in [0 .. RingSize - 1 -> Byte]
         /\ put_count' \in 0 .. Async!M - 1
         /\ buf_is_full' \in BOOLEAN /\ buf_is_empty' \in BOOLEAN
         /\ FlagsTell' /\ Numbered'
<1>1. /\ RingSize \in Nat \ {0} /\ Async!M = 2 * RingSize /\ Async!Used \in 0 .. RingSize - 1
      /\ stored \in 1 .. RingSize - Async!Used
      /\ Async!Fills(length) <=> stored = RingSize - Async!Used
  <2>1. RingSize \in Nat \ {0} /\ Async!Used \in 0 .. RingSize
    BY UsedValue DEF AsyncInv, Async!ElogAsyncAssumption
  <2>. QED
    BY <2>1 DEF Async!Fills, Async!M
<1>2. /\ write_index' = Async!After(write_index, stored)
      /\ buf_is_full' = (buf_is_full \/ Async!Fills(length))
      /\ buf_is_empty' = FALSE
      /\ read_index' = read_index
      /\ put_count' = Num(put_count + stored)
  BY DEF Async!Put, Num
<1>3. /\ write_index \in 0 .. RingSize - 1 /\ read_index \in 0 .. RingSize - 1
      /\ put_count \in 0 .. Async!M - 1 /\ print_count \in 0 .. Async!M - 1
      /\ log_buf \in [0 .. RingSize - 1 -> Byte]
  BY DEF AsyncInv, Types
<1>4. /\ write_index = Pos(read_index + Async!Used)
      /\ ~ buf_is_full
      /\ write_index = IF read_index + Async!Used < RingSize THEN read_index + Async!Used
                       ELSE read_index + Async!Used - RingSize
  <2>1. write_index = Pos(read_index + Async!Used) /\ (Async!Used = RingSize <=> buf_is_full)
    BY UsedValue DEF AsyncInv
  <2>2. read_index + Async!Used \in 0 .. 2 * RingSize - 1
    BY <1>1, <1>3
  <2>. QED
    BY <1>1, <1>3, <2>1, <2>2, PosValue
<1>5. /\ write_index' \in 0 .. RingSize - 1
      /\ buf_is_full' = (stored = RingSize - Async!Used)
      /\ FlagsTell'
      /\ Async!Used' = Async!Used + stored
  <2>1. write_index' = IF write_index + stored < RingSize THEN write_index + stored
                       ELSE write_index + stored - RingSize
    BY <1>2 DEF Async!After
  <2>2. CASE stored = RingSize - Async!Used
    <3>1. write_index' = read_index'
      <4>1. CASE read_index + Async!Used < RingSize
        <5>1. write_index = read_index + Async!Used
          BY <1>4, <4>1
        <5>. QED
          BY <1>1, <1>2, <1>3, <2>1, <2>2, <5>1
      <4>2. CASE ~ (read_index + Async!Used < RingSize)
        <5>1. write_index = read_index + Async!Used - RingSize
          BY <1>4, <4>2
        <5>. QED
          BY <1>1, <1>2, <1>3, <2>1, <2>2, <5>1
      <4>. QED
        BY <4>1, <4>2
    <3>2. buf_is_full' = TRUE /\ buf_is_empty' = FALSE
      BY <1>1, <1>2, <2>2
    <3>3. Async!Used' = RingSize
      BY <3>1, <3>2, <1>2, <1>3 DEF Async!Used
    <3>4. Async!Used' = Async!Used + stored
      BY <3>3, <1>1, <2>2
    <3>. QED
      BY <1>2, <1>3, <3>1, <3>2, <3>4, <2>2 DEF FlagsTell
  <2>3. CASE ~ (stored = RingSize - Async!Used)
    <3>1. /\ write_index' # read_index /\ write_index' \in 0 .. RingSize - 1
          /\ write_index' > read_index => write_index' - read_index = Async!Used + stored
          /\ write_index' < read_index =>
                RingSize - (read_index - write_index') = Async!Used + stored
      BY <1>1, <1>3, <1>4, <2>1, <2>3
    <3>2. buf_is_full' = FALSE /\ buf_is_empty' = FALSE
      BY <1>1, <1>2, <1>4, <2>3 DEF AsyncInv, Types
    <3>3. Async!Used' = Async!Used + stored
      BY <3>1, <3>2, <1>2, <1>3 DEF Async!Used
    <3>. QED
      BY <1>2, <3>1, <3>2, <3>3, <2>3 DEF FlagsTell
  <2>. QED
    BY <2>2, <2>3
<1>6. put_count' \in 0 .. Async!M - 1
      /\ put_count' = IF put_count + stored < Async!M THEN put_count + stored
                       ELSE put_count + stored - Async!M
  <2>1. put_count + stored \in 0 .. 3 * Async!M - 1 /\ put_count + stored < 2 * Async!M
    BY <1>1, <1>3
  <2>2. Num(put_count + stored) = IF put_count + stored < Async!M THEN put_count + stored
                                  ELSE put_count + stored - Async!M
    BY <1>1, <1>3, <2>1, NumValue
  <2>. QED
    BY <1>1, <1>2, <1>3, <2>1, <2>2
<1> DEFINE slot(i) == Pos(i - write_index + RingSize) + 1
<1>7. /\ DOMAIN log_buf' = 0 .. RingSize - 1
      /\ \A i \in 0 .. RingSize - 1 :
            log_buf'[i] = IF slot(i) <= stored
                          THEN <<Num(put_count + slot(i) - 1), slot(i) = length>> ELSE log_buf[i]
  BY DEF Async!Put, Pos, Num
<1>8. \A i \in 0 .. RingSize - 1 :
         slot(i) = IF i >= write_index THEN i - write_index + 1
                   ELSE i - write_index + RingSize + 1
  <2>1. ASSUME NEW i \in 0 .. RingSize - 1
        PROVE  Pos(i - write_index + RingSize) = IF i >= write_index THEN i - write_index
                                                ELSE i - write_index + RingSize
    <3>1. i - write_index + RingSize \in 0 .. 2 * RingSize - 1
      BY <1>1, <1>3
    <3>. QED
      BY <1>1, <1>3, <3>1, PosValue
  <2>. QED
    BY <2>1, <1>1, <1>3
<1> HIDE DEF slot
<1>9. log_buf' \in [0 .. RingSize - 1 -> Byte]
  <2>1. ASSUME NEW i \in 0 .. RingSize - 1
        PROVE  log_buf'[i] \in Byte
    <3>1. slot(i) \in 1 .. RingSize
      BY <1>1, <1>3, <1>8
    <3>2. put_count + slot(i) - 1 \in 0 .. 3 * Async!M - 1
      BY <1>1, <1>3, <3>1
    <3>3. Num(put_count + slot(i) - 1) \in 0 .. Async!M - 1
      BY <1>1, <1>3, <3>1, <3>2, NumValue
    <3>4. slot(i) <= stored => log_buf'[i] = <<Num(put_count + slot(i) - 1), slot(i) = length>>
      BY <1>7
    <3>5. ~ (slot(i) <= stored) => log_buf'[i] = log_buf[i]
      BY <1>7
    <3>6. log_buf[i] \in Byte
      BY <1>3
    <3>7. <<Num(put_count + slot(i) - 1), slot(i) = length>> \in Byte
      BY <3>3 DEF Byte
    <3>. QED
      BY <3>4, <3>5, <3>6, <3>7
  <2>2. log_buf' = [i \in 0 .. RingSize - 1 |-> log_buf'[i]]
    BY DEF Async!Put
  <2>. QED
    BY <2>1, <2>2
<1>10. Numbered'
  <2> DEFINE len == Len(async.buf)
  <2>0. len \in Nat /\ len < RingSize /\ async'.buf = async.buf /\ print_count' = print_count
    BY LenProperties DEF AsyncInv, Types, Buffered, Async!ElogAsyncAssumption
  <2>1. len + Async!Used = IF put_count >= print_count THEN put_count - print_count
                     ELSE put_count - print_count + Async!M
    BY DEF AsyncInv, Numbered
  <2> HIDE DEF len
  <2>2. len + Async!Used' = IF put_count' >= print_count THEN put_count' - print_count
                      ELSE put_count' - print_count + Async!M
    BY <1>1, <1>3, <1>5, <1>6, <2>0, <2>1
  <2>3. ASSUME NEW k \in 1 .. Async!Used'
        PROVE  log_buf'[Pos(read_index + k - 1)][1] = Num(print_count + len + k - 1)
    <3> DEFINE i == Pos(read_index + k - 1)
    <3>1. /\ i \in 0 .. RingSize - 1
          /\ i = IF read_index + k - 1 < RingSize THEN read_index + k - 1
                 ELSE read_index + k - 1 - RingSize
      <4>1. read_index + k - 1 \in 0 .. 2 * RingSize - 1
        BY <1>1, <1>3, <1>5
      <4>. QED
        BY <1>1, <1>3, <4>1, PosValue
    <3> HIDE DEF i
    <3>2. slot(i) = IF i >= write_index THEN i - write_index + 1
                    ELSE i - write_index + RingSize + 1
      BY <3>1, <1>8
    <3>3. CASE k <= Async!Used
      <4>1. slot(i) > stored
        <5>1. CASE read_index + Async!Used < RingSize
          <6>1. write_index = read_index + Async!Used
            BY <1>4, <5>1
          <6>. QED
            BY <1>1, <1>3, <3>1, <3>2, <3>3, <5>1, <6>1
        <5>2. CASE ~ (read_index + Async!Used < RingSize)
          <6>1. write_index = read_index + Async!Used - RingSize
            BY <1>4, <5>2
          <6>. QED
            BY <1>1, <1>3, <3>1, <3>2, <3>3, <5>2, <6>1
        <5>. QED
          BY <5>1, <5>2
      <4>2. log_buf'[i] = log_buf[i]
        <5>1. slot(i) \in Int
          BY <1>1, <1>3, <3>1, <3>2
        <5>2. ~ (slot(i) <= stored)
          BY <1>1, <4>1, <5>1
        <5>. QED
          BY <1>7, <3>1, <5>2, Zenon
      <4>3. log_buf[Pos(read_index + k - 1)][1] = Num(print_count + len + k - 1)
        <5>1. k \in 1 .. Async!Used
          BY <3>3, <1>1, <1>5
        <5>. QED
          BY <5>1 DEF AsyncInv, Numbered, len
      <4>. QED
        BY <4>2, <4>3 DEF i
    <3>4. CASE ~ (k <= Async!Used)
      <4>1. slot(i) = k - Async!Used /\ slot(i) <= stored
        <5>1. k \in Nat /\ Async!Used < k /\ k <= Async!Used + stored
          BY <1>1, <1>5, <3>4
        <5>2. k <= RingSize /\ stored \in Nat /\ Async!Used \in Nat
          BY <1>1, <5>1
        <5>3. CASE read_index + Async!Used < RingSize
          <6>1. write_index = read_index + Async!Used
            BY <1>4, <5>3
          <6>. QED
            BY <1>1, <1>3, <3>1, <3>2, <5>1, <5>2, <5>3, <6>1
        <5>4. CASE ~ (read_index + Async!Used < RingSize)
          <6>1. write_index = read_index + Async!Used - RingSize
            BY <1>4, <5>4
          <6>. QED
            BY <1>1, <1>3, <3>1, <3>2, <5>1, <5>2, <5>4, <6>1
        <5>. QED
          BY <5>3, <5>4
      <4>2. log_buf'[i][1] = Num(put_count + slot(i) - 1)
        BY <1>7, <3>1, <4>1
      <4>3. Num(put_count + slot(i) - 1) = Num(print_count + len + k - 1)
        <5>1. CASE put_count >= print_count
          BY <5>1, <2>1, <4>1, <2>0, <1>1, <1>3
        <5>2. CASE ~ (put_count >= print_count)
          <6>1. print_count + len + k - 1 = put_count + slot(i) - 1 + Async!M
            BY <5>2, <2>1, <4>1, <2>0, <1>1, <1>3
          <6>2. /\ put_count + slot(i) - 1 \in 0 .. 2 * Async!M - 1
                /\ put_count + slot(i) - 1 + Async!M \in Async!M .. 3 * Async!M - 1
            BY <4>1, <1>1, <1>3, <1>5, <3>4
          <6>3. put_count + slot(i) - 1 \in 0 .. 3 * Async!M - 1
                /\ put_count + slot(i) - 1 + Async!M \in 0 .. 3 * Async!M - 1
            BY <6>2, <1>1
          <6>4. Num(put_count + slot(i) - 1) = Num(put_count + slot(i) - 1 + Async!M)
            BY <6>2, <6>3, <1>1, NumValue
          <6>. QED
            BY <6>1, <6>4
        <5>. QED
          BY <5>1, <5>2
      <4>. QED
        BY <4>2, <4>3 DEF i
    <3>. QED
      BY <3>3, <3>4
  <2>4. \A k \in 1 .. len : async.buf[k][1] = Num(print_count + k - 1)
    BY DEF AsyncInv, Numbered, len
  <2>. QED
    BY <1>2, <2>0, <2>2, <2>3, <2>4 DEF Numbered, len
<1>. QED
  BY <1>2, <1>5, <1>6, <1>9, <1>10

(* async_output's get: the bytes move from the ring to the thread. *)
LEMMA GotBegins ==
  ASSUME Async!ElogAsyncAssumption, AsyncInv, Async!Get
  PROVE  /\ async'.buf \in Seq(Byte) /\ async'.pc = "unlock"
         /\ Len(async'.buf) <= PollSize /\ Len(async'.buf) <= Async!Used
         /\ Len(async'.buf) = 0 <=> Async!Used = 0
         /\ \A k \in 1 .. Len(async'.buf) : async'.buf[k] = Async!Contents[k]
<1> DEFINE n == IF Async!Used <= PollSize THEN Async!Used ELSE PollSize
           wanted == SubSeq(Async!Contents, 1, n)
           got == IF by_line THEN Async!LineOf(wanted) ELSE wanted
<1>1. /\ Async!Contents \in Seq(Byte) /\ Len(Async!Contents) = Async!Used /\ Async!Used \in Nat
      /\ read_index \in 0 .. RingSize - 1
  BY ContentsValue, UsedValue DEF AsyncInv, Types
<1>2. n \in 0 .. Len(Async!Contents) /\ n <= PollSize /\ (n = 0 <=> Async!Used = 0)
  BY <1>1 DEF Async!ElogAsyncAssumption
<1>3. n = 0 => Async!Contents = <<>>
  BY <1>1, <1>2, EmptySeq
<1>4. Begins(wanted, Async!Contents) /\ Len(wanted) = n
  BY <1>1, <1>2, <1>3, PrefixBegins
<1>5. Begins(got, wanted)
  <2>1. wanted \in Seq(Byte)
    BY <1>4 DEF Begins
  <2>2. Begins(Async!LineOf(wanted), wanted)
    BY <1>1, <2>1, LineOfBegins
  <2>3. Begins(wanted, wanted)
    BY <2>1, LenProperties DEF Begins
  <2>. QED
    BY <2>2, <2>3
<1>6. async' = [pc |-> "unlock", buf |-> got]
  BY DEF Async!Get
<1> HIDE DEF n, wanted, got
<1>7. /\ got \in Seq(Byte) /\ Len(got) <= n /\ Len(got) \in Nat
      /\ \A k \in 1 .. Len(got) : got[k] = Async!Contents[k]
  <2>1. got \in Seq(Byte) /\ Len(got) <= n /\ Len(got) \in Nat
    BY <1>4, <1>5, LenProperties DEF Begins
  <2>2. ASSUME NEW k \in 1 .. Len(got)
        PROVE  got[k] = Async!Contents[k]
    <3>1. got[k] = wanted[k] /\ k \in 1 .. Len(wanted)
      BY <1>4, <1>5, <1>2, <2>1 DEF Begins
    <3>. QED
      BY <3>1, <1>4 DEF Begins
  <2>. QED
    BY <2>1, <2>2
<1>8. Len(got) = 0 <=> n = 0
  BY <1>2, <1>4, <1>5, <1>7, EmptySeq DEF Begins
<1>. QED
  BY <1>1, <1>2, <1>6, <1>7, <1>8 DEF Async!ElogAsyncAssumption

(* A read index that moves by less than what is used does not meet the     *)
(* write index, and its distance to it is what is left.                    *)
LEMMA StillAhead ==
  ASSUME NEW n \in Nat \ {0}, NEW r \in 0 .. n - 1, NEW u \in 0 .. n, NEW k \in Nat,
         k > 0, k < u,
         NEW w, w = IF r + u < n THEN r + u ELSE r + u - n,
         NEW s, s = IF r + k < n THEN r + k ELSE r + k - n
  PROVE  /\ s # w
         /\ w > s => w - s = u - k
         /\ w < s => n - (s - w) = u - k
<1>1. CASE r + u < n
  <2>1. w = r + u /\ s = r + k
    BY <1>1
  <2>. QED
    BY <2>1
<1>2. CASE ~ (r + u < n) /\ r + k < n
  <2>1. w = r + u - n /\ s = r + k
    BY <1>2
  <2>. QED
    BY <2>1
<1>3. CASE ~ (r + u < n) /\ ~ (r + k < n)
  <2>1. w = r + u - n /\ s = r + k - n
    BY <1>3
  <2>. QED
    BY <2>1
<1>. QED
  BY <1>1, <1>2, <1>3

LEMMA GetInv ==
  ASSUME Async!ElogAsyncAssumption, AsyncInv, async.pc = "get", Async!Get, UNCHANGED Async!counts
  PROVE  /\ read_index' \in 0 .. RingSize - 1 /\ UNCHANGED <<write_index, log_buf>>
         /\ buf_is_full' \in BOOLEAN /\ buf_is_empty' \in BOOLEAN
         /\ FlagsTell' /\ Numbered'
<1> DEFINE len == Len(async'.buf)
<1>1. /\ async'.buf \in Seq(Byte)
      /\ len <= Async!Used /\ (len = 0 <=> Async!Used = 0) /\ len \in Nat
      /\ \A k \in 1 .. len : async'.buf[k] = Async!Contents[k]
  BY GotBegins, LenProperties
<1>2. /\ RingSize \in Nat \ {0} /\ Async!M = 2 * RingSize /\ Async!Used \in 0 .. RingSize
      /\ Async!Used = RingSize <=> buf_is_full
      /\ Async!Used = 0 <=> buf_is_empty
      /\ \A k \in 1 .. Async!Used : Async!Contents[k] = log_buf[Pos(read_index + k - 1)]
  BY UsedValue, ContentsValue DEF AsyncInv, Async!ElogAsyncAssumption, Async!M
<1>3. /\ write_index \in 0 .. RingSize - 1 /\ read_index \in 0 .. RingSize - 1
      /\ put_count \in 0 .. Async!M - 1 /\ print_count \in 0 .. Async!M - 1
      /\ buf_is_full \in BOOLEAN /\ buf_is_empty \in BOOLEAN
      /\ async.buf = <<>> /\ Len(async.buf) = 0
  BY EmptySeq DEF AsyncInv, Types, Buffered
<1>4. write_index = IF read_index + Async!Used < RingSize THEN read_index + Async!Used
                    ELSE read_index + Async!Used - RingSize
  <2>1. write_index = Pos(read_index + Async!Used)
    BY UsedValue DEF AsyncInv
  <2>2. read_index + Async!Used \in 0 .. 2 * RingSize - 1
    BY <1>2, <1>3
  <2>3. read_index \in Int /\ Async!Used \in Int /\ RingSize \in Int
    BY <1>2, <1>3
  <2>4. Pos(read_index + Async!Used) = IF read_index + Async!Used < RingSize
                                       THEN read_index + Async!Used
                                       ELSE read_index + Async!Used - RingSize
    BY <2>2, <2>3, PosValue
  <2>. QED
    BY <2>1, <2>4
<1>5. /\ Async!Used = IF put_count >= print_count THEN put_count - print_count
                ELSE put_count - print_count + Async!M
      /\ \A k \in 1 .. Async!Used : log_buf[Pos(read_index + k - 1)][1] = Num(print_count + k - 1)
  <2>1. /\ 0 + Async!Used = IF put_count >= print_count THEN put_count - print_count
                      ELSE put_count - print_count + Async!M
        /\ \A k \in 1 .. Async!Used :
              log_buf[Pos(read_index + k - 1)][1] = Num(print_count + 0 + k - 1)
    BY <1>3 DEF AsyncInv, Numbered
  <2>. QED
    BY <2>1, <1>2, <1>3
<1>6. CASE len = 0
  <2>1. async'.buf = <<>>
    BY <1>1, <1>6, EmptySeq
  <2>2. UNCHANGED Async!ring
    BY <2>1 DEF Async!Get
  <2>. QED
    BY <1>3, <2>1, <2>2 DEF AsyncInv, FlagsTell, Numbered, Async!Used, Async!ring, Async!counts
<1>7. CASE len # 0
  <2>1. /\ read_index' = Async!After(read_index, len)
        /\ buf_is_empty' = (buf_is_empty \/ len = Async!Used)
        /\ buf_is_full' = FALSE
        /\ UNCHANGED <<log_buf, write_index>>
    BY <1>7, EmptySeq DEF Async!Get, Async!Taken
  <2> HIDE DEF len
  <2>2. read_index' = IF read_index + len < RingSize THEN read_index + len
                      ELSE read_index + len - RingSize
    BY <2>1 DEF Async!After
  <2>3. ~ buf_is_empty /\ Async!Used > 0 /\ len > 0
    BY <1>1, <1>2, <1>7
  <2>4. read_index' \in 0 .. RingSize - 1
    BY <1>1, <1>2, <1>3, <2>2
  <2>5. FlagsTell' /\ Async!Used' = Async!Used - len
    <3>1. CASE len = Async!Used
      <4>1. read_index' = write_index
        BY <1>1, <1>2, <1>3, <1>4, <2>2, <3>1
      <4>2. buf_is_empty' /\ ~ buf_is_full'
        BY <2>1, <3>1
      <4>. QED
        <5>1. Async!Used' = 0
          <6>1. ~ (write_index' > read_index')
            <7>1. ~ (write_index > write_index)
              BY <1>3
            <7>2. write_index' = write_index /\ read_index' = write_index
              BY <4>1, <2>1
            <7>. QED
              BY <7>1, <7>2, Zenon
          <6>. QED
            BY <4>2, <6>1 DEF Async!Used
        <5>2. Async!Used - len = 0
          BY <3>1, <1>2
        <5>3. FlagsTell'
          BY <4>1, <4>2, <2>1 DEF FlagsTell
        <5>. QED
          BY <5>1, <5>2, <5>3
    <3>2. CASE len # Async!Used
      <4>1. /\ read_index' # write_index
            /\ write_index > read_index' => write_index - read_index' = Async!Used - len
            /\ write_index < read_index' =>
                  RingSize - (read_index' - write_index) = Async!Used - len
        <5> DEFINE left == Async!Used
        <5>1. /\ left \in 0 .. RingSize /\ len \in Nat /\ len > 0 /\ len < left
              /\ write_index = IF read_index + left < RingSize THEN read_index + left
                               ELSE read_index + left - RingSize
          BY <1>1, <1>2, <1>4, <2>3, <3>2
        <5> HIDE DEF left
        <5>2. /\ read_index' # write_index
              /\ write_index > read_index' => write_index - read_index' = left - len
              /\ write_index < read_index' => RingSize - (read_index' - write_index) = left - len
          BY <5>1, <1>2, <1>3, <2>2, StillAhead
        <5>. QED
          BY <5>2 DEF left
      <4>2. buf_is_empty' = FALSE /\ buf_is_full' = FALSE
        BY <2>1, <2>3, <3>2, <1>3
      <4>3. Async!Used' = Async!Used - len
        BY <4>1, <4>2, <2>1, <2>4, <1>3 DEF Async!Used
      <4>. QED
        BY <4>1, <4>2, <4>3, <2>1 DEF FlagsTell
    <3>. QED
      BY <3>1, <3>2
  <2>6. ASSUME NEW k \in 1 .. len
        PROVE  async'.buf[k][1] = Num(print_count + k - 1)
    <3>1. k \in 1 .. Async!Used
      BY <1>1, <1>2
    <3>2. async'.buf[k] = Async!Contents[k] /\ Async!Contents[k] = log_buf[Pos(read_index + k - 1)]
      BY <3>1, <1>1, <1>2
    <3>. QED
      BY <3>1, <3>2, <1>5
  <2>7. ASSUME NEW k \in 1 .. Async!Used - len
        PROVE  log_buf[Pos(read_index' + k - 1)][1] = Num(print_count + len + k - 1)
    <3>0. len \in Nat /\ len <= Async!Used
      BY <1>1
    <3>1. len + k \in 1 .. Async!Used
      BY <3>0, <1>2
    <3>2. Pos(read_index' + k - 1) = Pos(read_index + (len + k) - 1)
      <4>1. Async!Used \in 0 .. RingSize /\ RingSize \in Nat \ {0}
        BY <1>2
      <4>2. len \in 0 .. RingSize /\ k \in 1 .. RingSize /\ len + k <= RingSize
        BY <3>0, <4>1
      <4>. QED
        BY <1>3, <2>2, <2>4, <4>2, PosShift
    <3>3. log_buf[Pos(read_index + (len + k) - 1)][1] = Num(print_count + (len + k) - 1)
      BY <3>1, <1>5
    <3>4. print_count + (len + k) - 1 = print_count + len + k - 1
      BY <1>1, <1>3, <3>1
    <3>. QED
      BY <3>2, <3>3, <3>4
  <2>8. len + Async!Used' = Async!Used
    BY <1>1, <1>2, <2>5
  <2>9. Numbered'
    BY <1>5, <2>1, <2>5, <2>6, <2>7, <2>8 DEF Numbered, len, Async!counts
  <2>. QED
    BY <2>1, <2>3, <2>4, <2>5, <2>9, <1>3
<1>. QED
  BY <1>6, <1>7

(* The thread has printed what it had. *)
LEMMA PrintInv ==
  ASSUME Async!ElogAsyncAssumption, AsyncInv, async.pc = "printing", Async!AsyncPrint
  PROVE  print_count' \in 0 .. Async!M - 1 /\ FlagsTell' /\ Numbered'
<1> DEFINE len == Len(async.buf)
<1>1. /\ print_count' = Num(print_count + len)
      /\ async'.buf = <<>> /\ Len(async'.buf) = 0
      /\ UNCHANGED <<Async!ring, put_count>>
  BY EmptySeq DEF Async!AsyncPrint, Num
<1>2. RingSize \in Nat \ {0} /\ Async!M = 2 * RingSize /\ Async!Used \in 0 .. RingSize
  BY UsedValue DEF AsyncInv, Async!ElogAsyncAssumption, Async!M
<1>3. len \in Nat /\ len < RingSize
  BY LenProperties DEF AsyncInv, Types, Buffered, Async!ElogAsyncAssumption
<1>4. put_count \in 0 .. Async!M - 1 /\ print_count \in 0 .. Async!M - 1
  BY DEF AsyncInv, Types
<1>5. /\ len + Async!Used = IF put_count >= print_count THEN put_count - print_count
                      ELSE put_count - print_count + Async!M
      /\ \A k \in 1 .. Async!Used :
           log_buf[Pos(read_index + k - 1)][1] = Num(print_count + len + k - 1)
  BY DEF AsyncInv, Numbered
<1> HIDE DEF len
<1> DEFINE next == IF print_count + len < Async!M THEN print_count + len
                    ELSE print_count + len - Async!M
<1>6. print_count' = next
  <2>0. print_count \in Int /\ len \in Int /\ Async!M \in Int
    BY <1>2, <1>3, <1>4
  <2>1. print_count + len \in 0 .. 3 * Async!M - 1 /\ print_count + len < 2 * Async!M
    BY <1>2, <1>3, <1>4
  <2>2. Num(print_count + len) = IF print_count + len < Async!M THEN print_count + len
                                 ELSE IF print_count + len < 2 * Async!M
                                      THEN print_count + len - Async!M
                                      ELSE print_count + len - 2 * Async!M
    BY <2>0, <2>1, NumValue
  <2>. QED
    BY <1>1, <2>1, <2>2
<1>7. /\ next \in 0 .. Async!M - 1
      /\ Async!Used = IF put_count >= next THEN put_count - next ELSE put_count - next + Async!M
  <2>1. CASE print_count + len < Async!M
    <3>1. next = print_count + len
      BY <2>1
    <3> HIDE DEF next
    <3>2. CASE put_count >= print_count
      BY <3>1, <3>2, <2>1, <1>2, <1>3, <1>4, <1>5
    <3>3. CASE ~ (put_count >= print_count)
      BY <3>1, <3>3, <2>1, <1>2, <1>3, <1>4, <1>5
    <3>. QED
      BY <3>2, <3>3
  <2>2. CASE ~ (print_count + len < Async!M)
    <3>1. next = print_count + len - Async!M
      BY <2>2
    <3> HIDE DEF next
    <3>2. ~ (put_count >= print_count)
      BY <2>2, <1>2, <1>3, <1>4, <1>5
    <3>3. len + Async!Used = put_count - print_count + Async!M
      BY <3>2, <1>5
    <3>. QED
      BY <3>1, <3>2, <3>3, <2>2, <1>2, <1>3, <1>4
  <2>. QED
    BY <2>1, <2>2
<1>8. ASSUME NEW k \in 1 .. Async!Used
      PROVE  Num(next + k - 1) = Num(print_count + len + k - 1)
  <2>1. CASE print_count + len < Async!M
    BY <2>1
  <2>2. CASE ~ (print_count + len < Async!M)
    <3>1. print_count + len + k - 1 = next + k - 1 + Async!M
      BY <2>2, <1>2, <1>3, <1>4
    <3>2. next + k - 1 \in 0 .. Async!M - 1 /\ next + k - 1 + Async!M \in Async!M .. 2 * Async!M - 1
      BY <2>2, <1>2, <1>3, <1>4, <1>7
    <3>3. next + k - 1 \in 0 .. 3 * Async!M - 1 /\ next + k - 1 + Async!M \in 0 .. 3 * Async!M - 1
      BY <3>2, <1>2
    <3>. QED
      BY <3>1, <3>2, <3>3, <1>2, NumValue
  <2>. QED
    BY <2>1, <2>2
<1> HIDE DEF next
<1>9. Async!Used' = Async!Used
  BY <1>1 DEF Async!Used, Async!ring
<1>10. Numbered'
  <2>1. Len(async'.buf) + Async!Used' = IF put_count' >= print_count' THEN put_count' - print_count'
                                  ELSE put_count' - print_count' + Async!M
    <3>1. 0 + Async!Used = Async!Used
      BY <1>2
    <3>2. 0 + Async!Used = IF put_count >= next
                           THEN put_count - next ELSE put_count - next + Async!M
      BY <3>1, <1>7
    <3>. QED
      BY <1>1, <1>6, <1>9, <3>2
  <2>2. ASSUME NEW k \in 1 .. Async!Used
        PROVE  log_buf'[Pos(read_index' + k - 1)][1] = Num(print_count' + Len(async'.buf) + k - 1)
    <3>1. next + 0 = next
      BY <1>7
    <3>2. log_buf[Pos(read_index + k - 1)][1] = Num(next + 0 + k - 1)
      BY <1>5, <1>8, <3>1
    <3>. QED
      BY <1>1, <1>6, <3>2 DEF Async!ring
  <2>. QED
    BY <1>1, <1>9, <2>1, <2>2 DEF Numbered
<1>. QED
  BY <1>1, <1>6, <1>7, <1>10 DEF AsyncInv, FlagsTell, Async!ring

(* A logger that goes on in its call keeps its log. *)
LEMMA LoggerGoesOn ==
  ASSUME LoggersTyped, NEW t \in Loggers, logger[t].pc # "idle", NEW p \in LoggerPlaces,
         logger' = [logger EXCEPT ![t].pc = p]
  PROVE  LoggersTyped'
<1>1. logger[t] \in [pc : LoggerPlaces, level : {"none", "info", "debug"}, size : Nat]
  BY DEF LoggersTyped
<1>2. logger' = [logger EXCEPT ![t] = [logger[t] EXCEPT !.pc = p]]
  OBVIOUS
<1>3. /\ [logger[t] EXCEPT !.pc = p]
            \in [pc : LoggerPlaces, level : {"none", "info", "debug"}, size : Nat]
      /\ [logger[t] EXCEPT !.pc = p].size = logger[t].size
  BY <1>1
<1>. QED
  BY <1>2, <1>3 DEF LoggersTyped

LEMMA AsyncInvStep ==
  ASSUME Async!ElogAsyncAssumption
  PROVE  AsyncInv /\ [Async!Next]_Async!vars => AsyncInv'
<1> SUFFICES ASSUME AsyncInv, [Async!Next]_Async!vars
             PROVE  AsyncInv'
  OBVIOUS
<1>1. Types /\ Buffered
  BY DEF AsyncInv
<1>2. PollSize \in Nat
  BY DEF Async!ElogAsyncAssumption
<1> USE DEF Async!ring, Async!core, Async!counts
<1>3. ASSUME NEW t \in Loggers, NEW level \in {"info", "debug"}, NEW length \in LineLengths,
             Async!Log(t, level, length)
      PROVE  AsyncInv'
  <2>1. length \in Nat \ {0}
    BY DEF Async!ElogAsyncAssumption
  <2>2. Types' /\ Buffered'
    BY <1>1, <1>3, <2>1 DEF Async!Log, Types, LoggersTyped, Buffered, LoggerPlaces
  <2>. QED
    BY <1>3, <2>2, AsyncStill DEF Async!Log
<1>4. ASSUME NEW t \in Loggers,
             Async!Lock(t) \/ Async!Notice(t) \/ Async!SyncOutput(t) \/ Async!Printed(t)
      PROVE  AsyncInv'
  <2>1. UNCHANGED <<Async!ring, Async!counts, async, main>>
    BY <1>4 DEF Async!Lock, Async!Notice, Async!SyncOutput, Async!Printed
  <2>2. /\ logger[t].pc # "idle"
        /\ \E p \in LoggerPlaces : logger' = [logger EXCEPT ![t].pc = p]
    BY <1>4 DEF Async!Lock, Async!Notice, Async!SyncOutput, Async!Printed, LoggerPlaces
  <2>3. LoggersTyped'
    BY <1>1, <2>2, LoggerGoesOn DEF Types, LoggersTyped
  <2>4. Types' /\ Buffered'
    BY <1>1, <2>1, <2>3 DEF Types, Buffered, LoggersTyped
  <2>. QED
    BY <2>1, <2>4, AsyncStill
<1>5. ASSUME NEW t \in Loggers, Async!Unlock(t)
      PROVE  AsyncInv'
  <2>1. UNCHANGED <<Async!ring, Async!counts, async, main>>
    BY <1>5 DEF Async!Unlock
  <2>2. Types' /\ Buffered'
    BY <1>1, <1>5, <2>1 DEF Async!Unlock, Async!Idle, Types, LoggersTyped, Buffered, LoggerPlaces
  <2>. QED
    BY <2>1, <2>2, AsyncStill
<1>6. ASSUME NEW t \in Loggers, Async!AsyncOutput(t)
      PROVE  AsyncInv'
  <2> DEFINE length == logger[t].size
             stored == IF RingSize - Async!Used < length THEN RingSize - Async!Used ELSE length
  <2>1. length \in Nat \ {0}
    <3>1. logger[t].pc = "output"
      BY <1>6 DEF Async!AsyncOutput
    <3>2. logger[t] \in [pc : LoggerPlaces, level : {"none", "info", "debug"}, size : Nat]
      BY <1>1 DEF Types, LoggersTyped
    <3>3. logger[t].size > 0
      BY <1>1, <3>1 DEF Types, LoggersTyped
    <3>. QED
      BY <3>2, <3>3
  <2>2. LoggersTyped' /\ UNCHANGED <<async, print_count, main, read_index>>
    <3>1. /\ logger[t].pc # "idle"
          /\ logger' = [logger EXCEPT ![t].pc = IF Async!Used = RingSize
                                                THEN "unlock" ELSE "notice"]
          /\ UNCHANGED <<async, print_count, main>>
      BY <1>6 DEF Async!AsyncOutput
    <3>2. UNCHANGED read_index
      BY <1>6 DEF Async!AsyncOutput, Async!Put
    <3>3. (IF Async!Used = RingSize THEN "unlock" ELSE "notice") \in LoggerPlaces
      BY DEF LoggerPlaces
    <3>4. LoggersTyped
      BY <1>1 DEF Types, LoggersTyped
    <3>. QED
      BY <3>1, <3>2, <3>3, <3>4, LoggerGoesOn
  <2>3. Buffered'
    BY <1>1, <2>2 DEF Buffered
  <2>4. CASE Async!Used = RingSize
    <3>1. UNCHANGED <<Async!ring, Async!counts>>
      BY <1>6, <2>2, <2>4 DEF Async!AsyncOutput
    <3>2. Types'
      BY <1>1, <2>2, <3>1 DEF Types, LoggersTyped
    <3>. QED
      BY <2>2, <2>3, <3>1, <3>2, AsyncStill
  <2>5. CASE Async!Used # RingSize
    <3>1. Async!Put(length, stored)
      BY <1>6, <2>5 DEF Async!AsyncOutput
    <3> HIDE DEF length
    <3>2. /\ write_index' \in 0 .. RingSize - 1
          /\ log_buf' \in [0 .. RingSize - 1 -> Byte]
          /\ put_count' \in 0 .. Async!M - 1
          /\ buf_is_full' \in BOOLEAN /\ buf_is_empty' \in BOOLEAN
          /\ FlagsTell' /\ Numbered'
      BY <2>1, <2>2, <2>5, <3>1, PutInv
    <3>3. Types'
      BY <1>1, <2>2, <3>2 DEF Types, LoggersTyped
    <3>. QED
      BY <2>3, <3>2, <3>3 DEF AsyncInv
  <2>. QED
    BY <2>4, <2>5
<1>7. CASE Async!AsyncTest \/ Async!AsyncWait \/ Async!AsyncLock \/ Async!AsyncUnlock
  <2>1. async'.buf = async.buf /\ UNCHANGED <<Async!ring, Async!counts, logger, main>>
    BY <1>1, <1>7
       DEF Async!AsyncTest, Async!AsyncWait, Async!AsyncLock, Async!AsyncUnlock, Types, LoggersTyped
  <2>2. /\ async' \in [pc : AsyncPlaces, buf : Seq(Byte)]
        /\ async'.pc \notin {"unlock", "printing"} => async'.buf = <<>>
        /\ main = "down" => async'.pc = "gone"
    BY <1>1, <1>7
    DEF Async!AsyncTest, Async!AsyncWait, Async!AsyncLock, Async!AsyncUnlock, Types, LoggersTyped,
        Buffered, AsyncPlaces
  <2>3. Types' /\ Buffered'
    BY <1>1, <2>1, <2>2 DEF Types, LoggersTyped, Buffered
  <2>. QED
    BY <2>1, <2>3, AsyncStill
<1>8. CASE Async!AsyncGet
  <2>1. async.pc = "get" /\ Async!Get /\ UNCHANGED <<Async!counts, logger, main>>
    BY <1>8 DEF Async!AsyncGet
  <2>2. /\ read_index' \in 0 .. RingSize - 1 /\ UNCHANGED <<write_index, log_buf>>
        /\ buf_is_full' \in BOOLEAN /\ buf_is_empty' \in BOOLEAN
        /\ FlagsTell' /\ Numbered'
    BY <2>1, GetInv
  <2>3. /\ async'.buf \in Seq(Byte) /\ async'.pc = "unlock"
        /\ Len(async'.buf) <= PollSize
    BY <2>1, GotBegins
  <2>4. async' = [pc |-> async'.pc, buf |-> async'.buf]
    BY <2>1 DEF Async!Get
  <2>5. async' \in [pc : AsyncPlaces, buf : Seq(Byte)]
    BY <2>3, <2>4 DEF AsyncPlaces
  <2>6. Types'
    BY <1>1, <2>1, <2>2, <2>5 DEF Types, LoggersTyped
  <2>7. Buffered'
    BY <1>1, <2>1, <2>3 DEF Buffered
  <2>. QED
    BY <2>2, <2>6, <2>7 DEF AsyncInv
<1>9. CASE Async!AsyncPrint
  <2>1. async.pc = "printing" /\ UNCHANGED <<Async!ring, logger, put_count, main>>
        /\ async' = [pc |-> "lock", buf |-> <<>>]
    BY <1>9 DEF Async!AsyncPrint
  <2>2. print_count' \in 0 .. Async!M - 1 /\ FlagsTell' /\ Numbered'
    BY <1>9, <2>1, PrintInv
  <2>3. async' \in [pc : AsyncPlaces, buf : Seq(Byte)]
    BY <2>1, EmptySeq DEF AsyncPlaces
  <2>4. Types'
    BY <1>1, <2>1, <2>2, <2>3 DEF Types, LoggersTyped
  <2>5. Buffered'
    BY <1>1, <1>2, <2>1, EmptySeq DEF Buffered
  <2>. QED
    BY <2>2, <2>4, <2>5 DEF AsyncInv
<1>10. CASE Async!MainStep
  <2>1. UNCHANGED <<Async!ring, Async!counts, logger>> /\ async'.buf = async.buf
    BY <1>1, <1>10
    DEF Async!MainStep, Async!ElogInit, Async!ElogStart, Async!ElogAsyncEnable, Async!ElogStop,
        Async!ElogAsyncDisable, Async!Sets,
        Async!ElogDeinit, Async!DeinitNotice, Async!DeinitJoin, Buffered
  <2>2. /\ async' \in [pc : AsyncPlaces, buf : Seq(Byte)]
        /\ async'.pc \notin {"unlock", "printing"} => async'.buf = <<>>
        /\ main' = "down" => async'.pc = "gone"
    BY <1>1, <1>10, EmptySeq
    DEF Async!MainStep, Async!ElogInit, Async!ElogStart, Async!ElogAsyncEnable, Async!ElogStop,
        Async!ElogAsyncDisable, Async!Sets,
        Async!ElogDeinit, Async!DeinitNotice, Async!DeinitJoin, Types, LoggersTyped, Buffered,
        AsyncPlaces
  <2>3. Types' /\ Buffered'
    BY <1>1, <2>1, <2>2 DEF Types, LoggersTyped, Buffered
  <2>. QED
    BY <2>1, <2>3, AsyncStill
<1>11. CASE UNCHANGED Async!vars
  <2>1. Types' /\ Buffered' /\ UNCHANGED <<Async!ring, Async!counts, async>>
    BY <1>1, <1>11 DEF Async!vars, Types, LoggersTyped, Buffered
  <2>. QED
    BY <2>1, AsyncStill
<1>. QED
  BY <1>3, <1>4, <1>5, <1>6, <1>7, <1>8, <1>9, <1>10, <1>11
     DEF Async!Next, Async!LoggerStep, Async!AsyncStep

(* The bytes the output thread and the ring hold are those put and not     *)
(* printed, in order: whatever wraps, is cut, fills the ring exactly or is *)
(* taken line by line.                                                     *)
THEOREM RingMatchesHolds ==
  ASSUME Async!ElogAsyncAssumption
  PROVE  Async!Spec => []RingMatches
<1>1. Async!Init => AsyncInv
  BY AsyncInitInv
<1>2. AsyncInv => RingMatches
  BY AsyncInvMatches
<1>. QED
  BY <1>1, <1>2, AsyncInvStep, PTL DEF Async!Spec

---------------------------------------------------------------------------
(* Why the put and the get are one action each: the lock keeps every other *)
(* thread away from the ring between the first access and the last.        *)

InPut == {"output", "notice", "printing", "unlock"}

LockHeld ==
    /\ \A t \in Loggers : logger[t].pc \in InPut => lock = t
    /\ async.pc \in {"get", "unlock"} => lock = AsyncThread

(* At most one thread is between getting the output lock and giving it up. *)
RingGuarded ==
    /\ \A t, u \in Loggers : logger[t].pc \in InPut /\ logger[u].pc \in InPut => t = u
    /\ async.pc \in {"get", "unlock"} => \A t \in Loggers : logger[t].pc \notin InPut

LEMMA LockHeldStep ==
  ASSUME Async!ElogAsyncAssumption
  PROVE  AsyncInv /\ LockHeld /\ [Async!Next]_Async!vars => LockHeld'
<1> SUFFICES ASSUME AsyncInv, LockHeld, [Async!Next]_Async!vars
             PROVE  LockHeld'
  OBVIOUS
<1> USE DEF AsyncInv, Types, LoggersTyped, LockHeld, InPut, Async!ElogAsyncAssumption
<1>1. ASSUME NEW t \in Loggers, NEW level \in {"info", "debug"}, NEW length \in LineLengths,
             Async!Log(t, level, length)
      PROVE  LockHeld'
  BY <1>1 DEF Async!Log
<1>2. ASSUME NEW t \in Loggers, Async!LoggerStep(t)
      PROVE  LockHeld'
  <2>1. CASE Async!Lock(t)
    BY <2>1 DEF Async!Lock
  <2>2. CASE Async!AsyncOutput(t)
    <3>1. UNCHANGED <<lock, async>> /\ logger[t].pc = "output"
      BY <2>2 DEF Async!AsyncOutput
    <3>2. \A u \in Loggers \ {t} : logger'[u] = logger[u]
      BY <2>2 DEF Async!AsyncOutput
    <3>. QED
      BY <3>1, <3>2
  <2>3. CASE Async!Notice(t) \/ Async!SyncOutput(t) \/ Async!Printed(t)
    BY <2>3 DEF Async!Notice, Async!SyncOutput, Async!Printed
  <2>4. CASE Async!Unlock(t)
    BY <2>4 DEF Async!Unlock, Async!Idle
  <2>. QED
    BY <1>2, <2>1, <2>2, <2>3, <2>4 DEF Async!LoggerStep
<1>3. CASE Async!AsyncStep
  BY <1>3
     DEF Async!AsyncStep, Async!AsyncTest, Async!AsyncWait, Async!AsyncLock, Async!AsyncGet,
         Async!Get, Async!AsyncUnlock, Async!AsyncPrint
<1>4. CASE Async!MainStep
  BY <1>4
  DEF Async!MainStep, Async!ElogInit, Async!ElogStart, Async!ElogAsyncEnable, Async!ElogStop,
      Async!ElogAsyncDisable, Async!Sets,
      Async!ElogDeinit, Async!DeinitNotice, Async!DeinitJoin
<1>5. CASE UNCHANGED Async!vars
  BY <1>5 DEF Async!vars
<1>. QED
  BY <1>1, <1>2, <1>3, <1>4, <1>5 DEF Async!Next

(* The output lock guards the ring: no logger puts while another one does  *)
(* or while the output thread gets.                                        *)
THEOREM RingGuardedHolds ==
  ASSUME Async!ElogAsyncAssumption
  PROVE  Async!Spec => []RingGuarded
<1>1. Async!Init => AsyncInv
  BY AsyncInitInv
<1>3. Async!Init => LockHeld
  BY DEF Async!Init, Async!Idle, LockHeld, InPut
<1>2. LockHeld => RingGuarded
  BY DEF LockHeld, RingGuarded, Async!ElogAsyncAssumption
<1>. QED
  BY <1>1, <1>2, <1>3, AsyncInvStep, LockHeldStep, PTL DEF Async!Spec

---------------------------------------------------------------------------
(* The file plugin: one process at a time holds the semaphore that the     *)
(* processes share (LockIsOneProcess), and a rotation gives up the oldest  *)
(* file only (NewestFilesKept).  Four parts: what a rename makes of the    *)
(* names, what each step makes of a process, the invariant of the          *)
(* semaphore, and that of the files, which needs the former: two processes *)
(* that rotate at a time would lose files.                                 *)
(* The names, as a function from what follows "name" to the files, of      *)
(* which there have been n.                                                *)
NamesOf(names, n) ==
    names \in [0 .. MaxRotate -> 0 .. n] /\ names[0] \in {0, n}

Newest(names, n) ==
    /\ \A i, j \in 0 .. MaxRotate :
         i < j /\ names[i] # 0 /\ names[j] # 0 => names[i] > names[j]
    /\ \A i \in 0 .. MaxRotate : \A g \in 1 .. n :
         names[i] # 0 /\ g > names[i] => \E j \in 0 .. MaxRotate : names[j] = g

(* A file is created where there was none.                                 *)
LEMMA NameCreated ==
  ASSUME MaxRotate \in Nat \ {0}, NEW n \in Nat, NEW names, NamesOf(names, n), names[0] = 0
  PROVE  /\ NamesOf([names EXCEPT ![0] = n + 1], n + 1)
         /\ Newest(names, n) => Newest([names EXCEPT ![0] = n + 1], n + 1)
<1> DEFINE new == [names EXCEPT ![0] = n + 1]
<1>1. new[0] = n + 1 /\ \A i \in 1 .. MaxRotate : new[i] = names[i]
  BY DEF NamesOf
<1>2. NamesOf(new, n + 1)
  BY DEF NamesOf
<1> HIDE DEF new
<1>3. \A i \in 0 .. MaxRotate : i = 0 \/ i \in 1 .. MaxRotate
  OBVIOUS
<1>4. ASSUME Newest(names, n)
      PROVE  Newest(new, n + 1)
  <2>1. ASSUME NEW i \in 0 .. MaxRotate, NEW j \in 0 .. MaxRotate,
               i < j, new[i] # 0, new[j] # 0
        PROVE  new[i] > new[j]
    <3>1. j \in 1 .. MaxRotate /\ new[j] = names[j] /\ names[j] \in 0 .. n
      BY <1>1, <2>1 DEF NamesOf
    <3>2. CASE i = 0
      BY <1>1, <3>1, <3>2
    <3>3. CASE i \in 1 .. MaxRotate
      BY <1>1, <1>4, <2>1, <3>1, <3>3 DEF Newest
    <3>. QED
      BY <1>3, <3>2, <3>3
  <2>2. ASSUME NEW i \in 0 .. MaxRotate, NEW g \in 1 .. n + 1, new[i] # 0, g > new[i]
        PROVE  \E j \in 0 .. MaxRotate : new[j] = g
    <3>1. i \in 1 .. MaxRotate /\ new[i] = names[i]
      BY <1>1, <1>3, <2>2
    <3>2. CASE g = n + 1
      BY <1>1, <3>2
    <3>3. CASE g # n + 1
      <4>1. g \in 1 .. n
        BY <3>3
      <4>2. PICK j \in 0 .. MaxRotate : names[j] = g
        BY <1>4, <2>2, <3>1, <4>1 DEF Newest
      <4>3. new[j] = g
        BY <1>1, <1>3, <4>1, <4>2
      <4>. QED
        BY <4>3
    <3>. QED
      BY <3>2, <3>3
  <2>. QED
    BY <2>1, <2>2 DEF Newest
<1>. QED
  BY <1>2, <1>4 DEF new

(* The oldest file is removed, or there is none in that place.             *)
LEMMA NameRemoved ==
  ASSUME MaxRotate \in Nat \ {0}, NEW n \in Nat, NEW names, NamesOf(names, n),
         NEW m \in 0 .. MaxRotate - 1
  PROVE  /\ NamesOf([names EXCEPT ![m + 1] = 0], n)
         /\ (m = MaxRotate - 1 \/ names[m + 1] = 0) /\ Newest(names, n) =>
               Newest([names EXCEPT ![m + 1] = 0], n)
<1> DEFINE new == [names EXCEPT ![m + 1] = 0]
<1>1. m + 1 \in 0 .. MaxRotate /\ m + 1 # 0
  OBVIOUS
<1>2. new[m + 1] = 0 /\ \A i \in 0 .. MaxRotate : i # m + 1 => new[i] = names[i]
  BY <1>1 DEF NamesOf
<1>3. NamesOf(new, n)
  BY <1>1 DEF NamesOf
<1> HIDE DEF new
<1>4. ASSUME m = MaxRotate - 1 \/ names[m + 1] = 0, Newest(names, n)
      PROVE  Newest(new, n)
  <2>1. \A i \in 0 .. MaxRotate : new[i] # 0 => new[i] = names[i] /\ i # m + 1
    BY <1>2
  <2>2. ASSUME NEW i \in 0 .. MaxRotate, NEW g \in 1 .. n, new[i] # 0, g > new[i]
        PROVE  \E j \in 0 .. MaxRotate : new[j] = g
    <3>1. PICK j \in 0 .. MaxRotate : names[j] = g
      BY <1>4, <2>1, <2>2 DEF Newest
    <3>2. j # m + 1
      <4>1. SUFFICES ASSUME j = m + 1
                     PROVE  FALSE
        OBVIOUS
      <4>2. m + 1 = MaxRotate /\ i < m + 1
        BY <1>4, <2>1, <2>2, <3>1, <4>1
      <4>3. names[i] \in 0 .. n
        BY DEF NamesOf
      <4>4. names[i] > g
        BY <1>4, <2>1, <2>2, <3>1, <4>1, <4>2 DEF Newest
      <4>. QED
        BY <2>1, <2>2, <4>3, <4>4
    <3>. QED
      BY <1>2, <3>1, <3>2
  <2>. QED
    BY <1>4, <2>1, <2>2 DEF Newest
<1>. QED
  BY <1>3, <1>4 DEF new

(* A file is renamed to the next name, where nothing is left to lose.      *)
LEMMA NameShifted ==
  ASSUME MaxRotate \in Nat \ {0}, NEW n \in Nat, NEW names, NamesOf(names, n),
         NEW m \in 0 .. MaxRotate - 1
  PROVE  LET new == [[names EXCEPT ![m + 1] = names[m]] EXCEPT ![m] = 0]
         IN  /\ NamesOf(new, n) /\ new[m] = 0
             /\ (m = MaxRotate - 1 \/ names[m + 1] = 0) /\ Newest(names, n) => Newest(new, n)
<1> DEFINE mid == [names EXCEPT ![m + 1] = names[m]]
           new == [mid EXCEPT ![m] = 0]
<1>1. m + 1 \in 0 .. MaxRotate /\ m + 1 # 0 /\ m \in 0 .. MaxRotate /\ m # m + 1
  OBVIOUS
<1>2. /\ mid \in [0 .. MaxRotate -> 0 .. n]
      /\ mid[m + 1] = names[m] /\ \A i \in 0 .. MaxRotate : i # m + 1 => mid[i] = names[i]
  BY <1>1 DEF NamesOf
<1> HIDE DEF mid
<1>3. /\ new \in [0 .. MaxRotate -> 0 .. n]
      /\ new[m] = 0 /\ \A i \in 0 .. MaxRotate : i # m => new[i] = mid[i]
  BY <1>1, <1>2
<1> HIDE DEF new
<1>4. new[m + 1] = names[m] /\ \A i \in 0 .. MaxRotate \ {m, m + 1} : new[i] = names[i]
  BY <1>1, <1>2, <1>3
<1>5. NamesOf(new, n)
  <2>1. 0 \in 0 .. MaxRotate /\ (0 = m \/ 0 \in 0 .. MaxRotate \ {m, m + 1})
    BY <1>1
  <2>. QED
    BY <1>3, <1>4, <2>1 DEF NamesOf
<1>6. ASSUME m = MaxRotate - 1 \/ names[m + 1] = 0, Newest(names, n)
      PROVE  Newest(new, n)
  <2>1. \A i \in 0 .. MaxRotate : names[i] \in 0 .. n
    BY DEF NamesOf
  <2>2. \A i \in 0 .. MaxRotate : i = m \/ i = m + 1 \/ i \in 0 .. MaxRotate \ {m, m + 1}
    OBVIOUS
  <2>3. ASSUME NEW i \in 0 .. MaxRotate, NEW j \in 0 .. MaxRotate,
               i < j, new[i] # 0, new[j] # 0
        PROVE  new[i] > new[j]
    <3>1. CASE j = m + 1
      <4>1. new[j] = names[m] /\ i < m /\ new[i] = names[i]
        BY <1>3, <1>4, <2>2, <2>3, <3>1
      <4>. QED
        BY <1>1, <1>6, <2>3, <4>1 DEF Newest
    <3>2. CASE i = m + 1
      <4>1. new[i] = names[m] /\ m < j /\ new[j] = names[j]
        BY <1>3, <1>4, <2>2, <2>3, <3>2
      <4>. QED
        BY <1>1, <1>6, <2>3, <4>1 DEF Newest
    <3>3. CASE i # m + 1 /\ j # m + 1
      <4>1. new[i] = names[i] /\ new[j] = names[j]
        BY <1>3, <1>4, <2>2, <2>3, <3>3
      <4>. QED
        BY <1>6, <2>3, <4>1 DEF Newest
    <3>. QED
      BY <3>1, <3>2, <3>3
  <2>4. ASSUME NEW i \in 0 .. MaxRotate, NEW g \in 1 .. n, new[i] # 0, g > new[i]
        PROVE  \E j \in 0 .. MaxRotate : new[j] = g
    <3>1. PICK k \in 0 .. MaxRotate : names[k] = new[i] /\ (k = i \/ (k = m /\ i = m + 1))
      <4>1. CASE i = m + 1
        BY <1>1, <1>4, <4>1
      <4>2. CASE i # m + 1
        <5>1. names[i] = new[i]
          BY <1>3, <1>4, <2>2, <2>4, <4>2
        <5>. QED
          BY <5>1
      <4>. QED
        BY <4>1, <4>2
    <3>2. PICK j \in 0 .. MaxRotate : names[j] = g
      BY <1>6, <2>4, <3>1 DEF Newest
    <3>3. j # m + 1
      <4>1. SUFFICES ASSUME j = m + 1
                     PROVE  FALSE
        OBVIOUS
      <4>2. m + 1 = MaxRotate
        BY <1>6, <3>2, <4>1
      <4>3. k < j
        BY <2>4, <3>1, <3>2, <4>1, <4>2
      <4>4. names[k] > g
        BY <1>6, <2>4, <3>1, <3>2, <4>3 DEF Newest
      <4>. QED
        BY <2>1, <2>4, <3>1, <4>4
    <3>4. CASE j = m
      BY <1>1, <1>4, <3>2, <3>4
    <3>5. CASE j # m
      BY <1>4, <2>2, <3>2, <3>3, <3>5
    <3>. QED
      BY <3>4, <3>5
  <2>. QED
    BY <2>3, <2>4 DEF Newest
<1>. QED
  BY <1>3, <1>5, <1>6 DEF new, mid
---------------------------------------------------------------------------
(* Where a process is, and what a step makes of it.                        *)
Inside == {"test", "rotate", "reopen", "write", "unlock"}
Outside == {"down", "setval", "semup", "open"}
Steps == Outside \cup {"config", "idle", "lock"} \cup Inside

Process == [pc : Steps, fp : Nat, semid : BOOLEAN, holds : BOOLEAN, n : 0 .. MaxRotate,
            ok : BOOLEAN, unflushed : Nat]

FileTypes ==
    /\ sem \in [exists : BOOLEAN, val : Nat, otime : BOOLEAN]
    /\ proc \in [Procs -> Process] /\ unlocked \in BOOLEAN

Becomes(p, t) ==
    /\ proc' \in [Procs -> Process] /\ proc'[p] = t
    /\ \A q \in Procs \ {p} : proc'[q] = proc[q]

(* A process goes from where it was, and keeps the rest.                   *)
Moves(p, to) ==
    /\ proc'[p].pc = to
    /\ (proc'[p].semid <=> proc[p].semid) /\ (proc'[p].holds <=> proc[p].holds)

LEMMA ProcessBecomes ==
  ASSUME FileTypes, NEW p \in Procs, NEW t \in Process, proc' = [proc EXCEPT ![p] = t]
  PROVE  Becomes(p, t)
BY DEF FileTypes, Becomes

LEMMA GoesEffect ==
  ASSUME FileTypes, NEW p \in Procs, NEW to \in Steps, File!Goes(p, to)
  PROVE  /\ Becomes(p, proc'[p]) /\ Moves(p, to)
         /\ proc'[p].fp = proc[p].fp /\ proc'[p].n = proc[p].n
<1> DEFINE t == [proc[p] EXCEPT !.pc = to]
<1>1. /\ t \in Process /\ t.pc = to /\ t.fp = proc[p].fp /\ t.n = proc[p].n
      /\ (t.semid <=> proc[p].semid) /\ (t.holds <=> proc[p].holds)
  BY DEF FileTypes, Process
<1>2. proc' = [proc EXCEPT ![p] = t]
  BY DEF File!Goes
<1> HIDE DEF t
<1>3. Becomes(p, t)
  BY <1>1, <1>2, ProcessBecomes
<1>. QED
  BY <1>1, <1>3 DEF Moves, Becomes

(* The lock is found or not.                                               *)
LEMMA ConfigEffect ==
  ASSUME FileTypes, NEW p \in Procs, NEW found \in BOOLEAN,
         proc' = [proc EXCEPT ![p].pc = "config", ![p].semid = found]
  PROVE  /\ Becomes(p, proc'[p]) /\ proc'[p].pc = "config"
         /\ (proc'[p].semid <=> found) /\ (proc'[p].holds <=> proc[p].holds)
         /\ proc'[p].fp = proc[p].fp /\ proc'[p].n = proc[p].n
<1> DEFINE r == proc[p]
           s == [r EXCEPT !.pc = "config"]
           t == [s EXCEPT !.semid = found]
<1>1. proc' = [proc EXCEPT ![p] = [r EXCEPT !.pc = "config", !.semid = found]]
  BY Zenon
<1>2. [r EXCEPT !.pc = "config", !.semid = found] = t
  BY Zenon
<1>3. s \in Process /\ s.pc = "config" /\ s.fp = r.fp /\ s.n = r.n /\ (s.holds <=> r.holds)
  BY DEF FileTypes, Process, Steps
<1> HIDE DEF s
<1>4. /\ t \in Process /\ t.pc = "config" /\ t.fp = r.fp /\ t.n = r.n
      /\ (t.holds <=> r.holds) /\ (t.semid <=> found)
  BY <1>3 DEF Process
<1> HIDE DEF t
<1>5. Becomes(p, t)
  BY <1>1, <1>2, <1>4, ProcessBecomes
<1>. QED
  BY <1>4, <1>5 DEF Becomes

(* A file is open, or is not.                                              *)
LEMMA OpenEffect ==
  ASSUME FileTypes, NEW p \in Procs, NEW to \in Steps, NEW f \in Nat,
         proc' = [proc EXCEPT ![p].pc = to, ![p].fp = f]
  PROVE  /\ Becomes(p, proc'[p]) /\ Moves(p, to)
         /\ proc'[p].fp = f /\ proc'[p].n = proc[p].n
<1> DEFINE r == proc[p]
           s == [r EXCEPT !.pc = to]
           t == [s EXCEPT !.fp = f]
<1>1. proc' = [proc EXCEPT ![p] = [r EXCEPT !.pc = to, !.fp = f]]
  BY Zenon
<1>2. [r EXCEPT !.pc = to, !.fp = f] = t
  BY Zenon
<1>3. /\ s \in Process /\ s.pc = to /\ s.n = r.n
      /\ (s.holds <=> r.holds) /\ (s.semid <=> r.semid)
  BY DEF FileTypes, Process
<1> HIDE DEF s
<1>4. /\ t \in Process /\ t.pc = to /\ t.fp = f /\ t.n = r.n
      /\ (t.holds <=> r.holds) /\ (t.semid <=> r.semid)
  BY <1>3 DEF Process
<1> HIDE DEF t
<1>5. Becomes(p, t)
  BY <1>1, <1>2, <1>4, ProcessBecomes
<1>. QED
  BY <1>4, <1>5 DEF Becomes, Moves

(* Nothing is left of a process.                                           *)
LEMMA DownEffect ==
  ASSUME FileTypes, NEW p \in Procs, proc' = [proc EXCEPT ![p] = File!Down],
         MaxRotate \in Nat \ {0}
  PROVE  /\ Becomes(p, proc'[p]) /\ proc'[p].pc = "down" /\ proc'[p].fp = 0
         /\ ~ proc'[p].semid /\ ~ proc'[p].holds
<1>1. /\ File!Down \in Process /\ File!Down.pc = "down" /\ File!Down.fp = 0
      /\ ~ File!Down.semid /\ ~ File!Down.holds
  BY DEF File!Down, File!NoFile, Process, Steps, Outside
<1>2. Becomes(p, File!Down)
  BY <1>1, ProcessBecomes
<1>. QED
  BY <1>1, <1>2 DEF Becomes

(* The lock is taken, and given back.                                      *)
LEMMA LockEffect ==
  ASSUME FileTypes, NEW p \in Procs, File!Lock(p)
  PROVE  /\ Becomes(p, proc'[p]) /\ proc'[p].pc = "test"
         /\ (proc'[p].semid <=> proc[p].semid) /\ (proc'[p].holds <=> proc[p].semid)
         /\ proc'[p].fp = proc[p].fp /\ proc'[p].n = proc[p].n
<1> DEFINE r == proc[p]
           s == [r EXCEPT !.pc = "test"]
           t == [s EXCEPT !.holds = r.semid]
<1>1. proc' = [proc EXCEPT ![p] = [r EXCEPT !.pc = "test", !.holds = r.semid]]
  BY Zenon DEF File!Lock
<1>2. [r EXCEPT !.pc = "test", !.holds = r.semid] = t
  BY Zenon
<1>3. /\ s \in Process /\ s.pc = "test" /\ s.n = r.n /\ s.fp = r.fp
      /\ (s.semid <=> r.semid) /\ r.semid \in BOOLEAN
  BY DEF FileTypes, Process, Steps, Inside
<1> HIDE DEF s, r
<1>4. /\ t \in Process /\ t.pc = "test" /\ t.fp = r.fp /\ t.n = r.n
      /\ (t.holds <=> r.semid) /\ (t.semid <=> r.semid)
  BY <1>3 DEF Process
<1> HIDE DEF t
<1>5. Becomes(p, t)
  BY <1>1, <1>2, <1>4, ProcessBecomes
<1>. QED
  BY <1>4, <1>5 DEF Becomes, r

LEMMA UnlockEffect ==
  ASSUME FileTypes, NEW p \in Procs, File!Unlock(p)
  PROVE  /\ Becomes(p, proc'[p]) /\ proc'[p].pc = "idle"
         /\ (proc'[p].semid <=> proc[p].semid) /\ ~ proc'[p].holds
         /\ proc'[p].fp = proc[p].fp /\ proc'[p].n = proc[p].n
<1> DEFINE r == proc[p]
           s == [r EXCEPT !.pc = "idle"]
           t == [s EXCEPT !.holds = FALSE]
           u == [t EXCEPT !.ok = TRUE]
<1>1. proc' = [proc EXCEPT ![p] = [r EXCEPT !.pc = "idle", !.holds = FALSE, !.ok = TRUE]]
  BY Zenon DEF File!Unlock
<1>2. [r EXCEPT !.pc = "idle", !.holds = FALSE, !.ok = TRUE] = u
  BY Zenon
<1>3. s \in Process /\ s.pc = "idle" /\ s.n = r.n /\ s.fp = r.fp /\ (s.semid <=> r.semid)
  BY DEF FileTypes, Process, Steps
<1> HIDE DEF s
<1>4. /\ t \in Process /\ t.pc = "idle" /\ t.fp = r.fp /\ t.n = r.n
      /\ ~ t.holds /\ (t.semid <=> r.semid)
  BY <1>3 DEF Process
<1> HIDE DEF t
<1>5. /\ u \in Process /\ u.pc = "idle" /\ u.fp = r.fp /\ u.n = r.n
      /\ ~ u.holds /\ (u.semid <=> r.semid)
  BY <1>4 DEF Process
<1> HIDE DEF u
<1>6. Becomes(p, u)
  BY <1>1, <1>2, <1>5, ProcessBecomes
<1>. QED
  BY <1>5, <1>6 DEF Becomes

(* The file is to be rotated, which closes it, or is written into.         *)
LEMMA TestEffect ==
  ASSUME FileTypes, NEW p \in Procs, File!Test(p), MaxRotate \in Nat \ {0}
  PROVE  /\ Becomes(p, proc'[p])
         /\ \/ Moves(p, "rotate") /\ proc'[p].n = MaxRotate - 1 /\ proc'[p].fp = 0
            \/ Moves(p, "write") /\ proc'[p].fp = proc[p].fp
<1> DEFINE r == proc[p]
           w == [r EXCEPT !.pc = "write"]
           written == [w EXCEPT !.unflushed = 0]
           s == [r EXCEPT !.pc = "rotate"]
           t == [s EXCEPT !.n = MaxRotate - 1]
           u == [t EXCEPT !.unflushed = 0]
           closed == [u EXCEPT !.fp = 0]
<1>1. \/ proc' = [proc EXCEPT ![p] = [r EXCEPT !.pc = "write", !.unflushed = 0]]
      \/ proc' = [proc EXCEPT ![p] = [r EXCEPT !.pc = "rotate", !.n = MaxRotate - 1,
                                              !.unflushed = 0, !.fp = 0]]
  BY Zenon DEF File!Test, File!NoFile
<1>2. /\ [r EXCEPT !.pc = "write", !.unflushed = 0] = written
      /\ [r EXCEPT !.pc = "rotate", !.n = MaxRotate - 1, !.unflushed = 0, !.fp = 0] = closed
  BY Zenon
<1>3. /\ w \in Process /\ w.pc = "write" /\ w.fp = r.fp
      /\ (w.semid <=> r.semid) /\ (w.holds <=> r.holds)
  BY DEF FileTypes, Process, Steps, Inside
<1>4. /\ s \in Process /\ s.pc = "rotate" /\ (s.semid <=> r.semid) /\ (s.holds <=> r.holds)
  BY DEF FileTypes, Process, Steps, Inside
<1> HIDE DEF w, s
<1>5. /\ written \in Process /\ written.pc = "write" /\ written.fp = r.fp
      /\ (written.semid <=> r.semid) /\ (written.holds <=> r.holds)
  BY <1>3 DEF Process
<1>6. /\ t \in Process /\ t.pc = "rotate" /\ t.n = MaxRotate - 1
      /\ (t.semid <=> r.semid) /\ (t.holds <=> r.holds)
  BY <1>4 DEF Process
<1> HIDE DEF written, t
<1>7. /\ u \in Process /\ u.pc = "rotate" /\ u.n = MaxRotate - 1
      /\ (u.semid <=> r.semid) /\ (u.holds <=> r.holds)
  BY <1>6 DEF Process
<1> HIDE DEF u
<1>8. /\ closed \in Process /\ closed.pc = "rotate" /\ closed.n = MaxRotate - 1 /\ closed.fp = 0
      /\ (closed.semid <=> r.semid) /\ (closed.holds <=> r.holds)
  BY <1>7 DEF Process
<1> HIDE DEF closed
<1>9. Becomes(p, written) \/ Becomes(p, closed)
  BY <1>1, <1>2, <1>5, <1>8, ProcessBecomes
<1>. QED
  BY <1>5, <1>8, <1>9 DEF Becomes, Moves

(* A turn of the rotation: the next one is due, or it is over.             *)
TurnsLeft == \A p \in Procs : proc[p].pc = "rotate" => proc[p].n \in 0 .. MaxRotate - 1

LEMMA RotateEffect ==
  ASSUME FileTypes, NEW p \in Procs, File!RotateStep(p), MaxRotate \in Nat \ {0},
         proc[p].n \in 0 .. MaxRotate - 1
  PROVE  /\ Becomes(p, proc'[p]) /\ proc'[p].fp = proc[p].fp
         /\ \/ /\ path' = File!Renamed(proc[p].n)
               /\ \/ Moves(p, "rotate") /\ proc[p].n # 0 /\ proc'[p].n = proc[p].n - 1
                  \/ Moves(p, "reopen")
            \/ Moves(p, "reopen") /\ path' = [path EXCEPT ![proc[p].n + 1] = 0]
<1> DEFINE r == proc[p]
           next == IF r.n = 0 THEN "reopen" ELSE "rotate"
           left == IF r.n = 0 THEN 0 ELSE r.n - 1
           s == [r EXCEPT !.pc = next]
           t == [s EXCEPT !.n = left]
           a == [r EXCEPT !.pc = "reopen"]
           b == [a EXCEPT !.n = 0]
           c == [b EXCEPT !.ok = FALSE]
<1>1. \/ /\ path' = File!Renamed(r.n)
         /\ proc' = [proc EXCEPT ![p] = [r EXCEPT !.pc = next, !.n = left]]
      \/ /\ path' = [path EXCEPT ![r.n + 1] = 0]
         /\ proc' = [proc EXCEPT ![p] = [r EXCEPT !.pc = "reopen", !.n = 0, !.ok = FALSE]]
  BY Zenon DEF File!RotateStep, File!NoFile
<1>2. /\ [r EXCEPT !.pc = next, !.n = left] = t
      /\ [r EXCEPT !.pc = "reopen", !.n = 0, !.ok = FALSE] = c
  BY Zenon
<1>3. next \in Steps /\ left \in 0 .. MaxRotate /\ 0 \in 0 .. MaxRotate
  <2>1. next \in Steps
    BY DEF Steps, Inside
  <2>. QED
    BY <2>1
<1> HIDE DEF next, left
<1>4. s \in Process /\ s.pc = next /\ s.fp = r.fp /\ (s.semid <=> r.semid) /\ (s.holds <=> r.holds)
  BY <1>3 DEF FileTypes, Process
<1>5. /\ a \in Process /\ a.pc = "reopen" /\ a.fp = r.fp
      /\ (a.semid <=> r.semid) /\ (a.holds <=> r.holds)
  BY DEF FileTypes, Process, Steps, Inside
<1> HIDE DEF s, a
<1>6. /\ t \in Process /\ t.pc = next /\ t.n = left /\ t.fp = r.fp
      /\ (t.semid <=> r.semid) /\ (t.holds <=> r.holds)
  BY <1>3, <1>4 DEF Process
<1>7. /\ b \in Process /\ b.pc = "reopen" /\ b.fp = r.fp
      /\ (b.semid <=> r.semid) /\ (b.holds <=> r.holds)
  BY <1>3, <1>5 DEF Process
<1> HIDE DEF t, b
<1>8. /\ c \in Process /\ c.pc = "reopen" /\ c.fp = r.fp
      /\ (c.semid <=> r.semid) /\ (c.holds <=> r.holds)
  BY <1>7 DEF Process
<1> HIDE DEF c
<1>9. \/ path' = File!Renamed(r.n) /\ Becomes(p, t)
      \/ path' = [path EXCEPT ![r.n + 1] = 0] /\ Becomes(p, c)
  BY <1>1, <1>2, <1>6, <1>8, ProcessBecomes
<1>10. (r.n = 0 /\ next = "reopen") \/ (r.n # 0 /\ next = "rotate" /\ left = r.n - 1)
  BY DEF next, left
<1>. QED
  BY <1>6, <1>8, <1>9, <1>10 DEF Becomes, Moves

(* The instance has a name of its own for the number of elements.          *)
LEMMA FileCardinality ==
  ASSUME NEW S
  PROVE  File!Cardinality(S) = Cardinality(S)
BY Zenon DEF File!Cardinality, Cardinality

(* A file is opened that was the newest, or is a new one, or is not.       *)
Created == Cardinality(File!Files)

LEMMA OpenedEffect ==
  ASSUME FileTypes, NEW p \in Procs, NEW to \in Steps, File!Opened(p, to),
         path[0] \in Nat, Created \in Nat
  PROVE  /\ Becomes(p, proc'[p]) /\ Moves(p, to) /\ proc'[p].n = proc[p].n
         /\ \/ path' = path /\ DOMAIN size' = DOMAIN size /\ proc'[p].fp \in {0, path[0]}
            \/ /\ path[0] = 0 /\ path' = [path EXCEPT ![0] = Created + 1]
               /\ DOMAIN size' = DOMAIN size \cup {Created + 1}
               /\ proc'[p].fp = Created + 1
<1>1. CASE proc' = [proc EXCEPT ![p].pc = to, ![p].fp = path[0]] /\ UNCHANGED <<path, size>>
  BY <1>1, OpenEffect
<1>2. CASE proc' = [proc EXCEPT ![p].pc = to, ![p].fp = 0] /\ UNCHANGED <<path, size>>
  BY <1>2, OpenEffect
<1>3. CASE /\ path[0] = 0
           /\ proc' = [proc EXCEPT ![p].pc = to, ![p].fp = Created + 1]
           /\ path' = [path EXCEPT ![0] = Created + 1]
           /\ DOMAIN size' = DOMAIN size \cup {Created + 1}
  <2>1. Created + 1 \in Nat
    OBVIOUS
  <2>. QED
    BY <1>3, <2>1, OpenEffect
<1>4. File!Cardinality(DOMAIN size) = Cardinality(DOMAIN size)
  BY FileCardinality
<1>. QED
  BY <1>1, <1>2, <1>3, <1>4, Zenon DEF File!Opened, File!Files, File!NoFile, Created

LEMMA WriteEffect ==
  ASSUME FileTypes, NEW p \in Procs, File!Write(p)
  PROVE  /\ Becomes(p, proc'[p]) /\ Moves(p, "unlock")
         /\ proc'[p].fp = proc[p].fp /\ proc'[p].n = proc[p].n
<1> DEFINE r == proc[p]
           s == [r EXCEPT !.pc = "unlock"]
           t == [s EXCEPT !.unflushed = 1]
<1>1. proc' = [proc EXCEPT ![p] = [r EXCEPT !.pc = "unlock", !.unflushed = 1]]
  BY Zenon DEF File!Write
<1>2. [r EXCEPT !.pc = "unlock", !.unflushed = 1] = t
  BY Zenon
<1>3. /\ s \in Process /\ s.pc = "unlock" /\ s.n = r.n /\ s.fp = r.fp
      /\ (s.holds <=> r.holds) /\ (s.semid <=> r.semid)
  BY DEF FileTypes, Process, Steps, Inside
<1> HIDE DEF s
<1>4. /\ t \in Process /\ t.pc = "unlock" /\ t.fp = r.fp /\ t.n = r.n
      /\ (t.holds <=> r.holds) /\ (t.semid <=> r.semid)
  BY <1>3 DEF Process
<1> HIDE DEF t
<1>5. Becomes(p, t)
  BY <1>1, <1>2, <1>4, ProcessBecomes
<1>. QED
  BY <1>4, <1>5 DEF Becomes, Moves
---------------------------------------------------------------------------
(* The semaphore: one process creates it, one holds it, and as long as     *)
(* every process found it initialised those inside do hold it.             *)
Creates(p) == proc[p].pc \in {"setval", "semup"}
Holds(p) == proc[p].holds

Locked(p) ==
    /\ proc[p].pc \notin Outside => proc[p].semid
    /\ proc[p].pc \in Inside => Holds(p)

SemInv ==
    /\ FileTypes
    /\ \A p \in Procs : Creates(p) => sem.exists /\ ~ sem.otime
    /\ \A p, q \in Procs : Creates(p) /\ Creates(q) => p = q
    /\ ~ sem.exists => ~ sem.otime /\ \A p \in Procs : proc[p].pc = "down"
    /\ \A p \in Procs : Holds(p) => sem.otime /\ proc[p].pc \in Inside
    /\ \A p, q \in Procs : Holds(p) /\ Holds(q) => p = q
    /\ sem.otime /\ (\A p \in Procs : ~ Holds(p)) => sem.val = 1
    /\ ~ sem.otime \/ (\E p \in Procs : Holds(p)) => sem.val = 0
    /\ \A p \in Procs : proc[p].semid => sem.otime
    /\ ~ unlocked => \A p \in Procs : Locked(p)

LEMMA SemInvInit ==
  ASSUME File!ElogFileAssumption
  PROVE  File!Init => SemInv
<1> SUFFICES ASSUME File!Init
             PROVE  SemInv
  OBVIOUS
<1>1. /\ File!Down \in Process /\ File!Down.pc = "down"
      /\ ~ File!Down.semid /\ ~ File!Down.holds
  BY DEF File!Down, File!NoFile, Process, Steps, Outside, File!ElogFileAssumption
<1>2. /\ proc \in [Procs -> Process] /\ \A p \in Procs : proc[p] = File!Down
      /\ sem = [exists |-> FALSE, val |-> 0, otime |-> FALSE] /\ unlocked = FALSE
  BY <1>1 DEF File!Init
<1>3. FileTypes
  BY <1>2 DEF FileTypes
<1>4. \A p \in Procs : ~ Creates(p) /\ ~ Holds(p) /\ ~ proc[p].semid /\ proc[p].pc = "down"
  BY <1>1, <1>2 DEF Creates, Holds
<1>. QED
  BY <1>2, <1>3, <1>4 DEF SemInv, Locked, Outside, Inside

(* A process goes on where it was, outside or inside.                      *)
LEMMA SemQuiet ==
  ASSUME SemInv, NEW p \in Procs, NEW to \in Steps, Becomes(p, proc'[p]), Moves(p, to),
         sem' = sem, unlocked' = unlocked, sem.exists,
         to \notin {"down", "setval", "semup"},
         to \in Inside <=> proc[p].pc \in Inside,
         proc[p].pc \in Outside => to \in Outside
  PROVE  SemInv'
<1>1. FileTypes'
  BY DEF SemInv, FileTypes, Becomes
<1>2. \A q \in Procs : /\ Creates(q)' => Creates(q)
                       /\ Holds(q)' <=> Holds(q)
                       /\ proc'[q].semid <=> proc[q].semid
                       /\ proc'[q].pc \in Inside <=> proc[q].pc \in Inside
  BY DEF Becomes, Moves, Creates, Holds
<1>3. ASSUME ~ unlocked', NEW q \in Procs
      PROVE  Locked(q)'
  <2>1. Locked(q)
    BY <1>3 DEF SemInv
  <2>2. proc'[q].pc \notin Outside => proc[q].pc \notin Outside
    BY DEF Becomes, Moves
  <2>. QED
    BY <1>2, <2>1, <2>2 DEF Locked
<1>. QED
  BY <1>1, <1>2, <1>3 DEF SemInv

(* A process is inside no more, and gives back the semaphore it held.      *)
LEMMA SemBack ==
  ASSUME SemInv, NEW p \in Procs, Becomes(p, proc'[p]),
         proc'[p].pc \in {"idle", "down"}, ~ proc'[p].holds,
         proc'[p].semid => proc[p].semid,
         proc'[p].pc = "idle" => (proc'[p].semid <=> proc[p].semid) /\ proc[p].pc = "unlock",
         sem' = IF Holds(p) THEN [sem EXCEPT !.val = @ + 1] ELSE sem,
         unlocked' = unlocked, sem.exists
  PROVE  SemInv'
<1>1. sem' \in [exists : BOOLEAN, val : Nat, otime : BOOLEAN]
  BY DEF SemInv, FileTypes
<1>2. FileTypes'
  BY <1>1 DEF SemInv, FileTypes, Becomes
<1>3. (sem'.exists <=> sem.exists) /\ (sem'.otime <=> sem.otime)
  BY DEF SemInv, FileTypes
<1>4. \A q \in Procs : /\ Creates(q)' => Creates(q)
                       /\ Holds(q)' <=> Holds(q) /\ q # p
                       /\ proc'[q].semid => proc[q].semid
                       /\ q # p => proc'[q] = proc[q]
  BY DEF Becomes, Creates, Holds
<1>5. CASE Holds(p)
  <2>1. sem.otime /\ sem.val = 0 /\ \A q \in Procs : ~ Holds(q)'
    BY <1>4, <1>5 DEF SemInv
  <2>2. sem'.val = 1
    BY <1>5, <2>1 DEF SemInv, FileTypes
  <2>3. ~ unlocked' => \A q \in Procs : Locked(q)'
    BY <1>4, <1>5 DEF SemInv, Locked, Holds, Inside, Outside
  <2>. QED
    BY <1>2, <1>3, <1>4, <2>1, <2>2, <2>3 DEF SemInv
<1>6. CASE ~ Holds(p)
  <2>1. sem' = sem /\ \A q \in Procs : Holds(q)' <=> Holds(q)
    BY <1>4, <1>6
  <2>3. ~ unlocked' => \A q \in Procs : Locked(q)'
    BY <1>4, <1>6 DEF SemInv, Locked, Holds, Inside, Outside
  <2>. QED
    BY <1>2, <1>3, <1>4, <2>1, <2>3 DEF SemInv
<1>. QED
  BY <1>5, <1>6

LEMMA SemInvStep ==
  ASSUME File!ElogFileAssumption, SemInv, path[0] \in Nat, Created \in Nat, TurnsLeft,
         [File!Next]_File!vars
  PROVE  SemInv'
<1>1. FileTypes /\ MaxRotate \in Nat \ {0}
  BY DEF SemInv, File!ElogFileAssumption
<1>2. \A p \in Procs : proc[p].pc # "down" => sem.exists
  BY DEF SemInv
<1>3. ASSUME NEW p \in Procs, File!FileInit(p)
      PROVE  SemInv'
  <2>1. CASE sem.exists
    <3>1. File!Goes(p, "open") /\ sem' = sem /\ unlocked' = unlocked /\ proc[p].pc = "down"
      BY <1>3, <2>1 DEF File!FileInit
    <3>2. Becomes(p, proc'[p]) /\ Moves(p, "open")
      BY <1>1, <3>1, GoesEffect DEF Steps, Outside
    <3>. QED
      BY <2>1, <3>1, <3>2, SemQuiet DEF Steps, Inside, Outside
  <2>2. CASE ~ sem.exists
    <3>1. /\ File!Goes(p, "setval") /\ unlocked' = unlocked /\ proc[p].pc = "down"
          /\ sem' = [sem EXCEPT !.exists = TRUE]
      BY <1>3, <2>2 DEF File!FileInit
    <3>2. Becomes(p, proc'[p]) /\ Moves(p, "setval")
      BY <1>1, <3>1, GoesEffect DEF Steps, Outside
    <3>3. /\ sem' \in [exists : BOOLEAN, val : Nat, otime : BOOLEAN]
          /\ sem'.exists /\ (sem'.otime <=> sem.otime) /\ sem'.val = sem.val
      BY <1>1, <3>1 DEF FileTypes
    <3>4. \A q \in Procs : proc[q].pc = "down" /\ ~ Holds(q)
      BY <2>2 DEF SemInv, Inside
    <3>5. ~ sem.otime
      BY <2>2 DEF SemInv
    <3>6. \A q \in Procs : /\ ~ Holds(q)' /\ (proc'[q].semid <=> proc[q].semid)
                           /\ Creates(q)' => q = p
                           /\ proc'[q].pc \in Outside /\ proc'[q].pc \notin Inside
      BY <3>2, <3>4 DEF Becomes, Moves, Holds, Creates, Outside, Inside
    <3>7. FileTypes'
      BY <1>1, <3>1, <3>2, <3>3 DEF FileTypes, Becomes
    <3>. QED
      BY <3>1, <3>3, <3>4, <3>5, <3>6, <3>7 DEF SemInv, Locked
  <2>. QED
    BY <2>1, <2>2
<1>4. ASSUME NEW p \in Procs, File!SetVal(p)
      PROVE  SemInv'
  <2>1. /\ File!Goes(p, "semup") /\ unlocked' = unlocked /\ proc[p].pc = "setval"
        /\ sem' = [sem EXCEPT !.val = 0]
    BY <1>4 DEF File!SetVal
  <2>2. Becomes(p, proc'[p]) /\ Moves(p, "semup")
    BY <1>1, <2>1, GoesEffect DEF Steps, Outside
  <2>3. /\ sem' \in [exists : BOOLEAN, val : Nat, otime : BOOLEAN]
        /\ (sem'.exists <=> sem.exists) /\ (sem'.otime <=> sem.otime) /\ sem'.val = 0
    BY <1>1, <2>1 DEF FileTypes
  <2>4. ~ sem.otime /\ sem.exists
    BY <2>1 DEF SemInv, Creates
  <2>5. \A q \in Procs : /\ Creates(q)' <=> Creates(q)
                         /\ Holds(q)' <=> Holds(q)
                         /\ proc'[q].semid <=> proc[q].semid
                         /\ Locked(q)' <=> Locked(q)
    BY <2>1, <2>2 DEF Becomes, Moves, Holds, Creates, Locked, Outside, Inside
  <2>6. FileTypes'
    BY <1>1, <2>1, <2>2, <2>3 DEF FileTypes, Becomes
  <2>. QED
    BY <2>1, <2>3, <2>4, <2>5, <2>6 DEF SemInv
<1>5. ASSUME NEW p \in Procs, File!SemUp(p)
      PROVE  SemInv'
  <2>1. /\ proc' = [proc EXCEPT ![p].pc = "config", ![p].semid = TRUE]
        /\ unlocked' = unlocked /\ proc[p].pc = "semup"
        /\ sem' = [sem EXCEPT !.val = sem.val + 1, !.otime = TRUE]
    BY <1>5, Zenon DEF File!SemUp
  <2>2. /\ Becomes(p, proc'[p]) /\ proc'[p].pc = "config"
        /\ proc'[p].semid /\ (proc'[p].holds <=> proc[p].holds)
    BY <1>1, <2>1, ConfigEffect
  <2>3. ~ sem.otime /\ sem.exists /\ sem.val = 0 /\ \A q \in Procs : ~ Holds(q)
    BY <2>1 DEF SemInv, Creates
  <2>4. /\ sem' \in [exists : BOOLEAN, val : Nat, otime : BOOLEAN]
        /\ (sem'.exists <=> sem.exists) /\ sem'.otime /\ sem'.val = 1
    <3> DEFINE up == [sem EXCEPT !.val = sem.val + 1]
               timed == [up EXCEPT !.otime = TRUE]
    <3>1. sem' = timed
      BY <2>1, Zenon
    <3>2. /\ up \in [exists : BOOLEAN, val : Nat, otime : BOOLEAN]
          /\ up.val = 1 /\ (up.exists <=> sem.exists)
      BY <1>1, <2>3 DEF FileTypes
    <3> HIDE DEF up
    <3>3. /\ timed \in [exists : BOOLEAN, val : Nat, otime : BOOLEAN]
          /\ timed.val = 1 /\ (timed.exists <=> sem.exists) /\ timed.otime
      BY <3>2
    <3> HIDE DEF timed
    <3>. QED
      BY <3>1, <3>3
  <2>5. \A q \in Procs : /\ ~ Creates(q)' /\ ~ Holds(q)'
                         /\ Locked(q) => Locked(q)'
    <3>1. \A q \in Procs : Creates(q) => q = p
      BY <2>1 DEF SemInv, Creates
    <3>. QED
      BY <2>1, <2>2, <2>3, <3>1 DEF Becomes, Holds, Creates, Locked, Outside, Inside
  <2>6. FileTypes'
    BY <1>1, <2>1, <2>2, <2>4 DEF FileTypes, Becomes
  <2>. QED
    BY <2>1, <2>3, <2>4, <2>5, <2>6 DEF SemInv
<1>6. ASSUME NEW p \in Procs, File!LockOpen(p)
      PROVE  SemInv'
  <2>1. /\ proc' = [proc EXCEPT ![p].pc = "config", ![p].semid = sem.otime]
        /\ (unlocked' <=> unlocked \/ ~ sem.otime) /\ proc[p].pc = "open" /\ sem' = sem
        /\ unlocked' \in BOOLEAN
    BY <1>6, Zenon DEF File!LockOpen
  <2>2. sem.otime \in BOOLEAN
    BY <1>1 DEF FileTypes
  <2>3. /\ Becomes(p, proc'[p]) /\ proc'[p].pc = "config"
        /\ (proc'[p].semid <=> sem.otime) /\ (proc'[p].holds <=> proc[p].holds)
    BY <1>1, <2>1, <2>2, ConfigEffect
  <2>4. \A q \in Procs : /\ Creates(q)' => Creates(q)
                         /\ Holds(q)' <=> Holds(q)
                         /\ proc'[q].semid => proc[q].semid \/ sem.otime
                         /\ proc'[q].pc \in Inside <=> proc[q].pc \in Inside
    BY <2>1, <2>3 DEF Becomes, Holds, Creates, Inside
  <2>5. ASSUME ~ unlocked', NEW q \in Procs
        PROVE  Locked(q)'
    <3>1. Locked(q) /\ sem.otime
      BY <2>1, <2>5 DEF SemInv
    <3>. QED
      BY <2>1, <2>3, <2>4, <3>1 DEF Becomes, Locked
  <2>6. FileTypes'
    BY <1>1, <2>1, <2>3 DEF FileTypes, Becomes
  <2>. QED
    BY <1>2, <2>1, <2>4, <2>5, <2>6 DEF SemInv
(* Steps that only go on.                                                  *)
<1>7. ASSUME NEW p \in Procs, NEW to \in Steps, Becomes(p, proc'[p]), Moves(p, to),
             sem' = sem, unlocked' = unlocked,
             \/ proc[p].pc = "config" /\ to = "idle"
             \/ proc[p].pc = "idle" /\ to = "lock"
             \/ proc[p].pc \in Inside /\ to \in Inside
      PROVE  SemInv'
  <2>1. /\ to \notin {"down", "setval", "semup"} /\ proc[p].pc \notin Outside
        /\ to \in Inside <=> proc[p].pc \in Inside
    BY <1>7 DEF Inside, Outside
  <2>2. sem.exists
    BY <1>2, <1>7 DEF Inside
  <2>. QED
    BY <1>7, <2>1, <2>2, SemQuiet
<1>8. ASSUME NEW p \in Procs, NEW to \in Steps, File!Opened(p, to)
      PROVE  Becomes(p, proc'[p]) /\ Moves(p, to)
  BY <1>1, <1>8, OpenedEffect
<1>9. ASSUME NEW p \in Procs, File!Config(p)
      PROVE  SemInv'
  <2>1. /\ File!Opened(p, "idle") /\ sem' = sem /\ unlocked' = unlocked
        /\ proc[p].pc = "config" /\ "idle" \in Steps
    BY <1>9 DEF File!Config, Steps
  <2>. QED
    BY <1>7, <1>8, <2>1
<1>10. ASSUME NEW p \in Procs, File!Dies(p), proc[p].pc # "down"
       PROVE  SemInv'
  <2>1. /\ proc' = [proc EXCEPT ![p] = File!Down] /\ unlocked' = unlocked
        /\ sem' = IF Holds(p) THEN [sem EXCEPT !.val = @ + 1] ELSE sem
    BY <1>10 DEF File!Dies, Holds
  <2>. QED
    BY <1>1, <1>2, <1>10, <2>1, DownEffect, SemBack
<1>11. ASSUME NEW p \in Procs, File!FileDeinit(p)
       PROVE  SemInv'
  <2>1. /\ proc' = [proc EXCEPT ![p] = File!Down] /\ unlocked' = unlocked
        /\ sem' = sem /\ proc[p].pc = "idle"
    BY <1>11 DEF File!FileDeinit
  <2>2. ~ Holds(p)
    BY <2>1 DEF SemInv, Inside
  <2>. QED
    BY <1>1, <1>2, <2>1, <2>2, DownEffect, SemBack
<1>12. ASSUME NEW p \in Procs, File!WriteCall(p)
       PROVE  SemInv'
  <2>1. /\ File!Goes(p, "lock") /\ sem' = sem /\ unlocked' = unlocked
        /\ proc[p].pc = "idle" /\ "lock" \in Steps
    BY <1>12 DEF File!WriteCall, Steps
  <2>2. Becomes(p, proc'[p]) /\ Moves(p, "lock")
    BY <1>1, <2>1, GoesEffect
  <2>. QED
    BY <1>7, <2>1, <2>2
<1>13. ASSUME NEW p \in Procs, File!Lock(p)
       PROVE  SemInv'
  <2>1. /\ proc[p].pc = "lock" /\ unlocked' = unlocked /\ (proc[p].semid => sem.val > 0)
        /\ sem' = IF proc[p].semid THEN [sem EXCEPT !.val = sem.val - 1] ELSE sem
    BY <1>13 DEF File!Lock, File!Available
  <2>2. /\ Becomes(p, proc'[p]) /\ proc'[p].pc = "test"
        /\ (proc'[p].semid <=> proc[p].semid) /\ (proc'[p].holds <=> proc[p].semid)
    BY <1>1, <1>13, LockEffect
  <2>3. \A q \in Procs : /\ Creates(q)' => Creates(q)
                         /\ q # p => proc'[q] = proc[q]
                         /\ proc'[q].semid <=> proc[q].semid
    BY <2>2 DEF Becomes, Creates
  <2>4. ~ Holds(p) /\ sem.exists
    BY <1>2, <2>1 DEF SemInv, Inside
  <2>5. ~ unlocked => proc[p].semid
    BY <2>1 DEF SemInv, Locked, Outside
  <2>6. ~ unlocked' => \A q \in Procs : Locked(q)'
    BY <2>1, <2>2, <2>3, <2>5 DEF SemInv, Locked, Holds, Outside, Inside
  <2>7. CASE proc[p].semid
    <3>1. sem.otime /\ sem.val = 1 /\ \A q \in Procs : ~ Holds(q)
      BY <2>1, <2>7 DEF SemInv
    <3>2. /\ sem' \in [exists : BOOLEAN, val : Nat, otime : BOOLEAN] /\ sem'.val = 0
          /\ (sem'.exists <=> sem.exists) /\ (sem'.otime <=> sem.otime)
      BY <1>1, <2>1, <2>7, <3>1 DEF FileTypes
    <3>3. \A q \in Procs : Holds(q)' <=> q = p
      BY <2>2, <2>3, <2>7, <3>1 DEF Holds
    <3>4. FileTypes'
      BY <1>1, <2>1, <2>2, <3>2 DEF FileTypes, Becomes
    <3>. QED
      BY <2>2, <2>3, <2>4, <2>6, <3>1, <3>2, <3>3, <3>4 DEF SemInv, Inside
  <2>8. CASE ~ proc[p].semid
    <3>1. sem' = sem /\ \A q \in Procs : Holds(q)' <=> Holds(q)
      BY <2>1, <2>2, <2>3, <2>4, <2>8 DEF Holds
    <3>2. FileTypes'
      BY <1>1, <2>1, <2>2, <3>1 DEF FileTypes, Becomes
    <3>3. \A q \in Procs : Holds(q)' => proc'[q].pc \in Inside
      BY <2>3, <2>4, <3>1 DEF SemInv
    <3>. QED
      BY <2>1, <2>3, <2>4, <2>6, <3>1, <3>2, <3>3 DEF SemInv
  <2>. QED
    BY <2>7, <2>8
<1>14. ASSUME NEW p \in Procs, File!Test(p)
       PROVE  SemInv'
  <2>1. proc[p].pc = "test" /\ sem' = sem /\ unlocked' = unlocked
    BY <1>14 DEF File!Test
  <2>2. Becomes(p, proc'[p]) /\ (Moves(p, "rotate") \/ Moves(p, "write"))
    BY <1>1, <1>14, TestEffect
  <2>. QED
    BY <1>7, <2>1, <2>2 DEF Steps, Inside
<1>15. ASSUME NEW p \in Procs, File!RotateStep(p)
       PROVE  SemInv'
  <2>1. /\ proc[p].pc = "rotate" /\ sem' = sem /\ unlocked' = unlocked
        /\ proc[p].n \in 0 .. MaxRotate - 1
    BY <1>15 DEF File!RotateStep, TurnsLeft
  <2>2. Becomes(p, proc'[p]) /\ (Moves(p, "rotate") \/ Moves(p, "reopen"))
    BY <1>1, <1>15, <2>1, RotateEffect
  <2>. QED
    BY <1>7, <2>1, <2>2 DEF Steps, Inside
<1>16. ASSUME NEW p \in Procs, File!Reopen(p)
       PROVE  SemInv'
  <2>1. /\ proc[p].pc = "reopen" /\ sem' = sem /\ unlocked' = unlocked
        /\ File!Opened(p, "write") \/ File!Opened(p, "unlock")
    BY <1>16 DEF File!Reopen
  <2>. QED
    BY <1>7, <1>8, <2>1 DEF Steps, Inside
<1>17. ASSUME NEW p \in Procs, File!Write(p)
       PROVE  SemInv'
  <2>1. proc[p].pc = "write" /\ sem' = sem /\ unlocked' = unlocked
    BY <1>17 DEF File!Write
  <2>. QED
    BY <1>1, <1>7, <1>17, <2>1, WriteEffect DEF Steps, Inside
<1>18. ASSUME NEW p \in Procs, File!Unlock(p)
       PROVE  SemInv'
  <2>1. /\ proc[p].pc = "unlock" /\ unlocked' = unlocked
        /\ sem' = IF Holds(p) THEN [sem EXCEPT !.val = @ + 1] ELSE sem
    BY <1>18 DEF File!Unlock, Holds
  <2>. QED
    BY <1>1, <1>2, <1>18, <2>1, UnlockEffect, SemBack
<1>19. CASE UNCHANGED File!vars
  BY <1>19 DEF File!vars, SemInv, FileTypes, Creates, Holds, Locked
<1>20. ASSUME NEW p \in Procs, File!Kill(p) \/ File!WriteFails(p)
       PROVE  SemInv'
  BY <1>10, <1>20 DEF File!Kill, File!WriteFails
<1>. QED
  BY <1>3, <1>4, <1>5, <1>6, <1>9, <1>11, <1>12, <1>13, <1>14, <1>15, <1>16, <1>17, <1>18,
     <1>19, <1>20 DEF File!Next
---------------------------------------------------------------------------
(* The files: they are numbered as they were created, the newest one has   *)
(* the plain name or none does, no process is in a file older than the one *)
(* it has written into, and, as long as those inside hold the semaphore,   *)
(* the rotation has made room for its next turn.                           *)
RoomAbove ==
    \A p \in Procs : proc[p].pc = "rotate" =>
        proc[p].n = MaxRotate - 1 \/ path[proc[p].n + 1] = 0

FileInv ==
    /\ File!Files = 1 .. Created /\ Created \in Nat
    /\ NamesOf(path, Created)
    /\ last \in [Procs -> 0 .. Created]
    /\ \A p \in Procs : proc[p].fp \in 0 .. Created /\ (proc[p].fp # 0 => proc[p].fp >= last[p])
    /\ TurnsLeft
    /\ ~ unlocked => Newest(path, Created) /\ RoomAbove

LEMMA FileInvInit ==
  ASSUME File!ElogFileAssumption
  PROVE  File!Init => FileInv
<1> SUFFICES ASSUME File!Init
             PROVE  FileInv
  OBVIOUS
<1>1. MaxRotate \in Nat \ {0} /\ File!NoFile = 0
  BY DEF File!ElogFileAssumption, File!NoFile
<1>2. File!Files = {} /\ Created = 0
  <2>1. File!Files = {}
    BY DEF File!Init, File!Files
  <2>. QED
    BY <2>1, FS_EmptySet DEF Created
<1>3. /\ path = [i \in 0 .. MaxRotate |-> 0] /\ last = [p \in Procs |-> 0]
      /\ \A p \in Procs : proc[p].fp = 0 /\ proc[p].pc = "down"
  BY <1>1 DEF File!Init, File!Down
<1>. QED
  BY <1>1, <1>2, <1>3 DEF FileInv, NamesOf, Newest, TurnsLeft, RoomAbove

(* A process moves and no name changes.                                    *)
LEMMA FileQuiet ==
  ASSUME FileInv, NEW p \in Procs, Becomes(p, proc'[p]),
         path' = path, DOMAIN size' = DOMAIN size, ~ unlocked' => ~ unlocked,
         last' \in [Procs -> 0 .. Created], \A q \in Procs \ {p} : last'[q] = last[q],
         proc'[p].fp \in 0 .. Created /\ (proc'[p].fp # 0 => proc'[p].fp >= last'[p]),
         proc'[p].pc = "rotate" => proc'[p].n = MaxRotate - 1, MaxRotate \in Nat \ {0}
  PROVE  FileInv'
<1>1. File!Files' = File!Files /\ Created' = Created
  BY Zenon DEF File!Files, Created
<1>2. NamesOf(path, Created)' /\ (Newest(path, Created) => Newest(path, Created)')
  BY <1>1 DEF FileInv, NamesOf, Newest
<1>3. \A q \in Procs : proc'[q].fp \in 0 .. Created /\ (proc'[q].fp # 0 => proc'[q].fp >= last'[q])
  BY DEF FileInv, Becomes
<1>4. TurnsLeft'
  BY DEF FileInv, TurnsLeft, Becomes
<1>5. RoomAbove => RoomAbove'
  BY DEF RoomAbove, Becomes
<1>6. ~ unlocked' => ~ unlocked
  OBVIOUS
<1>. QED
  BY <1>1, <1>2, <1>3, <1>4, <1>5, <1>6 DEF FileInv

LEMMA FileOpened ==
  ASSUME FileInv, FileTypes, MaxRotate \in Nat \ {0}, NEW p \in Procs, NEW to \in Steps,
         File!Opened(p, to), to # "rotate", last' = last, unlocked' = unlocked
  PROVE  FileInv'
<1>1. path[0] \in {0, Created} /\ Created \in Nat /\ path[0] \in Nat
  BY DEF FileInv, NamesOf
<1>2. \A q \in Procs : last[q] \in 0 .. Created
  BY DEF FileInv
<1>3. Becomes(p, proc'[p]) /\ proc'[p].pc = to
  BY <1>1, OpenedEffect DEF Moves
<1>4. CASE path' = path /\ DOMAIN size' = DOMAIN size /\ proc'[p].fp \in {0, path[0]}
  <2>1. proc'[p].fp \in 0 .. Created /\ (proc'[p].fp # 0 => proc'[p].fp >= last'[p])
    BY <1>1, <1>2, <1>4
  <2>2. last' \in [Procs -> 0 .. Created]
    BY DEF FileInv
  <2>. QED
    BY <1>3, <1>4, <2>1, <2>2, FileQuiet
<1>5. CASE /\ path[0] = 0 /\ path' = [path EXCEPT ![0] = Created + 1]
           /\ DOMAIN size' = DOMAIN size \cup {Created + 1}
           /\ proc'[p].fp = Created + 1
  <2>1. File!Files' = 1 .. Created + 1
    <3>1. File!Files = 1 .. Created
      BY DEF FileInv
    <3>. QED
      BY <1>1, <1>5, <3>1 DEF File!Files
  <2>2. Created' = Created + 1
    <3>1. Created' = Cardinality(1 .. Created + 1)
      BY <2>1, Zenon DEF Created
    <3>2. Cardinality(1 .. Created + 1) = Created + 1
      BY <1>1, FS_Interval
    <3>. QED
      BY <3>1, <3>2
  <2>3. /\ NamesOf(path', Created + 1)
        /\ Newest(path, Created) => Newest(path', Created + 1)
    BY <1>1, <1>5, NameCreated DEF FileInv
  <2>4. last' \in [Procs -> 0 .. Created + 1]
    BY <1>1 DEF FileInv
  <2>5. \A q \in Procs : /\ proc'[q].fp \in 0 .. Created + 1
                         /\ proc'[q].fp # 0 => proc'[q].fp >= last'[q]
    BY <1>1, <1>2, <1>3, <1>5 DEF FileInv, Becomes
  <2>6. TurnsLeft'
    BY <1>3 DEF FileInv, TurnsLeft, Becomes
  <2>7. RoomAbove => RoomAbove'
    <3>1. SUFFICES ASSUME RoomAbove, NEW q \in Procs, proc'[q].pc = "rotate"
                   PROVE  proc'[q].n = MaxRotate - 1 \/ path'[proc'[q].n + 1] = 0
      BY Zenon DEF RoomAbove
    <3>2. proc'[q] = proc[q] /\ proc[q].n \in 0 .. MaxRotate - 1
      BY <1>3, <3>1 DEF FileInv, TurnsLeft, Becomes
    <3>3. proc[q].n + 1 \in 0 .. MaxRotate /\ proc[q].n + 1 # 0
      BY <3>2
    <3>4. path'[proc[q].n + 1] = path[proc[q].n + 1]
      BY <1>5, <3>3 DEF FileInv, NamesOf
    <3>. QED
      BY <3>1, <3>2, <3>4 DEF RoomAbove
  <2>8. NamesOf(path, Created)' /\ (Newest(path, Created) => Newest(path, Created)')
    BY <2>2, <2>3
  <2>. QED
    BY <1>1, <2>1, <2>2, <2>4, <2>5, <2>6, <2>7, <2>8 DEF FileInv
<1>. QED
  BY <1>1, <1>4, <1>5, OpenedEffect

(* Nobody else is rotating.                                                *)
LEMMA FileRotated ==
  ASSUME FileInv, SemInv, MaxRotate \in Nat \ {0}, NEW p \in Procs, File!RotateStep(p)
  PROVE  FileInv'
<1> DEFINE m == proc[p].n
           shifted == [[path EXCEPT ![m + 1] = path[m]] EXCEPT ![m] = 0]
           removed == [path EXCEPT ![m + 1] = 0]
<1>1. /\ last' = last /\ size' = size /\ unlocked' = unlocked /\ proc[p].pc = "rotate"
  BY DEF File!RotateStep
<1>2. m \in 0 .. MaxRotate - 1 /\ FileTypes /\ Created \in Nat
  BY <1>1 DEF FileInv, TurnsLeft, SemInv
<1>3. /\ Becomes(p, proc'[p]) /\ proc'[p].fp = proc[p].fp
      /\ \/ /\ path' = File!Renamed(m)
            /\ \/ proc'[p].pc = "rotate" /\ m # 0 /\ proc'[p].n = m - 1
               \/ proc'[p].pc = "reopen"
         \/ proc'[p].pc = "reopen" /\ path' = removed
  BY <1>2, RotateEffect DEF Moves
<1>4. File!Renamed(m) = shifted
  BY Zenon DEF File!Renamed, File!NoFile
<1>5. File!Files' = File!Files /\ Created' = Created
  BY <1>1, Zenon DEF File!Files, Created
<1>6. /\ NamesOf(shifted, Created) /\ shifted[m] = 0
      /\ (m = MaxRotate - 1 \/ path[m + 1] = 0) /\ Newest(path, Created) => Newest(shifted, Created)
  BY <1>2, NameShifted DEF FileInv
<1>7. /\ NamesOf(removed, Created)
      /\ (m = MaxRotate - 1 \/ path[m + 1] = 0) /\ Newest(path, Created) => Newest(removed, Created)
  BY <1>2, NameRemoved DEF FileInv
<1> HIDE DEF shifted, removed
<1>8. \A q \in Procs : /\ proc'[q].fp \in 0 .. Created
                       /\ proc'[q].fp # 0 => proc'[q].fp >= last'[q]
  BY <1>1, <1>3 DEF FileInv, Becomes
<1>9. TurnsLeft'
  <2>1. m # 0 => m - 1 \in 0 .. MaxRotate - 1
    BY <1>2
  <2>. QED
    BY <1>3, <2>1 DEF FileInv, TurnsLeft, Becomes
<1>10. ASSUME ~ unlocked
       PROVE  Newest(path', Created) /\ RoomAbove'
  <2>1. Newest(path, Created) /\ (m = MaxRotate - 1 \/ path[m + 1] = 0)
    BY <1>1, <1>10 DEF FileInv, RoomAbove
  <2>2. Newest(path', Created)
    BY <1>3, <1>4, <1>6, <1>7, <2>1
  <2>3. \A q \in Procs : proc[q].pc = "rotate" => q = p
    BY <1>1, <1>10 DEF SemInv, Locked, Inside
  <2>4. SUFFICES ASSUME NEW q \in Procs, proc'[q].pc = "rotate"
                 PROVE  path'[proc'[q].n + 1] = 0
    BY <2>2 DEF RoomAbove
  <2>5. q = p
    BY <1>3, <2>3, <2>4 DEF Becomes
  <2>6. path' = shifted /\ proc'[q].n = m - 1
    BY <1>3, <1>4, <2>4, <2>5
  <2>7. proc'[q].n + 1 = m
    BY <1>2, <2>6
  <2>. QED
    BY <1>6, <2>6, <2>7
<1>11. NamesOf(path', Created)
  BY <1>3, <1>4, <1>6, <1>7
<1>12. last' \in [Procs -> 0 .. Created]
  BY <1>1 DEF FileInv
<1>13. NamesOf(path, Created)' /\ (~ unlocked => Newest(path, Created)' /\ RoomAbove')
  BY <1>5, <1>10, <1>11
<1>. QED
  BY <1>1, <1>2, <1>5, <1>8, <1>9, <1>12, <1>13 DEF FileInv

LEMMA FileInvStep ==
  ASSUME File!ElogFileAssumption, FileInv, SemInv, [File!Next]_File!vars
  PROVE  FileInv'
<1>1. FileTypes /\ MaxRotate \in Nat \ {0} /\ Created \in Nat
  BY DEF FileInv, SemInv, File!ElogFileAssumption
<1>2. /\ last \in [Procs -> 0 .. Created]
      /\ \A q \in Procs : proc[q].fp \in 0 .. Created /\ (proc[q].fp # 0 => proc[q].fp >= last[q])
  BY DEF FileInv
(* Steps of a process that stays in its file or leaves it.                 *)
<1>3. ASSUME NEW p \in Procs, Becomes(p, proc'[p]), proc'[p].fp \in {0, proc[p].fp},
             path' = path, DOMAIN size' = DOMAIN size, ~ unlocked' => ~ unlocked, last' = last,
             proc'[p].pc = "rotate" => proc'[p].n = MaxRotate - 1
      PROVE  FileInv'
  <2>1. /\ proc'[p].fp \in 0 .. Created /\ (proc'[p].fp # 0 => proc'[p].fp >= last'[p])
        /\ last' \in [Procs -> 0 .. Created] /\ \A q \in Procs \ {p} : last'[q] = last[q]
    BY <1>1, <1>2, <1>3
  <2>. QED
    BY <1>1, <1>3, <2>1, FileQuiet
<1>4. ASSUME NEW p \in Procs, NEW to \in Steps, File!Goes(p, to), to # "rotate",
             UNCHANGED <<path, size, last, unlocked>>
      PROVE  FileInv'
  <2>1. Becomes(p, proc'[p]) /\ Moves(p, to) /\ proc'[p].fp = proc[p].fp
    BY <1>1, <1>4, GoesEffect
  <2>. QED
    BY <1>3, <1>4, <2>1 DEF Moves
<1>5. ASSUME NEW p \in Procs, File!FileInit(p)
      PROVE  FileInv'
  <2>1. (File!Goes(p, "open") \/ File!Goes(p, "setval")) /\ UNCHANGED <<path, size, last, unlocked>>
    BY <1>5 DEF File!FileInit
  <2>. QED
    BY <1>4, <2>1 DEF Steps, Outside
<1>6. ASSUME NEW p \in Procs, File!SetVal(p) \/ File!WriteCall(p)
      PROVE  FileInv'
  <2>1. (File!Goes(p, "semup") \/ File!Goes(p, "lock")) /\ UNCHANGED <<path, size, last, unlocked>>
    BY <1>6 DEF File!SetVal, File!WriteCall
  <2>. QED
    BY <1>4, <2>1 DEF Steps, Outside
<1>7. ASSUME NEW p \in Procs, File!SemUp(p)
      PROVE  FileInv'
  <2>1. /\ proc' = [proc EXCEPT ![p].pc = "config", ![p].semid = TRUE]
        /\ UNCHANGED <<path, size, last, unlocked>>
    BY <1>7, Zenon DEF File!SemUp
  <2>2. /\ Becomes(p, proc'[p]) /\ proc'[p].pc = "config" /\ proc'[p].fp = proc[p].fp
    BY <1>1, <2>1, ConfigEffect
  <2>. QED
    BY <1>3, <2>1, <2>2
<1>8. ASSUME NEW p \in Procs, File!LockOpen(p)
      PROVE  FileInv'
  <2>1. /\ proc' = [proc EXCEPT ![p].pc = "config", ![p].semid = sem.otime]
        /\ UNCHANGED <<path, size, last>> /\ (~ unlocked' => ~ unlocked)
    BY <1>8, Zenon DEF File!LockOpen
  <2>2. sem.otime \in BOOLEAN
    BY <1>1 DEF FileTypes
  <2>3. /\ Becomes(p, proc'[p]) /\ proc'[p].pc = "config" /\ proc'[p].fp = proc[p].fp
    BY <1>1, <2>1, <2>2, ConfigEffect
  <2>. QED
    BY <1>3, <2>1, <2>3
<1>9. ASSUME NEW p \in Procs, File!Config(p) \/ File!Reopen(p)
      PROVE  FileInv'
  <2>1. /\ last' = last /\ unlocked' = unlocked
        /\ File!Opened(p, "idle") \/ File!Opened(p, "write") \/ File!Opened(p, "unlock")
    BY <1>9 DEF File!Config, File!Reopen
  <2>. QED
    BY <1>1, <2>1, FileOpened DEF Steps, Inside
<1>10. \A p \in Procs : DOMAIN File!Flushed(p) = DOMAIN size
  BY DEF File!Flushed
<1>11. ASSUME NEW p \in Procs, File!FileDeinit(p)
       PROVE  FileInv'
  <2>1. /\ proc' = [proc EXCEPT ![p] = File!Down] /\ size' = File!Flushed(p)
        /\ UNCHANGED <<path, last, unlocked>>
    BY <1>11 DEF File!FileDeinit
  <2>2. Becomes(p, proc'[p]) /\ proc'[p].pc = "down" /\ proc'[p].fp = 0
    BY <1>1, <2>1, DownEffect
  <2>. QED
    BY <1>3, <1>10, <2>1, <2>2
<1>12. ASSUME NEW p \in Procs, File!Lock(p)
       PROVE  FileInv'
  <2>1. UNCHANGED <<path, size, last, unlocked>>
    BY <1>12 DEF File!Lock
  <2>2. Becomes(p, proc'[p]) /\ proc'[p].pc = "test" /\ proc'[p].fp = proc[p].fp
    BY <1>1, <1>12, LockEffect
  <2>. QED
    BY <1>3, <2>1, <2>2
<1>13. ASSUME NEW p \in Procs, File!Test(p)
       PROVE  FileInv'
  <2>1. size' = File!Flushed(p) /\ UNCHANGED <<path, last, unlocked>>
    BY <1>13 DEF File!Test
  <2>2. /\ Becomes(p, proc'[p]) /\ proc'[p].fp \in {0, proc[p].fp}
        /\ proc'[p].pc = "rotate" => proc'[p].n = MaxRotate - 1
    BY <1>1, <1>13, TestEffect DEF Moves
  <2>. QED
    BY <1>3, <1>10, <2>1, <2>2
<1>14. ASSUME NEW p \in Procs, File!RotateStep(p)
       PROVE  FileInv'
  BY <1>1, <1>14, FileRotated
<1>15. ASSUME NEW p \in Procs, File!Write(p)
       PROVE  FileInv'
  <2>1. /\ last' = [last EXCEPT ![p] = proc[p].fp] /\ UNCHANGED <<path, size, unlocked>>
    BY <1>15 DEF File!Write
  <2>2. Becomes(p, proc'[p]) /\ proc'[p].pc = "unlock" /\ proc'[p].fp = proc[p].fp
    BY <1>1, <1>15, WriteEffect DEF Moves
  <2>3. /\ last' \in [Procs -> 0 .. Created] /\ \A q \in Procs \ {p} : last'[q] = last[q]
        /\ last'[p] = proc[p].fp
    BY <1>2, <2>1
  <2>4. proc'[p].fp \in 0 .. Created /\ proc'[p].fp >= last'[p]
    BY <1>1, <1>2, <2>2, <2>3
  <2>. QED
    BY <1>1, <2>1, <2>2, <2>3, <2>4, FileQuiet
<1>16. ASSUME NEW p \in Procs, File!Unlock(p)
       PROVE  FileInv'
  <2>1. UNCHANGED <<path, size, last, unlocked>>
    BY <1>16 DEF File!Unlock
  <2>2. Becomes(p, proc'[p]) /\ proc'[p].pc = "idle" /\ proc'[p].fp = proc[p].fp
    BY <1>1, <1>16, UnlockEffect
  <2>. QED
    BY <1>3, <2>1, <2>2
<1>17. ASSUME NEW p \in Procs, File!Kill(p) \/ File!WriteFails(p)
       PROVE  FileInv'
  <2>1. /\ proc' = [proc EXCEPT ![p] = File!Down] /\ UNCHANGED <<path, size, unlocked>>
        /\ last' = [last EXCEPT ![p] = 0]
    BY <1>17 DEF File!Kill, File!WriteFails, File!Dies, File!NoFile
  <2>2. Becomes(p, proc'[p]) /\ proc'[p].pc = "down" /\ proc'[p].fp = 0
    BY <1>1, <2>1, DownEffect
  <2>3. last' \in [Procs -> 0 .. Created] /\ \A q \in Procs \ {p} : last'[q] = last[q]
    BY <1>1, <1>2, <2>1
  <2>. QED
    BY <1>1, <2>1, <2>2, <2>3, FileQuiet
<1>18. CASE UNCHANGED File!vars
  BY <1>18 DEF File!vars, FileInv, Created, File!Files, TurnsLeft, RoomAbove
<1>. QED
  BY <1>5, <1>6, <1>7, <1>8, <1>9, <1>11, <1>12, <1>13, <1>14, <1>15, <1>16, <1>17, <1>18
  DEF File!Next

(* Both invariants together are kept by every step.                        *)
LEMMA FileSafety ==
  ASSUME File!ElogFileAssumption
  PROVE  File!Spec => [](SemInv /\ FileInv)
<1>1. File!Init => SemInv /\ FileInv
  BY SemInvInit, FileInvInit
<1>2. SemInv /\ FileInv /\ [File!Next]_File!vars => SemInv' /\ FileInv'
  <2>1. SUFFICES ASSUME SemInv, FileInv, [File!Next]_File!vars
                 PROVE  SemInv' /\ FileInv'
    OBVIOUS
  <2>2. path[0] \in Nat /\ Created \in Nat /\ TurnsLeft
    BY <2>1 DEF FileInv, NamesOf
  <2>. QED
    BY <2>1, <2>2, SemInvStep, FileInvStep
<1>. QED
  BY <1>1, <1>2, PTL DEF File!Spec

(* A set in which any two are the same has at most one element.            *)
LEMMA AtMostOne ==
  ASSUME NEW S, \A x, y \in S : x = y
  PROVE  (S = {} /\ Cardinality(S) = 0) \/ (S # {} /\ Cardinality(S) = 1)
<1>1. CASE S = {}
  BY <1>1, FS_EmptySet
<1>2. ASSUME NEW x \in S
      PROVE  Cardinality(S) = 1
  <2>1. S = {x}
    BY <1>2
  <2>. QED
    BY <2>1, FS_Singleton
<1>. QED
  BY <1>1, <1>2

(* One process at a time holds the semaphore, and its value says so.       *)
THEOREM LockIsOneProcessHolds ==
  ASSUME File!ElogFileAssumption
  PROVE  File!Spec => []LockIsOneProcess
<1>1. ASSUME SemInv
      PROVE  LockIsOneProcess
  <2> DEFINE holders == {p \in Procs : proc[p].holds}
  <2>1. (holders = {} /\ Cardinality(holders) = 0) \/ (holders # {} /\ Cardinality(holders) = 1)
    <3>1. \A x, y \in holders : x = y
      BY <1>1 DEF SemInv, Holds
    <3>. QED
      BY <3>1, AtMostOne
  <2>2. /\ sem.otime /\ holders = {} => sem.val = 1
        /\ ~ sem.otime \/ holders # {} => sem.val = 0
        /\ holders # {} => sem.otime
    BY <1>1 DEF SemInv, Holds
  <2> HIDE DEF holders
  <2>3. sem.val + Cardinality(holders) = IF sem.otime THEN 1 ELSE 0
    BY <2>1, <2>2
  <2>4. File!Cardinality(holders) = Cardinality(holders)
    BY FileCardinality
  <2>. QED
    BY <2>3, <2>4, Zenon DEF LockIsOneProcess, File!LockIsOneProcess, holders
<1>. QED
  BY <1>1, FileSafety, PTL

(* The files that are left are the newest ones, in the order of their age. *)
THEOREM NewestFilesKeptHolds ==
  ASSUME File!ElogFileAssumption
  PROVE  File!Spec => []NewestFilesKept
<1>1. ASSUME FileInv
      PROVE  NewestFilesKept
  <2>1. SUFFICES ASSUME ~ unlocked
                 PROVE  /\ \A f \in File!Named : \A g \in File!Files : g > f => g \in File!Named
                        /\ \A i, j \in 0 .. MaxRotate :
                             i < j /\ path[i] # 0 /\ path[j] # 0 => path[i] > path[j]
                        /\ \A p \in Procs : proc[p].fp # 0 => proc[p].fp >= last[p]
    BY Zenon DEF NewestFilesKept, File!NewestFilesKept, File!NoFile
  <2>2. Newest(path, Created) /\ File!Files = 1 .. Created /\ Created \in Nat
    BY <1>1, <2>1 DEF FileInv
  <2>3. ASSUME NEW f \in File!Named, NEW g \in File!Files, g > f
        PROVE  g \in File!Named
    <3>1. PICK i \in 0 .. MaxRotate : path[i] = f /\ f # 0
      BY DEF File!Named, File!NoFile
    <3>2. PICK j \in 0 .. MaxRotate : path[j] = g
      BY <2>2, <2>3, <3>1 DEF Newest
    <3>3. g # 0
      BY <2>2
    <3>. QED
      BY <3>2, <3>3 DEF File!Named, File!NoFile
  <2>. QED
    BY <1>1, <2>2, <2>3 DEF Newest, FileInv
<1>. QED
  BY <1>1, FileSafety, PTL
=============================================================================
