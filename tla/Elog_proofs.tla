---------------------------- MODULE Elog_proofs -----------------------------
(***************************************************************************)
(* Proofs about five parts of EasyLogger: the output lock that can be      *)
(* disabled (LockSettled), the filters (FilterAsAsked), buffered output    *)
(* (PrintedOnce), the flash plugin (FlashKeepsLogs) and the line buffer    *)
(* (LinesWhole).                                                           *)
(***************************************************************************)
EXTENDS Integers, Elog, FiniteSetTheorems, SequenceTheorems, WellFoundedInduction, TLAPS

---------------------------------------------------------------------------
(* The lock that can be disabled, over switches with a call between any    *)
(* two: while it is enabled, the lock of the port follows the calls, and   *)
(* the flag of what was locked before it is disabled follows them from the *)
(* first call on; while it is not, that flag says what the port is, and    *)
(* the other one, once there was a call, what it is to be.                 *)
LockInv ==
    /\ enabled \in BOOLEAN /\ port \in BOOLEAN /\ last_lock \in BOOLEAN
    /\ used \in BOOLEAN /\ settled \in BOOLEAN
    /\ before_enable \in BOOLEAN /\ before_disable \in BOOLEAN
    /\ settled /\ enabled =>
         port = last_lock /\ (used => before_disable = port)
    /\ settled /\ ~ enabled =>
         before_disable = port /\ (used => before_enable = last_lock)

LEMMA LockInvInit == Lock!Init => LockInv
BY DEF Lock!Init, LockInv

LEMMA LockInvStep == LockInv /\ [Lock!Next]_Lock!vars => LockInv'
<1> SUFFICES ASSUME LockInv, [Lock!Next]_Lock!vars
             PROVE  LockInv'
  OBVIOUS
<1>1. CASE Lock!Lock
  BY <1>1 DEF LockInv, Lock!Lock
<1>2. CASE Lock!Unlock
  BY <1>2 DEF LockInv, Lock!Unlock
<1>3. CASE Lock!Disable
  BY <1>3 DEF LockInv, Lock!Disable
<1>4. CASE Lock!Enable
  BY <1>4 DEF LockInv, Lock!Enable, Lock!Settled
<1>5. CASE UNCHANGED Lock!vars
  BY <1>5 DEF LockInv, Lock!vars
<1>. QED
  BY <1>1, <1>2, <1>3, <1>4, <1>5 DEF Lock!Next

(* Over any number of switches with calls between them, nested or not, the *)
(* lock of the port is held just if the last call was a lock, when the     *)
(* lock is enabled (elog.c:372-391, 757-769).                              *)
THEOREM LockSettledHolds == Lock!Spec => []LockSettled
<1>1. LockInv => Lock!LockSettled
  BY DEF LockInv, Lock!LockSettled
<1>. QED
  BY <1>1, LockInvInit, LockInvStep, PTL DEF Lock!Spec, LockSettled
---------------------------------------------------------------------------
(* Filters.  The table has a slot of its own for each tag that something   *)
(* is asked for, with what was asked.                                      *)
Entry == [tag : Tags \cup {NoTag}, level : Filter!Levels, used : BOOLEAN]

FilterInv ==
    /\ init_ok \in BOOLEAN /\ filter_level \in Filter!Levels
    /\ tag_lvl \in [1 .. Slots -> Entry] /\ asked \in [Tags -> Filter!Levels]
    /\ \A i \in 1 .. Slots : tag_lvl[i].used =>
         /\ tag_lvl[i].tag \in Tags /\ Short(tag_lvl[i].tag) = tag_lvl[i].tag
         /\ tag_lvl[i].level # Filter!ALL /\ tag_lvl[i].level = asked[tag_lvl[i].tag]
    /\ \A i, j \in 1 .. Slots :
         tag_lvl[i].used /\ tag_lvl[j].used /\ tag_lvl[i].tag = tag_lvl[j].tag => i = j
    /\ \A t \in Tags : Short(t) = t /\ asked[t] # Filter!ALL =>
         \E i \in 1 .. Slots : tag_lvl[i].used /\ tag_lvl[i].tag = t

(* Numbers have a least one.                                               *)
LEMMA LeastOne ==
  ASSUME NEW S \in SUBSET Nat, S # {}
  PROVE  \E m \in S : \A k \in S : m <= k
<1>1. PICK m \in S : \A k \in S : <<k, m>> \notin OpToRel(<, Nat)
  BY NatLessThanWellFounded, WFMin, Zenon
<1>2. ASSUME NEW k \in S
      PROVE  m <= k
  <2>1. ~ (k < m)
    BY <1>1 DEF OpToRel
  <2>. QED
    BY <2>1
<1>. QED
  BY <1>2

(* The first of some slots is one of them, and there is but one.           *)
LEMMA FirstIsOne ==
  ASSUME NEW S \in SUBSET Nat
  PROVE  /\ Filter!First(S) \subseteq S /\ (Filter!First(S) = {} => S = {})
         /\ \A i, j \in Filter!First(S) : i = j
<1>1. Filter!First(S) \subseteq S /\ \A i, j \in Filter!First(S) : i = j
  BY DEF Filter!First
<1>2. ASSUME S # {}
      PROVE  Filter!First(S) # {}
  <2>1. PICK m \in S : \A k \in S : m <= k
    BY <1>2, LeastOne
  <2>. QED
    BY <2>1 DEF Filter!First
<1>. QED
  BY <1>1, <1>2

(* The slot of a tag is the one that is used for it.                       *)
LEMMA SlotOfTag ==
  ASSUME FilterInv, NEW t \in Tags
  PROVE  \A i \in 1 .. Slots :
           i \in Filter!SlotOf(t) <=> tag_lvl[i].used /\ tag_lvl[i].tag = Short(t)
<1> DEFINE S == {i \in 1 .. Slots : tag_lvl[i].used /\ tag_lvl[i].tag = Short(t)}
<1>1. \A i, j \in S : i = j
  BY DEF FilterInv
<1>2. S \subseteq Int
  OBVIOUS
<1>3. Filter!SlotOf(t) = Filter!First(S)
  BY DEF Filter!SlotOf
<1>4. Filter!First(S) = S
  BY <1>1, <1>2 DEF Filter!First
<1>. QED
  BY <1>3, <1>4

LEMMA FilterInvInit ==
  ASSUME Filter!ElogFilterAssumption
  PROVE  Filter!Init => FilterInv
<1> SUFFICES ASSUME Filter!Init
             PROVE  FilterInv
  OBVIOUS
<1>1. /\ Filter!Unused \in Entry /\ ~ Filter!Unused.used
      /\ Filter!ALL \in Filter!Levels /\ Filter!SILENT \in Filter!Levels
  BY DEF Entry, Filter!Levels, Filter!Unused, Filter!SILENT
<1>2. /\ tag_lvl = [i \in 1 .. Slots |-> Filter!Unused] /\ asked = [t \in Tags |-> Filter!ALL]
      /\ init_ok = FALSE /\ filter_level = Filter!SILENT
  BY DEF Filter!Init
<1>. QED
  BY <1>1, <1>2 DEF FilterInv

(* A level is asked for a tag: its slot is changed or given up, or one is  *)
(* taken that is free, or nothing is done.                                 *)
LEMMA SetTagLevelKeeps ==
  ASSUME Filter!ElogFilterAssumption, FilterInv,
         NEW t \in Tags, NEW level \in Filter!Levels, Filter!SetTagLevel(t, level)
  PROVE  FilterInv'
<1> DEFINE s == Short(t)
           mine == Filter!SlotOf(t)
           free == Filter!FreeSlot
           taken == [tag |-> s, level |-> level, used |-> TRUE]
<1>1. s \in Tags /\ Short(s) = s /\ s # NoTag
  BY DEF Filter!ElogFilterAssumption
<1>2. /\ \A i \in mine : i \in 1 .. Slots
      /\ \A i \in 1 .. Slots : i \in mine <=> tag_lvl[i].used /\ tag_lvl[i].tag = s
      /\ \A i, j \in mine : i = j
  <2>1. \A i \in mine : i \in 1 .. Slots
    BY DEF Filter!SlotOf, Filter!First
  <2>2. \A i \in 1 .. Slots : i \in mine <=> tag_lvl[i].used /\ tag_lvl[i].tag = s
    BY SlotOfTag
  <2>. QED
    BY <2>1, <2>2 DEF FilterInv
<1>3. /\ \A i \in free : i \in 1 .. Slots /\ ~ tag_lvl[i].used
      /\ \A i, j \in free : i = j
  <2>1. {i \in 1 .. Slots : ~ tag_lvl[i].used} \in SUBSET Nat
    OBVIOUS
  <2>. QED
    BY <2>1, FirstIsOne DEF Filter!FreeSlot
<1>4. /\ tag_lvl' = [i \in 1 .. Slots |->
            IF i \in mine
            THEN IF level = Filter!ALL THEN Filter!Unused ELSE [tag_lvl[i] EXCEPT !.level = level]
            ELSE IF mine = {} /\ level # Filter!ALL /\ i \in free THEN taken
            ELSE tag_lvl[i]]
      /\ asked' = IF mine = {} /\ free = {} THEN asked ELSE [asked EXCEPT ![s] = level]
      /\ init_ok' = init_ok /\ filter_level' = filter_level
  BY Zenon DEF Filter!SetTagLevel
<1>5. /\ taken \in Entry /\ taken.used /\ taken.tag = s /\ taken.level = level
      /\ Filter!Unused \in Entry /\ ~ Filter!Unused.used
  BY <1>1 DEF Entry, Filter!Unused, Filter!Levels, Filter!SILENT
<1> HIDE DEF s, mine, free, taken
<1>6. CASE mine = {} /\ (free = {} \/ level = Filter!ALL)
  <2>1. tag_lvl' = tag_lvl
    BY <1>4, <1>6 DEF FilterInv
  <2>2. asked' = asked
    <3>1. CASE free = {}
      BY <1>4, <1>6, <3>1
    <3>2. CASE level = Filter!ALL
      <4>1. asked[s] = Filter!ALL
        BY <1>1, <1>2, <1>6 DEF FilterInv
      <4>. QED
        BY <1>1, <1>4, <3>2, <4>1 DEF FilterInv
    <3>. QED
      BY <1>6, <3>1, <3>2
  <2>3. init_ok' = init_ok /\ filter_level' = filter_level
    BY <1>4
  <2>. QED
    BY <2>1, <2>2, <2>3 DEF FilterInv
<1>7. CASE mine = {} /\ free # {} /\ level # Filter!ALL
  <2>1. PICK f \in 1 .. Slots : f \in free /\ ~ tag_lvl[f].used
    BY <1>3, <1>7
  <2>2. /\ tag_lvl' \in [1 .. Slots -> Entry] /\ tag_lvl'[f] = taken
        /\ \A i \in 1 .. Slots : i # f => tag_lvl'[i] = tag_lvl[i]
    <3>1. \A i \in 1 .. Slots : tag_lvl'[i] = IF i = f THEN taken ELSE tag_lvl[i]
      BY <1>3, <1>4, <1>7, <2>1
    <3>. QED
      BY <1>4, <1>5, <1>7, <3>1 DEF FilterInv
  <2>3. /\ asked' \in [Tags -> Filter!Levels] /\ asked'[s] = level
        /\ \A u \in Tags : u # s => asked'[u] = asked[u]
    BY <1>1, <1>4, <1>7 DEF FilterInv
  <2>4. \A i \in 1 .. Slots : tag_lvl[i].used => tag_lvl[i].tag # s /\ i # f
    BY <1>2, <1>7, <2>1
  <2>5. \A i \in 1 .. Slots : tag_lvl'[i].used =>
         /\ tag_lvl'[i].tag \in Tags /\ Short(tag_lvl'[i].tag) = tag_lvl'[i].tag
         /\ tag_lvl'[i].level # Filter!ALL /\ tag_lvl'[i].level = asked'[tag_lvl'[i].tag]
    BY <1>1, <1>5, <1>7, <2>2, <2>3, <2>4 DEF FilterInv
  <2>6. \A i, j \in 1 .. Slots :
          tag_lvl'[i].used /\ tag_lvl'[j].used /\ tag_lvl'[i].tag = tag_lvl'[j].tag => i = j
    BY <1>5, <2>2, <2>4 DEF FilterInv
  <2>7. ASSUME NEW u \in Tags, Short(u) = u, asked'[u] # Filter!ALL
        PROVE  \E i \in 1 .. Slots : tag_lvl'[i].used /\ tag_lvl'[i].tag = u
    <3>1. CASE u = s
      BY <1>5, <2>2, <3>1
    <3>2. CASE u # s
      <4>1. PICK i \in 1 .. Slots : tag_lvl[i].used /\ tag_lvl[i].tag = u
        BY <2>3, <2>7, <3>2 DEF FilterInv
      <4>. QED
        BY <2>2, <2>4, <4>1
    <3>. QED
      BY <3>1, <3>2
  <2>. QED
    BY <1>4, <2>2, <2>3, <2>5, <2>6, <2>7 DEF FilterInv
<1>8. CASE mine # {}
  <2>1. PICK m \in 1 .. Slots : m \in mine /\ tag_lvl[m].used /\ tag_lvl[m].tag = s
    BY <1>2, <1>8
  <2> DEFINE changed == IF level = Filter!ALL THEN Filter!Unused
                        ELSE [tag_lvl[m] EXCEPT !.level = level]
  <2>2. /\ changed \in Entry
        /\ changed.used => level # Filter!ALL /\ changed.tag = s /\ changed.level = level
        /\ level # Filter!ALL => changed.used
    <3>1. tag_lvl[m] \in Entry
      BY DEF FilterInv
    <3>2. [tag_lvl[m] EXCEPT !.level = level] \in Entry
      BY <3>1 DEF Entry
    <3>. QED
      BY <1>5, <2>1, <3>1, <3>2 DEF Entry
  <2>3. /\ tag_lvl' \in [1 .. Slots -> Entry] /\ tag_lvl'[m] = changed
        /\ \A i \in 1 .. Slots : i # m => tag_lvl'[i] = tag_lvl[i]
    <3>1. \A i \in 1 .. Slots : tag_lvl'[i] = IF i = m THEN changed ELSE tag_lvl[i]
      BY <1>2, <1>4, <1>8, <2>1
    <3> HIDE DEF changed
    <3>2. tag_lvl' = [i \in 1 .. Slots |-> IF i = m THEN changed ELSE tag_lvl[i]]
      BY <1>4, <3>1
    <3>. QED
      BY <2>2, <3>2 DEF FilterInv
  <2>4. /\ asked' \in [Tags -> Filter!Levels] /\ asked'[s] = level
        /\ \A u \in Tags : u # s => asked'[u] = asked[u]
    BY <1>1, <1>4, <1>8 DEF FilterInv
  <2>5. \A i \in 1 .. Slots : tag_lvl[i].used /\ i # m => tag_lvl[i].tag # s
    BY <1>2, <2>1
  <2> HIDE DEF changed
  <2>6. \A i \in 1 .. Slots : tag_lvl'[i].used =>
         /\ tag_lvl'[i].tag \in Tags /\ Short(tag_lvl'[i].tag) = tag_lvl'[i].tag
         /\ tag_lvl'[i].level # Filter!ALL /\ tag_lvl'[i].level = asked'[tag_lvl'[i].tag]
    BY <1>1, <2>2, <2>3, <2>4, <2>5 DEF FilterInv
  <2>7. \A i, j \in 1 .. Slots :
          tag_lvl'[i].used /\ tag_lvl'[j].used /\ tag_lvl'[i].tag = tag_lvl'[j].tag => i = j
    BY <2>2, <2>3, <2>5 DEF FilterInv
  <2>8. ASSUME NEW u \in Tags, Short(u) = u, asked'[u] # Filter!ALL
        PROVE  \E i \in 1 .. Slots : tag_lvl'[i].used /\ tag_lvl'[i].tag = u
    <3>1. CASE u = s
      BY <2>2, <2>3, <2>4, <2>8, <3>1
    <3>2. CASE u # s
      <4>1. PICK i \in 1 .. Slots : tag_lvl[i].used /\ tag_lvl[i].tag = u
        BY <2>4, <2>8, <3>2 DEF FilterInv
      <4>2. i # m
        BY <2>1, <3>2, <4>1
      <4>. QED
        BY <2>3, <4>1, <4>2
    <3>. QED
      BY <3>1, <3>2
  <2>. QED
    BY <1>4, <2>3, <2>4, <2>6, <2>7, <2>8 DEF FilterInv
<1>. QED
  BY <1>6, <1>7, <1>8

LEMMA FilterInvStep ==
  ASSUME Filter!ElogFilterAssumption
  PROVE  FilterInv /\ [Filter!Next]_Filter!vars => FilterInv'
<1> SUFFICES ASSUME FilterInv, [Filter!Next]_Filter!vars
             PROVE  FilterInv'
  OBVIOUS
<1>1. CASE Filter!ElogInit
  BY <1>1 DEF Filter!ElogInit, FilterInv, Entry, Filter!Levels, Filter!Unused, Filter!SILENT,
     Filter!ALL
<1>2. CASE Filter!ElogDeinit
  BY <1>2 DEF Filter!ElogDeinit, FilterInv
<1>3. ASSUME NEW level \in Filter!Levels, Filter!SetLevel(level)
      PROVE  FilterInv'
  BY <1>3 DEF Filter!SetLevel, FilterInv
<1>4. ASSUME NEW on \in BOOLEAN, Filter!SetOutputEnabled(on)
      PROVE  FilterInv'
  BY <1>4 DEF Filter!SetOutputEnabled, FilterInv
<1>5. ASSUME NEW tag \in Tags \cup {NoTag}, Filter!SetTag(tag)
      PROVE  FilterInv'
  BY <1>5 DEF Filter!SetTag, FilterInv
<1>6. ASSUME NEW level \in Filter!Levels, NEW tag \in Tags \cup {NoTag},
             Filter!SetFilter(level, tag)
      PROVE  FilterInv'
  BY <1>6 DEF Filter!SetFilter, FilterInv
<1>7. CASE UNCHANGED Filter!vars
  BY <1>7 DEF Filter!vars, FilterInv
<1>. QED
  BY <1>1, <1>2, <1>3, <1>4, <1>5, <1>6, <1>7, SetTagLevelKeeps DEF Filter!Next

(* What the filters have for a tag is what was last asked for it.          *)
LEMMA TagLevelAsked ==
  ASSUME Filter!ElogFilterAssumption, FilterInv, init_ok, NEW t \in Tags
  PROVE  Filter!TagLevel(t) = asked[Short(t)]
<1> DEFINE l0 == asked[Short(t)]
           Is(l) == IF Filter!SlotOf(t) = {} THEN l = Filter!ALL
                    ELSE \E i \in Filter!SlotOf(t) : l = tag_lvl[i].level
<1>1. Short(t) \in Tags /\ Short(Short(t)) = Short(t) /\ l0 \in Filter!Levels
  BY DEF Filter!ElogFilterAssumption, FilterInv
<1>2. l0 \in 0 .. Filter!ALL
  BY <1>1 DEF Filter!Levels, Filter!ALL, Filter!SILENT
<1>3. \A i \in Filter!SlotOf(t) : i \in 1 .. Slots
  BY DEF Filter!SlotOf, Filter!First
<1>4. \A i \in Filter!SlotOf(t) : tag_lvl[i].level = l0
  BY <1>3, SlotOfTag DEF FilterInv
<1>5. Filter!SlotOf(t) = {} => l0 = Filter!ALL
  BY <1>1, SlotOfTag DEF FilterInv
<1> HIDE DEF l0
<1>6. Is(l0) /\ \A l \in 0 .. Filter!ALL : Is(l) => l = l0
  BY <1>4, <1>5
<1>7. Filter!TagLevel(t) = CHOOSE l \in 0 .. Filter!ALL : Is(l)
  BY Zenon DEF Filter!TagLevel
<1> HIDE DEF Is
<1>. QED
  BY <1>2, <1>6, <1>7, Zenon DEF l0

LEMMA FilterCardinality ==
  ASSUME NEW S
  PROVE  Filter!Cardinality(S) = Cardinality(S)
BY Zenon DEF Filter!Cardinality, Cardinality

(* A log gets past the head of elog_output exactly if there is output, its *)
(* level is let by the one for all logs and the one last asked for its     *)
(* tag, and the tag for all logs is found in its own; and no slot is lost  *)
(* (elog.c:425-500, 576-585).                                              *)
THEOREM FilterAsAskedHolds ==
  ASSUME Filter!ElogFilterAssumption
  PROVE  Filter!Spec => []FilterAsAsked
<1>1. ASSUME FilterInv, init_ok
      PROVE  Filter!FilterAsAsked
  <2> DEFINE slots == {i \in 1 .. Slots : tag_lvl[i].used}
             tags == {t \in Tags : Short(t) = t /\ asked[t] # Filter!ALL}
             tagOf == [i \in slots |-> tag_lvl[i].tag]
  <2>1. tagOf \in Bijection(slots, tags)
    <3>1. tagOf \in [slots -> tags]
      BY <1>1 DEF FilterInv
    <3>2. \A i, j \in slots : tagOf[i] = tagOf[j] => i = j
      BY <1>1 DEF FilterInv
    <3>3. \A t \in tags : \E i \in slots : tagOf[i] = t
      BY <1>1 DEF FilterInv
    <3> HIDE DEF tagOf, slots, tags
    <3>. QED
      BY <3>1, <3>2, <3>3 DEF Bijection, Injection, Surjection, IsInjective
  <2>2. IsFiniteSet(slots)
    <3>1. IsFiniteSet(1 .. Slots)
      BY FS_Interval DEF Filter!ElogFilterAssumption
    <3>. QED
      BY <3>1, FS_Subset
  <2> HIDE DEF tagOf
  <2>3. Cardinality(tags) = Cardinality(slots)
    BY <2>1, <2>2, FS_Bijection, Zenon DEF ExistsBijection
  <2>4. Filter!Cardinality(slots) = Filter!Cardinality(tags)
    BY <2>3, FilterCardinality
  <2>5. ASSUME NEW t \in Tags, NEW level \in Filter!Levels
        PROVE  Filter!Passes(t, level) <=>
                   /\ filter_output
                   /\ level <= filter_level /\ level <= asked[Short(t)]
                   /\ Strstr(t, filter_tag)
    <3>1. Filter!TagLevel(t) = asked[Short(t)]
      BY <1>1, TagLevelAsked
    <3>. QED
      BY <3>1, Zenon DEF Filter!Passes
  <2>. QED
    BY <2>4, <2>5, Zenon DEF Filter!FilterAsAsked
<1>2. ASSUME FilterInv
      PROVE  Filter!FilterAsAsked
  BY <1>1, <1>2, Zenon DEF Filter!FilterAsAsked
<1>. QED
  BY <1>2, FilterInvInit, FilterInvStep, PTL DEF Filter!Spec, FilterAsAsked
---------------------------------------------------------------------------
(* Buffered output.                                                        *)
LEMMA DivMod ==
  ASSUME NEW n \in Nat, NEW d \in Nat \ {0}
  PROVE  /\ n \div d \in Nat
         /\ n % d \in 0 .. d - 1
         /\ n = (n \div d) * d + (n % d)
<1>1. n \div d \in Int /\ n % d \in 0 .. d - 1 /\ n = d * (n \div d) + (n % d)
  OBVIOUS
<1>2. ASSUME NEW q \in Int, NEW r \in 0 .. d - 1, n = d * q + r
      PROVE  q \in Nat /\ n = q * d + r
  <2>1. CASE q < 0
    <3>1. d * q <= d * (-1)
      BY <2>1
    <3>. QED
      BY <1>2, <3>1
  <2>. QED
    BY <1>2, <2>1
<1>. QED
  BY <1>1, <1>2

(* What was printed and what is buffered: elog_flush has printed the       *)
(* buffer already when it resets it.                                       *)
Seen == IF flush = "reset" THEN printed ELSE printed \o buffered
Elements(s) == {s[k] : k \in 1 .. Len(s)}

BufInv ==
    /\ logged \in Nat /\ buf_enabled \in BOOLEAN /\ switched \in BOOLEAN
    /\ flush \in {"none", "lock", "reset"}
    /\ printed \in Seq(Nat) /\ buffered \in Seq(Nat)
    /\ Len(Seen) = logged /\ Elements(Seen) = 1 .. logged
    /\ ~ switched => /\ buf_enabled \/ buffered = <<>>
                     /\ \A k \in 1 .. Len(Seen) : Seen[k] = k

(* What is in two sequences is in both together.                           *)
LEMMA ElementsOfBoth ==
  ASSUME NEW s \in Seq(Nat), NEW t \in Seq(Nat)
  PROVE  /\ s \o t \in Seq(Nat) /\ Len(s \o t) = Len(s) + Len(t)
         /\ Elements(s \o t) = Elements(s) \cup Elements(t)
<1>1. s \o t \in Seq(Nat) /\ Len(s \o t) = Len(s) + Len(t)
  OBVIOUS
<1>2. \A k \in 1 .. Len(s) + Len(t) :
        (s \o t)[k] = IF k <= Len(s) THEN s[k] ELSE t[k - Len(s)]
  OBVIOUS
<1>3. ASSUME NEW k \in 1 .. Len(s \o t)
      PROVE  (s \o t)[k] \in Elements(s) \cup Elements(t)
  <2>1. CASE k <= Len(s)
    <3>1. k \in 1 .. Len(s) /\ (s \o t)[k] = s[k]
      BY <1>1, <1>2, <2>1
    <3>. QED
      BY <3>1 DEF Elements
  <2>2. CASE ~ (k <= Len(s))
    <3>1. k - Len(s) \in 1 .. Len(t) /\ (s \o t)[k] = t[k - Len(s)]
      BY <1>1, <1>2, <2>2
    <3>. QED
      BY <3>1 DEF Elements
  <2>. QED
    BY <2>1, <2>2
<1>4. ASSUME NEW k \in 1 .. Len(s)
      PROVE  s[k] \in Elements(s \o t)
  <2>1. k \in 1 .. Len(s \o t) /\ (s \o t)[k] = s[k]
    BY <1>1, <1>2
  <2>. QED
    BY <2>1 DEF Elements
<1>5. ASSUME NEW k \in 1 .. Len(t)
      PROVE  t[k] \in Elements(s \o t)
  <2>1. k + Len(s) \in 1 .. Len(s \o t) /\ (s \o t)[k + Len(s)] = t[k]
    BY <1>1, <1>2
  <2>. QED
    BY <2>1 DEF Elements
<1>. QED
  BY <1>1, <1>3, <1>4, <1>5 DEF Elements

(* Three sequences may be put together in either order.                    *)
LEMMA InAnyOrder ==
  ASSUME NEW s \in Seq(Nat), NEW t \in Seq(Nat), NEW u \in Seq(Nat)
  PROVE  (s \o t) \o u = s \o (t \o u)
BY ConcatAssociative, SMTT(30)

(* The bytes of a log are the next numbers.                                *)
LEMMA BytesAreNext ==
  ASSUME logged \in Nat, NEW bytes \in Nat
  PROVE  /\ Buf!Bytes(bytes) \in Seq(Nat) /\ Len(Buf!Bytes(bytes)) = bytes
         /\ \A k \in 1 .. bytes : Buf!Bytes(bytes)[k] = logged + k
         /\ (1 .. logged) \cup Elements(Buf!Bytes(bytes)) = 1 .. logged + bytes
<1>1. Buf!Bytes(bytes) = [k \in 1 .. bytes |-> logged + k]
  BY DEF Buf!Bytes
<1>2. Buf!Bytes(bytes) \in Seq(Nat) /\ Len(Buf!Bytes(bytes)) = bytes
  BY <1>1
<1>3. \A k \in 1 .. bytes : Buf!Bytes(bytes)[k] = logged + k
  BY <1>1
<1>4. ASSUME NEW x \in logged + 1 .. logged + bytes
      PROVE  x \in Elements(Buf!Bytes(bytes))
  <2>1. x - logged \in 1 .. bytes /\ Buf!Bytes(bytes)[x - logged] = x
    BY <1>3
  <2>. QED
    BY <1>2, <2>1 DEF Elements
<1>5. Elements(Buf!Bytes(bytes)) = logged + 1 .. logged + bytes
  BY <1>2, <1>3, <1>4 DEF Elements
<1>. QED
  BY <1>2, <1>3, <1>5

(* Whole buffers that go out and what stays are all that there was.        *)
LEMMA CutAnywhere ==
  ASSUME NEW s \in Seq(Nat), NEW n \in 0 .. Len(s)
  PROVE  /\ SubSeq(s, 1, n) \in Seq(Nat) /\ SubSeq(s, n + 1, Len(s)) \in Seq(Nat)
         /\ SubSeq(s, 1, n) \o SubSeq(s, n + 1, Len(s)) = s
<1>1. Len(s) \in Nat /\ \A i \in 1 .. Len(s) : s[i] \in Nat
  OBVIOUS
<1>2. SubSeq(s, 1, n) \in Seq(Nat) /\ SubSeq(s, n + 1, Len(s)) \in Seq(Nat)
  <2>1. \A i \in 1 .. n : s[i] \in Nat
    BY <1>1
  <2>2. \A i \in n + 1 .. Len(s) : s[i] \in Nat
    BY <1>1
  <2>3. 1 \in Int /\ n \in Int /\ n + 1 \in Int /\ Len(s) \in Int
    BY <1>1
  <2>. QED
    BY <2>1, <2>2, <2>3, SubSeqProperties, Zenon
<1>3. SubSeq(s, 1, n) \o SubSeq(s, n + 1, Len(s)) = SubSeq(s, 1, Len(s))
  <2>1. 1 \in 1 .. Len(s) + 1 /\ n \in 1 - 1 .. Len(s) /\ Len(s) \in n .. Len(s)
    BY <1>1
  <2>. QED
    BY <2>1, ConcatAdjacentSubSeq, Zenon
<1>4. SubSeq(s, 1, Len(s)) = s
  BY SubSeqFull
<1>. QED
  BY <1>2, <1>3, <1>4, Zenon

LEMMA BufInvInit == Buf!Init => BufInv
<1> SUFFICES ASSUME Buf!Init
             PROVE  BufInv
  OBVIOUS
<1>1. Seen = <<>>
  BY DEF Buf!Init, Seen
<1>2. Elements(<<>>) = 1 .. 0 /\ Len(<<>>) = 0 /\ <<>> \in Seq(Nat)
  BY DEF Elements
<1>3. /\ logged = 0 /\ buf_enabled = FALSE /\ switched = FALSE /\ flush = "none"
      /\ printed = <<>> /\ buffered = <<>>
  BY DEF Buf!Init
<1>4. Len(Seen) = logged /\ Elements(Seen) = 1 .. logged /\ logged \in Nat
  BY <1>1, <1>2, <1>3
<1>5. \A k \in 1 .. Len(Seen) : Seen[k] = k
  BY <1>1, <1>2
<1>. QED
  BY <1>2, <1>3, <1>4, <1>5 DEF BufInv

(* What is seen of, when a log comes after it or between its parts.        *)
LEMMA BufOutput ==
  ASSUME Buf!ElogBufAssumption, BufInv, NEW bytes \in BufSizes, Buf!Output(bytes)
  PROVE  BufInv'
<1> DEFINE new == Buf!Bytes(bytes)
           all == buffered \o new
           out == IF all = <<>> THEN 0 ELSE BufSize * ((Len(all) - 1) \div BufSize)
<1>1. /\ bytes \in Nat /\ BufSize \in Nat \ {0} /\ logged \in Nat
      /\ printed \in Seq(Nat) /\ buffered \in Seq(Nat)
  BY DEF Buf!ElogBufAssumption, BufInv
<1>2. /\ flush # "reset" /\ logged' = logged + bytes
      /\ UNCHANGED <<buf_enabled, flush, switched>>
      /\ IF buf_enabled
         THEN /\ printed' = printed \o SubSeq(all, 1, out)
               /\ buffered' = SubSeq(all, out + 1, Len(all))
         ELSE printed' = printed \o new /\ buffered' = buffered
  BY Zenon DEF Buf!Output
<1>3. new \in Seq(Nat) /\ Len(new) = bytes /\ \A k \in 1 .. bytes : new[k] = logged + k
  BY <1>1, BytesAreNext
<1>4. all \in Seq(Nat)
  BY <1>1, <1>3, ElementsOfBoth
<1>5. out \in 0 .. Len(all)
  <2>1. CASE all = <<>>
    BY <2>1
  <2>2. CASE all # <<>>
    <3>1. Len(all) \in Nat \ {0}
      BY <1>4, <2>2
    <3> HIDE DEF all
    <3> DEFINE l == Len(all) - 1
    <3>2. l \in Nat
      BY <3>1
    <3> HIDE DEF l
    <3>3. /\ l \div BufSize \in Int /\ l % BufSize \in 0 .. BufSize - 1
          /\ l = BufSize * (l \div BufSize) + (l % BufSize)
      BY <1>1, <3>2
    <3>4. l \div BufSize \in Nat
      BY <1>1, <3>2, <3>3, DivMod
    <3>5. BufSize * (l \div BufSize) \in 0 .. l
      BY <1>1, <3>2, <3>3, <3>4
    <3>. QED
      BY <2>2, <3>1, <3>5 DEF l
  <2>. QED
    BY <2>1, <2>2
<1> HIDE DEF all, out, new
<1> DEFINE a == SubSeq(all, 1, out)
           b == SubSeq(all, out + 1, Len(all))
<1>6. a \in Seq(Nat) /\ b \in Seq(Nat) /\ a \o b = all
  BY <1>4, <1>5, CutAnywhere
<1> HIDE DEF a, b
<1>7. Seen = printed \o buffered /\ Seen' = printed' \o buffered'
  BY <1>2 DEF Seen
<1>8. printed' \in Seq(Nat) /\ buffered' \in Seq(Nat)
  <2>1. CASE buf_enabled
    <3>1. printed' = printed \o a /\ buffered' = b
      BY <1>2, <2>1 DEF a, b
    <3>. QED
      BY <1>1, <1>6, <3>1, ElementsOfBoth
  <2>2. CASE ~ buf_enabled
    BY <1>1, <1>2, <1>3, <2>2, ElementsOfBoth
  <2>. QED
    BY <2>1, <2>2
<1>9. Seen' = Seen \o new \/ (~ buf_enabled /\ Seen' = (printed \o new) \o buffered)
  <2>1. CASE buf_enabled
    <3>1. printed' = printed \o a /\ buffered' = b
      BY <1>2, <2>1 DEF a, b
    <3>2. Seen' = (printed \o a) \o b
      BY <1>7, <3>1, Zenon
    <3>3. (printed \o a) \o b = printed \o (a \o b)
      <4>1. printed \in Seq(Nat) /\ a \in Seq(Nat) /\ b \in Seq(Nat)
        BY <1>1, <1>6
      <4>. QED
        BY <4>1, InAnyOrder
    <3>4. printed \o (buffered \o new) = (printed \o buffered) \o new
      <4>1. printed \in Seq(Nat) /\ buffered \in Seq(Nat) /\ new \in Seq(Nat)
        BY <1>1, <1>3
      <4>. QED
        BY <4>1, InAnyOrder
    <3>. QED
      BY <1>6, <1>7, <3>2, <3>3, <3>4 DEF all
  <2>2. CASE ~ buf_enabled
    BY <1>2, <1>7, <2>2, Zenon
  <2>. QED
    BY <2>1, <2>2
<1>10. (1 .. logged) \cup Elements(new) = 1 .. logged + bytes
  BY <1>1, BytesAreNext DEF new
<1>11. Len(Seen) = logged /\ Elements(Seen) = 1 .. logged
  BY DEF BufInv
<1>12. Len(Seen') = logged' /\ Elements(Seen') = 1 .. logged'
  <2>1. /\ Len(Seen) = Len(printed) + Len(buffered) /\ Seen \in Seq(Nat)
        /\ Elements(Seen) = Elements(printed) \cup Elements(buffered)
    BY <1>1, <1>7, ElementsOfBoth
  <2>2. CASE Seen' = Seen \o new
    <3>1. Len(Seen') = Len(Seen) + bytes /\ Elements(Seen') = Elements(Seen) \cup Elements(new)
      BY <1>3, <2>1, <2>2, ElementsOfBoth
    <3>. QED
      BY <1>2, <1>10, <1>11, <3>1
  <2>3. CASE Seen' = (printed \o new) \o buffered
    <3>1. /\ printed \o new \in Seq(Nat) /\ Len(printed \o new) = Len(printed) + bytes
          /\ Elements(printed \o new) = Elements(printed) \cup Elements(new)
      BY <1>1, <1>3, ElementsOfBoth
    <3>2. /\ Len(Seen') = Len(printed \o new) + Len(buffered)
          /\ Elements(Seen') = Elements(printed \o new) \cup Elements(buffered)
      BY <1>1, <2>3, <3>1, ElementsOfBoth
    <3>3. Elements(Seen') = Elements(Seen) \cup Elements(new)
      BY <2>1, <3>1, <3>2
    <3>4. Len(Seen') = Len(Seen) + bytes
      BY <1>1, <2>1, <3>1, <3>2
    <3>. QED
      BY <1>2, <1>10, <1>11, <3>3, <3>4
  <2>. QED
    BY <1>9, <2>2, <2>3
<1>13. ~ switched => \A k \in 1 .. Len(Seen') : Seen'[k] = k
  <2>1. SUFFICES ASSUME ~ switched
                 PROVE  \A k \in 1 .. Len(Seen') : Seen'[k] = k
    OBVIOUS
  <2>2. (buf_enabled \/ buffered = <<>>) /\ \A k \in 1 .. Len(Seen) : Seen[k] = k
    BY <2>1 DEF BufInv
  <2>3. Seen' = Seen \o new
    <3>1. CASE buffered = <<>>
      <4>1. printed \o buffered = printed /\ printed \o new \in Seq(Nat)
        BY <1>1, <1>3, <3>1, ConcatEmptySeq, ElementsOfBoth
      <4>2. (printed \o new) \o buffered = printed \o new
        BY <3>1, <4>1, ConcatEmptySeq
      <4>. QED
        BY <1>7, <1>9, <4>1, <4>2
    <3>. QED
      BY <1>9, <2>2, <3>1
  <2>4. Seen \in Seq(Nat)
    BY <1>1, <1>7, ElementsOfBoth
  <2>5. /\ Len(Seen \o new) = Len(Seen) + bytes
        /\ \A k \in 1 .. Len(Seen) + bytes :
             (Seen \o new)[k] = IF k <= Len(Seen) THEN Seen[k] ELSE new[k - Len(Seen)]
    BY <1>3, <2>4, ConcatProperties
  <2> SUFFICES ASSUME NEW k \in 1 .. logged + bytes
               PROVE  (Seen \o new)[k] = k
    BY <1>11, <2>3, <2>5
  <2>6. CASE k <= logged
    BY <1>1, <1>11, <2>2, <2>5, <2>6
  <2>7. CASE k > logged
    <3>1. k - logged \in 1 .. bytes /\ ~ (k <= logged)
      BY <1>1, <2>7
    <3>2. (Seen \o new)[k] = new[k - logged]
      BY <1>11, <2>5, <3>1
    <3>3. new[k - logged] = logged + (k - logged)
      BY <1>3, <3>1
    <3>. QED
      BY <1>1, <3>2, <3>3
  <2>8. k <= logged \/ k > logged
    BY <1>1
  <2>. QED
    BY <2>6, <2>7, <2>8
<1>14. ~ switched => buf_enabled \/ buffered' = <<>>
  BY <1>2 DEF BufInv
<1>. QED
  BY <1>1, <1>2, <1>8, <1>12, <1>13, <1>14 DEF BufInv

LEMMA BufInvStep ==
  ASSUME Buf!ElogBufAssumption
  PROVE  BufInv /\ [Buf!Next]_Buf!vars => BufInv'
<1> SUFFICES ASSUME BufInv, [Buf!Next]_Buf!vars
             PROVE  BufInv'
  OBVIOUS
<1>1. printed \in Seq(Nat) /\ buffered \in Seq(Nat) /\ printed \o buffered \in Seq(Nat)
  BY ElementsOfBoth DEF BufInv
(* No other step changes what is seen.                                     *)
<1>2. ASSUME Seen' = Seen, logged' = logged, printed' \in Seq(Nat), buffered' \in Seq(Nat),
             flush' \in {"none", "lock", "reset"}, buf_enabled' \in BOOLEAN, switched' \in BOOLEAN,
             ~ switched' => ~ switched /\ (buf_enabled' \/ buffered' = <<>>)
      PROVE  BufInv'
  BY <1>2 DEF BufInv
<1>3. CASE \E bytes \in BufSizes : Buf!Output(bytes)
  BY <1>3, BufOutput
<1>4. CASE Buf!FlushTest
  <2>1. Seen' = Seen
    BY <1>4 DEF Buf!FlushTest, Seen
  <2>. QED
    BY <1>2, <1>4, <2>1 DEF Buf!FlushTest, BufInv
<1>5. CASE Buf!FlushPrint
  <2>1. Seen' = Seen
    BY <1>5 DEF Buf!FlushPrint, Seen
  <2>2. printed' \in Seq(Nat)
    BY <1>1, <1>5 DEF Buf!FlushPrint
  <2>. QED
    BY <1>2, <1>5, <2>1, <2>2 DEF Buf!FlushPrint, BufInv
<1>6. CASE Buf!FlushReset
  <2>1. flush = "reset" /\ flush' = "none" /\ buffered' = <<>> /\ printed' = printed
    BY <1>6 DEF Buf!FlushReset, BufInv
  <2>2. Seen' = printed \o <<>> /\ Seen = printed
    BY <2>1 DEF Seen
  <2>3. Seen' = Seen
    BY <1>1, <2>2, ConcatEmptySeq
  <2>. QED
    BY <1>2, <1>6, <2>1, <2>3 DEF Buf!FlushReset, BufInv
<1>7. ASSUME NEW on \in BOOLEAN, Buf!BufEnabled(on)
      PROVE  BufInv'
  <2>1. Seen' = Seen
    BY <1>7 DEF Buf!BufEnabled, Seen
  <2>2. switched' \in BOOLEAN /\ buf_enabled' \in BOOLEAN
    BY <1>7 DEF Buf!BufEnabled
  <2>. QED
    BY <1>2, <1>7, <2>1, <2>2 DEF Buf!BufEnabled, BufInv
<1>8. CASE UNCHANGED Buf!vars
  BY <1>8 DEF Buf!vars, BufInv, Seen
<1>. QED
  BY <1>3, <1>4, <1>5, <1>6, <1>7, <1>8 DEF Buf!Next

(* Every byte is printed or buffered once, and in order unless the mode    *)
(* was switched off with logs in the buffer.                               *)
THEOREM PrintedOnceHolds ==
  ASSUME Buf!ElogBufAssumption
  PROVE  Buf!Spec => []PrintedOnce
<1>1. BufInv => Buf!PrintedOnce
  BY DEF BufInv, Buf!PrintedOnce, Seen, Elements
<1>. QED
  BY <1>1, BufInvInit, BufInvStep, PTL DEF Buf!Spec, PrintedOnce
---------------------------------------------------------------------------
(* The flash plugin.                                                       *)

(* A number that is written with a quotient and a remainder has these.     *)
LEMMA DivModIs ==
  ASSUME NEW d \in Nat \ {0}, NEW q \in Nat, NEW r \in 0 .. d - 1
  PROVE  (q * d + r) \div d = q /\ (q * d + r) % d = r
<1> DEFINE n == q * d + r
<1>1. q * d \in Nat
  OBVIOUS
<1>2. n \in Nat
  BY <1>1
<1>3. PICK p \in Nat, m \in 0 .. d - 1 : p = n \div d /\ m = n % d /\ n = p * d + m
  BY <1>2, DivMod
<1>4. ASSUME NEW x \in Nat, NEW y \in Nat, x < y
      PROVE  y * d >= x * d + d
  <2>1. PICK z \in Nat : y = x + 1 + z
    <3>1. y - x - 1 \in Nat /\ y = x + 1 + (y - x - 1)
      BY <1>4
    <3>. QED
      BY <3>1
  <2>2. y * d = x * d + d + z * d /\ z * d \in Nat /\ x * d \in Nat
    BY <2>1
  <2>. QED
    BY <2>2
<1>5. ~ (p < q)
  <2>1. p < q => q * d >= p * d + d
    BY <1>4
  <2>2. p * d \in Nat
    OBVIOUS
  <2>. QED
    BY <1>1, <1>3, <2>1, <2>2
<1>6. ~ (q < p)
  <2>1. q < p => p * d >= q * d + d
    BY <1>4
  <2>2. p * d \in Nat
    OBVIOUS
  <2>. QED
    BY <1>1, <1>3, <2>1, <2>2
<1>7. p = q
  BY <1>5, <1>6
<1>8. m = r
  BY <1>1, <1>3, <1>7
<1>. QED
  BY <1>3, <1>7, <1>8

(* A remainder is not changed by whole words before.                       *)
LEMMA ModAfterWords ==
  ASSUME NEW d \in Nat \ {0}, NEW m \in Nat, m % d = 0, NEW n \in Nat
  PROVE  (m + n) % d = n % d
<1>1. PICK a \in Nat : m = a * d
  <2>1. PICK q \in Nat : m = q * d + (m % d)
    BY DivMod
  <2>2. q * d \in Nat
    OBVIOUS
  <2>. QED
    BY <2>1, <2>2
<1>2. PICK b \in Nat, r \in 0 .. d - 1 : n = b * d + r
  <2>1. n \div d \in Nat /\ n % d \in 0 .. d - 1 /\ n = (n \div d) * d + (n % d)
    BY DivMod
  <2>. QED
    BY <2>1
<1>3. m + n = (a + b) * d + r
  BY <1>1, <1>2
<1>4. a + b \in Nat
  OBVIOUS
<1>5. ((a + b) * d + r) % d = r
  BY <1>4, DivModIs
<1>6. (b * d + r) % d = r
  BY DivModIs
<1>. QED
  BY <1>2, <1>3, <1>5, <1>6

Pad == Flash!Pad
Log == (Writers \cup {Nobody}) \X Nat

(* InOrder of a writer that has put so many bytes in the buffer.           *)
Ordered(s, put, w) ==
    \A j \in 1 .. Len(s) : s[j][1] = w =>
        /\ s[j][2] \in 1 .. put
        /\ \A k \in j + 1 .. Len(s) : s[k][1] = w => s[j][2] < s[k][2]
        /\ \A n \in s[j][2] .. put : \E k \in j .. Len(s) : s[k] = <<w, n>>

LEMMA BothParts ==
  ASSUME NEW s \in Seq(Log), NEW t \in Seq(Log)
  PROVE  /\ Len(s) \in Nat /\ Len(t) \in Nat
         /\ s \o t \in Seq(Log) /\ Len(s \o t) = Len(s) + Len(t)
         /\ \A k \in 1 .. Len(s) : k \in 1 .. Len(s \o t) /\ (s \o t)[k] = s[k]
         /\ \A k \in 1 .. Len(t) : Len(s) + k \in 1 .. Len(s \o t) /\ (s \o t)[Len(s) + k] = t[k]
         /\ \A k \in 1 .. Len(s \o t) :
              k \in 1 .. Len(s) \/ \E i \in 1 .. Len(t) : k = Len(s) + i
<1>1. s \o t \in Seq(Log) /\ Len(s \o t) = Len(s) + Len(t) /\ Len(s) \in Nat /\ Len(t) \in Nat
  OBVIOUS
<1>2. \A k \in 1 .. Len(s) + Len(t) :
        (s \o t)[k] = IF k <= Len(s) THEN s[k] ELSE t[k - Len(s)]
  OBVIOUS
<1>3. \A k \in 1 .. Len(s) : k \in 1 .. Len(s \o t) /\ (s \o t)[k] = s[k]
  BY <1>1, <1>2
<1>4. ASSUME NEW k \in 1 .. Len(t)
      PROVE  Len(s) + k \in 1 .. Len(s \o t) /\ (s \o t)[Len(s) + k] = t[k]
  <2>1. Len(s) + k \in 1 .. Len(s) + Len(t) /\ ~ (Len(s) + k <= Len(s)) /\ Len(s) + k - Len(s) = k
    BY <1>1
  <2>. QED
    BY <1>1, <1>2, <2>1
<1>5. ASSUME NEW k \in 1 .. Len(s \o t), k \notin 1 .. Len(s)
      PROVE  \E i \in 1 .. Len(t) : k = Len(s) + i
  <2>1. k - Len(s) \in 1 .. Len(t) /\ k = Len(s) + (k - Len(s))
    BY <1>1, <1>5
  <2>. QED
    BY <2>1
<1>. QED
  BY <1>1, <1>3, <1>4, <1>5

(* What others and padding add does not disturb the order of a writer.     *)
LEMMA OthersAdd ==
  ASSUME NEW s \in Seq(Log), NEW t \in Seq(Log), NEW put \in Nat, NEW w \in Writers,
         Ordered(s, put, w), \A k \in 1 .. Len(t) : t[k][1] # w
  PROVE  Ordered(s \o t, put, w)
<1> DEFINE u == s \o t
<1>1. /\ Len(u) = Len(s) + Len(t) /\ Len(s) \in Nat /\ Len(t) \in Nat
      /\ \A k \in 1 .. Len(s) : k \in 1 .. Len(u) /\ u[k] = s[k]
      /\ \A k \in 1 .. Len(t) : Len(s) + k \in 1 .. Len(u) /\ u[Len(s) + k] = t[k]
      /\ \A k \in 1 .. Len(u) : k \in 1 .. Len(s) \/ \E i \in 1 .. Len(t) : k = Len(s) + i
  BY BothParts, Zenon
<1> HIDE DEF u
<1>2. \A k \in 1 .. Len(u) : u[k][1] = w => k \in 1 .. Len(s)
  <2>1. ASSUME NEW i \in 1 .. Len(t)
        PROVE  u[Len(s) + i][1] # w
    BY <1>1
  <2>2. ASSUME NEW k \in 1 .. Len(u), k \notin 1 .. Len(s)
        PROVE  u[k][1] # w
    <3>1. PICK i \in 1 .. Len(t) : k = Len(s) + i
      BY <1>1, <2>2
    <3>. QED
      BY <2>1, <3>1
  <2>. QED
    BY <2>2
<1>3. ASSUME NEW j \in 1 .. Len(u), u[j][1] = w
      PROVE  /\ u[j][2] \in 1 .. put
             /\ \A k \in j + 1 .. Len(u) : u[k][1] = w => u[j][2] < u[k][2]
             /\ \A n \in u[j][2] .. put : \E k \in j .. Len(u) : u[k] = <<w, n>>
  <2>1. j \in 1 .. Len(s) /\ u[j] = s[j] /\ s[j][1] = w
    BY <1>1, <1>2, <1>3
  <2>2. /\ s[j][2] \in 1 .. put
        /\ \A k \in j + 1 .. Len(s) : s[k][1] = w => s[j][2] < s[k][2]
        /\ \A n \in s[j][2] .. put : \E k \in j .. Len(s) : s[k] = <<w, n>>
    BY <2>1 DEF Ordered
  <2>3. ASSUME NEW k \in j + 1 .. Len(u), u[k][1] = w
        PROVE  u[j][2] < u[k][2]
    <3>1. k \in 1 .. Len(u)
      BY <1>1, <2>1
    <3>2. k \in 1 .. Len(s) /\ u[k] = s[k]
      BY <1>1, <1>2, <2>3, <3>1
    <3>3. k \in j + 1 .. Len(s)
      BY <1>1, <2>1, <3>2
    <3>. QED
      BY <2>1, <2>2, <2>3, <3>2, <3>3
  <2>4. ASSUME NEW n \in u[j][2] .. put
        PROVE  \E k \in j .. Len(u) : u[k] = <<w, n>>
    <3>1. PICK k \in j .. Len(s) : s[k] = <<w, n>>
      BY <2>1, <2>2
    <3>2. k \in 1 .. Len(s) /\ k \in j .. Len(u)
      BY <1>1, <2>1
    <3>. QED
      BY <1>1, <3>1, <3>2
  <2>. QED
    BY <2>1, <2>2, <2>3, <2>4
<1>4. Ordered(u, put, w)
  BY <1>3 DEF Ordered
<1>. QED
  BY <1>4 DEF u

(* The next bytes of a writer come after those before.                     *)
LEMMA WriterAdds ==
  ASSUME NEW s \in Seq(Log), NEW t \in Seq(Log), NEW put \in Nat, NEW w \in Writers,
         Ordered(s, put, w), \A k \in 1 .. Len(t) : t[k] = <<w, put + k>>
  PROVE  Ordered(s \o t, put + Len(t), w)
<1> DEFINE u == s \o t
<1>1. /\ Len(u) = Len(s) + Len(t) /\ Len(s) \in Nat /\ Len(t) \in Nat
      /\ \A k \in 1 .. Len(s) : k \in 1 .. Len(u) /\ u[k] = s[k]
      /\ \A k \in 1 .. Len(t) : Len(s) + k \in 1 .. Len(u) /\ u[Len(s) + k] = t[k]
      /\ \A k \in 1 .. Len(u) : k \in 1 .. Len(s) \/ \E i \in 1 .. Len(t) : k = Len(s) + i
  BY BothParts, Zenon
<1> HIDE DEF u
<1>2. ASSUME NEW i \in 1 .. Len(t)
      PROVE  Len(s) + i \in 1 .. Len(u) /\ u[Len(s) + i] = <<w, put + i>>
  BY <1>1, <1>2
<1>3. ASSUME NEW j \in 1 .. Len(s), s[j][1] = w
      PROVE  /\ u[j][2] \in 1 .. put + Len(t)
             /\ \A k \in j + 1 .. Len(u) : u[k][1] = w => u[j][2] < u[k][2]
             /\ \A n \in u[j][2] .. put + Len(t) : \E k \in j .. Len(u) : u[k] = <<w, n>>
  <2>1. /\ s[j][2] \in 1 .. put /\ u[j] = s[j]
        /\ \A k \in j + 1 .. Len(s) : s[k][1] = w => s[j][2] < s[k][2]
        /\ \A n \in s[j][2] .. put : \E k \in j .. Len(s) : s[k] = <<w, n>>
    BY <1>1, <1>3 DEF Ordered
  <2>2. ASSUME NEW k \in j + 1 .. Len(u), u[k][1] = w
        PROVE  u[j][2] < u[k][2]
    <3>1. CASE k \in 1 .. Len(s)
      <4>1. k \in j + 1 .. Len(s) /\ u[k] = s[k]
        BY <1>1, <3>1
      <4>. QED
        BY <2>1, <2>2, <4>1
    <3>2. CASE \E i \in 1 .. Len(t) : k = Len(s) + i
      <4>1. PICK i \in 1 .. Len(t) : k = Len(s) + i
        BY <3>2
      <4>2. u[k] = <<w, put + i>>
        BY <1>2, <4>1
      <4>. QED
        BY <1>1, <2>1, <4>2
    <3>3. k \in 1 .. Len(u)
      BY <1>1
    <3>. QED
      BY <1>1, <3>1, <3>2, <3>3
  <2>3. ASSUME NEW n \in u[j][2] .. put + Len(t)
        PROVE  \E k \in j .. Len(u) : u[k] = <<w, n>>
    <3>1. CASE n <= put
      <4>0. n \in s[j][2] .. put
        BY <2>1, <3>1
      <4>1. PICK k \in j .. Len(s) : s[k] = <<w, n>>
        BY <2>1, <4>0
      <4>2. k \in 1 .. Len(s) /\ k \in j .. Len(u)
        BY <1>1
      <4>. QED
        BY <1>1, <4>1, <4>2
    <3>2. CASE ~ (n <= put)
      <4>1. n - put \in 1 .. Len(t) /\ put + (n - put) = n
        BY <1>1, <2>1, <3>2
      <4>2. u[Len(s) + (n - put)] = <<w, n>>
        BY <1>2, <4>1
      <4>3. Len(s) + (n - put) \in j .. Len(u)
        BY <1>1, <4>1
      <4>. QED
        BY <4>2, <4>3
    <3>. QED
      BY <3>1, <3>2
  <2>4. u[j][2] \in 1 .. put + Len(t)
    BY <1>1, <2>1
  <2>. QED
    BY <2>2, <2>3, <2>4
<1>4. ASSUME NEW i \in 1 .. Len(t)
      PROVE  /\ u[Len(s) + i][2] \in 1 .. put + Len(t)
             /\ \A k \in Len(s) + i + 1 .. Len(u) :
                  u[k][1] = w => u[Len(s) + i][2] < u[k][2]
             /\ \A n \in u[Len(s) + i][2] .. put + Len(t) :
                  \E k \in Len(s) + i .. Len(u) : u[k] = <<w, n>>
  <2>1. u[Len(s) + i][2] = put + i
    BY <1>2
  <2>2. ASSUME NEW k \in Len(s) + i + 1 .. Len(u)
        PROVE  u[k][2] > put + i
    <3>1. k - Len(s) \in 1 .. Len(t) /\ k = Len(s) + (k - Len(s)) /\ k - Len(s) > i
      BY <1>1
    <3>2. u[k] = <<w, put + (k - Len(s))>>
      BY <1>2, <3>1
    <3>3. u[k][2] = put + (k - Len(s))
      BY <3>2
    <3>. QED
      BY <1>1, <3>1, <3>3
  <2>3. ASSUME NEW n \in put + i .. put + Len(t)
        PROVE  \E k \in Len(s) + i .. Len(u) : u[k] = <<w, n>>
    <3>1. n - put \in 1 .. Len(t) /\ put + (n - put) = n /\ Len(s) + (n - put) \in Len(s) + i .. Len(u)
      BY <1>1
    <3>2. u[Len(s) + (n - put)] = <<w, n>>
      BY <1>2, <3>1
    <3>. QED
      BY <3>1, <3>2
  <2>4. put + i \in 1 .. put + Len(t)
    BY <1>1
  <2>. QED
    BY <2>1, <2>2, <2>3, <2>4
<1>5. ASSUME NEW j \in 1 .. Len(u), u[j][1] = w
      PROVE  /\ u[j][2] \in 1 .. put + Len(t)
             /\ \A k \in j + 1 .. Len(u) : u[k][1] = w => u[j][2] < u[k][2]
             /\ \A n \in u[j][2] .. put + Len(t) : \E k \in j .. Len(u) : u[k] = <<w, n>>
  <2>1. CASE j \in 1 .. Len(s)
    <3>1. s[j][1] = w
      BY <1>1, <1>5, <2>1
    <3>. QED
      BY <1>3, <2>1, <3>1
  <2>2. CASE \E i \in 1 .. Len(t) : j = Len(s) + i
    BY <1>4, <2>2
  <2>. QED
    BY <1>1, <2>1, <2>2
<1>6. Ordered(u, put + Len(t), w)
  BY <1>5 DEF Ordered
<1>. QED
  BY <1>6 DEF u
(* Padding brings what is in the buffer to whole words, and stands at the  *)
(* end of a word that was begun.                                           *)
LEMMA FillIs ==
  ASSUME Flash!ElogFlashAssumption, NEW s \in Seq(Log), NEW m \in Nat, m % Word = 0
  PROVE  /\ Flash!Fill(s) \in Seq(Log)
         /\ (m + Len(s) + Len(Flash!Fill(s))) % Word = 0
         /\ \A i \in 1 .. Len(Flash!Fill(s)) :
              /\ Flash!Fill(s)[i] = Pad
              /\ (m + Len(s) + i - 1) % Word # 0
<1> DEFINE r == Len(s) % Word
           n == (Word - r) % Word
<1>1. Word \in Nat \ {0} /\ Len(s) \in Nat
  BY DEF Flash!ElogFlashAssumption
<1>2. PICK q \in Nat : Len(s) = q * Word + r /\ r \in 0 .. Word - 1
  BY <1>1, DivMod
<1>3. n = IF r = 0 THEN 0 ELSE Word - r
  <2>1. CASE r = 0
    <3>1. (1 * Word + 0) % Word = 0
      BY <1>1, DivModIs
    <3>2. Word - r = 1 * Word + 0
      BY <1>1, <2>1
    <3>. QED
      BY <2>1, <3>1, <3>2
  <2>2. CASE r # 0
    <3>1. Word - r \in 0 .. Word - 1 /\ 0 * Word + (Word - r) = Word - r
      BY <1>1, <1>2, <2>2
    <3>2. (0 * Word + (Word - r)) % Word = Word - r
      BY <1>1, <3>1, DivModIs
    <3>. QED
      BY <2>2, <3>1, <3>2
  <2>. QED
    BY <2>1, <2>2
<1> HIDE DEF r, n
<1>4. n \in Nat
  BY <1>1, <1>2, <1>3
<1>5. Flash!Fill(s) = [k \in 1 .. n |-> Pad]
  BY DEF Flash!Fill, Pad, n, r
<1>6. Pad \in Log
  BY DEF Pad, Flash!Pad, Log
<1>7. /\ Flash!Fill(s) \in Seq(Log) /\ Len(Flash!Fill(s)) = n
      /\ \A i \in 1 .. n : Flash!Fill(s)[i] = Pad
  BY <1>4, <1>5, <1>6
<1>8. (m + Len(s) + n) % Word = 0
  <2>1. PICK p \in Nat : Len(s) + n = p * Word + 0
    <3>1. CASE r = 0
      <4>1. Len(s) + n = q * Word + 0
        BY <1>1, <1>2, <1>3, <3>1
      <4>. QED
        BY <4>1
    <3>2. CASE r # 0
      <4>1. Len(s) + n = q * Word + Word
        BY <1>1, <1>2, <1>3, <3>2
      <4>2. q * Word + Word = (q + 1) * Word + 0
        BY <1>1
      <4>3. q + 1 \in Nat
        OBVIOUS
      <4>. QED
        BY <4>1, <4>2, <4>3
    <3>. QED
      BY <3>1, <3>2
  <2>2. (p * Word + 0) % Word = 0
    BY <1>1, DivModIs
  <2>3. (m + (Len(s) + n)) % Word = (Len(s) + n) % Word
    <3>1. PICK x \in Nat : x = Len(s) + n
      BY <1>1, <1>4
    <3>2. (m + x) % Word = x % Word
      BY <1>1, ModAfterWords
    <3>. QED
      BY <3>1, <3>2
  <2>4. m + (Len(s) + n) = m + Len(s) + n
    BY <1>1, <1>4
  <2>. QED
    BY <2>1, <2>2, <2>3, <2>4
<1>9. ASSUME NEW i \in 1 .. n
      PROVE  (m + Len(s) + i - 1) % Word # 0
  <2>1. r + i - 1 \in 1 .. Word - 1
    BY <1>1, <1>2, <1>3
  <2>2. Len(s) + i - 1 = q * Word + (r + i - 1) /\ Len(s) + i - 1 \in Nat
    BY <1>1, <1>2, <2>1
  <2>3. (q * Word + (r + i - 1)) % Word = r + i - 1
    <3>1. PICK x \in 0 .. Word - 1 : x = r + i - 1
      BY <1>1, <2>1
    <3>2. (q * Word + x) % Word = x
      BY <1>1, DivModIs
    <3>. QED
      BY <3>1, <3>2
  <2>4. (m + (Len(s) + i - 1)) % Word = (Len(s) + i - 1) % Word
    BY <1>1, <2>2, ModAfterWords
  <2>5. m + (Len(s) + i - 1) = m + Len(s) + i - 1
    BY <1>1
  <2>. QED
    BY <2>1, <2>2, <2>3, <2>4, <2>5
<1>. QED
  BY <1>7, <1>8, <1>9

---------------------------------------------------------------------------
(* What the property says of each writer, and an idle one has nothing left *)
(* to write.                                                               *)
LeftIs(w) ==
    \A k \in 1 .. Len(writer[w].left) :
        writer[w].left[k] = <<w, writer[w].count - Len(writer[w].left) + k>>

FlashTypes ==
    /\ flash \in Seq(Log) /\ flash_buf \in Seq(Log)
    /\ Len(flash_buf) <= FlashBufSize
    /\ writer \in [Writers -> [pc : {"idle", "write", "flush"}, left : Seq(Log), count : Nat]]
    /\ \A w \in Writers :
         /\ Len(writer[w].left) <= writer[w].count
         /\ writer[w].pc = "idle" => writer[w].left = <<>>

Padded(s) ==
    \A k \in 1 .. Len(s) : s[k] = Pad =>
        (k - 1) % Word # 0 /\ (k % Word # 0 => s[k + 1] = Pad)

FlashInv ==
    /\ FlashTypes
    /\ Len(flash) % Word = 0 /\ Padded(flash)
    /\ \A k \in 1 .. Len(flash_buf) : flash_buf[k] # Pad
    /\ \A w \in Writers :
         LeftIs(w) /\ Ordered(flash \o flash_buf, writer[w].count - Len(writer[w].left), w)

LEMMA FlashInvIs == FlashTypes => (FlashInv <=> Flash!FlashKeepsLogs)
  BY DEF FlashInv, Flash!FlashKeepsLogs, Padded, LeftIs, Ordered, Flash!InOrder, Pad

LEMMA FlashInvInit == Flash!ElogFlashAssumption /\ Flash!Init => FlashInv
<1> SUFFICES ASSUME Flash!ElogFlashAssumption, Flash!Init
             PROVE  FlashInv
  OBVIOUS
<1>1. /\ flash = <<>> /\ flash_buf = <<>>
      /\ writer = [w \in Writers |-> [pc |-> "idle", left |-> <<>>, count |-> 0]]
  BY DEF Flash!Init, Flash!Idle
<1>2. Word \in Nat \ {0} /\ FlashBufSize \in Nat
  BY DEF Flash!ElogFlashAssumption
<1>3. <<>> \in Seq(Log) /\ Len(<<>>) = 0 /\ <<>> \o <<>> = <<>>
  OBVIOUS
<1>4. FlashTypes
  BY <1>1, <1>2, <1>3 DEF FlashTypes
<1>5. 0 % Word = 0
  BY <1>2
<1>6. \A k \in 1 .. 0 : FALSE
  OBVIOUS
<1>7. Padded(flash) /\ \A k \in 1 .. Len(flash_buf) : flash_buf[k] # Pad
  BY <1>1, <1>3, <1>6, Zenon DEF Padded
<1>8. ASSUME NEW w \in Writers
      PROVE  LeftIs(w) /\ Ordered(flash \o flash_buf, writer[w].count - Len(writer[w].left), w)
  <2>1. writer[w].left = <<>>
    BY <1>1
  <2>. QED
    BY <1>1, <1>3, <1>6, <2>1, Zenon DEF LeftIs, Ordered
<1>. QED
  BY <1>1, <1>3, <1>4, <1>5, <1>7, <1>8 DEF FlashInv

---------------------------------------------------------------------------
(* A step of writer w leaves what the others have to write as it is.       *)
LEMMA OthersAsTheyWere ==
  ASSUME FlashInv, NEW w \in Writers, NEW t \in Seq(Log),
         \A v \in Writers \ {w} : writer'[v] = writer[v],
         \A k \in 1 .. Len(t) : t[k][1] \in {w, Nobody}, Nobody \notin Writers
  PROVE  \A v \in Writers \ {w} :
           /\ LeftIs(v)'
           /\ Ordered((flash \o flash_buf) \o t,
                      writer'[v].count - Len(writer'[v].left), v)
           /\ Len(writer'[v].left) <= writer'[v].count
           /\ writer'[v].pc = "idle" => writer'[v].left = <<>>
<1> TAKE v \in Writers \ {w}
<1>1. writer'[v] = writer[v] /\ v \in Writers
  OBVIOUS
<1>2. /\ LeftIs(v) /\ Ordered(flash \o flash_buf, writer[v].count - Len(writer[v].left), v)
      /\ Len(writer[v].left) <= writer[v].count
      /\ writer[v].pc = "idle" => writer[v].left = <<>>
      /\ flash \in Seq(Log) /\ flash_buf \in Seq(Log)
      /\ writer[v].count - Len(writer[v].left) \in Nat
  <2>1. /\ LeftIs(v) /\ Ordered(flash \o flash_buf, writer[v].count - Len(writer[v].left), v)
        /\ Len(writer[v].left) <= writer[v].count
        /\ writer[v].pc = "idle" => writer[v].left = <<>>
        /\ flash \in Seq(Log) /\ flash_buf \in Seq(Log)
    BY <1>1, Zenon DEF FlashInv, FlashTypes
  <2>2. writer[v].count \in Nat /\ writer[v].left \in Seq(Log)
    BY <1>1 DEF FlashInv, FlashTypes
  <2>. QED
    BY <2>1, <2>2
<1>3. LeftIs(v)'
  BY <1>1, <1>2 DEF LeftIs
<1>4. flash \o flash_buf \in Seq(Log)
  BY <1>2
<1>5. \A k \in 1 .. Len(t) : t[k][1] # v
  OBVIOUS
<1>6. PICK s \in Seq(Log), put \in Nat :
        s = flash \o flash_buf /\ put = writer[v].count - Len(writer[v].left)
  BY <1>2, <1>4
<1>7. Ordered(s \o t, put, v)
  BY <1>2, <1>5, <1>6, OthersAdd
<1>. QED
  BY <1>1, <1>2, <1>3, <1>6, <1>7

(* The step of a writer of which the buffer or the flash gets t.           *)
LEMMA WriterGoesOn ==
  ASSUME FlashInv, Flash!ElogFlashAssumption, NEW w \in Writers, NEW t \in Seq(Log),
         flash' \in Seq(Log), flash_buf' \in Seq(Log),
         flash' \o flash_buf' = (flash \o flash_buf) \o t,
         Len(flash_buf') <= FlashBufSize,
         \A v \in Writers \ {w} : writer'[v] = writer[v],
         \A k \in 1 .. Len(t) : t[k][1] \in {w, Nobody},
         writer' \in [Writers -> [pc : {"idle", "write", "flush"}, left : Seq(Log), count : Nat]],
         Len(writer'[w].left) <= writer'[w].count,
         writer'[w].pc = "idle" => writer'[w].left = <<>>,
         LeftIs(w)',
         Ordered((flash \o flash_buf) \o t, writer'[w].count - Len(writer'[w].left), w),
         Len(flash') % Word = 0, Padded(flash'),
         \A k \in 1 .. Len(flash_buf') : flash_buf'[k] # Pad
  PROVE  FlashInv'
<1>1. Nobody \notin Writers
  BY DEF Flash!ElogFlashAssumption
<1>2. ASSUME NEW v \in Writers
      PROVE  /\ LeftIs(v)'
             /\ Ordered((flash \o flash_buf) \o t,
                        writer'[v].count - Len(writer'[v].left), v)
             /\ Len(writer'[v].left) <= writer'[v].count
             /\ writer'[v].pc = "idle" => writer'[v].left = <<>>
  <2>1. CASE v = w
    BY <2>1, Zenon
  <2>2. CASE v # w
    <3>1. \A x \in Writers \ {w} :
            /\ LeftIs(x)'
            /\ Ordered((flash \o flash_buf) \o t,
                       writer'[x].count - Len(writer'[x].left), x)
            /\ Len(writer'[x].left) <= writer'[x].count
            /\ writer'[x].pc = "idle" => writer'[x].left = <<>>
      BY <1>1, OthersAsTheyWere
    <3>2. v \in Writers \ {w}
      BY <2>2
    <3>. QED
      BY <3>1, <3>2, Zenon
  <2>. QED
    BY <2>1, <2>2
<1>3. FlashTypes'
  BY <1>2 DEF FlashTypes
<1>4. ASSUME NEW v \in Writers
      PROVE  LeftIs(v)' /\ Ordered(flash \o flash_buf, writer[v].count - Len(writer[v].left), v)'
  <2>1. Ordered(flash' \o flash_buf', writer'[v].count - Len(writer'[v].left), v)
    <3>1. flash' \o flash_buf' = (flash \o flash_buf) \o t
      OBVIOUS
    <3>. QED
      BY <1>2, <3>1
  <2>2. LeftIs(v)'
    BY <1>2
  <2>. QED
    BY <2>1, <2>2 DEF Ordered
<1>5. Padded(flash)'
  BY DEF Padded
<1>. QED
  BY <1>3, <1>4, <1>5 DEF FlashInv

(* What FlashInv says of writer w and of the sequences.                    *)
LEMMA AtWriter ==
  ASSUME FlashInv, NEW w \in Writers
  PROVE  /\ flash \in Seq(Log) /\ flash_buf \in Seq(Log) /\ flash \o flash_buf \in Seq(Log)
         /\ writer \in [Writers -> [pc : {"idle", "write", "flush"}, left : Seq(Log), count : Nat]]
         /\ writer[w].pc \in {"idle", "write", "flush"} /\ writer[w].left \in Seq(Log)
         /\ Len(writer[w].left) \in Nat /\ Len(flash_buf) \in Nat /\ Len(flash) \in Nat
         /\ Len(flash_buf) <= FlashBufSize
         /\ writer[w].count \in Nat /\ writer[w].count - Len(writer[w].left) \in Nat
         /\ writer[w].pc = "idle" => writer[w].left = <<>>
         /\ LeftIs(w)
         /\ Ordered(flash \o flash_buf, writer[w].count - Len(writer[w].left), w)
<1>1. /\ flash \in Seq(Log) /\ flash_buf \in Seq(Log)
      /\ writer \in [Writers -> [pc : {"idle", "write", "flush"}, left : Seq(Log), count : Nat]]
      /\ Len(flash_buf) <= FlashBufSize
  BY DEF FlashInv, FlashTypes
<1>2. /\ writer[w].pc = "idle" => writer[w].left = <<>>
      /\ Len(writer[w].left) <= writer[w].count
  BY DEF FlashInv, FlashTypes
<1>3. /\ LeftIs(w)
      /\ Ordered(flash \o flash_buf, writer[w].count - Len(writer[w].left), w)
  BY DEF FlashInv
<1>4. /\ writer[w].pc \in {"idle", "write", "flush"} /\ writer[w].left \in Seq(Log)
      /\ writer[w].count \in Nat
  BY <1>1
<1>5. writer[w].count - Len(writer[w].left) \in Nat
  BY <1>2, <1>4
<1>6. /\ flash \o flash_buf \in Seq(Log)
      /\ Len(writer[w].left) \in Nat /\ Len(flash_buf) \in Nat /\ Len(flash) \in Nat
  BY <1>1, <1>4
<1>. QED
  BY <1>1, <1>2, <1>3, <1>4, <1>5, <1>6

(* A call to write takes the next bytes of the writer.                     *)
LEMMA WriteCallKeeps ==
  ASSUME FlashInv, Flash!ElogFlashAssumption, NEW w \in Writers, NEW amount \in WriteSizes,
         Flash!WriteCall(w, amount)
  PROVE  FlashInv'
<1> DEFINE new == [k \in 1 .. amount |-> <<w, writer[w].count + k>>]
           t == <<>>
<1>1. /\ writer[w].pc = "idle" /\ UNCHANGED <<flash_lock, flash_buf, flash>>
      /\ writer' = [writer EXCEPT ![w] =
             [pc |-> "write", left |-> new, count |-> writer[w].count + amount]]
  BY DEF Flash!WriteCall, Flash!Idle
<1>2. amount \in Nat
  BY DEF Flash!ElogFlashAssumption
<1>3. /\ writer \in [Writers -> [pc : {"idle", "write", "flush"}, left : Seq(Log), count : Nat]]
      /\ writer[w].left = <<>> /\ writer[w].count \in Nat
      /\ flash \in Seq(Log) /\ flash_buf \in Seq(Log) /\ flash \o flash_buf \in Seq(Log)
      /\ Ordered(flash \o flash_buf, writer[w].count - Len(writer[w].left), w)
  BY <1>1, AtWriter
<1>4. new \in Seq(Log) /\ Len(new) = amount /\ \A k \in 1 .. amount : new[k] = <<w, writer[w].count + k>>
  <2>1. \A k \in 1 .. amount : <<w, writer[w].count + k>> \in Log
    BY <1>3 DEF Log
  <2>2. new \in [1 .. amount -> Log]
    BY <2>1
  <2>3. \A k \in 1 .. amount : new[k] = <<w, writer[w].count + k>>
    OBVIOUS
  <2> HIDE DEF new
  <2>. QED
    BY <1>2, <2>2, <2>3
<1> HIDE DEF new
<1>5. /\ writer'[w] = [pc |-> "write", left |-> new, count |-> writer[w].count + amount]
      /\ \A v \in Writers \ {w} : writer'[v] = writer[v]
  BY <1>1, <1>3
<1>6. writer' \in [Writers -> [pc : {"idle", "write", "flush"}, left : Seq(Log), count : Nat]]
  BY <1>1, <1>2, <1>3, <1>4
<1>7. /\ writer'[w].count - Len(writer'[w].left) = writer[w].count
      /\ Len(writer'[w].left) <= writer'[w].count
      /\ writer'[w].pc # "idle"
  BY <1>2, <1>3, <1>4, <1>5
<1>8. LeftIs(w)'
  <2>1. writer'[w].left = new /\ \A k \in 1 .. Len(new) : new[k] = <<w, writer[w].count + k>>
    BY <1>4, <1>5
  <2>. QED
    BY <1>7, <2>1 DEF LeftIs
<1>9. t \in Seq(Log) /\ (flash \o flash_buf) \o t = flash \o flash_buf /\ Len(t) = 0
  BY <1>3
<1>10. Ordered((flash \o flash_buf) \o t, writer'[w].count - Len(writer'[w].left), w)
  <2>1. writer[w].count - Len(writer[w].left) = writer[w].count
    BY <1>3
  <2>. QED
    BY <1>3, <1>7, <1>9, <2>1
<1>11. /\ flash' \in Seq(Log) /\ flash_buf' \in Seq(Log)
       /\ flash' \o flash_buf' = (flash \o flash_buf) \o t
       /\ Len(flash_buf') <= FlashBufSize
       /\ Len(flash') % Word = 0 /\ Padded(flash')
       /\ \A k \in 1 .. Len(flash_buf') : flash_buf'[k] # Pad
  BY <1>1, <1>3, <1>9 DEF FlashInv, FlashTypes
<1>12. \A k \in 1 .. Len(t) : t[k][1] \in {w, Nobody}
  BY <1>9
<1> HIDE DEF t
<1>. QED
  BY <1>5, <1>6, <1>7, <1>8, <1>9, <1>10, <1>11, <1>12, WriterGoesOn

(* The parts of what a writer has left.                                    *)
LEMMA LeftParts ==
  ASSUME NEW s \in Seq(Log), NEW n \in 0 .. Len(s)
  PROVE  /\ SubSeq(s, 1, n) \in Seq(Log) /\ Len(SubSeq(s, 1, n)) = n
         /\ SubSeq(s, n + 1, Len(s)) \in Seq(Log) /\ Len(SubSeq(s, n + 1, Len(s))) = Len(s) - n
         /\ \A k \in 1 .. n : SubSeq(s, 1, n)[k] = s[k]
         /\ \A k \in 1 .. Len(s) - n : SubSeq(s, n + 1, Len(s))[k] = s[n + k]
<1>1. Len(s) \in Nat /\ n \in Nat /\ n <= Len(s) /\ \A i \in 1 .. Len(s) : s[i] \in Log
  OBVIOUS
<1>2. /\ SubSeq(s, 1, n) = [k \in 1 .. n |-> s[k]]
      /\ SubSeq(s, n + 1, Len(s)) = [k \in 1 .. Len(s) - n |-> s[n + k]]
  BY <1>1
<1>3. (\A k \in 1 .. n : s[k] \in Log) /\ (\A k \in 1 .. Len(s) - n : s[n + k] \in Log)
  <2>1. \A k \in 1 .. n : k \in 1 .. Len(s)
    BY <1>1
  <2>2. \A k \in 1 .. Len(s) - n : n + k \in 1 .. Len(s)
    BY <1>1
  <2>. QED
    BY <1>1, <2>1, <2>2
<1>4. n \in Nat /\ Len(s) - n \in Nat
  BY <1>1
<1>. QED
  BY <1>2, <1>3, <1>4

(* A turn that fills the buffer.                                           *)
LEMMA WriteFillKeeps ==
  ASSUME FlashInv, Flash!ElogFlashAssumption, NEW w \in Writers, Flash!WriteFill(w)
  PROVE  FlashInv'
<1> DEFINE left == writer[w].left
           room == FlashBufSize - Len(flash_buf)
           t == SubSeq(left, 1, room)
           rest == SubSeq(left, room + 1, Len(left))
<1>1. /\ Len(left) > room
      /\ flash_buf' = flash_buf \o t /\ flash' = flash
      /\ writer' = [writer EXCEPT ![w].pc = "flush", ![w].left = rest]
  BY DEF Flash!WriteFill
<1>2. /\ writer \in [Writers -> [pc : {"idle", "write", "flush"}, left : Seq(Log), count : Nat]]
      /\ left \in Seq(Log) /\ Len(left) \in Nat
      /\ flash \in Seq(Log) /\ flash_buf \in Seq(Log) /\ flash \o flash_buf \in Seq(Log)
      /\ Len(flash_buf) \in Nat /\ Len(flash_buf) <= FlashBufSize
      /\ writer[w].count \in Nat /\ writer[w].count - Len(left) \in Nat
      /\ LeftIs(w)
      /\ Ordered(flash \o flash_buf, writer[w].count - Len(left), w)
  BY AtWriter
<1>3. FlashBufSize \in Nat /\ Nobody \notin Writers
  BY DEF Flash!ElogFlashAssumption
<1>4. room \in Nat /\ room \in 0 .. Len(left)
  <2>1. PICK b \in Nat, m \in Nat : b = Len(flash_buf) /\ m = Len(left)
    BY <1>2
  <2>2. b <= FlashBufSize /\ m > FlashBufSize - b
    BY <1>1, <1>2, <2>1
  <2>3. FlashBufSize - b \in Nat /\ FlashBufSize - b \in 0 .. m
    BY <1>3, <2>2
  <2>. QED
    BY <2>1, <2>3, Zenon
<1>5. /\ t \in Seq(Log) /\ Len(t) = room /\ rest \in Seq(Log) /\ Len(rest) = Len(left) - room
      /\ \A k \in 1 .. room : t[k] = left[k]
      /\ \A k \in 1 .. Len(left) - room : rest[k] = left[room + k]
  <2>1. PICK s \in Seq(Log) : s = left
    BY <1>2
  <2>2. PICK n \in 0 .. Len(s) : n = room
    BY <1>4, <2>1
  <2>. QED
    BY <2>1, <2>2, LeftParts
<1>6. /\ writer'[w].pc = "flush" /\ writer'[w].left = rest /\ writer'[w].count = writer[w].count
      /\ \A v \in Writers \ {w} : writer'[v] = writer[v]
      /\ writer' \in [Writers -> [pc : {"idle", "write", "flush"}, left : Seq(Log), count : Nat]]
  <2>1. rest \in Seq(Log)
    BY <1>5
  <2> HIDE DEF rest
  <2>. QED
    BY <1>1, <1>2, <2>1
<1>7. \A k \in 1 .. Len(left) : left[k] = <<w, writer[w].count - Len(left) + k>>
  BY <1>2 DEF LeftIs
<1> HIDE DEF left, room, t, rest
<1>8. /\ writer'[w].count - Len(writer'[w].left) = writer[w].count - Len(left) + room
      /\ Len(writer'[w].left) <= writer'[w].count
      /\ writer'[w].pc # "idle"
  BY <1>2, <1>4, <1>5, <1>6
<1>9. LeftIs(w)'
  <2>1. ASSUME NEW k \in 1 .. Len(left) - room
        PROVE  rest[k] = <<w, writer[w].count - Len(left) + room + k>>
    <3>1. room + k \in 1 .. Len(left)
      BY <1>2, <1>4
    <3>2. writer[w].count - Len(left) + (room + k) = writer[w].count - Len(left) + room + k
      BY <1>2, <1>4
    <3>. QED
      BY <1>5, <1>7, <3>1, <3>2
  <2>. QED
    BY <1>5, <1>6, <1>8, <2>1 DEF LeftIs
<1>10. \A k \in 1 .. Len(t) : t[k] = <<w, writer[w].count - Len(left) + k>>
  <2>1. \A k \in 1 .. room : k \in 1 .. Len(left)
    BY <1>2, <1>4
  <2>. QED
    BY <1>5, <1>7, <2>1, Zenon
<1>11. Ordered((flash \o flash_buf) \o t, writer'[w].count - Len(writer'[w].left), w)
  <2>1. PICK s \in Seq(Log), put \in Nat, u \in Seq(Log) :
          s = flash \o flash_buf /\ put = writer[w].count - Len(left) /\ u = t
    BY <1>2, <1>5
  <2>2. Ordered(s, put, w) /\ \A k \in 1 .. Len(u) : u[k] = <<w, put + k>>
    BY <1>2, <1>10, <2>1
  <2>3. Ordered(s \o u, put + Len(u), w)
    BY <2>2, WriterAdds
  <2>. QED
    BY <1>5, <1>8, <2>1, <2>3
<1>12. flash' \o flash_buf' = (flash \o flash_buf) \o t
  <2>1. PICK x \in Seq(Log), y \in Seq(Log), z \in Seq(Log) : x = flash /\ y = flash_buf /\ z = t
    BY <1>2, <1>5
  <2>2. (x \o y) \o z = x \o (y \o z)
    BY ConcatAssociative
  <2>. QED
    BY <1>1, <2>1, <2>2
<1>13. /\ flash_buf' \in Seq(Log) /\ Len(flash_buf') = Len(flash_buf) + Len(t)
       /\ \A k \in 1 .. Len(flash_buf') : flash_buf'[k] # Pad
  <2>1. PICK x \in Seq(Log), y \in Seq(Log) : x = flash_buf /\ y = t
    BY <1>2, <1>5
  <2>2. /\ x \o y \in Seq(Log) /\ Len(x \o y) = Len(x) + Len(y)
        /\ \A k \in 1 .. Len(x) : (x \o y)[k] = x[k]
        /\ \A k \in 1 .. Len(y) : (x \o y)[Len(x) + k] = y[k]
        /\ \A k \in 1 .. Len(x \o y) :
              k \in 1 .. Len(x) \/ \E i \in 1 .. Len(y) : k = Len(x) + i
    BY BothParts, Zenon
  <2>3. \A k \in 1 .. Len(x) : x[k] # Pad
    BY <2>1 DEF FlashInv
  <2>4. \A k \in 1 .. Len(y) : y[k] # Pad
    BY <1>3, <1>10, <2>1 DEF Pad, Flash!Pad
  <2>5. \A k \in 1 .. Len(x \o y) : (x \o y)[k] # Pad
    BY <2>2, <2>3, <2>4
  <2>6. flash_buf' = x \o y
    BY <1>1, <2>1
  <2>. QED
    BY <2>1, <2>2, <2>5, <2>6, Zenon
<1>14. Len(flash_buf') <= FlashBufSize
  BY <1>2, <1>3, <1>5, <1>13 DEF room
<1>15. flash' \in Seq(Log) /\ Len(flash') % Word = 0 /\ Padded(flash')
  BY <1>1, <1>2 DEF FlashInv
<1>16. \A k \in 1 .. Len(t) : t[k][1] \in {w, Nobody}
  BY <1>10
<1>. QED
  BY <1>5, <1>6, <1>8, <1>9, <1>11, <1>12, <1>13, <1>14, <1>15, <1>16, WriterGoesOn

(* The last turn.                                                          *)
LEMMA WriteRestKeeps ==
  ASSUME FlashInv, Flash!ElogFlashAssumption, NEW w \in Writers, Flash!WriteRest(w)
  PROVE  FlashInv'
<1> DEFINE t == writer[w].left
<1>1. /\ Len(t) <= FlashBufSize - Len(flash_buf)
      /\ flash_buf' = flash_buf \o t /\ flash' = flash
      /\ writer' = [writer EXCEPT ![w].pc = "idle", ![w].left = <<>>]
  BY DEF Flash!WriteRest, Flash!Idle
<1>2. /\ writer \in [Writers -> [pc : {"idle", "write", "flush"}, left : Seq(Log), count : Nat]]
      /\ t \in Seq(Log) /\ Len(t) \in Nat
      /\ flash \in Seq(Log) /\ flash_buf \in Seq(Log) /\ flash \o flash_buf \in Seq(Log)
      /\ Len(flash_buf) \in Nat /\ Len(flash_buf) <= FlashBufSize
      /\ writer[w].count \in Nat /\ writer[w].count - Len(t) \in Nat
      /\ LeftIs(w)
      /\ Ordered(flash \o flash_buf, writer[w].count - Len(t), w)
  BY AtWriter
<1>3. FlashBufSize \in Nat /\ Nobody \notin Writers
  BY DEF Flash!ElogFlashAssumption
<1>4. <<>> \in Seq(Log) /\ Len(<<>>) = 0
  OBVIOUS
<1>5. /\ writer'[w].pc = "idle" /\ writer'[w].left = <<>> /\ writer'[w].count = writer[w].count
      /\ \A v \in Writers \ {w} : writer'[v] = writer[v]
      /\ writer' \in [Writers -> [pc : {"idle", "write", "flush"}, left : Seq(Log), count : Nat]]
  BY <1>1, <1>2, <1>4
<1>6. \A k \in 1 .. Len(t) : t[k] = <<w, writer[w].count - Len(t) + k>>
  BY <1>2 DEF LeftIs
<1> HIDE DEF t
<1>7. /\ writer'[w].count - Len(writer'[w].left) = writer[w].count - Len(t) + Len(t)
      /\ Len(writer'[w].left) <= writer'[w].count
  BY <1>2, <1>4, <1>5
<1>8. LeftIs(w)'
  BY <1>4, <1>5 DEF LeftIs
<1>9. Ordered((flash \o flash_buf) \o t, writer'[w].count - Len(writer'[w].left), w)
  <2>1. PICK s \in Seq(Log), put \in Nat, u \in Seq(Log) :
          s = flash \o flash_buf /\ put = writer[w].count - Len(t) /\ u = t
    BY <1>2
  <2>2. Ordered(s, put, w) /\ \A k \in 1 .. Len(u) : u[k] = <<w, put + k>>
    BY <1>2, <1>6, <2>1
  <2>3. Ordered(s \o u, put + Len(u), w)
    BY <2>2, WriterAdds
  <2>. QED
    BY <1>7, <2>1, <2>3
<1>10. flash' \o flash_buf' = (flash \o flash_buf) \o t
  <2>1. PICK x \in Seq(Log), y \in Seq(Log), z \in Seq(Log) : x = flash /\ y = flash_buf /\ z = t
    BY <1>2
  <2>2. (x \o y) \o z = x \o (y \o z)
    BY ConcatAssociative
  <2>. QED
    BY <1>1, <2>1, <2>2
<1>11. /\ flash_buf' \in Seq(Log) /\ Len(flash_buf') = Len(flash_buf) + Len(t)
       /\ \A k \in 1 .. Len(flash_buf') : flash_buf'[k] # Pad
  <2>1. PICK x \in Seq(Log), y \in Seq(Log) : x = flash_buf /\ y = t
    BY <1>2
  <2>2. /\ x \o y \in Seq(Log) /\ Len(x \o y) = Len(x) + Len(y)
        /\ \A k \in 1 .. Len(x) : (x \o y)[k] = x[k]
        /\ \A k \in 1 .. Len(y) : (x \o y)[Len(x) + k] = y[k]
        /\ \A k \in 1 .. Len(x \o y) :
              k \in 1 .. Len(x) \/ \E i \in 1 .. Len(y) : k = Len(x) + i
    BY BothParts, Zenon
  <2>3. \A k \in 1 .. Len(x) : x[k] # Pad
    BY <2>1 DEF FlashInv
  <2>4. \A k \in 1 .. Len(y) : y[k] # Pad
    BY <1>3, <1>6, <2>1 DEF Pad, Flash!Pad
  <2>5. \A k \in 1 .. Len(x \o y) : (x \o y)[k] # Pad
    BY <2>2, <2>3, <2>4
  <2>6. flash_buf' = x \o y
    BY <1>1, <2>1
  <2>. QED
    BY <2>1, <2>2, <2>5, <2>6, Zenon
<1>12. Len(flash_buf') <= FlashBufSize
  BY <1>1, <1>2, <1>3, <1>11
<1>13. flash' \in Seq(Log) /\ Len(flash') % Word = 0 /\ Padded(flash')
  BY <1>1, <1>2 DEF FlashInv
<1>14. \A k \in 1 .. Len(t) : t[k][1] \in {w, Nobody}
  BY <1>6
<1>. QED
  BY <1>2, <1>5, <1>7, <1>8, <1>9, <1>10, <1>11, <1>12, <1>13, <1>14, WriterGoesOn

(* A flush moves the buffer to the flash and fills up the last word.       *)
LEMMA FlushKeeps ==
  ASSUME FlashInv, Flash!ElogFlashAssumption, NEW w \in Writers, Flash!Flush(w)
  PROVE  FlashInv'
<1> DEFINE t == Flash!Fill(flash_buf)
           s == flash \o flash_buf
<1>1. /\ flash' = flash \o flash_buf \o t /\ flash_buf' = <<>>
      /\ writer' = [writer EXCEPT ![w].pc = IF writer[w].left = <<>> THEN "idle" ELSE "write"]
  BY DEF Flash!Flush, Flash!Idle
<1>2. /\ writer \in [Writers -> [pc : {"idle", "write", "flush"}, left : Seq(Log), count : Nat]]
      /\ writer[w].left \in Seq(Log) /\ Len(writer[w].left) \in Nat
      /\ flash \in Seq(Log) /\ flash_buf \in Seq(Log) /\ s \in Seq(Log)
      /\ Len(flash) \in Nat /\ Len(flash_buf) \in Nat /\ Len(flash_buf) <= FlashBufSize
      /\ writer[w].count \in Nat /\ writer[w].count - Len(writer[w].left) \in Nat
      /\ LeftIs(w)
      /\ Ordered(s, writer[w].count - Len(writer[w].left), w)
  BY AtWriter
<1>3. FlashBufSize \in Nat /\ Nobody \notin Writers /\ Word \in Nat \ {0}
  BY DEF Flash!ElogFlashAssumption
<1>4. /\ Len(flash) % Word = 0 /\ Padded(flash)
      /\ \A k \in 1 .. Len(flash_buf) : flash_buf[k] # Pad
  BY DEF FlashInv
<1>5. /\ t \in Seq(Log)
      /\ (Len(flash) + Len(flash_buf) + Len(t)) % Word = 0
      /\ \A i \in 1 .. Len(t) :
           t[i] = Pad /\ (Len(flash) + Len(flash_buf) + i - 1) % Word # 0
  <2>1. PICK m \in Nat, b \in Seq(Log) : m = Len(flash) /\ b = flash_buf
    BY <1>2
  <2>2. m % Word = 0
    BY <1>4, <2>1
  <2>3. /\ Flash!Fill(b) \in Seq(Log)
        /\ (m + Len(b) + Len(Flash!Fill(b))) % Word = 0
        /\ \A i \in 1 .. Len(Flash!Fill(b)) :
             Flash!Fill(b)[i] = Pad /\ (m + Len(b) + i - 1) % Word # 0
    BY <2>2, FillIs
  <2>4. t = Flash!Fill(b)
    BY <2>1 DEF Flash!Fill
  <2> HIDE DEF t
  <2>. QED
    BY <2>1, <2>3, <2>4
<1> HIDE DEF t
<1>6. /\ Len(s) = Len(flash) + Len(flash_buf)
      /\ \A k \in 1 .. Len(flash) : s[k] = flash[k]
      /\ \A k \in 1 .. Len(flash_buf) : s[Len(flash) + k] = flash_buf[k]
      /\ \A k \in 1 .. Len(s) :
            k \in 1 .. Len(flash) \/ \E i \in 1 .. Len(flash_buf) : k = Len(flash) + i
  <2>1. PICK x \in Seq(Log), y \in Seq(Log) : x = flash /\ y = flash_buf
    BY <1>2
  <2>. QED
    BY <2>1, BothParts
<1> HIDE DEF s
<1>7. flash' = s \o t
  BY <1>1 DEF s
<1>8. /\ flash' \in Seq(Log) /\ Len(flash') = Len(s) + Len(t) /\ Len(t) \in Nat
      /\ \A k \in 1 .. Len(s) : flash'[k] = s[k]
      /\ \A k \in 1 .. Len(t) : flash'[Len(s) + k] = t[k]
      /\ \A k \in 1 .. Len(flash') :
            k \in 1 .. Len(s) \/ \E i \in 1 .. Len(t) : k = Len(s) + i
  <2>1. PICK x \in Seq(Log), y \in Seq(Log) : x = s /\ y = t
    BY <1>2, <1>5
  <2>2. flash' = x \o y
    BY <1>7, <2>1
  <2>. QED
    BY <2>1, <2>2, BothParts
<1>9. Len(flash') % Word = 0
  BY <1>5, <1>6, <1>8
<1>10. Padded(flash')
  <2>1. ASSUME NEW k \in 1 .. Len(flash'), flash'[k] = Pad
        PROVE  (k - 1) % Word # 0 /\ (k % Word # 0 => flash'[k + 1] = Pad)
    <3>1. CASE k \in 1 .. Len(flash)
      <4>1. k \in 1 .. Len(s) /\ flash[k] = Pad
        BY <1>2, <1>6, <1>8, <2>1, <3>1
      <4>2. (k - 1) % Word # 0 /\ (k % Word # 0 => flash[k + 1] = Pad)
        BY <1>4, <3>1, <4>1 DEF Padded
      <4>3. ASSUME k % Word # 0
            PROVE  flash'[k + 1] = flash[k + 1]
        <5>1. k # Len(flash)
          BY <1>4, <4>3
        <5>2. k + 1 \in 1 .. Len(flash) /\ k + 1 \in 1 .. Len(s)
          BY <1>2, <1>6, <3>1, <5>1
        <5>. QED
          BY <1>6, <1>8, <5>2
      <4>. QED
        BY <4>2, <4>3
    <3>2. CASE \E i \in 1 .. Len(flash_buf) : k = Len(flash) + i
      <4>1. PICK i \in 1 .. Len(flash_buf) : k = Len(flash) + i
        BY <3>2
      <4>2. k \in 1 .. Len(s) /\ s[k] = flash_buf[i]
        BY <1>2, <1>6, <4>1
      <4>. QED
        BY <1>4, <1>8, <2>1, <4>2
    <3>3. CASE \E i \in 1 .. Len(t) : k = Len(s) + i
      <4>1. PICK i \in 1 .. Len(t) : k = Len(s) + i
        BY <3>3
      <4>2. (k - 1) % Word # 0
        <5>1. k - 1 = Len(flash) + Len(flash_buf) + i - 1
          BY <1>2, <1>6, <4>1
        <5>. QED
          BY <1>5, <5>1
      <4>3. ASSUME k % Word # 0
            PROVE  flash'[k + 1] = Pad
        <5>1. i # Len(t)
          BY <1>5, <1>6, <4>1, <4>3
        <5>2. i + 1 \in 1 .. Len(t) /\ k + 1 = Len(s) + (i + 1)
          BY <1>2, <1>6, <1>8, <4>1, <5>1
        <5>. QED
          BY <1>5, <1>8, <5>2
      <4>. QED
        BY <4>2, <4>3
    <3>. QED
      BY <1>6, <1>8, <3>1, <3>2, <3>3
  <2>. QED
    BY <2>1 DEF Padded
<1>11. <<>> \in Seq(Log) /\ Len(<<>>) = 0
  OBVIOUS
<1>12. flash' \o flash_buf' = s \o t
  BY <1>1, <1>7, <1>8
<1>13. /\ writer'[w].left = writer[w].left /\ writer'[w].count = writer[w].count
       /\ writer'[w].pc = "idle" => writer'[w].left = <<>>
       /\ \A v \in Writers \ {w} : writer'[v] = writer[v]
       /\ writer' \in [Writers -> [pc : {"idle", "write", "flush"}, left : Seq(Log), count : Nat]]
  BY <1>1, <1>2
<1>14. LeftIs(w)'
  BY <1>2, <1>13 DEF LeftIs
<1>15. \A k \in 1 .. Len(t) : t[k][1] = Nobody
  BY <1>5 DEF Pad, Flash!Pad
<1>16. Ordered(s \o t, writer'[w].count - Len(writer'[w].left), w)
  <2>1. PICK x \in Seq(Log), put \in Nat, y \in Seq(Log) :
          x = s /\ put = writer[w].count - Len(writer[w].left) /\ y = t
    BY <1>2, <1>5
  <2>2. Ordered(x, put, w) /\ \A k \in 1 .. Len(y) : y[k][1] # w
    BY <1>2, <1>3, <1>15, <2>1
  <2>3. Ordered(x \o y, put, w)
    BY <2>2, OthersAdd
  <2>. QED
    BY <1>13, <2>1, <2>3
<1>17. /\ flash_buf' \in Seq(Log) /\ Len(flash_buf') <= FlashBufSize
       /\ \A k \in 1 .. Len(flash_buf') : flash_buf'[k] # Pad
       /\ Len(writer'[w].left) <= writer'[w].count
  BY <1>1, <1>2, <1>3, <1>11, <1>13
<1>18. \A k \in 1 .. Len(t) : t[k][1] \in {w, Nobody}
  BY <1>15
<1>. QED
  BY <1>5, <1>8, <1>9, <1>10, <1>12, <1>13, <1>14, <1>16, <1>17, <1>18, WriterGoesOn DEF s

(* The steps that leave the bytes where they are.                          *)
LEMMA SameBytes ==
  ASSUME FlashInv, UNCHANGED <<flash_buf, flash, writer>>
  PROVE  FlashInv'
<1>1. flash_buf' = flash_buf /\ flash' = flash /\ writer' = writer
  OBVIOUS
<1>2. FlashTypes'
  BY <1>1, Zenon DEF FlashInv, FlashTypes
<1>3. ASSUME NEW w \in Writers
      PROVE  LeftIs(w)' /\ Ordered(flash \o flash_buf, writer[w].count - Len(writer[w].left), w)'
  <2>1. LeftIs(w) /\ Ordered(flash \o flash_buf, writer[w].count - Len(writer[w].left), w)
    BY DEF FlashInv
  <2>2. Ordered(flash' \o flash_buf', writer'[w].count - Len(writer'[w].left), w)
    BY <1>1, <2>1
  <2>3. LeftIs(w)'
    BY <1>1, <2>1, Zenon DEF LeftIs
  <2>. QED
    BY <2>2, <2>3 DEF Ordered
<1>. QED
  BY <1>1, <1>2, <1>3, Zenon DEF FlashInv, Padded

LEMMA FlushCallKeeps ==
  ASSUME FlashInv, NEW w \in Writers, Flash!FlushCall(w)
  PROVE  FlashInv'
<1>1. /\ writer' = [writer EXCEPT ![w].pc = "flush"] /\ UNCHANGED <<flash_buf, flash>>
  BY DEF Flash!FlushCall
<1>2. writer \in [Writers -> [pc : {"idle", "write", "flush"}, left : Seq(Log), count : Nat]]
  BY AtWriter
<1>3. /\ writer' \in [Writers -> [pc : {"idle", "write", "flush"}, left : Seq(Log), count : Nat]]
      /\ \A v \in Writers : /\ writer'[v].left = writer[v].left
                            /\ writer'[v].count = writer[v].count
                            /\ writer'[v].pc = "idle" => writer[v].pc = "idle"
  BY <1>1, <1>2
<1>4. FlashTypes'
  BY <1>1, <1>3 DEF FlashInv, FlashTypes
<1>5. ASSUME NEW v \in Writers
      PROVE  LeftIs(v)' /\ Ordered(flash \o flash_buf, writer[v].count - Len(writer[v].left), v)'
  <2>1. LeftIs(v) /\ Ordered(flash \o flash_buf, writer[v].count - Len(writer[v].left), v)
    BY DEF FlashInv
  <2>2. writer'[v].left = writer[v].left /\ writer'[v].count = writer[v].count
    BY <1>3
  <2>3. Ordered(flash' \o flash_buf', writer'[v].count - Len(writer'[v].left), v)
    BY <1>1, <2>1, <2>2
  <2>4. LeftIs(v)'
    BY <2>1, <2>2, Zenon DEF LeftIs
  <2>. QED
    BY <2>3, <2>4 DEF Ordered
<1>6. Len(flash') % Word = 0 /\ Padded(flash)' /\ \A k \in 1 .. Len(flash_buf') : flash_buf'[k] # Pad
  BY <1>1, Zenon DEF FlashInv, Padded
<1>. QED
  BY <1>4, <1>5, <1>6, Zenon DEF FlashInv, Pad, Flash!Pad

(* To clean the flash drops all that was written.                          *)
LEMMA CleanKeeps ==
  ASSUME FlashInv, Flash!ElogFlashAssumption, Flash!Clean
  PROVE  FlashInv'
<1>1. flash' = <<>> /\ flash_buf' = <<>> /\ writer' = writer
  BY DEF Flash!Clean
<1>2. Word \in Nat \ {0} /\ FlashBufSize \in Nat
  BY DEF Flash!ElogFlashAssumption
<1>3. <<>> \in Seq(Log) /\ Len(<<>>) = 0 /\ <<>> \o <<>> = <<>> /\ 0 % Word = 0
  BY <1>2
<1>4. FlashTypes'
  BY <1>1, <1>2, <1>3 DEF FlashInv, FlashTypes
<1>. QED
  BY <1>1, <1>3, <1>4 DEF FlashInv, Padded, LeftIs, Ordered

LEMMA FlashInvStep ==
  Flash!ElogFlashAssumption /\ FlashInv /\ [Flash!Next]_(Flash!vars) => FlashInv'
<1> SUFFICES ASSUME Flash!ElogFlashAssumption, FlashInv, [Flash!Next]_(Flash!vars)
             PROVE  FlashInv'
  OBVIOUS
<1>1. CASE UNCHANGED Flash!vars
  BY <1>1, SameBytes DEF Flash!vars
<1>2. CASE Flash!Clean
  BY <1>2, CleanKeeps
<1>3. ASSUME NEW w \in Writers, Flash!WriterStep(w)
      PROVE  FlashInv'
  <2>1. CASE Flash!Lock(w)
    BY <2>1, SameBytes DEF Flash!Lock
  <2>2. CASE Flash!WriteFill(w)
    BY <2>2, WriteFillKeeps
  <2>3. CASE Flash!WriteRest(w)
    BY <2>3, WriteRestKeeps
  <2>4. CASE Flash!Flush(w)
    BY <2>4, FlushKeeps
  <2>5. CASE Flash!FlushCall(w)
    BY <2>5, FlushCallKeeps
  <2>6. CASE \E n \in WriteSizes : Flash!WriteCall(w, n)
    BY <2>6, WriteCallKeeps
  <2>. QED
    BY <1>3, <2>1, <2>2, <2>3, <2>4, <2>5, <2>6 DEF Flash!WriterStep
<1>. QED
  BY <1>1, <1>2, <1>3 DEF Flash!Next

---------------------------------------------------------------------------
(* Where elog_flash_output reads the last n2 of n bytes: either all of it  *)
(* is one read, or no byte is skipped.                                     *)
From(n, size1) == Word * ((n - size1) \div Word)
Turns(size1) == (size1 - 1) \div ReadSize
Over(size1) == (Word - ((size1 - Turns(size1) * ReadSize) % Word)) % Word

LEMMA RecentIsAt ==
  ASSUME NEW n \in Nat, NEW n2 \in 1 .. n, Word \in Nat \ {0}, ReadSize \in Nat \ {0},
         n % Word = 0, ReadSize % Word = 0, n2 % Word = 0 \/ n2 <= ReadSize
  PROVE  /\ From(n, n2) \in Nat /\ Over(n2) \in Nat /\ Turns(n2) * ReadSize \in 0 .. n2
         /\ From(n, n2) + Over(n2) + n2 = n
         /\ Turns(n2) = 0 \/ Over(n2) = 0
<1>0. PICK from, turns, over : from = From(n, n2) /\ turns = Turns(n2) /\ over = Over(n2)
  OBVIOUS
<1>. /\ from = Word * ((n - n2) \div Word)
     /\ turns = (n2 - 1) \div ReadSize
     /\ over = (Word - ((n2 - turns * ReadSize) % Word)) % Word
  BY <1>0 DEF From, Turns, Over
<1>. SUFFICES /\ from \in Nat /\ over \in Nat /\ turns * ReadSize \in 0 .. n2
              /\ from + over + n2 = n
              /\ turns = 0 \/ over = 0
  BY <1>0
<1>1. PICK d \in Nat \ {0}, e \in Nat \ {0} : d = Word /\ e = ReadSize
  OBVIOUS
<1>2. PICK a \in Nat : n = a * d
  <2>1. n \div d \in Nat /\ n = (n \div d) * d + (n % d)
    BY <1>1, DivMod
  <2>2. n % d = 0
    BY <1>1
  <2>3. PICK q \in Nat : q = n \div d
    BY <2>1
  <2>4. n = q * d
    BY <2>1, <2>2, <2>3
  <2>. QED
    BY <2>4
<1>3. PICK c \in Nat : e = c * d
  <2>1. e \div d \in Nat /\ e = (e \div d) * d + (e % d)
    BY <1>1, DivMod
  <2>2. e % d = 0
    BY <1>1
  <2>3. PICK q \in Nat : q = e \div d
    BY <2>1
  <2>4. e = q * d
    BY <2>1, <2>2, <2>3
  <2>. QED
    BY <2>4
<1>4. PICK b \in Nat, r \in 0 .. d - 1 : n2 = b * d + r /\ n2 % d = r
  <2>1. n2 \in Nat
    OBVIOUS
  <2>2. n2 \div d \in Nat /\ n2 % d \in 0 .. d - 1 /\ n2 = (n2 \div d) * d + (n2 % d)
    BY <1>1, <2>1, DivMod
  <2>. QED
    BY <2>2
<1>5. PICK m \in Nat : m = n2 - 1
  OBVIOUS
<1>6. PICK p \in 0 .. e - 1 : turns \in Nat /\ m = turns * e + p
  <2>1. m \div e \in Nat /\ m % e \in 0 .. e - 1 /\ m = (m \div e) * e + (m % e)
    BY DivMod
  <2>. QED
    BY <1>1, <1>5, <2>1
<1>7. turns * e \in Nat /\ turns * e <= m /\ n2 - turns * e = p + 1
  <2>1. PICK x \in Nat : x = turns
    BY <1>6
  <2>2. x * e \in Nat
    OBVIOUS
  <2>. QED
    BY <1>5, <1>6, <2>1, <2>2
<1>8. CASE r = 0
  <2>1. n - n2 = (a - b) * d + 0
    BY <1>2, <1>4, <1>8
  <2>2. b <= a
    <3>1. CASE a < b
      <4>1. a * d < b * d
        BY <3>1
      <4>. QED
        BY <1>2, <1>4, <1>8, <4>1
    <3>. QED
      BY <3>1
  <2>3. from = n - n2
    <3>1. PICK g \in Nat : g = a - b
      BY <2>2
    <3>2. (g * d + 0) \div d = g
      <4>1. 0 \in 0 .. d - 1
        OBVIOUS
      <4>. QED
        BY <4>1, DivModIs
    <3>3. g * d + 0 = n - n2 /\ d * g = g * d /\ g * d + 0 = g * d
      BY <2>1, <3>1
    <3>4. from = d * ((n - n2) \div d)
      BY <1>1
    <3>5. (n - n2) \div d = g
      BY <3>2, <3>3, Zenon
    <3>. QED
      BY <3>3, <3>4, <3>5
  <2>4. over = 0
    <3>1. PICK x \in Nat : x = turns
      BY <1>6
    <3>2. n2 - turns * e = b * d - x * (c * d) /\ x * (c * d) = (x * c) * d
      BY <1>3, <1>4, <1>8, <3>1
    <3>3. PICK y \in Nat : y = x * c
      OBVIOUS
    <3>4. p + 1 = (b - y) * d
      BY <1>7, <3>2, <3>3
    <3>5. y < b
      <4>1. CASE b <= y
        <5>1. b * d <= y * d
          BY <4>1
        <5>2. (b - y) * d = b * d - y * d /\ b * d \in Nat /\ y * d \in Nat
          OBVIOUS
        <5>. QED
          BY <3>4, <5>1, <5>2
      <4>. QED
        BY <4>1
    <3>6. PICK z \in Nat : z = b - y
      BY <3>5
    <3>7. (z * d + 0) % d = 0
      <4>1. 0 \in 0 .. d - 1
        OBVIOUS
      <4>. QED
        BY <4>1, DivModIs
    <3>8. (p + 1) % d = 0
      BY <3>4, <3>6, <3>7
    <3>9. over = (d - 0) % d
      BY <1>1, <1>7, <3>8
    <3>10. (1 * d + 0) % d = 0
      <4>1. 0 \in 0 .. d - 1 /\ 1 \in Nat
        OBVIOUS
      <4>. QED
        BY <4>1, DivModIs
    <3>. QED
      BY <3>9, <3>10
  <2>. QED
    BY <1>1, <1>5, <1>6, <1>7, <2>3, <2>4
<1>9. CASE r # 0
  <2>1. n2 <= e
    BY <1>1, <1>4, <1>9
  <2>2. turns = 0
    <3>1. (0 * e + m) \div e = 0
      <4>1. m \in 0 .. e - 1 /\ 0 \in Nat
        BY <1>5, <2>1
      <4>. QED
        BY <4>1, DivModIs
    <3>. QED
      BY <1>1, <1>5, <3>1
  <2>3. over = d - r
    <3>1. n2 - turns * ReadSize = n2
      BY <1>1, <2>2
    <3>2. over = (d - r) % d
      BY <1>1, <1>4, <3>1
    <3>3. d - r \in 0 .. d - 1
      BY <1>9
    <3>. QED
      BY <3>2, <3>3
  <2>4. b < a
    <3>1. CASE a <= b
      <4>1. a * d <= b * d
        BY <3>1
      <4>. QED
        BY <1>2, <1>4, <1>9, <4>1
    <3>. QED
      BY <3>1
  <2>5. PICK g \in Nat : g = a - b - 1
    BY <2>4
  <2>6. n - n2 = g * d + (d - r)
    <3>1. g * d = a * d - b * d - d
      BY <2>5
    <3>. QED
      BY <1>2, <1>4, <3>1
  <2>7. (g * d + (d - r)) \div d = g
    <3>1. PICK x \in 0 .. d - 1 : x = d - r
      BY <1>9
    <3>2. (g * d + x) \div d = g
      BY DivModIs
    <3>. QED
      BY <3>1, <3>2
  <2>8. from = d * g /\ d * g = g * d /\ g * d \in Nat
    BY <1>1, <2>6, <2>7
  <2>9. turns * ReadSize = 0
    BY <1>1, <2>2
  <2>. QED
    BY <2>2, <2>3, <2>6, <2>8, <2>9
<1>. QED
  BY <1>8, <1>9

LEMMA RecentIsPrinted ==
  ASSUME Flash!ElogFlashAssumption, FlashInv
  PROVE  Flash!PrintsRecent
<1> SUFFICES ASSUME NEW size1 \in 1 .. Len(flash), size1 % Word = 0 \/ size1 <= ReadSize
             PROVE  Flash!PrintedRecent(size1) = Flash!Recent(size1)
  BY DEF Flash!PrintsRecent
<1>1. PICK s \in Seq(Log) : s = flash
  BY DEF FlashInv, FlashTypes
<1>2. PICK n \in Nat : n = Len(s)
  OBVIOUS
<1>3. PICK n2 \in 1 .. n : n2 = size1
  BY <1>1, <1>2
<1>4. /\ Word \in Nat \ {0} /\ ReadSize \in Nat \ {0} /\ ReadSize % Word = 0
      /\ n % Word = 0 /\ (n2 % Word = 0 \/ n2 <= ReadSize)
  BY <1>1, <1>2, <1>3 DEF Flash!ElogFlashAssumption, FlashInv
<1>5. PICK from, turns, over : from = From(n, n2) /\ turns = Turns(n2) /\ over = Over(n2)
  OBVIOUS
<1>7. /\ from = Word * ((n - n2) \div Word)
      /\ turns = (n2 - 1) \div ReadSize
      /\ over = (Word - ((n2 - turns * ReadSize) % Word)) % Word
  BY <1>5 DEF From, Turns, Over
<1>8. /\ from \in Nat /\ over \in Nat /\ turns * ReadSize \in 0 .. n2
      /\ from + over + n2 = n
      /\ turns = 0 \/ over = 0
  BY <1>4, <1>5, RecentIsAt
<1>9. PICK t \in 0 .. n2 : t = turns * ReadSize
  BY <1>8
<1>10. Flash!Printed(n - n2, n2) =
         SubSeq(s, from + 1, from + t) \o SubSeq(s, from + t + over + 1, from + n2 + over)
  <2>1. from + n2 <= Len(s)
    BY <1>2, <1>8
  <2>2. n2 # 0
    OBVIOUS
  <2>3. ~ (from + n2 > Len(s))
    BY <1>2, <1>8
  <2>. QED
    BY <1>1, <1>7, <1>9, <2>2, <2>3, Zenon DEF Flash!Printed
<1>11. n - n2 + 1 \in 1 .. Len(s) + 1 /\ n \in Nat /\ Len(s) \in Nat /\ n2 \in Nat
  BY <1>2
<1>12. SubSeq(s, from + 1, from + t) \o SubSeq(s, from + t + over + 1, from + n2 + over)
         = SubSeq(s, n - n2 + 1, n)
  <2>1. CASE over = 0
    <3>1. PICK i \in 1 .. Len(s) + 1 : i = from + 1
      BY <1>2, <1>8
    <3>2. PICK j \in i - 1 .. Len(s) : j = from + t
      BY <1>2, <1>8, <2>1, <3>1
    <3>3. n \in j .. Len(s)
      BY <1>2, <1>8, <1>11, <2>1, <3>2
    <3>4. SubSeq(s, i, j) \o SubSeq(s, j + 1, n) = SubSeq(s, i, n)
      BY <3>3, ConcatAdjacentSubSeq
    <3>5. /\ i = n - n2 + 1 /\ j + 1 = from + t + over + 1 /\ n = from + n2 + over
      BY <1>8, <1>11, <2>1, <3>1, <3>2
    <3>. QED
      BY <3>1, <3>2, <3>4, <3>5
  <2>2. CASE turns = 0
    <3>1. t = 0
      BY <1>4, <1>9, <2>2
    <3>2. /\ from + t = from /\ from + t + over + 1 = n - n2 + 1 /\ from + n2 + over = n
      BY <1>8, <1>11, <3>1
    <3>3. SubSeq(s, from + 1, from) = <<>>
      BY <1>8
    <3>4. SubSeq(s, n - n2 + 1, n) \in Seq(Log)
      BY <1>2, <1>11
    <3>5. <<>> \o SubSeq(s, n - n2 + 1, n) = SubSeq(s, n - n2 + 1, n)
      <4>1. PICK u \in Seq(Log) : u = SubSeq(s, n - n2 + 1, n)
        BY <3>4
      <4>. QED
        BY <4>1
    <3>. QED
      BY <3>2, <3>3, <3>5
  <2>. QED
    BY <1>8, <2>1, <2>2
<1>13. Flash!PrintedRecent(n2) = Flash!Printed(n - n2, n2)
  <2>1. n2 # 0 /\ ~ (n2 > Len(flash))
    BY <1>1, <1>2
  <2>. QED
    BY <1>1, <1>2, <2>1 DEF Flash!PrintedRecent
<1>. QED
  BY <1>1, <1>2, <1>3, <1>10, <1>12, <1>13 DEF Flash!Recent

(* The bytes of every writer are kept in order, and the last of them are   *)
(* printed (elog_flash.c:87-236), for any number of writers, sizes and     *)
(* interleavings.                                                          *)
THEOREM FlashKeepsLogsHolds ==
  ASSUME Flash!ElogFlashAssumption
  PROVE  Flash!Spec => []FlashKeepsLogs
<1>1. FlashInv => FlashKeepsLogs
  <2>1. FlashInv => Flash!FlashKeepsLogs
    BY FlashInvIs DEF FlashInv
  <2>. QED
    BY <2>1, RecentIsPrinted DEF FlashKeepsLogs
<1>. QED
  BY <1>1, FlashInvInit, FlashInvStep, PTL DEF Flash!Spec
---------------------------------------------------------------------------
(* The line buffer.  A line without a NUL in it is one of these            *)
(* characters.                                                             *)
Text == {"p", "t", "c", "n"}
Any == Text \cup {"0"}

LEMMA EmptyIs == \A S : <<>> \in Seq(S) /\ Len(<<>>) = 0
  OBVIOUS

LEMMA CharsAre ==
  ASSUME NEW S, NEW c \in S, NEW n \in Nat
  PROVE  /\ Line!Chars(c, n) \in Seq(S) /\ Len(Line!Chars(c, n)) = n
         /\ \A k \in 1 .. n : Line!Chars(c, n)[k] = c
<1> DEFINE s == [k \in 1 .. n |-> c]
<1>1. s \in [1 .. n -> S] /\ \A k \in 1 .. n : s[k] = c
  OBVIOUS
<1>2. Line!Chars(c, n) = s
  BY DEF Line!Chars
<1> HIDE DEF s
<1>3. s \in Seq(S) /\ Len(s) = n
  BY <1>1
<1>. QED
  BY <1>1, <1>2, <1>3

LEMMA FirstOf ==
  ASSUME NEW S, NEW s \in Seq(S), NEW n \in 0 .. Len(s)
  PROVE  /\ SubSeq(s, 1, n) \in Seq(S) /\ Len(SubSeq(s, 1, n)) = n
         /\ \A k \in 1 .. n : SubSeq(s, 1, n)[k] = s[k]
         /\ n = Len(s) => SubSeq(s, 1, n) = s
<1>1. Len(s) \in Nat /\ n \in Nat /\ n <= Len(s) /\ \A i \in 1 .. Len(s) : s[i] \in S
  OBVIOUS
<1>2. SubSeq(s, 1, n) = [k \in 1 .. n |-> s[k]]
  BY <1>1
<1>3. \A k \in 1 .. n : s[k] \in S
  BY <1>1
<1> DEFINE t == [k \in 1 .. n |-> s[k]]
<1>4. t \in [1 .. n -> S] /\ \A k \in 1 .. n : t[k] = s[k]
  BY <1>3
<1>5. n = Len(s) => t = s
  BY <1>1
<1> HIDE DEF t
<1>6. t \in Seq(S) /\ Len(t) = n
  BY <1>1, <1>4
<1>. QED
  BY <1>2, <1>4, <1>5, <1>6 DEF t

LEMMA Joined ==
  ASSUME NEW S, NEW s \in Seq(S), NEW t \in Seq(S)
  PROVE  /\ s \o t \in Seq(S) /\ Len(s \o t) = Len(s) + Len(t)
         /\ \A k \in 1 .. Len(s) : (s \o t)[k] = s[k]
         /\ \A k \in 1 .. Len(t) : (s \o t)[Len(s) + k] = t[k]
         /\ Len(s) \in Nat /\ Len(t) \in Nat
  OBVIOUS

(* The smaller one of two numbers.                                         *)
LEMMA SmallerIs ==
  ASSUME NEW a \in Int, NEW b \in Int
  PROVE  /\ Line!Smaller(a, b) \in {a, b} /\ Line!Smaller(a, b) <= a /\ Line!Smaller(a, b) <= b
  BY DEF Line!Smaller

(* What elog_strcpy makes of a buffer: it never overflows it, and takes    *)
(* the whole text if there is room for it.                                 *)
LEMMA StrcpyIs ==
  ASSUME NEW S, NEW buf1 \in Seq(S), NEW s \in Seq(S), LineSize \in Nat, Len(buf1) <= LineSize
  PROVE  /\ Line!Strcpy(buf1, s) \in Seq(S)
         /\ Len(Line!Strcpy(buf1, s)) \in Nat /\ Len(Line!Strcpy(buf1, s)) <= LineSize
         /\ Len(buf1) + Len(s) <= LineSize => Line!Strcpy(buf1, s) = buf1 \o s
         /\ \A k \in 1 .. Len(Line!Strcpy(buf1, s)) :
              \/ k \in 1 .. Len(buf1) /\ Line!Strcpy(buf1, s)[k] = buf1[k]
              \/ \E i \in 1 .. Len(s) : Line!Strcpy(buf1, s)[k] = s[i]
<1>1. Len(buf1) \in Nat /\ Len(s) \in Nat
  OBVIOUS
<1>2. PICK a \in Nat, b \in Nat : a = Len(s) /\ b = LineSize - Len(buf1)
  <2>1. LineSize - Len(buf1) \in Nat
    BY <1>1
  <2>. QED
    BY <1>1, <2>1, Zenon
<1>3. PICK n \in 0 .. a : /\ n = Line!Smaller(a, b) /\ n <= b
                          /\ Len(buf1) + Len(s) <= LineSize => n = a
  <2>1. Line!Smaller(a, b) \in {a, b} /\ Line!Smaller(a, b) <= a /\ Line!Smaller(a, b) <= b
    BY SmallerIs
  <2>2. Len(buf1) + Len(s) <= LineSize => a <= b
    BY <1>1, <1>2
  <2>3. Len(buf1) + Len(s) <= LineSize => Line!Smaller(a, b) = a
    BY <2>2 DEF Line!Smaller
  <2>4. Line!Smaller(a, b) \in 0 .. a
    BY <2>1
  <2>. QED
    BY <2>1, <2>3, <2>4, Zenon
<1>4. PICK t \in Seq(S) : /\ t = SubSeq(s, 1, n) /\ Len(t) = n /\ (n = Len(s) => t = s)
                          /\ \A k \in 1 .. n : t[k] = s[k]
  <2>1. n \in 0 .. Len(s)
    BY <1>2
  <2>2. /\ SubSeq(s, 1, n) \in Seq(S) /\ Len(SubSeq(s, 1, n)) = n
        /\ n = Len(s) => SubSeq(s, 1, n) = s
        /\ \A k \in 1 .. n : SubSeq(s, 1, n)[k] = s[k]
    BY <2>1, FirstOf
  <2>. QED
    BY <2>2, Zenon
<1>5. /\ buf1 \o t \in Seq(S) /\ Len(buf1 \o t) = Len(buf1) + Len(t)
      /\ \A k \in 1 .. Len(buf1) : (buf1 \o t)[k] = buf1[k]
      /\ \A k \in 1 .. Len(t) : (buf1 \o t)[Len(buf1) + k] = t[k]
  BY Joined
<1>6. Line!Strcpy(buf1, s) = buf1 \o t
  BY <1>2, <1>3, <1>4 DEF Line!Strcpy
<1>7. Len(buf1) + Len(t) \in Nat /\ Len(buf1) + Len(t) <= LineSize
  BY <1>1, <1>2, <1>3, <1>4
<1>8. ASSUME NEW k \in 1 .. Len(buf1 \o t)
      PROVE  \/ k \in 1 .. Len(buf1) /\ (buf1 \o t)[k] = buf1[k]
             \/ \E i \in 1 .. Len(s) : (buf1 \o t)[k] = s[i]
  <2>1. CASE k \in 1 .. Len(buf1)
    BY <1>5, <2>1
  <2>2. CASE k \notin 1 .. Len(buf1)
    <3>1. PICK i \in 1 .. Len(t) : k = Len(buf1) + i
      <4>1. k - Len(buf1) \in 1 .. Len(t) /\ k = Len(buf1) + (k - Len(buf1))
        BY <1>1, <1>4, <1>5, <2>2
      <4>. QED
        BY <4>1, Zenon
    <3>2. i \in 1 .. n /\ i \in 1 .. Len(s)
      BY <1>2, <1>4
    <3>3. (buf1 \o t)[k] = s[i]
      BY <1>4, <1>5, <3>1, <3>2
    <3>. QED
      BY <3>2, <3>3
  <2>. QED
    BY <2>1, <2>2
<1>9. Len(buf1) + Len(s) <= LineSize => buf1 \o t = buf1 \o s
  BY <1>2, <1>3, <1>4
<1>10. Len(buf1 \o t) \in Nat /\ Len(buf1 \o t) <= LineSize
  BY <1>5, <1>7
<1>. QED
  BY <1>5, <1>6, <1>8, <1>9, <1>10, Zenon

(* What vsnprintf leaves in a buffer that is not full: the text, as much   *)
(* of it as fits, and a NUL.                                               *)
LEMMA FormattedIs ==
  ASSUME NEW buf1 \in Seq(Text), NEW n \in Nat, LineSize \in Nat, Len(buf1) < LineSize
  PROVE  LET f == Line!Formatted(buf1, n)
         IN  /\ f \in Seq(Any)
             /\ Len(f) \in Nat /\ Len(f) <= LineSize
             /\ Len(buf1) + n < LineSize => Len(f) = Len(buf1) + n + 1
             /\ Len(buf1) + n >= LineSize => Len(f) = LineSize
             /\ \A k \in 1 .. Len(f) - 1 : f[k] \in Text
<1> DEFINE f == Line!Formatted(buf1, n)
<1>1. PICK room \in Nat : room = LineSize - Len(buf1) /\ room # 0
  OBVIOUS
<1>2. PICK m \in Nat : /\ m = Line!Smaller(n, room - 1) /\ m <= room - 1
                       /\ n < room => m = n
                       /\ n >= room => m = room - 1
  <2>0. room - 1 \in Nat
    BY <1>1
  <2>1. PICK x \in Nat : x = room - 1
    BY <2>0, Zenon
  <2>2. /\ Line!Smaller(n, x) \in {n, x} /\ Line!Smaller(n, x) <= n /\ Line!Smaller(n, x) <= x
        /\ n <= x => Line!Smaller(n, x) = n
        /\ n > x => Line!Smaller(n, x) = x
    BY DEF Line!Smaller
  <2>3. Line!Smaller(n, x) \in Nat
    BY <2>2
  <2>4. PICK y \in Nat : y = Line!Smaller(n, x)
    BY <2>3
  <2>5. y <= x /\ (n < room => y = n) /\ (n >= room => y = x)
    BY <1>1, <2>1, <2>2, <2>4
  <2>. QED
    BY <2>1, <2>4, <2>5
<1>3. PICK t \in Seq(Text) : t = Line!Chars("t", m) /\ Len(t) = m
  BY CharsAre DEF Text
<1>4. PICK u \in Seq(Text) : u = buf1 \o t /\ Len(u) = Len(buf1) + m /\ \A k \in 1 .. Len(u) : u[k] \in Text
  <2>1. buf1 \o t \in Seq(Text) /\ Len(buf1 \o t) = Len(buf1) + Len(t)
    BY Joined
  <2>2. \A k \in 1 .. Len(buf1 \o t) : (buf1 \o t)[k] \in Text
    BY <2>1
  <2>3. Len(buf1 \o t) = Len(buf1) + m
    BY <1>3, <2>1
  <2>. QED
    BY <2>1, <2>2, <2>3, Zenon
<1>5. u \in Seq(Any) /\ <<"0">> \in Seq(Any) /\ Len(<<"0">>) = 1
  <2>1. Text \subseteq Any /\ "0" \in Any
    BY DEF Any
  <2>2. \A k \in 1 .. Len(u) : u[k] \in Any
    BY <1>4, <2>1
  <2>3. u \in [1 .. Len(u) -> Any] /\ Len(u) \in Nat
    <3>1. u = [k \in 1 .. Len(u) |-> u[k]] /\ Len(u) \in Nat
      OBVIOUS
    <3>. QED
      BY <2>2, <3>1
  <2>4. u \in Seq(Any)
    BY <2>3
  <2>5. <<"0">> \in Seq(Any) /\ Len(<<"0">>) = 1
    BY <2>1
  <2>. QED
    BY <2>4, <2>5
<1>6. f = u \o <<"0">>
  <2>1. ~ (room = 0)
    BY <1>1
  <2>. QED
    BY <1>1, <1>2, <1>3, <1>4, <2>1, Zenon DEF Line!Formatted
<1>7. PICK z \in Seq(Any) : z = <<"0">> /\ Len(z) = 1
  BY <1>5
<1>8. /\ u \o z \in Seq(Any) /\ Len(u \o z) = Len(u) + Len(z)
      /\ \A k \in 1 .. Len(u) : (u \o z)[k] = u[k]
  BY <1>5, Joined
<1> HIDE DEF f
<1>9. f \in Seq(Any) /\ Len(f) = Len(u) + 1 /\ \A k \in 1 .. Len(u) : f[k] = u[k]
  BY <1>6, <1>7, <1>8
<1>10. Len(buf1) \in Nat /\ Len(u) \in Nat
  OBVIOUS
<1>11. Len(f) - 1 = Len(u) /\ \A k \in 1 .. Len(f) - 1 : f[k] \in Text
  <2>1. Len(f) - 1 = Len(u)
    BY <1>9, <1>10
  <2>. QED
    BY <1>4, <1>9, <2>1
<1>12. /\ Len(f) <= LineSize
       /\ Len(buf1) + n < LineSize => Len(f) = Len(buf1) + n + 1
       /\ Len(buf1) + n >= LineSize => Len(f) = LineSize
  <2>1. PICK l \in Nat : l = Len(buf1)
    BY <1>10
  <2>2. Len(f) = l + m + 1 /\ room = LineSize - l
    BY <1>1, <1>4, <1>9, <2>1
  <2>3. /\ l + m + 1 <= LineSize
        /\ l + n < LineSize => m = n
        /\ l + n >= LineSize => l + m + 1 = LineSize
    <3>1. l + m + 1 <= LineSize
      <4>1. m <= room - 1
        BY <1>2
      <4>. QED
        BY <1>1, <2>2, <4>1
    <3>2. l + n < LineSize => n < room
      BY <2>2
    <3>3. l + n >= LineSize => n >= room
      BY <2>2
    <3>4. m = room - 1 => l + m + 1 = LineSize
      BY <1>1, <2>2
    <3>. QED
      BY <1>2, <3>1, <3>2, <3>3, <3>4, Zenon
  <2>. QED
    BY <2>1, <2>2, <2>3
<1>13. Len(f) \in Nat
  BY <1>9
<1>. QED
  BY <1>9, <1>11, <1>12, <1>13, Zenon DEF f

(* A line that is put together of a body and its ends is whole.            *)
LEMMA EndsOnWith ==
  ASSUME NEW S, NEW body \in Seq(S), NEW c \in Seq(S), {"c", "n"} \subseteq S,
         LineSize \in Nat, Len(body) + Len(c) + 1 <= LineSize
  PROVE  LET text == Line!Strcpy(Line!Strcpy(body, c), Line!Newline)
         IN  /\ text \in Seq(S) /\ Len(text) = Len(body) + Len(c) + 1
             /\ text[Len(text)] = "n"
             /\ \A k \in 1 .. Len(c) : text[Len(body) + k] = c[k]
<1> DEFINE text == Line!Strcpy(Line!Strcpy(body, c), Line!Newline)
<1>1. Len(body) \in Nat /\ Len(c) \in Nat
  OBVIOUS
<1>2. PICK z \in Seq(S) : z = Line!Newline /\ Len(z) = 1 /\ z[1] = "n"
  <2>1. <<"n">> \in Seq(S) /\ Len(<<"n">>) = 1 /\ <<"n">>[1] = "n"
    OBVIOUS
  <2>. QED
    BY <2>1 DEF Line!Newline
<1>3. PICK u \in Seq(S) : /\ u = Line!Strcpy(body, c) /\ Len(u) = Len(body) + Len(c)
                          /\ \A k \in 1 .. Len(c) : u[Len(body) + k] = c[k]
  <2>1. Line!Strcpy(body, c) = body \o c
    <3>1. Len(body) <= LineSize /\ Len(body) + Len(c) <= LineSize
      BY <1>1
    <3>. QED
      BY <3>1, StrcpyIs
  <2>2. /\ body \o c \in Seq(S) /\ Len(body \o c) = Len(body) + Len(c)
        /\ \A k \in 1 .. Len(c) : (body \o c)[Len(body) + k] = c[k]
    BY Joined
  <2>. QED
    BY <2>1, <2>2
<1>4. Line!Strcpy(u, z) = u \o z
  <2>1. Len(u) <= LineSize /\ Len(u) + Len(z) <= LineSize
    BY <1>1, <1>2, <1>3
  <2>. QED
    BY <2>1, StrcpyIs
<1>5. /\ u \o z \in Seq(S) /\ Len(u \o z) = Len(u) + Len(z)
      /\ \A k \in 1 .. Len(u) : (u \o z)[k] = u[k]
      /\ \A k \in 1 .. Len(z) : (u \o z)[Len(u) + k] = z[k]
  BY Joined
<1>6. text = u \o z
  BY <1>2, <1>3, <1>4
<1> HIDE DEF text
<1>7. text \in Seq(S) /\ Len(text) = Len(body) + Len(c) + 1 /\ Len(text) = Len(u) + 1
  BY <1>1, <1>2, <1>3, <1>5, <1>6
<1>8. text[Len(text)] = "n"
  <2>1. 1 \in 1 .. Len(z)
    BY <1>2
  <2>. QED
    BY <1>2, <1>5, <1>6, <1>7, <2>1
<1>9. ASSUME NEW k \in 1 .. Len(c)
      PROVE  text[Len(body) + k] = c[k]
  <2>1. Len(body) + k \in 1 .. Len(u)
    BY <1>1, <1>3
  <2>. QED
    BY <1>3, <1>5, <1>6, <2>1
<1>. QED
  BY <1>7, <1>8, <1>9 DEF text

(* What LinesWhole says of a text.                                         *)
Whole(text, kind) ==
    /\ Len(text) <= LineSize
    /\ kind # "raw" => text[Len(text)] = "n"
    /\ kind \in {"plain", "color"} => \A k \in 1 .. Len(text) : text[k] # "0"
    /\ kind = "color" =>
         /\ Len(text) > CsiEnd
         /\ \A k \in Len(text) - CsiEnd .. Len(text) - 1 : text[k] = "c"

(* The body of a log of elog_output, behind the prefix pre: it leaves room *)
(* for both ends, and has no NUL in it unless vsnprintf failed.            *)
Length(pre, n) == IF n >= 0 /\ Len(pre) + n <= LineSize THEN Len(pre) + n ELSE LineSize
Written(pre, n) == Line!Formatted(pre, IF n < 0 THEN 0 ELSE n)
Body(pre, n) ==
    Line!Cut(Written(pre, n) \o Line!Chars("t", LineSize - Len(Written(pre, n))), Length(pre, n))

LEMMA WrittenIs ==
  ASSUME Line!ElogLineAssumption, NEW pre \in Seq(Text), Len(pre) <= LineSize, NEW n \in Int
  PROVE  LET f == Written(pre, n)
         IN  /\ f \in Seq(Any) /\ Len(f) \in Nat /\ Len(f) <= LineSize
             /\ n >= 0 => \A k \in 1 .. Len(f) :
                  k <= Length(pre, n) /\ k < LineSize => f[k] \in Text
             /\ n >= 0 => Length(pre, n) <= Len(f)
<1>1. LineSize \in Nat /\ Len(pre) \in Nat
  BY DEF Line!ElogLineAssumption
<1>2. PICK m \in Nat : m = (IF n < 0 THEN 0 ELSE n) /\ (n >= 0 => m = n)
  <2>1. (IF n < 0 THEN 0 ELSE n) \in Nat /\ (n >= 0 => (IF n < 0 THEN 0 ELSE n) = n)
    OBVIOUS
  <2>. QED
    BY <2>1
<1>3. PICK f : f = Line!Formatted(pre, m)
  OBVIOUS
<1>4. Written(pre, n) = f
  BY <1>2, <1>3, Zenon DEF Written
<1>5. PICK q \in Nat : q = Len(pre)
  BY <1>1
<1>6. PICK l \in Int : l = Length(pre, n) /\ (n >= 0 => l = IF q + m <= LineSize THEN q + m ELSE LineSize)
  <2>1. Length(pre, n) \in Int
    BY <1>1 DEF Length
  <2>2. n >= 0 => Length(pre, n) = IF q + m <= LineSize THEN q + m ELSE LineSize
    BY <1>2, <1>5 DEF Length
  <2>. QED
    BY <2>1, <2>2, Zenon
<1>7. CASE q < LineSize
  <2>1. /\ f \in Seq(Any)
        /\ Len(f) \in Nat /\ Len(f) <= LineSize
        /\ q + m < LineSize => Len(f) = q + m + 1
        /\ q + m >= LineSize => Len(f) = LineSize
        /\ \A k \in 1 .. Len(f) - 1 : f[k] \in Text
    BY <1>1, <1>3, <1>5, <1>7, FormattedIs
  <2>2. n >= 0 => l <= Len(f) /\ (l < Len(f) \/ Len(f) = LineSize)
    BY <1>1, <1>6, <2>1
  <2>3. ASSUME n >= 0, NEW k \in 1 .. Len(f), k <= l, k < LineSize
        PROVE  f[k] \in Text
    <3>1. k \in 1 .. Len(f) - 1
      BY <1>1, <2>1, <2>2, <2>3
    <3>. QED
      BY <2>1, <3>1
  <2>. QED
    BY <1>4, <1>6, <2>1, <2>2, <2>3
<1>8. CASE q = LineSize
  <2>1. LineSize - Len(pre) = 0
    BY <1>1, <1>5, <1>8
  <2>2. f = pre
    BY <1>3, <2>1, Zenon DEF Line!Formatted
  <2>3. \A k \in 1 .. Len(f) : f[k] \in Text
    BY <2>2
  <2>4. f \in Seq(Any)
    <3>1. Text \subseteq Any
      BY DEF Any
    <3>2. pre = [k \in 1 .. Len(pre) |-> pre[k]] /\ \A k \in 1 .. Len(pre) : pre[k] \in Any
      BY <3>1
    <3>3. pre \in [1 .. Len(pre) -> Any]
      BY <3>2
    <3>. QED
      BY <1>1, <2>2, <3>3
  <2>5. n >= 0 => l <= LineSize
    BY <1>1, <1>6
  <2>. QED
    BY <1>1, <1>4, <1>5, <1>6, <1>8, <2>2, <2>3, <2>4, <2>5
<1>. QED
  BY <1>1, <1>5, <1>7, <1>8

LEMMA BodyIs ==
  ASSUME Line!ElogLineAssumption, NEW pre \in Seq(Text), Len(pre) <= LineSize, NEW n \in Int
  PROVE  /\ Body(pre, n) \in Seq(Any) /\ Len(Body(pre, n)) \in Nat
         /\ Len(Body(pre, n)) + CsiEnd + 1 <= LineSize
         /\ n >= 0 => Body(pre, n) \in Seq(Text)
<1>1. LineSize \in Nat /\ CsiEnd \in Nat /\ LineSize > CsiEnd + 1 /\ Len(pre) \in Nat
  BY DEF Line!ElogLineAssumption
<1>2. PICK f \in Seq(Any) : /\ f = Written(pre, n) /\ Len(f) \in Nat /\ Len(f) <= LineSize
                            /\ n >= 0 => Length(pre, n) <= Len(f)
                            /\ n >= 0 => \A k \in 1 .. Len(f) :
                                 k <= Length(pre, n) /\ k < LineSize => f[k] \in Text
  BY WrittenIs
<1>3. PICK l \in Nat : l = Length(pre, n)
  <2>1. Length(pre, n) \in Nat
    <3>1. n >= 0 => Len(pre) + n \in Nat
      BY <1>1
    <3>. QED
      BY <1>1, <3>1 DEF Length
  <2>. QED
    BY <2>1
<1>4. PICK t \in Seq(Any) : t = Line!Chars("t", LineSize - Len(f)) /\ Len(t) = LineSize - Len(f)
  <2>1. LineSize - Len(f) \in Nat
    BY <1>1, <1>2
  <2>2. "t" \in Any
    BY DEF Any, Text
  <2>. QED
    BY <2>1, <2>2, CharsAre
<1>5. PICK whole \in Seq(Any) : /\ whole = f \o t /\ Len(whole) = LineSize
                                /\ \A k \in 1 .. Len(f) : whole[k] = f[k]
  <2>1. /\ f \o t \in Seq(Any) /\ Len(f \o t) = Len(f) + Len(t)
        /\ \A k \in 1 .. Len(f) : (f \o t)[k] = f[k]
    BY Joined
  <2>2. Len(f \o t) = LineSize
    BY <1>1, <1>2, <1>4, <2>1
  <2>. QED
    BY <2>1, <2>2, Zenon
<1>6. PICK c \in 0 .. LineSize : /\ c = (IF l + CsiEnd + 1 > LineSize THEN LineSize - CsiEnd - 1 ELSE l)
                                 /\ c <= l /\ c + CsiEnd + 1 <= LineSize
  <2>1. CASE l + CsiEnd + 1 > LineSize
    <3>1. LineSize - CsiEnd - 1 \in 0 .. LineSize /\ LineSize - CsiEnd - 1 <= l
      BY <1>1, <2>1
    <3>. QED
      BY <1>1, <2>1, <3>1
  <2>2. CASE ~ (l + CsiEnd + 1 > LineSize)
    BY <1>1, <2>2
  <2>. QED
    BY <2>1, <2>2
<1>7. PICK b \in Seq(Any) : /\ b = SubSeq(whole, 1, c) /\ Len(b) = c
                            /\ \A k \in 1 .. c : b[k] = whole[k]
  <2>1. c \in 0 .. Len(whole)
    BY <1>5
  <2>2. /\ SubSeq(whole, 1, c) \in Seq(Any) /\ Len(SubSeq(whole, 1, c)) = c
        /\ \A k \in 1 .. c : SubSeq(whole, 1, c)[k] = whole[k]
    BY <2>1, FirstOf
  <2>. QED
    BY <2>2, Zenon
<1>8. Body(pre, n) = b
  BY <1>2, <1>3, <1>4, <1>5, <1>6, <1>7, Zenon DEF Body, Line!Cut
<1>9. ASSUME n >= 0
      PROVE  b \in Seq(Text)
  <2>1. l <= Len(f)
    BY <1>2, <1>3, <1>9
  <2>2. ASSUME NEW k \in 1 .. c
        PROVE  b[k] \in Text
    <3>1. k \in 1 .. Len(f) /\ k <= l /\ k < LineSize
      BY <1>1, <1>2, <1>6, <2>1
    <3>2. f[k] \in Text
      BY <1>2, <1>3, <1>9, <3>1
    <3>. QED
      BY <1>5, <1>7, <3>1, <3>2
  <2>3. b = [k \in 1 .. c |-> b[k]] /\ c \in Nat
    BY <1>7
  <2>4. b \in [1 .. c -> Text]
    BY <2>2, <2>3
  <2>. QED
    BY <2>3, <2>4
<1>. QED
  BY <1>6, <1>7, <1>8, <1>9

(* What is put together of a body and its ends is whole.                   *)
LEMMA EndedIsWhole ==
  ASSUME Line!ElogLineAssumption, NEW S \in {Text, Any}, NEW body \in Seq(S), NEW color \in BOOLEAN,
         Len(body) + CsiEnd + 1 <= LineSize, NEW kind \in {"failed", "color", "plain"},
         kind # "failed" => S = Text, kind = "color" => color
  PROVE  Whole(Line!Strcpy(Line!Strcpy(body,
                 IF color THEN Line!Chars("c", CsiEnd) ELSE <<>>), Line!Newline), kind)
<1>1. LineSize \in Nat /\ CsiEnd \in Nat /\ Len(body) \in Nat
  BY DEF Line!ElogLineAssumption
<1>2. {"c", "n"} \subseteq S
  BY DEF Text, Any
<1>3. PICK c \in Seq(S) : /\ c = (IF color THEN Line!Chars("c", CsiEnd) ELSE <<>>)
                          /\ Len(c) \in Nat /\ Len(c) <= CsiEnd
                          /\ color => Len(c) = CsiEnd /\ \A k \in 1 .. CsiEnd : c[k] = "c"
  <2>1. CASE color
    <3>1. /\ Line!Chars("c", CsiEnd) \in Seq(S) /\ Len(Line!Chars("c", CsiEnd)) = CsiEnd
          /\ \A k \in 1 .. CsiEnd : Line!Chars("c", CsiEnd)[k] = "c"
      BY <1>1, <1>2, CharsAre
    <3>. QED
      BY <1>1, <2>1, <3>1
  <2>2. CASE ~ color
    <3>0. <<>> \in Seq(S) /\ Len(<<>>) = 0
      BY EmptyIs
    <3>1. PICK e \in Seq(S) : e = <<>> /\ Len(e) = 0
      BY <3>0, Zenon
    <3>2. e = (IF color THEN Line!Chars("c", CsiEnd) ELSE <<>>)
      BY <2>2, <3>1, Zenon
    <3>3. Len(e) \in Nat /\ Len(e) <= CsiEnd
      BY <1>1, <3>1
    <3>. QED
      BY <2>2, <3>2, <3>3, Zenon
  <2>. QED
    BY <2>1, <2>2
<1>4. PICK text \in Seq(S) : /\ text = Line!Strcpy(Line!Strcpy(body, c), Line!Newline)
                             /\ Len(text) = Len(body) + Len(c) + 1
                             /\ text[Len(text)] = "n"
                             /\ \A k \in 1 .. Len(c) : text[Len(body) + k] = c[k]
  <2>1. Len(body) + Len(c) + 1 <= LineSize
    BY <1>1, <1>3
  <2>. QED
    BY <1>1, <1>2, <2>1, EndsOnWith
<1>5. Len(text) <= LineSize
  BY <1>1, <1>3, <1>4
<1>6. ASSUME kind \in {"plain", "color"}, NEW k \in 1 .. Len(text)
      PROVE  text[k] # "0"
  <2>1. S = Text
    BY <1>6
  <2>2. text[k] \in Text
    BY <2>1
  <2>. QED
    BY <2>2 DEF Text
<1>7. ASSUME kind = "color"
      PROVE  /\ Len(text) > CsiEnd
             /\ \A k \in Len(text) - CsiEnd .. Len(text) - 1 : text[k] = "c"
  <2>1. Len(c) = CsiEnd /\ \A k \in 1 .. CsiEnd : c[k] = "c"
    BY <1>3, <1>7
  <2>2. Len(text) > CsiEnd
    BY <1>1, <1>4, <2>1
  <2>3. ASSUME NEW k \in Len(text) - CsiEnd .. Len(text) - 1
        PROVE  text[k] = "c"
    <3>1. PICK i \in 1 .. CsiEnd : k = Len(body) + i
      <4>1. k - Len(body) \in 1 .. CsiEnd /\ k = Len(body) + (k - Len(body))
        BY <1>1, <1>4, <2>1
      <4>. QED
        BY <4>1, Zenon
    <3>. QED
      BY <1>4, <2>1, <3>1
  <2>. QED
    BY <2>2, <2>3
<1>8. Whole(text, kind)
  BY <1>4, <1>5, <1>6, <1>7, Zenon DEF Whole
<1>. QED
  BY <1>3, <1>4, <1>8, Zenon

LEMMA OutputIsWhole ==
  ASSUME Line!ElogLineAssumption, NEW p \in Nat, NEW n \in Int, NEW color \in BOOLEAN,
         Line!Output(p, n, color)
  PROVE  Whole(line'.text, line'.kind)
<1>1. LineSize \in Nat /\ CsiEnd \in Nat
  BY DEF Line!ElogLineAssumption
<1>2. PICK pre \in Seq(Text) : pre = Line!Strcpy(<<>>, Line!Chars("p", p)) /\ Len(pre) <= LineSize
  <2>1. Line!Chars("p", p) \in Seq(Text)
    BY CharsAre DEF Text
  <2>2. Len(<<>>) <= LineSize
    BY <1>1, EmptyIs
  <2>. QED
    BY <1>1, <2>1, <2>2, EmptyIs, StrcpyIs
<1>3. PICK kind \in {"failed", "color", "plain"} :
        /\ kind = (IF n < 0 THEN "failed" ELSE IF color THEN "color" ELSE "plain")
        /\ (n >= 0 \/ kind = "failed") /\ (kind = "color" => color)
  <2>1. \/ n < 0 /\ ~ (n >= 0)
        \/ n >= 0 /\ ~ (n < 0)
    OBVIOUS
  <2>. QED
    BY <2>1
<1>4. line' = [text |-> Line!Strcpy(Line!Strcpy(Body(pre, n),
                          IF color THEN Line!Chars("c", CsiEnd) ELSE <<>>), Line!Newline),
               kind |-> kind]
  BY <1>2, <1>3, Zenon DEF Line!Output, Body, Written, Length
<1>5. /\ Body(pre, n) \in Seq(Any) /\ Len(Body(pre, n)) + CsiEnd + 1 <= LineSize
      /\ n >= 0 => Body(pre, n) \in Seq(Text)
  BY <1>2, BodyIs
<1>6. PICK S \in {Text, Any} : Body(pre, n) \in Seq(S) /\ (kind # "failed" => S = Text)
  BY <1>3, <1>5
<1>7. Whole(Line!Strcpy(Line!Strcpy(Body(pre, n),
              IF color THEN Line!Chars("c", CsiEnd) ELSE <<>>), Line!Newline), kind)
  BY <1>3, <1>5, <1>6, EndedIsWhole
<1>8. line'.text = Line!Strcpy(Line!Strcpy(Body(pre, n),
                     IF color THEN Line!Chars("c", CsiEnd) ELSE <<>>), Line!Newline)
      /\ line'.kind = kind
  BY <1>4
<1>. QED
  BY <1>7, <1>8, Zenon

(* What vsnprintf returns the length of, as far as the buffer holds it.    *)
Start(n) == SubSeq(Line!Formatted(<<>>, n), 1, Line!Smaller(n, LineSize))

LEMMA StartIs ==
  ASSUME Line!ElogLineAssumption, NEW n \in Nat
  PROVE  /\ Start(n) \in Seq(Any) /\ Len(Start(n)) \in Nat /\ Len(Start(n)) <= LineSize
         /\ \A k \in 1 .. Len(Start(n)) : k < LineSize => Start(n)[k] \in Text
<1>1. LineSize \in Nat /\ LineSize # 0
  BY DEF Line!ElogLineAssumption
<1>2. PICK f \in Seq(Any) : /\ f = Line!Formatted(<<>>, n) /\ Len(f) \in Nat
                            /\ n < LineSize => Len(f) = n + 1
                            /\ n >= LineSize => Len(f) = LineSize
                            /\ \A k \in 1 .. Len(f) - 1 : f[k] \in Text
  <2>1. PICK e \in Seq(Text) : e = <<>> /\ Len(e) = 0
    BY EmptyIs
  <2>2. /\ Line!Formatted(e, n) \in Seq(Any) /\ Len(Line!Formatted(e, n)) \in Nat
        /\ Len(e) + n < LineSize => Len(Line!Formatted(e, n)) = Len(e) + n + 1
        /\ Len(e) + n >= LineSize => Len(Line!Formatted(e, n)) = LineSize
        /\ \A k \in 1 .. Len(Line!Formatted(e, n)) - 1 : Line!Formatted(e, n)[k] \in Text
    <3>1. Len(e) < LineSize /\ LineSize \in Nat
      BY <1>1, <2>1
    <3>. HIDE <2>1
    <3>. QED
      BY <3>1, FormattedIs
  <2>3. Len(e) + n = n
    BY <2>1
  <2>. QED
    BY <2>1, <2>2, <2>3, Zenon
<1>3. PICK l \in Nat : /\ l = Line!Smaller(n, LineSize) /\ l <= LineSize
                       /\ n < LineSize => l = n
                       /\ n >= LineSize => l = LineSize
  BY <1>1 DEF Line!Smaller
<1>4. l \in 0 .. Len(f) /\ (l < Len(f) \/ (l = LineSize /\ Len(f) = LineSize))
  <2>1. CASE n < LineSize
    <3>1. l = n /\ Len(f) = n + 1
      BY <1>2, <1>3, <2>1
    <3>2. n \in 0 .. n + 1 /\ n < n + 1
      OBVIOUS
    <3>. QED
      BY <3>1, <3>2
  <2>2. CASE n >= LineSize
    <3>1. l = LineSize /\ Len(f) = LineSize
      BY <1>2, <1>3, <2>2
    <3>. QED
      BY <1>1, <3>1
  <2>. QED
    BY <1>1, <2>1, <2>2
<1>5. PICK s \in Seq(Any) : s = SubSeq(f, 1, l) /\ Len(s) = l /\ \A k \in 1 .. l : s[k] = f[k]
  BY <1>4, FirstOf
<1>6. Start(n) = s
  BY <1>2, <1>3, <1>5, Zenon DEF Start
<1>7. ASSUME NEW k \in 1 .. l, k < LineSize
      PROVE  s[k] \in Text
  <2>1. k \in 1 .. Len(f) - 1
    BY <1>1, <1>2, <1>4, <1>7
  <2>. QED
    BY <1>2, <1>5, <2>1
<1>. QED
  BY <1>3, <1>5, <1>6, <1>7

LEMMA RawOutputIsWhole ==
  ASSUME Line!ElogLineAssumption, NEW n \in Nat, Line!RawOutput(n)
  PROVE  Whole(line'.text, line'.kind)
<1>1. line' = [text |-> Start(n), kind |-> "raw"]
  BY Zenon DEF Line!RawOutput, Start
<1>2. line'.text = Start(n) /\ line'.kind = "raw"
  BY <1>1
<1>3. Len(Start(n)) <= LineSize
  BY StartIs
<1>. QED
  BY <1>2, <1>3 DEF Whole

(* The dump in progress is some whole lines behind the beginning.  Its     *)
(* counter does not wrap, for width and size fit 16 bits together.         *)
DumpIs ==
    /\ dump.size \in Nat /\ dump.width \in Nat /\ dump.lines \in Nat
    /\ dump.i = dump.lines * dump.width
    /\ dump.i < dump.size /\ dump.size + dump.width <= Width16

DumpInv ==
    /\ dump \in [size : Nat, width : Nat, i : Nat, lines : Nat]
    /\ dump = Line!NoDump \/ DumpIs

LEMMA HexLineIsWhole ==
  ASSUME Line!ElogLineAssumption, DumpInv, NEW p \in Nat, Line!HexLine(p)
  PROVE  Whole(line'.text, line'.kind)
<1>1. LineSize \in Nat /\ LineSize # 0 /\ CsiEnd \in Nat
  BY DEF Line!ElogLineAssumption
<1>2. PICK h \in Seq(Any) : /\ h = Start(p) /\ Len(h) \in Nat /\ Len(h) <= LineSize
                            /\ \A k \in 1 .. Len(h) : k < LineSize => h[k] \in Text
  BY StartIs
<1>3. PICK t \in Seq(Any) : t = Line!Chars("t", 2 * dump.width) /\ \A k \in 1 .. Len(t) : t[k] = "t"
  <2>1. 2 * dump.width \in Nat
    BY DEF DumpInv
  <2>2. "t" \in Any
    BY DEF Any, Text
  <2>3. PICK n \in Nat : n = 2 * dump.width
    BY <2>1
  <2>4. /\ Line!Chars("t", n) \in Seq(Any) /\ Len(Line!Chars("t", n)) = n
        /\ \A k \in 1 .. n : Line!Chars("t", n)[k] = "t"
    BY <2>2, CharsAre
  <2>. QED
    BY <2>3, <2>4
<1>4. PICK d \in Seq(Any) : /\ d = Line!Strcpy(h, t) /\ Len(d) \in Nat /\ Len(d) <= LineSize
                            /\ \A k \in 1 .. Len(d) : \/ k \in 1 .. Len(h) /\ d[k] = h[k]
                                                      \/ \E i \in 1 .. Len(t) : d[k] = t[i]
  BY <1>1, <1>2, StrcpyIs
<1>5. PICK l \in 0 .. Len(d) : l = Line!Smaller(Len(d), LineSize - 1) /\ l < LineSize
  <2>1. LineSize - 1 \in Nat
    BY <1>1
  <2>2. Line!Smaller(Len(d), LineSize - 1) \in 0 .. Len(d) /\ Line!Smaller(Len(d), LineSize - 1) < LineSize
    BY <1>1, <1>4, <2>1 DEF Line!Smaller
  <2>. QED
    BY <2>2
<1>6. PICK b \in Seq(Any) : b = SubSeq(d, 1, l) /\ Len(b) = l /\ \A k \in 1 .. l : b[k] = d[k]
  BY FirstOf
<1>7. b \in Seq(Text)
  <2>1. ASSUME NEW k \in 1 .. l
        PROVE  b[k] \in Text
    <3>1. k \in 1 .. Len(d) /\ k < LineSize
      BY <1>1, <1>4, <1>5
    <3>2. "t" \in Text
      BY DEF Text
    <3>3. d[k] \in Text
      <4>1. CASE k \in 1 .. Len(h) /\ d[k] = h[k]
        BY <1>2, <3>1, <4>1, Zenon
      <4>2. CASE \E i \in 1 .. Len(t) : d[k] = t[i]
        BY <1>3, <3>2, <4>2, Zenon
      <4>. QED
        BY <1>4, <3>1, <4>1, <4>2, Zenon
    <3>. QED
      BY <1>6, <3>3
  <2>2. b = [k \in 1 .. l |-> b[k]] /\ l \in Nat
    BY <1>6
  <2>3. b \in [1 .. l -> Text]
    BY <2>1, <2>2
  <2>. QED
    BY <2>2, <2>3
<1>8. line' = [text |-> Line!Strcpy(b, Line!Newline), kind |-> "plain"]
  BY <1>2, <1>3, <1>4, <1>5, <1>6, Zenon DEF Line!HexLine, Start
<1>9. PICK text \in Seq(Text) : text = Line!Strcpy(b, Line!Newline) /\ Len(text) <= LineSize /\ text[Len(text)] = "n"
  <2>1. <<"n">> \in Seq(Text) /\ Len(<<"n">>) = 1 /\ <<"n">>[1] = "n"
    BY DEF Text
  <2>2. PICK z \in Seq(Text) : z = Line!Newline /\ Len(z) = 1 /\ z[1] = "n"
    BY <2>1 DEF Line!Newline
  <2>3. Len(b) \in Nat /\ Len(b) + Len(z) <= LineSize /\ Len(b) <= LineSize
    BY <1>1, <1>5, <1>6, <2>2
  <2>4. Line!Strcpy(b, z) = b \o z
    BY <1>1, <1>7, <2>3, StrcpyIs
  <2>5. /\ b \o z \in Seq(Text) /\ Len(b \o z) = Len(b) + Len(z)
        /\ \A k \in 1 .. Len(z) : (b \o z)[Len(b) + k] = z[k]
    BY <1>7, Joined
  <2>6. (b \o z)[Len(b) + 1] = "n" /\ Len(b \o z) = Len(b) + 1 /\ Len(b \o z) <= LineSize
    <3>1. 1 \in 1 .. Len(z)
      BY <2>2
    <3>. QED
      BY <2>2, <2>3, <2>5, <3>1
  <2>. QED
    BY <2>2, <2>4, <2>5, <2>6
<1>10. line'.text = text /\ line'.kind = "plain"
  BY <1>8, <1>9
<1>11. \A k \in 1 .. Len(text) : text[k] # "0"
  BY <1>9 DEF Text
<1>. QED
  BY <1>9, <1>10, <1>11 DEF Whole

---------------------------------------------------------------------------
LineInv == Line!LinesWhole /\ DumpInv

LEMMA LineInvInit == Line!ElogLineAssumption /\ Line!Init => LineInv
<1> SUFFICES ASSUME Line!ElogLineAssumption, Line!Init
             PROVE  LineInv
  OBVIOUS
<1>1. LineSize \in Nat /\ LineSize >= 1
  BY DEF Line!ElogLineAssumption
<1>2. line.text = <<"n">> /\ line.kind = "none" /\ dump = Line!NoDump
  BY DEF Line!Init, Line!NoLine, Line!Newline
<1>3. Len(<<"n">>) = 1 /\ <<"n">>[1] = "n"
  OBVIOUS
<1>4. Line!LinesWhole
  BY <1>1, <1>2, <1>3 DEF Line!LinesWhole
<1>5. DumpInv
  BY <1>2 DEF DumpInv, Line!NoDump
<1>. QED
  BY <1>4, <1>5 DEF LineInv

(* The next line of a dump begins where it should, or there is none.       *)
LEMMA HexLineKeepsDump ==
  ASSUME Line!ElogLineAssumption, DumpInv, NEW p \in Nat, Line!HexLine(p)
  PROVE  DumpInv'
<1>1. dump # Line!NoDump
  BY DEF Line!HexLine
<1>2. DumpIs /\ dump \in [size : Nat, width : Nat, i : Nat, lines : Nat]
  BY <1>1 DEF DumpInv
<1>3. PICK sz \in Nat, width \in Nat, ln \in Nat :
        sz = dump.size /\ width = dump.width /\ ln = dump.lines
  BY <1>2
<1>4. dump.i = ln * width /\ ln * width < sz /\ sz + width <= Width16
  BY <1>2, <1>3 DEF DumpIs
<1>5. ln * width \in Nat /\ (ln + 1) * width = ln * width + width
  OBVIOUS
<1>6. Width16 \in Nat \ {0}
  BY DEF Line!ElogLineAssumption
<1>7. Line!NextOffset(dump) = (ln + 1) * width
  <2>1. PICK at \in Nat : at = ln * width + width /\ at < Width16
    BY <1>3, <1>4, <1>5, <1>6
  <2>2. at % Width16 = at
    BY <1>6, <2>1
  <2>3. Line!NextOffset(dump) = at % Width16
    BY <1>3, <1>4, <2>1 DEF Line!NextOffset
  <2>. QED
    BY <1>5, <2>1, <2>2, <2>3
<1>8. CASE Line!NextOffset(dump) < dump.size
  <2>1. dump' = [dump EXCEPT !.i = Line!NextOffset(dump), !.lines = @ + 1]
    BY <1>8 DEF Line!HexLine
  <2>2. PICK at \in Nat : at = (ln + 1) * width
    BY <1>5
  <2>3. dump' = [dump EXCEPT !.i = at, !.lines = ln + 1]
    BY <1>3, <1>7, <2>1, <2>2
  <2>4. PICK d \in [size : Nat, width : Nat, i : Nat, lines : Nat] : d = dump
    BY <1>2
  <2>5. /\ dump' \in [size : Nat, width : Nat, i : Nat, lines : Nat]
        /\ dump'.size = sz /\ dump'.width = width /\ dump'.i = at /\ dump'.lines = ln + 1
    <3>1. d.size = sz /\ d.width = width
      BY <1>3, <2>4
    <3>2. dump' = [d EXCEPT !.i = at, !.lines = ln + 1]
      BY <2>3, <2>4
    <3>3. ln + 1 \in Nat
      OBVIOUS
    <3>. QED
      BY <3>1, <3>2, <3>3
  <2>6. at < sz
    BY <1>3, <1>7, <1>8, <2>2
  <2>7. DumpIs'
    BY <1>4, <2>2, <2>5, <2>6 DEF DumpIs
  <2>. QED
    BY <2>5, <2>7 DEF DumpInv
<1>9. CASE ~ (Line!NextOffset(dump) < dump.size)
  <2>1. dump' = Line!NoDump
    BY <1>9 DEF Line!HexLine
  <2>. QED
    BY <2>1 DEF DumpInv, Line!NoDump
<1>. QED
  BY <1>8, <1>9

LEMMA LineInvStep ==
  Line!ElogLineAssumption /\ LineInv /\ [Line!Next]_(Line!vars) => LineInv'
<1> SUFFICES ASSUME Line!ElogLineAssumption, LineInv, [Line!Next]_(Line!vars)
             PROVE  LineInv'
  OBVIOUS
<1>1. ASSUME Whole(line'.text, line'.kind)
      PROVE  Line!LinesWhole'
  BY <1>1 DEF Whole, Line!LinesWhole
<1>2. ASSUME dump' = dump
      PROVE  DumpInv'
  BY <1>2 DEF LineInv, DumpInv, DumpIs
<1>3. ASSUME line' = line
      PROVE  Line!LinesWhole'
  BY <1>3 DEF LineInv, Line!LinesWhole
<1>4. LineSize \in Nat /\ Width16 \in Nat \ {0} /\ Widths \subseteq 1 .. Width16
  BY DEF Line!ElogLineAssumption
<1>5. CASE UNCHANGED Line!vars
  BY <1>2, <1>3, <1>5 DEF Line!vars, LineInv
<1>6. ASSUME NEW p \in 0 .. LineSize + 1, NEW n \in -1 .. LineSize + 1, NEW color \in BOOLEAN,
             Line!Output(p, n, color)
      PROVE  LineInv'
  <2>1. p \in Nat /\ n \in Int
    BY <1>4
  <2>2. Line!LinesWhole'
    BY <1>1, <1>6, <2>1, OutputIsWhole
  <2>3. dump' = dump
    BY <1>6 DEF Line!Output
  <2>. QED
    BY <1>2, <2>2, <2>3 DEF LineInv
<1>7. ASSUME NEW p \in 0 .. LineSize + 1, Line!RawOutput(p)
      PROVE  LineInv'
  <2>1. p \in Nat
    BY <1>4
  <2>2. Line!LinesWhole'
    BY <1>1, <1>7, <2>1, RawOutputIsWhole
  <2>3. dump' = dump
    BY <1>7 DEF Line!RawOutput
  <2>. QED
    BY <1>2, <2>2, <2>3 DEF LineInv
<1>8. ASSUME NEW p \in 0 .. LineSize + 1, Line!HexLine(p)
      PROVE  LineInv'
  <2>1. p \in Nat
    BY <1>4
  <2>2. Line!LinesWhole'
    BY <1>1, <1>8, <2>1, HexLineIsWhole DEF LineInv
  <2>3. DumpInv'
    BY <1>8, <2>1, HexLineKeepsDump DEF LineInv
  <2>. QED
    BY <2>2, <2>3 DEF LineInv
<1>9. ASSUME NEW width \in Widths, NEW sz \in 0 .. Width16 - width, Line!HexdumpCall(sz, width)
      PROVE  LineInv'
  <2>1. line' = line /\ sz > 0 /\ dump' = [size |-> sz, width |-> width, i |-> 0, lines |-> 0]
    BY <1>9 DEF Line!HexdumpCall
  <2>2. width \in Nat /\ sz \in Nat /\ sz + width <= Width16 /\ 0 * width = 0
    BY <1>4
  <2>3. DumpInv'
    BY <2>1, <2>2 DEF DumpInv, DumpIs
  <2>. QED
    BY <1>3, <2>1, <2>3 DEF LineInv
<1>. QED
  BY <1>5, <1>6, <1>7, <1>8, <1>9 DEF Line!Next

(* Every line is whole and every dump ends (elog.c:508-724, 864-936), for  *)
(* a line buffer of any size and a dump of any width.                      *)
THEOREM LinesWholeHolds ==
  ASSUME Line!ElogLineAssumption
  PROVE  Line!Spec => []LinesWhole
<1>1. ASSUME DumpInv
      PROVE  Line!HexdumpEnds
  <2>1. CASE dump = Line!NoDump
    BY <2>1 DEF Line!HexdumpEnds, Line!NoDump
  <2>2. CASE DumpIs
    BY <1>1, <2>2 DEF Line!HexdumpEnds, DumpIs, DumpInv
  <2>. QED
    BY <1>1, <2>1, <2>2 DEF DumpInv
<1>2. LineInv => LinesWhole
  BY <1>1 DEF LineInv, LinesWhole
<1>. QED
  BY <1>2, LineInvInit, LineInvStep, PTL DEF Line!Spec
=============================================================================
