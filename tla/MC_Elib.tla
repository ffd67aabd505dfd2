------------------------------- MODULE MC_Elib ------------------------------
(***************************************************************************)
(* One instance of the parts of EasyLogger that Elog has side by side,     *)
(* asynchronous output in both of its ways to take logs from the ring, and *)
(* of CUnit and nanopb, which are beside EasyLogger in elib.  A behaviour  *)
(* is one of one of the parts, while the others stay as they began.  Init, *)
(* Next and what else has no prefix is CUnit's.                            *)
(***************************************************************************)
EXTENDS CUnit, Elog, MC_Nanopb

CONSTANTS Group, Width, MaxPieces, MaxPiecesCut

VARIABLES part,
          place, wire, mode, pieces, last_piece, meant, pos, levels

cunitVars == vars
nanopbVars == <<place, wire, mode, pieces, last_piece, meant, pos, levels>>
allVars == <<part, asyncVars, filterVars, lockVars, lineVars, bufVars, flashVars, fileVars,
             cunitVars, nanopbVars>>

(* Two of the tags begin alike. *)
ShortOfTwo(tag) == IF tag = "cc" THEN "c" ELSE tag

(* What is found in them: themselves, the empty string, and "c" in "cc".   *)
StrstrOfTwo(tag, s) == s \in {tag, NoTag} \/ (tag = "cc" /\ s = "c")

(* The suites that are run: one of two tests with functions of every kind, *)
(* and one that has a cleanup function only.                               *)
SuiteInfos ==
    {<<[suite |-> "s1", fixture |-> {"init", "cleanup", "setup", "teardown"},
        tests |-> <<"t1", "t2">>],
       [suite |-> "s2", fixture |-> {"cleanup"}, tests |-> <<"t3">>]>>}

Proto == INSTANCE Nanopb WITH Main <- "main", last <- last_piece

ASSUME ElibAssumption ==
    /\ Async!ElogAsyncAssumption
    /\ Filter!ElogFilterAssumption /\ Line!ElogLineAssumption /\ Buf!ElogBufAssumption
    /\ Flash!ElogFlashAssumption /\ File!ElogFileAssumption
    /\ Proto!NanopbAssumption

ElibInit ==
    /\ part \in {"async", "filter", "lock", "line", "buf", "flash", "file", "unit", "proto"}
    /\ Async!Init /\ Filter!Init /\ Lock!Init /\ Line!Init /\ Buf!Init /\ Flash!Init /\ File!Init
    /\ Init /\ Proto!Init
    /\ by_line => part = "async"

(* Of the file plugin, a behaviour ends where a process goes on without    *)
(* the lock: nothing is promised from there on.                            *)
ElibNext ==
    /\ UNCHANGED part
    /\ \/ /\ part = "async" /\ Async!Next
          /\ UNCHANGED <<filterVars, lockVars, lineVars, bufVars, flashVars,
                         fileVars, cunitVars, nanopbVars>>
       \/ /\ part = "filter" /\ Filter!Next
          /\ UNCHANGED <<asyncVars, lockVars, lineVars, bufVars, flashVars,
                         fileVars, cunitVars, nanopbVars>>
       \/ /\ part = "lock" /\ Lock!Next
          /\ UNCHANGED <<asyncVars, filterVars, lineVars, bufVars, flashVars,
                         fileVars, cunitVars, nanopbVars>>
       \/ /\ part = "line" /\ Line!Next
          /\ UNCHANGED <<asyncVars, filterVars, lockVars, bufVars, flashVars,
                         fileVars, cunitVars, nanopbVars>>
       \/ /\ part = "buf" /\ Buf!Next
          /\ UNCHANGED <<asyncVars, filterVars, lockVars, lineVars, flashVars,
                         fileVars, cunitVars, nanopbVars>>
       \/ /\ part = "flash" /\ Flash!Next
          /\ UNCHANGED <<asyncVars, filterVars, lockVars, lineVars, bufVars,
                         fileVars, cunitVars, nanopbVars>>
       \/ /\ part = "file" /\ ~ unlocked /\ File!Next
          /\ UNCHANGED <<asyncVars, filterVars, lockVars, lineVars, bufVars,
                         flashVars, cunitVars, nanopbVars>>
       \/ /\ part = "unit" /\ Next
          /\ UNCHANGED <<asyncVars, filterVars, lockVars, lineVars, bufVars,
                         flashVars, fileVars, nanopbVars>>
       \/ /\ part = "proto" /\ Proto!Next
          /\ UNCHANGED <<asyncVars, filterVars, lockVars, lineVars, bufVars,
                         flashVars, fileVars, cunitVars>>

ElibSpec == ElibInit /\ [][ElibNext]_allVars /\ Async!Fairness

(* A log in the ring is printed in the end (elog_async.c:292-316).         *)
LogsPrinted == Async!LogsPrinted

(* A protobuf message is decoded to what its bytes mean, or refused        *)
(* (pb_decode.c:981-1161).                                                 *)
DecodesAsMeant == Proto!DecodesAsMeant
=============================================================================
