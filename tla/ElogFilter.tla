----------------------------- MODULE ElogFilter -----------------------------
(***************************************************************************)
(* The filters of EasyLogger (elog.c:276-280, 332-500 and the first lines  *)
(* of elog_output): whether there is output at all, a level and a tag for  *)
(* all logs, and a table of levels by tag.  Every call holds the output    *)
(* lock while it works on the table, so a call is one action.  Tags are    *)
(* compared up to their maximum length in the table, where those with the  *)
(* same Short form are one, and cut to it as the tag for all logs.         *)
(*                                                                         *)
(* A definition whose comment calls it a fault stands before the one it    *)
(* is a faulty variant of; nothing uses it but the mutants of the runs.    *)
(***************************************************************************)
EXTENDS Integers, FiniteSets

CONSTANTS Tags,
          NoTag,        \* the empty string
          Short(_),     \* the first ELOG_FILTER_TAG_MAX_LEN characters
          Strstr(_, _), \* the second tag is found in the first
          Slots         \* ELOG_FILTER_TAG_LVL_MAX_NUM

ElogFilterAssumption ==
    /\ Slots \in Nat \ {0}
    /\ \A t \in Tags : Short(t) \in Tags /\ Short(Short(t)) = Short(t) /\ t # NoTag
    /\ \A t \in Tags : Strstr(t, NoTag) /\ \A s \in Tags : Strstr(t, s) \in BOOLEAN

VARIABLES init_ok, output_enabled,
          filter_level, \* elog.filter.level
          filter_tag,   \* elog.filter.tag
          tag_lvl,      \* the table
          asked         \* the level last asked for each tag, by its short form

vars == <<init_ok, output_enabled, filter_level, filter_tag, tag_lvl, asked>>

SILENT == 0     \* ELOG_LVL_ASSERT
ALL == 5        \* ELOG_LVL_VERBOSE
Levels == {SILENT, 2, ALL}
Unused == [tag |-> NoTag, level |-> SILENT, used |-> FALSE]

Init ==
    /\ init_ok = FALSE /\ output_enabled = FALSE
    /\ filter_level = SILENT /\ filter_tag = NoTag
    /\ tag_lvl = [i \in 1 .. Slots |-> Unused]
    /\ asked = [t \in Tags |-> ALL]

(* elog_init, which empties the table but leaves the tag for all logs and  *)
(* whether there is output, and elog_deinit, which leaves everything.      *)
ElogInit ==
    /\ ~ init_ok
    /\ init_ok' = TRUE /\ filter_level' = ALL
    /\ tag_lvl' = [i \in 1 .. Slots |-> Unused]
    /\ asked' = [t \in Tags |-> ALL]
    /\ UNCHANGED <<output_enabled, filter_tag>>

ElogDeinit ==
    /\ init_ok /\ init_ok' = FALSE
    /\ UNCHANGED <<output_enabled, filter_level, filter_tag, tag_lvl, asked>>

(* elog_start and elog_stop call it, after elog_init. *)
SetOutputEnabled(enabled) ==
    /\ output_enabled' = enabled
    /\ UNCHANGED <<init_ok, filter_level, filter_tag, tag_lvl, asked>>

SetLevel(level) ==
    /\ filter_level' = level
    /\ UNCHANGED <<init_ok, output_enabled, filter_tag, tag_lvl, asked>>

Cut(tag) == IF tag = NoTag THEN NoTag ELSE Short(tag)

SetTag(tag) ==
    /\ filter_tag' = Cut(tag)
    /\ UNCHANGED <<init_ok, output_enabled, filter_level, tag_lvl, asked>>

(* elog_set_filter.  The keyword is for the text of a line. *)
SetFilter(level, tag) ==
    /\ filter_level' = level /\ filter_tag' = Cut(tag)
    /\ UNCHANGED <<init_ok, output_enabled, tag_lvl, asked>>

First(S) == {i \in S : \A j \in S : i <= j}

(* Fault: the search stops at the first slot that is not used. *)
SlotOfDense(tag) ==
    First({i \in 1 .. Slots : /\ tag_lvl[i].used /\ tag_lvl[i].tag = Short(tag)
                              /\ \A j \in 1 .. i : tag_lvl[j].used})

SlotOf(tag) ==
    First({i \in 1 .. Slots : tag_lvl[i].used /\ tag_lvl[i].tag = Short(tag)})

FreeSlot == First({i \in 1 .. Slots : ~ tag_lvl[i].used})

(* elog_set_filter_tag_lvl: a tag that finds the table full is not kept. *)
SetTagLevel(tag, level) ==
    /\ init_ok
    /\ tag_lvl' =
         [i \in 1 .. Slots |->
            IF i \in SlotOf(tag)
            THEN IF level = ALL THEN Unused ELSE [tag_lvl[i] EXCEPT !.level = level]
            ELSE IF SlotOf(tag) = {} /\ level # ALL /\ i \in FreeSlot
            THEN [tag |-> Short(tag), level |-> level, used |-> TRUE]
            ELSE tag_lvl[i]]
    /\ asked' = IF SlotOf(tag) = {} /\ FreeSlot = {} THEN asked
                ELSE [asked EXCEPT ![Short(tag)] = level]
    /\ UNCHANGED <<init_ok, output_enabled, filter_level, filter_tag>>

(* elog_get_filter_tag_lvl. *)
TagLevel(tag) ==
    IF ~ init_ok THEN ALL
    ELSE CHOOSE l \in 0 .. ALL : IF SlotOf(tag) = {} THEN l = ALL
                                 ELSE \E i \in SlotOf(tag) : l = tag_lvl[i].level

(* elog_output goes on. *)
Passes(tag, level) ==
    /\ output_enabled
    /\ level <= filter_level /\ level <= TagLevel(tag)
    /\ Strstr(tag, filter_tag)

Next ==
    \/ ElogInit \/ ElogDeinit
    \/ \E enabled \in BOOLEAN : SetOutputEnabled(enabled)
    \/ \E tag \in Tags \cup {NoTag} : SetTag(tag)
    \/ \E level \in Levels :
         \/ SetLevel(level)
         \/ \E tag \in Tags \cup {NoTag} : SetFilter(level, tag)
         \/ \E tag \in Tags : SetTagLevel(tag, level)

Spec == Init /\ [][Next]_vars

---------------------------------------------------------------------------
(* Whatever was set, changed and removed before, a log gets past the head  *)
(* of elog_output exactly if there is output, the level for all logs and   *)
(* the one last asked for its tag let it, unless the table was full, and   *)
(* the tag for all logs is found in its own; and a slot that is not used   *)
(* stays for another tag (elog.c:425-500, 576-585).                        *)
FilterAsAsked ==
    init_ok =>
        /\ \A tag \in Tags, level \in Levels :
             Passes(tag, level) <=>
                 /\ output_enabled
                 /\ level <= filter_level /\ level <= asked[Short(tag)]
                 /\ Strstr(tag, filter_tag)
        /\ Cardinality({i \in 1 .. Slots : tag_lvl[i].used})
             = Cardinality({t \in Tags : Short(t) = t /\ asked[t] # ALL})
=============================================================================
