---------------------------- MODULE FunctionTable ----------------------------
(***************************************************************************)
(* What HbcFile::parse does once the sections are known: it chooses the    *)
(* layout of the large function headers (select_v98_large_header_layout),  *)
(* validates every function in three passes (validate_function_regions)    *)
(* and merges the two lists of unrecognized functions.                     *)
(*                                                                         *)
(* Function f of the code is entry f + 1 here.  Exception tables are read  *)
(* from mem, the file as words: a count, then start, end and target of     *)
(* each handler.  Word 0 is the magic number, which no count reaches.  A   *)
(* large header at lo has its table at word tab under Shape36, one word    *)
(* later under Shape40; bodies lie apart from mem, in units of their own.  *)
(***************************************************************************)
EXTENDS Integers, Sequences, FiniteSetsExt

CONSTANTS Bundles,        \* the files whose sections parse_inner accepts
          LargeOff,       \* offsets of large headers
          MaxHandlers,    \* MAX_EXCEPTION_HANDLERS
          MaxDedups,      \* MAX_FUNCTION_BODY_DEDUPS
          MaxPos,         \* the last position a u32 holds
          U32Max

Shapes == {36, 40}

(* A flags byte: prohibitInvoke = 3 or the overflowed bit; the bit         *)
(* hasExceptionHandler; what it holds besides.                             *)
Flags == [invalid : BOOLEAN, exc : BOOLEAN, rest : Nat]

(* A small header; lo is where its large header is if it is overflowed,    *)
(* tab its own exception table if it is not.                               *)
Entry ==
  [over : BOOLEAN, lo : LargeOff, offset : Nat, size : Nat, exc : BOOLEAN, tab : Nat]

(* A large header: beyond the file, within what emit computes anew, or     *)
(* with these fields; its size is read as a u32.                           *)
LargeHeader ==
  [oob : BOOLEAN, synth : BOOLEAN, offset : Nat, size : 0..U32Max,
   flags : [Shapes -> Flags], tab : Nat]

Bundle ==
  [late98 : BOOLEAN,         \* version 98 under the late header
   fns    : Seq(Entry),
   large  : [LargeOff -> LargeHeader],
   mem    : Seq(Nat),
   synth  : SUBSET Nat,      \* the words emit computes anew
   region : Nat \X Nat,      \* where bodies may lie, half open
   budget : Nat]             \* selection_triple_budget

ASSUME FunctionTableAssumption ==
  /\ \A d \in Bundles : d \in Bundle
  /\ {MaxHandlers, MaxDedups, MaxPos, U32Max} \subseteq Nat

VARIABLES file,            \* the bundle
          pc,              \* the pass, or how parse ended
          idx,             \* the entry, or the pair, the pass has reached
          scratch,         \* SelectionScratch: per_off, per_table, budget
          scoring,         \* the header being scored: does it fit the shapes so far
          tally,           \* scored, violations and disagreements so far
          large_header_layout,
          spans,           \* pass 1: the bodies to compare
          dedup_count,
          marks1,          \* the functions marked in pass 1
          marks3,          \* pass3_unrecognized
          unrecognized,    \* unrecognized_functions
          findings         \* what was passed to emit_finding

select_vars == <<scratch, scoring, tally, large_header_layout>>
mark_vars == <<marks1, marks3>>
pass_vars == <<spans, dedup_count, mark_vars>>
vars == <<file, pc, idx, select_vars, pass_vars, unrecognized, findings>>

NoFault == "none"
NoLayout == 0      \* large_header_layout = None
FnCount == Len(file.fns)
Fns == 1..FnCount
Large(f) == file.large[file.fns[f].lo]

-----------------------------------------------------------------------------
(* Exception tables.                                                       *)

Word(p) == file.mem[p + 1]
InFile(p) == p < Len(file.mem)
Handler(p, h) ==
  [start |-> Word(p + 1 + 3 * h), end |-> Word(p + 2 + 3 * h), target |-> Word(p + 3 + 3 * h)]
SpanInFile(p) == p + 1 + 3 * Word(p) <= Len(file.mem)

(* exc_table_summary_uncached: the size a parent needs for the table at p, *)
(* and the handlers walked for it, one unit of budget each.                *)
NoTable == [kind |-> "invalid", need |-> 0, cost |-> 0]

(* Variant: the walk does not ask what is left of the budget. *)
NeverSpent(budget, cost) == FALSE

Spent(budget, cost) == budget < cost

WalkTable(p, budget) ==
  IF p > MaxPos \/ ~InFile(p) THEN NoTable
  ELSE IF Word(p) > MaxHandlers \/ ~SpanInFile(p) THEN NoTable
  ELSE LET handlers == 0..(Word(p) - 1)
           bad == {h \in handlers : \/ Handler(p, h).start >= Handler(p, h).end
                                    \/ Handler(p, h).target = U32Max}
           cost == IF bad = {} THEN Word(p) ELSE Min(bad) + 1
       IN IF Spent(budget, cost) THEN [kind |-> "exhausted", need |-> 0, cost |-> budget]
          ELSE IF bad # {} THEN [kind |-> "invalid", need |-> 0, cost |-> cost]
          ELSE [kind |-> "valid", cost |-> cost,
                need |-> Max({0} \cup {Handler(p, h).end : h \in handlers}
                                 \cup {Handler(p, h).target + 1 : h \in handlers})]

(* exc_table_summary *)
TableSummary(p) ==
  IF p \in DOMAIN scratch.perTable THEN scratch.perTable[p] ELSE WalkTable(p, scratch.budget)

(* Variant: what is kept of a table is the answer to its first parent. *)
KeepAnswer(w, size) ==
  IF w.kind # "valid" THEN w
  ELSE IF size < w.need THEN NoTable ELSE [w EXCEPT !.need = 0]

KeepSummary(w, size) == w

TableAt(lo, shape) == file.large[lo].tab + (shape - 36) \div 4

SameTables(lo) ==
  LET p == TableAt(lo, 36)
      q == TableAt(lo, 40)
  IN Word(p) = Word(q) /\ \A h \in 0..(Word(p) - 1) : Handler(p, h) = Handler(q, h)

-----------------------------------------------------------------------------
(* The accessors, under the layout in effect.                              *)

(* get_exc_table_offset: 0 stands for "no table". *)
RuntimeTable(f) ==
  LET p == IF ~file.fns[f].over THEN file.fns[f].tab
           ELSE IF large_header_layout = NoLayout \/ Large(f).oob THEN 0
           ELSE TableAt(file.fns[f].lo, large_header_layout)
  IN IF p > MaxPos THEN 0 ELSE p

(* function_get *)
FunctionGet(f) ==
  LET e == file.fns[f]
  IN IF ~e.over \/ Large(f).oob THEN [offset |-> e.offset, size |-> e.size, exc |-> e.exc]
     ELSE IF large_header_layout = NoLayout THEN [offset |-> 0, size |-> 0, exc |-> FALSE]
     ELSE [offset |-> Large(f).offset, size |-> Large(f).size,
           exc |-> Large(f).flags[large_header_layout].exc]

(* function_get_checked: the error, NoFault if it is Ok(function_get) *)
CheckedError(f) ==
  IF ~file.fns[f].over THEN NoFault
  ELSE IF Large(f).oob THEN "OverflowedHeaderOutOfBounds"
  ELSE IF Large(f).synth THEN "OverflowedHeaderOverlapsSynthesizedRegion"
  ELSE IF large_header_layout = NoLayout THEN "LargeHeaderLayoutAmbiguous"
  ELSE NoFault

(* exc_table_overlaps_synthesized *)
TableOverlapsSynthesized(f) ==
  LET p == RuntimeTable(f)
      count == IF InFile(p) /\ Word(p) <= MaxHandlers THEN Word(p) ELSE 0
  IN FunctionGet(f).exc /\ (p..(p + 3 * count)) \cap file.synth # {}

Capped(f) ==
  FunctionGet(f).exc /\ InFile(RuntimeTable(f)) /\ Word(RuntimeTable(f)) > MaxHandlers

(* function_exception_count *)
ExceptionCount(f) ==
  IF FunctionGet(f).exc /\ InFile(RuntimeTable(f)) /\ ~Capped(f)
    THEN Word(RuntimeTable(f)) ELSE 0

(* function_exception_get: a handler beyond the file reads as zeroes *)
ExceptionGet(f, h) ==
  IF RuntimeTable(f) + 4 + 3 * h <= Len(file.mem) THEN Handler(RuntimeTable(f), h)
  ELSE [start |-> 0, end |-> 0, target |-> 0]

-----------------------------------------------------------------------------
(* select_v98_large_header_layout.                                         *)

Init ==
  /\ file \in Bundles
  /\ pc = "select" /\ idx = 1
  /\ scratch = [perOff |-> << >>, perTable |-> << >>, budget |-> file.budget]
  /\ scoring = << >>
  /\ tally = [scored |-> 0, v36 |-> 0, v40 |-> 0, disagreements |-> 0, exhausted |-> FALSE]
  /\ large_header_layout = 36
  /\ spans = << >> /\ dedup_count = 0
  /\ marks1 = << >> /\ marks3 = << >>
  /\ unrecognized = << >> /\ findings = {}

Enter(pass) == pc' = pass /\ idx' = 1

KeepDefaultLayout ==
  /\ pc = "select" /\ ~file.late98
  /\ Enter("pass1")
  /\ UNCHANGED <<file, select_vars, pass_vars, unrecognized, findings>>

Selecting == pc = "select" /\ file.late98 /\ idx \in Fns /\ ~tally.exhausted
Scored(f) == file.fns[f].over /\ ~Large(f).oob /\ ~Large(f).synth

SkipHeader ==
  /\ Selecting /\ ~Scored(idx)
  /\ idx' = idx + 1
  /\ UNCHANGED <<file, pc, select_vars, pass_vars, unrecognized, findings>>

Memo(memo, k, v) == [x \in DOMAIN memo \cup {k} |-> IF x = k THEN v ELSE memo[x]]
Known(lo) == lo \in DOMAIN scratch.perOff

(* "a partial walk proves nothing": the selection is abandoned. *)
Exhaust ==
  /\ tally' = [tally EXCEPT !.scored = @ + 1, !.exhausted = TRUE]
  /\ UNCHANGED <<scratch, scoring>>

(* large_header_shape_violation, under Shape36 and then under Shape40 *)
ScoreShape ==
  /\ Selecting /\ Scored(idx) /\ ~Known(file.fns[idx].lo) /\ Len(scoring) < 2
  /\ LET shape == IF scoring = << >> THEN 36 ELSE 40
         header == Large(idx)
         flags == header.flags[shape]
         p == TableAt(file.fns[idx].lo, shape)
         table == TableSummary(p)
         walked == ~flags.invalid /\ flags.exc
         fits == ~flags.invalid /\ (flags.exc => table.kind = "valid" /\ table.need <= header.size)
     IN IF walked /\ table.kind = "exhausted" THEN Exhaust
        ELSE /\ scoring' = Append(scoring, fits)
             /\ scratch' = IF walked /\ p \notin DOMAIN scratch.perTable
                  THEN [scratch EXCEPT !.budget = @ - table.cost,
                                       !.perTable = Memo(@, p, KeepSummary(table, header.size))]
                  ELSE scratch
             /\ UNCHANGED tally
  /\ UNCHANGED <<file, pc, idx, large_header_layout, pass_vars, unrecognized, findings>>

(* large_header_shapes_decode_equal, if both shapes fit; the score is kept *)
CompareDecodes ==
  /\ Selecting /\ Len(scoring) = 2
  /\ LET lo == file.fns[idx].lo
         flags == Large(idx).flags
         count == Word(TableAt(lo, 36))
         asked == scoring[1] /\ scoring[2]
         compared == asked /\ flags[36] = flags[40] /\ flags[36].exc
                       /\ count = Word(TableAt(lo, 40))
         equal == /\ flags[36] = flags[40]
                  /\ flags[36].exc => SameTables(lo)
     IN IF compared /\ Spent(scratch.budget, count) THEN Exhaust
        ELSE /\ scratch' = [scratch EXCEPT
                  !.budget = @ - (IF compared THEN count ELSE 0),
                  !.perOff = Memo(@, lo, [fits36 |-> scoring[1], fits40 |-> scoring[2],
                                          equal |-> asked => equal])]
             /\ scoring' = << >> /\ UNCHANGED tally
  /\ UNCHANGED <<file, pc, idx, large_header_layout, pass_vars, unrecognized, findings>>

One(cond) == IF cond THEN 1 ELSE 0

TallyScore ==
  /\ Selecting /\ Scored(idx) /\ Known(file.fns[idx].lo)
  /\ LET score == scratch.perOff[file.fns[idx].lo]
     IN tally' = [tally EXCEPT
                    !.scored = @ + 1,
                    !.v36 = @ + One(~score.fits36),
                    !.v40 = @ + One(~score.fits40),
                    !.disagreements = @ + One(~score.equal)]
  /\ idx' = idx + 1
  /\ UNCHANGED <<file, pc, scratch, scoring, large_header_layout, pass_vars, unrecognized,
                 findings>>

(* Variant: a budget that ran out is not asked about. *)
ChosenFromPartialScore ==
  CASE tally.v36 = 0 /\ tally.v40 # 0 -> 36
    [] tally.v36 # 0 /\ tally.v40 = 0 -> 40
    [] tally.v36 = 0 /\ tally.v40 = 0 /\ tally.disagreements = 0 -> 36
    [] OTHER -> NoLayout

Chosen ==
  IF tally.exhausted THEN NoLayout
  ELSE CASE tally.v36 = 0 /\ tally.v40 # 0 -> 36
         [] tally.v36 # 0 /\ tally.v40 = 0 -> 40
         [] tally.v36 = 0 /\ tally.v40 = 0 /\ tally.disagreements = 0 -> 36
         [] OTHER -> NoLayout

DecideLayout ==
  /\ pc = "select" /\ file.late98 /\ ~Selecting
  /\ large_header_layout' = Chosen
  /\ findings' = findings \cup
       IF Chosen = NoLayout THEN {<<"V98LargeHeaderLayoutAmbiguous", tally.exhausted>>} ELSE {}
  /\ Enter("pass1")
  /\ UNCHANGED <<file, scratch, scoring, tally, pass_vars, unrecognized>>

-----------------------------------------------------------------------------
(* validate_function_regions.                                              *)

HandlerReason == "ExceptionHandlerOutOfFunctionRange"

(* UnrecognizedReason *)
Reasons ==
  {"OverflowedHeaderOutOfBounds", "OverflowedHeaderOverlapsSynthesizedRegion",
   "ExceptionTableOverlapsSynthesizedRegion", "LargeHeaderLayoutAmbiguous", HandlerReason}

Mark(f, reason) == [fn |-> f, reason |-> reason]
Fail(reason) == pc' = reason /\ UNCHANGED idx

(* Variant: the aliased exception table is left for pass 3. *)
Pass1FaultHeaderOnly(f) == CheckedError(f)

Pass1Fault(f) ==
  IF CheckedError(f) # NoFault THEN CheckedError(f)
  ELSE IF TableOverlapsSynthesized(f) THEN "ExceptionTableOverlapsSynthesizedRegion"
  ELSE NoFault

MarkUnrecognized ==
  /\ pc = "pass1" /\ idx \in Fns /\ Pass1Fault(idx) # NoFault
  /\ marks1' = Append(marks1, Mark(idx, Pass1Fault(idx)))
  /\ findings' = findings \cup
       (IF Pass1Fault(idx) = "LargeHeaderLayoutAmbiguous" THEN {}
        ELSE {<<Pass1Fault(idx), idx>>})
  /\ idx' = idx + 1
  /\ UNCHANGED <<file, pc, select_vars, spans, dedup_count, marks3, unrecognized>>

SkipEmptyBody ==
  /\ pc = "pass1" /\ idx \in Fns /\ Pass1Fault(idx) = NoFault
  /\ FunctionGet(idx).size = 0
  /\ idx' = idx + 1
  /\ UNCHANGED <<file, pc, select_vars, pass_vars, unrecognized, findings>>

InRegion(d) == d.offset >= file.region[1] /\ d.offset + d.size <= file.region[2]

CollectSpan ==
  /\ pc = "pass1" /\ idx \in Fns /\ Pass1Fault(idx) = NoFault
  /\ LET d == FunctionGet(idx)
     IN /\ d.size # 0
        /\ IF InRegion(d)
             THEN /\ spans' = Append(spans, [fn |-> idx, offset |-> d.offset, size |-> d.size])
                  /\ idx' = idx + 1 /\ UNCHANGED pc
             ELSE Fail("FunctionBodyOutOfBytecodeRegion") /\ UNCHANGED spans
  /\ UNCHANGED <<file, select_vars, dedup_count, mark_vars, unrecognized, findings>>

(* sort_by_key is stable: r is the only such arrangement. *)
SortSpans ==
  /\ pc = "pass1" /\ idx = FnCount + 1
  /\ \E r \in [DOMAIN spans -> DOMAIN spans] :
       /\ \A m, n \in DOMAIN spans :
            m < n => \/ spans[r[m]].offset < spans[r[n]].offset
                     \/ spans[r[m]].offset = spans[r[n]].offset /\ r[m] < r[n]
       /\ spans' = [n \in DOMAIN spans |-> spans[r[n]]]
  /\ Enter("pass2")
  /\ UNCHANGED <<file, select_vars, dedup_count, mark_vars, unrecognized, findings>>

SameBody(a, b) == a.offset = b.offset /\ a.size = b.size

(* Variant: bodies that start together are taken for duplicates. *)
DuplicateByOffset(a, b) == a.offset = b.offset

Duplicate(a, b) == SameBody(a, b)

ComparePair ==
  /\ pc = "pass2" /\ idx < Len(spans)
  /\ LET a == spans[idx]
         b == spans[idx + 1]
     IN IF Duplicate(a, b) THEN
          dedup_count' = dedup_count + 1 /\ idx' = idx + 1 /\ UNCHANGED pc
        ELSE IF a.offset + a.size > b.offset THEN
          Fail("FunctionBodyOverlap") /\ UNCHANGED dedup_count
        ELSE
          idx' = idx + 1 /\ UNCHANGED <<pc, dedup_count>>
  /\ UNCHANGED <<file, select_vars, spans, mark_vars, unrecognized, findings>>

BodiesCompared ==
  /\ pc = "pass2" /\ ~(idx < Len(spans))
  /\ IF dedup_count > MaxDedups THEN Fail("FunctionBodyDedupOverflow") ELSE Enter("pass3")
  /\ UNCHANGED <<file, select_vars, pass_vars, unrecognized, findings>>

(* Pass 3, one function: the first handler outside it marks it.            *)
InRange(h, size) == h.start < h.end /\ h.end <= size /\ h.target < size

MarkedInPass1(f) == \E n \in DOMAIN marks1 : marks1[n].fn = f

OutOfRange(f) ==
  \E h \in 0..(ExceptionCount(f) - 1) : ~InRange(ExceptionGet(f, h), FunctionGet(f).size)

ScreenHandlers ==
  /\ pc = "pass3" /\ idx \in Fns
  /\ LET screened == ~MarkedInPass1(idx)
         faulty == screened /\ OutOfRange(idx)
     IN /\ marks3' = IF faulty THEN Append(marks3, Mark(idx, HandlerReason)) ELSE marks3
        /\ findings' = findings
             \cup (IF screened /\ Capped(idx) THEN {<<"ExceptionCountCap", idx>>} ELSE {})
             \cup (IF faulty THEN {<<HandlerReason, idx>>} ELSE {})
  /\ idx' = idx + 1
  /\ UNCHANGED <<file, pc, select_vars, spans, dedup_count, marks1, unrecognized>>

HandlersScreened ==
  /\ pc = "pass3" /\ idx = FnCount + 1
  /\ Enter("merge")
  /\ UNCHANGED <<file, select_vars, pass_vars, unrecognized, findings>>

(* merge_sorted_unrecognized, on what is left of the two lists.            *)

(* Variant: the marks of pass 1 always come first. *)
TakePass1Always(a, b) == TRUE

TakePass1(a, b) == a.fn <= b.fn

(* Variant: the rest is taken once both lists are empty. *)
BothListsDone == marks1 = << >> /\ marks3 = << >>

OneListDone == marks1 = << >> \/ marks3 = << >>

MergeHeads ==
  /\ pc = "merge" /\ marks1 # << >> /\ marks3 # << >>
  /\ IF TakePass1(Head(marks1), Head(marks3))
       THEN /\ unrecognized' = Append(unrecognized, Head(marks1))
            /\ marks1' = Tail(marks1) /\ UNCHANGED marks3
       ELSE /\ unrecognized' = Append(unrecognized, Head(marks3))
            /\ marks3' = Tail(marks3) /\ UNCHANGED marks1
  /\ UNCHANGED <<file, pc, idx, select_vars, spans, dedup_count, findings>>

MergeRest ==
  /\ pc = "merge" /\ OneListDone
  /\ unrecognized' = unrecognized \o marks1 \o marks3
  /\ marks1' = << >> /\ marks3' = << >>
  /\ Enter("parsed")
  /\ UNCHANGED <<file, select_vars, spans, dedup_count, findings>>

-----------------------------------------------------------------------------
Rejected == {"FunctionBodyOutOfBytecodeRegion", "FunctionBodyOverlap",
             "FunctionBodyDedupOverflow"}
Ended == pc \in {"parsed"} \cup Rejected

Returned == Ended /\ UNCHANGED vars

Next ==
  \/ KeepDefaultLayout
  \/ SkipHeader
  \/ ScoreShape
  \/ CompareDecodes
  \/ TallyScore
  \/ DecideLayout
  \/ MarkUnrecognized
  \/ SkipEmptyBody
  \/ CollectSpan
  \/ SortSpans
  \/ ComparePair
  \/ BodiesCompared
  \/ ScreenHandlers
  \/ HandlersScreened
  \/ MergeHeads
  \/ MergeRest
  \/ Returned

Spec == Init /\ [][Next]_vars

(* parse is one sequential call. *)
FairSpec == Spec /\ WF_vars(Next)

=============================================================================
