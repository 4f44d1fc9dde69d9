------------------------- MODULE FunctionTableProps -------------------------
(***************************************************************************)
(* What parse promises about the function table of a bundle it accepts.    *)
(***************************************************************************)
EXTENDS FunctionTable

TypeOK ==
  /\ pc \in {"select", "pass1", "pass2", "pass3", "merge", "parsed"} \cup Rejected
  /\ idx \in Nat \ {0}
  /\ scratch.budget \in Nat
  /\ large_header_layout \in Shapes \cup {NoLayout}
  /\ spans \in Seq([fn : Fns, offset : Nat, size : Nat])
  /\ dedup_count \in Nat
  /\ marks1 \in Seq([fn : Fns, reason : Reasons])
  /\ marks3 \in Seq([fn : Fns, reason : Reasons])
  /\ unrecognized \in Seq([fn : Fns, reason : Reasons])

-----------------------------------------------------------------------------
(* The layout, without memos and without a budget.                         *)

TableFits(p, size) ==
  /\ p <= MaxPos /\ InFile(p)
  /\ Word(p) <= MaxHandlers
  /\ SpanInFile(p)
  /\ \A h \in 0..(Word(p) - 1) : InRange(Handler(p, h), size)

Fits(f, shape) ==
  LET flags == Large(f).flags[shape]
  IN ~flags.invalid /\ (flags.exc => TableFits(TableAt(file.fns[f].lo, shape), Large(f).size))

DecodesAlike(f) ==
  /\ Large(f).flags[36] = Large(f).flags[40]
  /\ Large(f).flags[36].exc => SameTables(file.fns[f].lo)

ScoredFns == {f \in Fns : Scored(f)}
Coherent == {shape \in Shapes : \A f \in ScoredFns : Fits(f, shape)}

HonestLayout ==
  CASE Coherent = {36} -> 36
    [] Coherent = {40} -> 40
    [] Coherent = Shapes /\ (\A f \in ScoredFns : DecodesAlike(f)) -> 36
    [] OTHER -> NoLayout

(* select_v98_large_header_layout decides by the whole population: though  *)
(* scores are memoized by header and tables by position, shared between    *)
(* parents of different sizes, the layout is the one that counting every   *)
(* function afresh gives, or NoLayout when the budget ran out ("no shape is    *)
(* ever picked from" a partial score).                                     *)
LayoutHonest ==
  pc # "select" /\ file.late98 =>
    large_header_layout = IF tally.exhausted THEN NoLayout ELSE HonestLayout

(* The selection and the accessors agree on what a table is: under a       *)
(* layout the selection chose, no overflowed function is found in pass 3   *)
(* to have a handler outside it, and none has a count beyond the cap.      *)
SelectedLayoutServes ==
  pc = "parsed" /\ file.late98 =>
    \A f \in Fns :
      file.fns[f].over =>
        /\ \A n \in DOMAIN unrecognized : unrecognized[n] # Mark(f, HandlerReason)
        /\ <<"ExceptionCountCap", f>> \notin findings

-----------------------------------------------------------------------------
Recognized == {f \in Fns : \A n \in DOMAIN unrecognized : unrecognized[n].fn # f}

Apart(a, b) == a.offset + a.size <= b.offset \/ b.offset + b.size <= a.offset

(* validate_function_regions compares neighbours only, after a sort by     *)
(* offset alone.  That is enough: in a bundle parse accepts, any two       *)
(* bodies that may be decoded are the same or share no byte, and all lie   *)
(* in the bytecode region.                                                 *)
BodiesApart ==
  pc = "parsed" =>
    \A f, g \in Recognized :
      LET a == FunctionGet(f)
          b == FunctionGet(g)
      IN a.size # 0 /\ b.size # 0 => InRegion(a) /\ (SameBody(a, b) \/ Apart(a, b))

(* is_function_unrecognized is a binary search: the list must be strictly  *)
(* ascending, also where a function marked in pass 3 precedes one marked   *)
(* in pass 1.                                                              *)
UnrecognizedSorted ==
  \A m, n \in DOMAIN unrecognized : m < n => unrecognized[m].fn < unrecognized[n].fn

(* What makes the metadata of a function unusable.                         *)
NoHeader(f) ==
  file.fns[f].over /\ (Large(f).oob \/ Large(f).synth \/ large_header_layout = NoLayout)

Aliased(f) ==
  /\ FunctionGet(f).exc
  /\ \E p \in file.synth :
       /\ p >= RuntimeTable(f)
       /\ p <= RuntimeTable(f) + 3 * ExceptionCount(f)

Unusable(f) == NoHeader(f) \/ Aliased(f) \/ OutOfRange(f)

(* parse drops exactly the functions whose metadata cannot be trusted, and *)
(* none of them in silence: each has a finding of its own reason, and the  *)
(* functions of an ambiguous layout have the one finding of the selection. *)
UnrecognizedExact ==
  pc = "parsed" =>
    /\ Fns \ Recognized = {f \in Fns : Unusable(f)}
    /\ \A n \in DOMAIN unrecognized :
         LET u == unrecognized[n]
         IN IF u.reason = "LargeHeaderLayoutAmbiguous"
              THEN <<u.reason, u.fn>> \notin findings
                   /\ \E e \in findings : e[1] = "V98LargeHeaderLayoutAmbiguous"
              ELSE <<u.reason, u.fn>> \in findings

(* parse returns. *)
Terminates == <>Ended

=============================================================================
