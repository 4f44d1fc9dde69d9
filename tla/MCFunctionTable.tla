--------------------------- MODULE MCFunctionTable ---------------------------
(***************************************************************************)
(* Bundles for the run of FunctionTable, in three families.                *)
(***************************************************************************)
EXTENDS FunctionTableProps, TLC

Cap == 9    \* the magic number, and U32Max

Flag(invalid, exc) == [invalid |-> invalid, exc |-> exc, rest |-> 0]
Plain == Flag(FALSE, FALSE)
Exc == Flag(FALSE, TRUE)
Invalid == Flag(TRUE, FALSE)

Small(offset, size, exc, tab) ==
  [over |-> FALSE, lo |-> "x", offset |-> offset, size |-> size, exc |-> exc, tab |-> tab]
Over(lo) == [over |-> TRUE, lo |-> lo, offset |-> 10, size |-> 1, exc |-> FALSE, tab |-> 0]

Header(offset, size, f36, f40, tab) ==
  [oob |-> FALSE, synth |-> FALSE, offset |-> offset, size |-> size,
   flags |-> (36 :> f36 @@ 40 :> f40), tab |-> tab]
Headers(x, y) == ("x" :> x) @@ ("y" :> y)

Base ==
  [late98 |-> TRUE, fns |-> << >>, large |-> Headers(Header(10, 1, Plain, Plain, 2), Header(10, 1, Plain, Plain, 2)),
   mem |-> <<Cap, 0, 0, 0>>, synth |-> {0, 1}, region |-> <<10, 20>>, budget |-> 20]

(* Tables: a table under Shape36 at word 2, with its wrong-shape reading   *)
(* at word 3, and tables of two handlers that overlap.                     *)
Memories ==
  {<<Cap, 0, c, w, v, u, t>> : c \in {0, 1, 3}, w \in {0, 1}, v \in {1, 2}, u \in {0, 1, 2, Cap}, t \in {0, 2}}
  \cup
  {<<Cap, 0, 2, 1, 2, 3, s, 2, 0, t>> : s \in {0, 2}, t \in {0, 4}}

FlagPairs == {<<Exc, Exc>>, <<Exc, Plain>>, <<Plain, Exc>>, <<Invalid, Plain>>, <<Exc, Invalid>>}

(* Two large headers over one memory, the second one also over the first   *)
(* header's wrong-shape table; the third function shares a header.         *)
Layouts ==
  {[Base EXCEPT
      !.fns = <<Over("x"), Over("y"), Over("x")>>,
      !.large = Headers(Header(10, sx, fx[1], fx[2], 2), Header(14, 2, fy[1], fy[2], ty)),
      !.mem = mem, !.budget = budget] :
     sx \in {2, 4}, fx \in FlagPairs, fy \in FlagPairs, ty \in {2, 3},
     mem \in Memories, budget \in {2, 20}}

(* Bodies: three of every offset and size, the third with a table that is  *)
(* good, out of range, beyond the cap, aliased or beyond the file.         *)
Bodies ==
  {[Base EXCEPT
      !.late98 = FALSE,
      !.fns = <<Small(a, m, FALSE, 2), Small(b, n, FALSE, 2), Small(c, k, TRUE, t)>>,
      !.mem = <<Cap, 0, 1, 0, 1, 0, 3, 4>>] :
     a \in 9..12, b \in 10..12, c \in 10..12, m \in {1, 2}, n \in 0..2, k \in 0..2,
     t \in {0, 2, 3, 6, 20, 40}}

(* Headers: out of bounds, in a computed region or sound, interleaved with *)
(* functions whose handlers are out of range.                              *)
Heads == {Header(10, 2, Exc, Plain, 2), Header(10, 2, Plain, Exc, 30),
          [Header(10, 2, Exc, Exc, 2) EXCEPT !.oob = TRUE],
          [Header(10, 2, Exc, Exc, 2) EXCEPT !.synth = TRUE]}

Mixed ==
  {[Base EXCEPT
      !.late98 = late,
      !.fns = <<e, Small(14, 1, TRUE, 3), f, Small(15, 1, TRUE, t)>>,
      !.large = Headers(x, y),
      !.mem = <<Cap, 0, 1, 1, 2, 1, 0>>] :
     late \in BOOLEAN, e \in {Over("x"), Small(10, 1, TRUE, 0)}, f \in {Over("y"), Small(16, 2, TRUE, 2)},
     x \in Heads, y \in Heads, t \in {2, 5}}

MCBundles == Layouts \cup Bodies \cup Mixed

=============================================================================
