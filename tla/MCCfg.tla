-------------------------------- MODULE MCCfg --------------------------------
(***************************************************************************)
(* Programs for the runs of Cfg: every four-instruction function of three  *)
(* families, each aimed at one part of Cfg::build.                         *)
(***************************************************************************)
EXTENDS CfgProps

Size == 2      \* every instruction is two bytes, so an odd address is astray
Length == 4    \* enough for a diamond, a loop with an exit and nested ranges

Offset(n) == (n - 1) * Size
Past == Length * Size
Starts == {Offset(n) : n \in 1..Length}

Make(n, kind, target, tab, cnt) ==
  [off |-> Offset(n), size |-> Size, kind |-> kind, rel |-> target - Offset(n),
   tab |-> tab, cnt |-> cnt]

Simple(n, kinds) == {Make(n, kind, 0, 0, 0) : kind \in kinds}
Jumps(n, kind, targets) == {Make(n, kind, t, 0, 0) : t \in targets}

(* The streams that choose their n-th instruction from choice[n]. *)
Streams(choice) ==
  LET upTo[n \in 0..Length] ==
        IF n = 0 THEN {<<>>}
        ELSE {Append(s, c) : s \in upTo[n - 1], c \in choice[n]}
  IN upTo[Length]

NoCode == [len |-> 0, at |-> <<>>]

(* Branches: any shape of flow, targets inside and past instructions. *)
BranchPrograms ==
  LET Flow(n) == Simple(n, {"plain", "ret"}) \cup Jumps(n, "cond", Starts)
      choice == << Flow(1) \cup Jumps(1, "save", {Offset(3)}),
                   Flow(2) \cup Jumps(2, "cond", {1, Past}) \cup Jumps(2, "jmp", Starts),
                   Flow(3) \cup Jumps(3, "save", {Offset(2)}),
                   Simple(4, {"ret"}) \cup Jumps(4, "jmp", Starts) >>
  IN {[insts |-> s, handlers |-> <<>>, code |-> NoCode] : s \in Streams(choice)}

(* Handlers: one or two try ranges, nested, overlapping, cutting an        *)
(* instruction, with a catch target that flow may or may not reach.        *)
HandlerPrograms ==
  LET choice == [n \in 1..Length |->
                   Simple(n, {"plain", "throw"}) \cup Jumps(n, "cond", {Offset(4)})
                   \cup (IF n > 2 THEN Jumps(n, "jmp", {0}) ELSE {})]
      H(a, b, t) == [start |-> a, end |-> b, target |-> t]
      single == {H(a, b, t) : a \in {0, Offset(2)}, b \in {Offset(2) + 1, Offset(3), Past},
                              t \in {Offset(2), Offset(4), 1}}
  IN {[insts |-> s, handlers |-> h, code |-> NoCode] :
        s \in Streams(choice),
        h \in {<<h1>> : h1 \in single} \cup {<<H(0, Offset(4), Offset(4)), h2>> : h2 \in single}}

(* Switches: a table behind the code, truncated, clamped or empty, with    *)
(* shared and astray targets.                                              *)
SwitchPrograms ==
  LET switch == {Make(2, kind, t, tab, cnt) :
                   kind \in {"strsw", "intsw"}, t \in {Offset(3), Offset(4), 1},
                   tab \in {Past - Offset(2), U32Max}, cnt \in {-1, 1, 4}}
      choice == << Simple(1, {"plain"}), switch,
                   Simple(3, {"plain"}) \cup Jumps(3, "jmp", {Offset(2)}),
                   Simple(4, {"plain", "unreachable"}) >>
      len == Past + 16
      Case(id, t) == [id |-> id, rel |-> t - Offset(2)]
      Table(a, b) ==
        [len |-> len,
         at |-> [o \in 0..(len - 1) |->
                   IF o = Past THEN Case(1, a)
                   ELSE IF o \in {Past + 4, Past + 8} THEN Case(2, b) ELSE Case(3, 0)]]
  IN {[insts |-> s, handlers |-> <<>>, code |-> Table(a, b)] :
        s \in Streams(choice), a, b \in {0, Offset(3), Offset(4), 1}}

(* An empty function, and one whose last instruction ends past u32::MAX. *)
EdgePrograms ==
  {[insts |-> s, handlers |-> <<>>, code |-> NoCode] :
     s \in {<<>>, <<[Make(1, "plain", 0, 0, 0) EXCEPT !.size = U32Max + 1]>>}}

MCPrograms == BranchPrograms \cup HandlerPrograms \cup SwitchPrograms \cup EdgePrograms

=============================================================================
