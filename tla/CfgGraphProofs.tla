---------------------------- MODULE CfgGraphProofs ----------------------------
(***************************************************************************)
(* Proofs about the graph Cfg::build returns: where its blocks start and   *)
(* end, which edges, predecessors and catch targets they carry, and in     *)
(* which order block_order holds them.                                     *)
(***************************************************************************)
EXTENDS CfgProofs, Induction

-----------------------------------------------------------------------------
(* Offsets grow with the index, since the instructions tile the code.      *)

Off(n) == Insts[n].off
Past(n) == Insts[n].off + Insts[n].size

LEMMA NextTile ==
  ASSUME prog \in Programs, NEW m \in DOMAIN Insts, NEW n \in DOMAIN Insts, n = m + 1
  PROVE  Off(n) = Past(m)
<1>1. \A i \in DOMAIN Insts :
        Insts[i].off = IF i = 1 THEN 0 ELSE Insts[i - 1].off + Insts[i - 1].size
  BY ProgramFacts DEF Tiled
<1>2. Insts[n].off = IF n = 1 THEN 0 ELSE Insts[n - 1].off + Insts[n - 1].size
  BY <1>1
<1>3. n # 1 /\ n - 1 = m
  <2>1. m \in 1..Len(Insts)
    BY ProgramFacts
  <2> QED BY <2>1
<1>4. Insts[n].off = Insts[n - 1].off + Insts[n - 1].size
  BY <1>2, <1>3
<1>5. Insts[n - 1] = Insts[m]
  BY <1>3, Zenon
<1> QED BY <1>4, <1>5 DEF Off, Past

LEMMA FirstTile ==
  ASSUME prog \in Programs, Insts # <<>>
  PROVE  1 \in DOMAIN Insts /\ Off(1) = 0
<1>1. 1 \in DOMAIN Insts
  BY ProgramFacts
<1> QED BY <1>1, ProgramFacts DEF Tiled, Off

LEMMA TiledOrder ==
  ASSUME prog \in Programs, NEW m \in DOMAIN Insts, NEW n \in DOMAIN Insts, m < n
  PROVE  Past(m) <= Off(n)
<1>0. Insts \in Seq(Insn) /\ DOMAIN Insts = 1..Len(Insts) /\ Len(Insts) \in Nat
  BY ProgramFacts
<1> DEFINE S == {j \in Int : j \in DOMAIN Insts /\ Past(m) <= Off(j)}
<1>1. ASSUME NEW i \in DOMAIN Insts
      PROVE  Off(i) \in Nat /\ Past(i) \in Nat /\ Off(i) < Past(i)
  BY <1>1, InsnFacts DEF Off, Past
<1>2. ASSUME NEW i \in Int, i = m + 1 PROVE i \in S
  <2>1. i \in DOMAIN Insts
    BY <1>0, <1>2
  <2>2. Off(i) = Past(m)
    BY <1>2, <2>1, NextTile
  <2> QED BY <1>1, <2>1, <2>2
<1>3. ASSUME NEW j \in S, NEW i \in Int, i = j + 1, i <= n PROVE i \in S
  <2>1. j \in DOMAIN Insts /\ i \in DOMAIN Insts /\ Past(m) <= Off(j)
    BY <1>0, <1>3
  <2>2. Off(i) = Past(j)
    BY <1>3, <2>1, NextTile
  <2>3. /\ Past(m) \in Nat /\ Past(j) \in Nat /\ Off(j) \in Nat /\ Off(j) < Past(j)
    BY <1>1, <2>1
  <2> QED BY <2>1, <2>2, <2>3
<1>4. (m + 1)..n \subseteq S
  <2> DEFINE a == m + 1
  <2>1. a \in Int /\ n \in Int
    BY <1>0
  <2>2. a \in S
    BY <1>2, <2>1
  <2>3. \A j \in a..(n - 1) : j \in S => j + 1 \in S
    BY <1>3, <2>1
  <2> HIDE DEF S, a
  <2>4. a..n \subseteq S
    BY <2>1, <2>2, <2>3, IntervalInduction
  <2> QED BY <2>4 DEF a
<1> QED BY <1>0, <1>4

(* What the proofs below use of it. *)
LEMMA OffsetFacts ==
  ASSUME prog \in Programs, NEW m \in DOMAIN Insts, NEW n \in DOMAIN Insts
  PROVE  /\ Off(m) \in Nat /\ Past(m) \in Nat /\ Off(m) < Past(m)
         /\ m < n => Off(m) < Off(n) /\ Past(m) <= Off(n)
         /\ Off(m) = Off(n) => m = n
         /\ Off(m) < Off(n) => m < n
         /\ Off(m) <= Off(n) <=> m <= n
<1>0. DOMAIN Insts \subseteq Int
  BY ProgramFacts
<1>1. ASSUME NEW i \in DOMAIN Insts
      PROVE  Off(i) \in Nat /\ Past(i) \in Nat /\ Off(i) < Past(i)
  BY <1>1, InsnFacts DEF Off, Past
<1>2. ASSUME NEW i \in DOMAIN Insts, NEW j \in DOMAIN Insts, i < j
      PROVE  Past(i) <= Off(j) /\ Off(i) < Off(j)
  BY <1>1, <1>2, TiledOrder
<1> QED BY <1>0, <1>1, <1>2

LEMMA IntervalMax ==
  ASSUME NEW m \in Int, NEW n \in Int, m <= n
  PROVE  Max(m..n) = n
<1>1. n \in m..n /\ \A y \in m..n : n >= y
  OBVIOUS
<1>2. \A x \in m..n : (\A y \in m..n : x >= y) => x = n
  BY <1>1
<1> QED BY <1>1, <1>2 DEF Max

-----------------------------------------------------------------------------
(* After splitting, each phase writes its own fields of the blocks: the    *)
(* edges phase successors and string ids, linking predecessors, and the    *)
(* handler phase catch targets.                                            *)

SameSpan(q, r) == q.start = r.start /\ q.end = r.end /\ q.insts = r.insts
SameFlow(q, r) == q.succ = r.succ /\ q.ids = r.ids

LateKept ==
  /\ Ids' = Ids /\ prog' = prog /\ Insts' = Insts /\ boundaries' = boundaries
  /\ \A b \in Ids :
       /\ SameSpan(blocks'[b], blocks[b])
       /\ pc \notin {"edges", "cases"} => SameFlow(blocks'[b], blocks[b])
       /\ pc # "link" => blocks'[b].pred = blocks[b].pred
       /\ pc # "handlers" => blocks'[b].exc = blocks[b].exc

LEMMA ExceptKeepsFields ==
  ASSUME NEW r \in BlockRecord, NEW x, NEW y
  PROVE  /\ /\ SameSpan([r EXCEPT !.succ = x], r)
            /\ [r EXCEPT !.succ = x].pred = r.pred /\ [r EXCEPT !.succ = x].exc = r.exc
            /\ [r EXCEPT !.succ = x].succ = x /\ [r EXCEPT !.succ = x].ids = r.ids
         /\ /\ SameSpan([r EXCEPT !.succ = x, !.ids = y], r)
            /\ [r EXCEPT !.succ = x, !.ids = y].pred = r.pred
            /\ [r EXCEPT !.succ = x, !.ids = y].exc = r.exc
            /\ [r EXCEPT !.succ = x, !.ids = y].succ = x
            /\ [r EXCEPT !.succ = x, !.ids = y].ids = y
         /\ /\ SameSpan([r EXCEPT !.pred = x], r) /\ SameFlow([r EXCEPT !.pred = x], r)
            /\ [r EXCEPT !.pred = x].exc = r.exc /\ [r EXCEPT !.pred = x].pred = x
         /\ /\ SameSpan([r EXCEPT !.exc = x], r) /\ SameFlow([r EXCEPT !.exc = x], r)
            /\ [r EXCEPT !.exc = x].pred = r.pred /\ [r EXCEPT !.exc = x].exc = x
BY DEF BlockRecord, SameSpan, SameFlow

(* The blocks after linking b: b joins the predecessors of its successors. *)
LEMMA LinkFacts ==
  ASSUME TypeInv, NEW b \in Ids, Link(b)
  PROVE  /\ Ids' = Ids
         /\ \A t \in Ids : blocks'[t] =
              [blocks[t] EXCEPT !.pred =
                 blocks[t].pred \o [n \in 1..Count(blocks[b].succ, t) |-> b]]
<1> DEFINE preds(t) == blocks[t].pred \o [n \in 1..Count(blocks[b].succ, t) |-> b]
<1>1. blocks' = [t \in Ids |-> [blocks[t] EXCEPT !.pred = preds(t)]]
  BY DEF Link
<1> HIDE DEF preds
<1>2. Ids' = Ids /\ \A t \in Ids : blocks'[t] = [blocks[t] EXCEPT !.pred = preds(t)]
  BY <1>1 DEF Ids
<1> QED BY <1>2 DEF preds

LEMMA LateSteps ==
  ASSUME TypeInv, Next, pc \notin {"boundaries", "split"}
  PROVE  LateKept
<1>0. TypeOK /\ (\A b \in Ids : blocks[b] \in BlockRecord) /\ blocks \in [Ids -> BlockRecord]
  BY DEF TypeInv, TypeOK
<1>1. ASSUME UNCHANGED <<prog, boundaries, blocks>> PROVE LateKept
  BY <1>1 DEF LateKept, Ids, Insts, SameSpan, SameFlow
<1>2. ASSUME NEW b \in Ids, Edges(b) \/ CloseSwitch(b) PROVE LateKept
  <2>1. /\ \/ blocks' = blocks
           \/ blocks' = [blocks EXCEPT ![b].succ = Successors(b)]
           \/ blocks' = [blocks EXCEPT ![b].succ = succs, ![b].ids = ids]
        /\ pc \in {"edges", "cases"} /\ prog' = prog /\ boundaries' = boundaries
    BY <1>2 DEF Edges, CloseSwitch, split_vars
  <2>2. Ids' = Ids
    BY <2>1 DEF Ids
  <2>3. \A t \in Ids : blocks'[t] \in {blocks[t], [blocks[t] EXCEPT !.succ = Successors(t)],
                                       [blocks[t] EXCEPT !.succ = succs, !.ids = ids]}
    BY <1>0, <2>1
  <2>4. ASSUME NEW t \in Ids
        PROVE  /\ SameSpan(blocks'[t], blocks[t]) /\ blocks'[t].pred = blocks[t].pred
               /\ blocks'[t].exc = blocks[t].exc
    <3> DEFINE q == [blocks[t] EXCEPT !.succ = Successors(t)]
               r == [blocks[t] EXCEPT !.succ = succs, !.ids = ids]
    <3>1. SameSpan(q, blocks[t]) /\ q.pred = blocks[t].pred /\ q.exc = blocks[t].exc
      BY <1>0, ExceptKeepsFields, Zenon
    <3>4. SameSpan(r, blocks[t]) /\ r.pred = blocks[t].pred /\ r.exc = blocks[t].exc
      BY <1>0 DEF BlockRecord, SameSpan
    <3>2. blocks'[t] \in {blocks[t], q, r}
      BY <2>3, Zenon
    <3>3. SameSpan(blocks[t], blocks[t])
      BY DEF SameSpan
    <3> HIDE DEF q, r
    <3> QED BY <3>1, <3>2, <3>3, <3>4
  <2> QED BY <2>1, <2>2, <2>4 DEF LateKept, Insts
<1>3. ASSUME NEW b \in Ids, Link(b) PROVE LateKept
  <2>1. pc = "link" /\ prog' = prog /\ boundaries' = boundaries
    BY <1>3 DEF Link, split_vars
  <2>2. ASSUME NEW t \in Ids
        PROVE  /\ SameSpan(blocks'[t], blocks[t]) /\ SameFlow(blocks'[t], blocks[t])
               /\ blocks'[t].exc = blocks[t].exc
    <3> DEFINE more == blocks[t].pred \o [n \in 1..Count(blocks[b].succ, t) |-> b]
    <3>1. blocks'[t] = [blocks[t] EXCEPT !.pred = more]
      BY <1>3, LinkFacts
    <3> HIDE DEF more
    <3> DEFINE q == [blocks[t] EXCEPT !.pred = more]
    <3>2. SameSpan(q, blocks[t]) /\ SameFlow(q, blocks[t]) /\ q.exc = blocks[t].exc
      BY <1>0, ExceptKeepsFields, Zenon
    <3> QED BY <3>1, <3>2, Zenon
  <2>3. Ids' = Ids
    BY <1>3, LinkFacts
  <2> QED BY <2>1, <2>2, <2>3 DEF LateKept, Insts
<1>4. ASSUME MapHandler PROVE LateKept
  <2>1. /\ \/ blocks' = blocks
           \/ blocks' = [b \in Ids |-> IF Covers(prog.handlers[k], blocks[b])
                 THEN [blocks[b] EXCEPT !.exc = prog.handlers[k].target] ELSE blocks[b]]
        /\ pc = "handlers" /\ prog' = prog /\ boundaries' = boundaries
    BY <1>4 DEF MapHandler, split_vars
  <2>2. Ids' = Ids
    BY <2>1 DEF Ids
  <2>3. \A b \in Ids : blocks'[b] \in {blocks[b], [blocks[b] EXCEPT !.exc = prog.handlers[k].target]}
    BY <2>1
  <2>4. ASSUME NEW t \in Ids
        PROVE  /\ SameSpan(blocks'[t], blocks[t]) /\ SameFlow(blocks'[t], blocks[t])
               /\ blocks'[t].pred = blocks[t].pred
    <3> DEFINE q == [blocks[t] EXCEPT !.exc = prog.handlers[k].target]
    <3>1. /\ SameSpan(q, blocks[t]) /\ SameFlow(q, blocks[t]) /\ q.pred = blocks[t].pred
      BY <1>0, ExceptKeepsFields, Zenon
    <3>2. blocks'[t] \in {blocks[t], q}
      BY <2>3
    <3>3. SameSpan(blocks[t], blocks[t]) /\ SameFlow(blocks[t], blocks[t])
      BY DEF SameSpan, SameFlow
    <3> HIDE DEF q
    <3> QED BY <3>1, <3>2, <3>3
  <2> QED BY <2>1, <2>2, <2>4 DEF LateKept, Insts
<1>5. ASSUME NEW b \in Ids, PushCase(b) \/ StartSearch(b) \/ AppendUnreachable(b) PROVE LateKept
  BY <1>1, <1>5 DEF PushCase, StartSearch, AppendUnreachable, split_vars
<1>6. ASSUME EdgesDone \/ LinkDone \/ Finish \/ Skip \/ Expand \/ PushSuccessor \/ SearchDone
              \/ CheckLayout \/ Returned
      PROVE LateKept
  BY <1>1, <1>6 DEF EdgesDone, LinkDone, Finish, Skip, Expand, PushSuccessor, SearchDone,
                    CheckLayout, Returned, vars, split_vars
<1>7. ~(FindBoundaries \/ EmptyFunction \/ Split \/ CloseLastBlock)
  BY DEF FindBoundaries, EmptyFunction, Split, CloseLastBlock
<1> QED BY <1>2, <1>3, <1>4, <1>5, <1>6, <1>7 DEF Next, BlockStep

(* Which phase follows which. *)
LEMMA PhaseOrder ==
  ASSUME Next
  PROVE  /\ pc = "boundaries" => pc' \in {"split", "done", "err"}
         /\ pc = "split" => pc' \in {"split", "edges"}
         /\ pc \in {"edges", "cases"} => pc' \in {"edges", "cases", "link"}
         /\ pc = "link" => pc' \in {"link", "handlers"}
         /\ pc = "handlers" => pc' \in {"handlers", "err", "dfs"}
         /\ pc = "dfs" => pc' \in {"dfs", "rest"}
         /\ pc = "rest" => pc' \in {"rest", "done", "err"}
         /\ pc \in {"done", "err"} => UNCHANGED vars
BY DEF Next, BlockStep, Edges, PushCase, CloseSwitch, Link, StartSearch, AppendUnreachable,
       FindBoundaries, EmptyFunction, Split, CloseLastBlock, EdgesDone, LinkDone, MapHandler,
       Finish, Skip, Expand, PushSuccessor, SearchDone, CheckLayout, Returned, Fail, vars

(* Which action each phase runs. *)
LEMMA PhaseActions ==
  ASSUME Next
  PROVE  /\ pc = "boundaries" => FindBoundaries \/ EmptyFunction
         /\ pc = "split" => Split \/ CloseLastBlock
         /\ pc = "edges" => EdgesDone \/ \E b \in Ids : Edges(b)
         /\ pc = "cases" => \E b \in Ids : PushCase(b) \/ CloseSwitch(b)
         /\ pc = "link" => LinkDone \/ \E b \in Ids : Link(b)
         /\ pc = "handlers" => MapHandler \/ \E b \in Ids : StartSearch(b)
         /\ pc = "dfs" => Finish \/ Skip \/ Expand \/ PushSuccessor \/ SearchDone
         /\ pc = "rest" => CheckLayout \/ \E b \in Ids : AppendUnreachable(b)
BY DEF Next, BlockStep, Edges, PushCase, CloseSwitch, Link, StartSearch, AppendUnreachable,
       FindBoundaries, EmptyFunction, Split, CloseLastBlock, EdgesDone, LinkDone, MapHandler,
       Finish, Skip, Expand, PushSuccessor, SearchDone, CheckLayout, Returned

LEMMA AddBlockFacts ==
  ASSUME NEW past, AddBlock(past)
  PROVE  /\ Ids' = Ids \cup {start} /\ blocks'[start] = Block(start, past, cur)
         /\ \A b \in Ids \ {start} : blocks'[b] = blocks[b]
BY DEF AddBlock, Ids

-----------------------------------------------------------------------------
(* Predecessors mirror successors.  Until a block is linked it is nobody's *)
(* predecessor; linking it appends it once per successor occurrence.       *)

LEMMA CountNone == \A x : Count(<<>>, x) = 0
<1>1. \A x : {n \in DOMAIN <<>> : <<>>[n] = x} = {}
  OBVIOUS
<1> QED BY <1>1, FS_EmptySet DEF Count

Repeat(b, c) == [n \in 1..c |-> b]

LEMMA CountMore ==
  ASSUME NEW S, NEW s \in Seq(S), NEW c \in Nat, NEW b \in S, NEW a
  PROVE  Count(s \o Repeat(b, c), a) = IF a = b THEN Count(s, a) + c ELSE Count(s, a)
<1> DEFINE t == Repeat(b, c)
           both == s \o t
           old == {n \in DOMAIN s : s[n] = a}
           new == {n \in DOMAIN both : both[n] = a}
           added == (Len(s) + 1)..(Len(s) + c)
<1>1. t \in Seq(S) /\ Len(t) = c /\ \A n \in 1..c : t[n] = b
  BY DEF Repeat
<1>2. Len(s) \in Nat /\ DOMAIN s = 1..Len(s)
  OBVIOUS
<1>3. /\ DOMAIN both = 1..(Len(s) + c)
      /\ \A n \in 1..Len(s) : both[n] = s[n]
      /\ \A n \in added : both[n] = b
  <2> HIDE DEF t
  <2>1. Len(both) = Len(s) + c /\ both \in Seq(S)
    BY <1>1
  <2>2. \A n \in 1..Len(s) : both[n] = s[n]
    BY <1>1
  <2>3. ASSUME NEW n \in added PROVE both[n] = b
    <3>1. n - Len(s) \in 1..c /\ n \in 1..(Len(s) + c) /\ ~(n <= Len(s))
      BY <1>2
    <3>2. both[n] = t[n - Len(s)]
      BY <1>1, <1>2, <3>1
    <3> QED BY <1>1, <3>1, <3>2
  <2> QED BY <2>1, <2>2, <2>3
<1>4. IsFiniteSet(old) /\ Cardinality(old) \in Nat
  <2>1. IsFiniteSet(DOMAIN s)
    BY <1>2, FS_Interval
  <2> QED BY <2>1, FS_Subset, FS_CardinalityType
<1> HIDE DEF t, both
<1>5. CASE a # b
  <2>1. new = old
    BY <1>2, <1>3, <1>5
  <2> QED BY <1>5, <2>1 DEF Count, both, t
<1>6. CASE a = b
  <2>1. new = old \cup added /\ old \cap added = {}
    BY <1>2, <1>3, <1>6
  <2>2. IsFiniteSet(added) /\ Cardinality(added) = c
    <3> DEFINE lo == Len(s) + 1
               hi == Len(s) + c
    <3>1. lo \in Int /\ hi \in Int /\ (IF lo > hi THEN 0 ELSE hi - lo + 1) = c
      BY <1>2
    <3> HIDE DEF lo, hi
    <3>2. IsFiniteSet(lo..hi) /\ Cardinality(lo..hi) = IF lo > hi THEN 0 ELSE hi - lo + 1
      BY <3>1, FS_Interval
    <3> QED BY <3>1, <3>2 DEF lo, hi
  <2> HIDE DEF old, new, added
  <2>3. Cardinality(old \cup added) = Cardinality(old) + Cardinality(added) - Cardinality(old \cap added)
    BY <1>4, <2>2, FS_Union
  <2>4. Cardinality(new) = Cardinality(old) + c
    <3>1. Cardinality(old \cap added) = 0
      BY <2>1, FS_EmptySet
    <3> QED BY <1>4, <2>1, <2>2, <2>3, <3>1
  <2> QED BY <1>6, <2>4 DEF Count, both, t, old, new
<1> QED BY <1>5, <1>6

PredInv ==
  /\ pc \in {"boundaries", "split", "edges", "cases"} => \A b \in Ids : blocks[b].pred = <<>>
  /\ pc = "link" => \A a \in todo : \A b \in Ids : Count(blocks[b].pred, a) = 0
  /\ EdgesSymmetric

LEMMA PredInit == Init => PredInv
BY DEF Init, PredInv, EdgesSymmetric, Ids

LEMMA PredStep == TypeInv /\ PredInv /\ [Next]_vars => PredInv'
<1> SUFFICES ASSUME TypeInv, PredInv, [Next]_vars PROVE PredInv'
  OBVIOUS
<1> DEFINE unlinked == IF pc = "link" THEN todo ELSE {}
<1>0. /\ TypeOK /\ (\A b \in Ids : blocks[b] \in BlockRecord)
  BY DEF TypeInv, TypeOK
<1>1. CASE UNCHANGED vars
  BY <1>1 DEF vars, PredInv, EdgesSymmetric, Ids
<1>2. CASE Next /\ pc \in {"boundaries", "split"}
  <2>1. pc' \in {"split", "edges", "err"} \/ EmptyFunction
    BY <1>2, PhaseActions, PhaseOrder DEF FindBoundaries, Fail
  <2>2. CASE EmptyFunction
    <3>1. Ids' = {0} /\ blocks'[0].pred = <<>> /\ blocks'[0].succ = <<>> /\ pc' = "done"
      BY <2>2 DEF EmptyFunction, Ids, Block
    <3> QED BY <3>1 DEF PredInv, EdgesSymmetric
  <2>3. CASE blocks' = blocks
    BY <1>2, <2>1, <2>2, <2>3 DEF PredInv, EdgesSymmetric, Ids
  <2>4. ASSUME NEW past, AddBlock(past) PROVE PredInv'
    <3>1. ASSUME NEW b \in Ids' PROVE blocks'[b].pred = <<>>
      <4>3. blocks'[start] = Block(start, past, cur)
        BY <2>4, AddBlockFacts, Zenon
      <4>1. blocks'[start].pred = <<>>
        BY <4>3 DEF Block
      <4>2. b # start => b \in Ids /\ blocks'[b] = blocks[b]
        BY <2>4, AddBlockFacts
      <4> QED BY <1>2, <4>1, <4>2 DEF PredInv
    <3> QED BY <1>2, <2>1, <2>2, <3>1 DEF PredInv, EdgesSymmetric
  <2> QED BY <1>2, <2>2, <2>3, <2>4, PhaseActions DEF FindBoundaries, Split, CloseLastBlock
<1>3. CASE Next /\ pc \in {"edges", "cases"}
  <2>1. LateKept /\ pc' \in {"edges", "cases", "link"}
    BY <1>3, LateSteps, PhaseOrder
  <2>2. \A b \in Ids' : blocks'[b].pred = <<>>
    BY <1>3, <2>1 DEF LateKept, PredInv
  <2>3. pc' = "link" => todo' = Ids'
    BY <1>3, PhaseActions DEF EdgesDone, Edges, PushCase, CloseSwitch, Ids
  <2> QED BY <2>1, <2>2, <2>3, CountNone DEF PredInv, EdgesSymmetric
<1>4. CASE Next /\ pc = "link"
  <2>1. CASE LinkDone
    BY <1>4, <2>1 DEF LinkDone, PredInv, EdgesSymmetric, Ids
  <2>2. ASSUME NEW b \in Ids, Link(b) PROVE PredInv'
    <3>1. /\ pc' = "link" /\ todo' = todo \ {b} /\ b \in todo /\ Ids' = Ids /\ LateKept
      BY <1>4, <2>2, LateSteps DEF Link, Least, LateKept
    <3>2. \A t \in Ids : blocks'[t].succ = blocks[t].succ
      BY <1>4, <3>1 DEF LateKept, SameFlow
    <3>3. ASSUME NEW t \in Ids, NEW a \in Ids
          PROVE  Count(blocks'[t].pred, a) =
                   IF a = b THEN Count(blocks[t].pred, a) + Count(blocks[b].succ, t)
                   ELSE Count(blocks[t].pred, a)
      <4> DEFINE c == Count(blocks[b].succ, t)
                 more == blocks[t].pred \o [n \in 1..c |-> b]
      <4>1. blocks'[t] = [blocks[t] EXCEPT !.pred = more]
        BY <2>2, LinkFacts
      <4>2. c \in Nat
        <5>1. blocks[b].succ \in Seq(Ids)
          BY <1>0 DEF BlockRecord
        <5> QED BY <5>1, CountTyped
      <4>3. blocks[t].pred \in Seq(Ids)
        BY <1>0 DEF BlockRecord
      <4>4. blocks'[t].pred = more
        <5> HIDE DEF more
        <5>1. [blocks[t] EXCEPT !.pred = more].pred = more
          BY <1>0 DEF BlockRecord
        <5> QED BY <4>1, <5>1
      <4> DEFINE s == blocks[t].pred
      <4> HIDE DEF c, s
      <4>6. s \in Seq(Ids)
        BY <4>3 DEF s
      <4>7. Count(s \o Repeat(b, c), a) = IF a = b THEN Count(s, a) + c ELSE Count(s, a)
        BY <4>2, <4>6, CountMore
      <4>5. Count(more, a) = IF a = b THEN Count(blocks[t].pred, a) + c ELSE Count(blocks[t].pred, a)
        BY <4>7 DEF s, Repeat
      <4> QED BY <4>4, <4>5 DEF c
    <3>4. ASSUME NEW a \in todo', NEW t \in Ids' PROVE Count(blocks'[t].pred, a) = 0
      BY <1>0, <1>4, <3>1, <3>3 DEF PredInv, TypeOK
    <3>5. ASSUME NEW a \in Ids \ todo', NEW t \in Ids
          PROVE  Count(blocks'[t].pred, a) = Count(blocks'[a].succ, t)
      <4>1. CASE a = b
        <5>1. Count(blocks[t].pred, a) = 0 /\ Count(blocks[b].succ, t) \in Nat
          <6>1. blocks[b].succ \in Seq(Ids)
            BY <1>0 DEF BlockRecord
          <6> QED BY <1>4, <3>1, <4>1, <6>1, CountTyped DEF PredInv
        <5> QED BY <3>2, <3>3, <4>1, <5>1
      <4>2. CASE a # b
        <5>1. Count(blocks[t].pred, a) = Count(blocks[a].succ, t)
          BY <1>4, <3>1, <3>5, <4>2 DEF PredInv, EdgesSymmetric
        <5> QED BY <3>2, <3>3, <4>2, <5>1
      <4> QED BY <4>1, <4>2
    <3> QED BY <3>1, <3>4, <3>5 DEF PredInv, EdgesSymmetric
  <2> QED BY <1>4, <2>1, <2>2, PhaseActions
<1>5. CASE Next /\ pc \in {"handlers", "dfs", "rest"}
  <2>1. LateKept /\ pc' \in {"handlers", "dfs", "rest", "done", "err"}
    BY <1>5, LateSteps, PhaseOrder
  <2>2. /\ Ids' = Ids
        /\ \A b \in Ids : blocks'[b].pred = blocks[b].pred /\ blocks'[b].succ = blocks[b].succ
    BY <1>5, <2>1 DEF LateKept, SameFlow
  <2> QED BY <1>5, <2>1, <2>2 DEF PredInv, EdgesSymmetric
<1> QED BY <1>1, <1>2, <1>3, <1>4, <1>5, PhaseOrder DEF TypeInv, TypeOK, Phases

(* For every edge of the graph the target lists the source as often as the *)
(* source lists the target, whatever the graph: a branch to its own        *)
(* fall-through is two successors and two predecessors.                    *)
THEOREM EdgesSymmetricCorrect == Spec => []EdgesSymmetric
<1>1. PredInv => EdgesSymmetric
  BY DEF PredInv
<1> QED BY <1>1, TypeInit, TypeStep, PredInit, PredStep, PTL DEF Spec

-----------------------------------------------------------------------------
(* Where blocks start and end.  A finished block is an interval of the     *)
(* instructions between two boundaries with no boundary inside, and the    *)
(* boundaries that are offsets of instructions are the block ids.          *)

(* The function has instructions and its boundaries have been found. *)
Cut == pc # "boundaries" /\ err # "ArithmeticOverflow" /\ Insts # <<>>

AllBoundaries ==
  {0} \cup HandlerBoundaries \cup UNION {BoundariesOf(i) : i \in Reached(Insts)}

Offsets == {Off(j) : j \in DOMAIN Insts}
OffsetsTo(n) == {Off(j) : j \in 1..n}
NoCut(m, n) == \A j \in (m + 1)..n : Off(j) \notin boundaries

IsBlock(b, m, n) ==
  /\ m \in DOMAIN Insts /\ n \in DOMAIN Insts /\ m <= n
  /\ b = Off(m) /\ b \in boundaries /\ NoCut(m, n)
  /\ n = Len(Insts) \/ Off(n + 1) \in boundaries
  /\ blocks[b].insts = m..n /\ blocks[b].start = b /\ blocks[b].end = Past(n)

(* The block in the making, when n instructions have been read. *)
InMaking(n) ==
  IF cur = {} THEN n = 0 /\ Ids = {}
  ELSE /\ \E m \in 1..n : cur = m..n /\ start = Off(m) /\ NoCut(m, n)
       /\ Ids \cup {start} = OffsetsTo(n) \cap boundaries

ShapeInv ==
  /\ pc # "err" => err = "none"
  /\ Cut =>
       /\ boundaries = AllBoundaries
       /\ \A n \in DOMAIN Insts : NextOffset(Insts[n]) # None
       /\ \A b \in Ids : \E m, n \in DOMAIN Insts : IsBlock(b, m, n)
       /\ IF pc = "split" THEN \E n \in Nat : k = n + 1 /\ InMaking(n)
          ELSE Ids = Offsets \cap boundaries

(* What depends on the input and the boundaries only. *)
LEMMA SameInput ==
  ASSUME prog' = prog, boundaries' = boundaries
  PROVE  /\ Insts' = Insts /\ AllBoundaries' = AllBoundaries /\ Offsets' = Offsets
         /\ \A n : Off(n)' = Off(n) /\ Past(n)' = Past(n) /\ OffsetsTo(n)' = OffsetsTo(n)
         /\ \A m, n : NoCut(m, n)' <=> NoCut(m, n)
<1>1. Insts' = Insts
  BY DEF Insts
<1>2. \A n : Off(n)' = Off(n) /\ Past(n)' = Past(n)
  BY <1>1 DEF Off, Past
<1>3. Offsets' = Offsets
  BY <1>1 DEF Offsets, Off
<1>4. ASSUME NEW n PROVE OffsetsTo(n)' = OffsetsTo(n)
  BY <1>1 DEF OffsetsTo, Off
<1>5. ASSUME NEW m, NEW n PROVE NoCut(m, n)' <=> NoCut(m, n)
  BY <1>1 DEF NoCut, Off
<1>6. AllBoundaries' = AllBoundaries
  BY <1>1 DEF AllBoundaries, HandlerBoundaries, BoundariesOf, Reached
<1> QED BY <1>1, <1>2, <1>3, <1>4, <1>5, <1>6

(* A block keeps its shape when its own fields and the boundaries do. *)
LEMMA IsBlockKept ==
  ASSUME NEW b, NEW m, NEW n, IsBlock(b, m, n), SameSpan(blocks'[b], blocks[b]),
         Insts' = Insts, boundaries' = boundaries
  PROVE  IsBlock(b, m, n)'
BY DEF IsBlock, SameSpan, NoCut, Off, Past

LEMMA ShapeInit == Init => ShapeInv
BY DEF Init, ShapeInv, Cut

(* The lowest address is a boundary, so the first block starts at it. *)
LEMMA ZeroIsBoundary ==
  ASSUME boundaries = AllBoundaries
  PROVE  0 \in boundaries
BY Zenon DEF AllBoundaries

(* Closing a block whose last instruction is n - 1, at the boundary past it. *)
LEMMA CloseShape ==
  ASSUME TypeInv, ShapeInv, Cut, pc = "split", Next, NEW n \in 1..Len(Insts), k = n + 1,
         NEW past, AddBlock(past), past = Past(n), cur # {}, InMaking(n),
         prog' = prog, boundaries' = boundaries,
         n = Len(Insts) \/ Off(n + 1) \in boundaries
  PROVE  /\ \A b \in Ids' : \E i, j \in DOMAIN Insts : IsBlock(b, i, j)'
         /\ Ids' = OffsetsTo(n) \cap boundaries
<1>0. /\ prog \in Programs /\ Insts' = Insts /\ DOMAIN Insts = 1..Len(Insts)
      /\ Len(Insts) \in Nat /\ n \in Int /\ k - 1 = n
  <2>1. prog \in Programs
    BY DEF TypeInv
  <2> QED BY <2>1, ProgramFacts DEF Insts
<1>1. PICK c : c = start
  OBVIOUS
<1>2. PICK m \in 1..n : cur = m..n /\ c = Off(m) /\ NoCut(m, n)
  BY <1>1 DEF InMaking
<1>3. Ids \cup {c} = OffsetsTo(n) \cap boundaries
  BY <1>1 DEF InMaking
<1>4. /\ Ids' = Ids \cup {c} /\ blocks'[c] = Block(c, past, cur)
      /\ \A b \in Ids \ {c} : blocks'[b] = blocks[b]
  BY <1>1, AddBlockFacts, Zenon
<1>5. m \in DOMAIN Insts /\ n \in DOMAIN Insts /\ m <= n
  <2>0. Len(Insts) \in Nat
    BY <1>0, Zenon
  <2>1. n \in Int /\ 1 <= n /\ n <= Len(Insts)
    BY <2>0
  <2>2. m \in Int /\ 1 <= m /\ m <= n
    BY <2>1
  <2>3. m \in 1..Len(Insts) /\ n \in 1..Len(Insts)
    BY <2>0, <2>1, <2>2
  <2> QED BY <1>0, <2>2, <2>3, Zenon
<1>6. IsBlock(c, m, n)'
  <2>1. blocks'[c].insts = cur /\ blocks'[c].start = c /\ blocks'[c].end = past
    BY <1>4 DEF Block
  <2>2. c \in boundaries
    BY <1>3
  <2>3. /\ c = Off(m)' /\ NoCut(m, n)' /\ past = Past(n)'
    BY <1>0, <1>2, SameInput, Zenon
  <2>4. n = Len(Insts') \/ Off(n + 1)' \in boundaries'
    BY <1>0, Zenon DEF Off
  <2> QED BY <1>0, <1>2, <1>5, <2>1, <2>2, <2>3, <2>4, Zenon DEF IsBlock
<1>7. ASSUME NEW b \in Ids, b # c
      PROVE  \E i, j \in DOMAIN Insts : IsBlock(b, i, j)'
  <2>1. PICK i, j \in DOMAIN Insts : IsBlock(b, i, j)
    BY DEF ShapeInv
  <2>2. SameSpan(blocks'[b], blocks[b])
    BY <1>4, <1>7 DEF SameSpan
  <2>3. IsBlock(b, i, j)'
    BY <1>0, <2>1, <2>2, IsBlockKept, Zenon
  <2> QED BY <2>3
<1>8. ASSUME NEW b \in Ids' PROVE \E i, j \in DOMAIN Insts : IsBlock(b, i, j)'
  <2>1. CASE b = c
    BY <1>5, <1>6, <2>1, Zenon
  <2>2. CASE b # c
    BY <1>4, <1>7, <2>2
  <2> QED BY <2>1, <2>2
<1> QED BY <1>3, <1>4, <1>8

LEMMA ShapeSplit ==
  ASSUME TypeInv, ShapeInv, Cut, Split
  PROVE  ShapeInv'
<1>0. /\ prog \in Programs /\ prog' = prog /\ DOMAIN Insts = 1..Len(Insts)
      /\ Len(Insts) \in Nat /\ boundaries' = boundaries /\ pc = "split" /\ pc' = "split"
      /\ err' = err /\ k' = k + 1
  <2>1. prog \in Programs /\ prog' = prog
    BY DEF TypeInv, Split
  <2> QED BY <2>1, ProgramFacts DEF Split
<1>1. PICK n \in Nat : k = n + 1 /\ InMaking(n)
  BY <1>0 DEF ShapeInv
<1> DEFINE q == n + 1
<1>2. /\ k = q /\ k' = q + 1 /\ q \in Nat /\ q \in DOMAIN Insts /\ q \in 1..q
      /\ (IF n = 0 THEN cur = {} ELSE cur # {} /\ n \in DOMAIN Insts /\ n \in 1..Len(Insts))
  BY <1>0, <1>1 DEF Split, TypeInv
<1>3. /\ boundaries = AllBoundaries /\ err = "none"
      /\ \A i \in DOMAIN Insts : NextOffset(Insts[i]) # None
  BY <1>0 DEF ShapeInv
<1>4. /\ Insts' = Insts /\ AllBoundaries' = AllBoundaries
      /\ \A i : Off(i)' = Off(i) /\ OffsetsTo(i)' = OffsetsTo(i)
      /\ \A i, j : NoCut(i, j)' <=> NoCut(i, j)
  BY <1>0, SameInput
<1>5. OffsetsTo(q) = OffsetsTo(n) \cup {Off(q)}
  <2>1. 1..q = 1..n \cup {q}
    OBVIOUS
  <2> HIDE DEF q
  <2> QED BY <2>1 DEF OffsetsTo
<1>6. q \in Nat /\ q = n + 1
  OBVIOUS
<1> HIDE DEF q
<1>7. Cut'
  BY <1>0, <1>4 DEF Cut
<1>8. CASE Off(q) \in boundaries /\ cur # {}
  <2>1. AddBlock(Off(q)) /\ cur' = {q} /\ start' = Off(q)
    BY <1>2, <1>8 DEF Split, Off
  <2>2. n \in 1..Len(Insts) /\ n \in DOMAIN Insts
    BY <1>2, <1>8
  <2>3. Off(q) = Past(n)
    BY <1>0, <1>2, <1>6, <2>2, NextTile
  <2>4. Next /\ Off(n + 1) \in boundaries
    BY <1>6, <1>8 DEF Next
  <2>5. /\ \A b \in Ids' : \E i, j \in DOMAIN Insts : IsBlock(b, i, j)'
        /\ Ids' = OffsetsTo(n) \cap boundaries
    BY <1>0, <1>1, <1>8, <2>1, <2>2, <2>3, <2>4, CloseShape, Zenon
  <2>6. InMaking(q)'
    <3>1. cur' = q..q /\ cur' # {}
      BY <1>6, <2>1
    <3>2. start' = Off(q)' /\ NoCut(q, q)'
      <4>1. NoCut(q, q)
        BY <1>6 DEF NoCut
      <4> QED BY <1>4, <2>1, <4>1
    <3>3. Ids' \cup {start'} = OffsetsTo(q) \cap boundaries
      BY <1>5, <1>8, <2>1, <2>5
    <3> QED BY <1>0, <1>2, <1>4, <3>1, <3>2, <3>3 DEF InMaking
  <2> QED BY <1>0, <1>2, <1>3, <1>4, <1>6, <2>5, <2>6 DEF ShapeInv
<1>9. CASE ~(Off(q) \in boundaries /\ cur # {})
  <2>1. /\ cur' = cur \cup {q} /\ blocks' = blocks
        /\ start' = IF cur = {} THEN Off(q) ELSE start
    BY <1>2, <1>9 DEF Split, Off
  <2>2. Ids' = Ids
    BY <2>1 DEF Ids
  <2>3. \A b \in Ids' : \E i, j \in DOMAIN Insts : IsBlock(b, i, j)'
    <3> SUFFICES ASSUME NEW b \in Ids PROVE \E i, j \in DOMAIN Insts : IsBlock(b, i, j)'
      BY <2>2
    <3>1. PICK i, j \in DOMAIN Insts : IsBlock(b, i, j)
      BY <1>0 DEF ShapeInv
    <3>2. SameSpan(blocks'[b], blocks[b])
      BY <2>1 DEF SameSpan
    <3>3. IsBlock(b, i, j)'
      BY <1>0, <1>4, <3>1, <3>2, IsBlockKept
    <3> QED BY <3>3
  <2>4. InMaking(q)'
    <3>1. CASE cur = {}
      <4>1. n = 0 /\ Ids = {} /\ q = 1
        BY <1>1, <1>6, <3>1 DEF InMaking
      <4>2. Off(1) = 0 /\ 0 \in boundaries
        BY <1>0, <1>3, FirstTile, ZeroIsBoundary DEF Cut
      <4>3. cur' = 1..1 /\ start' = Off(1) /\ cur' # {}
        BY <2>1, <3>1, <4>1
      <4>4. Ids' \cup {start'} = OffsetsTo(1) \cap boundaries
        BY <2>2, <4>1, <4>2, <4>3 DEF OffsetsTo
      <4>5. NoCut(1, 1)
        BY DEF NoCut
      <4>6. start' = Off(1)' /\ NoCut(1, 1)' /\ 1 \in 1..1
        BY <1>4, <4>3, <4>5
      <4> QED BY <1>0, <1>4, <4>1, <4>3, <4>4, <4>6 DEF InMaking
    <3>2. CASE cur # {}
      <4>1. Off(q) \notin boundaries
        BY <1>9, <3>2
      <4>2. PICK m \in 1..n : cur = m..n /\ start = Off(m) /\ NoCut(m, n)
        BY <1>1, <3>2 DEF InMaking
      <4>3. cur' = m..q /\ m \in 1..q /\ start' = Off(m) /\ cur' # {}
        BY <1>6, <2>1, <3>2, <4>2
      <4>4. NoCut(m, q)
        BY <1>6, <4>1, <4>2 DEF NoCut
      <4>5. start' = Off(m)' /\ NoCut(m, q)'
        BY <1>4, <4>3, <4>4
      <4>6. Ids' \cup {start'} = OffsetsTo(q) \cap boundaries
        BY <1>1, <1>5, <2>1, <2>2, <3>2, <4>1 DEF InMaking
      <4> QED BY <1>0, <1>4, <4>3, <4>5, <4>6 DEF InMaking
    <3> QED BY <3>1, <3>2
  <2> QED BY <1>0, <1>2, <1>3, <1>4, <1>6, <2>3, <2>4 DEF ShapeInv
<1> QED BY <1>8, <1>9

LEMMA ShapeStep == TypeInv /\ ShapeInv /\ [Next]_vars => ShapeInv'
<1> SUFFICES ASSUME TypeInv, ShapeInv, [Next]_vars PROVE ShapeInv'
  OBVIOUS
<1>0. prog \in Programs /\ DOMAIN Insts = 1..Len(Insts) /\ Len(Insts) \in Nat
  <2>1. prog \in Programs
    BY DEF TypeInv
  <2> QED BY <2>1, ProgramFacts
<1>1. CASE UNCHANGED vars
  <2>1. UNCHANGED <<prog, boundaries, blocks, pc, err, k, cur, start>>
    BY <1>1 DEF vars, split_vars
  <2>2. Ids' = Ids /\ (Cut' <=> Cut) /\ Insts' = Insts
    BY <2>1 DEF Ids, Cut, Insts
  <2>3. ASSUME NEW n, InMaking(n) PROVE InMaking(n)'
    BY <2>1, <2>2, <2>3, SameInput DEF InMaking
  <2>4. ASSUME Cut, NEW b \in Ids PROVE \E m, n \in DOMAIN Insts : IsBlock(b, m, n)'
    <3>1. PICK m, n \in DOMAIN Insts : IsBlock(b, m, n)
      BY <2>4 DEF ShapeInv
    <3>2. IsBlock(b, m, n)'
      BY <2>1, <2>2, <3>1, IsBlockKept DEF SameSpan
    <3> QED BY <3>2
  <2> QED BY <2>1, <2>2, <2>3, <2>4, SameInput DEF ShapeInv
<1>2. CASE FindBoundaries
  <2>1. /\ pc' \in {"split", "err"} /\ pc = "boundaries" /\ Insts' = Insts /\ prog' = prog
        /\ UNCHANGED <<k, cur, start, blocks>>
    BY <1>2 DEF FindBoundaries, Fail, Insts
  <2>2. pc' = "err" => err' = "ArithmeticOverflow"
    BY <1>2 DEF FindBoundaries, Fail
  <2>3. ASSUME pc' = "split"
        PROVE  /\ boundaries' = AllBoundaries /\ err' = err
               /\ \A n \in DOMAIN Insts : NextOffset(Insts[n]) # None
    BY <1>2, <2>3 DEF FindBoundaries, Fail, AllBoundaries, Reached
  <2>4. AllBoundaries' = AllBoundaries
    BY <2>1 DEF AllBoundaries, HandlerBoundaries, BoundariesOf, Reached, Insts
  <2>5. k' = 0 + 1 /\ cur' = {} /\ Ids' = {}
    BY <2>1 DEF TypeInv, Ids
  <2>6. InMaking(0)'
    BY <2>5 DEF InMaking
  <2>7. err = "none"
    BY <2>1 DEF ShapeInv
  <2> QED BY <2>1, <2>2, <2>3, <2>4, <2>5, <2>6, <2>7 DEF ShapeInv, Cut
<1>3. CASE EmptyFunction
  <2>1. Insts' = <<>> /\ err' = err /\ pc = "boundaries" /\ pc' = "done"
    BY <1>3 DEF EmptyFunction, Insts
  <2> QED BY <2>1 DEF ShapeInv, Cut
<1>4. ASSUME pc = "split" PROVE Cut
  <2>1. Len(Insts) > 0
    BY <1>4 DEF TypeInv
  <2>2. Insts # <<>>
    BY <1>0, <2>1
  <2> QED BY <1>4, <2>2 DEF Cut, ShapeInv
<1>5. CASE Split
  <2>1. Cut
    BY <1>4, <1>5 DEF Split
  <2> QED BY <1>5, <2>1, ShapeSplit
<1>6. CASE CloseLastBlock
  <2>1. /\ pc = "split" /\ pc' = "edges" /\ err' = err /\ prog' = prog
        /\ boundaries' = boundaries /\ AddBlock(NextOffset(Insts[Len(Insts)]))
    BY <1>6 DEF CloseLastBlock, split_vars
  <2>2. Cut /\ err = "none"
    BY <1>4, <2>1 DEF ShapeInv
  <2>3. PICK n \in Nat : k = n + 1 /\ InMaking(n)
    BY <2>1, <2>2 DEF ShapeInv
  <2>4. n = Len(Insts) /\ n \in 1..Len(Insts) /\ cur # {} /\ n \in DOMAIN Insts
    <3>1. k \in 1..(Len(Insts) + 1) /\ k > Len(Insts)
      BY <1>6, <2>1 DEF CloseLastBlock, TypeInv
    <3>4. Len(Insts) \in Nat
      BY <1>0
    <3>2. n = Len(Insts)
      BY <2>3, <3>1, <3>4
    <3>3. Len(Insts) > 0 /\ (IF k = 1 THEN cur = {} ELSE k - 1 \in cur)
      BY <2>1 DEF TypeInv
    <3> QED BY <1>0, <2>3, <3>2, <3>3
  <2>5. NextOffset(Insts[n]) = Past(n)
    BY <1>0, <2>1, <2>4 DEF TypeInv, NextOffset, Past
  <2>6. Next /\ AddBlock(NextOffset(Insts[n]))
    BY <1>6, <2>1, <2>4 DEF Next
  <2>7. /\ \A b \in Ids' : \E i, j \in DOMAIN Insts : IsBlock(b, i, j)'
        /\ Ids' = OffsetsTo(n) \cap boundaries
    BY <2>1, <2>2, <2>3, <2>4, <2>5, <2>6, CloseShape
  <2>8. OffsetsTo(n) = Offsets
    BY <1>0, <2>4 DEF OffsetsTo, Offsets
  <2>9. Insts' = Insts /\ Offsets' = Offsets /\ AllBoundaries' = AllBoundaries
    BY <2>1, SameInput
  <2> QED BY <2>1, <2>2, <2>7, <2>8, <2>9 DEF ShapeInv, Cut
<1>7. CASE Next /\ pc \notin {"boundaries", "split"}
  <2>1. LateKept /\ pc' \notin {"boundaries", "split"}
    BY <1>7, LateSteps, BlocksKept
  <2>2. /\ Ids' = Ids /\ Insts' = Insts /\ boundaries' = boundaries /\ prog' = prog
        /\ \A b \in Ids : SameSpan(blocks'[b], blocks[b])
    BY <2>1 DEF LateKept
  <2>3. /\ pc # "err" /\ pc' # "err" => err' = err
        /\ pc # "err" /\ pc' = "err" =>
             err' \in {"InvalidExceptionHandlerTarget", "InvalidExceptionLayout"}
        /\ pc = "err" => err' = err /\ pc' = pc
    BY <1>7 DEF Next, BlockStep, Edges, PushCase, CloseSwitch, Link, StartSearch,
       AppendUnreachable, FindBoundaries, EmptyFunction, Split, CloseLastBlock, EdgesDone,
       LinkDone, MapHandler, Finish, Skip, Expand, PushSuccessor, SearchDone, CheckLayout,
       Returned, Fail, vars
  <2>4. (pc' # "err" => err' = "none") /\ (Cut' => Cut)
    BY <1>7, <2>2, <2>3 DEF ShapeInv, Cut
  <2>5. Offsets' = Offsets /\ AllBoundaries' = AllBoundaries
    BY <2>2, SameInput
  <2>6. ASSUME Cut, NEW b \in Ids PROVE \E m, n \in DOMAIN Insts : IsBlock(b, m, n)'
    <3>1. PICK m, n \in DOMAIN Insts : IsBlock(b, m, n)
      BY <2>6 DEF ShapeInv
    <3>2. IsBlock(b, m, n)'
      BY <2>2, <3>1, IsBlockKept
    <3> QED BY <3>2
  <2> QED BY <1>7, <2>1, <2>2, <2>4, <2>5, <2>6 DEF ShapeInv
<1> QED BY <1>1, <1>2, <1>3, <1>5, <1>6, <1>7, PhaseActions

(* The ends of a block. *)
LEMMA BlockEnds ==
  ASSUME TypeInv, ShapeInv, Cut, NEW b \in Ids
  PROVE  \E m, n \in DOMAIN Insts :
           IsBlock(b, m, n) /\ Max(blocks[b].insts) = n /\ LastInst(b) = Insts[n]
<1>1. PICK m, n \in DOMAIN Insts : IsBlock(b, m, n)
  BY DEF ShapeInv
<1>2. blocks[b].insts = m..n /\ m <= n
  BY <1>1 DEF IsBlock
<1>3. m \in Int /\ n \in Int
  BY ProgramFacts DEF TypeInv
<1>4. Max(m..n) = n
  BY <1>2, <1>3, IntervalMax
<1> QED BY <1>1, <1>2, <1>4 DEF LastInst

LEMMA LateCut ==
  ASSUME ShapeInv, LateKept, Next, pc \notin {"boundaries", "split"}, Cut'
  PROVE  Cut
<1>1. /\ pc # "err" /\ pc' # "err" => err' = err
      /\ pc = "err" => err' = err /\ pc' = pc
  BY DEF Next, BlockStep, Edges, PushCase, CloseSwitch, Link, StartSearch,
     AppendUnreachable, FindBoundaries, EmptyFunction, Split, CloseLastBlock, EdgesDone,
     LinkDone, MapHandler, Finish, Skip, Expand, PushSuccessor, SearchDone, CheckLayout,
     Returned, Fail, vars
<1> QED BY <1>1 DEF ShapeInv, Cut, LateKept

-----------------------------------------------------------------------------
(* The successors of a block.  A switch leads to its default and, once     *)
(* each, to the targets of the entries read so far that are blocks; while  *)
(* these are all different, entry j is successor j + 1.                    *)

TableOf(b) == CaseTable(LastInst(b))
DefaultOf(b) == SignedTarget(LastInst(b).off, LastInst(b).rel)
TargetOf(b, j) == SignedTarget(LastInst(b).off, TableOf(b)[j].rel)

OwnTargets(b, n) ==
  /\ DefaultOf(b) \in Ids
  /\ \A j \in 1..n : /\ TargetOf(b, j) \in Ids /\ TargetOf(b, j) # DefaultOf(b)
                     /\ \A i \in 1..n : TargetOf(b, i) = TargetOf(b, j) => i = j

SwitchRead(b, n, s, d) ==
  /\ n \in 0..Len(TableOf(b)) /\ s \in Seq(Ids) /\ d \in Seq(Nat)
  /\ Reached(s) = ({DefaultOf(b)} \cup {TargetOf(b, j) : j \in 1..n}) \cap Ids
  /\ OwnTargets(b, n) =>
       Len(s) = n + 1 /\ s[1] = DefaultOf(b) /\ \A j \in 1..n : s[j + 1] = TargetOf(b, j)
  /\ LastInst(b).kind = "strsw" => Len(d) = n /\ \A j \in 1..n : d[j] = TableOf(b)[j].id

EdgeDone(b) ==
  IF IsSwitch(LastInst(b))
    THEN \E s, d : /\ s = blocks[b].succ /\ d = blocks[b].ids
                   /\ SwitchRead(b, Len(TableOf(b)), s, d)
    ELSE blocks[b].succ = Successors(b)

(* The switch being read: its first n entries are. *)
Reading(b) ==
  /\ Least(b, todo) /\ IsSwitch(LastInst(b))
  /\ \E n, s, d : k = n + 1 /\ s = succs /\ d = ids /\ SwitchRead(b, n, s, d)

FlowInv ==
  Cut =>
    /\ pc \in {"edges", "cases"} => \A b \in Ids \ todo : EdgeDone(b)
    /\ pc = "cases" => \E b \in Ids : Reading(b)
    /\ pc \notin {"split", "edges", "cases"} => \A b \in Ids : EdgeDone(b)

LEMMA TableTyped ==
  ASSUME TypeInv, ShapeInv, Cut, NEW b \in Ids
  PROVE  /\ TableOf(b) \in Seq(TableEntry) /\ LastInst(b) \in Insn
         /\ Len(TableOf(b)) \in Nat /\ DOMAIN TableOf(b) = 1..Len(TableOf(b))
<1>1. PICK n \in DOMAIN Insts : LastInst(b) = Insts[n]
  BY BlockEnds
<1>2. prog \in Programs
  BY DEF TypeInv
<1>3. Insts[n].cnt \in Int /\ Insts[n].off + Insts[n].tab \in Nat
  BY <1>2, InsnFacts
<1>4. prog.code.len \in Nat /\ prog.code.at \in [0..(prog.code.len - 1) -> TableEntry]
  BY <1>2, ProgramFacts
<1>5. TableOf(b) \in Seq(TableEntry)
  BY <1>1, <1>3, <1>4, EntriesTyped DEF TableOf, CaseTable
<1>6. LastInst(b) \in Insn
  BY <1>1, <1>2, ProgramFacts
<1> QED BY <1>5, <1>6

(* What a switch leads to is a matter of the input and the block ids. *)
LEMMA SameTable ==
  ASSUME NEW b, blocks'[b].insts = blocks[b].insts, Ids' = Ids, prog' = prog
  PROVE  /\ LastInst(b)' = LastInst(b) /\ TableOf(b)' = TableOf(b)
         /\ DefaultOf(b)' = DefaultOf(b) /\ Successors(b)' = Successors(b)
         /\ \A n, s, d : SwitchRead(b, n, s, d) => SwitchRead(b, n, s, d)'
<1>1. LastInst(b)' = LastInst(b)
  BY DEF LastInst, Insts
<1>2. TableOf(b)' = TableOf(b) /\ DefaultOf(b)' = DefaultOf(b)
  BY <1>1 DEF TableOf, CaseTable, DefaultOf
<1>3. ASSUME NEW j PROVE TargetOf(b, j)' = TargetOf(b, j)
  BY <1>1, <1>2 DEF TargetOf
<1>4. Successors(b)' = Successors(b)
  BY <1>1 DEF Successors, Present, NextBlock, NextId
<1>5. ASSUME NEW n PROVE OwnTargets(b, n)' <=> OwnTargets(b, n)
  BY <1>2, <1>3 DEF OwnTargets
<1>6. ASSUME NEW n, NEW s, NEW d, SwitchRead(b, n, s, d) PROVE SwitchRead(b, n, s, d)'
  BY <1>1, <1>2, <1>3, <1>5, <1>6 DEF SwitchRead
<1> QED BY <1>1, <1>2, <1>4, <1>6

LEMMA EdgeDoneKept ==
  ASSUME NEW b, SameSpan(blocks'[b], blocks[b]), SameFlow(blocks'[b], blocks[b]), Ids' = Ids,
         prog' = prog, EdgeDone(b)
  PROVE  EdgeDone(b)'
<1>1. /\ LastInst(b)' = LastInst(b) /\ TableOf(b)' = TableOf(b)
      /\ Successors(b)' = Successors(b)
      /\ \A n, s, d : SwitchRead(b, n, s, d) => SwitchRead(b, n, s, d)'
  BY SameTable DEF SameSpan
<1>2. blocks'[b].succ = blocks[b].succ /\ blocks'[b].ids = blocks[b].ids
  BY DEF SameFlow
<1>3. CASE IsSwitch(LastInst(b))
  <2>1. PICK s, d : /\ s = blocks[b].succ /\ d = blocks[b].ids
                    /\ SwitchRead(b, Len(TableOf(b)), s, d)
    BY <1>3 DEF EdgeDone
  <2>2. PICK n : n = Len(TableOf(b))
    OBVIOUS
  <2>3. SwitchRead(b, n, s, d)'
    BY <1>1, <2>1, <2>2
  <2>4. SwitchRead(b, Len(TableOf(b)), s, d)'
    BY <1>1, <2>2, <2>3 DEF SwitchRead, OwnTargets
  <2> QED BY <1>1, <1>2, <1>3, <2>1, <2>4 DEF EdgeDone
<1>4. CASE ~IsSwitch(LastInst(b))
  BY <1>1, <1>2, <1>4 DEF EdgeDone
<1> QED BY <1>3, <1>4

LEMMA LeastUnique ==
  ASSUME NEW S \in SUBSET Nat, NEW a, NEW b, Least(a, S), Least(b, S)
  PROVE  a = b
BY DEF Least

LEMMA PresentReached == \A t : Reached(Present(t)) = {t} \cap Ids
<1>1. ASSUME NEW t, t \in Ids PROVE Reached(<<t>>) = {t}
  <2>1. DOMAIN <<t>> = {1} /\ <<t>>[1] = t
    OBVIOUS
  <2> HIDE DEF Reached
  <2> QED BY <2>1 DEF Reached
<1>2. Reached(<<>>) = {}
  BY DEF Reached
<1> QED BY <1>1, <1>2 DEF Present

(* Reading a switch starts with its default. *)
LEMMA ReadDefault ==
  ASSUME TypeInv, ShapeInv, Cut, NEW b \in Ids
  PROVE  SwitchRead(b, 0, Present(DefaultOf(b)), <<>>)
<1>1. Len(TableOf(b)) \in Nat
  BY TableTyped
<1>2. Reached(Present(DefaultOf(b))) = {DefaultOf(b)} \cap Ids
  BY PresentReached
<1>3. DefaultOf(b) \in Ids => Len(Present(DefaultOf(b))) = 1 /\ Present(DefaultOf(b))[1] = DefaultOf(b)
  BY DEF Present
<1>4. Present(DefaultOf(b)) \in Seq(Ids) /\ <<>> \in Seq(Nat) /\ Len(<<>>) = 0
  BY PresentTyped
<1> QED BY <1>1, <1>2, <1>3, <1>4 DEF SwitchRead, OwnTargets

(* Reading one entry adds its target when it is a new block, and its id.   *)
LEMMA ReadEntry ==
  ASSUME TypeInv, ShapeInv, Cut, NEW b \in Ids, NEW n \in Nat, NEW s, NEW d,
         SwitchRead(b, n, s, d), n < Len(TableOf(b)),
         NEW t, t = TargetOf(b, n + 1), NEW x, x = TableOf(b)[n + 1].id
  PROVE  SwitchRead(b, n + 1,
                    IF t \in Ids /\ t \notin Reached(s) THEN Append(s, t) ELSE s,
                    IF LastInst(b).kind = "strsw" THEN Append(d, x) ELSE d)
<1> DEFINE s2 == IF t \in Ids /\ t \notin Reached(s) THEN Append(s, t) ELSE s
           d2 == IF LastInst(b).kind = "strsw" THEN Append(d, x) ELSE d
           q == n + 1
<1>1. /\ s \in Seq(Ids) /\ d \in Seq(Nat)
      /\ Reached(s) = ({DefaultOf(b)} \cup {TargetOf(b, j) : j \in 1..n}) \cap Ids
  BY DEF SwitchRead
<1>2. Len(TableOf(b)) \in Nat /\ q \in 1..Len(TableOf(b)) /\ q \in 0..Len(TableOf(b))
  BY TableTyped
<1>3. x \in Nat
  <2>1. TableOf(b) \in Seq(TableEntry)
    BY TableTyped
  <2>2. TableOf(b)[q] \in TableEntry
    BY <1>2, <2>1, ElementTyped
  <2> QED BY <2>2 DEF TableEntry
<1>4. 1..q = 1..n \cup {q} /\ q \in Nat /\ q \notin 1..n /\ q = n + 1
  OBVIOUS
<1>5. t = TargetOf(b, q) /\ x = TableOf(b)[q].id
  OBVIOUS
<1>6. s2 \in Seq(Ids) /\ d2 \in Seq(Nat)
  BY <1>1, <1>3
<1> HIDE DEF q
<1>7. Reached(s2) = Reached(s) \cup ({t} \cap Ids)
  <2>1. CASE t \in Ids /\ t \notin Reached(s)
    BY <1>1, <2>1, AppendReached
  <2>2. CASE ~(t \in Ids /\ t \notin Reached(s))
    BY <2>2
  <2> QED BY <2>1, <2>2
<1>8. {TargetOf(b, j) : j \in 1..q} = {TargetOf(b, j) : j \in 1..n} \cup {t}
  BY <1>4, <1>5
<1>9. Reached(s2) = ({DefaultOf(b)} \cup {TargetOf(b, j) : j \in 1..q}) \cap Ids
  BY <1>1, <1>7, <1>8
<1>10. ASSUME OwnTargets(b, q)
       PROVE  Len(s2) = q + 1 /\ s2[1] = DefaultOf(b) /\ \A j \in 1..q : s2[j + 1] = TargetOf(b, j)
  <2>1. /\ OwnTargets(b, n) /\ t \in Ids /\ t # DefaultOf(b)
        /\ \A j \in 1..n : t # TargetOf(b, j)
    BY <1>4, <1>5, <1>10 DEF OwnTargets
  <2>2. t \notin Reached(s)
    BY <1>1, <2>1
  <2>3. s2 = Append(s, t)
    BY <2>1, <2>2
  <2>4. Len(s) = q /\ s[1] = DefaultOf(b) /\ \A j \in 1..n : s[j + 1] = TargetOf(b, j)
    BY <1>4, <2>1 DEF SwitchRead
  <2>5. Len(s2) = q + 1 /\ (\A j \in 1..q : s2[j] = s[j]) /\ s2[q + 1] = t
    BY <1>1, <2>1, <2>3, <2>4, AppendFacts
  <2>6. 1 \in 1..q /\ \A j \in 1..n : j + 1 \in 1..q
    BY <1>4
  <2>7. ASSUME NEW j \in 1..q PROVE s2[j + 1] = TargetOf(b, j)
    <3>1. CASE j = q
      BY <1>5, <2>5, <3>1
    <3>2. CASE j \in 1..n
      <4>1. s2[j + 1] = s[j + 1]
        BY <2>5, <2>6, <3>2
      <4> QED BY <2>4, <3>2, <4>1
    <3> QED BY <1>4, <3>1, <3>2
  <2> QED BY <2>4, <2>5, <2>6, <2>7
<1>11. ASSUME LastInst(b).kind = "strsw"
       PROVE  Len(d2) = q /\ \A j \in 1..q : d2[j] = TableOf(b)[j].id
  <2>1. d2 = Append(d, x) /\ Len(d) = n /\ \A j \in 1..n : d[j] = TableOf(b)[j].id
    BY <1>11 DEF SwitchRead
  <2>2. Len(d2) = q /\ (\A j \in 1..n : d2[j] = d[j]) /\ d2[q] = x
    BY <1>1, <1>3, <1>4, <2>1, AppendFacts
  <2> QED BY <1>4, <1>5, <2>1, <2>2
<1> HIDE DEF s2, d2
<1>12. SwitchRead(b, q, s2, d2)
  BY <1>2, <1>6, <1>9, <1>10, <1>11 DEF SwitchRead
<1> QED BY <1>12 DEF s2, d2, q

LEMMA FlowInit == Init => FlowInv
BY DEF Init, FlowInv, Cut

LEMMA FlowEdges ==
  ASSUME TypeInv, ShapeInv, Cut, FlowInv, Next, pc = "edges"
  PROVE  FlowInv'
<1>0. LateKept
  BY LateSteps
<1>1. /\ Ids' = Ids /\ prog' = prog /\ Insts' = Insts
      /\ \A b \in Ids : SameSpan(blocks'[b], blocks[b]) /\ b \in Nat
  BY <1>0 DEF LateKept, TypeInv, TypeOK
<1>2. \A b \in Ids \ todo : EdgeDone(b)
  BY DEF FlowInv
<1>3. CASE EdgesDone
  <2>1. blocks' = blocks /\ todo = {} /\ pc' = "link"
    BY <1>3 DEF EdgesDone
  <2>2. ASSUME NEW b \in Ids PROVE EdgeDone(b)'
    <3>1. EdgeDone(b) /\ SameFlow(blocks'[b], blocks[b])
      BY <1>2, <2>1 DEF SameFlow
    <3> QED BY <1>1, <3>1, EdgeDoneKept
  <2> QED BY <1>1, <2>1, <2>2 DEF FlowInv
<1>4. ASSUME NEW b \in Ids, Edges(b), ~IsSwitch(LastInst(b)) PROVE FlowInv'
  <2>1. /\ blocks' = [blocks EXCEPT ![b].succ = Successors(b)] /\ todo' = todo \ {b}
        /\ pc' = "edges"
    BY <1>4 DEF Edges
  <2>2. blocks'[b].succ = Successors(b) /\ \A c \in Ids \ {b} : blocks'[c] = blocks[c]
    BY <2>1 DEF TypeInv, TypeOK, BlockRecord
  <2>3. EdgeDone(b)'
    <3>1. LastInst(b)' = LastInst(b) /\ Successors(b)' = Successors(b)
      BY <1>1, SameTable DEF SameSpan
    <3> QED BY <1>4, <2>2, <3>1 DEF EdgeDone
  <2>4. ASSUME NEW c \in Ids \ todo', c # b PROVE EdgeDone(c)'
    <3>1. EdgeDone(c) /\ SameFlow(blocks'[c], blocks[c])
      BY <1>2, <2>1, <2>2, <2>4 DEF SameFlow
    <3> QED BY <1>1, <3>1, EdgeDoneKept
  <2> QED BY <1>1, <2>1, <2>3, <2>4 DEF FlowInv
<1>5. ASSUME NEW b \in Ids, Edges(b), IsSwitch(LastInst(b)) PROVE FlowInv'
  <2>1. /\ blocks' = blocks /\ todo' = todo /\ pc' = "cases" /\ k' = 1 /\ ids' = <<>>
        /\ succs' = Present(DefaultOf(b)) /\ Least(b, todo)
    BY <1>5 DEF Edges, DefaultOf
  <2>2. ASSUME NEW c \in Ids \ todo' PROVE EdgeDone(c)'
    <3>1. EdgeDone(c) /\ SameFlow(blocks'[c], blocks[c])
      BY <1>2, <2>1 DEF SameFlow
    <3> QED BY <1>1, <3>1, EdgeDoneKept
  <2>3. Reading(b)'
    <3>1. PICK s, d : s = succs' /\ d = ids'
      OBVIOUS
    <3>2. SwitchRead(b, 0, s, d)
      BY <2>1, <3>1, ReadDefault
    <3>3. SwitchRead(b, 0, s, d)' /\ LastInst(b)' = LastInst(b)
      BY <1>1, <3>2, SameTable DEF SameSpan
    <3>4. k' = 0 + 1 /\ Least(b, todo)'
      BY <2>1 DEF Least
    <3> QED BY <1>5, <3>1, <3>3, <3>4 DEF Reading
  <2> QED BY <1>1, <2>1, <2>2, <2>3 DEF FlowInv
<1> QED BY <1>3, <1>4, <1>5, PhaseActions

LEMMA FlowCases ==
  ASSUME TypeInv, ShapeInv, Cut, FlowInv, Next, pc = "cases"
  PROVE  FlowInv'
<1>0. LateKept
  BY LateSteps
<1>1. /\ Ids' = Ids /\ prog' = prog /\ Insts' = Insts
      /\ (\A b \in Ids : SameSpan(blocks'[b], blocks[b]))
      /\ Ids \in SUBSET Nat /\ todo \in SUBSET Nat
  BY <1>0 DEF LateKept, TypeInv, TypeOK
<1>2. \A b \in Ids \ todo : EdgeDone(b)
  BY DEF FlowInv
<1>3. PICK a \in Ids : Reading(a)
  BY DEF FlowInv
<1>4. PICK n, s, d : k = n + 1 /\ s = succs /\ d = ids /\ SwitchRead(a, n, s, d)
  BY <1>3 DEF Reading
<1>5. /\ n \in Nat /\ n <= Len(TableOf(a)) /\ Len(TableOf(a)) \in Nat
      /\ IsSwitch(LastInst(a)) /\ Least(a, todo)
  BY <1>3, <1>4, TableTyped DEF Reading, SwitchRead
<1>6. ASSUME NEW b \in Ids, Least(b, todo) PROVE b = a
  BY <1>1, <1>5, <1>6, LeastUnique
<1>7. ASSUME NEW b \in Ids, PushCase(b) PROVE FlowInv'
  <2>1. b = a
    BY <1>6, <1>7 DEF PushCase
  <2>2. n < Len(TableOf(a))
    <3>1. k <= Len(TableOf(a))
      BY <1>7, <2>1 DEF PushCase, TableOf
    <3> QED BY <1>4, <1>5, <3>1
  <2> DEFINE t == TargetOf(a, n + 1)
             x == TableOf(a)[n + 1].id
             s2 == IF t \in Ids /\ t \notin Reached(s) THEN Append(s, t) ELSE s
             d2 == IF LastInst(a).kind = "strsw" THEN Append(d, x) ELSE d
  <2>3. /\ succs' = s2 /\ ids' = d2 /\ k' = k + 1 /\ pc' = "cases" /\ blocks' = blocks
        /\ todo' = todo
    BY <1>4, <1>7, <2>1 DEF PushCase, TargetOf, TableOf
  <2>4. SwitchRead(a, n + 1, s2, d2)
    BY <1>4, <1>5, <2>2, ReadEntry
  <2>5. PICK m, r, e : m = n + 1 /\ r = s2 /\ e = d2
    OBVIOUS
  <2> HIDE DEF s2, d2
  <2>6. SwitchRead(a, m, r, e)
    BY <2>4, <2>5
  <2>7. SwitchRead(a, m, r, e)' /\ LastInst(a)' = LastInst(a)
    BY <1>1, <2>6, SameTable DEF SameSpan
  <2>8. Reading(a)'
    <3>1. k' = m + 1 /\ r = succs' /\ e = ids'
      BY <1>4, <2>3, <2>5
    <3>2. Least(a, todo)'
      BY <1>5, <2>3 DEF Least
    <3> QED BY <1>5, <2>7, <3>1, <3>2 DEF Reading
  <2>9. ASSUME NEW c \in Ids \ todo' PROVE EdgeDone(c)'
    <3>1. EdgeDone(c) /\ SameFlow(blocks'[c], blocks[c])
      BY <1>2, <2>3, <2>9 DEF SameFlow
    <3> QED BY <1>1, <3>1, EdgeDoneKept
  <2> QED BY <1>1, <2>3, <2>8, <2>9 DEF FlowInv
<1>8. ASSUME NEW b \in Ids, CloseSwitch(b) PROVE FlowInv'
  <2>1. b = a
    BY <1>6, <1>8 DEF CloseSwitch
  <2>2. /\ blocks' = [blocks EXCEPT ![a].succ = succs, ![a].ids = ids] /\ todo' = todo \ {a}
        /\ pc' = "edges"
    BY <1>8, <2>1 DEF CloseSwitch
  <2>3. n = Len(TableOf(a))
    <3>1. k > Len(TableOf(a))
      BY <1>8, <2>1 DEF CloseSwitch, TableOf
    <3> QED BY <1>4, <1>5, <3>1
  <2>4. /\ blocks'[a].succ = succs /\ blocks'[a].ids = ids
        /\ \A c \in Ids \ {a} : blocks'[c] = blocks[c]
    BY <2>2 DEF TypeInv, TypeOK, BlockRecord
  <2>5. EdgeDone(a)'
    <3>1. SwitchRead(a, n, s, d)' /\ LastInst(a)' = LastInst(a) /\ TableOf(a)' = TableOf(a)
      BY <1>1, <1>4, SameTable DEF SameSpan
    <3>2. SwitchRead(a, Len(TableOf(a)), s, d)'
      BY <2>3, <3>1 DEF SwitchRead, OwnTargets
    <3> QED BY <1>4, <1>5, <2>4, <3>1, <3>2 DEF EdgeDone
  <2>6. ASSUME NEW c \in Ids \ todo', c # a PROVE EdgeDone(c)'
    <3>1. EdgeDone(c) /\ SameFlow(blocks'[c], blocks[c])
      BY <1>2, <2>2, <2>4, <2>6 DEF SameFlow
    <3> QED BY <1>1, <3>1, EdgeDoneKept
  <2> QED BY <1>1, <2>2, <2>5, <2>6 DEF FlowInv
<1> QED BY <1>7, <1>8, PhaseActions

LEMMA FlowStep == TypeInv /\ ShapeInv /\ FlowInv /\ [Next]_vars => FlowInv'
<1> SUFFICES ASSUME TypeInv, ShapeInv, FlowInv, [Next]_vars, Cut' PROVE FlowInv'
  BY DEF FlowInv
<1>1. ASSUME pc \notin {"boundaries", "split"}, Next PROVE LateKept /\ Cut
  BY <1>1, LateSteps, LateCut
<1>2. CASE UNCHANGED vars
  <2>1. UNCHANGED <<prog, blocks, pc, err, todo, k, succs, ids>>
    BY <1>2 DEF vars, edge_vars
  <2>2. Ids' = Ids /\ Cut
    BY <2>1 DEF Ids, Cut, Insts
  <2>3. \A b : LastInst(b)' = LastInst(b) /\ (EdgeDone(b) => EdgeDone(b)')
    BY <2>1, <2>2, SameTable, EdgeDoneKept DEF SameSpan, SameFlow
  <2>4. ASSUME NEW b \in Ids, Reading(b) PROVE Reading(b)'
    <3>1. PICK n, s, d : k = n + 1 /\ s = succs /\ d = ids /\ SwitchRead(b, n, s, d)
      BY <2>4 DEF Reading
    <3>2. SwitchRead(b, n, s, d)'
      BY <2>1, <2>2, <3>1, SameTable
    <3> QED BY <2>1, <2>3, <2>4, <3>1, <3>2 DEF Reading, Least
  <2> QED BY <2>1, <2>2, <2>3, <2>4 DEF FlowInv
<1>3. CASE Next /\ pc \in {"boundaries", "split"}
  <2>1. CASE pc' = "split"
    BY <2>1 DEF FlowInv
  <2>2. CASE EmptyFunction
    BY <2>2 DEF EmptyFunction, Cut, Insts
  <2>3. CASE FindBoundaries
    BY <2>1, <2>3 DEF FindBoundaries, Fail, Cut
  <2>4. CASE CloseLastBlock
    <3>1. todo' = Ids' /\ pc' = "edges"
      BY <2>4 DEF CloseLastBlock, AddBlock, Ids
    <3> QED BY <3>1 DEF FlowInv
  <2> QED BY <1>3, <2>1, <2>2, <2>3, <2>4, PhaseActions DEF Split
<1>4. CASE Next /\ pc = "edges"
  BY <1>1, <1>4, FlowEdges
<1>5. CASE Next /\ pc = "cases"
  BY <1>1, <1>5, FlowCases
<1>6. CASE Next /\ pc \notin {"boundaries", "split", "edges", "cases"}
  <2>1. LateKept /\ Cut
    BY <1>1, <1>6
  <2>2. pc' \notin {"boundaries", "split", "edges", "cases"}
    BY <1>6, PhaseOrder DEF TypeInv, TypeOK, Phases, vars
  <2>3. ASSUME NEW b \in Ids PROVE EdgeDone(b)'
    <3>1. EdgeDone(b) /\ SameSpan(blocks'[b], blocks[b]) /\ SameFlow(blocks'[b], blocks[b])
      BY <1>6, <2>1 DEF FlowInv, LateKept
    <3> QED BY <2>1, <3>1, EdgeDoneKept DEF LateKept
  <2> QED BY <2>1, <2>2, <2>3 DEF FlowInv, LateKept
<1> QED BY <1>2, <1>3, <1>4, <1>5, <1>6

(* As many different targets as there are entries and a default: every one *)
(* is its own.                                                             *)
LEMMA TargetsDiffer ==
  ASSUME NEW b, NEW n \in Nat,
         {DefaultOf(b)} \cup {TargetOf(b, j) : j \in 1..n} \subseteq Ids,
         Cardinality({DefaultOf(b)} \cup {TargetOf(b, j) : j \in 1..n}) = n + 1
  PROVE  OwnTargets(b, n)
<1> DEFINE S == 1..(n + 1)
           T == {DefaultOf(b)} \cup {TargetOf(b, j) : j \in 1..n}
           f == [i \in S |-> IF i = 1 THEN DefaultOf(b) ELSE TargetOf(b, i - 1)]
<1>1. f[1] = DefaultOf(b) /\ 1 \in S
  OBVIOUS
<1>2. \A j \in 1..n : j + 1 \in S /\ f[j + 1] = TargetOf(b, j) /\ j + 1 # 1
  <2> SUFFICES ASSUME NEW j \in 1..n
               PROVE  j + 1 \in S /\ f[j + 1] = TargetOf(b, j) /\ j + 1 # 1
    OBVIOUS
  <2>1. j + 1 \in S /\ j + 1 # 1 /\ j + 1 - 1 = j
    OBVIOUS
  <2>2. f[j + 1] = TargetOf(b, j + 1 - 1)
    BY <2>1
  <2> QED BY <2>1, <2>2, Zenon
<1>3. \A i \in S : i = 1 \/ (i - 1 \in 1..n /\ f[i] = TargetOf(b, i - 1))
  OBVIOUS
<1>4. f \in [S -> T] /\ DOMAIN f = S
  BY <1>1, <1>3
<1> HIDE DEF f
<1>5. \A t \in T : \E i \in S : f[i] = t
  BY <1>1, <1>2
<1>6. f \in Surjection(S, T)
  BY <1>4, <1>5 DEF Surjection
<1>7. IsFiniteSet(S) /\ Cardinality(S) = n + 1
  <2> DEFINE m == n + 1
  <2>1. m \in Int /\ 1 \in Int /\ m >= 1 /\ m - 1 + 1 = m
    OBVIOUS
  <2> HIDE DEF m
  <2>2. IsFiniteSet(1..m) /\ Cardinality(1..m) = IF 1 > m THEN 0 ELSE m - 1 + 1
    BY <2>1, FS_Interval
  <2> QED BY <2>1, <2>2 DEF m
<1>8. Cardinality(S) = Cardinality(T)
  BY <1>7
<1> HIDE DEF S
<1>9. \A i, j \in S : f[i] = f[j] => i = j
  <2>1. f \in Injection(S, T)
    <3> HIDE DEF T
    <3> QED BY <1>6, <1>7, <1>8, FS_SurjSameCardinalityImpliesInj
  <2> QED BY <1>4, <2>1 DEF Injection, IsInjective
<1>10. ASSUME NEW j \in 1..n PROVE TargetOf(b, j) # DefaultOf(b)
  BY <1>1, <1>2, <1>9
<1>11. ASSUME NEW i \in 1..n, NEW j \in 1..n, TargetOf(b, i) = TargetOf(b, j) PROVE i = j
  <2>1. i + 1 = j + 1
    BY <1>2, <1>9, <1>11
  <2> QED BY <2>1
<1> QED BY <1>10, <1>11 DEF OwnTargets

LEMMA FirstOrLater ==
  ASSUME NEW n \in Nat, NEW i \in 1..(n + 1)
  PROVE  i = 1 \/ i \in 2..(n + 1)
  OBVIOUS

LEMMA ConcatLen ==
  ASSUME NEW S, NEW s \in Seq(S), NEW t \in Seq(S)
  PROVE  s \o t \in Seq(S) /\ Len(s \o t) = Len(s) + Len(t)
OBVIOUS

LEMMA ConcatAt ==
  ASSUME NEW S, NEW s \in Seq(S), NEW t \in Seq(S), NEW i \in 1..(Len(s) + Len(t))
  PROVE  (s \o t)[i] = IF i <= Len(s) THEN s[i] ELSE t[i - Len(s)]
OBVIOUS

LEMMA ConsFacts ==
  ASSUME NEW S, NEW h \in Seq(S), Len(h) = 1, NEW t \in Seq(S)
  PROVE  /\ h \o t \in Seq(S) /\ Len(h \o t) = Len(t) + 1 /\ (h \o t)[1] = h[1]
         /\ \A i \in 2..(Len(t) + 1) : (h \o t)[i] = t[i - 1]
<1>1. Len(t) \in Nat /\ 1 + Len(t) = Len(t) + 1
  OBVIOUS
<1>2. h \o t \in Seq(S) /\ Len(h \o t) = Len(t) + 1
  BY <1>1, ConcatLen
<1>3. (h \o t)[1] = h[1]
  <2>1. 1 \in 1..(Len(h) + Len(t)) /\ 1 <= Len(h)
    BY <1>1
  <2> QED BY <2>1, ConcatAt
<1>4. ASSUME NEW i \in 2..(Len(t) + 1) PROVE (h \o t)[i] = t[i - 1]
  <2>1. i \in 1..(Len(h) + Len(t)) /\ ~(i <= Len(h)) /\ i - Len(h) = i - 1
    BY <1>1
  <2>2. (h \o t)[i] = t[i - Len(h)]
    BY <2>1, ConcatAt
  <2> QED BY <2>1, <2>2
<1> QED BY <1>2, <1>3, <1>4

LEMMA CaseLabels ==
  ASSUME TypeInv, ShapeInv, FlowInv
  PROVE  CaseLabelsMatchTargets
<1> SUFFICES ASSUME pc = "done", Insts # <<>>, NEW b \in Ids, IsSwitch(LastInst(b)),
                    LET T == {DefaultOf(b)} \cup
                               Reached([j \in DOMAIN TableOf(b) |-> TargetOf(b, j)])
                    IN T \subseteq Ids /\ Cardinality(T) = Len(TableOf(b)) + 1
             PROVE  /\ blocks[b].succ = <<DefaultOf(b)>> \o
                                          [j \in DOMAIN TableOf(b) |-> TargetOf(b, j)]
                    /\ LastInst(b).kind = "strsw" =>
                         blocks[b].ids = [j \in DOMAIN TableOf(b) |-> TableOf(b)[j].id]
  BY DEF CaseLabelsMatchTargets, DefaultOf, TargetOf, TableOf
<1> DEFINE n == Len(TableOf(b))
           target == [j \in DOMAIN TableOf(b) |-> TargetOf(b, j)]
<1>1. Cut
  BY DEF Cut, ShapeInv
<1>2. n \in Nat /\ DOMAIN TableOf(b) = 1..n
  BY <1>1, TableTyped
<1>3. Reached(target) = {TargetOf(b, j) : j \in 1..n}
  <2>1. DOMAIN target = 1..n /\ \A j \in 1..n : target[j] = TargetOf(b, j)
    BY <1>2
  <2> HIDE DEF target, n
  <2> QED BY <2>1 DEF Reached
<1>4. OwnTargets(b, n)
  BY <1>2, <1>3, TargetsDiffer
<1>5. PICK s, d : s = blocks[b].succ /\ d = blocks[b].ids /\ SwitchRead(b, n, s, d)
  BY <1>1 DEF FlowInv, EdgeDone
<1>6. /\ s \in Seq(Ids) /\ d \in Seq(Nat)
      /\ Len(s) = n + 1 /\ s[1] = DefaultOf(b) /\ \A j \in 1..n : s[j + 1] = TargetOf(b, j)
      /\ LastInst(b).kind = "strsw" => Len(d) = n /\ \A j \in 1..n : d[j] = TableOf(b)[j].id
  BY <1>4, <1>5 DEF SwitchRead
<1>7. s = <<DefaultOf(b)>> \o target
  <2> DEFINE head == <<DefaultOf(b)>>
             whole == head \o target
  <2>1. /\ target \in Seq(Ids) /\ Len(target) = n /\ head \in Seq(Ids) /\ Len(head) = 1
        /\ head[1] = DefaultOf(b)
    <3>1. DefaultOf(b) \in Ids /\ \A j \in 1..n : TargetOf(b, j) \in Ids
      BY <1>4 DEF OwnTargets
    <3> QED BY <1>2, <3>1
  <2>2. \A j \in 1..n : target[j] = TargetOf(b, j)
    BY <1>2
  <2> HIDE DEF n, target, head
  <2>3. /\ whole \in Seq(Ids) /\ Len(whole) = n + 1 /\ whole[1] = DefaultOf(b)
        /\ \A i \in 2..(n + 1) : whole[i] = target[i - 1]
    BY <2>1, ConsFacts
  <2>4. ASSUME NEW i \in 1..(n + 1) PROVE s[i] = whole[i]
    <3>1. CASE i = 1
      BY <1>6, <2>3, <3>1
    <3>2. CASE i \in 2..(n + 1)
      <4>1. i - 1 \in 1..n /\ i - 1 + 1 = i
        BY <1>2, <3>2
      <4>2. s[i] = TargetOf(b, i - 1)
        BY <1>6, <4>1
      <4> QED BY <2>2, <2>3, <3>2, <4>1, <4>2
    <3>3. n \in Nat /\ i \in 1..(n + 1)
      BY <1>2, <2>4
    <3>4. i = 1 \/ i \in 2..(n + 1)
      BY <3>3, FirstOrLater
    <3> QED BY <3>1, <3>2, <3>4
  <2> HIDE DEF whole
  <2>5. s = whole
    BY <1>2, <1>6, <2>3, <2>4
  <2> QED BY <2>5 DEF whole, head
<1>8. ASSUME LastInst(b).kind = "strsw"
      PROVE  d = [j \in DOMAIN TableOf(b) |-> TableOf(b)[j].id]
  BY <1>2, <1>6, <1>8
<1> QED BY <1>5, <1>7, <1>8

(* region.rs may pair case label n with successor n + 1: whenever the      *)
(* default and every entry of a switch lead to blocks of their own, the    *)
(* successors are the default and the entries in table order, and the      *)
(* string ids are the table's, for every table.                            *)
THEOREM CaseLabelsCorrect == Spec => []CaseLabelsMatchTargets
<1>1. TypeInv /\ ShapeInv /\ FlowInv => CaseLabelsMatchTargets
  BY CaseLabels
<1> QED BY <1>1, TypeInit, TypeStep, ShapeInit, ShapeStep, FlowInit, FlowStep, PTL DEF Spec

-----------------------------------------------------------------------------
(* Catch targets.  After n handlers a block has the target of the last one *)
(* of them that covers it, and every one of them leads to a block.         *)

CaughtBy(b, m, n) ==
  /\ \A j \in (m + 1)..n : ~Covers(prog.handlers[j], blocks[b])
  /\ IF m = 0 THEN blocks[b].exc = None
     ELSE /\ Covers(prog.handlers[m], blocks[b])
          /\ blocks[b].exc = prog.handlers[m].target

Mapped(n) ==
  /\ \A j \in 1..n : prog.handlers[j].target \in Ids
  /\ \A b \in Ids : \E m \in 0..n : CaughtBy(b, m, n)

HandlerInv ==
  Cut =>
    /\ pc \in {"split", "edges", "cases", "link"} => \A b \in Ids : blocks[b].exc = None
    /\ pc = "handlers" => \E n \in 0..Len(prog.handlers) : k = n + 1 /\ Mapped(n)
    /\ pc \in {"dfs", "rest", "done"} \/ err = "InvalidExceptionLayout" =>
         Mapped(Len(prog.handlers))

LEMMA HandlerInit == Init => HandlerInv
BY DEF Init, HandlerInv, Cut

LEMMA CaughtByKept ==
  ASSUME NEW b, NEW m, NEW n, CaughtBy(b, m, n), prog' = prog,
         SameSpan(blocks'[b], blocks[b]), blocks'[b].exc = blocks[b].exc
  PROVE  CaughtBy(b, m, n)'
BY DEF CaughtBy, Covers, SameSpan

LEMMA MappedKept ==
  ASSUME LateKept, pc # "handlers", NEW n, Mapped(n)
  PROVE  Mapped(n)'
<1>1. \A b \in Ids : \E m \in 0..n : CaughtBy(b, m, n)'
  <2> SUFFICES ASSUME NEW b \in Ids PROVE \E m \in 0..n : CaughtBy(b, m, n)'
    OBVIOUS
  <2>1. PICK m \in 0..n : CaughtBy(b, m, n)
    BY DEF Mapped
  <2>2. SameSpan(blocks'[b], blocks[b]) /\ blocks'[b].exc = blocks[b].exc /\ prog' = prog
    BY DEF LateKept
  <2>3. CaughtBy(b, m, n)'
    BY <2>1, <2>2, CaughtByKept
  <2> QED BY <2>3
<1> QED BY <1>1 DEF Mapped, LateKept

(* One more handler: the blocks it covers are now its own. *)
LEMMA HandlerMap ==
  ASSUME TypeInv, LateKept, MapHandler, pc' = "handlers", NEW n \in Nat, k = n + 1, Mapped(n)
  PROVE  /\ n + 1 \in 0..Len(prog.handlers) /\ k' = (n + 1) + 1 /\ Mapped(n + 1)'
<1> DEFINE h == prog.handlers[k]
<1>0. (\A b \in Ids : blocks[b] \in BlockRecord) /\ prog' = prog /\ Len(prog.handlers) \in Nat
  <2>1. prog.handlers \in Seq(Handler)
    BY ProgramFacts DEF TypeInv
  <2> QED BY <2>1 DEF TypeInv, TypeOK, LateKept
<1>1. /\ h.target \in Ids /\ k <= Len(prog.handlers) /\ k' = k + 1
      /\ blocks' = [b \in Ids |-> IF Covers(h, blocks[b])
                                    THEN [blocks[b] EXCEPT !.exc = h.target] ELSE blocks[b]]
  BY DEF MapHandler, Fail
<1>2. Ids' = Ids
  BY DEF LateKept
<1>3. PICK c : c = k
  OBVIOUS
<1>4. ASSUME NEW b \in Ids PROVE \E m \in 0..c : CaughtBy(b, m, c)'
  <2>1. SameSpan(blocks'[b], blocks[b])
    BY DEF LateKept
  <2>2. CASE Covers(h, blocks[b])
    <3>1. blocks'[b] = [blocks[b] EXCEPT !.exc = h.target]
      BY <1>1, <2>2
    <3>2. blocks'[b].exc = h.target
      BY <1>0, <3>1 DEF BlockRecord
    <3>4. c \in Nat /\ c # 0 /\ c \in 0..c /\ (c + 1)..c = {}
      BY <1>3
    <3>5. prog.handlers[c] = h /\ Covers(prog.handlers[c]', blocks'[b])
      BY <1>0, <1>3, <2>1, <2>2 DEF SameSpan, Covers
    <3>6. CaughtBy(b, c, c)'
      BY <1>0, <3>2, <3>4, <3>5 DEF CaughtBy
    <3> QED BY <3>4, <3>6
  <2>3. CASE ~Covers(h, blocks[b])
    <3>1. PICK m \in 0..n : CaughtBy(b, m, n)
      BY DEF Mapped
    <3>2. blocks'[b] = blocks[b]
      BY <1>1, <2>3
    <3>3. CaughtBy(b, m, n)'
      BY <1>0, <2>1, <3>1, <3>2, CaughtByKept
    <3>5. c \in Nat /\ m \in 0..c /\ \A j \in (m + 1)..c : j = c \/ j \in (m + 1)..n
      BY <1>3, <3>1
    <3>6. prog.handlers[c] = h /\ ~Covers(prog.handlers[c]', blocks'[b])
      BY <1>0, <1>3, <2>3, <3>2
    <3>7. CaughtBy(b, m, c)'
      BY <1>0, <3>3, <3>5, <3>6 DEF CaughtBy
    <3> QED BY <3>5, <3>7
  <2> QED BY <2>2, <2>3
<1>5. \A j \in 1..k : prog.handlers[j].target \in Ids
  <2>1. \A j \in 1..k : j = k \/ j \in 1..n
    OBVIOUS
  <2> QED BY <1>1, <2>1 DEF Mapped
<1>6. Mapped(c)'
  BY <1>0, <1>2, <1>3, <1>4, <1>5 DEF Mapped
<1>7. c = n + 1 /\ c \in 0..Len(prog.handlers)
  BY <1>0, <1>1, <1>3
<1> QED BY <1>1, <1>3, <1>6, <1>7

LEMMA HandlerStep == TypeInv /\ ShapeInv /\ HandlerInv /\ [Next]_vars => HandlerInv'
<1> SUFFICES ASSUME TypeInv, ShapeInv, HandlerInv, [Next]_vars, Cut' PROVE HandlerInv'
  BY DEF HandlerInv
<1>1. CASE UNCHANGED vars
  <2>1. UNCHANGED <<prog, blocks, pc, err, k>>
    BY <1>1 DEF vars
  <2>2. Ids' = Ids /\ Cut
    BY <2>1 DEF Ids, Cut, Insts
  <2>3. \A n : Mapped(n)' <=> Mapped(n)
    BY <2>1, <2>2 DEF Mapped, CaughtBy, Covers
  <2> QED BY <2>1, <2>2, <2>3 DEF HandlerInv
<1>2. CASE Next /\ pc = "boundaries"
  <2>1. CASE EmptyFunction
    BY <2>1 DEF EmptyFunction, Cut, Insts
  <2>2. CASE FindBoundaries
    <3>1. pc' = "split" /\ Ids' = {} /\ err' # "InvalidExceptionLayout"
      BY <1>2, <2>2 DEF FindBoundaries, Fail, Cut, TypeInv, Ids, ShapeInv
    <3> QED BY <3>1 DEF HandlerInv
  <2> QED BY <1>2, <2>1, <2>2, PhaseActions
<1>3. CASE Next /\ pc = "split"
  <2>1. /\ Cut /\ pc' \in {"split", "edges"} /\ err' = err /\ err = "none"
    BY <1>3, PhaseActions DEF Split, CloseLastBlock, Cut, Insts, ShapeInv
  <2>2. \/ blocks' = blocks
        \/ \E past : AddBlock(past)
    BY <1>3, PhaseActions DEF Split, CloseLastBlock
  <2>3. \A b \in Ids' : blocks'[b].exc = None
    <3>1. \A b \in Ids : blocks[b].exc = None
      BY <1>3, <2>1 DEF HandlerInv
    <3>2. CASE blocks' = blocks
      BY <3>1, <3>2 DEF Ids
    <3>3. ASSUME NEW past, AddBlock(past) PROVE \A b \in Ids' : blocks'[b].exc = None
      <4>1. Block(start, past, cur).exc = None
        BY DEF Block
      <4> QED BY <3>1, <3>3, <4>1, AddBlockFacts
    <3> QED BY <2>2, <3>2, <3>3
  <2> QED BY <2>1, <2>3 DEF HandlerInv
<1>4. CASE Next /\ pc \notin {"boundaries", "split"}
  <2>1. LateKept /\ Cut
    BY <1>4, LateSteps, LateCut
  <2>2. CASE pc \in {"edges", "cases", "link"}
    <3>1. /\ pc' \in {"edges", "cases", "link", "handlers"} /\ err' = err /\ err = "none"
          /\ pc' = "handlers" => k' = 1
      BY <1>4, <2>2, PhaseActions
         DEF Edges, PushCase, CloseSwitch, EdgesDone, Link, LinkDone, ShapeInv
    <3>2. \A b \in Ids' : blocks'[b].exc = None
      BY <2>1, <2>2 DEF HandlerInv, LateKept
    <3>3. Mapped(0)'
      BY <3>2 DEF Mapped, CaughtBy
    <3>4. Len(prog'.handlers) \in Nat
      BY <2>1, ProgramFacts DEF LateKept, TypeInv
    <3>5. pc' = "handlers" => \E n \in 0..Len(prog'.handlers) : k' = n + 1 /\ Mapped(n)'
      BY <3>1, <3>3, <3>4
    <3> QED BY <3>1, <3>2, <3>5 DEF HandlerInv
  <2>3. CASE pc = "handlers"
    <3>1. PICK n \in 0..Len(prog.handlers) : k = n + 1 /\ Mapped(n)
      BY <2>1, <2>3 DEF HandlerInv
    <3>2. n \in Nat /\ Len(prog.handlers) \in Nat /\ prog' = prog
      BY <2>1, ProgramFacts DEF TypeInv, LateKept
    <3>3. CASE MapHandler /\ pc' = "handlers"
      <4>1. n + 1 \in 0..Len(prog.handlers) /\ k' = (n + 1) + 1 /\ Mapped(n + 1)'
        BY <2>1, <3>1, <3>2, <3>3, HandlerMap
      <4>2. err' = err /\ err = "none"
        BY <2>3, <3>3 DEF MapHandler, Fail, ShapeInv
      <4> QED BY <3>2, <3>3, <4>1, <4>2 DEF HandlerInv
    <3>4. CASE MapHandler /\ pc' # "handlers"
      BY <3>4 DEF MapHandler, Fail, HandlerInv
    <3>5. ASSUME NEW b \in Ids, StartSearch(b) PROVE HandlerInv'
      <4>1. /\ pc' = "dfs" /\ k > Len(prog.handlers) /\ blocks' = blocks
        BY <3>5 DEF StartSearch
      <4>2. n = Len(prog.handlers) /\ Ids' = Ids
        BY <3>1, <3>2, <4>1 DEF Ids
      <4>3. Mapped(n)'
        BY <3>1, <3>2, <4>1, <4>2 DEF Mapped, CaughtBy, Covers
      <4> QED BY <3>2, <4>1, <4>2, <4>3 DEF HandlerInv
    <3> QED BY <1>4, <2>3, <3>3, <3>4, <3>5, PhaseActions
  <2>4. CASE pc \notin {"edges", "cases", "link", "handlers"}
    <3>1. pc' \in {"dfs", "rest", "done", "err"}
      BY <1>4, <2>4, PhaseOrder DEF TypeInv, TypeOK, Phases, vars
    <3>2. Mapped(Len(prog.handlers)) \/ (pc = "err" /\ err # "InvalidExceptionLayout")
      BY <1>4, <2>1, <2>4 DEF HandlerInv, TypeInv, TypeOK, Phases
    <3>3. PICK n : n = Len(prog.handlers)
      OBVIOUS
    <3>4. CASE Mapped(n)
      <4>1. Mapped(n)' /\ n = Len(prog'.handlers)
        BY <2>1, <2>4, <3>3, <3>4, MappedKept DEF LateKept
      <4> QED BY <3>1, <4>1 DEF HandlerInv
    <3>5. CASE pc = "err" /\ err # "InvalidExceptionLayout"
      <4>1. pc' = "err" /\ err' = err
        BY <1>4, <3>5, PhaseOrder DEF vars
      <4> QED BY <3>5, <4>1 DEF HandlerInv
    <3> QED BY <3>2, <3>3, <3>4, <3>5
  <2> QED BY <2>2, <2>3, <2>4
<1> QED BY <1>1, <1>2, <1>3, <1>4

(* An aligned handler contains an instruction exactly when it contains the *)
(* block of the instruction: its start and its end are boundaries, which   *)
(* no block has inside.                                                    *)
LEMMA AlignedCovers ==
  ASSUME TypeInv, ShapeInv, Cut, NEW b \in Ids, NEW i \in blocks[b].insts,
         NEW h \in Reached(prog.handlers), Aligned(h)
  PROVE  Covers(h, blocks[b]) <=> h.start <= Off(i) /\ Past(i) <= h.end
<1>1. PICK m, n \in DOMAIN Insts : IsBlock(b, m, n)
  BY DEF ShapeInv
<1>2. /\ i \in m..n /\ m <= n /\ NoCut(m, n)
      /\ blocks[b].start = Off(m) /\ blocks[b].end = Past(n)
  BY <1>1 DEF IsBlock
<1>3. /\ prog \in Programs /\ DOMAIN Insts = 1..Len(Insts) /\ Len(Insts) \in Nat
  <2>1. prog \in Programs
    BY DEF TypeInv
  <2> QED BY <2>1, ProgramFacts
<1>4. m \in Nat /\ n \in Nat /\ i \in Nat /\ m <= i /\ i <= n /\ n <= Len(Insts) /\ i \in 1..Len(Insts)
  <2>1. Len(Insts) \in Nat /\ m \in 1..Len(Insts) /\ n \in 1..Len(Insts) /\ i \in m..n
    BY <1>2, <1>3
  <2> QED BY <2>1
<1>5. i \in DOMAIN Insts
  BY <1>3, <1>4
<1>6. PICK s \in DOMAIN Insts, e \in DOMAIN Insts : h.start = Off(s) /\ h.end = Past(e)
  BY DEF Aligned, InstOffsets, Indices, Insts, Off, Past
<1>7. h.start \in boundaries /\ h.end \in boundaries
  <2>1. {h.start, h.end, h.target} \subseteq HandlerBoundaries
    BY DEF HandlerBoundaries
  <2> QED BY <2>1 DEF ShapeInv, AllBoundaries
<1>8. s \in Nat /\ e \in Nat /\ s <= Len(Insts) /\ e <= Len(Insts)
  <2>1. Len(Insts) \in Nat /\ s \in 1..Len(Insts) /\ e \in 1..Len(Insts)
    BY <1>3
  <2> QED BY <2>1
<1>9. ASSUME Covers(h, blocks[b]) PROVE h.start <= Off(i) /\ Past(i) <= h.end
  <2>1. Off(s) <= Off(m) /\ Past(n) <= Past(e)
    BY <1>2, <1>6, <1>9 DEF Covers
  <2>2. Off(m) <= Off(i) /\ Off(m) \in Nat /\ Off(s) \in Nat /\ Off(i) \in Nat
    BY <1>3, <1>4, <1>5, OffsetFacts
  <2>3. Past(i) <= Past(n) /\ Past(i) \in Nat /\ Past(n) \in Nat /\ Past(e) \in Nat
    <3>1. CASE i = n
      BY <1>3, <1>5, <3>1, OffsetFacts
    <3>2. CASE i < n
      <4>1. Past(i) <= Off(n) /\ Off(n) < Past(n) /\ Off(n) \in Nat
        BY <1>3, <1>5, <3>2, OffsetFacts
      <4>2. Past(i) \in Nat /\ Past(n) \in Nat /\ Past(e) \in Nat
        BY <1>3, <1>5, OffsetFacts
      <4> QED BY <4>1, <4>2
    <3>3. Past(e) \in Nat
      BY <1>3, OffsetFacts
    <3> QED BY <1>4, <3>1, <3>2, <3>3
  <2> QED BY <1>6, <2>1, <2>2, <2>3
<1>10. ASSUME h.start <= Off(i), Past(i) <= h.end PROVE Covers(h, blocks[b])
  <2>1. s <= i
    BY <1>3, <1>5, <1>6, <1>10, OffsetFacts
  <2>2. s <= m
    <3>1. CASE s > m
      <4>1. s \in (m + 1)..n
        BY <1>4, <1>8, <2>1, <3>1
      <4> QED BY <1>2, <1>6, <1>7, <4>1 DEF NoCut
    <3> QED BY <1>4, <1>8, <3>1
  <2>3. i <= e
    <3>1. CASE e < i
      <4>1. Past(e) <= Off(i) /\ Off(i) < Past(i) /\ Past(e) \in Nat /\ Off(i) \in Nat /\ Past(i) \in Nat
        BY <1>3, <1>5, <3>1, OffsetFacts
      <4> QED BY <1>6, <1>10, <4>1
    <3> QED BY <1>4, <1>8, <3>1
  <2>4. n <= e
    <3>1. CASE e < n
      <4>1. PICK c : c = e + 1
        OBVIOUS
      <4>2. c \in 1..Len(Insts) /\ c \in (m + 1)..n
        BY <1>4, <1>8, <2>3, <3>1, <4>1
      <4>3. Off(c) = Past(e)
        BY <1>3, <4>1, <4>2, NextTile
      <4> QED BY <1>2, <1>6, <1>7, <4>2, <4>3 DEF NoCut
    <3> QED BY <1>4, <1>8, <3>1
  <2>5. Off(s) <= Off(m)
    BY <1>3, <2>2, OffsetFacts
  <2>6. Past(n) <= Past(e)
    <3>1. CASE n = e
      BY <1>3, <3>1, OffsetFacts
    <3>2. CASE n < e
      <4>1. Past(n) <= Off(e) /\ Off(e) < Past(e)
        BY <1>3, <3>2, OffsetFacts
      <4>2. Past(n) \in Nat /\ Past(e) \in Nat /\ Off(e) \in Nat
        BY <1>3, OffsetFacts
      <4> QED BY <4>1, <4>2
    <3> QED BY <1>4, <1>8, <2>4, <3>1, <3>2
  <2> QED BY <1>2, <1>6, <2>5, <2>6 DEF Covers
<1> QED BY <1>9, <1>10

LEMMA LastOfSet ==
  ASSUME NEW S, NEW m \in S, S \subseteq Int, \A j \in S : j <= m
  PROVE  Max(S) = m
<1>1. m \in S /\ \A y \in S : m >= y
  OBVIOUS
<1>2. \A x \in S : (\A y \in S : x >= y) => x = m
  BY <1>1
<1> QED BY <1>1, <1>2 DEF Max

LEMMA HandlersProtect ==
  ASSUME TypeInv, ShapeInv, HandlerInv
  PROVE  HandlersProtectInstructions
<1> SUFFICES ASSUME pc = "done", \A h \in Reached(prog.handlers) : Aligned(h),
                    NEW b \in Ids, NEW i \in blocks[b].insts
             PROVE  LET inside == {m \in DOMAIN prog.handlers :
                                     /\ prog.handlers[m].start <= Insts[i].off
                                     /\ Insts[i].off + Insts[i].size <= prog.handlers[m].end}
                    IN blocks[b].exc = IF inside = {} THEN None
                                       ELSE prog.handlers[Max(inside)].target
  BY DEF HandlersProtectInstructions
<1> DEFINE inside == {m \in DOMAIN prog.handlers :
                        /\ prog.handlers[m].start <= Insts[i].off
                        /\ Insts[i].off + Insts[i].size <= prog.handlers[m].end}
           count == Len(prog.handlers)
<1>1. count \in Nat /\ DOMAIN prog.handlers = 1..count
  <2>1. prog.handlers \in Seq(Handler)
    BY ProgramFacts DEF TypeInv
  <2> QED BY <2>1
<1>2. Cut
  <2>1. i \in DOMAIN Insts
    BY DEF TypeInv, TypeOK, BlockRecord
  <2>2. Insts # <<>>
    BY <2>1
  <2> QED BY <2>2 DEF Cut, ShapeInv
<1>3. PICK m \in 0..count : CaughtBy(b, m, count)
  BY <1>2 DEF HandlerInv, Mapped
<1> HIDE DEF count
<1>4. ASSUME NEW j \in 1..count
      PROVE  j \in inside <=> Covers(prog.handlers[j], blocks[b])
  <2>1. prog.handlers[j] \in Reached(prog.handlers)
    BY <1>1 DEF Reached
  <2> QED BY <1>1, <1>2, <2>1, AlignedCovers DEF Off, Past
<1>5. inside \subseteq 1..count
  BY <1>1
<1> HIDE DEF inside
<1>6. CASE m = 0
  <2>1. inside = {}
    BY <1>1, <1>3, <1>4, <1>5, <1>6 DEF CaughtBy
  <2>2. blocks[b].exc = None
    BY <1>3, <1>6 DEF CaughtBy
  <2> QED BY <2>1, <2>2 DEF inside
<1>7. CASE m # 0
  <2>1. m \in 1..count /\ Covers(prog.handlers[m], blocks[b])
        /\ blocks[b].exc = prog.handlers[m].target
    BY <1>1, <1>3, <1>7 DEF CaughtBy
  <2>2. m \in inside /\ inside \subseteq Int
    BY <1>4, <1>5, <2>1
  <2>3. ASSUME NEW j \in inside PROVE j <= m
    <3>1. j \in 1..count /\ Covers(prog.handlers[j], blocks[b])
      BY <1>4, <1>5
    <3>2. j \notin (m + 1)..count
      BY <1>3, <3>1 DEF CaughtBy
    <3> QED BY <1>1, <2>1, <3>1, <3>2
  <2>4. Max(inside) = m
    BY <2>2, <2>3, LastOfSet
  <2> QED BY <2>1, <2>2, <2>4 DEF inside
<1> QED BY <1>6, <1>7

(* ssa.rs and structure.rs take a block's catch target for the catch       *)
(* target of each of its instructions: when every handler starts and ends  *)
(* on instructions, that is the target of the last handler around the      *)
(* instruction, for every program.                                         *)
THEOREM HandlersProtectCorrect == Spec => []HandlersProtectInstructions
<1>1. TypeInv /\ ShapeInv /\ HandlerInv => HandlersProtectInstructions
  BY HandlersProtect
<1> QED BY <1>1, TypeInit, TypeStep, ShapeInit, ShapeStep, HandlerInit, HandlerStep,
           PTL DEF Spec

-----------------------------------------------------------------------------
(* The graph is the oracle's: same leaders, same blocks, same edges.  The  *)
(* two read a jump table alike unless its start overflows usize, which on  *)
(* a 64-bit target no offset and operand of 32 bits do.                    *)

TablesAddressable ==
  \A p \in Programs : \A n \in DOMAIN p.insts : ~TableOverflows(p.insts[n])

(* A function without instructions is one empty block. *)
EmptyInv ==
  Insts = <<>> =>
    \/ pc = "boundaries"
    \/ pc = "done" /\ Ids = {0} /\ blocks[0] = Block(0, 0, {})

LEMMA EmptyInit == Init => EmptyInv
BY DEF Init, EmptyInv

LEMMA EmptyStep == EmptyInv /\ [Next]_vars => EmptyInv'
<1> SUFFICES ASSUME EmptyInv, [Next]_vars, Insts' = <<>> PROVE EmptyInv'
  BY DEF EmptyInv
<1>1. CASE UNCHANGED vars
  BY <1>1 DEF vars, EmptyInv, Ids, Insts, Block
<1>2. CASE Next
  <2>1. prog' = prog
    BY <1>2 DEF Next, BlockStep, Edges, PushCase, CloseSwitch, Link, StartSearch,
       AppendUnreachable, FindBoundaries, EmptyFunction, Split, CloseLastBlock, EdgesDone,
       LinkDone, MapHandler, Finish, Skip, Expand, PushSuccessor, SearchDone, CheckLayout,
       Returned, vars
  <2>2. Insts = <<>>
    BY <2>1 DEF Insts
  <2>3. CASE pc = "boundaries"
    <3>1. blocks' = [b \in {0} |-> Block(0, 0, {})] /\ pc' = "done"
      BY <1>2, <2>2, <2>3, PhaseActions DEF EmptyFunction, FindBoundaries
    <3>2. Ids' = {0} /\ blocks'[0] = Block(0, 0, {})
      BY <3>1 DEF Ids
    <3> QED BY <3>1, <3>2 DEF EmptyInv, Block
  <2>4. CASE pc = "done"
    BY <1>2, <2>2, <2>4, PhaseOrder DEF EmptyInv, vars, Ids, Block
  <2> QED BY <2>2, <2>3, <2>4 DEF EmptyInv
<1> QED BY <1>1, <1>2

LEMMA BoundariesAgree ==
  ASSUME prog \in Programs, TablesAddressable, NEW n \in DOMAIN Insts
  PROVE  BoundariesOf(Insts[n]) = OracleLeadersOf(Insts[n], prog.code) \ {None}
<1> DEFINE i == Insts[n]
<1>1. ~TableOverflows(i) /\ i.kind \in Kinds
  <2>1. i \in Insn
    BY ProgramFacts
  <2> QED BY <2>1 DEF TablesAddressable, Insts, Insn
<1>2. IsTerminator(i) <=> i.kind \notin {"plain", "save"}
  BY <1>1 DEF Kinds, IsTerminator, IsJump
<1>3. BranchTarget(i) = OracleBranchTarget(i) /\ OracleSwitchDefault(i) = SignedTarget(i.off, i.rel)
  BY DEF BranchTarget, OracleBranchTarget, OracleSwitchDefault
<1> DEFINE entries == EntriesFrom(i, prog.code, i.off + i.tab)
           targets == {SignedTarget(i.off, entries[j].rel) : j \in DOMAIN entries}
<1>4. OracleCaseTargets(i, prog.code) = targets
  BY <1>1 DEF OracleCaseTargets
<1>5. BoundariesOf(i) =
        ((IF IsTerminator(i) THEN {NextOffset(i)} ELSE {})
         \cup {BranchTarget(i)}
         \cup (IF IsSwitch(i) THEN {SignedTarget(i.off, i.rel)} ELSE {})
         \cup (IF IsSwitch(i) /\ ~TableOverflows(i) THEN targets ELSE {})) \ {None}
  BY DEF BoundariesOf
<1> HIDE DEF targets, i
<1>6. OracleLeadersOf(i, prog.code) =
        (IF i.kind \notin {"plain", "save"} THEN {NextOffset(i)} ELSE {})
        \cup {OracleBranchTarget(i)}
        \cup (IF IsSwitch(i) THEN {OracleSwitchDefault(i)} \cup targets ELSE {})
  BY <1>4 DEF OracleLeadersOf
<1> QED BY <1>1, <1>2, <1>3, <1>5, <1>6 DEF i

FlowLeaders(p) == UNION {OracleLeadersOf(p.insts[n], p.code) : n \in Indices(p)}
CatchLeaders(p) ==
  UNION {{h.start, h.end, h.target} : h \in {p.handlers[n] : n \in DOMAIN p.handlers}}

LEMMA LeadersOf ==
  ASSUME NEW p, p.insts # <<>>
  PROVE  Leaders(p) = {p.insts[1].off} \cup
                      (InstOffsets(p) \cap (FlowLeaders(p) \cup CatchLeaders(p)))
BY DEF Leaders, FlowLeaders, CatchLeaders

(* The boundaries that are offsets of instructions are the oracle's leaders. *)
LEMMA LeadersAgree ==
  ASSUME TypeInv, ShapeInv, Cut, pc # "split", TablesAddressable
  PROVE  Leaders(prog) = Ids
<1>1. prog \in Programs /\ Insts # <<>> /\ Ids = Offsets \cap AllBoundaries
  BY DEF TypeInv, ShapeInv, Cut
<1>2. Offsets = InstOffsets(prog) /\ Offsets \subseteq Nat
  <2>1. Offsets = InstOffsets(prog)
    BY DEF Offsets, InstOffsets, Indices, Off, Insts
  <2>2. \A n \in DOMAIN Insts : Off(n) \in Nat
    BY <1>1, InsnFacts DEF Off
  <2> QED BY <2>1, <2>2 DEF Offsets
<1>3. prog.insts[1].off = 0 /\ 0 \in Offsets
  BY <1>1, FirstTile DEF Off, Offsets, Insts
<1> DEFINE flow == FlowLeaders(prog)
           caught == CatchLeaders(prog)
<1>4. Leaders(prog) = {0} \cup (Offsets \cap (flow \cup caught))
  <2>1. prog.insts # <<>>
    BY <1>1 DEF Insts
  <2>2. Leaders(prog) = {prog.insts[1].off} \cup (InstOffsets(prog) \cap (flow \cup caught))
    BY <2>1, LeadersOf
  <2> HIDE DEF flow, caught
  <2> QED BY <1>2, <1>3, <2>2
<1>5. HandlerBoundaries = caught
  BY DEF HandlerBoundaries, Reached, CatchLeaders
<1>6. UNION {BoundariesOf(i) : i \in Reached(Insts)} = flow \ {None}
  <2>1. UNION {BoundariesOf(i) : i \in Reached(Insts)} = UNION {BoundariesOf(Insts[n]) : n \in DOMAIN Insts}
    BY DEF Reached
  <2>2. \A n \in DOMAIN Insts :
          BoundariesOf(Insts[n]) = OracleLeadersOf(Insts[n], prog.code) \ {None}
    BY <1>1, BoundariesAgree
  <2>3. flow = UNION {OracleLeadersOf(Insts[n], prog.code) : n \in DOMAIN Insts}
    BY DEF Indices, Insts, FlowLeaders
  <2> HIDE DEF flow
  <2> QED BY <2>1, <2>2, <2>3
<1>7. None \notin Offsets
  BY <1>2 DEF None
<1> HIDE DEF flow, caught
<1> QED BY <1>1, <1>3, <1>4, <1>5, <1>6, <1>7 DEF AllBoundaries

(* The first instruction after a block starts the next one. *)
LEMMA AfterBlock ==
  ASSUME TypeInv, ShapeInv, Cut, pc # "split", NEW b \in Ids,
         NEW m \in DOMAIN Insts, NEW n \in DOMAIN Insts, IsBlock(b, m, n)
  PROVE  /\ \A d \in Ids : d > b => \E j \in DOMAIN Insts : d = Off(j) /\ j > n
         /\ \A j \in DOMAIN Insts : j > n =>
              \E c \in DOMAIN Insts : c = n + 1 /\ c <= j /\ Off(c) \in Ids
<1>1. /\ prog \in Programs /\ DOMAIN Insts = 1..Len(Insts) /\ Len(Insts) \in Nat
      /\ Ids = Offsets \cap boundaries
  <2>1. prog \in Programs /\ Ids = Offsets \cap boundaries
    BY DEF TypeInv, ShapeInv
  <2> QED BY <2>1, ProgramFacts
<1>2. m \in Int /\ n \in Int /\ n <= Len(Insts) /\ m >= 1 /\ m <= n
  <2>1. Len(Insts) \in Nat /\ m \in 1..Len(Insts) /\ n \in 1..Len(Insts) /\ m <= n
    BY <1>1 DEF IsBlock
  <2> QED BY <2>1
<1>3. ASSUME NEW d \in Ids, d > b PROVE \E j \in DOMAIN Insts : d = Off(j) /\ j > n
  <2>1. PICK j \in DOMAIN Insts : d = Off(j)
    BY <1>1 DEF Offsets
  <2>2. j > m
    BY <1>1, <1>3, <2>1, OffsetFacts DEF IsBlock
  <2>3. j \notin (m + 1)..n
    BY <1>1, <2>1 DEF IsBlock, NoCut
  <2>4. j \in Int
    <3>1. Len(Insts) \in Nat /\ j \in 1..Len(Insts)
      BY <1>1, <2>1
    <3> QED BY <3>1
  <2>5. j > n
    BY <1>2, <2>2, <2>3, <2>4
  <2> QED BY <2>1, <2>5
<1>4. ASSUME NEW j \in DOMAIN Insts, j > n
      PROVE  \E c \in DOMAIN Insts : c = n + 1 /\ c <= j /\ Off(c) \in Ids
  <2>1. PICK c : c = n + 1
    OBVIOUS
  <2>2. Len(Insts) \in Nat /\ j \in 1..Len(Insts)
    BY <1>1
  <2>3. c \in 1..Len(Insts) /\ c <= j /\ n # Len(Insts)
    BY <1>2, <1>4, <2>1, <2>2
  <2>4. c \in DOMAIN Insts /\ Off(c) \in boundaries
    BY <1>1, <2>1, <2>3 DEF IsBlock
  <2>5. Off(c) \in Ids
    BY <1>1, <2>4 DEF Offsets
  <2> QED BY <2>1, <2>3, <2>4, <2>5
<1> QED BY <1>3, <1>4

LEMMA BlocksAgree ==
  ASSUME TypeInv, ShapeInv, Cut, pc # "split", TablesAddressable, NEW b \in Ids
  PROVE  OracleBlock(prog, b) = blocks[b].insts
<1>1. PICK m, n \in DOMAIN Insts : IsBlock(b, m, n)
  BY DEF ShapeInv
<1>2. /\ prog \in Programs /\ DOMAIN Insts = 1..Len(Insts) /\ Len(Insts) \in Nat
      /\ b = Off(m) /\ blocks[b].insts = m..n /\ NoCut(m, n) /\ Ids \subseteq boundaries
  <2>1. prog \in Programs /\ Ids \subseteq boundaries
    BY DEF TypeInv, ShapeInv
  <2> QED BY <1>1, <2>1, ProgramFacts DEF IsBlock
<1>3. OracleBlock(prog, b) =
        {j \in DOMAIN Insts : b <= Off(j) /\ \A l \in Ids : l <= Off(j) => l <= b}
  BY LeadersAgree DEF OracleBlock, Indices, Insts, Off
<1>4. ASSUME NEW j \in m..n PROVE j \in OracleBlock(prog, b)
  <2>1. j \in DOMAIN Insts /\ m <= j /\ j <= n
    <3>1. Len(Insts) \in Nat /\ m \in 1..Len(Insts) /\ n \in 1..Len(Insts)
      BY <1>2
    <3>2. j \in 1..Len(Insts) /\ m <= j /\ j <= n
      BY <3>1
    <3> QED BY <1>2, <3>2
  <2>2. b <= Off(j)
    BY <1>2, <2>1, OffsetFacts
  <2>3. ASSUME NEW l \in Ids, l <= Off(j), ~(l <= b) PROVE FALSE
    <3>1. l \in Nat /\ b \in Nat
      BY DEF TypeInv, TypeOK
    <3>2. l > b
      BY <2>3, <3>1
    <3>3. PICK i \in DOMAIN Insts : l = Off(i) /\ i > n
      BY <1>1, <3>2, AfterBlock
    <3>4. i <= j
      BY <1>2, <2>1, <2>3, <3>3, OffsetFacts
    <3>5. i \in Int /\ j \in Int /\ n \in Int
      BY <1>2
    <3> QED BY <2>1, <3>3, <3>4, <3>5
  <2> QED BY <1>3, <2>1, <2>2, <2>3
<1>5. ASSUME NEW j \in OracleBlock(prog, b) PROVE j \in m..n
  <2>1. j \in DOMAIN Insts /\ b <= Off(j) /\ \A l \in Ids : l <= Off(j) => l <= b
    BY <1>3
  <2>2. m <= j
    BY <1>2, <2>1, OffsetFacts
  <2>3. j \in Int /\ m \in Int /\ n \in Int
    BY <1>2, <2>1
  <2>4. CASE j > n
    <3>1. PICK c \in DOMAIN Insts : c = n + 1 /\ c <= j /\ Off(c) \in Ids
      BY <1>1, <2>1, <2>4, AfterBlock
    <3>2. Off(c) <= Off(j)
      BY <1>2, <2>1, <3>1, OffsetFacts
    <3>3. Off(c) <= Off(m)
      BY <1>2, <2>1, <3>1, <3>2
    <3>4. c <= m
      BY <1>2, <3>3, OffsetFacts
    <3>5. m <= n
      BY <1>1 DEF IsBlock
    <3> QED BY <2>3, <3>1, <3>4, <3>5
  <2> QED BY <2>2, <2>3, <2>4
<1> QED BY <1>2, <1>4, <1>5

(* Without an overflow the table Cfg::build reads is the oracle's. *)
LEMMA CasesAgree ==
  ASSUME TypeInv, TablesAddressable, NEW b \in Ids, NEW n \in DOMAIN Insts, LastInst(b) = Insts[n]
  PROVE  OracleCaseTargets(LastInst(b), prog.code) = {TargetOf(b, j) : j \in 1..Len(TableOf(b))}
<1>1. ~TableOverflows(LastInst(b))
  BY DEF TypeInv, TablesAddressable, Insts
<1>2. TableOf(b) = EntriesFrom(LastInst(b), prog.code, LastInst(b).off + LastInst(b).tab)
  BY <1>1 DEF TableOf, CaseTable
<1>3. DOMAIN TableOf(b) = 1..Len(TableOf(b))
  <2>1. TableOf(b) \in Seq(TableEntry)
    <3>1. prog \in Programs
      BY DEF TypeInv
    <3>2. /\ LastInst(b).off + LastInst(b).tab \in Nat /\ LastInst(b).cnt \in Int
          /\ prog.code.len \in Nat /\ prog.code.at \in [0..(prog.code.len - 1) -> TableEntry]
      <4>1. LastInst(b).off \in Nat /\ LastInst(b).tab \in Nat /\ LastInst(b).cnt \in Int
        BY <3>1, InsnFacts
      <4> QED BY <3>1, <4>1, ProgramFacts
    <3> QED BY <1>2, <3>2, EntriesTyped
  <2> QED BY <2>1
<1>4. OracleCaseTargets(LastInst(b), prog.code) =
        {SignedTarget(LastInst(b).off, TableOf(b)[j].rel) : j \in DOMAIN TableOf(b)}
  BY <1>1, <1>2 DEF OracleCaseTargets
<1> QED BY <1>3, <1>4 DEF TargetOf

(* Falling through, a block leads to the address after it, when that is a  *)
(* block.                                                                  *)
LEMMA FallsThrough ==
  ASSUME TypeInv, ShapeInv, Cut, pc # "split", NEW b \in Ids
  PROVE  Reached(NextBlock(b)) = {NextOffset(LastInst(b))} \cap Ids
<1>1. PICK m, n \in DOMAIN Insts :
        IsBlock(b, m, n) /\ Max(blocks[b].insts) = n /\ LastInst(b) = Insts[n]
  BY BlockEnds
<1>2. prog \in Programs /\ Ids \subseteq Nat /\ b \in Nat
  BY DEF TypeInv, TypeOK
<1>3. NextOffset(LastInst(b)) = Past(n)
  <2>1. NextOffset(Insts[n]) # None
    BY DEF ShapeInv
  <2> QED BY <1>1, <2>1 DEF NextOffset, Past
<1>4. b = Off(m) /\ m <= n /\ Off(m) \in Nat /\ Off(n) \in Nat /\ Off(m) <= Off(n) /\ Off(n) < Past(n)
      /\ Past(n) \in Nat
  BY <1>1, <1>2, OffsetFacts DEF IsBlock
<1>5. ASSUME NEW d \in Ids, d > b PROVE d >= Past(n) /\ Past(n) \in Ids
  <2>1. PICK j \in DOMAIN Insts : d = Off(j) /\ j > n
    BY <1>1, <1>5, AfterBlock
  <2>2. PICK c \in DOMAIN Insts : c = n + 1 /\ c <= j /\ Off(c) \in Ids
    BY <1>1, <2>1, AfterBlock
  <2>3. Off(c) = Past(n) /\ Off(c) <= Off(j)
    BY <1>2, <2>2, <2>1, NextTile, OffsetFacts
  <2> QED BY <1>2, <1>4, <2>1, <2>2, <2>3
<1>6. CASE Past(n) \in Ids
  <2>1. Past(n) > b
    BY <1>4
  <2>2. NextId(b, Past(n))
    BY <1>5, <1>6, <2>1 DEF NextId, Least
  <2>3. \A c \in Ids : NextId(b, c) => c = Past(n)
    <3> SUFFICES ASSUME NEW c \in Ids, NextId(b, c) PROVE c = Past(n)
      OBVIOUS
    <3>1. c > b /\ c <= Past(n)
      BY <1>6, <2>1 DEF NextId, Least
    <3> QED BY <1>2, <1>4, <1>5, <3>1
  <2>4. (CHOOSE c \in Ids : NextId(b, c)) = Past(n)
    BY <1>6, <2>2, <2>3
  <2>5. NextBlock(b) = <<Past(n)>>
    BY <1>6, <2>2, <2>4 DEF NextBlock
  <2>6. Reached(<<Past(n)>>) = {Past(n)}
    BY DEF Reached
  <2> QED BY <1>3, <1>6, <2>5, <2>6
<1>7. CASE Past(n) \notin Ids
  <2>1. \A c \in Ids : ~NextId(b, c)
    BY <1>5, <1>7 DEF NextId, Least
  <2>2. NextBlock(b) = <<>>
    BY <2>1 DEF NextBlock
  <2>3. Reached(<<>>) = {}
    BY DEF Reached
  <2> QED BY <1>3, <1>7, <2>2, <2>3
<1> QED BY <1>6, <1>7

LEMMA ReachedConcat ==
  ASSUME NEW S, NEW s \in Seq(S), NEW t \in Seq(S)
  PROVE  Reached(s \o t) = Reached(s) \cup Reached(t)
<1> DEFINE a == Len(s)
           c == Len(t)
           w == s \o t
<1>1. a \in Nat /\ c \in Nat /\ DOMAIN s = 1..a /\ DOMAIN t = 1..c
  OBVIOUS
<1>2. w \in Seq(S) /\ Len(w) = a + c
  BY ConcatLen
<1>3. DOMAIN w = 1..(a + c)
  BY <1>2
<1>4. \A i \in 1..(a + c) : w[i] = IF i <= a THEN s[i] ELSE t[i - a]
  BY ConcatAt
<1> HIDE DEF a, c, w
<1>5. ASSUME NEW i \in DOMAIN w PROVE w[i] \in Reached(s) \cup Reached(t)
  <2>1. i \in 1..a \/ i - a \in 1..c
    BY <1>1, <1>3
  <2>2. i \in 1..a => i <= a
    BY <1>1
  <2>3. i \notin 1..a => ~(i <= a)
    BY <1>1, <1>3
  <2> QED BY <1>1, <1>3, <1>4, <2>1, <2>2, <2>3 DEF Reached
<1>6. ASSUME NEW i \in DOMAIN s PROVE s[i] \in Reached(w)
  <2>1. i \in 1..(a + c) /\ i <= a
    BY <1>1
  <2>2. w[i] = s[i]
    BY <1>4, <2>1
  <2> QED BY <1>3, <2>1, <2>2 DEF Reached
<1>7. ASSUME NEW i \in DOMAIN t PROVE t[i] \in Reached(w)
  <2>1. PICK j : j = i + a
    OBVIOUS
  <2>2. j \in 1..(a + c) /\ ~(j <= a) /\ j - a = i
    BY <1>1, <2>1
  <2>3. w[j] = t[i]
    BY <1>4, <2>2
  <2> QED BY <1>3, <2>2, <2>3 DEF Reached
<1>8. Reached(w) = Reached(s) \cup Reached(t)
  BY <1>5, <1>6, <1>7 DEF Reached
<1> QED BY <1>8 DEF w

(* Which addresses a block leads to, by the kind of its last instruction. *)
LEMMA FlowAgrees ==
  ASSUME TypeInv, ShapeInv, FlowInv, TablesAddressable, Cut, pc = "done", NEW b \in Ids
  PROVE  LET last == LastInst(b)
             flow == Reached(blocks[b].succ)
         IN /\ last.kind \in Kinds
            /\ last.kind \in {"ret", "throw", "unreachable"} => flow = {}
            /\ last.kind = "jmp" => flow = {BranchTarget(last)} \cap Ids
            /\ last.kind = "cond" => flow = {BranchTarget(last), NextOffset(last)} \cap Ids
            /\ IsSwitch(last) =>
                 flow = ({OracleSwitchDefault(last)} \cup OracleCaseTargets(last, prog.code)) \cap Ids
            /\ last.kind \in {"plain", "save"} => flow = {NextOffset(last)} \cap Ids
<1>1. PICK n \in DOMAIN Insts : LastInst(b) = Insts[n]
  BY BlockEnds
<1> DEFINE last == LastInst(b)
<1>2. last.kind \in Kinds
  <2>1. Insts[n] \in Insn
    BY ProgramFacts DEF TypeInv
  <2> QED BY <1>1, <2>1 DEF Insn
<1>3. EdgeDone(b)
  BY DEF FlowInv
<1>4. CASE IsSwitch(last)
  <2>1. PICK s, d : s = blocks[b].succ /\ d = blocks[b].ids /\ SwitchRead(b, Len(TableOf(b)), s, d)
    BY <1>3, <1>4 DEF EdgeDone
  <2>2. Reached(s) = ({DefaultOf(b)} \cup {TargetOf(b, j) : j \in 1..Len(TableOf(b))}) \cap Ids
    BY <2>1 DEF SwitchRead
  <2>3. OracleCaseTargets(last, prog.code) = {TargetOf(b, j) : j \in 1..Len(TableOf(b))}
    BY <1>1, CasesAgree
  <2>4. OracleSwitchDefault(last) = DefaultOf(b)
    BY DEF OracleSwitchDefault, DefaultOf
  <2>5. last.kind \notin {"ret", "throw", "unreachable", "jmp", "cond", "plain", "save"}
    BY <1>4 DEF IsSwitch
  <2> QED BY <1>2, <2>1, <2>2, <2>3, <2>4, <2>5
<1>5. CASE ~IsSwitch(last)
  <2>1. blocks[b].succ = Successors(b)
    BY <1>3, <1>5 DEF EdgeDone
  <2>2. Reached(<<>>) = {}
    BY DEF Reached
  <2>3. last.kind \in {"ret", "throw", "unreachable"} => Successors(b) = <<>>
    BY DEF Successors, IsUnconditionalJump, IsConditionalBranch
  <2>4. last.kind = "jmp" => Successors(b) = Present(BranchTarget(last))
    BY DEF Successors, IsUnconditionalJump
  <2>5. last.kind = "cond" =>
          Successors(b) = Present(BranchTarget(last)) \o Present(NextOffset(last))
    BY DEF Successors, IsUnconditionalJump, IsConditionalBranch
  <2>6. last.kind \in {"plain", "save"} => Successors(b) = NextBlock(b)
    BY DEF Successors, IsUnconditionalJump, IsConditionalBranch
  <2>7. Reached(Present(BranchTarget(last))) = {BranchTarget(last)} \cap Ids
    BY PresentReached
  <2>8. Reached(Present(BranchTarget(last)) \o Present(NextOffset(last))) =
          {BranchTarget(last), NextOffset(last)} \cap Ids
    <3>1. Reached(Present(NextOffset(last))) = {NextOffset(last)} \cap Ids
      BY PresentReached
    <3>2. Present(BranchTarget(last)) \in Seq(Ids) /\ Present(NextOffset(last)) \in Seq(Ids)
      BY PresentTyped
    <3> QED BY <2>7, <3>1, <3>2, ReachedConcat
  <2>9. Reached(NextBlock(b)) = {NextOffset(last)} \cap Ids
    BY FallsThrough
  <2> HIDE DEF last
  <2> QED BY <1>2, <1>5, <2>1, <2>2, <2>3, <2>4, <2>5, <2>6, <2>7, <2>8, <2>9 DEF last
<1> QED BY <1>4, <1>5

(* The oracle's edges, by the kind of the last instruction. *)
EdgeTo(l, t, kind, leaders) == IF t \in leaders THEN {<<l, t, kind>>} ELSE {}

LEMMA OracleEdgesOf ==
  ASSUME NEW p, NEW l
  PROVE  LET last == OracleLast(p, l)
             To(t, kind) == EdgeTo(l, t, kind, Leaders(p))
         IN /\ last.kind \in {"ret", "throw", "unreachable"} => OracleEdges(p, l) = {}
            /\ last.kind = "jmp" =>
                 OracleEdges(p, l) = To(OracleBranchTarget(last), "Branch")
            /\ last.kind = "cond" =>
                 OracleEdges(p, l) =
                   To(OracleBranchTarget(last), "Branch") \cup
                   (IF NextOffset(last) = OracleBranchTarget(last) THEN {}
                    ELSE To(NextOffset(last), "FallThrough"))
            /\ IsSwitch(last) =>
                 OracleEdges(p, l) =
                   To(OracleSwitchDefault(last), "SwitchDefault") \cup
                   UNION {To(t, "Branch") :
                            t \in OracleCaseTargets(last, p.code) \ {OracleSwitchDefault(last)}}
            /\ last.kind \in {"plain", "save"} =>
                 OracleEdges(p, l) = To(NextOffset(last), "FallThrough")
<1> DEFINE last == OracleLast(p, l)
           To(t, kind) == EdgeTo(l, t, kind, Leaders(p))
           jump == To(OracleBranchTarget(last), "Branch")
           branch == To(OracleBranchTarget(last), "Branch") \cup
                     (IF NextOffset(last) = OracleBranchTarget(last) THEN {}
                      ELSE To(NextOffset(last), "FallThrough"))
           switch == To(OracleSwitchDefault(last), "SwitchDefault") \cup
                     UNION {To(t, "Branch") :
                              t \in OracleCaseTargets(last, p.code) \ {OracleSwitchDefault(last)}}
           through == To(NextOffset(last), "FallThrough")
<1>1. OracleEdges(p, l) =
        CASE last.kind \in {"ret", "throw", "unreachable"} -> {}
          [] last.kind = "jmp" -> jump
          [] last.kind = "cond" -> branch
          [] IsSwitch(last) -> switch
          [] OTHER -> through
  BY DEF OracleEdges, EdgeTo
<1> HIDE DEF jump, branch, switch, through
<1>2. \A x, a, b, c, d :
        x = (CASE last.kind \in {"ret", "throw", "unreachable"} -> {}
               [] last.kind = "jmp" -> a
               [] last.kind = "cond" -> b
               [] IsSwitch(last) -> c
               [] OTHER -> d) =>
          /\ last.kind \in {"ret", "throw", "unreachable"} => x = {}
          /\ last.kind = "jmp" => x = a
          /\ last.kind = "cond" => x = b
          /\ IsSwitch(last) => x = c
          /\ last.kind \in {"plain", "save"} => x = d
  <2> HIDE DEF last
  <2> QED BY DEF IsSwitch
<1>3. /\ last.kind \in {"ret", "throw", "unreachable"} => OracleEdges(p, l) = {}
      /\ last.kind = "jmp" => OracleEdges(p, l) = jump
      /\ last.kind = "cond" => OracleEdges(p, l) = branch
      /\ IsSwitch(last) => OracleEdges(p, l) = switch
      /\ last.kind \in {"plain", "save"} => OracleEdges(p, l) = through
  <2> HIDE DEF last
  <2> QED BY <1>1, <1>2
<1> QED BY <1>3 DEF jump, branch, switch, through

LabelledEdges(b, last) == {<<b, t, ShapeKind(last, t)>> : t \in Reached(blocks[b].succ)}

LEMMA LastAgrees ==
  ASSUME TypeInv, ShapeInv, Cut, pc # "split", TablesAddressable, NEW b \in Ids
  PROVE  OracleLast(prog, b) = LastInst(b)
BY BlocksAgree DEF OracleLast, LastInst, Insts

LEMMA OneEdge ==
  ASSUME NEW b, NEW last, NEW x, NEW kind, NEW flow, NEW ids0,
         flow = {x} \cap ids0, x \in ids0 => ShapeKind(last, x) = kind
  PROVE  EdgeTo(b, x, kind, ids0) = {<<b, t, ShapeKind(last, t)>> : t \in flow}
BY DEF EdgeTo

LEMMA EdgesAgree ==
  ASSUME TypeInv, ShapeInv, FlowInv, TablesAddressable, Cut, pc = "done", NEW b \in Ids
  PROVE  OracleEdges(prog, b) = LabelledEdges(b, LastInst(b))
<1> DEFINE flow == Reached(blocks[b].succ)
           edges == {<<b, t, ShapeKind(LastInst(b), t)>> : t \in flow}
<1> SUFFICES OracleEdges(prog, b) = edges
  BY DEF LabelledEdges
<1>0. PICK last : last = LastInst(b)
  OBVIOUS
<1>1. last = OracleLast(prog, b) /\ Leaders(prog) = Ids
  BY <1>0, LastAgrees, LeadersAgree
<1>2. /\ last.kind \in Kinds
      /\ last.kind \in {"ret", "throw", "unreachable"} => flow = {}
      /\ last.kind = "jmp" => flow = {BranchTarget(last)} \cap Ids
      /\ last.kind = "cond" => flow = {BranchTarget(last), NextOffset(last)} \cap Ids
      /\ IsSwitch(last) =>
           flow = ({OracleSwitchDefault(last)} \cup OracleCaseTargets(last, prog.code)) \cap Ids
      /\ last.kind \in {"plain", "save"} => flow = {NextOffset(last)} \cap Ids
  BY <1>0, FlowAgrees
<1>3. /\ last.kind \in {"ret", "throw", "unreachable"} => OracleEdges(prog, b) = {}
      /\ last.kind = "jmp" =>
           OracleEdges(prog, b) = EdgeTo(b, OracleBranchTarget(last), "Branch", Ids)
      /\ last.kind = "cond" =>
           OracleEdges(prog, b) =
             EdgeTo(b, OracleBranchTarget(last), "Branch", Ids) \cup
             (IF NextOffset(last) = OracleBranchTarget(last) THEN {}
              ELSE EdgeTo(b, NextOffset(last), "FallThrough", Ids))
      /\ IsSwitch(last) =>
           OracleEdges(prog, b) =
             EdgeTo(b, OracleSwitchDefault(last), "SwitchDefault", Ids) \cup
             UNION {EdgeTo(b, t, "Branch", Ids) :
                      t \in OracleCaseTargets(last, prog.code) \ {OracleSwitchDefault(last)}}
      /\ last.kind \in {"plain", "save"} =>
           OracleEdges(prog, b) = EdgeTo(b, NextOffset(last), "FallThrough", Ids)
  BY <1>1, OracleEdgesOf
<1>4. OracleBranchTarget(last) = BranchTarget(last)
  BY DEF OracleBranchTarget, BranchTarget
<1>5. edges = {<<b, t, ShapeKind(last, t)>> : t \in flow}
  BY <1>0
<1> HIDE DEF flow, edges
<1>6. CASE last.kind \in {"ret", "throw", "unreachable"}
  BY <1>2, <1>3, <1>5, <1>6
<1>7. CASE last.kind = "jmp"
  <2>1. ShapeKind(last, BranchTarget(last)) = "Branch"
    BY <1>7 DEF ShapeKind, IsSwitch
  <2> QED BY <1>2, <1>3, <1>4, <1>5, <1>7, <2>1, OneEdge
<1>8. CASE last.kind = "cond"
  <2> DEFINE x == BranchTarget(last)
             y == NextOffset(last)
  <2>1. \A t : ShapeKind(last, t) = IF t = x THEN "Branch" ELSE "FallThrough"
    BY <1>4, <1>8 DEF ShapeKind, IsSwitch
  <2>2. flow = {x, y} \cap Ids
    BY <1>2, <1>8
  <2>3. OracleEdges(prog, b) = EdgeTo(b, x, "Branch", Ids) \cup
                               (IF y = x THEN {} ELSE EdgeTo(b, y, "FallThrough", Ids))
    BY <1>3, <1>4, <1>8
  <2> HIDE DEF x, y
  <2> QED BY <1>5, <2>1, <2>2, <2>3 DEF EdgeTo
<1>9. CASE IsSwitch(last)
  <2> DEFINE x == OracleSwitchDefault(last)
             cases == OracleCaseTargets(last, prog.code)
  <2>1. \A t : ShapeKind(last, t) = IF t = x THEN "SwitchDefault" ELSE "Branch"
    BY <1>9 DEF ShapeKind, IsSwitch
  <2>2. flow = ({x} \cup cases) \cap Ids
    BY <1>2, <1>9
  <2>3. OracleEdges(prog, b) = EdgeTo(b, x, "SwitchDefault", Ids) \cup
                               UNION {EdgeTo(b, t, "Branch", Ids) : t \in cases \ {x}}
    BY <1>3, <1>9
  <2> HIDE DEF x, cases
  <2>4. ASSUME NEW e \in OracleEdges(prog, b) PROVE e \in edges
    <3>1. CASE e \in EdgeTo(b, x, "SwitchDefault", Ids)
      BY <1>5, <2>1, <2>2, <3>1 DEF EdgeTo
    <3>2. CASE e \in UNION {EdgeTo(b, t, "Branch", Ids) : t \in cases \ {x}}
      <4>1. PICK t \in cases \ {x} : e \in EdgeTo(b, t, "Branch", Ids)
        BY <3>2
      <4> QED BY <1>5, <2>1, <2>2, <4>1 DEF EdgeTo
    <3> QED BY <2>3, <2>4, <3>1, <3>2
  <2>5. ASSUME NEW e \in edges PROVE e \in OracleEdges(prog, b)
    <3>1. PICK t \in flow : e = <<b, t, ShapeKind(last, t)>>
      BY <1>5
    <3>2. CASE t = x
      <4>1. e \in EdgeTo(b, x, "SwitchDefault", Ids)
        BY <2>1, <2>2, <3>1, <3>2 DEF EdgeTo
      <4> QED BY <2>3, <4>1
    <3>3. CASE t # x
      <4>1. t \in cases \ {x} /\ e \in EdgeTo(b, t, "Branch", Ids)
        BY <2>1, <2>2, <3>1, <3>3 DEF EdgeTo
      <4> QED BY <2>3, <4>1
    <3> QED BY <3>2, <3>3
  <2> QED BY <2>4, <2>5
<1>10. CASE last.kind \in {"plain", "save"}
  <2>1. ShapeKind(last, NextOffset(last)) = "FallThrough"
    BY <1>10 DEF ShapeKind, IsSwitch
  <2> QED BY <1>2, <1>3, <1>5, <1>10, <2>1, OneEdge
<1>11. \/ last.kind \in {"ret", "throw", "unreachable"} \/ last.kind = "jmp"
       \/ last.kind = "cond" \/ IsSwitch(last) \/ last.kind \in {"plain", "save"}
  BY <1>2 DEF Kinds, IsSwitch
<1> QED BY <1>6, <1>7, <1>8, <1>9, <1>10, <1>11

CatchEdge(b) ==
  IF blocks[b].exc \in Ids THEN {<<b, blocks[b].exc, "ExceptionHandler">>} ELSE {}

LEMMA CatchAgrees ==
  ASSUME TypeInv, ShapeInv, HandlerInv, TablesAddressable, Cut, pc = "done", NEW b \in Ids
  PROVE  OracleCatch(prog, b) = CatchEdge(b)
<1> DEFINE last == OracleLast(prog, b)
           covering == {n \in DOMAIN prog.handlers :
                          /\ prog.handlers[n].target \in Leaders(prog)
                          /\ b >= prog.handlers[n].start
                          /\ last.off + last.size <= prog.handlers[n].end}
           count == Len(prog.handlers)
<1>1. OracleCatch(prog, b) =
        IF covering = {} THEN {}
        ELSE {<<b, prog.handlers[Max(covering)].target, "ExceptionHandler">>}
  BY DEF OracleCatch
<1>2. count \in Nat /\ DOMAIN prog.handlers = 1..count
  <2>1. prog.handlers \in Seq(Handler)
    BY ProgramFacts DEF TypeInv
  <2> QED BY <2>1
<1>3. blocks[b].start = b /\ blocks[b].end = last.off + last.size
  <2>1. PICK m, n \in DOMAIN Insts :
          IsBlock(b, m, n) /\ Max(blocks[b].insts) = n /\ LastInst(b) = Insts[n]
    BY BlockEnds
  <2>2. last = Insts[n]
    BY <2>1, LastAgrees
  <2> QED BY <2>1, <2>2 DEF IsBlock, Past
<1>4. Mapped(count)
  BY DEF HandlerInv
<1>5. PICK m \in 0..count : CaughtBy(b, m, count)
  BY <1>4 DEF Mapped
<1>6. ASSUME NEW j \in 1..count
      PROVE  prog.handlers[j].target \in Ids /\
             (j \in covering <=> Covers(prog.handlers[j], blocks[b]))
  <2>1. prog.handlers[j].target \in Ids /\ Leaders(prog) = Ids
    BY <1>4, LeadersAgree DEF Mapped
  <2> QED BY <1>2, <1>3, <2>1 DEF Covers
<1>7. covering \subseteq 1..count
  BY <1>2
<1> HIDE DEF covering, last, count
<1>8. CASE m = 0
  <2>1. covering = {}
    BY <1>2, <1>5, <1>6, <1>7, <1>8 DEF CaughtBy
  <2>2. blocks[b].exc = None /\ None \notin Ids
    BY <1>5, <1>8 DEF CaughtBy, TypeInv, TypeOK, None
  <2> QED BY <1>1, <2>1, <2>2 DEF CatchEdge
<1>9. CASE m # 0
  <2>1. m \in 1..count /\ Covers(prog.handlers[m], blocks[b])
        /\ blocks[b].exc = prog.handlers[m].target
    BY <1>2, <1>5, <1>9 DEF CaughtBy
  <2>2. m \in covering /\ covering \subseteq Int /\ prog.handlers[m].target \in Ids
    BY <1>6, <1>7, <2>1
  <2>3. ASSUME NEW j \in covering PROVE j <= m
    <3>1. j \in 1..count /\ Covers(prog.handlers[j], blocks[b])
      BY <1>6, <1>7
    <3>2. j \notin (m + 1)..count
      BY <1>5, <3>1 DEF CaughtBy
    <3> QED BY <1>2, <2>1, <3>1, <3>2
  <2>4. Max(covering) = m
    BY <2>2, <2>3, LastOfSet
  <2>5. covering # {}
    BY <2>2
  <2>6. OracleCatch(prog, b) = {<<b, prog.handlers[m].target, "ExceptionHandler">>}
    BY <1>1, <2>4, <2>5, Zenon
  <2> QED BY <2>1, <2>2, <2>6 DEF CatchEdge
<1> QED BY <1>8, <1>9

LEMMA ShapeParts ==
  /\ ToShape(prog, blocks).leaders = Ids
  /\ ToShape(prog, blocks).edges = UNION {CatchEdge(b) \cup LabelledEdges(b, LastInst(b)) : b \in Ids}
  /\ ToShape(prog, blocks).blocks = [b \in Ids |-> blocks[b].insts]
<1> DEFINE shape == ToShape(prog, blocks)
           Normal(b) == {<<b, blocks[b].succ[n],
                           ShapeKind(LastInst(b), blocks[b].succ[n])>> : n \in DOMAIN blocks[b].succ}
<1>1. shape.leaders = Ids /\ shape.blocks = [b \in Ids |-> blocks[b].insts]
  BY DEF ToShape, Ids
<1>2. shape.edges = UNION {CatchEdge(b) \cup Normal(b) : b \in Ids}
  BY DEF ToShape, Ids, CatchEdge, LastInst, Insts
<1>3. \A b \in Ids : Normal(b) = LabelledEdges(b, LastInst(b))
  BY DEF LabelledEdges, Reached
<1> HIDE DEF Normal
<1>4. UNION {CatchEdge(b) \cup Normal(b) : b \in Ids} =
      UNION {CatchEdge(b) \cup LabelledEdges(b, LastInst(b)) : b \in Ids}
  BY <1>3
<1> QED BY <1>1, <1>2, <1>4

LEMMA SameGraph ==
  ASSUME TypeInv, ShapeInv, FlowInv, HandlerInv, EmptyInv, TablesAddressable
  PROVE  MatchesOracle
<1> SUFFICES ASSUME pc = "done" PROVE ToShape(prog, blocks) = NaiveCfg(prog)
  BY DEF MatchesOracle
<1> DEFINE leaders == Leaders(prog)
           edges == IF prog.insts = <<>> THEN {}
                    ELSE UNION {OracleEdges(prog, l) \cup OracleCatch(prog, l) : l \in Leaders(prog)}
           held == [l \in Leaders(prog) |-> OracleBlock(prog, l)]
           flow == UNION {CatchEdge(b) \cup LabelledEdges(b, LastInst(b)) : b \in Ids}
<1>1. NaiveCfg(prog) = [leaders |-> leaders, edges |-> edges, blocks |-> held]
  BY DEF NaiveCfg
<1>2. ToShape(prog, blocks) =
        [leaders |-> Ids, edges |-> flow, blocks |-> [b \in Ids |-> blocks[b].insts]]
  <2>1. ToShape(prog, blocks) = [leaders |-> ToShape(prog, blocks).leaders,
                                 edges |-> ToShape(prog, blocks).edges,
                                 blocks |-> ToShape(prog, blocks).blocks]
    BY DEF ToShape
  <2> QED BY <2>1, ShapeParts
<1>3. CASE Insts # <<>>
  <2>1. Cut
    BY <1>3 DEF Cut, ShapeInv
  <2>2. leaders = Ids
    BY <2>1, LeadersAgree
  <2>3. \A b \in Ids : /\ OracleBlock(prog, b) = blocks[b].insts
                       /\ OracleEdges(prog, b) = LabelledEdges(b, LastInst(b))
                       /\ OracleCatch(prog, b) = CatchEdge(b)
    BY <2>1, BlocksAgree, EdgesAgree, CatchAgrees
  <2>4. held = [b \in Ids |-> blocks[b].insts]
    BY <2>2, <2>3
  <2>5. edges = flow
    <3>1. edges = UNION {OracleEdges(prog, l) \cup OracleCatch(prog, l) : l \in Ids}
      BY <1>3, <2>2 DEF Insts
    <3>2. UNION {OracleEdges(prog, l) \cup OracleCatch(prog, l) : l \in Ids} = flow
      BY <2>3
    <3> QED BY <3>1, <3>2
  <2> QED BY <1>1, <1>2, <2>2, <2>4, <2>5
<1>4. CASE Insts = <<>>
  <2>1. Ids = {0} /\ blocks[0].insts = {} /\ blocks[0].succ = <<>> /\ blocks[0].exc = None
    BY <1>4 DEF EmptyInv, Block
  <2>2. prog.insts = <<>>
    BY <1>4 DEF Insts
  <2>3. leaders = Ids /\ edges = {}
    BY <2>1, <2>2 DEF Leaders
  <2>4. held = [b \in Ids |-> blocks[b].insts]
    <3>1. OracleBlock(prog, 0) = {}
      BY <2>2 DEF OracleBlock, Indices
    <3> QED BY <2>1, <2>3, <3>1
  <2>5. flow = {}
    <3>1. CatchEdge(0) = {}
      BY <2>1 DEF CatchEdge, None
    <3>2. LabelledEdges(0, LastInst(0)) = {}
      BY <2>1 DEF LabelledEdges, Reached
    <3> QED BY <2>1, <3>1, <3>2
  <2> QED BY <1>1, <1>2, <2>3, <2>4, <2>5
<1> QED BY <1>3, <1>4

(* The postcondition the differential fuzz target asserts: whenever build  *)
(* returns a graph, its leaders, blocks, edges and catch edges are those   *)
(* of cfg_oracle.rs, for every program none of whose jump tables starts    *)
(* past usize::MAX (no table does on a 64-bit target; the run cfg_usize32  *)
(* shows what a 32-bit one does).                                          *)
THEOREM MatchesOracleCorrect ==
  ASSUME TablesAddressable
  PROVE  Spec => []MatchesOracle
<1>1. TypeInv /\ ShapeInv /\ FlowInv /\ HandlerInv /\ EmptyInv => MatchesOracle
  BY SameGraph
<1> QED BY <1>1, TypeInit, TypeStep, ShapeInit, ShapeStep, FlowInit, FlowStep, HandlerInit,
           HandlerStep, EmptyInit, EmptyStep, PTL DEF Spec

-----------------------------------------------------------------------------
(* Reachability.  ReachableFrom adds one layer of successors per block of  *)
(* the graph.  It is the smallest set that contains its start and is       *)
(* closed under successors, which is what the proofs below use.            *)

Closed(S) == \A a \in S : Reached(blocks[a].succ) \subseteq S

Flows(a, b) == \A S : Closed(S) /\ a \in S => b \in S

LEMMA FlowsSelf == \A a : Flows(a, a)
BY DEF Flows

LEMMA FlowsOn ==
  ASSUME NEW a, NEW b, Flows(a, b), NEW c \in Reached(blocks[b].succ)
  PROVE  Flows(a, c)
BY DEF Flows, Closed

Widen(S) == S \cup UNION {Reached(blocks[a].succ) : a \in S}

IsLayers(g, b, n) ==
  g = [m \in 0..n |->
         IF m = 0 THEN {b} ELSE g[m - 1] \cup UNION {Reached(blocks[a].succ) : a \in g[m - 1]}]

LEMMA LayersExist ==
  ASSUME NEW b, NEW N \in Nat
  PROVE  \E g : IsLayers(g, b, N)
<1> DEFINE S == {n \in Nat : \E g : IsLayers(g, b, n)}
<1>1. 0 \in S
  <2> DEFINE g == [n \in 0..0 |-> {b}]
  <2>1. IsLayers(g, b, 0)
    BY DEF IsLayers
  <2> QED BY <2>1
<1>2. ASSUME NEW n \in S PROVE n + 1 \in S
  <2>1. PICK g : IsLayers(g, b, n)
    OBVIOUS
  <2> DEFINE next(T) == T \cup UNION {Reached(blocks[a].succ) : a \in T}
             h == [m \in 0..(n + 1) |-> IF m = n + 1 THEN next(g[n]) ELSE g[m]]
  <2>2. \A m \in 0..n : g[m] = IF m = 0 THEN {b} ELSE next(g[m - 1])
    BY <2>1 DEF IsLayers
  <2> HIDE DEF next
  <2>3. \A m \in 0..(n + 1) : h[m] = IF m = 0 THEN {b} ELSE next(h[m - 1])
    <3> SUFFICES ASSUME NEW m \in 0..(n + 1)
                 PROVE  h[m] = IF m = 0 THEN {b} ELSE next(h[m - 1])
      OBVIOUS
    <3>1. n \in Nat
      OBVIOUS
    <3>2. CASE m = n + 1
      <4>1. h[m - 1] = g[n] /\ m # 0
        BY <3>1, <3>2
      <4> QED BY <3>1, <3>2, <4>1
    <3>3. CASE m \in 0..n
      <4>1. h[m] = g[m] /\ (m # 0 => h[m - 1] = g[m - 1])
        BY <3>1, <3>3
      <4> HIDE DEF h
      <4> QED BY <2>2, <3>3, <4>1
    <3> QED BY <3>1, <3>2, <3>3
  <2>4. IsLayers(h, b, n + 1)
    <3>1. h = [m \in 0..(n + 1) |-> h[m]]
      OBVIOUS
    <3> HIDE DEF h
    <3> QED BY <2>3, <3>1 DEF IsLayers, next
  <2> QED BY <2>4
<1>3. Nat \subseteq S
  <2> HIDE DEF S
  <2> QED BY <1>1, <1>2, NatSetInduction
<1> QED BY <1>3

LEMMA LayersOf ==
  ASSUME NEW b, Cardinality(Ids) \in Nat
  PROVE  \E g : /\ IsLayers(g, b, Cardinality(Ids))
                /\ ReachableFrom(b) = g[Cardinality(Ids)]
<1>1. \E g : IsLayers(g, b, Cardinality(Ids))
  BY LayersExist
<1> DEFINE layers == CHOOSE g : IsLayers(g, b, Cardinality(Ids))
<1>2. IsLayers(layers, b, Cardinality(Ids))
  BY <1>1
<1>3. ReachableFrom(b) = layers[Cardinality(Ids)]
  BY DEF ReachableFrom, IsLayers
<1> QED BY <1>2, <1>3

(* What the layers are: the first is the start, the next one adds what     *)
(* the last one leads to.                                                  *)
Grows(g, b, N) == g[0] = {b} /\ \A n \in 0..(N - 1) : g[n + 1] = Widen(g[n])

LEMMA LayerFacts ==
  ASSUME NEW b, NEW N \in Nat, NEW g, IsLayers(g, b, N)
  PROVE  Grows(g, b, N)
<1>1. \A m \in 0..N : g[m] = IF m = 0 THEN {b} ELSE Widen(g[m - 1])
  BY DEF IsLayers, Widen
<1>2. g[0] = {b}
  BY <1>1
<1>3. ASSUME NEW n \in 0..(N - 1) PROVE g[n + 1] = Widen(g[n])
  <2>1. PICK m : m = n + 1
    OBVIOUS
  <2>2. m \in 0..N /\ m # 0 /\ m - 1 = n
    BY <2>1
  <2>3. g[m] = Widen(g[m - 1])
    BY <1>1, <2>2
  <2>4. g[m - 1] = g[n]
    BY <2>2, Zenon
  <2> QED BY <2>1, <2>3, <2>4
<1> QED BY <1>2, <1>3 DEF Grows

LEMMA LayersFlow ==
  ASSUME NEW b, NEW N \in Nat, NEW g, IsLayers(g, b, N), NEW n \in 0..N
  PROVE  b \in g[n] /\ \A a \in g[n] : Flows(b, a)
<1>0. g[0] = {b} /\ \A m \in 0..(N - 1) : g[m + 1] = Widen(g[m])
  <2>1. Grows(g, b, N)
    BY LayerFacts
  <2> QED BY <2>1 DEF Grows
<1> DEFINE S == {m \in Int : b \in g[m] /\ \A a \in g[m] : Flows(b, a)}
<1>1. 0 \in S
  <2>1. g[0] = {b} /\ Flows(b, b)
    BY <1>0, FlowsSelf
  <2> QED BY <2>1
<1>2. ASSUME NEW m \in 0..(N - 1), m \in S PROVE m + 1 \in S
  <2>1. g[m + 1] = Widen(g[m])
    BY <1>0
  <2>2. b \in Widen(g[m])
    BY <1>2 DEF Widen
  <2>3. ASSUME NEW a \in Widen(g[m]) PROVE Flows(b, a)
    <3>1. CASE a \in g[m]
      BY <1>2, <3>1
    <3>2. ASSUME NEW c \in g[m], a \in Reached(blocks[c].succ) PROVE Flows(b, a)
      <4>1. Flows(b, c)
        BY <1>2
      <4> QED BY <3>2, <4>1, FlowsOn
    <3> QED BY <3>1, <3>2 DEF Widen
  <2> QED BY <2>1, <2>2, <2>3
<1>3. 0..N \subseteq S
  <2>1. 0 \in Int /\ N \in Int
    OBVIOUS
  <2> HIDE DEF S
  <2> QED BY <1>1, <1>2, <2>1, IntervalInduction
<1> QED BY <1>3

LEMMA WidenFacts ==
  ASSUME \A a \in Ids : Reached(blocks[a].succ) \subseteq Ids, NEW S
  PROVE  /\ S \subseteq Widen(S) /\ (S \subseteq Ids => Widen(S) \subseteq Ids)
         /\ Widen(S) = S <=> Closed(S)
<1> DEFINE more == UNION {Reached(blocks[a].succ) : a \in S}
<1>1. Widen(S) = S \cup more
  BY DEF Widen
<1>2. more \subseteq S <=> Closed(S)
  BY DEF Closed
<1>3. S \subseteq Ids => more \subseteq Ids
  OBVIOUS
<1> HIDE DEF more
<1> QED BY <1>1, <1>2, <1>3

(* A layer that adds nothing is closed, one that does is larger, and the   *)
(* last one cannot be larger than the graph.                               *)
LEMMA LastLayerClosed ==
  ASSUME IsFiniteSet(Ids), NEW b \in Ids, \A a \in Ids : Reached(blocks[a].succ) \subseteq Ids,
         NEW N \in Nat, N = Cardinality(Ids), NEW g, IsLayers(g, b, N)
  PROVE  Closed(g[N])
<1>0. g[0] = {b} /\ \A m \in 0..(N - 1) : g[m + 1] = Widen(g[m])
  <2>1. Grows(g, b, N)
    BY LayerFacts
  <2> QED BY <2>1 DEF Grows
<1> DEFINE S == {m \in Int : g[m] \subseteq Ids /\ (Closed(g[m]) \/ Cardinality(g[m]) > m)}
<1>1. 0 \in S
  <2>1. g[0] = {b} /\ g[0] \subseteq Ids
    BY <1>0
  <2>2. Cardinality({b}) = 1
    BY FS_Singleton
  <2>3. Cardinality(g[0]) = 1 /\ 1 > 0
    BY <2>1, <2>2
  <2>4. g[0] \subseteq Ids /\ Cardinality(g[0]) > 0
    BY <2>1, <2>3
  <2> QED BY <2>4
<1>2. ASSUME NEW m \in 0..(N - 1), m \in S PROVE m + 1 \in S
  <2>1. g[m + 1] = Widen(g[m])
    BY <1>0
  <2>2. Widen(g[m]) \subseteq Ids /\ g[m] \subseteq Widen(g[m])
    <3>1. g[m] \subseteq Ids
      BY <1>2
    <3> QED BY <3>1, WidenFacts
  <2>3. CASE Widen(g[m]) = g[m]
    <3>1. Closed(g[m])
      BY <2>3, WidenFacts
    <3> QED BY <2>1, <2>2, <2>3, <3>1
  <2>4. CASE Widen(g[m]) # g[m]
    <3>1. ~Closed(g[m])
      BY <2>4, WidenFacts
    <3>2. Cardinality(g[m]) > m
      BY <1>2, <3>1
    <3>3. IsFiniteSet(Widen(g[m])) /\ IsFiniteSet(g[m])
      BY <2>2, FS_Subset
    <3>4. Cardinality(g[m]) <= Cardinality(Widen(g[m]))
          /\ Cardinality(g[m]) # Cardinality(Widen(g[m]))
      BY <2>2, <2>4, <3>3, FS_Subset
    <3>5. Cardinality(g[m]) \in Nat /\ Cardinality(Widen(g[m])) \in Nat
      BY <3>3, FS_CardinalityType
    <3>6. Cardinality(Widen(g[m])) > m + 1
      BY <3>2, <3>4, <3>5
    <3> QED BY <2>1, <2>2, <3>6
  <2> QED BY <2>3, <2>4
<1>3. N \in S
  <2>1. 0 \in Int /\ N \in Int /\ N \in 0..N
    OBVIOUS
  <2> HIDE DEF S
  <2>2. 0..N \subseteq S
    BY <1>1, <1>2, <2>1, IntervalInduction
  <2> QED BY <2>1, <2>2
<1>4. Cardinality(g[N]) <= N /\ Cardinality(g[N]) \in Nat
  <2>1. g[N] \in SUBSET Ids
    BY <1>3
  <2>2. IsFiniteSet(g[N]) /\ Cardinality(g[N]) <= N
    BY <2>1, FS_Subset
  <2> QED BY <2>2, FS_CardinalityType
<1> QED BY <1>3, <1>4

LEMMA ReachableIff ==
  ASSUME IsFiniteSet(Ids), \A a \in Ids : Reached(blocks[a].succ) \subseteq Ids,
         NEW a, NEW b \in Ids
  PROVE  a \in ReachableFrom(b) <=> Flows(b, a)
<1>1. PICK N \in Nat : N = Cardinality(Ids)
  BY FS_CardinalityType
<1>2. PICK g : IsLayers(g, b, N) /\ ReachableFrom(b) = g[N]
  BY <1>1, LayersOf
<1>3. b \in g[N] /\ \A c \in g[N] : Flows(b, c)
  <2>1. N \in 0..N
    OBVIOUS
  <2> QED BY <1>2, <2>1, LayersFlow
<1>4. Closed(g[N])
  BY <1>1, <1>2, LastLayerClosed
<1> QED BY <1>2, <1>3, <1>4 DEF Flows

(* The ids of the blocks are finitely many: no instruction lies past       *)
(* u32::MAX.                                                               *)
LEMMA FiniteGraph ==
  ASSUME TypeInv, ShapeInv, Cut, pc # "split"
  PROVE  /\ IsFiniteSet(Ids)
         /\ \A a \in Ids : Reached(blocks[a].succ) \subseteq Ids
<1>1. IsFiniteSet(Ids)
  <2>1. ASSUME NEW b \in Ids PROVE b <= U32Max
    <3>1. PICK n \in DOMAIN Insts : b = Off(n)
      BY DEF ShapeInv, Offsets
    <3>2. /\ Insts[n].off \in Nat /\ Insts[n].size \in Nat \ {0}
          /\ NextOffset(Insts[n]) # None
      BY InsnFacts DEF ShapeInv, TypeInv
    <3>3. Insts[n].off + Insts[n].size <= U32Max
      BY <3>2 DEF NextOffset
    <3> QED BY <3>1, <3>2, <3>3, WidthAssumption DEF Off
  <2>2. Ids \in SUBSET Nat /\ U32Max \in Nat
    BY WidthAssumption DEF TypeInv, TypeOK
  <2> QED BY <2>1, <2>2, FS_BoundedSetOfNaturals
<1>2. ASSUME NEW a \in Ids PROVE Reached(blocks[a].succ) \subseteq Ids
  <2>1. blocks[a].succ \in Seq(Ids)
    BY DEF TypeInv, TypeOK, BlockRecord
  <2> QED BY <2>1 DEF Reached
<1> QED BY <1>1, <1>2

-----------------------------------------------------------------------------
(* The search.  What is on the stack can be reached from the entry and     *)
(* from every open block below it; so a block that is finished before one  *)
(* of its successors can be reached from that successor.                   *)

FinishedAfter(p, v) ==
  \A i \in DOMAIN p : \A b \in Reached(blocks[p[i]].succ) :
     /\ b \in v
     /\ (\E j \in DOMAIN p : j < i /\ p[j] = b) \/ Flows(b, p[i])

Tree(e, v, s, p) ==
  /\ FinishedAfter(p, v)
  /\ \A x \in v : Flows(e, x)
  /\ \A n \in DOMAIN s : Flows(e, s[n].id)
  /\ \A m, n \in DOMAIN s : m < n /\ s[m].expanded => Flows(s[m].id, s[n].id)

(* The block whose successors are being pushed is the innermost open one. *)
Innermost(s, x) ==
  \E m \in DOMAIN s : /\ s[m].expanded /\ s[m].id = x
                      /\ \A n \in DOMAIN s : s[n].expanded => n <= m

LEMMA FlowsKept ==
  ASSUME blocks' = blocks
  PROVE  \A a, b : Flows(a, b)' <=> Flows(a, b)
BY DEF Flows, Closed, Reached

LEMMA FinishedAfterKept ==
  ASSUME blocks' = blocks, NEW p, NEW v, FinishedAfter(p, v)
  PROVE  FinishedAfter(p, v)'
<1> SUFFICES ASSUME NEW i \in DOMAIN p, NEW b \in Reached(blocks'[p[i]].succ)
             PROVE  b \in v /\ ((\E j \in DOMAIN p : j < i /\ p[j] = b) \/ Flows(b, p[i])')
  BY DEF FinishedAfter, Reached
<1>1. b \in v /\ ((\E j \in DOMAIN p : j < i /\ p[j] = b) \/ Flows(b, p[i]))
  BY DEF FinishedAfter
<1>2. PICK x : x = p[i]
  OBVIOUS
<1>3. Flows(b, x)' <=> Flows(b, x)
  BY FlowsKept
<1> QED BY <1>1, <1>2, <1>3

LEMMA TreeKept ==
  ASSUME blocks' = blocks, NEW e, NEW v, NEW s, NEW p, Tree(e, v, s, p)
  PROVE  Tree(e, v, s, p)'
<1>1. FinishedAfter(p, v)'
  BY FinishedAfterKept DEF Tree
<1>2. (\A x \in v : Flows(e, x)') /\ (\A n \in DOMAIN s : Flows(e, s[n].id)')
  BY FlowsKept DEF Tree
<1>3. ASSUME NEW m \in DOMAIN s, NEW n \in DOMAIN s, m < n, s[m].expanded
      PROVE  Flows(s[m].id, s[n].id)'
  <2>1. Flows(s[m].id, s[n].id)
    BY <1>3 DEF Tree
  <2> QED BY <2>1, FlowsKept
<1> QED BY <1>1, <1>2, <1>3 DEF Tree

LEMMA TreePop ==
  ASSUME NEW e, NEW v, NEW s, NEW p, Tree(e, v, s, p), NEW l \in Nat, DOMAIN s = 1..l,
         NEW t, DOMAIN t = 1..(l - 1), \A n \in 1..(l - 1) : t[n] = s[n]
  PROVE  Tree(e, v, t, p)
<1>1. \A n \in 1..(l - 1) : n \in DOMAIN s
  OBVIOUS
<1> QED BY <1>1 DEF Tree

(* Finishing the block on top of the stack. *)
LEMMA TreeFinish ==
  ASSUME NEW e, NEW v, NEW s, NEW p, Tree(e, v, s, p), NEW l \in Nat, DOMAIN s = 1..l,
         NEW x, l >= 1, s[l].id = x,
         NEW c \in Nat, DOMAIN p = 1..c,
         NEW q, DOMAIN q = 1..(c + 1), \A i \in 1..c : q[i] = p[i], q[c + 1] = x,
         Reached(blocks[x].succ) \subseteq v,
         \A y \in v : y \in Reached(p) \/ \E n \in DOMAIN s : s[n].expanded /\ s[n].id = y
  PROVE  Tree(e, v, s, q)
<1>1. ASSUME NEW i \in DOMAIN q, NEW b \in Reached(blocks[q[i]].succ)
      PROVE  b \in v /\ ((\E j \in DOMAIN q : j < i /\ q[j] = b) \/ Flows(b, q[i]))
  <2>1. CASE i \in 1..c
    <3>1. b \in v /\ ((\E j \in DOMAIN p : j < i /\ p[j] = b) \/ Flows(b, p[i]))
      BY <2>1 DEF Tree, FinishedAfter
    <3>2. \A j \in DOMAIN p : j \in DOMAIN q /\ q[j] = p[j]
      OBVIOUS
    <3> QED BY <2>1, <3>1, <3>2
  <2>2. CASE i = c + 1
    <3>1. q[i] = x /\ b \in v
      BY <2>2
    <3>2. CASE b \in Reached(p)
      <4>1. PICK j \in 1..c : p[j] = b
        BY <3>2 DEF Reached
      <4>2. j \in DOMAIN q /\ j < i /\ q[j] = b
        BY <2>2, <4>1
      <4> QED BY <3>1, <4>2
    <3>3. ASSUME NEW n \in DOMAIN s, s[n].expanded, s[n].id = b PROVE Flows(b, x)
      <4>1. n = l \/ n < l
        OBVIOUS
      <4>2. CASE n = l
        BY <3>3, <4>2, FlowsSelf
      <4>3. CASE n < l
        <5>1. l \in DOMAIN s
          OBVIOUS
        <5> QED BY <3>3, <4>3, <5>1 DEF Tree
      <4> QED BY <4>1, <4>2, <4>3
    <3> QED BY <3>1, <3>2, <3>3
  <2>3. i \in 1..c \/ i = c + 1
    OBVIOUS
  <2> QED BY <2>1, <2>2, <2>3
<1>2. FinishedAfter(q, v)
  BY <1>1 DEF FinishedAfter
<1> QED BY <1>2 DEF Tree

(* Marking the block on top of the stack visited and open. *)
LEMMA TreeExpand ==
  ASSUME NEW e, NEW v, NEW s, NEW p, Tree(e, v, s, p), NEW l \in Nat, DOMAIN s = 1..l,
         l >= 1, NEW x, s[l].id = x,
         NEW t, DOMAIN t = 1..l, \A n \in 1..(l - 1) : t[n] = s[n], t[l].id = x, t[l].expanded
  PROVE  Tree(e, v \cup {x}, t, p) /\ Innermost(t, x)
<1>1. l \in DOMAIN s /\ \A n \in 1..l : n = l \/ n \in 1..(l - 1)
  OBVIOUS
<1>2. \A n \in 1..l : t[n].id = s[n].id
  BY <1>1
<1>3. \A m, n \in 1..l : m < n => m \in 1..(l - 1)
  OBVIOUS
<1>4. FinishedAfter(p, v \cup {x})
  BY DEF Tree, FinishedAfter
<1>5. \A y \in v \cup {x} : Flows(e, y)
  BY <1>1 DEF Tree
<1>6. \A n \in DOMAIN t : Flows(e, t[n].id)
  BY <1>2 DEF Tree
<1>7. ASSUME NEW m \in DOMAIN t, NEW n \in DOMAIN t, m < n, t[m].expanded
      PROVE  Flows(t[m].id, t[n].id)
  <2>1. m \in 1..(l - 1) /\ s[m].expanded /\ m \in DOMAIN s /\ n \in DOMAIN s
    BY <1>3, <1>7
  <2>2. Flows(s[m].id, s[n].id)
    BY <1>7, <2>1 DEF Tree
  <2> QED BY <1>2, <2>2
<1>8. Innermost(t, x)
  BY <1>1 DEF Innermost
<1> QED BY <1>4, <1>5, <1>6, <1>7, <1>8 DEF Tree

(* Pushing a successor of the innermost open block. *)
LEMMA TreePush ==
  ASSUME NEW e, NEW v, NEW s, NEW p, Tree(e, v, s, p), NEW l \in Nat, DOMAIN s = 1..l,
         NEW x, Innermost(s, x), NEW y \in Reached(blocks[x].succ),
         NEW t, DOMAIN t = 1..(l + 1), \A n \in 1..l : t[n] = s[n],
         t[l + 1].id = y, ~t[l + 1].expanded
  PROVE  Tree(e, v, t, p) /\ Innermost(t, x)
<1>1. PICK d \in 1..l : /\ s[d].expanded /\ s[d].id = x
                        /\ \A n \in 1..l : s[n].expanded => n <= d
  BY DEF Innermost
<1>2. \A n \in DOMAIN t : n \in 1..l \/ n = l + 1
  OBVIOUS
<1>3. \A n \in 1..l : n \in DOMAIN t /\ n \in DOMAIN s
  OBVIOUS
<1>4. Flows(e, y)
  <2>1. Flows(e, x)
    BY <1>1 DEF Tree
  <2> QED BY <2>1, FlowsOn
<1>5. \A n \in DOMAIN t : Flows(e, t[n].id)
  BY <1>2, <1>3, <1>4 DEF Tree
<1>6. ASSUME NEW m \in DOMAIN t, NEW n \in DOMAIN t, m < n, t[m].expanded
      PROVE  Flows(t[m].id, t[n].id)
  <2>1. m \in 1..l /\ s[m].expanded /\ t[m] = s[m]
    BY <1>2, <1>6
  <2>2. CASE n \in 1..l
    BY <1>3, <1>6, <2>1, <2>2 DEF Tree
  <2>3. CASE n = l + 1
    <3>1. m = d \/ m < d
      BY <1>1, <2>1
    <3>2. Flows(s[m].id, x)
      <4>1. CASE m = d
        BY <1>1, <4>1, FlowsSelf
      <4>2. CASE m < d
        BY <1>1, <1>3, <2>1, <4>2 DEF Tree
      <4> QED BY <3>1, <4>1, <4>2
    <3>3. Flows(s[m].id, y)
      BY <3>2, FlowsOn
    <3> QED BY <2>1, <2>3, <3>3
  <2> QED BY <1>2, <2>2, <2>3
<1>7. Innermost(t, x)
  <2>1. \A n \in DOMAIN t : t[n].expanded => n <= d
    BY <1>1, <1>2
  <2>2. d \in DOMAIN t /\ t[d].expanded /\ t[d].id = x
    BY <1>1, <1>3
  <2> QED BY <2>1, <2>2 DEF Innermost
<1>8. FinishedAfter(p, v) /\ \A z \in v : Flows(e, z)
  BY DEF Tree
<1> QED BY <1>5, <1>6, <1>7, <1>8 DEF Tree

(* The search is a tree of open blocks below the entry.  The values of the *)
(* variables are named so that Tree speaks of the same ones after a step.  *)
TreeOf(e, v, s, p) ==
  e = EntryId /\ v = visited /\ s = stack /\ p = post /\ Tree(e, v, s, p)

TreeInv ==
  pc = "dfs" =>
    /\ \E e, v, s, p : TreeOf(e, v, s, p)
    /\ k > 0 => Innermost(stack, bid)

LEMMA TreeInit == Init => TreeInv
BY DEF Init, TreeInv

LEMMA EntryIsLeast ==
  ASSUME Ids \subseteq Nat, NEW b \in Ids, Least(b, Ids)
  PROVE  EntryId = b
<1>1. Least(EntryId, Ids)
  BY DEF EntryId
<1> QED BY <1>1, LeastUnique

LEMMA TreeStart ==
  ASSUME TypeInv, SearchInv, NEW b \in Ids, StartSearch(b)
  PROVE  TreeInv'
<1>1. /\ pc = "handlers" /\ Least(b, Ids) /\ stack' = <<Entry(b, FALSE)>> /\ k' = 0
      /\ blocks' = blocks /\ Ids' = Ids /\ visited' = {} /\ post' = <<>> /\ Ids \subseteq Nat
  BY DEF StartSearch, SearchInv, Ids, TypeInv, TypeOK
<1>2. EntryId = b
  BY <1>1, EntryIsLeast
<1>3. PICK s : s = <<Entry(b, FALSE)>>
  OBVIOUS
<1>4. DOMAIN s = {1} /\ s[1].id = b /\ ~s[1].expanded
  BY <1>3 DEF Entry
<1>5. Tree(b, {}, s, <<>>)
  <2>1. FinishedAfter(<<>>, {})
    BY DEF FinishedAfter
  <2>2. \A n \in DOMAIN s : Flows(b, s[n].id) /\ ~s[n].expanded
    BY <1>4, FlowsSelf
  <2> QED BY <2>1, <2>2 DEF Tree
<1>6. Tree(b, {}, s, <<>>)'
  BY <1>1, <1>5, TreeKept
<1>7. b = EntryId'
  BY <1>1, <1>2 DEF EntryId
<1>8. TreeOf(b, {}, s, <<>>)'
  BY <1>1, <1>3, <1>6, <1>7 DEF TreeOf
<1>9. ~(k' > 0)
  BY <1>1
<1> QED BY <1>8, <1>9 DEF TreeInv

(* A new value of the search's variables for which Tree holds before the   *)
(* step makes TreeInv hold after it.                                       *)
LEMMA TreeNext ==
  ASSUME blocks' = blocks, NEW v, NEW s, NEW p, NEW x, NEW c,
         v = visited', s = stack', p = post', x = bid', c = k',
         Tree(EntryId, v, s, p), c > 0 => Innermost(s, x)
  PROVE  TreeInv'
<1>1. PICK e : e = EntryId
  OBVIOUS
<1>2. Tree(e, v, s, p)'
  <2>1. Tree(e, v, s, p)
    BY <1>1
  <2> QED BY <2>1, TreeKept
<1>3. e = EntryId'
  BY <1>1 DEF EntryId, Ids, Least
<1>4. TreeOf(e, v, s, p)'
  BY <1>2, <1>3 DEF TreeOf
<1>5. c > 0 => Innermost(s, x)'
  BY DEF Innermost
<1>6. k' > 0 => Innermost(stack, bid)'
  BY <1>5 DEF Innermost
<1> QED BY <1>4, <1>6 DEF TreeInv

LEMMA TreeNow ==
  ASSUME TreeInv, pc = "dfs"
  PROVE  /\ Tree(EntryId, visited, stack, post)
         /\ k > 0 => Innermost(stack, bid)
BY DEF TreeInv, TreeOf

LEMMA TreeStepFinish ==
  ASSUME TypeInv, SearchInv, TreeInv, Finish
  PROVE  TreeInv'
<1> DEFINE x == Top.id
<1>1. /\ TypeOK /\ pc = "dfs" /\ k = 0 /\ stack # <<>> /\ k' = 0
      /\ post' = Append(post, x) /\ stack' = Popped /\ UNCHANGED <<blocks, visited>>
  BY DEF Finish, TypeInv
<1>2. PICK l : l = Len(stack)
  OBVIOUS
<1>3. l \in Nat /\ l >= 1 /\ DOMAIN stack = 1..l /\ stack[l].id = x /\ x \in Ids
  BY <1>1, <1>2, StackShape, StackFacts DEF Top
<1>4. DOMAIN stack' = 1..(l - 1) /\ \A n \in 1..(l - 1) : stack'[n] = stack[n]
  BY <1>1, <1>2, PopFacts
<1>5. PICK c : c = Len(post)
  OBVIOUS
<1> HIDE DEF x
<1>6. /\ c \in Nat /\ DOMAIN post = 1..c /\ DOMAIN post' = 1..(c + 1)
      /\ \A i \in 1..c : post'[i] = post[i]
      /\ post'[c + 1] = x
  <2>1. post \in Seq(Ids)
    BY <1>1 DEF TypeOK
  <2> QED BY <1>1, <1>3, <1>5, <2>1, AppendFacts
<1>7. Reached(blocks[x].succ) \subseteq visited
  BY SearchFinish DEF x
<1>8. \A y \in visited : y \in Reached(post) \/ \E n \in DOMAIN stack : stack[n].expanded /\ stack[n].id = y
  BY <1>1 DEF SearchInv, Open, ExpandedAt
<1>9. PICK q, t : q = post' /\ t = stack'
  OBVIOUS
<1>10. Tree(EntryId, visited, stack, q)
  <2>1. Tree(EntryId, visited, stack, post)
    BY <1>1, TreeNow
  <2> QED BY <1>3, <1>6, <1>7, <1>8, <1>9, <2>1, TreeFinish, Zenon
<1>11. Tree(EntryId, visited, t, q)
  BY <1>3, <1>4, <1>9, <1>10, TreePop
<1>12. PICK v : v = visited
  OBVIOUS
<1>13. v = visited' /\ Tree(EntryId, v, t, q)
  BY <1>1, <1>11, <1>12
<1>14. \A d : d = k' => ~(d > 0)
  BY <1>1
<1> QED BY <1>1, <1>9, <1>13, <1>14, TreeNext

LEMMA TreeStepSkip ==
  ASSUME TypeInv, TreeInv, Skip
  PROVE  TreeInv'
<1>1. /\ TypeOK /\ pc = "dfs" /\ k = 0 /\ stack # <<>> /\ k' = 0
      /\ stack' = Popped /\ UNCHANGED <<blocks, visited, post>>
  BY DEF Skip, TypeInv
<1>2. PICK l : l = Len(stack)
  OBVIOUS
<1>3. l \in Nat /\ l >= 1 /\ DOMAIN stack = 1..l
  BY <1>1, <1>2, StackShape
<1>4. DOMAIN stack' = 1..(l - 1) /\ \A n \in 1..(l - 1) : stack'[n] = stack[n]
  BY <1>1, <1>2, PopFacts
<1>5. PICK t, v, p : t = stack' /\ v = visited /\ p = post
  OBVIOUS
<1>6. Tree(EntryId, v, t, p)
  BY <1>1, <1>3, <1>4, <1>5, TreeNow, TreePop
<1>7. v = visited' /\ p = post' /\ \A d : d = k' => ~(d > 0)
  BY <1>1, <1>5
<1> QED BY <1>1, <1>5, <1>6, <1>7, TreeNext

LEMMA TreeStepExpand ==
  ASSUME TypeInv, TreeInv, Expand
  PROVE  TreeInv'
<1> DEFINE x == Top.id
<1>1. /\ TypeOK /\ pc = "dfs" /\ k = 0 /\ stack # <<>> /\ bid' = x
      /\ visited' = visited \cup {x} /\ stack' = Append(Popped, Entry(x, TRUE))
      /\ UNCHANGED <<blocks, post>>
  BY DEF Expand, TypeInv
<1>2. PICK l : l = Len(stack)
  OBVIOUS
<1>3. /\ l \in Nat /\ l >= 1 /\ DOMAIN stack = 1..l /\ stack[l].id = x /\ x \in Ids
      /\ Popped \in Seq([id : Ids, expanded : BOOLEAN])
  BY <1>1, <1>2, StackShape, StackFacts DEF Top
<1>4. Len(Popped) = l - 1 /\ \A n \in 1..(l - 1) : Popped[n] = stack[n]
  <2>1. stack \in Seq([id : Ids, expanded : BOOLEAN])
    BY <1>1 DEF TypeOK
  <2> DEFINE E == [id : Ids, expanded : BOOLEAN]
  <2> HIDE DEF E
  <2>2. stack \in Seq(E)
    BY <2>1 DEF E
  <2> QED BY <1>1, <1>2, <2>2, FrontLast DEF Popped
<1>5. PICK t, y, r : t = stack' /\ y = x /\ r = Popped
  OBVIOUS
<1>6. /\ DOMAIN t = 1..(Len(r) + 1)
      /\ \A n \in 1..Len(r) : t[n] = r[n]
      /\ t[Len(r) + 1].id = y /\ t[Len(r) + 1].expanded = TRUE
  <2>1. TypeOK /\ y \in Ids /\ TRUE \in BOOLEAN /\ r \in Seq([id : Ids, expanded : BOOLEAN])
    BY <1>1, <1>3, <1>5
  <2>2. t = Append(r, Entry(y, TRUE))
    BY <1>1, <1>5
  <2> DEFINE a == Append(r, Entry(y, TRUE))
  <2>3. /\ DOMAIN a = 1..(Len(r) + 1)
        /\ \A n \in 1..Len(r) : a[n] = r[n]
        /\ a[Len(r) + 1].id = y /\ a[Len(r) + 1].expanded = TRUE
    BY <2>1, PushFacts
  <2> HIDE DEF a
  <2> QED BY <2>2, <2>3 DEF a
<1> HIDE DEF x
<1>7. Len(r) = l - 1 /\ \A n \in 1..(l - 1) : r[n] = stack[n]
  BY <1>4, <1>5
<1>8. Len(r) + 1 = l
  BY <1>3, <1>7
<1>9. /\ DOMAIN t = 1..l /\ \A n \in 1..(l - 1) : t[n] = stack[n]
      /\ t[l].id = y /\ t[l].expanded
  BY <1>6, <1>7, <1>8
<1>10. Tree(EntryId, visited, stack, post) /\ stack[l].id = y
  BY <1>1, <1>3, <1>5, TreeNow
<1>11. Tree(EntryId, visited \cup {y}, t, post) /\ Innermost(t, y)
  <2>1. l \in Nat /\ l >= 1 /\ DOMAIN stack = 1..l
    BY <1>3
  <2> QED BY <2>1, <1>9, <1>10, TreeExpand
<1>12. PICK v, p, c : v = visited \cup {y} /\ p = post /\ c = k'
  OBVIOUS
<1>13. v = visited' /\ p = post' /\ y = bid' /\ Tree(EntryId, v, t, p) /\ Innermost(t, y)
  BY <1>1, <1>5, <1>11, <1>12
<1> QED BY <1>1, <1>5, <1>12, <1>13, TreeNext

LEMMA TreeStepPush ==
  ASSUME TypeInv, TreeInv, PushSuccessor
  PROVE  TreeInv'
<1> DEFINE x == blocks[bid].succ[k]
<1>1. /\ TypeOK /\ pc = "dfs" /\ k \in Nat /\ k > 0
      /\ stack' = IF x \in visited THEN stack ELSE Append(stack, Entry(x, FALSE))
      /\ UNCHANGED <<blocks, visited, post, bid>>
      /\ bid \in Ids /\ k <= Len(blocks[bid].succ)
  BY DEF PushSuccessor, TypeInv, TypeOK
<1>2. blocks[bid].succ \in Seq(Ids)
  BY <1>1 DEF TypeOK, BlockRecord
<1>3. x \in Ids /\ x \in Reached(blocks[bid].succ)
  BY <1>1, <1>2 DEF Reached
<1>4. PICK l, t, y, v, p, c, b : /\ l = Len(stack) /\ t = stack' /\ y = x /\ v = visited
                                 /\ p = post /\ c = k' /\ b = bid
  OBVIOUS
<1> HIDE DEF x
<1>5. Tree(EntryId, v, stack, p) /\ Innermost(stack, b)
  BY <1>1, <1>4, TreeNow
<1>6. Tree(EntryId, v, t, p) /\ Innermost(t, b)
  <2>1. CASE x \in visited
    BY <1>1, <1>4, <1>5, <2>1
  <2>2. CASE x \notin visited
    <3>1. l \in Nat /\ DOMAIN stack = 1..l
      BY <1>1, <1>4, StackShape
    <3>2. /\ DOMAIN t = 1..(l + 1) /\ \A n \in 1..l : t[n] = stack[n]
          /\ t[l + 1].id = y /\ t[l + 1].expanded = FALSE
      <4>1. TypeOK /\ y \in Ids /\ FALSE \in BOOLEAN /\ stack \in Seq([id : Ids, expanded : BOOLEAN])
        BY <1>1, <1>3, <1>4 DEF TypeOK
      <4>2. t = Append(stack, Entry(y, FALSE))
        BY <1>1, <1>4, <2>2
      <4> DEFINE a == Append(stack, Entry(y, FALSE))
      <4>3. /\ DOMAIN a = 1..(Len(stack) + 1) /\ \A n \in 1..Len(stack) : a[n] = stack[n]
            /\ a[Len(stack) + 1].id = y /\ a[Len(stack) + 1].expanded = FALSE
        BY <4>1, PushFacts
      <4> HIDE DEF a
      <4> QED BY <1>4, <4>2, <4>3 DEF a
    <3>3. y \in Reached(blocks[b].succ)
      BY <1>3, <1>4
    <3> QED BY <1>5, <3>1, <3>2, <3>3, TreePush
  <2> QED BY <2>1, <2>2
<1>7. v = visited' /\ p = post' /\ b = bid'
  BY <1>1, <1>4
<1> QED BY <1>1, <1>4, <1>6, <1>7, TreeNext

LEMMA TreeStep == TypeInv /\ SearchInv /\ TreeInv /\ [Next]_vars => TreeInv'
<1> SUFFICES ASSUME TypeInv, SearchInv, TreeInv, [Next]_vars, pc' = "dfs" PROVE TreeInv'
  BY DEF TreeInv
<1>1. CASE UNCHANGED vars
  <2>1. UNCHANGED <<pc, k, blocks, visited, stack, post, bid>>
    BY <1>1 DEF vars, dfs_vars
  <2>2. PICK v, s, p, x, c : v = visited /\ s = stack /\ p = post /\ x = bid /\ c = k
    OBVIOUS
  <2>3. Tree(EntryId, v, s, p) /\ (c > 0 => Innermost(s, x))
    BY <2>1, <2>2, TreeNow
  <2>4. v = visited' /\ s = stack' /\ p = post' /\ x = bid' /\ c = k'
    BY <2>1, <2>2
  <2> QED BY <2>1, <2>3, <2>4, TreeNext
<1>2. CASE Next
  <2>1. pc \in {"handlers", "dfs"}
    BY <1>2, PhaseOrder DEF TypeInv, TypeOK, Phases, vars
  <2>2. CASE pc = "handlers"
    BY <1>2, <2>2, PhaseActions, TreeStart DEF MapHandler, Fail
  <2>3. CASE pc = "dfs"
    BY <1>2, <2>3, PhaseActions, TreeStepFinish, TreeStepSkip, TreeStepExpand, TreeStepPush
       DEF SearchDone
  <2> QED BY <2>1, <2>2, <2>3
<1> QED BY <1>1, <1>2

-----------------------------------------------------------------------------
(* The order.  It is the reversed post-order followed by the blocks the    *)
(* search did not visit, in ascending order; the visited blocks are those  *)
(* normal flow reaches from the entry.                                     *)

Searched(e, v, p) ==
  /\ v = Reached(p) /\ e \in v
  /\ FinishedAfter(p, v) /\ \A x \in v : Flows(e, x)

SearchedOf(e, v, p) == e = EntryId /\ v = visited /\ p = post /\ Searched(e, v, p)

Laid(c, l) ==
  /\ DOMAIN post = 1..c /\ DOMAIN order = 1..l /\ c <= l
  /\ \A n \in 1..c : order[n] = post[c + 1 - n]
  /\ \A m, n \in (c + 1)..l : m < n => order[m] < order[n]
  /\ \A n \in (c + 1)..l : \A d \in todo : order[n] < d
  /\ Distinct(order) /\ Reached(order) = Ids \ todo

Ordering == pc \in {"rest", "done"} \/ err = "InvalidExceptionLayout"

OrderInv ==
  Insts # <<>> /\ Ordering =>
    /\ \E e, v, p : SearchedOf(e, v, p)
    /\ \E c, l \in Nat : Laid(c, l)
    /\ pc # "rest" => todo = {}
    /\ err = "InvalidExceptionLayout" => \E b \in Ids : CatchMisplaced(b)

LEMMA OrderInit == Init => OrderInv
BY DEF Init, OrderInv, Ordering

LEMMA SearchedKept ==
  ASSUME UNCHANGED <<blocks, visited, post>>, NEW e, NEW v, NEW p, SearchedOf(e, v, p)
  PROVE  SearchedOf(e, v, p)'
<1>1. v = Reached(p) /\ e \in v /\ FinishedAfter(p, v) /\ \A x \in v : Flows(e, x)
  BY DEF SearchedOf, Searched
<1>2. FinishedAfter(p, v)'
  BY <1>1, FinishedAfterKept
<1>3. \A x \in v : Flows(e, x)'
  BY <1>1, FlowsKept
<1>4. Searched(e, v, p)'
  BY <1>1, <1>2, <1>3 DEF Searched, Reached
<1>5. e = EntryId' /\ v = visited' /\ p = post'
  BY DEF SearchedOf, EntryId, Ids, Least
<1> QED BY <1>4, <1>5 DEF SearchedOf

(* The search ends: everything visited is finished. *)
LEMMA OrderDone ==
  ASSUME TypeInv, ShapeInv, SearchInv, TreeInv, SearchDone
  PROVE  OrderInv'
<1>1. /\ TypeOK /\ pc = "dfs" /\ pc' = "rest" /\ stack = <<>> /\ order' = Reverse(post)
      /\ todo' = Ids \ visited /\ UNCHANGED <<blocks, visited, post, err>> /\ Ids' = Ids
      /\ err = "none"
  BY DEF SearchDone, Ids, TypeInv, ShapeInv
<1>2. /\ visited = Reached(post) \cup Open /\ Distinct(post) /\ post # <<>>
      /\ Least(post[Len(post)], Ids) /\ post \in Seq(Ids) /\ Ids \subseteq Nat
  BY <1>1 DEF SearchInv, RootInv, TypeOK
<1>3. visited = Reached(post)
  <2>1. stack = <<>> /\ visited = Reached(post) \cup Open
    BY <1>1, <1>2
  <2>2. DOMAIN <<>> = {}
    OBVIOUS
  <2>3. Open = {}
    BY <2>1, <2>2 DEF Open, ExpandedAt
  <2> QED BY <2>1, <2>3
<1>4. PICK c : c = Len(post)
  OBVIOUS
<1>5. c \in Nat /\ c >= 1 /\ DOMAIN post = 1..c
  BY <1>2, <1>4
<1>6. EntryId = post[c] /\ EntryId \in visited
  <2>1. post[c] \in Ids /\ post[c] \in Reached(post)
    BY <1>2, <1>5 DEF Reached
  <2> QED BY <1>2, <1>3, <1>4, <2>1, EntryIsLeast
<1>7. \E e, v, p : SearchedOf(e, v, p)'
  <2>1. PICK e, v, p : e = EntryId /\ v = visited /\ p = post
    OBVIOUS
  <2>2. Tree(e, v, stack, p)
    BY <1>1, <2>1, TreeNow
  <2>3. SearchedOf(e, v, p)
    BY <1>3, <1>6, <2>1, <2>2 DEF SearchedOf, Searched, Tree
  <2> QED BY <1>1, <2>3, SearchedKept
<1>8. Laid(c, c)'
  <2>1. /\ Distinct(order') /\ Reached(order') = Reached(post)
    BY <1>1, <1>2, ReverseFacts
  <2>2. DOMAIN order' = 1..c /\ \A n \in 1..c : order'[n] = post[c + 1 - n]
    <3>1. order' = [n \in 1..c |-> post[c - n + 1]]
      BY <1>1, <1>4 DEF Reverse
    <3>2. \A n \in 1..c : c - n + 1 = c + 1 - n
      BY <1>5
    <3> QED BY <3>1, <3>2
  <2>3. Reached(post) \subseteq Ids
    BY <1>2 DEF Reached
  <2>4. (c + 1)..c = {}
    BY <1>5
  <2>5. Reached(order') = Ids' \ todo'
    BY <1>1, <1>3, <2>1, <2>3
  <2> QED BY <1>1, <1>5, <2>1, <2>2, <2>4, <2>5 DEF Laid
<1> QED BY <1>1, <1>5, <1>7, <1>8 DEF OrderInv

(* A block that was not visited follows the lower ones. *)
LEMMA OrderAppend ==
  ASSUME TypeInv, ShapeInv, OrderInv, Insts # <<>>, NEW b \in Ids, AppendUnreachable(b)
  PROVE  OrderInv'
<1>1. /\ TypeOK /\ pc = "rest" /\ pc' = "rest" /\ order' = Append(order, b)
      /\ todo' = todo \ {b} /\ b \in todo /\ \A d \in todo : b <= d
      /\ UNCHANGED <<blocks, visited, post, err>> /\ Ids' = Ids
      /\ err = "none" /\ Ids \subseteq Nat /\ todo \subseteq Ids /\ order \in Seq(Ids)
  BY DEF AppendUnreachable, Least, Ids, TypeInv, ShapeInv, TypeOK
<1>2. PICK c \in Nat, l \in Nat : Laid(c, l)
  BY <1>1 DEF OrderInv, Ordering
<1>3. PICK n : n = l + 1
  OBVIOUS
<1>4. l = Len(order)
  <2>1. DOMAIN order = 1..l
    BY <1>2 DEF Laid
  <2> QED BY <1>1, <1>2, <2>1
<1>5. /\ DOMAIN order' = 1..n /\ order'[n] = b
      /\ \A j \in 1..l : order'[j] = order[j]
  BY <1>1, <1>3, <1>4, AppendFacts
<1>6. Laid(c, n)'
  <2>0. /\ DOMAIN post = 1..c /\ DOMAIN order = 1..l /\ c <= l
        /\ \A j \in 1..c : order[j] = post[c + 1 - j]
        /\ \A i, j \in (c + 1)..l : i < j => order[i] < order[j]
        /\ \A j \in (c + 1)..l : \A d \in todo : order[j] < d
        /\ Distinct(order) /\ Reached(order) = Ids \ todo
    BY <1>2 DEF Laid
  <2>1. \A j \in (c + 1)..n : j = n \/ j \in (c + 1)..l
    BY <1>2, <1>3
  <2>2. /\ n \in Nat /\ c <= n /\ \A j \in (c + 1)..l : j \in 1..l
        /\ \A j \in 1..c : j \in 1..l
    BY <1>2, <1>3, <2>0
  <2>3. \A j \in 1..c : order'[j] = post'[c + 1 - j]
    BY <1>1, <1>5, <2>0, <2>2
  <2>4. ASSUME NEW i \in (c + 1)..n, NEW j \in (c + 1)..n, i < j PROVE order'[i] < order'[j]
    <3>1. i \in (c + 1)..l
      BY <1>2, <1>3, <2>4
    <3>2. CASE j \in (c + 1)..l
      BY <1>5, <2>0, <2>2, <2>4, <3>1, <3>2
    <3>3. CASE j = n
      <4>1. order[i] < b
        BY <1>1, <2>0, <3>1
      <4> QED BY <1>5, <2>2, <3>1, <3>3, <4>1
    <3> QED BY <2>1, <3>2, <3>3
  <2>5. ASSUME NEW j \in (c + 1)..n, NEW d \in todo \ {b} PROVE order'[j] < d
    <3>1. CASE j \in (c + 1)..l
      BY <1>5, <2>0, <2>2, <3>1
    <3>2. CASE j = n
      <4>1. b \in Nat /\ d \in Nat /\ b <= d /\ b # d
        BY <1>1
      <4> QED BY <1>5, <3>2, <4>1
    <3> QED BY <2>1, <3>1, <3>2
  <2>6. Distinct(order') /\ Reached(order') = Reached(order) \cup {b}
    <3>1. b \notin Reached(order)
      BY <1>1, <2>0
    <3> QED BY <1>1, <2>0, <3>1, AppendDistinct, AppendReached
  <2>7. Reached(order') = Ids' \ todo'
    BY <1>1, <2>0, <2>6
  <2> QED BY <1>1, <1>5, <2>0, <2>2, <2>3, <2>4, <2>5, <2>6, <2>7 DEF Laid
<1>7. PICK e, v, p : SearchedOf(e, v, p)
  BY <1>1 DEF OrderInv, Ordering
<1>8. SearchedOf(e, v, p)'
  BY <1>1, <1>7, SearchedKept
<1>9. n \in Nat
  BY <1>2, <1>3
<1> QED BY <1>1, <1>2, <1>6, <1>8, <1>9 DEF OrderInv

(* The order and the search stay as they are. *)
LEMMA OrderKept ==
  ASSUME OrderInv, Ordering, Insts # <<>>, UNCHANGED <<blocks, visited, post, order, todo>>,
         pc' # "rest" => todo = {},
         err' = "InvalidExceptionLayout" => \E b \in Ids : CatchMisplaced(b)
  PROVE  OrderInv'
<1>1. PICK e, v, p : SearchedOf(e, v, p)
  BY DEF OrderInv
<1>2. SearchedOf(e, v, p)'
  BY <1>1, SearchedKept
<1>3. PICK c \in Nat, l \in Nat : Laid(c, l)
  BY DEF OrderInv
<1>4. Ids' = Ids
  BY DEF Ids
<1>5. Laid(c, l)'
  BY <1>3, <1>4 DEF Laid, Distinct, Reached
<1>6. ASSUME NEW b \in Ids, CatchMisplaced(b) PROVE CatchMisplaced(b)'
  BY <1>6 DEF CatchMisplaced, Pos
<1> QED BY <1>2, <1>4, <1>5, <1>6 DEF OrderInv

LEMMA OrderStep ==
  TypeInv /\ ShapeInv /\ SearchInv /\ TreeInv /\ OrderInv /\ [Next]_vars => OrderInv'
<1> SUFFICES ASSUME TypeInv, ShapeInv, SearchInv, TreeInv, OrderInv, [Next]_vars,
                    Insts' # <<>>, Ordering'
             PROVE  OrderInv'
  BY DEF OrderInv
<1>1. CASE UNCHANGED vars
  <2>1. UNCHANGED <<prog, pc, err, blocks, visited, post, order, todo>>
    BY <1>1 DEF vars, dfs_vars
  <2>2. Ordering /\ Insts # <<>>
    BY <2>1 DEF Ordering, Insts
  <2> QED BY <2>1, <2>2, OrderKept DEF OrderInv
<1>2. CASE Next /\ pc \in {"boundaries", "split"}
  <2>1. CASE EmptyFunction
    BY <2>1 DEF EmptyFunction, Insts
  <2>2. CASE FindBoundaries \/ Split \/ CloseLastBlock
    BY <2>2 DEF FindBoundaries, Split, CloseLastBlock, Fail, Ordering, ShapeInv
  <2> QED BY <1>2, <2>1, <2>2, PhaseActions
<1>3. CASE Next /\ pc \notin {"boundaries", "split"}
  <2>1. LateKept
    BY <1>3, LateSteps
  <2>2. Insts # <<>>
    BY <2>1 DEF LateKept
  <2>3. CASE pc \in {"edges", "cases", "link", "handlers"}
    <3>1. err = "none"
      BY <2>3 DEF ShapeInv
    <3>2. err' # "InvalidExceptionLayout"
      BY <1>3, <2>3, <3>1, PhaseActions
         DEF Edges, PushCase, CloseSwitch, EdgesDone, Link, LinkDone, MapHandler, StartSearch,
             Fail
    <3> QED BY <1>3, <2>3, <3>2, PhaseOrder DEF Ordering
  <2>4. CASE pc = "dfs"
    <3>1. ~SearchDone => pc' = "dfs" /\ err' = "none"
      BY <1>3, <2>4, PhaseActions DEF Finish, Skip, Expand, PushSuccessor, ShapeInv
    <3>2. SearchDone
      BY <3>1 DEF Ordering
    <3> QED BY <3>2, OrderDone
  <2>5. CASE pc = "rest"
    <3>1. CASE CheckLayout
      <4>1. /\ UNCHANGED <<blocks, visited, post, order, todo>> /\ todo = {} /\ err = "none"
            /\ err' = "InvalidExceptionLayout" => \E b \in Ids : CatchMisplaced(b)
        BY <2>5, <3>1 DEF CheckLayout, Fail, dfs_vars, ShapeInv
      <4> QED BY <2>2, <2>5, <4>1, OrderKept DEF Ordering
    <3>2. CASE \E b \in Ids : AppendUnreachable(b)
      BY <2>2, <3>2, OrderAppend
    <3> QED BY <1>3, <2>5, <3>1, <3>2, PhaseActions
  <2>6. CASE pc \in {"done", "err"}
    <3>1. UNCHANGED vars
      BY <1>3, <2>6, PhaseOrder
    <3> QED BY <1>1, <3>1
  <2> QED BY <1>3, <2>3, <2>4, <2>5, <2>6 DEF TypeInv, TypeOK, Phases
<1> QED BY <1>1, <1>2, <1>3

(* Where a block stands in the order. *)
LEMMA Position ==
  ASSUME Distinct(order), NEW n \in DOMAIN order
  PROVE  Pos(order[n]) = n
<1>1. \A m \in DOMAIN order : order[m] = order[n] => m = n
  BY DEF Distinct
<1> QED BY <1>1 DEF Pos

(* What normal flow reaches from the entry is what the search visited. *)
LEMMA ReachedIsVisited ==
  ASSUME TypeInv, ShapeInv, OrderInv, Cut, Ordering
  PROVE  ReachableFrom(EntryId) = visited
<1>1. /\ visited = Reached(post) /\ EntryId \in visited
      /\ FinishedAfter(post, visited) /\ \A x \in visited : Flows(EntryId, x)
  BY DEF OrderInv, Cut, SearchedOf, Searched
<1>2. EntryId \in Ids
  BY <1>1 DEF TypeInv, TypeOK
<1>3. IsFiniteSet(Ids) /\ \A a \in Ids : Reached(blocks[a].succ) \subseteq Ids
  <2>1. pc # "split"
    BY DEF Ordering, ShapeInv
  <2> QED BY <2>1, FiniteGraph
<1>4. \A a : a \in ReachableFrom(EntryId) <=> Flows(EntryId, a)
  BY <1>2, <1>3, ReachableIff
<1>5. Closed(visited)
  <2> SUFFICES ASSUME NEW a \in visited PROVE Reached(blocks[a].succ) \subseteq visited
    BY DEF Closed
  <2>1. PICK i \in DOMAIN post : a = post[i]
    BY <1>1 DEF Reached
  <2> QED BY <1>1, <2>1 DEF FinishedAfter
<1>6. \A a : Flows(EntryId, a) => a \in visited
  BY <1>1, <1>5 DEF Flows
<1> QED BY <1>1, <1>4, <1>6

LEMMA BackwardIsLoop ==
  ASSUME TypeInv, ShapeInv, OrderInv, EmptyInv
  PROVE  BackwardEdgesAreLoops
<1> SUFFICES ASSUME pc = "done", NEW a \in ReachableFrom(EntryId),
                    NEW b \in Reached(blocks[a].succ), Pos(b) <= Pos(a)
             PROVE  a \in ReachableFrom(b)
  BY DEF BackwardEdgesAreLoops
<1>1. CASE Insts = <<>>
  <2>1. Ids = {0} /\ blocks[0].succ = <<>>
    BY <1>1 DEF EmptyInv, Block
  <2>2. Reached(blocks[0].succ) = {}
    BY <2>1 DEF Reached
  <2>3. EntryId = 0
    <3>1. Least(0, {0})
      BY DEF Least
    <3> QED BY <2>1, <3>1 DEF EntryId, Least
  <2>4. IsFiniteSet(Ids) /\ 0 \in Ids /\ \A c \in Ids : Reached(blocks[c].succ) \subseteq Ids
    BY <2>1, <2>2, FS_Singleton
  <2>5. Flows(0, a)
    BY <2>3, <2>4, ReachableIff
  <2>6. a = 0
    <3>1. Closed({0})
      BY <2>2 DEF Closed
    <3> QED BY <2>5, <3>1 DEF Flows
  <2> QED BY <2>2, <2>6
<1>2. CASE Insts # <<>>
  <2>1. Ordering /\ Cut
    BY <1>2 DEF Ordering, Cut, ShapeInv
  <2>2. ReachableFrom(EntryId) = visited
    BY <2>1, ReachedIsVisited
  <2>3. /\ visited = Reached(post) /\ FinishedAfter(post, visited)
    BY <1>2, <2>1 DEF OrderInv, SearchedOf, Searched
  <2>4. PICK c \in Nat, l \in Nat : Laid(c, l)
    BY <1>2, <2>1 DEF OrderInv
  <2>5. /\ DOMAIN post = 1..c /\ DOMAIN order = 1..l /\ c <= l /\ Distinct(order)
        /\ \A n \in 1..c : order[n] = post[c + 1 - n]
    BY <2>4 DEF Laid
  <2>6. PICK i \in 1..c : a = post[i]
    BY <2>2, <2>3, <2>5 DEF Reached
  <2>7. \A j \in 1..c : Pos(post[j]) = c + 1 - j
    <3> SUFFICES ASSUME NEW j \in 1..c PROVE Pos(post[j]) = c + 1 - j
      OBVIOUS
    <3>1. PICK n : n = c + 1 - j
      OBVIOUS
    <3>2. n \in 1..c /\ n \in DOMAIN order /\ c + 1 - n = j
      BY <2>5, <3>1
    <3>3. order[n] = post[j]
      BY <2>5, <3>2
    <3> QED BY <2>5, <3>1, <3>2, <3>3, Position
  <2>8. b \in visited /\ ((\E j \in 1..c : j < i /\ post[j] = b) \/ Flows(b, a))
    BY <2>3, <2>5, <2>6 DEF FinishedAfter
  <2>9. ASSUME NEW j \in 1..c, j < i, post[j] = b PROVE FALSE
    <3>1. Pos(b) = c + 1 - j /\ Pos(a) = c + 1 - i
      BY <2>6, <2>7, <2>9
    <3> QED BY <2>9, <3>1
  <2>10. Flows(b, a)
    BY <2>8, <2>9
  <2>11. /\ b \in Ids /\ IsFiniteSet(Ids)
         /\ \A d \in Ids : Reached(blocks[d].succ) \subseteq Ids
    BY <2>1, <2>8, FiniteGraph DEF TypeInv, TypeOK
  <2> QED BY <2>10, <2>11, ReachableIff
<1> QED BY <1>1, <1>2

(* In block_order only a loop goes backwards, for every program: SSA       *)
(* construction and the structurer may take an edge to an earlier block    *)
(* for a loop.  A block that is finished before its successor waits for it *)
(* on the stack, so the successor flows back to it.                        *)
THEOREM BackwardLoopsCorrect == Spec => []BackwardEdgesAreLoops
<1>1. TypeInv /\ ShapeInv /\ OrderInv /\ EmptyInv => BackwardEdgesAreLoops
  BY BackwardIsLoop
<1> QED BY <1>1, TypeInit, TypeStep, ShapeInit, ShapeStep, EmptyInit, EmptyStep, SearchInit,
           SearchStep, TreeInit, TreeStep, OrderInit, OrderStep, PTL DEF Spec

LEMMA LayoutAccepted ==
  ASSUME TypeInv, ShapeInv, HandlerInv, OrderInv, EmptyInv
  PROVE  WellFormedLayoutAccepted
<1> SUFFICES ASSUME pc = "err", err = "InvalidExceptionLayout",
                    \A h \in Reached(prog.handlers) :
                      ~(h.end > h.target) /\ h.target \notin ReachableFrom(EntryId)
             PROVE  FALSE
  BY DEF WellFormedLayoutAccepted
<1>1. Insts # <<>> /\ Ordering /\ Cut /\ pc # "split" /\ prog \in Programs /\ TypeOK
  BY DEF EmptyInv, Ordering, Cut, TypeInv
<1>2. PICK b \in Ids : CatchMisplaced(b)
  BY <1>1 DEF OrderInv
<1>3. PICK N : N = Len(prog.handlers)
  OBVIOUS
<1>4. N \in Nat /\ Mapped(N)
  BY <1>1, <1>3, ProgramFacts DEF HandlerInv
<1>5. PICK m \in 0..N : CaughtBy(b, m, N)
  BY <1>4 DEF Mapped
<1>6. m # 0
  BY <1>2, <1>5 DEF CaughtBy, CatchMisplaced
<1>7. PICK h : h = prog.handlers[m]
  OBVIOUS
<1>8. PICK c : c = h.target
  OBVIOUS
<1>9. m \in 1..N /\ c \in Ids /\ Covers(h, blocks[b]) /\ blocks[b].exc = c
  <2>1. m \in 1..N
    BY <1>4, <1>6
  <2> QED BY <1>4, <1>5, <1>6, <1>7, <1>8, <2>1 DEF Mapped, CaughtBy
<1>10. h \in Handler /\ h \in Reached(prog.handlers)
  <2>1. prog.handlers \in Seq(Handler)
    BY <1>1, ProgramsAssumption
  <2>2. m \in 1..Len(prog.handlers)
    BY <1>3, <1>9
  <2>3. DOMAIN prog.handlers = 1..Len(prog.handlers)
    BY <2>1
  <2> QED BY <1>7, <2>1, <2>2, <2>3, ElementTyped DEF Reached
<1>11. b < c
  <2>1. PICK i, j \in DOMAIN Insts : IsBlock(b, i, j)
    BY <1>1 DEF ShapeInv
  <2>2. blocks[b].end = Past(j) /\ b = Off(i) /\ i <= j
    BY <2>1 DEF IsBlock
  <2>3. b \in Nat /\ Past(j) \in Nat /\ b < Past(j)
    <3>1. Off(i) <= Off(j) /\ Off(j) < Past(j)
      BY <1>1, <2>2, OffsetFacts
    <3>2. Off(i) \in Nat /\ Off(j) \in Nat /\ Past(j) \in Nat
      BY <1>1, OffsetFacts
    <3> QED BY <2>2, <3>1, <3>2
  <2>4. blocks[b].end <= h.end
    BY <1>9 DEF Covers
  <2>5. h.end \in Nat /\ c \in Nat
    BY <1>8, <1>10 DEF Handler
  <2>6. ~(h.end > c)
    BY <1>8, <1>10
  <2> QED BY <2>2, <2>3, <2>4, <2>5, <2>6
<1>12. c \notin visited
  BY <1>1, <1>8, <1>10, ReachedIsVisited
<1>13. PICK w \in Nat, l \in Nat : Laid(w, l)
  BY <1>1 DEF OrderInv
<1>14. /\ DOMAIN post = 1..w /\ DOMAIN order = 1..l /\ w <= l /\ Distinct(order)
       /\ \A n \in 1..w : order[n] = post[w + 1 - n]
       /\ \A p, q \in (w + 1)..l : p < q => order[p] < order[q]
       /\ Reached(order) = Ids
  BY <1>1, <1>13 DEF Laid, OrderInv
<1>15. PICK p, q \in 1..l : order[p] = b /\ order[q] = c
  BY <1>9, <1>14 DEF Reached
<1>16. p >= q
  <2>1. Pos(b) = p /\ Pos(c) = q
    BY <1>14, <1>15, Position
  <2> QED BY <1>2, <1>9, <2>1 DEF CatchMisplaced
<1>17. q > w
  <2> SUFFICES ASSUME q \in 1..w PROVE FALSE
    BY <1>13, <1>15
  <2>1. c = post[w + 1 - q] /\ w + 1 - q \in DOMAIN post
    BY <1>13, <1>14, <1>15
  <2>2. visited = Reached(post)
    BY <1>1 DEF OrderInv, SearchedOf, Searched
  <2> QED BY <1>12, <2>1, <2>2 DEF Reached
<1>18. b \in Nat /\ c \in Nat
  BY <1>1, <1>9 DEF TypeOK
<1>19. p # q
  BY <1>11, <1>15, <1>18
<1>20. p \in (w + 1)..l /\ q \in (w + 1)..l /\ q < p
  BY <1>13, <1>15, <1>16, <1>17, <1>19
<1>21. order[q] < order[p]
  BY <1>14, <1>20
<1> QED BY <1>11, <1>15, <1>18, <1>21

(* A function whose catch blocks lie after the ranges they protect and are *)
(* not part of normal flow is never rejected with InvalidExceptionLayout,  *)
(* for every program: the unvisited blocks keep their address order.       *)
THEOREM LayoutAcceptedCorrect == Spec => []WellFormedLayoutAccepted
<1>1. TypeInv /\ ShapeInv /\ HandlerInv /\ OrderInv /\ EmptyInv => WellFormedLayoutAccepted
  BY LayoutAccepted
<1> QED BY <1>1, TypeInit, TypeStep, ShapeInit, ShapeStep, HandlerInit, HandlerStep,
           EmptyInit, EmptyStep, SearchInit, SearchStep, TreeInit, TreeStep, OrderInit,
           OrderStep, PTL DEF Spec

=============================================================================
