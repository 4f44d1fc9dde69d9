------------------------------ MODULE CfgProofs ------------------------------
(***************************************************************************)
(* Proofs about Cfg::build for every set of programs.                      *)
(***************************************************************************)
EXTENDS CfgProps, FiniteSetTheorems, TLAPS

-----------------------------------------------------------------------------
(* Facts about sequences, tables and the input.                            *)

LEMMA SeqMono ==
  ASSUME NEW S, NEW T, S \subseteq T, NEW s \in Seq(S)
  PROVE  s \in Seq(T)
OBVIOUS

LEMMA ConcatTyped ==
  ASSUME NEW S, NEW s \in Seq(S), NEW t \in Seq(S)
  PROVE  s \o t \in Seq(S)
OBVIOUS

LEMMA AppendTyped ==
  ASSUME NEW S, NEW s \in Seq(S), NEW x \in S
  PROVE  Append(s, x) \in Seq(S)
OBVIOUS

LEMMA ElementTyped ==
  ASSUME NEW S, NEW s \in Seq(S), NEW n \in 1..Len(s)
  PROVE  s[n] \in S
OBVIOUS

LEMMA AppendFacts ==
  ASSUME NEW S, NEW s \in Seq(S), NEW x \in S
  PROVE  /\ Len(Append(s, x)) = Len(s) + 1 /\ DOMAIN Append(s, x) = 1..(Len(s) + 1)
         /\ \A n \in 1..Len(s) : Append(s, x)[n] = s[n]
         /\ Append(s, x)[Len(s) + 1] = x
         /\ Append(s, x) # <<>> /\ Len(s) \in Nat /\ DOMAIN s = 1..Len(s)
OBVIOUS

LEMMA FrontLast ==
  ASSUME NEW S, NEW s \in Seq(S), s # <<>>
  PROVE  /\ Len(s) \in Nat \ {0} /\ s[Len(s)] \in S
         /\ SubSeq(s, 1, Len(s) - 1) \in Seq(S)
         /\ Len(SubSeq(s, 1, Len(s) - 1)) = Len(s) - 1
         /\ \A n \in 1..(Len(s) - 1) : SubSeq(s, 1, Len(s) - 1)[n] = s[n]
<1>1. Len(s) \in Nat \ {0}
  OBVIOUS
<1>2. s[Len(s)] \in S
  BY <1>1
<1>3. \A n \in 1..(Len(s) - 1) : s[n] \in S
  BY <1>1
<1> DEFINE front == SubSeq(s, 1, Len(s) - 1)
<1>4. front = [n \in 1..(Len(s) - 1) |-> s[n]]
  BY <1>1
<1>5. front \in Seq(S) /\ Len(front) = Len(s) - 1
  <2> HIDE DEF front
  <2> QED BY <1>1, <1>3, <1>4
<1> QED BY <1>1, <1>2, <1>4, <1>5

(* The entries of a table are entries of the buffer: no read past its end. *)
LEMMA EntriesTyped ==
  ASSUME NEW i, NEW code, NEW first \in Nat,
         i.cnt \in Int, code.len \in Nat,
         code.at \in [0..(code.len - 1) -> TableEntry]
  PROVE  EntriesFrom(i, code, first) \in Seq(TableEntry)
<1>0. CaseCap \in Nat /\ UsizeMax \in Nat
  BY WidthAssumption
<1> DEFINE limit == IF code.len <= UsizeMax THEN code.len ELSE UsizeMax
           W == EntryWidth(i)
           R == ReadableEntries(i, code, first)
           n == IF EntryCount(i) <= R THEN EntryCount(i) ELSE R
<1>1. W \in {4, 8}
  BY DEF EntryWidth
<1>2. limit \in Nat /\ limit <= code.len
  BY <1>0
<1>3. R \in Nat /\ (R > 0 => first + R * W <= limit)
  <2>1. CASE first > limit
    BY <1>2, <2>1 DEF ReadableEntries
  <2>2. CASE first <= limit
    <3>1. R = (limit - first) \div W
      BY <1>2, <2>2 DEF ReadableEntries
    <3>2. CASE W = 4
      BY <1>2, <2>2, <3>1, <3>2
    <3>3. CASE W = 8
      BY <1>2, <2>2, <3>1, <3>3
    <3> QED BY <1>1, <3>2, <3>3
  <2> QED BY <1>2, <2>1, <2>2
<1>4. EntryCount(i) \in Nat
  BY <1>0 DEF EntryCount
<1>5. n \in Nat /\ n <= R
  BY <1>3, <1>4
<1>6. ASSUME NEW j \in 1..n
      PROVE  code.at[first + (j - 1) * W] \in TableEntry
  <2>1. first + (j - 1) * W \in 0..(code.len - 1)
    <3>1. CASE W = 4
      BY <1>2, <1>3, <1>5, <3>1
    <3>2. CASE W = 8
      BY <1>2, <1>3, <1>5, <3>2
    <3> QED BY <1>1, <3>1, <3>2
  <2> QED BY <2>1
<1>7. EntriesFrom(i, code, first) = [j \in 1..n |-> code.at[first + (j - 1) * W]]
  BY DEF EntriesFrom
<1> HIDE DEF n, W
<1> QED BY <1>5, <1>6, <1>7

LEMMA CountTyped ==
  ASSUME NEW S, NEW s \in Seq(S), NEW x
  PROVE  Count(s, x) \in Nat
<1>1. IsFiniteSet(1..Len(s))
  BY FS_Interval
<1>2. IsFiniteSet({n \in DOMAIN s : s[n] = x})
  BY <1>1, FS_Subset
<1> QED BY <1>2, FS_CardinalityType DEF Count

-----------------------------------------------------------------------------
(* Type correctness.                                                       *)

(* A block that has its last instruction: LastInst is one of Insts. *)
HasLast(S) == \E m \in S : \A n \in S : n <= m

(* Splitting needs to know that no instruction ends past u32::MAX, which   *)
(* FindBoundaries has checked, and where it stands; reading a jump table   *)
(* needs that the block has a last instruction.                            *)
TypeInv ==
  /\ TypeOK
  /\ prog \in Programs
  /\ pc = "boundaries" => k = 1 /\ cur = {} /\ Ids = {}
  /\ pc = "split" =>
       /\ \A n \in DOMAIN Insts : NextOffset(Insts[n]) # None
       /\ Len(Insts) > 0 /\ k \in 1..(Len(Insts) + 1)
       /\ cur \subseteq 1..(k - 1)
       /\ IF k = 1 THEN cur = {} ELSE k - 1 \in cur
  /\ pc # "done" => \A b \in Ids : HasLast(blocks[b].insts)
  /\ pc = "cases" => k >= 1
  /\ pc = "dfs" /\ k > 0 => bid \in Ids /\ k <= Len(blocks[bid].succ)

LEMMA ProgramFacts ==
  ASSUME prog \in Programs
  PROVE  /\ Insts \in Seq(Insn) /\ Tiled(Insts)
         /\ prog.handlers \in Seq(Handler)
         /\ prog.code.len \in Nat
         /\ prog.code.at \in [0..(prog.code.len - 1) -> TableEntry]
BY ProgramsAssumption DEF Insts

LEMMA InsnFacts ==
  ASSUME prog \in Programs, NEW n \in DOMAIN Insts
  PROVE  /\ Insts[n].off \in Nat /\ Insts[n].size \in Nat \ {0}
         /\ Insts[n].rel \in Int /\ Insts[n].tab \in Nat /\ Insts[n].cnt \in Int
         /\ Insts[n].off + Insts[n].size \in Nat
         /\ NextOffset(Insts[n]) # None => NextOffset(Insts[n]) \in Nat
<1>1. Insts[n] \in Insn
  BY ProgramFacts
<1> QED BY <1>1, WidthAssumption DEF Insn, NextOffset, None

(* Every address a boundary comes from is None or an offset. *)
LEMMA BoundariesTyped ==
  ASSUME prog \in Programs
  PROVE  /\ HandlerBoundaries \subseteq Nat
         /\ \A i \in Reached(Insts) : BoundariesOf(i) \subseteq Nat
<1>1. HandlerBoundaries \subseteq Nat
  <2>1. prog.handlers \in Seq(Handler)
    BY ProgramFacts
  <2>2. \A n \in DOMAIN prog.handlers : prog.handlers[n] \in Handler
    BY <2>1
  <2>3. \A h \in Reached(prog.handlers) : h.start \in Nat /\ h.end \in Nat /\ h.target \in Nat
    BY <2>2 DEF Reached, Handler
  <2> QED BY <2>3 DEF HandlerBoundaries
<1>2. \A a, r : SignedTarget(a, r) \in Nat \cup {None}
  BY WidthAssumption DEF SignedTarget, None
<1>3. ASSUME NEW i \in Reached(Insts)
      PROVE  BoundariesOf(i) \subseteq Nat
  <2>1. BranchTarget(i) \in Nat \cup {None}
    BY <1>2 DEF BranchTarget
  <2>2. NextOffset(i) \in Nat \cup {None}
    BY InsnFacts, <1>3 DEF Reached, None, NextOffset
  <2> QED BY <1>2, <2>1, <2>2 DEF BoundariesOf
<1> QED BY <1>1, <1>3

LEMMA PresentTyped == \A t : Present(t) \in Seq(Ids)
BY DEF Present

LEMMA SuccessorsTyped == \A b : Successors(b) \in Seq(Ids)
<1>1. ASSUME NEW b PROVE NextBlock(b) \in Seq(Ids)
  BY DEF NextBlock
<1> QED BY <1>1, PresentTyped, ConcatTyped DEF Successors

(* Blocks stay well typed as the set of ids grows. *)
LEMMA BlockRecordMono ==
  ASSUME NEW r \in BlockRecord, prog' = prog, Ids \subseteq Ids'
  PROVE  r \in BlockRecord'
<1>1. r.succ \in Seq(Ids') /\ r.pred \in Seq(Ids')
  BY SeqMono DEF BlockRecord
<1> QED BY <1>1 DEF BlockRecord, Insts

LEMMA AddBlockTyped ==
  ASSUME TypeOK, prog' = prog, NEW past \in Nat, AddBlock(past), cur # {}
  PROVE  /\ Ids' = Ids \cup {start}
         /\ Ids' \subseteq Nat
         /\ blocks' \in [Ids' -> BlockRecord']
         /\ blocks'[start].insts = cur
         /\ \A b \in Ids' \ {start} : b \in Ids /\ blocks'[b] = blocks[b]
<1>1. Ids' = Ids \cup {start}
  BY DEF AddBlock, Ids
<1>2. ASSUME NEW b \in Ids', b # start
      PROVE  b \in Ids /\ blocks'[b] = blocks[b]
  BY <1>1, <1>2 DEF AddBlock
<1>3. blocks'[start] = Block(start, past, cur)
  BY DEF AddBlock
<1>4. Block(start, past, cur) \in BlockRecord'
  BY DEF TypeOK, Block, BlockRecord, Insts
<1>5. ASSUME NEW b \in Ids' PROVE blocks'[b] \in BlockRecord'
  <2>1. CASE b = start
    BY <1>3, <1>4, <2>1
  <2>2. CASE b # start
    BY <1>1, <1>2, <2>2, BlockRecordMono DEF TypeOK
  <2> QED BY <2>1, <2>2
<1>6. blocks' = [b \in Ids' |-> blocks'[b]]
  BY <1>1 DEF AddBlock, Ids
<1>7. blocks' \in [Ids' -> BlockRecord']
  BY <1>5, <1>6
<1>8. Ids' \subseteq Nat
  BY <1>1 DEF TypeOK
<1> QED BY <1>1, <1>2, <1>3, <1>7, <1>8 DEF Block

(* Everything else that ranges over ids follows the ids. *)
LEMMA GraphTyped ==
  ASSUME TypeOK, Ids \subseteq Ids', Ids' \subseteq Nat,
         UNCHANGED <<edge_vars, dfs_vars>>
  PROVE  /\ succs' \in Seq(Ids') /\ ids' \in Seq(Nat)
         /\ visited' \subseteq Ids'
         /\ stack' \in Seq([id : Ids', expanded : BOOLEAN])
         /\ post' \in Seq(Ids') /\ bid' \in Nat /\ order' \in Seq(Ids')
<1>1. [id : Ids, expanded : BOOLEAN] \subseteq [id : Ids', expanded : BOOLEAN]
  OBVIOUS
<1>2. stack \in Seq([id : Ids', expanded : BOOLEAN])
  BY <1>1, SeqMono DEF TypeOK
<1>3. succs \in Seq(Ids') /\ post \in Seq(Ids') /\ order \in Seq(Ids')
  BY SeqMono DEF TypeOK
<1> QED BY <1>2, <1>3 DEF TypeOK, edge_vars, dfs_vars

(* A step that keeps the set of blocks and their instructions. *)
SameBlocks ==
  /\ Ids' = Ids
  /\ \A b \in Ids : blocks'[b].insts = blocks[b].insts

LEMMA LastInstFacts ==
  ASSUME TypeInv, pc # "done", NEW b \in Ids
  PROVE  \E n \in DOMAIN Insts : LastInst(b) = Insts[n]
<1>1. blocks[b].insts \subseteq DOMAIN Insts
  BY DEF TypeInv, TypeOK, BlockRecord
<1>2. PICK m \in blocks[b].insts : \A n \in blocks[b].insts : n <= m
  BY DEF TypeInv, HasLast
<1>3. Max(blocks[b].insts) \in blocks[b].insts
  BY <1>1, <1>2, ProgramFacts DEF Max, TypeInv
<1> QED BY <1>1, <1>3 DEF LastInst

LEMMA CaseTableTyped ==
  ASSUME TypeInv, pc # "done", NEW b \in Ids
  PROVE  CaseTable(LastInst(b)) \in Seq(TableEntry)
<1>1. PICK n \in DOMAIN Insts : LastInst(b) = Insts[n]
  BY LastInstFacts
<1>2. Insts[n].cnt \in Int /\ Insts[n].off + Insts[n].tab \in Nat
  BY InsnFacts DEF TypeInv
<1>3. prog.code.len \in Nat /\ prog.code.at \in [0..(prog.code.len - 1) -> TableEntry]
  BY ProgramFacts DEF TypeInv
<1> QED BY <1>1, <1>2, <1>3, EntriesTyped DEF CaseTable

LEMMA TypeInit == Init => TypeInv
<1> SUFFICES ASSUME Init PROVE TypeInv
  OBVIOUS
<1>1. Ids = {} /\ blocks \in [Ids -> BlockRecord]
  BY DEF Init, Ids
<1> QED BY <1>1 DEF Init, TypeInv, TypeOK, Phases

(* A step that leaves the blocks alone. *)
LEMMA UnchangedBlocks ==
  ASSUME TypeInv, UNCHANGED <<prog, blocks>>
  PROVE  /\ Ids' = Ids /\ Insts' = Insts /\ BlockRecord' = BlockRecord
         /\ blocks' \in [Ids' -> BlockRecord'] /\ Ids' \subseteq Nat
         /\ pc # "done" => \A b \in Ids' : HasLast(blocks'[b].insts)
BY DEF TypeInv, TypeOK, Ids, Insts, BlockRecord

(* Finding the boundaries and splitting at them. *)
LEMMA TypeSplit ==
  ASSUME TypeInv,
         FindBoundaries \/ EmptyFunction \/ Split \/ CloseLastBlock
  PROVE  TypeInv'
<1>0. /\ Insts \in Seq(Insn) /\ prog \in Programs
      /\ Len(Insts) \in Nat /\ DOMAIN Insts = 1..Len(Insts)
  BY ProgramFacts DEF TypeInv
<1>1. CASE FindBoundaries
  <2>1. boundaries' \subseteq Nat
    <3> DEFINE B == UNION {BoundariesOf(i) : i \in Reached(Insts)}
    <3>1. boundaries' = boundaries \/ boundaries' = {0} \cup HandlerBoundaries \cup B
      BY <1>1 DEF FindBoundaries
    <3>2. boundaries \subseteq Nat
      BY DEF TypeInv, TypeOK
    <3>3. HandlerBoundaries \subseteq Nat /\ \A i \in Reached(Insts) : BoundariesOf(i) \subseteq Nat
      BY <1>0, BoundariesTyped
    <3>4. B \subseteq Nat
      BY <3>3
    <3>5. ({0} \cup HandlerBoundaries) \cup B \subseteq Nat
      <4> HIDE DEF B
      <4>1. HandlerBoundaries \subseteq Nat /\ {0} \subseteq Nat
        BY <3>3
      <4> QED BY <4>1, <3>4, Zenon
    <3> QED BY <3>1, <3>2, <3>5
  <2>2. pc' = "split" => \A n \in DOMAIN Insts : NextOffset(Insts[n]) # None
    BY <1>1 DEF FindBoundaries, Fail, Reached
  <2>3. Len(Insts) > 0
    BY <1>0, <1>1 DEF FindBoundaries
  <2>4. UNCHANGED <<prog, blocks, k, cur>> /\ k = 1 /\ cur = {} /\ pc # "done"
    BY <1>1 DEF FindBoundaries, TypeInv
  <2>5. pc' \in {"split", "err"} /\ err' \in {err, "ArithmeticOverflow"}
    BY <1>1 DEF FindBoundaries, Fail
  <2>6. UNCHANGED <<cur, start, todo, edge_vars, dfs_vars>>
    BY <1>1 DEF FindBoundaries
  <2>7. /\ Ids' = Ids /\ Insts' = Insts
        /\ blocks' \in [Ids' -> BlockRecord']
        /\ \A b \in Ids' : HasLast(blocks'[b].insts)
    BY <2>4, UnchangedBlocks
  <2>8. TypeOK'
    BY <2>1, <2>4, <2>5, <2>6, <2>7 DEF TypeInv, TypeOK, Phases, edge_vars, dfs_vars
  <2>9. Len(Insts) + 1 >= 1 /\ Len(Insts) \in Nat
    BY <1>0
  <2> QED BY <1>0, <2>2, <2>3, <2>4, <2>5, <2>7, <2>8, <2>9 DEF TypeInv
<1>2. CASE EmptyFunction
  <2>1. Ids = {} /\ Ids' = {0} /\ blocks'[0] = Block(0, 0, {})
    BY <1>2 DEF EmptyFunction, TypeInv, Ids
  <2>2. Block(0, 0, {}) \in BlockRecord'
    BY DEF Block, BlockRecord
  <2>3. blocks' \in [Ids' -> BlockRecord']
    <3>1. blocks' = [b \in {0} |-> Block(0, 0, {})]
      BY <1>2 DEF EmptyFunction
    <3> QED BY <2>1, <2>2, <3>1
  <2>4. order' \in Seq(Ids')
    BY <1>2, <2>1 DEF EmptyFunction
  <2>5. /\ succs' \in Seq(Ids') /\ post' \in Seq(Ids')
        /\ stack' \in Seq([id : Ids', expanded : BOOLEAN])
    <3>1. [id : Ids, expanded : BOOLEAN] \subseteq [id : Ids', expanded : BOOLEAN]
      BY <2>1
    <3> QED BY <1>2, <2>1, <3>1, SeqMono DEF TypeInv, TypeOK, EmptyFunction, edge_vars
  <2> QED BY <1>2, <2>1, <2>3, <2>4, <2>5
          DEF EmptyFunction, TypeInv, TypeOK, Phases, split_vars, edge_vars, Insts
<1>3. CASE Split
  <2> DEFINE o == Insts[k].off
  <2>1. /\ k \in DOMAIN Insts /\ o \in Nat /\ pc = "split" /\ UNCHANGED <<prog, pc>>
        /\ k' = k + 1 /\ k \in Nat
    <3>1. k \in Nat /\ k <= Len(Insts) /\ k \in 1..(Len(Insts) + 1)
      BY <1>0, <1>3 DEF Split, TypeInv, TypeOK
    <3>2. k \in DOMAIN Insts
      BY <1>0, <3>1
    <3> QED BY <1>0, <1>3, <3>1, <3>2, InsnFacts DEF Split
  <2>2. /\ cur' \subseteq 1..(k' - 1) /\ k \in cur' /\ k' \in 1..(Len(Insts) + 1)
        /\ start' \in Nat /\ cur' \subseteq DOMAIN Insts
    <3>1. cur \subseteq 1..(k - 1) /\ cur \subseteq DOMAIN Insts /\ start \in Nat
      BY <2>1 DEF TypeInv, TypeOK
    <3>2. cur' = {k} \/ cur' = cur \cup {k}
      BY <1>3 DEF Split
    <3>3. start' = o \/ start' = start
      BY <1>3 DEF Split
    <3> HIDE DEF o
    <3> QED BY <1>0, <2>1, <3>1, <3>2, <3>3
  <2>3. /\ Ids \subseteq Ids' /\ Ids' \subseteq Nat
        /\ blocks' \in [Ids' -> BlockRecord']
        /\ \A b \in Ids' : HasLast(blocks'[b].insts)
    <3>1. CASE o \in boundaries /\ cur # {}
      <4>1. AddBlock(o)
        BY <1>3, <3>1 DEF Split
      <4>2. HasLast(cur)
        BY <2>1, <3>1 DEF TypeInv, HasLast
      <4>3. \A b \in Ids : HasLast(blocks[b].insts)
        BY <2>1 DEF TypeInv
      <4> HIDE DEF o
      <4>4. TypeOK /\ prog' = prog /\ o \in Nat /\ cur # {}
        BY <2>1, <3>1 DEF TypeInv
      <4> QED BY <4>1, <4>2, <4>3, <4>4, AddBlockTyped
    <3>2. CASE ~(o \in boundaries /\ cur # {})
      BY <1>3, <2>1, <3>2, UnchangedBlocks DEF Split
    <3> QED BY <3>1, <3>2
  <2>4. UNCHANGED <<boundaries, todo, edge_vars, dfs_vars, err>>
    BY <1>3 DEF Split
  <2>6. /\ succs' \in Seq(Ids') /\ ids' \in Seq(Nat)
        /\ visited' \subseteq Ids'
        /\ stack' \in Seq([id : Ids', expanded : BOOLEAN])
        /\ post' \in Seq(Ids') /\ bid' \in Nat /\ order' \in Seq(Ids')
    BY <2>3, <2>4, GraphTyped DEF TypeInv
  <2>7. Insts' = Insts /\ k' # 1 /\ k' - 1 = k /\ k' \in Nat
    BY <1>0, <2>1 DEF Insts
  <2> HIDE DEF o
  <2>5. TypeOK'
    BY <2>1, <2>2, <2>3, <2>4, <2>6, <2>7 DEF TypeInv, TypeOK
  <2>8. pc' = "split" /\ prog' = prog
    BY <2>1
  <2>9. \A n \in DOMAIN Insts' : NextOffset(Insts'[n]) # None
    BY <2>1, <2>7 DEF TypeInv
  <2> QED BY <1>0, <2>2, <2>3, <2>5, <2>7, <2>8, <2>9 DEF TypeInv
<1>4. CASE CloseLastBlock
  <2>1. /\ pc = "split" /\ UNCHANGED prog /\ k = Len(Insts) + 1 /\ Len(Insts) \in Nat
        /\ Len(Insts) \in cur
    BY <1>0, <1>4 DEF CloseLastBlock, TypeInv
  <2> DEFINE past == NextOffset(Insts[Len(Insts)])
  <2>2. past \in Nat /\ AddBlock(past)
    BY <1>0, <1>4, <2>1, InsnFacts DEF CloseLastBlock, TypeInv
  <2>3. HasLast(cur)
    BY <2>1 DEF TypeInv, HasLast
  <2> HIDE DEF past
  <2>4. /\ Ids' = Ids \cup {start} /\ Ids' \subseteq Nat
        /\ blocks' \in [Ids' -> BlockRecord']
        /\ \A b \in Ids' : HasLast(blocks'[b].insts)
    BY <2>1, <2>2, <2>3, AddBlockTyped DEF TypeInv
  <2>5. /\ UNCHANGED <<k, split_vars, edge_vars, dfs_vars, err>> /\ pc' = "edges"
        /\ todo' = Ids'
    BY <1>4, <2>4 DEF CloseLastBlock
  <2>7. /\ succs' \in Seq(Ids') /\ ids' \in Seq(Nat)
        /\ visited' \subseteq Ids'
        /\ stack' \in Seq([id : Ids', expanded : BOOLEAN])
        /\ post' \in Seq(Ids') /\ bid' \in Nat /\ order' \in Seq(Ids')
    BY <2>4, <2>5, GraphTyped DEF TypeInv
  <2>6. TypeOK'
    BY <2>1, <2>4, <2>5, <2>7 DEF TypeInv, TypeOK, Insts, split_vars, Phases
  <2> QED BY <1>0, <2>1, <2>4, <2>5, <2>6 DEF TypeInv
<1> QED BY <1>1, <1>2, <1>3, <1>4

(* Past splitting, a step that keeps the ids keeps what ranges over them. *)
LEMMA TypeFromBlocks ==
  ASSUME TypeInv, pc \notin {"boundaries", "split", "done"},
         UNCHANGED <<prog, split_vars>>, Ids' = Ids,
         blocks' \in [Ids -> BlockRecord],
         \A b \in Ids : blocks'[b].insts = blocks[b].insts,
         pc' \in Phases \ {"boundaries", "split"}, k' \in Nat, todo' \subseteq Ids,
         succs' \in Seq(Ids), ids' \in Seq(Nat), visited' \subseteq Ids,
         stack' \in Seq([id : Ids, expanded : BOOLEAN]),
         post' \in Seq(Ids), bid' \in Nat, order' \in Seq(Ids),
         err' \in {"none", "ArithmeticOverflow", "InvalidExceptionHandlerTarget",
                  "InvalidExceptionLayout"},
         pc' = "dfs" /\ k' > 0 => bid' \in Ids /\ k' <= Len(blocks'[bid'].succ),
         pc' = "cases" => k' >= 1
  PROVE  TypeInv'
<1>1. Insts' = Insts /\ BlockRecord' = BlockRecord
  BY DEF Insts, BlockRecord
<1>2. \A b \in Ids' : HasLast(blocks'[b].insts)
  BY DEF TypeInv
<1>3. TypeOK'
  BY <1>1 DEF TypeInv, TypeOK, split_vars
<1> QED BY <1>2, <1>3 DEF TypeInv

(* Successors and predecessors, switch tables included. *)
LEMMA TypeEdges ==
  ASSUME TypeInv, NEW b \in Ids,
         Edges(b) \/ PushCase(b) \/ CloseSwitch(b) \/ Link(b)
  PROVE  TypeInv'
<1>0. TypeOK /\ b \in Nat /\ blocks[b] \in BlockRecord /\ k \in Nat
  BY DEF TypeInv, TypeOK
<1>1. CASE Edges(b)
  <2>1. ASSUME IsSwitch(LastInst(b)) PROVE TypeInv'
    <3>1. succs' \in Seq(Ids)
      BY <1>1, <2>1, PresentTyped DEF Edges
    <3>2. /\ ids' = <<>> /\ k' = 1 /\ pc' = "cases" /\ pc = "edges"
          /\ UNCHANGED <<blocks, todo, prog, split_vars, dfs_vars, err>>
      BY <1>1, <2>1 DEF Edges
    <3>3. Ids' = Ids
      BY <3>2 DEF Ids
    <3> QED BY <1>0, <3>1, <3>2, <3>3, TypeFromBlocks DEF TypeOK, Phases, dfs_vars
  <2>2. ASSUME ~IsSwitch(LastInst(b)) PROVE TypeInv'
    <3>1. /\ blocks' = [blocks EXCEPT ![b].succ = Successors(b)]
          /\ todo' = todo \ {b} /\ pc = "edges"
          /\ UNCHANGED <<pc, k, edge_vars, prog, split_vars, dfs_vars, err>>
      BY <1>1, <2>2 DEF Edges
    <3>2. Successors(b) \in Seq(Ids)
      BY SuccessorsTyped
    <3>3. Ids' = Ids /\ blocks' \in [Ids -> BlockRecord]
      BY <1>0, <3>1, <3>2 DEF TypeOK, Ids, BlockRecord
    <3>4. \A c \in Ids : blocks'[c].insts = blocks[c].insts
      BY <1>0, <3>1 DEF TypeOK, BlockRecord
    <3> QED BY <1>0, <3>1, <3>3, <3>4, TypeFromBlocks
            DEF TypeOK, Phases, dfs_vars, edge_vars
  <2> QED BY <2>1, <2>2
<1>2. CASE PushCase(b)
  <2> DEFINE entry == CaseTable(LastInst(b))[k]
             t == SignedTarget(LastInst(b).off, entry.rel)
  <2>1. /\ pc = "cases" /\ k' = k + 1
        /\ ids' = ids \/ ids' = Append(ids, entry.id)
        /\ succs' = succs \/ (t \in Ids /\ succs' = Append(succs, t))
        /\ UNCHANGED <<prog, pc, split_vars, blocks, todo, dfs_vars, err>>
    BY <1>2 DEF PushCase
  <2>2. CaseTable(LastInst(b)) \in Seq(TableEntry)
    BY <2>1, CaseTableTyped
  <2>3. ids' \in Seq(Nat)
    <3>1. k \in 1..Len(CaseTable(LastInst(b)))
      BY <1>0, <1>2, <2>1, <2>2 DEF PushCase, TypeInv
    <3>2. entry \in TableEntry
      BY <2>2, <3>1
    <3>3. entry.id \in Nat /\ ids \in Seq(Nat)
      BY <1>0, <3>2 DEF TableEntry, TypeOK
    <3> HIDE DEF entry
    <3> QED BY <2>1, <3>3
  <2>4. succs' \in Seq(Ids)
    <3>1. succs \in Seq(Ids)
      BY <1>0 DEF TypeOK
    <3> HIDE DEF t
    <3> QED BY <2>1, <3>1
  <2>5. Ids' = Ids /\ k' \in Nat
    BY <1>0, <2>1 DEF Ids
  <2> HIDE DEF entry, t
  <2> QED BY <1>0, <2>1, <2>3, <2>4, <2>5, TypeFromBlocks DEF TypeOK, Phases, dfs_vars
<1>3. CASE CloseSwitch(b)
  <2>1. /\ blocks' = [blocks EXCEPT ![b].succ = succs, ![b].ids = ids]
        /\ todo' = todo \ {b} /\ pc = "cases" /\ pc' = "edges"
        /\ UNCHANGED <<prog, k, split_vars, edge_vars, dfs_vars, err>>
    BY <1>3 DEF CloseSwitch
  <2>2. Ids' = Ids /\ blocks' \in [Ids -> BlockRecord]
    BY <1>0, <2>1 DEF TypeOK, Ids, BlockRecord
  <2>3. \A c \in Ids : blocks'[c].insts = blocks[c].insts
    BY <1>0, <2>1 DEF TypeOK, BlockRecord
  <2> QED BY <1>0, <2>1, <2>2, <2>3, TypeFromBlocks DEF TypeOK, Phases, dfs_vars, edge_vars
<1>4. CASE Link(b)
  <2> DEFINE more(t) == [n \in 1..Count(blocks[b].succ, t) |-> b]
  <2>1. /\ pc = "link" /\ todo' = todo \ {b}
        /\ blocks' = [t \in Ids |-> [blocks[t] EXCEPT !.pred = @ \o more(t)]]
        /\ UNCHANGED <<prog, pc, k, split_vars, edge_vars, dfs_vars, err>>
    BY <1>4 DEF Link
  <2>2. ASSUME NEW t \in Ids PROVE more(t) \in Seq(Ids)
    <3>1. blocks[b].succ \in Seq(Ids)
      BY <1>0 DEF BlockRecord
    <3>2. Count(blocks[b].succ, t) \in Nat
      BY <3>1, CountTyped
    <3> QED BY <3>2
  <2> HIDE DEF more
  <2>3. \A t \in Ids : [blocks[t] EXCEPT !.pred = @ \o more(t)] \in BlockRecord
    BY <1>0, <2>2, ConcatTyped DEF TypeOK, BlockRecord
  <2>4. Ids' = Ids /\ blocks' \in [Ids -> BlockRecord]
    BY <2>1, <2>3 DEF Ids
  <2>5. \A c \in Ids : blocks'[c].insts = blocks[c].insts
    BY <1>0, <2>1 DEF TypeOK, BlockRecord
  <2> QED BY <1>0, <2>1, <2>4, <2>5, TypeFromBlocks DEF TypeOK, Phases, dfs_vars, edge_vars
<1> QED BY <1>1, <1>2, <1>3, <1>4

(* Handlers. *)
LEMMA TypeHandlers ==
  ASSUME TypeInv, EdgesDone \/ LinkDone \/ MapHandler
  PROVE  TypeInv'
<1>0. TypeOK /\ k \in Nat
  BY DEF TypeInv, TypeOK
<1>1. CASE EdgesDone \/ LinkDone
  <2>1. /\ UNCHANGED <<prog, split_vars, blocks, edge_vars, dfs_vars, err>>
        /\ pc \in {"edges", "link"} /\ pc' \in {"link", "handlers"}
        /\ k' \in {k, 1} /\ todo' \in {Ids, todo}
    BY <1>1 DEF EdgesDone, LinkDone
  <2>2. Ids' = Ids
    BY <2>1 DEF Ids
  <2> QED BY <1>0, <2>1, <2>2, TypeFromBlocks DEF TypeOK, Phases, dfs_vars, edge_vars
<1>2. CASE MapHandler
  <2> DEFINE h == prog.handlers[k]
  <2>1. /\ UNCHANGED <<prog, split_vars, todo, edge_vars, dfs_vars>>
        /\ pc = "handlers"
    BY <1>2 DEF MapHandler
  <2>2. ASSUME h.target \notin Ids PROVE TypeInv'
    <3>1. pc' = "err" /\ err' = "InvalidExceptionHandlerTarget" /\ UNCHANGED <<blocks, k>>
      BY <1>2, <2>2 DEF MapHandler, Fail
    <3>2. Ids' = Ids
      BY <3>1 DEF Ids
    <3> QED BY <1>0, <2>1, <3>1, <3>2, TypeFromBlocks DEF TypeOK, Phases, dfs_vars, edge_vars
  <2>3. ASSUME h.target \in Ids PROVE TypeInv'
    <3>1. /\ blocks' = [b \in Ids |-> IF Covers(h, blocks[b])
                          THEN [blocks[b] EXCEPT !.exc = h.target] ELSE blocks[b]]
          /\ k' = k + 1 /\ UNCHANGED <<pc, err>>
      BY <1>2, <2>3 DEF MapHandler
    <3> HIDE DEF h
    <3>2. \A b \in Ids : /\ [blocks[b] EXCEPT !.exc = h.target] \in BlockRecord
                         /\ [blocks[b] EXCEPT !.exc = h.target].insts = blocks[b].insts
      BY <1>0, <2>3 DEF TypeOK, BlockRecord
    <3>3. \A b \in Ids : blocks'[b].insts = blocks[b].insts /\ blocks'[b] \in BlockRecord
      BY <1>0, <3>1, <3>2 DEF TypeOK
    <3>4. Ids' = Ids /\ blocks' \in [Ids -> BlockRecord]
      BY <3>1, <3>3 DEF Ids
    <3> QED BY <1>0, <2>1, <3>1, <3>3, <3>4, TypeFromBlocks
            DEF TypeOK, Phases, dfs_vars, edge_vars
  <2> QED BY <2>2, <2>3
<1> QED BY <1>1, <1>2

(* The stack below its top, which is an entry for a block. *)
LEMMA StackFacts ==
  ASSUME TypeOK, stack # <<>>
  PROVE  /\ Popped \in Seq([id : Ids, expanded : BOOLEAN])
         /\ Top \in [id : Ids, expanded : BOOLEAN]
         /\ Top.id \in Ids /\ Top.expanded \in BOOLEAN
<1>1. stack \in Seq([id : Ids, expanded : BOOLEAN])
  BY DEF TypeOK
<1> DEFINE E == [id : Ids, expanded : BOOLEAN]
<1>2. \A e \in E : e.id \in Ids /\ e.expanded \in BOOLEAN
  OBVIOUS
<1> HIDE DEF E
<1>3. Popped \in Seq(E) /\ Top \in E
  BY <1>1, FrontLast DEF Popped, Top, E
<1> QED BY <1>2, <1>3 DEF E

(* The depth-first search and the order. *)
LEMMA TypeSearch ==
  ASSUME TypeInv,
         \/ \E b \in Ids : StartSearch(b) \/ AppendUnreachable(b)
         \/ Finish \/ Skip \/ Expand \/ PushSuccessor \/ SearchDone \/ CheckLayout
  PROVE  TypeInv'
<1>0. TypeOK /\ k \in Nat
  BY DEF TypeInv, TypeOK
<1>1. ASSUME NEW b \in Ids, StartSearch(b) PROVE TypeInv'
  <2>1. <<Entry(b, FALSE)>> \in Seq([id : Ids, expanded : BOOLEAN])
    BY DEF Entry
  <2>2. Ids' = Ids
    BY <1>1 DEF StartSearch, Ids
  <2> QED BY <1>0, <1>1, <2>1, <2>2, TypeFromBlocks DEF StartSearch, TypeOK, Phases, edge_vars
<1>2. ASSUME NEW b \in Ids, AppendUnreachable(b) PROVE TypeInv'
  <2>1. Ids' = Ids /\ Append(order, b) \in Seq(Ids)
    BY <1>0, <1>2 DEF AppendUnreachable, Ids, TypeOK
  <2> QED BY <1>0, <1>2, <2>1, TypeFromBlocks DEF AppendUnreachable, TypeOK, Phases, edge_vars
<1>3. CASE Finish
  <2>1. Append(post, Top.id) \in Seq(Ids)
    BY <1>0, <1>3, StackFacts DEF Finish, TypeOK
  <2>2. Ids' = Ids
    BY <1>3 DEF Finish, Ids
  <2> QED BY <1>0, <1>3, <2>1, <2>2, StackFacts, TypeFromBlocks
          DEF Finish, TypeOK, Phases, edge_vars
<1>4. CASE Skip
  <2>1. Ids' = Ids
    BY <1>4 DEF Skip, Ids
  <2> QED BY <1>0, <1>4, <2>1, StackFacts, TypeFromBlocks DEF Skip, TypeOK, Phases, edge_vars
<1>5. CASE Expand
  <2>1. Ids' = Ids
    BY <1>5 DEF Expand, Ids
  <2>2. Top.id \in Ids /\ stack' \in Seq([id : Ids, expanded : BOOLEAN])
    <3>1. Top.id \in Ids /\ Popped \in Seq([id : Ids, expanded : BOOLEAN])
      BY <1>0, <1>5, StackFacts DEF Expand
    <3>2. Entry(Top.id, TRUE) \in [id : Ids, expanded : BOOLEAN]
      BY <3>1 DEF Entry
    <3>3. stack' = Append(Popped, Entry(Top.id, TRUE))
      BY <1>5 DEF Expand
    <3> QED BY <3>1, <3>2, <3>3, AppendTyped
  <2>3. Top.id \in Nat /\ Len(blocks[Top.id].succ) \in Nat
    <3>1. Top.id \in Nat /\ blocks[Top.id] \in BlockRecord
      BY <1>0, <2>2 DEF TypeOK
    <3> QED BY <3>1 DEF BlockRecord
  <2>4. /\ pc = "dfs" /\ k' = Len(blocks[Top.id].succ) /\ bid' = Top.id
        /\ visited' = visited \cup {Top.id}
        /\ UNCHANGED <<prog, pc, split_vars, blocks, todo, edge_vars, post, order, err>>
    BY <1>5 DEF Expand
  <2>5. k' <= Len(blocks'[bid'].succ)
    BY <2>3, <2>4
  <2> QED BY <1>0, <2>1, <2>2, <2>3, <2>4, <2>5, TypeFromBlocks
          DEF TypeOK, Phases, edge_vars
<1>6. CASE PushSuccessor
  <2>1. Ids' = Ids
    BY <1>6 DEF PushSuccessor, Ids
  <2>2. /\ pc = "dfs" /\ k > 0 /\ bid \in Ids /\ k <= Len(blocks[bid].succ)
        /\ blocks[bid].succ \in Seq(Ids)
    BY <1>0, <1>6 DEF PushSuccessor, TypeInv, TypeOK, BlockRecord
  <2>3. blocks[bid].succ[k] \in Ids
    BY <1>0, <2>2
  <2>4. stack' \in Seq([id : Ids, expanded : BOOLEAN])
    <3>1. Entry(blocks[bid].succ[k], FALSE) \in [id : Ids, expanded : BOOLEAN]
      BY <2>3 DEF Entry
    <3>2. stack \in Seq([id : Ids, expanded : BOOLEAN])
      BY <1>0 DEF TypeOK
    <3>3. stack' \in {stack, Append(stack, Entry(blocks[bid].succ[k], FALSE))}
      BY <1>6 DEF PushSuccessor
    <3> DEFINE S == [id : Ids, expanded : BOOLEAN]
               e == Entry(blocks[bid].succ[k], FALSE)
    <3> HIDE DEF S, e
    <3>4. stack \in Seq(S) /\ e \in S
      BY <3>1, <3>2 DEF S, e
    <3>5. Append(stack, e) \in Seq(S)
      BY <3>4, AppendTyped
    <3>6. stack' \in {stack, Append(stack, e)}
      BY <3>3 DEF e
    <3>7. stack' \in Seq(S)
      BY <3>4, <3>5, <3>6
    <3> QED BY <3>7 DEF S
  <2> QED BY <1>0, <1>6, <2>1, <2>2, <2>4, TypeFromBlocks
          DEF PushSuccessor, TypeOK, Phases, edge_vars
<1>7. CASE SearchDone
  <2>1. Ids' = Ids
    BY <1>7 DEF SearchDone, Ids
  <2>2. Reverse(post) \in Seq(Ids)
    BY <1>0 DEF Reverse, TypeOK
  <2> QED BY <1>0, <1>7, <2>1, <2>2, TypeFromBlocks DEF SearchDone, TypeOK, Phases, edge_vars
<1>8. CASE CheckLayout
  <2>1. Ids' = Ids
    BY <1>8 DEF CheckLayout, Ids
  <2>2. pc' \in {"err", "done"} /\ err' \in {err, "InvalidExceptionLayout"} /\ pc = "rest"
    BY <1>8 DEF CheckLayout, Fail
  <2> QED BY <1>0, <1>8, <2>1, <2>2, TypeFromBlocks
          DEF CheckLayout, TypeOK, Phases, edge_vars, dfs_vars
<1> QED BY <1>1, <1>2, <1>3, <1>4, <1>5, <1>6, <1>7, <1>8

LEMMA TypeStep == TypeInv /\ [Next]_vars => TypeInv'
<1> SUFFICES ASSUME TypeInv, [Next]_vars PROVE TypeInv'
  OBVIOUS
<1>1. CASE UNCHANGED vars
  BY <1>1 DEF vars, split_vars, edge_vars, dfs_vars, TypeInv, TypeOK, Insts, Ids, BlockRecord
<1>2. CASE Next
  <2>1. CASE Returned
    BY <1>1, <2>1 DEF Returned
  <2> QED BY <1>2, <2>1, TypeSplit, TypeEdges, TypeHandlers, TypeSearch DEF Next, BlockStep
<1> QED BY <1>1, <1>2

(* Every value of build's locals keeps its type: successors, predecessors  *)
(* and catch targets never name a block that does not exist, whatever the  *)
(* jump targets and handler ranges of the program are.                     *)
THEOREM TypeCorrect == Spec => []TypeOK
<1>1. TypeInv => TypeOK
  BY DEF TypeInv
<1> QED BY <1>1, TypeInit, TypeStep, PTL DEF Spec

-----------------------------------------------------------------------------
(* The blocks partition the instructions.  While splitting, the block in   *)
(* the making lies past all finished ones, so closing it overwrites none.  *)

PartitionInv ==
  /\ BlocksPartition
  /\ pc = "split" =>
       IF cur = {} THEN Ids = {}
       ELSE start <= Insts[k - 1].off /\ \A b \in Ids : b < start

(* After splitting no step changes which instructions a block holds. *)
LEMMA ExceptKeepsInsts ==
  ASSUME NEW r \in BlockRecord, NEW x, NEW y
  PROVE  /\ [r EXCEPT !.pred = x].insts = r.insts
         /\ [r EXCEPT !.exc = x].insts = r.insts
         /\ [r EXCEPT !.succ = x].insts = r.insts
         /\ [r EXCEPT !.succ = x, !.ids = y].insts = r.insts
BY DEF BlockRecord

LEMMA BlocksKept ==
  ASSUME TypeInv, Next, pc \notin {"boundaries", "split"}
  PROVE  /\ SameBlocks /\ prog' = prog
         /\ pc' \notin {"boundaries", "split"} /\ (pc = "err" => pc' = "err")
<1>0. TypeOK
  BY DEF TypeInv
<1>1. ASSUME NEW b \in Ids, BlockStep(b)
      PROVE  SameBlocks /\ prog' = prog /\ pc # "err" /\ pc' \notin {"boundaries", "split"}
  <2>1. ASSUME Link(b) PROVE SameBlocks
    <3> DEFINE preds(t) == blocks[t].pred \o [n \in 1..Count(blocks[b].succ, t) |-> b]
    <3>1. blocks' = [t \in Ids |-> [blocks[t] EXCEPT !.pred = preds(t)]]
      BY <2>1 DEF Link
    <3> HIDE DEF preds
    <3>2. \A t \in Ids : blocks[t] \in BlockRecord
      BY <1>0 DEF TypeOK
    <3>3. \A t \in Ids : blocks'[t] = [blocks[t] EXCEPT !.pred = preds(t)]
      BY <3>1
    <3>4. Ids' = Ids
      BY <3>1 DEF Ids
    <3>5. ASSUME NEW t \in Ids PROVE blocks'[t].insts = blocks[t].insts
      <4>1. [blocks[t] EXCEPT !.pred = preds(t)].insts = blocks[t].insts
        BY <3>2, ExceptKeepsInsts
      <4> QED BY <3>3, <4>1
    <3> QED BY <3>4, <3>5 DEF SameBlocks
  <2>2. ASSUME Edges(b) \/ CloseSwitch(b) PROVE SameBlocks
    <3>1. \/ blocks' = blocks
          \/ blocks' = [blocks EXCEPT ![b].succ = Successors(b)]
          \/ blocks' = [blocks EXCEPT ![b].succ = succs, ![b].ids = ids]
      BY <2>2 DEF Edges, CloseSwitch
    <3>2. Ids' = Ids
      BY <3>1 DEF Ids
    <3>3. ASSUME NEW t \in Ids PROVE blocks'[t].insts = blocks[t].insts
      <4>1. blocks[t] \in BlockRecord /\ blocks \in [Ids -> BlockRecord]
        BY <1>0 DEF TypeOK
      <4>2. /\ [blocks[t] EXCEPT !.succ = Successors(t)].insts = blocks[t].insts
            /\ [blocks[t] EXCEPT !.succ = succs, !.ids = ids].insts = blocks[t].insts
        BY <4>1, ExceptKeepsInsts
      <4>3. blocks'[t] \in {blocks[t], [blocks[t] EXCEPT !.succ = Successors(t)],
                            [blocks[t] EXCEPT !.succ = succs, !.ids = ids]}
        BY <3>1, <4>1
      <4> QED BY <4>2, <4>3
    <3> QED BY <3>2, <3>3 DEF SameBlocks
  <2>3. ASSUME blocks' = blocks PROVE SameBlocks
    BY <2>3 DEF SameBlocks, Ids
  <2>4. SameBlocks
    BY <1>1, <2>1, <2>2, <2>3 DEF BlockStep, PushCase, StartSearch, AppendUnreachable
  <2>5. prog' = prog /\ pc # "err" /\ pc' \notin {"boundaries", "split"}
    BY <1>1 DEF BlockStep, Edges, PushCase, CloseSwitch, Link, StartSearch, AppendUnreachable
  <2> QED BY <2>4, <2>5
<1>2. ASSUME MapHandler
      PROVE  SameBlocks /\ prog' = prog /\ pc # "err" /\ pc' \notin {"boundaries", "split"}
  <2>1. \/ blocks' = blocks
        \/ blocks' = [b \in Ids |-> IF Covers(prog.handlers[k], blocks[b])
              THEN [blocks[b] EXCEPT !.exc = prog.handlers[k].target] ELSE blocks[b]]
    BY <1>2 DEF MapHandler
  <2>2. \A b \in Ids : blocks[b] \in BlockRecord
    BY <1>0 DEF TypeOK
  <2>3. Ids' = Ids
    BY <2>1 DEF Ids
  <2>4. \A b \in Ids : blocks'[b] \in {blocks[b], [blocks[b] EXCEPT !.exc = prog.handlers[k].target]}
    BY <2>1
  <2>5. ASSUME NEW b \in Ids PROVE blocks'[b].insts = blocks[b].insts
    <3>1. [blocks[b] EXCEPT !.exc = prog.handlers[k].target].insts = blocks[b].insts
      BY <2>2, ExceptKeepsInsts
    <3> QED BY <2>4, <3>1
  <2>6. SameBlocks
    BY <2>3, <2>5 DEF SameBlocks
  <2> QED BY <1>2, <2>6 DEF MapHandler, Fail
<1>3. ASSUME EdgesDone \/ LinkDone \/ Finish \/ Skip \/ Expand \/ PushSuccessor \/ SearchDone
              \/ CheckLayout
      PROVE  SameBlocks /\ prog' = prog /\ pc # "err" /\ pc' \notin {"boundaries", "split"}
  BY <1>3 DEF SameBlocks, Ids, EdgesDone, LinkDone, Finish, Skip, Expand, PushSuccessor,
              SearchDone, CheckLayout, Fail
<1>4. ASSUME Returned
      PROVE  SameBlocks /\ prog' = prog /\ pc' = pc
  BY <1>4 DEF Returned, vars, SameBlocks, Ids
<1>5. ~(FindBoundaries \/ EmptyFunction \/ Split \/ CloseLastBlock)
  BY DEF FindBoundaries, EmptyFunction, Split, CloseLastBlock
<1> QED BY <1>1, <1>2, <1>3, <1>4, <1>5 DEF Next

LEMMA PartitionInit == Init => PartitionInv
BY DEF Init, PartitionInv, BlocksPartition, Ids

LEMMA PartitionStep == TypeInv /\ PartitionInv /\ [Next]_vars => PartitionInv'
<1> SUFFICES ASSUME TypeInv, PartitionInv, [Next]_vars PROVE PartitionInv'
  OBVIOUS
<1>0. /\ Insts \in Seq(Insn) /\ prog \in Programs /\ TypeOK
      /\ Len(Insts) \in Nat /\ DOMAIN Insts = 1..Len(Insts)
  BY ProgramFacts DEF TypeInv
<1>1. CASE UNCHANGED vars
  BY <1>1 DEF vars, split_vars, PartitionInv, BlocksPartition, Held, Ids, Insts
<1>2. CASE Next /\ pc \notin {"boundaries", "split"}
  <2>1. /\ SameBlocks /\ Insts' = Insts
        /\ pc' \notin {"boundaries", "split"} /\ (pc = "err" => pc' = "err")
    BY <1>2, BlocksKept DEF Insts
  <2>2. Held' = Held
    BY <2>1 DEF SameBlocks, Held
  <2> QED BY <1>2, <2>1, <2>2 DEF PartitionInv, BlocksPartition, SameBlocks
<1>3. CASE FindBoundaries
  <2>1. pc' \in {"split", "err"} /\ UNCHANGED <<k, cur, start, blocks>>
    BY <1>3 DEF FindBoundaries, Fail
  <2>2. k = 1 /\ cur = {} /\ Ids = {} /\ Ids' = {}
    BY <1>3, <2>1 DEF FindBoundaries, TypeInv, Ids
  <2>3. Held' = {} /\ 1..(k' - 1) = {} /\ cur' = {}
    BY <2>1, <2>2 DEF Held
  <2> QED BY <2>1, <2>2, <2>3 DEF PartitionInv, BlocksPartition
<1>4. CASE EmptyFunction
  <2>1. Ids' = {0} /\ blocks'[0].insts = {} /\ pc' = "done" /\ DOMAIN Insts' = {}
    BY <1>4 DEF EmptyFunction, Block, Ids, Insts
  <2>2. Held' = {}
    BY <2>1 DEF Held
  <2> QED BY <2>1, <2>2 DEF PartitionInv, BlocksPartition
<1>5. CASE Split
  <2> DEFINE o == Insts[k].off
  <2>1. /\ pc = "split" /\ pc' = "split" /\ k \in 1..Len(Insts) /\ k' = k + 1
        /\ Insts' = Insts /\ o \in Nat
    <3>1. k \in 1..Len(Insts)
      BY <1>0, <1>5 DEF Split, TypeInv
    <3> QED BY <1>0, <1>5, <3>1, InsnFacts DEF Split, Insts
  <2>2. cur # {} => start < o
    <3>1. ASSUME cur # {} PROVE start < o
      <4>1. k > 1 /\ k - 1 \in DOMAIN Insts
        BY <1>0, <2>1, <3>1 DEF TypeInv
      <4>2. o = Insts[k - 1].off + Insts[k - 1].size
        <5>1. \A j \in DOMAIN Insts :
                Insts[j].off = IF j = 1 THEN 0 ELSE Insts[j - 1].off + Insts[j - 1].size
          BY <1>0, ProgramFacts, Zenon DEF TypeInv, Tiled
        <5>2. k \in DOMAIN Insts /\ ~(k = 1)
          BY <2>1, <4>1
        <5> QED BY <2>1, <5>1, <5>2, Zenon DEF o
      <4>3. Insts[k - 1].off \in Nat /\ Insts[k - 1].size \in Nat \ {0}
        BY <1>0, <4>1, InsnFacts
      <4>4. start <= Insts[k - 1].off /\ start \in Nat
        <5>1. start \in Nat
          BY <1>0 DEF TypeOK
        <5> QED BY <2>1, <3>1, <5>1 DEF PartitionInv
      <4> QED BY <4>2, <4>3, <4>4
    <3> QED BY <3>1
  <2>3. Held \cup cur = 1..(k - 1)
    BY <2>1 DEF PartitionInv, BlocksPartition
  <2>4. CASE o \in boundaries /\ cur # {}
    <3>1. /\ cur' = {k} /\ start' = o /\ AddBlock(o) /\ prog' = prog
      BY <1>5, <2>4 DEF Split
    <3> HIDE DEF o
    <3>2. /\ Ids' = Ids \cup {start} /\ blocks'[start].insts = cur
          /\ \A b \in Ids' \ {start} : b \in Ids /\ blocks'[b] = blocks[b]
      BY <1>0, <2>1, <2>4, <3>1, AddBlockTyped
    <3>3. start \notin Ids /\ start \in Nat /\ (\A b \in Ids : b < start /\ b \in Nat)
      <4>1. (\A b \in Ids : b < start /\ b \in Nat) /\ start \in Nat
        BY <1>0, <2>1, <2>4 DEF PartitionInv, TypeOK
      <4> QED BY <4>1
    <3>4. Held' = Held \cup cur
      BY <3>2, <3>3 DEF Held
    <3>5. \A b, c \in Ids' : b # c => blocks'[b].insts \cap blocks'[c].insts = {}
      BY <2>1, <3>2, <3>3 DEF PartitionInv, BlocksPartition
    <3>6. Held' = 1..(k - 1)
      BY <2>3, <3>4
    <3>7. \A b \in Ids' : blocks'[b].insts \subseteq 1..(k - 1)
      BY <3>6 DEF Held
    <3>8. \A b \in Ids' : blocks'[b].insts \cap cur' = {}
      BY <2>1, <3>1, <3>7
    <3>9. Held' \cup cur' = 1..(k' - 1)
      BY <2>1, <3>1, <3>6
    <3>10. \A b \in Ids' : b < start'
      BY <2>1, <2>2, <2>4, <3>1, <3>2, <3>3
    <3>11. start' <= Insts'[k' - 1].off
      BY <2>1, <3>1 DEF o
    <3> QED BY <2>1, <3>1, <3>5, <3>8, <3>9, <3>10, <3>11 DEF PartitionInv, BlocksPartition
  <2>5. CASE ~(o \in boundaries /\ cur # {})
    <3>1. /\ cur' = cur \cup {k} /\ UNCHANGED blocks
          /\ start' = IF cur = {} THEN o ELSE start
      BY <1>5, <2>5 DEF Split
    <3>2. Ids' = Ids
      BY <3>1 DEF Ids
    <3>3. \A b \in Ids : blocks[b].insts \subseteq 1..(k - 1)
      BY <2>3 DEF Held
    <3>4. \A b \in Ids' : blocks'[b].insts \cap cur' = {}
      BY <2>1, <3>1, <3>2, <3>3 DEF PartitionInv, BlocksPartition
    <3>5. Held' \cup cur' = 1..(k' - 1)
      <4>1. Held' = Held
        BY <3>1, <3>2 DEF Held
      <4>2. 1..(k' - 1) = 1..(k - 1) \cup {k}
        BY <2>1
      <4> QED BY <2>3, <3>1, <4>1, <4>2
    <3>6. start' <= Insts'[k' - 1].off /\ \A b \in Ids' : b < start'
      <4>1. Insts'[k' - 1].off = o
        BY <2>1
      <4>2. start \in Nat
        BY <1>0 DEF TypeOK
      <4> QED BY <2>1, <2>2, <3>1, <3>2, <4>1, <4>2 DEF PartitionInv
    <3>7. \A b, c \in Ids' : b # c => blocks'[b].insts \cap blocks'[c].insts = {}
      BY <3>1, <3>2 DEF PartitionInv, BlocksPartition
    <3> QED BY <2>1, <3>1, <3>4, <3>5, <3>6, <3>7 DEF PartitionInv, BlocksPartition
  <2> QED BY <2>4, <2>5
<1>6. CASE CloseLastBlock
  <2> DEFINE past == NextOffset(Insts[Len(Insts)])
  <2>1. /\ pc = "split" /\ pc' = "edges" /\ k = Len(Insts) + 1 /\ prog' = prog
        /\ AddBlock(past) /\ Len(Insts) > 0 /\ cur # {}
    BY <1>0, <1>6 DEF CloseLastBlock, TypeInv
  <2>2. past \in Nat
    BY <1>0, <2>1, InsnFacts DEF TypeInv
  <2> HIDE DEF past
  <2>3. /\ Ids' = Ids \cup {start} /\ blocks'[start].insts = cur
        /\ \A b \in Ids' \ {start} : b \in Ids /\ blocks'[b] = blocks[b]
    BY <1>0, <2>1, <2>2, AddBlockTyped
  <2>4. start \notin Ids
    BY <1>0, <2>1 DEF PartitionInv, TypeOK
  <2>5. Held' = Held \cup cur
    BY <2>3, <2>4 DEF Held
  <2>6. Held' = DOMAIN Insts'
    BY <1>0, <2>1, <2>5 DEF PartitionInv, BlocksPartition, Insts
  <2>7. \A b, c \in Ids' : b # c => blocks'[b].insts \cap blocks'[c].insts = {}
    BY <2>1, <2>3, <2>4 DEF PartitionInv, BlocksPartition
  <2> QED BY <2>1, <2>6, <2>7 DEF PartitionInv, BlocksPartition
<1>7. pc = "boundaries" /\ Next => FindBoundaries \/ EmptyFunction
  BY DEF Next, BlockStep, Edges, PushCase, CloseSwitch, Link, StartSearch, AppendUnreachable,
         Split, CloseLastBlock, EdgesDone, LinkDone, MapHandler, Finish, Skip, Expand,
         PushSuccessor, SearchDone, CheckLayout, Returned
<1>8. pc = "split" /\ Next => Split \/ CloseLastBlock
  BY DEF Next, BlockStep, Edges, PushCase, CloseSwitch, Link, StartSearch, AppendUnreachable,
         FindBoundaries, EmptyFunction, EdgesDone, LinkDone, MapHandler, Finish, Skip, Expand,
         PushSuccessor, SearchDone, CheckLayout, Returned
<1> QED BY <1>1, <1>2, <1>3, <1>4, <1>5, <1>6, <1>7, <1>8

(* Every instruction ends up in exactly one block, for every program: the  *)
(* splitting loop drops none and copies none.                              *)
THEOREM PartitionCorrect == Spec => []BlocksPartition
<1>1. TypeInv /\ PartitionInv => BlocksPartition
  BY DEF PartitionInv
<1> QED BY <1>1, TypeInit, TypeStep, PartitionInit, PartitionStep, PTL DEF Spec

-----------------------------------------------------------------------------
(* The depth-first search.  An open block has been expanded and not yet    *)
(* finished: it is on the stack once, as an expanded entry.  The visited   *)
(* blocks are the open and the finished ones, and every successor of an    *)
(* open block that was already looked at is visited or waits above it.     *)

Distinct(s) == \A m, n \in DOMAIN s : s[m] = s[n] => m = n

ExpandedAt == {n \in DOMAIN stack : stack[n].expanded}
Open == {stack[n].id : n \in ExpandedAt}

(* The search starts at the lowest block and finishes it last. *)
RootInv ==
  IF stack = <<>> THEN k = 0 /\ post # <<>> /\ Least(post[Len(post)], Ids)
  ELSE /\ Least(stack[1].id, Ids)
       /\ stack[1].expanded \/ (visited = {} /\ Len(stack) = 1 /\ k = 0)

(* Successor j of the open block at n has been dealt with. *)
Found(n, j) ==
  LET s == blocks[stack[n].id].succ[j]
  IN s \in visited \/ \E m \in DOMAIN stack : m > n /\ stack[m].id = s

Looked(n, j) == k = 0 \/ stack[n].id # bid \/ j > k

FrontierInv ==
  \A n \in ExpandedAt : \A j \in DOMAIN blocks[stack[n].id].succ :
     Looked(n, j) => Found(n, j)

SearchInv ==
  /\ pc \in {"boundaries", "split", "edges", "cases", "link", "handlers"} =>
       visited = {} /\ stack = <<>> /\ post = <<>>
  /\ pc = "dfs" =>
       /\ visited = Reached(post) \cup Open /\ Reached(post) \cap Open = {}
       /\ Distinct(post)
       /\ \A m, n \in ExpandedAt : stack[m].id = stack[n].id => m = n
       /\ RootInv /\ FrontierInv
  /\ pc = "rest" =>
       /\ Distinct(order) /\ order # <<>> /\ Least(order[1], Ids)
       /\ Reached(order) = Ids \ todo
  /\ OrderIsPermutation

LEMMA AppendDistinct ==
  ASSUME NEW S, NEW s \in Seq(S), NEW x \in S, x \notin Reached(s), Distinct(s)
  PROVE  Distinct(Append(s, x))
BY DEF Distinct, Reached

LEMMA AppendReached ==
  ASSUME NEW S, NEW s \in Seq(S), NEW x \in S
  PROVE  Reached(Append(s, x)) = Reached(s) \cup {x}
<1>1. DOMAIN Append(s, x) = 1..(Len(s) + 1) /\ DOMAIN s = 1..Len(s) /\ Len(s) \in Nat
  OBVIOUS
<1>2. \A n \in DOMAIN s : Append(s, x)[n] = s[n]
  OBVIOUS
<1>3. Append(s, x)[Len(s) + 1] = x
  OBVIOUS
<1> QED BY <1>1, <1>2, <1>3 DEF Reached

LEMMA ReverseFacts ==
  ASSUME NEW S, NEW s \in Seq(S), Distinct(s)
  PROVE  /\ Distinct(Reverse(s)) /\ Reached(Reverse(s)) = Reached(s)
         /\ s # <<>> => Reverse(s) # <<>> /\ Reverse(s)[1] = s[Len(s)]
<1>1. Len(s) \in Nat /\ DOMAIN s = 1..Len(s)
  OBVIOUS
<1> DEFINE r == Reverse(s)
<1>2. DOMAIN r = 1..Len(s) /\ \A n \in 1..Len(s) : r[n] = s[Len(s) - n + 1]
  BY <1>1 DEF Reverse
<1>3. \A n \in 1..Len(s) : Len(s) - n + 1 \in 1..Len(s) /\ Len(s) - (Len(s) - n + 1) + 1 = n
  BY <1>1
<1> HIDE DEF r
<1>4. Distinct(r)
  BY <1>1, <1>2, <1>3 DEF Distinct
<1>5. Reached(r) = Reached(s)
  <2>1. ASSUME NEW x \in Reached(r) PROVE x \in Reached(s)
    BY <1>1, <1>2, <1>3 DEF Reached
  <2>2. ASSUME NEW x \in Reached(s) PROVE x \in Reached(r)
    <3>1. PICK n \in 1..Len(s) : x = s[n]
      BY <1>1 DEF Reached
    <3>2. r[Len(s) - n + 1] = x
      BY <1>2, <1>3, <3>1
    <3> QED BY <1>2, <1>3, <3>2 DEF Reached
  <2> QED BY <2>1, <2>2
<1>6. ASSUME s # <<>> PROVE r # <<>> /\ r[1] = s[Len(s)]
  <2>1. 1 \in 1..Len(s) /\ Len(s) - 1 + 1 = Len(s)
    BY <1>1, <1>6
  <2>2. r[1] = s[Len(s)] /\ DOMAIN r # {}
    BY <1>2, <2>1
  <2> QED BY <2>2
<1> QED BY <1>4, <1>5, <1>6 DEF r

LEMMA SearchInit == Init => SearchInv
BY DEF Init, SearchInv, OrderIsPermutation

(* What popping and pushing do to the stack and its open entries. *)
LEMMA StackShape ==
  ASSUME TypeOK
  PROVE  /\ Len(stack) \in Nat /\ DOMAIN stack = 1..Len(stack)
         /\ stack # <<>> => Len(stack) >= 1
         /\ ExpandedAt \subseteq 1..Len(stack)
         /\ Open \subseteq Ids
<1>1. stack \in Seq([id : Ids, expanded : BOOLEAN])
  BY DEF TypeOK
<1>2. Len(stack) \in Nat /\ DOMAIN stack = 1..Len(stack) /\ (stack # <<>> => Len(stack) >= 1)
  BY <1>1
<1>3. ASSUME NEW n \in 1..Len(stack) PROVE stack[n].id \in Ids
  <2>1. stack[n] \in [id : Ids, expanded : BOOLEAN]
    BY <1>1, ElementTyped
  <2> QED BY <2>1
<1> QED BY <1>2, <1>3 DEF ExpandedAt, Open

LEMMA PopFacts ==
  ASSUME TypeOK, stack # <<>>, stack' = Popped
  PROVE  /\ Len(stack') = Len(stack) - 1 /\ DOMAIN stack' = 1..(Len(stack) - 1)
         /\ \A n \in 1..(Len(stack) - 1) : stack'[n] = stack[n]
         /\ stack' = <<>> <=> Len(stack) = 1
         /\ ExpandedAt' = ExpandedAt \ {Len(stack)}
<1>1. stack \in Seq([id : Ids, expanded : BOOLEAN])
  BY DEF TypeOK
<1> DEFINE E == [id : Ids, expanded : BOOLEAN]
<1> HIDE DEF E
<1>2. /\ stack' \in Seq(E) /\ Len(stack') = Len(stack) - 1
      /\ Len(stack) \in Nat \ {0}
      /\ \A n \in 1..(Len(stack) - 1) : stack'[n] = stack[n]
  BY <1>1, FrontLast DEF Popped, E
<1>3. DOMAIN stack' = 1..(Len(stack) - 1) /\ DOMAIN stack = 1..Len(stack)
  <2>1. DOMAIN stack' = 1..Len(stack')
    BY <1>2
  <2> QED BY <1>1, <1>2, <2>1
<1>4. stack' = <<>> <=> Len(stack) = 1
  BY <1>2
<1>5. ExpandedAt' = ExpandedAt \ {Len(stack)}
  BY <1>2, <1>3 DEF ExpandedAt
<1> QED BY <1>2, <1>3, <1>4, <1>5

LEMMA PushFacts ==
  ASSUME TypeOK, NEW b \in Ids, NEW x \in BOOLEAN, NEW s \in Seq([id : Ids, expanded : BOOLEAN])
  PROVE  /\ Len(Append(s, Entry(b, x))) = Len(s) + 1
         /\ DOMAIN Append(s, Entry(b, x)) = 1..(Len(s) + 1)
         /\ \A n \in 1..Len(s) : Append(s, Entry(b, x))[n] = s[n]
         /\ Append(s, Entry(b, x))[Len(s) + 1].id = b
         /\ Append(s, Entry(b, x))[Len(s) + 1].expanded = x
         /\ Append(s, Entry(b, x)) # <<>>
<1>1. Entry(b, x) \in [id : Ids, expanded : BOOLEAN]
  BY DEF Entry
<1>2. Entry(b, x).id = b /\ Entry(b, x).expanded = x
  BY DEF Entry
<1> QED BY <1>1, <1>2, AppendFacts

(* Before the search, and for a function with no instruction. *)
LEMMA SearchBefore ==
  ASSUME TypeInv, SearchInv, Next,
         ~(Finish \/ Skip \/ Expand \/ PushSuccessor \/ SearchDone \/ CheckLayout),
         ~\E b \in Ids : AppendUnreachable(b)
  PROVE  SearchInv'
<1> DEFINE early == {"boundaries", "split", "edges", "cases", "link", "handlers"}
<1>1. ASSUME pc \in early, pc' \in early \cup {"err"}, UNCHANGED dfs_vars
      PROVE  SearchInv'
  BY <1>1 DEF SearchInv, OrderIsPermutation, dfs_vars
<1>2. CASE EmptyFunction
  <2>1. Ids' = {0} /\ order' = <<0>> /\ pc' = "done"
    BY <1>2 DEF EmptyFunction, Ids
  <2>2. DOMAIN order' = {1} /\ order'[1] = 0
    BY <2>1
  <2> QED BY <2>1, <2>2 DEF SearchInv, OrderIsPermutation, Reached, Least
<1>3. ASSUME NEW b \in Ids, StartSearch(b) PROVE SearchInv'
  <2>1. /\ stack' = <<Entry(b, FALSE)>> /\ pc' = "dfs" /\ visited' = {} /\ post' = <<>>
        /\ Ids' = Ids /\ Least(b, Ids)
    BY <1>3 DEF StartSearch, Ids, SearchInv
  <2>2. DOMAIN stack' = {1} /\ stack'[1].id = b /\ ~stack'[1].expanded /\ stack' # <<>>
    BY <2>1 DEF Entry
  <2>3. ExpandedAt' = {} /\ Open' = {}
    BY <2>2 DEF ExpandedAt, Open
  <2>4. RootInv'
    <3>1. Len(stack') = 1 /\ k' = 0
      BY <1>3, <2>1 DEF StartSearch
    <3> QED BY <2>1, <2>2, <3>1 DEF RootInv, Least
  <2>5. FrontierInv' /\ Reached(post') = {} /\ Distinct(post')
    BY <2>1, <2>3 DEF FrontierInv, Reached, Distinct
  <2> QED BY <2>1, <2>3, <2>4, <2>5 DEF SearchInv, OrderIsPermutation
<1>4. ASSUME NEW b \in Ids, Edges(b) \/ PushCase(b) \/ CloseSwitch(b) \/ Link(b) PROVE SearchInv'
  BY <1>1, <1>4 DEF Edges, PushCase, CloseSwitch, Link
<1>5. CASE FindBoundaries \/ Split \/ CloseLastBlock \/ EdgesDone \/ LinkDone \/ MapHandler
  BY <1>1, <1>5 DEF FindBoundaries, Split, CloseLastBlock, EdgesDone, LinkDone, MapHandler, Fail
<1>6. CASE Returned
  BY <1>6 DEF Returned, vars, dfs_vars, SearchInv, OrderIsPermutation, Ids, Least, Reached
<1> QED BY <1>2, <1>3, <1>4, <1>5, <1>6 DEF Next, BlockStep

(* One lemma per step of the search. *)
LEMMA SearchFinish ==
  ASSUME TypeInv, SearchInv, Finish
  PROVE  SearchInv' /\ Reached(blocks[Top.id].succ) \subseteq visited
<1> DEFINE L == Len(stack)
           x == Top.id
<1>1. /\ TypeOK /\ pc = "dfs" /\ pc' = "dfs" /\ k = 0 /\ stack # <<>> /\ Top.expanded
      /\ post' = Append(post, x) /\ stack' = Popped /\ UNCHANGED <<k, blocks, visited, bid, order>>
      /\ Ids' = Ids
  BY DEF Finish, TypeInv, Ids
<1>2. /\ x \in Ids /\ L \in Nat /\ L >= 1 /\ DOMAIN stack = 1..L /\ L \in ExpandedAt
      /\ stack[L].id = x
  BY <1>1, StackShape, StackFacts DEF ExpandedAt, Top
<1>3. /\ Len(stack') = L - 1 /\ DOMAIN stack' = 1..(L - 1)
      /\ \A n \in 1..(L - 1) : stack'[n] = stack[n]
      /\ stack' = <<>> <=> L = 1
      /\ ExpandedAt' = ExpandedAt \ {L}
  BY <1>1, PopFacts
<1>4. ExpandedAt \subseteq 1..L
  BY <1>1, StackShape
<1>5. /\ visited = Reached(post) \cup Open /\ Reached(post) \cap Open = {}
      /\ Distinct(post) /\ RootInv /\ FrontierInv
      /\ \A m, n \in ExpandedAt : stack[m].id = stack[n].id => m = n
  BY <1>1 DEF SearchInv
<1> HIDE DEF L, x
<1>6. \A n \in ExpandedAt' : n \in ExpandedAt /\ n # L /\ n \in 1..(L - 1) /\ stack'[n] = stack[n]
  BY <1>2, <1>3, <1>4
<1>7. Open' = Open \ {x} /\ x \in Open
  <2>1. ASSUME NEW y \in Open' PROVE y \in Open \ {x}
    <3>1. PICK n \in ExpandedAt' : y = stack'[n].id
      BY DEF Open
    <3>2. y = stack[n].id /\ n \in ExpandedAt /\ n # L
      BY <1>6, <3>1
    <3> QED BY <1>2, <1>5, <3>2 DEF Open
  <2>2. ASSUME NEW y \in Open, y # x PROVE y \in Open'
    <3>1. PICK n \in ExpandedAt : y = stack[n].id
      BY DEF Open
    <3>2. n # L /\ n \in 1..(L - 1)
      BY <1>2, <1>4, <2>2, <3>1
    <3> QED BY <1>3, <3>1, <3>2 DEF Open
  <2> QED BY <1>2, <2>1, <2>2 DEF Open
<1>8. post \in Seq(Ids) /\ x \notin Reached(post)
  BY <1>1, <1>5, <1>7 DEF TypeOK
<1>9. Reached(post') = Reached(post) \cup {x} /\ Distinct(post')
  BY <1>1, <1>2, <1>5, <1>8, AppendDistinct, AppendReached DEF x
<1>10. visited' = Reached(post') \cup Open' /\ Reached(post') \cap Open' = {}
  BY <1>1, <1>5, <1>7, <1>9
<1>11. \A m, n \in ExpandedAt' : stack'[m].id = stack'[n].id => m = n
  BY <1>5, <1>6
<1>12. RootInv'
  <2>1. CASE L = 1
    <3>1. stack' = <<>> /\ post'[Len(post')] = x /\ post' # <<>>
      BY <1>1, <1>2, <1>3, <1>8, <2>1, AppendFacts DEF x
    <3>2. Least(x, Ids)
      BY <1>1, <1>2, <1>5, <2>1 DEF RootInv
    <3> QED BY <1>1, <3>1, <3>2 DEF RootInv
  <2>2. CASE L # 1
    <3>1. stack'[1] = stack[1] /\ stack' # <<>>
      BY <1>2, <1>3, <2>2
    <3>2. stack[1].expanded /\ Least(stack[1].id, Ids)
      BY <1>1, <1>5, <2>2 DEF RootInv, L
    <3> QED BY <1>1, <3>1, <3>2 DEF RootInv
  <2> QED BY <2>1, <2>2
<1>13. FrontierInv'
  <2> SUFFICES ASSUME NEW n \in ExpandedAt', NEW j \in DOMAIN blocks[stack[n].id].succ
               PROVE  Found(n, j)'
    BY <1>1, <1>6 DEF FrontierInv
  <2>1. n \in ExpandedAt /\ stack'[n] = stack[n] /\ n \in 1..(L - 1)
    BY <1>6
  <2>2. Found(n, j)
    BY <1>1, <1>5, <2>1 DEF FrontierInv, Looked
  <2> DEFINE s == blocks[stack[n].id].succ[j]
  <2>3. s \in visited \/ \E m \in 1..L : m > n /\ stack[m].id = s
    BY <1>2, <2>2 DEF Found
  <2>4. x \in visited
    BY <1>5, <1>7
  <2>5. s \in visited \/ \E m \in 1..(L - 1) : m > n /\ stack'[m].id = s
    BY <1>2, <1>3, <2>3, <2>4
  <2>6. s \in visited' \/ \E m \in DOMAIN stack' : m > n /\ stack'[m].id = s
    BY <1>1, <1>3, <2>5
  <2> QED BY <1>1, <2>1, <2>6 DEF Found
<1>14. SearchInv'
  BY <1>1, <1>9, <1>10, <1>11, <1>12, <1>13 DEF SearchInv, OrderIsPermutation
<1>15. Reached(blocks[x].succ) \subseteq visited
  <2> SUFFICES ASSUME NEW j \in DOMAIN blocks[x].succ PROVE blocks[x].succ[j] \in visited
    BY DEF Reached
  <2>1. Found(L, j)
    BY <1>1, <1>2, <1>5 DEF FrontierInv, Looked
  <2>2. ~\E m \in DOMAIN stack : m > L
    BY <1>2
  <2> QED BY <1>2, <2>1, <2>2 DEF Found
<1> QED BY <1>14, <1>15 DEF x

LEMMA SearchSkip ==
  ASSUME TypeInv, SearchInv, Skip
  PROVE  SearchInv'
<1> DEFINE L == Len(stack)
           x == Top.id
<1>1. /\ TypeOK /\ pc = "dfs" /\ pc' = "dfs" /\ k = 0 /\ stack # <<>> /\ ~Top.expanded
      /\ x \in visited /\ stack' = Popped
      /\ UNCHANGED <<k, blocks, visited, post, bid, order>> /\ Ids' = Ids
  BY DEF Skip, TypeInv, Ids
<1>2. /\ L \in Nat /\ L >= 1 /\ DOMAIN stack = 1..L /\ stack[L].id = x /\ ~stack[L].expanded
      /\ ExpandedAt \subseteq 1..L
  BY <1>1, StackShape DEF Top
<1>3. /\ Len(stack') = L - 1 /\ DOMAIN stack' = 1..(L - 1)
      /\ \A n \in 1..(L - 1) : stack'[n] = stack[n]
      /\ stack' = <<>> <=> L = 1
      /\ ExpandedAt' = ExpandedAt \ {L}
  BY <1>1, PopFacts
<1>4. /\ visited = Reached(post) \cup Open /\ Reached(post) \cap Open = {}
      /\ Distinct(post) /\ RootInv /\ FrontierInv
      /\ \A m, n \in ExpandedAt : stack[m].id = stack[n].id => m = n
  BY <1>1 DEF SearchInv
<1> HIDE DEF L, x
<1>5. ExpandedAt' = ExpandedAt
  BY <1>2, <1>3 DEF ExpandedAt
<1>6. \A n \in ExpandedAt : n \in 1..(L - 1) /\ stack'[n] = stack[n]
  BY <1>2, <1>3, <1>5
<1>7. Open' = Open
  BY <1>5, <1>6 DEF Open
<1>8. RootInv'
  <2>1. L # 1
    BY <1>1, <1>2, <1>4 DEF RootInv
  <2>2. stack'[1] = stack[1] /\ stack' # <<>>
    BY <1>2, <1>3, <2>1
  <2> QED BY <1>1, <1>4, <2>2 DEF RootInv
<1>9. FrontierInv'
  <2> SUFFICES ASSUME NEW n \in ExpandedAt, NEW j \in DOMAIN blocks[stack[n].id].succ
               PROVE  Found(n, j)'
    BY <1>1, <1>5, <1>6 DEF FrontierInv
  <2> DEFINE s == blocks[stack[n].id].succ[j]
  <2>1. s \in visited \/ \E m \in 1..L : m > n /\ stack[m].id = s
    BY <1>1, <1>2, <1>4 DEF FrontierInv, Looked, Found
  <2>2. s \in visited \/ \E m \in 1..(L - 1) : m > n /\ stack'[m].id = s
    BY <1>1, <1>2, <1>3, <2>1
  <2>3. s \in visited' \/ \E m \in DOMAIN stack' : m > n /\ stack'[m].id = s
    BY <1>1, <1>3, <2>2
  <2> QED BY <1>1, <1>6, <2>3 DEF Found
<1>10. \A m, n \in ExpandedAt' : stack'[m].id = stack'[n].id => m = n
  BY <1>4, <1>5, <1>6
<1> QED BY <1>1, <1>4, <1>7, <1>8, <1>9, <1>10 DEF SearchInv, OrderIsPermutation

LEMMA SearchExpand ==
  ASSUME TypeInv, SearchInv, Expand
  PROVE  SearchInv'
<1> DEFINE L == Len(stack)
           x == Top.id
<1>1. /\ TypeOK /\ pc = "dfs" /\ pc' = "dfs" /\ k = 0 /\ stack # <<>> /\ ~Top.expanded
      /\ x \notin visited /\ visited' = visited \cup {x}
      /\ stack' = Append(Popped, Entry(x, TRUE)) /\ bid' = x
      /\ k' = Len(blocks[x].succ)
      /\ UNCHANGED <<blocks, post, order>> /\ Ids' = Ids
  BY DEF Expand, TypeInv, Ids
<1>2. /\ L \in Nat /\ L >= 1 /\ DOMAIN stack = 1..L /\ stack[L].id = x /\ ~stack[L].expanded
      /\ ExpandedAt \subseteq 1..L /\ x \in Ids
  BY <1>1, StackShape, StackFacts DEF Top
<1>3. /\ DOMAIN stack' = 1..L /\ stack' # <<>>
      /\ \A n \in 1..(L - 1) : stack'[n] = stack[n]
      /\ stack'[L].id = x /\ stack'[L].expanded
  <2> DEFINE E == [id : Ids, expanded : BOOLEAN]
  <2>1. stack \in Seq(E) /\ Popped \in Seq(E)
    BY <1>1, StackFacts DEF TypeOK
  <2> HIDE DEF E
  <2>2. Len(Popped) = L - 1 /\ \A n \in 1..(L - 1) : Popped[n] = stack[n]
    BY <1>1, <2>1, FrontLast DEF Popped
  <2>3. Len(Popped) + 1 = L /\ TRUE \in BOOLEAN
    BY <1>2, <2>2
  <2>4. /\ DOMAIN stack' = 1..(Len(Popped) + 1) /\ stack' # <<>>
        /\ \A n \in 1..Len(Popped) : stack'[n] = Popped[n]
        /\ stack'[Len(Popped) + 1].id = x /\ stack'[Len(Popped) + 1].expanded = TRUE
    <3> DEFINE t == Append(Popped, Entry(x, TRUE))
    <3>1. stack' = t
      BY <1>1
    <3>2. /\ DOMAIN t = 1..(Len(Popped) + 1) /\ t # <<>>
          /\ \A n \in 1..Len(Popped) : t[n] = Popped[n]
          /\ t[Len(Popped) + 1].id = x /\ t[Len(Popped) + 1].expanded = TRUE
      <4> HIDE DEF x
      <4>1. TypeOK /\ x \in Ids /\ TRUE \in BOOLEAN /\ Popped \in Seq([id : Ids, expanded : BOOLEAN])
        BY <1>1, <1>2, <2>1 DEF E
      <4> DEFINE q == Popped
      <4> HIDE DEF q
      <4>2. TypeOK /\ x \in Ids /\ TRUE \in BOOLEAN /\ q \in Seq([id : Ids, expanded : BOOLEAN])
        BY <4>1 DEF q
      <4>3. /\ DOMAIN Append(q, Entry(x, TRUE)) = 1..(Len(q) + 1)
            /\ Append(q, Entry(x, TRUE)) # <<>>
            /\ \A n \in 1..Len(q) : Append(q, Entry(x, TRUE))[n] = q[n]
            /\ Append(q, Entry(x, TRUE))[Len(q) + 1].id = x
            /\ Append(q, Entry(x, TRUE))[Len(q) + 1].expanded = TRUE
        BY <4>2, PushFacts
      <4> QED BY <4>3, Zenon DEF q
    <3> HIDE DEF t, x
    <3> QED BY <3>1, <3>2
  <2> QED BY <2>2, <2>3, <2>4
<1>4. /\ visited = Reached(post) \cup Open /\ Reached(post) \cap Open = {}
      /\ Distinct(post) /\ RootInv /\ FrontierInv
      /\ \A m, n \in ExpandedAt : stack[m].id = stack[n].id => m = n
  BY <1>1 DEF SearchInv
<1>5. blocks[x].succ \in Seq(Ids)
  BY <1>1, <1>2 DEF TypeOK, BlockRecord
<1> HIDE DEF L, x
<1>6. ExpandedAt' = ExpandedAt \cup {L} /\ L \notin ExpandedAt
  BY <1>2, <1>3 DEF ExpandedAt
<1>7. \A n \in ExpandedAt : n \in 1..(L - 1) /\ stack'[n] = stack[n]
  BY <1>2, <1>3, <1>6
<1>8. Open' = Open \cup {x} /\ x \notin Open
  <2>1. x \notin Open
    BY <1>1, <1>4
  <2>2. ASSUME NEW y \in Open' PROVE y \in Open \cup {x}
    <3>1. PICK n \in ExpandedAt' : y = stack'[n].id
      BY DEF Open
    <3>2. n = L \/ (n \in ExpandedAt /\ y = stack[n].id)
      BY <1>6, <1>7, <3>1
    <3> QED BY <1>3, <3>1, <3>2 DEF Open
  <2>3. ASSUME NEW y \in Open PROVE y \in Open'
    <3>1. PICK n \in ExpandedAt : y = stack[n].id
      BY DEF Open
    <3> QED BY <1>6, <1>7, <3>1 DEF Open
  <2>4. x \in Open'
    BY <1>3, <1>6 DEF Open
  <2> QED BY <2>1, <2>2, <2>3, <2>4
<1>9. \A m, n \in ExpandedAt' : stack'[m].id = stack'[n].id => m = n
  BY <1>3, <1>4, <1>6, <1>7, <1>8 DEF Open
<1>10. RootInv'
  <2>1. CASE L = 1
    BY <1>1, <1>2, <1>3, <1>4, <2>1 DEF RootInv
  <2>2. CASE L # 1
    <3>1. stack'[1] = stack[1]
      BY <1>2, <1>3, <2>2
    <3>2. stack[1].expanded /\ Least(stack[1].id, Ids)
      BY <1>1, <1>4, <2>2 DEF RootInv, L
    <3> QED BY <1>1, <1>3, <3>1, <3>2 DEF RootInv
  <2> QED BY <2>1, <2>2
<1>11. FrontierInv'
  <2> SUFFICES ASSUME NEW n \in ExpandedAt', NEW j \in DOMAIN blocks[stack'[n].id].succ,
                      Looked(n, j)'
               PROVE  Found(n, j)'
    BY <1>1 DEF FrontierInv
  <2> DEFINE s == blocks[stack'[n].id].succ[j]
  <2>1. CASE n = L
    <3>1. j \in 1..Len(blocks[x].succ) /\ Len(blocks[x].succ) \in Nat
      BY <1>3, <1>5, <2>1
    <3>3. k' = Len(blocks[x].succ) /\ bid' = x /\ stack'[n].id = x
      BY <1>1, <1>3, <2>1
    <3>2. k' # 0 /\ ~(j > k') /\ stack'[n].id = bid'
      BY <3>1, <3>3
    <3> QED BY <3>2 DEF Looked
  <2>2. CASE n \in ExpandedAt
    <3>4. stack'[n] = stack[n] /\ n \in 1..(L - 1)
      BY <1>7, <2>2
    <3>5. Found(n, j)
      BY <1>1, <1>4, <2>2, <3>4 DEF FrontierInv, Looked
    <3>1. s \in visited \/ \E m \in 1..L : m > n /\ stack[m].id = s
      BY <1>2, <3>4, <3>5 DEF Found
    <3> HIDE DEF s
    <3>2. visited' = visited \cup {x}
      BY <1>1
    <3>3. s \in visited' \/ \E m \in DOMAIN stack' : m > n /\ stack'[m].id = s
      <4>1. CASE s \in visited
        BY <3>2, <4>1
      <4>2. ASSUME NEW m \in 1..L, m > n, stack[m].id = s
            PROVE  s \in visited' \/ (m \in DOMAIN stack' /\ stack'[m].id = s)
        <5>1. CASE m = L
          BY <1>2, <3>2, <4>2, <5>1
        <5>2. CASE m # L
          BY <1>2, <1>3, <4>2, <5>2
        <5> QED BY <5>1, <5>2
      <4> QED BY <3>1, <4>1, <4>2
    <3> QED BY <1>1, <3>3 DEF Found, s
  <2> QED BY <1>6, <2>1, <2>2
<1>12. x \notin Reached(post) /\ visited' = Reached(post') \cup Open'
       /\ Reached(post') \cap Open' = {}
  BY <1>1, <1>4, <1>8
<1> QED BY <1>1, <1>4, <1>9, <1>10, <1>11, <1>12 DEF SearchInv, OrderIsPermutation

LEMMA SearchPush ==
  ASSUME TypeInv, SearchInv, PushSuccessor
  PROVE  SearchInv'
<1> DEFINE L == Len(stack)
           x == blocks[bid].succ[k]
<1>1. /\ TypeOK /\ pc = "dfs" /\ pc' = "dfs" /\ k \in Nat /\ k > 0 /\ k' = k - 1
      /\ stack' = IF x \in visited THEN stack ELSE Append(stack, Entry(x, FALSE))
      /\ UNCHANGED <<blocks, visited, post, bid, order>> /\ Ids' = Ids
  BY DEF PushSuccessor, TypeInv, TypeOK, Ids
<1>2. x \in Ids
  <2>1. bid \in Ids /\ k <= Len(blocks[bid].succ) /\ blocks[bid].succ \in Seq(Ids)
    BY <1>1 DEF TypeInv, TypeOK, BlockRecord
  <2> QED BY <1>1, <2>1
<1>3. L \in Nat /\ DOMAIN stack = 1..L /\ ExpandedAt \subseteq 1..L /\ (stack # <<>> => L >= 1)
  BY <1>1, StackShape
<1>4. /\ visited = Reached(post) \cup Open /\ Reached(post) \cap Open = {}
      /\ Distinct(post) /\ RootInv /\ FrontierInv
      /\ \A m, n \in ExpandedAt : stack[m].id = stack[n].id => m = n
  BY <1>1 DEF SearchInv
<1>5. stack # <<>> /\ stack[1].expanded /\ Least(stack[1].id, Ids)
  BY <1>1, <1>4 DEF RootInv
<1> HIDE DEF L, x
<1>6. /\ \A n \in 1..L : stack'[n] = stack[n]
      /\ 1..L \subseteq DOMAIN stack' /\ stack' # <<>>
      /\ ExpandedAt' = ExpandedAt
      /\ x \in visited \/ \E m \in DOMAIN stack' : m > L /\ stack'[m].id = x
  <2>1. CASE x \in visited
    <3>1. stack' = stack
      BY <1>1, <2>1
    <3>2. ExpandedAt' = ExpandedAt
      BY <3>1 DEF ExpandedAt
    <3> QED BY <1>3, <1>5, <2>1, <3>1, <3>2
  <2>2. CASE x \notin visited
    <3>1. /\ DOMAIN stack' = 1..(L + 1) /\ stack' # <<>>
          /\ \A n \in 1..L : stack'[n] = stack[n]
          /\ stack'[L + 1].id = x /\ stack'[L + 1].expanded = FALSE
      <4> DEFINE t == Append(stack, Entry(x, FALSE))
      <4>1. stack' = t
        BY <1>1, <2>2
      <4>2. stack \in Seq([id : Ids, expanded : BOOLEAN]) /\ FALSE \in BOOLEAN
        BY <1>1 DEF TypeOK
      <4>3. /\ DOMAIN t = 1..(L + 1) /\ t # <<>>
            /\ \A n \in 1..L : t[n] = stack[n]
            /\ t[L + 1].id = x /\ t[L + 1].expanded = FALSE
        BY <1>1, <1>2, <4>2, PushFacts DEF L
      <4> HIDE DEF t
      <4> QED BY <4>1, <4>3
    <3>2. ExpandedAt' = ExpandedAt
      BY <1>3, <3>1 DEF ExpandedAt
    <3> QED BY <1>3, <3>1, <3>2
  <2> QED BY <2>1, <2>2
<1>7. Open' = Open /\ \A n \in ExpandedAt : stack'[n] = stack[n]
  BY <1>3, <1>6 DEF Open
<1>8. RootInv'
  <2>1. stack'[1] = stack[1]
    BY <1>3, <1>5, <1>6
  <2> QED BY <1>1, <1>5, <1>6, <2>1 DEF RootInv
<1>9. FrontierInv'
  <2> SUFFICES ASSUME NEW n \in ExpandedAt, NEW j \in DOMAIN blocks[stack[n].id].succ,
                      Looked(n, j)'
               PROVE  Found(n, j)'
    BY <1>1, <1>6, <1>7 DEF FrontierInv
  <2> DEFINE s == blocks[stack[n].id].succ[j]
  <2>1. n \in 1..L /\ stack'[n] = stack[n]
    BY <1>3, <1>7
  <2>2. j \in Nat
    <3>1. stack[n].id \in Ids
      BY <1>1, StackShape DEF Open
    <3>2. blocks[stack[n].id].succ \in Seq(Ids)
      BY <1>1, <3>1 DEF TypeOK, BlockRecord
    <3> QED BY <3>2
  <2>3. CASE Looked(n, j)
    <3>1. Found(n, j)
      BY <1>4, <2>3 DEF FrontierInv
    <3>2. s \in visited \/ \E m \in 1..L : m > n /\ stack[m].id = s
      BY <1>3, <3>1 DEF Found
    <3>3. s \in visited' \/ \E m \in DOMAIN stack' : m > n /\ stack'[m].id = s
      BY <1>1, <1>6, <3>2
    <3> QED BY <1>1, <2>1, <3>3 DEF Found
  <2>4. CASE ~Looked(n, j)
    <3>1. stack[n].id = bid /\ j <= k /\ (k - 1 = 0 \/ j > k - 1)
      <4>1. stack[n].id = bid /\ ~(j > k)
        BY <2>4 DEF Looked
      <4>2. k' = 0 \/ stack'[n].id # bid' \/ j > k'
        BY DEF Looked
      <4>3. k' = k - 1 /\ bid' = bid /\ stack'[n].id = stack[n].id
        BY <1>1, <2>1
      <4>4. k \in Nat /\ k > 0
        BY <1>1
      <4>5. k - 1 = 0 \/ j > k - 1
        BY <4>1, <4>2, <4>3
      <4> QED BY <2>2, <4>1, <4>4, <4>5
    <3>2. j >= 1
      <4>1. stack[n].id \in Ids
        BY <1>1, StackShape DEF Open
      <4>2. blocks[stack[n].id].succ \in Seq(Ids)
        BY <1>1, <4>1 DEF TypeOK, BlockRecord
      <4> QED BY <4>2
    <3>3. s = x
      BY <1>1, <2>2, <3>1, <3>2 DEF x
    <3>4. x \in visited' \/ \E m \in DOMAIN stack' : m > n /\ stack'[m].id = x
      <4>1. CASE x \in visited
        BY <1>1, <4>1
      <4>2. ASSUME NEW m \in DOMAIN stack', m > L, stack'[m].id = x PROVE m > n
        <5>1. m \in Int
          BY <1>1, <1>6, <1>3, <4>2
        <5> QED BY <1>3, <2>1, <4>2, <5>1
      <4> QED BY <1>6, <4>1, <4>2
    <3> QED BY <1>1, <2>1, <3>3, <3>4 DEF Found
  <2> QED BY <2>3, <2>4
<1>10. \A m, n \in ExpandedAt' : stack'[m].id = stack'[n].id => m = n
  BY <1>4, <1>6, <1>7
<1> QED BY <1>1, <1>4, <1>7, <1>8, <1>9, <1>10 DEF SearchInv, OrderIsPermutation

LEMMA SearchOrder ==
  ASSUME TypeInv, SearchInv,
         SearchDone \/ CheckLayout \/ \E b \in Ids : AppendUnreachable(b)
  PROVE  SearchInv'
<1>0. TypeOK
  BY DEF TypeInv
<1>1. CASE SearchDone
  <2>1. /\ pc = "dfs" /\ pc' = "rest" /\ stack = <<>> /\ order' = Reverse(post)
        /\ todo' = Ids \ visited /\ UNCHANGED <<blocks, visited, post>> /\ Ids' = Ids
    BY <1>1 DEF SearchDone, Ids
  <2>2. /\ visited = Reached(post) \cup Open /\ Distinct(post) /\ post # <<>>
        /\ Least(post[Len(post)], Ids) /\ post \in Seq(Ids)
    BY <1>0, <2>1 DEF SearchInv, RootInv, TypeOK
  <2>3. Open = {}
    BY <2>1 DEF Open, ExpandedAt
  <2>4. /\ Distinct(order') /\ Reached(order') = Reached(post) /\ order' # <<>>
        /\ order'[1] = post[Len(post)]
    BY <2>1, <2>2, ReverseFacts
  <2>5. Reached(post) \subseteq Ids
    BY <2>2 DEF Reached
  <2>6. Reached(order') = Ids' \ todo'
    BY <2>1, <2>2, <2>3, <2>4, <2>5
  <2> QED BY <2>1, <2>2, <2>4, <2>6 DEF SearchInv, OrderIsPermutation
<1>2. CASE CheckLayout
  <2>1. /\ pc = "rest" /\ pc' \in {"done", "err"} /\ todo = {} /\ Ids' = Ids
        /\ UNCHANGED <<blocks, order>>
    BY <1>2 DEF CheckLayout, Fail, Ids, dfs_vars
  <2>2. Distinct(order) /\ Least(order[1], Ids) /\ Reached(order) = Ids
    BY <2>1 DEF SearchInv
  <2> QED BY <2>1, <2>2 DEF SearchInv, OrderIsPermutation, Distinct, Reached, Least
<1>3. ASSUME NEW b \in Ids, AppendUnreachable(b) PROVE SearchInv'
  <2>1. /\ pc = "rest" /\ pc' = "rest" /\ b \in todo /\ order' = Append(order, b)
        /\ todo' = todo \ {b} /\ Ids' = Ids
    BY <1>3 DEF AppendUnreachable, Least, Ids
  <2>2. /\ Distinct(order) /\ order # <<>> /\ Least(order[1], Ids)
        /\ Reached(order) = Ids \ todo /\ order \in Seq(Ids)
    BY <1>0, <2>1 DEF SearchInv, TypeOK
  <2>3. Distinct(order') /\ Reached(order') = Reached(order) \cup {b}
    BY <2>1, <2>2, AppendDistinct, AppendReached
  <2>4. order' # <<>> /\ order'[1] = order[1]
    BY <2>1, <2>2
  <2>5. Reached(order') = Ids' \ todo'
    BY <2>1, <2>2, <2>3
  <2> QED BY <2>1, <2>2, <2>3, <2>4, <2>5 DEF SearchInv, OrderIsPermutation, Least
<1> QED BY <1>1, <1>2, <1>3

LEMMA SearchStep == TypeInv /\ SearchInv /\ [Next]_vars => SearchInv'
<1> SUFFICES ASSUME TypeInv, SearchInv, [Next]_vars PROVE SearchInv'
  OBVIOUS
<1>1. CASE UNCHANGED vars
  <2>1. UNCHANGED <<pc, k, todo, blocks, visited, stack, post, bid, order>>
    BY <1>1 DEF vars, dfs_vars
  <2>2. Ids' = Ids /\ ExpandedAt' = ExpandedAt
    BY <2>1 DEF Ids, ExpandedAt
  <2>3. Open' = Open
    BY <2>1, <2>2 DEF Open
  <2>4. RootInv' = RootInv
    BY <2>1, <2>2 DEF RootInv
  <2>5. FrontierInv => FrontierInv'
    BY <2>1, <2>2 DEF FrontierInv, Looked, Found
  <2>6. OrderIsPermutation => OrderIsPermutation'
    BY <2>1, <2>2 DEF OrderIsPermutation
  <2> QED BY <2>1, <2>2, <2>3, <2>4, <2>5, <2>6 DEF SearchInv
<1>2. CASE Next
  BY <1>2, SearchBefore, SearchFinish, SearchSkip, SearchExpand, SearchPush, SearchOrder
<1> QED BY <1>1, <1>2

(* block_order lists every block exactly once and the lowest one first,    *)
(* for every graph: the search misses no reachable block, finishes none    *)
(* twice, and the blocks it does not reach are appended once.              *)
THEOREM OrderCorrect == Spec => []OrderIsPermutation
<1>1. TypeInv /\ SearchInv => OrderIsPermutation
  BY DEF SearchInv
<1> QED BY <1>1, TypeInit, TypeStep, SearchInit, SearchStep, PTL DEF Spec

(* A block is finished only when all its successors have been found: what  *)
(* makes block_order a reverse post-order.                                 *)
THEOREM PostOrderCorrect == Spec => PostAfterSuccessors
<1>1. TypeInv /\ SearchInv /\ [Next]_vars =>
        [Finish => Reached(blocks[Top.id].succ) \subseteq visited]_vars
  BY SearchFinish
<1> QED BY <1>1, TypeInit, TypeStep, SearchInit, SearchStep, PTL DEF Spec, PostAfterSuccessors

=============================================================================
