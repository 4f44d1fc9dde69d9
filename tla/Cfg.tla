--------------------------------- MODULE Cfg ---------------------------------
(***************************************************************************)
(* Cfg::build (decompile/cfg.rs): from decoded instructions, exception     *)
(* handlers and raw bytecode to a control-flow graph, one action per loop  *)
(* iteration of its five steps.                                            *)
(*                                                                         *)
(*   boundaries -> split -> edges (<-> cases) -> link -> handlers          *)
(*     -> dfs -> rest -> check -> done,   or err                           *)
(*                                                                         *)
(* The input is a program that Init chooses and no step changes.  A block  *)
(* keeps the set of indices of its instructions (the code's Vec holds the  *)
(* instructions themselves, in index order).                               *)
(***************************************************************************)
EXTENDS CfgOracle, SequencesExt

CONSTANT Programs   \* the inputs [insts, handlers, code] to build from

ASSUME ProgramsAssumption ==
  \A p \in Programs :
     /\ p.insts \in Seq(Insn) /\ Tiled(p.insts)
     /\ p.handlers \in Seq(Handler)
     /\ p.code.len \in Nat
     /\ p.code.at \in [0..(p.code.len - 1) -> TableEntry]

VARIABLES prog,        \* the input
          pc,          \* the step being executed
          k,           \* the loop index of the step
          boundaries,  \* addresses where a block starts
          cur,         \* current_block_insts
          start,       \* current_start
          blocks,      \* block id -> block
          todo,        \* the blocks the current loop has not reached
          succs,       \* the successors of the switch being read
          ids,         \* its string ids
          visited, stack, post,   \* the depth-first search; top of stack last
          bid,         \* the block the search expands
          order,       \* block_order
          err          \* the error returned

split_vars == <<boundaries, cur, start>>
edge_vars == <<succs, ids>>
dfs_vars == <<visited, stack, post, bid, order>>
vars == <<prog, pc, k, split_vars, blocks, todo, edge_vars, dfs_vars, err>>

Insts == prog.insts
Ids == DOMAIN blocks
Reached(s) == {s[n] : n \in DOMAIN s}
Least(b, S) == b \in S /\ \A c \in S : b <= c

Block(first, past, insts) ==
  [start |-> first, end |-> past, insts |-> insts, succ |-> <<>>, pred |-> <<>>,
   exc |-> None, ids |-> <<>>]

LastInst(b) == Insts[Max(blocks[b].insts)]

Fail(e) == pc' = "err" /\ err' = e

-----------------------------------------------------------------------------
(* Step 1: block boundaries.                                               *)

(* Addresses one instruction contributes; a table whose start overflows    *)
(* usize contributes no case target.                                       *)
BoundariesOf(i) ==
  LET Targets(entries) == {SignedTarget(i.off, entries[j].rel) : j \in DOMAIN entries}
  IN ((IF IsTerminator(i) THEN {NextOffset(i)} ELSE {})
      \cup {BranchTarget(i)}
      \cup (IF IsSwitch(i) THEN {SignedTarget(i.off, i.rel)} ELSE {})
      \cup (IF IsSwitch(i) /\ ~TableOverflows(i)
              THEN Targets(EntriesFrom(i, prog.code, i.off + i.tab)) ELSE {})) \ {None}

(* Variant: the end of a try range starts no block. *)
HandlerBoundariesNoEnd == UNION {{h.start, h.target} : h \in Reached(prog.handlers)}

HandlerBoundaries ==
  UNION {{h.start, h.end, h.target} : h \in Reached(prog.handlers)}

FindBoundaries ==
  /\ pc = "boundaries" /\ Insts # <<>>
  /\ IF \E i \in Reached(Insts) : NextOffset(i) = None
       THEN Fail("ArithmeticOverflow") /\ UNCHANGED boundaries
       ELSE /\ boundaries' = {0} \cup HandlerBoundaries
                                 \cup UNION {BoundariesOf(i) : i \in Reached(Insts)}
            /\ pc' = "split" /\ UNCHANGED err
  /\ UNCHANGED <<prog, k, cur, start, blocks, todo, edge_vars, dfs_vars>>

(* An empty function is one empty block. *)
EmptyFunction ==
  /\ pc = "boundaries" /\ Insts = <<>>
  /\ blocks' = [b \in {0} |-> Block(0, 0, {})]
  /\ order' = <<0>> /\ pc' = "done"
  /\ UNCHANGED <<prog, k, split_vars, todo, edge_vars, visited, stack, post, bid, err>>

-----------------------------------------------------------------------------
(* Step 2: split the instructions at the boundaries.                       *)

AddBlock(past) ==
  blocks' = [b \in Ids \cup {start} |->
               IF b = start THEN Block(start, past, cur) ELSE blocks[b]]

(* Variant: a finished block takes the splitting instruction with it. *)
SplitLosingInst ==
  /\ pc = "split" /\ k <= Len(Insts)
  /\ LET o == Insts[k].off
     IN IF o \in boundaries /\ cur # {}
          THEN AddBlock(o) /\ cur' = {} /\ start' = o
          ELSE cur' = cur \cup {k} /\ start' = o /\ UNCHANGED blocks
  /\ k' = k + 1
  /\ UNCHANGED <<prog, pc, boundaries, todo, edge_vars, dfs_vars, err>>

Split ==
  /\ pc = "split" /\ k <= Len(Insts)
  /\ LET o == Insts[k].off
     IN IF o \in boundaries /\ cur # {}
          THEN AddBlock(o) /\ cur' = {k} /\ start' = o
          ELSE /\ cur' = cur \cup {k}
               /\ start' = IF cur = {} THEN o ELSE start
               /\ UNCHANGED blocks
  /\ k' = k + 1
  /\ UNCHANGED <<prog, pc, boundaries, todo, edge_vars, dfs_vars, err>>

CloseLastBlock ==
  /\ pc = "split" /\ k > Len(Insts)
  /\ AddBlock(NextOffset(Insts[Len(Insts)]))
  /\ todo' = Ids \cup {start}
  /\ pc' = "edges"
  /\ UNCHANGED <<prog, k, split_vars, edge_vars, dfs_vars, err>>

-----------------------------------------------------------------------------
(* Step 3: successors, block by block in id order, then predecessors.      *)

(* Variant: a target is taken for a block without looking it up. *)
PresentUnchecked(t) == IF t # None THEN <<t>> ELSE <<>>

Present(t) == IF t \in Ids THEN <<t>> ELSE <<>>

NextId(b, c) == Least(c, {d \in Ids : d > b})
NextBlock(b) ==
  IF \E c \in Ids : NextId(b, c) THEN <<CHOOSE c \in Ids : NextId(b, c)>> ELSE <<>>

(* Successors of a block that does not end in a switch. *)
Successors(b) ==
  LET last == LastInst(b)
  IN IF IsUnconditionalJump(last) THEN Present(BranchTarget(last))
     ELSE IF IsConditionalBranch(last)
       THEN Present(BranchTarget(last)) \o Present(NextOffset(last))
     ELSE IF last.kind \in {"ret", "throw", "unreachable"} THEN <<>>
     ELSE NextBlock(b)

(* A table start that overflows reads as 0 here (unwrap_or_default). *)
CaseTable(i) ==
  EntriesFrom(i, prog.code, IF TableOverflows(i) THEN 0 ELSE i.off + i.tab)

Edges(b) ==
  /\ pc = "edges" /\ Least(b, todo)
  /\ IF IsSwitch(LastInst(b))
       THEN /\ succs' = Present(SignedTarget(LastInst(b).off, LastInst(b).rel))
            /\ ids' = <<>> /\ k' = 1 /\ pc' = "cases"
            /\ UNCHANGED <<blocks, todo>>
       ELSE /\ blocks' = [blocks EXCEPT ![b].succ = Successors(b)]
            /\ todo' = todo \ {b}
            /\ UNCHANGED <<edge_vars, k, pc>>
  /\ UNCHANGED <<prog, split_vars, dfs_vars, err>>

(* Variant: string ids are collected in the opposite order. *)
PushCaseIdsReversed(b) ==
  /\ pc = "cases" /\ Least(b, todo)
  /\ k <= Len(CaseTable(LastInst(b)))
  /\ LET i == LastInst(b)
         entry == CaseTable(i)[k]
         t == SignedTarget(i.off, entry.rel)
     IN /\ ids' = IF i.kind = "strsw" THEN <<entry.id>> \o ids ELSE ids
        /\ succs' = IF t \in Ids /\ t \notin Reached(succs) THEN Append(succs, t) ELSE succs
  /\ k' = k + 1
  /\ UNCHANGED <<prog, pc, split_vars, blocks, todo, dfs_vars, err>>

(* One table entry: every string id is kept, a target only once. *)
PushCase(b) ==
  /\ pc = "cases" /\ Least(b, todo)
  /\ k <= Len(CaseTable(LastInst(b)))
  /\ LET i == LastInst(b)
         entry == CaseTable(i)[k]
         t == SignedTarget(i.off, entry.rel)
     IN /\ ids' = IF i.kind = "strsw" THEN Append(ids, entry.id) ELSE ids
        /\ succs' = IF t \in Ids /\ t \notin Reached(succs) THEN Append(succs, t) ELSE succs
  /\ k' = k + 1
  /\ UNCHANGED <<prog, pc, split_vars, blocks, todo, dfs_vars, err>>

CloseSwitch(b) ==
  /\ pc = "cases" /\ Least(b, todo)
  /\ k > Len(CaseTable(LastInst(b)))
  /\ blocks' = [blocks EXCEPT ![b].succ = succs, ![b].ids = ids]
  /\ todo' = todo \ {b} /\ pc' = "edges"
  /\ UNCHANGED <<prog, k, split_vars, edge_vars, dfs_vars, err>>

EdgesDone ==
  /\ pc = "edges" /\ todo = {}
  /\ pc' = "link" /\ todo' = Ids
  /\ UNCHANGED <<prog, k, split_vars, blocks, edge_vars, dfs_vars, err>>

Count(s, x) == Cardinality({n \in DOMAIN s : s[n] = x})

(* Variant: a predecessor is recorded once however many edges there are. *)
LinkOnce(b) ==
  /\ pc = "link" /\ Least(b, todo)
  /\ blocks' = [t \in Ids |-> [blocks[t] EXCEPT
                  !.pred = IF t \in Reached(blocks[b].succ) THEN Append(@, b) ELSE @]]
  /\ todo' = todo \ {b}
  /\ UNCHANGED <<prog, pc, k, split_vars, edge_vars, dfs_vars, err>>

(* Every successor occurrence of b becomes a predecessor occurrence. *)
Link(b) ==
  /\ pc = "link" /\ Least(b, todo)
  /\ blocks' = [t \in Ids |-> [blocks[t] EXCEPT
                  !.pred = @ \o [n \in 1..Count(blocks[b].succ, t) |-> b]]]
  /\ todo' = todo \ {b}
  /\ UNCHANGED <<prog, pc, k, split_vars, edge_vars, dfs_vars, err>>

LinkDone ==
  /\ pc = "link" /\ todo = {}
  /\ pc' = "handlers" /\ k' = 1
  /\ UNCHANGED <<prog, split_vars, blocks, todo, edge_vars, dfs_vars, err>>

-----------------------------------------------------------------------------
(* Step 4: exception handlers, the last one that contains a block wins.    *)

(* Variant: a handler covers the blocks its range overlaps. *)
CoversOverlap(h, blk) == blk.start < h.end /\ blk.end > h.start

Covers(h, blk) == blk.start >= h.start /\ blk.end <= h.end

MapHandler ==
  /\ pc = "handlers" /\ k <= Len(prog.handlers)
  /\ LET h == prog.handlers[k]
     IN IF h.target \notin Ids
          THEN Fail("InvalidExceptionHandlerTarget") /\ UNCHANGED <<blocks, k>>
          ELSE /\ blocks' = [b \in Ids |-> IF Covers(h, blocks[b])
                               THEN [blocks[b] EXCEPT !.exc = h.target] ELSE blocks[b]]
               /\ k' = k + 1 /\ UNCHANGED <<pc, err>>
  /\ UNCHANGED <<prog, split_vars, todo, edge_vars, dfs_vars>>

-----------------------------------------------------------------------------
(* Step 5: reverse post-order by an iterative depth-first search.  After   *)
(* a block is first popped, k counts down its successors still to push.    *)

Entry(id, expanded) == [id |-> id, expanded |-> expanded]
Top == stack[Len(stack)]
Popped == SubSeq(stack, 1, Len(stack) - 1)

StartSearch(b) ==
  /\ pc = "handlers" /\ k > Len(prog.handlers)
  /\ Least(b, Ids)
  /\ stack' = <<Entry(b, FALSE)>>
  /\ pc' = "dfs" /\ k' = 0
  /\ UNCHANGED <<prog, split_vars, blocks, todo, edge_vars, visited, post, bid, order,
                 err>>

(* The second pop of a block: all it reaches first is in post. *)
Finish ==
  /\ pc = "dfs" /\ k = 0 /\ stack # <<>> /\ Top.expanded
  /\ post' = Append(post, Top.id) /\ stack' = Popped
  /\ UNCHANGED <<prog, pc, k, split_vars, blocks, todo, edge_vars, visited, bid, order,
                 err>>

(* Variant: an entry already visited is left on the stack. *)
SkipNoPop ==
  /\ pc = "dfs" /\ k = 0 /\ stack # <<>> /\ ~Top.expanded /\ Top.id \in visited
  /\ UNCHANGED vars

Skip ==
  /\ pc = "dfs" /\ k = 0 /\ stack # <<>> /\ ~Top.expanded /\ Top.id \in visited
  /\ stack' = Popped
  /\ UNCHANGED <<prog, pc, k, split_vars, blocks, todo, edge_vars, visited, post,
                 bid, order, err>>

(* Variant: the last successor is not pushed. *)
ExpandShort ==
  /\ pc = "dfs" /\ k = 0 /\ stack # <<>> /\ ~Top.expanded /\ Top.id \notin visited
  /\ visited' = visited \cup {Top.id}
  /\ stack' = Append(Popped, Entry(Top.id, TRUE))
  /\ bid' = Top.id
  /\ k' = IF blocks[Top.id].succ = <<>> THEN 0 ELSE Len(blocks[Top.id].succ) - 1
  /\ UNCHANGED <<prog, pc, split_vars, blocks, todo, edge_vars, post, order, err>>

Expand ==
  /\ pc = "dfs" /\ k = 0 /\ stack # <<>> /\ ~Top.expanded /\ Top.id \notin visited
  /\ visited' = visited \cup {Top.id}
  /\ stack' = Append(Popped, Entry(Top.id, TRUE))
  /\ bid' = Top.id
  /\ k' = Len(blocks[Top.id].succ)
  /\ UNCHANGED <<prog, pc, split_vars, blocks, todo, edge_vars, post, order, err>>

(* Variant: a block is marked visited when it is pushed. *)
PushSuccessorMarking ==
  /\ pc = "dfs" /\ k > 0
  /\ LET s == blocks[bid].succ[k]
     IN /\ stack' = IF s \in visited THEN stack ELSE Append(stack, Entry(s, FALSE))
        /\ visited' = visited \cup {s}
  /\ k' = k - 1
  /\ UNCHANGED <<prog, pc, split_vars, blocks, todo, edge_vars, post, bid, order, err>>

PushSuccessor ==
  /\ pc = "dfs" /\ k > 0
  /\ LET s == blocks[bid].succ[k]
     IN stack' = IF s \in visited THEN stack ELSE Append(stack, Entry(s, FALSE))
  /\ k' = k - 1
  /\ UNCHANGED <<prog, pc, split_vars, blocks, todo, edge_vars, visited, post, bid, order,
                 err>>

(* Variant: the post-order is not reversed. *)
SearchDonePostOrder ==
  /\ pc = "dfs" /\ k = 0 /\ stack = <<>>
  /\ order' = post
  /\ todo' = Ids \ visited
  /\ pc' = "rest"
  /\ UNCHANGED <<prog, k, split_vars, blocks, edge_vars, visited, stack, post, bid, err>>

SearchDone ==
  /\ pc = "dfs" /\ k = 0 /\ stack = <<>>
  /\ order' = Reverse(post)
  /\ todo' = Ids \ visited
  /\ pc' = "rest"
  /\ UNCHANGED <<prog, k, split_vars, blocks, edge_vars, visited, stack, post, bid, err>>

(* Variant: unreachable blocks go before the body. *)
PrependUnreachable(b) ==
  /\ pc = "rest" /\ Least(b, todo)
  /\ order' = <<b>> \o order /\ todo' = todo \ {b}
  /\ UNCHANGED <<prog, pc, k, split_vars, blocks, edge_vars, visited, stack, post, bid, err>>

(* Unreachable blocks (catch handlers) go last, sorted by id. *)
AppendUnreachable(b) ==
  /\ pc = "rest" /\ Least(b, todo)
  /\ order' = Append(order, b) /\ todo' = todo \ {b}
  /\ UNCHANGED <<prog, pc, k, split_vars, blocks, edge_vars, visited, stack, post, bid, err>>

-----------------------------------------------------------------------------
(* Invariant 7 and the exception predecessors. *)

Pos(b) == CHOOSE n \in DOMAIN order : order[n] = b

CatchMisplaced(b) == blocks[b].exc # None /\ Pos(b) >= Pos(blocks[b].exc)

CheckLayout ==
  /\ pc = "rest" /\ todo = {}
  /\ IF \E b \in Ids : CatchMisplaced(b)
       THEN Fail("InvalidExceptionLayout")
       ELSE pc' = "done" /\ UNCHANGED err
  /\ UNCHANGED <<prog, k, split_vars, blocks, todo, edge_vars, dfs_vars>>

(* exc_predecessors: the try blocks that flow to catch block c. *)
ExcPredecessors(c) == {b \in Ids : blocks[b].exc = c}

-----------------------------------------------------------------------------
Init ==
  /\ prog \in Programs
  /\ pc = "boundaries" /\ k = 1
  /\ boundaries = {} /\ cur = {} /\ start = 0
  /\ blocks = [b \in {} |-> Block(0, 0, {})] /\ todo = {}
  /\ succs = <<>> /\ ids = <<>>
  /\ visited = {} /\ stack = <<>> /\ post = <<>> /\ bid = 0 /\ order = <<>>
  /\ err = "none"

BlockStep(b) ==
  \/ Edges(b) \/ PushCase(b) \/ CloseSwitch(b) \/ Link(b)
  \/ StartSearch(b) \/ AppendUnreachable(b)

(* build has returned. *)
Returned == pc \in {"done", "err"} /\ UNCHANGED vars

Next ==
  \/ FindBoundaries \/ EmptyFunction \/ Split \/ CloseLastBlock
  \/ \E b \in Ids : BlockStep(b)
  \/ EdgesDone \/ LinkDone \/ MapHandler
  \/ Finish \/ Skip \/ Expand \/ PushSuccessor \/ SearchDone \/ CheckLayout
  \/ Returned

Spec == Init /\ [][Next]_vars

(* build is one sequential call: once entered it keeps running. *)
FairSpec == Spec /\ WF_vars(Next)

=============================================================================
