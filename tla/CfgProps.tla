------------------------------- MODULE CfgProps -------------------------------
(***************************************************************************)
(* What Cfg::build promises to the passes after it (ssa.rs, region.rs,     *)
(* structure.rs), and what its comments say of it.                         *)
(***************************************************************************)
EXTENDS Cfg

Phases == {"boundaries", "split", "edges", "cases", "link", "handlers", "dfs",
           "rest", "done", "err"}

BlockRecord ==
  [start : Nat, end : Nat, insts : SUBSET DOMAIN Insts, succ : Seq(Ids),
   pred : Seq(Ids), exc : Ids \cup {None}, ids : Seq(Nat)]

(* The types of build's locals and of the blocks; successors, predecessors *)
(* and catch targets are always ids of existing blocks.                    *)
TypeOK ==
  /\ pc \in Phases /\ k \in Nat
  /\ boundaries \subseteq Nat /\ cur \subseteq DOMAIN Insts /\ start \in Nat
  /\ Ids \subseteq Nat /\ blocks \in [Ids -> BlockRecord]
  /\ todo \subseteq Ids
  /\ succs \in Seq(Ids) /\ ids \in Seq(Nat)
  /\ visited \subseteq Ids
  /\ stack \in Seq([id : Ids, expanded : BOOLEAN])
  /\ post \in Seq(Ids) /\ bid \in Nat /\ order \in Seq(Ids)
  /\ err \in {"none", "ArithmeticOverflow", "InvalidExceptionHandlerTarget",
              "InvalidExceptionLayout"}

(* The graph equals the oracle's whenever build returns one: the property  *)
(* fuzz_targets/cfg_differential.rs asserts.                               *)
MatchesOracle == pc = "done" => ToShape(prog, blocks) = NaiveCfg(prog)

(* The instructions of the finished blocks. *)
Held == UNION {blocks[b].insts : b \in Ids}

(* Every instruction belongs to exactly one block: the postcondition of    *)
(* build, kept by every iteration of the splitting loop.  That a block's   *)
(* instructions follow one another is part of MatchesOracle.               *)
BlocksPartition ==
  /\ \A b, c \in Ids : b # c => blocks[b].insts \cap blocks[c].insts = {}
  /\ pc = "split" =>
       /\ \A b \in Ids : blocks[b].insts \cap cur = {}
       /\ Held \cup cur = 1..(k - 1)
  /\ pc \notin {"boundaries", "split", "err"} => Held = DOMAIN Insts

(* For every edge A -> B, A is among the predecessors of B as often as B   *)
(* is among the successors of A (a conditional branch to its own           *)
(* fall-through counts twice), for the blocks already linked.              *)
EdgesSymmetric ==
  pc \in {"link", "handlers", "dfs", "rest", "done"} =>
    \A a \in Ids \ (IF pc = "link" THEN todo ELSE {}) : \A b \in Ids :
       Count(blocks[b].pred, a) = Count(blocks[a].succ, b)

(* block_order lists every block exactly once, the lowest block first.     *)
OrderIsPermutation ==
  pc = "done" =>
    /\ Reached(order) = Ids
    /\ \A m, n \in DOMAIN order : order[m] = order[n] => m = n
    /\ Least(order[1], Ids)

-----------------------------------------------------------------------------
(* Reachability over successor edges, by layers. *)
ReachableFrom(b) ==
  LET layer[n \in 0..Cardinality(Ids)] ==
        IF n = 0 THEN {b}
        ELSE layer[n - 1] \cup UNION {Reached(blocks[a].succ) : a \in layer[n - 1]}
  IN layer[Cardinality(Ids)]

EntryId == CHOOSE b \in Ids : Least(b, Ids)

(* In reverse post-order only a loop goes backwards: an edge from a        *)
(* reachable block to one that is not later in block_order closes a cycle. *)
(* SSA construction and the structurer take such an edge for a loop.       *)
BackwardEdgesAreLoops ==
  pc = "done" =>
    \A a \in ReachableFrom(EntryId) : \A b \in Reached(blocks[a].succ) :
      Pos(b) <= Pos(a) => a \in ReachableFrom(b)

(* A block leaves the search only once everything it flows to was found.   *)
PostAfterSuccessors ==
  [][Finish => Reached(blocks[Top.id].succ) \subseteq visited]_vars

(* A handler whose range starts and ends on instructions protects each     *)
(* instruction of its range: splitting at the range's bounds leaves no     *)
(* instruction in a block that sticks out of the range.                    *)
Aligned(h) ==
  /\ h.start \in InstOffsets(prog) /\ h.target \in InstOffsets(prog)
  /\ h.end \in {Insts[n].off + Insts[n].size : n \in DOMAIN Insts}

HandlersProtectInstructions ==
  pc = "done" /\ (\A h \in Reached(prog.handlers) : Aligned(h)) =>
    \A b \in Ids : \A n \in blocks[b].insts :
      LET inside == {m \in DOMAIN prog.handlers :
                       /\ prog.handlers[m].start <= Insts[n].off
                       /\ Insts[n].off + Insts[n].size <= prog.handlers[m].end}
      IN blocks[b].exc = IF inside = {} THEN None
                         ELSE prog.handlers[Max(inside)].target

(* A catch block that normal flow cannot reach and that lies after the     *)
(* range it protects never makes build reject the function, however the    *)
(* protected blocks are reached: the doc of build promises no error for    *)
(* well-formed bundles.                                                    *)
WellFormedLayoutAccepted ==
  pc = "err" /\ err = "InvalidExceptionLayout" =>
    \E h \in Reached(prog.handlers) :
      h.end > h.target \/ h.target \in ReachableFrom(EntryId)

(* region.rs pairs case label n with successor n + 1.  The pairing is the   *)
(* table's own whenever the default and every entry lead to blocks of      *)
(* their own: then entry n of the table is successor n + 1 and string id n.*)
CaseLabelsMatchTargets ==
  pc = "done" /\ Insts # <<>> =>
    \A b \in Ids :
      LET i == LastInst(b)
          table == CaseTable(i)
          default == SignedTarget(i.off, i.rel)
          target == [n \in DOMAIN table |-> SignedTarget(i.off, table[n].rel)]
      IN IsSwitch(i) /\ {default} \cup Reached(target) \subseteq Ids
           /\ Cardinality({default} \cup Reached(target)) = Len(table) + 1 =>
         /\ blocks[b].succ = <<default>> \o target
         /\ i.kind = "strsw" => blocks[b].ids = [n \in DOMAIN table |-> table[n].id]

(* build returns: no input keeps the search or a loop running.             *)
Terminates == <>(pc \in {"done", "err"})

-----------------------------------------------------------------------------
(* What a comment of cfg.rs says, and the code does not do.                *)

(* cfg.rs:52: switch_string_ids is "parallel to successors[1..]".  Stated  *)
(* for switches whose default and entries all lead to blocks.              *)
StringIdsParallel ==
  pc = "done" /\ Insts # <<>> =>
    \A b \in Ids :
      LET i == LastInst(b)
          table == CaseTable(i)
      IN i.kind = "strsw" /\ SignedTarget(i.off, i.rel) \in Ids
           /\ (\A n \in DOMAIN table : SignedTarget(i.off, table[n].rel) \in Ids) =>
         Len(blocks[b].ids) = Len(blocks[b].succ) - 1

(* cfg.rs:346: where the start of a table overflows usize, "bounds check   *)
(* in the inner loop will skip" its entries: only the default is left.     *)
OverflowingTableSkipped ==
  pc = "done" /\ Insts # <<>> =>
    \A b \in Ids :
      LET i == LastInst(b)
      IN IsSwitch(i) /\ TableOverflows(i) =>
           Reached(blocks[b].succ) \subseteq {SignedTarget(i.off, i.rel)}

=============================================================================
