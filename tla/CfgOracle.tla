------------------------------ MODULE CfgOracle ------------------------------
(***************************************************************************)
(* The reference control-flow graph of cfg_oracle.rs: the textbook leader  *)
(* construction written independently of Cfg::build, and the projection    *)
(* (to_shape) under which the differential fuzz target compares the two.   *)
(*                                                                         *)
(* A program p is the input of both builders: p.insts, p.handlers and      *)
(* p.code (see HermesInsn).                                                *)
(***************************************************************************)
EXTENDS HermesInsn, FiniteSets, FiniteSetsExt

Indices(p) == DOMAIN p.insts

InstOffsets(p) == {p.insts[k].off : k \in Indices(p)}

(* oracle_has_branch_target: jumps, conditional branches and the two       *)
(* generator-resume opcodes, by name rather than by operand shape.         *)
OracleBranchTarget(i) ==
  IF i.kind \in {"jmp", "cond", "save"} THEN SignedTarget(i.off, i.rel) ELSE None

OracleSwitchDefault(i) == SignedTarget(i.off, i.rel)

(* Case targets; a table whose start overflows has none. *)
OracleCaseTargets(i, code) ==
  IF TableOverflows(i) THEN {}
  ELSE LET entries == EntriesFrom(i, code, i.off + i.tab)
       IN {SignedTarget(i.off, entries[j].rel) : j \in DOMAIN entries}

(* Rules 2 and 3 for one instruction, before the instruction-aligned test. *)
OracleLeadersOf(i, code) ==
  UNION { IF i.kind \notin {"plain", "save"} THEN {NextOffset(i)} ELSE {},
          {OracleBranchTarget(i)},
          IF IsSwitch(i)
            THEN {OracleSwitchDefault(i)} \cup OracleCaseTargets(i, code) ELSE {} }

(* Rules 1 to 4; insert_if_instr keeps instruction offsets only. *)
Leaders(p) ==
  IF p.insts = <<>> THEN {0}
  ELSE {p.insts[1].off}
       \cup (InstOffsets(p) \cap
              ((UNION {OracleLeadersOf(p.insts[k], p.code) : k \in Indices(p)})
                \cup UNION {{h.start, h.end, h.target} :
                              h \in {p.handlers[n] : n \in DOMAIN p.handlers}} ))

(* The instructions of the block of leader l: those for which l is the     *)
(* largest leader not past them.                                           *)
OracleBlock(p, l) ==
  {k \in Indices(p) :
     /\ l <= p.insts[k].off
     /\ \A m \in Leaders(p) : m <= p.insts[k].off => m <= l}

OracleLast(p, l) == p.insts[Max(OracleBlock(p, l))]

-----------------------------------------------------------------------------
(* Normal-flow edges <<from, to, kind>> of one block. *)

OracleEdges(p, l) ==
  LET last == OracleLast(p, l)
      To(t, kind) == IF t \in Leaders(p) THEN {<<l, t, kind>>} ELSE {}
      default == OracleSwitchDefault(last)
  IN CASE last.kind \in {"ret", "throw", "unreachable"} -> {}
       [] last.kind = "jmp" -> To(OracleBranchTarget(last), "Branch")
       [] last.kind = "cond" ->
            To(OracleBranchTarget(last), "Branch") \cup
            (IF NextOffset(last) = OracleBranchTarget(last) THEN {}
             ELSE To(NextOffset(last), "FallThrough"))
       [] IsSwitch(last) ->
            To(default, "SwitchDefault") \cup
            UNION {To(t, "Branch") : t \in OracleCaseTargets(last, p.code) \ {default}}
       [] OTHER -> To(NextOffset(last), "FallThrough")

(* The catch target of a block: the last handler, among those whose target *)
(* is a leader, that contains the whole block.                             *)
OracleCatch(p, l) ==
  LET last == OracleLast(p, l)
      covering == {n \in DOMAIN p.handlers :
                     /\ p.handlers[n].target \in Leaders(p)
                     /\ l >= p.handlers[n].start
                     /\ last.off + last.size <= p.handlers[n].end}
  IN IF covering = {} THEN {}
     ELSE {<<l, p.handlers[Max(covering)].target, "ExceptionHandler">>}

NaiveCfg(p) ==
  [leaders |-> Leaders(p),
   edges   |-> IF p.insts = <<>> THEN {}
               ELSE UNION {OracleEdges(p, l) \cup OracleCatch(p, l) : l \in Leaders(p)},
   blocks  |-> [l \in Leaders(p) |-> OracleBlock(p, l)]]

-----------------------------------------------------------------------------
(* Cfg::to_shape: edge kinds are inferred from a block's last instruction  *)
(* and its actual branch or default address.                               *)

ShapeKind(last, target) ==
  CASE last.kind = "jmp" -> "Branch"
    [] last.kind = "cond" ->
         IF target = OracleBranchTarget(last) THEN "Branch" ELSE "FallThrough"
    [] IsSwitch(last) ->
         IF target = OracleSwitchDefault(last) THEN "SwitchDefault" ELSE "Branch"
    [] OTHER -> "FallThrough"

(* `blocks' maps a block id to its record, as Cfg builds it. *)
ToShape(p, blocks) ==
  LET Ids == DOMAIN blocks
      Catch(b) == IF blocks[b].exc \in Ids
                    THEN {<<b, blocks[b].exc, "ExceptionHandler">>} ELSE {}
      Normal(b) == {<<b, blocks[b].succ[n],
                      ShapeKind(p.insts[Max(blocks[b].insts)], blocks[b].succ[n])>> :
                        n \in DOMAIN blocks[b].succ}
  IN [leaders |-> Ids,
      edges   |-> UNION {Catch(b) \cup Normal(b) : b \in Ids},
      blocks  |-> [b \in Ids |-> blocks[b].insts]]

=============================================================================
