----------------------------- MODULE HermesInsn -----------------------------
(***************************************************************************)
(* The decoded instruction stream shared by the control-flow modules: the  *)
(* record decode.rs hands to cfg.rs, its control-flow predicates and the   *)
(* jump-table reads.                                                       *)
(*                                                                         *)
(* An instruction keeps what control flow depends on: its byte offset and  *)
(* size, its control-flow kind (the name tests of decode.rs), the relative *)
(* address operand `rel' (branch target, generator resume label or switch  *)
(* default), the jump-table operand `tab' and the number `cnt' of table    *)
(* entries the operands declare.  Registers and immediates are left out.   *)
(***************************************************************************)
EXTENDS Integers, Sequences

CONSTANTS U32Max,     \* u32::MAX of the offsets
          UsizeMax,   \* usize::MAX of the target the crate is built for
          CaseCap     \* the 65536-entry clamp on a switch table

ASSUME WidthAssumption ==
  U32Max \in Nat /\ UsizeMax \in Nat /\ CaseCap \in Nat /\ U32Max <= UsizeMax

(* No address, no block, no handler: the code's Option::None. *)
None == -1

Kinds == {"plain", "save", "jmp", "cond", "strsw", "intsw", "ret", "throw",
          "unreachable"}

Insn == [off : Nat, size : Nat \ {0}, kind : Kinds, rel : Int, tab : Nat,
         cnt : Int]

Handler == [start : Nat, end : Nat, target : Nat]

(* A table entry as its bytes decode: the string id (StringSwitchImm only) *)
(* and the signed jump offset.                                             *)
TableEntry == [id : Nat, rel : Int]

(* What decode_function returns: instructions that tile the code from 0. *)
Tiled(insts) ==
  \A k \in DOMAIN insts :
     insts[k].off = IF k = 1 THEN 0 ELSE insts[k - 1].off + insts[k - 1].size

-----------------------------------------------------------------------------
(* decode.rs predicates on the instruction name.                           *)

IsUnconditionalJump(i) == i.kind = "jmp"
IsConditionalBranch(i) == i.kind = "cond"
IsSwitch(i) == i.kind \in {"strsw", "intsw"}
IsJump(i) == i.kind \in {"jmp", "cond", "strsw", "intsw"}

(* Every J* instruction, every switch, Ret, Throw and Unreachable end a    *)
(* block; SaveGenerator does not.                                          *)
IsTerminator(i) == IsJump(i) \/ i.kind \in {"ret", "throw", "unreachable"}

(* inst_next_offset: checked_add on u32. *)
NextOffset(i) == IF i.off + i.size <= U32Max THEN i.off + i.size ELSE None

(* signed_target: checked_add_signed on u32. *)
SignedTarget(base, rel) ==
  IF base + rel \in 0..U32Max THEN base + rel ELSE None

(* branch_target: the first operand, when it is an Addr; the schemas put   *)
(* an Addr first in the J* and SaveGenerator opcodes only.                 *)
BranchTarget(i) ==
  IF i.kind \in {"jmp", "cond", "save"} THEN SignedTarget(i.off, i.rel) ELSE None

-----------------------------------------------------------------------------
(* Jump tables.  `code' is the byte buffer handed to Cfg::build: its       *)
(* length and, for each byte offset, the entry read there.                 *)

(* StringSwitchImm entries are two big-endian words, the others one        *)
(* little-endian word.                                                     *)
EntryWidth(i) == IF i.kind = "strsw" THEN 8 ELSE 4

(* min(65536) on numCases, clamp(0, 65536) on max - min + 1. *)
EntryCount(i) ==
  IF i.cnt < 0 THEN 0 ELSE IF i.cnt > CaseCap THEN CaseCap ELSE i.cnt

TableOverflows(i) == i.off + i.tab > UsizeMax

(* How many whole entries lie between byte `start' and the end of the      *)
(* buffer (or of the address space).                                       *)
ReadableEntries(i, code, start) ==
  LET limit == IF code.len <= UsizeMax THEN code.len ELSE UsizeMax
  IN IF start > limit THEN 0 ELSE (limit - start) \div EntryWidth(i)

(* The in-bounds entries of a table that starts at byte `start', in table  *)
(* order.  Offsets grow with the index, so they are a prefix of the table. *)
EntriesFrom(i, code, start) ==
  LET n == IF EntryCount(i) <= ReadableEntries(i, code, start)
             THEN EntryCount(i) ELSE ReadableEntries(i, code, start)
  IN [j \in 1..n |-> code.at[start + (j - 1) * EntryWidth(i)]]

=============================================================================
