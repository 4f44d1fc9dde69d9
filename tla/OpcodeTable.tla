---------------------------- MODULE OpcodeTable ----------------------------
(***************************************************************************)
(* The per-version opcode tables (opcodes.rs, schemas.rs) and what the     *)
(* decoder and the scanner read with them from a function's bytes.         *)
(*                                                                         *)
(* The tables of one version are one sequence of entries, by opcode.  An   *)
(* entry has the instruction size and the operand types of the decoder     *)
(* (SIZES, SCHEMAS), the operands that are string ids (STRING_IDS), and    *)
(* the scanner's own columns: the byte offset and width at which STR_OPS,  *)
(* CALL_OPS and the closure lookup read an id.                             *)
(***************************************************************************)
EXTENDS HermesInsn

CONSTANTS Table,      \* opcode + 1 -> entry
          ByteBase    \* 256

ByteSize ==
  [R |-> 1, U1 |-> 1, A1 |-> 1, U2 |-> 2, R4 |-> 4, U4 |-> 4, A4 |-> 4, I4 |-> 4, D |-> 8]

OpType == DOMAIN ByteSize
Signed == {"A1", "A4", "I4"}

(* Where the scanner reads an id; nowhere when the width is 0. *)
Slot == [at : Nat, width : {0, 1, 2, 4}]

Entry ==
  [size : Nat, types : Seq(OpType), strArgs : SUBSET Nat,
   str : Slot, call : Slot, closure : Slot]

ASSUME TableAssumption == Table \in Seq(Entry) /\ ByteBase \in Nat \ {0, 1}

-----------------------------------------------------------------------------
(* A byte offset p of the code is position p + 1 of the sequence. *)

LittleEndian(code, p, w) ==
  LET upTo[n \in 0..w] == IF n = 0 THEN 0
                          ELSE upTo[n - 1] + code[p + n] * ByteBase^(n - 1)
  IN upTo[w]

TwosComplement(v, w) == IF 2 * v >= ByteBase^w THEN v - ByteBase^w ELSE v

(* One operand of type ot at byte p. *)
OperandValue(code, p, ot) ==
  LET v == LittleEndian(code, p, ByteSize[ot])
  IN IF ot \in Signed THEN TwosComplement(v, ByteSize[ot]) ELSE v

(* The byte at which the k-th operand starts, relative to the opcode. *)
OperandAt(types, k) ==
  LET at[n \in 1..k] == IF n = 1 THEN 1 ELSE at[n - 1] + ByteSize[types[n - 1]]
  IN at[k]

Known(op) == op < Len(Table)

EntryAt(code, p) == Table[code[p + 1] + 1]

(* The instruction at byte p lies in the code. *)
Fits(code, p) == EntryAt(code, p).size # 0 /\ p + EntryAt(code, p).size <= Len(code)

(* The operands of the schema lie in the instruction. *)
OperandsFit(e) ==
  e.types # <<>> =>
    OperandAt(e.types, Len(e.types)) + ByteSize[e.types[Len(e.types)]] <= e.size

(* The scanner can read an instruction at byte p. *)
Readable(code, p) == p < Len(code) /\ Known(code[p + 1]) /\ Fits(code, p)

(* read_operand: an id of the scanner, None when it does not fit. *)
ReadId(code, p, slot) ==
  IF slot.width = 0 \/ p + slot.at + slot.width > Len(code) THEN None
  ELSE LittleEndian(code, p + slot.at, slot.width)

=============================================================================
