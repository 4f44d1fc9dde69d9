------------------------------- MODULE Decode -------------------------------
(***************************************************************************)
(* decode_function (decompile/decode.rs): the bytes of one function to     *)
(* typed instructions, one loop iteration per step.                        *)
(***************************************************************************)
EXTENDS OpcodeTable

VARIABLES code,      \* the function's bytes
          pos,       \* the byte the loop has reached
          insts,     \* the instructions so far
          outcome    \* idle, running, ok or the error

decode_vars == <<code, pos, insts, outcome>>

DecodedInst(p) ==
  LET e == EntryAt(code, p)
  IN [off |-> p, size |-> e.size, opcode |-> code[p + 1],
      operands |-> [k \in DOMAIN e.types |->
                      OperandValue(code, p + OperandAt(e.types, k), e.types[k])]]

-----------------------------------------------------------------------------
Start(bytes) ==
  /\ outcome' = "running" /\ code' = bytes
  /\ pos' = 0 /\ insts' = <<>>

(* At the next opcode, before anything else is read. *)
AtOpcode == outcome = "running" /\ pos < Len(code)

UnknownOpcode ==
  /\ AtOpcode /\ ~Known(code[pos + 1])
  /\ outcome' = "UnknownOpcode"
  /\ UNCHANGED <<code, pos, insts>>

(* The instruction, or its operands, do not fit. *)
TruncatedStream ==
  /\ AtOpcode /\ Known(code[pos + 1])
  /\ ~(Fits(code, pos) /\ OperandsFit(EntryAt(code, pos)))
  /\ outcome' = "TruncatedInstructionStream"
  /\ UNCHANGED <<code, pos, insts>>

(* Variant: an instruction may run past the end of the function. *)
DecodeInstUnbounded ==
  /\ AtOpcode /\ Known(code[pos + 1])
  /\ EntryAt(code, pos).size # 0
  /\ insts' = Append(insts, [off |-> pos, size |-> EntryAt(code, pos).size,
                             opcode |-> code[pos + 1], operands |-> <<>>])
  /\ pos' = pos + EntryAt(code, pos).size
  /\ UNCHANGED <<code, outcome>>

DecodeInst ==
  /\ AtOpcode /\ Known(code[pos + 1])
  /\ Fits(code, pos) /\ OperandsFit(EntryAt(code, pos))
  /\ insts' = Append(insts, DecodedInst(pos))
  /\ pos' = pos + EntryAt(code, pos).size
  /\ UNCHANGED <<code, outcome>>

DecodeDone ==
  /\ outcome = "running" /\ pos >= Len(code)
  /\ outcome' = "ok"
  /\ UNCHANGED <<code, pos, insts>>

DecodeStep == UnknownOpcode \/ TruncatedStream \/ DecodeInst \/ DecodeDone

=============================================================================
