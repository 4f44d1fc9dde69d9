----------------------------- MODULE OpcodePath -----------------------------
(***************************************************************************)
(* The path of one instruction through the decompiler, for every bytecode  *)
(* version and every opcode byte: the tables are looked up by the version, *)
(* the instruction is decoded (decode_function), converted to an SSA       *)
(* operation (build_ssa), its table indices are resolved (pattern_rewrite, *)
(* resolve_bigints), it is removed when nothing reads it                   *)
(* (dead_code_elimination), and what is left is rendered (build_expr).     *)
(*                                                                         *)
(* The input is a function whose body is one instruction; its frame size,  *)
(* its argument count when it is a variadic call, and what the lookups in  *)
(* the rest of the file find are chosen where the code reads them.         *)
(***************************************************************************)
EXTENDS BuildExpr

CONSTANTS
    Versions,     \* the bytecode versions asked for
    FrameSizes,   \* frame sizes; 0 is "the header does not say"
    Argcs,        \* argument counts of a variadic call, `this' included
    total_insns   \* the instructions of the function, for the argument cap

VARIABLES
    version,      \* the version the tables are asked for
    opcode,       \* the opcode byte
    pc,           \* the stage the instruction is in, or the error it met
    inst,         \* the decoded instruction
    frame,        \* frame size and argument count build_ssa worked with
    operands,     \* the SSA operands, <<>> before build_ssa
    lookups       \* the string looked up has characters; the entry exists

vars == <<version, opcode, pc, inst, frame, operands, lookups>>

NoInst == [name |-> "", op |-> "", op_types |-> <<>>, size |-> 0]

NoFrame == [size |-> 0, argc |-> 0]

Init ==
    /\ version \in Versions
    /\ opcode \in 0 .. 255
    /\ pc = "dispatch"
    /\ inst = NoInst
    /\ frame = NoFrame
    /\ operands = <<>>
    /\ lookups = [text |-> FALSE, found |-> FALSE]

(* get_version_tables, get_version_names, ...: Err(UnsupportedVersion).    *)
RejectVersion ==
    /\ pc = "dispatch" /\ ~Supported(version)
    /\ pc' = "UnsupportedVersion"
    /\ UNCHANGED <<version, opcode, inst, frame, operands, lookups>>

RejectOpcode ==
    /\ pc = "dispatch" /\ Supported(version)
    /\ opcode >= Len(get_version_tables(version).sizes)
    /\ pc' = "UnknownOpcode"
    /\ UNCHANGED <<version, opcode, inst, frame, operands, lookups>>

Decode ==
    /\ pc = "dispatch" /\ Supported(version)
    /\ opcode < Len(get_version_tables(version).sizes)
    /\ inst' = decode_inst(version, opcode)
    /\ pc' = IF Truncated(inst') THEN "TruncatedInstructionStream" ELSE "decoded"
    /\ UNCHANGED <<version, opcode, frame, operands, lookups>>

BuildSsa ==
    /\ pc = "decoded"
    /\ \E size \in FrameSizes, argc \in Argcs :
          /\ ResolvesArgs(inst) \/ (size = 0 /\ argc = 0)
          /\ frame' = [size |-> size, argc |-> argc]
          /\ IF ArgsExceedInput(inst, size, argc, total_insns)
             THEN pc' = "CountExceedsInput" /\ UNCHANGED operands
             ELSE pc' = "ssa" /\ operands' = build_operands(inst, size, argc)
    /\ UNCHANGED <<version, opcode, inst, lookups>>

(* pattern_rewrite resolves the names before dead code goes, resolve_buffers *)
(* and resolve_bigints run after it.                                       *)
Resolve ==
    /\ pc = "ssa"
    /\ lookups' \in [text : BOOLEAN, found : BOOLEAN]
    /\ operands' =
          resolve_bigints(inst.name,
              resolve_buffers(inst.name,
                  ResolveNames(inst.name, operands, lookups'.text), lookups'.found),
              lookups'.found)
    /\ pc' = "resolved"
    /\ UNCHANGED <<version, opcode, inst, frame>>

(* The destination is never read in this function.                         *)
EliminateDeadCode ==
    /\ pc = "resolved" /\ RemovedWhenUnused(inst)
    /\ pc' = "removed"
    /\ UNCHANGED <<version, opcode, inst, frame, operands, lookups>>

Next == RejectVersion \/ RejectOpcode \/ Decode \/ BuildSsa \/ Resolve \/ EliminateDeadCode

Spec == Init /\ [][Next]_vars

-----------------------------------------------------------------------------
(* The tables of two generated files describe one instruction set: what    *)
(* the scanner takes for the size of an instruction is exactly what the    *)
(* decoder reads of it, no supported instruction is cut short, and the     *)
(* three names it goes by (NAMES, OPCODES, SCHEMAS) are one.               *)
TablesAgree ==
    /\ pc # "TruncatedInstructionStream"
    /\ pc = "decoded" =>
          /\ OperandPos(inst.op_types, Len(inst.op_types) + 1) = inst.size
          /\ inst.name = inst.op
          /\ inst.name = get_schema(get_version_schemas(version), opcode)[1]

(* The scanner reads a string id at a byte offset and width of its own     *)
(* table (STR_OPS), the decompiler by operand number (STRING_IDS): they    *)
(* are the same operand, at most one per opcode (OpLookup keeps only one), *)
(* and never a register or a jump.                                         *)
StringOperandsAgree ==
    pc = "decoded" =>
        LET scanned == {<<t[2], t[3]>> : t \in
                           {u \in Range(get_version_tables(version).str_ops) : u[1] = opcode}}
            listed == {t[2] + 1 : t \in
                           {u \in Range(get_string_id_operands(version)) : u[1] = opcode}}
        IN  /\ Cardinality(scanned) <= 1
            /\ listed \subseteq DOMAIN inst.op_types
            /\ \A k \in listed : inst.op_types[k] \in {"U1", "U2", "U4"}
            /\ scanned = {<<OperandPos(inst.op_types, k), byte_size(inst.op_types[k])>> :
                             k \in listed}

(* The scanner finds a callee by CALL_OPS and a closure by the name of its *)
(* instruction, both as bytes at an offset: an instruction has at most one *)
(* such place and it is a whole unsigned operand of the decoder's schema.  *)
FunctionSlotsAgree ==
    pc = "decoded" =>
        LET scanned == closure_ops(inst.name) \cup
                       {<<t[2], t[3]>> : t \in
                           {u \in Range(get_version_tables(version).call_ops) : u[1] = opcode}}
        IN  /\ Cardinality(scanned) <= 1
            /\ \A slot \in scanned :
                  \E k \in DOMAIN inst.op_types :
                     /\ inst.op_types[k] \in {"U1", "U2", "U4"}
                     /\ slot = <<OperandPos(inst.op_types, k), byte_size(inst.op_types[k])>>

(* The string ids and the function ids the scanner reads as bytes are the  *)
(* operands the decoder has there.  Disasm!XrefsMatchDecoder and           *)
(* Disasm!CallsMatchDecoder need it of a table.                            *)
ScannedOperandsAgree == StringOperandsAgree /\ FunctionSlotsAgree

(* The control-flow graph finds an edge by the first operand of a jump,    *)
(* and takes a jump by its name: a name says jump exactly when there is an *)
(* address to go to, which only a generator's resume point has besides.    *)
JumpsCarryTheirTarget ==
    pc = "decoded" =>
        LET addresses == {k \in DOMAIN inst.op_types : inst.op_types[k] \in {"A1", "A4"}}
        IN  /\ is_jump(inst.name) <=>
                  addresses # {} /\ inst.name \notin {"SaveGenerator", "SaveGeneratorLong"}
            /\ is_conditional_branch(inst.name) \/ is_unconditional_jump(inst.name)
                  => HasBranchTarget(inst)
            /\ is_jump(inst.name) => ~HasDst(inst)

(* An argument list that is rendered is the arguments build_ssa found in   *)
(* the frame: `this' is not among them and none is left out.               *)
ArgumentsRendered ==
    pc = "resolved" /\ ResolvesArgs(inst) /\ frame.size >= 9 =>
        LET arm == build_expr(inst.name, operands)
        IN  /\ Len(operands) - arm.args = ExplicitArgs(frame.argc)
            /\ \A k \in arm.args + 1 .. Len(operands) : operands[k] = "Var"

(* The names for which build_expr looks at a slot that holds something     *)
(* else: the destination (SelectObject and the throwing checks), a name    *)
(* that ResolveNames has made text, a buffer nothing resolves.             *)
SlotsMistaken ==
    {"SelectObject", "ThrowIfEmpty", "ThrowIfUndefined", "DefineOwnById",
     "DefineOwnByIdLong", "NewObjectWithBufferAndParent"}

Readable(read) == read[1] + 1 \in DOMAIN operands /\ operands[read[1] + 1] \in read[2]

(* A name that build_expr has an arm for has the operands the arm reads,   *)
(* in every version, so that none of them is made up as `undefined', and   *)
(* when every lookup finds its text, in the kinds the arm takes them.      *)
OperandsPresent ==
    pc = "resolved" =>
        \A r \in build_expr(inst.name, operands).reads :
           /\ r[1] + 1 \in DOMAIN operands
           /\ lookups.text /\ lookups.found /\ inst.name \notin SlotsMistaken => Readable(r)

-----------------------------------------------------------------------------
(* expr.rs: an instruction with side effects must not be removed by dead   *)
(* code elimination.  One that is rendered as a call, a store, a deletion, *)
(* a throw or a yield has them.                                            *)
EffectsSurviveDCE ==
    pc = "removed" =>
        build_expr(inst.name, operands).form \notin {"call", "assign", "delete", "throw", "yield"}

=============================================================================
