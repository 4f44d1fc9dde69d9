---------------------------- MODULE InsnLowering ----------------------------
(***************************************************************************)
(* One instruction on its way from its bytes to an SSA operation, as       *)
(* operators: the operand loop of decode_function (decode.rs), the         *)
(* predicates on instruction names, classify_inst and the operand          *)
(* conversion of build_ssa (ssa.rs), and the two rewrites of the optimizer *)
(* that turn table indices into text (optimize.rs).                        *)
(*                                                                         *)
(* The program decides nearly everything by the instruction's NAME, so     *)
(* names are strings here and a prefix is a prefix.  An operand is its     *)
(* kind; what the kinds carry (which register, which number) no rule below *)
(* looks at, except the argument count of a variadic call.                 *)
(***************************************************************************)
EXTENDS HbcSchemas

StartsWith(s, prefix) ==
    Len(s) >= Len(prefix) /\ SubSeq(s, 1, Len(prefix)) = prefix

StartsWithAny(s, prefixes) == \E p \in prefixes : StartsWith(s, p)

EndsWith(s, suffix) ==
    Len(s) >= Len(suffix) /\ SubSeq(s, Len(s) - Len(suffix) + 1, Len(s)) = suffix

HasPart(s, part) ==
    \E i \in 1 .. Len(s) - Len(part) + 1 : SubSeq(s, i, i + Len(part) - 1) = part

-----------------------------------------------------------------------------
(* Decoding.                                                               *)

byte_size(op_type) ==
    CASE op_type \in {"R", "U1", "A1"} -> 1
      [] op_type = "U2" -> 2
      [] op_type \in {"R4", "U4", "A4", "I4"} -> 4
      [] op_type = "D" -> 8

get_schema(schemas, opcode) ==
    IF opcode < Len(schemas) THEN schemas[opcode + 1] ELSE <<"Unknown", <<>>>>

(* Where operand k (from 1) of an instruction at offset 0 begins; the one  *)
(* past the last operand is where the operand loop stops.                  *)
OperandPos(op_types, k) ==
    FoldLeft(LAMBDA pos, t : pos + byte_size(t), 1, SubSeq(op_types, 1, k - 1))

(* One round of the loop of decode_function.                               *)
decode_inst(version, opcode) ==
    LET names == get_version_names(version)
        opcode_table == get_version_opcodes(version)
        schema == get_schema(get_version_schemas(version), opcode)
    IN  [name |-> IF opcode < Len(names) /\ names[opcode + 1] # ""
                  THEN names[opcode + 1] ELSE schema[1],
         op |-> IF opcode < Len(opcode_table) THEN opcode_table[opcode + 1] ELSE "Unreachable",
         op_types |-> schema[2],
         size |-> get_version_tables(version).sizes[opcode + 1]]

(* An operand that would end beyond the instruction.                       *)
Truncated(inst) ==
    \/ inst.size = 0
    \/ \E k \in DOMAIN inst.op_types : OperandPos(inst.op_types, k + 1) > inst.size

(* scan_parsed: where an instruction that creates a closure has the id of  *)
(* its function, by its name; (byte offset, width) or nothing.             *)
closure_ops(name) ==
    IF StartsWithAny(name, {"CreateClosure", "CreateAsyncClosure", "CreateGeneratorClosure"})
         \/ name \in {"CreateGenerator", "CreateGeneratorLongIndex"}
    THEN {<<3, IF EndsWith(name, "LongIndex") \/ EndsWith(name, "Long") THEN 4 ELSE 2>>}
    ELSE {}

-----------------------------------------------------------------------------
(* Predicates on a decoded instruction.                                    *)

(* Variant: switches are not jumps.                                        *)
StartsWithJ(name) == StartsWith(name, "J")

is_jump(name) == StartsWith(name, "J") \/ HasPart(name, "SwitchImm")

is_unconditional_jump(name) == name \in {"Jmp", "JmpLong"}

is_conditional_branch(name) == StartsWith(name, "J") /\ ~is_unconditional_jump(name)

is_terminator(name) == is_jump(name) \/ name \in {"Ret", "Throw", "Unreachable"}

(* branch_target looks at the first operand alone.                         *)
HasBranchTarget(inst) ==
    Len(inst.op_types) > 0 /\ inst.op_types[1] \in {"A1", "A4"}

-----------------------------------------------------------------------------
(* SSA.                                                                    *)

IsRegister(op_type) == op_type \in {"R", "R4"}

(* The arms of classify_inst that name no destination.                     *)
WritesNoRegister(name) ==
    \/ name \in {"Ret", "Throw", "Debugger", "AsyncBreakCheck", "ProfilePoint",
                 "Unreachable", "Nop", "DeclareGlobalVar",
                 "FastArrayStore", "FastArrayPush", "FastArrayAppend", "AddOwnPrivateBySym"}
    \/ StartsWithAny(name, {"PutById", "TryPutById", "PutByVal", "StoreToEnvironment",
                            "StoreNPToEnvironment", "DefineOwn", "PutNewOwn", "PutOwn"})
    \/ is_jump(name)

(* classify_inst: is operand 0 the destination?                            *)
HasDst(inst) ==
    /\ ~WritesNoRegister(inst.name)
    /\ Len(inst.op_types) > 0 /\ IsRegister(inst.op_types[1])

(* build_ssa: the SSA operand of operand k (from 1).                       *)
SsaOperand(inst, k) ==
    LET t == inst.op_types[k]
    IN  CASE IsRegister(t) -> IF k = 1 /\ HasDst(inst) THEN "DstPlaceholder" ELSE "Var"
          [] t \in {"U1", "U2", "U4"} ->
                IF HasPart(inst.name, "LoadConstString") /\ k = 2 THEN "StringId"
                ELSE IF (HasPart(inst.name, "CreateClosure")
                          \/ HasPart(inst.name, "CreateGenerator")) /\ k >= 2
                THEN "FuncId" ELSE "Const"
          [] t = "I4" -> "Const"
          [] t = "D" -> "ConstDouble"
          [] t \in {"A1", "A4"} -> "BlockTarget"

(* The calls whose arguments lie in registers at the top of the frame: the *)
(* operand (from 1) that counts them, `this' included.                     *)
ArgcOperand(name) ==
    CASE name \in {"Call", "CallLong", "CallBuiltin", "CallBuiltinLong"} -> 3
      [] name \in {"CallDirect", "CallDirectLongIndex"} -> 2
      [] OTHER -> 0

ResolvesArgs(inst) ==
    LET k == ArgcOperand(inst.name)
    IN  k \in DOMAIN inst.op_types /\ inst.op_types[k] \in {"U1", "U2", "U4"}

(* Variant: built-ins get a receiver too.                                  *)
include_this_always(name) == TRUE

include_this(name) == name \notin {"CallBuiltin", "CallBuiltinLong"}

ExplicitArgs(argc) == IF argc = 0 THEN 0 ELSE argc - 1

(* More arguments than the function has instructions, or an argument below *)
(* register 0: CountExceedsInput.                                          *)
ArgsExceedInput(inst, frame_size, argc, total_insns) ==
    /\ ResolvesArgs(inst)
    /\ \/ argc > total_insns
       \/ frame_size >= 9 /\ ExplicitArgs(argc) > frame_size - 8

ResolvedArgs(inst, frame_size, argc) ==
    IF ResolvesArgs(inst) /\ frame_size >= 9
    THEN [i \in 1 .. ExplicitArgs(argc) + (IF include_this(inst.name) THEN 1 ELSE 0)
              |-> "Var"]
    ELSE <<>>

(* Variant: no place is kept for the destination.                          *)
operands_without_dst(inst, frame_size, argc) ==
    LET d == IF HasDst(inst) THEN 1 ELSE 0
    IN  [k \in 1 .. Len(inst.op_types) - d |-> SsaOperand(inst, k + d)]
            \o ResolvedArgs(inst, frame_size, argc)

build_operands(inst, frame_size, argc) ==
    [k \in DOMAIN inst.op_types |-> SsaOperand(inst, k)]
        \o ResolvedArgs(inst, frame_size, argc)

-----------------------------------------------------------------------------
(* The optimizer: table indices become text.                               *)

PropertyNamePrefixes ==
    {"GetById", "TryGetById", "PutById", "TryPutById", "DefineOwnById"}

Set(operands, k, kind) ==
    IF k \in DOMAIN operands /\ operands[k] = "Const"
    THEN [operands EXCEPT ![k] = kind] ELSE operands

(* pattern_rewrite: the name of the property, unless the string is empty.  *)
ResolveNames(name, operands, nonempty) ==
    IF ~nonempty THEN operands
    ELSE IF StartsWithAny(name, PropertyNamePrefixes)
    THEN Set(operands, Len(operands), "ResolvedString")
    ELSE IF name = "CreatePrivateName"
    THEN Set(operands, 2, "ResolvedString") ELSE operands

(* resolve_buffers: the literal built from the value buffer; an object     *)
(* whose shape is empty keeps its operands.                                *)
resolve_buffers(name, operands, found) ==
    IF \/ name \in {"NewArrayWithBuffer", "NewArrayWithBufferLong"}
       \/ name \in {"NewObjectWithBuffer", "NewObjectWithBufferLong"} /\ found
    THEN <<operands[1], "ResolvedString">> ELSE operands

(* resolve_bigints: the digits, when the index is in the table.            *)
resolve_bigints(name, operands, in_table) ==
    IF name \in {"LoadConstBigInt", "LoadConstBigIntLongIndex"} /\ in_table
    THEN Set(operands, 2, "ResolvedBigInt") ELSE operands

=============================================================================
