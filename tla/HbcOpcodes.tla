------------------------------ MODULE HbcOpcodes ------------------------------
(***************************************************************************)
(* The generated opcode tables of src/src/opcodes.rs and the function that *)
(* picks the tables of a bytecode version.                                 *)
(*                                                                         *)
(* For every bytecode version Hermes changed its instructions in, the      *)
(* source holds five tables indexed by the opcode byte:                    *)
(*                                                                         *)
(*   OPCODES   the OpCode variant          (a variant is its name here)    *)
(*   SIZES     the size in bytes, the opcode byte included                 *)
(*   STR_OPS   <<opcode, offset, width>> of every string id operand        *)
(*   CALL_OPS  <<opcode, offset, width>> of every direct call target       *)
(*   NAMES     the name the rest of the program matches on                 *)
(*                                                                         *)
(* A table is written as what its version changes in the one before:       *)
(* Edit(at, n, entries) puts entries in the place of the n entries that    *)
(* start at position at (the entry of opcode op has position op + 1).      *)
(***************************************************************************)
EXTENDS Integers, SequencesExt

Edit(at, n, entries) == [at |-> at, n |-> n, entries |-> entries]

(* The last edit first: the positions are those of the table before.       *)
Splice(table, edits) ==
    FoldRight(LAMBDA e, t : SubSeq(t, 1, e.at - 1) \o e.entries
                                \o SubSeq(t, e.at + e.n, Len(t)),
              edits, table)

-----------------------------------------------------------------------------
V40_OPCODES == <<
    "NewObjectWithBuffer", "NewObjectWithBufferLong", "NewObject", "NewArrayWithBuffer",
    "NewArrayWithBufferLong", "NewArray", "Mov", "MovLong", "Negate", "Not", "BitNot",
    "TypeOf", "Eq", "StrictEq", "Neq", "StrictNeq", "Less", "LessEq", "Greater", "GreaterEq",
    "Add", "AddN", "Mul", "MulN", "Div", "DivN", "Mod", "Sub", "SubN", "LShift", "RShift",
    "URshift", "BitAnd", "BitXor", "BitOr", "InstanceOf", "IsIn", "GetEnvironment",
    "StoreToEnvironment", "StoreToEnvironmentL", "StoreNPToEnvironment",
    "StoreNPToEnvironmentL", "LoadFromEnvironment", "LoadFromEnvironmentL", "GetGlobalObject",
    "CreateEnvironment", "DeclareGlobalVar", "GetByIdShort", "GetById", "GetByIdLong",
    "TryGetById", "TryGetByIdLong", "PutById", "PutByIdLong", "TryPutById", "TryPutByIdLong",
    "PutOwnByIdShort", "PutOwnById", "PutOwnByIdLong", "PutOwnByIndex", "PutOwnByIndexL",
    "DelById", "DelByIdLong", "GetByVal", "PutByVal", "DelByVal", "PutGetterSetter",
    "GetPNameList", "GetNextPName", "Call", "Construct", "CallDirect", "CallLong",
    "ConstructLong", "CallDirectLongIndex", "CallBuiltin", "Ret", "Catch", "DirectEval",
    "Throw", "Debugger", "DebuggerCheckBreak", "ProfilePoint", "Unreachable", "CreateClosure",
    "CreateClosureLongIndex", "CreateThis", "SelectObject", "LoadParam", "LoadParamLong",
    "LoadConstUInt8", "LoadConstInt", "LoadConstDouble", "LoadConstString",
    "LoadConstStringLongIndex", "LoadConstUndefined", "LoadConstNull", "LoadConstTrue",
    "LoadConstFalse", "LoadConstZero", "CoerceThisNS", "LoadThisNS", "ToNumber", "ToInt32",
    "AddEmptyString", "GetArgumentsPropByVal", "GetArgumentsLength", "ReifyArguments",
    "CreateRegExp", "SwitchImm", "Jmp", "JmpLong", "JmpTrue", "JmpTrueLong", "JmpFalse",
    "JmpFalseLong", "JmpUndefined", "JmpUndefinedLong", "JLess", "JLessLong", "JNotLess",
    "JNotLessLong", "JLessN", "JLessNLong", "JNotLessN", "JNotLessNLong", "JLessEqual",
    "JLessEqualLong", "JNotLessEqual", "JNotLessEqualLong", "JLessEqualN", "JLessEqualNLong",
    "JNotLessEqualN", "JNotLessEqualNLong", "JGreater", "JGreaterLong", "JNotGreater",
    "JNotGreaterLong", "JGreaterN", "JGreaterNLong", "JNotGreaterN", "JNotGreaterNLong",
    "JGreaterEqual", "JGreaterEqualLong", "JNotGreaterEqual", "JNotGreaterEqualLong",
    "JGreaterEqualN", "JGreaterEqualNLong", "JNotGreaterEqualN", "JNotGreaterEqualNLong",
    "JEqual", "JEqualLong", "JNotEqual", "JNotEqualLong", "JStrictEqual", "JStrictEqualLong",
    "JStrictNotEqual", "JStrictNotEqualLong" >>
V40_NAMES == <<
    "NewObjectWithBuffer", "NewObjectWithBufferLong", "NewObject", "NewArrayWithBuffer",
    "NewArrayWithBufferLong", "NewArray", "Mov", "MovLong", "Negate", "Not", "BitNot",
    "TypeOf", "Eq", "StrictEq", "Neq", "StrictNeq", "Less", "LessEq", "Greater", "GreaterEq",
    "Add", "AddN", "Mul", "MulN", "Div", "DivN", "Mod", "Sub", "SubN", "LShift", "RShift",
    "URshift", "BitAnd", "BitXor", "BitOr", "InstanceOf", "IsIn", "GetEnvironment",
    "StoreToEnvironment", "StoreToEnvironmentL", "StoreNPToEnvironment",
    "StoreNPToEnvironmentL", "LoadFromEnvironment", "LoadFromEnvironmentL", "GetGlobalObject",
    "CreateEnvironment", "DeclareGlobalVar", "GetByIdShort", "GetById", "GetByIdLong",
    "TryGetById", "TryGetByIdLong", "PutById", "PutByIdLong", "TryPutById", "TryPutByIdLong",
    "PutOwnByIdShort", "PutOwnById", "PutOwnByIdLong", "PutOwnByIndex", "PutOwnByIndexL",
    "DelById", "DelByIdLong", "GetByVal", "PutByVal", "DelByVal", "PutGetterSetter",
    "GetPNameList", "GetNextPName", "Call", "Construct", "CallDirect", "CallLong",
    "ConstructLong", "CallDirectLongIndex", "CallBuiltin", "Ret", "Catch", "DirectEval",
    "Throw", "Debugger", "DebuggerCheckBreak", "ProfilePoint", "Unreachable", "CreateClosure",
    "CreateClosureLongIndex", "CreateThis", "SelectObject", "LoadParam", "LoadParamLong",
    "LoadConstUInt8", "LoadConstInt", "LoadConstDouble", "LoadConstString",
    "LoadConstStringLongIndex", "LoadConstUndefined", "LoadConstNull", "LoadConstTrue",
    "LoadConstFalse", "LoadConstZero", "CoerceThisNS", "LoadThisNS", "ToNumber", "ToInt32",
    "AddEmptyString", "GetArgumentsPropByVal", "GetArgumentsLength", "ReifyArguments",
    "CreateRegExp", "SwitchImm", "Jmp", "JmpLong", "JmpTrue", "JmpTrueLong", "JmpFalse",
    "JmpFalseLong", "JmpUndefined", "JmpUndefinedLong", "JLess", "JLessLong", "JNotLess",
    "JNotLessLong", "JLessN", "JLessNLong", "JNotLessN", "JNotLessNLong", "JLessEqual",
    "JLessEqualLong", "JNotLessEqual", "JNotLessEqualLong", "JLessEqualN", "JLessEqualNLong",
    "JNotLessEqualN", "JNotLessEqualNLong", "JGreater", "JGreaterLong", "JNotGreater",
    "JNotGreaterLong", "JGreaterN", "JGreaterNLong", "JNotGreaterN", "JNotGreaterNLong",
    "JGreaterEqual", "JGreaterEqualLong", "JNotGreaterEqual", "JNotGreaterEqualLong",
    "JGreaterEqualN", "JGreaterEqualNLong", "JNotGreaterEqualN", "JNotGreaterEqualNLong",
    "JEqual", "JEqualLong", "JNotEqual", "JNotEqualLong", "JStrictEqual", "JStrictEqualLong",
    "JStrictNotEqual", "JStrictNotEqualLong" >>
V40_SIZES == <<
    10, 14, 2, 8, 10, 4, 3, 9, 3, 3, 3, 3, 4, 4, 4, 4, 4, 4, 4, 4, 4, 4, 4, 4, 4, 4, 4, 4, 4,
    4, 4, 4, 4, 4, 4, 4, 4, 3, 4, 5, 4, 5, 4, 5, 2, 2, 5, 5, 6, 8, 6, 8, 6, 8, 6, 8, 4, 5, 7,
    4, 7, 5, 7, 4, 4, 4, 8, 5, 6, 4, 4, 5, 7, 7, 7, 4, 2, 2, 3, 2, 1, 1, 3, 1, 5, 7, 4, 4, 3,
    6, 3, 6, 10, 4, 6, 2, 2, 2, 2, 2, 3, 2, 3, 3, 3, 4, 3, 2, 14, 18, 2, 5, 3, 6, 3, 6, 3, 6,
    4, 7, 4, 7, 4, 7, 4, 7, 4, 7, 4, 7, 4, 7, 4, 7, 4, 7, 4, 7, 4, 7, 4, 7, 4, 7, 4, 7, 4, 7,
    4, 7, 4, 7, 4, 7, 4, 7, 4, 7 >>
V40_STR_OPS == <<
    <<46,1,4>>, <<47,4,1>>, <<48,4,2>>, <<49,4,4>>, <<50,4,2>>, <<51,4,4>>, <<52,4,2>>,
    <<53,4,4>>, <<54,4,2>>, <<55,4,4>>, <<56,3,1>>, <<57,3,2>>, <<58,3,4>>, <<61,3,2>>,
    <<62,3,4>>, <<66,2,4>>, <<93,2,2>>, <<94,2,4>>, <<108,6,4>> >>
V40_CALL_OPS == <<<<71,3,2>>, <<74,3,4>>>>

V41_OPCODES == Splice(V40_OPCODES, <<
    Edit(72, 0, <<"Call1">>), Edit(73, 0, <<"Call2", "Call3", "Call4">>) >>)
V41_NAMES == Splice(V40_NAMES, <<
    Edit(72, 0, <<"Call1">>), Edit(73, 0, <<"Call2", "Call3", "Call4">>) >>)
V41_SIZES == Splice(V40_SIZES, <<Edit(72, 0, <<4>>), Edit(73, 0, <<5, 6, 7>>)>>)
V41_STR_OPS == <<
    <<46,1,4>>, <<47,4,1>>, <<48,4,2>>, <<49,4,4>>, <<50,4,2>>, <<51,4,4>>, <<52,4,2>>,
    <<53,4,4>>, <<54,4,2>>, <<55,4,4>>, <<56,3,1>>, <<57,3,2>>, <<58,3,4>>, <<61,3,2>>,
    <<62,3,4>>, <<66,2,4>>, <<97,2,2>>, <<98,2,4>>, <<112,6,4>> >>
V41_CALL_OPS == <<<<72,3,2>>, <<78,3,4>>>>

V44_OPCODES == Splice(V41_OPCODES, <<Edit(46, 0, <<"GetNewTarget">>)>>)
V44_NAMES == Splice(V41_NAMES, <<Edit(46, 0, <<"GetNewTarget">>)>>)
V44_SIZES == Splice(V41_SIZES, <<Edit(45, 0, <<2>>)>>)
V44_STR_OPS == <<
    <<47,1,4>>, <<48,4,1>>, <<49,4,2>>, <<50,4,4>>, <<51,4,2>>, <<52,4,4>>, <<53,4,2>>,
    <<54,4,4>>, <<55,4,2>>, <<56,4,4>>, <<57,3,1>>, <<58,3,2>>, <<59,3,4>>, <<62,3,2>>,
    <<63,3,4>>, <<67,2,4>>, <<98,2,2>>, <<99,2,4>>, <<113,6,4>> >>
V44_CALL_OPS == <<<<73,3,2>>, <<79,3,4>>>>

V45_OPCODES == Splice(V44_OPCODES, <<
    Edit(58, 3, <<
        "PutNewOwnByIdShort", "PutNewOwnById", "PutNewOwnByIdLong", "PutNewOwnNEById",
        "PutNewOwnNEByIdLong" >>),
    Edit(63, 0, <<"PutOwnByVal">>), Edit(68, 1, <<"PutOwnGetterSetterByVal">>) >>)
V45_NAMES == Splice(V44_NAMES, <<
    Edit(58, 3, <<
        "PutNewOwnByIdShort", "PutNewOwnById", "PutNewOwnByIdLong", "PutNewOwnNEById",
        "PutNewOwnNEByIdLong" >>),
    Edit(63, 0, <<"PutOwnByVal">>), Edit(68, 1, <<"PutOwnGetterSetterByVal">>) >>)
V45_SIZES == Splice(V44_SIZES, <<
    Edit(61, 0, <<5, 7>>), Edit(63, 0, <<5>>), Edit(68, 1, <<6>>) >>)
V45_STR_OPS == <<
    <<47,1,4>>, <<48,4,1>>, <<49,4,2>>, <<50,4,4>>, <<51,4,2>>, <<52,4,4>>, <<53,4,2>>,
    <<54,4,4>>, <<55,4,2>>, <<56,4,4>>, <<57,3,1>>, <<58,3,2>>, <<59,3,4>>, <<60,3,2>>,
    <<61,3,4>>, <<65,3,2>>, <<66,3,4>>, <<101,2,2>>, <<102,2,4>>, <<116,6,4>> >>
V45_CALL_OPS == <<<<76,3,2>>, <<82,3,4>>>>

V46_OPCODES == Splice(V45_OPCODES, <<Edit(4, 0, <<"NewObjectWithParent">>)>>)
V46_NAMES == Splice(V45_NAMES, <<Edit(4, 0, <<"NewObjectWithParent">>)>>)
V46_SIZES == Splice(V45_SIZES, <<Edit(4, 0, <<3>>)>>)
V46_STR_OPS == <<
    <<48,1,4>>, <<49,4,1>>, <<50,4,2>>, <<51,4,4>>, <<52,4,2>>, <<53,4,4>>, <<54,4,2>>,
    <<55,4,4>>, <<56,4,2>>, <<57,4,4>>, <<58,3,1>>, <<59,3,2>>, <<60,3,4>>, <<61,3,2>>,
    <<62,3,4>>, <<66,3,2>>, <<67,3,4>>, <<102,2,2>>, <<103,2,4>>, <<117,6,4>> >>
V46_CALL_OPS == <<<<77,3,2>>, <<83,3,4>>>>

V52_OPCODES == Splice(V46_OPCODES, <<
    Edit(96, 0, <<"CreateGeneratorClosure", "CreateGeneratorClosureLongIndex">>),
    Edit(120, 0, <<
        "StartGenerator", "ResumeGenerator", "CompleteGenerator", "CreateGenerator",
        "CreateGeneratorLongIndex" >>),
    Edit(128, 0, <<"SaveGenerator", "SaveGeneratorLong">>) >>)
V52_NAMES == Splice(V46_NAMES, <<
    Edit(96, 0, <<"CreateGeneratorClosure", "CreateGeneratorClosureLongIndex">>),
    Edit(120, 0, <<
        "StartGenerator", "ResumeGenerator", "CompleteGenerator", "CreateGenerator",
        "CreateGeneratorLongIndex" >>),
    Edit(128, 0, <<"SaveGenerator", "SaveGeneratorLong">>) >>)
V52_SIZES == Splice(V46_SIZES, <<
    Edit(96, 0, <<5, 7>>), Edit(120, 0, <<1, 3, 1, 5, 7>>), Edit(128, 0, <<2, 5>>) >>)
V52_STR_OPS == <<
    <<48,1,4>>, <<49,4,1>>, <<50,4,2>>, <<51,4,4>>, <<52,4,2>>, <<53,4,4>>, <<54,4,2>>,
    <<55,4,4>>, <<56,4,2>>, <<57,4,4>>, <<58,3,1>>, <<59,3,2>>, <<60,3,4>>, <<61,3,2>>,
    <<62,3,4>>, <<66,3,2>>, <<67,3,4>>, <<104,2,2>>, <<105,2,4>>, <<119,6,4>> >>
V52_CALL_OPS == <<<<77,3,2>>, <<83,3,4>>>>

V59_OPCODES == Splice(V52_OPCODES, <<Edit(90, 0, <<"ThrowIfUndefinedInst">>)>>)
V59_NAMES == Splice(V52_NAMES, <<Edit(90, 0, <<"ThrowIfUndefinedInst">>)>>)
V59_SIZES == Splice(V52_SIZES, <<Edit(90, 0, <<2>>)>>)
V59_STR_OPS == <<
    <<48,1,4>>, <<49,4,1>>, <<50,4,2>>, <<51,4,4>>, <<52,4,2>>, <<53,4,4>>, <<54,4,2>>,
    <<55,4,4>>, <<56,4,2>>, <<57,4,4>>, <<58,3,1>>, <<59,3,2>>, <<60,3,4>>, <<61,3,2>>,
    <<62,3,4>>, <<66,3,2>>, <<67,3,4>>, <<105,2,2>>, <<106,2,4>>, <<120,6,4>> >>
V59_CALL_OPS == <<<<77,3,2>>, <<83,3,4>>>>

V61_OPCODES == Splice(V59_OPCODES, <<Edit(92, 1, <<"AsyncBreakCheck">>)>>)
V61_NAMES == Splice(V59_NAMES, <<Edit(92, 1, <<"AsyncBreakCheck">>)>>)
V61_SIZES == V59_SIZES
V61_STR_OPS == <<
    <<48,1,4>>, <<49,4,1>>, <<50,4,2>>, <<51,4,4>>, <<52,4,2>>, <<53,4,4>>, <<54,4,2>>,
    <<55,4,4>>, <<56,4,2>>, <<57,4,4>>, <<58,3,1>>, <<59,3,2>>, <<60,3,4>>, <<61,3,2>>,
    <<62,3,4>>, <<66,3,2>>, <<67,3,4>>, <<105,2,2>>, <<106,2,4>>, <<120,6,4>> >>
V61_CALL_OPS == <<<<77,3,2>>, <<83,3,4>>>>

V73_OPCODES == Splice(V61_OPCODES, <<
    Edit(128, 0, <<"IteratorBegin", "IteratorNext", "IteratorClose">>) >>)
V73_NAMES == Splice(V61_NAMES, <<
    Edit(128, 0, <<"IteratorBegin", "IteratorNext", "IteratorClose">>) >>)
V73_SIZES == Splice(V61_SIZES, <<Edit(128, 0, <<3, 4, 3>>)>>)
V73_STR_OPS == <<
    <<48,1,4>>, <<49,4,1>>, <<50,4,2>>, <<51,4,4>>, <<52,4,2>>, <<53,4,4>>, <<54,4,2>>,
    <<55,4,4>>, <<56,4,2>>, <<57,4,4>>, <<58,3,1>>, <<59,3,2>>, <<60,3,4>>, <<61,3,2>>,
    <<62,3,4>>, <<66,3,2>>, <<67,3,4>>, <<105,2,2>>, <<106,2,4>>, <<120,6,4>> >>
V73_CALL_OPS == <<<<77,3,2>>, <<83,3,4>>>>

V80_OPCODES == Splice(V73_OPCODES, <<Edit(86, 0, <<"CallBuiltinLong">>)>>)
V80_NAMES == Splice(V73_NAMES, <<Edit(86, 0, <<"CallBuiltinLong">>)>>)
V80_SIZES == Splice(V73_SIZES, <<Edit(86, 0, <<7>>)>>)
V80_STR_OPS == <<
    <<48,1,4>>, <<49,4,1>>, <<50,4,2>>, <<51,4,4>>, <<52,4,2>>, <<53,4,4>>, <<54,4,2>>,
    <<55,4,4>>, <<56,4,2>>, <<57,4,4>>, <<58,3,1>>, <<59,3,2>>, <<60,3,4>>, <<61,3,2>>,
    <<62,3,4>>, <<66,3,2>>, <<67,3,4>>, <<106,2,2>>, <<107,2,4>>, <<121,6,4>> >>
V80_CALL_OPS == <<<<77,3,2>>, <<83,3,4>>>>

V81_OPCODES == Splice(V80_OPCODES, <<
    Edit(87, 0, <<"GetBuiltinClosure">>), Edit(91, 1, <<"ThrowIfEmpty">>),
    Edit(100, 0, <<"CreateAsyncClosure", "CreateAsyncClosureLongIndex">>),
    Edit(109, 0, <<"LoadConstEmpty">>) >>)
V81_NAMES == Splice(V80_NAMES, <<
    Edit(87, 0, <<"GetBuiltinClosure">>), Edit(91, 1, <<"ThrowIfEmpty">>),
    Edit(100, 0, <<"CreateAsyncClosure", "CreateAsyncClosureLongIndex">>),
    Edit(109, 0, <<"LoadConstEmpty">>) >>)
V81_SIZES == Splice(V80_SIZES, <<
    Edit(87, 0, <<3>>), Edit(91, 1, <<3>>), Edit(96, 0, <<5, 7>>), Edit(109, 0, <<2>>) >>)
V81_STR_OPS == <<
    <<48,1,4>>, <<49,4,1>>, <<50,4,2>>, <<51,4,4>>, <<52,4,2>>, <<53,4,4>>, <<54,4,2>>,
    <<55,4,4>>, <<56,4,2>>, <<57,4,4>>, <<58,3,1>>, <<59,3,2>>, <<60,3,4>>, <<61,3,2>>,
    <<62,3,4>>, <<66,3,2>>, <<67,3,4>>, <<109,2,2>>, <<110,2,4>>, <<125,6,4>> >>
V81_CALL_OPS == <<<<77,3,2>>, <<83,3,4>>>>

V83_OPCODES == Splice(V81_OPCODES, <<Edit(1, 0, <<"Unreachable">>), Edit(96, 1, <<>>)>>)
V83_NAMES == Splice(V81_NAMES, <<Edit(1, 0, <<"Unreachable">>), Edit(96, 1, <<>>)>>)
V83_SIZES == Splice(V81_SIZES, <<Edit(1, 0, <<1>>), Edit(96, 1, <<>>)>>)
V83_STR_OPS == <<
    <<49,1,4>>, <<50,4,1>>, <<51,4,2>>, <<52,4,4>>, <<53,4,2>>, <<54,4,4>>, <<55,4,2>>,
    <<56,4,4>>, <<57,4,2>>, <<58,4,4>>, <<59,3,1>>, <<60,3,2>>, <<61,3,4>>, <<62,3,2>>,
    <<63,3,4>>, <<67,3,2>>, <<68,3,4>>, <<109,2,2>>, <<110,2,4>>, <<125,6,4>> >>
V83_CALL_OPS == <<<<78,3,2>>, <<84,3,4>>>>

V84_OPCODES == Splice(V83_OPCODES, <<
    Edit(186, 0, <<
        "Add32", "Sub32", "Mul32", "Divi32", "Divu32", "Loadi8", "Loadu8", "Loadi16",
        "Loadu16", "Loadi32", "Loadu32", "Store8", "Store16", "Store32" >>) >>)
V84_NAMES == Splice(V83_NAMES, <<
    Edit(186, 0, <<
        "Add32", "Sub32", "Mul32", "Divi32", "Divu32", "Loadi8", "Loadu8", "Loadi16",
        "Loadu16", "Loadi32", "Loadu32", "Store8", "Store16", "Store32" >>) >>)
V84_SIZES == Splice(V83_SIZES, <<Edit(186, 0, <<4, 4, 4, 4, 4, 4, 4, 4, 4, 4, 4, 4, 4, 4>>)>>)
V84_STR_OPS == <<
    <<49,1,4>>, <<50,4,1>>, <<51,4,2>>, <<52,4,4>>, <<53,4,2>>, <<54,4,4>>, <<55,4,2>>,
    <<56,4,4>>, <<57,4,2>>, <<58,4,4>>, <<59,3,1>>, <<60,3,2>>, <<61,3,4>>, <<62,3,2>>,
    <<63,3,4>>, <<67,3,2>>, <<68,3,4>>, <<109,2,2>>, <<110,2,4>>, <<125,6,4>> >>
V84_CALL_OPS == <<<<78,3,2>>, <<84,3,4>>>>

V85_OPCODES == Splice(V84_OPCODES, <<Edit(38, 0, <<"Inc", "Dec">>)>>)
V85_NAMES == Splice(V84_NAMES, <<Edit(38, 0, <<"Inc", "Dec">>)>>)
V85_SIZES == Splice(V84_SIZES, <<Edit(38, 0, <<3, 3>>)>>)
V85_STR_OPS == <<
    <<51,1,4>>, <<52,4,1>>, <<53,4,2>>, <<54,4,4>>, <<55,4,2>>, <<56,4,4>>, <<57,4,2>>,
    <<58,4,4>>, <<59,4,2>>, <<60,4,4>>, <<61,3,1>>, <<62,3,2>>, <<63,3,4>>, <<64,3,2>>,
    <<65,3,4>>, <<69,3,2>>, <<70,3,4>>, <<111,2,2>>, <<112,2,4>>, <<127,6,4>> >>
V85_CALL_OPS == <<<<80,3,2>>, <<86,3,4>>>>

V87_OPCODES == Splice(V85_OPCODES, <<
    Edit(112, 0, <<"LoadConstBigInt", "LoadConstBigIntLongIndex">>),
    Edit(123, 0, <<"ToNumeric">>) >>)
V87_NAMES == Splice(V85_NAMES, <<
    Edit(112, 0, <<"LoadConstBigInt", "LoadConstBigIntLongIndex">>),
    Edit(123, 0, <<"ToNumeric">>) >>)
V87_SIZES == Splice(V85_SIZES, <<Edit(114, 0, <<4, 6>>), Edit(122, 0, <<3>>)>>)
V87_STR_OPS == <<
    <<51,1,4>>, <<52,4,1>>, <<53,4,2>>, <<54,4,4>>, <<55,4,2>>, <<56,4,4>>, <<57,4,2>>,
    <<58,4,4>>, <<59,4,2>>, <<60,4,4>>, <<61,3,1>>, <<62,3,2>>, <<63,3,4>>, <<64,3,2>>,
    <<65,3,4>>, <<69,3,2>>, <<70,3,4>>, <<113,2,2>>, <<114,2,4>>, <<130,6,4>> >>
V87_CALL_OPS == <<<<80,3,2>>, <<86,3,4>>>>

V90_OPCODES == Splice(V87_OPCODES, <<
    Edit(128, 1, <<"GetArgumentsPropByValLoose", "GetArgumentsPropByValStrict">>),
    Edit(130, 1, <<"ReifyArgumentsStrict", "ReifyArgumentsLoose">>) >>)
V90_NAMES == Splice(V87_NAMES, <<
    Edit(128, 1, <<"GetArgumentsPropByValLoose", "GetArgumentsPropByValStrict">>),
    Edit(130, 1, <<"ReifyArgumentsStrict", "ReifyArgumentsLoose">>) >>)
V90_SIZES == Splice(V87_SIZES, <<Edit(129, 0, <<4>>), Edit(130, 0, <<2>>)>>)
V90_STR_OPS == <<
    <<51,1,4>>, <<52,4,1>>, <<53,4,2>>, <<54,4,4>>, <<55,4,2>>, <<56,4,4>>, <<57,4,2>>,
    <<58,4,4>>, <<59,4,2>>, <<60,4,4>>, <<61,3,1>>, <<62,3,2>>, <<63,3,4>>, <<64,3,2>>,
    <<65,3,4>>, <<69,3,2>>, <<70,3,4>>, <<113,2,2>>, <<114,2,4>>, <<132,6,4>> >>
V90_CALL_OPS == <<<<80,3,2>>, <<86,3,4>>>>

V92_OPCODES == Splice(V90_OPCODES, <<
    Edit(52, 0, <<"CreateInnerEnvironment">>),
    Edit(53, 0, <<"ThrowIfHasRestrictedGlobalProperty">>),
    Edit(128, 2, <<"GetArgumentsPropByVal">>), Edit(131, 2, <<"ReifyArguments">>) >>)
V92_NAMES == Splice(V90_NAMES, <<
    Edit(52, 0, <<"CreateInnerEnvironment">>),
    Edit(53, 0, <<"ThrowIfHasRestrictedGlobalProperty">>),
    Edit(128, 2, <<"GetArgumentsPropByVal">>), Edit(131, 2, <<"ReifyArguments">>) >>)
V92_SIZES == Splice(V90_SIZES, <<
    Edit(52, 0, <<7, 5>>), Edit(129, 1, <<>>), Edit(131, 1, <<>>) >>)
V92_STR_OPS == <<
    <<52,1,4>>, <<53,1,4>>, <<54,4,1>>, <<55,4,2>>, <<56,4,4>>, <<57,4,2>>, <<58,4,4>>,
    <<59,4,2>>, <<60,4,4>>, <<61,4,2>>, <<62,4,4>>, <<63,3,1>>, <<64,3,2>>, <<65,3,4>>,
    <<66,3,2>>, <<67,3,4>>, <<71,3,2>>, <<72,3,4>>, <<115,2,2>>, <<116,2,4>>, <<132,6,4>> >>
V92_CALL_OPS == <<<<82,3,2>>, <<88,3,4>>>>

V95_OPCODES == V92_OPCODES
V95_NAMES == V92_NAMES
V95_SIZES == Splice(V92_SIZES, <<Edit(95, 1, <<4>>)>>)
V95_STR_OPS == <<
    <<52,1,4>>, <<53,1,4>>, <<54,4,1>>, <<55,4,2>>, <<56,4,4>>, <<57,4,2>>, <<58,4,4>>,
    <<59,4,2>>, <<60,4,4>>, <<61,4,2>>, <<62,4,4>>, <<63,3,1>>, <<64,3,2>>, <<65,3,4>>,
    <<66,3,2>>, <<67,3,4>>, <<71,3,2>>, <<72,3,4>>, <<115,2,2>>, <<116,2,4>>, <<132,6,4>> >>
V95_CALL_OPS == <<<<82,3,2>>, <<88,3,4>>>>

V97_OPCODES == Splice(V95_OPCODES, <<
    Edit(25, 0, <<"AddS">>), Edit(42, 0, <<"GetParentEnvironment">>),
    Edit(43, 0, <<"GetClosureEnvironment">>),
    Edit(51, 0, <<"CreateFunctionEnvironment", "CreateTopLevelEnvironment">>),
    Edit(52, 1, <<>>), Edit(54, 1, <<>>), Edit(60, 4, <<
        "PutByIdLoose", "PutByIdStrict", "PutByIdLooseLong", "PutByIdStrictLong",
        "TryPutByIdLoose", "TryPutByIdStrict", "TryPutByIdLooseLong", "TryPutByIdStrictLong" >>),
    Edit(67, 0, <<"PutOwnBySlotIdx", "PutOwnBySlotIdxLong">>), Edit(72, 2, <<
        "DelByIdLoose", "DelByIdStrict", "DelByIdLooseLong", "DelByIdStrictLong" >>),
    Edit(75, 2, <<
        "GetByIndex", "PutByValLoose", "PutByValStrict", "DelByValLoose", "DelByValStrict" >>),
    Edit(83, 1, <<"CallWithNewTarget">>), Edit(87, 3, <<"CallWithNewTargetLong">>),
    Edit(103, 4, <<>>),
    Edit(130, 1, <<"GetArgumentsPropByValLoose", "GetArgumentsPropByValStrict">>),
    Edit(132, 1, <<"ReifyArgumentsStrict", "ReifyArgumentsLoose">>), Edit(135, 3, <<>>),
    Edit(151, 2, <<>>), Edit(193, 14, <<>>) >>)
V97_NAMES == Splice(V95_NAMES, <<
    Edit(25, 0, <<"AddS">>), Edit(42, 0, <<"GetParentEnvironment">>),
    Edit(43, 0, <<"GetClosureEnvironment">>),
    Edit(51, 0, <<"CreateFunctionEnvironment", "CreateTopLevelEnvironment">>),
    Edit(52, 1, <<>>), Edit(54, 1, <<>>), Edit(60, 4, <<
        "PutByIdLoose", "PutByIdStrict", "PutByIdLooseLong", "PutByIdStrictLong",
        "TryPutByIdLoose", "TryPutByIdStrict", "TryPutByIdLooseLong", "TryPutByIdStrictLong" >>),
    Edit(67, 0, <<"PutOwnBySlotIdx", "PutOwnBySlotIdxLong">>), Edit(72, 2, <<
        "DelByIdLoose", "DelByIdStrict", "DelByIdLooseLong", "DelByIdStrictLong" >>),
    Edit(75, 2, <<
        "GetByIndex", "PutByValLoose", "PutByValStrict", "DelByValLoose", "DelByValStrict" >>),
    Edit(83, 1, <<"CallWithNewTarget">>), Edit(87, 3, <<"CallWithNewTargetLong">>),
    Edit(103, 4, <<>>),
    Edit(130, 1, <<"GetArgumentsPropByValLoose", "GetArgumentsPropByValStrict">>),
    Edit(132, 1, <<"ReifyArgumentsStrict", "ReifyArgumentsLoose">>), Edit(135, 3, <<>>),
    Edit(151, 2, <<>>), Edit(193, 14, <<>>) >>)
V97_SIZES == Splice(V95_SIZES, <<
    Edit(2, 0, <<6>>), Edit(3, 1, <<>>), Edit(38, 0, <<4>>), Edit(41, 0, <<4, 3>>),
    Edit(51, 1, <<3, 6>>), Edit(53, 1, <<>>), Edit(61, 0, <<6, 8>>), Edit(63, 0, <<6, 8>>),
    Edit(66, 0, <<7, 4>>), Edit(73, 0, <<5>>), Edit(74, 0, <<7, 4, 4, 4>>), Edit(87, 3, <<5>>),
    Edit(101, 4, <<>>), Edit(131, 0, <<4>>), Edit(132, 0, <<2>>), Edit(135, 3, <<>>),
    Edit(151, 2, <<>>), Edit(193, 14, <<>>) >>)
V97_STR_OPS == <<
    <<56,1,4>>, <<57,4,1>>, <<58,4,2>>, <<59,4,4>>, <<60,4,2>>, <<61,4,4>>, <<62,4,2>>,
    <<63,4,2>>, <<64,4,4>>, <<65,4,4>>, <<66,4,2>>, <<67,4,2>>, <<68,4,4>>, <<69,4,4>>,
    <<70,3,1>>, <<71,3,2>>, <<72,3,4>>, <<75,3,2>>, <<76,3,4>>, <<80,3,2>>, <<81,3,2>>,
    <<82,3,4>>, <<83,3,4>>, <<123,2,2>>, <<124,2,4>>, <<142,6,4>> >>
V97_CALL_OPS == <<>>

V98_OPCODES == Splice(V97_OPCODES, <<
    Edit(76, 0, <<"GetOwnBySlotIdx", "GetOwnBySlotIdxLong">>),
    Edit(150, 0, <<"TypedLoadParent", "TypedStoreParent">>) >>)
V98_NAMES == Splice(V97_NAMES, <<
    Edit(76, 0, <<"GetOwnBySlotIdx", "GetOwnBySlotIdxLong">>),
    Edit(150, 0, <<"TypedLoadParent", "TypedStoreParent">>) >>)
V98_SIZES == Splice(V97_SIZES, <<Edit(73, 0, <<7, 4>>), Edit(150, 0, <<3, 3>>)>>)
V98_STR_OPS == <<
    <<56,1,4>>, <<57,4,1>>, <<58,4,2>>, <<59,4,4>>, <<60,4,2>>, <<61,4,4>>, <<62,4,2>>,
    <<63,4,2>>, <<64,4,4>>, <<65,4,4>>, <<66,4,2>>, <<67,4,2>>, <<68,4,4>>, <<69,4,4>>,
    <<70,3,1>>, <<71,3,2>>, <<72,3,4>>, <<77,3,2>>, <<78,3,4>>, <<82,3,2>>, <<83,3,2>>,
    <<84,3,4>>, <<85,3,4>>, <<125,2,2>>, <<126,2,4>>, <<144,6,4>> >>
V98_CALL_OPS == <<>>

V99_OPCODES == Splice(V98_OPCODES, <<
    Edit(4, 0, <<"NewObjectWithBufferAndParent", "NewTypedObjectWithBuffer">>), Edit(9, 0, <<
        "NewFastArray", "FastArrayLength", "FastArrayLoad", "FastArrayStore", "FastArrayPush",
        "FastArrayAppend" >>),
    Edit(43, 0, <<"PrivateIsIn", "TypeOfIs">>), Edit(54, 0, <<"LoadParentNoTraps">>),
    Edit(61, 0, <<"GetByIdWithReceiverLong">>), Edit(71, 3, <<>>), Edit(78, 9, <<
        "DefineOwnById", "DefineOwnByIdLong", "DefineOwnByIndex", "DefineOwnByIndexL",
        "DefineOwnInDenseArray", "DefineOwnInDenseArrayL", "DefineOwnByVal" >>),
    Edit(89, 0, <<"GetByValWithReceiver">>), Edit(91, 3, <<
        "PutByValWithReceiver", "DelByVal", "AddOwnPrivateBySym", "GetOwnPrivateBySym",
        "PutOwnPrivateBySym", "DefineOwnGetterSetterByVal" >>),
    Edit(104, 0, <<"CallRequire">>),
    Edit(112, 0, <<"ThrowIfUndefined", "ThrowIfThisInitialized">>), Edit(115, 0, <<
        "CreateBaseClass", "CreateBaseClassLongIndex", "CreateDerivedClass",
        "CreateDerivedClassLongIndex" >>),
    Edit(117, 1, <<"CreateThisForNew", "CreateThisForSuper">>), Edit(139, 0, <<"ToUint32">>),
    Edit(140, 0, <<"CreatePrivateName">>), Edit(145, 0, <<"ToPropertyKey">>),
    Edit(146, 1, <<"UIntSwitchImm", "StringSwitchImm">>), Edit(153, 1, <<>>),
    Edit(162, 0, <<"JmpTypeOfIs">>), Edit(182, 4, <<>>), Edit(190, 4, <<>>), Edit(202, 0, <<
        "JmpBuiltinIs", "JmpBuiltinIsLong", "JmpBuiltinIsNot", "JmpBuiltinIsNotLong" >>) >>)
V99_NAMES == Splice(V98_NAMES, <<
    Edit(4, 0, <<"NewObjectWithBufferAndParent", "NewTypedObjectWithBuffer">>), Edit(9, 0, <<
        "NewFastArray", "FastArrayLength", "FastArrayLoad", "FastArrayStore", "FastArrayPush",
        "FastArrayAppend" >>),
    Edit(43, 0, <<"PrivateIsIn", "TypeOfIs">>), Edit(54, 0, <<"LoadParentNoTraps">>),
    Edit(61, 0, <<"GetByIdWithReceiverLong">>), Edit(71, 3, <<>>), Edit(78, 9, <<
        "DefineOwnById", "DefineOwnByIdLong", "DefineOwnByIndex", "DefineOwnByIndexL",
        "DefineOwnInDenseArray", "DefineOwnInDenseArrayL", "DefineOwnByVal" >>),
    Edit(89, 0, <<"GetByValWithReceiver">>), Edit(91, 3, <<
        "PutByValWithReceiver", "DelByVal", "AddOwnPrivateBySym", "GetOwnPrivateBySym",
        "PutOwnPrivateBySym", "DefineOwnGetterSetterByVal" >>),
    Edit(104, 0, <<"CallRequire">>),
    Edit(112, 0, <<"ThrowIfUndefined", "ThrowIfThisInitialized">>), Edit(115, 0, <<
        "CreateBaseClass", "CreateBaseClassLongIndex", "CreateDerivedClass",
        "CreateDerivedClassLongIndex" >>),
    Edit(117, 1, <<"CreateThisForNew", "CreateThisForSuper">>), Edit(139, 0, <<"ToUint32">>),
    Edit(140, 0, <<"CreatePrivateName">>), Edit(145, 0, <<"ToPropertyKey">>),
    Edit(146, 1, <<"UIntSwitchImm", "StringSwitchImm">>), Edit(153, 1, <<>>),
    Edit(162, 0, <<"JmpTypeOfIs">>), Edit(182, 4, <<>>), Edit(190, 4, <<>>), Edit(202, 0, <<
        "JmpBuiltinIs", "JmpBuiltinIsLong", "JmpBuiltinIsNot", "JmpBuiltinIsNotLong" >>) >>)
V99_SIZES == Splice(V98_SIZES, <<
    Edit(4, 0, <<11, 12>>), Edit(9, 0, <<4, 3, 4, 4, 3, 3>>), Edit(43, 0, <<5, 5>>),
    Edit(55, 0, <<3>>), Edit(61, 0, <<9>>), Edit(72, 1, <<>>), Edit(76, 0, <<6, 8>>),
    Edit(78, 2, <<>>), Edit(81, 1, <<>>), Edit(84, 3, <<>>), Edit(89, 0, <<5>>),
    Edit(91, 0, <<6, 5>>), Edit(92, 1, <<5, 5>>), Edit(104, 0, <<7>>), Edit(112, 0, <<3, 2>>),
    Edit(115, 0, <<6, 8, 7, 9>>), Edit(118, 0, <<5>>), Edit(140, 0, <<3, 6>>),
    Edit(145, 0, <<3>>), Edit(146, 0, <<18>>), Edit(151, 1, <<>>), Edit(162, 0, <<8>>),
    Edit(198, 4, <<>>) >>)
V99_STR_OPS == <<
    <<67,1,4>>, <<68,4,1>>, <<69,4,2>>, <<70,4,4>>, <<71,5,4>>, <<72,4,2>>, <<73,4,4>>,
    <<74,4,2>>, <<75,4,2>>, <<76,4,4>>, <<77,4,4>>, <<78,4,2>>, <<79,4,2>>, <<80,4,4>>,
    <<81,4,4>>, <<87,4,4>>, <<144,2,2>>, <<145,2,4>>, <<159,2,4>>, <<166,6,4>> >>
V99_CALL_OPS == <<>>

V98L_OPCODES == Splice(V99_OPCODES, <<
    Edit(5, 1, <<>>), Edit(17, 0, <<"CacheNewObject">>), Edit(158, 1, <<>>) >>)
V98L_NAMES == Splice(V99_NAMES, <<
    Edit(5, 1, <<>>), Edit(17, 0, <<"CacheNewObject">>), Edit(158, 1, <<>>) >>)
V98L_SIZES == Splice(V99_SIZES, <<Edit(5, 1, <<>>), Edit(17, 0, <<8>>), Edit(159, 1, <<>>)>>)
V98L_STR_OPS == <<
    <<67,1,4>>, <<68,4,1>>, <<69,4,2>>, <<70,4,4>>, <<71,5,4>>, <<72,4,2>>, <<73,4,4>>,
    <<74,4,2>>, <<75,4,2>>, <<76,4,4>>, <<77,4,4>>, <<78,4,2>>, <<79,4,2>>, <<80,4,4>>,
    <<81,4,4>>, <<87,4,4>>, <<144,2,2>>, <<145,2,4>>, <<158,2,4>>, <<165,6,4>> >>
V98L_CALL_OPS == <<>>

-----------------------------------------------------------------------------
(* parser/mod.rs V98_LATE: the version number under which the late form of *)
(* v98 is looked up.                                                       *)
V98_LATE == 9801

MIN_SUPPORTED_VERSION == 40
MAX_SUPPORTED_VERSION == 100

Supported(version) ==
    version \in MIN_SUPPORTED_VERSION .. MAX_SUPPORTED_VERSION \cup {V98_LATE}

(* The versions that have tables of their own.                             *)
TableVersions ==
    {40, 41, 44, 45, 46, 52, 59, 61, 73, 80, 81, 83, 84, 85, 87, 90, 92, 95, 97, 98, 99,
     V98_LATE}

(* The match on the version: its own tables, or those of the latest        *)
(* version at or below it; v91 and v93 go back to v87, past v90 and v92.   *)
TableVersion(version) ==
    IF version \in {91, 93} THEN 87
    ELSE CHOOSE v \in TableVersions :
             /\ v <= version
             /\ \A w \in TableVersions : w <= version => w <= v

OpcodeTables ==
    (40 :> V40_OPCODES) @@ (41 :> V41_OPCODES) @@ (44 :> V44_OPCODES) @@ (45 :> V45_OPCODES)
        @@ (46 :> V46_OPCODES) @@ (52 :> V52_OPCODES) @@ (59 :> V59_OPCODES)
        @@ (61 :> V61_OPCODES) @@ (73 :> V73_OPCODES) @@ (80 :> V80_OPCODES)
        @@ (81 :> V81_OPCODES) @@ (83 :> V83_OPCODES) @@ (84 :> V84_OPCODES)
        @@ (85 :> V85_OPCODES) @@ (87 :> V87_OPCODES) @@ (90 :> V90_OPCODES)
        @@ (92 :> V92_OPCODES) @@ (95 :> V95_OPCODES) @@ (97 :> V97_OPCODES)
        @@ (98 :> V98_OPCODES) @@ (99 :> V99_OPCODES) @@ (V98_LATE :> V98L_OPCODES)

SizeTables ==
    (40 :> V40_SIZES) @@ (41 :> V41_SIZES) @@ (44 :> V44_SIZES) @@ (45 :> V45_SIZES)
        @@ (46 :> V46_SIZES) @@ (52 :> V52_SIZES) @@ (59 :> V59_SIZES) @@ (61 :> V61_SIZES)
        @@ (73 :> V73_SIZES) @@ (80 :> V80_SIZES) @@ (81 :> V81_SIZES) @@ (83 :> V83_SIZES)
        @@ (84 :> V84_SIZES) @@ (85 :> V85_SIZES) @@ (87 :> V87_SIZES) @@ (90 :> V90_SIZES)
        @@ (92 :> V92_SIZES) @@ (95 :> V95_SIZES) @@ (97 :> V97_SIZES) @@ (98 :> V98_SIZES)
        @@ (99 :> V99_SIZES) @@ (V98_LATE :> V98L_SIZES)

StrOpTables ==
    (40 :> V40_STR_OPS) @@ (41 :> V41_STR_OPS) @@ (44 :> V44_STR_OPS) @@ (45 :> V45_STR_OPS)
        @@ (46 :> V46_STR_OPS) @@ (52 :> V52_STR_OPS) @@ (59 :> V59_STR_OPS)
        @@ (61 :> V61_STR_OPS) @@ (73 :> V73_STR_OPS) @@ (80 :> V80_STR_OPS)
        @@ (81 :> V81_STR_OPS) @@ (83 :> V83_STR_OPS) @@ (84 :> V84_STR_OPS)
        @@ (85 :> V85_STR_OPS) @@ (87 :> V87_STR_OPS) @@ (90 :> V90_STR_OPS)
        @@ (92 :> V92_STR_OPS) @@ (95 :> V95_STR_OPS) @@ (97 :> V97_STR_OPS)
        @@ (98 :> V98_STR_OPS) @@ (99 :> V99_STR_OPS) @@ (V98_LATE :> V98L_STR_OPS)

CallOpTables ==
    (40 :> V40_CALL_OPS) @@ (41 :> V41_CALL_OPS) @@ (44 :> V44_CALL_OPS) @@ (45 :> V45_CALL_OPS)
        @@ (46 :> V46_CALL_OPS) @@ (52 :> V52_CALL_OPS) @@ (59 :> V59_CALL_OPS)
        @@ (61 :> V61_CALL_OPS) @@ (73 :> V73_CALL_OPS) @@ (80 :> V80_CALL_OPS)
        @@ (81 :> V81_CALL_OPS) @@ (83 :> V83_CALL_OPS) @@ (84 :> V84_CALL_OPS)
        @@ (85 :> V85_CALL_OPS) @@ (87 :> V87_CALL_OPS) @@ (90 :> V90_CALL_OPS)
        @@ (92 :> V92_CALL_OPS) @@ (95 :> V95_CALL_OPS) @@ (97 :> V97_CALL_OPS)
        @@ (98 :> V98_CALL_OPS) @@ (99 :> V99_CALL_OPS) @@ (V98_LATE :> V98L_CALL_OPS)

NameTables ==
    (40 :> V40_NAMES) @@ (41 :> V41_NAMES) @@ (44 :> V44_NAMES) @@ (45 :> V45_NAMES)
        @@ (46 :> V46_NAMES) @@ (52 :> V52_NAMES) @@ (59 :> V59_NAMES) @@ (61 :> V61_NAMES)
        @@ (73 :> V73_NAMES) @@ (80 :> V80_NAMES) @@ (81 :> V81_NAMES) @@ (83 :> V83_NAMES)
        @@ (84 :> V84_NAMES) @@ (85 :> V85_NAMES) @@ (87 :> V87_NAMES) @@ (90 :> V90_NAMES)
        @@ (92 :> V92_NAMES) @@ (95 :> V95_NAMES) @@ (97 :> V97_NAMES) @@ (98 :> V98_NAMES)
        @@ (99 :> V99_NAMES) @@ (V98_LATE :> V98L_NAMES)

get_version_opcodes(version) == OpcodeTables[TableVersion(version)]

get_version_names(version) == NameTables[TableVersion(version)]

get_version_tables(version) ==
    LET v == TableVersion(version)
    IN  [sizes |-> SizeTables[v], str_ops |-> StrOpTables[v], call_ops |-> CallOpTables[v]]

=============================================================================
