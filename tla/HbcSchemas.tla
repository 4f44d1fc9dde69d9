------------------------------ MODULE HbcSchemas ------------------------------
(***************************************************************************)
(* The generated operand schemas of src/src/decompile/schemas.rs: for      *)
(* every bytecode version with tables of its own, the name and the operand *)
(* types of each opcode (SCHEMAS) and the <<opcode, operand>> pairs that   *)
(* are string ids (STRING_IDS) and function ids (FUNC_IDS), operands       *)
(* counted from 0.                                                         *)
(*                                                                         *)
(* An operand list that occurs is named after its types: R and R4 are      *)
(* registers, U1 U2 U4 unsigned numbers, I4 a signed one, A1 A4 relative   *)
(* addresses, D a double; f0 is no operand.  As in HbcOpcodes a table is   *)
(* the table before it with edits.                                         *)
(***************************************************************************)
EXTENDS Integers, SequencesExt, HbcOpcodes

f0 == <<>>
fA1 == <<"A1">>
fA4 == <<"A4">>
fR == <<"R">>
fU2 == <<"U2">>
fU4 == <<"U4">>
fA1R == <<"A1", "R">>
fA4R == <<"A4", "R">>
fRD == <<"R", "D">>
fRI4 == <<"R", "I4">>
fRR == <<"R", "R">>
fRU1 == <<"R", "U1">>
fRU2 == <<"R", "U2">>
fRU4 == <<"R", "U4">>
fR4R4 == <<"R4", "R4">>
fA1RR == <<"A1", "R", "R">>
fA1U1R == <<"A1", "U1", "R">>
fA4RR == <<"A4", "R", "R">>
fA4RU2 == <<"A4", "R", "U2">>
fA4U1R == <<"A4", "U1", "R">>
fRRR == <<"R", "R", "R">>
fRRU1 == <<"R", "R", "U1">>
fRRU2 == <<"R", "R", "U2">>
fRRU4 == <<"R", "R", "U4">>
fRU1R == <<"R", "U1", "R">>
fRU1U1 == <<"R", "U1", "U1">>
fRU1U2 == <<"R", "U1", "U2">>
fRU1U4 == <<"R", "U1", "U4">>
fRU2R == <<"R", "U2", "R">>
fRU2U2 == <<"R", "U2", "U2">>
fRU4U4 == <<"R", "U4", "U4">>
fRRRR == <<"R", "R", "R", "R">>
fRRRU1 == <<"R", "R", "R", "U1">>
fRRRU2 == <<"R", "R", "R", "U2">>
fRRRU4 == <<"R", "R", "R", "U4">>
fRRU1R == <<"R", "R", "U1", "R">>
fRRU1U1 == <<"R", "R", "U1", "U1">>
fRRU1U2 == <<"R", "R", "U1", "U2">>
fRRU1U4 == <<"R", "R", "U1", "U4">>
fRRU4U1 == <<"R", "R", "U4", "U1">>
fRRU4U4 == <<"R", "R", "U4", "U4">>
fRU2U2U2 == <<"R", "U2", "U2", "U2">>
fRU2U2U4 == <<"R", "U2", "U2", "U4">>
fRU4RR == <<"R", "U4", "R", "R">>
fRU4U4U4 == <<"R", "U4", "U4", "U4">>
fRRRRR == <<"R", "R", "R", "R", "R">>
fRRRRU1 == <<"R", "R", "R", "R", "U1">>
fRRRRU2 == <<"R", "R", "R", "R", "U2">>
fRRRRU4 == <<"R", "R", "R", "R", "U4">>
fRRU1RU4 == <<"R", "R", "U1", "R", "U4">>
fRRU4U4U1 == <<"R", "R", "U4", "U4", "U1">>
fRU2U2U2U2 == <<"R", "U2", "U2", "U2", "U2">>
fRU2U2U4U4 == <<"R", "U2", "U2", "U4", "U4">>
fRU4A4U4U4 == <<"R", "U4", "A4", "U4", "U4">>
fRU4U4A4U4 == <<"R", "U4", "U4", "A4", "U4">>
fRRRRRR == <<"R", "R", "R", "R", "R", "R">>

-----------------------------------------------------------------------------
V40_SCHEMAS == <<
    <<"NewObjectWithBuffer",fRU2U2U2U2>>, <<"NewObjectWithBufferLong",fRU2U2U4U4>>,
    <<"NewObject",fR>>, <<"NewArrayWithBuffer",fRU2U2U2>>,
    <<"NewArrayWithBufferLong",fRU2U2U4>>, <<"NewArray",fRU2>>, <<"Mov",fRR>>,
    <<"MovLong",fR4R4>>, <<"Negate",fRR>>, <<"Not",fRR>>, <<"BitNot",fRR>>, <<"TypeOf",fRR>>,
    <<"Eq",fRRR>>, <<"StrictEq",fRRR>>, <<"Neq",fRRR>>, <<"StrictNeq",fRRR>>, <<"Less",fRRR>>,
    <<"LessEq",fRRR>>, <<"Greater",fRRR>>, <<"GreaterEq",fRRR>>, <<"Add",fRRR>>,
    <<"AddN",fRRR>>, <<"Mul",fRRR>>, <<"MulN",fRRR>>, <<"Div",fRRR>>, <<"DivN",fRRR>>,
    <<"Mod",fRRR>>, <<"Sub",fRRR>>, <<"SubN",fRRR>>, <<"LShift",fRRR>>, <<"RShift",fRRR>>,
    <<"URshift",fRRR>>, <<"BitAnd",fRRR>>, <<"BitXor",fRRR>>, <<"BitOr",fRRR>>,
    <<"InstanceOf",fRRR>>, <<"IsIn",fRRR>>, <<"GetEnvironment",fRU1>>,
    <<"StoreToEnvironment",fRU1R>>, <<"StoreToEnvironmentL",fRU2R>>,
    <<"StoreNPToEnvironment",fRU1R>>, <<"StoreNPToEnvironmentL",fRU2R>>,
    <<"LoadFromEnvironment",fRRU1>>, <<"LoadFromEnvironmentL",fRRU2>>,
    <<"GetGlobalObject",fR>>, <<"CreateEnvironment",fR>>, <<"DeclareGlobalVar",fU4>>,
    <<"GetByIdShort",fRRU1U1>>, <<"GetById",fRRU1U2>>, <<"GetByIdLong",fRRU1U4>>,
    <<"TryGetById",fRRU1U2>>, <<"TryGetByIdLong",fRRU1U4>>, <<"PutById",fRRU1U2>>,
    <<"PutByIdLong",fRRU1U4>>, <<"TryPutById",fRRU1U2>>, <<"TryPutByIdLong",fRRU1U4>>,
    <<"PutOwnByIdShort",fRRU1>>, <<"PutOwnById",fRRU2>>, <<"PutOwnByIdLong",fRRU4>>,
    <<"PutOwnByIndex",fRRU1>>, <<"PutOwnByIndexL",fRRU4>>, <<"DelById",fRRU2>>,
    <<"DelByIdLong",fRRU4>>, <<"GetByVal",fRRR>>, <<"PutByVal",fRRR>>, <<"DelByVal",fRRR>>,
    <<"PutGetterSetter",fRU4RR>>, <<"GetPNameList",fRRRR>>, <<"GetNextPName",fRRRRR>>,
    <<"Call",fRRU1>>, <<"Construct",fRRU1>>, <<"CallDirect",fRU1U2>>, <<"CallLong",fRRU4>>,
    <<"ConstructLong",fRRU4>>, <<"CallDirectLongIndex",fRU1U4>>, <<"CallBuiltin",fRU1U1>>,
    <<"Ret",fR>>, <<"Catch",fR>>, <<"DirectEval",fRR>>, <<"Throw",fR>>, <<"Debugger",f0>>,
    <<"DebuggerCheckBreak",f0>>, <<"ProfilePoint",fU2>>, <<"Unreachable",f0>>,
    <<"CreateClosure",fRRU2>>, <<"CreateClosureLongIndex",fRRU4>>, <<"CreateThis",fRRR>>,
    <<"SelectObject",fRRR>>, <<"LoadParam",fRU1>>, <<"LoadParamLong",fRU4>>,
    <<"LoadConstUInt8",fRU1>>, <<"LoadConstInt",fRI4>>, <<"LoadConstDouble",fRD>>,
    <<"LoadConstString",fRU2>>, <<"LoadConstStringLongIndex",fRU4>>,
    <<"LoadConstUndefined",fR>>, <<"LoadConstNull",fR>>, <<"LoadConstTrue",fR>>,
    <<"LoadConstFalse",fR>>, <<"LoadConstZero",fR>>, <<"CoerceThisNS",fRR>>,
    <<"LoadThisNS",fR>>, <<"ToNumber",fRR>>, <<"ToInt32",fRR>>, <<"AddEmptyString",fRR>>,
    <<"GetArgumentsPropByVal",fRRR>>, <<"GetArgumentsLength",fRR>>, <<"ReifyArguments",fR>>,
    <<"CreateRegExp",fRU4U4U4>>, <<"SwitchImm",fRU4A4U4U4>>, <<"Jmp",fA1>>, <<"JmpLong",fA4>>,
    <<"JmpTrue",fA1R>>, <<"JmpTrueLong",fA4R>>, <<"JmpFalse",fA1R>>, <<"JmpFalseLong",fA4R>>,
    <<"JmpUndefined",fA1R>>, <<"JmpUndefinedLong",fA4R>>, <<"JLess",fA1RR>>,
    <<"JLessLong",fA4RR>>, <<"JNotLess",fA1RR>>, <<"JNotLessLong",fA4RR>>, <<"JLessN",fA1RR>>,
    <<"JLessNLong",fA4RR>>, <<"JNotLessN",fA1RR>>, <<"JNotLessNLong",fA4RR>>,
    <<"JLessEqual",fA1RR>>, <<"JLessEqualLong",fA4RR>>, <<"JNotLessEqual",fA1RR>>,
    <<"JNotLessEqualLong",fA4RR>>, <<"JLessEqualN",fA1RR>>, <<"JLessEqualNLong",fA4RR>>,
    <<"JNotLessEqualN",fA1RR>>, <<"JNotLessEqualNLong",fA4RR>>, <<"JGreater",fA1RR>>,
    <<"JGreaterLong",fA4RR>>, <<"JNotGreater",fA1RR>>, <<"JNotGreaterLong",fA4RR>>,
    <<"JGreaterN",fA1RR>>, <<"JGreaterNLong",fA4RR>>, <<"JNotGreaterN",fA1RR>>,
    <<"JNotGreaterNLong",fA4RR>>, <<"JGreaterEqual",fA1RR>>, <<"JGreaterEqualLong",fA4RR>>,
    <<"JNotGreaterEqual",fA1RR>>, <<"JNotGreaterEqualLong",fA4RR>>, <<"JGreaterEqualN",fA1RR>>,
    <<"JGreaterEqualNLong",fA4RR>>, <<"JNotGreaterEqualN",fA1RR>>,
    <<"JNotGreaterEqualNLong",fA4RR>>, <<"JEqual",fA1RR>>, <<"JEqualLong",fA4RR>>,
    <<"JNotEqual",fA1RR>>, <<"JNotEqualLong",fA4RR>>, <<"JStrictEqual",fA1RR>>,
    <<"JStrictEqualLong",fA4RR>>, <<"JStrictNotEqual",fA1RR>>, <<"JStrictNotEqualLong",fA4RR>> >>
V40_STRING_IDS == <<
    <<46,0>>, <<47,3>>, <<48,3>>, <<49,3>>, <<50,3>>, <<51,3>>, <<52,3>>, <<53,3>>, <<54,3>>,
    <<55,3>>, <<56,2>>, <<57,2>>, <<58,2>>, <<61,2>>, <<62,2>>, <<66,1>>, <<93,1>>, <<94,1>>,
    <<108,2>> >>
V40_FUNC_IDS == <<>>

V41_SCHEMAS == Splice(V40_SCHEMAS, <<
    Edit(72, 0, <<<<"Call1",fRRR>>>>),
    Edit(73, 0, <<<<"Call2",fRRRR>>, <<"Call3",fRRRRR>>, <<"Call4",fRRRRRR>>>>) >>)
V41_STRING_IDS == <<
    <<46,0>>, <<47,3>>, <<48,3>>, <<49,3>>, <<50,3>>, <<51,3>>, <<52,3>>, <<53,3>>, <<54,3>>,
    <<55,3>>, <<56,2>>, <<57,2>>, <<58,2>>, <<61,2>>, <<62,2>>, <<66,1>>, <<97,1>>, <<98,1>>,
    <<112,2>> >>
V41_FUNC_IDS == <<>>

V44_SCHEMAS == Splice(V41_SCHEMAS, <<Edit(46, 0, <<<<"GetNewTarget",fR>>>>)>>)
V44_STRING_IDS == <<
    <<47,0>>, <<48,3>>, <<49,3>>, <<50,3>>, <<51,3>>, <<52,3>>, <<53,3>>, <<54,3>>, <<55,3>>,
    <<56,3>>, <<57,2>>, <<58,2>>, <<59,2>>, <<62,2>>, <<63,2>>, <<67,1>>, <<98,1>>, <<99,1>>,
    <<113,2>> >>
V44_FUNC_IDS == <<>>

V45_SCHEMAS == Splice(V44_SCHEMAS, <<
    Edit(58, 3, <<
        <<"PutNewOwnByIdShort",fRRU1>>, <<"PutNewOwnById",fRRU2>>,
        <<"PutNewOwnByIdLong",fRRU4>>, <<"PutNewOwnNEById",fRRU2>>,
        <<"PutNewOwnNEByIdLong",fRRU4>> >>),
    Edit(63, 0, <<<<"PutOwnByVal",fRRRU1>>>>),
    Edit(68, 1, <<<<"PutOwnGetterSetterByVal",fRRRRU1>>>>) >>)
V45_STRING_IDS == <<
    <<47,0>>, <<48,3>>, <<49,3>>, <<50,3>>, <<51,3>>, <<52,3>>, <<53,3>>, <<54,3>>, <<55,3>>,
    <<56,3>>, <<57,2>>, <<58,2>>, <<59,2>>, <<60,2>>, <<61,2>>, <<65,2>>, <<66,2>>, <<101,1>>,
    <<102,1>>, <<116,2>> >>
V45_FUNC_IDS == <<>>

V46_SCHEMAS == Splice(V45_SCHEMAS, <<Edit(4, 0, <<<<"NewObjectWithParent",fRR>>>>)>>)
V46_STRING_IDS == <<
    <<48,0>>, <<49,3>>, <<50,3>>, <<51,3>>, <<52,3>>, <<53,3>>, <<54,3>>, <<55,3>>, <<56,3>>,
    <<57,3>>, <<58,2>>, <<59,2>>, <<60,2>>, <<61,2>>, <<62,2>>, <<66,2>>, <<67,2>>, <<102,1>>,
    <<103,1>>, <<117,2>> >>
V46_FUNC_IDS == <<>>

V52_SCHEMAS == Splice(V46_SCHEMAS, <<
    Edit(96, 0, <<
        <<"CreateGeneratorClosure",fRRU2>>, <<"CreateGeneratorClosureLongIndex",fRRU4>> >>),
    Edit(120, 0, <<
        <<"StartGenerator",f0>>, <<"ResumeGenerator",fRR>>, <<"CompleteGenerator",f0>>,
        <<"CreateGenerator",fRRU2>>, <<"CreateGeneratorLongIndex",fRRU4>> >>),
    Edit(128, 0, <<<<"SaveGenerator",fA1>>, <<"SaveGeneratorLong",fA4>>>>) >>)
V52_STRING_IDS == <<
    <<48,0>>, <<49,3>>, <<50,3>>, <<51,3>>, <<52,3>>, <<53,3>>, <<54,3>>, <<55,3>>, <<56,3>>,
    <<57,3>>, <<58,2>>, <<59,2>>, <<60,2>>, <<61,2>>, <<62,2>>, <<66,2>>, <<67,2>>, <<104,1>>,
    <<105,1>>, <<119,2>> >>
V52_FUNC_IDS == <<>>

V59_SCHEMAS == Splice(V52_SCHEMAS, <<Edit(90, 0, <<<<"ThrowIfUndefinedInst",fR>>>>)>>)
V59_STRING_IDS == <<
    <<48,0>>, <<49,3>>, <<50,3>>, <<51,3>>, <<52,3>>, <<53,3>>, <<54,3>>, <<55,3>>, <<56,3>>,
    <<57,3>>, <<58,2>>, <<59,2>>, <<60,2>>, <<61,2>>, <<62,2>>, <<66,2>>, <<67,2>>, <<105,1>>,
    <<106,1>>, <<120,2>> >>
V59_FUNC_IDS == <<>>

V61_SCHEMAS == Splice(V59_SCHEMAS, <<Edit(92, 1, <<<<"AsyncBreakCheck",f0>>>>)>>)
V61_STRING_IDS == <<
    <<48,0>>, <<49,3>>, <<50,3>>, <<51,3>>, <<52,3>>, <<53,3>>, <<54,3>>, <<55,3>>, <<56,3>>,
    <<57,3>>, <<58,2>>, <<59,2>>, <<60,2>>, <<61,2>>, <<62,2>>, <<66,2>>, <<67,2>>, <<105,1>>,
    <<106,1>>, <<120,2>> >>
V61_FUNC_IDS == <<>>

V73_SCHEMAS == Splice(V61_SCHEMAS, <<
    Edit(128, 0, <<
        <<"IteratorBegin",fRR>>, <<"IteratorNext",fRRR>>, <<"IteratorClose",fRU1>> >>) >>)
V73_STRING_IDS == <<
    <<48,0>>, <<49,3>>, <<50,3>>, <<51,3>>, <<52,3>>, <<53,3>>, <<54,3>>, <<55,3>>, <<56,3>>,
    <<57,3>>, <<58,2>>, <<59,2>>, <<60,2>>, <<61,2>>, <<62,2>>, <<66,2>>, <<67,2>>, <<105,1>>,
    <<106,1>>, <<120,2>> >>
V73_FUNC_IDS == <<>>

V80_SCHEMAS == Splice(V73_SCHEMAS, <<Edit(86, 0, <<<<"CallBuiltinLong",fRU1U4>>>>)>>)
V80_STRING_IDS == <<
    <<48,0>>, <<49,3>>, <<50,3>>, <<51,3>>, <<52,3>>, <<53,3>>, <<54,3>>, <<55,3>>, <<56,3>>,
    <<57,3>>, <<58,2>>, <<59,2>>, <<60,2>>, <<61,2>>, <<62,2>>, <<66,2>>, <<67,2>>, <<106,1>>,
    <<107,1>>, <<121,2>> >>
V80_FUNC_IDS == <<>>

V81_SCHEMAS == Splice(V80_SCHEMAS, <<
    Edit(87, 0, <<<<"GetBuiltinClosure",fRU1>>>>), Edit(91, 1, <<<<"ThrowIfEmpty",fRR>>>>),
    Edit(100, 0, <<<<"CreateAsyncClosure",fRRU2>>, <<"CreateAsyncClosureLongIndex",fRRU4>>>>),
    Edit(109, 0, <<<<"LoadConstEmpty",fR>>>>) >>)
V81_STRING_IDS == <<
    <<48,0>>, <<49,3>>, <<50,3>>, <<51,3>>, <<52,3>>, <<53,3>>, <<54,3>>, <<55,3>>, <<56,3>>,
    <<57,3>>, <<58,2>>, <<59,2>>, <<60,2>>, <<61,2>>, <<62,2>>, <<66,2>>, <<67,2>>, <<109,1>>,
    <<110,1>>, <<125,2>> >>
V81_FUNC_IDS == <<>>

V83_SCHEMAS == Splice(V81_SCHEMAS, <<Edit(1, 0, <<<<"Unreachable",f0>>>>), Edit(96, 1, <<>>)>>)
V83_STRING_IDS == <<
    <<49,0>>, <<50,3>>, <<51,3>>, <<52,3>>, <<53,3>>, <<54,3>>, <<55,3>>, <<56,3>>, <<57,3>>,
    <<58,3>>, <<59,2>>, <<60,2>>, <<61,2>>, <<62,2>>, <<63,2>>, <<67,2>>, <<68,2>>, <<109,1>>,
    <<110,1>>, <<125,2>> >>
V83_FUNC_IDS == <<>>

V84_SCHEMAS == Splice(V83_SCHEMAS, <<
    Edit(186, 0, <<
        <<"Add32",fRRR>>, <<"Sub32",fRRR>>, <<"Mul32",fRRR>>, <<"Divi32",fRRR>>,
        <<"Divu32",fRRR>>, <<"Loadi8",fRRR>>, <<"Loadu8",fRRR>>, <<"Loadi16",fRRR>>,
        <<"Loadu16",fRRR>>, <<"Loadi32",fRRR>>, <<"Loadu32",fRRR>>, <<"Store8",fRRR>>,
        <<"Store16",fRRR>>, <<"Store32",fRRR>> >>) >>)
V84_STRING_IDS == <<
    <<49,0>>, <<50,3>>, <<51,3>>, <<52,3>>, <<53,3>>, <<54,3>>, <<55,3>>, <<56,3>>, <<57,3>>,
    <<58,3>>, <<59,2>>, <<60,2>>, <<61,2>>, <<62,2>>, <<63,2>>, <<67,2>>, <<68,2>>, <<109,1>>,
    <<110,1>>, <<125,2>> >>
V84_FUNC_IDS == <<>>

V85_SCHEMAS == Splice(V84_SCHEMAS, <<Edit(38, 0, <<<<"Inc",fRR>>, <<"Dec",fRR>>>>)>>)
V85_STRING_IDS == <<
    <<51,0>>, <<52,3>>, <<53,3>>, <<54,3>>, <<55,3>>, <<56,3>>, <<57,3>>, <<58,3>>, <<59,3>>,
    <<60,3>>, <<61,2>>, <<62,2>>, <<63,2>>, <<64,2>>, <<65,2>>, <<69,2>>, <<70,2>>, <<111,1>>,
    <<112,1>>, <<127,2>> >>
V85_FUNC_IDS == <<>>

V87_SCHEMAS == Splice(V85_SCHEMAS, <<
    Edit(112, 0, <<<<"LoadConstBigInt",fRU2>>, <<"LoadConstBigIntLongIndex",fRU4>>>>),
    Edit(123, 0, <<<<"ToNumeric",fRR>>>>) >>)
V87_STRING_IDS == <<
    <<51,0>>, <<52,3>>, <<53,3>>, <<54,3>>, <<55,3>>, <<56,3>>, <<57,3>>, <<58,3>>, <<59,3>>,
    <<60,3>>, <<61,2>>, <<62,2>>, <<63,2>>, <<64,2>>, <<65,2>>, <<69,2>>, <<70,2>>, <<113,1>>,
    <<114,1>>, <<130,2>> >>
V87_FUNC_IDS == <<>>

V90_SCHEMAS == Splice(V87_SCHEMAS, <<
    Edit(128, 1, <<
        <<"GetArgumentsPropByValLoose",fRRR>>, <<"GetArgumentsPropByValStrict",fRRR>> >>),
    Edit(130, 1, <<<<"ReifyArgumentsStrict",fR>>, <<"ReifyArgumentsLoose",fR>>>>) >>)
V90_STRING_IDS == <<
    <<51,0>>, <<52,3>>, <<53,3>>, <<54,3>>, <<55,3>>, <<56,3>>, <<57,3>>, <<58,3>>, <<59,3>>,
    <<60,3>>, <<61,2>>, <<62,2>>, <<63,2>>, <<64,2>>, <<65,2>>, <<69,2>>, <<70,2>>, <<113,1>>,
    <<114,1>>, <<132,2>> >>
V90_FUNC_IDS == <<
    <<80,2>>, <<98,2>>, <<99,2>>, <<100,2>>, <<101,2>>, <<102,2>>, <<103,2>>, <<137,2>>,
    <<138,2>> >>

V92_SCHEMAS == Splice(V90_SCHEMAS, <<
    Edit(52, 0, <<<<"CreateInnerEnvironment",fRRU4>>>>),
    Edit(53, 0, <<<<"ThrowIfHasRestrictedGlobalProperty",fU4>>>>),
    Edit(128, 2, <<<<"GetArgumentsPropByVal",fRRR>>>>),
    Edit(131, 2, <<<<"ReifyArguments",fR>>>>) >>)
V92_STRING_IDS == <<
    <<52,0>>, <<53,0>>, <<54,3>>, <<55,3>>, <<56,3>>, <<57,3>>, <<58,3>>, <<59,3>>, <<60,3>>,
    <<61,3>>, <<62,3>>, <<63,2>>, <<64,2>>, <<65,2>>, <<66,2>>, <<67,2>>, <<71,2>>, <<72,2>>,
    <<115,1>>, <<116,1>>, <<132,2>> >>
V92_FUNC_IDS == <<
    <<82,2>>, <<100,2>>, <<101,2>>, <<102,2>>, <<103,2>>, <<104,2>>, <<105,2>>, <<137,2>>,
    <<138,2>> >>

V95_SCHEMAS == Splice(V92_SCHEMAS, <<Edit(95, 1, <<<<"DirectEval",fRRU1>>>>)>>)
V95_STRING_IDS == <<
    <<52,0>>, <<53,0>>, <<54,3>>, <<55,3>>, <<56,3>>, <<57,3>>, <<58,3>>, <<59,3>>, <<60,3>>,
    <<61,3>>, <<62,3>>, <<63,2>>, <<64,2>>, <<65,2>>, <<66,2>>, <<67,2>>, <<71,2>>, <<72,2>>,
    <<115,1>>, <<116,1>>, <<132,2>> >>
V95_FUNC_IDS == <<
    <<82,2>>, <<100,2>>, <<101,2>>, <<102,2>>, <<103,2>>, <<104,2>>, <<105,2>>, <<137,2>>,
    <<138,2>> >>

V97_SCHEMAS == Splice(V95_SCHEMAS, <<
    Edit(2, 2, <<<<"NewObjectWithBuffer",fRU2U2>>, <<"NewObjectWithBufferLong",fRU4U4>>>>),
    Edit(25, 0, <<<<"AddS",fRRR>>>>), Edit(42, 1, <<
        <<"GetParentEnvironment",fRU1>>, <<"GetEnvironment",fRRU1>>,
        <<"GetClosureEnvironment",fRR>> >>),
    Edit(51, 2, <<
        <<"CreateFunctionEnvironment",fRU1>>, <<"CreateTopLevelEnvironment",fRU4>>,
        <<"CreateEnvironment",fRRU4>> >>),
    Edit(54, 1, <<>>), Edit(60, 4, <<
        <<"PutByIdLoose",fRRU1U2>>, <<"PutByIdStrict",fRRU1U2>>,
        <<"PutByIdLooseLong",fRRU1U4>>, <<"PutByIdStrictLong",fRRU1U4>>,
        <<"TryPutByIdLoose",fRRU1U2>>, <<"TryPutByIdStrict",fRRU1U2>>,
        <<"TryPutByIdLooseLong",fRRU1U4>>, <<"TryPutByIdStrictLong",fRRU1U4>> >>),
    Edit(67, 0, <<<<"PutOwnBySlotIdx",fRRU1>>, <<"PutOwnBySlotIdxLong",fRRU4>>>>),
    Edit(72, 2, <<
        <<"DelByIdLoose",fRRU2>>, <<"DelByIdStrict",fRRU2>>, <<"DelByIdLooseLong",fRRU4>>,
        <<"DelByIdStrictLong",fRRU4>> >>),
    Edit(75, 2, <<
        <<"GetByIndex",fRRU1>>, <<"PutByValLoose",fRRR>>, <<"PutByValStrict",fRRR>>,
        <<"DelByValLoose",fRRR>>, <<"DelByValStrict",fRRR>> >>),
    Edit(83, 1, <<<<"CallWithNewTarget",fRRRU1>>>>),
    Edit(87, 3, <<<<"CallWithNewTargetLong",fRRRR>>>>), Edit(103, 4, <<>>), Edit(130, 1, <<
        <<"GetArgumentsPropByValLoose",fRRR>>, <<"GetArgumentsPropByValStrict",fRRR>> >>),
    Edit(132, 1, <<<<"ReifyArgumentsStrict",fR>>, <<"ReifyArgumentsLoose",fR>>>>),
    Edit(135, 3, <<>>), Edit(151, 2, <<>>), Edit(193, 14, <<>>) >>)
V97_STRING_IDS == <<
    <<56,0>>, <<57,3>>, <<58,3>>, <<59,3>>, <<60,3>>, <<61,3>>, <<62,3>>, <<63,3>>, <<64,3>>,
    <<65,3>>, <<66,3>>, <<67,3>>, <<68,3>>, <<69,3>>, <<70,2>>, <<71,2>>, <<72,2>>, <<75,2>>,
    <<76,2>>, <<80,2>>, <<81,2>>, <<82,2>>, <<83,2>>, <<123,1>>, <<124,1>>, <<142,2>> >>
V97_FUNC_IDS == <<<<112,2>>, <<113,2>>, <<144,2>>, <<145,2>>>>

V98_SCHEMAS == Splice(V97_SCHEMAS, <<
    Edit(76, 0, <<<<"GetOwnBySlotIdx",fRRU1>>, <<"GetOwnBySlotIdxLong",fRRU4>>>>),
    Edit(150, 0, <<<<"TypedLoadParent",fRR>>, <<"TypedStoreParent",fRR>>>>) >>)
V98_STRING_IDS == <<
    <<56,0>>, <<57,3>>, <<58,3>>, <<59,3>>, <<60,3>>, <<61,3>>, <<62,3>>, <<63,3>>, <<64,3>>,
    <<65,3>>, <<66,3>>, <<67,3>>, <<68,3>>, <<69,3>>, <<70,2>>, <<71,2>>, <<72,2>>, <<77,2>>,
    <<78,2>>, <<82,2>>, <<83,2>>, <<84,2>>, <<85,2>>, <<125,1>>, <<126,1>>, <<144,2>> >>
V98_FUNC_IDS == <<<<114,2>>, <<115,2>>, <<146,2>>, <<147,2>>>>

V99_SCHEMAS == Splice(V98_SCHEMAS, <<
    Edit(4, 0, <<
        <<"NewObjectWithBufferAndParent",fRRU4U4>>, <<"NewTypedObjectWithBuffer",fRRU4U4U1>> >>),
    Edit(9, 0, <<
        <<"NewFastArray",fRU2>>, <<"FastArrayLength",fRR>>, <<"FastArrayLoad",fRRR>>,
        <<"FastArrayStore",fRRR>>, <<"FastArrayPush",fRR>>, <<"FastArrayAppend",fRR>> >>),
    Edit(43, 0, <<<<"PrivateIsIn",fRRRR>>, <<"TypeOfIs",fRRU2>>>>),
    Edit(54, 0, <<<<"LoadParentNoTraps",fRR>>>>),
    Edit(61, 0, <<<<"GetByIdWithReceiverLong",fRRU1RU4>>>>), Edit(71, 3, <<>>), Edit(78, 9, <<
        <<"DefineOwnById",fRRU1U2>>, <<"DefineOwnByIdLong",fRRU1U4>>,
        <<"DefineOwnByIndex",fRRU1>>, <<"DefineOwnByIndexL",fRRU4>>,
        <<"DefineOwnInDenseArray",fRRU1>>, <<"DefineOwnInDenseArrayL",fRRU2>>,
        <<"DefineOwnByVal",fRRRU1>> >>),
    Edit(89, 0, <<<<"GetByValWithReceiver",fRRRR>>>>), Edit(91, 3, <<
        <<"PutByValWithReceiver",fRRRRU1>>, <<"DelByVal",fRRRU1>>,
        <<"AddOwnPrivateBySym",fRRR>>, <<"GetOwnPrivateBySym",fRRU1R>>,
        <<"PutOwnPrivateBySym",fRRU1R>>, <<"DefineOwnGetterSetterByVal",fRRRRU1>> >>),
    Edit(104, 0, <<<<"CallRequire",fRRU4>>>>),
    Edit(112, 0, <<<<"ThrowIfUndefined",fRR>>, <<"ThrowIfThisInitialized",fR>>>>),
    Edit(115, 0, <<
        <<"CreateBaseClass",fRRRU2>>, <<"CreateBaseClassLongIndex",fRRRU4>>,
        <<"CreateDerivedClass",fRRRRU2>>, <<"CreateDerivedClassLongIndex",fRRRRU4>> >>),
    Edit(117, 1, <<<<"CreateThisForNew",fRRU1>>, <<"CreateThisForSuper",fRRRU1>>>>),
    Edit(139, 0, <<<<"ToUint32",fRR>>>>), Edit(140, 0, <<<<"CreatePrivateName",fRU4>>>>),
    Edit(145, 0, <<<<"ToPropertyKey",fRR>>>>),
    Edit(146, 1, <<<<"UIntSwitchImm",fRU4A4U4U4>>, <<"StringSwitchImm",fRU4U4A4U4>>>>),
    Edit(153, 1, <<>>), Edit(162, 0, <<<<"JmpTypeOfIs",fA4RU2>>>>), Edit(182, 4, <<>>),
    Edit(190, 4, <<>>), Edit(202, 0, <<
        <<"JmpBuiltinIs",fA1U1R>>, <<"JmpBuiltinIsLong",fA4U1R>>, <<"JmpBuiltinIsNot",fA1U1R>>,
        <<"JmpBuiltinIsNotLong",fA4U1R>> >>) >>)
V99_STRING_IDS == <<
    <<67,0>>, <<68,3>>, <<69,3>>, <<70,3>>, <<71,4>>, <<72,3>>, <<73,3>>, <<74,3>>, <<75,3>>,
    <<76,3>>, <<77,3>>, <<78,3>>, <<79,3>>, <<80,3>>, <<81,3>>, <<87,3>>, <<144,1>>, <<145,1>>,
    <<159,1>>, <<166,2>> >>
V99_FUNC_IDS == <<<<132,2>>, <<133,2>>, <<169,2>>, <<170,2>>>>

V98L_SCHEMAS == Splice(V99_SCHEMAS, <<
    Edit(5, 1, <<>>), Edit(17, 0, <<<<"CacheNewObject",fRRU4U1>>>>), Edit(158, 1, <<>>) >>)
V98L_STRING_IDS == <<
    <<67,0>>, <<68,3>>, <<69,3>>, <<70,3>>, <<71,4>>, <<72,3>>, <<73,3>>, <<74,3>>, <<75,3>>,
    <<76,3>>, <<77,3>>, <<78,3>>, <<79,3>>, <<80,3>>, <<81,3>>, <<87,3>>, <<144,1>>, <<145,1>>,
    <<158,1>>, <<165,2>> >>
V98L_FUNC_IDS == <<<<132,2>>, <<133,2>>, <<168,2>>, <<169,2>>>>

-----------------------------------------------------------------------------
SchemaTables ==
    (40 :> V40_SCHEMAS) @@ (41 :> V41_SCHEMAS) @@ (44 :> V44_SCHEMAS) @@ (45 :> V45_SCHEMAS)
        @@ (46 :> V46_SCHEMAS) @@ (52 :> V52_SCHEMAS) @@ (59 :> V59_SCHEMAS)
        @@ (61 :> V61_SCHEMAS) @@ (73 :> V73_SCHEMAS) @@ (80 :> V80_SCHEMAS)
        @@ (81 :> V81_SCHEMAS) @@ (83 :> V83_SCHEMAS) @@ (84 :> V84_SCHEMAS)
        @@ (85 :> V85_SCHEMAS) @@ (87 :> V87_SCHEMAS) @@ (90 :> V90_SCHEMAS)
        @@ (92 :> V92_SCHEMAS) @@ (95 :> V95_SCHEMAS) @@ (97 :> V97_SCHEMAS)
        @@ (98 :> V98_SCHEMAS) @@ (99 :> V99_SCHEMAS) @@ (V98_LATE :> V98L_SCHEMAS)

StringIdTables ==
    (40 :> V40_STRING_IDS) @@ (41 :> V41_STRING_IDS) @@ (44 :> V44_STRING_IDS)
        @@ (45 :> V45_STRING_IDS) @@ (46 :> V46_STRING_IDS) @@ (52 :> V52_STRING_IDS)
        @@ (59 :> V59_STRING_IDS) @@ (61 :> V61_STRING_IDS) @@ (73 :> V73_STRING_IDS)
        @@ (80 :> V80_STRING_IDS) @@ (81 :> V81_STRING_IDS) @@ (83 :> V83_STRING_IDS)
        @@ (84 :> V84_STRING_IDS) @@ (85 :> V85_STRING_IDS) @@ (87 :> V87_STRING_IDS)
        @@ (90 :> V90_STRING_IDS) @@ (92 :> V92_STRING_IDS) @@ (95 :> V95_STRING_IDS)
        @@ (97 :> V97_STRING_IDS) @@ (98 :> V98_STRING_IDS) @@ (99 :> V99_STRING_IDS)
        @@ (V98_LATE :> V98L_STRING_IDS)

FuncIdTables ==
    (40 :> V40_FUNC_IDS) @@ (41 :> V41_FUNC_IDS) @@ (44 :> V44_FUNC_IDS) @@ (45 :> V45_FUNC_IDS)
        @@ (46 :> V46_FUNC_IDS) @@ (52 :> V52_FUNC_IDS) @@ (59 :> V59_FUNC_IDS)
        @@ (61 :> V61_FUNC_IDS) @@ (73 :> V73_FUNC_IDS) @@ (80 :> V80_FUNC_IDS)
        @@ (81 :> V81_FUNC_IDS) @@ (83 :> V83_FUNC_IDS) @@ (84 :> V84_FUNC_IDS)
        @@ (85 :> V85_FUNC_IDS) @@ (87 :> V87_FUNC_IDS) @@ (90 :> V90_FUNC_IDS)
        @@ (92 :> V92_FUNC_IDS) @@ (95 :> V95_FUNC_IDS) @@ (97 :> V97_FUNC_IDS)
        @@ (98 :> V98_FUNC_IDS) @@ (99 :> V99_FUNC_IDS) @@ (V98_LATE :> V98L_FUNC_IDS)

get_version_schemas(version) == SchemaTables[TableVersion(version)]

get_string_id_operands(version) == StringIdTables[TableVersion(version)]

get_func_id_operands(version) == FuncIdTables[TableVersion(version)]

=============================================================================
