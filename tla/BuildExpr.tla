------------------------------ MODULE BuildExpr ------------------------------
(***************************************************************************)
(* What build_expr (expr.rs) reads of an SSA operation: for a name, the    *)
(* operand slots (counted from 0, as in the source) its arm looks at, the  *)
(* kinds of operand it takes there, and the form of the expression it      *)
(* builds.  In a slot that holds another kind the text of that part is a   *)
(* placeholder, `undefined' or nothing at all.                             *)
(*                                                                         *)
(* forms: value   an expression that only reads                            *)
(*        assign  a property or variable is written                        *)
(*        call    a function or method of the program is called            *)
(*        builtin a call of a global function the renderer adds            *)
(*        closure delete yield throw void                                  *)
(* args:  the slot from which the operands are an argument list, or NoArgs *)
(***************************************************************************)
EXTENDS InsnLowering

NoArgs == 100

(* The kinds var_expr has a text for.                                      *)
var_expr == {"Var", "Const", "ConstDouble", "StringId", "FuncId", "ResolvedString",
             "ResolvedBigInt"}

Name == {"Const", "ResolvedString"}

Values(slots) == {<<i, var_expr>> : i \in slots}

Arm(form, reads) == [form |-> form, reads |-> reads, args |-> NoArgs]

ArgsFrom(k, arm) == [arm EXCEPT !.args = k]

NoArm == Arm("none", {})

IsArm(arm) == arm.form # "none"

-----------------------------------------------------------------------------
(* Arithmetic, comparison, conversion and constants.                       *)
ArithArm(name) ==
    CASE name \in {"Add", "AddN", "Sub", "SubN", "Mul", "MulN", "Div", "DivN", "Mod",
                   "BitAnd", "BitOr", "BitXor", "LShift", "RShift", "URshift",
                   "Eq", "Neq", "StrictEq", "StrictNeq", "Less", "LessEq", "Greater",
                   "GreaterEq", "InstanceOf", "IsIn"} -> Arm("value", Values({1, 2}))
      [] name \in {"Negate", "Not", "BitNot", "TypeOf", "ToNumber", "ToNumeric", "ToInt32",
                   "ToUint32", "Inc", "Dec"} -> Arm("value", Values({1}))
      [] name \in {"LoadConstNull", "LoadConstUndefined", "LoadConstTrue", "LoadConstFalse",
                   "LoadConstZero", "LoadConstEmpty", "GetGlobalObject"} -> Arm("value", {})
      [] name \in {"LoadConstInt", "LoadConstUInt8", "LoadParam", "LoadParamLong"} ->
             Arm("value", {<<1, {"Const"}>>})
      [] name = "LoadConstDouble" -> Arm("value", {<<1, {"ConstDouble"}>>})
      [] name \in {"LoadConstBigInt", "LoadConstBigIntLongIndex"} ->
             Arm("value", {<<1, {"ResolvedBigInt"}>>})
      [] name \in {"LoadConstString", "LoadConstStringLongIndex"} ->
             Arm("value", {<<1, {"StringId"}>>})
      [] OTHER -> NoArm

(* Member reads, allocation, moves, calls and construction; last is the    *)
(* last slot.                                                              *)
MemberArm(name, last) ==
    CASE StartsWithAny(name, {"GetById", "TryGetById"}) ->
             Arm("value", Values({1}) \cup {<<last, Name>>})
      [] name = "GetByVal" -> Arm("value", Values({1, 2}))
      [] name \in {"NewObject", "NewFastArray", "CacheNewObject"} -> Arm("value", {})
      [] name = "NewArray" -> Arm("builtin", {<<1, {"Const"}>>})
      [] name \in {"Mov", "MovLong"} -> Arm("value", Values({1}))
      [] name = "Call1" -> Arm("call", Values(1 .. 2))
      [] name = "Call2" -> Arm("call", Values(1 .. 3))
      [] name = "Call3" -> Arm("call", Values(1 .. 4))
      [] name = "Call4" -> Arm("call", Values(1 .. 5))
      [] name = "MethodCall" ->
             ArgsFrom(3, Arm("call", Values({1}) \cup {<<2, {"ResolvedString"}>>}))
      [] name \in {"Construct", "ConstructLong"} -> Arm("call", Values({1}))
      [] name = "ConstructNew" -> ArgsFrom(3, Arm("call", Values({1})))
      [] OTHER -> NoArm

(* Stores to properties and elements.                                      *)
StoreArm(name, last) ==
    CASE StartsWithAny(name, {"PutById", "TryPutById"}) ->
             Arm("assign", Values({0, 1}) \cup {<<last, Name>>})
      [] StartsWithAny(name, {"PutNewOwnById", "PutNewOwnNEById", "DefineOwnById"}) ->
             Arm("assign", Values({0, 1}) \cup {<<last, {"Const"}>>})
      [] name \in {"PutByVal", "PutByValLoose", "PutByValStrict", "PutOwnByIndex",
                   "PutOwnByIndexL", "PutOwnByVal", "PutOwnBySlotIdx", "PutOwnBySlotIdxLong",
                   "FastArrayStore"} -> Arm("assign", Values({0, 1, 2}))
      [] name \in {"GetOwnBySlotIdx", "GetOwnBySlotIdxLong", "FastArrayLoad"} ->
             Arm("value", Values({1, 2}))
      [] name = "FastArrayLength" -> Arm("value", Values({1}))
      [] name \in {"FastArrayPush", "FastArrayAppend"} -> Arm("call", Values({0, 1}))
      [] OTHER -> NoArm

(* Closures and environments: the function id is looked for in all slots.  *)
ClosureNames ==
    {"CreateClosure", "CreateClosureLongIndex", "CreateAsyncClosure",
     "CreateAsyncClosureLongIndex", "CreateGeneratorClosure",
     "CreateGeneratorClosureLongIndex", "CreateGenerator", "CreateGeneratorLongIndex"}

EnvironmentArm(name) ==
    CASE name \in ClosureNames -> Arm("closure", {})
      [] name \in {"CreateEnvironment", "CreateFunctionEnvironment",
                   "CreateTopLevelEnvironment", "GetEnvironment", "GetParentEnvironment",
                   "GetClosureEnvironment"} -> Arm("value", {})
      [] StartsWith(name, "LoadFromEnvironment") ->
             Arm("value", Values({1}) \cup {<<2, {"Const"}>>})
      [] StartsWithAny(name, {"StoreToEnvironment", "StoreNPToEnvironment"}) ->
             Arm("assign", Values({0, 2}) \cup {<<1, {"Const"}>>})
      [] OTHER -> NoArm

(* Catch, typeof, throw, delete, for-in, generators, arguments.            *)
MiscArm(name, last) ==
    CASE name \in {"Catch", "Debugger", "ProfilePoint", "AsyncBreakCheck",
                   "ThrowIfThisInitialized", "StartGenerator", "ResumeGenerator"} ->
             Arm("void", {})
      [] name \in {"CoerceThisNS", "LoadThisNS", "GetArgumentsLength", "GetNewTarget"} ->
             Arm("value", {})
      [] name \in {"TypeOfIs", "JmpTypeOfIs"} -> Arm("value", Values({1}) \cup {<<2, {"Const"}>>})
      [] name = "DirectEval" -> Arm("call", Values({1}))
      [] name = "Throw" -> Arm("throw", Values({0}))
      [] name = "DeclareGlobalVar" -> Arm("assign", {<<0, {"Const"}>>})
      [] name \in {"AddEmptyString", "AddS"} -> Arm("value", Values({1}))
      [] name \in {"DelById", "DelByIdLong"} ->
             Arm("delete", Values({1}) \cup {<<last, {"Const"}>>})
      [] name = "DelByVal" -> Arm("delete", Values({1, 2}))
      [] name \in {"NewObjectWithBuffer", "NewObjectWithBufferLong",
                   "NewObjectWithBufferAndParent", "NewArrayWithBuffer",
                   "NewArrayWithBufferLong"} -> Arm("value", {<<1, {"ResolvedString"}>>})
      [] name \in {"NewObjectWithParent", "GetPNameList"} -> Arm("builtin", Values({1}))
      [] name \in {"GetNextPName", "IteratorBegin", "IteratorNext", "IteratorClose"} ->
             Arm("call", Values({1}))
      [] name \in {"SaveGenerator", "SaveGeneratorLong", "CompleteGenerator"} -> Arm("yield", {})
      [] StartsWith(name, "GetArgumentsPropByVal") -> Arm("value", Values({1}))
      [] StartsWith(name, "ReifyArguments") -> Arm("builtin", {})
      [] OTHER -> NoArm

(* this, regular expressions, built-in functions and variadic calls.       *)
CallArm(name) ==
    CASE name \in {"CreateThisForNew", "CreateThisForSuper", "CreateThis"} ->
             Arm("builtin", Values({1}))
      [] name = "SelectObject" -> Arm("value", Values({0}))
      [] name = "CreateRegExp" ->
             Arm("value", {<<1, Name \cup {"StringId"}>>, <<2, Name \cup {"StringId"}>>})
      [] name \in {"CallBuiltin", "CallBuiltinLong"} ->
             ArgsFrom(3, Arm("call", {<<1, {"Const"}>>}))
      [] name = "GetBuiltinClosure" -> Arm("value", {<<1, {"Const"}>>})
      [] name \in {"CallWithNewTarget", "CallWithNewTargetLong"} -> Arm("call", Values({1}))
      [] name \in {"Call", "CallLong"} -> ArgsFrom(4, Arm("call", Values({1})))
      [] name \in {"CallDirect", "CallDirectLongIndex"} ->
             ArgsFrom(4, Arm("call", {<<2, {"Const", "FuncId"}>>}))
      [] name = "CallRequire" -> Arm("call", {<<2, {"Const"}>>})
      [] OTHER -> NoArm

(* Classes, private names and the rest.                                    *)
ClassArm(name) ==
    CASE name \in {"CreateBaseClass", "CreateBaseClassLongIndex", "CreateDerivedClass",
                   "CreateDerivedClassLongIndex", "CreatePrivateName"} -> Arm("void", {})
      [] name = "LoadParentNoTraps" -> Arm("builtin", Values({1}))
      [] name = "PrivateIsIn" -> Arm("value", Values({1, 2}))
      [] name = "AddOwnPrivateBySym" -> Arm("assign", Values({1, 2}))
      [] name = "PutOwnPrivateBySym" -> Arm("assign", Values({0, 1}))
      [] name = "GetOwnPrivateBySym" -> Arm("value", Values({1}))
      [] name \in {"DefineOwnInDenseArray", "DefineOwnInDenseArrayL", "DefineOwnByVal"} ->
             Arm("assign", Values({0, 1, 2}))
      [] name = "GetByIndex" -> Arm("value", Values({1, 2}))
      [] name \in {"ThrowIfEmpty", "ThrowIfUndefined"} -> Arm("value", Values({0}))
      [] OTHER -> NoArm

(* format_op of structure.rs, for the names build_expr has no arm for: the *)
(* accessor pair, or a comment that lists the operands after the first.    *)
FormatOpArm(name) ==
    IF name \in {"PutOwnGetterSetterByVal", "DefineOwnGetterSetterByVal"}
    THEN Arm("assign", Values(0 .. 3)) ELSE ArgsFrom(1, Arm("void", {}))

build_expr(name, operands) ==
    LET last == Len(operands) - 1
        arms == <<ArithArm(name), MemberArm(name, last), StoreArm(name, last),
                  EnvironmentArm(name), MiscArm(name, last), CallArm(name), ClassArm(name),
                  FormatOpArm(name)>>
    IN  arms[CHOOSE i \in DOMAIN arms :
                 IsArm(arms[i]) /\ \A j \in 1 .. i - 1 : ~IsArm(arms[j])]

-----------------------------------------------------------------------------
(* Purity.                                                                 *)

(* is_pure: the names dead code elimination may drop and the structurer    *)
(* may move; anything else has side effects.                               *)
is_pure(name) ==
    name \in
        {"LoadConstUndefined", "LoadConstNull", "LoadConstTrue", "LoadConstFalse",
         "LoadConstZero", "LoadConstUInt8", "LoadConstInt", "LoadConstDouble",
         "LoadConstString", "LoadConstStringLongIndex", "LoadConstEmpty", "LoadConstBigInt",
         "LoadConstBigIntLongIndex", "LoadParam", "LoadParamLong", "LoadFromEnvironment",
         "Add", "AddN", "Sub", "SubN", "Mul", "MulN", "Div", "DivN", "Mod", "BitAnd",
         "BitOr", "BitXor", "BitNot", "LShift", "RShift", "URshift", "Negate", "Inc", "Dec",
         "Add32", "Sub32", "Mul32", "Divi32", "Divu32", "Less", "Greater", "Eq", "Neq",
         "StrictEq", "StrictNeq", "InstanceOf", "IsIn", "TypeOf", "TypeOfIs", "ToNumber",
         "ToNumeric", "ToInt32", "AddEmptyString", "CoerceThisNS", "LoadThisNS", "GetById",
         "GetByIdShort", "GetByIdLong", "TryGetById", "TryGetByIdLong", "GetByVal",
         "GetByIndex", "NewObject", "NewObjectWithBuffer", "NewObjectWithBufferLong",
         "NewArray", "NewArrayWithBuffer", "NewArrayWithBufferLong", "NewFastArray",
         "CreateRegExp", "CreateThis", "CreateThisForNew", "NewTypedObjectWithBuffer",
         "GetClosureEnvironment", "GetParentEnvironment", "GetEnvironment",
         "GetGlobalObject", "Mov", "MovLong", "Phi", "Not", "IteratorNext", "IteratorClose",
         "GetPNameList", "GetNextPName", "GetBuiltinClosure", "GetNewTarget",
         "GetArgumentsLength", "GetArgumentsPropByVal", "ReifyArguments",
         "ReifyArgumentsStrict", "SelectObject", "Unreachable", "ProfilePoint", "Debugger",
         "AsyncBreakCheck", "LoadFromEnvironmentLong", "ModN", "Exp", "LessN", "LessEqual",
         "LessEqualN", "GreaterN", "GreaterEqual", "GreaterEqualN", "ToString",
         "HermesObjectLit", "HermesObjectSpreadLit"}

has_side_effects(name) == ~is_pure(name)

(* dead_code_elimination on an operation whose destination nobody reads.   *)
RemovedWhenUnused(inst) == HasDst(inst) /\ ~has_side_effects(inst.name)

=============================================================================
