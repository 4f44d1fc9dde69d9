-------------------------------- MODULE Passes --------------------------------
(***************************************************************************)
(* The passes of optimize (optimize.rs) over a function in SSA form:       *)
(* copies are read through, constants folded, unused operations removed,   *)
(* and the variables get their names.                                      *)
(*                                                                         *)
(* LoadConstInt has an integer, LoadConstDouble a number of JsNumbers.     *)
(***************************************************************************)
EXTENDS SsaBuild, JsNumbers

(* The copies as a function from a destination to the source.              *)
Copies(func) ==
    LET movs == {op \in Ops(func) : op.name \in {"Mov", "MovLong"} /\ op.ops[1].k = "Var"}
    IN  [d \in {op.dst : op \in movs} |-> (CHOOSE op \in movs : op.dst = d).ops[1].v]

(* Chains of copies are followed to their end.                             *)
Resolved(copies, v) ==
    FoldLeft(LAMBDA w, i : IF w \in DOMAIN copies THEN copies[w] ELSE w,
             v, [i \in 1 .. Cardinality(DOMAIN copies) |-> i])

(* The operands of every operation and the arguments of every phi.         *)
Substitute(func, copies) ==
    [b \in DOMAIN func |->
        [phis |-> [i \in DOMAIN func[b].phis |->
                      [func[b].phis[i] EXCEPT !.args =
                          [j \in DOMAIN @ |-> <<@[j][1], Resolved(copies, @[j][2])>>]]],
         ops |-> [i \in DOMAIN func[b].ops |->
                     [func[b].ops[i] EXCEPT !.ops =
                         [j \in DOMAIN @ |->
                             IF @[j].k = "Var" THEN Var(Resolved(copies, @[j].v)) ELSE @[j]]]]]]

copy_propagation(func) == Substitute(func, Copies(func))

-----------------------------------------------------------------------------
(* What folding knows when it reaches an operation: ints and doubles are   *)
(* functions from variables to integers and to numbers.                    *)
Known(func) ==
    LET phi_vars == {phi.dst : phi \in Phis(func)} \cup PhiArgs(func)
        loads(names) == {op \in Ops(func) : op.name \in names /\ op.dst \notin phi_vars}
        operands(ops) ==
            [d \in {op.dst : op \in ops} |-> (CHOOSE op \in ops : op.dst = d).ops[1].v]
    IN  [ints |-> operands(loads({"LoadConstUInt8", "LoadConstInt"}))
                      @@ [d \in {op.dst : op \in loads({"LoadConstZero"})} |-> 0],
         doubles |-> operands(loads({"LoadConstDouble"}))]

BitOps == {"BitAnd", "BitOr", "BitXor", "LShift", "RShift", "URshift"}

DivisionOps == {"Div", "DivN", "Mod"}

(* Add is not among them: it may join strings.                             *)
IntegerOps == {"AddN", "Sub", "SubN", "Mul", "MulN"} \cup DivisionOps

DoubleOps == {"Add", "AddN", "Sub", "SubN", "Mul", "MulN", "Div", "DivN"}

(* As f64.                                                                 *)
FoldedNumber(name, x, y) ==
    CASE name \in {"Add", "AddN"} -> Sum(x, y)
      [] name \in {"Sub", "SubN"} -> Sum(x, Negative(y))
      [] name \in {"Mul", "MulN"} -> Product(x, y)
      [] name \in {"Div", "DivN"} -> Quotient(x, y)
      [] name = "Mod" -> Remainder(x, y)

(* lv and rv are i64; `rv & 31' is the remainder by the width.             *)
FoldedBits(name, lv, rv) ==
    CASE name = "BitAnd" -> BitsAnd(lv, rv)
      [] name = "BitOr" -> BitsOr(lv, rv)
      [] name = "BitXor" -> BitsXor(lv, rv)
      [] name = "LShift" -> ShiftedLeft(Signed(lv), rv % IntBits)
      [] name = "RShift" -> ShiftedRight(Signed(lv), rv % IntBits)
      [] name = "URshift" -> ShiftedRight(Unsigned(lv), rv % IntBits)

Learn(f, v, c) == (v :> c) @@ f

FoldToInt(op, known, i) ==
    [op |-> Op("LoadConstInt", op.dst, <<Const(i)>>),
     known |-> [known EXCEPT !.ints = Learn(@, op.dst, i)]]

FoldToDouble(op, known, x) ==
    [op |-> Op("LoadConstDouble", op.dst, <<Double(x)>>),
     known |-> [known EXCEPT !.doubles = Learn(@, op.dst, x)]]

(* One operation: what it becomes and what is known after it.              *)
FoldOp(op, known) ==
    LET binary == op.dst # NoVar /\ Len(op.ops) = 2
                      /\ op.ops[1].k = "Var" /\ op.ops[2].k = "Var"
        l == op.ops[1].v
        r == op.ops[2].v
        ints == binary /\ {l, r} \subseteq DOMAIN known.ints
        doubles == binary /\ {l, r} \subseteq DOMAIN known.doubles
        bits == FoldedBits(op.name, known.ints[l], known.ints[r])
        number == FoldedNumber(op.name, Whole(known.ints[l]), Whole(known.ints[r]))
    IN  CASE ints /\ op.name \in BitOps ->
                 IF bits \in Ints THEN FoldToInt(op, known, bits)
                 ELSE FoldToDouble(op, known, Whole(bits))
          [] ints /\ op.name \in IntegerOps
                  /\ (op.name \in DivisionOps => known.ints[r] # 0) ->
                 IF IsInteger(number) /\ number[1] \in -MaxInt .. MaxInt
                 THEN FoldToInt(op, known, number[1])
                 ELSE FoldToDouble(op, known, number)
          [] doubles /\ op.name \in DoubleOps ->
                 FoldToDouble(op, known,
                     FoldedNumber(op.name, known.doubles[l], known.doubles[r]))
          [] OTHER -> [op |-> op, known |-> known]

(* Blocks and operations in order; what one learns the next ones know.     *)
constant_folding(func) ==
    LET fold_op(acc, op) ==
            LET folded == FoldOp(op, acc.known)
            IN  [ops |-> Append(acc.ops, folded.op), known |-> folded.known]
        fold_block(acc, block) ==
            LET folded == FoldLeft(fold_op, [ops |-> <<>>, known |-> acc.known], block.ops)
            IN  [func |-> Append(acc.func, [block EXCEPT !.ops = folded.ops]),
                 known |-> folded.known]
    IN  FoldLeft(fold_block, [func |-> <<>>, known |-> Known(func)], func).func

-----------------------------------------------------------------------------
(* Variant: the arguments of phis are not counted.                         *)
UsesByOperations(func) == OperandUses(func)

(* count_uses                                                              *)
Uses(func) == OperandUses(func) \cup PhiArgs(func)

Pure == {"LoadConstUndefined", "LoadConstTrue", "LoadConstFalse", "LoadConstZero",
         "LoadConstUInt8", "LoadConstInt", "LoadConstDouble", "LoadParam", "Mov", "MovLong",
         "Dec", "GetById", "NewObject", "NewArray", "GetGlobalObject"}
            \cup IntegerOps \cup DoubleOps \cup BitOps

dead_code_elimination(func) ==
    LET uses == Uses(func)
        keep(op) == op.dst = NoVar \/ op.name \notin Pure \/ op.dst \in uses
    IN  [b \in DOMAIN func |->
            [phis |-> SelectSeq(func[b].phis, LAMBDA phi : phi.dst \in uses),
             ops |-> SelectSeq(func[b].ops, keep)]]

Size(func) ==
    FoldLeft(LAMBDA n, block : n + Len(block.ops) + Len(block.phis), 0, func)

-----------------------------------------------------------------------------
(* Names.  A name is a register of its own <<"r", r>>, a parameter         *)
(* <<"a", n>>, a property read <<"member", name>>, the property's name     *)
(* <<"p">> (there is one property), a function's <<"f", id>> or a fixed    *)
(* text.  A variable without a name is written as itself.                  *)

FixedName ==
    "GetGlobalObject" :> <<"globalThis">> @@ "LoadConstUndefined" :> <<"undefined">>
        @@ "LoadConstTrue" :> <<"true">> @@ "LoadConstFalse" :> <<"false">>
        @@ "NewObject" :> <<"obj">> @@ "NewArray" :> <<"arr">>
        @@ "Catch" :> <<"err">>

IsMember(name) == Len(name) = 2 /\ name[1] = "member"

(* Parameter 0 is `this', 1 is the first argument.                         *)
ParamName(op) == IF op.ops[1].v = 0 THEN <<"this">> ELSE <<"a", op.ops[1].v - 1>>

NoName == <<>>

(* The name of a result, when names are those of the operations before it. *)
OwnName(names, op) ==
    CASE op.name = "LoadParam" -> ParamName(op)
      [] op.name \in DOMAIN FixedName -> FixedName[op.name]
      [] op.name = "CreateClosure" -> <<"f", op.ops[1].v>>
      [] op.name = "GetById" ->
             LET obj == op.ops[1].v
             IN  IF obj \in DOMAIN names /\ ~IsMember(names[obj])
                 THEN <<"member", names[obj]>> ELSE <<"p">>
      [] OTHER -> NoName

(* A phi whose arguments are one variable is named after it.               *)
NameTrivialPhis(func, names) ==
    LET source(phi) == phi.args[1][2]
        trivial == {phi \in Phis(func) : /\ \A a \in Range(phi.args) : a[2] = source(phi)
                                         /\ phi.dst # source(phi)}
        grow(ns, i) ==
            ns @@ LET new == {phi \in trivial : source(phi) \in DOMAIN ns}
                  IN  [v \in {phi.dst : phi \in new} |->
                          ns[source(CHOOSE phi \in new : phi.dst = v)]]
    IN  FoldLeft(grow, names, [i \in 1 .. Cardinality(trivial) |-> i])

name_variables(func) ==
    LET name(names, op) ==
            LET own == OwnName(names, op)
            IN  IF op.dst = NoVar \/ own = NoName THEN names ELSE (op.dst :> own) @@ names
    IN  NameTrivialPhis(func,
            FoldLeft(LAMBDA names, block : FoldLeft(name, names, block.ops), <<>>, func))

(* The variables that share a name with others of their register: those of *)
(* phis and copies that stay within it.                                    *)
Coalesced(func) ==
    UNION ({{phi.dst} \cup {a[2] : a \in Range(phi.args)} :
               phi \in {q \in Phis(func) : \A a \in Range(q.args) : a[2][1] = q.dst[1]}}
           \cup
           {{op.dst, op.ops[1].v} :
               op \in {q \in Ops(func) : /\ q.name \in {"Mov", "MovLong"}
                                         /\ q.ops[1].k = "Var" /\ q.ops[1].v[1] = q.dst[1]}})

(* The builder is taken to number versions in the order of the blocks.     *)
Earlier(v, w) == v[2] < w[2] \/ (v[2] = w[2] /\ v[3] =< w[3])

(* They share the name the first of them has, or the register's.           *)
coalesce_phi_names(func, names) ==
    LET group(r) == {w \in Coalesced(func) : w[1] = r}
        named(r) == group(r) \cap DOMAIN names
        first(r) == CHOOSE w \in named(r) : \A u \in named(r) : Earlier(w, u)
    IN  [v \in Coalesced(func) |->
            IF named(v[1]) = {} THEN <<"r", v[1]>> ELSE names[first(v[1])]] @@ names

=============================================================================
