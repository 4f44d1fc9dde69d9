------------------------------- MODULE Meaning -------------------------------
(***************************************************************************)
(* What a function does, so that one form of it can be compared with       *)
(* another: along each path through its blocks, the calls, stores, tests   *)
(* and the return in their order, with the values they see.                *)
(*                                                                         *)
(* Values are terms: a number, a parameter, an operation on terms, what a  *)
(* property held after so many stores and calls.  Whether a test takes its *)
(* jump is left open, so that every path counts.                           *)
(***************************************************************************)
EXTENDS SsaBuild, JsNumbers

CONSTANT MaxPath     \* blocks on a path

(* A machine has variables env, a count mem of the stores and calls, and   *)
(* the events so far.                                                      *)
Start(env) == [env |-> env, mem |-> 0, events |-> <<>>]

Lookup(env, v) == IF v \in DOMAIN env THEN env[v] ELSE <<"undeclared">>

(* ECMAScript's operators on numbers, for the names of the instructions.   *)
ToInt(x) == IF x[2] = 0 THEN 0 ELSE Truncated(x)
ToInt32(x) == Signed(ToInt(x))
ToUint32(x) == Unsigned(ToInt(x))

Evaluated(name, x, y) ==
    LET places == ToUint32(y) % IntBits
    IN  CASE name \in {"Add", "AddN"} -> Sum(x, y)
          [] name \in {"Sub", "SubN"} -> Sum(x, Negative(y))
          [] name \in {"Mul", "MulN"} -> Product(x, y)
          [] name \in {"Div", "DivN"} -> Quotient(x, y)
          [] name = "Mod" -> Remainder(x, y)
          [] name = "BitAnd" -> Whole(BitsAnd(ToInt32(x), ToInt32(y)))
          [] name = "BitOr" -> Whole(BitsOr(ToInt32(x), ToInt32(y)))
          [] name = "BitXor" -> Whole(BitsXor(ToInt32(x), ToInt32(y)))
          [] name = "LShift" -> Whole(ShiftedLeft(ToInt32(x), places))
          [] name = "RShift" -> Whole(ShiftedRight(ToInt32(x), places))
          [] name = "URshift" -> Whole(ShiftedRight(ToUint32(x), places))

BinaryNames ==
    {"Add", "AddN", "Sub", "SubN", "Mul", "MulN", "Div", "DivN", "Mod",
     "BitAnd", "BitOr", "BitXor", "LShift", "RShift", "URshift"}

Binary(name, l, r) ==
    IF l[1] = "number" /\ r[1] = "number"
    THEN <<"number", Evaluated(name, l[2], r[2])>> ELSE <<name, l, r>>

ParamValue(n) == <<"param", n>>

(* The value of an operation on args.  Objects are told apart by the       *)
(* instruction that makes them, whose label is an operand.                 *)
ValueOf(name, args, mem) ==
    CASE name \in {"LoadConstUInt8", "LoadConstInt", "LoadConstDouble", "Mov"} -> args[1]
      [] name = "LoadConstZero" -> <<"number", Whole(0)>>
      [] name = "LoadParam" -> ParamValue(args[1][2][1])
      [] name = "LoadConstUndefined" -> <<"undefined">>
      [] name = "LoadConstTrue" -> <<"true">>
      [] name = "LoadConstFalse" -> <<"false">>
      [] name = "GetGlobalObject" -> <<"globalThis">>
      [] name \in BinaryNames -> Binary(name, args[1], args[2])
      [] name = "Dec" -> Binary("Sub", args[1], <<"number", Whole(1)>>)
      [] name = "GetById" -> <<"property", args[1], mem>>
      [] name = "Call1" -> <<"result", mem>>
      [] name \in {"NewObject", "NewArray", "CreateClosure"} -> <<"object", args[1]>>

(* Only these are seen from outside.                                       *)
Effects == {"PutById", "Call1", "JmpTrue", "Ret"}

Do(st, name, args) ==
    IF name \notin Effects THEN st
    ELSE [st EXCEPT !.events = Append(@, <<name, args>>),
                    !.mem = IF name \in {"PutById", "Call1"} THEN @ + 1 ELSE @]

Assign(st, v, val) == [st EXCEPT !.env = (v :> val) @@ @]

Literal(o) == <<"number", IF o.k = "Const" THEN Whole(o.v) ELSE o.v>>

OperandTerm(env, o) == IF o.k = "Var" THEN Lookup(env, o.v) ELSE Literal(o)

RunOp(st, op) ==
    LET args == [i \in DOMAIN op.ops |-> OperandTerm(st.env, op.ops[i])]
        done == Do(st, op.name, args)
    IN  IF op.dst = NoVar THEN done ELSE Assign(done, op.dst, ValueOf(op.name, args, st.mem))

(* All phis of a block take their values at once.                          *)
EnterBlock(st, pred, block) ==
    LET arg(phi) == (CHOOSE a \in Range(phi.args) : a[1] = pred)[2]
    IN  [st EXCEPT !.env =
            [v \in {phi.dst : phi \in Range(block.phis)} |->
                LET phi == CHOOSE p \in Range(block.phis) : p.dst = v
                IN  Lookup(st.env, arg(phi))] @@ @]

RunPath(func, env, path) ==
    LET step(st, i) ==
            FoldLeft(RunOp,
                     IF i = 1 THEN st ELSE EnterBlock(st, path[i - 1], func[path[i]]),
                     func[path[i]].ops)
    IN  FoldLeft(step, Start(env), [i \in DOMAIN path |-> i]).events

(* The paths from the entry, complete or cut off at MaxPath blocks.        *)
Paths(succs) ==
    LET extend(paths, i) ==
            UNION {IF Len(p) < i \/ succs[Last(p)] = <<>> THEN {p}
                   ELSE {Append(p, s) : s \in Range(succs[Last(p)])} : p \in paths}
    IN  FoldLeft(extend, {<<1>>}, [i \in 1 .. MaxPath - 1 |-> i])

(* The instructions as they are: the registers are the variables, and each *)
(* is undefined until it is written.                                       *)
RegisterForm(prog) ==
    LET v(r) == IF r = NoReg THEN NoVar ELSE <<r, 0, 0>>
        op(i) == Op(i.name, v(i.dst),
                    [j \in DOMAIN i.ops |->
                        IF i.ops[j].k = "Reg" THEN Var(v(i.ops[j].v)) ELSE i.ops[j]])
    IN  [b \in BlockIds(prog) |->
            [phis |-> <<>>, ops |-> [k \in DOMAIN prog.code[b] |-> op(prog.code[b][k])]]]

BytecodeMeaning(prog) ==
    LET env == [v \in {<<r, 0, 0>> : r \in Registers(prog)} |-> <<"undefined">>]
    IN  [p \in Paths(prog.succs) |-> RunPath(RegisterForm(prog), env, p)]

(* A phi may take a register that nothing has written, which is undefined. *)
SsaMeaning(succs, func) ==
    LET env == [v \in PhiArgs(func) \ Defined(func) |-> <<"undefined">>]
    IN  [p \in Paths(succs) |-> RunPath(func, env, p)]

=============================================================================
