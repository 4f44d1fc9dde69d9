------------------------------ MODULE Emission ------------------------------
(***************************************************************************)
(* The statements a function in SSA form is written as (structure.rs):     *)
(* which variables are written in place of their single use, which text a  *)
(* variable gets, the copies that replace the phis at the end of each      *)
(* block, and what the result does when it runs.                           *)
(*                                                                         *)
(* The nesting of the statements is taken to be that of the program's      *)
(* blocks (droidsaw_common's structurer builds it).                        *)
(***************************************************************************)
EXTENDS Passes, Meaning

(* count_var_uses: operands, conditions, returns and phi copies.           *)
UseCount(func, v) ==
    LET in_op(n, op) ==
            n + Cardinality({i \in DOMAIN op.ops : op.ops[i].k = "Var" /\ op.ops[i].v = v})
        in_phi(n, phi) == n + Cardinality({i \in DOMAIN phi.args : phi.args[i][2] = v})
        in_block(n, block) == FoldLeft(in_phi, FoldLeft(in_op, n, block.ops), block.phis)
    IN  FoldLeft(in_block, 0, func)

(* Variant: side effects are not looked at.                                *)
AnyOperation(op) == TRUE

(* Functions are named here, so closures stay where they are.              *)
Movable(op) == op.name \in Pure

(* build_inline_map: variable -> the operation that takes its place.       *)
build_inline_map(prog, func) ==
    LET ops == UNION {{op \in Range(func[b].ops) :
                         /\ op.dst # NoVar /\ Movable(op)
                         /\ UseCount(func, op.dst) = 1} :
                      b \in {c \in DOMAIN func : prog.depth[c] = 0}}
    IN  [v \in {op.dst : op \in ops} |-> CHOOSE op \in ops : op.dst = v]

(* The whole of what emit works with.                                      *)
Form(prog, func, names) ==
    [func |-> func, inlined |-> build_inline_map(prog, func), names |-> names]

NameOf(form, v) == IF v \in DOMAIN form.names THEN form.names[v] ELSE v

(* A variable written as another text: not a parameter that was renamed.   *)
IsExpression(form, v) ==
    /\ v \in DOMAIN form.inlined
    /\ form.inlined[v].name = "LoadParam" /\ v \in DOMAIN form.names =>
           form.names[v] = ParamName(form.inlined[v])

(* Operations that are written as the name of a binding.                   *)
LiteralOps == {"GetGlobalObject", "LoadConstUndefined", "LoadConstTrue", "LoadConstFalse"}

IsBinding(op) == op.name = "LoadParam" \/ op.name \in LiteralOps

BindingText(op) == IF op.name = "LoadParam" THEN ParamName(op) ELSE FixedName[op.name]

RECURSIVE OpText(_, _)

(* resolve_var and the text of an operation, as far as texts are compared. *)
resolve_var(form, v) ==
    IF IsExpression(form, v) THEN OpText(form, form.inlined[v]) ELSE NameOf(form, v)

OpText(form, op) ==
    CASE IsBinding(op) -> BindingText(op)
      [] op.name = "GetById" -> <<"member", resolve_var(form, op.ops[1].v)>>
      [] op.name = "Mov" -> resolve_var(form, op.ops[1].v)
      [] OTHER -> <<"expression", op.dst>>

-----------------------------------------------------------------------------
(* Running it: env maps names to values.                                   *)

ReadName(st, name) ==
    IF IsMember(name) THEN <<"property", Lookup(st.env, name[2]), st.mem>>
    ELSE Lookup(st.env, name)

RECURSIVE Term(_, _, _)

(* The value of an operation where it is written, and of an operand: an    *)
(* inlined expression is evaluated here.                                   *)
OpTerm(form, st, op) ==
    IF IsBinding(op) THEN ReadName(st, BindingText(op))
    ELSE ValueOf(op.name, [i \in DOMAIN op.ops |-> Term(form, st, op.ops[i])], st.mem)

Term(form, st, o) ==
    CASE o.k # "Var" -> Literal(o)
      [] o.k = "Var" /\ IsExpression(form, o.v) -> OpTerm(form, st, form.inlined[o.v])
      [] OTHER -> ReadName(st, NameOf(form, o.v))

Args(form, st, op) == [i \in DOMAIN op.ops |-> Term(form, st, op.ops[i])]

IsTerminator(op) == op.name \in {"JmpTrue", "Ret"}

(* is_js_reserved, of the names there are.                                 *)
Reserved == {<<"this">>, <<"true">>, <<"false">>}

(* An assignment that is left out: its value is written at the use, it is  *)
(* the parameter itself, or it assigns a text to itself.                   *)
IsSilent(form, op) ==
    \/ op.dst \in DOMAIN form.inlined
    \/ op.name \in Pure /\ OpText(form, op) = NameOf(form, op.dst)

(* emit_stmt on Assign and Op: an assignment to a reserved word becomes a  *)
(* comment, whatever it calls; one to a property read is dropped, or keeps *)
(* its right side only.                                                    *)
EmitOp(form, st, op) ==
    LET name == NameOf(form, op.dst)
        done == Do(st, op.name, Args(form, st, op))
    IN  CASE op.dst = NoVar -> done
          [] op.dst # NoVar /\ (IsSilent(form, op) \/ name \in Reserved) -> st
          [] op.dst # NoVar /\ ~IsSilent(form, op) /\ IsMember(name) ->
                 IF op.name \in Pure THEN st ELSE done
          [] OTHER -> Assign(done, name, OpTerm(form, st, op))

(* phi_copies: for every phi that has block b for a predecessor, whichever *)
(* way b is left.                                                          *)
PhiCopies(func, b) ==
    LET of_phi(copies, phi) ==
            LET args == SelectSeq(phi.args, LAMBDA a : a[1] = b)
            IN  copies \o [i \in DOMAIN args |-> <<phi.dst, args[i][2]>>]
    IN  FoldLeft(LAMBDA copies, block : FoldLeft(of_phi, copies, block.phis), <<>>, func)

(* A copy between equal texts or to a literal is left out.                 *)
IsTrivialCopy(form, copy) ==
    \/ resolve_var(form, copy[1]) = resolve_var(form, copy[2])
    \/ NameOf(form, copy[1]) \in Reserved \cup {<<"undefined">>}

(* emit_stmt on PhiAssign; one whose target is a property read stores.     *)
EmitPhiAssign(form, st, copy) ==
    LET name == NameOf(form, copy[1])
        value == Term(form, st, Var(copy[2]))
    IN  CASE IsTrivialCopy(form, copy) -> st
          [] ~IsTrivialCopy(form, copy) /\ IsMember(name) ->
                 Do(st, "PutById", <<Lookup(st.env, name[2]), value>>)
          [] OTHER -> Assign(st, name, value)

(* emit_block_ops, and the test or return the block ends with.             *)
EmitBlock(form, st, b) ==
    LET ops == form.func[b].ops
        body == SelectSeq(ops, LAMBDA op : ~IsTerminator(op))
        end == SelectSeq(ops, IsTerminator)
        after_ops == FoldLeft(LAMBDA s, op : EmitOp(form, s, op), st, body)
        after_copies == FoldLeft(LAMBDA s, c : EmitPhiAssign(form, s, c), after_ops,
                                 PhiCopies(form.func, b))
    IN  FoldLeft(LAMBDA s, op : Do(s, op.name, Args(form, s, op)), after_copies, end)

(* The bindings there are before the first statement.                      *)
Bindings(func) ==
    LET loads == {op \in Ops(func) : op.name = "LoadParam"}
        param(name) == ParamValue((CHOOSE op \in loads : ParamName(op) = name).ops[1].v)
    IN  [name \in {ParamName(op) : op \in loads} |-> param(name)]
            @@ [name \in {FixedName[o] : o \in LiteralOps} |-> <<name[1]>>]

EmittedMeaning(prog, func, names) ==
    LET form == Form(prog, func, names)
    IN  [path \in Paths(prog.succs) |->
            FoldLeft(LAMBDA st, i : EmitBlock(form, st, path[i]), Start(Bindings(func)),
                     [i \in DOMAIN path |-> i]).events]

=============================================================================
