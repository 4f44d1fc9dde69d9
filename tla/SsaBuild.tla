------------------------------ MODULE SsaBuild ------------------------------
(***************************************************************************)
(* The SSA form of a function, as build_ssa (ssa.rs) makes it.             *)
(*                                                                         *)
(* A program is a record                                                   *)
(*    succs  for each block 1 .. n the sequence of its successors          *)
(*    depth  for each block the number of statements it is nested in       *)
(*    code   for each block its instructions [name, dst, ops]              *)
(* where dst is a register or NoReg, and an operand is [k, v]: a register  *)
(* ("Reg"), an integer ("Const") or a double ("ConstDouble").  Block 1 is the entry; the last          *)
(* instruction of a block with two successors is its conditional jump.     *)
(*                                                                         *)
(* The function build_ssa returns has blocks [phis, ops] whose operands    *)
(* are variables ("Var"), and no destination operand.  A variable is       *)
(* <<register, block, index>>: the instruction that writes it, index 0 for *)
(* a phi, block 0 for a register nothing has written.                      *)
(***************************************************************************)
EXTENDS Integers, TLC, SequencesExt, FiniteSetsExt, Functions

NoReg == 0
NoVar == <<0, 0, 0>>

Op(name, dst, ops) == [name |-> name, dst |-> dst, ops |-> ops]
Reg(r) == [k |-> "Reg", v |-> r]
Const(c) == [k |-> "Const", v |-> c]
Double(x) == [k |-> "ConstDouble", v |-> x]
Var(v) == [k |-> "Var", v |-> v]

BlockIds(prog) == DOMAIN prog.succs

Insts(prog) == UNION {Range(prog.code[b]) : b \in BlockIds(prog)}

RegReads(inst) == {o.v : o \in {p \in Range(inst.ops) : p.k = "Reg"}}

Registers(prog) ==
    UNION {RegReads(i) \cup ({i.dst} \ {NoReg}) : i \in Insts(prog)}

Preds(prog, b) == {p \in BlockIds(prog) : b \in Range(prog.succs[p])}

(* The last write of r among the first k instructions of b, or 0.          *)
LastWrite(prog, b, k, r) ==
    Max({0} \cup {i \in 1 .. k : prog.code[b][i].dst = r})

ReadsFirst(prog, b, r) ==
    \E k \in DOMAIN prog.code[b] :
        r \in RegReads(prog.code[b][k]) /\ LastWrite(prog, b, k - 1, r) = 0

(* The registers read from the entry of each block on.                     *)
LiveIn(prog) ==
    LET grow(live, i) ==
            [b \in BlockIds(prog) |->
                {r \in Registers(prog) :
                    \/ ReadsFirst(prog, b, r)
                    \/ /\ LastWrite(prog, b, Len(prog.code[b]), r) = 0
                       /\ \E s \in Range(prog.succs[b]) : r \in live[s]}]
    IN  FoldLeft(grow, [b \in BlockIds(prog) |-> {}], [i \in BlockIds(prog) |-> i])

-----------------------------------------------------------------------------
(* The builder (droidsaw_common): what read_variable and write_variable    *)
(* answer, and the phis seal_phis completes.                               *)

IsJoin(prog, b) == Cardinality(Preds(prog, b)) > 1

(* The variable that holds r at the entry of b: the phi of a join, else    *)
(* what the only predecessor leaves.                                       *)
AtEntry(prog, r) ==
    LET f[b \in BlockIds(prog)] ==
            IF IsJoin(prog, b) THEN <<r, b, 0>>
            ELSE IF Preds(prog, b) = {} THEN <<r, 0, 0>>
            ELSE LET p == CHOOSE p \in Preds(prog, b) : TRUE
                     k == LastWrite(prog, p, Len(prog.code[p]), r)
                 IN  IF k > 0 THEN <<r, p, k>> ELSE f[p]
    IN  f

read_variable(prog, entries, b, k, r) ==
    LET i == LastWrite(prog, b, k - 1, r) IN IF i > 0 THEN <<r, b, i>> ELSE entries[r][b]

(* A phi for every register that is read past a join, with one argument    *)
(* for each predecessor.                                                   *)
take_phis(prog, entries, b) ==
    LET regs == IF IsJoin(prog, b) THEN SetToSortSeq(LiveIn(prog)[b], <) ELSE <<>>
        preds == SetToSortSeq(Preds(prog, b), <)
    IN  [i \in DOMAIN regs |->
            [dst |-> <<regs[i], b, 0>>,
             args |-> [j \in DOMAIN preds |->
                          <<preds[j], read_variable(prog, entries, preds[j],
                                          Len(prog.code[preds[j]]) + 1, regs[i])>>]]]

-----------------------------------------------------------------------------
OpVars(op) == {o.v : o \in {p \in Range(op.ops) : p.k = "Var"}}

Ops(func) == UNION {Range(func[b].ops) : b \in DOMAIN func}
Phis(func) == UNION {Range(func[b].phis) : b \in DOMAIN func}
PhiArgs(func) == UNION {{a[2] : a \in Range(phi.args)} : phi \in Phis(func)}

OperandUses(func) == UNION {OpVars(op) : op \in Ops(func)}

Defined(func) == {op.dst : op \in Ops(func)} \cup {phi.dst : phi \in Phis(func)}

(* Variables of the operations (those of the phis are not looked at) that  *)
(* nothing defines.                                                        *)
Undefined(func) == OperandUses(func) \ Defined(func)

(* Block 1 is the first block: the definitions of undefined variables are  *)
(* put in front of it.                                                     *)
InjectUndefined(func) ==
    LET undefined == SetToSeq(Undefined(func))
    IN  [func EXCEPT ![1].ops =
            [i \in DOMAIN undefined |-> Op("LoadConstUndefined", undefined[i], <<>>)] \o @]

build_ssa(prog) ==
    LET entries == [r \in Registers(prog) |-> AtEntry(prog, r)]
        operand(b, k, o) ==
            IF o.k = "Reg" THEN Var(read_variable(prog, entries, b, k, o.v)) ELSE o
        op(b, k) ==
            LET inst == prog.code[b][k]
            IN  Op(inst.name,
                   IF inst.dst = NoReg THEN NoVar ELSE <<inst.dst, b, k>>,
                   [j \in DOMAIN inst.ops |-> operand(b, k, inst.ops[j])])
    IN  InjectUndefined(
            [b \in BlockIds(prog) |->
                [phis |-> take_phis(prog, entries, b),
                 ops |-> [k \in DOMAIN prog.code[b] |-> op(b, k)]]])

=============================================================================
