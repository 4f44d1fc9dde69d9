------------------------------ MODULE Optimizer ------------------------------
(***************************************************************************)
(* From the instructions of a function to the statements that are written: *)
(* build_ssa (ssa.rs), then optimize (optimize.rs) pass by pass, with the  *)
(* names under which structure.rs writes the variables.                    *)
(***************************************************************************)
EXTENDS Emission

CONSTANT Programs    \* the functions that are decompiled

VARIABLES
    prog,        \* the function's blocks and instructions
    stage,       \* what has been done to it
    func,        \* its SSA form, <<>> before build_ssa
    rounds,      \* rounds of the closing loop of dead code elimination
    names        \* var_names, a function from variables to names

vars == <<prog, stage, func, rounds, names>>

Init ==
    /\ prog \in Programs
    /\ stage = "bytecode"
    /\ func = <<>>
    /\ rounds = 0
    /\ names = <<>>

BuildSsa ==
    /\ stage = "bytecode"
    /\ func' = build_ssa(prog)
    /\ stage' = "ssa"
    /\ UNCHANGED <<prog, rounds, names>>

PropagateCopies ==
    /\ stage = "ssa"
    /\ func' = copy_propagation(func)
    /\ stage' = "copied"
    /\ UNCHANGED <<prog, rounds, names>>

FoldConstants ==
    /\ stage = "copied"
    /\ func' = constant_folding(func)
    /\ stage' = "folded"
    /\ UNCHANGED <<prog, rounds, names>>

EliminateDeadCode ==
    /\ stage = "folded"
    /\ func' = dead_code_elimination(func)
    /\ stage' = "swept"
    /\ UNCHANGED <<prog, rounds, names>>

NameVariables ==
    /\ stage = "swept"
    /\ names' = name_variables(func)
    /\ stage' = "named"
    /\ UNCHANGED <<prog, func, rounds>>

(* Until a round removes nothing, four rounds at most.                     *)
EliminateAgain ==
    /\ stage = "named"
    /\ func' = dead_code_elimination(func)
    /\ rounds' = rounds + 1
    /\ stage' = IF Size(func') = Size(func) \/ rounds' = 4 THEN "fixed" ELSE "named"
    /\ UNCHANGED <<prog, names>>

CoalesceNames ==
    /\ stage = "fixed"
    /\ names' = coalesce_phi_names(func, names)
    /\ stage' = "resolved"
    /\ UNCHANGED <<prog, func, rounds>>

Next ==
    \/ BuildSsa \/ PropagateCopies \/ FoldConstants \/ EliminateDeadCode \/ NameVariables
    \/ EliminateAgain \/ CoalesceNames

Spec == Init /\ [][Next]_vars

-----------------------------------------------------------------------------
(* When the names of a function in SSA form do no harm: no statement       *)
(* assigns a name under which another variable is still to be read, and no *)
(* copy of a phi overwrites the old value of the phi too early.            *)
(*                                                                         *)
(* A read is <<variable, name>>: the name written there, and the variable  *)
(* whose value is meant (NoVar for a parameter or a literal).  The steps   *)
(* of a block are its statements, the copies of phis, and its test or      *)
(* return.                                                                 *)

RECURSIVE Reads(_, _)

(* The reads of an operation where it is written, and of an operand.       *)
OpReads(form, op) ==
    IF IsBinding(op) THEN {<<NoVar, BindingText(op)>>}
    ELSE UNION {Reads(form, o) : o \in {p \in Range(op.ops) : p.k = "Var"}}

Reads(form, o) ==
    IF IsExpression(form, o.v) THEN OpReads(form, form.inlined[o.v])
    ELSE LET name == NameOf(form, o.v)
         IN  {<<o.v, IF IsMember(name) THEN name[2] ELSE name>>}

Step(dst, reads, writes, to) == [dst |-> dst, reads |-> reads, writes |-> writes, to |-> to]

(* to is the block of the phi a copy is for, 0 for an operation.           *)
Steps(form, b) ==
    LET ops == SelectSeq(form.func[b].ops, LAMBDA op : op.dst \notin DOMAIN form.inlined)
        op_step(op) ==
            Step(op.dst, OpReads(form, op), op.dst # NoVar /\ ~IsSilent(form, op), 0)
        copies == PhiCopies(form.func, b)
        copy_step(c) ==
            Step(c[1], Reads(form, Var(c[2])),
                 resolve_var(form, c[1]) # resolve_var(form, c[2]), c[1][2])
        steps(select(_)) ==
            LET selected == SelectSeq(ops, select)
            IN  [i \in DOMAIN selected |-> op_step(selected[i])]
    IN  steps(LAMBDA op : ~IsTerminator(op))
            \o [i \in DOMAIN copies |-> copy_step(copies[i])] \o steps(IsTerminator)

(* The reads still to come in front of a step, given those behind it.      *)
Before(live, step) ==
    {read \in live : read[1] # step.dst \/ read[1] = NoVar} \cup step.reads

(* Behind the first i steps of a block, when those behind the block are    *)
(* known.                                                                  *)
Behind(steps, i, live_out) ==
    FoldLeft(Before, live_out, Reverse(SubSeq(steps, i + 1, Len(steps))))

LiveReads(succs, steps) ==
    LET out(live, b) == UNION {live[s] : s \in Range(succs[b])}
        grow(live, i) == [b \in DOMAIN succs |-> Behind(steps[b], 0, out(live, b))]
    IN  FoldLeft(grow, [b \in DOMAIN succs |-> {}], [b \in DOMAIN succs |-> b])

(* What a literal or a property read is called is not assigned.            *)
IsAssignable(name) ==
    ~IsMember(name) /\ name \notin Reserved \cup {FixedName[o] : o \in LiteralOps}

(* apart: a step assigns no name that is read behind it for another        *)
(* variable.  in_time: a copy does not assign a phi that is read in the    *)
(* rest of its block or on another way out of it.  A parameter that is     *)
(* written where it is used keeps its name.                                *)
NamesDoNoHarm ==
    LET form == Form(prog, func, names)
        steps == [b \in DOMAIN func |-> Steps(form, b)]
        live == LiveReads(prog.succs, steps)
        apart(step, behind) ==
            step.writes =>
                /\ IsAssignable(NameOf(form, step.dst))
                /\ \A read \in behind :
                      read[1] # step.dst => read[2] # NameOf(form, step.dst)
        in_time(step, after, other_way) ==
            step.to # 0 => \A read \in after \cup other_way : read[1] # step.dst
    IN  /\ \A v \in DOMAIN form.inlined : IsExpression(form, v)
        /\ \A b \in DOMAIN func : \A i \in DOMAIN steps[b] :
               LET out(blocks) == UNION {live[s] : s \in blocks}
                   nexts == Range(prog.succs[b])
                   to == steps[b][i].to
                   after == UNION {steps[b][j].reads : j \in i + 1 .. Len(steps[b])}
               IN  /\ apart(steps[b][i], Behind(steps[b], i, out(nexts)))
                   /\ in_time(steps[b][i], after, out(nexts \ {to}))

-----------------------------------------------------------------------------
(* Whatever has been done so far, the function still calls, stores, tests  *)
(* and returns what its instructions do, in that order: a register that is *)
(* read before it is written is undefined, a copy stands for its source    *)
(* wherever it is read, a folded constant is the result, and what dead     *)
(* code elimination drops nobody misses.                                   *)
PassesKeepMeaning ==
    stage # "bytecode" => SsaMeaning(prog.succs, func) = BytecodeMeaning(prog)

(* A property read that moves to its use may pass stores and calls.        *)
MovesNoRead ==
    \/ \A i \in Insts(prog) : i.name # "GetById"
    \/ \A i \in Insts(prog) : i.name \notin {"PutById", "Call1"}

(* The statements do what the instructions did, though expressions have    *)
(* moved to their uses, phis have become copies and variables share names, *)
(* wherever no name is assigned while it is read for another variable, no  *)
(* copy comes too early, and every variable is defined somewhere.          *)
StatementsKeepMeaning ==
    /\ stage = "resolved"
    /\ MovesNoRead
    /\ PhiArgs(func) \subseteq Defined(func)
    /\ NamesDoNoHarm
    => EmittedMeaning(prog, func, names) = BytecodeMeaning(prog)

-----------------------------------------------------------------------------
(* structure.rs: the writes of phis happen in the predecessors, and the    *)
(* copies there are emitted correctly.  Where no two phis share a name,    *)
(* the statements then do what the instructions did.                       *)
CopiesKeepMeaning ==
    LET form == Form(prog, func, names)
    IN  /\ stage = "resolved"
        /\ \A phi, other \in Phis(func) :
              phi # other => NameOf(form, phi.dst) # NameOf(form, other.dst)
        => EmittedMeaning(prog, func, names) = BytecodeMeaning(prog)

=============================================================================
