---------------------------- MODULE MCOptimizer ----------------------------
(* Four shapes: one block, an if with two arms, a loop tested at its end,  *)
(* a loop tested at its head.  The instructions of each place are taken    *)
(* from a menu.                                                            *)
EXTENDS Optimizer

R0 == 1
R1 == 2
R2 == 3
R3 == 4

Load(r, c) == Op("LoadConstInt", r, <<Const(c)>>)
Param(r) == Op("LoadParam", r, <<Const(1)>>)
Mov(r, s) == Op("Mov", r, <<Reg(s)>>)
Sub(r, s, t) == Op("SubN", r, <<Reg(s), Reg(t)>>)
Dec(r) == Op("Dec", r, <<Reg(r)>>)
Get(r, s) == Op("GetById", r, <<Reg(s)>>)
Put(r, s) == Op("PutById", NoReg, <<Reg(r), Reg(s)>>)
Call(r, s) == Op("Call1", r, <<Reg(s)>>)
Jump(r) == Op("JmpTrue", NoReg, <<Reg(r)>>)
New(r, label) == Op("NewObject", r, <<Const(label)>>)
Binary2(name, r, s, t) == Op(name, r, <<Reg(s), Reg(t)>>)
Ret(r) == Op("Ret", NoReg, <<Reg(r)>>)

Menu == {Load(R1, 2), Param(R0), Mov(R0, R1), Mov(R1, R0), Sub(R0, R0, R1), Dec(R0),
         Call(R1, R0)}

MemoryMenu == {Get(R1, R0), Put(R0, R1)}

(* Results that get a fixed name.                                          *)
NameMenu == {New(R0, 1), New(R1, 2), Op("LoadConstTrue", R1, <<>>),
             Op("LoadConstUndefined", R0, <<>>), Op("LoadParam", R1, <<Const(0)>>),
             Op("CreateClosure", R1, <<Const(5)>>)}

LoadDouble(r, n, d) == Op("LoadConstDouble", r, <<Double(<<n, d>>)>>)

Line == [succs |-> << <<>> >>, depth |-> <<0>>]
Diamond == [succs |-> << <<2, 3>>, <<4>>, <<4>>, <<>> >>, depth |-> <<0, 1, 1, 0>>]
Loop == [succs |-> << <<2>>, <<2, 3>>, <<>> >>, depth |-> <<0, 1, 0>>]
While == [succs |-> << <<2>>, <<3, 4>>, <<2>>, <<>> >>, depth |-> <<0, 1, 1, 0>>]

Shaped(shape, codes) == {[succs |-> shape.succs, depth |-> shape.depth, code |-> c] : c \in codes}

Lines ==
    Shaped(Line, {<< <<Param(R0), Load(R1, 3), i, j, k, l, Ret(r)>> >> :
                     i, j, k \in Menu \cup MemoryMenu, l \in {Call(R1, R0), Sub(R0, R0, R1), Mov(R0, R1)},
                     r \in {R0, R1}}
                 \cup {<< <<Param(R1), i, j, k, Call(R1, r), Ret(R2)>> >> :
                           i, j, k \in Menu, r \in {R0, R2}})

(* Two constants, an operation on them and another on the result; the      *)
(* widest integers, both zeros of a division, counts beyond the width.     *)
Folds ==
    LET ints == {Load(R0, c) : c \in {-8, -3, 0, 5, 7}} \X {Load(R1, c) : c \in {-8, -3, 0, 2, 7}}
        zeros == {<<Op("LoadConstZero", R0, <<>>), Load(R1, 2)>>}
        doubles == {LoadDouble(R0, n, d) : n \in {-1, 0, 5}, d \in {1, 3}}
                       \X {LoadDouble(R1, n, 1) : n \in {-2, 0, 3}}
        mixed == {<<Load(R0, 5), LoadDouble(R1, 1, 3)>>}
    IN  Shaped(Line, {<< <<c[1], c[2], Binary2(f, R0, R0, R1), Binary2(g, R0, R0, r), Ret(R0)>> >> :
                         c \in ints \cup zeros \cup doubles \cup mixed, f \in BinaryNames,
                         g \in {"AddN", "Div", "Mod", "Mul", "RShift", "URshift"}, r \in {R0, R1}})

(* R1 may be read on a path that has not written it.                       *)
Diamonds ==
    Shaped(Diamond, {<< <<Param(R0), i, Jump(R0)>>, <<j, k>>, <<l>>, <<Call(R1, R1), Ret(R0)>> >> :
                        i \in {Load(R1, 3), Mov(R1, R0)}, j, k, l \in Menu}
                    \cup {<< <<Param(R0), Jump(R0)>>, <<j, k>>, <<l>>, <<Call(R1, R1), Ret(R0)>> >> :
                              j, k, l \in Menu})

Loops ==
    Shaped(Loop, {<< <<Param(R0), i>>, <<j, k, l, Jump(r)>>, <<Call(R1, R1), Ret(R0)>> >> :
                     i \in {Load(R1, 3), Mov(R1, R0)}, j, k, l \in Menu, r \in {R0, R1}}
                 \cup {<< <<Param(R0)>>, <<j, k, Jump(R0)>>, <<Call(R1, R1), Ret(R0)>> >> :
                           j, k \in Menu})

Whiles ==
    Shaped(While, {<< <<Param(R0), i>>, <<Jump(r)>>, <<j, k, l>>, <<Call(R1, R1), Ret(R0)>> >> :
                      i \in {Load(R1, 3), Mov(R1, R0)}, j, k, l \in Menu \cup {Call(R1, R1)},
                      r \in {R0, R1}})

(* Fixed names, several of them alive, in branches and in loops.           *)
Named ==
    LET menu == NameMenu \cup {Mov(R0, R1), Mov(R1, R0), Call(R1, R0), Get(R1, R0)}
        end == <<Call(R2, R0), Call(R2, R1), Ret(R0)>>
    IN  Shaped(Line, {<< <<Param(R0), New(R1, 3), i, j, k>> \o end >> : i, j, k \in menu}
                     \cup {<< <<Param(R0), i, Get(R1, R0), j, Jump(R1), Jump(R1), Ret(R0)>> >> :
                               i, j \in menu})
        \cup Shaped(Diamond, {<< <<Param(R0), i, Jump(R0)>>, <<j>>, <<k>>, end>> :
                                  i, j, k \in menu})
        \cup Shaped(Loop, {<< <<Param(R0), i>>, <<j, k, Jump(R0)>>, end>> : i, j, k \in menu})

MCPrograms == Lines \cup Folds \cup Diamonds \cup Loops \cup Whiles \cup Named

(* while (x) { exchange y and z; g(z) } f(y), z first or y first.          *)
MCExchanges ==
    LET enter == <<Param(R0), Load(R1, 3), New(R2, 1)>>
        exchange(r, s) == <<Mov(R3, r), Mov(r, s), Mov(s, R3)>>
    IN  Shaped(While, {<<enter, <<Jump(R0)>>, exchange(p[1], p[2]) \o <<Call(R0, R2)>>,
                         <<Call(R0, R1), Ret(R2)>> >> : p \in {<<R1, R2>>, <<R2, R1>>}})

=============================================================================
