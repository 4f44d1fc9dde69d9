------------------------------ MODULE MCDisasm ------------------------------
(***************************************************************************)
(* Files for the run of Disasm: every string of five bytes under a table   *)
(* of five opcodes, with bodies that are shared, overlapping, empty, out   *)
(* of bounds or unrecognized; then six bytes, where one body has room for  *)
(* two string operands, in each scan mode alone.                           *)
(***************************************************************************)
EXTENDS Disasm

NoSlot == [at |-> 0, width |-> 0]
Plain(types) ==
  [size |-> 1 + (IF types = <<>> THEN 0 ELSE OperandAt(types, Len(types)) + ByteSize[types[Len(types)]] - 1),
   types |-> types, strArgs |-> {},
   str |-> NoSlot, call |-> NoSlot, closure |-> NoSlot]

(* Ret, a jump, a string access with a register in front, CallDirect and   *)
(* CreateClosure, with the narrowest operands.                             *)
MCTable ==
  << Plain(<<>>),
     Plain(<<"A1">>),
     [Plain(<<"U1", "R">>) EXCEPT !.strArgs = {1}, !.str = [at |-> 1, width |-> 1]],
     [Plain(<<"U1">>) EXCEPT !.call = [at |-> 1, width |-> 1]],
     [Plain(<<"U2">>) EXCEPT !.closure = [at |-> 1, width |-> 2]] >>

Length == 5
Bytes == 0..5     \* 5 is no opcode

Fn(off, size, unrec) == [off |-> off, size |-> size, unrec |-> unrec]

MCFuncs ==
  { << Fn(0, 5, FALSE), Fn(2, 3, FALSE) >>,
    << Fn(1, 4, FALSE), Fn(0, 5, TRUE), Fn(1, 4, FALSE) >>,
    << Fn(0, 0, FALSE), Fn(3, 3, FALSE), Fn(0, 4, FALSE) >> }

MCFiles ==
  {[data |-> d, funcs |-> fs, strings |-> 2, mode |-> [xrefs |-> TRUE, callgraph |-> TRUE]] :
     d \in [1..Length -> Bytes], fs \in MCFuncs}
  \cup
  {[data |-> d, funcs |-> << Fn(0, 6, FALSE), Fn(3, 3, FALSE) >>, strings |-> 2,
    mode |-> [xrefs |-> x, callgraph |-> ~x]] :
     d \in [1..(Length + 1) -> {0, 2, 3}], x \in BOOLEAN}

=============================================================================
