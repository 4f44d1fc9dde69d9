------------------------------- MODULE Disasm -------------------------------
(***************************************************************************)
(* The two readers of a parsed file's bytecode: decompile_bundle, which    *)
(* decodes the functions in order of their ids (the guards decompile_one   *)
(* puts before decode_function, and its result), and the scanner.  Neither *)
(* writes anything the other reads, so the scanner runs second.            *)
(***************************************************************************)
EXTENDS Decode, Scanner

CONSTANT Files   \* the parsed files

ASSUME FilesAssumption ==
  \A d \in Files :
    /\ d.data \in Seq(Nat) /\ d.strings \in Nat
    /\ d.funcs \in Seq([off : Nat, size : Nat, unrec : BOOLEAN])
    /\ d.mode \in [xrefs : BOOLEAN, callgraph : BOOLEAN]

VARIABLES func_id,   \* the function decompile_one is called for
          results,   \* function -> how decoding ended
          decoded    \* history: function -> the instructions read until then

bundle_vars == <<func_id, results, decoded>>
vars == <<file, decode_vars, bundle_vars, scan_vars>>

Bundled == func_id = FuncCount

Record(status, read) ==
  /\ results' = [results EXCEPT ![func_id] = status]
  /\ decoded' = [decoded EXCEPT ![func_id] = read]
  /\ func_id' = func_id + 1

-----------------------------------------------------------------------------
(* decompile_one.                                                          *)

Unrecognized ==
  /\ outcome = "idle" /\ ~Bundled /\ Func(func_id).unrec
  /\ Record("Unrecognized", <<>>)
  /\ UNCHANGED <<file, decode_vars, scan_vars>>

BodyExceedsBuffer ==
  /\ outcome = "idle" /\ ~Bundled /\ ~Func(func_id).unrec /\ ~InBounds(func_id)
  /\ Record("FunctionBodyExceedsBuffer", <<>>)
  /\ UNCHANGED <<file, decode_vars, scan_vars>>

CallDecode ==
  /\ outcome = "idle" /\ ~Bundled /\ ~Func(func_id).unrec /\ InBounds(func_id)
  /\ Start(Body(func_id))
  /\ UNCHANGED <<file, bundle_vars, scan_vars>>

DecodeLoop == DecodeStep /\ UNCHANGED <<file, bundle_vars, scan_vars>>

DecodeReturns ==
  /\ outcome \notin {"idle", "running"}
  /\ Record(outcome, insts)
  /\ outcome' = "idle" /\ UNCHANGED <<code, pos, insts>>
  /\ UNCHANGED <<file, scan_vars>>

Scan == Bundled /\ ScanStep /\ UNCHANGED <<file, decode_vars, bundle_vars>>

-----------------------------------------------------------------------------
Init ==
  /\ file \in Files
  /\ code = <<>> /\ pos = 0 /\ insts = <<>> /\ outcome = "idle"
  /\ func_id = 0
  /\ results = [f \in FuncIds |-> "none"] /\ decoded = [f \in FuncIds |-> <<>>]
  /\ ScanStart

Done == Bundled /\ Scanned /\ UNCHANGED vars

Next ==
  \/ Unrecognized \/ BodyExceedsBuffer \/ CallDecode \/ DecodeLoop \/ DecodeReturns
  \/ Scan \/ Done

Spec == Init /\ [][Next]_vars

(* Both are sequential calls: once entered they keep running. *)
FairSpec == Spec /\ WF_vars(Next)

-----------------------------------------------------------------------------
(* Properties.                                                             *)

(* Types; a graph names functions of the file only (callee <               *)
(* function_count).                                                        *)
TypeOK ==
  /\ outcome \in {"idle", "running", "ok", "UnknownOpcode", "TruncatedInstructionStream"}
  /\ pos \in Nat /\ code \in Seq(Nat)
  /\ func_id \in 0..FuncCount /\ fi \in 0..FuncCount /\ scan_pos \in Nat \cup {None}
  /\ string_refs \in [0..(file.strings - 1) -> Seq(FuncIds)]
  /\ call_graph \in [FuncIds -> Seq(FuncIds)] /\ closure_refs \in [FuncIds -> Seq(FuncIds)]

End(s) == IF s = <<>> THEN 0 ELSE s[Len(s)].off + s[Len(s)].size

(* decode_function's instructions follow each other from byte 0 without a  *)
(* gap or an overlap and never leave the function; when it returns Ok they *)
(* end with it.  Every slot of decompile_bundle holds the instructions of  *)
(* its own function only, whatever happened in the slots before it.        *)
(* Cfg::build relies on it (HermesInsn!Tiled).                             *)
Tiles(s, size) == Tiled(s) /\ End(s) <= size

DecodedTiles ==
  /\ Tiles(insts, Len(code)) /\ End(insts) = pos
  /\ outcome = "ok" => pos = Len(code)
  /\ \A f \in FuncIds :
       /\ Tiles(decoded[f], Func(f).size)
       /\ results[f] = "ok" => End(decoded[f]) = Func(f).size

(* Functions are pushed in id order, so the comparison with the last one   *)
(* (scanner.rs: funcs.last() != Some(&fi)) keeps every list of string_refs *)
(* free of duplicates.                                                     *)
RefsAscending ==
  \A s \in DOMAIN string_refs :
    \A m, n \in DOMAIN string_refs[s] : m < n => string_refs[s][m] < string_refs[s][n]

(* The ids among the arguments `args' selects, in the instructions the     *)
(* decoder read from function f before it stopped.                         *)
Arguments(f, args(_)) ==
  [n \in DOMAIN decoded[f] |->
     {decoded[f][n].operands[k] : k \in args(Table[decoded[f][n].opcode + 1])}]

StringArgs(e) == e.strArgs
OperandsAt(e, slot) ==
  {k \in DOMAIN e.types : slot.width # 0 /\ OperandAt(e.types, k) = slot.at}
CallArgs(e) == OperandsAt(e, e.call)
ClosureArgs(e) == OperandsAt(e, e.closure)

(* The scanner, with its own tables and its own walk, finds exactly the    *)
(* string ids the decoder sees: also in a body that cannot be read to its  *)
(* end, and nothing in a function that is unrecognized or out of bounds.   *)
XrefsMatchDecoder ==
  Bundled /\ Scanned =>
    \A s \in DOMAIN string_refs :
      Values(string_refs[s]) =
        IF file.mode.xrefs
          THEN {f \in FuncIds : \E n \in DOMAIN decoded[f] : s \in Arguments(f, StringArgs)[n]}
          ELSE {}

(* A list names the functions of the file among the arguments, instruction *)
(* by instruction and without immediate repetitions: `at' is where each    *)
(* entry comes from, and at every instruction that has a target the last   *)
(* entry until then is that target.                                        *)
InOrder(list, f, args(_)) ==
  \E at \in [DOMAIN list -> DOMAIN decoded[f]] :
    /\ \A i \in DOMAIN list : list[i] \in Arguments(f, args)[at[i]]
    /\ \A i, j \in DOMAIN list : i < j => at[i] < at[j]
    /\ \A i, j \in DOMAIN list : j = i + 1 => list[i] # list[j]
    /\ \A n \in DOMAIN decoded[f] : \A t \in Arguments(f, args)[n] \cap FuncIds :
         \E i \in DOMAIN list : at[i] <= n /\ list[i] = t /\ \A j \in DOMAIN list : i < j => at[j] > n

(* call_graph and closure_refs list the calls and the closures of the      *)
(* decoded instructions in program order.                                  *)
CallsMatchDecoder ==
  Bundled /\ Scanned =>
    \A f \in FuncIds :
      /\ IF file.mode.callgraph THEN InOrder(call_graph[f], f, CallArgs) ELSE call_graph[f] = <<>>
      /\ IF file.mode.callgraph THEN InOrder(closure_refs[f], f, ClosureArgs)
                                ELSE closure_refs[f] = <<>>

(* Both readers return, whatever the bytes are. *)
Terminates == <>(Bundled /\ Scanned)

=============================================================================
