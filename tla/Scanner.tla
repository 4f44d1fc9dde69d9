------------------------------- MODULE Scanner -------------------------------
(***************************************************************************)
(* scan_parsed_with_mode (scanner.rs): one walk over every function body   *)
(* that collects string cross-references, direct calls and closures.       *)
(*                                                                         *)
(* The parsed file is [data, funcs, strings, mode]: the bytes, the         *)
(* functions [off, size, unrec] by id + 1, the number of strings and the   *)
(* ScanMode.  A missing BTreeMap entry is the empty sequence.              *)
(***************************************************************************)
EXTENDS OpcodeTable

VARIABLES file,          \* the parsed file
          fi,            \* the function being scanned
          scan_pos,      \* the byte reached in it, None between two bodies
          string_refs,   \* string id -> functions, in push order
          call_graph,    \* function -> callees, in push order
          closure_refs   \* function -> functions it creates closures of

refs == <<string_refs, call_graph, closure_refs>>
scan_vars == <<fi, scan_pos, refs>>

FuncCount == Len(file.funcs)
FuncIds == 0..(FuncCount - 1)
Func(f) == file.funcs[f + 1]

InBounds(f) == Func(f).off + Func(f).size <= Len(file.data)
Body(f) == SubSeq(file.data, Func(f).off + 1, Func(f).off + Func(f).size)

Values(s) == {s[n] : n \in DOMAIN s}

-----------------------------------------------------------------------------
(* Variant: an id is pushed however often it is met. *)
PushAlways(s, x) == Append(s, x)

(* An id equal to the last one is not pushed again. *)
Push(s, x) == IF s # <<>> /\ s[Len(s)] = x THEN s ELSE Append(s, x)

(* The reference at the instruction under the walk, if it is in range. *)
Reference(slot, count) ==
  LET id == ReadId(Body(fi), scan_pos, slot)
  IN IF id \in 0..(count - 1) THEN id ELSE None

(* Variant: function ids are not bounded. *)
CallTargetUnbounded(slot) == ReadId(Body(fi), scan_pos, slot)

CallTarget(slot) == Reference(slot, FuncCount)

Entered(graph, target) ==
  IF file.mode.callgraph /\ target # None
    THEN [graph EXCEPT ![fi] = Push(graph[fi], target)] ELSE graph

-----------------------------------------------------------------------------
(* Variant: an unrecognized function is walked like any other. *)
ScannableTrusting(f) == Func(f).size # 0 /\ InBounds(f)

Scannable(f) == ~Func(f).unrec /\ Func(f).size # 0 /\ InBounds(f)

ScanStart ==
  /\ fi = 0 /\ scan_pos = None
  /\ string_refs = [s \in 0..(file.strings - 1) |-> <<>>]
  /\ call_graph = [f \in FuncIds |-> <<>>]
  /\ closure_refs = [f \in FuncIds |-> <<>>]

SkipFunction ==
  /\ fi < FuncCount /\ scan_pos = None
  /\ ~Scannable(fi)
  /\ fi' = fi + 1
  /\ UNCHANGED <<scan_pos, refs>>

EnterFunction ==
  /\ fi < FuncCount /\ scan_pos = None
  /\ Scannable(fi)
  /\ scan_pos' = 0
  /\ UNCHANGED <<fi, refs>>

ScanInst ==
  /\ scan_pos # None /\ Readable(Body(fi), scan_pos)
  /\ LET e == EntryAt(Body(fi), scan_pos)
         s == Reference(e.str, file.strings)
     IN /\ string_refs' = IF file.mode.xrefs /\ s # None
                            THEN [string_refs EXCEPT ![s] = Push(string_refs[s], fi)]
                            ELSE string_refs
        /\ call_graph' = Entered(call_graph, CallTarget(e.call))
        /\ closure_refs' = Entered(closure_refs, CallTarget(e.closure))
        /\ scan_pos' = scan_pos + e.size
  /\ UNCHANGED fi

(* Variant: a body that cannot be read to its end is started again. *)
LeaveFunctionAgain ==
  /\ scan_pos # None /\ ~Readable(Body(fi), scan_pos)
  /\ fi' = IF scan_pos >= Len(Body(fi)) THEN fi + 1 ELSE fi
  /\ scan_pos' = None
  /\ UNCHANGED refs

(* The end of the body, or a byte no instruction can be read from. *)
LeaveFunction ==
  /\ scan_pos # None /\ ~Readable(Body(fi), scan_pos)
  /\ fi' = fi + 1 /\ scan_pos' = None
  /\ UNCHANGED refs

ScanStep == SkipFunction \/ EnterFunction \/ ScanInst \/ LeaveFunction
Scanned == fi = FuncCount

=============================================================================
