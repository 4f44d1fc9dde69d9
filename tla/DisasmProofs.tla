---------------------------- MODULE DisasmProofs ----------------------------
(***************************************************************************)
(* Proofs about the decoder and the scanner for every opcode table and     *)
(* every set of files.                                                     *)
(***************************************************************************)
EXTENDS Disasm, SequenceTheorems, TLAPS

-----------------------------------------------------------------------------
(* Facts about sequences.  What the operands of an instruction are does    *)
(* not matter, so a sequence of instructions is one over some set.         *)

IsSeq(s) == \E S : s \in Seq(S)

LEMMA EmptyIsSeq == IsSeq(<<>>) /\ DOMAIN <<>> = {}
<1>1. <<>> \in Seq({})
  OBVIOUS
<1> QED BY <1>1 DEF IsSeq

LEMMA AppendFacts ==
  ASSUME NEW s, IsSeq(s), NEW x
  PROVE  /\ IsSeq(Append(s, x)) /\ Len(s) \in Nat /\ DOMAIN s = 1..Len(s)
         /\ Len(Append(s, x)) = Len(s) + 1 /\ DOMAIN Append(s, x) = 1..(Len(s) + 1)
         /\ \A n \in 1..Len(s) : Append(s, x)[n] = s[n]
         /\ Append(s, x)[Len(s) + 1] = x /\ Append(s, x) # <<>>
         /\ s # <<>> <=> Len(s) # 0
<1>1. PICK S : s \in Seq(S)
  BY DEF IsSeq
<1> DEFINE T == S \cup {x}
<1>2. s \in Seq(T) /\ x \in T
  BY <1>1
<1>3. Append(s, x) \in Seq(T)
  BY <1>2
<1>4. IsSeq(Append(s, x))
  BY <1>3 DEF IsSeq
<1> HIDE DEF T
<1>5. /\ Len(s) \in Nat /\ DOMAIN s = 1..Len(s)
      /\ Len(Append(s, x)) = Len(s) + 1 /\ DOMAIN Append(s, x) = 1..(Len(s) + 1)
      /\ \A n \in 1..Len(s) : Append(s, x)[n] = s[n]
      /\ Append(s, x)[Len(s) + 1] = x
  BY <1>2
<1>6. s # <<>> <=> Len(s) # 0
  BY <1>2
<1>7. Append(s, x) # <<>>
  <2>1. Append(s, x) = <<>> => Len(Append(s, x)) = 0
    OBVIOUS
  <2> QED BY <2>1, <1>5
<1> QED BY <1>4, <1>5, <1>6, <1>7

(* An instruction that starts where the last one ended extends the tiling. *)
LEMMA TilesAppend ==
  ASSUME NEW s, IsSeq(s), Tiled(s), NEW i, i.off = End(s)
  PROVE  Tiled(Append(s, i)) /\ End(Append(s, i)) = i.off + i.size
<1> DEFINE t == Append(s, i)
<1>1. /\ Len(s) \in Nat /\ DOMAIN s = 1..Len(s) /\ Len(t) = Len(s) + 1
      /\ DOMAIN t = 1..(Len(s) + 1) /\ t[Len(s) + 1] = i /\ t # <<>>
      /\ s # <<>> <=> Len(s) # 0
  BY AppendFacts
<1>2. \A n \in 1..Len(s) : t[n] = s[n]
  BY AppendFacts
<1> HIDE DEF t
<1>3. End(t) = i.off + i.size
  BY <1>1 DEF End
<1>4. ASSUME NEW k \in DOMAIN t
      PROVE  t[k].off = IF k = 1 THEN 0 ELSE t[k - 1].off + t[k - 1].size
  <2>1. CASE k = Len(s) + 1 /\ k = 1
    BY <2>1, <1>1 DEF End
  <2>2. CASE k = Len(s) + 1 /\ k # 1
    <3>1. k - 1 \in 1..Len(s) /\ k - 1 = Len(s) /\ s # <<>>
      BY <2>2, <1>1
    <3>2. t[k - 1] = s[Len(s)] /\ t[k] = i
      BY <3>1, <2>2, <1>1, <1>2
    <3> QED BY <3>1, <3>2, <2>2 DEF End
  <2>3. CASE k # Len(s) + 1
    <3>1. k \in 1..Len(s) /\ (k # 1 => k - 1 \in 1..Len(s))
      BY <2>3, <1>1
    <3>2. s[k].off = IF k = 1 THEN 0 ELSE s[k - 1].off + s[k - 1].size
      BY <3>1, <1>1 DEF Tiled
    <3> QED BY <3>1, <3>2, <1>2
  <2> QED BY <2>1, <2>2, <2>3
<1> QED BY <1>3, <1>4 DEF Tiled, t

-----------------------------------------------------------------------------
(* The invariant of the decoder.  It runs on the body of the function      *)
(* decompile_one was called for.                                           *)

LoopInv ==
  /\ outcome \in {"idle", "running", "ok", "UnknownOpcode", "TruncatedInstructionStream"}
  /\ code \in Seq(Nat) /\ pos \in Nat /\ pos <= Len(code)
  /\ IsSeq(insts) /\ Tiled(insts) /\ End(insts) = pos
  /\ outcome = "ok" => pos = Len(code)

CallInv ==
  /\ file \in Files /\ func_id \in 0..FuncCount
  /\ outcome # "idle" => func_id < FuncCount /\ Len(code) = Func(func_id).size

SlotInv ==
  /\ DOMAIN decoded = FuncIds /\ DOMAIN results = FuncIds
  /\ \A f \in FuncIds :
       /\ Tiles(decoded[f], Func(f).size)
       /\ results[f] = "ok" => End(decoded[f]) = Func(f).size

DecodeInv == LoopInv /\ CallInv /\ SlotInv

(* Function ids and bodies of a parsed file. *)
LEMMA FileFacts ==
  ASSUME file \in Files
  PROVE  /\ FuncCount \in Nat /\ file.strings \in Nat
         /\ \A f \in FuncIds :
              /\ Func(f).off \in Nat /\ Func(f).size \in Nat
              /\ InBounds(f) => Body(f) \in Seq(Nat) /\ Len(Body(f)) = Func(f).size
<1> DEFINE F == [off : Nat, size : Nat, unrec : BOOLEAN]
<1>1. file.data \in Seq(Nat) /\ file.strings \in Nat /\ file.funcs \in Seq(F)
  BY FilesAssumption
<1>2. FuncCount \in Nat
  BY <1>1 DEF FuncCount
<1>3. ASSUME NEW f \in FuncIds
      PROVE  /\ Func(f).off \in Nat /\ Func(f).size \in Nat
             /\ InBounds(f) => Body(f) \in Seq(Nat) /\ Len(Body(f)) = Func(f).size
  <2>1. f + 1 \in 1..Len(file.funcs)
    BY <1>2 DEF FuncIds, FuncCount
  <2>2. file.funcs[f + 1] \in F
    <3> HIDE DEF F
    <3> QED BY <2>1, <1>1
  <2>3. Func(f).off \in Nat /\ Func(f).size \in Nat
    BY <2>2 DEF Func
  <2>4. ASSUME InBounds(f)
        PROVE  Body(f) \in Seq(Nat) /\ Len(Body(f)) = Func(f).size
    <3> DEFINE m == Func(f).off + 1
               n == Func(f).off + Func(f).size
    <3>1. m \in Int /\ n \in Int /\ n <= Len(file.data) /\ Len(file.data) \in Nat /\ m >= 1
      BY <2>3, <2>4, <1>1 DEF InBounds
    <3>2. \A i \in m..n : file.data[i] \in Nat
      <4> HIDE DEF m, n
      <4> QED BY <3>1, <1>1
    <3>3. /\ SubSeq(file.data, m, n) \in Seq(Nat)
          /\ Len(SubSeq(file.data, m, n)) = IF m <= n THEN n - m + 1 ELSE 0
      <4> DEFINE data == file.data
      <4>1. \A i \in m..n : data[i] \in Nat
        BY <3>2
      <4> HIDE DEF m, n, data
      <4>2. /\ SubSeq(data, m, n) \in Seq(Nat)
            /\ Len(SubSeq(data, m, n)) = IF m <= n THEN n - m + 1 ELSE 0
        BY <3>1, <4>1, SubSeqProperties
      <4> QED BY <4>2 DEF data
    <3>4. (IF m <= n THEN n - m + 1 ELSE 0) = Func(f).size
      BY <2>3
    <3> QED BY <3>3, <3>4 DEF Body
  <2> QED BY <2>3, <2>4
<1> QED BY <1>1, <1>2, <1>3

LEMMA DecodeInit == Init => DecodeInv
<1> SUFFICES ASSUME Init PROVE DecodeInv
  OBVIOUS
<1>1. file \in Files /\ FuncCount \in Nat
  BY FileFacts DEF Init
<1>2. Tiled(<<>>) /\ End(<<>>) = 0
  BY EmptyIsSeq DEF Tiled, End
<1>3. LoopInv
  BY <1>2, EmptyIsSeq DEF Init, LoopInv
<1>4. CallInv
  BY <1>1 DEF Init, CallInv
<1>5. ASSUME NEW f \in FuncIds
      PROVE  /\ Tiles(decoded[f], Func(f).size)
             /\ results[f] = "ok" => End(decoded[f]) = Func(f).size
  <2>1. decoded[f] = <<>> /\ results[f] = "none"
    BY DEF Init
  <2>2. Func(f).size >= 0
    BY <1>1, FileFacts
  <2> QED BY <1>2, <2>1, <2>2 DEF Tiles
<1>6. SlotInv
  BY <1>5 DEF SlotInv, Init
<1> QED BY <1>3, <1>4, <1>6 DEF DecodeInv

(* A step that leaves the decoder and the bundle alone. *)
LEMMA DecodeStutter ==
  ASSUME DecodeInv, UNCHANGED <<file, decode_vars, bundle_vars>>
  PROVE  DecodeInv'
BY DEF DecodeInv, LoopInv, CallInv, SlotInv, decode_vars, bundle_vars, FuncCount, FuncIds,
       Func, Tiles, Tiled, End

(* Recording a slot keeps the others. *)
LEMMA RecordSlot ==
  ASSUME DecodeInv, NEW status, NEW read, UNCHANGED file, Record(status, read),
         func_id < FuncCount,
         Tiles(read, Func(func_id).size),
         status = "ok" => End(read) = Func(func_id).size
  PROVE  SlotInv' /\ file' \in Files /\ func_id' \in 0..FuncCount'
<1>1. file \in Files /\ FuncCount \in Nat /\ func_id \in FuncIds
  BY FileFacts DEF DecodeInv, CallInv, FuncIds
<1>2. file' = file /\ FuncIds' = FuncIds /\ FuncCount' = FuncCount
  BY DEF FuncIds, FuncCount
<1>3. \A f : Func(f)' = Func(f)
  BY DEF Func
<1>4. ASSUME NEW f \in FuncIds
      PROVE  /\ Tiles(decoded'[f], Func(f).size)
             /\ results'[f] = "ok" => End(decoded'[f]) = Func(f).size
  <2>1. CASE f = func_id
    <3>1. decoded'[f] = read /\ results'[f] = status
      BY <2>1, <1>1 DEF Record, DecodeInv, SlotInv
    <3> QED BY <3>1, <2>1
  <2>2. CASE f # func_id
    <3>1. decoded'[f] = decoded[f] /\ results'[f] = results[f]
      BY <2>2, <1>4 DEF Record, DecodeInv, SlotInv
    <3> QED BY <3>1, <1>4 DEF DecodeInv, SlotInv
  <2> QED BY <2>1, <2>2
<1>5. DOMAIN decoded' = FuncIds /\ DOMAIN results' = FuncIds
  BY DEF Record, DecodeInv, SlotInv
<1>6. SlotInv'
  BY <1>2, <1>3, <1>4, <1>5 DEF SlotInv, Tiles, Tiled, End
<1>7. func_id' \in 0..FuncCount'
  BY <1>1, <1>2 DEF Record, FuncIds
<1> QED BY <1>1, <1>2, <1>6, <1>7

(* The loop of decode_function. *)
LEMMA DecodeLoopStep ==
  ASSUME DecodeInv, DecodeLoop
  PROVE  DecodeInv'
<1> USE DEF DecodeInv
<1>1. UNCHANGED <<file, func_id, results, decoded, code>>
  BY DEF DecodeLoop, DecodeStep, UnknownOpcode, TruncatedStream, DecodeInst, DecodeDone, bundle_vars
<1>2. outcome # "idle"
  BY DEF DecodeLoop, DecodeStep, UnknownOpcode, TruncatedStream, DecodeInst, DecodeDone, AtOpcode
<1>3. CallInv' /\ SlotInv'
  BY <1>1, <1>2 DEF CallInv, SlotInv, FuncCount, FuncIds, Func, Tiles, Tiled, End
<1>4. CASE UnknownOpcode \/ TruncatedStream \/ DecodeDone
  <2>1. insts' = insts /\ pos' = pos
    BY <1>4 DEF UnknownOpcode, TruncatedStream, DecodeDone
  <2>2. /\ outcome' \in {"ok", "UnknownOpcode", "TruncatedInstructionStream"}
        /\ outcome' = "ok" => pos >= Len(code)
    BY <1>4 DEF UnknownOpcode, TruncatedStream, DecodeDone
  <2>3. outcome' = "ok" => pos' = Len(code')
    <3>1. Len(code) \in Nat
      BY DEF LoopInv
    <3> QED BY <2>1, <2>2, <3>1, <1>1 DEF LoopInv
  <2>4. IsSeq(insts') /\ Tiled(insts') /\ End(insts') = pos'
    BY <2>1 DEF LoopInv, Tiled, End
  <2>5. code' \in Seq(Nat) /\ pos' \in Nat /\ pos' <= Len(code')
    BY <2>1, <1>1 DEF LoopInv
  <2>6. LoopInv'
    BY <2>2, <2>3, <2>4, <2>5 DEF LoopInv, IsSeq, Tiled, End
  <2> QED BY <2>6, <1>3
<1>5. CASE DecodeInst
  <2> DEFINE i == DecodedInst(pos)
             size == EntryAt(code, pos).size
  <2>1. outcome = "running" /\ pos < Len(code) /\ pos \in Nat /\ Len(code) \in Nat
    BY <1>5 DEF DecodeInst, AtOpcode, LoopInv
  <2>2. code[pos + 1] \in Nat
    BY <2>1 DEF LoopInv
  <2>3. size \in Nat
    <3>1. code[pos + 1] + 1 \in 1..Len(Table)
      BY <2>2, <1>5, TableAssumption DEF DecodeInst, Known
    <3>2. Table[code[pos + 1] + 1] \in Entry
      BY <3>1, TableAssumption
    <3> QED BY <3>2 DEF EntryAt, Entry
  <2>4. pos + size <= Len(code)
    BY <1>5 DEF DecodeInst, Fits
  <2>5. i.off = pos /\ i.size = size
    BY DEF DecodedInst, EntryAt
  <2>6. insts' = Append(insts, i) /\ pos' = pos + size /\ outcome' = outcome
    BY <1>5 DEF DecodeInst
  <2> HIDE DEF i, size
  <2>7. Tiled(Append(insts, i)) /\ End(Append(insts, i)) = pos + size
    BY <2>5, TilesAppend DEF LoopInv
  <2>8. IsSeq(Append(insts, i))
    BY AppendFacts DEF LoopInv
  <2>9. /\ IsSeq(insts') /\ Tiled(insts') /\ End(insts') = pos'
        /\ pos' \in Nat /\ pos' <= Len(code)
    <3>1. pos' \in Nat /\ pos' <= Len(code)
      BY <2>1, <2>3, <2>4, <2>6
    <3>2. IsSeq(insts')
      BY <2>6, <2>8
    <3>3. Tiled(insts')
      BY <2>6, <2>7
    <3>4. End(insts') = pos'
      BY <2>6, <2>7
    <3> QED BY <3>1, <3>2, <3>3, <3>4
  <2>10. LoopInv'
    BY <2>1, <2>6, <2>9, <1>1 DEF LoopInv, Tiled, End
  <2> QED BY <2>10, <1>3
<1> QED BY <1>4, <1>5 DEF DecodeLoop, DecodeStep

LEMMA BundleStep ==
  ASSUME DecodeInv, Unrecognized \/ BodyExceedsBuffer \/ CallDecode \/ DecodeReturns
  PROVE  DecodeInv'
<1>1. file' = file /\ file \in Files /\ FuncCount \in Nat /\ func_id \in 0..FuncCount
  BY FileFacts
     DEF DecodeInv, CallInv, Unrecognized, BodyExceedsBuffer, CallDecode, DecodeReturns
<1>2. func_id < FuncCount /\ func_id \in FuncIds
  <2>1. func_id < FuncCount
    BY <1>1 DEF DecodeInv, CallInv, Unrecognized, BodyExceedsBuffer, CallDecode, DecodeReturns, Bundled
  <2> QED BY <2>1, <1>1 DEF FuncIds
<1>3. Func(func_id).size \in Nat
  BY <1>1, <1>2, FileFacts
<1>4. Tiled(<<>>) /\ End(<<>>) = 0
  BY EmptyIsSeq DEF Tiled, End
<1>5. CASE Unrecognized \/ BodyExceedsBuffer
  <2>1. UNCHANGED decode_vars /\ outcome = "idle"
    BY <1>5 DEF Unrecognized, BodyExceedsBuffer
  <2>2. PICK status \in {"Unrecognized", "FunctionBodyExceedsBuffer"} : Record(status, <<>>)
    BY <1>5 DEF Unrecognized, BodyExceedsBuffer
  <2>3. Tiles(<<>>, Func(func_id).size)
    BY <1>3, <1>4 DEF Tiles
  <2>4. SlotInv' /\ file' \in Files /\ func_id' \in 0..FuncCount'
    BY <1>1, <1>2, <2>2, <2>3, RecordSlot
  <2>5. LoopInv'
    BY <2>1 DEF DecodeInv, LoopInv, decode_vars, Tiled, End
  <2>6. CallInv'
    BY <2>1, <2>4 DEF CallInv, decode_vars
  <2> QED BY <2>4, <2>5, <2>6 DEF DecodeInv
<1>6. CASE CallDecode
  <2>1. Body(func_id) \in Seq(Nat) /\ Len(Body(func_id)) = Func(func_id).size
    BY <1>1, <1>2, <1>6, FileFacts DEF CallDecode
  <2>2. /\ outcome' = "running" /\ code' = Body(func_id) /\ pos' = 0 /\ insts' = <<>>
        /\ UNCHANGED <<func_id, results, decoded>>
    BY <1>6 DEF CallDecode, Start, bundle_vars
  <2>3. LoopInv'
    BY <2>1, <2>2, <1>3, <1>4, EmptyIsSeq DEF LoopInv, Tiled, End
  <2>4. CallInv' /\ SlotInv'
    BY <2>1, <2>2, <1>1, <1>2
       DEF DecodeInv, CallInv, SlotInv, FuncCount, FuncIds, Func, Tiles, Tiled, End
  <2> QED BY <2>3, <2>4 DEF DecodeInv
<1>7. CASE DecodeReturns
  <2>1. /\ outcome \notin {"idle", "running"} /\ Record(outcome, insts)
        /\ outcome' = "idle" /\ UNCHANGED <<code, pos, insts>>
    BY <1>7 DEF DecodeReturns
  <2>2. Len(code) = Func(func_id).size
    BY <2>1 DEF DecodeInv, CallInv
  <2>3. Tiles(insts, Func(func_id).size)
    BY <2>2 DEF DecodeInv, LoopInv, Tiles
  <2>4. outcome = "ok" => End(insts) = Func(func_id).size
    BY <2>2 DEF DecodeInv, LoopInv
  <2>5. SlotInv' /\ file' \in Files /\ func_id' \in 0..FuncCount'
    BY <1>1, <1>2, <2>1, <2>3, <2>4, RecordSlot
  <2>6. LoopInv'
    BY <2>1 DEF DecodeInv, LoopInv, Tiled, End
  <2>7. CallInv'
    BY <2>1, <2>5 DEF CallInv
  <2> QED BY <2>5, <2>6, <2>7 DEF DecodeInv
<1> QED BY <1>5, <1>6, <1>7

LEMMA DecodeInductive == DecodeInv /\ [Next]_vars => DecodeInv'
<1> SUFFICES ASSUME DecodeInv, [Next]_vars
             PROVE  DecodeInv'
  OBVIOUS
<1>1. CASE DecodeLoop
  BY <1>1, DecodeLoopStep
<1>2. CASE Unrecognized \/ BodyExceedsBuffer \/ CallDecode \/ DecodeReturns
  BY <1>2, BundleStep
<1>3. CASE Scan \/ Done \/ UNCHANGED vars
  <2>1. UNCHANGED <<file, decode_vars, bundle_vars>>
    BY <1>3 DEF Scan, Done, vars, ScanStep, SkipFunction, EnterFunction, ScanInst, LeaveFunction
  <2> QED BY <2>1, DecodeStutter
<1> QED BY <1>1, <1>2, <1>3 DEF Next

LEMMA DecodeInvTiles == DecodeInv => DecodedTiles
BY DEF DecodeInv, LoopInv, SlotInv, DecodedTiles, Tiles

(* decode_function tiles every function it is given, and every slot of     *)
(* decompile_bundle holds the instructions of its own function.            *)
THEOREM DecodingTiles == Spec => []DecodedTiles
BY DecodeInit, DecodeInductive, DecodeInvTiles, PTL DEF Spec

-----------------------------------------------------------------------------
(* The invariant of the scanner: the functions in a list come before the   *)
(* one being scanned, which is there at most once, at the end.             *)

Ascending(s) == \A m, n \in DOMAIN s : m < n => s[m] < s[n]
UpTo(s, f) == \A n \in DOMAIN s : s[n] <= f
Below(s, f) == \A n \in DOMAIN s : s[n] < f

ScanInv ==
  /\ file \in Files /\ fi \in Nat /\ scan_pos \in Nat \cup {None}
  /\ scan_pos # None => fi \in FuncIds /\ InBounds(fi)
  /\ string_refs \in [0..(file.strings - 1) -> Seq(Nat)]
  /\ \A s \in 0..(file.strings - 1) :
       /\ Ascending(string_refs[s]) /\ UpTo(string_refs[s], fi)
       /\ scan_pos = None => Below(string_refs[s], fi)

(* Pushing the function being scanned keeps a list ascending. *)
LEMMA PushAscends ==
  ASSUME NEW s \in Seq(Nat), NEW f \in Nat, Ascending(s), UpTo(s, f)
  PROVE  Push(s, f) \in Seq(Nat) /\ Ascending(Push(s, f)) /\ UpTo(Push(s, f), f)
<1>1. CASE s # <<>> /\ s[Len(s)] = f
  <2>1. Push(s, f) = s
    BY <1>1 DEF Push
  <2> QED BY <2>1
<1>2. CASE ~(s # <<>> /\ s[Len(s)] = f)
  <2> DEFINE t == Append(s, f)
  <2>1. Push(s, f) = t
    BY <1>2 DEF Push
  <2>2. /\ t \in Seq(Nat) /\ Len(s) \in Nat /\ DOMAIN s = 1..Len(s)
        /\ DOMAIN t = 1..(Len(s) + 1) /\ t[Len(s) + 1] = f
    OBVIOUS
  <2>3. \A n \in 1..Len(s) : t[n] = s[n] /\ s[n] \in Nat
    OBVIOUS
  <2> HIDE DEF t
  <2>4. \A n \in 1..Len(s) : s[n] < f
    <3> SUFFICES ASSUME NEW n \in 1..Len(s) PROVE s[n] < f
      OBVIOUS
    <3>1. s # <<>> /\ Len(s) \in DOMAIN s /\ s[Len(s)] \in Nat /\ s[Len(s)] # f
      BY <1>2, <2>2
    <3>2. s[Len(s)] < f
      BY <3>1 DEF UpTo
    <3>3. CASE n = Len(s)
      BY <3>2, <3>3
    <3>4. CASE n # Len(s)
      <4>1. n < Len(s) /\ n \in DOMAIN s
        <5>1. n \in DOMAIN s
          BY <2>2
        <5>2. \A x \in Nat : n \in 1..x /\ n # x => n < x
          OBVIOUS
        <5> QED BY <5>1, <5>2, <3>4, <2>2
      <4>2. s[n] < s[Len(s)]
        BY <3>1, <4>1 DEF Ascending
      <4> QED BY <3>1, <3>2, <4>2, <2>3
    <3> QED BY <3>3, <3>4
  <2>5. UpTo(t, f)
    BY <2>2, <2>3, <2>4 DEF UpTo
  <2>6. Ascending(t)
    <3> SUFFICES ASSUME NEW m \in DOMAIN t, NEW n \in DOMAIN t, m < n
                 PROVE  t[m] < t[n]
      BY DEF Ascending
    <3>1. m \in 1..Len(s)
      BY <2>2
    <3>2. CASE n = Len(s) + 1
      BY <3>1, <3>2, <2>2, <2>3, <2>4
    <3>3. CASE n # Len(s) + 1
      <4>1. n \in 1..Len(s)
        BY <3>3, <2>2
      <4> QED BY <3>1, <4>1, <2>2, <2>3 DEF Ascending
    <3> QED BY <3>2, <3>3
  <2> QED BY <2>1, <2>2, <2>5, <2>6
<1> QED BY <1>1, <1>2

LEMMA ScanInit == Init => ScanInv
<1> SUFFICES ASSUME Init PROVE ScanInv
  OBVIOUS
<1>1. file \in Files /\ fi = 0 /\ scan_pos = None
      /\ string_refs = [s \in 0..(file.strings - 1) |-> <<>>]
  BY DEF Init, ScanStart
<1>2. Ascending(<<>>) /\ UpTo(<<>>, 0) /\ Below(<<>>, 0)
  BY EmptyIsSeq DEF Ascending, UpTo, Below
<1>3. <<>> \in Seq(Nat)
  OBVIOUS
<1>4. string_refs \in [0..(file.strings - 1) -> Seq(Nat)]
  BY <1>1, <1>3
<1> QED BY <1>1, <1>2, <1>4 DEF ScanInv

LEMMA ScanStutter ==
  ASSUME ScanInv, UNCHANGED <<file, fi, scan_pos, string_refs>>
  PROVE  ScanInv'
BY DEF ScanInv, Ascending, UpTo, Below, FuncIds, FuncCount, InBounds, Func

(* A list below fi, or up to it, is below fi + 1. *)
LEMMA NextFunction ==
  ASSUME ScanInv, UNCHANGED <<file, string_refs>>, fi' = fi + 1, scan_pos' = None
  PROVE  ScanInv'
<1>1. ASSUME NEW s \in 0..(file.strings - 1)
      PROVE  UpTo(string_refs[s], fi + 1) /\ Below(string_refs[s], fi + 1)
  <2>1. string_refs[s] \in Seq(Nat) /\ UpTo(string_refs[s], fi) /\ fi \in Nat
    BY DEF ScanInv
  <2>2. \A n \in DOMAIN string_refs[s] : string_refs[s][n] \in Nat
    BY <2>1
  <2> QED BY <2>1, <2>2 DEF UpTo, Below
<1> QED BY <1>1 DEF ScanInv, Ascending, UpTo, Below

LEMMA ScanInstStep ==
  ASSUME ScanInv, ScanInst, file' = file
  PROVE  ScanInv'
<1> DEFINE Id == Reference(EntryAt(Body(fi), scan_pos).str, file.strings)
           size == EntryAt(Body(fi), scan_pos).size
           S == 0..(file.strings - 1)
<1>1. /\ fi' = fi /\ scan_pos' = scan_pos + size /\ scan_pos # None
      /\ string_refs' = IF file.mode.xrefs /\ Id # None
                          THEN [string_refs EXCEPT ![Id] = Push(string_refs[Id], fi)]
                          ELSE string_refs
  BY DEF ScanInst
<1>2. Id \in S \cup {None}
  <2>1. \A x : (IF x \in S THEN x ELSE None) \in S \cup {None}
    OBVIOUS
  <2> QED BY <2>1 DEF Reference
<1>3. size \in Nat
  <2>1. Body(fi) \in Seq(Nat)
    BY FileFacts DEF ScanInv, ScanInst
  <2>2. scan_pos \in Nat /\ scan_pos < Len(Body(fi)) /\ Body(fi)[scan_pos + 1] < Len(Table)
    BY DEF ScanInv, ScanInst, Readable, Known
  <2>3. Body(fi)[scan_pos + 1] \in Nat
    BY <2>1, <2>2
  <2>4. Table[Body(fi)[scan_pos + 1] + 1] \in Entry
    <3>1. Body(fi)[scan_pos + 1] + 1 \in 1..Len(Table)
      BY <2>2, <2>3, TableAssumption
    <3> QED BY <3>1, TableAssumption
  <2> QED BY <2>4 DEF EntryAt, Entry
<1>4. scan_pos' \in Nat /\ scan_pos' # None
  BY <1>1, <1>3 DEF ScanInv, None
<1>5. fi \in FuncIds /\ InBounds(fi) /\ fi \in Nat /\ file \in Files
  BY <1>1 DEF ScanInv
<1> HIDE DEF Id, size
<1>6. ASSUME NEW s \in S
      PROVE  /\ string_refs'[s] \in Seq(Nat)
             /\ Ascending(string_refs'[s]) /\ UpTo(string_refs'[s], fi)
  <2>1. /\ string_refs[s] \in Seq(Nat)
        /\ Ascending(string_refs[s]) /\ UpTo(string_refs[s], fi)
    BY DEF ScanInv
  <2>2. string_refs'[s] = string_refs[s] \/ string_refs'[s] = Push(string_refs[s], fi)
    BY <1>1, <1>2 DEF ScanInv
  <2> QED BY <2>1, <2>2, <1>5, PushAscends
<1>7. string_refs' \in [S -> Seq(Nat)]
  <2>1. string_refs' = [s \in S |-> string_refs'[s]]
    BY <1>1 DEF ScanInv
  <2> QED BY <2>1, <1>6
<1>8. fi' \in FuncIds' /\ InBounds(fi)'
  BY <1>1, <1>5 DEF FuncIds, FuncCount, InBounds, Func
<1> QED BY <1>1, <1>4, <1>5, <1>6, <1>7, <1>8 DEF ScanInv, InBounds, Func

LEMMA ScanInductive == ScanInv /\ [Next]_vars => ScanInv'
<1> SUFFICES ASSUME ScanInv, [Next]_vars
             PROVE  ScanInv'
  OBVIOUS
<1>1. CASE ScanInst /\ file' = file
  BY <1>1, ScanInstStep
<1>2. CASE file' = file /\ (SkipFunction \/ LeaveFunction)
  <2>1. UNCHANGED <<file, string_refs>> /\ fi' = fi + 1 /\ scan_pos' = None
    BY <1>2 DEF SkipFunction, LeaveFunction, refs
  <2> QED BY <2>1, NextFunction
<1>3. CASE file' = file /\ EnterFunction
  <2>1. fi \in FuncIds /\ InBounds(fi)
    BY <1>3, FileFacts DEF EnterFunction, ScanInv, Scannable, FuncIds
  <2>2. UNCHANGED <<file, fi, string_refs>> /\ scan_pos = None /\ scan_pos' = 0
    BY <1>3 DEF EnterFunction, refs
  <2>3. \A s \in 0..(file.strings - 1) :
          Ascending(string_refs[s]) /\ UpTo(string_refs[s], fi)
    BY DEF ScanInv
  <2> QED BY <2>1, <2>2, <2>3
          DEF ScanInv, Ascending, UpTo, Below, FuncIds, FuncCount, InBounds, Func, None
<1>4. CASE UNCHANGED <<file, fi, scan_pos, string_refs>>
  BY <1>4, ScanStutter
<1>5. CASE Scan
  <2>1. file' = file /\ ScanStep
    BY <1>5 DEF Scan
  <2> QED BY <2>1, <1>1, <1>2, <1>3 DEF ScanStep
<1>6. CASE ~Scan
  <2>1. UNCHANGED <<file, fi, scan_pos, string_refs>>
    BY <1>6 DEF Next, Unrecognized, BodyExceedsBuffer, CallDecode, DecodeLoop, DecodeReturns,
                Done, vars, scan_vars, refs
  <2> QED BY <2>1, <1>4
<1> QED BY <1>5, <1>6

LEMMA ScanInvAscending == ScanInv => RefsAscending
BY DEF ScanInv, Ascending, RefsAscending

(* The list of functions of every string is strictly ascending, for every  *)
(* file: the comparison with the last entry removes all duplicates.        *)
THEOREM RefsAscend == Spec => []RefsAscending
BY ScanInit, ScanInductive, ScanInvAscending, PTL DEF Spec

-----------------------------------------------------------------------------
(* Types.  Every list names functions of the file.                         *)

ScanTyped ==
  /\ fi \in 0..FuncCount /\ (scan_pos # None => fi \in FuncIds)
  /\ string_refs \in [0..(file.strings - 1) -> Seq(FuncIds)]
  /\ call_graph \in [FuncIds -> Seq(FuncIds)]
  /\ closure_refs \in [FuncIds -> Seq(FuncIds)]

LEMMA PushTyped ==
  ASSUME NEW S, NEW s \in Seq(S), NEW x \in S
  PROVE  Push(s, x) \in Seq(S)
BY DEF Push

LEMMA EnteredTyped ==
  ASSUME NEW graph \in [FuncIds -> Seq(FuncIds)], NEW slot, fi \in FuncIds
  PROVE  Entered(graph, CallTarget(slot)) \in [FuncIds -> Seq(FuncIds)]
<1>1. PICK target : target = CallTarget(slot)
  OBVIOUS
<1>2. target \in FuncIds \cup {None}
  BY <1>1 DEF CallTarget, Reference, FuncIds
<1>3. CASE target = None
  BY <1>1, <1>3 DEF Entered
<1>4. CASE target \in FuncIds
  <2>1. Push(graph[fi], target) \in Seq(FuncIds)
    BY <1>4, PushTyped
  <2>2. [graph EXCEPT ![fi] = Push(graph[fi], target)] \in [FuncIds -> Seq(FuncIds)]
    BY <2>1
  <2> QED BY <1>1, <2>2 DEF Entered
<1> QED BY <1>2, <1>3, <1>4

LEMMA ScanTypedInit == Init => ScanTyped
<1> SUFFICES ASSUME Init PROVE ScanTyped
  OBVIOUS
<1>1. /\ fi = 0 /\ scan_pos = None
      /\ string_refs = [s \in 0..(file.strings - 1) |-> <<>>]
      /\ call_graph = [f \in FuncIds |-> <<>>]
      /\ closure_refs = [f \in FuncIds |-> <<>>]
      /\ FuncCount \in Nat
  BY FileFacts DEF Init, ScanStart
<1>2. <<>> \in Seq(FuncIds)
  OBVIOUS
<1> QED BY <1>1, <1>2 DEF ScanTyped

LEMMA ScanTypedStep == DecodeInv /\ ScanTyped /\ [Next]_vars => ScanTyped'
<1> SUFFICES ASSUME DecodeInv, ScanTyped, [Next]_vars PROVE ScanTyped'
  OBVIOUS
<1>1. FuncCount \in Nat
  BY FileFacts DEF DecodeInv, CallInv
<1>2. ASSUME UNCHANGED file PROVE FuncCount' = FuncCount /\ FuncIds' = FuncIds
  BY <1>2 DEF FuncCount, FuncIds
<1>3. CASE Scan /\ ScanInst
  <2>1. /\ file' = file /\ scan_pos # None /\ fi' = fi /\ fi \in FuncIds
    BY <1>3 DEF Scan, ScanInst, ScanTyped
  <2>2. /\ call_graph' \in [FuncIds -> Seq(FuncIds)]
        /\ closure_refs' \in [FuncIds -> Seq(FuncIds)]
    BY <1>3, <2>1, EnteredTyped DEF ScanInst, ScanTyped
  <2>3. string_refs' \in [0..(file.strings - 1) -> Seq(FuncIds)]
    <3> DEFINE S == 0..(file.strings - 1)
    <3>1. PICK s : /\ s \in S \cup {None}
                   /\ string_refs' = IF file.mode.xrefs /\ s # None
                                       THEN [string_refs EXCEPT ![s] = Push(string_refs[s], fi)]
                                       ELSE string_refs
      <4>1. \A slot : Reference(slot, file.strings) \in S \cup {None}
        BY DEF Reference
      <4> QED BY <1>3, <4>1 DEF ScanInst
    <3>2. \A t \in S : Push(string_refs[t], fi) \in Seq(FuncIds)
      BY <2>1, PushTyped DEF ScanTyped
    <3> QED BY <3>1, <3>2 DEF ScanTyped
  <2> QED BY <1>2, <2>1, <2>2, <2>3 DEF ScanTyped
<1>4. CASE Scan /\ (SkipFunction \/ EnterFunction \/ LeaveFunction)
  <2>1. /\ file' = file /\ UNCHANGED <<string_refs, call_graph, closure_refs>>
        /\ fi < FuncCount /\ fi \in Nat
        /\ (fi' = fi /\ scan_pos' = 0) \/ (fi' = fi + 1 /\ scan_pos' = None)
    BY <1>1, <1>4 DEF Scan, SkipFunction, EnterFunction, LeaveFunction, refs, ScanTyped, FuncIds
  <2>2. fi' \in 0..FuncCount /\ (scan_pos' # None => fi' \in FuncIds)
    BY <1>1, <2>1 DEF FuncIds
  <2> QED BY <1>2, <2>1, <2>2 DEF ScanTyped
<1>5. CASE UNCHANGED <<file, scan_vars>>
  BY <1>2, <1>5 DEF scan_vars, refs, ScanTyped
<1> QED BY <1>3, <1>4, <1>5 DEF Next, Unrecognized, BodyExceedsBuffer, CallDecode, DecodeLoop,
           DecodeReturns, Done, vars, Scan, ScanStep

(* The graphs name functions of the file only, whatever ids the bytes      *)
(* hold, for every table and every file.                                   *)
THEOREM DisasmTypes == Spec => []TypeOK
<1>1. DecodeInv /\ ScanInv /\ ScanTyped => TypeOK
  BY DEF DecodeInv, LoopInv, CallInv, ScanInv, ScanTyped, TypeOK
<1> QED BY <1>1, DecodeInit, DecodeInductive, ScanInit, ScanInductive, ScanTypedInit,
           ScanTypedStep, PTL DEF Spec

-----------------------------------------------------------------------------
(* What the decoder reads from a body, told by the body alone: the         *)
(* instructions it holds from byte 0 on, up to the first byte from which   *)
(* none can be read.                                                       *)

InstAt(c, p) ==
  LET e == EntryAt(c, p)
  IN [off |-> p, size |-> e.size, opcode |-> c[p + 1],
      operands |-> [k \in DOMAIN e.types |->
                      OperandValue(c, p + OperandAt(e.types, k), e.types[k])]]

Walked(s, c) ==
  /\ IsSeq(s) /\ Tiled(s)
  /\ \A n \in DOMAIN s : Readable(c, s[n].off) /\ s[n] = InstAt(c, s[n].off)

ReadUp(s, c) == Walked(s, c) /\ ~Readable(c, End(s))

Unread(f) == Func(f).unrec \/ ~InBounds(f)

(* The operands of an instruction lie in it (the tables of every version   *)
(* do: OpcodePath!TablesAgree).                                            *)
OperandsInside == \A n \in DOMAIN Table : OperandsFit(Table[n])

WalkInv ==
  /\ outcome # "idle" => /\ ~Unread(func_id) /\ code = Body(func_id)
                         /\ Walked(insts, code)
  /\ outcome \notin {"idle", "running"} => ~Readable(code, pos)
  /\ \A f \in FuncIds :
       f < func_id => IF Unread(f) THEN decoded[f] = <<>> ELSE ReadUp(decoded[f], Body(f))

LEMMA WalkInit == Init => WalkInv
<1> SUFFICES ASSUME Init PROVE WalkInv
  OBVIOUS
<1>1. outcome = "idle" /\ func_id = 0 /\ FuncCount \in Nat
  BY FileFacts DEF Init
<1>2. \A f \in FuncIds : ~(f < 0)
  BY <1>1 DEF FuncIds
<1> QED BY <1>1, <1>2 DEF WalkInv

(* What depends on the file only.                                          *)
LEMMA BodiesKept ==
  ASSUME UNCHANGED file
  PROVE  /\ FuncIds' = FuncIds /\ FuncCount' = FuncCount
         /\ \A f : Body(f)' = Body(f)
         /\ \A f : Unread(f)' <=> Unread(f)
         /\ \A f : Func(f)' = Func(f)
BY DEF FuncIds, FuncCount, Body, Unread, Func, InBounds

LEMMA EntryOf ==
  ASSUME NEW c \in Seq(Nat), NEW p \in Nat, p < Len(c), Known(c[p + 1])
  PROVE  EntryAt(c, p) \in Entry /\ (OperandsInside => OperandsFit(EntryAt(c, p)))
<1>1. c[p + 1] \in Nat
  BY DEF Known
<1>2. PICK n : n = c[p + 1] + 1
  OBVIOUS
<1>3. n \in 1..Len(Table) /\ DOMAIN Table = 1..Len(Table)
  BY <1>1, <1>2, TableAssumption DEF Known
<1>4. Table[n] \in Entry
  BY <1>3, TableAssumption
<1> QED BY <1>2, <1>3, <1>4 DEF EntryAt, OperandsInside

LEMMA WalkDecodeLoop ==
  ASSUME OperandsInside, DecodeInv, WalkInv, DecodeLoop
  PROVE  WalkInv'
<1>1. /\ UNCHANGED <<file, func_id, results, decoded, code>> /\ outcome # "idle"
  BY DEF DecodeLoop, DecodeStep, UnknownOpcode, TruncatedStream, DecodeInst, DecodeDone, AtOpcode,
         bundle_vars
<1>2. PICK f, c : f = func_id /\ c = code
  OBVIOUS
<1>3. /\ c \in Seq(Nat) /\ pos \in Nat /\ IsSeq(insts) /\ Tiled(insts) /\ End(insts) = pos
      /\ Len(c) \in Nat
  BY <1>2 DEF DecodeInv, LoopInv
<1>4. /\ ~Unread(f)' /\ code' = Body(f)' /\ code' = c
      /\ \A g \in FuncIds' :
           g < func_id' => IF Unread(g)' THEN decoded'[g] = <<>> ELSE ReadUp(decoded'[g], Body(g)')
  BY <1>1, <1>2, BodiesKept DEF WalkInv
<1>5. CASE UnknownOpcode \/ TruncatedStream \/ DecodeDone
  <2>1. insts' = insts /\ pos' = pos
    BY <1>5 DEF UnknownOpcode, TruncatedStream, DecodeDone
  <2>2. ~Readable(c, pos)
    <3>1. CASE UnknownOpcode
      BY <1>2, <3>1 DEF UnknownOpcode, Readable
    <3>2. CASE TruncatedStream
      <4>1. pos < Len(c) /\ Known(c[pos + 1]) /\ ~(Fits(c, pos) /\ OperandsFit(EntryAt(c, pos)))
        BY <1>2, <3>2 DEF TruncatedStream, AtOpcode
      <4>2. OperandsFit(EntryAt(c, pos))
        BY <1>3, <4>1, EntryOf
      <4> QED BY <4>1, <4>2 DEF Readable
    <3>3. CASE DecodeDone
      BY <1>2, <1>3, <3>3 DEF DecodeDone, Readable
    <3> QED BY <1>5, <3>1, <3>2, <3>3
  <2>3. Walked(insts', c)
    BY <1>1, <1>2, <2>1 DEF WalkInv
  <2>4. ~Readable(code, pos)' /\ Walked(insts, code)'
    BY <1>4, <2>1, <2>2, <2>3 DEF Walked, Readable, Known, Fits, EntryAt, InstAt, Tiled, End
  <2> QED BY <1>1, <1>2, <1>4, <2>4, Zenon DEF WalkInv, Unread, Func, InBounds, Body, ReadUp
<1>6. CASE DecodeInst
  <2>1. PICK i : i = InstAt(c, pos)
    OBVIOUS
  <2>2. /\ insts' = Append(insts, i) /\ outcome = "running" /\ outcome' = outcome
        /\ pos < Len(c) /\ Known(c[pos + 1]) /\ Fits(c, pos)
    BY <1>2, <1>6, <2>1 DEF DecodeInst, AtOpcode, DecodedInst, InstAt, EntryAt
  <2>3. i.off = pos
    BY <2>1 DEF InstAt
  <2>4. Tiled(Append(insts, i))
    BY <1>3, <2>3, TilesAppend
  <2>5. /\ IsSeq(Append(insts, i)) /\ Len(insts) \in Nat /\ DOMAIN insts = 1..Len(insts)
        /\ DOMAIN Append(insts, i) = 1..(Len(insts) + 1)
        /\ \A n \in 1..Len(insts) : Append(insts, i)[n] = insts[n]
        /\ Append(insts, i)[Len(insts) + 1] = i
    BY <1>3, AppendFacts
  <2>6. PICK t : t = Append(insts, i)
    OBVIOUS
  <2>7. \A n \in DOMAIN t : n \in DOMAIN insts \/ n = Len(insts) + 1
    BY <2>5, <2>6
  <2>8. ASSUME NEW n \in DOMAIN t
        PROVE  Readable(c, t[n].off) /\ t[n] = InstAt(c, t[n].off)
    <3>1. CASE n \in DOMAIN insts
      BY <1>1, <1>2, <2>5, <2>6, <3>1 DEF WalkInv, Walked
    <3>2. CASE n = Len(insts) + 1
      BY <2>1, <2>2, <2>3, <2>5, <2>6, <3>2 DEF Readable
    <3> QED BY <2>7, <3>1, <3>2
  <2>9. Walked(t, c)
    BY <2>4, <2>5, <2>6, <2>8 DEF Walked
  <2>10. Walked(insts, code)'
    <3>1. insts' = t /\ code' = c
      BY <1>4, <2>2, <2>6
    <3> QED BY <2>9, <3>1 DEF Walked, IsSeq, Tiled, InstAt, EntryAt
  <2> QED BY <1>1, <1>2, <1>4, <2>2, <2>10, Zenon DEF WalkInv, Unread, Func, InBounds, Body, ReadUp
<1> QED BY <1>5, <1>6 DEF DecodeLoop, DecodeStep

LEMMA WalkRecord ==
  ASSUME DecodeInv, WalkInv, UNCHANGED file, func_id < FuncCount,
         NEW status, NEW read, Record(status, read), outcome' = "idle",
         IF Unread(func_id) THEN read = <<>> ELSE ReadUp(read, Body(func_id))
  PROVE  WalkInv'
<1>1. FuncCount \in Nat /\ func_id \in FuncIds /\ DOMAIN decoded = FuncIds
  BY FileFacts DEF DecodeInv, CallInv, SlotInv, FuncIds
<1>2. \A g \in FuncIds : g < func_id + 1 => g = func_id \/ g < func_id
  BY <1>1 DEF FuncIds
<1>3. /\ func_id' = func_id + 1 /\ decoded'[func_id] = read
      /\ \A g \in FuncIds : g # func_id => decoded'[g] = decoded[g]
  BY <1>1 DEF Record
<1>4. ASSUME NEW g \in FuncIds, g < func_id + 1
      PROVE  IF Unread(g) THEN decoded'[g] = <<>> ELSE ReadUp(decoded'[g], Body(g))
  <2>1. CASE g = func_id
    BY <1>3, <2>1
  <2>2. CASE g # func_id
    BY <1>2, <1>3, <1>4, <2>2 DEF WalkInv
  <2> QED BY <2>1, <2>2
<1>5. /\ FuncIds' = FuncIds /\ (\A g : Body(g)' = Body(g)) /\ (\A g : Unread(g)' <=> Unread(g))
  BY BodiesKept
<1>6. \A g \in FuncIds' :
        g < func_id' => IF Unread(g)' THEN decoded'[g] = <<>> ELSE ReadUp(decoded'[g], Body(g)')
  BY <1>3, <1>4, <1>5
<1> QED BY <1>6 DEF WalkInv, Unread, Func, InBounds, Body, ReadUp

LEMMA WalkBundle ==
  ASSUME DecodeInv, WalkInv, Unrecognized \/ BodyExceedsBuffer \/ CallDecode \/ DecodeReturns
  PROVE  WalkInv'
<1>1. file' = file /\ FuncCount \in Nat /\ func_id \in 0..FuncCount
  BY FileFacts
     DEF DecodeInv, CallInv, Unrecognized, BodyExceedsBuffer, CallDecode, DecodeReturns
<1>2. func_id < FuncCount
  BY <1>1 DEF DecodeInv, CallInv, Unrecognized, BodyExceedsBuffer, CallDecode, DecodeReturns, Bundled
<1>3. CASE Unrecognized \/ BodyExceedsBuffer
  <2>1. Unread(func_id) /\ outcome' = "idle"
    BY <1>3 DEF Unrecognized, BodyExceedsBuffer, Unread, decode_vars
  <2>2. PICK status \in {"Unrecognized", "FunctionBodyExceedsBuffer"} : Record(status, <<>>)
    BY <1>3 DEF Unrecognized, BodyExceedsBuffer
  <2> QED BY <1>1, <1>2, <2>1, <2>2, WalkRecord
<1>4. CASE CallDecode
  <2>1. PICK f, c : f = func_id /\ c = Body(func_id)
    OBVIOUS
  <2>2. /\ outcome' = "running" /\ insts' = <<>> /\ ~Unread(f) /\ code' = c
        /\ UNCHANGED <<func_id, results, decoded>>
    BY <1>4, <2>1 DEF CallDecode, Start, bundle_vars, Unread
  <2>3. Walked(<<>>, c)
    BY EmptyIsSeq DEF Walked, Tiled
  <2>4. /\ ~Unread(f)' /\ code' = Body(f)'
        /\ \A g \in FuncIds' :
             g < func_id' => IF Unread(g)' THEN decoded'[g] = <<>> ELSE ReadUp(decoded'[g], Body(g)')
    BY <1>1, <2>1, <2>2, BodiesKept DEF WalkInv
  <2>5. Walked(insts, code)'
    BY <2>2, <2>3 DEF Walked, IsSeq, Tiled, InstAt, EntryAt
  <2> QED BY <2>1, <2>2, <2>4, <2>5 DEF WalkInv, Unread, Func, InBounds, Body, ReadUp
<1>5. CASE DecodeReturns
  <2>1. outcome \notin {"idle", "running"} /\ Record(outcome, insts) /\ outcome' = "idle"
    BY <1>5 DEF DecodeReturns
  <2>2. ~Unread(func_id) /\ ReadUp(insts, Body(func_id))
    BY <2>1 DEF WalkInv, ReadUp, DecodeInv, LoopInv
  <2> QED BY <1>1, <1>2, <2>1, <2>2, WalkRecord
<1> QED BY <1>3, <1>4, <1>5

LEMMA WalkStep ==
  ASSUME OperandsInside
  PROVE  DecodeInv /\ WalkInv /\ [Next]_vars => WalkInv'
<1> SUFFICES ASSUME DecodeInv, WalkInv, [Next]_vars PROVE WalkInv'
  OBVIOUS
<1>1. CASE DecodeLoop
  BY <1>1, WalkDecodeLoop
<1>2. CASE Unrecognized \/ BodyExceedsBuffer \/ CallDecode \/ DecodeReturns
  BY <1>2, WalkBundle
<1>3. CASE Scan \/ Done \/ UNCHANGED vars
  <2>1. UNCHANGED <<file, decode_vars, bundle_vars>>
    BY <1>3 DEF Scan, Done, vars, ScanStep, SkipFunction, EnterFunction, ScanInst, LeaveFunction
  <2>2. PICK f, c, s : f = func_id /\ c = code /\ s = insts
    OBVIOUS
  <2>3. /\ FuncIds' = FuncIds /\ (\A g : Body(g)' = Body(g)) /\ (\A g : Unread(g)' <=> Unread(g))
    BY <2>1, BodiesKept
  <2>4. \A g \in FuncIds' :
          g < func_id' => IF Unread(g)' THEN decoded'[g] = <<>> ELSE ReadUp(decoded'[g], Body(g)')
    BY <2>1, <2>3 DEF WalkInv, bundle_vars
  <2>5. outcome # "idle" => ~Unread(f) /\ c = Body(f) /\ Walked(s, c)
    BY <2>2 DEF WalkInv
  <2>6. outcome \notin {"idle", "running"} => ~Readable(c, pos)
    BY <2>2 DEF WalkInv
  <2>7. outcome' # "idle" => ~Unread(func_id)' /\ code' = Body(func_id)' /\ Walked(insts, code)'
    BY <2>1, <2>2, <2>3, <2>5
       DEF decode_vars, bundle_vars, Walked, IsSeq, Tiled, InstAt, EntryAt, Unread, Func, InBounds,
           Body
  <2>8. outcome' \notin {"idle", "running"} => ~Readable(code, pos)'
    BY <2>1, <2>2, <2>6 DEF decode_vars, Readable, Known, Fits, EntryAt
  <2> QED BY <2>4, <2>7, <2>8 DEF WalkInv, Unread, Func, InBounds, Body, ReadUp
<1> QED BY <1>1, <1>2, <1>3 DEF Next

-----------------------------------------------------------------------------
(* The scanner walks the same instructions.  Where it stands in a function *)
(* is an instruction the decoder read from there, or the end of them; the  *)
(* lists hold what was met in the functions before, and in this one so far.*)

(* The slot the scanner reads is nothing, or an operand of the decoder and *)
(* the only one in args.                                                   *)
Aligned(e, slot, args) ==
  IF slot.width = 0 THEN args = {}
  ELSE \E k \in DOMAIN e.types :
         /\ args = {k} /\ e.types[k] \notin Signed
         /\ slot.at = OperandAt(e.types, k) /\ slot.width = ByteSize[e.types[k]]
         /\ slot.at + slot.width <= e.size

(* The scanner's string slot is the decoder's string operand               *)
(* (OpcodePath!ScannedOperandsAgree checks it of every version's tables).  *)
StringsAligned ==
  \A n \in DOMAIN Table : Aligned(Table[n], Table[n].str, StringArgs(Table[n]))

Mentions(i, s) == \E k \in Table[i.opcode + 1].strArgs : i.operands[k] = s

Reached(t, m) == IF m = 0 THEN 0 ELSE t[m].off + t[m].size

Met(s, m) ==
  {f \in FuncIds : \E n \in DOMAIN decoded[f] :
     Mentions(decoded[f][n], s) /\ (f < fi \/ (f = fi /\ n \in 1..m))}

MetSoFar(m) ==
  \A s \in 0..(file.strings - 1) :
    Values(string_refs[s]) = IF file.mode.xrefs THEN Met(s, m) ELSE {}

StandsAt(m) ==
  IF scan_pos = None THEN m = 0
  ELSE fi \in FuncIds /\ Scannable(fi) /\ m <= Len(decoded[fi]) /\ scan_pos = Reached(decoded[fi], m)

RefsInv ==
  /\ ~Bundled => /\ fi = 0 /\ scan_pos = None
                 /\ \A s \in 0..(file.strings - 1) : Values(string_refs[s]) = {}
  /\ Bundled => \E m \in Nat : StandsAt(m) /\ MetSoFar(m)

LEMMA NoValues == Values(<<>>) = {}
BY EmptyIsSeq DEF Values

LEMMA PushValues ==
  ASSUME NEW s \in Seq(Nat), NEW x
  PROVE  Values(Push(s, x)) = Values(s) \cup {x}
<1>1. CASE s # <<>> /\ s[Len(s)] = x
  <2>1. Len(s) \in DOMAIN s
    BY <1>1
  <2>2. Push(s, x) = s
    BY <1>1 DEF Push
  <2> QED BY <1>1, <2>1, <2>2 DEF Values
<1>2. CASE ~(s # <<>> /\ s[Len(s)] = x)
  <2>1. Push(s, x) = Append(s, x)
    BY <1>2 DEF Push
  <2>2. IsSeq(s)
    BY DEF IsSeq
  <2>3. PICK t : t = Append(s, x)
    OBVIOUS
  <2>4. /\ Len(s) \in Nat /\ DOMAIN s = 1..Len(s) /\ DOMAIN t = 1..(Len(s) + 1)
        /\ \A n \in 1..Len(s) : t[n] = s[n]
        /\ t[Len(s) + 1] = x
    BY <2>2, <2>3, AppendFacts
  <2>5. \A n : n \in DOMAIN t <=> n \in DOMAIN s \/ n = Len(s) + 1
    <3>1. PICK l \in Nat : l = Len(s)
      BY <2>4, Zenon
    <3>2. \A n : n \in 1..(l + 1) <=> n \in 1..l \/ n = l + 1
      OBVIOUS
    <3> QED BY <2>4, <3>1, <3>2
  <2>6. \A n \in DOMAIN s : t[n] = s[n]
    BY <2>4
  <2>7. Values(t) = Values(s) \cup {x}
    BY <2>4, <2>5, <2>6 DEF Values
  <2> QED BY <2>1, <2>3, <2>7
<1> QED BY <1>1, <1>2

(* Among the ids of I the scanner reads at a slot what the decoder has.    *)
ReadsOneOf(c, p, slot, args, I) ==
  \A x \in I : (\E k \in args : InstAt(c, p).operands[k] = x) <=>
                 ReadId(c, p, slot) \in I /\ x = ReadId(c, p, slot)

(* What the scanner reads at a slot is the operand the decoder has there.  *)
LEMMA OperandRead ==
  ASSUME NEW c \in Seq(Nat), NEW p \in Nat, Readable(c, p), NEW I \in SUBSET Nat,
         NEW slot \in Slot, NEW args, Aligned(EntryAt(c, p), slot, args)
  PROVE  ReadsOneOf(c, p, slot, args, I)
<1> SUFFICES ASSUME NEW x \in I
             PROVE  (\E k \in args : InstAt(c, p).operands[k] = x) <=>
                      ReadId(c, p, slot) \in I /\ x = ReadId(c, p, slot)
  BY DEF ReadsOneOf
<1>1. PICK e : e = EntryAt(c, p)
  OBVIOUS
<1>2. p < Len(c) /\ Known(c[p + 1]) /\ Len(c) \in Nat /\ p + e.size <= Len(c)
  BY <1>1 DEF Readable, Fits
<1>3. e \in Entry
  BY <1>1, <1>2, EntryOf
<1>4. slot.at \in Nat /\ slot.width \in {0, 1, 2, 4} /\ e.size \in Nat
  BY <1>3 DEF Entry, Slot
<1>5. PICK i : i = InstAt(c, p)
  OBVIOUS
<1>6. i.operands = [k \in DOMAIN e.types |->
                      OperandValue(c, p + OperandAt(e.types, k), e.types[k])]
  BY <1>1, <1>5 DEF InstAt
<1>7. CASE slot.width = 0
  <2>1. args = {}
    BY <1>7 DEF Aligned
  <2>2. ReadId(c, p, slot) = -1
    BY <1>7 DEF ReadId, None
  <2> QED BY <2>1, <2>2
<1>8. CASE slot.width # 0
  <2>1. PICK k \in DOMAIN e.types :
          /\ args = {k} /\ e.types[k] \notin Signed
          /\ slot.at = OperandAt(e.types, k) /\ slot.width = ByteSize[e.types[k]]
          /\ slot.at + slot.width <= e.size
    BY <1>1, <1>8 DEF Aligned
  <2>2. PICK v : v = LittleEndian(c, p + slot.at, slot.width)
    OBVIOUS
  <2>3. i.operands[k] = v
    <3>1. i.operands[k] = OperandValue(c, p + OperandAt(e.types, k), e.types[k])
      BY <1>6, <2>1
    <3> QED BY <2>1, <2>2, <3>1 DEF OperandValue
  <2>4. p + slot.at + slot.width <= Len(c)
    <3>1. slot.at \in Nat /\ slot.width \in Nat /\ e.size \in Nat
      BY <1>4
    <3>2. slot.at + slot.width <= e.size
      BY <2>1
    <3>3. p + e.size <= Len(c) /\ Len(c) \in Nat
      BY <1>2
    <3> QED BY <3>1, <3>2, <3>3
  <2>5. ReadId(c, p, slot) = v
    <3>1. \A m, n \in Int : m <= n => ~(m > n)
      OBVIOUS
    <3>2. slot.at \in Nat /\ slot.width \in Nat
      BY <1>4
    <3>3. p + slot.at + slot.width \in Int /\ Len(c) \in Int
      BY <3>2
    <3>4. ~(p + slot.at + slot.width > Len(c))
      BY <2>4, <3>1, <3>3, Zenon
    <3> QED BY <1>8, <2>2, <3>4, Zenon DEF ReadId
  <2>6. (\E l \in args : i.operands[l] = x) <=> v = x
    BY <2>1, <2>3
  <2> QED BY <1>5, <2>5, <2>6
<1> QED BY <1>7, <1>8

(* The entry of an instruction that can be read is one of the table's.     *)
LEMMA EntryIn ==
  ASSUME NEW c \in Seq(Nat), NEW p \in Nat, Readable(c, p)
  PROVE  /\ \E n \in DOMAIN Table : EntryAt(c, p) = Table[n]
         /\ EntryAt(c, p) \in Entry /\ EntryAt(c, p) = Table[InstAt(c, p).opcode + 1]
<1>1. p < Len(c) /\ Known(c[p + 1])
  BY DEF Readable
<1>2. PICK n : n = c[p + 1] + 1
  OBVIOUS
<1>3. c[p + 1] \in Nat
  BY <1>1
<1>4. Len(Table) \in Nat /\ DOMAIN Table = 1..Len(Table)
  BY TableAssumption
<1>5. n \in 1..Len(Table)
  BY <1>1, <1>2, <1>3, <1>4 DEF Known
<1>6. EntryAt(c, p) \in Entry
  BY <1>1, EntryOf
<1> QED BY <1>2, <1>4, <1>5, <1>6 DEF EntryAt, InstAt

LEMMA RefsInit == Init => RefsInv
<1> SUFFICES ASSUME Init PROVE RefsInv
  OBVIOUS
<1>1. /\ fi = 0 /\ scan_pos = None /\ FuncCount \in Nat
      /\ string_refs = [s \in 0..(file.strings - 1) |-> <<>>]
  BY FileFacts DEF Init, ScanStart
<1>2. \A s \in 0..(file.strings - 1) : Values(string_refs[s]) = {}
  BY <1>1, NoValues
<1>3. ASSUME Bundled PROVE StandsAt(0) /\ MetSoFar(0)
  <2>1. FuncIds = {}
    BY <1>1, <1>3 DEF Bundled, Init, FuncIds
  <2> QED BY <1>1, <1>2, <2>1 DEF StandsAt, MetSoFar, Met
<1> QED BY <1>1, <1>2, <1>3 DEF RefsInv

(* After m of the instructions the decoder read comes the next one, or a   *)
(* byte from which none can be read.                                       *)
LEMMA NextRead ==
  ASSUME NEW t, NEW c, ReadUp(t, c), NEW m \in Nat, m <= Len(t)
  PROVE  /\ Len(t) \in Nat /\ DOMAIN t = 1..Len(t)
         /\ m = Len(t) <=> ~Readable(c, Reached(t, m))
         /\ m < Len(t) => /\ t[m + 1] = InstAt(c, Reached(t, m))
                          /\ Reached(t, m + 1) = Reached(t, m) + EntryAt(c, Reached(t, m)).size
<1>1. IsSeq(t) /\ Tiled(t)
  BY DEF ReadUp, Walked
<1>2. Len(t) \in Nat /\ DOMAIN t = 1..Len(t) /\ (t # <<>> <=> Len(t) # 0)
  BY <1>1, AppendFacts
<1>3. CASE m = Len(t)
  <2>1. Reached(t, m) = End(t)
    BY <1>2, <1>3 DEF Reached, End
  <2> QED BY <1>2, <1>3, <2>1 DEF ReadUp
<1>4. CASE m < Len(t)
  <2>1. PICK l \in Nat : l = Len(t)
    BY <1>2, Zenon
  <2>2. m + 1 \in 1..l /\ m + 1 # 0 /\ m + 1 - 1 = m /\ (m + 1 = 1 <=> m = 0)
    BY <1>4, <2>1
  <2>3. m + 1 \in DOMAIN t
    BY <1>2, <2>1, <2>2
  <2>4. t[m + 1].off = Reached(t, m)
    <3>1. PICK k : k = m + 1
      OBVIOUS
    <3>2. t[k].off = IF k = 1 THEN 0 ELSE t[k - 1].off + t[k - 1].size
      BY <1>1, <2>3, <3>1 DEF Tiled
    <3>3. (k = 1 <=> m = 0) /\ k - 1 = m
      BY <3>1
    <3> QED BY <3>1, <3>2, <3>3 DEF Reached
  <2>5. Readable(c, t[m + 1].off) /\ t[m + 1] = InstAt(c, t[m + 1].off)
    BY <2>3 DEF ReadUp, Walked
  <2>6. t[m + 1].size = EntryAt(c, Reached(t, m)).size
    BY <2>4, <2>5 DEF InstAt
  <2>7. Reached(t, m + 1) = t[m + 1].off + t[m + 1].size
    BY <2>2 DEF Reached
  <2>8. m # Len(t)
    BY <1>4, <2>1
  <2> QED BY <1>2, <1>4, <2>4, <2>5, <2>6, <2>7, <2>8, Zenon
<1>5. m = Len(t) \/ m < Len(t)
  <2>1. PICK l \in Nat : l = Len(t)
    BY <1>2, Zenon
  <2>2. m = l \/ m < l
    BY <2>1
  <2> QED BY <2>1, <2>2
<1> QED BY <1>3, <1>4, <1>5

(* When the scanner runs, all functions have been decoded.                 *)
LEMMA DecodedAll ==
  ASSUME DecodeInv, WalkInv, Bundled, NEW f \in FuncIds
  PROVE  IF Unread(f) THEN decoded[f] = <<>> ELSE ReadUp(decoded[f], Body(f))
<1>1. f < func_id
  BY FileFacts DEF DecodeInv, CallInv, Bundled, FuncIds
<1> QED BY <1>1 DEF WalkInv

(* Nothing was read from a function that is not scanned.                   *)
LEMMA NotScannable ==
  ASSUME DecodeInv, WalkInv, Bundled, NEW f \in FuncIds, ~Scannable(f)
  PROVE  Len(decoded[f]) = 0 /\ DOMAIN decoded[f] = 1..0
<1>1. CASE Unread(f)
  <2>1. decoded[f] = <<>>
    BY <1>1, DecodedAll
  <2>2. Len(<<>>) = 0 /\ DOMAIN <<>> = {} /\ 1..0 = {}
    BY EmptyIsSeq
  <2> QED BY <2>1, <2>2
<1>2. CASE ~Unread(f)
  <2>1. ReadUp(decoded[f], Body(f))
    BY <1>2, DecodedAll
  <2>2. Func(f).size = 0 /\ InBounds(f)
    BY <1>2 DEF Unread, Scannable
  <2>3. Len(Body(f)) = 0
    BY <2>2, FileFacts DEF DecodeInv, CallInv
  <2>4. ~Readable(Body(f), 0)
    BY <2>3 DEF Readable
  <2>5. IsSeq(decoded[f])
    BY <2>1 DEF ReadUp, Walked
  <2>6. Len(decoded[f]) \in Nat
    BY <2>5, AppendFacts
  <2>7. 0 = Len(decoded[f]) /\ DOMAIN decoded[f] = 1..Len(decoded[f])
    BY <2>1, <2>4, <2>6, NextRead DEF Reached
  <2> QED BY <2>7
<1> QED BY <1>1, <1>2

(* Leaving a function, read or skipped.                                    *)
LEMMA RefsNext ==
  ASSUME DecodeInv, WalkInv, Bundled, NEW m \in Nat, MetSoFar(m), fi \in FuncIds,
         DOMAIN decoded[fi] \subseteq 1..m,
         UNCHANGED <<file, decoded, string_refs>>, fi' = fi + 1
  PROVE  MetSoFar(0)'
<1>1. FuncCount \in Nat
  BY FileFacts DEF DecodeInv, CallInv
<1>2. FuncIds' = FuncIds
  BY BodiesKept
<1>3. \A f \in FuncIds : f < fi + 1 <=> f < fi \/ f = fi
  BY <1>1 DEF FuncIds
<1>4. \A n : n \notin 1..0
  OBVIOUS
<1>5. ASSUME NEW s PROVE Met(s, 0)' = Met(s, m)
  <2>1. Met(s, 0)' = {f \in FuncIds : \E n \in DOMAIN decoded[f] :
                        Mentions(decoded[f][n], s) /\ (f < fi + 1 \/ (f = fi + 1 /\ n \in 1..0))}
    BY <1>2 DEF Met, Mentions
  <2>2. ASSUME NEW f \in FuncIds, NEW n \in DOMAIN decoded[f]
        PROVE  f < fi + 1 \/ (f = fi + 1 /\ n \in 1..0) <=> f < fi \/ (f = fi /\ n \in 1..m)
    BY <1>3, <1>4
  <2> QED BY <2>1, <2>2 DEF Met
<1> QED BY <1>5 DEF MetSoFar, Values

(* The moves of the scanner.                                               *)
Reads(m) ==
  /\ ScanInst /\ fi \in FuncIds /\ fi' = fi
  /\ Body(fi) \in Seq(Nat) /\ scan_pos \in Nat /\ Readable(Body(fi), scan_pos)
  /\ m + 1 \in DOMAIN decoded[fi] /\ decoded[fi][m + 1] = InstAt(Body(fi), scan_pos)
  /\ StandsAt(m + 1)'

Enters(m) == EnterFunction /\ m = 0 /\ fi' = fi /\ UNCHANGED refs /\ StandsAt(0)'

Leaves(m) ==
  /\ fi \in FuncIds /\ Len(decoded[fi]) = m /\ DOMAIN decoded[fi] = 1..m
  /\ fi' = fi + 1 /\ UNCHANGED refs /\ StandsAt(0)'

LEMMA ScanMoves ==
  ASSUME DecodeInv, WalkInv, ScanInv, Bundled, NEW m \in Nat, StandsAt(m), ScanStep,
         UNCHANGED <<file, decoded>>
  PROVE  Reads(m) \/ Enters(m) \/ Leaves(m)
<1>1. PICK f, p, t, c : f = fi /\ p = scan_pos /\ t = decoded[fi] /\ c = Body(fi)
  OBVIOUS
<1>2. FuncCount \in Nat /\ f \in Nat /\ FuncIds' = FuncIds
  BY <1>1, FileFacts, BodiesKept DEF ScanInv
<1>3. CASE p # None
  <2>1. f \in FuncIds /\ Scannable(f) /\ m <= Len(t) /\ p = Reached(t, m) /\ p \in Nat
    BY <1>1, <1>3 DEF StandsAt, ScanInv
  <2>2. ~Unread(f) /\ c \in Seq(Nat)
    BY <1>1, <2>1, FileFacts DEF Scannable, Unread, ScanInv
  <2>3. ReadUp(t, c)
    BY <1>1, <2>1, <2>2, DecodedAll
  <2>4. /\ Len(t) \in Nat /\ DOMAIN t = 1..Len(t) /\ (m = Len(t) <=> ~Readable(c, p))
        /\ m < Len(t) => /\ t[m + 1] = InstAt(c, p)
                         /\ Reached(t, m + 1) = p + EntryAt(c, p).size
    BY <2>1, <2>3, NextRead
  <2>5. CASE ScanInst
    <3>1. /\ Readable(c, p) /\ fi' = f /\ scan_pos' = p + EntryAt(c, p).size
      BY <1>1, <2>5 DEF ScanInst
    <3>2. PICK l \in Nat : l = Len(t)
      BY <2>4, Zenon
    <3>3. m < l /\ m + 1 <= l /\ m + 1 \in 1..l /\ m + 1 # 0
      <4>1. m # l /\ m <= l
        BY <2>1, <2>4, <3>1, <3>2, Zenon
      <4> QED BY <4>1
    <3>4. EntryAt(c, p).size \in Nat
      BY <2>1, <2>2, <3>1, EntryOf DEF Readable, Entry
    <3>5. scan_pos' # None
      BY <2>1, <3>1, <3>4 DEF None
    <3>6. Scannable(f)'
      BY <2>1 DEF Scannable, Func, InBounds
    <3>7. scan_pos' = Reached(t, m + 1) /\ m + 1 <= Len(t)
      BY <2>4, <3>1, <3>2, <3>3, Zenon
    <3>8. StandsAt(m + 1)'
      BY <1>1, <1>2, <2>1, <3>1, <3>5, <3>6, <3>7
         DEF StandsAt, Reached, Scannable, Func, InBounds
    <3>9. m + 1 \in DOMAIN t /\ t[m + 1] = InstAt(c, p)
      BY <2>4, <3>2, <3>3, Zenon
    <3> QED BY <1>1, <2>1, <2>2, <2>5, <3>1, <3>8, <3>9 DEF Reads
  <2>6. CASE LeaveFunction
    <3>1. fi' = f + 1 /\ scan_pos' = None /\ UNCHANGED refs /\ ~Readable(c, p)
      BY <1>1, <2>6 DEF LeaveFunction
    <3>2. Len(t) = m /\ DOMAIN t = 1..m
      BY <2>4, <3>1, Zenon
    <3>3. StandsAt(0)'
      BY <3>1 DEF StandsAt
    <3> QED BY <1>1, <2>1, <3>1, <3>2, <3>3 DEF Leaves
  <2> QED BY <1>1, <1>3, <2>5, <2>6 DEF ScanStep, SkipFunction, EnterFunction
<1>4. CASE p = None
  <2>1. m = 0
    BY <1>1, <1>4 DEF StandsAt
  <2>2. f \in FuncIds
    BY <1>1, <1>2, <1>4 DEF ScanStep, SkipFunction, EnterFunction, ScanInst, LeaveFunction, FuncIds
  <2>3. CASE SkipFunction
    <3>1. fi' = f + 1 /\ scan_pos' = None /\ UNCHANGED refs /\ ~Scannable(f)
      BY <1>1, <1>4, <2>3 DEF SkipFunction
    <3>2. Len(t) = 0 /\ DOMAIN t = 1..0
      BY <1>1, <2>2, <3>1, NotScannable
    <3>3. StandsAt(0)'
      BY <3>1 DEF StandsAt
    <3> QED BY <1>1, <2>1, <2>2, <3>1, <3>2, <3>3 DEF Leaves
  <2>4. CASE EnterFunction
    <3>1. fi' = f /\ scan_pos' = 0 /\ UNCHANGED refs /\ Scannable(f)
      BY <1>1, <2>4 DEF EnterFunction
    <3>2. ReadUp(t, Body(f))
      BY <1>1, <2>2, <3>1, DecodedAll DEF Scannable, Unread
    <3>3. Len(t) \in Nat
      BY <3>2, AppendFacts DEF ReadUp, Walked
    <3>4. 0 <= Len(t)
      BY <3>3
    <3>5. Scannable(f)'
      BY <3>1 DEF Scannable, Func, InBounds
    <3>6. StandsAt(0)'
      BY <1>1, <1>2, <2>2, <3>1, <3>4, <3>5
         DEF StandsAt, Reached, Scannable, Func, InBounds, None
    <3> QED BY <1>1, <2>1, <2>4, <3>1, <3>6 DEF Enters
  <2> QED BY <1>1, <1>4, <2>3, <2>4 DEF ScanStep, ScanInst, LeaveFunction
<1> QED BY <1>3, <1>4

LEMMA RefsRead ==
  ASSUME StringsAligned, ScanInv, NEW m \in Nat, MetSoFar(m), Reads(m),
         UNCHANGED <<file, decoded>>
  PROVE  MetSoFar(m + 1)'
<1> DEFINE S == 0..(file.strings - 1)
<1>1. PICK f, p, t, c, e : f = fi /\ p = scan_pos /\ t = decoded[fi] /\ c = Body(fi) /\ e = EntryAt(c, p)
  OBVIOUS
<1>2. /\ f \in FuncIds /\ fi' = f /\ c \in Seq(Nat) /\ p \in Nat /\ Readable(c, p)
      /\ m + 1 \in DOMAIN t /\ t[m + 1] = InstAt(c, p)
  BY <1>1 DEF Reads
<1>3. PICK id, r : id = ReadId(c, p, e.str) /\ r = IF id \in S THEN id ELSE None
  OBVIOUS
<1>4. file.strings \in Nat /\ FuncCount \in Nat
  BY FileFacts DEF ScanInv
<1>5. string_refs' = IF file.mode.xrefs /\ r # None
                       THEN [string_refs EXCEPT ![r] = Push(string_refs[r], f)]
                       ELSE string_refs
  BY <1>1, <1>3 DEF Reads, ScanInst, Reference
<1>6. ASSUME NEW s \in S PROVE Mentions(t[m + 1], s) <=> s = r
  <2>1. e.str \in Slot /\ Aligned(e, e.str, e.strArgs) /\ Table[t[m + 1].opcode + 1] = e
    BY <1>1, <1>2, EntryIn DEF StringsAligned, StringArgs, Entry
  <2>2. (\E k \in e.strArgs : InstAt(c, p).operands[k] = s) <=> id \in S /\ s = id
    <3>1. Aligned(EntryAt(c, p), e.str, e.strArgs)
      BY <1>1, <2>1
    <3>2. c \in Seq(Nat) /\ p \in Nat /\ Readable(c, p) /\ e.str \in Slot
      BY <1>2, <2>1
    <3>3. S \in SUBSET Nat
      BY <1>4
    <3> HIDE DEF S
    <3>4. ReadsOneOf(c, p, e.str, e.strArgs, S)
      BY <3>1, <3>2, <3>3, OperandRead
    <3> QED BY <1>3, <3>4, Zenon DEF ReadsOneOf
  <2>3. s # None
    BY <1>4 DEF None
  <2> QED BY <1>2, <1>3, <2>1, <2>2, <2>3 DEF Mentions
<1>7. FuncIds' = FuncIds
  BY BodiesKept
<1>8. ASSUME NEW s \in S
      PROVE  Met(s, m + 1)' = Met(s, m) \cup (IF s = r THEN {f} ELSE {})
  <2>1. Met(s, m + 1)' = {g \in FuncIds : \E n \in DOMAIN decoded[g] :
                            Mentions(decoded[g][n], s) /\ (g < f \/ (g = f /\ n \in 1..(m + 1)))}
    BY <1>2, <1>7 DEF Met, Mentions
  <2>2. \A n : n \in 1..(m + 1) <=> n \in 1..m \/ n = m + 1
    OBVIOUS
  <2>3. ASSUME NEW g \in FuncIds
        PROVE  (\E n \in DOMAIN decoded[g] :
                  Mentions(decoded[g][n], s) /\ (g < f \/ (g = f /\ n \in 1..(m + 1))))
               <=> \/ \E n \in DOMAIN decoded[g] :
                        Mentions(decoded[g][n], s) /\ (g < f \/ (g = f /\ n \in 1..m))
                   \/ g = f /\ s = r
    <3>1. CASE g # f
      BY <3>1
    <3>2. CASE g = f
      <4>1. (\E n \in DOMAIN t : Mentions(t[n], s) /\ n \in 1..(m + 1))
            <=> (\E n \in DOMAIN t : Mentions(t[n], s) /\ n \in 1..m) \/ s = r
        BY <1>2, <1>6, <2>2
      <4>2. ~(g < f)
        BY <1>2, <1>4, <3>2 DEF FuncIds
      <4> QED BY <1>1, <3>2, <4>1, <4>2
    <3> QED BY <3>1, <3>2
  <2>4. Met(s, m) = {g \in FuncIds : \E n \in DOMAIN decoded[g] :
                       Mentions(decoded[g][n], s) /\ (g < f \/ (g = f /\ n \in 1..m))}
    BY <1>1 DEF Met
  <2> QED BY <1>2, <2>1, <2>3, <2>4
<1>9. ASSUME NEW s \in S
      PROVE  Values(string_refs'[s]) = IF file.mode.xrefs THEN Met(s, m + 1)' ELSE {}
  <2>1. /\ string_refs[s] \in Seq(Nat) /\ string_refs \in [S -> Seq(Nat)]
        /\ Values(string_refs[s]) = IF file.mode.xrefs THEN Met(s, m) ELSE {}
    BY DEF ScanInv, MetSoFar
  <2>2. CASE file.mode.xrefs /\ s = r
    <3>1. string_refs'[s] = Push(string_refs[s], f)
      <4>1. s # None
        BY <1>4 DEF None
      <4> QED BY <1>5, <2>1, <2>2, <4>1
    <3>2. Values(string_refs'[s]) = Values(string_refs[s]) \cup {f}
      BY <2>1, <3>1, PushValues
    <3> QED BY <1>8, <2>1, <2>2, <3>2
  <2>3. CASE file.mode.xrefs /\ s # r
    <3>1. string_refs'[s] = string_refs[s]
      BY <1>5, <2>1, <2>3
    <3> QED BY <1>8, <2>1, <2>3, <3>1
  <2>4. CASE ~file.mode.xrefs
    BY <1>5, <2>1, <2>4
  <2> QED BY <2>2, <2>3, <2>4
<1> QED BY <1>9 DEF MetSoFar, Values

LEMMA RefsScan ==
  ASSUME StringsAligned, DecodeInv, WalkInv, ScanInv, RefsInv, Scan
  PROVE  RefsInv'
<1>1. Bundled /\ UNCHANGED <<file, decoded, func_id>> /\ ScanStep
  BY DEF Scan, bundle_vars
<1>2. PICK m \in Nat : StandsAt(m) /\ MetSoFar(m)
  BY <1>1 DEF RefsInv
<1>3. Bundled' /\ FuncIds' = FuncIds
  BY <1>1, BodiesKept DEF Bundled, FuncCount
<1>4. CASE Reads(m)
  <2>1. StandsAt(m + 1)' /\ MetSoFar(m + 1)'
    BY <1>1, <1>2, <1>4, RefsRead DEF Reads
  <2> QED BY <1>3, <2>1 DEF RefsInv
<1>5. CASE Enters(m)
  <2>1. m = 0 /\ fi' = fi /\ UNCHANGED string_refs /\ StandsAt(0)'
    BY <1>5 DEF Enters, refs
  <2>2. MetSoFar(0)'
    BY <1>1, <1>2, <1>3, <2>1 DEF MetSoFar, Met, Mentions, Values
  <2> QED BY <1>3, <2>1, <2>2 DEF RefsInv
<1>6. CASE Leaves(m)
  <2>1. /\ fi \in FuncIds /\ DOMAIN decoded[fi] \subseteq 1..m /\ fi' = fi + 1
        /\ UNCHANGED string_refs /\ StandsAt(0)'
    BY <1>6 DEF Leaves, refs
  <2>2. MetSoFar(0)'
    BY <1>1, <1>2, <2>1, RefsNext
  <2> QED BY <1>3, <2>1, <2>2 DEF RefsInv
<1> QED BY <1>1, <1>2, <1>4, <1>5, <1>6, ScanMoves

LEMMA BundleRuns ==
  ASSUME DecodeInv, Unrecognized \/ BodyExceedsBuffer \/ CallDecode \/ DecodeLoop \/ DecodeReturns
  PROVE  UNCHANGED <<file, scan_vars>> /\ ~Bundled
<1>1. UNCHANGED <<file, scan_vars>>
  BY DEF Unrecognized, BodyExceedsBuffer, CallDecode, DecodeLoop, DecodeReturns
<1>2. CASE Unrecognized \/ BodyExceedsBuffer \/ CallDecode
  BY <1>1, <1>2 DEF Unrecognized, BodyExceedsBuffer, CallDecode
<1>3. CASE DecodeLoop \/ DecodeReturns
  <2>1. outcome # "idle"
    BY <1>3 DEF DecodeLoop, DecodeReturns, DecodeStep, UnknownOpcode, TruncatedStream, DecodeInst,
                DecodeDone, AtOpcode
  <2> QED BY <1>1, <2>1, FileFacts DEF DecodeInv, CallInv, Bundled
<1> QED BY <1>2, <1>3

(* Before the scanner runs there is nothing in the lists.                  *)
LEMMA RefsBundle ==
  ASSUME DecodeInv, RefsInv, ~Bundled, UNCHANGED <<file, scan_vars>>
  PROVE  RefsInv'
<1>1. /\ fi' = 0 /\ scan_pos' = None /\ FuncCount \in Nat /\ FuncIds' = FuncIds
      /\ \A s \in 0..(file.strings - 1) : Values(string_refs'[s]) = {}
  BY FileFacts, BodiesKept DEF RefsInv, scan_vars, refs, DecodeInv, CallInv, Values
<1>2. (\A n : n \notin 1..0) /\ (\A f \in FuncIds : ~(f < 0))
  BY <1>1 DEF FuncIds
<1>3. ASSUME NEW s PROVE Met(s, 0)' = {}
  <2>1. Met(s, 0)' = {f \in FuncIds : \E n \in DOMAIN decoded'[f] :
                        Mentions(decoded'[f][n], s) /\ (f < 0 \/ (f = 0 /\ n \in 1..0))}
    BY <1>1 DEF Met, Mentions
  <2> QED BY <1>2, <2>1
<1>4. MetSoFar(0)'
  BY <1>1, <1>3 DEF MetSoFar, Values
<1>5. StandsAt(0)'
  BY <1>1 DEF StandsAt
<1>6. Bundled' => RefsInv'
  BY <1>4, <1>5 DEF RefsInv
<1>7. ~Bundled' => RefsInv'
  BY <1>1 DEF RefsInv, Values
<1> QED BY <1>6, <1>7

LEMMA RefsStutter ==
  ASSUME RefsInv, UNCHANGED <<file, bundle_vars, scan_vars>>
  PROVE  RefsInv'
<1>1. CASE Bundled
  <2>1. PICK m \in Nat : StandsAt(m) /\ MetSoFar(m)
    BY <1>1 DEF RefsInv
  <2>2. /\ FuncIds' = FuncIds
        /\ UNCHANGED <<file, decoded, fi, scan_pos, string_refs, func_id>>
    BY BodiesKept DEF bundle_vars, scan_vars, refs
  <2>3. StandsAt(m)'
    BY <2>1, <2>2 DEF StandsAt, Reached, Scannable, Func, InBounds
  <2>4. MetSoFar(m)'
    BY <2>1, <2>2 DEF MetSoFar, Met, Mentions, Values
  <2>5. Bundled'
    BY <1>1 DEF Bundled, FuncCount, bundle_vars
  <2> QED BY <2>3, <2>4, <2>5 DEF RefsInv
<1>2. CASE ~Bundled
  <2>1. ~Bundled'
    BY <1>2 DEF Bundled, FuncCount, bundle_vars
  <2> QED BY <1>2, <2>1 DEF RefsInv, Values, scan_vars, refs
<1> QED BY <1>1, <1>2

LEMMA RefsStep ==
  ASSUME StringsAligned
  PROVE  DecodeInv /\ WalkInv /\ ScanInv /\ RefsInv /\ [Next]_vars => RefsInv'
<1> SUFFICES ASSUME DecodeInv, WalkInv, ScanInv, RefsInv, [Next]_vars PROVE RefsInv'
  OBVIOUS
<1>1. CASE Scan
  BY <1>1, RefsScan
<1>2. CASE Done \/ UNCHANGED vars
  <2>1. UNCHANGED <<file, bundle_vars, scan_vars>>
    BY <1>2 DEF Done, vars
  <2> QED BY <2>1, RefsStutter
<1>3. CASE Unrecognized \/ BodyExceedsBuffer \/ CallDecode \/ DecodeLoop \/ DecodeReturns
  <2>1. UNCHANGED <<file, scan_vars>> /\ ~Bundled
    BY <1>3, BundleRuns
  <2> QED BY <2>1, RefsBundle
<1> QED BY <1>1, <1>2, <1>3 DEF Next

LEMMA RefsInvMatches ==
  DecodeInv /\ ScanInv /\ RefsInv => XrefsMatchDecoder
<1> SUFFICES ASSUME DecodeInv, ScanInv, RefsInv, Bundled, Scanned,
                    NEW s \in DOMAIN string_refs
             PROVE  Values(string_refs[s]) =
                      IF file.mode.xrefs
                        THEN {f \in FuncIds :
                                \E n \in DOMAIN decoded[f] : s \in Arguments(f, StringArgs)[n]}
                        ELSE {}
  BY DEF XrefsMatchDecoder
<1>1. PICK m \in Nat : StandsAt(m) /\ MetSoFar(m)
  BY DEF RefsInv
<1>2. s \in 0..(file.strings - 1)
  BY DEF ScanInv
<1>3. \A f \in FuncIds : f < fi
  BY FileFacts DEF ScanInv, Scanned, FuncIds
<1>4. ASSUME NEW f \in FuncIds, NEW n \in DOMAIN decoded[f]
      PROVE  s \in Arguments(f, StringArgs)[n] <=> Mentions(decoded[f][n], s)
  BY DEF Arguments, StringArgs, Mentions
<1>5. Met(s, m) = {f \in FuncIds :
                     \E n \in DOMAIN decoded[f] : s \in Arguments(f, StringArgs)[n]}
  BY <1>3, <1>4 DEF Met
<1> QED BY <1>1, <1>2, <1>5 DEF MetSoFar

(* The scanner finds exactly the string ids the decoder sees, for every    *)
(* table whose two descriptions of an operand agree and every file: its    *)
(* own walk over the bytes and decode_function's never part.               *)
THEOREM XrefsMatchDecoderCorrect ==
  ASSUME OperandsInside, StringsAligned
  PROVE  Spec => []XrefsMatchDecoder
<1>1. Init => DecodeInv /\ WalkInv /\ ScanInv /\ RefsInv
  BY DecodeInit, WalkInit, ScanInit, RefsInit
<1>2. DecodeInv /\ WalkInv /\ ScanInv /\ RefsInv /\ [Next]_vars
        => (DecodeInv /\ WalkInv /\ ScanInv /\ RefsInv)'
  BY DecodeInductive, WalkStep, ScanInductive, RefsStep
<1> QED BY <1>1, <1>2, RefsInvMatches, PTL DEF Spec

-----------------------------------------------------------------------------
(* Lists without immediate repetitions.  t[n] is the set of what is met at *)
(* n, one element or none; list holds what was met until m.                *)

Listed(list, t, m) ==
  \E at \in [DOMAIN list -> 1..m] :
    /\ \A i \in DOMAIN list : list[i] \in t[at[i]]
    /\ \A i, j \in DOMAIN list : i < j => at[i] < at[j]
    /\ \A i, j \in DOMAIN list : j = i + 1 => list[i] # list[j]
    /\ \A n \in 1..m : \A x \in t[n] :
         \E i \in DOMAIN list : at[i] <= n /\ list[i] = x /\ \A j \in DOMAIN list : i < j => at[j] > n

LEMMA ListedNothing == ASSUME NEW t PROVE Listed(<<>>, t, 0)
<1>1. DOMAIN <<>> = {} /\ \A n : n \notin 1..0
  BY EmptyIsSeq
<1>2. [i \in {} |-> 0] \in [{} -> 1..0]
  OBVIOUS
<1> QED BY <1>1, <1>2 DEF Listed

LEMMA ListedAtNone ==
  ASSUME NEW list, NEW t, NEW m \in Nat, t[m + 1] = {}, Listed(list, t, m)
  PROVE  Listed(list, t, m + 1)
<1>1. \A n : n \in 1..(m + 1) <=> n \in 1..m \/ n = m + 1
  OBVIOUS
<1>2. PICK at \in [DOMAIN list -> 1..m] :
        /\ \A i \in DOMAIN list : list[i] \in t[at[i]]
        /\ \A i, j \in DOMAIN list : i < j => at[i] < at[j]
        /\ \A i, j \in DOMAIN list : j = i + 1 => list[i] # list[j]
        /\ \A n \in 1..m : \A x \in t[n] :
             \E i \in DOMAIN list : at[i] <= n /\ list[i] = x /\ \A j \in DOMAIN list : i < j => at[j] > n
  BY DEF Listed
<1>3. at \in [DOMAIN list -> 1..(m + 1)]
  BY <1>1, <1>2
<1>4. \A n \in 1..(m + 1) : \A x \in t[n] :
        \E i \in DOMAIN list : at[i] <= n /\ list[i] = x /\ \A j \in DOMAIN list : i < j => at[j] > n
  BY <1>1, <1>2
<1> QED BY <1>2, <1>3, <1>4 DEF Listed

LEMMA ListedPush ==
  ASSUME NEW S, NEW list \in Seq(S), NEW t, NEW m \in Nat, NEW x, t[m + 1] = {x},
         Listed(list, t, m)
  PROVE  Listed(Push(list, x), t, m + 1)
<1>1. \A n : n \in 1..(m + 1) <=> n \in 1..m \/ n = m + 1
  OBVIOUS
<1>2. PICK at \in [DOMAIN list -> 1..m] :
        /\ \A i \in DOMAIN list : list[i] \in t[at[i]]
        /\ \A i, j \in DOMAIN list : i < j => at[i] < at[j]
        /\ \A i, j \in DOMAIN list : j = i + 1 => list[i] # list[j]
        /\ \A n \in 1..m : \A y \in t[n] :
             \E i \in DOMAIN list : at[i] <= n /\ list[i] = y /\ \A j \in DOMAIN list : i < j => at[j] > n
  BY DEF Listed
<1>3. PICK l \in Nat : l = Len(list)
  OBVIOUS
<1>4. DOMAIN list = 1..l /\ (list # <<>> <=> l # 0)
  BY <1>3
<1>5. \A i \in 1..l : at[i] \in 1..m
  BY <1>2, <1>4
<1>6. CASE list # <<>> /\ list[Len(list)] = x
  <2>1. Push(list, x) = list /\ l \in 1..l /\ list[l] = x
    BY <1>3, <1>4, <1>6 DEF Push
  <2>2. at \in [DOMAIN list -> 1..(m + 1)]
    BY <1>1, <1>2
  <2>3. at[l] <= m + 1 /\ \A j \in 1..l : ~(l < j)
    BY <1>5, <2>1
  <2>4. \A y \in t[m + 1] :
          \E i \in DOMAIN list :
            at[i] <= m + 1 /\ list[i] = y /\ \A j \in DOMAIN list : i < j => at[j] > m + 1
    BY <1>4, <2>1, <2>3
  <2>5. \A n \in 1..(m + 1) : \A y \in t[n] :
          \E i \in DOMAIN list : at[i] <= n /\ list[i] = y /\ \A j \in DOMAIN list : i < j => at[j] > n
    BY <1>1, <1>2, <2>4
  <2>6. Listed(list, t, m + 1)
    BY <1>2, <2>2, <2>5 DEF Listed
  <2> QED BY <2>1, <2>6
<1>7. CASE ~(list # <<>> /\ list[Len(list)] = x)
  <2>1. PICK s : s = Append(list, x)
    OBVIOUS
  <2>2. Push(list, x) = s
    BY <1>7, <2>1 DEF Push
  <2>3. IsSeq(list)
    BY DEF IsSeq
  <2>4. DOMAIN s = 1..(l + 1) /\ (\A i \in 1..l : s[i] = list[i]) /\ s[l + 1] = x
    BY <1>3, <2>1, <2>3, AppendFacts
  <2>5. \A i : i \in 1..(l + 1) <=> i \in 1..l \/ i = l + 1
    OBVIOUS
  <2>6. (\A i \in 1..l : i # l + 1 /\ i < l + 1) /\ l + 1 \in 1..(l + 1) /\ m + 1 \in 1..(m + 1)
    OBVIOUS
  <2>7. PICK b : b = [i \in 1..(l + 1) |-> IF i = l + 1 THEN m + 1 ELSE at[i]]
    OBVIOUS
  <2>8. b[l + 1] = m + 1 /\ \A i \in 1..l : b[i] = at[i]
    BY <2>5, <2>6, <2>7
  <2>9. b \in [DOMAIN s -> 1..(m + 1)]
    BY <1>1, <1>5, <2>4, <2>5, <2>7
  <2>10. \A i \in DOMAIN s : s[i] \in t[b[i]]
    BY <1>2, <1>4, <2>4, <2>5, <2>8
  <2>11. \A i \in 1..l : at[i] < m + 1
    BY <1>5
  <2>12. ASSUME NEW i \in DOMAIN s, NEW j \in DOMAIN s, i < j
         PROVE  b[i] < b[j]
    <3>1. i \in 1..l
      BY <2>4, <2>12
    <3>2. CASE j \in 1..l
      BY <1>2, <1>4, <2>8, <2>12, <3>1, <3>2
    <3>3. CASE j = l + 1
      BY <2>8, <2>11, <3>1, <3>3
    <3> QED BY <2>4, <2>5, <3>2, <3>3
  <2>13. ASSUME NEW i \in DOMAIN s, NEW j \in DOMAIN s, j = i + 1
         PROVE  s[i] # s[j]
    <3>1. i \in 1..l
      BY <2>4, <2>13
    <3>2. CASE j \in 1..l
      BY <1>2, <1>4, <2>4, <2>13, <3>1, <3>2
    <3>3. CASE j = l + 1
      <4>1. i = l /\ l # 0
        BY <2>13, <3>1, <3>3
      <4>2. list[l] # x
        BY <1>3, <1>4, <1>7, <4>1
      <4> QED BY <2>4, <3>1, <3>3, <4>1, <4>2
    <3> QED BY <2>4, <2>5, <3>2, <3>3
  <2>14. ASSUME NEW n \in 1..(m + 1), NEW y \in t[n]
         PROVE  \E i \in DOMAIN s : b[i] <= n /\ s[i] = y /\ \A j \in DOMAIN s : i < j => b[j] > n
    <3>1. CASE n \in 1..m
      <4>1. PICK i \in DOMAIN list :
              at[i] <= n /\ list[i] = y /\ \A j \in DOMAIN list : i < j => at[j] > n
        BY <1>2, <3>1
      <4>2. m + 1 > n
        BY <3>1
      <4>3. \A j \in DOMAIN s : i < j => b[j] > n
        BY <1>4, <2>4, <2>5, <2>8, <4>1, <4>2
      <4>4. i \in DOMAIN s /\ b[i] <= n /\ s[i] = y
        BY <1>4, <2>4, <2>5, <2>8, <4>1
      <4> QED BY <4>3, <4>4
    <3>2. CASE n = m + 1
      <4>1. b[l + 1] <= n /\ s[l + 1] = y /\ l + 1 \in DOMAIN s
        BY <2>4, <2>6, <2>8, <2>14, <3>2
      <4>2. \A j \in DOMAIN s : ~(l + 1 < j)
        BY <2>4
      <4> QED BY <4>1, <4>2
    <3> QED BY <1>1, <3>1, <3>2
  <2>15. Listed(s, t, m + 1)
    BY <2>9, <2>10, <2>12, <2>13, <2>14 DEF Listed
  <2> QED BY <2>2, <2>15
<1> QED BY <1>6, <1>7

-----------------------------------------------------------------------------
(* The graphs.  Each list holds the targets of the instructions met until  *)
(* now in its function.                                                    *)

(* The two slots the scanner reads a function id from are operands of the  *)
(* decoder (OpcodePath!ScannedOperandsAgree checks it of every version's   *)
(* tables).                                                                *)
FunctionsAligned ==
  \A n \in DOMAIN Table :
    /\ Aligned(Table[n], Table[n].call, CallArgs(Table[n]))
    /\ Aligned(Table[n], Table[n].closure, ClosureArgs(Table[n]))

CallTargets ==
  [f \in FuncIds |-> [n \in DOMAIN decoded[f] |-> Arguments(f, CallArgs)[n] \cap FuncIds]]

ClosureTargets ==
  [f \in FuncIds |-> [n \in DOMAIN decoded[f] |-> Arguments(f, ClosureArgs)[n] \cap FuncIds]]

(* How many instructions of f the scanner has met. *)
Progress(f, m) == IF f < fi THEN Len(decoded[f]) ELSE IF f = fi THEN m ELSE 0

Grown(graph, t, m) == \A f \in FuncIds : Listed(graph[f], t[f], Progress(f, m))

GraphsSoFar(m) ==
  IF file.mode.callgraph
    THEN Grown(call_graph, CallTargets, m) /\ Grown(closure_refs, ClosureTargets, m)
    ELSE \A f \in FuncIds : call_graph[f] = <<>> /\ closure_refs[f] = <<>>

GraphInv ==
  /\ ~Bundled => /\ fi = 0 /\ scan_pos = None
                 /\ \A f \in FuncIds : call_graph[f] = <<>> /\ closure_refs[f] = <<>>
  /\ Bundled => \E m \in Nat : StandsAt(m) /\ GraphsSoFar(m)

LEMMA TargetsKept ==
  ASSUME UNCHANGED <<file, decoded>>
  PROVE  CallTargets' = CallTargets /\ ClosureTargets' = ClosureTargets
BY BodiesKept DEF CallTargets, ClosureTargets, Arguments, CallArgs, ClosureArgs, OperandsAt

LEMMA TargetRead ==
  ASSUME NEW c \in Seq(Nat), NEW p \in Nat, Readable(c, p), FuncCount \in Nat,
         FuncIds = 0..(FuncCount - 1),
         NEW slot \in Slot, NEW args, Aligned(EntryAt(c, p), slot, args)
  PROVE  ReadsOneOf(c, p, slot, args, FuncIds)
<1>1. FuncIds \in SUBSET Nat
  OBVIOUS
<1> QED BY <1>1, OperandRead

(* Nothing has been met of any function. *)
LEMMA NothingMet ==
  ASSUME FuncCount \in Nat, fi = 0, \A f \in FuncIds : call_graph[f] = <<>> /\ closure_refs[f] = <<>>
  PROVE  GraphsSoFar(0)
<1>1. \A f \in FuncIds : Progress(f, 0) = 0
  BY DEF Progress, FuncIds
<1>2. \A t : Listed(<<>>, t, 0)
  BY ListedNothing
<1> QED BY <1>1, <1>2 DEF GraphsSoFar, Grown

LEMMA GraphInit == Init => GraphInv
<1> SUFFICES ASSUME Init PROVE GraphInv
  OBVIOUS
<1>1. /\ fi = 0 /\ scan_pos = None /\ FuncCount \in Nat
      /\ \A f \in FuncIds : call_graph[f] = <<>> /\ closure_refs[f] = <<>>
  BY FileFacts DEF Init, ScanStart
<1>2. StandsAt(0) /\ GraphsSoFar(0)
  BY <1>1, NothingMet DEF StandsAt
<1> QED BY <1>1, <1>2 DEF GraphInv

(* One graph when an instruction is read: its target is pushed.            *)
LEMMA GrownRead ==
  ASSUME ScanInv, NEW graph \in [FuncIds -> Seq(FuncIds)], NEW t, NEW m \in Nat,
         Reads(m), UNCHANGED <<file, decoded>>, file.mode.callgraph, Grown(graph, t, m),
         NEW slot \in Slot, NEW args, Aligned(EntryAt(Body(fi), scan_pos), slot, args),
         t[fi][m + 1] = {decoded[fi][m + 1].operands[k] : k \in args} \cap FuncIds
  PROVE  \A f \in FuncIds :
           Listed(Entered(graph, CallTarget(slot))[f], t[f], Progress(f, m + 1)')
<1>1. PICK g, p, c : g = fi /\ p = scan_pos /\ c = Body(fi)
  OBVIOUS
<1>2. /\ g \in FuncIds /\ fi' = g /\ c \in Seq(Nat) /\ p \in Nat /\ Readable(c, p)
      /\ decoded[g][m + 1] = InstAt(c, p)
  BY <1>1 DEF Reads
<1>3. FuncCount \in Nat /\ FuncIds = 0..(FuncCount - 1)
  BY FileFacts DEF ScanInv, FuncIds
<1>4. PICK id, r : id = ReadId(c, p, slot) /\ r = IF id \in FuncIds THEN id ELSE None
  OBVIOUS
<1>5. r = CallTarget(slot)
  BY <1>1, <1>3, <1>4 DEF CallTarget, Reference
<1>6. \A x \in FuncIds : (\E k \in args : InstAt(c, p).operands[k] = x) <=> id \in FuncIds /\ x = id
  <2>1. Aligned(EntryAt(c, p), slot, args) /\ c \in Seq(Nat) /\ p \in Nat /\ Readable(c, p)
    BY <1>1, <1>2
  <2>2. ReadsOneOf(c, p, slot, args, FuncIds)
    BY <1>3, <2>1, TargetRead
  <2> QED BY <1>4, <2>2 DEF ReadsOneOf
<1>7. t[g][m + 1] = IF r = None THEN {} ELSE {r}
  <2>1. t[g][m + 1] = {InstAt(c, p).operands[k] : k \in args} \cap FuncIds
    BY <1>1, <1>2
  <2>2. \A x : x \in t[g][m + 1] <=> x \in FuncIds /\ \E k \in args : InstAt(c, p).operands[k] = x
    BY <2>1
  <2>3. \A x : x \in t[g][m + 1] <=> id \in FuncIds /\ x = id
    BY <1>6, <2>2
  <2>4. None \notin FuncIds
    BY <1>3 DEF None
  <2> QED BY <1>4, <2>3, <2>4
<1>8. Entered(graph, r) = IF r # None THEN [graph EXCEPT ![g] = Push(graph[g], r)] ELSE graph
  BY <1>1 DEF Entered
<1>9. ASSUME NEW f \in FuncIds
      PROVE  Listed(Entered(graph, r)[f], t[f], Progress(f, m + 1)')
  <2>1. Listed(graph[f], t[f], Progress(f, m))
    BY DEF Grown
  <2>2. CASE f # g
    <3>1. Progress(f, m + 1)' = Progress(f, m)
      BY <1>1, <1>2, <2>2 DEF Progress
    <3>2. Entered(graph, r)[f] = graph[f]
      BY <1>8, <2>2
    <3> QED BY <2>1, <3>1, <3>2
  <2>3. CASE f = g
    <3>1. ~(g < g)
      BY <1>2, <1>3
    <3>2. Progress(f, m) = m /\ Progress(f, m + 1)' = m + 1
      BY <1>1, <1>2, <2>3, <3>1 DEF Progress
    <3>3. CASE r = None
      BY <1>7, <1>8, <2>1, <2>3, <3>2, <3>3, ListedAtNone
    <3>4. CASE r # None
      <4>1. graph[g] \in Seq(FuncIds) /\ t[g][m + 1] = {r}
        BY <1>2, <1>7, <3>4
      <4>2. Listed(Push(graph[g], r), t[g], m + 1)
        BY <2>1, <2>3, <3>2, <4>1, ListedPush
      <4>3. Entered(graph, r)[f] = Push(graph[g], r)
        BY <1>2, <1>8, <2>3, <3>4
      <4> QED BY <2>3, <3>2, <4>2, <4>3
    <3> QED BY <3>3, <3>4
  <2> QED BY <2>2, <2>3
<1> QED BY <1>5, <1>9

LEMMA GraphsRead ==
  ASSUME FunctionsAligned, ScanInv, ScanTyped, NEW m \in Nat, GraphsSoFar(m), Reads(m),
         UNCHANGED <<file, decoded>>
  PROVE  GraphsSoFar(m + 1)'
<1>1. PICK g, c, p, e : g = fi /\ c = Body(fi) /\ p = scan_pos /\ e = EntryAt(c, p)
  OBVIOUS
<1>2. /\ g \in FuncIds /\ c \in Seq(Nat) /\ p \in Nat /\ Readable(c, p)
      /\ m + 1 \in DOMAIN decoded[g] /\ decoded[g][m + 1] = InstAt(c, p)
  BY <1>1 DEF Reads
<1>3. /\ e.call \in Slot /\ Aligned(e, e.call, CallArgs(e))
      /\ e.closure \in Slot /\ Aligned(e, e.closure, ClosureArgs(e))
      /\ Table[decoded[g][m + 1].opcode + 1] = e
  BY <1>1, <1>2, EntryIn DEF FunctionsAligned, Entry
<1>4. /\ call_graph' = Entered(call_graph, CallTarget(e.call))
      /\ closure_refs' = Entered(closure_refs, CallTarget(e.closure))
      /\ FuncIds' = FuncIds
  BY <1>1, BodiesKept DEF Reads, ScanInst
<1>5. /\ CallTargets[g][m + 1] = {decoded[g][m + 1].operands[k] : k \in CallArgs(e)} \cap FuncIds
      /\ ClosureTargets[g][m + 1] = {decoded[g][m + 1].operands[k] : k \in ClosureArgs(e)} \cap FuncIds
  BY <1>2, <1>3 DEF CallTargets, ClosureTargets, Arguments
<1>6. CASE file.mode.callgraph
  <2>1. PICK t, u : t = CallTargets /\ u = ClosureTargets
    OBVIOUS
  <2>2. Grown(call_graph, t, m) /\ Grown(closure_refs, u, m)
    BY <1>6, <2>1 DEF GraphsSoFar
  <2>3. \A f \in FuncIds : Listed(call_graph'[f], t[f], Progress(f, m + 1)')
    <3>1. call_graph \in [FuncIds -> Seq(FuncIds)]
      BY DEF ScanTyped
    <3>2. PICK args : args = CallArgs(e)
      OBVIOUS
    <3>3. Aligned(EntryAt(Body(fi), scan_pos), e.call, args)
      BY <1>1, <1>3, <3>2
    <3>4. t[fi][m + 1] = {decoded[fi][m + 1].operands[k] : k \in args} \cap FuncIds
      BY <1>1, <1>5, <2>1, <3>2
    <3>5. \A f \in FuncIds :
            Listed(Entered(call_graph, CallTarget(e.call))[f], t[f], Progress(f, m + 1)')
      BY <1>3, <1>6, <2>2, <3>1, <3>3, <3>4, GrownRead
    <3> QED BY <1>4, <3>5
  <2>4. \A f \in FuncIds : Listed(closure_refs'[f], u[f], Progress(f, m + 1)')
    <3>1. closure_refs \in [FuncIds -> Seq(FuncIds)]
      BY DEF ScanTyped
    <3>2. PICK args : args = ClosureArgs(e)
      OBVIOUS
    <3>3. Aligned(EntryAt(Body(fi), scan_pos), e.closure, args)
      BY <1>1, <1>3, <3>2
    <3>4. u[fi][m + 1] = {decoded[fi][m + 1].operands[k] : k \in args} \cap FuncIds
      BY <1>1, <1>5, <2>1, <3>2
    <3>5. \A f \in FuncIds :
            Listed(Entered(closure_refs, CallTarget(e.closure))[f], u[f], Progress(f, m + 1)')
      BY <1>3, <1>6, <2>2, <3>1, <3>3, <3>4, GrownRead
    <3> QED BY <1>4, <3>5
  <2>5. CallTargets' = t /\ ClosureTargets' = u
    BY <2>1, TargetsKept
  <2>6. /\ \A f \in FuncIds' : Listed(call_graph'[f], CallTargets'[f], Progress(f, m + 1)')
        /\ \A f \in FuncIds' : Listed(closure_refs'[f], ClosureTargets'[f], Progress(f, m + 1)')
    BY <1>4, <2>3, <2>4, <2>5
  <2> QED BY <1>6, <2>6 DEF GraphsSoFar, Grown, Listed
<1>7. CASE ~file.mode.callgraph
  <2>1. UNCHANGED <<call_graph, closure_refs>>
    BY <1>4, <1>7 DEF Entered
  <2> QED BY <1>4, <1>7, <2>1 DEF GraphsSoFar
<1> QED BY <1>6, <1>7

(* A step after which as much has been met of every function.              *)
LEMMA GraphsKept ==
  ASSUME UNCHANGED <<file, decoded, call_graph, closure_refs>>, NEW m, NEW n, GraphsSoFar(m),
         \A f \in FuncIds : Progress(f, n)' = Progress(f, m)
  PROVE  GraphsSoFar(n)'
<1>1. FuncIds' = FuncIds /\ CallTargets' = CallTargets /\ ClosureTargets' = ClosureTargets
  BY BodiesKept, TargetsKept
<1>2. CASE file.mode.callgraph
  <2>1. /\ \A f \in FuncIds' : Listed(call_graph'[f], CallTargets'[f], Progress(f, n)')
        /\ \A f \in FuncIds' : Listed(closure_refs'[f], ClosureTargets'[f], Progress(f, n)')
    BY <1>1, <1>2 DEF GraphsSoFar, Grown
  <2> QED BY <1>2, <2>1 DEF GraphsSoFar, Grown, Listed
<1>3. CASE ~file.mode.callgraph
  BY <1>1, <1>3 DEF GraphsSoFar
<1> QED BY <1>2, <1>3

LEMMA GraphScan ==
  ASSUME FunctionsAligned, DecodeInv, WalkInv, ScanInv, ScanTyped, GraphInv, Scan
  PROVE  GraphInv'
<1>1. Bundled /\ UNCHANGED <<file, decoded, func_id>> /\ ScanStep
  BY DEF Scan, bundle_vars
<1>2. PICK m \in Nat : StandsAt(m) /\ GraphsSoFar(m)
  BY <1>1 DEF GraphInv
<1>3. Bundled' /\ FuncCount \in Nat
  BY <1>1, FileFacts DEF Bundled, FuncCount, ScanInv
<1>4. CASE Reads(m)
  <2>1. StandsAt(m + 1)' /\ GraphsSoFar(m + 1)'
    BY <1>1, <1>2, <1>4, GraphsRead DEF Reads
  <2> QED BY <1>3, <2>1 DEF GraphInv
<1>5. CASE Enters(m)
  <2>1. m = 0 /\ fi' = fi /\ UNCHANGED <<call_graph, closure_refs>> /\ StandsAt(0)'
    BY <1>5 DEF Enters, refs
  <2>2. \A f \in FuncIds : Progress(f, 0)' = Progress(f, m)
    BY <1>1, <2>1 DEF Progress
  <2>3. GraphsSoFar(0)'
    BY <1>1, <1>2, <2>1, <2>2, GraphsKept
  <2> QED BY <1>3, <2>1, <2>3 DEF GraphInv
<1>6. CASE Leaves(m)
  <2>1. /\ fi \in FuncIds /\ Len(decoded[fi]) = m /\ fi' = fi + 1
        /\ UNCHANGED <<call_graph, closure_refs>> /\ StandsAt(0)'
    BY <1>6 DEF Leaves, refs
  <2>2. \A f \in FuncIds : (f < fi + 1 <=> f < fi \/ f = fi) /\ (f = fi => ~(f < fi))
    BY <1>3, <2>1 DEF FuncIds
  <2>3. ASSUME NEW f \in FuncIds PROVE Progress(f, 0)' = Progress(f, m)
    <3>1. Progress(f, 0)' = IF f < fi + 1 THEN Len(decoded[f]) ELSE 0
      BY <1>1, <2>1 DEF Progress
    <3> QED BY <2>1, <2>2, <3>1 DEF Progress
  <2>4. GraphsSoFar(0)'
    BY <1>1, <1>2, <2>1, <2>3, GraphsKept
  <2> QED BY <1>3, <2>1, <2>4 DEF GraphInv
<1> QED BY <1>1, <1>2, <1>4, <1>5, <1>6, ScanMoves

LEMMA GraphBundle ==
  ASSUME DecodeInv, GraphInv, ~Bundled, UNCHANGED <<file, scan_vars>>
  PROVE  GraphInv'
<1>1. /\ fi' = 0 /\ scan_pos' = None /\ FuncCount \in Nat /\ FuncCount' = FuncCount /\ FuncIds' = FuncIds
      /\ \A f \in FuncIds : call_graph'[f] = <<>> /\ closure_refs'[f] = <<>>
  BY FileFacts, BodiesKept DEF GraphInv, scan_vars, refs, DecodeInv, CallInv
<1>2. \A f \in FuncIds : Progress(f, 0)' = 0
  BY <1>1 DEF Progress, FuncIds
<1>3. \A t : Listed(<<>>, t, 0)
  BY ListedNothing
<1>4. /\ \A f \in FuncIds' : Listed(call_graph'[f], CallTargets'[f], Progress(f, 0)')
      /\ \A f \in FuncIds' : Listed(closure_refs'[f], ClosureTargets'[f], Progress(f, 0)')
  BY <1>1, <1>2, <1>3
<1>5. GraphsSoFar(0)'
  BY <1>1, <1>4 DEF GraphsSoFar, Grown, Listed
<1>6. StandsAt(0)'
  BY <1>1 DEF StandsAt
<1>7. Bundled' => GraphInv'
  BY <1>5, <1>6 DEF GraphInv
<1>8. ~Bundled' => GraphInv'
  BY <1>1 DEF GraphInv
<1> QED BY <1>7, <1>8

LEMMA GraphStutter ==
  ASSUME GraphInv, UNCHANGED <<file, bundle_vars, scan_vars>>
  PROVE  GraphInv'
<1>1. /\ FuncIds' = FuncIds
      /\ UNCHANGED <<file, decoded, fi, scan_pos, call_graph, closure_refs, func_id>>
  BY BodiesKept DEF bundle_vars, scan_vars, refs
<1>2. CASE Bundled
  <2>1. PICK m \in Nat : StandsAt(m) /\ GraphsSoFar(m)
    BY <1>2 DEF GraphInv
  <2>2. StandsAt(m)'
    BY <1>1, <2>1 DEF StandsAt, Reached, Scannable, Func, InBounds
  <2>3. \A f \in FuncIds : Progress(f, m)' = Progress(f, m)
    BY <1>1 DEF Progress
  <2>4. GraphsSoFar(m)'
    BY <1>1, <2>1, <2>3, GraphsKept
  <2>5. Bundled'
    BY <1>1, <1>2 DEF Bundled, FuncCount
  <2> QED BY <2>2, <2>4, <2>5 DEF GraphInv
<1>3. CASE ~Bundled
  <2>1. ~Bundled'
    BY <1>1, <1>3 DEF Bundled, FuncCount
  <2> QED BY <1>1, <1>3, <2>1 DEF GraphInv
<1> QED BY <1>2, <1>3

LEMMA GraphStep ==
  ASSUME FunctionsAligned
  PROVE  DecodeInv /\ WalkInv /\ ScanInv /\ ScanTyped /\ GraphInv /\ [Next]_vars => GraphInv'
<1> SUFFICES ASSUME DecodeInv, WalkInv, ScanInv, ScanTyped, GraphInv, [Next]_vars PROVE GraphInv'
  OBVIOUS
<1>1. CASE Scan
  BY <1>1, GraphScan
<1>2. CASE Done \/ UNCHANGED vars
  <2>1. UNCHANGED <<file, bundle_vars, scan_vars>>
    BY <1>2 DEF Done, vars
  <2> QED BY <2>1, GraphStutter
<1>3. CASE Unrecognized \/ BodyExceedsBuffer \/ CallDecode \/ DecodeLoop \/ DecodeReturns
  <2>1. UNCHANGED <<file, scan_vars>> /\ ~Bundled
    BY <1>3, BundleRuns
  <2> QED BY <2>1, GraphBundle
<1> QED BY <1>1, <1>2, <1>3 DEF Next

(* What InOrder says, of the arguments a[n] instead of the targets among   *)
(* them.                                                                   *)
Placed(list, a, l) ==
  \E at \in [DOMAIN list -> 1..l] :
    /\ \A i \in DOMAIN list : list[i] \in a[at[i]]
    /\ \A i, j \in DOMAIN list : i < j => at[i] < at[j]
    /\ \A i, j \in DOMAIN list : j = i + 1 => list[i] # list[j]
    /\ \A n \in 1..l : \A x \in a[n] \cap FuncIds :
         \E i \in DOMAIN list : at[i] <= n /\ list[i] = x /\ \A j \in DOMAIN list : i < j => at[j] > n

LEMMA ListedPlaced ==
  ASSUME NEW list, NEW t, NEW a, NEW l, Listed(list, t, l), \A n \in 1..l : t[n] = a[n] \cap FuncIds
  PROVE  Placed(list, a, l)
<1>1. PICK at \in [DOMAIN list -> 1..l] :
        /\ \A i \in DOMAIN list : list[i] \in t[at[i]]
        /\ \A i, j \in DOMAIN list : i < j => at[i] < at[j]
        /\ \A i, j \in DOMAIN list : j = i + 1 => list[i] # list[j]
        /\ \A n \in 1..l : \A x \in t[n] :
             \E i \in DOMAIN list :
               at[i] <= n /\ list[i] = x /\ \A j \in DOMAIN list : i < j => at[j] > n
  BY DEF Listed
<1>2. \A i \in DOMAIN list : list[i] \in a[at[i]]
  BY <1>1
<1>3. \A n \in 1..l : \A x \in a[n] \cap FuncIds : x \in t[n]
  OBVIOUS
<1> QED BY <1>1, <1>2, <1>3 DEF Placed

LEMMA GraphInvMatches ==
  DecodeInv /\ WalkInv /\ ScanInv /\ GraphInv => CallsMatchDecoder
<1> SUFFICES ASSUME DecodeInv, WalkInv, ScanInv, GraphInv, Bundled, Scanned, NEW f \in FuncIds
             PROVE  /\ IF file.mode.callgraph THEN InOrder(call_graph[f], f, CallArgs)
                       ELSE call_graph[f] = <<>>
                    /\ IF file.mode.callgraph THEN InOrder(closure_refs[f], f, ClosureArgs)
                       ELSE closure_refs[f] = <<>>
  BY DEF CallsMatchDecoder
<1>1. PICK m \in Nat : GraphsSoFar(m)
  BY DEF GraphInv
<1>2. PICK l : l = Len(decoded[f])
  OBVIOUS
<1>3. DOMAIN decoded[f] = 1..l
  <2>1. CASE Unread(f)
    <3>1. decoded[f] = <<>> /\ Len(<<>>) = 0 /\ DOMAIN <<>> = 1..0
      BY <2>1, DecodedAll
    <3> QED BY <1>2, <3>1
  <2>2. CASE ~Unread(f)
    <3>1. IsSeq(decoded[f])
      BY <2>2, DecodedAll DEF ReadUp, Walked
    <3> QED BY <1>2, <3>1, AppendFacts
  <2> QED BY <2>1, <2>2
<1>4. f < fi
  BY FileFacts DEF ScanInv, Scanned, FuncIds
<1>5. Progress(f, m) = l
  BY <1>2, <1>4 DEF Progress
<1>6. CASE file.mode.callgraph
  <2>1. Listed(call_graph[f], CallTargets[f], l) /\ Listed(closure_refs[f], ClosureTargets[f], l)
    BY <1>1, <1>5, <1>6 DEF GraphsSoFar, Grown
  <2>2. InOrder(call_graph[f], f, CallArgs)
    <3>1. \A n \in 1..l : CallTargets[f][n] = Arguments(f, CallArgs)[n] \cap FuncIds
      BY <1>3 DEF CallTargets
    <3>2. PICK list, a : list = call_graph[f] /\ a = Arguments(f, CallArgs)
      OBVIOUS
    <3>3. Placed(list, a, l)
      BY <2>1, <3>1, <3>2, ListedPlaced
    <3> QED BY <1>3, <3>2, <3>3 DEF Placed, InOrder
  <2>3. InOrder(closure_refs[f], f, ClosureArgs)
    <3>1. \A n \in 1..l : ClosureTargets[f][n] = Arguments(f, ClosureArgs)[n] \cap FuncIds
      BY <1>3 DEF ClosureTargets
    <3>2. PICK list, a : list = closure_refs[f] /\ a = Arguments(f, ClosureArgs)
      OBVIOUS
    <3>3. Placed(list, a, l)
      BY <2>1, <3>1, <3>2, ListedPlaced
    <3> QED BY <1>3, <3>2, <3>3 DEF Placed, InOrder
  <2> QED BY <1>6, <2>2, <2>3
<1>7. CASE ~file.mode.callgraph
  BY <1>1, <1>7 DEF GraphsSoFar
<1> QED BY <1>6, <1>7

(* call_graph and closure_refs list the calls and the closures of the      *)
(* decoded instructions in program order, for every table whose slots are  *)
(* operands and every file: what a body that cannot be read to its end     *)
(* holds until there is listed, and what another function holds never.     *)
THEOREM CallsMatchDecoderCorrect ==
  ASSUME OperandsInside, FunctionsAligned
  PROVE  Spec => []CallsMatchDecoder
<1>1. Init => DecodeInv /\ WalkInv /\ ScanInv /\ ScanTyped /\ GraphInv
  BY DecodeInit, WalkInit, ScanInit, ScanTypedInit, GraphInit
<1>2. DecodeInv /\ WalkInv /\ ScanInv /\ ScanTyped /\ GraphInv /\ [Next]_vars
        => (DecodeInv /\ WalkInv /\ ScanInv /\ ScanTyped /\ GraphInv)'
  BY DecodeInductive, WalkStep, ScanInductive, ScanTypedStep, GraphStep
<1> QED BY <1>1, <1>2, GraphInvMatches, PTL DEF Spec

=============================================================================
