--------------------------- MODULE FindingsProofs ---------------------------
(***************************************************************************)
(* Proofs about the finding channel, for any number of threads, bundles    *)
(* and finding values.                                                     *)
(***************************************************************************)
EXTENDS Findings, TLAPS

Parsing(t) == phase[t] \in {"parse", "parsed"}

(* Who works on what: a bundle is parsed by one thread, which took it when *)
(* nothing had been raised for it, and has no report before its drain.     *)
OwnershipInv ==
  /\ \A t \in Threads : Parsing(t) => job[t] \in Bundles /\ status[job[t]] = "running"
  /\ \A s, t \in Threads : Parsing(s) /\ Parsing(t) /\ job[s] = job[t] => s = t
  /\ \A b \in Bundles : status[b] = "waiting" => raised[b] = {}
  /\ \A b \in Bundles : status[b] # "reported" => report[b] = <<>>
  /\ \A t \in Threads : phase[t] # "idle" => job[t] \in Bundles

Inv == TypeOK /\ ChannelConsistent /\ ReportIsOwn /\ OwnershipInv

LEMMA AppendValues ==
  ASSUME NEW S, NEW s \in Seq(S), NEW x \in S
  PROVE  /\ Append(s, x) \in Seq(S)
         /\ Values(Append(s, x)) = Values(s) \cup {x}
         /\ x \notin Values(s) /\ (\A m, n \in DOMAIN s : s[m] = s[n] => m = n) =>
              \A m, n \in DOMAIN Append(s, x) : Append(s, x)[m] = Append(s, x)[n] => m = n
<1> DEFINE r == Append(s, x)
<1>1. /\ DOMAIN r = 1..(Len(s) + 1) /\ DOMAIN s = 1..Len(s) /\ Len(s) \in Nat
      /\ \A n \in 1..Len(s) : r[n] = s[n]
      /\ r[Len(s) + 1] = x
  OBVIOUS
<1>2. r \in Seq(S)
  OBVIOUS
<1> HIDE DEF r
<1>3. Values(r) = Values(s) \cup {x}
  BY <1>1 DEF Values
<1>4. ASSUME x \notin Values(s), \A m, n \in DOMAIN s : s[m] = s[n] => m = n
      PROVE  \A m, n \in DOMAIN r : r[m] = r[n] => m = n
  BY <1>1, <1>4 DEF Values
<1> QED BY <1>2, <1>3, <1>4 DEF r

(* A step of one thread that leaves its cells and those of the others      *)
(* alone, or clears its own.                                               *)
LEMMA ClearedConsistent ==
  ASSUME TypeOK, ChannelConsistent, NEW t \in Threads,
         findings' = [findings EXCEPT ![t] = <<>>], seen' = [seen EXCEPT ![t] = {}]
  PROVE  /\ ChannelConsistent'
         /\ findings' \in [Threads -> Seq(Finding)] /\ seen' \in [Threads -> SUBSET Finding]
         /\ Values(findings'[t]) = {}
         /\ \A s \in Threads \ {t} : findings'[s] = findings[s]
<1>1. findings \in [Threads -> Seq(Finding)] /\ seen \in [Threads -> SUBSET Finding]
  BY DEF TypeOK
<1>2. Values(<<>>) = {} /\ DOMAIN <<>> = {} /\ <<>> \in Seq(Finding)
  BY DEF Values
<1>3. findings'[t] = <<>> /\ seen'[t] = {}
  BY <1>1
<1>4. \A s \in Threads \ {t} : findings'[s] = findings[s] /\ seen'[s] = seen[s]
  BY <1>1
<1>5. ASSUME NEW s \in Threads
      PROVE  /\ seen'[s] = Values(findings'[s])
             /\ \A m, n \in DOMAIN findings'[s] : findings'[s][m] = findings'[s][n] => m = n
  <2>1. CASE s = t
    BY <1>2, <1>3, <2>1
  <2>2. CASE s # t
    BY <1>4, <2>2 DEF ChannelConsistent
  <2> QED BY <2>1, <2>2
<1>6. ChannelConsistent'
  BY <1>5 DEF ChannelConsistent
<1>7. findings' \in [Threads -> Seq(Finding)] /\ seen' \in [Threads -> SUBSET Finding]
  BY <1>1, <1>2
<1> QED BY <1>2, <1>3, <1>4, <1>6, <1>7

LEMMA InvInit == Init => Inv
<1> SUFFICES ASSUME Init PROVE Inv
  OBVIOUS
<1>1. Values(<<>>) = {}
  BY DEF Values
<1> QED BY <1>1, FindingsAssumption
        DEF Init, Inv, TypeOK, ChannelConsistent, ReportIsOwn, OwnershipInv, Parsing

(* Taking a bundle discards what is left of the thread's last one. *)
LEMMA InvTake ==
  ASSUME Inv, NEW t \in Threads, NEW b \in Bundles, Take(t, b)
  PROVE  Inv'
<1>0. TypeOK /\ ChannelConsistent /\ ReportIsOwn /\ OwnershipInv
  BY DEF Inv
<1>1. /\ phase[t] = "idle" /\ status[b] = "waiting"
      /\ findings' = [findings EXCEPT ![t] = <<>>] /\ seen' = [seen EXCEPT ![t] = {}]
      /\ job' = [job EXCEPT ![t] = b] /\ phase' = [phase EXCEPT ![t] = "parse"]
      /\ emits' = [emits EXCEPT ![t] = 0] /\ status' = [status EXCEPT ![b] = "running"]
      /\ report' = report /\ raised' = raised
  BY DEF Take, discard_findings
<1>2. /\ ChannelConsistent' /\ Values(findings'[t]) = {}
      /\ findings' \in [Threads -> Seq(Finding)] /\ seen' \in [Threads -> SUBSET Finding]
      /\ \A s \in Threads \ {t} : findings'[s] = findings[s]
  BY <1>0, <1>1, ClearedConsistent
<1>3. /\ job'[t] = b /\ phase'[t] = "parse" /\ status'[b] = "running"
      /\ \A s \in Threads \ {t} : job'[s] = job[s] /\ phase'[s] = phase[s]
      /\ \A c \in Bundles \ {b} : status'[c] = status[c]
  BY <1>0, <1>1 DEF TypeOK
<1>4. TypeOK'
  BY <1>0, <1>1, <1>2, <1>3, FindingsAssumption DEF TypeOK
<1>5. \A s \in Threads \ {t} : Parsing(s) => job[s] # b
  BY <1>0, <1>1 DEF OwnershipInv
<1>6. OwnershipInv'
  BY <1>0, <1>1, <1>3, <1>5 DEF OwnershipInv, Parsing
<1>7. ReportIsOwn'
  <2>1. ASSUME NEW s \in Threads, phase'[s] \in {"parse", "parsed"}
        PROVE  Values(findings'[s]) = raised'[job'[s]]
    <3>1. CASE s = t
      <4>1. raised[b] = {}
        BY <1>0, <1>1 DEF OwnershipInv
      <4> QED BY <1>1, <1>2, <1>3, <3>1, <4>1
    <3>2. CASE s # t
      BY <1>0, <1>1, <1>2, <1>3, <2>1, <3>2 DEF ReportIsOwn
    <3> QED BY <3>1, <3>2
  <2>2. ASSUME NEW c \in Bundles
        PROVE  Values(report'[c]) = IF status'[c] = "reported" THEN raised'[c] ELSE {}
    BY <1>0, <1>1, <1>3 DEF ReportIsOwn
  <2> QED BY <2>1, <2>2 DEF ReportIsOwn
<1> QED BY <1>2, <1>4, <1>6, <1>7 DEF Inv

(* Emitting adds a value to the channel and to what the bundle raised, or  *)
(* finds it in both.                                                       *)
LEMMA InvEmit ==
  ASSUME Inv, NEW t \in Threads, NEW f \in Finding, Emit(t, f)
  PROVE  Inv'
<1>0. TypeOK /\ ChannelConsistent /\ ReportIsOwn /\ OwnershipInv
  BY DEF Inv
<1>1. /\ phase[t] \in {"parse", "decompile"} /\ emits[t] < MaxEmits
      /\ emits' = [emits EXCEPT ![t] = @ + 1]
      /\ raised' = IF phase[t] = "parse" THEN [raised EXCEPT ![job[t]] = @ \cup {f}] ELSE raised
      /\ UNCHANGED <<job, phase, status, report>>
  BY DEF Emit
<1>2. /\ findings'[t] \in Seq(Finding) /\ seen'[t] \in SUBSET Finding
      /\ Values(findings'[t]) = Values(findings[t]) \cup {f}
      /\ seen'[t] = Values(findings'[t])
      /\ \A m, n \in DOMAIN findings'[t] : findings'[t][m] = findings'[t][n] => m = n
      /\ \A s \in Threads \ {t} : findings'[s] = findings[s] /\ seen'[s] = seen[s]
      /\ findings' \in [Threads -> Seq(Finding)] /\ seen' \in [Threads -> SUBSET Finding]
  <2>1. findings \in [Threads -> Seq(Finding)] /\ seen \in [Threads -> SUBSET Finding]
    BY <1>0 DEF TypeOK
  <2>2. /\ seen[t] = Values(findings[t])
        /\ \A m, n \in DOMAIN findings[t] : findings[t][m] = findings[t][n] => m = n
    BY <1>0 DEF ChannelConsistent
  <2>3. CASE f \in seen[t]
    <3>1. findings' = findings /\ seen' = seen
      BY <2>3 DEF Emit, emit_finding, channel
    <3> QED BY <2>1, <2>2, <2>3, <3>1
  <2>4. CASE f \notin seen[t]
    <3>1. /\ seen' = [seen EXCEPT ![t] = @ \cup {f}]
          /\ findings' = [findings EXCEPT ![t] = Append(@, f)]
      BY <2>4 DEF Emit, emit_finding
    <3>2. /\ findings'[t] = Append(findings[t], f) /\ seen'[t] = seen[t] \cup {f}
          /\ \A s \in Threads \ {t} : findings'[s] = findings[s] /\ seen'[s] = seen[s]
      BY <2>1, <3>1
    <3>3. /\ Append(findings[t], f) \in Seq(Finding)
          /\ Values(Append(findings[t], f)) = Values(findings[t]) \cup {f}
          /\ \A m, n \in DOMAIN Append(findings[t], f) :
               Append(findings[t], f)[m] = Append(findings[t], f)[n] => m = n
      BY <2>1, <2>2, <2>4, AppendValues
    <3> QED BY <2>1, <2>2, <3>1, <3>2, <3>3
  <2> QED BY <2>3, <2>4
<1>3. ChannelConsistent'
  BY <1>0, <1>2 DEF ChannelConsistent
<1>4. job[t] \in Bundles
  BY <1>0, <1>1 DEF OwnershipInv
<1>5. TypeOK'
  <2>1. raised' \in [Bundles -> SUBSET Finding]
    BY <1>0, <1>1, <1>4 DEF TypeOK
  <2>2. emits' \in [Threads -> 0..MaxEmits]
    BY <1>0, <1>1, FindingsAssumption DEF TypeOK
  <2> QED BY <1>0, <1>1, <1>2, <2>1, <2>2 DEF TypeOK
<1>6. \A b \in Bundles : raised'[b] = IF phase[t] = "parse" /\ b = job[t]
                                      THEN raised[b] \cup {f} ELSE raised[b]
  BY <1>0, <1>1, <1>4 DEF TypeOK
<1>7. phase[t] = "parse" => Parsing(t) /\ status[job[t]] = "running"
  BY <1>0 DEF OwnershipInv, Parsing
<1>8. OwnershipInv'
  BY <1>0, <1>1, <1>6, <1>7 DEF OwnershipInv, Parsing
<1>9. ReportIsOwn'
  <2>1. ASSUME NEW s \in Threads, phase[s] \in {"parse", "parsed"}
        PROVE  Values(findings'[s]) = raised'[job[s]]
    <3>1. job[s] \in Bundles /\ Values(findings[s]) = raised[job[s]] /\ Parsing(s)
      BY <1>0, <2>1 DEF OwnershipInv, ReportIsOwn, Parsing
    <3>2. CASE s = t
      BY <1>1, <1>2, <1>6, <2>1, <3>1, <3>2
    <3>3. CASE s # t
      <4>1. ~(phase[t] = "parse" /\ job[s] = job[t])
        BY <1>0, <1>7, <3>1, <3>3 DEF OwnershipInv
      <4> QED BY <1>2, <1>6, <3>1, <3>3, <4>1
    <3> QED BY <3>2, <3>3
  <2>2. ASSUME NEW b \in Bundles
        PROVE  Values(report[b]) = IF status[b] = "reported" THEN raised'[b] ELSE {}
    BY <1>0, <1>6, <1>7 DEF ReportIsOwn
  <2> QED BY <1>1, <2>1, <2>2 DEF ReportIsOwn
<1> QED BY <1>3, <1>5, <1>8, <1>9 DEF Inv

(* The end of a parse, its drain and the end of the work on a bundle. *)
LEMMA InvWorker ==
  ASSUME Inv, NEW t \in Threads, ParseOk(t) \/ ParseErr(t) \/ Drain(t) \/ Finish(t)
  PROVE  Inv'
<1>0. TypeOK /\ ChannelConsistent /\ ReportIsOwn /\ OwnershipInv
  BY DEF Inv
<1>1. CASE ParseOk(t)
  <2>1. /\ phase[t] = "parse" /\ phase' = [phase EXCEPT ![t] = "parsed"]
        /\ UNCHANGED <<findings, seen, job, emits, status, report, raised>>
    BY <1>1 DEF ParseOk, channel
  <2>2. TypeOK' /\ ChannelConsistent'
    BY <1>0, <2>1 DEF TypeOK, ChannelConsistent
  <2>3. \A s \in Threads : phase'[s] = IF s = t THEN "parsed" ELSE phase[s]
    BY <1>0, <2>1 DEF TypeOK
  <2>4. OwnershipInv' /\ ReportIsOwn'
    BY <1>0, <2>1, <2>3 DEF OwnershipInv, Parsing, ReportIsOwn
  <2> QED BY <2>2, <2>4 DEF Inv
<1>2. CASE ParseErr(t)
  <2>1. /\ phase[t] = "parse" /\ phase' = [phase EXCEPT ![t] = "idle"]
        /\ status' = [status EXCEPT ![job[t]] = "failed"]
        /\ job' = [job EXCEPT ![t] = NoBundle]
        /\ UNCHANGED <<findings, seen, emits, report, raised>>
    BY <1>2 DEF ParseErr, channel
  <2>2. job[t] \in Bundles /\ status[job[t]] = "running" /\ Parsing(t)
    BY <1>0, <2>1 DEF OwnershipInv, Parsing
  <2>3. /\ \A s \in Threads : phase'[s] = IF s = t THEN "idle" ELSE phase[s]
        /\ \A s \in Threads : job'[s] = IF s = t THEN NoBundle ELSE job[s]
        /\ \A b \in Bundles : status'[b] = IF b = job[t] THEN "failed" ELSE status[b]
    BY <1>0, <2>1, <2>2 DEF TypeOK
  <2>4. TypeOK' /\ ChannelConsistent'
    BY <1>0, <2>1, <2>2, <2>3 DEF TypeOK, ChannelConsistent
  <2>5. \A s \in Threads \ {t} : Parsing(s) => job[s] # job[t]
    BY <1>0, <2>2 DEF OwnershipInv
  <2>6. OwnershipInv' /\ ReportIsOwn'
    BY <1>0, <2>1, <2>2, <2>3, <2>5 DEF OwnershipInv, Parsing, ReportIsOwn
  <2> QED BY <2>4, <2>6 DEF Inv
<1>3. CASE Drain(t)
  <2>1. /\ phase[t] = "parsed" /\ phase' = [phase EXCEPT ![t] = "decompile"]
        /\ status' = [status EXCEPT ![job[t]] = "reported"]
        /\ report' = [report EXCEPT ![job[t]] = findings[t]]
        /\ findings' = [findings EXCEPT ![t] = <<>>] /\ seen' = [seen EXCEPT ![t] = {}]
        /\ emits' = [emits EXCEPT ![t] = 0] /\ UNCHANGED <<job, raised>>
    BY <1>3 DEF Drain, drain_findings
  <2>2. job[t] \in Bundles /\ status[job[t]] = "running" /\ Parsing(t)
    BY <1>0, <2>1 DEF OwnershipInv, Parsing
  <2>3. /\ \A s \in Threads : phase'[s] = IF s = t THEN "decompile" ELSE phase[s]
        /\ \A b \in Bundles : status'[b] = IF b = job[t] THEN "reported" ELSE status[b]
        /\ \A b \in Bundles : report'[b] = IF b = job[t] THEN findings[t] ELSE report[b]
    BY <1>0, <2>1, <2>2 DEF TypeOK
  <2>4. /\ ChannelConsistent'
        /\ findings' \in [Threads -> Seq(Finding)] /\ seen' \in [Threads -> SUBSET Finding]
        /\ \A s \in Threads \ {t} : findings'[s] = findings[s]
    BY <1>0, <2>1, ClearedConsistent
  <2>5. TypeOK'
    <3>1. report' \in [Bundles -> Seq(Finding)]
      BY <1>0, <2>1, <2>2 DEF TypeOK
    <3> QED BY <1>0, <2>1, <2>2, <2>3, <2>4, <3>1, FindingsAssumption DEF TypeOK
  <2>6. \A s \in Threads \ {t} : Parsing(s) => job[s] # job[t]
    BY <1>0, <2>2 DEF OwnershipInv
  <2>7. Values(findings[t]) = raised[job[t]]
    BY <1>0, <2>1 DEF ReportIsOwn
  <2>8. OwnershipInv'
    BY <1>0, <2>1, <2>2, <2>3, <2>6 DEF OwnershipInv, Parsing
  <2>9. ReportIsOwn'
    BY <1>0, <2>1, <2>2, <2>3, <2>4, <2>6, <2>7 DEF ReportIsOwn, Parsing
  <2> QED BY <2>4, <2>5, <2>8, <2>9 DEF Inv
<1>4. CASE Finish(t)
  <2>1. /\ phase[t] = "decompile" /\ phase' = [phase EXCEPT ![t] = "idle"]
        /\ job' = [job EXCEPT ![t] = NoBundle]
        /\ UNCHANGED <<findings, seen, emits, status, report, raised>>
    BY <1>4 DEF Finish, channel
  <2>2. /\ \A s \in Threads : phase'[s] = IF s = t THEN "idle" ELSE phase[s]
        /\ \A s \in Threads : job'[s] = IF s = t THEN NoBundle ELSE job[s]
    BY <1>0, <2>1 DEF TypeOK
  <2>3. TypeOK' /\ ChannelConsistent'
    BY <1>0, <2>1, <2>2 DEF TypeOK, ChannelConsistent
  <2>4. OwnershipInv' /\ ReportIsOwn'
    BY <1>0, <2>1, <2>2 DEF OwnershipInv, Parsing, ReportIsOwn
  <2> QED BY <2>3, <2>4 DEF Inv
<1> QED BY <1>1, <1>2, <1>3, <1>4

LEMMA InvStep == Inv /\ [Next]_vars => Inv'
<1> SUFFICES ASSUME Inv, [Next]_vars PROVE Inv'
  OBVIOUS
<1>1. CASE UNCHANGED vars
  BY <1>1 DEF vars, channel, Inv, TypeOK, ChannelConsistent, ReportIsOwn, OwnershipInv, Parsing
<1>2. CASE Next
  BY <1>2, InvTake, InvEmit, InvWorker DEF Next, Worker
<1> QED BY <1>1, <1>2

(* The thread-local cells, the jobs and the reports keep their types        *)
(* through every emission, unwinding and drain.                            *)
THEOREM TypeCorrect == Spec => []TypeOK
<1>1. Inv => TypeOK
  BY DEF Inv
<1> QED BY <1>1, InvInit, InvStep, PTL DEF Spec

(* SEEN and FINDINGS never disagree, on any thread. *)
THEOREM ConsistentCorrect == Spec => []ChannelConsistent
<1>1. Inv => ChannelConsistent
  BY DEF Inv
<1> QED BY <1>1, InvInit, InvStep, PTL DEF Spec

(* A report holds all its bundle raised and nothing from another bundle,   *)
(* however many bundles a thread worked on before and however those ended. *)
THEOREM ReportCorrect == Spec => []ReportIsOwn
<1>1. Inv => ReportIsOwn
  BY DEF Inv
<1> QED BY <1>1, InvInit, InvStep, PTL DEF Spec

-----------------------------------------------------------------------------
(* The channel implements per-bundle reports.  A running bundle is parsed  *)
(* by one thread, so its log is that thread's FINDINGS.                    *)

LogFacts ==
  /\ \A t \in Threads : Parsing(t) => ReportLog[job[t]] = findings[t]
  /\ \A b \in Bundles : (\A t \in Threads : Parsing(t) => job[t] # b) =>
       ReportLog[b] = report[b]

LEMMA LogIsFindings == Inv => LogFacts
<1> SUFFICES ASSUME Inv PROVE LogFacts
  OBVIOUS
<1>0. OwnershipInv
  BY DEF Inv
<1>1. ASSUME NEW t \in Threads, Parsing(t) PROVE ReportLog[job[t]] = findings[t]
  <2>1. job[t] \in Bundles /\ t \in ParsingOn(job[t])
    BY <1>0, <1>1 DEF OwnershipInv, ParsingOn, Parsing
  <2>2. ParsingOn(job[t]) = {t}
    BY <1>0, <1>1, <2>1 DEF OwnershipInv, ParsingOn, Parsing
  <2>3. (CHOOSE s \in ParsingOn(job[t]) : TRUE) = t
    BY <2>2
  <2> QED BY <2>1, <2>3 DEF ReportLog
<1>2. ASSUME NEW b \in Bundles, \A t \in Threads : Parsing(t) => job[t] # b
      PROVE  ReportLog[b] = report[b]
  <2>1. ParsingOn(b) = {}
    BY <1>2 DEF ParsingOn, Parsing
  <2> QED BY <2>1 DEF ReportLog
<1> QED BY <1>1, <1>2 DEF LogFacts

LEMMA LogIsFindingsNext == (Inv => LogFacts)'
BY LogIsFindings, PTL

LEMMA ReportsInit == Init => Reports!Init
<1> SUFFICES ASSUME Init PROVE Reports!Init
  OBVIOUS
<1>1. \A b \in Bundles : ParsingOn(b) = {}
  BY DEF Init, ParsingOn
<1>2. ReportLog = [b \in Bundles |-> <<>>]
  BY <1>1 DEF Init, ReportLog
<1>3. ReportStatus = [b \in Bundles |-> "waiting"]
  BY DEF Init, ReportStatus
<1> QED BY <1>2, <1>3 DEF Reports!Init

(* A bundle that was being parsed gets its new status. *)
LEMMA StatusMoves ==
  ASSUME TypeOK, NEW b \in Bundles, status[b] = "running",
         NEW s, s # "running", status' = [status EXCEPT ![b] = s]
  PROVE  /\ ReportStatus' = [ReportStatus EXCEPT ![b] = s]
         /\ ReportStatus[b] = "parsing"
<1>1. /\ status'[b] = s
      /\ \A c \in Bundles \ {b} : status'[c] = status[c]
  BY DEF TypeOK
<1>2. ReportStatus'[b] = s /\ ReportStatus[b] = "parsing"
  BY <1>1 DEF ReportStatus
<1>3. \A c \in Bundles \ {b} : ReportStatus'[c] = ReportStatus[c]
  BY <1>1 DEF ReportStatus
<1>4. DOMAIN ReportStatus = Bundles /\ DOMAIN ReportStatus' = Bundles
  BY DEF ReportStatus
<1>5. ReportStatus' = [c \in Bundles |-> ReportStatus'[c]]
  BY DEF ReportStatus
<1>6. [ReportStatus EXCEPT ![b] = s] = [c \in Bundles |-> IF c = b THEN s ELSE ReportStatus[c]]
  BY <1>4
<1> QED BY <1>2, <1>3, <1>5, <1>6

(* A log equals another one when they agree on each bundle. *)
LEMMA LogEqual ==
  ASSUME NEW b \in Bundles, NEW x, ReportLog'[b] = x,
         \A c \in Bundles \ {b} : ReportLog'[c] = ReportLog[c]
  PROVE  ReportLog' = [ReportLog EXCEPT ![b] = x]
<1>1. ReportLog = [c \in Bundles |-> ReportLog[c]]
  BY DEF ReportLog
<1>2. ReportLog' = [c \in Bundles |-> ReportLog'[c]]
  BY DEF ReportLog
<1> QED BY <1>1, <1>2

LEMMA ReportsStep ==
  ASSUME Inv, Inv', Next
  PROVE  Reports!Next \/ UNCHANGED <<ReportStatus, ReportLog>>
<1>0. TypeOK /\ ChannelConsistent /\ OwnershipInv /\ TypeOK' /\ LogFacts /\ LogFacts'
  BY LogIsFindings, LogIsFindingsNext DEF Inv
<1>1. ASSUME NEW t \in Threads, NEW b \in Bundles, Take(t, b) PROVE Reports!Begin(b)
  <2>1. /\ phase[t] = "idle" /\ status[b] = "waiting"
        /\ findings' = [findings EXCEPT ![t] = <<>>]
        /\ job' = [job EXCEPT ![t] = b] /\ phase' = [phase EXCEPT ![t] = "parse"]
        /\ status' = [status EXCEPT ![b] = "running"] /\ report' = report
    BY <1>1 DEF Take, discard_findings
  <2>2. /\ job'[t] = b /\ phase'[t] = "parse" /\ findings'[t] = <<>>
        /\ \A s \in Threads \ {t} : /\ job'[s] = job[s] /\ phase'[s] = phase[s]
                                    /\ findings'[s] = findings[s]
    BY <1>0, <2>1 DEF TypeOK
  <2>3. \A s \in Threads : Parsing(s) => job[s] # b
    BY <1>0, <2>1 DEF OwnershipInv
  <2>4. ReportLog[b] = <<>> /\ ReportLog'[b] = <<>>
    BY <1>0, <2>1, <2>2, <2>3 DEF LogFacts, OwnershipInv, Parsing
  <2>5. ASSUME NEW c \in Bundles, c # b PROVE ReportLog'[c] = ReportLog[c]
    BY <1>0, <2>1, <2>2, <2>5 DEF LogFacts, Parsing
  <2>6. ReportLog' = ReportLog
    BY <2>4, <2>5 DEF ReportLog
  <2>7. ReportStatus' = [ReportStatus EXCEPT ![b] = "parsing"] /\ ReportStatus[b] = "waiting"
    BY <1>0, <2>1 DEF ReportStatus, TypeOK
  <2> QED BY <2>6, <2>7 DEF Reports!Begin
<1>2. ASSUME NEW t \in Threads, NEW f \in Finding, Emit(t, f)
      PROVE  Reports!Next \/ UNCHANGED <<ReportStatus, ReportLog>>
  <2>1. /\ phase[t] \in {"parse", "decompile"} /\ UNCHANGED <<job, phase, status, report>>
        /\ emit_finding(t, f)
    BY <1>2 DEF Emit
  <2>2. ReportStatus' = ReportStatus
    BY <2>1 DEF ReportStatus
  <2>3. \A s \in Threads \ {t} : findings'[s] = findings[s]
    BY <1>0, <2>1 DEF TypeOK, emit_finding, channel
  <2>4. ASSUME NEW c \in Bundles, ~(Parsing(t) /\ job[t] = c) PROVE ReportLog'[c] = ReportLog[c]
    BY <1>0, <2>1, <2>3, <2>4 DEF LogFacts, Parsing
  <2>5. CASE phase[t] = "decompile"
    <3>1. ReportLog' = ReportLog
      BY <2>4, <2>5 DEF ReportLog, Parsing
    <3> QED BY <2>2, <3>1
  <2>6. CASE phase[t] = "parse"
    <3>1. /\ job[t] \in Bundles /\ status[job[t]] = "running" /\ Parsing(t)
          /\ ReportLog[job[t]] = findings[t] /\ ReportLog'[job[t]] = findings'[t]
      BY <1>0, <2>1, <2>6 DEF OwnershipInv, Parsing, LogFacts
    <3>2. CASE f \in seen[t]
      <4>1. findings' = findings
        BY <2>1, <3>2 DEF emit_finding, channel
      <4>2. ReportLog' = ReportLog
        BY <2>4, <3>1, <4>1 DEF ReportLog
      <4> QED BY <2>2, <4>2
    <3>3. CASE f \notin seen[t]
      <4>1. findings'[t] = Append(findings[t], f)
        BY <1>0, <2>1, <3>3 DEF emit_finding, TypeOK
      <4>2. f \notin {ReportLog[job[t]][n] : n \in DOMAIN ReportLog[job[t]]}
        BY <1>0, <3>1, <3>3 DEF ChannelConsistent, Values
      <4>3. ReportLog' = [ReportLog EXCEPT ![job[t]] = Append(findings[t], f)]
        BY <2>4, <3>1, <4>1, LogEqual
      <4>4. ReportStatus[job[t]] = "parsing"
        BY <3>1 DEF ReportStatus
      <4>5. Reports!Note(job[t], f)
        BY <2>2, <3>1, <4>2, <4>3, <4>4 DEF Reports!Note
      <4> QED BY <3>1, <4>5 DEF Reports!Next
    <3> QED BY <3>2, <3>3
  <2> QED BY <2>1, <2>5, <2>6
<1>3. ASSUME NEW t \in Threads, ParseOk(t) \/ Finish(t) PROVE UNCHANGED <<ReportStatus, ReportLog>>
  <2>1. UNCHANGED <<findings, status, report>>
    BY <1>3 DEF ParseOk, Finish, channel
  <2>2. \A s \in Threads : Parsing(s)' <=> Parsing(s)
    BY <1>0, <1>3 DEF ParseOk, Finish, Parsing, TypeOK
  <2>3. \A s \in Threads : Parsing(s) => job'[s] = job[s]
    BY <1>0, <1>3 DEF ParseOk, Finish, Parsing, TypeOK
  <2>4. ASSUME NEW c \in Bundles PROVE ReportLog'[c] = ReportLog[c]
    BY <1>0, <2>1, <2>2, <2>3 DEF LogFacts
  <2> QED BY <2>1, <2>4 DEF ReportLog, ReportStatus
<1>4. ASSUME NEW t \in Threads, ParseErr(t) PROVE Reports!Abort(job[t]) /\ job[t] \in Bundles
  <2>1. /\ phase[t] = "parse" /\ phase' = [phase EXCEPT ![t] = "idle"]
        /\ status' = [status EXCEPT ![job[t]] = "failed"]
        /\ job' = [job EXCEPT ![t] = NoBundle] /\ UNCHANGED <<findings, report>>
    BY <1>4 DEF ParseErr, channel
  <2>2. job[t] \in Bundles /\ status[job[t]] = "running" /\ Parsing(t)
    BY <1>0, <2>1 DEF OwnershipInv, Parsing
  <2>3. /\ ~Parsing(t)'
        /\ \A s \in Threads \ {t} : (Parsing(s)' <=> Parsing(s)) /\ job'[s] = job[s]
    BY <1>0, <2>1 DEF TypeOK, Parsing
  <2>4. \A s \in Threads \ {t} : Parsing(s) => job[s] # job[t]
    BY <1>0, <2>2 DEF OwnershipInv
  <2>5. ReportLog'[job[t]] = <<>>
    BY <1>0, <2>1, <2>2, <2>3, <2>4 DEF LogFacts, OwnershipInv
  <2>6. ASSUME NEW c \in Bundles, c # job[t] PROVE ReportLog'[c] = ReportLog[c]
    BY <1>0, <2>1, <2>3, <2>6 DEF LogFacts
  <2>7. ReportLog' = [ReportLog EXCEPT ![job[t]] = <<>>]
    BY <2>2, <2>5, <2>6, LogEqual
  <2>8. /\ ReportStatus' = [ReportStatus EXCEPT ![job[t]] = "failed"]
        /\ ReportStatus[job[t]] = "parsing"
    BY <1>0, <2>1, <2>2, StatusMoves
  <2> QED BY <2>2, <2>7, <2>8 DEF Reports!Abort
<1>5. ASSUME NEW t \in Threads, Drain(t) PROVE Reports!Succeed(job[t]) /\ job[t] \in Bundles
  <2>1. /\ phase[t] = "parsed" /\ phase' = [phase EXCEPT ![t] = "decompile"]
        /\ status' = [status EXCEPT ![job[t]] = "reported"]
        /\ report' = [report EXCEPT ![job[t]] = findings[t]]
        /\ findings' = [findings EXCEPT ![t] = <<>>] /\ UNCHANGED job
    BY <1>5 DEF Drain, drain_findings
  <2>2. job[t] \in Bundles /\ status[job[t]] = "running" /\ Parsing(t)
    BY <1>0, <2>1 DEF OwnershipInv, Parsing
  <2>3. /\ ~Parsing(t)'
        /\ \A s \in Threads \ {t} : (Parsing(s)' <=> Parsing(s)) /\ findings'[s] = findings[s]
        /\ report'[job[t]] = findings[t]
        /\ \A c \in Bundles \ {job[t]} : report'[c] = report[c]
    BY <1>0, <2>1, <2>2 DEF TypeOK, Parsing
  <2>4. \A s \in Threads \ {t} : Parsing(s) => job[s] # job[t]
    BY <1>0, <2>2 DEF OwnershipInv
  <2>5. ReportLog'[job[t]] = ReportLog[job[t]]
    BY <1>0, <2>1, <2>2, <2>3, <2>4 DEF LogFacts
  <2>6. ASSUME NEW c \in Bundles, c # job[t] PROVE ReportLog'[c] = ReportLog[c]
    BY <1>0, <2>1, <2>3, <2>6 DEF LogFacts
  <2>7. ReportLog' = ReportLog
    BY <2>5, <2>6 DEF ReportLog
  <2>8. /\ ReportStatus' = [ReportStatus EXCEPT ![job[t]] = "reported"]
        /\ ReportStatus[job[t]] = "parsing"
    BY <1>0, <2>1, <2>2, StatusMoves
  <2> QED BY <2>2, <2>7, <2>8 DEF Reports!Succeed
<1> QED BY <1>1, <1>2, <1>3, <1>4, <1>5 DEF Next, Worker, Reports!Next

(* The thread-local channel, pooled threads and failed parses implement    *)
(* one duplicate-free report per bundle.                                   *)
THEOREM ReportsImplemented == Spec => ImplementsReports
<1>1. Inv /\ Inv' /\ [Next]_vars => [Reports!Next]_<<ReportStatus, ReportLog>>
  <2> SUFFICES ASSUME Inv, Inv', [Next]_vars
               PROVE  Reports!Next \/ UNCHANGED <<ReportStatus, ReportLog>>
    OBVIOUS
  <2>1. CASE UNCHANGED vars
    BY <2>1 DEF vars, channel, ReportStatus, ReportLog, ParsingOn
  <2> QED BY <2>1, ReportsStep
<1> QED BY <1>1, ReportsInit, InvInit, InvStep, PTL DEF Spec, ImplementsReports, Reports!Spec

=============================================================================
