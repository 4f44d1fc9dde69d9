------------------------------- MODULE Findings -------------------------------
(***************************************************************************)
(* The finding channel of finding.rs: two thread-local cells, FINDINGS and *)
(* SEEN, shared by all the bundles a pooled thread works on one after the  *)
(* other.                                                                  *)
(*                                                                         *)
(* The caller is modelled from the contract the docs of drain_findings and *)
(* discard_findings state: a worker discards what is pending at the entry  *)
(* of a bundle, parses, drains once the parse has returned Ok, and may     *)
(* then decompile, which emits too.  A parse that returns Err leaves       *)
(* through `?', so nobody drains.  The RefCell is never borrowed during a  *)
(* call (nothing under the borrow emits), so each call is one step.        *)
(***************************************************************************)
EXTENDS Naturals, Sequences

CONSTANTS Threads,     \* the pooled worker threads
          Bundles,     \* the bundles to parse
          Finding,     \* values of HermesFinding
          MaxEmits,    \* bound on the emissions of one parse or decompile
          NoBundle     \* a worker with nothing to do

ASSUME FindingsAssumption == MaxEmits \in Nat /\ NoBundle \notin Bundles

VARIABLES findings,    \* thread -> FINDINGS
          seen,        \* thread -> SEEN
          job,         \* thread -> the bundle it works on
          phase,       \* thread -> idle, parse, parsed or decompile
          emits,       \* thread -> emissions of this phase so far
          status,      \* bundle -> waiting, running, reported or failed
          report,      \* bundle -> what the drain after its parse returned
          raised       \* history: bundle -> what its parse passed to emit_finding

channel == <<findings, seen>>
vars == <<channel, job, phase, emits, status, report, raised>>

Values(s) == {s[n] : n \in DOMAIN s}

-----------------------------------------------------------------------------
(* The four functions of the channel.                                      *)

(* Variant: FINDINGS is pushed before SEEN is asked. *)
EmitUnchecked(t, f) ==
  /\ seen' = [seen EXCEPT ![t] = @ \cup {f}]
  /\ findings' = [findings EXCEPT ![t] = Append(@, f)]

emit_finding(t, f) ==
  IF f \in seen[t] THEN UNCHANGED channel
  ELSE /\ seen' = [seen EXCEPT ![t] = @ \cup {f}]
       /\ findings' = [findings EXCEPT ![t] = Append(@, f)]

(* Variant: draining leaves SEEN as it is. *)
DrainKeepingSeen(t) ==
  /\ findings' = [findings EXCEPT ![t] = <<>>]
  /\ UNCHANGED seen

drain_findings(t) ==
  /\ findings' = [findings EXCEPT ![t] = <<>>]
  /\ seen' = [seen EXCEPT ![t] = {}]

(* Variant: discarding leaves SEEN as it is. *)
DiscardKeepingSeen(t) ==
  /\ findings' = [findings EXCEPT ![t] = <<>>]
  /\ UNCHANGED seen

discard_findings(t) ==
  /\ findings' = [findings EXCEPT ![t] = <<>>]
  /\ seen' = [seen EXCEPT ![t] = {}]

-----------------------------------------------------------------------------
(* A worker.                                                               *)

Take(t, b) ==
  /\ phase[t] = "idle" /\ status[b] = "waiting"
  /\ discard_findings(t)
  /\ job' = [job EXCEPT ![t] = b]
  /\ phase' = [phase EXCEPT ![t] = "parse"]
  /\ emits' = [emits EXCEPT ![t] = 0]
  /\ status' = [status EXCEPT ![b] = "running"]
  /\ UNCHANGED <<report, raised>>

Emit(t, f) ==
  /\ phase[t] \in {"parse", "decompile"} /\ emits[t] < MaxEmits
  /\ emit_finding(t, f)
  /\ emits' = [emits EXCEPT ![t] = @ + 1]
  /\ raised' = IF phase[t] = "parse" THEN [raised EXCEPT ![job[t]] = @ \cup {f}] ELSE raised
  /\ UNCHANGED <<job, phase, status, report>>

ParseOk(t) ==
  /\ phase[t] = "parse"
  /\ phase' = [phase EXCEPT ![t] = "parsed"]
  /\ UNCHANGED <<channel, job, emits, status, report, raised>>

(* Variant: the worker forgets to let go of the bundle. *)
ParseErrKeepingJob(t) ==
  /\ phase[t] = "parse"
  /\ status' = [status EXCEPT ![job[t]] = "failed"]
  /\ phase' = [phase EXCEPT ![t] = "idle"]
  /\ UNCHANGED <<channel, job, emits, report, raised>>

(* The worker returns through `?': nothing is drained. *)
ParseErr(t) ==
  /\ phase[t] = "parse"
  /\ status' = [status EXCEPT ![job[t]] = "failed"]
  /\ phase' = [phase EXCEPT ![t] = "idle"]
  /\ job' = [job EXCEPT ![t] = NoBundle]
  /\ UNCHANGED <<channel, emits, report, raised>>

Drain(t) ==
  /\ phase[t] = "parsed"
  /\ report' = [report EXCEPT ![job[t]] = findings[t]]
  /\ drain_findings(t)
  /\ status' = [status EXCEPT ![job[t]] = "reported"]
  /\ phase' = [phase EXCEPT ![t] = "decompile"]
  /\ emits' = [emits EXCEPT ![t] = 0]
  /\ UNCHANGED <<job, raised>>

Finish(t) ==
  /\ phase[t] = "decompile"
  /\ phase' = [phase EXCEPT ![t] = "idle"]
  /\ job' = [job EXCEPT ![t] = NoBundle]
  /\ UNCHANGED <<channel, emits, status, report, raised>>

-----------------------------------------------------------------------------
Init ==
  /\ findings = [t \in Threads |-> <<>>] /\ seen = [t \in Threads |-> {}]
  /\ job = [t \in Threads |-> NoBundle] /\ phase = [t \in Threads |-> "idle"]
  /\ emits = [t \in Threads |-> 0]
  /\ status = [b \in Bundles |-> "waiting"]
  /\ report = [b \in Bundles |-> <<>>] /\ raised = [b \in Bundles |-> {}]

Worker(t) ==
  \/ \E b \in Bundles : Take(t, b)
  \/ \E f \in Finding : Emit(t, f)
  \/ ParseOk(t) \/ ParseErr(t) \/ Drain(t) \/ Finish(t)

Next == \E t \in Threads : Worker(t)

Spec == Init /\ [][Next]_vars

-----------------------------------------------------------------------------
(* Properties.                                                             *)

(* The types of the two cells and of the workers: a worker is on a running *)
(* or reported bundle exactly when it is not idle.                         *)
TypeOK ==
  /\ findings \in [Threads -> Seq(Finding)] /\ seen \in [Threads -> SUBSET Finding]
  /\ job \in [Threads -> Bundles \cup {NoBundle}]
  /\ phase \in [Threads -> {"idle", "parse", "parsed", "decompile"}]
  /\ emits \in [Threads -> 0..MaxEmits]
  /\ status \in [Bundles -> {"waiting", "running", "reported", "failed"}]
  /\ report \in [Bundles -> Seq(Finding)] /\ raised \in [Bundles -> SUBSET Finding]
  /\ \A t \in Threads : phase[t] = "idle" <=> job[t] = NoBundle

(* SEEN holds exactly the values of FINDINGS, each there once, between any *)
(* two calls and on every thread: a value is never suppressed that is not  *)
(* pending, and never pending twice.                                       *)
ChannelConsistent ==
  \A t \in Threads :
    /\ seen[t] = Values(findings[t])
    /\ \A m, n \in DOMAIN findings[t] : findings[t][m] = findings[t][n] => m = n

(* The doc of discard_findings: no residue of an earlier bundle of the     *)
(* thread, parsed without success or decompiled, is attributed to the      *)
(* bundle it parses now, and none hides a finding of it.                   *)
ReportIsOwn ==
  /\ \A t \in Threads : phase[t] \in {"parse", "parsed"} =>
       Values(findings[t]) = raised[job[t]]
  /\ \A b \in Bundles :
       Values(report[b]) = IF status[b] = "reported" THEN raised[b] ELSE {}

(* Threads and their cells disappear: the log of a bundle is its thread's  *)
(* FINDINGS while the thread parses it, its report afterwards.             *)
ParsingOn(b) == {t \in Threads : job[t] = b /\ phase[t] \in {"parse", "parsed"}}

ReportStatus ==
  [b \in Bundles |-> IF status[b] = "running" THEN "parsing" ELSE status[b]]

ReportLog ==
  [b \in Bundles |-> IF ParsingOn(b) = {} THEN report[b]
                     ELSE findings[CHOOSE t \in ParsingOn(b) : TRUE]]

Reports == INSTANCE BundleReports WITH status <- ReportStatus, log <- ReportLog

(* Every behaviour of the channel is one of per-bundle reports.            *)
ImplementsReports == Reports!Spec

=============================================================================
