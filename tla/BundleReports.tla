---------------------------- MODULE BundleReports ----------------------------
(***************************************************************************)
(* What the finding channel promises the user of the library: each bundle  *)
(* whose parse succeeds is reported with its own findings, each once and   *)
(* in the order the parse met them first; a bundle whose parse fails is    *)
(* reported with none.  No thread appears here.                            *)
(***************************************************************************)
EXTENDS Sequences

CONSTANTS Bundles, Finding

VARIABLES status,   \* bundle -> waiting, parsing, reported or failed
          log       \* bundle -> its findings so far, then its report

TypeOK ==
  /\ status \in [Bundles -> {"waiting", "parsing", "reported", "failed"}]
  /\ log \in [Bundles -> Seq(Finding)]

Init ==
  /\ status = [b \in Bundles |-> "waiting"]
  /\ log = [b \in Bundles |-> <<>>]

Begin(b) ==
  /\ status[b] = "waiting"
  /\ status' = [status EXCEPT ![b] = "parsing"]
  /\ UNCHANGED log

Note(b, f) ==
  /\ status[b] = "parsing"
  /\ f \notin {log[b][n] : n \in DOMAIN log[b]}
  /\ log' = [log EXCEPT ![b] = Append(@, f)]
  /\ UNCHANGED status

Succeed(b) ==
  /\ status[b] = "parsing"
  /\ status' = [status EXCEPT ![b] = "reported"]
  /\ UNCHANGED log

Abort(b) ==
  /\ status[b] = "parsing"
  /\ status' = [status EXCEPT ![b] = "failed"]
  /\ log' = [log EXCEPT ![b] = <<>>]

Next ==
  \E b \in Bundles :
     Begin(b) \/ Succeed(b) \/ Abort(b) \/ \E f \in Finding : Note(b, f)

Spec == Init /\ [][Next]_<<status, log>>

=============================================================================
