--------------------------- MODULE SourceLocations ---------------------------
(***************************************************************************)
(* parser/debug_info.rs, decode_source_locations: the stream of a debug    *)
(* section, as the integers it encodes, one byte each.                     *)
(***************************************************************************)
EXTENDS Integers, Sequences

CONSTANTS MaxPcEntries,   \* SOURCE_LOCATIONS_MAX_PC_ENTRIES
          MaxFunctions    \* SOURCE_LOCATIONS_MAX_FUNCTIONS

ASSUME SourceLocationsAssumption == MaxPcEntries \in Nat /\ MaxFunctions \in Nat

(* Variant: the environment is taken to be there from version 97 on.       *)
ScopeFieldsFrom97(version) ==
    IF version \in 94 .. 96 THEN 2 ELSE IF version >= 97 THEN 1 ELSE 0

(* decode_source_locations.  Pcs reads the entries from p on: addresses,   *)
(* lines and columns are deltas, the low bit of the line delta says that a *)
(* statement delta follows.  A negative address ends the function's        *)
(* entries; so does the cap, which bounds the rounds: each reads one entry *)
(* or is the last.                                                         *)

ScopeFields(version) ==
    IF version \in 94 .. 96 THEN 2 ELSE IF version >= 99 THEN 1 ELSE 0

Has(data, p) == p <= Len(data)

PcLength(data, p, version) ==
    3 + ScopeFields(version) + (IF data[p + 1] % 2 = 1 THEN 1 ELSE 0)

Advance(at, data, p, version) ==
    [address   |-> at.address + data[p],
     line      |-> at.line + data[p + 1] \div 2,
     column    |-> at.column + data[p + 2],
     statement |-> at.statement + (IF data[p + 1] % 2 = 1
                                   THEN data[p + 3 + ScopeFields(version)] ELSE 0)]

(* Positions are unsigned: what deltas take below zero is recorded as 0.   *)
Unsigned(n) == IF n < 0 THEN 0 ELSE n

Recorded(at) == [field \in DOMAIN at |-> Unsigned(at[field])]

(* One round of the loop over the entries of a function.                   *)
State(p, at, out, status) == [p |-> p, at |-> at, out |-> out, status |-> status]

Pc(s, data, version) ==
    IF s.status # "reading" THEN s
    ELSE IF ~Has(data, s.p) THEN State(s.p, s.at, s.out, "corrupt")
    ELSE IF data[s.p] < 0 THEN State(s.p + 1, s.at, s.out, "ended")
    ELSE IF ~Has(data, s.p + 1) \/ ~Has(data, s.p + PcLength(data, s.p, version) - 1)
         THEN State(s.p, s.at, s.out, "corrupt")
    ELSE LET next == Advance(s.at, data, s.p, version)
         IN  State(s.p + PcLength(data, s.p, version), next, Append(s.out, Recorded(next)),
                   "reading")

Pcs(data, p, version, at) ==
    LET start == State(p, at, <<>>, "reading")
        round[n \in 0 .. MaxPcEntries] ==
            IF n = 0 THEN start ELSE Pc(round[n - 1], data, version)
    IN  round[MaxPcEntries]

(* One round of the loop over the functions.  A function whose entries are *)
(* corrupt is the last one.                                                *)
Function(s, data, version) ==
    IF s.done \/ ~Has(data, s.p) \/ data[s.p] < 0 \/ ~Has(data, s.p + 2) THEN s
    ELSE LET line == Unsigned(data[s.p + 1])
             column == Unsigned(data[s.p + 2])
             start == [address |-> 0, line |-> line, column |-> column, statement |-> 0]
             pcs == Pcs(data, s.p + 3, version, start)
             entry == [function_index |-> data[s.p], start_line |-> line,
                       start_column |-> column, locations |-> pcs.out,
                       corrupt |-> pcs.status = "corrupt"]
         IN  [p |-> pcs.p, out |-> Append(s.out, entry), done |-> entry.corrupt]

Functions(data, version) ==
    LET start == [p |-> 1, out |-> <<>>, done |-> FALSE]
        round[n \in 0 .. MaxFunctions] ==
            IF n = 0 THEN start ELSE Function(round[n - 1], data, version)
    IN  round[MaxFunctions]

decode_source_locations(data, version) == Functions(data, version).out

(* HbcFile::source_locations                                               *)
source_locations(file, debug, version) ==
    IF debug.kind # "full" THEN <<>>
    ELSE decode_source_locations(SubSeq(file.debug.stream, 1, debug.locations[2]), version)

=============================================================================
