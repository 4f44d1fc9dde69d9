------------------------------- MODULE HbcReads ------------------------------
(***************************************************************************)
(* parser/round_trip.rs: the literal buffers of a file, and what reading   *)
(* those of a parsed file gives.                                           *)
(***************************************************************************)
EXTENDS LocationReads

(* parse_literal_buffer: groups of a tag byte (two when its top bit is     *)
(* set) and the payloads of its items.  Tags are numbers below 256, a      *)
(* payload byte is a byte like any other; an item is its tag and payload.  *)
Payload(type) ==
    CASE type \in {0, 16, 32, 96} -> 0     \* null, true, false, undefined
      [] type = 48 -> 8                    \* number
      [] type \in {64, 112} -> 4           \* string, integer
      [] type = 80 -> 2                    \* short string

RECURSIVE Items(_, _, _, _, _)

(* The items of one group from p on: those of the file, the truncation, or *)
(* the end of the buffer, which ends the group.                            *)
Items(buf, p, type, n, out) ==
    IF n = 0 \/ p > Len(buf) THEN [ok |-> TRUE, p |-> p, out |-> out]
    ELSE IF p + Payload(type) - 1 > Len(buf) THEN [ok |-> FALSE]
    ELSE Items(buf, p + Payload(type), type, n - 1,
               Append(out, <<type, SubSeq(buf, p, p + Payload(type) - 1)>>))

RECURSIVE Groups(_, _, _, _)

Groups(buf, p, remaining, out) ==
    IF remaining = 0 \/ p > Len(buf) \/ (buf[p] >= 128 /\ p + 1 > Len(buf))
    THEN [ok |-> TRUE, items |-> out]
    ELSE LET long == buf[p] >= 128
             count == IF long THEN (buf[p] % 16) * 256 + buf[p + 1] ELSE buf[p] % 16
             type == ((buf[p] \div 16) % 8) * 16
             take == IF remaining < count THEN remaining ELSE count
             group == Items(buf, IF long THEN p + 2 ELSE p + 1, type, take, out)
         IN  IF ~group.ok THEN [ok |-> FALSE, error |-> "TruncatedLiteralBuffer"]
             ELSE Groups(buf, group.p, remaining - take, group.out)

parse_literal_buffer(buf, offset, num_items) == Groups(buf, offset + 1, num_items, <<>>)

-----------------------------------------------------------------------------
(* README.md:137: "literal-buffer reads past end produce typed `Err`, not  *)
(* partial decode".  Reading the whole array buffer of a file as it was    *)
(* written gives all of its items when it gives a value at all.            *)
LiteralsReadBack ==
    AsWritten /\ pc = "parsed" =>
        LET items == W!LiteralItems(content.literals)
            read == parse_literal_buffer(file.array, 0, Len(items))
        IN  read.ok => read.items = items

=============================================================================
