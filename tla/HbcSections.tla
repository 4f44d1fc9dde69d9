----------------------------- MODULE HbcSections -----------------------------
(***************************************************************************)
(* parser/mod.rs, parse_inner: the sections that follow the header, in     *)
(* file order, and the tables of strings read from them.                   *)
(*                                                                         *)
(* The contents of the tables are kept as sequences beside the bytes:      *)
(* file.kinds (runs), file.small and file.overflow (string entries),       *)
(* file.headers (small function headers, as sets of the bits that are 1),  *)
(* file.array (the bytes of the array buffer).                             *)
(* A section is [name, start, size].                                       *)
(***************************************************************************)
EXTENDS HbcHeader

(* The amplification gates: a count of entries must fit in the file        *)
(* (droidsaw_common::guard::bound_count).                                  *)
GatedCounts(hdr) ==
    {<<hdr.function_count, func_header_size(hdr.variant)>>, <<hdr.string_count, 4>>,
     <<hdr.overflow_string_count, 8>>, <<hdr.reg_exp_count, 8>>,
     <<hdr.string_kind_count, 4>>, <<hdr.identifier_count, 4>>,
     <<hdr.obj_shape_table_count, 8>>, <<hdr.big_int_count, 8>>,
     <<hdr.cjs_module_count, 8>>, <<hdr.function_source_count, 8>>}

CountError(file, hdr) ==
    CASE hdr.overflow_string_count > hdr.string_count ->
            "OverflowStringCountExceedsStringCount"
      [] hdr.overflow_string_count <= hdr.string_count
            /\ \E g \in GatedCounts(hdr) : g[1] * g[2] > file.len -> "BoundCountExceeded"
      [] OTHER -> "none"

(* The calls of section! and section_opt!, in order; opt sections of size  *)
(* 0 are not recorded.                                                     *)
Sec(name, size) == <<[name |-> name, size |-> size]>>

SecOpt(name, size) == IF size > 0 THEN Sec(name, size) ELSE <<>>

ObjectSections(hdr) ==
    SecOpt("ObjKeyBuffer", hdr.obj_key_buffer_size)
        \o SecOpt("ObjValueBuffer", hdr.obj_value_buffer_size)
        \o SecOpt("ObjShapeTable", hdr.obj_shape_table_count * 8)

BigIntSections(hdr) ==
    IF hdr.big_int_count > 0
    THEN Sec("BigIntTable", hdr.big_int_count * 8)
            \o Sec("BigIntStorage", hdr.big_int_storage_size)
    ELSE <<>>

RegExpSections(hdr) ==
    IF hdr.reg_exp_count > 0
    THEN Sec("RegExpTable", hdr.reg_exp_count * 8)
            \o SecOpt("RegExpStorage", hdr.reg_exp_storage_size)
    ELSE <<>>

SectionCalls(hdr) ==
    Sec("FunctionHeaders", hdr.function_count * func_header_size(hdr.variant))
        \o Sec("StringKinds", hdr.string_kind_count * 4)
        \o Sec("IdentifierHashes", hdr.identifier_count * 4)
        \o Sec("SmallStringTable", hdr.string_count * 4)
        \o Sec("OverflowStringTable", hdr.overflow_string_count * 8)
        \o Sec("StringStorage", hdr.string_storage_size)
        \o SecOpt("ArrayBuffer", hdr.array_buffer_size)
        \o ObjectSections(hdr)
        \o BigIntSections(hdr)
        \o RegExpSections(hdr)
        \o SecOpt("CJSModules", hdr.cjs_module_count * 8)
        \o SecOpt("FunctionSourceTable", hdr.function_source_count * 8)

(* Variant: a cursor on a boundary is moved to the next one.               *)
next4(n) == (n \div 4) * 4 + 4

align4(n) == ((n + 3) \div 4) * 4

HeaderSection == [name |-> "Header", start |-> 0, size |-> HEADER_SIZE]

SectionNamed(sections, name) ==
    LET at == SelectInSeq(sections, LAMBDA s : s.name = name)
    IN  IF at = 0 THEN [name |-> name, start |-> 0, size |-> 0] ELSE sections[at]

(* Where function bodies may lie: up to the debug info when its offset is  *)
(* inside the file.                                                        *)
bytecode_region(file, hdr, cursor) ==
    LET end == IF hdr.debug_info_offset \in 1 .. file.len
               THEN hdr.debug_info_offset ELSE file.len
    IN  IF end >= cursor THEN <<cursor, end>> ELSE <<cursor, cursor>>

-----------------------------------------------------------------------------
(* Variant: the split of a word before version 72, for every version.      *)
OldRun(version, word) == [count |-> word.low, kind |-> word.b30 + 2 * word.b31]

(* A run of string kinds is a word: 30 bits, then bits 30 and 31; from     *)
(* version 72 on bit 30 belongs to the count.                              *)
BIT_30 == 1073741824

Run(version, word) ==
    IF version >= 72
    THEN [count |-> word.low + word.b30 * BIT_30, kind |-> word.b31]
    ELSE [count |-> word.low, kind |-> word.b30 + 2 * word.b31]

(* The map is filled run by run until it is full; what no run covers is 0. *)
Covered(runs) ==
    LET covered[i \in 0 .. Len(runs)] ==
            IF i = 0 THEN 0 ELSE covered[i - 1] + runs[i].count
    IN  covered

KindsOf(runs, strings) ==
    LET covered == Covered(runs)
        Covering(s) == {i \in DOMAIN runs : covered[i - 1] < s /\ s <= covered[i]}
    IN  [s \in 1 .. strings |->
            IF Covering(s) = {} THEN 0 ELSE runs[CHOOSE i \in Covering(s) : TRUE].kind]

string_kind_map(file, hdr) ==
    KindsOf([i \in 1 .. hdr.string_kind_count |-> Run(hdr.version, file.kinds[i])],
            hdr.string_count)

(* string_get, of string s + 1 of the file: its extent and kind, nothing   *)
(* for an index past the table, or the error.                              *)
Text(offset, len, kind, utf16) ==
    [result |-> "Some", offset |-> offset, len |-> len, kind |-> kind, is_utf16 |-> utf16]

string_get(file, hdr, sections, kinds, s) ==
    IF s > hdr.string_count THEN [result |-> "None"]
    ELSE
    LET small == file.small[s]
        routed == small.length = 255
        entry == IF routed THEN file.overflow[small.offset + 1] ELSE small
        bytes == IF small.utf16 THEN 2 * entry.length ELSE entry.length
        storage == SectionNamed(sections, "StringStorage")
        start == storage.start + entry.offset
    IN  CASE routed /\ small.offset >= hdr.overflow_string_count ->
                [result |-> "OverflowIndexOutOfRange"]
          [] ~(routed /\ small.offset >= hdr.overflow_string_count) ->
                CASE entry.length = 0 -> Text(0, 0, kinds[s], small.utf16)
                  [] entry.length > 0 /\ start + bytes > storage.start + storage.size ->
                        [result |-> "StringStorageEndExceedsBuffer"]
                  [] OTHER -> Text(start, bytes, kinds[s], small.utf16)

(* string_as_str: which bytes of the file the string is decoded from.      *)
string_as_str(file, hdr, sections, kinds, s) ==
    LET sd == string_get(file, hdr, sections, kinds, s)
    IN  IF sd.result = "Some" /\ sd.len > 0 /\ sd.offset = 0
        THEN [result |-> "ZeroOffsetWithLength"] ELSE sd

=============================================================================
