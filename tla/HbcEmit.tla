------------------------------- MODULE HbcEmit -------------------------------
(***************************************************************************)
(* emit.rs: a parsed file is written back.  The header and the tables emit *)
(* knows are rebuilt from the parsed fields, everything else is copied     *)
(* from the file.  A word of the rebuilt header is a field, the file's     *)
(* length, or the word of the source at that place ("copy").               *)
(***************************************************************************)
EXTENDS HbcSections

Copied == <<"copy">>

EmittedCounts ==
    <<"function_count", "string_kind_count", "identifier_count", "string_count",
      "overflow_string_count", "string_storage_size">>

Rest(fields, n) == fields \o [i \in 1 .. n - Len(fields) |-> "copy"]

(* emit_header_v84, emit_header_v96, emit_header_v98: the words from byte  *)
(* 32 to the end of the header.                                            *)
emit_header_v84(variant) ==
    Rest(<<"file_length", "copy">> \o EmittedCounts \o RegExps \o Buffers
            \o <<"obj_value_buffer_size", "copy", "cjs_module_count">> \o Sources, 24)

emit_header_v96(variant) ==
    Rest(<<"file_length", "copy">> \o EmittedCounts \o BigInts \o RegExps \o Buffers
            \o <<"obj_value_buffer_size", "copy", "cjs_module_count">> \o Sources, 24)

emit_header_v98(variant) ==
    Rest(<<"file_length", "copy">> \o EmittedCounts \o BigInts \o RegExps \o Buffers
            \o <<"obj_shape_table_count">>
            \o (IF use_v99_func_header(variant) THEN Copied ELSE <<>>)
            \o <<"copy", "cjs_module_count">> \o Sources, 24)

(* What the accessors answer for a field: a size kept as the extent of its *)
(* section is 0 when the section was not parsed.                           *)
FieldValue(hdr, name) ==
    CASE name = "big_int_storage_size" /\ hdr.big_int_count = 0 -> 0
      [] ~(name = "big_int_storage_size" /\ hdr.big_int_count = 0) -> hdr[name]

(* The magic, the version and the 20 bytes of sourceHash are as they were. *)
EmitHeader(file, hdr, plan) ==
    [w \in 1 .. 32 |->
        IF w <= 8 THEN file.words[w]
        ELSE CASE plan[w - 8] = "copy" -> file.words[w]
               [] plan[w - 8] = "file_length" -> file.len
               [] plan[w - 8] \notin {"copy", "file_length"} ->
                     FieldValue(hdr, plan[w - 8])]

-----------------------------------------------------------------------------
(* A small function header is the set of its 1 bits.  It is taken apart    *)
(* into bit fields <<first, width>> and packed again; the last byte goes   *)
(* across as a byte.                                                       *)
Bits(entry, field) == {b - field[1] : b \in entry \cap (field[1] .. field[1] + field[2] - 1)}

bit_pack_u32(value, field) == {field[1] + b : b \in value \cap (0 .. field[2] - 1)}

V96Fields == <<<<0, 25>>, <<25, 7>>, <<32, 15>>, <<47, 17>>, <<64, 25>>, <<89, 31>>,
               <<120, 8>>>>

EarlyV98Fields == <<<<0, 25>>, <<25, 7>>, <<32, 15>>, <<47, 17>>, <<64, 24>>, <<88, 8>>>>

LateV98Fields == <<<<0, 25>>, <<25, 5>>, <<30, 2>>, <<32, 14>>, <<46, 8>>, <<54, 32>>,
                   <<86, 2>>, <<88, 8>>>>

(* raw_small_func_header_v96 and _v98: the fields an entry is read as.     *)
RawFields(variant) ==
    IF func_header_size(variant) = 16 THEN V96Fields
    ELSE IF use_v99_func_header(variant) THEN LateV98Fields ELSE EarlyV98Fields

(* emit_one_small_func_header_v96 and _v98: where they are written.        *)
PackedFields(variant) ==
    CASE variant \in {"V84to86", "V87to96"} ->
            <<<<0, 25>>, <<25, 7>>, <<32, 15>>, <<47, 17>>, <<64, 25>>, <<89, 31>>,
              <<120, 8>>>>
      [] variant = "V97toV98Early" ->
            <<<<0, 25>>, <<25, 7>>, <<32, 15>>, <<47, 17>>, <<64, 24>>, <<88, 8>>>>
      [] variant = "V98LateToV99" ->
            <<<<0, 25>>, <<25, 5>>, <<30, 2>>, <<32, 14>>, <<46, 8>>, <<54, 32>>,
              <<86, 2>>, <<88, 8>>>>

emit_function_headers(file, variant) ==
    [f \in DOMAIN file.headers |->
        UNION {bit_pack_u32(Bits(file.headers[f], RawFields(variant)[k]),
                            PackedFields(variant)[k]) : k \in DOMAIN RawFields(variant)}]

(* emit_hbc, emit_hbc_v84, emit_hbc_v98_or_v99: the file written, for the  *)
(* versions there is an emitter for.  Besides the headers, emit rebuilds   *)
(* the string tables, RegExpTable and ObjShapeTable entry by entry; an     *)
(* entry of theirs is left as it is here, though one of SmallStringTable   *)
(* is taken apart into 1, 23 and 8 bits and packed again.  The gaps        *)
(* between the rebuilt regions are copied.                                 *)
EmitVersions == {84, 96, 98, 99}

HeaderPlan(hdr) ==
    CASE hdr.version = 84 -> emit_header_v84(hdr.variant)
      [] hdr.version = 96 -> emit_header_v96(hdr.variant)
      [] hdr.version \in {98, 99} -> emit_header_v98(hdr.variant)

emit_hbc(file, hdr) ==
    [file EXCEPT !.words = EmitHeader(file, hdr, HeaderPlan(hdr)),
                 !.headers = emit_function_headers(file, hdr.variant)]

=============================================================================
