------------------------------ MODULE HbcHeader ------------------------------
(***************************************************************************)
(* header.rs: the first 128 bytes of a file.  The version selects one of   *)
(* five layouts; version 98 has two, told apart by the options byte and    *)
(* the debug offset of each.                                               *)
(*                                                                         *)
(* A file is words, the header as 32 u32 (word w + 1 lies at byte 4 * w),  *)
(* and len, its length in bytes.  magic is FALSE when the first eight      *)
(* bytes are something else.  A projection of the header is hdr[name].     *)
(***************************************************************************)
EXTENDS Integers, SequencesExt

HEADER_SIZE == 128
MIN_SUPPORTED_VERSION == 40
MAX_SUPPORTED_VERSION == 100

OptionsEarly == 108
OptionsLate == 112

(* read_u32_le inside the header.                                          *)
HeaderWord(file, off) == file.words[off \div 4 + 1]

(* The u32 fields from byte 32 on, per variant.                            *)
Counts == <<"file_length", "global_code_index", "function_count", "string_kind_count",
            "identifier_count", "string_count", "overflow_string_count",
            "string_storage_size">>

BigInts == <<"big_int_count", "big_int_storage_size">>
RegExps == <<"reg_exp_count", "reg_exp_storage_size">>
Buffers == <<"array_buffer_size", "obj_key_buffer_size">>
Segments == <<"segment_id", "cjs_module_count">>
Sources == <<"function_source_count", "debug_info_offset">>

PreV84Fields ==
    Counts \o RegExps \o Buffers \o <<"obj_value_buffer_size">> \o Segments
        \o <<"debug_info_offset">>

V84to86Fields ==
    Counts \o RegExps \o Buffers \o <<"obj_value_buffer_size">> \o Segments \o Sources

V87to96Fields ==
    Counts \o BigInts \o RegExps \o Buffers \o <<"obj_value_buffer_size">> \o Segments
        \o Sources

V97toV98EarlyFields ==
    Counts \o BigInts \o RegExps \o Buffers \o <<"obj_shape_table_count">> \o Segments
        \o Sources

V98LateToV99Fields ==
    Counts \o BigInts \o RegExps \o Buffers
        \o <<"obj_shape_table_count", "num_string_switch_imms">> \o Segments \o Sources

HeaderFields(variant) ==
    CASE variant = "PreV84" -> PreV84Fields
      [] variant = "V84to86" -> V84to86Fields
      [] variant = "V87to96" -> V87to96Fields
      [] variant = "V97toV98Early" -> V97toV98EarlyFields
      [] variant = "V98LateToV99" -> V98LateToV99Fields

FieldNames == ToSet(V87to96Fields \o V98LateToV99Fields)

(* parse_pre_v84 .. parse_v98_late_to_v99, and the projections: a field    *)
(* the variant does not have is zero.                                      *)
parse_variant(file, variant, version) ==
    LET fields == HeaderFields(variant)
        place(name) == CHOOSE n \in DOMAIN fields : fields[n] = name
    IN  [name \in FieldNames \cup {"variant", "version"} |->
            CASE name = "variant" -> variant
              [] name = "version" -> version
              [] name \in FieldNames /\ Contains(fields, name) ->
                     HeaderWord(file, 28 + 4 * place(name))
              [] name \in FieldNames /\ ~Contains(fields, name) -> 0]

func_header_size(variant) ==
    IF variant \in {"PreV84", "V84to86", "V87to96"} THEN 16 ELSE 12

use_v99_func_header(variant) == variant = "V98LateToV99"

-----------------------------------------------------------------------------
(* The options byte is the low byte of its word; five bits of it must be 0. *)
OptionsByte(file, off) == HeaderWord(file, off) % 256

OptionsValid(file, off) == OptionsByte(file, off) < 8

(* Variant: any offset but zero is plausible.                              *)
NonZeroOffset(file, off) == off > 0 /\ off < file.len

PlausibleDebug(file, off) == off >= HEADER_SIZE /\ off < file.len

(* disambiguate_both_options_valid: "early", "late" or "ambiguous"; guess  *)
(* says that V98FormAmbiguous is reported.                                 *)
disambiguate_both_options_valid(file) ==
    LET late == PlausibleDebug(file, HeaderWord(file, 108))
        early == PlausibleDebug(file, HeaderWord(file, 104))
    IN  CASE late /\ ~early -> [form |-> "late", guess |-> FALSE]
          [] early /\ ~late -> [form |-> "early", guess |-> FALSE]
          [] early = late /\ HeaderWord(file, 40) > 0 ->
                [form |-> "ambiguous", guess |-> FALSE]
          [] early = late /\ HeaderWord(file, 40) = 0 -> [form |-> "early", guess |-> TRUE]

detect_late_v98_form(file) ==
    LET early == OptionsValid(file, OptionsEarly)
        late == OptionsValid(file, OptionsLate)
    IN  CASE ~early /\ ~late -> [form |-> "ambiguous", guess |-> FALSE]
          [] early /\ ~late -> [form |-> "early", guess |-> FALSE]
          [] ~early /\ late -> [form |-> "late", guess |-> FALSE]
          [] early /\ late -> disambiguate_both_options_valid(file)

Variant98 ==
    [early |-> "V97toV98Early", late |-> "V98LateToV99", ambiguous |-> "AmbiguousV98Form"]

(* parse_hbc_header: the error, or the variant.                            *)
Variant(file) ==
    LET version == HeaderWord(file, 8)
    IN  CASE file.len < HEADER_SIZE -> "HeaderTooSmall"
          [] file.len >= HEADER_SIZE /\ ~file.magic -> "InvalidMagic"
          [] OTHER ->
            (CASE version \notin MIN_SUPPORTED_VERSION .. MAX_SUPPORTED_VERSION ->
                     "UnsupportedVersion"
               [] version \in MIN_SUPPORTED_VERSION .. 83 -> "PreV84"
               [] version \in 84 .. 86 -> "V84to86"
               [] version \in 87 .. 96 -> "V87to96"
               [] version = 97 -> "V97toV98Early"
               [] version = 98 ->
                     Variant98[detect_late_v98_form(file).form]
               [] version \in 99 .. MAX_SUPPORTED_VERSION -> "V98LateToV99")

HeaderErrors == {"HeaderTooSmall", "InvalidMagic", "UnsupportedVersion", "AmbiguousV98Form"}

=============================================================================
