---------------------------- MODULE HbcFileProofs ----------------------------
(***************************************************************************)
(* Proofs about parse, emit and a second parse, for every set of files.    *)
(***************************************************************************)
EXTENDS HbcFile, Induction

-----------------------------------------------------------------------------
(* The layouts.  An index is a place in the header: word 8 + k.            *)

LEMMA FieldsV84 ==
  LET F == V84to86Fields
  IN  /\ DOMAIN F = 1..17
      /\ F[1] = "file_length" /\ F[2] = "global_code_index"
      /\ F[3] = "function_count" /\ F[4] = "string_kind_count"
      /\ F[5] = "identifier_count" /\ F[6] = "string_count"
      /\ F[7] = "overflow_string_count" /\ F[8] = "string_storage_size"
      /\ F[9] = "reg_exp_count" /\ F[10] = "reg_exp_storage_size"
      /\ F[11] = "array_buffer_size" /\ F[12] = "obj_key_buffer_size"
      /\ F[13] = "obj_value_buffer_size" /\ F[14] = "segment_id"
      /\ F[15] = "cjs_module_count" /\ F[16] = "function_source_count"
      /\ F[17] = "debug_info_offset"
BY DEF V84to86Fields, Counts, BigInts, RegExps, Buffers, Segments, Sources

LEMMA PlanV84 ==
  LET P == emit_header_v84("V84to86")
  IN  /\ \A k \in 18..24 : P[k] = "copy"
      /\ P[1] = "file_length" /\ P[2] = "copy" /\ P[3] = "function_count"
      /\ P[4] = "string_kind_count" /\ P[5] = "identifier_count"
      /\ P[6] = "string_count" /\ P[7] = "overflow_string_count"
      /\ P[8] = "string_storage_size" /\ P[9] = "reg_exp_count"
      /\ P[10] = "reg_exp_storage_size" /\ P[11] = "array_buffer_size"
      /\ P[12] = "obj_key_buffer_size" /\ P[13] = "obj_value_buffer_size"
      /\ P[14] = "copy" /\ P[15] = "cjs_module_count"
      /\ P[16] = "function_source_count" /\ P[17] = "debug_info_offset"
BY DEF emit_header_v84, Rest, Copied, EmittedCounts, BigInts, RegExps, Buffers, Sources,
       use_v99_func_header

LEMMA FieldsV96 ==
  LET F == V87to96Fields
  IN  /\ DOMAIN F = 1..19
      /\ F[1] = "file_length" /\ F[2] = "global_code_index"
      /\ F[3] = "function_count" /\ F[4] = "string_kind_count"
      /\ F[5] = "identifier_count" /\ F[6] = "string_count"
      /\ F[7] = "overflow_string_count" /\ F[8] = "string_storage_size"
      /\ F[9] = "big_int_count" /\ F[10] = "big_int_storage_size"
      /\ F[11] = "reg_exp_count" /\ F[12] = "reg_exp_storage_size"
      /\ F[13] = "array_buffer_size" /\ F[14] = "obj_key_buffer_size"
      /\ F[15] = "obj_value_buffer_size" /\ F[16] = "segment_id"
      /\ F[17] = "cjs_module_count" /\ F[18] = "function_source_count"
      /\ F[19] = "debug_info_offset"
BY DEF V87to96Fields, Counts, BigInts, RegExps, Buffers, Segments, Sources

LEMMA PlanV96 ==
  LET P == emit_header_v96("V87to96")
  IN  /\ \A k \in 20..24 : P[k] = "copy"
      /\ P[1] = "file_length" /\ P[2] = "copy" /\ P[3] = "function_count"
      /\ P[4] = "string_kind_count" /\ P[5] = "identifier_count"
      /\ P[6] = "string_count" /\ P[7] = "overflow_string_count"
      /\ P[8] = "string_storage_size" /\ P[9] = "big_int_count"
      /\ P[10] = "big_int_storage_size" /\ P[11] = "reg_exp_count"
      /\ P[12] = "reg_exp_storage_size" /\ P[13] = "array_buffer_size"
      /\ P[14] = "obj_key_buffer_size" /\ P[15] = "obj_value_buffer_size"
      /\ P[16] = "copy" /\ P[17] = "cjs_module_count"
      /\ P[18] = "function_source_count" /\ P[19] = "debug_info_offset"
BY DEF emit_header_v96, Rest, Copied, EmittedCounts, BigInts, RegExps, Buffers, Sources,
       use_v99_func_header

LEMMA FieldsEarly ==
  LET F == V97toV98EarlyFields
  IN  /\ DOMAIN F = 1..19
      /\ F[1] = "file_length" /\ F[2] = "global_code_index"
      /\ F[3] = "function_count" /\ F[4] = "string_kind_count"
      /\ F[5] = "identifier_count" /\ F[6] = "string_count"
      /\ F[7] = "overflow_string_count" /\ F[8] = "string_storage_size"
      /\ F[9] = "big_int_count" /\ F[10] = "big_int_storage_size"
      /\ F[11] = "reg_exp_count" /\ F[12] = "reg_exp_storage_size"
      /\ F[13] = "array_buffer_size" /\ F[14] = "obj_key_buffer_size"
      /\ F[15] = "obj_shape_table_count" /\ F[16] = "segment_id"
      /\ F[17] = "cjs_module_count" /\ F[18] = "function_source_count"
      /\ F[19] = "debug_info_offset"
BY DEF V97toV98EarlyFields, Counts, BigInts, RegExps, Buffers, Segments, Sources

LEMMA PlanEarly ==
  LET P == emit_header_v98("V97toV98Early")
  IN  /\ \A k \in 20..24 : P[k] = "copy"
      /\ P[1] = "file_length" /\ P[2] = "copy" /\ P[3] = "function_count"
      /\ P[4] = "string_kind_count" /\ P[5] = "identifier_count"
      /\ P[6] = "string_count" /\ P[7] = "overflow_string_count"
      /\ P[8] = "string_storage_size" /\ P[9] = "big_int_count"
      /\ P[10] = "big_int_storage_size" /\ P[11] = "reg_exp_count"
      /\ P[12] = "reg_exp_storage_size" /\ P[13] = "array_buffer_size"
      /\ P[14] = "obj_key_buffer_size" /\ P[15] = "obj_shape_table_count"
      /\ P[16] = "copy" /\ P[17] = "cjs_module_count"
      /\ P[18] = "function_source_count" /\ P[19] = "debug_info_offset"
BY DEF emit_header_v98, Rest, Copied, EmittedCounts, BigInts, RegExps, Buffers, Sources,
       use_v99_func_header

LEMMA FieldsLate ==
  LET F == V98LateToV99Fields
  IN  /\ DOMAIN F = 1..20
      /\ F[1] = "file_length" /\ F[2] = "global_code_index"
      /\ F[3] = "function_count" /\ F[4] = "string_kind_count"
      /\ F[5] = "identifier_count" /\ F[6] = "string_count"
      /\ F[7] = "overflow_string_count" /\ F[8] = "string_storage_size"
      /\ F[9] = "big_int_count" /\ F[10] = "big_int_storage_size"
      /\ F[11] = "reg_exp_count" /\ F[12] = "reg_exp_storage_size"
      /\ F[13] = "array_buffer_size" /\ F[14] = "obj_key_buffer_size"
      /\ F[15] = "obj_shape_table_count" /\ F[16] = "num_string_switch_imms"
      /\ F[17] = "segment_id" /\ F[18] = "cjs_module_count"
      /\ F[19] = "function_source_count" /\ F[20] = "debug_info_offset"
BY DEF V98LateToV99Fields, Counts, BigInts, RegExps, Buffers, Segments, Sources

LEMMA PlanLate ==
  LET P == emit_header_v98("V98LateToV99")
  IN  /\ \A k \in 21..24 : P[k] = "copy"
      /\ P[1] = "file_length" /\ P[2] = "copy" /\ P[3] = "function_count"
      /\ P[4] = "string_kind_count" /\ P[5] = "identifier_count"
      /\ P[6] = "string_count" /\ P[7] = "overflow_string_count"
      /\ P[8] = "string_storage_size" /\ P[9] = "big_int_count"
      /\ P[10] = "big_int_storage_size" /\ P[11] = "reg_exp_count"
      /\ P[12] = "reg_exp_storage_size" /\ P[13] = "array_buffer_size"
      /\ P[14] = "obj_key_buffer_size" /\ P[15] = "obj_shape_table_count"
      /\ P[16] = "copy" /\ P[17] = "copy" /\ P[18] = "cjs_module_count"
      /\ P[19] = "function_source_count" /\ P[20] = "debug_info_offset"
BY DEF emit_header_v98, Rest, Copied, EmittedCounts, BigInts, RegExps, Buffers, Sources,
       use_v99_func_header

(* Every field of a layout is a field of the header; the variant and the   *)
(* version are none.                                                       *)
LEMMA FieldNamesAll ==
  /\ \A k \in DOMAIN V84to86Fields : V84to86Fields[k] \in FieldNames
  /\ \A k \in DOMAIN V87to96Fields : V87to96Fields[k] \in FieldNames
  /\ \A k \in DOMAIN V97toV98EarlyFields : V97toV98EarlyFields[k] \in FieldNames
  /\ \A k \in DOMAIN V98LateToV99Fields : V98LateToV99Fields[k] \in FieldNames
  /\ "variant" \notin FieldNames /\ "version" \notin FieldNames
<1> DEFINE Both == V87to96Fields \o V98LateToV99Fields
<1>1. /\ DOMAIN Both = 1..39
      /\ Both[1] = "file_length" /\ Both[2] = "global_code_index"
      /\ Both[3] = "function_count" /\ Both[4] = "string_kind_count"
      /\ Both[5] = "identifier_count" /\ Both[6] = "string_count"
      /\ Both[7] = "overflow_string_count" /\ Both[8] = "string_storage_size"
      /\ Both[9] = "big_int_count" /\ Both[10] = "big_int_storage_size"
      /\ Both[11] = "reg_exp_count" /\ Both[12] = "reg_exp_storage_size"
      /\ Both[13] = "array_buffer_size" /\ Both[14] = "obj_key_buffer_size"
      /\ Both[15] = "obj_value_buffer_size" /\ Both[16] = "segment_id"
      /\ Both[17] = "cjs_module_count" /\ Both[18] = "function_source_count"
      /\ Both[19] = "debug_info_offset" /\ Both[20] = "file_length"
      /\ Both[21] = "global_code_index" /\ Both[22] = "function_count"
      /\ Both[23] = "string_kind_count" /\ Both[24] = "identifier_count"
      /\ Both[25] = "string_count" /\ Both[26] = "overflow_string_count"
      /\ Both[27] = "string_storage_size" /\ Both[28] = "big_int_count"
      /\ Both[29] = "big_int_storage_size" /\ Both[30] = "reg_exp_count"
      /\ Both[31] = "reg_exp_storage_size" /\ Both[32] = "array_buffer_size"
      /\ Both[33] = "obj_key_buffer_size" /\ Both[34] = "obj_shape_table_count"
      /\ Both[35] = "num_string_switch_imms" /\ Both[36] = "segment_id"
      /\ Both[37] = "cjs_module_count" /\ Both[38] = "function_source_count"
      /\ Both[39] = "debug_info_offset"
  BY DEF V87to96Fields, V98LateToV99Fields, Counts, BigInts, RegExps, Buffers, Segments,
         Sources
<1>2. /\ DOMAIN Both = 1..39
      /\ \A k \in 1..19 : Both[k] = V87to96Fields[k]
      /\ \A k \in 1..20 : Both[19 + k] = V98LateToV99Fields[k]
  <2> HIDE DEF Both
  <2> QED BY <1>1, FieldsV96, FieldsLate
<1>3. FieldNames = {Both[k] : k \in 1..39}
  BY <1>2 DEF FieldNames, ToSet
<1> HIDE DEF Both
<1>4. \A k \in 1..39 : \/ k \in 1..19 /\ Both[k] = V87to96Fields[k]
                       \/ \E j \in 1..20 : Both[k] = V98LateToV99Fields[j]
  <2> TAKE k \in 1..39
  <2>1. CASE k \in 1..19
    BY <2>1, <1>2
  <2>2. CASE k \notin 1..19
    <3>1. k - 19 \in 1..20 /\ 19 + (k - 19) = k
      BY <2>2
    <3> QED BY <3>1, <1>2
  <2> QED BY <2>1, <2>2
<1>5. /\ \A k \in 1..19 : V87to96Fields[k] \in FieldNames
      /\ \A k \in 1..20 : V98LateToV99Fields[k] \in FieldNames
  <2>1. \A k \in 1..19 : k \in 1..39
    OBVIOUS
  <2>2. \A k \in 1..20 : 19 + k \in 1..39
    OBVIOUS
  <2> QED BY <1>2, <1>3, <2>1, <2>2
<1>6. \A k \in DOMAIN V84to86Fields : \E j \in 1..19 : V84to86Fields[k] = V87to96Fields[j]
  <2>1. \A k \in 1..17 :
           V84to86Fields[k] = V87to96Fields[IF k <= 8 THEN k ELSE k + 2]
    BY FieldsV84, FieldsV96
  <2>2. \A k \in 1..17 : (IF k <= 8 THEN k ELSE k + 2) \in 1..19
    OBVIOUS
  <2> QED BY <2>1, <2>2, FieldsV84
<1>7. \A k \in DOMAIN V97toV98EarlyFields :
         \E j \in 1..20 : V97toV98EarlyFields[k] = V98LateToV99Fields[j]
  <2>1. \A k \in 1..19 :
           V97toV98EarlyFields[k] = V98LateToV99Fields[IF k <= 15 THEN k ELSE k + 1]
    BY FieldsEarly, FieldsLate
  <2>2. \A k \in 1..19 : (IF k <= 15 THEN k ELSE k + 1) \in 1..20
    OBVIOUS
  <2> QED BY <2>1, <2>2, FieldsEarly
<1>8. "variant" \notin FieldNames /\ "version" \notin FieldNames
  BY <1>3, <1>4, FieldsV96, FieldsLate
<1> QED BY <1>5, <1>6, <1>7, <1>8, FieldsV96, FieldsLate

(* Every field has a place of its own.                                     *)
Layout(F) ==
  /\ DOMAIN F = 1..Len(F) /\ DOMAIN F \subseteq 1..24
  /\ \A i, j \in DOMAIN F : F[i] = F[j] => i = j
  /\ \A k \in DOMAIN F : F[k] \in FieldNames

(* What emit writes at a place: the word of the source, or the field that  *)
(* was read from there.                                                    *)
PlanFits(plan, F) ==
  /\ Layout(F) /\ F[1] = "file_length" /\ plan[1] = "file_length"
  /\ \A k \in 2..24 : \/ plan[k] = "copy"
                      \/ /\ k \in DOMAIN F /\ plan[k] = F[k]
                         /\ F[k] # "copy" /\ F[k] # "file_length"
  /\ \A k \in DOMAIN F : k \in {3, 19, 20, 21} => F[k] \notin Corrected

LEMMA PlanFitsV84 == PlanFits(emit_header_v84("V84to86"), V84to86Fields)
<1> DEFINE F == V84to86Fields
           P == emit_header_v84("V84to86")
<1>1. /\ DOMAIN F = 1..17 /\ Len(F) = 17
      /\ \A i, j \in 1..17 : F[i] = F[j] => i = j
  <2>1. Len(F) = 17
    BY DEF V84to86Fields, Counts, BigInts, RegExps, Buffers, Segments, Sources
  <2> QED BY <2>1, FieldsV84
<1>2. /\ F[1] = "file_length" /\ P[1] = "file_length"
      /\ \A k \in 2..17 : P[k] = "copy" \/ (P[k] = F[k] /\ F[k] # "copy" /\ F[k] # "file_length")
      /\ \A k \in 18..24 : P[k] = "copy"
  BY FieldsV84, PlanV84
<1>3. \A k \in DOMAIN F : k \in {3, 19, 20, 21} => F[k] \notin Corrected
  BY FieldsV84 DEF Corrected
<1>4. \A k \in DOMAIN F : F[k] \in FieldNames
  BY FieldNamesAll
<1> HIDE DEF F, P
<1>5. PlanFits(P, F)
  <2>1. \A k \in 2..24 : k \in 2..17 \/ k \in 18..24
    OBVIOUS
  <2> QED BY <1>1, <1>2, <1>3, <1>4, <2>1 DEF PlanFits, Layout
<1> QED BY <1>5 DEF F, P

LEMMA PlanFitsV96 == PlanFits(emit_header_v96("V87to96"), V87to96Fields)
<1> DEFINE F == V87to96Fields
           P == emit_header_v96("V87to96")
<1>1. /\ DOMAIN F = 1..19 /\ Len(F) = 19
      /\ \A i, j \in 1..19 : F[i] = F[j] => i = j
  <2>1. Len(F) = 19
    BY DEF V87to96Fields, Counts, BigInts, RegExps, Buffers, Segments, Sources
  <2> QED BY <2>1, FieldsV96
<1>2. /\ F[1] = "file_length" /\ P[1] = "file_length"
      /\ \A k \in 2..19 : P[k] = "copy" \/ (P[k] = F[k] /\ F[k] # "copy" /\ F[k] # "file_length")
      /\ \A k \in 20..24 : P[k] = "copy"
  BY FieldsV96, PlanV96
<1>3. \A k \in DOMAIN F : k \in {3, 19, 20, 21} => F[k] \notin Corrected
  BY FieldsV96 DEF Corrected
<1>4. \A k \in DOMAIN F : F[k] \in FieldNames
  BY FieldNamesAll
<1> HIDE DEF F, P
<1>5. PlanFits(P, F)
  <2>1. \A k \in 2..24 : k \in 2..19 \/ k \in 20..24
    OBVIOUS
  <2> QED BY <1>1, <1>2, <1>3, <1>4, <2>1 DEF PlanFits, Layout
<1> QED BY <1>5 DEF F, P

LEMMA PlanFitsEarly == PlanFits(emit_header_v98("V97toV98Early"), V97toV98EarlyFields)
<1> DEFINE F == V97toV98EarlyFields
           P == emit_header_v98("V97toV98Early")
<1>1. /\ DOMAIN F = 1..19 /\ Len(F) = 19
      /\ \A i, j \in 1..19 : F[i] = F[j] => i = j
  <2>1. Len(F) = 19
    BY DEF V97toV98EarlyFields, Counts, BigInts, RegExps, Buffers, Segments, Sources
  <2> QED BY <2>1, FieldsEarly
<1>2. /\ F[1] = "file_length" /\ P[1] = "file_length"
      /\ \A k \in 2..19 : P[k] = "copy" \/ (P[k] = F[k] /\ F[k] # "copy" /\ F[k] # "file_length")
      /\ \A k \in 20..24 : P[k] = "copy"
  BY FieldsEarly, PlanEarly
<1>3. \A k \in DOMAIN F : k \in {3, 19, 20, 21} => F[k] \notin Corrected
  BY FieldsEarly DEF Corrected
<1>4. \A k \in DOMAIN F : F[k] \in FieldNames
  BY FieldNamesAll
<1> HIDE DEF F, P
<1>5. PlanFits(P, F)
  <2>1. \A k \in 2..24 : k \in 2..19 \/ k \in 20..24
    OBVIOUS
  <2> QED BY <1>1, <1>2, <1>3, <1>4, <2>1 DEF PlanFits, Layout
<1> QED BY <1>5 DEF F, P

LEMMA PlanFitsLate == PlanFits(emit_header_v98("V98LateToV99"), V98LateToV99Fields)
<1> DEFINE F == V98LateToV99Fields
           P == emit_header_v98("V98LateToV99")
<1>1. /\ DOMAIN F = 1..20 /\ Len(F) = 20
      /\ \A i, j \in 1..20 : F[i] = F[j] => i = j
  <2>1. Len(F) = 20
    BY DEF V98LateToV99Fields, Counts, BigInts, RegExps, Buffers, Segments, Sources
  <2> QED BY <2>1, FieldsLate
<1>2. /\ F[1] = "file_length" /\ P[1] = "file_length"
      /\ \A k \in 2..20 : P[k] = "copy" \/ (P[k] = F[k] /\ F[k] # "copy" /\ F[k] # "file_length")
      /\ \A k \in 21..24 : P[k] = "copy"
  BY FieldsLate, PlanLate
<1>3. \A k \in DOMAIN F : k \in {3, 19, 20, 21} => F[k] \notin Corrected
  BY FieldsLate DEF Corrected
<1>4. \A k \in DOMAIN F : F[k] \in FieldNames
  BY FieldNamesAll
<1> HIDE DEF F, P
<1>5. PlanFits(P, F)
  <2>1. \A k \in 2..24 : k \in 2..20 \/ k \in 21..24
    OBVIOUS
  <2> QED BY <1>1, <1>2, <1>3, <1>4, <2>1 DEF PlanFits, Layout
<1> QED BY <1>5 DEF F, P

(* What is assumed of a file.                                              *)
IsFile(f) ==
  /\ DOMAIN f = FileParts
  /\ f.len \in Nat /\ f.words \in [1 .. 32 -> Nat]
  /\ Variant(f) \notin HeaderErrors =>
        f.headers \in Seq(SUBSET (0 .. 8 * func_header_size(Variant(f)) - 1))
  /\ f.small \in Seq([utf16 : BOOLEAN, offset : Nat, length : Nat])
  /\ f.overflow \in Seq([offset : Nat, length : Nat])
  /\ Variant(f) \notin HeaderErrors => EntriesFor(f)

(* The form of a version there is an emitter for, and what emit writes.    *)
LEMMA FormOfVersion ==
  ASSUME NEW f, IsFile(f), Variant(f) \notin HeaderErrors, HeaderWord(f, 8) \in EmitVersions
  PROVE  \/ HeaderWord(f, 8) = 84 /\ Variant(f) = "V84to86"
         \/ HeaderWord(f, 8) = 96 /\ Variant(f) = "V87to96"
         \/ HeaderWord(f, 8) = 98 /\ Variant(f) = "V97toV98Early"
         \/ HeaderWord(f, 8) \in {98, 99} /\ Variant(f) = "V98LateToV99"
<1> DEFINE n == HeaderWord(f, 8)
           form == detect_late_v98_form(f).form
<1>1. f.len >= HEADER_SIZE /\ f.magic
  <2>1. f.len \in Nat /\ HEADER_SIZE \in Nat
    BY DEF IsFile, HEADER_SIZE
  <2>2. f.len < HEADER_SIZE => Variant(f) = "HeaderTooSmall"
    BY <2>1 DEF Variant
  <2>3. f.len >= HEADER_SIZE /\ ~f.magic => Variant(f) = "InvalidMagic"
    BY <2>1 DEF Variant
  <2> QED BY <2>1, <2>2, <2>3 DEF HeaderErrors
<1>2. form \in {"early", "late", "ambiguous"}
  <2>1. HeaderWord(f, 40) \in Nat
    BY DEF IsFile, HeaderWord
  <2> DEFINE early == OptionsValid(f, OptionsEarly)
             late == OptionsValid(f, OptionsLate)
             other == disambiguate_both_options_valid(f)
  <2>2. other.form \in {"early", "late", "ambiguous"}
    BY <2>1 DEF disambiguate_both_options_valid, PlausibleDebug
  <2> HIDE DEF other
  <2>3. /\ ~early /\ ~late => form = "ambiguous"
        /\ early /\ ~late => form = "early"
        /\ ~early /\ late => form = "late"
        /\ early /\ late => form = other.form
    BY DEF detect_late_v98_form, other
  <2> QED BY <2>2, <2>3
<1> HIDE DEF form
<1>3. CASE n = 84
  BY <1>1, <1>3 DEF Variant, HeaderErrors, MIN_SUPPORTED_VERSION, MAX_SUPPORTED_VERSION
<1>4. CASE n = 96
  BY <1>1, <1>4 DEF Variant, HeaderErrors, MIN_SUPPORTED_VERSION, MAX_SUPPORTED_VERSION
<1>5. CASE n = 98
  <2>1. Variant(f) = Variant98[form]
    BY <1>1, <1>5 DEF Variant, HeaderErrors, MIN_SUPPORTED_VERSION, MAX_SUPPORTED_VERSION, form
  <2> QED BY <1>2, <1>5, <2>1 DEF Variant98, HeaderErrors
<1>6. CASE n = 99
  BY <1>1, <1>6 DEF Variant, HeaderErrors, MIN_SUPPORTED_VERSION, MAX_SUPPORTED_VERSION
<1> QED BY <1>3, <1>4, <1>5, <1>6 DEF EmitVersions

-----------------------------------------------------------------------------
(* The parsed header.                                                      *)
Header(f) == parse_variant(f, Variant(f), HeaderWord(f, 8))

LEMMA ParsedHeader ==
  ASSUME NEW f
  PROVE  /\ DOMAIN Header(f) = FieldNames \cup {"variant", "version"}
         /\ Header(f).variant = Variant(f) /\ Header(f).version = HeaderWord(f, 8)
         /\ \A name \in FieldNames :
              ~Contains(HeaderFields(Variant(f)), name) => Header(f)[name] = 0
         /\ \A name \in FieldNames :
              Contains(HeaderFields(Variant(f)), name) =>
                Header(f)[name]
                  = HeaderWord(f, 28 + 4 * (CHOOSE k \in DOMAIN HeaderFields(Variant(f)) :
                                              HeaderFields(Variant(f))[k] = name))
<1>1. "variant" \notin FieldNames /\ "version" \notin FieldNames
  BY FieldNamesAll
<1>2. DOMAIN Header(f) = FieldNames \cup {"variant", "version"}
  BY DEF Header, parse_variant
<1>3. Header(f).variant = Variant(f) /\ Header(f).version = HeaderWord(f, 8)
  BY <1>1 DEF Header, parse_variant
<1>4. ASSUME NEW name \in FieldNames, ~Contains(HeaderFields(Variant(f)), name)
      PROVE  Header(f)[name] = 0
  BY <1>1, <1>4 DEF Header, parse_variant
<1>5. ASSUME NEW name \in FieldNames, Contains(HeaderFields(Variant(f)), name)
      PROVE  Header(f)[name]
                  = HeaderWord(f, 28 + 4 * (CHOOSE k \in DOMAIN HeaderFields(Variant(f)) :
                                              HeaderFields(Variant(f))[k] = name))
  BY <1>1, <1>5 DEF Header, parse_variant
<1> QED BY <1>2, <1>3, <1>4, <1>5

(* The field of place k is word 8 + k. *)
LEMMA FieldAt ==
  ASSUME NEW f, Layout(HeaderFields(Variant(f))),
         NEW k \in DOMAIN HeaderFields(Variant(f))
  PROVE  Header(f)[HeaderFields(Variant(f))[k]] = f.words[8 + k]
<1> DEFINE F == HeaderFields(Variant(f))
<1>1. F[k] \in FieldNames /\ Contains(F, F[k]) /\ k \in 1..24
  BY DEF Layout, Contains
<1>2. (CHOOSE j \in DOMAIN F : F[j] = F[k]) = k
  BY DEF Layout
<1>3. Header(f)[F[k]] = HeaderWord(f, 28 + 4 * k)
  <2> HIDE DEF F
  <2> QED BY <1>1, <1>2, ParsedHeader DEF F
<1>4. (28 + 4 * k) \div 4 + 1 = 8 + k
  BY <1>1
<1> QED BY <1>3, <1>4 DEF HeaderWord

LEMMA PlanOfForm ==
  ASSUME NEW f, IsFile(f), Variant(f) \notin HeaderErrors, HeaderWord(f, 8) \in EmitVersions
  PROVE  PlanFits(HeaderPlan(Header(f)), HeaderFields(Variant(f)))
<1>1. Header(f).variant = Variant(f) /\ Header(f).version = HeaderWord(f, 8)
  BY ParsedHeader
<1>2. CASE HeaderWord(f, 8) = 84 /\ Variant(f) = "V84to86"
  BY <1>1, <1>2, PlanFitsV84 DEF HeaderPlan, HeaderFields
<1>3. CASE HeaderWord(f, 8) = 96 /\ Variant(f) = "V87to96"
  BY <1>1, <1>3, PlanFitsV96 DEF HeaderPlan, HeaderFields
<1>4. CASE HeaderWord(f, 8) = 98 /\ Variant(f) = "V97toV98Early"
  BY <1>1, <1>4, PlanFitsEarly DEF HeaderPlan, HeaderFields
<1>5. CASE HeaderWord(f, 8) \in {98, 99} /\ Variant(f) = "V98LateToV99"
  BY <1>1, <1>5, PlanFitsLate DEF HeaderPlan, HeaderFields
<1> QED BY <1>2, <1>3, <1>4, <1>5, FormOfVersion

-----------------------------------------------------------------------------
(* The emitted header.                                                     *)
Emitted(f) == emit_hbc(f, Header(f))

(* A file that is emitted. *)
Emittable(f) ==
  IsFile(f) /\ Variant(f) \notin HeaderErrors /\ HeaderWord(f, 8) \in EmitVersions

LEMMA EmittedParts ==
  ASSUME NEW f, IsFile(f)
  PROVE  /\ DOMAIN Emitted(f) = FileParts
         /\ Emitted(f).words = EmitHeader(f, Header(f), HeaderPlan(Header(f)))
         /\ Emitted(f).headers = emit_function_headers(f, Header(f).variant)
         /\ Emitted(f).len = f.len /\ Emitted(f).magic = f.magic
         /\ Emitted(f).kinds = f.kinds /\ Emitted(f).debug = f.debug
         /\ Emitted(f).small = f.small /\ Emitted(f).overflow = f.overflow
BY DEF Emitted, emit_hbc, IsFile, FileParts

LEMMA WordTyped ==
  ASSUME NEW f, IsFile(f), NEW w \in 1..32
  PROVE  f.words[w] \in Nat
BY DEF IsFile

(* Word 8 + k is as it was, but for the length of the file and a size of   *)
(* digits without a table.                                                 *)
LEMMA EmittedWords ==
  ASSUME NEW f, Emittable(f)
  PROVE  /\ \A w \in 1..8 : Emitted(f).words[w] = f.words[w]
         /\ Emitted(f).words[9] = f.len
         /\ \A k \in 2..24 :
              \/ Emitted(f).words[8 + k] = f.words[8 + k]
              \/ /\ k \in DOMAIN HeaderFields(Variant(f))
                 /\ HeaderFields(Variant(f))[k] = "big_int_storage_size"
                 /\ Header(f).big_int_count = 0
                 /\ Emitted(f).words[8 + k] = 0
<1> DEFINE h == Header(f)
           plan == HeaderPlan(h)
           F == HeaderFields(Variant(f))
           e == EmitHeader(f, h, plan)
<1>1. PlanFits(plan, F)
  BY PlanOfForm DEF Emittable
<1>2. Emitted(f).words = e
  BY EmittedParts DEF Emittable
<1>3. \A w \in 1..8 : e[w] = f.words[w]
  BY DEF EmitHeader
<1>4. e[9] = f.len
  <2>1. plan[9 - 8] = "file_length"
    BY <1>1 DEF PlanFits, Layout
  <2> HIDE DEF plan, h
  <2> QED BY <2>1 DEF EmitHeader
<1>5. ASSUME NEW k \in 2..24
      PROVE  \/ e[8 + k] = f.words[8 + k]
             \/ /\ k \in DOMAIN F /\ F[k] = "big_int_storage_size"
                /\ h.big_int_count = 0 /\ e[8 + k] = 0
  <2>1. 8 + k \in 9..32 /\ (8 + k) - 8 = k
    OBVIOUS
  <2>2. CASE plan[k] = "copy"
    <3> HIDE DEF plan, h
    <3> QED BY <2>1, <2>2 DEF EmitHeader
  <2>3. CASE /\ k \in DOMAIN F /\ plan[k] = F[k] /\ F[k] # "copy" /\ F[k] # "file_length"
    <3>1. h[F[k]] = f.words[8 + k]
      BY <1>1, <2>3, FieldAt DEF PlanFits
    <3> HIDE DEF plan, h, F
    <3>2. e[8 + k] = FieldValue(h, F[k])
      BY <2>1, <2>3 DEF EmitHeader
    <3> HIDE DEF e
    <3>3. FieldValue(h, F[k]) = h[F[k]]
            \/ (F[k] = "big_int_storage_size" /\ h.big_int_count = 0 /\ FieldValue(h, F[k]) = 0)
      BY DEF FieldValue
    <3> QED BY <2>3, <3>1, <3>2, <3>3
  <2> QED BY <1>1, <2>2, <2>3 DEF PlanFits, Layout
<1> HIDE DEF e, F, h
<1> QED BY <1>2, <1>3, <1>4, <1>5 DEF F, h

(* What is decided when both options bytes are valid. *)
FormOf(late, early, functions) ==
  IF late /\ ~early THEN [form |-> "late", guess |-> FALSE]
  ELSE IF early /\ ~late THEN [form |-> "early", guess |-> FALSE]
  ELSE IF functions > 0 THEN [form |-> "ambiguous", guess |-> FALSE]
  ELSE [form |-> "early", guess |-> TRUE]

(* The form of version 98 depends on three words and the length only. *)
LEMMA SameForm ==
  ASSUME NEW e, NEW f, e.len = f.len, HeaderWord(e, 40) = HeaderWord(f, 40),
         HeaderWord(e, 104) = HeaderWord(f, 104), HeaderWord(e, 108) = HeaderWord(f, 108),
         HeaderWord(f, 40) \in Nat
  PROVE  disambiguate_both_options_valid(e) = disambiguate_both_options_valid(f)
<1>1. ASSUME NEW x \in {e, f}
      PROVE  disambiguate_both_options_valid(x) = FormOf(PlausibleDebug(f, HeaderWord(f, 108)),
                                                         PlausibleDebug(f, HeaderWord(f, 104)),
                                                         HeaderWord(f, 40))
  <2>1. /\ x.len = f.len /\ HeaderWord(x, 40) = HeaderWord(f, 40)
        /\ HeaderWord(x, 104) = HeaderWord(f, 104) /\ HeaderWord(x, 108) = HeaderWord(f, 108)
    OBVIOUS
  <2> DEFINE late == PlausibleDebug(f, HeaderWord(f, 108))
             early == PlausibleDebug(f, HeaderWord(f, 104))
  <2>2. CASE late /\ ~early
    BY <2>1, <2>2 DEF disambiguate_both_options_valid, PlausibleDebug, FormOf
  <2>3. CASE ~late /\ early
    BY <2>1, <2>3 DEF disambiguate_both_options_valid, PlausibleDebug, FormOf
  <2>4. CASE (late /\ early) \/ (~late /\ ~early)
    BY <2>1, <2>4 DEF disambiguate_both_options_valid, PlausibleDebug, FormOf
  <2> QED BY <2>2, <2>3, <2>4
<1> QED BY <1>1

(* So the version and the layout are recognized again. *)
LEMMA EmittedVariant ==
  ASSUME NEW f, Emittable(f)
  PROVE  /\ IsFile(f) /\ Variant(Emitted(f)) = Variant(f)
         /\ HeaderWord(Emitted(f), 8) = HeaderWord(f, 8)
<1> DEFINE e == Emitted(f)
           F == HeaderFields(Variant(f))
<1>1. PlanFits(HeaderPlan(Header(f)), F)
  BY PlanOfForm DEF Emittable
<1>2. ASSUME NEW k \in {3, 19, 20, 21}
      PROVE  e.words[8 + k] = f.words[8 + k]
  <2>1. k \in DOMAIN F => F[k] # "big_int_storage_size"
    BY <1>1 DEF PlanFits, Layout, Corrected
  <2> HIDE DEF e, F
  <2> QED BY <2>1, EmittedWords DEF e, F
<1>3. e.words[3] = f.words[3] /\ e.len = f.len /\ e.magic = f.magic
  BY EmittedWords, EmittedParts DEF Emittable
<1>4. /\ e.words[11] = f.words[11] /\ e.words[27] = f.words[27]
      /\ e.words[28] = f.words[28] /\ e.words[29] = f.words[29]
  <2>1. e.words[8 + 3] = f.words[8 + 3] /\ e.words[8 + 19] = f.words[8 + 19]
        /\ e.words[8 + 20] = f.words[8 + 20] /\ e.words[8 + 21] = f.words[8 + 21]
    BY <1>2
  <2> QED BY <2>1
<1> HIDE DEF e
<1>5. /\ HeaderWord(e, 8) = HeaderWord(f, 8) /\ HeaderWord(e, 40) = HeaderWord(f, 40)
      /\ HeaderWord(e, 104) = HeaderWord(f, 104) /\ HeaderWord(e, 108) = HeaderWord(f, 108)
      /\ HeaderWord(e, 112) = HeaderWord(f, 112)
  BY <1>3, <1>4 DEF HeaderWord
<1>6. detect_late_v98_form(e) = detect_late_v98_form(f)
  <2>1. /\ OptionsValid(e, OptionsEarly) = OptionsValid(f, OptionsEarly)
        /\ OptionsValid(e, OptionsLate) = OptionsValid(f, OptionsLate)
    BY <1>5 DEF OptionsValid, OptionsByte, OptionsEarly, OptionsLate
  <2>3. disambiguate_both_options_valid(e) = disambiguate_both_options_valid(f)
    <3>1. HeaderWord(f, 40) \in Nat
      BY WordTyped DEF HeaderWord, Emittable
    <3> QED BY <1>3, <1>5, <3>1, SameForm
  <2> QED BY <2>1, <2>3 DEF detect_late_v98_form
<1>7. Variant(e) = Variant(f)
  BY <1>3, <1>5, <1>6 DEF Variant
<1> QED BY <1>5, <1>7 DEF e, Emittable

-----------------------------------------------------------------------------
(* The header read back.                                                   *)
Agree(g, h) ==
  /\ \A name \in (FieldNames \cup {"variant", "version"}) \ Corrected : g[name] = h[name]
  /\ h.big_int_count > 0 => g.big_int_storage_size = h.big_int_storage_size

LEMMA HeaderTyped ==
  ASSUME NEW f, Emittable(f), NEW name \in FieldNames
  PROVE  Header(f)[name] \in Nat
<1> DEFINE F == HeaderFields(Variant(f))
<1>1. PlanFits(HeaderPlan(Header(f)), F)
  BY PlanOfForm DEF Emittable
<1>2. CASE ~Contains(F, name)
  BY <1>2, ParsedHeader
<1>3. CASE Contains(F, name)
  <2>1. PICK k \in DOMAIN F : F[k] = name
    BY <1>1, <1>3 DEF Contains, PlanFits, Layout
  <2>2. Header(f)[name] = f.words[8 + k]
    BY <1>1, <2>1, FieldAt DEF PlanFits
  <2>3. k \in 1..24
    BY <1>1, <2>1 DEF PlanFits, Layout
  <2>4. 8 + k \in 1..32
    BY <2>3
  <2> QED BY <2>2, <2>4, WordTyped DEF Emittable
<1> QED BY <1>2, <1>3

LEMMA HeaderReadBack ==
  ASSUME NEW f, Emittable(f)
  PROVE  Agree(Header(Emitted(f)), Header(f))
<1> DEFINE e == Emitted(f)
           F == HeaderFields(Variant(f))
           plan == HeaderPlan(Header(f))
<1>1. PlanFits(plan, F) /\ Variant(e) = Variant(f) /\ HeaderWord(e, 8) = HeaderWord(f, 8)
  BY PlanOfForm, EmittedVariant DEF Emittable
<1>2. Header(e).variant = Header(f).variant /\ Header(e).version = Header(f).version
  BY <1>1, ParsedHeader
<1>3. ASSUME NEW name \in FieldNames, ~Contains(F, name)
      PROVE  Header(e)[name] = Header(f)[name]
  BY <1>1, <1>3, ParsedHeader
<1>4. ASSUME NEW k \in DOMAIN F
      PROVE  Header(e)[F[k]] = e.words[8 + k] /\ Header(f)[F[k]] = f.words[8 + k]
  <2>1. PlanFits(plan, HeaderFields(Variant(e))) /\ k \in DOMAIN HeaderFields(Variant(e))
    BY <1>1
  <2> HIDE DEF e, plan
  <2>2. Header(e)[HeaderFields(Variant(e))[k]] = e.words[8 + k]
    BY <2>1, FieldAt DEF PlanFits
  <2>3. Header(f)[F[k]] = f.words[8 + k]
    BY <1>1, FieldAt DEF PlanFits
  <2> QED BY <1>1, <2>2, <2>3
<1>5. ASSUME NEW k \in DOMAIN F, F[k] # "file_length",
             F[k] = "big_int_storage_size" => Header(f).big_int_count # 0
      PROVE  Header(e)[F[k]] = Header(f)[F[k]]
  <2>1. k \in 2..24
    <3>1. F[1] = "file_length" /\ DOMAIN F \subseteq 1..24
      BY <1>1 DEF PlanFits, Layout
    <3> QED BY <1>5, <3>1
  <2>2. e.words[8 + k] = f.words[8 + k]
    BY <1>5, <2>1, EmittedWords
  <2> QED BY <1>4, <2>2
<1> HIDE DEF e, F
<1>6. ASSUME NEW name \in FieldNames, name # "file_length",
             name = "big_int_storage_size" => Header(f).big_int_count # 0
      PROVE  Header(e)[name] = Header(f)[name]
  <2>1. CASE Contains(F, name)
    <3>1. PICK k \in DOMAIN F : F[k] = name
      BY <1>1, <2>1 DEF Contains, PlanFits, Layout
    <3> QED BY <1>5, <1>6, <3>1
  <2> QED BY <1>3, <2>1
<1>7. "big_int_storage_size" \in FieldNames
  BY FieldNamesAll, FieldsV96
<1> QED BY <1>2, <1>6, <1>7 DEF Agree, Corrected, e

(* The names the sections, the counts and the tables depend on. *)
LEMMA NamesUsed ==
  {"function_count", "string_kind_count", "identifier_count", "string_count",
   "overflow_string_count", "string_storage_size", "big_int_count", "big_int_storage_size",
   "reg_exp_count", "reg_exp_storage_size", "array_buffer_size", "obj_key_buffer_size",
   "obj_value_buffer_size", "obj_shape_table_count", "cjs_module_count",
   "function_source_count", "debug_info_offset"} \subseteq FieldNames
<1>1. \A k \in 1..19 : V87to96Fields[k] \in FieldNames
  BY FieldNamesAll, FieldsV96
<1>2. V98LateToV99Fields[15] \in FieldNames
  BY FieldNamesAll, FieldsLate
<1> QED BY <1>1, <1>2, FieldsV96, FieldsLate

LEMMA AgreeNames ==
  ASSUME NEW g, NEW h, Agree(g, h)
  PROVE  /\ g.variant = h.variant /\ g.version = h.version
         /\ g.function_count = h.function_count /\ g.string_kind_count = h.string_kind_count
         /\ g.identifier_count = h.identifier_count /\ g.string_count = h.string_count
         /\ g.overflow_string_count = h.overflow_string_count
         /\ g.string_storage_size = h.string_storage_size
         /\ g.big_int_count = h.big_int_count /\ g.reg_exp_count = h.reg_exp_count
         /\ g.reg_exp_storage_size = h.reg_exp_storage_size
         /\ g.array_buffer_size = h.array_buffer_size
         /\ g.obj_key_buffer_size = h.obj_key_buffer_size
         /\ g.obj_value_buffer_size = h.obj_value_buffer_size
         /\ g.obj_shape_table_count = h.obj_shape_table_count
         /\ g.cjs_module_count = h.cjs_module_count
         /\ g.function_source_count = h.function_source_count
         /\ g.debug_info_offset = h.debug_info_offset
         /\ h.big_int_count > 0 => g.big_int_storage_size = h.big_int_storage_size
BY NamesUsed DEF Agree, Corrected

LEMMA AgreeSections ==
  ASSUME NEW g, NEW h, Agree(g, h)
  PROVE  SectionCalls(g) = SectionCalls(h)
<1>1. ObjectSections(g) = ObjectSections(h) /\ RegExpSections(g) = RegExpSections(h)
  <2>1. /\ g.obj_key_buffer_size = h.obj_key_buffer_size
        /\ g.obj_value_buffer_size = h.obj_value_buffer_size
        /\ g.obj_shape_table_count = h.obj_shape_table_count
        /\ g.reg_exp_count = h.reg_exp_count
        /\ g.reg_exp_storage_size = h.reg_exp_storage_size
    BY AgreeNames
  <2> QED BY <2>1, Zenon DEF ObjectSections, RegExpSections
<1>2. BigIntSections(g) = BigIntSections(h)
  BY AgreeNames DEF BigIntSections
<1>3. /\ g.variant = h.variant /\ g.function_count = h.function_count
      /\ g.string_kind_count = h.string_kind_count
      /\ g.identifier_count = h.identifier_count /\ g.string_count = h.string_count
      /\ g.overflow_string_count = h.overflow_string_count
      /\ g.string_storage_size = h.string_storage_size
      /\ g.array_buffer_size = h.array_buffer_size
      /\ g.cjs_module_count = h.cjs_module_count
      /\ g.function_source_count = h.function_source_count
  BY AgreeNames
<1> QED BY <1>1, <1>2, <1>3, Zenon DEF SectionCalls

LEMMA AgreeCounts ==
  ASSUME NEW g, NEW h, Agree(g, h), NEW e, NEW f, e.len = f.len
  PROVE  CountError(e, g) = CountError(f, h)
<1>1. GatedCounts(g) = GatedCounts(h)
  BY AgreeNames DEF GatedCounts
<1> QED BY <1>1, AgreeNames DEF CountError

-----------------------------------------------------------------------------
(* The function headers.                                                   *)

(* A bit field that is taken out and packed at the same place. *)
LEMMA PackedAgain ==
  ASSUME NEW entry, entry \subseteq Nat, NEW field, field[1] \in Nat, field[2] \in Nat
  PROVE  bit_pack_u32(Bits(entry, field), field)
            = entry \cap (field[1] .. field[1] + field[2] - 1)
<1> DEFINE a == field[1]
           w == field[2]
           packed == bit_pack_u32(Bits(entry, field), field)
<1>1. ASSUME NEW x \in packed PROVE x \in entry \cap (a .. a + w - 1)
  <2>1. PICK b \in Bits(entry, field) \cap (0 .. w - 1) : x = a + b
    BY DEF bit_pack_u32
  <2>2. PICK y \in entry \cap (a .. a + w - 1) : b = y - a
    BY <2>1 DEF Bits
  <2>3. y \in Nat /\ x = y
    BY <2>1, <2>2
  <2> QED BY <2>2, <2>3
<1>2. ASSUME NEW x \in entry \cap (a .. a + w - 1) PROVE x \in packed
  <2>1. x - a \in Bits(entry, field)
    BY DEF Bits
  <2>2. x \in Nat /\ x - a \in 0 .. w - 1 /\ x = a + (x - a)
    OBVIOUS
  <2> QED BY <2>1, <2>2 DEF bit_pack_u32
<1> HIDE DEF packed, a, w
<1>3. packed = entry \cap (a .. a + w - 1)
  BY <1>1, <1>2
<1> QED BY <1>3 DEF packed, a, w

(* The fields lie side by side from the first bit of an entry to the last. *)
Cover(fields, n) ==
  /\ \A k \in DOMAIN fields : fields[k][1] \in Nat /\ fields[k][2] \in Nat
  /\ \A b \in 0 .. n - 1 :
        \E k \in DOMAIN fields : b \in fields[k][1] .. fields[k][1] + fields[k][2] - 1

LEMMA FieldsCover ==
  /\ Cover(V96Fields, 128) /\ Cover(EarlyV98Fields, 96) /\ Cover(LateV98Fields, 96)
<1>1. Cover(V96Fields, 128)
  <2> DEFINE F == V96Fields
  <2>1. /\ DOMAIN F = 1..7
        /\ F[1] = <<0, 25>> /\ F[2] = <<25, 7>> /\ F[3] = <<32, 15>>
        /\ F[4] = <<47, 17>> /\ F[5] = <<64, 25>> /\ F[6] = <<89, 31>>
        /\ F[7] = <<120, 8>>
    BY DEF V96Fields
  <2> HIDE DEF F
  <2>2. /\ F[1][1] = 0 /\ F[1][2] = 25 /\ F[2][1] = 25 /\ F[2][2] = 7
        /\ F[3][1] = 32 /\ F[3][2] = 15 /\ F[4][1] = 47 /\ F[4][2] = 17
        /\ F[5][1] = 64 /\ F[5][2] = 25 /\ F[6][1] = 89 /\ F[6][2] = 31
        /\ F[7][1] = 120 /\ F[7][2] = 8
    BY <2>1
  <2>3. \A k \in DOMAIN F : F[k][1] \in Nat /\ F[k][2] \in Nat
    BY <2>1, <2>2
  <2>4. ASSUME NEW b \in 0 .. 128 - 1
        PROVE  \E k \in 1..7 : b \in F[k][1] .. F[k][1] + F[k][2] - 1
    <3>1. b \in 0..24 \/ b \in 25..31 \/ b \in 32..46 \/ b \in 47..63
          \/ b \in 64..88 \/ b \in 89..119 \/ b \in 120..127
      OBVIOUS
    <3>2. ASSUME b \in 0..24 PROVE b \in F[1][1] .. F[1][1] + F[1][2] - 1
      BY <2>2, <3>2
    <3>3. ASSUME b \in 25..31 PROVE b \in F[2][1] .. F[2][1] + F[2][2] - 1
      BY <2>2, <3>3
    <3>4. ASSUME b \in 32..46 PROVE b \in F[3][1] .. F[3][1] + F[3][2] - 1
      BY <2>2, <3>4
    <3>5. ASSUME b \in 47..63 PROVE b \in F[4][1] .. F[4][1] + F[4][2] - 1
      BY <2>2, <3>5
    <3>6. ASSUME b \in 64..88 PROVE b \in F[5][1] .. F[5][1] + F[5][2] - 1
      BY <2>2, <3>6
    <3>7. ASSUME b \in 89..119 PROVE b \in F[6][1] .. F[6][1] + F[6][2] - 1
      BY <2>2, <3>7
    <3>8. ASSUME b \in 120..127 PROVE b \in F[7][1] .. F[7][1] + F[7][2] - 1
      BY <2>2, <3>8
    <3> QED BY <3>1, <3>2, <3>3, <3>4, <3>5, <3>6, <3>7, <3>8
  <2>5. Cover(F, 128)
    BY <2>1, <2>3, <2>4, Zenon DEF Cover
  <2> QED BY <2>5 DEF F
<1>2. Cover(EarlyV98Fields, 96)
  <2> DEFINE F == EarlyV98Fields
  <2>1. /\ DOMAIN F = 1..6
        /\ F[1] = <<0, 25>> /\ F[2] = <<25, 7>> /\ F[3] = <<32, 15>>
        /\ F[4] = <<47, 17>> /\ F[5] = <<64, 24>> /\ F[6] = <<88, 8>>
    BY DEF EarlyV98Fields
  <2> HIDE DEF F
  <2>2. /\ F[1][1] = 0 /\ F[1][2] = 25 /\ F[2][1] = 25 /\ F[2][2] = 7
        /\ F[3][1] = 32 /\ F[3][2] = 15 /\ F[4][1] = 47 /\ F[4][2] = 17
        /\ F[5][1] = 64 /\ F[5][2] = 24 /\ F[6][1] = 88 /\ F[6][2] = 8
    BY <2>1
  <2>3. \A k \in DOMAIN F : F[k][1] \in Nat /\ F[k][2] \in Nat
    BY <2>1, <2>2
  <2>4. ASSUME NEW b \in 0 .. 96 - 1
        PROVE  \E k \in 1..6 : b \in F[k][1] .. F[k][1] + F[k][2] - 1
    <3>1. b \in 0..24 \/ b \in 25..31 \/ b \in 32..46 \/ b \in 47..63
          \/ b \in 64..87 \/ b \in 88..95
      OBVIOUS
    <3>2. ASSUME b \in 0..24 PROVE b \in F[1][1] .. F[1][1] + F[1][2] - 1
      BY <2>2, <3>2
    <3>3. ASSUME b \in 25..31 PROVE b \in F[2][1] .. F[2][1] + F[2][2] - 1
      BY <2>2, <3>3
    <3>4. ASSUME b \in 32..46 PROVE b \in F[3][1] .. F[3][1] + F[3][2] - 1
      BY <2>2, <3>4
    <3>5. ASSUME b \in 47..63 PROVE b \in F[4][1] .. F[4][1] + F[4][2] - 1
      BY <2>2, <3>5
    <3>6. ASSUME b \in 64..87 PROVE b \in F[5][1] .. F[5][1] + F[5][2] - 1
      BY <2>2, <3>6
    <3>7. ASSUME b \in 88..95 PROVE b \in F[6][1] .. F[6][1] + F[6][2] - 1
      BY <2>2, <3>7
    <3> QED BY <3>1, <3>2, <3>3, <3>4, <3>5, <3>6, <3>7
  <2>5. Cover(F, 96)
    BY <2>1, <2>3, <2>4, Zenon DEF Cover
  <2> QED BY <2>5 DEF F
<1>3. Cover(LateV98Fields, 96)
  <2> DEFINE F == LateV98Fields
  <2>1. /\ DOMAIN F = 1..8
        /\ F[1] = <<0, 25>> /\ F[2] = <<25, 5>> /\ F[3] = <<30, 2>>
        /\ F[4] = <<32, 14>> /\ F[5] = <<46, 8>> /\ F[6] = <<54, 32>>
        /\ F[7] = <<86, 2>> /\ F[8] = <<88, 8>>
    BY DEF LateV98Fields
  <2> HIDE DEF F
  <2>2. /\ F[1][1] = 0 /\ F[1][2] = 25 /\ F[2][1] = 25 /\ F[2][2] = 5
        /\ F[3][1] = 30 /\ F[3][2] = 2 /\ F[4][1] = 32 /\ F[4][2] = 14
        /\ F[5][1] = 46 /\ F[5][2] = 8 /\ F[6][1] = 54 /\ F[6][2] = 32
        /\ F[7][1] = 86 /\ F[7][2] = 2 /\ F[8][1] = 88 /\ F[8][2] = 8
    BY <2>1
  <2>3. \A k \in DOMAIN F : F[k][1] \in Nat /\ F[k][2] \in Nat
    BY <2>1, <2>2
  <2>4. ASSUME NEW b \in 0 .. 96 - 1
        PROVE  \E k \in 1..8 : b \in F[k][1] .. F[k][1] + F[k][2] - 1
    <3>1. b \in 0..24 \/ b \in 25..29 \/ b \in 30..31 \/ b \in 32..45
          \/ b \in 46..53 \/ b \in 54..85 \/ b \in 86..87 \/ b \in 88..95
      OBVIOUS
    <3>2. ASSUME b \in 0..24 PROVE b \in F[1][1] .. F[1][1] + F[1][2] - 1
      BY <2>2, <3>2
    <3>3. ASSUME b \in 25..29 PROVE b \in F[2][1] .. F[2][1] + F[2][2] - 1
      BY <2>2, <3>3
    <3>4. ASSUME b \in 30..31 PROVE b \in F[3][1] .. F[3][1] + F[3][2] - 1
      BY <2>2, <3>4
    <3>5. ASSUME b \in 32..45 PROVE b \in F[4][1] .. F[4][1] + F[4][2] - 1
      BY <2>2, <3>5
    <3>6. ASSUME b \in 46..53 PROVE b \in F[5][1] .. F[5][1] + F[5][2] - 1
      BY <2>2, <3>6
    <3>7. ASSUME b \in 54..85 PROVE b \in F[6][1] .. F[6][1] + F[6][2] - 1
      BY <2>2, <3>7
    <3>8. ASSUME b \in 86..87 PROVE b \in F[7][1] .. F[7][1] + F[7][2] - 1
      BY <2>2, <3>8
    <3>9. ASSUME b \in 88..95 PROVE b \in F[8][1] .. F[8][1] + F[8][2] - 1
      BY <2>2, <3>9
    <3> QED BY <3>1, <3>2, <3>3, <3>4, <3>5, <3>6, <3>7, <3>8, <3>9
  <2>5. Cover(F, 96)
    BY <2>1, <2>3, <2>4, Zenon DEF Cover
  <2> QED BY <2>5 DEF F
<1> QED BY <1>1, <1>2, <1>3

(* Entries are written where they are read. *)
LEMMA FieldsAgree ==
  ASSUME NEW variant \in {"V84to86", "V87to96", "V97toV98Early", "V98LateToV99"}
  PROVE  /\ PackedFields(variant) = RawFields(variant)
         /\ Cover(RawFields(variant), 8 * func_header_size(variant))
<1>1. CASE variant \in {"V84to86", "V87to96"}
  <2>1. PackedFields(variant) = V96Fields
    BY <1>1 DEF PackedFields, V96Fields
  <2>2. func_header_size(variant) = 16 /\ RawFields(variant) = V96Fields
    BY <1>1 DEF func_header_size, RawFields
  <2> QED BY <2>1, <2>2, FieldsCover
<1>2. CASE variant = "V97toV98Early"
  <2>1. PackedFields(variant) = EarlyV98Fields
    BY <1>2 DEF PackedFields, EarlyV98Fields
  <2>2. func_header_size(variant) = 12 /\ RawFields(variant) = EarlyV98Fields
    BY <1>2 DEF func_header_size, RawFields, use_v99_func_header
  <2> QED BY <2>1, <2>2, FieldsCover
<1>3. CASE variant = "V98LateToV99"
  <2>1. PackedFields(variant) = LateV98Fields
    BY <1>3 DEF PackedFields, LateV98Fields
  <2>2. func_header_size(variant) = 12 /\ RawFields(variant) = LateV98Fields
    BY <1>3 DEF func_header_size, RawFields, use_v99_func_header
  <2> QED BY <2>1, <2>2, FieldsCover
<1> QED BY <1>1, <1>2, <1>3

Repacked(entry, fields) ==
  UNION {bit_pack_u32(Bits(entry, fields[k]), fields[k]) : k \in DOMAIN fields}

LEMMA EntryPacked ==
  ASSUME NEW fields, NEW n \in Nat, Cover(fields, n), NEW entry, entry \subseteq 0 .. n - 1
  PROVE  Repacked(entry, fields) = entry
<1> DEFINE Part(k) == bit_pack_u32(Bits(entry, fields[k]), fields[k])
<1>1. \A k \in DOMAIN fields :
         Part(k) = entry \cap (fields[k][1] .. fields[k][1] + fields[k][2] - 1)
  <2>1. entry \subseteq Nat
    OBVIOUS
  <2> QED BY <2>1, PackedAgain DEF Cover
<1>2. \A b \in entry :
         \E k \in DOMAIN fields : b \in fields[k][1] .. fields[k][1] + fields[k][2] - 1
  BY DEF Cover
<1> HIDE DEF Part
<1>3. UNION {Part(k) : k \in DOMAIN fields} = entry
  BY <1>1, <1>2
<1> QED BY <1>3 DEF Part, Repacked

LEMMA EmittedHeaders ==
  ASSUME NEW f, Emittable(f)
  PROVE  Emitted(f).headers = f.headers
<1> DEFINE v == Variant(f)
           n == 8 * func_header_size(v)
<1>1. v \in {"V84to86", "V87to96", "V97toV98Early", "V98LateToV99"}
  BY FormOfVersion DEF Emittable
<1>2. n \in Nat
  BY DEF func_header_size
<1>3. f.headers \in Seq(SUBSET (0 .. n - 1))
  BY DEF Emittable, IsFile
<1>4. Emitted(f).headers = emit_function_headers(f, v)
  BY EmittedParts, ParsedHeader DEF Emittable
<1> HIDE DEF v, n
<1>5. Cover(RawFields(v), n) /\ PackedFields(v) = RawFields(v)
  BY <1>1, FieldsAgree DEF n
<1>6. ASSUME NEW k \in DOMAIN f.headers
      PROVE  emit_function_headers(f, v)[k] = f.headers[k]
  <2>1. f.headers[k] \subseteq 0 .. n - 1
    BY <1>3
  <2> DEFINE R == RawFields(v)
             entry == f.headers[k]
  <2>2. emit_function_headers(f, v)[k]
          = UNION {bit_pack_u32(Bits(entry, R[j]), PackedFields(v)[j]) : j \in DOMAIN R}
    BY DEF emit_function_headers
  <2> HIDE DEF R, entry
  <2>3. Cover(R, n) /\ entry \subseteq 0 .. n - 1
    BY <1>5, <2>1 DEF R, entry
  <2>4. Repacked(entry, R) = entry
    BY <1>2, <2>3, EntryPacked
  <2>5. PackedFields(v) = R
    BY <1>5 DEF R
  <2>6. emit_function_headers(f, v)[k] = entry
    BY <2>2, <2>4, <2>5 DEF Repacked
  <2> QED BY <2>6 DEF entry
<1>7. DOMAIN emit_function_headers(f, v) = DOMAIN f.headers
      /\ emit_function_headers(f, v) = [k \in DOMAIN f.headers |-> emit_function_headers(f, v)[k]]
  BY DEF emit_function_headers
<1>8. f.headers = [k \in DOMAIN f.headers |-> f.headers[k]]
  BY <1>3
<1> QED BY <1>4, <1>6, <1>7, <1>8

-----------------------------------------------------------------------------
(* What is read behind the header.                                         *)
TablesOf(f, h, end) ==
  [kind |-> "tables", region |-> bytecode_region(f, h, end),
   string_kinds |-> string_kind_map(f, h),
   filenames |-> debug_filenames(f, h.debug_info_offset),
   debug |-> debug_info_v96_parse(f, h.debug_info_offset, h.version)]

LEMMA SameWord ==
  ASSUME NEW f, IsFile(f), NEW off \in Nat, off >= HEADER_SIZE
  PROVE  read_u32(Emitted(f), off) = read_u32(f, off)
<1>1. Emitted(f).len = f.len /\ Emitted(f).debug = f.debug
  BY EmittedParts
<1>2. ~(off < HEADER_SIZE)
  BY DEF HEADER_SIZE
<1> QED BY <1>1, <1>2 DEF read_u32

LEMMA SameFilenames ==
  ASSUME NEW f, IsFile(f), NEW off \in Nat
  PROVE  debug_filenames(Emitted(f), off) = debug_filenames(f, off)
<1> DEFINE e == Emitted(f)
<1>1. e.len = f.len
  BY EmittedParts
<1>2. CASE PastHeader(off)
  <2>1. off >= HEADER_SIZE /\ off + 4 \in Nat /\ off + 4 >= HEADER_SIZE
    BY <1>2 DEF PastHeader, HEADER_SIZE
  <2>2. read_u32(e, off) = read_u32(f, off) /\ read_u32(e, off + 4) = read_u32(f, off + 4)
    BY <2>1, SameWord
  <2> HIDE DEF e
  <2> QED BY <1>1, <2>2 DEF debug_filenames, e
<1>3. CASE ~PastHeader(off)
  <2>1. debug_filenames(e, off) = NoDebug /\ debug_filenames(f, off) = NoDebug
    BY <1>3 DEF debug_filenames
  <2> QED BY <2>1
<1> QED BY <1>2, <1>3

LEMMA SameDebug ==
  ASSUME NEW f, IsFile(f), NEW off \in Nat, NEW version
  PROVE  debug_info_v96_parse(Emitted(f), off, version) = debug_info_v96_parse(f, off, version)
<1> DEFINE e == Emitted(f)
<1>1. e.len = f.len
  BY EmittedParts
<1>2. CASE PastHeader(off)
  <2>1. \A d \in {4, 8, 12, 16} : off + d \in Nat /\ off + d >= HEADER_SIZE
    BY <1>2 DEF PastHeader, HEADER_SIZE
  <2>2. \A d \in {4, 8, 12, 16} : read_u32(e, off + d) = read_u32(f, off + d)
    BY <2>1, SameWord
  <2>3. /\ read_u32(e, off + 4) = read_u32(f, off + 4)
        /\ read_u32(e, off + 8) = read_u32(f, off + 8)
        /\ read_u32(e, off + 12) = read_u32(f, off + 12)
        /\ read_u32(e, off + 16) = read_u32(f, off + 16)
    BY <2>2
  <2> HIDE DEF e
  <2>4. debug_info_v96_parse(e, off, version) = debug_info_v96_parse(f, off, version)
    BY <1>1, <2>3 DEF debug_info_v96_parse
  <2> QED BY <2>4 DEF e
<1>3. CASE ~PastHeader(off)
  <2>1. /\ debug_info_v96_parse(e, off, version) = NoDebug
        /\ debug_info_v96_parse(f, off, version) = NoDebug
    BY <1>3 DEF debug_info_v96_parse
  <2> QED BY <2>1
<1> QED BY <1>2, <1>3

LEMMA SameTables ==
  ASSUME NEW f, Emittable(f), NEW end
  PROVE  TablesOf(Emitted(f), Header(Emitted(f)), end) = TablesOf(f, Header(f), end)
<1> DEFINE e == Emitted(f)
           g == Header(e)
           h == Header(f)
<1>1. IsFile(f) /\ e.len = f.len /\ e.kinds = f.kinds
  BY EmittedParts DEF Emittable
<1>2. Agree(g, h)
  BY HeaderReadBack
<1>3. h.debug_info_offset \in Nat
  BY HeaderTyped, NamesUsed
<1>4. /\ debug_filenames(e, h.debug_info_offset) = debug_filenames(f, h.debug_info_offset)
      /\ debug_info_v96_parse(e, h.debug_info_offset, h.version)
           = debug_info_v96_parse(f, h.debug_info_offset, h.version)
  BY <1>1, <1>3, SameFilenames, SameDebug
<1> HIDE DEF e, g, h
<1>5. /\ g.debug_info_offset = h.debug_info_offset /\ g.version = h.version
      /\ g.string_kind_count = h.string_kind_count /\ g.string_count = h.string_count
  BY <1>2, AgreeNames
<1>6. bytecode_region(e, g, end) = bytecode_region(f, h, end)
  BY <1>1, <1>5 DEF bytecode_region
<1>7. string_kind_map(e, g) = string_kind_map(f, h)
  BY <1>1, <1>5 DEF string_kind_map
<1>8. TablesOf(e, g, end) = TablesOf(f, h, end)
  BY <1>4, <1>5, <1>6, <1>7 DEF TablesOf
<1> QED BY <1>8 DEF e, g, h

-----------------------------------------------------------------------------
(* Sequences of whatever they hold.                                        *)
IsSeq(s) == \E S : s \in Seq(S)

LEMMA AppendAny ==
  ASSUME NEW s, IsSeq(s), NEW x
  PROVE  /\ IsSeq(Append(s, x)) /\ Len(s) \in Nat /\ Len(Append(s, x)) = Len(s) + 1
         /\ \A n \in 1..Len(s) : Append(s, x)[n] = s[n]
         /\ Append(s, x)[Len(s) + 1] = x
<1>1. PICK S : s \in Seq(S)
  BY DEF IsSeq
<1>2. s \in Seq(S \cup {x}) /\ x \in S \cup {x}
  BY <1>1
<1>3. Append(s, x) \in Seq(S \cup {x})
  BY <1>2
<1> QED BY <1>2, <1>3 DEF IsSeq

LEMMA ConcatAny ==
  ASSUME NEW s, IsSeq(s), NEW t, IsSeq(t)
  PROVE  IsSeq(s \o t)
<1>1. PICK S : s \in Seq(S)
  BY DEF IsSeq
<1>2. PICK T : t \in Seq(T)
  BY DEF IsSeq
<1>3. s \in Seq(S \cup T) /\ t \in Seq(S \cup T)
  BY <1>1, <1>2
<1>4. s \o t \in Seq(S \cup T)
  BY <1>3
<1> QED BY <1>4 DEF IsSeq

LEMMA EqualAny ==
  ASSUME NEW s, IsSeq(s), NEW t, IsSeq(t), Len(s) = Len(t),
         \A n \in 1..Len(s) : s[n] = t[n]
  PROVE  s = t
<1>1. PICK S : s \in Seq(S)
  BY DEF IsSeq
<1>2. PICK T : t \in Seq(T)
  BY DEF IsSeq
<1>3. s = [n \in 1..Len(s) |-> s[n]] /\ t = [n \in 1..Len(t) |-> t[n]]
  BY <1>1, <1>2
<1> QED BY <1>3

LEMMA OneAny ==
  ASSUME NEW x
  PROVE  IsSeq(<<x>>) /\ Len(<<x>>) = 1 /\ <<x>>[1] = x /\ IsSeq(<<>>)
<1>1. <<x>> \in Seq({x}) /\ <<>> \in Seq({x})
  OBVIOUS
<1> QED BY <1>1 DEF IsSeq

LEMMA CallsAny ==
  ASSUME NEW h
  PROVE  Len(SectionCalls(h)) \in Nat
<1>1. \A name, size : IsSeq(Sec(name, size)) /\ IsSeq(SecOpt(name, size))
  BY OneAny DEF Sec, SecOpt
<1>2. IsSeq(ObjectSections(h)) /\ IsSeq(BigIntSections(h)) /\ IsSeq(RegExpSections(h))
  BY <1>1, ConcatAny, OneAny DEF ObjectSections, BigIntSections, RegExpSections
<1>3. IsSeq(SectionCalls(h))
  BY <1>1, <1>2, ConcatAny DEF SectionCalls
<1>4. PICK S : SectionCalls(h) \in Seq(S)
  BY <1>3 DEF IsSeq
<1> QED BY <1>4

-----------------------------------------------------------------------------
(* The invariant.  A parse under way is determined by its file: the header *)
(* is the one the file has, and each section recorded is the next call,    *)
(* behind the section before it and inside the file.                       *)
End(s) == align4(Last(s).start + Last(s).size)

Behind(before, call) ==
  [name |-> call.name, start |-> align4(before.start + before.size), size |-> call.size]

Chain(f, h, s) ==
  /\ IsSeq(s) /\ Len(s) \in 1 .. Len(SectionCalls(h)) + 1
  /\ s[1] = HeaderSection
  /\ \A n \in 1 .. Len(s) - 1 :
        /\ s[n + 1] = Behind(s[n], SectionCalls(h)[n])
        /\ ~(align4(s[n].start + s[n].size) + SectionCalls(h)[n].size > f.len)

Complete(f, h, s, t) ==
  /\ Len(s) = Len(SectionCalls(h)) + 1
  /\ t = TablesOf(f, h, End(s)) /\ t.debug.kind # "InconsistentDebugHeader"

ParseOf(f, stage, h, s, t) ==
  /\ stage \in {"header", "counts"} => s = <<HeaderSection>>
  /\ stage \in {"counts", "sections", "parsed"} =>
        Variant(f) \notin HeaderErrors /\ h = Header(f)
  /\ stage \in {"sections", "parsed"} => CountError(f, h) = "none" /\ Chain(f, h, s)
  /\ stage = "parsed" => Complete(f, h, s, t)

(* Once a file was emitted, the parse of the emitted one does what the     *)
(* parse of the first did.                                                 *)
AgainOf(f, stage, s, one) ==
  /\ stage \in {"header", "counts", "sections", "parsed"}
  /\ Emittable(one.file) /\ f = Emitted(one.file)
  /\ ParseOf(one.file, "parsed", one.hdr, one.sections, one.tables)
  /\ IsSeq(s) /\ Len(s) \in 1 .. Len(one.sections)
  /\ \A n \in 1 .. Len(s) : s[n] = one.sections[n]

ParseInv ==
  /\ ParseOf(file, pc, hdr, sections, tables)
  /\ first = NoParse => IsFile(file)
  /\ first # NoParse => AgainOf(file, pc, sections, first)

LEMMA HeaderAlone ==
  /\ IsSeq(<<HeaderSection>>) /\ Len(<<HeaderSection>>) = 1
  /\ <<HeaderSection>>[1] = HeaderSection
BY OneAny

LEMMA ParseInit == Init => ParseInv
<1> SUFFICES ASSUME Init PROVE ParseInv
  OBVIOUS
<1>1. IsFile(file)
  BY HbcFileAssumption DEF Init, IsFile
<1> QED BY <1>1 DEF Init, ParseInv, ParseOf

LEMMA RejectHeaderStep == ParseInv /\ RejectHeader => ParseInv'
<1> SUFFICES ASSUME ParseInv, RejectHeader PROVE ParseInv'
  OBVIOUS
<1>1. first = NoParse
  <2> SUFFICES ASSUME first # NoParse PROVE FALSE
    OBVIOUS
  <2>1. Emittable(first.file) /\ file = Emitted(first.file)
    BY DEF ParseInv, AgainOf
  <2>2. Variant(file) = Variant(first.file)
    BY <2>1, EmittedVariant
  <2> QED BY <2>1, <2>2 DEF Emittable, RejectHeader
<1>2. pc' \notin {"header", "counts", "sections", "parsed"}
  BY DEF RejectHeader, HeaderErrors
<1>3. UNCHANGED <<file, hdr, sections, tables, first>>
  BY DEF RejectHeader
<1>4. IsFile(file')
  BY <1>1, <1>3 DEF ParseInv
<1> QED BY <1>1, <1>2, <1>3, <1>4 DEF ParseInv, ParseOf

LEMMA ParseHeaderStep == ParseInv /\ ParseHeader => ParseInv'
<1> SUFFICES ASSUME ParseInv, ParseHeader PROVE ParseInv'
  OBVIOUS
<1>1. /\ pc = "header" /\ pc' = "counts" /\ Variant(file) \notin HeaderErrors
      /\ hdr' = Header(file) /\ UNCHANGED <<file, sections, tables, first>>
  BY DEF ParseHeader, Header
<1>2. ParseOf(file, "counts", hdr', sections, tables)
  BY <1>1 DEF ParseInv, ParseOf
<1>3. first # NoParse => AgainOf(file, "counts", sections, first)
  BY DEF ParseInv, AgainOf
<1> QED BY <1>1, <1>2, <1>3 DEF ParseInv

LEMMA CheckCountsStep == ParseInv /\ CheckCounts => ParseInv'
<1> SUFFICES ASSUME ParseInv, CheckCounts PROVE ParseInv'
  OBVIOUS
<1>1. /\ pc = "counts" /\ hdr = Header(file) /\ Variant(file) \notin HeaderErrors
      /\ sections = <<HeaderSection>> /\ UNCHANGED <<file, hdr, sections, tables, first>>
  BY DEF CheckCounts, ParseInv, ParseOf
<1>2. CASE CountError(file, hdr) = "none"
  <2>1. pc' = "sections"
    BY <1>2 DEF CheckCounts
  <2>2. Chain(file, hdr, sections)
    BY <1>1, HeaderAlone, CallsAny DEF Chain
  <2>3. ParseOf(file, "sections", hdr, sections, tables)
    BY <1>1, <1>2, <2>2 DEF ParseOf
  <2>4. first # NoParse => AgainOf(file, "sections", sections, first)
    BY DEF ParseInv, AgainOf
  <2> QED BY <1>1, <2>1, <2>3, <2>4 DEF ParseInv
<1>3. CASE CountError(file, hdr) # "none"
  <2>1. first = NoParse
    <3> SUFFICES ASSUME first # NoParse PROVE FALSE
      OBVIOUS
    <3>1. /\ Emittable(first.file) /\ file = Emitted(first.file)
          /\ first.hdr = Header(first.file) /\ CountError(first.file, first.hdr) = "none"
      BY DEF ParseInv, AgainOf, ParseOf
    <3>2. Agree(hdr, first.hdr)
      BY <1>1, <3>1, HeaderReadBack
    <3>3. file.len = (first.file).len
      BY <3>1, EmittedParts DEF Emittable
    <3>4. CountError(file, hdr) = CountError(first.file, first.hdr)
      BY <3>2, <3>3, AgreeCounts
    <3> QED BY <1>3, <3>1, <3>4
  <2>2. pc' = CountError(file, hdr)
    BY <1>3 DEF CheckCounts
  <2>3. pc' \notin {"header", "counts", "sections", "parsed"}
    BY <1>3, <2>2 DEF CountError
  <2> QED BY <1>1, <2>1, <2>3 DEF ParseInv, ParseOf
<1> QED BY <1>2, <1>3

(* The sections recorded again are the first ones, and so is the next. *)
LEMMA NextAgain ==
  ASSUME ParseInv, first # NoParse, pc = "sections",
         Len(sections) <= Len(SectionCalls(hdr))
  PROVE  LET call == SectionCalls(hdr)[Len(sections)]
         IN  /\ ~(cursor + call.size > file.len)
             /\ Len(sections) + 1 \in 1 .. Len(first.sections)
             /\ first.sections[Len(sections) + 1] = Behind(Last(sections), call)
<1> DEFINE l == Len(sections)
<1>1. /\ Emittable(first.file) /\ file = Emitted(first.file) /\ first.hdr = Header(first.file)
      /\ Chain(first.file, first.hdr, first.sections)
      /\ Len(first.sections) = Len(SectionCalls(first.hdr)) + 1
      /\ l \in 1 .. Len(first.sections) /\ sections[l] = first.sections[l]
  BY DEF ParseInv, AgainOf, ParseOf, Complete
<1>2. hdr = Header(file)
  BY DEF ParseInv, ParseOf
<1>3. SectionCalls(hdr) = SectionCalls(first.hdr)
  BY <1>1, <1>2, HeaderReadBack, AgreeSections
<1>4. file.len = (first.file).len
  BY <1>1, EmittedParts DEF Emittable
<1>5. Len(SectionCalls(hdr)) \in Nat
  BY CallsAny
<1>6. l \in 1 .. Len(first.sections) - 1
  BY <1>1, <1>3, <1>5
<1>7. /\ first.sections[l + 1] = Behind(first.sections[l], SectionCalls(hdr)[l])
      /\ ~(align4(first.sections[l].start + first.sections[l].size)
             + SectionCalls(hdr)[l].size > file.len)
  BY <1>1, <1>3, <1>4, <1>6 DEF Chain
<1>8. Last(sections) = first.sections[l]
  BY <1>1 DEF Last
<1>9. l + 1 \in 1 .. Len(first.sections)
  BY <1>1, <1>3, <1>5
<1> HIDE DEF l
<1> QED BY <1>7, <1>8, <1>9 DEF cursor, l

LEMMA ChainGrows ==
  ASSUME NEW f, NEW h, NEW s, Chain(f, h, s), Len(s) <= Len(SectionCalls(h)),
         NEW x, x = Behind(Last(s), SectionCalls(h)[Len(s)]),
         ~(End(s) + SectionCalls(h)[Len(s)].size > f.len)
  PROVE  Chain(f, h, Append(s, x))
<1>1. PICK l \in Nat : l = Len(s)
  BY AppendAny DEF Chain
<1>2. PICK m \in Nat : m = Len(SectionCalls(h))
  BY CallsAny
<1> DEFINE t == Append(s, x)
<1>3. IsSeq(t) /\ Len(t) = l + 1 /\ (\A n \in 1..l : t[n] = s[n]) /\ t[l + 1] = x
  BY <1>1, AppendAny DEF Chain
<1> HIDE DEF t
<1>4. l \in 1..m /\ s[1] = HeaderSection
  BY <1>1, <1>2 DEF Chain
<1>5. ASSUME NEW n \in 1..l
      PROVE  /\ t[n + 1] = Behind(t[n], SectionCalls(h)[n])
             /\ ~(align4(t[n].start + t[n].size) + SectionCalls(h)[n].size > f.len)
  <2>1. CASE n = l
    BY <1>1, <1>3, <2>1 DEF Last, End
  <2>2. CASE n # l
    <3>1. n \in 1..l - 1 /\ n + 1 \in 1..l
      BY <2>2
    <3> QED BY <1>1, <1>3, <3>1 DEF Chain
  <2> QED BY <2>1, <2>2
<1>6. /\ Len(t) \in 1..m + 1 /\ t[1] = HeaderSection
  BY <1>3, <1>4
<1>7. 1 .. Len(t) - 1 = 1..l
  BY <1>3
<1> QED BY <1>2, <1>3, <1>5, <1>6, <1>7 DEF Chain, t

LEMMA ParseSectionStep == ParseInv /\ ParseSection => ParseInv'
<1> SUFFICES ASSUME ParseInv, ParseSection PROVE ParseInv'
  OBVIOUS
<1> DEFINE call == SectionCalls(hdr)[Len(sections)]
           x == [name |-> call.name, start |-> cursor, size |-> call.size]
<1>1. /\ pc = "sections" /\ Len(sections) <= Len(SectionCalls(hdr))
      /\ UNCHANGED <<file, hdr, tables, first>>
  BY DEF ParseSection
<1>2. x = Behind(Last(sections), call) /\ cursor = End(sections)
  BY DEF Behind, cursor, End
<1>3. CASE cursor + call.size > file.len
  <2>1. first = NoParse
    BY <1>1, <1>3, NextAgain
  <2>2. pc' = "SectionExceedsBounds"
    BY <1>3 DEF ParseSection
  <2> QED BY <1>1, <2>1, <2>2 DEF ParseInv, ParseOf
<1>4. CASE ~(cursor + call.size > file.len)
  <2>1. pc' = pc /\ sections' = Append(sections, x)
    BY <1>4 DEF ParseSection
  <2>2. Chain(file, hdr, sections)
    BY <1>1 DEF ParseInv, ParseOf
  <2>3. Chain(file, hdr, Append(sections, x))
    <3> HIDE DEF x
    <3>1. ~(End(sections) + SectionCalls(hdr)[Len(sections)].size > file.len)
      BY <1>2, <1>4
    <3> QED BY <1>1, <1>2, <2>2, <3>1, ChainGrows
  <2> HIDE DEF x
  <2>4. ParseOf(file, "sections", hdr, Append(sections, x), tables)
    BY <1>1, <2>3 DEF ParseInv, ParseOf
  <2>5. ASSUME first # NoParse
        PROVE  AgainOf(file, "sections", Append(sections, x), first)
    <3>1. /\ IsSeq(sections) /\ \A n \in 1..Len(sections) : sections[n] = first.sections[n]
      BY <2>5 DEF ParseInv, AgainOf
    <3>2. /\ Len(sections) + 1 \in 1 .. Len(first.sections)
          /\ first.sections[Len(sections) + 1] = x
      BY <1>1, <1>2, <2>5, NextAgain
    <3>3. PICK l \in Nat : l = Len(sections)
      BY <3>1, AppendAny
    <3>4. /\ IsSeq(Append(sections, x)) /\ Len(Append(sections, x)) = l + 1
          /\ \A n \in 1..l : Append(sections, x)[n] = sections[n]
          /\ Append(sections, x)[l + 1] = x
      BY <3>1, <3>3, AppendAny
    <3>5. \A n \in 1..l + 1 : Append(sections, x)[n] = first.sections[n]
      <4> TAKE n \in 1..l + 1
      <4>1. n \in 1..l \/ n = l + 1
        OBVIOUS
      <4> QED BY <4>1, <3>1, <3>2, <3>3, <3>4
    <3> QED BY <2>5, <3>2, <3>3, <3>4, <3>5 DEF ParseInv, AgainOf
  <2> QED BY <1>1, <2>1, <2>4, <2>5 DEF ParseInv
<1> QED BY <1>3, <1>4

(* When all are recorded they are the first ones. *)
LEMMA AllAgain ==
  ASSUME ParseInv, first # NoParse, pc \in {"sections", "parsed"},
         Len(sections) > Len(SectionCalls(hdr))
  PROVE  /\ sections = first.sections
         /\ TablesOf(file, hdr, End(sections)) = first.tables
         /\ first.tables.debug.kind # "InconsistentDebugHeader"
<1>1. /\ Emittable(first.file) /\ file = Emitted(first.file) /\ first.hdr = Header(first.file)
      /\ Complete(first.file, first.hdr, first.sections, first.tables)
      /\ IsSeq(first.sections) /\ IsSeq(sections) /\ Len(sections) \in 1 .. Len(first.sections)
      /\ \A n \in 1 .. Len(sections) : sections[n] = first.sections[n]
  BY DEF ParseInv, AgainOf, ParseOf, Chain
<1>2. hdr = Header(file)
  BY DEF ParseInv, ParseOf
<1>3. SectionCalls(hdr) = SectionCalls(first.hdr)
  BY <1>1, <1>2, HeaderReadBack, AgreeSections
<1>4. PICK m \in Nat : m = Len(SectionCalls(hdr))
  BY CallsAny
<1>5. Len(first.sections) = m + 1 /\ Len(sections) = m + 1
  BY <1>1, <1>3, <1>4 DEF Complete
<1>6. sections = first.sections
  BY <1>1, <1>5, EqualAny
<1>7. TablesOf(file, hdr, End(sections)) = TablesOf(first.file, first.hdr, End(sections))
  BY <1>1, <1>2, SameTables
<1> QED BY <1>1, <1>6, <1>7 DEF Complete

LEMMA ParseTablesStep == ParseInv /\ ParseTables => ParseInv'
<1> SUFFICES ASSUME ParseInv, ParseTables PROVE ParseInv'
  OBVIOUS
<1> DEFINE t == TablesOf(file, hdr, End(sections))
           debug == debug_info_v96_parse(file, hdr.debug_info_offset, hdr.version)
<1>1. /\ pc = "sections" /\ Len(sections) > Len(SectionCalls(hdr))
      /\ UNCHANGED <<file, hdr, sections, first>>
  BY DEF ParseTables
<1>2. t.debug = debug
  BY DEF TablesOf
<1>3. cursor = End(sections)
  BY DEF cursor, End
<1>4. CASE debug.kind = "InconsistentDebugHeader"
  <2>1. first = NoParse
    <3> HIDE DEF debug
    <3> QED BY <1>1, <1>2, <1>4, AllAgain
  <2>2. pc' = "InconsistentDebugHeader"
    BY <1>4 DEF ParseTables
  <2> QED BY <1>1, <2>1, <2>2 DEF ParseInv, ParseOf
<1>5. CASE debug.kind # "InconsistentDebugHeader"
  <2>1. pc' = "parsed" /\ tables' = t
    BY <1>3, <1>5 DEF ParseTables, TablesOf
  <2>2. Chain(file, hdr, sections) /\ CountError(file, hdr) = "none"
        /\ Variant(file) \notin HeaderErrors /\ hdr = Header(file)
    BY <1>1 DEF ParseInv, ParseOf
  <2>3. Len(sections) = Len(SectionCalls(hdr)) + 1
    <3>1. PICK m \in Nat : m = Len(SectionCalls(hdr))
      BY CallsAny
    <3>2. Len(sections) \in 1..m + 1 /\ Len(sections) > m
      BY <1>1, <2>2, <3>1 DEF Chain
    <3> QED BY <3>1, <3>2
  <2>4. Complete(file, hdr, sections, t)
    <3> HIDE DEF debug
    <3> QED BY <1>2, <1>5, <2>3 DEF Complete
  <2> HIDE DEF t
  <2>5. ParseOf(file, "parsed", hdr, sections, t)
    BY <2>2, <2>4 DEF ParseOf
  <2>6. first # NoParse => AgainOf(file, "parsed", sections, first)
    BY DEF ParseInv, AgainOf
  <2> QED BY <1>1, <2>1, <2>5, <2>6 DEF ParseInv
<1> QED BY <1>4, <1>5

LEMMA RejectEmitStep == ParseInv /\ RejectEmit => ParseInv'
<1> SUFFICES ASSUME ParseInv, RejectEmit PROVE ParseInv'
  OBVIOUS
<1>1. /\ first = NoParse /\ pc' = "VersionMismatch"
      /\ UNCHANGED <<file, hdr, sections, tables, first>>
  BY DEF RejectEmit
<1> QED BY <1>1 DEF ParseInv, ParseOf

LEMMA EmitStep == ParseInv /\ Emit => ParseInv'
<1> SUFFICES ASSUME ParseInv, Emit PROVE ParseInv'
  OBVIOUS
<1> DEFINE one == [kind |-> "parse", file |-> file, hdr |-> hdr, sections |-> sections,
                   tables |-> tables]
<1>1. /\ pc = "parsed" /\ first = NoParse /\ hdr.version \in EmitVersions
      /\ file' = emit_hbc(file, hdr) /\ first' = one /\ pc' = "header"
      /\ sections' = <<HeaderSection>>
  BY DEF Emit
<1>2. /\ IsFile(file) /\ Variant(file) \notin HeaderErrors /\ hdr = Header(file)
      /\ ParseOf(file, "parsed", hdr, sections, tables)
  BY <1>1 DEF ParseInv, ParseOf
<1>3. Emittable(file) /\ file' = Emitted(file)
  BY <1>1, <1>2, ParsedHeader DEF Emittable, Emitted
<1>4. /\ one # NoParse /\ one.file = file /\ one.hdr = hdr /\ one.sections = sections
      /\ one.tables = tables
  BY DEF NoParse
<1> HIDE DEF one
<1>5. /\ 1 \in 1 .. Len(sections) /\ sections[1] = HeaderSection
  <2>1. Chain(file, hdr, sections)
    BY <1>2 DEF ParseOf
  <2>2. Len(sections) \in Nat
    BY <2>1, AppendAny DEF Chain
  <2>3. PICK m \in Nat : m = Len(SectionCalls(hdr))
    BY CallsAny
  <2> QED BY <2>1, <2>2, <2>3 DEF Chain
<1>6. AgainOf(file', "header", <<HeaderSection>>, one)
  BY <1>2, <1>3, <1>4, <1>5, HeaderAlone DEF AgainOf
<1>7. ParseOf(file', "header", hdr', <<HeaderSection>>, tables')
  BY DEF ParseOf
<1> QED BY <1>1, <1>4, <1>6, <1>7 DEF ParseInv

LEMMA ParseStep == ParseInv /\ [Next]_vars => ParseInv'
<1>1. ParseInv /\ UNCHANGED vars => ParseInv'
  BY DEF ParseInv, vars
<1> QED BY <1>1, RejectHeaderStep, ParseHeaderStep, CheckCountsStep, ParseSectionStep,
           ParseTablesStep, RejectEmitStep, EmitStep DEF Next

(* A file that was parsed and emitted is parsed again without an error,    *)
(* and means the same: for every file of a layout there is an emitter for. *)
LEMMA ParseRoundTrip == ParseInv => RoundTrip
<1> SUFFICES ASSUME ParseInv, first # NoParse
             PROVE  /\ pc \notin Errors
                    /\ pc # "header" =>
                          \A name \in DOMAIN hdr \ Corrected : hdr[name] = first.hdr[name]
                    /\ pc = "parsed" =>
                          /\ sections = first.sections /\ tables = first.tables
                          /\ file.headers = first.file.headers
  BY DEF RoundTrip
<1>1. /\ pc \in {"header", "counts", "sections", "parsed"}
      /\ Emittable(first.file) /\ file = Emitted(first.file) /\ first.hdr = Header(first.file)
  BY DEF ParseInv, AgainOf, ParseOf
<1>2. pc \notin Errors
  BY <1>1 DEF Errors, HeaderErrors
<1>3. ASSUME pc # "header", NEW name \in DOMAIN hdr \ Corrected
      PROVE  hdr[name] = first.hdr[name]
  <2>1. hdr = Header(file)
    BY <1>1, <1>3 DEF ParseInv, ParseOf
  <2> QED BY <1>1, <2>1, HeaderReadBack, ParsedHeader DEF Agree
<1>4. ASSUME pc = "parsed"
      PROVE  /\ sections = first.sections /\ tables = first.tables
             /\ file.headers = first.file.headers
  <2>1. Complete(file, hdr, sections, tables)
    BY <1>4 DEF ParseInv, ParseOf
  <2>2. Len(sections) > Len(SectionCalls(hdr))
    BY <2>1, CallsAny DEF Complete
  <2>3. sections = first.sections /\ tables = first.tables
    BY <1>4, <2>1, <2>2, AllAgain DEF Complete
  <2>4. file.headers = (first.file).headers
    BY <1>1, EmittedHeaders
  <2> QED BY <2>3, <2>4
<1> QED BY <1>2, <1>3, <1>4

(* emit.rs and parse_inner: what was parsed and emitted can be parsed      *)
(* again, with the same header, sections, function headers, string kinds   *)
(* and debug info, for every file a content may come as.                   *)
THEOREM RoundTripCorrect == Spec => []RoundTrip
<1> QED BY ParseInit, ParseStep, ParseRoundTrip, PTL DEF Spec

=============================================================================
