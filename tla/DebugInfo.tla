------------------------------ MODULE DebugInfo ------------------------------
(***************************************************************************)
(* parser/debug_info.rs, where the debug section and its parts are, and    *)
(* the legacy file-name table of parse_inner.  file.debug is               *)
(* [at, words, stream]: the first words of the debug section at byte `at', *)
(* and the source-location stream (SourceLocations).                       *)
(***************************************************************************)
EXTENDS HbcHeader

(* read_u32 anywhere in the file: the header, the debug section, or bytes  *)
(* nothing here reads.                                                     *)
read_u32(file, off) ==
    IF off + 4 > file.len THEN 0
    ELSE IF off < HEADER_SIZE THEN HeaderWord(file, off)
    ELSE IF off - file.debug.at \in {4 * (w - 1) : w \in DOMAIN file.debug.words}
         THEN file.debug.words[(off - file.debug.at) \div 4 + 1]
    ELSE 0

NoDebug == [kind |-> "none"]

(* Variant: the offset may point into the header.                          *)
AnyOffset(off) == off > 0

PastHeader(off) == off >= HEADER_SIZE

(* The legacy table: 16 bytes of header, 8 bytes per file name.            *)
debug_filenames(file, off) ==
    LET count == read_u32(file, off)
        storage == off + 16 + 8 * count
    IN  IF /\ PastHeader(off) /\ off + 16 <= file.len
           /\ storage + read_u32(file, off + 4) <= file.len
        THEN [kind |-> "table", count |-> count, storage |-> storage] ELSE NoDebug

(* debug_info_v96_parse.                                                   *)
DebugVersions == 94 .. 99

debug_info_v96_parse(file, off, version) ==
    LET names_size == read_u32(file, off + 4)
        regions == read_u32(file, off + 8)
        lexical == read_u32(file, off + 12)
        size == read_u32(file, off + 16)
        data == off + 20 + 12 * regions + 4 + names_size
        end == IF data + size > file.len THEN file.len ELSE data + size
    IN  IF version \notin DebugVersions \/ ~PastHeader(off) \/ off + 20 > file.len
            \/ size = 0
        THEN NoDebug
        ELSE IF lexical > size THEN [kind |-> "InconsistentDebugHeader"]
        ELSE IF data + lexical > file.len THEN NoDebug
        ELSE [kind |-> "full", regions |-> <<off + 20, 12 * regions>>,
              names |-> <<data - names_size, names_size>>,
              locations |-> <<data, lexical>>,
              lexical |-> <<data + lexical, end - data - lexical>>]

=============================================================================
