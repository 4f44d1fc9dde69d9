------------------------------- MODULE HbcFile -------------------------------
(***************************************************************************)
(* HbcFile::parse up to the function table: the header, the counts, the    *)
(* sections one by one, the tables read from them and the debug info; and  *)
(* the way back, emit and a second parse of what was emitted.  The pass    *)
(* over the functions, which parse runs next, is FunctionTable; the files  *)
(* here have no function it would mark, which emit would refuse.           *)
(***************************************************************************)
EXTENDS HbcEmit, DebugInfo

W == INSTANCE HbcWriter

CONSTANTS Contents,      \* what the compiler wrote
          Damaged(_)     \* the files a file of it may have become

(* The file a content may come as.                                         *)
FilesOf(c) == {W!Written(c)} \cup Damaged(W!Written(c))

(* A file has these parts; its header is 32 words, whatever they say, a    *)
(* small function header has as many bits as its layout gives it, and the  *)
(* string tables have an entry wherever counts that passed let them be     *)
(* read.  A location that was compiled is a place in a source.             *)
FileParts == {"magic", "len", "words", "headers", "kinds", "small", "overflow", "array",
              "debug"}

EntriesFor(f) ==
    LET h == parse_variant(f, Variant(f), HeaderWord(f, 8))
    IN  CountError(f, h) = "none" =>
            h.string_count <= Len(f.small) /\ h.overflow_string_count <= Len(f.overflow)

ASSUME HbcFileAssumption ==
    \A c \in Contents :
        /\ W!IsContent(c) /\ W!IsLocated(c)
        /\ \A f \in FilesOf(c) :
              /\ DOMAIN f = FileParts
              /\ f.len \in Nat /\ f.words \in [1 .. 32 -> Nat]
              /\ Variant(f) \notin HeaderErrors =>
                    f.headers \in Seq(SUBSET (0 .. 8 * func_header_size(Variant(f)) - 1))
              /\ f.small \in Seq([utf16 : BOOLEAN, offset : Nat, length : Nat])
              /\ f.overflow \in Seq([offset : Nat, length : Nat])
              /\ Variant(f) \notin HeaderErrors => EntriesFor(f)

VARIABLES content,       \* what was written
          honest,        \* the file is as it was written
          file,          \* the bytes being parsed
          pc,            \* the stage of the parse, or its error
          hdr,           \* the header variant
          sections,      \* the sections recorded so far
          tables,        \* what is read once all of them are known
          first,         \* the parse that was emitted, NoParse before
          findings       \* what was passed to emit_finding

vars == <<content, honest, file, pc, hdr, sections, tables, first, findings>>

NoParse == [kind |-> "none"]

NoHeader == [variant |-> "none"]

NoTables == [kind |-> "none"]

Errors ==
    HeaderErrors \cup {"OverflowStringCountExceedsStringCount", "BoundCountExceeded",
                       "SectionExceedsBounds", "InconsistentDebugHeader"}

Init ==
    /\ content \in Contents
    /\ file \in FilesOf(content)
    /\ honest = (file = W!Written(content))
    /\ pc = "header"
    /\ hdr = NoHeader
    /\ sections = <<HeaderSection>>
    /\ tables = NoTables
    /\ first = NoParse
    /\ findings = {}

RejectHeader ==
    /\ pc = "header"
    /\ Variant(file) \in HeaderErrors
    /\ pc' = Variant(file)
    /\ UNCHANGED <<content, honest, file, hdr, sections, tables, first, findings>>

Guessed ==
    /\ HeaderWord(file, 8) = 98
    /\ detect_late_v98_form(file).guess

ParseHeader ==
    /\ pc = "header"
    /\ Variant(file) \notin HeaderErrors
    /\ hdr' = parse_variant(file, Variant(file), HeaderWord(file, 8))
    /\ findings' = findings
          \cup (IF Guessed THEN {"V98FormAmbiguous"} ELSE {})
          \cup (IF hdr'.file_length # file.len THEN {"FileLengthDisagreement"} ELSE {})
    /\ pc' = "counts"
    /\ UNCHANGED <<content, honest, file, sections, tables, first>>

CheckCounts ==
    /\ pc = "counts"
    /\ pc' = IF CountError(file, hdr) = "none" THEN "sections" ELSE CountError(file, hdr)
    /\ UNCHANGED <<content, honest, file, hdr, sections, tables, first, findings>>

cursor == align4(Last(sections).start + Last(sections).size)

(* The call after the sections recorded so far; section! checks the end    *)
(* against the file before it records.                                     *)
ParseSection ==
    /\ pc = "sections" /\ Len(sections) <= Len(SectionCalls(hdr))
    /\ LET call == SectionCalls(hdr)[Len(sections)]
       IN  IF cursor + call.size > file.len
           THEN pc' = "SectionExceedsBounds" /\ UNCHANGED sections
           ELSE /\ sections' = Append(sections, [name |-> call.name, start |-> cursor,
                                                 size |-> call.size])
                /\ UNCHANGED pc
    /\ UNCHANGED <<content, honest, file, hdr, tables, first, findings>>

ParseTables ==
    /\ pc = "sections" /\ Len(sections) > Len(SectionCalls(hdr))
    /\ LET off == hdr.debug_info_offset
           debug == debug_info_v96_parse(file, off, hdr.version)
       IN  IF debug.kind = "InconsistentDebugHeader"
           THEN pc' = debug.kind /\ UNCHANGED tables
           ELSE /\ tables' = [kind |-> "tables",
                              region |-> bytecode_region(file, hdr, cursor),
                              string_kinds |-> string_kind_map(file, hdr),
                              filenames |-> debug_filenames(file, off),
                              debug |-> debug]
                /\ pc' = "parsed"
    /\ UNCHANGED <<content, honest, file, hdr, sections, first, findings>>

RejectEmit ==
    /\ pc = "parsed" /\ first = NoParse /\ hdr.version \notin EmitVersions
    /\ pc' = "VersionMismatch"
    /\ UNCHANGED <<content, honest, file, hdr, sections, tables, first, findings>>

(* The emitted file is parsed in turn.                                     *)
Emit ==
    /\ pc = "parsed" /\ first = NoParse /\ hdr.version \in EmitVersions
    /\ file' = emit_hbc(file, hdr)
    /\ first' = [kind |-> "parse", file |-> file, hdr |-> hdr, sections |-> sections,
                 tables |-> tables]
    /\ pc' = "header"
    /\ hdr' = NoHeader /\ sections' = <<HeaderSection>> /\ tables' = NoTables
    /\ findings' = {}
    /\ UNCHANGED <<content, honest>>

Next ==
    \/ RejectHeader \/ ParseHeader \/ CheckCounts \/ ParseSection \/ ParseTables
    \/ RejectEmit \/ Emit

Spec == Init /\ [][Next]_vars

-----------------------------------------------------------------------------
(* What a file as it was written is read as.  A late version 98 file whose *)
(* function_source_count would do as the offset of debug info is told      *)
(* apart wrongly when it has none, so such files are left out below.       *)
Form(c) ==
    CASE c.version < 84 -> "PreV84"
      [] c.version \in 84 .. 86 -> "V84to86"
      [] c.version \in 87 .. 96 -> "V87to96"
      [] c.version = 97 \/ (c.version = 98 /\ ~c.late) -> "V97toV98Early"
      [] c.version > 98 \/ (c.version = 98 /\ c.late) -> "V98LateToV99"

AsWritten ==
    /\ honest
    /\ pc \notin {"header"} \cup HeaderErrors
    /\ hdr.variant = Form(content)

(* The form of version 98 is never guessed wrong: a file as it was written *)
(* that has functions, and no more sources than a header has bytes, is     *)
(* read in the layout of its version, or refused as ambiguous; no other    *)
(* version is refused.                                                     *)
HonestFormDetected ==
    honest /\ content.headers # <<>> /\ content.sources < HEADER_SIZE =>
        /\ hdr # NoHeader => hdr.variant = Form(content)
        /\ pc \in HeaderErrors => pc = "AmbiguousV98Form" /\ content.version = 98

(* Every section of a file as it was written is found where the compiler   *)
(* put it, none runs out of the file, and the code region is the code.     *)
SectionsFound ==
    AsWritten =>
        /\ pc \notin Errors
        /\ pc = "parsed" =>
              /\ tables.region = <<W!CodeStart(content), IF W!HasDebug(content)
                                                         THEN W!DebugAt(content)
                                                         ELSE file.len>>
              /\ \A k \in DOMAIN W!Sections(content) :
                    LET written == W!Sections(content)[k]
                    IN  written[2] > 0 =>
                            [name |-> written[1], start |-> W!SectionStart(content, k),
                             size |-> written[2]] \in ToSet(sections)

(* No string is taken from outside the string storage, and each one of a   *)
(* file as it was written is the one the compiler wrote: also through the  *)
(* overflow table, and with the kind of its run.                           *)
StringsReadBack ==
    pc = "parsed" =>
        \A s \in 1 .. hdr.string_count :
            LET read == string_as_str(file, hdr, sections, tables.string_kinds, s)
                storage == SectionNamed(sections, "StringStorage")
                written == content.strings[s]
                bytes == W!StringBytes(written)
            IN  /\ read.result = "Some" =>
                      \/ read.len = 0
                      \/ /\ read.offset >= storage.start
                         /\ read.offset + read.len <= storage.start + storage.size
                /\ AsWritten =>
                      read = Text(IF bytes = 0 THEN 0
                                  ELSE storage.start + W!StringOffset(content, s),
                                  bytes, written.kind, written.utf16)

(* A file that was parsed and emitted can be parsed again, and means the   *)
(* same: the same counts, sections, string kinds, function headers and     *)
(* debug info.  Two header words may differ, as emit puts them right.      *)
Corrected == {"file_length", "big_int_storage_size"}

RoundTrip ==
    first # NoParse =>
        /\ pc \notin Errors
        /\ pc # "header" =>
              \A name \in DOMAIN hdr \ Corrected : hdr[name] = first.hdr[name]
        /\ pc = "parsed" =>
              /\ sections = first.sections /\ tables = first.tables
              /\ file.headers = first.file.headers

=============================================================================
