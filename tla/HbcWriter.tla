------------------------------ MODULE HbcWriter ------------------------------
(***************************************************************************)
(* The file format seen from the other side: how the Hermes compiler       *)
(* writes a file of a given content.  Not code of this repository; it is   *)
(* what the parser is compared with, stated by format version and without  *)
(* the parser's definitions.                                               *)
(*                                                                         *)
(* A content is a record: version, late (the second form of 98), headers,  *)
(* strings (length, utf16, kind), literals (the groups of the array        *)
(* buffer), the counts and sizes of the other tables, body (bytes of       *)
(* code), debug (functions with their locations, <<>> when stripped), cut  *)
(* (bytes of the location stream that are kept), options.                  *)
(***************************************************************************)
EXTENDS Integers, SequencesExt

At(c, from) == c.version >= from

Late(c) == At(c, 99) \/ (c.version = 98 /\ c.late)

If(cond, s) == IF cond THEN s ELSE <<>>

(* Strings are laid out one after the other; a length that does not fit in *)
(* the small entry goes to the overflow table.                             *)
StringBytes(s) == IF s.utf16 THEN 2 * s.length ELSE s.length

Offsets(c) ==
    LET offset[n \in 0 .. Len(c.strings)] ==
            IF n = 0 THEN 0 ELSE offset[n - 1] + StringBytes(c.strings[n])
    IN  offset

StringOffset(c, i) == Offsets(c)[i - 1]

IsLong(s) == s.length >= 255

(* The long ones among the first n strings.                                *)
AndLong(long, c, n) == IF IsLong(c.strings[n]) THEN Append(long, n) ELSE long

Longs(c) ==
    LET long[n \in 0 .. Len(c.strings)] ==
            IF n = 0 THEN <<>> ELSE AndLong(long[n - 1], c, n)
    IN  long

LongBefore(c, i) == Len(Longs(c)[i - 1])

SmallTable(c) ==
    [i \in DOMAIN c.strings |->
        IF IsLong(c.strings[i])
        THEN [utf16 |-> c.strings[i].utf16, offset |-> LongBefore(c, i), length |-> 255]
        ELSE [utf16 |-> c.strings[i].utf16, offset |-> StringOffset(c, i),
              length |-> c.strings[i].length]]

OverflowTable(c) ==
    LET long == Longs(c)[Len(c.strings)]
    IN  [k \in DOMAIN long |->
            [offset |-> StringOffset(c, long[k]), length |-> c.strings[long[k]].length]]

(* Runs of equal kinds, and the words that hold them.                      *)
OneMore(runs, kind) ==
    IF runs # <<>> /\ Last(runs).kind = kind
    THEN [runs EXCEPT ![Len(runs)] = [count |-> @.count + 1, kind |-> kind]]
    ELSE Append(runs, [count |-> 1, kind |-> kind])

RunsOf(c) ==
    LET runs[n \in 0 .. Len(c.strings)] ==
            IF n = 0 THEN <<>> ELSE OneMore(runs[n - 1], c.strings[n].kind)
    IN  runs

Runs(c) == RunsOf(c)[Len(c.strings)]

RunWords(c) ==
    [r \in DOMAIN Runs(c) |->
        LET run == Runs(c)[r]
        IN  IF At(c, 72) THEN [low |-> run.count, b30 |-> 0, b31 |-> run.kind]
            ELSE [low |-> run.count, b30 |-> run.kind % 2, b31 |-> run.kind \div 2]]

(* A literal buffer: groups of items of one type, each item the bytes of   *)
(* its value.                                                              *)
Literals(groups) ==
    FlattenSeq([g \in DOMAIN groups |->
        (IF groups[g].long THEN <<128 + groups[g].type, Len(groups[g].items)>>
         ELSE <<groups[g].type + Len(groups[g].items)>>) \o FlattenSeq(groups[g].items)])

LiteralItems(groups) ==
    FlattenSeq([g \in DOMAIN groups |->
        [k \in DOMAIN groups[g].items |-> <<groups[g].type, groups[g].items[k]>>]])

(* The sections in file order, each on a multiple of four bytes.           *)
Section(name, size) == <<<<name, size>>>>

Objects(c) ==
    Section("ObjKeyBuffer", c.keys)
    \o If(~At(c, 97), Section("ObjValueBuffer", c.values))
    \o If(At(c, 97), Section("ObjShapeTable", 8 * c.shapes))

Sections(c) ==
    Section("FunctionHeaders", Len(c.headers) * (IF At(c, 97) THEN 12 ELSE 16))
    \o Section("StringKinds", 4 * Len(Runs(c)))
    \o Section("IdentifierHashes", 4 * c.identifiers)
    \o Section("SmallStringTable", 4 * Len(c.strings))
    \o Section("OverflowStringTable", 8 * Len(OverflowTable(c)))
    \o Section("StringStorage", StringOffset(c, Len(c.strings) + 1))
    \o Section("ArrayBuffer", Len(Literals(c.literals)))
    \o Objects(c)
    \o If(At(c, 87), Section("BigIntTable", 8 * c.bigints) \o Section("BigIntStorage", c.digits))
    \o (Section("RegExpTable", 8 * c.regexps) \o Section("RegExpStorage", c.patterns))
    \o Section("CJSModules", 8 * c.modules)
    \o If(At(c, 84), Section("FunctionSourceTable", 8 * c.sources))

Aligned(n) == ((n + 3) \div 4) * 4

Starts(c) ==
    LET start[k \in 0 .. Len(Sections(c))] ==
            IF k = 0 THEN 128 ELSE Aligned(start[k - 1] + Sections(c)[k][2])
    IN  start

SectionStart(c, k) == Starts(c)[k - 1]

CodeStart(c) == SectionStart(c, Len(Sections(c)) + 1)

(* The location stream: per function its index and position, its entries   *)
(* as differences, and -1.  The low bit of a line difference announces a   *)
(* statement difference.                                                   *)
Entry(c, e) ==
    <<e.address, 2 * e.line + (IF e.statement = 0 THEN 0 ELSE 1), e.column>>
    \o If(c.version \in 94 .. 96, <<0, 0>>) \o If(At(c, 99), <<0>>)
    \o If(e.statement # 0, <<e.statement>>)

Entries(c, f) ==
    LET bytes[n \in 0 .. Len(f.entries)] ==
            IF n = 0 THEN <<>> ELSE bytes[n - 1] \o Entry(c, f.entries[n])
    IN  bytes

FunctionBytes(c, f) ==
    <<f.index, f.line, f.column>> \o (Entries(c, f)[Len(f.entries)] \o <<-1>>)

Streams(c) ==
    LET bytes[n \in 0 .. Len(c.debug)] ==
            IF n = 0 THEN <<>> ELSE bytes[n - 1] \o FunctionBytes(c, c.debug[n])
    IN  bytes

Stream(c) == Streams(c)[Len(c.debug)]

NamesSize == 5

HasDebug(c) == c.debug # <<>>

DebugAt(c) == Aligned(CodeStart(c) + c.body)

FileLength(c) ==
    IF HasDebug(c) THEN DebugAt(c) + 20 + 12 + 4 + NamesSize + Len(Stream(c)) ELSE DebugAt(c)

DebugWords(c) == <<1, NamesSize, 1, c.cut, Len(Stream(c))>>

(* The header, field by field, and filled up to its 128 bytes.             *)
Fields(c) ==
    <<FileLength(c), 0, Len(c.headers), Len(Runs(c)), c.identifiers, Len(c.strings),
      Len(OverflowTable(c)), StringOffset(c, Len(c.strings) + 1)>>
    \o If(At(c, 87), <<c.bigints, c.digits>>)
    \o <<c.regexps, c.patterns, Len(Literals(c.literals)), c.keys>>
    \o <<IF At(c, 97) THEN c.shapes ELSE c.values>>
    \o If(Late(c), <<0>>)
    \o <<0, c.modules>>
    \o If(At(c, 84), <<c.sources>>)
    \o <<IF HasDebug(c) THEN DebugAt(c) ELSE 0, c.options>>

HeaderWith(version, fields) ==
    <<0, 0, version, 0, 0, 0, 0, 0>> \o fields \o [i \in 1 .. 24 - Len(fields) |-> 0]

HeaderWords(c) == HeaderWith(c.version, Fields(c))

Written(c) ==
    [magic |-> TRUE, len |-> FileLength(c), words |-> HeaderWords(c),
     headers |-> c.headers, kinds |-> RunWords(c), small |-> SmallTable(c),
     overflow |-> OverflowTable(c), array |-> Literals(c.literals),
     debug |-> [at |-> DebugAt(c), words |-> IF HasDebug(c) THEN DebugWords(c) ELSE <<>>,
                stream |-> Stream(c)]]

(* What a compiler may be given: the versions there are, three bits of     *)
(* options, no storage without a table, a part of the stream.              *)
IsContent(c) ==
    /\ c.version \in 40 .. 100 /\ c.late \in BOOLEAN /\ c.options \in 0 .. 7
    /\ c.headers \in Seq(SUBSET Nat)
    /\ c.strings \in Seq([length : Nat, utf16 : BOOLEAN, kind : 0 .. 3])
    /\ c.literals \in Seq([type : Nat, long : BOOLEAN, items : Seq(Seq(Nat))])
    /\ {c.identifiers, c.keys, c.values, c.shapes, c.bigints, c.digits, c.regexps,
        c.patterns, c.modules, c.sources, c.body} \subseteq Nat
    /\ c.bigints = 0 => c.digits = 0
    /\ c.regexps = 0 => c.patterns = 0
    /\ c.debug \in Seq([index : Nat, line : Int, column : Int,
                        entries : Seq([address : Nat, line : Int, column : Int,
                                       statement : Nat])])
    /\ c.cut \in 0 .. Len(Stream(c))

(* The locations a function was compiled with: each entry moves on from    *)
(* the one before, the first from the start of the function.               *)
Moved(at, e) ==
    [address |-> at.address + e.address, line |-> at.line + e.line,
     column |-> at.column + e.column, statement |-> at.statement + e.statement]

Positions(f) ==
    LET at[n \in 0 .. Len(f.entries)] ==
            IF n = 0
            THEN [address |-> 0, line |-> f.line, column |-> f.column, statement |-> 0]
            ELSE Moved(at[n - 1], f.entries[n])
    IN  at

Locations(f) == [n \in 1 .. Len(f.entries) |-> Positions(f)[n]]

(* They are places in a source: differences may be negative, lines and     *)
(* columns are not.                                                        *)
IsLocated(c) ==
    \A k \in DOMAIN c.debug :
        \A n \in 0 .. Len(c.debug[k].entries) :
            /\ Positions(c.debug[k])[n].line >= 0
            /\ Positions(c.debug[k])[n].column >= 0

=============================================================================
