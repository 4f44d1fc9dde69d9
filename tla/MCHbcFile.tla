------------------------------ MODULE MCHbcFile ------------------------------
(***************************************************************************)
(* Small files: every form of the header, tables that are empty or not,    *)
(* string lengths around the 255 of the overflow table, location streams   *)
(* cut everywhere, and files damaged in one word or entry.                 *)
(***************************************************************************)
EXTENDS HbcReads

Str(length, utf16, kind) == [length |-> length, utf16 |-> utf16, kind |-> kind]

Strings == {<<>>, <<Str(0, FALSE, 1), Str(254, FALSE, 0), Str(255, TRUE, 0), Str(1, TRUE, 1)>>,
            <<Str(300, FALSE, 1), Str(3, FALSE, 1), Str(256, FALSE, 0)>>}

Group(type, long, items) == [type |-> type, long |-> long, items |-> items]

(* [1, 2, "s"], [true, 7, null]                                            *)
NoLiterals == <<>>
SomeLiterals == <<Group(112, FALSE, <<<<1, 0, 0, 0>>, <<2, 0, 0, 0>>>>),
                  Group(80, TRUE, <<<<5, 0>>>>)>>
NullLast == <<Group(16, FALSE, <<<<>>>>), Group(112, FALSE, <<<<7, 0, 0, 0>>>>),
              Group(0, FALSE, <<<<>>>>)>>

Base ==
    [version |-> 96, late |-> FALSE, headers |-> <<{0, 26, 33, 50, 87, 88, 95}>>,
     strings |-> <<Str(3, FALSE, 1)>>, identifiers |-> 1, literals |-> NoLiterals,
     keys |-> 0, values |-> 0, shapes |-> 0, bigints |-> 0, digits |-> 0, regexps |-> 0,
     patterns |-> 0, modules |-> 0, sources |-> 0, body |-> 7, debug |-> <<>>, cut |-> 0,
     options |-> 0]

Versions == {40, 71, 72, 83, 84, 86, 87, 96, 97, 99, 100}

Of(v) == [Base EXCEPT !.version = v]

Forms == {Of(v) : v \in Versions} \cup {[Of(98) EXCEPT !.late = l] : l \in BOOLEAN}

(* All 96 bits of two headers, the second the complement of the first.     *)
Filled(c) ==
    [c EXCEPT !.strings = <<Str(5, FALSE, 0), Str(2, TRUE, 1)>>, !.literals = SomeLiterals,
              !.headers = <<{0, 24, 25, 31, 46, 54, 88, 95}, (0 .. 95) \ {0, 24, 25, 31, 46, 54, 88, 95}>>,
              !.keys = 3, !.modules = 1, !.regexps = 1, !.patterns = 6,
              !.values = IF c.version < 97 THEN 5 ELSE 0,
              !.shapes = IF c.version < 97 THEN 0 ELSE 2,
              !.bigints = IF c.version < 87 THEN 0 ELSE 1,
              !.digits = IF c.version < 87 THEN 0 ELSE 9,
              !.sources = IF c.version < 84 THEN 0 ELSE 2]

(* Kind 2 existed before version 72 only.                                  *)
OldKinds(c) == [c EXCEPT !.strings = <<Str(1, FALSE, 2), Str(1, FALSE, 1), Str(1, FALSE, 2)>>]

Loc(address, line, column, statement) ==
    [address |-> address, line |-> line, column |-> column, statement |-> statement]

Fun(index, line, entries) ==
    [index |-> index, line |-> line, column |-> 4, entries |-> entries]

Debugs == {<<Fun(0, 1, <<Loc(1, 0, 2, 0), Loc(3, -1, 0, 2)>>), Fun(2, 9, <<Loc(0, 1, 5, 1)>>)>>,
           <<Fun(1, 3, <<>>), Fun(2, 3, <<Loc(2, 2, -1, 0)>>)>>,
           <<Fun(0, 1, <<Loc(1, 0, 1, 0), Loc(1, 0, 1, 1), Loc(1, 1, 1, 0)>>), Fun(1, 2, <<>>)>>,
           <<Fun(0, 1, <<>>), Fun(1, 2, <<>>), Fun(3, 2, <<Loc(1, 0, 0, 0)>>),
             Fun(4, 5, <<>>)>>}

Debugged(c) ==
    UNION {{[c EXCEPT !.debug = d, !.cut = n] :
               n \in 0 .. Len(W!Stream([c EXCEPT !.debug = d]))} : d \in Debugs}

DebugForms == {Of(v) : v \in {94, 96, 97, 99, 100}}
                 \cup {[Of(98) EXCEPT !.late = l] : l \in BOOLEAN}

(* Version 98 with every options byte, with and without debug info, at     *)
(* offsets whose low byte is small too, and with many sources.             *)
Complete(c) == [c EXCEPT !.cut = Len(W!Stream(c))]

Forms98 ==
    {[Of(98) EXCEPT !.late = l, !.options = o, !.sources = n] :
        l \in BOOLEAN, o \in 0 .. 7, n \in {0, 3, 130}}

Contents98 ==
    {[c EXCEPT !.headers = h, !.strings = s, !.body = b] :
        c \in Forms98, h \in {<<>>, Base.headers},
        s \in {<<>>, Base.strings}, b \in {7, 100}}
    \cup {Complete([c EXCEPT !.debug = d, !.body = b]) :
        c \in Forms98, d \in Debugs, b \in {7, 104, 108}}

MCContents ==
    UNION {{[c EXCEPT !.strings = s] : s \in Strings} \cup {Filled(c)} : c \in Forms}
    \cup {OldKinds(Of(v)) : v \in {40, 71}}
    \cup {[c EXCEPT !.literals = NullLast] : c \in Forms}
    \cup UNION {Debugged(c) : c \in DebugForms}
    \cup Contents98
    \cup {[Of(96) EXCEPT !.headers = <<>>]}

WithWord(f, off, value) == [f EXCEPT !.words[off \div 4 + 1] = value]

(* Damage: a wrong length, offsets into the header and past the end,       *)
(* counts no file can hold, entries that point elsewhere, digits without a *)
(* table.                                                                  *)
MCDamaged(f) ==
    {[f EXCEPT !.magic = FALSE], [f EXCEPT !.len = 100], [f EXCEPT !.len = f.len - 20],
     WithWord(f, 8, 39), WithWord(f, 8, 101), WithWord(f, 32, 60),
     WithWord(WithWord(f, 108, 200), 112, 200), WithWord(f, 40, 1000),
     WithWord(f, 56, 2000), WithWord(WithWord(f, 32, 60), 36, 1),
     WithWord(WithWord(f, 104, 20), 32, 60), WithWord(WithWord(f, 104, 16), 32, 60),
     WithWord(f, 104, f.len - 3), WithWord(f, 104, f.len + 40),
     WithWord(WithWord(WithWord(f, 108, 16), 32, 60), 104, 0), WithWord(f, 60, 4000)}
    \cup (IF f.words[17] = 0 THEN {WithWord(f, 68, 12)} ELSE {})
    \cup (IF f.debug.words = <<>> THEN {}
          ELSE {[f EXCEPT !.debug.words[4] = 2000], [f EXCEPT !.debug.words[5] = 2000],
                [f EXCEPT !.debug.words[3] = 2000]})
    \cup (IF f.small = <<>> THEN {}
          ELSE {[f EXCEPT !.small[1].offset = 400], [f EXCEPT !.small[1].length = 200],
                [f EXCEPT !.small[1] = [utf16 |-> FALSE, offset |-> 9, length |-> 255]]})

=============================================================================
