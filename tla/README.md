# Verification of droidsaw-hermes

TLA+ modules, TLC configurations and TLAPS proofs for the Hermes bytecode
parser and decompiler in `src/`. The crate reads an HBC file (versions 40 to
100), and turns each of its functions back into JavaScript.

Contents: [the system](#the-system), [the modules](#the-modules),
[the runs](#the-runs), [the proofs](#the-proofs),
[what is not covered](#what-is-not-covered), [the plan](#the-plan).

## The system

    parse        header.rs, parser/mod.rs
      -> decode    decompile/decode.rs     bytes to instructions
      -> cfg       decompile/cfg.rs        basic blocks and edges
      -> ssa       decompile/ssa.rs        registers to versions and phis
      -> optimize  decompile/optimize.rs   copies, constants, dead code, names
      -> structure decompile/structure.rs, region.rs   graph to statements
      -> sugar     decompile/sugar.rs      statements to better statements
      -> emit      decompile/emit.rs       JavaScript text, checked by oxc
      -> verify    decompile/verify.rs     free variables

`scanner.rs` and `ipa.rs` are passes over the whole file. `emit.rs` writes a
parsed file back as bytecode. All of it is sequential: `decompile_bundle` calls
`decompile_one` for each function and collects one `Result` per function id.
The only state that outlives a call is the thread-local finding channel of
`finding.rs`, which is where threads matter: a pool of workers parses bundles
one after the other on the same threads.

| component | state | operations | hard to test | correct when |
|---|---|---|---|---|
| `cfg.rs`, `cfg_oracle.rs` | blocks, worklists, search stack | `Cfg::build` in five steps; `naive_cfg` | jump targets and handler ranges inside instructions, cut tables, duplicate edges, irreducible flow | equals the oracle; partitions the code; edges symmetric; order is a reverse post-order; ranges protect |
| `finding.rs` | `FINDINGS`, `SEEN` per thread | emit, drain, discard | a failed parse leaves findings behind; decompiling emits after the drain | every report holds what its own parse raised, once |
| `decode.rs`, `opcodes.rs`, `schemas.rs` | position, instructions | `decode_function`, tables of 21 versions | truncation, unknown opcodes, seven tables per version that must agree | instructions tile the body; the tables describe one instruction set |
| `scanner.rs` | string references, call graph, closure references | `scan_parsed` | a second walk with tables and guards of its own | sees what the decoder sees; lists ascend |
| `parser/mod.rs`, function table | layout, memos, budget, lists of unrecognized functions | layout selection, three validation passes, merge | tables shared by headers of different sizes; budget running out; recovery instead of rejection | layout decided by all functions; bodies apart; drops exact, reported and sorted |
| `parser/mod.rs`, sections | section bounds, string kinds, findings | `parse_inner` | order and alignment that depend on the version, untrusted counts and offsets | everything the compiler wrote is found where it put it |
| `header.rs` | none | version dispatch, choice between the two v98 headers | zeroed or doubly plausible fields | no form without evidence, and never the wrong one |
| `parser/debug_info.rs` | stream position | `debug_info_v96_parse`, `decode_source_locations` | a stream that ends inside an entry, the cap on entries | no entry made of another's bytes |
| `parser/round_trip.rs` | buffer position | `parse_literal_buffer`, section readers | runs longer than the buffer | what was asked for, or an error |
| `emit.rs` | output, cursor | one writer per version family | a field read under one variant and written under another | what was parsed is parsed again |
| `ssa.rs` | current definitions, incomplete phis | `build_ssa` | loops, catch blocks, undefined registers | every use is reached by its definition |
| `optimize.rs` | the SSA function | copies, folding, dead code, naming | phis, -0, chains | the program computes the same |
| `ipa.rs`, `mod.rs` | names by function | `collect_param_names`, `merge_ipa_names` | closures created in several places | a name only where all callers agree |
| `region.rs`, `structure.rs` | statement tree | case labels, phi copies, inlining, dispatcher | swaps in phi copies, moved side effects | the tree computes what the graph does |
| `sugar.rs` | statement tree | rewritings | interaction of rewritings | each preserves meaning |
| `verify.rs` | defined and used names | `collect_free_variables` | definitions on some paths only | no false alarm, no missed drop |
| `expr.rs`, `decompile/emit.rs` | none | operation to expression, statement to text | operand positions that differ from version to version; the list of pure names | the operands an expression shows are those of the instruction |

Interactions: `validate_function_regions` marks functions in
`unrecognized_functions`; the decoder's driver, the scanner and the emitter all
ask `is_function_unrecognized`, a binary search. `decode_function` promises
`Cfg::build` instructions that tile the body. `Cfg::build` promises `ssa.rs`
symmetric edges and `region.rs` string ids parallel to the case successors.
Every component may call `emit_finding`.

`PROJECT.json` lists the hazards of this code, each with its line and the
properties that watch it.

## The modules

Each definition that stands for code is mapped to its lines in `PROJECT.json`.
A definition commented "Variant:" is a plausible mistake in the code above it;
it is used by no specification, only to show that a property can fail.

### Control-flow graph: HermesInsn, CfgOracle, Cfg, CfgProps, MCCfg, CfgProofs, CfgGraphProofs

`HermesInsn` is the instruction as control flow sees it (offset, size, kind,
relative address, table operand and count), the predicates of `decode.rs` and
the reads of a jump table. `CfgOracle` is `naive_cfg` and `to_shape` as
operators. `Cfg` is `Cfg::build`: `pc` is the step the code is in and every loop
iteration is an action.

| action | code |
|---|---|
| `FindBoundaries`, `EmptyFunction` | step 1, with its early returns: `u32` overflow, no instructions |
| `Split`, `CloseLastBlock` | step 2: a block is closed at each boundary and at the end |
| `Edges`, `PushCase`, `CloseSwitch`, `EdgesDone` | step 3: successors by the last instruction, switch tables one entry at a time |
| `Link`, `LinkDone` | step 3: predecessor lists |
| `MapHandler` | step 4: the catch target of each wholly covered block |
| `StartSearch`, `Finish`, `Skip`, `Expand`, `PushSuccessor`, `SearchDone` | step 5: depth-first search with marked stack entries |
| `AppendUnreachable`, `CheckLayout` | step 5: blocks the search missed, then the check of the catch layout |

Registers, immediates and names are left out; a handler or target is any number,
aligned with an instruction or not.

### Findings: Findings, BundleReports, FindingsProofs

`Findings` has the two cells of each thread and the workers that use them, in
the order the docs of `drain_findings` and `discard_findings` prescribe: discard
at the entry of a bundle, parse, drain after `Ok`, decompile. A parse that fails
leaves through `?` and drains nothing. `BundleReports` is what a user of the
library may rely on: one report for each bundle, without threads.
The worker is external to `src/`: its order of calls is the one these docs state.

### Reading bytecode: OpcodeTable, Decode, Scanner, Disasm, MCDisasm, DisasmProofs

`OpcodeTable` is the shape of the generated tables and the reads made with them,
with operands in little-endian bytes to the base `ByteBase`. `Decode` is
`decode_function`, `Scanner` is `scan_parsed` with its own walk and columns,
`Disasm` puts `decode_function` under the loop and the guards of
`decompile_bundle` and `decompile_one`. Neither reader writes what the other reads, so one
order of the two is enough: the scanner runs second. The slot of a callee and the slot of a
closure's function are columns of the table, as the scanner has them (`call_ops`,
`closure_ops`); which operands of the decoder they are is computed from its schema.

### Function table: FunctionTable, FunctionTableProps, MCFunctionTable, FunctionTableProofs

What `HbcFile::parse` does after `parse_inner`.

| action | code |
|---|---|
| `KeepDefaultLayout` | the early return of `select_v98_large_header_layout` |
| `SkipHeader`, `ScoreShape`, `CompareDecodes`, `TallyScore` | one function scored: its two shapes with the memo per table, the comparison, the counts |
| `DecideLayout` | the decision, and the finding when there is none |
| `MarkUnrecognized`, `SkipEmptyBody`, `CollectSpan` | pass 1 of `validate_function_regions` |
| `SortSpans`, `ComparePair`, `BodiesCompared` | pass 2 |
| `ScreenHandlers`, `HandlersScreened` | pass 3 |
| `MergeHeads`, `MergeRest` | `merge_sorted_unrecognized` |

Data are abstracted as follows. The file is a sequence of words; a table of `n`
handlers is `1 + 3n` of them. The position of a large header's table is word
`tab` for the 36-byte shape and `tab + 1` for the 40-byte shape, the outcome of
the alignment in the code. Whether a large header is out of bounds or in a
computed region is a flag of the header. What emit computes anew is a set of
words. A header of another version has its table where the 36-byte shape has it.
Bodies lie in a space of their own, as their bytes are not read here. The
budget, a function of the file's length in the code, is a field of the bundle,
so that small files can exhaust it. Positions beyond `MaxPos` become 0, as they
do in the code, and word 0 then reads as the magic number.

`validate_function_regions` has a stale doc comment (parser/mod.rs:1290-1299
speaks of errors that "remain hard-rejects"); the model follows the code, which
marks such functions and goes on.

### Instructions: HbcOpcodes, HbcSchemas, InsnLowering, BuildExpr, OpcodePath, MCOpcodePath

`HbcOpcodes` and `HbcSchemas` are the generated tables themselves, 22 sets of
them. A table is written as what its version changes in the one before, so that
a row that moves is visible. `InsnLowering` takes one
instruction from its bytes to an SSA operation: the operand loop of
`decode_function`, the place of a closure's function id in `scan_parsed`, the predicates on names, `classify_inst`, the operand kinds
and the variadic arguments of `build_ssa`, and the rewrites of `optimize.rs`
that turn an index into text. `BuildExpr` is what `build_expr` and its fallback
`format_op` read of an operation (which slots, which kinds, from where an
argument list starts) and the form of the result; `is_pure` is there too.

| action | code |
|---|---|
| `RejectVersion`, `RejectOpcode` | the errors of `get_version_tables` and of the decoder's loop |
| `Decode` | one round of `decode_function`, with truncation |
| `BuildSsa` | the operands of `build_ssa`; more arguments than the input can hold |
| `Resolve` | `pattern_rewrite`, `resolve_buffers`, `resolve_bigints`, when the lookups find something or nothing |
| `EliminateDeadCode` | `dead_code_elimination`, of an operation nobody reads |

Registers, numbers and texts are left out: an operand is its kind. `Decode` and
`Scanner` (above) run over any table of the right shape, `OpcodePath` over the
real ones.

### Decompiling: SsaBuild, JsNumbers, Passes, Meaning, Emission, Optimizer, MCOptimizer

`SsaBuild` is `build_ssa`, `Passes` the passes of `optimize` with the naming of
variables, `JsNumbers` the `f64` and `i32` they compute with, `Emission` what
`structure.rs` writes under these names. `Meaning` is the reference: what a function does, along each path, is the
sequence of its calls, stores, tests and its return with the values they see,
where a value is a term. One machine runs registers, SSA form and, in `Emission`,
statements. `NamesDoNoHarm` says of a function when its names are harmless: no statement
assigns a name that is still to be read for another variable, and no copy comes too
early. It is liveness over the statements, and nothing of it is in the code.

| action | code |
|---|---|
| `BuildSsa` | `build_ssa`: variables, phis, definitions of undefined registers |
| `PropagateCopies`, `FoldConstants` | the passes of these names |
| `EliminateDeadCode`, `EliminateAgain` | the call of `optimize` and its closing loop of at most four rounds |
| `NameVariables` | `name_variables`: fixed texts, parameters, functions, property reads, phis with one argument |
| `CoalesceNames` | `coalesce_phi_names` |

The Braun builder and the region search belong to `droidsaw_common`: the first
is external operators (`read_variable`, `take_phis`), the second is taken to
give back the nesting of the blocks (`depth`). A program is any code over its
registers, one that reads what a path has not written included.

Numbers are exact fractions with the infinities and NaN, and integers of `IntBits`
bits: rounding and -0 are abstracted. There is one property. An object is known by a label of
the instruction that makes it, so an allocation that moves into a loop is not
noticed. A closure is an opaque value that is never moved, and the functions it may name have
names of their own. The names that `optimize.rs` guesses for parameters from their
use are left out, and so are exceptions, switches and class recovery.

### The file: HbcHeader, HbcSections, DebugInfo, HbcEmit, HbcWriter, HbcFile, SourceLocations, LocationReads, HbcReads, MCHbcFile, HbcFileProofs, HbcWriterProofs

`HbcHeader` is `header.rs`, with the fields of all five layouts. `HbcSections` is
`parse_inner` and the string reader, `DebugInfo` is where `debug_info.rs` finds its
parts, `HbcEmit` is `emit.rs`. `HbcWriter` is external: how Hermes
writes a file of a given content, stated by format version and without the
parser's definitions, so that the two can disagree. `HbcFile` puts them together.
A caller runs two readers over a parsed file: `SourceLocations` decodes the location
stream, in rounds over the functions and over the entries of each, and the reader of
`HbcReads` the array buffer. `LocationReads` and `HbcReads` say what these give. The second is apart
because reading literals is recursive, so that no theorem can be about a module that uses it.

| action | code |
|---|---|
| `RejectHeader`, `ParseHeader` | `parse_hbc_header`, and the findings raised for a guess and for a wrong length |
| `CheckCounts` | the gates on counts of `parse_inner` |
| `ParseSection` | one `section!` or `section_opt!` |
| `ParseTables` | code region, string kinds, file names, `debug_info_v96_parse` |
| `RejectEmit`, `Emit` | `emit_hbc`; the file it writes is parsed in turn |

A file is its header as 32 words, its length, and the contents of the tables
something reads. A function header is the set of its 1 bits. A location stream is the sequence of integers it encodes, one
byte each; that the decoder saturates its sums at 32 bits is left out. Sections whose bytes nothing here reads have a size only.
The entries of the string tables are copied by `emit_hbc` in the model. The code takes small ones apart into
1, 23 and 8 bits and packs them again (emit.rs:746-755), so what `RoundTrip` says
of these entries it says of where they are, and not of this packing.
`MCDamaged` changes a file in one or two places: wrong length, counts no file can hold,
offsets into the header, past the end and inside a section, entries that point elsewhere.

## The runs

| run | question | size |
|---|---|---|
| `cfg` | does `Cfg::build` return the oracle's graph, with the properties the later passes use, on every four-instruction program of three families | 3 families: branches (with targets inside and past instructions), one or two handlers (nested, overlapping, cutting), switches (cut, clamped, empty, shared and stray targets), besides an empty function and one that ends past `u32::MAX` |
| `cfg_string_ids` | is `switch_string_ids` parallel to the case successors, as cfg.rs:52 says. It is not: a counterexample | same programs |
| `cfg_usize32` | is a table whose start overflows skipped, as cfg.rs:346 says. On a 32-bit target it is not: a counterexample | same programs, `UsizeMax = U32Max` |
| `findings` | do two pooled threads and three bundles get their own reports | 2 findings, at most 2 emissions in each phase |
| `disasm` | do decoder and scanner agree on every file | all files of 5 bytes, some of 6, over 5 opcodes and one byte that is none; bodies shared, overlapping, empty, out of bounds or unrecognized |
| `function_table` | is the layout honest, are the drops exact, are bodies apart | 24144 bundles, 476106 states: overlapping tables with two budgets, three bodies in every arrangement, broken headers among bad handlers |
| `opcode_path` | do the generated tables of every version describe one instruction set, and do the decoder, the scanner, `build_ssa` and `build_expr` agree on operands and arguments | every opcode byte of 27 versions (all with tables, some without their own, two unsupported), 3 frame sizes, 4 argument counts; 52364 states |
| `optimizer` | does a function still do what its instructions do after `build_ssa` and after every pass, and do the statements it is written as, wherever names and copies keep out of each other's way | one block, an if, two kinds of loop; three registers; all choices from menus of loads, copies, arithmetic, property accesses, calls and results with fixed names; every folded operation on the widest integers, fractions and zeros; 20758 programs, 168452 states |
| `hbc_file` | is a file read as it was written, in every layout, and does what was parsed survive emit; is nothing read outside its section in a damaged one | 35540 files, 397334 states: 13 forms, strings of 254, 255 and 256 units, streams cut at every entry |
| `effects_survive_dce` | does dead code elimination keep what has side effects, as expr.rs:45 says. It does not: a counterexample | as `opcode_path` |
| `phi_copies` | are the copies for phis right, as structure.rs:782 says, where no two phis share a name. They are not: a counterexample | `while (x)` loops that exchange two registers |
| `literals_read_back` | is a literal buffer read in part only with an error, as README.md:137 says. It is not: a counterexample | as `hbc_file` |

Why the bounds suffice. `cfg`: four instructions of two bytes make a diamond, a
loop with an exit, an irreducible pair, two nested ranges and a switch with three
entries; `CaseCap = 3` stands for 65536 so that the clamp is met, and odd
addresses are never aligned. `findings`: two emissions meet the duplicate
within a bundle and the one across bundles, and three bundles on two threads
give a thread a second bundle after a failed and after a successful one.
`disasm`: five bytes hold an instruction cut by the end at every length, with
an operand in front of the string id. `function_table`: two large headers with
tables that overlap and a third function that shares a header reach every use
of the memos; budgets 2 and 20 run out at each stage or never; three bodies are
what an overlap that neighbours do not show would need; `MaxDedups = 1` is passed by three equal
bodies. `opcode_path` is exhaustive in versions and opcodes; a frame of 9 has
its first argument in register 0 and one of 11 in register 2, so that five
arguments fall below it, and `total_insns = 4` is exceeded by five. `optimizer`:
a copy, a second write and a use in three free places make every order of a copy
and what overtakes it; chains are long enough for a second round of dead code elimination; `MaxPath = 5` goes round a
loop twice. `IntBits = 4` stands for 32: with constants from -8 to 7 it has results
beyond the width, shifts by more than it, unsigned results that `i32` cannot hold, and
divisions that leave a fraction. Register R1 is read unwritten on one arm of an if and in a loop's first round.
`StatementsKeepMeaning` has preconditions, and they hold for thousands of programs, some
2500 of them with phis and some 1600 in which variables share a name. `hbc_file`: one entry in a table is
enough to shift all later ones and the alignment of each section is reached by
sizes 1, 3, 5, 6 and 9; `MaxPcEntries = 3` stands for the cap on entries of a
function, which a stream of three reaches, and `MaxFunctions = 3` for the cap on
functions, which a stream of four passes.

Fairness. `FairSpec` is weak fairness of the whole next-state relation: each
modelled function is one sequential call, so it keeps running until it returns;
nothing is assumed about which branch it takes. The findings run needs no
fairness and has no deadlock check, for its workers stop when the bundles are
used up. `Terminates` is therefore the claim that no loop runs for ever, and a
`Done`, `Returned` or similar stuttering action stands for the return.

### Findings about the code

* `switch_string_ids` is not parallel to `successors[1..]` (cfg.rs:52 against
  cfg.rs:372-381): case successors are deduplicated, string ids are not. Two
  strings with one body shift the labels of all later cases, as region.rs:307
  pairs them by index. `CaseLabelsMatchTargets` states when labels are right:
  when the default and all entries lead to blocks of their own.
* Dead code elimination drops calls (expr.rs:119 against expr.rs:45):
  `is_pure` lists `GetNextPName`, `IteratorNext` and `IteratorClose`, which are
  rendered as calls that advance or close an iteration.
* `emit_block_ops` (structure.rs:801 against structure.rs:782) writes the copies for
  phis one after the other, so a loop that exchanges `b` and `c` writes `b = c; c = b`.
* `parse_literal_buffer` (parser/round_trip.rs:873) stops when the buffer ends
  before it looks at the type, so a last group of null, true, false or undefined
  loses its items and the read is a success.
* On a target with a 32-bit `usize` the comment at cfg.rs:346 is wrong: a table
  start that overflows becomes 0, and the table is read there.

Smaller observations, without a run of their own.

* Every stripped v98 file that has functions is refused as `AmbiguousV98Form`,
  early or late, while the doc of `detect_late_v98_form` (header.rs:566)
  describes a check of the footprint and a default to the early form. A late one
  whose `function_source_count` could be an offset is taken for early:
  `HonestFormDetected` asks for fewer than 128 sources.
* The cap on PC entries of a function ends the loop without marking the function
  corrupt, and the remaining entries are read as the header of the next one.
  `SourceLocationsReadBack` is about functions below the cap (`BelowCap`).
* Version 100 is parsed without debug info. The versions below 94 have a legacy
  table of file names only.
* No instruction reaches `build_expr` with the arguments of a construction, so
  `new F(..)` is written without them. The operand of `CreateAsyncClosure` stays
  a number, as ssa.rs looks for `CreateClosure` in the name.
* `NewObjectWithBufferAndParent` is never resolved and is written as `{}`.
* Moving a single-use `GetById` to its use passes stores and calls;
  `StatementsKeepMeaning` leaves property reads out where they meet one (`MovesNoRead`).
* `SelectObject` is written as the placeholder of its destination (expr.rs:2028, against
  the comment above it), unless the rewriting of a construction has removed it: the arm reads
  slot 0, which in all tables is the destination. So do `ThrowIfEmpty` and `ThrowIfUndefined` (expr.rs:2317).
  `DefineOwnById` is written as `obj[?] = value` outside class recovery
  (structure.rs:3133): its name has become text by then. `OperandsPresent` checks the kinds of the
  operands of all other instructions, and only the presence of these (`SlotsMistaken`).
* `coalesce_phi_names` (optimize.rs:2763) gives versions that are alive together one
  name. In `while (x) { f(x--) }` old and new `x` are both `a0`; the copies for the phi are dropped
  as trivial, and the assignment of the decrement overwrites what the call behind it reads.
* A register written on one arm of an if only has a phi with an argument nothing
  defines: undefined variables are looked for in the operands of operations (ssa.rs:591),
  not in the arguments of phis. `StatementsKeepMeaning` leaves such functions out.
* A parameter with a single use whose variable shares another name by
  coalescing loses its assignment (structure.rs:2196-2230), and a group that has the name
  `undefined`, `true` or that of a property read loses all of them. `NamesDoNoHarm` excludes both.
  The comment at optimize.rs:1695 knows of the collision of coalescing and inlining.
* `FUNC_IDS` of opcodes.rs does not list the function operands of an instruction set:
  it is empty below version 90 and has `CallDirect` without `CallDirectLongIndex`.
  The scanner does not use it. `FunctionSlotsAgree` is therefore about the slots
  it does use, `CALL_OPS` and the names of the closure instructions.
* The comment at optimize.rs:2731 says "to fixed point"; there are four rounds.
* A folded -0 is written as 0.

## The proofs

All are checked by TLAPS for every value of the constants that satisfies the
assumptions named in the modules: `ProgramsAssumption` (a program's instructions
tile its code, which `DecodingTiles` proves of the decoder), `WidthAssumption`,
`FindingsAssumption`, `TableAssumption`, `FilesAssumption`,
`FunctionTableAssumption` and `HbcFileAssumption` (a header is 32 words, a small function
header has the bits of its layout, the string tables have an entry wherever counts
that passed let them be read, and a content is one a compiler may be given,
`IsContent`: a version there is, no storage without a table, a part of the location
stream; `IsLocated`: the lines and columns that were compiled are not below zero, though
their differences may be), and `SourceLocationsAssumption` (the two caps are naturals).
TLC evaluates each of them in a run.

Three theorems have a hypothesis of their own.

* `MatchesOracleCorrect`: `TablesAddressable`, no jump table of a program starts
  past `usize::MAX`. On a 64-bit target none does, since an offset and an operand
  are both `u32`; the run `cfg_usize32` shows that the property is false without it.
* `XrefsMatchDecoderCorrect`, `CallsMatchDecoderCorrect`: `OperandsInside`,
  `StringsAligned` and `FunctionsAligned`, the operands of an instruction lie in it and a
  slot the scanner reads is a whole unsigned operand of the decoder. They say of an
  arbitrary table what `TablesAgree` and `ScannedOperandsAgree` check of every generated one.

| module | theorem | along which argument |
|---|---|---|
| `CfgProofs` | `TypeCorrect` | `TypeInv` adds to `TypeOK` that no instruction ends past `u32::MAX` once step 1 has passed, where the loop index stands, and that a block has a last instruction; without these the end of a block and its jump table have no type |
| | `PartitionCorrect` | `PartitionInv`: the finished blocks and the one being collected hold the instructions before the loop index, each once |
| | `OrderCorrect`, `PostOrderCorrect` | `SearchInv`: the visited blocks are the finished ones and the expanded ones on the stack (`Open`), no block twice; every successor of an expanded entry is visited or waits above it (`FrontierInv`); the entry block lies at the bottom and finishes last (`RootInv`) |
| `CfgGraphProofs` | `EdgesSymmetricCorrect` | `PredInv`: there are no predecessors before step 3 ends, and while it links, a block not yet linked is nobody's predecessor; a block then adds itself as often as it has the successor (`Count` of an appended sequence) |
| | `CaseLabelsCorrect` | `ShapeInv`: a block is a run of instructions from one boundary to the next. `FlowInv`: a block whose edges are built has those of its last instruction, and the switch being read has those of its first `k - 1` entries |
| | `HandlersProtectCorrect` | `HandlerInv`: of the first `k - 1` handlers, a block has the target of the last that covers it. A handler that starts and ends on instructions cuts there, so it covers a block or misses it |
| | `MatchesOracleCorrect` | all of these: `ShapeInv` gives the leaders and the blocks of the oracle, `FlowInv` its edges and `HandlerInv` its catch edges; `EmptyInv` is the function without instructions |
| | `BackwardLoopsCorrect` | `TreeInv`: what is on the stack is reached from the entry and from every open block below it, so a block that finishes before one of its successors is reached from that successor (`FinishedAfter`). `OrderInv` carries this to `block_order`. Reachability, layers of successors added once per block, is shown to be the smallest closed set (`NatSetInduction` over the layers, and a count for the last) |
| | `LayoutAcceptedCorrect` | `OrderInv`: the blocks the search missed follow the ones it found, in the order of their offsets; a catch block that normal flow misses is thus behind what it protects |
| `FindingsProofs` | `TypeCorrect`, `ConsistentCorrect`, `ReportCorrect` | `Inv`: the two cells agree, a busy thread owns its bundle alone (`OwnershipInv`), and while it parses its cell holds what that parse raised |
| | `ReportsImplemented` | with `Inv`, every step maps to a step of `BundleReports` or a stutter: a suppressed emission, an emission after the drain and the end of a job are stutters |
| `DisasmProofs` | `DecodingTiles` | `DecodeInv`: the loop has tiled up to `pos`, the call belongs to slot `func_id`, and finished slots are tiled |
| | `RefsAscend` | `ScanInv`: every list ascends and holds no function past the one being scanned, so comparing with the last entry is enough |
| | `DisasmTypes` | `ScanTyped`: a graph grows by ids below the count only |
| | `XrefsMatchDecoderCorrect` | `WalkInv`: what the decoder read of a body is the walk over its bytes, up to the first byte that cannot be read. `RefsInv`: the scanner stands behind the first `m` of these instructions, and each list has the functions met until there |
| | `CallsMatchDecoderCorrect` | `GraphInv`: as `RefsInv`, with the order; each list comes from the first `m` instructions (`Listed`), and pushing a target that is not the last one, or none, keeps it so |
| `FunctionTableProofs` | `UnrecognizedListSorted` | `SortInv`: the three lists ascend, what is merged lies below what is not, and the two lists of marks share no function, because pass 3 skips what pass 1 marked |
| | `BodiesDisjoint` | `ApartInv`: each function met in pass 1 is marked, empty or has a span (`Seen`); the spans up to `idx` are the same or one before the other (`ComparedUpTo`), which `CompareNext` carries to the next neighbour. Sorting only has to keep every span (`Arranged`): an order the comparison does not like is rejected, so soundness does not rest on the sort |
| | `LayoutHonestCorrect` | `LayoutInv`: each remembered summary and score is what reading the table afresh gives (`MemoInv`), the scores of the header at hand too (`ScoringInv`), and the counts are zero exactly when all headers met so far fit (`TallyInv`). A remembered summary decides for every body size whether the table fits (`Answers`, by induction over its entries), so sharing it between parents does no harm |
| | `UnrecognizedExactCorrect` | `FaultInv`: the marks of pass 1 and of pass 3 are those of the faulty functions below `idx`, and merging loses none. `FindingInv`: a mark has its finding |
| | `SelectedLayoutServesCorrect` | with both: a function that scored under the layout is read by pass 3 at the same place, finds its handlers inside, and was not capped |
| | `FunctionTableTypes` | `TypedInv`, and `LayoutInv` for the budget |
| `HbcFileProofs` | `RoundTripCorrect` | `ParseInv`: a parse under way is determined by its file, its sections are a chain of calls (`Chain`), and the parse of an emitted file has recorded a prefix of the first one's. Word by word, emit writes the field that was read from there (`PlanFits`, for each of the four layouts), so the layout is recognized again and all fields but the two that are put right read the same (`HeaderReadBack`); the bit fields of a function header cover it and are packed where they were taken (`Cover`); what lies behind the header is read from bytes that were copied |
| `HbcWriterProofs` | `HonestFormDetectedCorrect` | `HonestInv`: the file of the first parse is the one the compiler wrote. Field by field its header holds what the writer put there (`WordsAt`, `FieldsParsed`), so the header parsed is that of the content (`HeaderIs`, for each of the five layouts); of the two candidates of version 98 the wrong one never wins alone (`Version98`) |
| | `SectionsFoundCorrect` | `AcceptedInv`: no check refuses such a file in its layout. The calls of `section!` go over the sections as they were written, a section without a call being empty (`Walk`, group by group), so the sections recorded so far end where the section after them starts (`ChainPlaced`); each of these lies before the code (`StartsGrow`), and so does every counted table (`SizesFit`). The second parse is the first one again, by `ParseInv` |
| | `StringsReadBackCorrect` | no invariant beyond `ParseInv` and `HonestInv`. The sections of any file are extents (`ChainTyped`) and `string_get` compares the end of a string with the end of the storage, so nothing is read outside it (`ReadInside`). In a file as it was written the storage is the sixth section (`StorageNamed`), strings lie in it one after the other (`OffsetsGrow`), a long one has the overflow entry its small entry points to (`LongEntry`), and the words of the runs give back the runs, which cover each string by a run of its kind (`RunsRead`, `RunsCover`) |
| | `SourceLocationsReadBackCorrect` | no invariant beyond `ParseInv` and `HonestInv`, which has that the content is `IsLocated`. The data that is decoded has the numbers of the stream as far as it goes (`Matches`), so what the stream is joined from is found at its place: the opening of a function, each entry, the terminator (`FunctionParts`, `EntriesAt`). One round over the entries reads the next one and moves the position by it, or finds the terminator, or the data ends before it (`PcStep`); by induction the rounds end in all of the locations or in a prefix of them marked corrupt (`PcsRead`), the cap not being met. One round over the functions adds a whole one, or the last and corrupt one, or ends between two (`FunctionStep`), and by induction again the list is what the property says (`FunctionsRead`, `DecodedLocations`) |

TLC evaluated these inductive invariants before they were proved: those of `Cfg` on 92580 states
(3144 programs), those of the function table on all 476106 states of its run, and
those of `Disasm` on all 404664.

Induction. The provers cannot instantiate the library's induction theorems,
which take a predicate as a parameter. `Induction` states them for sets, from the
well-foundedness of `<`: `NatSetInduction`, `IntervalInduction`, `LeastNatural` and
`GreatestBounded`. With these the proofs reason about the model's recursive function of layers
(`ReachableFrom`) and about walks over tiles and tables. `RecursionTyped` and `Recursion`
say of a function defined by a recursion on `0 .. n` that there is one and where its
values lie; the writer's offsets, runs, starts, streams and positions (`HbcWriter`) and the
rounds of the location decoder are such functions. `InOrder` says with a choice of positions
what a list sorted by position would say, as a sort is defined by `CHOOSE`.

Model-checked only: liveness (`Terminates`), which is out of this prover's reach
with fairness and `ENABLED`; the properties of `OpcodePath`, facts about constant
tables, which TLC evaluates in full, so a proof would add nothing; those of
`Optimizer`, which speak of the meaning of whole paths. What the
recursive functions `LittleEndian` and `OperandAt` compute is not needed:
`Disasm`'s two readers share them.

## What is not covered

* `ipa.rs`, `merge_ipa_names` and the names that `optimize.rs:1453-1665` guesses for
  parameters from their use.
* The region search of `droidsaw_common` and what is built on its tree: the
  dispatcher of `structure.rs`, `region.rs`, `sugar.rs`, `verify.rs`, and the
  spread and template rewritings of `optimize.rs`. They match patterns in trees
  whose shape another project decides.
* Exceptions in `ssa.rs` and later passes: `Cfg` has them, `SsaBuild` has not. Where a
  catch block's registers come from is decided by the SSA construction of
  `droidsaw_common`, whose source is not in this repository.
* `error.rs`, `lib.rs`, `build.rs`, `sentinel_diag.rs`: types, texts, counters.
* `decompile/emit.rs`: layout of text, checked at run time by the oxc parser.
* `parser_oracle.rs`, Kani proofs, fuzz targets and tests: other verification of
  the same code.
* `emit_hbc` for files with unrecognized functions, which it refuses; the writers of
  the versions without an emitter do not exist.
* The charge of the optional parse budget, texts of findings and severities.

## The plan

What is left, in this order.

1. **Ipa**: names over the whole bundle, closure targets by operand kind.
2. **Verify, Sugar**: the statement tree as a module, then the walk of
   `collect_free_variables` and the rewritings with guards on effects.
