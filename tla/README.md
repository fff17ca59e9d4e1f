# TLA+ specifications of LCTL

LCTL is a C++ template library of lossless integer compression formats for
columns of a database. A format is a *type* (the Collate model: loops,
tokenizers, parameter calculators, encoders, combiners); template
metaprogramming turns it into an intermediate tree and then into straight-line
code. `Compress<format>::apply` packs a column into a memory region,
`Decompress<format>::apply` restores it. Everything runs in one thread, without
I/O, and no call waits for anything.

What is hard here is not concurrency. It is that two pieces of generated code,
written separately and unrolled by different recursions, walk over the same bits
and must agree about every pointer increment. The words between two steps are
half written, the output region holds garbage, widths are chosen at runtime,
and values cross word borders. A test sees one instance of a template and the
final result. The specifications look at every intermediate step, for
all the word widths, bitwidths and block sizes that a template parameter may have.

## The system's components

| component | files | state it keeps | operations |
|---|---|---|---|
| value writer | `codegeneration/Write.h`, `LeftShift.h`, `RightShift.h`, `Increment.h` | the words at the two pointers, the level of the recursion | `Write::compress`, `Write::decompress`, `IncrAndWriteSpan`, `WriteFix` |
| loops over the column | `transformations/codegeneration/RolledLoopGenerator.h` | the pointers `inBase`, `outBase`, the counter `i` | `while` pass, memcpy of the tail |
| unrolled block of one static width | `UnrolledLoop_TokenSize1_..._SimpleCombiner_Generator.h` | `remainingValuesToWrite`, `bitposition` (template parameters) | next value, end of block with alignment |
| unrolled block of a runtime width | `UnrolledLoop_Tokensize1_..._OuterConcatCombiner_Generator.h`, `Generator.h` | the same, and the position in the `Concat` list | header, next value, end of block without alignment |
| runtime parameters | `ParameterGenerator.h`, `EncoderGenerator.h`, `helper/findParameter.h`, `getPos.h`, `parameterList.h` | the tuple of parameters of the block | calculate, choose a case, decode, replace (adaptive) |
| calculation language | `language/calculation/*.h`, `intermediate/calculation/aggregation.h` | none | `Token`, `Minus`, `Plus`, `Max`, `Min`, `Bitwidth` |
| column formats | `columnformats/forbp/*.h`, `columnformats/delta/delta.h` | none | the types that the above is instantiated with |
| conversions | `conversion/columnformat/*.h` | caller's pointers | `Compress`, `Decompress`, `CompressBlock`, `DecompressBlock`, `Cascade` |
| translation | `transformations/intermediate/*.h` | none (compile time) | Collate model to intermediate tree, position of parameters |

They interact by calls alone: a conversion calls the loop, the loop calls the
parameter calculation or the block, the block calls `Write` once per value.
The shared state is the pair of pointers, passed by reference all the way down
and advanced at each level: the loop for the tail, `Write` for words, the block
for input values and alignment, the header for itself. The other channel is the
compressed region: what compression wrote is the only thing decompression knows,
widths of blocks included.

What makes each of them correct:

* value writer: a value lands in its field and nowhere else, whatever the memory
  held, however many words it spans; the pointer moves exactly when a word is full;
* loops: each value is handled once, by the loop or by the tail;
* blocks: the decompressor aligns where the compressor aligned; a block's first
  word holds nothing of the block before;
* runtime parameters: the width decompression decodes is the width compression
  used, and it holds all the values;
* translation: the place at which a parameter is looked up is the place it is put at;
* adaptive parameters: compression and decompression use the same reference for the same
  value, although one replaces it before and the other after;
* conversions: the size returned covers what was written, the column comes back, and
  a conversion made of calls is the conversion of the whole.

## Modules

| module | what it specifies |
|---|---|
| `BitMemory` | unsigned integers and memory regions as sets of bit positions; shift, mask, load, assign, or-assign |
| `Write` | one value between a `base_t` variable and the region: the left shift, the levels of `IncrAndWriteSpan`, and the mirror image |
| `Codec` | the abstract promise: the column is packed from front to back, then given back from front to back, exactly |
| `StaticBitPacking` | `statbp`, `statforstatbp`, `bpfranka`: one step per level of the generated recursion; implements `Codec`, and adds up to the calls of `StaticFormat`, which it extends |
| `Numbers` | arithmetic of such integers: number, difference, sum, comparison, modulo the width of a type |
| `DynamicBlocks` | what the formats with a bitwidth per block share: loop, width, case selection, header word, values, tail, and their common properties; implements `Codec` |
| `DynamicBitPacking` | `dynbp`, `statfordynbp`: completes `DynamicBlocks` with the or of the values and a static encoding |
| `FrameOfReference` | `dynforbp`: completes it with the second parameter `min`, written behind the width and looked up before it |
| `Translation` | a format becomes an intermediate tree: which parameter is known at compile time, and at which place of the tuple the others are looked up |
| `Delta` | `delta`: the translation, then the two calls, with the tuple of runtime parameters as the state between values; implements `Codec` |
| `StaticFormat` | the calls of a static format as one operator each, for callers that combine calls |
| `Morphing` | `Cascade` (indirectly and directly) as `test_morphing.cpp` drives it, and a caller of `CompressBlock` and `DecompressBlock` |
| `MCStaticBitPacking`, `MCDynamicBlocks`, `MCDynamicBitPacking`, `MCFrameOfReference`, `MCDelta`, `MCMorphing` | the small instances TLC checks |
| `WordArithmetic` | lemmas about words, quotients, powers, sums, recursive functions, and the numbers that sets of bits stand for |
| `WriteProofs` | lemmas about the operators of `Write`, and one value written and read as a whole |
| `StaticBitPackingProofs` | type correctness, the pointer invariant, the exact image of the region and the encoded prefix; what a call leaves alone, its size, what the decompressor reads, damage, round trip, the safety of `Codec`, and that the steps make the calls of `StaticFormat`, proved |
| `DynamicBlocksProofs` | lemmas about the formats with a bitwidth per block: powers, sums, numbers and their bits, where blocks and fields begin, the widths that are calculated, and the invariant of pointers and counters, step by step |
| `DynamicBitPackingProofs` | every property of `DynamicBitPacking`, and the safety of `Codec`, proved |
| `FrameOfReferenceProofs` | numbers compared and subtracted bit by bit; every property of `FrameOfReference`, and the safety of `Codec`, proved |
| `DeltaProofs` | the types of the tree and the positions of parameters of any format; the tree of `delta`, its parameters, its stream, the round trip and the safety of `Codec`, proved |
| `MorphingProofs` | lemmas about the calls of `StaticFormat` in closed form; every property of `Morphing` that its code has, proved |

### State and actions against the code

An integer is the set of the positions of its 1 bits and the region the set of
the addresses of its 1 bits. On the little-endian machines the code is written for, words
of `compressedbase_t`, the column's `base_t` values copied by `memcpy` and the
64-bit load of `findParameter` all see the same bits, so one address space serves
all. A pointer is a bit address, an index into the column is an index. Widths
wrap: what does not fit in a word or in `base_t` is cut by `Truncate`.

`StaticBitPacking`: `value` is the code's `inBase` (compression) or `outBase`
(decompression) as an index, `word` the other pointer; `left`, `bp`, `k` are the
template parameters `remainingValuesToWrite_t`, `bitposition_t`,
`overhangWordCounter_t`, which the unrolled code holds implicitly by where it is;
`pass` counts loop passes.

| action | code |
|---|---|
| `CompressPass` / `DecompressPass` | `while (i <= countInLog)` of `RolledLoopGenerator.h` |
| `WriteFirst` / `ReadFirst` | the shift in `Write::compress` / `Write::decompress` |
| `WriteSpan` / `ReadSpan` | one level of `IncrAndWriteSpan` |
| `NextValue` / `NextRead` | the end of that recursion, the inverse encoding, the next template instance |
| `EndBlock` / `EndRead` | the end of the block: `Incr<bitposition_t != 0, ...>` |
| `CopyTail` / `RestoreTail` | `memcpy`, the advance of both pointers, return of the size |
| `CallDecompress` | the caller's second call, on the region the first one wrote |

`CallDecompress` needs `CompressedBits = BaseBits`: the end of a block in
decompression is `Incr<..., base_t, 1>::apply(inBase)` on a pointer to
`compressedbase_t` (SimpleCombiner, line 289), which compiles only then. For
other pairs of types the model stops after compression and the runs check what
compression wrote.

`DynamicBlocks` has the same tail and loop, and one step per value (all levels of
`Write` at once). Its operators are the generators that dynamic formats have in
common, and the two modules that extend it make actions of them:

| `DynamicBitPacking` | `FrameOfReference` | code |
|---|---|---|
| | `CalculateMin` | `UnknownValueIR`, compress: `MinIR` |
| `CalculateWidth` | `CalculateWidth` | `SwitchValueIR`, compress: `Bitwidth<Max<Token>>`, `Bitwidth<Minus<Max<Token>, min>>` |
| `WriteHeader`, `NoCase` | `WriteHeader`, `NoCase` | the `List` of cases, and `WriteFix` of the width; nothing is executed when no width matches |
| | `WriteMin` | the element of the `Concat` list with a `StringIR` |
| `WriteToken`, `EndBlock` | `WriteToken`, `EndBlock` | the values, and `Concat<>`, which does not align |
| | `DecodeMin` | `UnknownValueIR`, decompress: `findParameter` |
| `DecodeWidth` | `DecodeWidth` | `SwitchValueIR`, decompress: `findParameter` |
| `SkipHeader`, `NoCaseRead` | `SkipHeader`, `SkipMin`, `NoCaseRead` | the same list, decompress |
| `ReadToken`, `EndRead` | `ReadToken`, `EndRead` | the values |

`__builtin_clz` sees `ClzBits` bits of its argument, so that a `base_t` wider than
`unsigned int` can be told from a narrower one; `clz(0)` is undefined and gives any
of `UndefinedWidths`, 0 standing for every width without a case. `widths` is a history
variable: the code keeps no list of them. `MinBits` is the length of the parameter
`min`, 16 in the code, and 0 in the formats without it.

`Translation` walks through a format as the templates do. `format.loops` are the
loops with their parameter definitions, of four kinds: calculated at runtime,
adaptive, known, and a `Bitwidth`, of which a `Switch` is made. `names` is
`runtimeparameternames_t` without the `"length"` at its end, `values` is `valueList_t`,
`code` the nodes made so far. A node also records `tuple`, the names of the parameters
that its generator gets at runtime: the translation has no such list, it is what the
generators build with `std::tuple_cat`, and the comparison of the two is the point of
the module. Terms are abstracted to the names they refer to.

| `Translation` | code |
|---|---|
| `SkipNonAdaptive`, `InitializeAdaptive` | `InitializeAdaptiveParameters` of `Analyzer.h` |
| `EnterLoop`, `EnterInnerLoop` | the two loops of `LoopAnalyzer.h` |
| `AnalyzeUnknown`, `AnalyzeAdaptive`, `AnalyzeKnown`, `AnalyzeSwitch` | the specializations of `ParameterAnalyzer` |
| `AnalyzeEncoder` | the end of the parameters in front of the encoder |
| `Term`, `TuplePosition`, `GetPos` | `Term.h`, `getPosParameterForGenerator.h` |

`Delta` continues with the generated code of `delta`. `params` is what the tuple's
pointers point to.

| `Delta` | code |
|---|---|
| `InitializeP`, `InitializePAgain` | `UnknownValueIR` of the start value 0, in front of either loop |
| `CalculateRef`, `RecallRef` | `UnknownValueIR` of `ref`, whose term is `p` |
| `ReplaceP` | `AdaptiveValueIR`, compress: `parameterList::replace` by the token, before it is written |
| `EncodeToken`, `DecodeToken` | `EncoderIR`: all levels of `Write` at bit position 0, and the pointer of the column |
| `UpdateP` | `AdaptiveValueIR`, decompress: the same, after the value was restored, through a copy of the old output pointer |
| `EndCompress`, `EndDecompress` | the end of the loop; blocks of one value leave no tail |

`Morphing` has one action per call, with the regions and buffers the caller
allocates as variables:

| `Morphing` | code |
|---|---|
| `CompressSource`, `CheckIndirect`, `CheckDirect` | `Compress`, `Decompress` in `test_morphing.cpp` |
| `Restore`, `Recompress` | the two conversions of `Cascade::morphIndirectly` |
| `MorphBlock`, `EndDirect` | a pass and the end of `Cascade::morphDirectly` |
| `PackBlock`, `UnpackBlock` | `CompressBlock::apply`, `DecompressBlock::apply` |
| `EndPack`, `EndUnpack` | a caller that stops when no block is left; the repository has none |

`ByteBits` are the bits of a `uint8_t`: the calls count addresses in bytes.
In `morphDirectly` two pieces of arithmetic matter: `SourceAddress` takes a number of values
for a number of bytes, as the code does; `TargetAddress` is the sum of the sizes.

The encoding is a parameter of `StaticBitPacking` and `DynamicBitPacking`: `Encode`,
`Decode` with `Decode(Encode(v)) = v`. `Token` is the identity, `Minus<Token, Value<ref>>`
subtraction modulo `2^BaseBits`; the `MC` modules define both.

## Properties

Every module has one type invariant. The others:

| property | what it says |
|---|---|
| `PointersInStep` | between two values, column pointer, word pointer and bit position name the same value and its field; each block starts on a word |
| `EncodedPrefix` | if the values fit, each packed value stands in its field from then on, dirty region or not |
| `BlockImage` | a bit of the written words is 1 iff a value put it there, in its field or (too wide a value) in the rest of the word its field ends in |
| `FrontierKept` | compression touches nothing behind the word it has begun |
| `DamageConfined` | a value too wide spoils only values that start in the word its field ends in |
| `DecoderInside` | each word decompression reads of a field was counted in the size |
| `SizeCoversOutput` | all that compression wrote lies below the size it returned |
| `StepsMakeCall` | the steps of the two calls add up to `Compress` and `Decompress` of `StaticFormat` |
| `StreamDescribesItself` | following the headers from the start finds every block; its width is the least that holds its values or distances; header and values are intact (`DynamicBitPacking`: if the encoded values fit that width, which is computed from the unencoded ones; `FrameOfReference`: the values that end in a word the block does not fill excepted, and blocks whose least value is too wide) |
| `DecoderInStep` | decompression takes compression's widths in order and is at the same place for the same value |
| `BlocksFillWords` | a block with a header of one word ends on a word border although nothing aligns it |
| `PrefixSurvives` | blocks before the first block for which `clz(0)` was asked come back whatever width that block was given (`DynamicBitPacking`: those whose encoded values do not fit excepted; `FrameOfReference`: with the exceptions above, and next to blocks whose least value is too wide) |
| `NothingLostSilently` | if every block found a case, every block whose encoded values fit comes back, and so does the tail |
| `LookupsRight` | in a regular format each position a term was given is, in the tuple its node gets, the place of the parameter the term names |
| `ReferenceIsPredecessor` | `delta` encodes each value with the value in front of it and decodes it with the value restored in front of it; both loops start from 0 |
| `DifferencesInPlace` | each value packed so far stands in its field as that difference, to the end of both calls |
| `IndirectMorphIsCompression` | if the source format holds the column, the indirect morph is bit for bit and in size the compression of the column |
| `IndirectMorphRestores` | if both formats hold it, the column comes back from the indirect morph |
| `DirectMorphPrefix` | the first block of the direct morph is right, and all are if a source block has as many bytes as values |
| `DirectMorphRestoresBlocks` | if both formats hold the column, the blocks that the direct morph converted come back under the same condition |
| `DirectMorphConfined` | the direct morph writes nothing behind the size it returns |
| `BlockwiseAgrees` | packing block by block gives the region and the pointer of one call; unpacking moves along the same addresses and restores the values |
| `DirectMorphRestores` | the column comes back from the direct morph |
| `RoundTrip` | the column comes back (`StaticBitPacking`: if its values fit the bitwidth; the dynamic formats: violated, see below) |
| `ImplementsCodec` | the two calls implement `Codec`: safety (exact values, in order, nothing restored before everything is packed) and liveness (both calls end) |

A format is *regular* (`Regular`) if no parameter is calculated at runtime behind a
`Switch` (a `Switch` adds to the tuple and not to the list of names, which shifts all
positions counted later) and adaptive parameters belong to the outer loop (only
there are they initialized). `dynbp`, `dynforbp` and `delta` are.

## Runs

Word widths of 2 to 8 bits stand for 8 to 64. The code depends on widths only
through comparisons of `bp + bw` with multiples of the word, quotients and
remainders, and the instances cover each relation: column type as wide as the word,
three times as wide (values span up to four words, four levels of recursion), half as
wide (several values in a word, tails that fill no word); fields that end before,
at and behind a border; blocks that end on and inside a word; columns of 0 to
two blocks and a tail. The output region is clean or all ones, elements of the
decompressed column all ones before they are written, so that every bit the code
forgets to clear or to write shows.

| run | instance | question |
|---|---|---|
| `SBP_fits` | 4-bit words and column, width 3, blocks of 3, up to 7 values, reference 13 | the round trip when the distances fit: pointers, fields, size, `Codec`, `Minus`/`Plus` with wrap-around |
| `SBP_narrow_words` | 2-bit words, 6-bit column, width 5, blocks of 3, values of up to 6 bits | values over several words, and what values too wide do |
| `DBP_blocks` | 4-bit words, 8-bit column, blocks of 4, two blocks of any widths and a tail, reference 3, values from there upwards | headers, widths, decoder in step, size, `Codec`, values wider than a word |
| `DBP_wide_words` | 8-bit words, 4-bit column, two blocks of 8 and a tail, reference 3, zeros and values below and above it, any width for a block of zeros | several values in a word; what zero blocks and values below the reference can spoil |
| `FOR_words` | 4/4, `min` of 8 bits (two words, as 16 bits are of 8-bit words), two blocks and a tail | `dynforbp` where blocks fill words: `Codec` |
| `FOR_inside_words` | 8/8, `min` of 4 bits (half a word, as 16 bits are of 32-bit words), blocks of 8, least values of up to 8 bits, equal values | `dynforbp` where blocks end inside a word: what is lost and what is not |
| `Delta` | all formats of up to three parameters in one or two loops (names may repeat), `dynbp`, `dynforbp`; `delta` with 2-bit words, a 4-bit column and up to 4 values of 0, 1, 6, 15 | lookups; predecessors, stream, `Codec` |
| `Morph_blocks` | 4-bit words, 2-bit bytes, blocks of 2 and 3, widths 1 to 3, reference 1 subtracted in the source and not in the target, 0 to 7 and 13 values | both morphs, block-wise conversion; source blocks that have as many bytes as values and others; values that one format holds and the other does not |

Deadlock is not checked because every behaviour ends: after decompression, or
after compression where decompression does not exist. That it does not end
earlier is the liveness part of `ImplementsCodec`.

`SBP_fits` and `SBP_narrow_words` have blocks of 3, which `bpfranka` allows and `statbp` and
`statforstatbp` do not (they fix the block size to a multiple of the word width, so their
blocks never need alignment): the aligning end of a block is the harder case.

Bounds: `MaxLen`, `MaxBlocks`, `Lengths` (length of the column), `MaxDefinitions` (parameters
of a format; three are needed for a parameter behind another one with a third between them), `Values`, `Pairs` (the values it is made
of), `MCGarbage`, `MCScratch` (two region contents, one element content). No
guard is bounded.

### Where the code and its documents differ

README.md:10 of LCTL says that the formats "are correct with all parametrizations", and
names dynamic bit packing, static FOR and dynamic FOR with dynamic bit packing among them.
`examples/test_correctness.cpp` disagrees: "This does not work at the moment" stands above the
criterion of `statfordynbp` (line 35) and above the one of `dynforbp` (line 42). Neither
comment names a case. The models say where the two formats work and where they do not:
`ColumnsSuit` (below) is a condition under which the round trip is proved, and among
the differences that follow are the cases in which it fails: for `statfordynbp` long values,
blocks of zeros and values below the reference; for `dynforbp` long distances, words that the header
does not fill, blocks of equal values where `clz(0)` finds no case, and a least value
longer than 16 bits.

Runs that TLC is expected to find violated:

* `DBP_long_values`: for `uint64_t` the width is `64 - __builtin_clz(...)`, which
  looks at the lower 32 bits only (`aggregation.h:166`; the overloads at lines 65
  and 99 use `__builtin_clzl`).
* `DBP_tail_size`: the tail's size is divided by the size of a word and rounded
  down (`RolledLoopGenerator.h:139`), so the "number of bytes" returned
  (`CompressBlock.h:29`, `test_correctness.cpp:136`) is less than what was written.
* `FOR_last_values`: `doc/guide.md:941` says that "each new compressed block starts
  aligned". With words of 32 or 64 bits a block of `dynforbp` ends inside a word, and `Concat<>`
  leaves the pointer at that word: the next header, or the tail, overwrites the last
  values of the block. `FOR_inside_words` shows that it is those values alone.
* `Morph_direct`: `morphDirectly` adds a number of values to a pointer to bytes
  (`Cascade.h:130`), so its second block is read from the wrong place unless a block
  has as many bytes as values; `test_morphing.cpp:163` expects the column to come back. It also
  leaves out the values behind the last whole block, where `Cascade.h:64` speaks of all blocks.
  `Morph_blocks` shows what is right nevertheless.

Known from the models without a run of their own:

* With bitwidth 0, decompression never writes the elements that
  stand at bit 0 (`RightShift.h:711`), and a column of zeros comes back as whatever the memory
  held. `Holds` of `StaticFormat` therefore asks for a positive bitwidth.
* The field of `min` in the header of `dynforbp` has 16 bits whatever the column's type (`dynforbp.h:39`). A block of
  `uint32_t` or `uint64_t` values whose least one is longer comes back with the rest of `min` missing
  (it is an instance of `FOR_inside_words`, whose `PrefixSurvives` excepts such blocks and shows
  that no other suffers).
* For a block of zeros `32 - __builtin_clz(0)` is undefined. Where
  it yields 0, no case of the width matches. The comment at
  `ParameterGenerator.h:238` has it that there is "nothing to encode" then, but the pointers
  do not advance over the block's zeros either, so the column's last block is never packed.
  `NothingLostSilently` and `PrefixSurvives` in `DBP_wide_words` say what survives.
* `statfordynbp` computes the width from the unencoded values (`statfordynbp.h:46`): a value
  below the reference wraps around and is cut. It spoils its own block only (`DBP_wide_words`).
* `delta` with words wider than the column's type never moves its pointer, as every
  value is written at bit position 0 (`EncoderGenerator.h:110`); `DeltaAssumption` excludes it.

## Fairness

`WF_vars(Next)`: the generated code is straight-line code and a counted loop in
the caller's thread; nothing in it waits, so it always takes its next step. It is
used for one thing, the liveness of `Codec` (both calls end).

## What is proved

### Static bit packing

For all values of the constants (word width and column width positive, bitwidth up to
the column width, any positive block size, any columns, any region contents, any
invertible encoding), without bounds:

| theorem | property | further hypotheses |
|---|---|---|
| `TypeCorrect`, `Pointers` (`StaticBitPackingProofs`) | `TypeOK`, `PointersInStep` | |
| `ExactImage`, `Encoded` (`StaticBitPackingProofs`) | `BlockImage`, `EncodedPrefix` | |
| `NothingBehindFrontier` (`StaticBitPackingProofs`) | `FrontierKept` | bitwidth positive |
| `SizeRight` | `SizeCoversOutput` | bitwidth positive, words divide a value |
| `DecoderStaysInside` | `DecoderInside` | |
| `WideValuesConfined` | `DamageConfined` | |
| `Lossless` | `RoundTrip` | bitwidth positive |
| `StaticIsCodec` | the initial states and the steps of `Codec`, the safety part of `ImplementsCodec` | bitwidth positive, the values of all columns fit |
| `StepsAreCalls` | `StepsMakeCall` | |

The assumptions are `WidthAssumption`, `FormatAssumption` and
`EncodingAssumption`; TLC evaluates them in each run. The further hypotheses are about the code
and not about the proof: with bitwidth 0 compression clears a first word that it never counts, and
decompression does not write the elements (see above); where words do not divide a value the
size is too small (`DBP_tail_size`).

The argument. `TypeOK` and `PointersInStep` are not inductive: in the middle of a
value nothing in them ties `word` to the field. The strengthening `Place` says where the
pointer is at every level `k` of the recursion: the block's start, plus the words
the field has reached up to that level. The recursion's `MaxOverhang + 1` levels
are enough because a bitwidth is at most `BaseBits` and a bit position less than
`CompressedBits`; that inequality is the arithmetic heart of it
(`WordArithmetic`). It yields that at the end of the recursion the pointer is in
the word where the field ends, or at its border.

`BlockImage` speaks about the moments between values. The inductive
invariant `Image` extends it into the recursion: below the frontier, a bit is 1 iff
a finished value put it there or the current value has, as far as the levels done.
A step at level 0 needs that the word is assigned exactly when the field begins
at bit 0 (nothing of an earlier field is in it) and or-ed otherwise; a step at
level k that the next word, still arbitrary, is assigned. `WriteProofs` says what
each operator of `Write` does to each bit. `EncodedPrefix` follows from the
image while compression runs: a value that fits covers its own field only, and
distinct fields do not intersect (`FieldOrder`, `IndexUnique`). `Kept` carries the
fields of whole blocks over the copy of the tail and through decompression, which leaves
the region alone.

The calls. `Frontier` follows the first bit not touched yet through the levels of a value, to the
end of the tail. `DamageConfined` follows from the image without a new invariant: a bit
that does not belong to a field was put there by a value whose field ends in the same word.
For the round trip `PartRead` says which bits of a field the levels done so far have brought
into the variable, and `GivenBack` that the elements up to there are the column's.

`StepsAreCalls` joins the two descriptions of this code. The module takes a call apart into
the levels of each value; `StaticFormat` has it as a fold over the values, and each of these as a
recursive function over the levels. Both sides say what happens to a region of any
contents and values of any size, so nothing may be assumed of either. The proof is a simulation: `AsPacked` and
`AsUnpacked` say that region, pointer and bit position, or column and pointer, are what the fold has
after the values finished, and in the middle of a value what the inner recursion has after the
levels done. The recursive functions are used only through the equations that
they satisfy (`LevelsOfWriteValue`, `NextPackedType` and their mirror images), so that one step of the
module is one application of an equation, and `SameTail` compares the two copies of the tail. Values that do
not fit, and a bitwidth of 0, need no exception here: both sides do the same.
`References` are the references for which the module's encoding is the one of `StaticFormat`;
`TokenHasReference` shows that the identity is among these encodings, with 0.

### Dynamic bit packing

For all widths of words and values, all block sizes that are a whole number of words, all
columns, region contents, encodings with an inverse, and whatever `clz(0)` yields:

| theorem (`DynamicBitPackingProofs`) | property | further hypotheses |
|---|---|---|
| `DynamicTypes`, `DynamicBlocksFillWords`, `DynamicDecoderInStep`, `DynamicNothingLost` | `TypeOK`, `BlocksFillWords`, `DecoderInStep`, `NothingLostSilently` | |
| `DynamicSizeCoversOutput` | `SizeCoversOutput` | words divide a value |
| `DynamicStreamDescribesItself`, `DynamicPrefixSurvives` | `StreamDescribesItself`, `PrefixSurvives` | `ClzBits >= BaseBits` |
| `DynamicIsCodec` | the initial states and the steps of `Codec`, the safety part of `ImplementsCodec` | `ColumnsSuit` |

The assumptions are `WidthAssumption`, `BlocksAssumption` (blocks fill words, and a header of one
word holds every width), `HeaderAssumption` and `EncodingAssumption`. Without `ClzBits >= BaseBits`
the code is wrong (`DBP_long_values`). `ColumnsSuit` says what makes the
format lossless: `clz` sees the whole value (`ClzBits >= BaseBits` again, so it excludes the case of
`DBP_long_values`); no block of zeros, or `clz(0)` has a case; and an encoded value
needs no more bits than the value, which is true of `Token`, and of `Minus` for values from the
reference upwards, the instance of `DBP_blocks`.

The argument. None of the properties is inductive. The invariant `StreamInv` has these parts:

* `Place` and `Floor` (`DynamicBlocksProofs`): as long as every block found a case, column pointer, word
  pointer and bit position are where the widths say (`StartOf`, `FieldOf`: the sum of the
  blocks' words). Behind a block without a case the pointers lag, by how much depends on what
  `clz(0)` gave; what remains true is that they are never below the end of a block that was
  found, and this is what keeps the earlier blocks intact.
* `BlocksIntact` and `WordClean`: the header of each block found is intact, and so are the
  fields finished, if the values of the block fit its width; the rest of the word in hand is then
  clean, so that or-ing the next value is putting it. `FieldWritten` gives the step: the bits
  in front of the field are untouched, the field holds the value, the rest of the last word is clean.
* `WidthsCalculated`: the widths are those that `CalculatedWidths` gives for the or of the block.
* `Frontier`, `TailKept`, `BlocksRestored`, `TailRestored`: what is untouched, the tail in
  the region, and what has come back.

That the decompressor decodes the width that was written (`DecodeStream`) closes the circle: it needs
the header intact, which needs the pointers right, which need the earlier widths. Its arithmetic
is `HeaderNumber`: the number of the bits of a number that fits a word, cut to `base_t`, is
that number. `NumberOfBits` and `PowerAbove` prove it by least counterexample.

### Frame of reference

For all widths of words and values, all block sizes that are a whole number of words, all
lengths of the header's `min`, all columns and region contents, and whatever `clz(0)` yields:

| theorem (`FrameOfReferenceProofs`) | property | further hypotheses |
|---|---|---|
| `FrameTypes`, `FrameDecoderInStep` | `TypeOK`, `DecoderInStep` | |
| `FrameStreamDescribesItself`, `FramePrefixSurvives` | `StreamDescribesItself`, `PrefixSurvives` | `ClzBits >= BaseBits` |
| `FrameIsCodec` | the initial states and the steps of `Codec`, the safety part of `ImplementsCodec` | `ColumnsSuit` |

The assumptions are `WidthAssumption`, `BlocksAssumption` and `MinAssumption`: `min` has at
least one bit and reaches over no more words than `IncrAndWriteSpan` has levels. With the 16 bits of
the code and words of 8 bits or more it always does. `ColumnsSuit` says when the format is
lossless: `clz` sees the whole distance (`ClzBits >= BaseBits`); the header fills whole words, as 16 bits do for words
of 8 and 16 bits (for 32 and 64 bits the last values of a block are lost, `FOR_last_values`);
the least value of each block fits the header; and a block of equal values finds a case.

The argument uses the parts of the previous section (`Place`, `Floor`, `BlocksIntact`,
`WordClean`, `WidthsCalculated`, `BlocksRestored`), with two differences. A block may end inside
a word, and what comes next assigns that word: `BlocksIntact` claims only the fields that lie in
front of it (`Kept`). And the distances are right only next to the right `min`, which each
call gets in its own way: `MinRight` ties it to the least value of the block in compression,
where it is calculated, and in decompression, where it is read; it is there, since
`LeastInBlock` shows that `min` never reaches into the word that is lost. `DistanceBound` and
`LeastWidth` show that no distance is longer than the width of the greatest one, and
`MinusPlus` that adding `min` modulo `2^BaseBits` undoes subtracting it. They rest on a fact about the model's numbers that is no definition: comparing them bit by
bit from the top (`Less`) is comparing their numbers (`LessIsLess`); of two sets
that differ, the one that holds the highest difference is the greater (`HighestDecides`).

### Translation and delta

For the translation, for any set of names and formats, under `FormatsAssumption`
(at most two loops) and `NamesAssumption`; and for `delta`, for words and columns of every
width such that a value is a whole number of words (`DeltaAssumption`), for columns of every length,
any region contents, and any two operations of which the second undoes the first
(`ArithmeticAssumption`):

| theorem | property |
|---|---|
| `TranslationTypes`, `LookupPositions` (`DeltaProofs`) | `TreeTypes`, `LookupsRight` |
| `Lookups` (`DeltaProofs`) | `LookupsRight` while the calls run |
| `DeltaTypes`, `Predecessors`, `Differences` (`DeltaProofs`) | `TypeOK`, `ReferenceIsPredecessor`, `DifferencesInPlace` |
| `Lossless` (`DeltaProofs`) | the column has come back when both calls have ended |
| `DeltaIsCodec` (`DeltaProofs`) | the initial states and the steps of `Codec`, the safety part of `ImplementsCodec` |

The argument for `LookupsRight`. Alone it is not inductive: it says nothing about the list
of names. `Positioned` adds that the names read from the newest are the front of the
tuple read from its end (`ListsAgree`), that every parameter without a known value has its
name in the list, and that both lists have one length as long as a name can still be
added, which in a regular format is until the first `Switch` (`SwitchRead`, `PadsRemain`).
A name counted from the newest is then found at the mirrored place of the tuple.

The argument for `delta`. `DeltaStages` follows the translation of this one format
node by node; at its end the term `p` stands for place 0 and `ref` for place 1 (`Places`),
and `LookupsRight` makes these the places of those names. `CallInv` has four parts: `Shape`
(the word pointer is the index times the width), `Carried` (what the tuple holds at each
point: in compression the predecessor in the column, in decompression the one restored),
`Written` (the differences) and `RestoredSoFar`. The step that needs most is
`EncodeToken`: `WriteValue` is a recursion over the words of a value, and what a recursive
function computes cannot be proved by induction here. `RecursionUnique` takes its place: two
functions on `0 .. n` that agree at 0 and step alike agree everywhere, since there is no
least argument where they differ. With it `WriteValueAligned` and `ReadValueAligned` put a closed
form in place of the recursion.

### Conversions made of calls

For all formats with one bitwidth (any block size, any bitwidth up to the column's, any
reference), all columns, all region contents, under `WidthAssumption` and `MorphingAssumption`
(words as wide as a value, a value is a whole number of bytes):

| theorem (`MorphingProofs`) | property | further hypotheses |
|---|---|---|
| `TypesHold` | `TypeOK` | |
| `IndirectMorphCompresses`, `IndirectMorphGivesColumn` | `IndirectMorphIsCompression`, `IndirectMorphRestores` | |
| `DirectMorphOfPrefix`, `DirectMorphGivesBlocks` | `DirectMorphPrefix`, `DirectMorphRestoresBlocks` | |
| `DirectMorphStaysInside` | `DirectMorphConfined` | target bitwidths positive |
| `BlockwiseIsWhole` | `BlockwiseAgrees` | |

The hypothesis of `DirectMorphStaysInside` is about the code: with bitwidth 0 the writer assigns to
a word that no pointer counts.

The argument has two halves. The first is about the calls. `Compress` and `Decompress` of
`StaticFormat` are recursive functions over the values of a column. `PackingIs` and `UnpackingIs`
unfold them without induction over the column, and what holds after each value is carried on by
least counterexamples: `PackingPlaced` (where the pointers are: `At` says where the
n-th value begins), `PackingOutside` (nothing else is touched), `PackingFields` (the fields
are in place). On these rest the facts that are cited below: `RoundTrip` (what the format holds
comes back), `BlocksRead` (so do some of its blocks, from where they begin), and
`CompressJoin`: compressing blocks behind blocks is compressing them together. The last holds
because a block ends on a word border, so that the next call's start is the state
in which the longer call would go on (`PackJoin`, `PackCut`).

The second half is about the caller. `Types` and `Stages` say what each stage starts from: the loop
counter is a multiple of the common block size, `packed` is the compressed column once it is
made, the block counters are whole blocks. To them are added: for the indirect morph `Indirect` (the
buffer is the column, if the source format holds it); for the direct one `DirectMorphPrefix`
itself, where the step is `MorphStep`: the address that the code computes is the address of the
block if blocks have as many bytes as values (`ByteAddress`) or if it is the first (from it follows
`DirectMorphRestoresBlocks`, as a region that holds some blocks gives them back also
to a call that asks for more, `PrefixRead`); for
the block-wise caller `Blockwise` (what is written so far is one call's result, and what is
read so far is the column up to the pointer). That the common block size is a multiple of both
(`LcmIsMultiple`) needs that `Gcd` divides its arguments (`GcdIs`, `GcdDivides`), which is again
a least counterexample.

## What is only model-checked

* liveness: that both calls end is out of the prover's reach. Of `ImplementsCodec` the safety part is proved
  (`StaticIsCodec`, `DynamicIsCodec`, `FrameIsCodec`, `DeltaIsCodec`), the whole is checked. Every other
  property of a passing run is stated by a theorem;
* what the runs that expect a violation show: a counterexample needs no proof.

## What is not modelled

* Cascades of more than two conversions (the same recursion once more, without a format
  that could stand in the middle) and `Decompose`, which nothing instantiates.
* `FindParameterAnalyzer.h`, which no generator uses, and the inner form of the terms.
* `select` in `Generator.h`: no modelled format reaches it.
* `compare/dynbp_8_8.h`: a hand-unrolled listing of one instance of `dynbp`, to compare speed.
* `VarintGB`, `variantGB`, the data-dependent tokenizer and most of
  `columnformats.h`: sketches that no generator supports.
* Optimised builds: the pointers of the column's type are made by
  `reinterpret_cast` from references to `uint8_t *` (`Generator.h:104`), whose aliasing is
  undefined; the models follow the code as written.
* The verbose output, tests and benchmarks.

## Plan

1. *(done)* `BitMemory`, `Write`, `Codec`, `StaticBitPacking`, its runs and the four theorems;
   `Numbers`, `DynamicBlocks`, `DynamicBitPacking`, `FrameOfReference` and their runs.
2. *(done)* `Translation`, `Delta`, its run and its theorems; `StaticFormat`, `Morphing`, its
   runs; `statfordynbp` with values below the reference.
3. Left out: a run of its own for `dynforbp` whose least value is wider than the header's
   field; `FOR_inside_words` has such columns, and the README states the disagreement above.
4. *(done)* Proofs: the calls of `StaticBitPacking`; all properties of `DynamicBitPacking` and of
   `FrameOfReference`; for the three of them, the safety of the refinement of `Codec`; the calls of
   `StaticFormat` in closed form, and all properties of `Morphing`.
5. *(done)* Proofs of `StepsMakeCall`, which joins `StaticBitPacking` and `StaticFormat`, and of
   `DirectMorphRestoresBlocks`.
