# A verification of cwrap in TLA+

`cwrap` refills the comments of C sources to a column. It reads files or standard
input, rewrites the comments it can wrap, and prints the result, writes it back in
place, or reports with `--check` what would change. This directory models it in TLA+,
checks the models with TLC on small instances, and proves theorems about them with
TLAPS for every value of the constants.

The promises worth checking come from `ARCHITECTURE.md` and the headers:

- no file of the user's is ever left half-written, and a run over bad input writes none;
- what a read returns is the file, whatever another process does to it meanwhile;
- the bytes outside comments do not change, so the lexer finds comments and nothing else;
- a refill loses no word, keeps within the width, and never overruns its arrays;
- rewrapping is idempotent: `--check` agrees with what `--in-place` just wrote.

Paths below are those of the repository. `PROJECT.json` names for each definition
the lines it is translated from.

## The system

| Component | Source | State it keeps | Operations |
|---|---|---|---|
| Command line | `src/app/cli.c`, `cli_dispatch.c`, `vendor/copt/copt.h`, `src/core/parse.c` | options, the first error, `argv` as permuted | `cli_parse`, `cli_dispatch`, `parse_size` |
| Wrap command | `src/app/cmd_wrap.c`, `wrap_input.c`, `src/runtime/memory.c` | the log, two arenas, the out-of-memory job | `cmd_wrap_run`, `wrap_input_read_file`, `wrap_input_process_*`, `memory_oom_report` |
| POSIX host | `src/runtime/fs.c` | files, descriptors, temporary files | `os_read`, `os_read_stdin`, `os_write`, `os_print` |
| Lexer | `src/domain/lex.c` | automaton state, column, spans | `lex_comment_spans` |
| Grouping, extraction, emission | `src/domain/comment.c` | blocks, body lines, fence and tag state | `comment_group`, `comment_extract_body`, `comment_emit` |
| Doxygen | `src/domain/doxygen.c` | none | `doxygen_has_tag`, `doxygen_align_parameters` |
| Fill | `src/domain/fill.c` | paragraphs, counted and written lines | `fill_body_lines` |
| Atoms and columns | `src/domain/atom.c` | none | `atom_split`, `atom_column_width` |
| Rewrite | `src/domain/rewrite.c` | a cursor in the source | `rewrite_source` |
| Arena, buffer, log, strings | `vendor/sharedstuff` | regions of one reservation | `arena_*`, `buf_*`, `log_*`, `str_*` |

They interact by calls. `cli_dispatch` parses and calls `cmd_wrap_run`, which reserves
memory once and gives each input to `wrap_input`: read, rewrite, emit. All host access
goes through `os.h`. `rewrite_source` runs lex, group, extract, align, fill and emit.
Errors go to a log that is printed once at the end; running out of memory ends the
process from wherever it happens, through a report that reads three globals.

The program has one thread. What makes it hard:

- **other processes**, which edit a file between its stat and its last read, between
  the two passes of an in-place run, and between the read and the rename;
- **crashes**: a signal between any two system calls, a power loss, memory that runs
  out in any phase, with a report that must still tell the truth;
- **partial failure**: every system call can fail, short reads and writes, one bad
  input among many, a failed print of the report;
- **two passes that must agree**: the lexer and the fill count before they allocate and
  write without a bounds check; an in-place run probes before it writes;
- **its own output as input**: everything the emitter writes must read back as the
  same shape, line by line, at the same and at other widths;
- **boundaries**: one byte past a limit, the closer's three columns, a comment without
  a newline at the end of a file.

## The modules

| Module | Models | Checked by | Proved in |
|---|---|---|---|
| `Cli` | `cli_parse` over copt's loop, `cli_dispatch`, an option per step | `Cli`, `Cli_letter` | `Cli_proofs` |
| `CliReading` | a command line read from left to right, the reference for `Cli` | `Cli`, `Cli_letter` | `Cli_proofs` |
| `CmdWrap` | one run over its inputs | `CmdWrap` | `CmdWrap_proofs` |
| `OsWrite` | `os_write`, a system call per step | `Host` | `OsWrite_proofs` |
| `AtomicFile` | what `os.h` promises of a write | `Host`, refined by `OsWrite` | `OsWrite_proofs` |
| `OsRead` | `os_read` against other processes | `Host` | `OsRead_proofs` |
| `OsReadStdin` | the loop of `os_read_stdin` | `Host` | `OsReadStdin_proofs` |
| `Lex` | `scan_spans`, a byte per step | `Lex`, `Lex_crlf` | `Lex_proofs` |
| `Group` | `comment_group`, a span per step, behind the scan | `Lex`, `Lex_crlf` | `Lex_proofs` |
| `RewriteSource` | `rewrite_source` around its blocks: copies and turns of its loop | `Lex`, `Lex_crlf` | `Lex_proofs` |
| `Atoms` | `atom_split`, an atom per step, and again after a refill | `Atoms`, `Atoms_gap` | `Atoms_proofs` |
| `Doxygen` | tags, and the alignment of documented names | `Rewrite`, `Rewrite_again` | |
| `Fill` | `fill_body_lines`, a line per step | `Rewrite`, `Rewrite_fused` | `Fill_proofs` |
| `Rewrite` | one block through extraction, alignment, fill and emission, again and again | `Rewrite`, `Rewrite_again`, `Rewrite_fused`, `Rewrite_description` | `Fill_proofs` |

`Rewrite` extends `Fill`: its steps are the fill's steps, between an extraction with the
alignment of `Doxygen` and an emission, so one run checks the block and its fill together.
`Group` extends `Lex`, and goes through the spans once the scan is done; `RewriteSource`
extends `Group`, and goes through the blocks. `MCHost` makes one call of `OsRead`,
`OsReadStdin` or `OsWrite`, which share nothing, so that one run checks the three. `Cli`
ends in a command that `CmdWrap` starts from (`RunsWhatWrapTakes`). `CmdWrap` takes
`os_write` as one step, which `OsWrite` justifies by refining `AtomicFile`, and
`rewrite_source` as a function `Wrap` of the content, whose idempotence `Rewrite` looks
into: `CmdWrap` keeps one content on which `Wrap` is not idempotent, since that happens (see
the findings).

A definition `X_Fault` next to `X` (`Rest_WithTag`, `ProbeIsClean_Skipped`) is `X` with
a plausible bug in it. No formula uses it. `PROJECT.json` pairs each property with one
of them, and the property fails when the one replaces the other.

### Cli

`copt` is the state of `struct copt` by its field names: `argv`, an array of pointers that
is permuted, and the three indices into it. A turn of the loop of `cli_parse` is one of the
`Read` actions, and `Opt` is what `copt_next` gives that turn; `TakePaths`, `Resolve` and
`Dispatch` are what follows the loop. An element is a sequence of characters, where the name
of a long option counts as one. `argv[0]` is left out, so indices are those of the code.
Numbers have four bits in the run: 11 is too wide, 13 saturates, 16 overflows. `CliReading`
reads a command line from left to right without moving anything, for the properties to
compare with: its options are a set of places, an element and the letter in it (`Places`),
and a place says what it reads whatever stands elsewhere (`Fault`, `Value`). An attached
value belongs to the one letter directly before the equals sign, by its place, as the
comment in `cli.c:271` has it. The code looks for that letter by its name; the groups where
this finds an earlier one are the exception of the properties (`MistakesALetter`) and the
subject of the run `Cli_letter`. In `-=w=5` there is no letter before the equals sign, so
`=` is an unknown one and `w` takes the 5. The model's outcome was compared with the built
program's on 2,931 command lines, all of up to two of the elements of the run and up to four
over few of them, and agreed.

### CmdWrap

`pc` is the step the run is at; `pass` is `probe` in `cmd_wrap_run_read_inputs` and
`run` in `cmd_wrap_run_inputs`. An input goes through `ReadInput`, `Rewrap` and one of
the `Emit` actions by mode, and a failure through `LogError`. `PrintLog`, `ClearOom`
and `Release` end the run. `Oom` can happen at every step that may allocate: it prints
the log and the job, as `memory_oom_report` does, and ends the process. `Kill` and
`Edit` are the environment's. A file's content is one of three values: `done` is
wrapped, `raw` becomes `done`, `odd` becomes `raw`; a path that cannot be read holds
`Unreadable`.

### OsWrite and AtomicFile

A directory of three names (the destination, a symbolic link to it, the temporary
file), inodes with bytes and a mode in the page cache, and whether they are synced.
Each system call is an action and may fail; `PowerLoss` keeps what was synced and may
undo a rename, since the directory is not synced. `Other` replaces or removes the
destination. The refinement mapping is what a reader sees under the destination's name
(`Seen`) and how far the call is (`CallState`); a rename is `AtomicFile`'s commit.

### OsRead and OsReadStdin

`OsRead` splits `fread` into the system reads stdio makes, in any chunks, with
`Truncate`, `AppendMore` and `Overwrite` by another process between any two of them.
`OsReadStdin` counts bytes: the buffer's capacity, the step, the limit, the position of
a NUL, and reads of any length, interrupted or not.

### Lex, Group and RewriteSource

A byte is one of the twelve classes the automaton and the grouping tell apart; the states
are those of `enum LexState`, and `Scan` is a turn of the loop of `scan_spans`. The counting
pass of `lex_comment_spans` is the same loop without the store. `MCLex` states the comments
of C without an automaton (splice lines, then cut into tokens) and compares, by recursive
functions so that the proofs can follow them.

`Group` keeps the span `comment_group` is at, the one that opened the block, and the blocks.
`SkipSpan` and `OpenBlock` are a turn of its loop, `ExtendRun` one of the inner loop and
`CloseBlock` the end of a turn.

`RewriteSource` keeps the cursor of `rewrite_source` and its buffer, as pieces that say
which bytes of the source each stands for and whether they are copied or refilled.
`KeepBlock` and `RefillBlock` are a turn of the loop, with the copy of the gap in front,
and `CopyTail` is what follows the loop. `RefillsAreTheRuns` states the result without the
loops of both: the longest runs of neighbours that a reader takes for one comment, but for
those that fit as they are. What a refill writes is `Rewrite`'s.

### Atoms

A byte is one of ten classes: the splitter tells blanks, a backtick, brackets, a dot,
digits, uppercase hex digits and other letters apart, and `ms` stands for the units.
`CountAtom` is a turn of the first loop of `atom_split`, with the turns that skip blanks
before it, and `StoreAtom` one of the second; `counted` is a history of what the first
counted. `AtomEnd` is `atom_len`: `HexRunEnd`, `QuantityEnd` and `AttachTrailer` say where a
hex run, a quantity and the rest of a word end by the first position at which something
fails, where the code loops. `MCAtoms` adds `Rewrap`: the atoms are joined as the fill
writes them and the next run joins its lines, and split again. What `atom.h` promises is
stated over the bytes of the text (`IsHexRun`, `IsQuantity`, `IsSpan`). A byte has one
column. The atoms of the model were compared with those of the built splitter on the 154,236
texts of its run, with hex runs one byte longer, and agreed.

### Doxygen, Fill

A word is what `atom_split` never breaks, with a width (`Columns`), what the line
classifiers make of a line it starts (`Mark`), and whether its bytes have a letter or a
digit, a backtick, or only other punctuation (`Bytes`). A body line is words between
blanks; one blank separates two words, as the fill writes them, and `pad` counts the
blanks more that stand before the description of a tag. A paragraph's text (`Joined`) is
that of its lines, with a space between two of them where both have text
(`HasJoinSpace`): a line of blanks inside a description has none, so the words beside it
become one, the word `Fused` of the two. Blanks behind a bare tag that something is joined
to stay and are frozen with it. `Doxygen` says which words of a line are the tag and its
name (`DescriptionOffset`) and moves the descriptions of a command to one column
(`Aligned`).

`CountCopied` and `CountLine` are the turns of the first pass of `fill_body_lines`,
`AppendCopied` and `AppendLine` those of the second. `counted` is a history of where the
first pass stood at each line it counted. Bytes and memory are left out.

### Rewrite

A block is a run of line comments or a slash-star comment at the left margin; an indent
would only reduce the width. A line of it has no star, one at the decoration column or a
stray one at another, then blanks, words with the pad behind a name, and blanks after them.
One star at the decoration column makes a block starred, and then every star in front of a
line is decoration, the stray ones too (`comment.c:604`); elsewhere a star is a word, so
blocks with a star that is neither are not those of `Text` (`StarsAreDecoration`). `Shape`,
`PrefixColumns`, `Payload` and `Classify` are the functions of `comment.c` by those names,
`Body` is `comment_extract_body`, `Emitted` is `comment_emit`, and `KeepOneLine`, `Extract`,
`FillStep`, `Refill` and `Emit` are the steps of `rewrite_source` on the block. After `Emit`
the block is read again. A block holds a word that is not punctuation
(`HasAlphanumericPayload`): grouping passes others over.

Abstractions of `Rewrite` and `Fill`, each with what it hides:

- blanks are spaces and there is one column between two words, the pad of a tag apart:
  tabs, and runs of blanks inside an atom, are not seen;
- the Markdown fence and `@code` stand for the three fences (`@verbatim` is as `@code`);
- LF only, and one block per source.

Within these, the emission of the model was compared with the output of the built
program on some 130,000 blocks at one width, which agreed. That was before the alignment,
lines of blanks inside a description and stray stars were added, which were traced in the
source.

## What the runs check

| Run | States | Shows |
|---|---|---|
| `Cli` | every command line of up to three elements out of thirty-nine, and of up to five over operands, two options and `--` | copt's rotations lose no element and keep the files in order (`PathsInOrder`); the loop reads flags, width, the first error and the operands as a reader does from left to right (`ReadsLeftToRight`), and the precedence of version, help and errors does not depend on where they stand (`OrderIsImmaterial`), both where no letter is mistaken for the one before an equals sign; what runs is what the wrap command takes (`RunsWhatWrapTakes`); every turn reads on (`ReadingAdvances`) |
| `CmdWrap` | up to three paths out of two, so that a file comes twice, and one fault; with up to two paths, one edit anywhere as well | an in-place run with a bad input writes nothing (`BadInputWritesNothing`); each file ends as it was or rewrapped, written once at most, wherever the run stops (`OldOrWrappedOnce`); the default mode prints a prefix of the inputs (`OutputIsPrefix`); the log is in path order and complete (`LogInPathOrder`, `ReportsEveryInput`); the exit code agrees (`ExitTellsTheTruth`); a write replaces what was read by its rewrap and nothing else (`OnlyWrapsLeaveTheRun`); the out-of-memory report reads a live log and names the input and phase in progress (`OomReportIsTrue`); a run ends (`RunEnds`) |
| `Host` | one call: `os_read` of files of up to three bytes, with a limit of two and two edits; `os_read_stdin` of up to twelve bytes, with a step of three and a limit of ten; or `os_write` in up to three parts, with all faults, two edits and power loss | a read that succeeds has the length `fstat` saw and no NUL, each byte from some version (`ReadsTheFile`); a writer that only appends or only truncates is always noticed (`OneWayWriterIsSeen`); the cause is true and a failure leaves nothing behind (`VerdictIsTrue`). No read of standard input leaves the buffer or asks for nothing, and memory is bounded (`BufferIsBounded`); the verdict is exact (`VerdictIsExact`); the read ends (`StdinReadEnds`). `os_write` implements `AtomicFile` (`ImplementsAtomicFile`); permission bits are kept and 0600 is never seen (`ModeIsKept`); no descriptor or temporary file is left (`NothingIsLeft`); the call ends (`WriteCallEnds`) |
| `Lex` | all sources of four bytes, of seven over the bytes of comments, of six over literals and over splices, of five over columns, and files of four lines out of thirteen, or three in CRLF | the spans have a true column and trailing flag (`SpansSayWhereTheyStand`), and are the comments of C (`FindsTheComments`); the indent a rewrite repeats is white space (`IndentIsBlank`); the output accounts for each byte of the source once and in order (`EveryByteOnce`); what is refilled are the longest runs that do not fit, with LF in an LF file, and with CRLF in a CRLF file when a newline is in the comment or directly behind it (`RefillsAreTheRuns`) |
| `Atoms` | texts of up to eight bytes over hex runs and over units, of six over tabs, fractions and spans, and of seven over numbers with a unit behind, at eight widths | the array of atoms is filled exactly and atoms are the words of the text (`AtomsAreWhole`); hex runs, quantities and spans are kept whole (`KeepsTogether`); the lines they are filled to split back into them (`SplitsBack`) |
| `Rewrite` | starred, hanging, one-line and line blocks of up to three lines, with fifteen phrases, stray stars and lines of blanks inside descriptions among them, plain and Doxygen, two runs | the second pass of the fill writes exactly the lines the first counted (`RebuiltFillsCapacity`); lines fit (`FilledLinesFit`), a one-line result with its closer too (`OneLineFits`); the loops advance (`LinesAdvance`); the descriptions of a command share a column (`DescriptionsShareAColumn`); no word is lost, doubled or moved, in a block without a line of blanks in a description (`WordsSurvive`); each line reads back as the kind it was written as, so that no broken line starts with a tag, a list marker or a directive (`LinesReadBack`); the second run changes nothing (`FixedPoint`) |

Bounds, and why they are enough for what they check:

- Three elements give an option before, between and after operands, a value that follows
  its option or has to be brought back to it, and two errors; five over few elements give
  two options behind two operands, which is where a rotation moves more than one.
- Three inputs over two paths give a file before, between and after others, and twice.
  One fault and one edit suffice because no property excuses a second by a first.
- Two edits are needed to change a file's size and change it back, which is the
  `os_read` case; a limit below the longest file gives files at, under and over it.
- Ten is not a multiple of the step, so the last reads near the limit are shorter than
  a step; twelve bytes pass the limit by more than one.
- Four bytes open and close a block comment, and seven put one behind another with
  code, stars or newlines between; splices need six: a CR, an LF, the backslash and a
  comment around them. Four lines give a run of three with a line before or after it that
  is not of it, and several blocks with code between them. A width of six is just reached by
  a comment of six columns, or of five behind an indent of one.
- Eight bytes hold a hex run of three groups, and a quantity behind a hex run; six hold
  a span with a space, behind a bracket and with a trailer. Seven before a unit give a
  hex run that ends in the first digits of a number with a fraction (`11 11.5 ms`).
- Three body lines give a first, a middle and a last one, two paragraphs, a paragraph of two
  lines, and two names of one command with a line between them. A width of 11 with prefixes
  of 3 and 4 columns is just exceeded by two words or by the closer.
- Two runs of `Rewrite` suffice: once a run changes nothing, no later one does.

`CHECK_DEADLOCK FALSE` is set wherever the program ends: every run but for the ones that
loop for ever has final states.

### Fairness

`CmdWrap` and `OsWrite` assume weak fairness of the program's own step, since it has one
thread and its system calls return; nothing is assumed of signals, edits or faults.
`OsReadStdin` assumes weak fairness of the buffer growth and strong fairness of the reads;
the run `Host` states the same of the call that is made. The strong fairness says: signals
may interrupt reads again and again but not all of them, and the writer of the pipe closes
it in the end (the model's input is finite). The other specifications state safety only;
`LinesAdvance` is the action property from which the loops of the fill end.

### Findings

Six runs show the program to disagree with what it says. All were met while modelling.
Those of `Rewrite_again`, `Rewrite_description` and `Atoms_gap` were reproduced with the
built program; the others were traced in the source.

- `Cli_letter` (`cli.c:275`): the letter that an attached value belongs to is found by its
  name. `-cVc=f` is rejected at its first `c`, and its `V` is never read, where `-Vcc=f`
  prints the version. `cli.c:273` says "Every earlier letter in the cluster is a separate
  option that received no value", and `cli.c:150` that the outcome does not depend on the
  order the flags appear in. `-VV=1` and `-VcV=1` are rejected likewise.
- `Lex_crlf` (`comment.c:556`): a comment on one line that code, blanks or the end of the
  file follow is refilled with LF in a CRLF file, so its lines end in two ways.
  `ARCHITECTURE.md:158` says "Refilled lines use the same convention", and line 73 the same;
  `test_random.c:422` knows the last of the three cases.
- `Rewrite_again` (`comment.c:391`): the closer of a hanging block is written behind
  whatever its last body line holds. Blanks after the words of a copied line (a list
  item, a directive, a sample) are stripped with the closer by the next run, and a blank
  last line is dropped with it. `ARCHITECTURE.md:78` promises that a second rewrap
  changes nothing.
- `Rewrite_again` (`doxygen.c:157`): the alignment looks for a name on the tag's own line,
  before the fill joins the next line to it. With `@param` alone on a line, its name on the
  next and a wider name beside it, the first run leaves the description unaligned and the
  second aligns it. The same promise.
- `Rewrite_fused` (`fill.c:291`): a line of blanks inside a Doxygen description is prose
  without text, and no space is joined beside it, so that `/// @brief First`, `///   `,
  `/// second` becomes `@brief Firstsecond`. `fill.c:22` says "Paragraph text joined with
  single spaces". `NoWordIsFused` is `WordsSurvive` without its condition.
- `Rewrite_description` (`comment.c:678`): a word of punctuation alone on a line of a
  wrapped description is read again as a sample, so another width does not refill it.
  `ARCHITECTURE.md:83` says that it does.
- `Atoms_gap` (`atom.c:281`): two spaces or a tab between a number and its unit, or
  between two hex bytes, make two atoms, and the fill writes one space between them; the
  next run reads one atom, and breaks the line before it and not within. The same promise
  as in line 78.

The passing properties except these inputs by name: `NoLetterIsMistaken` in `CliReading`,
`endsALine` in `RefillsAreTheRuns`, `IsWorded` in `WordsSurvive` and `HasWideGap` in
`MCAtoms`. The blocks of `MCRewrite` leave out the others: a hanging block ends in text
(`EndsInText`) and has no blanks after the words of its last line, and in its `Phrases` a
documented name stands on the line of its command and punctuation outside a description.

Other limits of the code that were met, and how the properties stand to them:

- A file that is truncated and written anew at the same size between two reads is accepted,
  part old and part new: `ReadsTheFile` promises each byte from some version, and
  `OneWayWriterIsSeen` the exact file only against writers that go one way.
- A quantity whose number continues a hex run (`10 20 ms`, `11 11.5 ms`) loses its unit to
  the next line: `KeepsTogether` excepts it (`ContinuesHexRun`). The second form was met in
  the proof, beyond the bounds that the run had then.
- A list marker alone, with a blank behind it, at the end of a paragraph (`some wide - `) is
  glued by the first run (`fill.c:401`) and, its blank gone, not by the second; the inputs
  of `Rewrite` have no blank after a marker in prose. A line of blanks after `@param x`
  leaves blanks that the next run drops.
- A quote right after a slash is skipped (`lex.c:168`), so a `//` in that literal opens a
  comment, against `lex.h:53`; a splice after a slash, star or backslash is not seen either.
  `FindsTheComments` excepts these, and digit separators (`1'000`) have no class of bytes.
- A fence mark inside prose is not glued to the word before it, so that a line may be broken
  in front of one and be read as code by the next run: `Phrases` has none in prose.

## What is proved

The theorems hold for every value of the constants under their named assumptions:
`CliAssumption` (command lines are sequences of sequences of characters, digits have values,
the default width is within the limit, as it is in `cli.c`, the limit, 10000, is below
`PTRDIFF_MAX`, which `cmd_wrap.c:21` asserts to have over 32 bits, and `SIZE_MAX` holds a
digit), `CmdWrapAssumption` (the paths, contents and bounds are sets and numbers of the
right kind), `OsWriteAssumption` and `NamesAssumption` (the special values differ from
names), `OsReadAssumption` (the bounds are numbers), `OsReadStdinAssumption` (the step is
positive), `LexAssumption` and `AtomsAssumption` (the inputs are sequences of bytes),
`WidthAssumption` (the width is positive), and `WordAssumption` (each word has a width, a
mark and its bytes, and any two words have one that they fuse to). TLC evaluates each of
them.

- `Cli_proofs`: `PathsInOrderHolds`, `CoptAssertsHoldAlways`, `ReadingAdvancesHolds`, for
  any command line. The invariant (`CoptInv`) says that `argv` is a permutation of the
  elements whose part behind the one being read is in order (`ArgvInv`), and that inside a
  group of letters `argidx` is past the group and at an operand, or at the end of `argv`
  (`GroupInv`). A rotation brings the first option behind operands to the place that is
  read next, or the operand at `argidx` back to it, and leaves the rest in order
  (`RotateRightKeeps`).
- The same module: `RunsWhatWrapTakesHolds`, since the width is stored only within the
  limit and an input of both kinds leaves an error that `Dispatch` stops at
  (`OutcomeInv`).
- The same module, for the loop against the command line as it was given:
  `ReadsLeftToRightHolds` and `OrderIsImmaterialHolds`, for every command line in which no
  letter is mistaken for the one before an equals sign. The invariant (`ReadInv`) says that
  `flags`, `width` and `error` are those of the places read so far (`ReadSoFar`). To be
  inductive it needs that the options before the element being read are in order and those
  behind it come later (`OptionsFollow`), that no `--` is among them, that no letter of the
  group so far took the rest of it (`GroupGoesOn`), that what was passed and is no option
  was taken by one in front of it and conversely (`TakenFollow`, `TakenRead`), and that
  `argidx` names the element which the command line has behind the option, or none if
  that is an option (`NextIs`). The place a turn reads is behind all read before
  (`HereIsNext`), so it adds its flag, replaces the width and leaves the first error
  (`ReadOneMore`); what the turn finds attached or following is what the place says
  (`FlagHere`, `WidthHere`), and the number is the one the text writes (`SizeIsDecimal`).
  At the end of the loop every place has been read (`AllPlacesRead`), because `argv` holds
  each element once, and what is left is neither an option nor taken (`OperandsBehind`).
- `CmdWrap_proofs`: `TypeCorrect`, `BadInputWritesNothingHolds`,
  `LogInPathOrderHolds`, for any number of inputs, whatever fails and whoever edits.
  The inductive invariant adds to the types that writes happen in the run pass only
  (`WriteInv`), that every log entry is at or before the input begun and of the pass in
  progress (`LogInv`), and that the run pass of an in-place run starts only from an
  empty log (`ProbeInv`): without the last, an in-place run could carry a probe's entry
  into its writes.
- The same module proves the other properties of a run but its liveness:
  `OnlyWrapsLeaveTheRunHolds`, `OldOrWrappedOnceHolds`, `OutputIsPrefixHolds`,
  `ReportsEveryInputHolds`, `ExitTellsTheTruthHolds` and `OomReportIsTrueHolds`. Each has
  its part of `RunInv`: the bytes in hand are the rewrap of a file as it is (`EmitInv`); a
  file that is a fixed point once rewrapped is untouched or rewrapped by its only write
  (`OldInv`), which a file named twice needs; the log and the job the report reads are set
  while it can read them (`ReportInv`); `failed` and the log say the same (`ExitInv`); the
  number of outputs is the number of inputs gone through, and printing stops at the first
  failure (`PrefixInv`); with an empty log, each input gone through is dealt with as the
  mode owes (`DoneInv`), and without faults the log names exactly the bad and the changed
  ones (`NamedInv`). The last two follow an input through `Through`, which is one less
  while it is in hand.
- `OsWrite_proofs`: `TypeCorrect` and `Refines`: `os_write` implements `AtomicFile` for
  any length of data, modes and edits. The invariant says where the temporary name and
  inode are (`TempInv`), that nobody sees the new inode before it is complete and synced
  (`HiddenInv`), which name the call resolved (`TargetInv`), and how the return code and
  the rename agree (`CallInv`). Each system call then maps to a commit, an end or a
  stutter. `ModeIsKeptHolds` and `NothingIsLeftHolds` add that the mode to give is decided
  before the file exists and set before it is synced (`ModeInv`), and that the descriptor
  and the temporary name last from `mkstemp` to `close` and to the cleanup (`LeftInv`).
- `OsRead_proofs`: `ReadsTheFileHolds`, `OneWayWriterIsSeenHolds` and
  `VerdictIsTrueHolds`, for files of any length, any limit and any number of edits. The
  invariant says that each byte read stood in the file at its place at some time
  (`StreamInv`), and what a writer of one kind cannot have done (`WriterInv`): where
  nobody truncates, the file stays as long as `fstat` said, and where nobody appends no
  version is longer, so that equal lengths at the end leave one version only; and that a
  cause, once given, is true (`VerdictInv`).
- `OsReadStdin_proofs`: `TypeCorrect`, `BufferIsBoundedHolds`, `VerdictIsExactHolds`, for
  any step, limit and input. The invariant ties the bytes consumed to the length, and the
  capacity to the room for the next read (`LoopInv`, `RoomInv`).
- `Lex_proofs`: `TypeCorrect`, `SpansInOrderHolds`, `IndentIsBlankHolds` and
  `EveryByteOnceHolds`, for any source and width. The invariant adds
  that an open comment starts after the last recorded span and at least two bytes before
  the next byte (`OpenInv`), and, for the indent, that the line
  is blank up to the next byte where the scan is in code or behind a slash and has seen no
  code on it, and that an open comment keeps whether that was so where it began
  (`BlankInv`). For the bytes that a rewrite keeps, it adds that the blocks are in order and
  end before every span still to be grouped (`GroupInv`), which rests on the order of the
  spans, and that the pieces follow one another up to the cursor, which is never past a
  block to come (`CursorInv`).
- The same module: `SpansSayWhereTheyStandHolds`. The column of the scan is that of the
  place it is at, and an open comment keeps that of its opener (`ColumnInv`); whether code
  stands before a place is known in code, and behind a slash or a backslash before that
  byte, whatever splices the line has (`StandInv`). A splice is one of two forms or none
  at all: the proof asked that the cases of `SpliceEnd` exclude one another.
- And `RefillsAreTheRunsHolds`, with CRLF promised in a CRLF file for a comment that has a
  newline in it or directly behind it: each recorded comment has its marker and ends as its
  kind does (`BytesInv`); the blocks are exactly the longest runs before the span at hand,
  and the run in hand is the start of one (`RunInv`); and the pieces refilled are exactly
  the blocks before the turn at hand that do not fit (`RefillInv`).
- And `FindsTheCommentsHolds`, for any source that reads as C does (`IsPlain`). The reference
  is recursive functions over the source: what splices leave (`Kept`) and where
  its tokens start (`TokenBehind`). The invariant (`FindInv`) is a relation between the
  state of the automaton and that text: in code, a token starts at the next byte and the
  comments so far are those found; in a comment or a literal, which token is open and
  that nothing read since ends it; behind a backslash, what held before the backslash, as
  a splice takes it away again; and behind a slash likewise. An even run of backslashes
  stands where the automaton is out of an escape (`BackslashRun`). TLC checked
  the invariant over the sources of the run before the proof.
- `Atoms_proofs`: `AtomsAreWholeHolds`, for any text. The invariant says that the atoms
  of either list follow one another, each the next one from where the last ended
  (`IsChain`), and that the atoms stored are the first of those counted, so that the
  store reaches the end of the text when its array is full and not before
  (`StoreHasRoom`). `AtomEndBounds` shows that an atom holds a byte, stays in the text
  and ends at a blank, whatever the lookahead found.
- The same module: `KeepsTogetherHolds`, for every hex run, quantity and span but for a
  quantity that continues a hex run (`10 20 ms` loses its unit) and for what starts inside
  a span. The atoms cover all that is not blank (`CoverHolds`), so
  each word starts in one of them; the atom that a hex run, a quantity or a span starts
  takes the whole of it (`TakesWholeHexRun`, `TakesWholeQuantity`, `TakesWholeSpan`), and
  when it starts inside an atom, that atom is itself one of the three (`WordsOfAnAtom`):
  inside a hex run another one ends where it does (`HexRunStays`), a span excepts what is
  in it, and a quantity holds one word more, its unit.
- And `SplitsBackHolds`, for any text with no tab and no two blanks in a row, at any width.
  What an atom takes depends on the text only up to where it ends and on the words behind
  it, so that it takes the same where it stands at another place with the same words
  behind it (`AtomMoves`, from one such lemma for each way two words are held). The lines
  an atom list is filled to have the words of the text, one blank apart
  (`RejoinedStands`), and the chain of atoms carries over to them, one by one
  (`SplitAgain`).
- `Fill_proofs`: `TypeCorrect`, `RebuiltFillsCapacityHolds`,
  `FilledLinesFitHolds` and `LinesAdvanceHolds`, for any words, widths and bodies. That
  the unchecked array is never overrun needs more than a bound: the invariant says that
  the first pass left a record of every place it counted a line at (`CountedKnown`,
  `Walk`), that these follow one another as the body, the paragraphs and their atoms
  demand, and that the second pass is at the place the record names for the line it
  writes next (`SecondPass`). `LineEndBounds` shows that a line ends behind its first
  atom and within the paragraph, from `LeastProperties`; `FlattenSeqType` shows that
  joined words are words, by a least counterexample.
- The same module: `RefillKeepsWords`, for any body whose filled lines each have a word
  (`IsWorded`), and `WordsSurviveHolds`, for any block with such a body and however often it
  is rewritten. The condition is needed: the words beside a line of blanks in a description
  become one (`Rewrite_fused`). With it every paragraph has words and its lines are joined
  with spaces, so that a joined text is the words of its lines. Behind the lines written
  stand the words of the body up to the place the second pass is at (`WordsInv`), extraction
  and alignment keep the words of the text, and so does the emission with its closer.
  `OneLineFitsHolds`: `RInv` adds to both that the body in hand is that of the block and
  that the closer has its room wherever it trails (`FillsText`); a block comes out on one
  line only from a fill that had room for the closer, since `MustRefill` asks for a second
  one where it had not. `RefillsHold` and `RefillsAdvance` carry the properties of a fill
  over to the rewrite.

## What is only model-checked

- Liveness (`RunEnds`, `WriteCallEnds`, `StdinReadEnds`): the prover handles no `ENABLED`.
- `LinesReadBack`, `DescriptionsShareAColumn` and `FixedPoint`: they are false for
  arbitrary blocks, as the findings show, and hold for the blocks of the run, which leave
  those inputs out. A theorem would be about this list of blocks, and TLC goes through it.

## What is not modelled

- The arena, buffers and strings of `vendor/sharedstuff`: a vendored library with tests of
  its own, from which the program needs that an allocation succeeds or ends the process.
- Tabs, CRLF and the indent of a block in `Rewrite`: `RewriteSource` says which bytes a
  refill replaces, and in which line ending.
- The decoding of UTF-8 and the width of Unicode text: a byte has one column in `Atoms`,
  a word any width in `Fill`.
- `os_print` beyond one step; the text of diagnostics, help and version.
- The in-memory host, the tests, the build: they are not the program.

## The plan

Done, in this order, most important first: the run (`CmdWrap`), the write it relies on
(`OsWrite`, `AtomicFile`), the reads (`OsRead`, `OsReadStdin`), the lexer (`Lex`), the
splitter (`Atoms`), the fill (`Fill`), the block (`Rewrite`), the command line (`Cli`), the
grouping (`Group`), the alignment (`Doxygen`), the loop over blocks (`RewriteSource`).

Next theorem: `LinesReadBack` for the blocks that have no such words, which needs the
classes of a line (`Rewrite`) apart from the lines themselves. Next model: the arena with a
buffer on it (allocations of split regions never overlap, a buffer that moved keeps its
bytes).
