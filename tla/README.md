# panduck: a TLA+ verification development

panduck is a DuckDB extension that reads documents of many formats as flat
lists of `duck_block` rows, and writes such lists back out through pandoc. This
directory holds specifications of the parts of it whose behaviour depends on the
order in which things happen, the TLC configurations that check them, and
TLAPS proofs about them. The paths below are relative to the repository, which
the modules' map in `PROJECT.json` calls `src/`.

## 1. Inventory

### The reader registry (`src/reader_registry.cpp`, `src/include/reader_registry.hpp`)

State: one process-wide vector of rows (`entries`) behind one mutex, and a map of
builtin formats that the constructor fills and nothing writes afterwards.
A row says which function reads a key (a file suffix, a URL scheme, or the empty
key of files with no extension), under which format name, from which DuckDB
extension, as documents or as tables, and with which options.

Operations: `Lookup` and `Register`, each under the lock; `BuiltinFormat`,
without it. Registration itself is a table function in three phases. Its bind
reads the session's `panduck_allow_registration` and validates the call; its
init starts a scan; its scan stores one row per extension, taking the lock for
each. DuckDB may run the scan later, repeatedly (`PREPARE`), or not at all, and other
sessions run in between.

Correct when: a key never has two rows; nothing is stored that was not validated;
builtin formats keep their shipped name whatever is registered over them; a key that
has a reader function keeps having one.

### The read macros (`panduck_read_arms_opt`, `read_panduck_doc`, `read_panduck_table`)

No state of their own: they are SQL macros that build the text of a query out of
scalar functions, and every scalar is one locked lookup of its own.
`panduck_read_arms_opt` turns a list of paths into one `UNION ALL`; the other two
are each one long `CASE` over `query()`.

Hard: each path is looked up four to nine times, so a registration can commit
between the test of a field and its use; SQL's `NULL` makes a `WHEN` false, an
`error()` silent and a list element disappear; the branches are ordered, and
registrations move paths from one branch to another.

Correct when: a disabled builtin format is not read under another name; a list is read
whole, in order or not at all; an option is honoured or refused; a `NULL` is refused and never
read as the default; the `code` fallback takes only what nobody claims.

### Passes over block lists (`src/duck_block_repair.cpp`, `src/include/duck_block_normalize.hpp`)

A document is a flat list whose `level`s encode a tree. `RepairBlocks` runs on
every export: it wraps orphans, rebases levels to 1, collapses level jumps and
renumbers. `CollapseLonePlainIntoParent` runs at the end of every pandoc import: a `plain` that
is the only child of its parent is merged into it. Both walk the list while
changing it and keep indices or a stack into it.

Correct when: no element or text is lost or reordered; the list rules hold
of the result; a list that needs nothing is left as it is.

### Format readers (`libpanduck/src/`)

One hand-written parser per format, and a thin table function over each in
`src/*_reader.cpp` that materialises all rows at bind. Three shapes of them:

* *Tokens* (RTF, LaTeX). RTF keeps a stack of group states, pending paragraph
  and table buffers, a list table and a style table. LaTeX keeps a stack of environments, the run that is pending and, for
  each open list, the indices of its items' blocks, which are settled when the list is closed.
* *Lines* (Org, Textile, MediaWiki, reStructuredText). A scanner turns each line
  into a record by its first characters, a `Builder` walks the records with
  an index that it moves itself, back or forth, and keeps what is open:
  paragraphs, listings, lists, tables, adornments. The reStructuredText Builder
  calls itself for ranges of lines that are indented.
* *Trees* (DOCX, ODT, EPUB, ipynb). The XML or JSON is parsed by a library; the
  reader walks it and keeps a stack of open lists, the blocks emitted so far, and
  positions of blocks that it may have to drop when the metadata are read.

Hard: constructs left open, closed in the wrong order or nested where the parser
does not expect them; lines that a look-ahead consumes and another branch was meant
for; state of one paragraph that reaches the next.

Correct when: every call returns; no prose is lost or reordered; a paragraph is a
run of lines; an item is in a list of its type and depth; rows of a table are the
source's rows.

### Pandoc conversion (`src/pandoc_*_convert.cpp`)

A mapping between the pandoc AST and block lists, node by node, in both
directions, with the two list passes above between them. A row knows nothing
but its level of whose child it is: every walk on the way out must
stop at the first row that is not its own and hand on the index after its last.

Correct when: what is converted is a whole document at every point, and what is written back is
what was read, but for the shapes that a list of rows does not carry.

### The macros over a document (`doc_section`, `doc_search_sections`, `doc_container`)

SQL macros that read one document and cut rows out of it: by headings and their
ranks, by any headings, by levels. What belongs to metadata is taken out first.
Windows and `min`s stand for walks over the tree, and `NULL`s are everywhere: in
contents, levels, ranks, and in the key of the segment before the first heading.

Correct when: what is cut out is a subtree, whole and once; metadata is never in it; a
phrase is found in the innermost section it stands in.

### The rest

Source lists and globs touch the filesystem. `doc_toc` and `doc_render` hand rows to other
extensions. `panduck_extension.cpp` and `supported_extensions.cpp` register
functions and hold static tables. `scripts/` and `test/` are tooling, read here for what
the code is meant to do.

`PROJECT.json` lists each component with its status and each hazard with its
line and the properties that would catch it.

## 2. Modules and how they correspond to the code

| Module | Models | State |
|---|---|---|
| `ReaderTable` | what the registry promises: a table in which one key at a time is given to an admitted row | `reader` |
| `ReaderRegistry` | the vector, and registration as bind / init / scan by several sessions | `entries`, `allow`, `stmt` |
| `ReaderScalars` | the scalar functions SQL sees, including their `NULL`s | none |
| `ReadArms` | `panduck_read_arms_opt`, one lookup per step, composed with registrations | + `phase`, `source`, `option`, `job` |
| `DocDispatch` | both read macros' `CASE`s, in every registry that registrations can leave | + `answer` |
| `BlockTree` | levels, ancestors, implicit parents, and the list rules | none |
| `BlockRepair` | the passes of `RepairBlocks`, one turn of a loop per step | `input`, `pass`, `i`, `els`, `out`, `stack`, `min_level` |
| `LonePlain` | `CollapseLonePlainIntoParent`, one turn of its loop per step | `given`, `rows`, `at` |
| `ListStack` | the list stack that the RTF, DOCX and ODT readers keep | none |
| `RtfReader` | `RtfParser` and `ReadRtf`, one token of the source per step | `source`, `pos`, `stack`, `para`, `body`, `meta`, ... |
| `RtfPromise` | what the rows of an RTF source must be, told from the source as a whole | + `scopes`, `live`, `shown` |
| `MarkupRows` | what readers of lines share: the two loops, rows, texts | `format`, `source`, `phase`, `i`, `lines`, `builder`, `rows` |
| `OrgReader`, `TextileReader`, `MediaWikiReader`, `RstReader` | one scanner and one `Builder` each, a turn of a loop per step | those of `MarkupRows` |
| `LatexReader` | the tokenizer's verbatim mode, the preamble and `Parser::Run`, a construct per step | those of `MarkupRows` |
| `OfficeRows` | what the DOCX and ODT readers share: tables, listings, definitions, quotes, properties | those of `MarkupRows` |
| `DocxReader`, `OdtReader` | the loop over the paragraphs and tables of a body | those of `MarkupRows` |
| `EpubReader` | `WalkBlocks`, a child of the XHTML tree per step, its calls as frames of a stack | those of `MarkupRows` |
| `MarkupReaders` | the eight readers side by side, and what they promise | + `Document` |
| `PandocAst` | the nodes of a pandoc document, and their text | none |
| `PandocImport`, `PandocExport` | the conversion of a node to rows, and of rows to a node | none |
| `PandocRoundTrip` | a document read, normalised and written, a turn of a loop per step | `doc`, `phase`, `at`, `rows`, `out`, `meta` |
| `DocSections` | the three macros over the rows of a document | `blocks`, `documents`, `answer` |

`ReadArms` and `DocDispatch` extend `ReaderScalars`, which extends
`ReaderRegistry`; `BlockRepair`, `LonePlain` and `RtfReader` extend `BlockTree`, and `RtfPromise`
extends `RtfReader`. `MarkupReaders` instantiates the eight readers over one set of variables;
`OfficeRows` takes `ListStack` as the RTF reader does, whose lines the DOCX and ODT readers repeat. `PandocRoundTrip`
composes import and export with `LonePlain`, which it instantiates over its own rows, and states what
`BlockRepair` asks of a list that it leaves alone. `DocSections` takes ancestors from `BlockTree`. Each `MC*`
module gives the constants of one of them their values, but for `MCBlockLists`, which does so for the three that work on
one flat list of blocks (`BlockRepair`, `LonePlain`, `DocSections`): a behaviour there is one of a single component, and the
variables of the others stay as they are. Each `*Proofs` module holds the theorems
about one of them, `ReadMacrosProofs` those about `ReadArms` and `DocDispatch`. `DataLemmas` holds what three of those rest on: least
elements, induction and recursive functions on the naturals, rising functions, and what a flattened sequence holds.

**Registry.** `Stored` is `Register` (replace the first row for the key, or
append), `Lookup` copies out the first match. `RegisterBind(s, c)` is possible exactly
when the bind would not throw; a call that is refused changes nothing, so it is
the absence of a step. `Execute` is the init of a scan over the same bind
data, `RegisterScan` one turn of the scan's loop, `Deallocate` the end of
the statement. An extension is a sequence of the segments between its dots, so that
`ExtOfPath` — the part after the last dot, lower-cased — is modelled by what it
does: `tar.gz` and `gz` are the same key. What makes an identifier qualified or
an option well formed is a given set. `DROP`, `LOAD` and other ways to lose a
reader do not exist in the code.

**Arms.** A job per path follows the macro's lambda from lookup to
lookup. Jobs interleave freely, because DuckDB evaluates a lambda over a
list a vector at a time and gives no order between its subexpressions. The policy
filter comes before the `CASE` builds any arm. `error(NULL)` is `NULL`, and
`array_to_string` leaves a `NULL` arm out: job `pc = "dropped"`.

**Dispatch.** `Branches(q)` is the `CASE`, a row per group of `WHEN`s in the code's order;
the first true one decides. `Equals` and `Differs` are `=` and `<>` as a `WHEN` sees them. A query
is abstracted to what reads which path, as which format, with which of the caller's
options. A call is answered in one step between registration statements
(`BetweenStatements`): its interleavings with them are the subject of `ReadArms`.

**Repair.** `WrapOrphans`' stack is modelled by the output positions whose frames are
on it. `origin` is a history variable: an element's place in the input, 0 for a
wrapper. Positions stand for `element_order`, which the last pass
assigns densely.

**Lone plain.** `CollapsePlain` is a turn that merges, `Skip` one that
continues. The loop index stays where it was after a merge (`i--` and
`i++`).

**RTF.** A token is a brace, a line break, a character, a control symbol or a
control word with its parameter; an action is a branch of `Parse`, `ReadControl` or
`ApplyControlWord`, in the order of the early returns there, and flushing a
paragraph or a table is part of the action that does it. A text is the positions of its tokens,
so that one can tell where each of them has gone; `Trim` and the first semicolon of a style's name work
on them. `sheet`, `para`, `body` and `lists` gather the parser's fields by what they are about. The
reader sees one token after the other; `RtfPromise` looks at all of them: its three variables
hold which groups are open at each token, which tokens stand in the document and which of
them are text, are computed once from the source, and never change.

**Lines.** A source line is a record of what the scanner's tests look at: a lead (the mark that
starts it), its indentation, the name of a keyword or tag, a run of list markers, whether it has a text or a term
before it. The texts are numbers, three to a line, so that a text of the output tells where it stood. `Scanned` is
an iteration of the scanner, `Consumed` one of the Builder, with the index that the iteration leaves behind, and
`Returned` the return. `builder` holds the members of the reader's Builder, a record with fields of its own
for each reader; in `RstReader` it holds the stack of calls of `Run` and `List` with their locals. Branches that the code tries
in order are actions whose guards exclude each other. Markup inside a text is left out: it moves no line.

In LaTeX a line is a construct: a text, a blank line, a control word with its argument. `builder` holds the environment stack; a
frame knows where its block and its items' blocks are, by index, as `EnvFrame` does. The macro and environment
tables are reduced to one entry or two for each disposition.

**Office documents.** A line of the source is a paragraph, a row of a table or a property of
the archive's other part; wrappers that the code looks through (content controls, sections, list items) are looked through
already. A style is what the closure of styles answers, a list is the types around a paragraph, outermost first. A
candidate for dropping is kept, as in the code, as the position that its block will have.

**EPUB.** A line of the source is a node of the XHTML body in document order, its indentation the depth; the parser, the
archive and the spine are outside. A step reads one child: with all that is below it (`EmitBlock`, a table), or by calling `WalkBlocks`,
which pushes a frame. `WalkReturns` pops it, and drops the section that came out empty.

**Pandoc.** Nodes have one shape (`PandocAst`), texts are sequences of words. `Flatten` and `BlockRows` are the
recursive functions of the import, and `BlockOut` and what it calls those of the export, which answer a node and the next index.
`PandocRoundTrip` runs the loops: blocks to rows, the lone plain pass, metadata behind them, then blocks out and metadata
out. Attributes are reduced to what the converter decides by. These modules are recursive, and only TLC reads them.

**Macros over a document.** A position stands for `element_order`. Each name of the modules is a CTE of the
macro: `Body`, `Hits`, `Taken` (`h`), `SectionEnd` (`spans`), `Kept`, `Segment` (`t`), `TextOf` (`segs`). The running
maximum of span ends is a quantifier over the spans that were opened before. A call answers or raises, and returns.

## 3. Runs

Five of the runs look for a state in which the program does not do what one of its own
documents or comments says, and find it; the others pass.

| Run | Question | Instance |
|---|---|---|
| `registry` | do overlapping registrations keep the table's promises? | two sessions, five keys, four valid calls and four invalid ones, up to three extensions per call |
| `read_arms` | can a concurrent registration change which paths are read, or as what? | one registering session; sources of one and two paths, a `NULL`, a builtin, an unclaimed path and one with no function |
| `dropped_path` | is a list read whole or not at all? *Not* when a row without an extension replaces one with, between two lookups | as `read_arms`, plus one call with no extension |
| `dispatch` | which query does a call become? | a path per kind of branch, all formats, `NULL` for every parameter, lists of two and an empty one |
| `pages_ignored` | does `pages` raise where it cannot be honoured? *Not* for a source nobody claims | as `dispatch` |
| `block_lists` | what does repair do to a list? does one pass over lone plains reach the fixpoint and keep the tree? are the macros' answers the subtrees that were asked for? | repair: every list of three over 25 elements, every list of four over fragments at three levels; the pass: every list of four over 20 shapes, every chain of five plains; the macros: every document of up to four rows of thirteen kinds, every title, phrase, id and mode |
| `alternating_fragments` | are all orphans wrapped? *Not* when kinds of fragment alternate below level 1 | repair alone, as in `block_lists` |
| `rtf` | do the rows hold the text, fields, tables, headings, formats and lists of the source? | all sequences of up to three of ten paragraph-like fragments (with list and style tables) and of nine group-like ones, with a header row before or an open table after |
| `markup` | what becomes of the texts, paragraphs, lists, tables and headings of a source, and does its reader return? | every source of up to four lines over three or four sets of about eight lines per format; in LaTeX up to three constructs, and up to four more behind the start of a list, a table or a preamble; XHTML trees of up to five nodes under three content models, and tables with every kind of head, row and caption; eight formats; seven sections with seven adornments |
| `epub_drops_text` | is all text of an EPUB in some row? *Not* in seven shapes | a tree of each |
| `pandoc` | is a converted document whole, do all words come back but in the listed shapes, and what comes back as it was? | some nine thousand documents: every constructor, alone, in pairs and two deep in every container, items of three blocks, every kind of metadata; fifteen lists of native rows |
| `words_lost` | does a round trip bring back every word? *Not* in the listed shapes | a document of each of twelve shapes |

**Why the bounds are enough.** Two sessions and three extensions per call are
what a lost update, a duplicate key and a half-stored call need; keys only
interact when they are equal. A drop in the arms needs one path, one
registration and two lookups; a list needs two paths to be partly read. The dispatch `CASE` has
no loop, so one path per branch covers it. Two fragments and their
wrappers exercise `WrapOrphans`' stack, and a third element one that has to be
popped; deeper nesting repeats it. Four blocks hold a parent, a plain, the plain's child and a
sibling; five a chain of plains, which is where the loop's step back matters. Three RTF fragments are what a list, a nested
list and the way back need, or a table between two paragraphs; a stray brace of either kind before, between
and after two others covers unbalanced sources.

Four lines hold a construct that opens, a line in it, one that closes or interrupts it, and a line behind; each set of lines
puts together those that a branch's look-ahead tells apart, so that every pair of branches meets. Four nodes of XHTML are a container in a container, a text in it and
one behind it; texts of one, two and four characters and adornments of two, three and four stand on both sides of the shortest that makes a section title; tables are put together from their parts, and are the larger. Besides the mutants, which are of the readers of lines and of EPUB, mistakes were
seeded in DOCX and ODT (a list left open, a skipped flush, an index off by one): each is found. A document of three rows is needed for two nested spans and what is behind them; the fourth is a row between. In the
pandoc run a block's place is at the top, in a container, in an item or below metadata, and its neighbours decide only
where a walk stops: two deep and two side by side cover each pair of places.

No counter is unbounded, so no state constraint is used; the only bound stated as a guard is `BetweenStatements`.

**Deadlock** is checked wherever the system runs on. `BlockRepair`, `LonePlain`, the readers and `PandocRoundTrip`
are functions that return, so `CHECK_DEADLOCK FALSE` is set for them; that the line readers do return is `Terminates`.

**Fairness** is assumed in one place. A reader is one call on one thread, which goes on with its
loop until it returns, so `FairSpec` of `MarkupReaders` is `WF_markupVars(Next)`: no other process is scheduled and nothing can
disable the next turn of a loop. The other modules have safety properties only: a
lock is held for one lookup or one store, the macros are single
expressions, and the passes over lists are bounded loops.

### What the properties say

* `OneRowPerKey`, `UserRowsAdmitted`, `FunctionNeverLost`, `ImplementsTable` — the
  registry under every interleaving. `FunctionNeverLost` is what allows the macros to test a
  key's function in one lookup and render it in another.
* `BuiltinDenied` — no registration renames a disabled builtin past the policy,
  even one that commits while the policy is being evaluated.
* `NoPathDropped` — provided every reader with a function names its extension.
  `dropped_path` shows that the proviso is needed.
* `NeverNull`, `OptionsHonoured`, `DisabledNotRead`, `ListsReadInOrder` — the `CASE`s. `NeverNull` excepts a source
  that is a list and `NULL`: it names no document, and the macro answers `NULL` for it. `DisabledNotRead` asks of an arm
  the format that the policy goes by (`Gated`): the one the caller names, else what is shipped for the path, else what the registry
  calls it, and `code` for a path nobody claims.
* `LevelsRepaired`, `NothingLost`, `NoOpOnWholeDocuments`, `TopLevelFragmentsComeOutWhole`, `StackGrows` — repair.
* `NoLonePlainLeft`, `NoJumpIntroduced`, `AncestorsKept` — normalisation.
* `TextsRead`, `RowsRead`, `ParagraphsOfTheirKind`, `FormatsScoped`,
  `ItemsInLists` — RTF: each compares the rows with the source's groups and words.
* `Terminates`, `TextsInOrder`, `ProseKept`, `ParagraphsWhole`, `ItemsInLists`, `RowsWhole` — the readers of lines and of
  office documents, and `HeadingsByAdornment` (reStructuredText), `NestingAsWritten` (what a row hangs under: by margins in
  reStructuredText, by the elements around its text in EPUB), `StylesInPlace` (Textile), `ItemTextsAsWritten` (LaTeX: tight and loose lists, of sources whose
  environments are closed in order or left open). Where the code
  itself does otherwise, the property names the case: `Hidden` (where plain lines are not read), `Transparent` (what
  a paragraph goes on across), `ListingInParagraph`, `Flow`, `ComesBack`. `ProseKept` says
  that nothing else is lost, and not that these lines are: of an office document it leaves out what restates a property, of an EPUB what
  `LostInEpub` describes. That text of an EPUB is lost is the subject of `EpubTextKept` in `epub_drops_text`.
* `RowsAreAWholeDocument`, `TextIsLostInTheseShapesOnly`, `ComesBackAsItWas` — the pandoc round trip. `Loses`, `MetaLoses` and
  `TextAboveBlocks` define shapes of document, and the second property says that a document of none of them brings back every word.
  `EveryWordComesBack` makes no exception, and `words_lost` refutes it. `Carried` is the grammar of what comes back node for node.
* `BodyIsWithoutMetadata`, `AnswersAreSubtrees`, `SearchFindsInnermost` — the macros: intervals against ancestors, in the
  tree of levels and in the tree of headings.

Each property of a passing run has a mutant in `PROJECT.json`: a plausible mistake in one
mapped definition (written next to it, under the comment "Mutated form") that makes TLC find
the property violated on the same instance.

## 4. Proofs

All proofs are by TLAPS, for every value of the constants that satisfies the
named assumptions: `ConstantsAssumption` and `SeedsAssumption` (the shipped table claims
no key twice), `PathsAssumption` and `SourceAssumption`, `BlockTypeAssumption`,
`RtfAssumption`, `InputAssumption` and `ConvertedAssumption` (what the pass is given is a list of blocks, of any shape), `RequestAssumption`,
`NullAssumption`, `PhraseAssumption`, `DocumentAssumption` (two modules have one of their own) and `TextileAssumption`. TLC evaluates each on the instances above.

* `ReaderRegistryProofs`. The inductive invariant `IInv` adds to `TypeOK` that statements
  past their bind hold accepted calls (`StatementsAccepted`) — validation is a
  statement away from the store, and this is what carries it across — and that
  keys are unique. From it: `TypeCorrect`, `KeysStayUnique`,
  `OnlyAdmittedRowsStored`, `FunctionsAreNeverLost`, and `RegistryImplementsTable`,
  the refinement of `ReaderTable`, where storing a row maps to `Claim` and
  every other step to a stutter.
* `ReadMacrosProofs`, of the arms. `BuiltinStaysDenied` rests on `ReadIInv`, whose conjunct
  `BuiltinNamed` says that a job past its first lookup carries the frozen name of
  its path if there is one. `ListsAreReadWhole` rests on `WholeIInv`: once a job
  is past the test of its function, its path's row has a function
  (`FunctionsStillThere`, from the registry's invariant), and each remaining
  lookup that could answer `NULL` is excluded by it.
* `BlockRepairProofs`. `RepairInv` says of every pass what it has done so
  far: `Rebase`'s minimum is a lower bound of the levels seen (`MinSoFarIsLow`) and one
  of them, and `CollapseJumps` leaves no jump behind its index
  (`NoJumpBehind`), which pulling the rest up does not disturb. From it:
  `RepairTyped`, `StackIsSorted`, `LevelsAreRepaired`.
* `LonePlainProofs`. `PlainInv` joins to the type of the list that nothing behind the index could still
  adopt (`NothingBehind`), which `OnePassIsEnough` rests on and which is not obvious, since a collapse
  lifts blocks behind the index too; and the two promises themselves. What a collapse does is settled once, by position:
  `Collapsed` says which block stands where afterwards and `Lifted` that exactly the plain's children have moved up,
  by one. `CollapseMakesNoJump` then compares neighbours, `CollapseKeepsAncestors` parents (`AncestorsMove`:
  a block's ancestors are the same blocks, without the plain), and `CollapseKeepsSiblings` finds, for a block behind the index
  that had a sibling before, one after. Hence `OnePassIsEnough`, `JumpsAreNeverMade`, `AncestorsAreKept`.
* `RtfReaderProofs`. `OneListPerDepth` is about the stack of the three readers with lists, for stacks of
  any depth: afterwards one list is open for each depth wanted, and list rows are emitted for exactly the depths that did
  not stay open, outermost first. It also bounds the type mix-up of section 5: the innermost list has the type wanted
  unless deeper lists had to be closed.
  The other three theorems are about the reader on every sequence of tokens, of any length, with braces that do not match and
  control words in any place. `FormatsScoped` alone is not inductive: it speaks of rows, which appear in the last step only.
  `RtfInvariant` follows each text from its token to its row. `ScopesOK` says how the braces that are open before a token
  come from those before the token before it; `GroupsOK`, that the parser's stack has one group for each of them and one for the document, and
  that a group whose text is the document's has the formatting that the words in and around it set (`FormatUnder`), since
  a brace that closes returns to formatting that no word inside could change (`StillFormatted`), and whoever has entered a destination
  stays out of the document until its group ends; `BodySound`, that each run holds places of its own formatting only
  and each block the text of runs without any, unless it is a heading; `RowsSound`, that the rows are those blocks with
  their inlines behind them. Where a row stands is `Flattening`: each part of a flattened sequence comes behind those before it. From
  it: `RtfTypesAlways` and `FormatsAreScoped`. `BodySound` also says of the lists that, as long as no table and no picture is among
  the blocks, each open one goes on to the next block (`ListsOpen`) and each item has one (`ItemsListed`); carried over to the
  rows it gives `ItemsAlwaysHaveLists`, the first half of `ItemsInLists`. `RtfAssumption`: a document is a sequence of tokens, and the
  mark for a word without a parameter is not a number.
* `DocSectionsProofs`. `FirstOf` is the least of its positions because a set of naturals has a least element (`LeastOf` of
  `DataLemmas`, from the library's well-founded order of finite sets), so a span ends at the first row that is not
  deeper and holds exactly the rows under its root (`SpanIsSubtree`); hence `BodyIsWithoutMetadataAlways`. The same
  argument on the ranks of headings gives `SectionIsSubtree`. `KeptCoversApart` is the point of the two: what `keep` drops
  lies in a section it keeps (the first that reaches as far), and kept sections are apart, since one that starts in
  another and ends behind it would have a rank both below and above. `DocIInv` says that an answer is what its macro computes
  from the rows, and with it `AnswersAreSubtreesAlways`. They assume `NullAssumption` and `DocumentAssumption`: levels
  and ranks are integers or `NULL`, in any order.

* `ReadMacrosProofs`, of dispatch. `DispatchIInv` joins the four promises to the registry's invariant and to `BuiltinRowsShipped`, that a row which no session
  has replaced is as shipped: on it depends that a path of a shipped format is never taken for one that nobody claims. An answer is
  made in one step, and no later step changes it or what is shipped. `Decides` says of a `CASE` which branch does, by
  the guards before it that are false; from it `DocOutcome` and `TableOutcome` list what can come of a call, and
  `OutcomesGated`, `OutcomesCarry` and `OutcomesInOrder` go through that list. Hence `NoCallBecomesNull`,
  `OptionsAreHonoured`, `DisabledStaysUnread` and `ListsComeWhole`, for any registry, formats, options and lists. Assumed of a
  call (`RequestAssumption`): its options are what the macros declare, and a `NULL` is not the name of a format.
* `BlockRepairProofs`, of whole lists. Three promises about the whole of a list, of any length. `NothingIsLost` rests on `KeptInv`: the
  list a pass reads holds the input's elements in their order (`Copies`, `InOrder`), and what `WrapOrphans` has written holds
  just those that it has passed (`OutHoldsSeen`). `RepairIsANoOp` rests on `LoadedInv`
  (what is loaded is the input without its empty elements) and `WholeSoFar`, which says of each pass that it has changed nothing: the
  element that `RequiresAncestor` looks for is among the ancestors, and these are on the stack (`StackIsAncestors`), so that no run is wrapped; the minimum is 1; no
  level jumps. `TopLevelComesOutWhole` rests on `TopLevelSoFar`: the output so far has its ancestors, and a run of orphans
  goes one deeper than the wrapper before it.
* `DocSectionsProofs`, of searching. `SearchFindsInnermostAlways`: the text of a segment is joined row by row by a recursive function, and so
  are the words of any consecutive rows. That such functions exist (`Recursion`) and that what holds of 0 and of each
  successor holds always (`Induction`) are proved in `DataLemmas` over sets of naturals from `LeastOf`, since the library's theorems take an operator.
  `JoinedRowByRow` and `WordsRowByRow` give the steps, `WordsInText` that the words are a part of the text, and
  `HoldsWithin` that a phrase in the part is in the whole. `PhraseAssumption`: a phrase is a sequence of words.

* `MarkupReadersProofs`, of Textile. Six theorems, for sources of any length and any lines. The invariant is `TextileInv`.
  While the scanner runs, `Scanning(first, m)`: there is a rising function `first` such that its line `k` is made of the
  source's lines from `first[k]` to just before `first[k + 1]`, an HTML element being several lines of the source and one of the
  scanner's. While the `Builder` runs, `GoodAt`: of the lines of the source before `first[i]` it holds
  (`TextsGood`) rows whose texts come in order and are of those lines (`RowIn`, `InOrder`), whose styles are each one row's with its text in
  place (`StylesOwn`), and whose tables and paragraphs are whole (`CellsWhole`, `RunsOn`); a paragraph behind all rows, with prose only
  since its first text (`ParaOpen`); every line of prose in one of the two, or in `LostInListing` (`ProseIn`); and (`ListsGood`) every item
  under its list (`Listed`), with a row for each open list below which all later rows stand (`Opened`), no list being open
  together with a paragraph. None of this is inductive without the rest: that the style of a `p.` line is in its place depends on where
  the paragraph ends, and that an item finds its list depends on every row since. There is a lemma for each kind of line (`HeadingTexts`, `CodeTexts`,
  `ItemLists`, ...), joined in `LineRead`. The properties owe it three things: exactly which lines an HTML
  element inside a listing loses (`LostInListing`, which `ProseKept` leaves out), that prose goes on across a marker with an unknown name (`Transparent`), and the second
  half of `StylesInPlace`, where a style's text is.
  `TextileAssumption`: an item has a text and its run of markers is of `*` and `#`, which is what makes the scanner call it
  an item.

Of the 40 properties of the passing runs, 24 are proved, and five more (`TextsInOrder`, `ProseKept`, `ParagraphsWhole`, `ItemsInLists`
and `RowsWhole` of `MarkupReaders`) for all sources of Textile. Only model-checked, and why:

* Of RTF, `TextsRead`, `RowsRead`, `ParagraphsOfTheirKind` and the second half of `ItemsInLists`. The first two compare what is read with the source as a
  whole, in order, through `FoldLeft` and `SelectSeq`, of which the provers know nothing. `ParagraphsOfTheirKind` and the
  body's half of `TextsRead` are false of arbitrary tokens (TLC finds table words without a row, where text is taken into a cell that never ends), and hold of the
  sources that writers produce, whose grammar no assumption states yet.
* Those five of `MarkupReaders` for the seven other formats, whose readers each need an invariant of their own, and
  `HeadingsByAdornment`, `NestingAsWritten` and `ItemTextsAsWritten`: these are about sources that a format's grammar allows, through
  folds over lines.
* The three of `PandocRoundTrip` are about recursive operators, which are out of the prover's reach; `Terminates` is liveness.

## 5. What the checks found

Each of these is a run of its own, with the text it contradicts, in `PROJECT.json`.

1. A multi-document read loses a path silently when its row is replaced
   by one without a companion extension between two lookups (`dropped_path`).
2. `pages` is ignored for a source that nobody claims (`pages_ignored`).
3. `list_item, caption, list_item` below level 1 comes out of repair
   with the last one still an orphan (`alternating_fragments`).
4. Text of an EPUB is in no row (`epub_drops_text`), although the comments in `libpanduck/src/epub.cpp` say "Never drop" (812) and "losing
   text is a bug" (547): an image between blocks (in a `figure`, a `div`, the body) vanishes with its alternative text; so does all
   preformatted text inside an element (`<pre><code>` comes out empty) or behind one, what stands in a page break, each later row of a
   `thead`, the caption of a table without cells, and text between the cells of a row.
5. A round trip through the pandoc converter loses words (`words_lost`), although `README.md` says of it that it keeps "a formatted figure caption" (248),
   "discard nothing" (265) and that a check finds no word lost (249; the documents it runs on have none of these), and the code of a list's
   items "EVERY paragraph, not just the first" and "NEVER SILENTLY DROP" (`pandoc_block_convert.cpp:1454`, `1513`). Lost are a Plain alone in a Div
   of class `page`; a formatted Plain alone in a Div, section or Figure; a formatted figure caption in a container; a formatted paragraph or heading
   below a page or among metadata; a formatted line block in a container; every list of an item but the last; the paragraphs behind an empty first
   one, in an item with other blocks; a table beyond its projection, in an item; blocks of a Note that are no paragraphs; and, of
   native rows, the text of a container above its blocks, which is written with their types as its text.

Each violation run of 4 and 5 stops at its first document; with TLC's `-continue` every document of it is reported.

Met while modelling; the properties name these cases or leave them out:

* *Registry.* `panduck_allow_registration` is read at bind only, so a prepared registration still stores
  its rows after it is set to false (`doc_namespace.md` says it is what keeps readers out).
  `panduck_wrap_expand` takes a `NULL` `expand_embedded` for `TRUE`.
* *Repair.* A document with an explicit root at level 0 is whole, and is moved down.
* *Lists of RTF, DOCX, ODT.* An item that comes back from a nested list joins the list open at its depth, of whichever type
  that is; DOCX opens all the lists of a deep item with the item's own type. In RTF, a table or a picture
  between two items leaves the list stack as it was, so the second item has no list above it; in the other two it clears it.
* *DOCX and ODT.* DOCX passes over an empty paragraph before it looks at lists, ODT after: there an empty item opens a `list` without
  an item, and a blank paragraph ends one. A Title paragraph that is indented, in DOCX, is taken for a quote, and when it restates a
  property it is the `blockquote` row that is dropped, since the recorded index is that row's. Empty lines of a listing vanish, and
  two listings with an empty paragraph between them are one. In a cell of ODT, only text that no span encloses is read.
* *RTF.* A picture in a table cell flushes the cell's text as a paragraph; text after a row that never ends is lost; an
  outline level makes headings of level 9.
* *Org.* A keyword in a list is emitted at level 1 without closing the list; a change of list type at one
  indentation is not noticed; a drawer that is never closed takes the blank line that ends it, and the paragraphs around it become one; the
  lines of a listing have lost their markers (`* a` comes out as `a`).
* *Textile.* The style of an empty `p.` reaches the next paragraph across a blank line; HTML that opens in a listing keeps only its
  first line.
* *MediaWiki.* A preformatted line after paragraph text is emitted before the paragraph, which goes on behind it; a
  listing between items leaves the next item without a list; `|-` before a header row makes an empty row; an unbalanced `{{`
  takes the rest of the source; a bare line in a table is dropped.
* *reStructuredText.* The second use of a seventh adornment gets level 7; bodies of literal blocks lose markers; an overline
  makes a rule.
* *LaTeX.* A table ends at the first end of its name, so a nested table of that name ends it and the rest is prose; the name of any other
  environment in a cell becomes text of the cell; `\item[label]` keeps its label only in a description; in a
  fragment, `\documentclass` discards what stands before it; a rule in an unfinished first row counts as the rule before it.
* *EPUB.* `<div epub:type="pagebreak">` is read as a `div` and dropped, since that branch comes first. A figure is looked through, so its caption has no
  figure above it, and a run alone in a `div` or `blockquote` stays a `plain` below it, although "`content` is populated IF AND ONLY IF the container's only child
  is a plain text run" (line 795; lines 546 to 557 say `plain`). Tables and definition lists in an item that holds no other block are flattened into its text.
* *Pandoc.* Blocks in metadata are written with the body.

## 6. Not modelled

Option rendering, SQL quoting and message wording (layout of text); extension
loading beyond whether it succeeds; the filesystem, archives, XML and JSON
libraries; static tables. Inline markup inside a line, a run's formatting in DOCX and ODT, tables within cells, and the order in
which properties of one document are emitted. `CollapseJumps` may leave an element under another parent
than before; no rule in the code says where it belongs, so no property
does. In the pandoc conversion: attributes that the converter only copies, the json text, and the limit of nesting.
In LaTeX: macros and blocks within the argument of an inline macro, optional arguments that span tokens, and math; the
name of an end that the source lacks, in a cell. In EPUB: the archive, manifest and spine, style sheets, links' targets, and groups of `dt` and `dd` wrapped in a `div`,
whose items do not stand right below their list. The ipynb reader walks JSON without state that outlives a cell.

## 7. Plan

Done: registry, statements and scalars with the refinement of the table; arms against registrations; dispatch;
repair and lone plains; RTF; the four readers of lines; LaTeX; DOCX, ODT and EPUB; the pandoc round trip; the three macros over a
document. Proved: the registry, the arms, dispatch, repair, lone plains, the macros over a document, and the list stack.

To come: proofs about the readers, whose properties have first to be told without folds. What is left to model is what section 6 lists; the first of
it would be the inline converters of the readers of lines, whose delimiters nest.
