# TLA+ models of the source-hygiene tools

The repository is a set of standalone Python command-line tools under
`src/tools/`. Each reads Rust source files, matches lines with regular
expressions, and (with `--apply`) rewrites files in place. The tools share no
state. Inside one tool, the parts interact as follows:

- a driver builds a list of files from paths and walks it in order;
- a per-file scan decides whether the file changes;
- a write step replaces the file, for some tools after writing a `.bak` copy.

The things that are hard to test are of three kinds:

- line-scanner state machines with several flags, where a branch order or an
  early `continue` changes the result;
- two hand-written copies of the same loop that must agree;
- write sequences that a kill can interrupt between truncating a file and
  writing its data.

## Inventory

| Part (source) | State | Operations | Modules |
|---|---|---|---|
| Fence regexes and rewrite (`remove_doc_tests.py` 26-29, 116-118) | none, pure | `OPENING_LINE_DOC_RE`, `OPENING_BLOCK_START_RE`, `CLOSING_BLOCK_RE`, `FENCE_RE`, the `line.replace(...)` that appends `ignore` | `FenceText` |
| `process_file` (34-163) | `i`, `in_block_comment`, `in_fence`, `in_fence_line_doc`, `out_lines`, `changes` | one loop iteration per branch; return | `ProcessFile` |
| `apply_transformations_to_text` (212-301) | same flags, local | a pure function of text and flags | `ApplyTransformations` |
| The rewrite spec.md 4.1 and 8 promise | none | reference scanner | `FenceSpec` |
| `scan_paths` and exit code of `remove_doc_tests.py` (166-208, 314-323) | file list, position, disk, total | read (or fail), count, transform, `write_text` twice, finish; kill | `ScanPaths` |
| `remove_commented_tests.py` | line loop, file list, disk, `.bak`, total | read, remove block, keep line, end of loop, backup and write steps, finish; kill | `RemoveCommentedTests` |
| `generate_mod_rs.py` | directory tree, `mod.rs` of each directory, call stack | generate, open/write `mod.rs`, descend, skip, return, dry run, finish; kill | `GenerateModRs` |
| `expand_pub_uses.py` | files on disk, `.bak` files, the walk position | process a file (keep, or expand and start writing), backup and write steps, a decode error, finish; kill | `ExpandPubUses` |
| The promise of a rewriter with backups (spec.md 3, 5) | files, position | replace one file at once, finish, stop | `AtomicRewrite` |
| `find_nested_uses.py` | the loop index and the three finding lists | split, deep and segment branches, next line, return with exit code; the directory helpers as operators | `FindNestedUses`, `UseStatements` |
| `find_long_uses.py` | the argument index, the line index, the local `prefix`, the two finding lists | one line of a file argument, the `NameError` and decode tracebacks, a directory argument (with the import of `scan_for_segments`, or its failure), another path, return with exit code | `FindLongUses`, `UseStatements` |
| `find_crate_usages.py`, `check_gds_todos.py`, `src/gds/tools/reports/generate_summary.py` | none (report only) | scan and print | not modelled |

How the file content is abstracted:

- **The fence tools** see a line as a sequence of tokens. Only the lexemes the
  regular expressions tell apart are tokens: `///`, `//`, `/**`, `*/`, three
  or four backticks, `rust`, `ignore`, another word, a comma, other code, and
  the newline. The newline is kept because `FENCE_RE`'s `[^`]*` captures it,
  which is what the block-comment bug turns on.
- **`remove_commented_tests`** sees each line as one of five classes:
  `// #[test]`, other `//`, `///`, blank, or code.
- **`generate_mod_rs`** sees each directory as its module-file names, its
  subdirectories, whether it has a `mod.rs`, and whether `listdir` on it fails.
- **`expand_pub_uses`** sees a line as a `pub` item with its name
  (`ITEM_RE`), a wildcard `pub use` of a path (`PUB_USE_WILDCARD_RE`), or a
  `pub use` list of a path with its names. A file is its directory below the
  target, its base name and its text.
- **`find_nested_uses`** sees a line as tokens again. The tokens are `use`,
  `pub`, `crate`, `std`, `core`, the searched segment, an identifier that
  ends in `use` (such as `reuse`), any other identifier, `::`, `{`, `}`, a
  comma, `;`, and other punctuation. The regexes, `split('use', 1)`,
  `split('::')` and the substring tests are operators over token sequences.

## Modules and how they correspond to the code

- **FenceText**: one operator per regular expression, and `DisableFence` for
  the `replace` call.
  - `LangRaw` is the `lang` group. When `FENCE_RE` searches a whole line, this
    group includes the newline.
  - `SplitLines` is `splitlines(keepends=True)`, and `Join` is `''.join`.
- **ApplyTransformations**: `ApplyStep` is one iteration of the `while` loop
  of `apply_transformations_to_text`. Its CASE arms follow the code's branches
  in order. `ApplyLoop` folds `ApplyStep` over the lines, with RECURSIVE.
- **ProcessFile**: the `while` loop of `process_file` as a state machine.
  - There is one action per branch: `FenceClose`, `FenceBody`,
    `LineDocFiltered`, `LineDocOpen`, `BlockFiltered`, `BlockOpen` and
    `Default`. Each guard is the code's conditions and earlier branches taken
    in order.
  - Each action's effect covers the whole branch, including the block-comment
    flag update at the top of the loop.
  - `Finish` is the return, including the final `new_s != s` comparison.
  - The file and the flags are chosen in `Init` from the constant `Cases`.
- **FenceSpec**: the three-state scanner of spec.md 4.1 (normal, in a block
  doc comment, in a fence opened from a line-doc or a block comment).
  - `RefRoles` gives each line a role: open, body, close or other.
  - `RefOutput` is the text the spec promises for delete mode and for disable
    mode.
- **ScanPaths**: the `for f in files` loop of `scan_paths`.
  - `ProcessNext` uses `ApplyTransformationsToText` for both the verdict and
    the new content. The scan run checks that `process_file`'s verdict equals
    "the transform changes the text", and that justifies using it here.
  - `write_text` is two steps, truncate and write, and the code calls it
    twice.
  - `ReadFails` is `read_text` raising. `Kill` may happen between any two
    steps.
  - Path collection (`os.walk`, `is_dir`) is a nondeterministic choice of
    file list.
- **RemoveCommentedTests**: `RemoveBlock` is the `TEST_ATTR_RE` branch,
  including the inner `while` (`SkipComments`) and the one trailing blank
  line (`AfterBlock`). The other actions:
  - `KeepLine` is the else branch.
  - `EndLoop` is the `if not changed` / `if apply` decision.
  - `WriteStep` is the backup's open and data, then the file's open and data.
  - `Return` is the loop of `scan_paths` adding the count.
- **GenerateModRs**:
  - `GenerateModRs(d)` is `generate_mod_rs`. A `mod.rs` is modelled as the
    sorted sequence of names it declares, because the text is a function of
    that sequence.
  - `OpenModRs` and `WriteModRs` are `write_mod_rs`. `OpenModRs` leaves the
    file `Truncated`, which is not the same as a written `mod.rs` that
    declares no names. After the write, with
    `--recursive`, `WriteModRs` pushes a frame holding the sorted
    subdirectories.
  - `Descend`, `Skip` and `Return` are the `for` loop of `walk_and_write`.
    `ToVisit` is that loop's own copy of the eligibility test.
  - `DryRun` is `main` without `--apply`.

- **ExpandPubUses**:
  - `Resolve` is `resolve_module`, and `Gather` is `gather_public_items`
    (`<<>>` stands for None).
  - `Expand` is one iteration of `process_file`'s line loop, and `NewLines`
    is the whole loop. Both read the module files from the disk as it is at
    that moment.
  - `Selected` is `walk_and_process`'s choice of files: the top directory
    only unless `--recursive`, `mod.rs` only with `--include-mods`, or the
    single file given.
  - `ScanKeep` and `ScanChanged` are `process_file` returning or starting to
    write. `WriteStep` is the four steps: `.bak` open, `.bak` data, file
    open, file data.
  - `ReadFails` is the `UnicodeDecodeError` that no handler catches, raised
    by `process_file` or by `gather_public_items`.
- **AtomicRewrite**: the abstract spec. Each listed file is replaced in one
  step by `Rewrite(f, disk)`, or left alone without `--apply`. The run may
  stop at any point.
  - `ExpandPubUses` instantiates it with `INSTANCE ... WITH`. The refinement
    mapping `Recovered` shows the `.bak` in place of a file while that file
    is truncated or being written.
  - `Rewrite <- NewLines` makes the abstract step the expansion itself.
- **FindNestedUses**: the file branch of `main` as a state machine with one
  action per branch, in the order the code tries them:
  - `SplitBranch` (line 182), `DeepBranch` (196) and `SegmentBranch` (211);
  - `NextLine`, when no branch takes the line;
  - `Finish`, which computes `printed` and the exit code.

  `CollectFrom` is `_collect_full_use_statement`. The directory branch is
  three operators:
  - `DirSplit`, the `os.walk` loop;
  - `ScanDeep`, which is `scan`. It is empty, because `NESTED_USE_RE` is
    undefined there.
  - `DirSegments`, the call of `scan_for_segments`.

  Only `DirSegments` is used by a property (the reference side of
  `SegmentsFileMatchesDir`). `DirSplit` and `ScanDeep` complete the model
  of the directory branch; `ScanDeep` being empty is the `NESTED_USE_RE`
  hazard, which was confirmed by running the script rather than by a run.
- **UseStatements**: the line tests the two use scanners share, as pure
  operators. They are `SPLIT_USE_RE` and `DEEP_USE_RE`, the path part, its
  segments and prefix, and the ignore test. `CollectFrom` is
  `_collect_full_use_statement`. `ScanForSegments` is `scan_for_segments`,
  which `find_long_uses` imports from `find_nested_uses`.
- **FindLongUses**: `main` of `find_long_uses.py` as a state machine over its
  path arguments.
  - `FileLine` is one iteration of the line loop of a `.rs` argument. It
    runs the depth test first, which sets `prefix` only when the line
    matches. The segment test then reads `prefix`. The variable `prefix`
    carries that local from line to line and from argument to argument.
  - `PrefixUnbound` is the `NameError` when the segment test reads `prefix`
    before any assignment. `FileUndecodable` is the decode error. Nothing
    catches either.
  - `DirArg` is `scan` and, with `--segment`, the imported
    `scan_for_segments`. `DirImportFails` is the `ModuleNotFoundError` when
    the package `tools` is not on `sys.path`.
  - `OtherArg` is a path that is neither, and `Finish` is the return.

Each MC module (`MCProcessFile`, `MCScanPaths`, `MCRemoveCommentedTests`,
`MCGenerateModRs`, `MCExpandPubUses`, `MCFindNestedUses`, `MCFindLongUses`)
gives the
constants small values for TLC.

## Runs

| Run | cfg | Expect | What it shows |
|---|---|---|---|
| fence_scan | MCProcessFile_scan.cfg | pass | `ScanMatchesApply`: after every iteration of `process_file`, its `out_lines` equal the lines `apply_transformations_to_text` produces for the same prefix. `ReportedIffRewritten`: a file is reported changed exactly when the text `--apply` would write differs. `RewriteMatchesSpecInScope`: on well-formed files in delete mode, and on line-doc fences in disable mode, the output is exactly the one spec.md 4.1 describes. Inputs: every 4-line file of 12 line shapes × all 8 flag combinations (760k states). |
| block_disable | MCProcessFile_blockdisable.cfg | violation | Disable mode in `/** */` comments. Only without `--line-doc-only`, which is the line_doc_only run's question. In the trace, `/**` followed by a bare `` ``` `` line becomes `/**`, `` ```ignore `` and the fence line's newline is lost. |
| line_doc_only | MCProcessFile_linedoconly.cfg | violation | `--line-doc-only` still rewrites fences in block comments. |
| disable_twice | MCProcessFile_idempotent.cfg | violation | `/// ```` becomes `/// ```ignore`, and a second run gives `/// ```ignore,ignore`. |
| doc_tests_driver | MCScanPaths_driver.cfg | pass | Checks `ExitCodeReportsChanges`, `AppliedFilesTransformed`, and `UntouchedUnlessChanged` (an action property: no step changes a file that was not reported changed). `AppliedFilesTransformed`: after a finished `--apply` run every file listed once holds the transform of its original. Two files listed up to twice in any order, three texts, all flags, `--apply` on and off, read failures, and a kill at any step. |
| doc_tests_unreadable | MCScanPaths_unreadable.cfg | violation | `ReadableFilesAllScanned`: an unreadable first file aborts the run before the readable second one is scanned. |
| commented_tests | MCRemoveCommentedTests.cfg | pass | `AppliedFilesClean` (no commented test remains and no code line is lost), `RecoverableAfterKill`, `ExitCodeReportsBlocks`, `UntouchedUnlessMatched`. Two files of up to 3 lines, all line classes, listed once each or the first one twice (2.2M states). |
| expand_pub_uses | MCExpandPubUses.cfg | pass | `RecoverableAfterKill`: after any step, each file's original text is in the file or its `.bak`. `OnlyWildcardsRewritten`: only wildcard lines change, and each becomes a list of its own path with 1..max_items names. `ListsMatchModules`: at the end, every list written names exactly what its module exports as the run leaves it. `AtomicWrites` (refinement): the run implements `AtomicRewrite` under the mapping `Recovered`. Inputs: a tree with `a.rs`, `b.rs`, `s/mod.rs` and `s/c.rs`, every flag, a directory or `mod.rs` target, and an undecodable file or none (349k states). |
| expand_preview | MCExpandPubUses_preview.cfg | violation | `PreviewMatchesApply`: `a.rs` holds `pub use s::c::*;` and `b.rs` holds `pub use a::*;`. The preview proposes only `a.rs`. `--apply` writes `a.rs` first, so `a.rs` no longer holds a wildcard, and then expands `b.rs` as well. |
| segment_file_vs_dir | MCFindNestedUses.cfg | violation | `SegmentsFileMatchesDir`: `use crate::a::seg::X;` in a file given with `--segment seg` is taken by the deep branch, so no segment finding is made. With `--segment` alone the exit code is 0; with `--deep` as well the deep finding gives exit 2, and the segment finding is still missing. The same file reached through its directory is reported. |
| long_segment_stale_prefix | MCFindLongUses.cfg | violation | `SegmentsFileMatchesDir`: in a run of `find_long_uses --segment` that finishes, a file argument holds `use std::a::b::c;` and then `use crate::seg::X;`. The second line's segment test reads the `prefix` left by the first line (`std`), takes the line for an ignored prefix, and misses it. `scan_for_segments` reports it for the same file. |
| mod_rs_tree | MCGenerateModRs.cfg | pass | `TreeRegenerated`: after a recursive `--apply`, every directory reached through `pub mod` lines holds the `mod.rs` its final listing gives. `ModulesResolve`: after a recursive `--apply`, every `pub mod` line has a file or a directory with a `mod.rs` behind it. |

Every property of a passing run has a mutant in `PROJECT.json`: a plausible
bug in the mapped code (a dropped guard, a skipped line, swapped writes, a
missing count) that makes TLC find the property violated.

### Bounds and why they are enough

- **Fence files:** four lines cover every interaction of the scanner that
  needs at most two states to be entered and left. Examples are a block
  opener, a fence, a body line and a closer, or two consecutive line-doc
  fences.
- **Shapes:** the 12 line shapes cover each regex outcome, including fenced
  lines with and without a tag, with `rust` and with another tag.
- **Drivers:** two files are enough for "a later file after an earlier one"
  (an abort, a count reaching the total). The lists hold up to two entries
  with repeats, as `scan_paths` builds them when a file is given both
  itself and through its directory. `AppliedFilesTransformed` speaks of the
  files listed once; a file listed twice is transformed twice, which
  disable_twice shows is not the same in disable mode.
- **Kill:** the process may be killed after any step, which covers every
  partially written state.
- **`generate_mod_rs`:** three directories, nested or side by side, named
  from two names. This covers depth two, sibling order, and a subdirectory
  that shares its name with a module file of its parent.
- **`expand_pub_uses`:** four files in two directories cover the cases
  below. `--max-items 1` with two item names puts a module over the bound.
  - a path of two parts (`s::c`), resolved through a directory;
  - a module resolved to `mod.rs`;
  - an earlier file that is the module of a later one, and the reverse.
- **`find_nested_uses`:** files of up to three lines from ten shapes: deep,
  split, braced and multi-line uses, an ignored `std` use, `fn reuse() {`,
  a statement and a closing brace. With `--segment` and all other flags,
  this is enough for a statement taken by each branch, and for one that
  spans lines.
- **`find_long_uses`:** one or two path arguments. Each is a `.rs` file or
  a directory holding one `.rs` file, with one or two lines from five shapes,
  readable or not, or a path that is neither. Two lines are enough for a
  `prefix` left by one line and read by the next, and two arguments for
  one left by another file. Both `--segment` settings and both import
  outcomes are included.

### Fairness

Every tool runs one file at a time on a single thread (spec.md 5). Each
`Spec` is weakly fair on the tool's own steps, because a running script keeps
taking them. `Kill` is an environment action and has no fairness. The cfgs
say `CHECK_DEADLOCK FALSE` because each script really stops (done, aborted
or killed).

`AtomicRewrite!Spec` adds weak fairness on its steps: a run that is not
stopped finishes. `ExpandPubUses` does implement it, fairness included.
TLC checked this once, but the check takes 25 minutes on the expand_pub_uses
model. The run therefore checks `AtomicRewrite!Safety`: the refinement of
the steps without the fairness. No other liveness property is stated. Every
loop in these tools runs over a finite list or a finite tree, so termination
holds whatever the loop bodies do, and it would tell nothing about the code.

## Findings

1. `remove_doc_tests.py:145`, block-comment disable: `lang_raw` holds the
   newline, so the rewritten opener loses its line terminator and joins the
   next line (run block_disable, with `--line-doc-only` off).  The branch also
   never sets `in_fence`, so a closing `` ``` `` is taken for an opener; the
   run's shortest trace shows the lost newline.
2. `remove_doc_tests.py:128`: `--line-doc-only` is ignored for block comments.
   With `--delete`, the rest of the file is dropped (run line_doc_only).
3. `remove_doc_tests.py:118`: disable mode is not idempotent, against
   spec.md 8 (run disable_twice).
4. `remove_doc_tests.py:198`: no `.bak` is ever written, against spec.md 3.
   The `.bak` name is computed and then not used, so no run is needed to
   show it.
5. `remove_doc_tests.py:35`: an undecodable file aborts the whole run, against
   spec.md 7 (run doc_tests_unreadable).

6. `expand_pub_uses.py:50`: the preview does not show what `--apply` will do,
   because files written earlier in the walk change what later files may
   expand (run expand_preview). This was confirmed by running the script on
   the trace's files.
7. `find_nested_uses.py:196`: with `--segment`, a deep or braced use in a file
   given directly is never tested for the segment, so with `--segment` alone
   the run prints no match and exits 0 (with `--deep` too it exits 2 for the
   deep finding only). Through the directory it is reported (run
   segment_file_vs_dir). This was confirmed by running the script.
8. `find_long_uses.py:104`: with `--segment`, the segment test of a file
   argument reads the `prefix` of the last deep use. It misses segment uses
   after an ignored deep use (run long_segment_stale_prefix). If no deep use
   came before, it raises `NameError`, which ends the run. Both were
   confirmed by running the script.

Hazards found while modelling but not given a run yet are listed in
`PROJECT.json`:

- the stale `in_block_comment` after a line holding both a fence and `*/`;
- the doubled count in delete mode;
- `foo.rs` next to `foo/` giving a duplicate `pub mod`;
- `mod.rs` truncated without a backup: a kill between the open and the
  write of `write_mod_rs` leaves it empty (the model keeps that state as
  `Truncated`; no property is claimed for it);
- `scan` in `find_nested_uses.py` uses the undefined `NESTED_USE_RE`, so
  `--deep` on a directory never reports anything (modelled as the empty
  `ScanDeep`, and confirmed by running the script);
- an identifier such as `reuse` starting a statement collection that
  swallows the use lines after it;
- a second `--apply` of `expand_pub_uses` overwriting the `.bak` of the
  first;
- `find_long_uses` ending with a traceback on the unbound `prefix`, on an
  undecodable file argument, or on the failed import of
  `tools.find_nested_uses` for a directory with `--segment` (actions
  `PrefixUnbound`, `FileUndecodable` and `DirImportFails`);
- in the tools not modelled, each confirmed by running the script:
  - `find_crate_usages` reports line numbers shifted by multi-line block
    comments;
  - it hides a `crate::` between two lifetimes, which its string regex
    takes for a character literal;
  - it reports a `crate::` inside a multi-line string;
  - `check_gds_todos` given a directory prints "passed".

## Plan for the remaining work

Checks that would come next:

- a violation run for `generate_mod_rs` writing `foo.rs` and `foo/` as two
  `pub mod foo;` lines;
- `find_nested_uses`' `ScanDeep` against `find_long_uses`' `Scan`, which is
  what it was meant to be;
- the unbound-`prefix` traceback of `find_long_uses` as a property of its
  own.

## Not modelled

- Printing, report formatting and argument parsing are left out.
- `check_gds_todos.py` is not modelled. Its file list comes from git or
  from the arguments, and each file is checked on its own. No state passes
  between files except the `fail` flag. Its hazards, a directory argument
  and paths relative to the repository root, are in how a path is read, not
  in any order of steps.
- `find_crate_usages.py` is a top-level script. It strips block comments,
  then counts regex matches per line, with no state beyond the counts. Its
  hazards are in what the regexes match, not in the control: shifted line
  numbers, lifetimes taken for character literals, and multi-line strings.
  A model would check them only in a run of their own. The project's
  twelve runs go to the tools whose control and writes can go wrong.
- `src/gds/tools/reports/generate_summary.py` reads one CSV and prints
  counts. It has no loop over state and no write.
- In `expand_pub_uses`, `pub(crate)` items, methods in `impl` blocks and
  `A as B` list entries are not told apart from plain `pub` items. The line
  abstraction keeps only kind and name. The tool's docstring calls its
  parsing heuristic.
- In `find_nested_uses`, `--ignore-prefix`, `--include-core` and
  `--include-types` are not varied: the ignored prefixes stay at `std` and
  `crate::core`. `--split` only changes printing.
- Path collection (`os.walk`, `listdir`, `IGNORED_DIRS`) is abstracted to the
  choice of file list, except in `generate_mod_rs`, where the tree is the
  state.
