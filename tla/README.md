# cc-patcher in TLA+

cc-patcher patches Claude Code's native binary, an executable (ELF or 64-bit
Mach-O) that carries a Bun standalone payload: it finds anchors in the embedded
JavaScript, replaces text, and repairs every offset and length that the change
of size has made stale. It also caches the result and launches it. This
directory holds TLA+ models of that code, TLC runs that check them on small
instances, and TLAPS proofs of what matters most. Line numbers refer to the
sources under `src/cc_patcher/`.

## 1. The system

| Part | State | Operations | Talks to |
|---|---|---|---|
| `bun.py` | none: returns a `BunFraming` | `locate` | reads the buffer at the section a container names |
| `elf.py`, `macho.py`, `binfmt.py` | none: return a layout | `parse`, `bun_section`, `sniff` | give `bun.py` the payload section, the applier the header positions |
| `edits.py` | `EditPlan.edits`, offsets of the original image | `validate`, `same_length`, `growable` | asks the context about regions |
| `context.py`, `DiscoveryContext` | the buffer, layout, framing and StringPointer index, all of the original image | region queries, anchor search, brace walker | used by every provider's `discover()` and by `validate` |
| `context.py`, `EditApplier` | the one mutable `bytearray` | `apply`: splices, then five rewriting steps | writes at positions of the original image plus a shift |
| `cli.py` | the plan and the per-patch results of one run | `run_patcher`, the commands | reads the source file, writes the output in place, re-signs a Mach-O |
| `patches.py` | `PATCHES`, loaded at import | discovery of provider packages | entry points of the Python environment |
| `launch.py` | the directory `~/.local/share/cc-patcher`: files `claude-patched-<key>` and the link `claude-patched` | `find_claude_binary`, `resolve_patched_binary`, `launch`, `resolve` | `run_patcher`; **other launchers**, through the directory alone; **Claude Code's installer**, through the directories it installs into |
| `diagnostics.py`, `__main__.py` | none | text for people; the entry point | |

What is hard here:

* **Stale offsets.** All offsets are those of the original image. Splicing has
  to go from the back to the front, and every pointer, module record, table and
  load command has to be shifted by exactly the growable edits in front of it.
* **Boundaries.** An edit at the first or behind the last character of a region,
  one that begins in one region and ends in the next, a delta that exactly fills
  the Mach-O padding.
* **Two representations of one source.** A module's bytecode cache has to go
  when, and only when, its text changes.
* **All or nothing.** Providers are independent packages. A patch that matches in
  an unexpected number must leave no trace in the plan, one that cannot be loaded
  or that raises ends the run, two that collide end it too; in every case nothing
  may have touched the output path, and the exit status has to say what happened.
* **A search in directories that change.** Claude Code upgrades itself while a
  launcher looks for it: each `exists`, `resolve` and `open` may see another state.
* **An unlocked directory.** Any number of launchers look up, truncate, write,
  change modes, prune and relink in any order; any of them may fail or be
  killed; the binary, cc-patcher and its providers are upgraded meanwhile.

What makes each part correct is stated as the properties of section 4. The
hazards, each at its line, are in `PROJECT.json`.

## 2. Modules

```
BunImage ── Edits ─────┐
   ├─────── ElfLayout ─┼─ EditApplier ─┬─ PatchedImage ── SampleImages ── MCApplier
   └─────── MachOLayout┘               └─ EditApplierProofs
PatchedImage, EditApplierProofs ── PatchedImageProofs
EditApplier, Registry ── RunPatcher ── RunProperties ── PatchedRun ─┬─ MCPatchRun
                                 (INSTANCE PatchRun)                └─ RunPatcherProofs
PatchedImage ── PatchedRun              Edits, Discovery ── MCPatchRun
PatchedImageProofs, RegistryProofs ── RunPatcherProofs        Registry ── RegistryProofs
BraceWalker ── BalancedText ─┬─ MCBraceWalker
                             └─ BraceWalkerProofs
LaunchCache ── LaunchProperties ─┬─ MCLaunch
                                 └─ LaunchCacheProofs
Induction ── EditApplierProofs, RegistryProofs, BraceWalkerProofs
FindBinary ── FindProperties ─┬─ MCFindBinary
                              └─ FindBinaryProofs
```

### The image and the applier

`BunImage` models the binary as a sequence of cells. A cell is one byte of text
or one whole integer field, so the struct sizes are counted in fields: a module
record has 13 cells instead of 52 bytes, the Offsets struct 7. Nothing in the
code depends on the ratio, only on the sizes being fixed, and an image that a
real payload fills with megabytes has some 110 cells here. `Located`/`Locate` are
`bun.locate`: the first says that every check passes, the second is its result.

`Edits` has `Edit`, the tests of `EditPlan.validate` and the region queries of
`DiscoveryContext`. `ElfLayout` and `MachOLayout` have, for each container, the
parser and the header rewriting, the latter as the set of `<<offset, value>>`
pairs the code packs. LC_SYMTAB, LC_CODE_SIGNATURE and LC_MAIN stand for the
commands of `_FILE_OFFSET_FIELDS` and `_NO_FILE_OFFSET_CMDS` (two offset fields,
one, none). `CommandAccepted` and `SectionsFit` are the checks `macho.parse` makes
on every command before it reads it; the magic stands for the ELF class and for
the Mach-O filetype as well.

`EditApplier` is the state machine. `validate` and `apply` are sequential code,
and the order of their steps is what they get right or wrong:

| Action | Code |
|---|---|
| `Sort`, `CheckNeighbours`, `CheckRegions` | edits.py:68-110; `apply` validates the same plan a second time (context.py:165), with the same answer, which the model takes once |
| `SpliceSameLength`, `SameLengthDone` | context.py:175-181 |
| `SpliceGrowable` | context.py:178, 183-184, 196-202 |
| `RewriteStringPointers` | context.py:187, 237-255 |
| `InvalidateBytecode` | context.py:180, 188, 204-223 |
| `RewriteBunFraming` | context.py:189, 257-288 |
| `RewriteElfHeaders`, `RewriteMachOHeaders` | context.py:190-194, 290-432 |

`sorted` ends a run of `validate` in ascending order and is walked backwards for
the growables: offsets are distinct by then, so this is the order
`sorted(..., key=lambda e: -e.offset)` gives. `pc` ends in `done`, or in
`rejected`, `mismatch` or `refused` where the code raises.

`PatchedImage` states what the output must be **without** the applier's
arithmetic: it parses the output again, as Bun, the kernel or dyld would, and
compares with the input. It also names what the code takes for granted: `WellPlaced`,
how bun and a linker lay an image out, and `Anchored`, an edit as the documentation
describes it (`Described` is both, for all images and plans). `SampleImages` builds
small binaries in which every text cell has a value of its own.

### A whole run

`RunPatcher` is one run of the command, from the import of `patches.py` to the
exit status. It shares `EditApplier`'s variables: while `stage` is "apply" the run
takes `EditApplier`'s steps, on the plan the discover loop has put together.

| Action | Code |
|---|---|
| `LoadProvider`, `ImportDone` | patches.py:52-62, run at import by every command |
| `Inform`, `Misuse`, `BeginRun` | cli.py:215-253 and 281-293; argparse's own exit status 2 |
| `ReadSource` | cli.py:116-119 |
| `DiscoverPatch` (`DiscoverNothing`, `DiscoverUnexpected`, `DiscoverEdits`), `DiscoverRaises`, `DiscoverDone` | cli.py:124-158, the branches in their order |
| `ValidateAndApply`, `PlanFails` | cli.py:160-166 |
| `OpenOutput`, `FinishOutput`, `Finish` | cli.py:168-178, 56-57, 293-295 |
| `IOFails` | an `OSError` at any of the calls on files |

Providers are other packages, so `Discover` is a CONSTANT operator: the edits a
patch returns for an image. In the runs it is `Discovery!ReplaceAnchors`, a patch
that replaces every hit of `find_in_payload`, as the documentation shows it.

`Registry` has the order of entry points, the concatenation of their patches,
`expect_count` and the text under the cache key. `sorted()` is stable, so entry
points of one name stay in the order in which they were listed; `NamePlace` is the
resulting place.

`PatchRun` is the abstract specification: what a run promises whoever starts it.
It knows no images and no patches, only what was asked, whether all or some patches
matched, the state of the output path, and the exit status. `RunProperties` maps a
run to it (`Contract`).

### The brace walker

`BraceWalker` is the loop of `find_balanced_close`, an action per branch.
`BalancedText` states what it should find by a grammar of balanced text: two
recursive functions that give, for each position, where a string's inside or a
balanced text that ends there may begin. They have no counter and no flags in
common with the loop. Comments, regular expressions and `${}` are in neither: the
docstring leaves the last to the caller, and the first two are as unknown to the
code.

### The search

`FindBinary` is `find_claude_binary` with one action per look at the file system,
and the last step of `resolve_patched_binary`, which makes the cache's link lead
to a build or, after a fatal error, to the path the search gave.

| Action | Code |
|---|---|
| `CheckEnv` | launch.py:69-74: the variable's path is returned as it stands |
| `ListVersions` | launch.py:77-83, names in order, listed once |
| `CandidateMissing`, `CandidateExists`, `ResolveCandidate`, `ExamineCandidate` | launch.py:85-88 with 39-57; `exists` and `resolve` are two looks |
| `Which`, `WhichExists`, `WhichResolve`, `WhichFile`, `WhichExamine` | launch.py:90-104 |
| `Relink` | launch.py:185, 210-212 |
| `AddVersion`, `SwitchLink`, `DropLink`, `RestoreLink`, `RemoveOldest` | the installer, which is not part of the repository |

The installer keeps each version in a file of its own and a link to the current
one. It may switch the link by a rename or unlink it and link again, and removes
old versions in the order of their age, never the linked one. `is_file` and the
reading of the magic are one look in `ExamineCandidate`: a candidate that fails
either is passed over in the same way. `led`, `gap` and `removed` are history
variables for the properties.

### The cache

`LaunchCache` has one action per system call of `resolve_patched_binary` and of
the writing end of `run_patcher`, because nothing is locked and each call may be
the last of a killed process or fall between two calls of another. A *build* is
`<<source, engine, registry>>`; a key names a build, and a file holds the text of
a build or is `Torn`. Patching itself is the function `outcome`, constant in a
behaviour: the same input and code always match, partly match or fail. `fd` is
"orphan" when the file a launcher is writing was unlinked, so that the write goes
nowhere, as on POSIX. `key` is hashed by two actions (the binary, then the
package's sources), and the registry is what was loaded at import.

For the cache the search gives a value: `find_claude_binary` resolves links, so what
`src` is depends on how Claude Code
is installed: with `Versioned`, each version has a path of its own, a launcher that
has found one goes on reading that version, and the link may still lead to an older
one; without, the one path is overwritten in place. Old versions stay readable in
the model; when one is removed, reading it is an `IOError`.

`alone` and `abandoned` are history variables: they appear in properties only
and in no guard.

## 3. Bounds

The images have two modules, three text regions with text, one or two bytecode
caches, a gap, and an argv text before or behind the modules table. ELF images
have three sections and two segments, one of them holding `.bun`, with the
section table last (as linkers put it) or in front. Mach-O images have four
segments, a section without file offset, an LC_SYMTAB with one zero and one
non-zero offset, and padding that is tight, one page more, or not zero; the page
is 4 cells, so deltas of -2 .. 3 cells per edit fall below, on and above it.
Plans have up to three edits of 1 or 2 cells replaced by 0 to 4 cells at every
position of every text: all the ways in which edits, gaps and pointers can be in
front of, next to, on and behind one another occur with two, except what a chain
of neighbours is needed for, which is what the plans of three (on one image) are
for. They come with a set of edits the code must refuse: no region, the wrong
region, an escaped or unknown one, a wrong old text.

The images of `patch_run` have an anchor that occurs once, one that occurs twice (in
two modules), one three times in a row (so that a pattern of two of it overlaps
itself), one in argv, one that runs over a region's end, and one that does not
occur. `Counted` has each combination of a lower bound of 0, 2, 3, 4 and an upper
bound of 2, 3, 4 or none around the three occurrences, and no bounds. Registries have up to
two packages, of up to two patches, of up to three in all: what one patch can do to another
takes two, and a patch filed wrongly between two others takes three. The four broken
Mach-O images each fail one check.

The brace walker sees all texts of up to five characters over a letter, two
quotes, backslash and both braces, and of up to seven over one quote, backslash
and both braces, from two starting points and with limits in, at and behind the
end of the buffer. Five characters hold a string inside braces with an escape or
a quote of the other kind, seven a nested pair around a string with an escape.

The search has three versions whose names sort the newest but one first, as
1.0.9, 1.0.10 and 1.0.11 do, every value of the variable, five contents of
`$PATH`, and two searches (`MaxSearches`), of which the second may find the
cache's link left by the first. Three versions are what it takes for one to be
removed, one to be current and one to come.

The launcher runs have two launchers of two runs each and one or two upgrades;
`MaxRuns` and `MaxChanges` only cut behaviours short. Two launchers are enough for
any race between two steps; a third adds only a second competitor to the pruning
loop. `CHECK_DEADLOCK FALSE` is set in these configurations, and for the search, because
everyone may have used up its runs.

## 4. Runs

Passing runs:

| Run | Properties | Shows |
|---|---|---|
| `applier` | `AcceptedDisjoint`, `SplicesMatch` | comparing neighbours finds every overlap, and no splice disturbs a later one |
| | `SplicedInPlace` | after the splices each edit's new text lies where the edit was plus the growth in front of it, and all other text has moved by just that |
| | `RegionTexts`, `BytecodeFresh`, `FramingIntact` | for plans whose edits replace at least one cell and lie in one region, the output holds exactly the intended texts, no stale bytecode and a well-formed payload, in either container |
| | `ElfIntact`, `MachOLoadable` | the container around it is consistent. ELF: the ranges of sections and segments in the file hold what they held (virtual addresses and alignment are not modelled). Mach-O: file and memory ranges are those dyld wants, moved by the right amount, and a plan that would eat into non-zero padding is refused |
| `patch_run` | `ExitCodes`, `KeepsContract` | the exit status is true, and nothing touches the output path before the whole plan has been validated and applied in memory: a run implements `PatchRun` |
| | `FatalHasReason` | a run that can be done is done: it is fatal exactly for the reasons listed, and the splices of an accepted plan never fail |
| | `AllOrNothing`, `OutputHasMatchedPatches` | the plan, and the texts of the output, have the edits of exactly the patches that matched in an expected number |
| | `BrokenImagesRefused` | a Mach-O whose load commands contradict one another or are not all known is refused |
| | `RegistryIsStable`, `KeysTellRegistries` | the registry does not depend on the order of installation, and the hashed text tells registries apart |
| | `RunExits` | every run ends |
| `walker` | `FindsMatchingBrace`, `WalkEnds` | the walk finds the closing brace the grammar gives, and has no result (`None`, or the `IndexError` listed below) only if there is none before the limit; it ends on every text |
| `find_binary` | `FailsOnlyIfRemoved` | the search raises only if a version was removed meanwhile |
| | `FoundIsCurrent`, `FoundIsNoLink` | while the link is never missing, what is found is not older than the version current at the beginning, and is a file |
| | `ReturnedLinkLeads`, `SearchEnds` | the cache's link leads to a file unless the variable names that link; every search that has begun ends |
| `launch_overlap` | `TypeOK`, `UnfinishedHasWriter` | crashes, faults, upgrades and overlap: an unfinished file has an owner or was left by a killed launcher |
| | `FilesMatchKeys` | although versions of the binary are added and providers change under running launchers |
| `launch_solo` | `FilesMatchKeys`, `SoloRunsRightBinary`, `SoloNeverRaises` | overlap, kills, and upgrades between runs, in place and of cc-patcher too: files are what they are called; a run that meets no other, and none of whose system calls fails, returns the right binary and does not raise |
| `launch_ends` | `AtMostOneCached`, `RunsEnd` | without kills, one build is left at most; every run ends |

`applier` and `patch_run` also check type invariants, `TypeOK` and `RunTypeOK`. The plans of `applier` are those the
documentation describes: an anchor, at least one cell long, inside one region. TLC
evaluates `Described` on all of its images and plans (`AllAreDescribed`), so that the
proofs of section 5 which assume it speak of what this run shows, and of more.
The first three runs below use plans that `validate` accepts as well.

Runs that find the code in disagreement with its documentation:

| Run | Property | What happens |
|---|---|---|
| `argv_growth` | `LengthsBumped` | growing `compile_exec_argv` is accepted but its length is never changed, so the text's end is cut off (context.py:286) |
| `insertions` | `RegionTexts` | a pure insertion at the first character of a region moves the region behind it (context.py:233) |
| `straddles` | `BytecodeFresh` | a same-length edit that begins in front of a module's source and runs into it does not invalidate the module's bytecode (context.py:169) |
| `killed_while_writing` | `ReturnsUsable` | a torn file is a cache hit for ever after (cli.py:168, launch.py:171) |
| `partial_after_fatal` | `PartialNeverUnpatched` | after a fatal run a partial match runs the unpatched binary (launch.py:189) |

The model shows more that no run is spent on, because the reason can be read off
one guard or is that of a run above:

* an insertion behind the last character of a source is accepted
  (context.py:83) but touches no module (context.py:66), so the bytecode stays;
* `find_balanced_close` returns "None if unbalanced within `limit`" (context.py:96-98)
  only for a limit inside the buffer; with one behind it an unbalanced text ends in an
  `IndexError` (context.py:107, `self.buf[i]` with no look at its length). The
  states with `pc = "raised"` in the run `walker` are those;
* a same-length edit that begins in front of the modules table may end in it
  (context.py:93 looks at the first byte);
* text put in front of a repeated anchor escapes the Latin-1 check, which looks
  at the tail of `new` (edits.py:105);
* a second launcher takes the file the first is still writing for a hit, as it
  does a torn one;
* two launchers that relink at once may raise (launch.py:210-212);
  `SoloNeverRaises` is the part that holds;
* `FilesMatchKeys` needs a binary that is not overwritten, and a cc-patcher that
  is not upgraded, while a launcher runs: the binary is read once for the key and
  once for the build, and the key names the code on disk, not the code imported;
* a patch that expects no match (`0`, or `(0, None)`) and finds none is counted as
  missed, so the run ends with status 2 (cli.py:126 looks before 138), although
  patches.py:24-28 calls that number expected;
* misuse ends in argparse's status 2, which cli.py:7-10 reserves for a partial match;
* `--list-providers` cannot reach its "FAILED TO LOAD" (cli.py:250-251): the import
  of `patches.py` has loaded every provider before, and one that raises ends any
  command;
* two packages that choose one entry-point name are ordered by their installation
  (patches.py:49), so the order "stable across runs" differs between two machines
  with the same packages;
* an anchor that overlaps itself is reported at overlapping places
  (context.py:45-52), and a provider that replaces each of them makes the run fatal;
* `cc-patcher x x` loses the source when the write fails half way (cli.py:168);
* if the link is unlinked and made again between the looks of one search, the search
  may return the link itself, to be read twice, or a version that comes first by
  name (launch.py:42-43, 83); `FoundIsNoLink` and `FoundIsCurrent` are the part
  that holds;
* if `CLAUDE_CLI_PATH` names the cache's own link and patching is fatal, the link
  is made to lead to itself (launch.py:73, 185, 212); the next search passes it over;
* a build that failed, or fell back, is not remembered and is patched again by
  every launch.

### Fairness

`FairSpec` asks for weak fairness of each launcher's own program: it is
straight-line code over system calls that return, with one loop over a directory
listing that was taken before the loop. Crashes, upgrades, faults and the start
of runs are never obliged to happen.

`FairRunSpec` asks that the sequential code of one run goes on, stage by stage:
weak fairness of `Orchestrate`, everything between the steps of `EditApplier`, and of
`ValidateAndApply`. For `ReadSource` the same is said by `[]<>(stage # "read")`:
the action can be taken as long as the run is in that stage, so this is its weak
fairness, without having TLC parse the image again to evaluate ENABLED in each
state. `IOFails` is never obliged to happen. `BraceWalker` has weak fairness of its
one loop; `FindBinary` of `Search`, which is sequential code, and none of the installer or
of the beginning of a search: `SearchEnds` is about a search that has begun. The loop
over candidates ends because the list was taken before it. That a run ends rests on
each `discover()` returning: here it is one step. All other runs are safety runs without fairness.

## 5. Proofs

`tlapm` checks these for every value of the constants.

* **`AcceptedPlansAreDisjoint`** and **`MatchingPlansSplice`** (`EditApplierProofs`),
  for all images and plans, from `ImagesAssumption` and `PlansAssumption` (images
  and plans are sequences; nothing is assumed of what an edit says). `AcceptedDisjoint`
  is not inductive: `OrderInv` adds that `sorted` is the plan in an order
  `sorted()` can produce and that the loop has found no conflict behind itself.
  `SortedDisjoint` then needs no induction over the plan, since an edit ends before
  its neighbour begins and its neighbour begins before everything later.
  `SpliceInv` says that whatever is still to be spliced finds its text: in the first
  loop a same-length splice moves nothing (`MatchesBeside`), in the second a splice
  leaves everything in front of it (`MatchesBefore`), and both rest on
  `SpliceCells`, what a splice does to each cell.
* **`EditsSplicedInPlace`** (`EditApplierProofs`), from the same assumptions and no
  others: `SplicedInPlace` for every image and every accepted plan that splices. The
  invariant `PlaceInv` describes the half-spliced buffer: cells in front of what has
  been spliced are where they were, those behind have moved by the sum of the deltas
  of the edits that are spliced and lie in front of them, and the same-length texts
  have been replaced on the spot (`Settled`). What a splice adds to the sums follows by
  induction over a set of edits (`SetInduction`); that each edit is spliced in exactly
  one of the two loops, and that nothing is spliced twice, by the order of `sorted`.
* **`NoStaleBytecode`**, **`PointersNameTheirTexts`**, **`FramingStaysIntact`**, **`ElfStaysIntact`**,
  **`MachOStaysLoadable`** and **`AlwaysTyped`** (`PatchedImageProofs`), from the assumption
  `Described`. It says of the
  images: texts lie side by side in front of the modules table and that in front of
  the Offsets struct; the tables of the container overlap neither each other nor
  `.bun`, the program table is in front of it; ELF sections lie in the file, beside `.bun`
  and the tables, and a segment has all of `.bun` or nothing; a Mach-O is one dyld loads
  (`Mapped`: segments on page boundaries that follow one another up to the end of the
  file), has one `__BUN` segment with one `__bun` section and the other segments beside it,
  sections lie in their segments and behind the load commands, and no file offset in
  the commands points into `.bun` or the commands (`MachOPartsPlaced`). And of the edits:
  each replaces at least one cell, in one region, and
  does not resize argv. Nothing is assumed of how many modules, sections, segments,
  commands or edits there are, or of what the texts say. The assumption on edits is
  needed: `insertions`, `straddles` and `argv_growth` break the same properties without.

  The proof follows the output through the program and then through a reader.
  `PhaseInv` says after each rewriting step which cell holds what: `TextsAre`, for the
  texts and the cells in between, from `SplicedInPlace`; `PointersAre`, for every slot of every
  module record; `FramingIs`, for the prefix and the Offsets struct; and `Kept`, for the
  cells outside. It is inductive because no two writes of a step hit one cell
  (`SlotsDiffer`, `ElfWritesApart`) and no step hits what an earlier one wrote. Then
  `ElfReparsed` and `MachOReparsed` read the headers again and find `.bun` where it was, and
  `BunReparsed` reads the payload: `Rebuilt` is what Bun sees. `TextWritten` gives the text
  between any two positions that lie inside no edit as the flattened sequence of what each
  old cell became, by induction over the stretch (`LaidOut`, `FlattenIs`); a region's
  bounds are such positions, and its new pointer names just the stretch
  (`RegionMoves`, `RegionGrows`: the lengths the edits declare add up to what
  `_shift_past` gives at its two ends). For the ELF container `SectionKept` finds the cells of
  every other section, and `HoldingKept` goes through the ways in which a segment and a
  section can lie to `.bun`. `AlwaysTyped` has the splices by hand and the rewritten
  buffer from `PhaseInv`.

  For the Mach-O container the load commands are followed cell by cell: each is kept,
  moved by what `Grow` adds, or is the new size of `__bun` (`HeaderCells`). `RepadTail` and
  `FileOut` say what lies behind the payload: zeros up to a page boundary, then the rest of
  the input. That `Grow` adds whole pages and enough of them is `GrowsEnough` and
  `PagesAdd`; so segments stay on page boundaries and the chain of segments is still
  closed (`SegmentsMoved`, `StillFollows`, `StillLast`), the sections keep their cells
  (`SectionsPlaced`) and the offsets their targets (`FieldsPlaced`). `SegmentsAreReread`
  finds all of that in the output, parsed again.
* **`CacheWellTyped`** and **`UnfinishedFilesHaveWriters`** (`LaunchCacheProofs`), for any
  number of launchers, contents and installations, from `PathsAssumption` (a key is
  not the source's path, `Torn` is not a build) and `ConstantsAssumption`. Typing
  needs that an open file exists (`OpenInv`). `UnfinishedHasWriter` is not inductive:
  a file may owe its text to one launcher and its mode to another, and a launcher
  whose file was unlinked completes neither, so `OwnerInv` keeps the two debts apart.
* **`OneBuildIsLeft`** (`LaunchCacheProofs`), if no launcher is killed (`~Crashes`, the
  setting in which the run checks `AtMostOneCached` too; a kill can leave any number of
  files). `ExtraInv`: of any two files in the cache one is on the list of a launcher
  that will still unlink it. It survives every overlap, because a launcher lists the
  directory only after it has made its own file.
* **`CachedFilesMatchKeys`** (`LaunchCacheProofs`), under the assumption `Steady`:
  nothing is installed under a running launcher, or what is installed is a version
  of the binary with a path of its own, or a provider. `KeyInv` follows what a
  launcher has hashed (`KeyAhead`) to what it writes; `Contents(src[p])`, what it
  would read now, cannot change for either reason.
* **`AloneNeverRaises`** (`LaunchCacheProofs`): a launcher that has been alone since it
  started knows the link it looked at is still there (`LinkKnown`). A step of another
  launcher would have been preceded by its start, which ends `alone`.
* **`AloneRunsRightBinary`** (`LaunchCacheProofs`), under `QuietChanges` (installations
  fall between runs) and `~Faults` (no system call fails; one that does takes the
  launcher down another path, which `partial_after_fatal` shows). `NoFatalInv`: no file in
  the cache is under the key of a build that cannot succeed, so a hit is never one.
  `RightInv` follows the lone launcher from the lookup to the link and to what it
  returns.

* **`EntryPointsSorted`** and **`InstallationOrderIrrelevant`** (`RegistryProofs`), for any
  list of entry points: places are a bijection (`PlacesDiffer`, `PlacesFilled`: an
  injection of a finite set into itself is onto), so each entry point is listed
  once, by name; with distinct names the place depends on the name alone.
* **`KeyTextTellsKeys`** (`RegistryProofs`): two registries, of any length, whose key
  texts are one have the same keys in the same order, if no key has a line end in it:
  the first line end tells where the first key ends, and so on.
* **`RegistryAlwaysStable`**, **`KeysAlwaysTellRegistries`** (`RunPatcherProofs`): the same
  two facts of the registry a run has loaded. The first needs that a concatenation is
  fixed by its parts (`Flatten...` in `Induction`).
* **`RunKeepsContract`** (`RunPatcherProofs`): refinement, for every image, every set of
  providers and whatever their patches find. `ControlInv` ties the stage to the
  output path and to `EditApplier`'s `pc`.
* **`RunTypes`**, **`ExitCodesTrue`**, **`PatchesAllOrNothing`**, **`FatalRunsHaveReason`**
  (`RunPatcherProofs`). `LoopInv` says that the results so far are those of the patches
  so far, filed under applied if and only if the patch `Matched`. `PlanInv` says that
  the plan's places and the emissions of the matched patches correspond one to one:
  a set of edits would not do, since two patches may emit equal edits, which is a
  conflict. `ApplyInv` carries the invariants of `EditApplierProofs` along and
  records why a verdict was given: "rejected" is a conflict or a bad region among
  the emissions, "mismatch" does not occur, "refused" is a Mach-O. They assume
  `EnvironmentsAssumption`, `PatchesAssumption` and `DiscoverAssumption` (types) and,
  for the last, `OldTextAssumption`: a patch gives as the old text what it found.
* **`OutputsArePatched`** (`RunPatcherProofs`): `OutputHasMatchedPatches`, which brings the
  two halves together. When the discover loop is done, the plan holds the emissions of
  the matched patches (`PlanInv`), so it is a plan as `PatchedImageProofs` wants it
  (`PlanIsDescribed`), and its invariant `AppliedInv` holds from there on through validate and
  apply to the file that is written (`OutputInv`); `PatchedIsReadBack` and `TextsRewritten` read
  that file. It assumes `FoundAsDescribed`: images as in `Described`, and patches whose
  edits lie in the texts unless `validate` refuses them anyway. `MCPatchRun` has TLC
  evaluate it (`PatchesAreDescribed`), with patches whose anchors straddle a text's end.
* **`SearchFails`**, **`FindsCurrent`**, **`FindsNoLink`**, **`LinkLeads`** (`FindBinaryProofs`), for
  any number of versions with any order of names, and any `$PATH`. `FileInv`: there is
  always a newest version, and the link leads to one that is there or is missing.
  `LedInv`: what the link led to since the search began is still there or is older
  than all that is (`OutlivedStays`). `LastInv`: until something is removed the last
  candidate of the list is a version that is there, so the loop cannot run out.
  `CurrentInv`: until the link's target was replaced and removed, the link is the
  candidate at hand. `HandInv` and `ThereInv` follow what was resolved to the path
  that is returned.

* **`WalkFindsTheBrace`** (`BraceWalkerProofs`): for every text,
  start and limit, the walk and the grammar agree, and a walk that raises has passed no
  brace that closes. The loop is first read as a
  function of the position (`Run`, the state after n characters from any state). Then
  both directions by induction over the text: what the grammar calls a string or a
  balanced text is walked through with depth and flags as before (`BodyRead`,
  `BalancedRead`), and what is walked through so, without falling below its depth, is one
  in the grammar (`ReadBody`, `ReadBalanced`). `WalkInv` ties the loop's variables to `Run`.

The library states induction with an operator as a parameter, which the provers
cannot instantiate. `Induction` states it with a set: a set that has the first of some
numbers and each one's successor has them all (`UpToInduction`), a non-empty family
of finite sets has a minimal one (`MinimalSet`), and a family of subsets closed under
adding an element has them all (`SetInduction`). All three rest on the library's
`WFMin`.

Model-checked only: `BrokenImagesRefused`, which is about the sample images, and every
liveness property (`RunsEnd`, `RunExits`, `WalkEnds`, `SearchEnds`), which the installed
provers cannot reach. Every other property of a passing run is proved.

## 6. What is not modelled

* `find_regex_in_payload`: a call of Python's `re` on the payload.
* What providers do in `discover()`, beyond the list of edits they return: `Discover`
  is a constant. A provider that writes to `ctx.buf` is outside the model: the
  module docstring of `context.py` (lines 19-21) has providers read the buffer during
  discovery and the applier do the writing.
* The composition of `FindBinary` and `LaunchCache`: the cache takes the path the
  search gives as a value, outside its own directory. A build inside the cache
  that the variable names, which would be patched again, is in neither.
* What the program that `launch` executes does.
* Where in memory an ELF segment goes: `p_vaddr` and `p_align` are neither read nor
  written by the code. In the sample ELF images `.data` has a segment behind `.bun` that
  moves in the file by the plan's delta, which need be no multiple of its alignment;
  whether a kernel still maps it, the model does not say.
* Symbolic links on the way to the cache: launch.py:189-190 and 205 compare a resolved
  path with one that need not be, which differs if the home directory is a link. In
  `LaunchCache` every path is a resolved one.
* A Mach-O with two segments called `__BUN`: the code takes the first, and
  `MachOPartsPlaced` has one.
* In `FindBinary`, the fallback to the previous build, and builds that are pruned: both
  are in `LaunchCache`.
* `_codesign` and `_capture_version`, which run other programs. The cache model
  is that of an ELF host, where `run_patcher` ends with `copymode`.
* Field widths: offsets of real binaries are far below 2^32. SHA-256 is taken to
  be injective.
* `diagnostics.py`, printing, `__main__.py`.

## 7. Plan

1. Done: the image and the applier (`BunImage`, `Edits`, `ElfLayout`, `MachOLayout`,
   `EditApplier`, `PatchedImage`), the cache (`LaunchCache`), whole runs and the registry
   (`RunPatcher`, `Registry`, `Discovery`) with the abstract specification `PatchRun`,
   the brace walker, the search (`FindBinary`), and the proofs of section 5.
2. Abstract specifications: `PatchText` (an atomic rewriting of all regions),
   implemented by `EditApplier`; `CacheContract` (a run returns a complete build
   of what is installed, or the source), implemented by `LaunchCache` for
   runs that do not overlap.
3. `FindBinary` composed with `LaunchCache`, with a source path inside the cache.
