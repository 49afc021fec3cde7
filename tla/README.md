# A verification project for refs-forensic

`refs-core` reads a ReFS v3 volume from one immutable byte slice; `refs-forensic` audits such an
image and carves residue from it. Both are single-threaded Rust libraries that must stay correct
on images that are truncated, torn, relocated, cyclic or simply lying. The hard part is not
concurrency but *evidence*: the readers infer where pages are from the pages themselves, and then
trust the inference. This directory models that reasoning in TLA+, checks it with TLC on small
instances and proves with TLAPS, for every image, every safety invariant the runs check.

## 1. Inventory

| Component (source) | State it keeps | Operations | Hard behaviour | What makes it correct |
|---|---|---|---|---|
| Container resolver (`core/src/container.rs`) | `base`: container -> physical base cluster, filled once | `decompose_virtual_block`, `from_resident_image`, `resolve_virtual`, `resolve_virtual_checked` | witnesses that contradict each other; underflow, zero band | the map is that of the lowest consistent witness; agreeing pages are found where they sit |
| Container table (`container.rs:55-170`) | parsed rows | `parse`, `records`, `physical_base`, `cluster_count` | rows that hold one of the two fields and not the other; nothing in the crates resolves through it | where a band is and how long it is come from one complete row |
| Block resolution (`core/src/directory.rs:233-339`) | none | `resident_block_offset`, `page_answers_block`, `resolve_block_offset`, `read_page` | two strategies, two candidates, a stale or wrong page at the answer | the self-block round trip; only contradiction hides a page |
| Tree walk (`directory.rs:341-393, 444-472`) | `visited`, `out`, the call stack | `descend`, `walk_directory` | cycles, shared children, caps, one unreadable child among many | bounded; every leaf once; errors genuine; an `Ok` is closed |
| Object table and paths (`minstore.rs:207-261`, `directory.rs:250-268, 423-502`) | none | `ObjectTable::parse`, `lookup`, `object_table`, `list_dir`, `find_by_path` | an unreachable page reads as an absent file | `None` and each error mean what they say |
| Minstore page (`minstore.rs:88-198`) | parsed header | `parse`, `rows`, `row` | every offset and count comes from the page | every row is inside the slice, whatever the header says |
| Entry decoding (`directory.rs:112-231, 395-421`) | none | `parse_directory`, `collect_entries`, `parse_metadata`, `decode_utf16le` | a page cut anywhere; values of any declared length; unpaired surrogates | a cut page reads as the whole one less the rows that are not all there; a name is lost only where a U+FFFD shows it |
| Residue recovery (`forensic/src/lib.rs:502-680`) | `current` version, `stale` list | `recover_residue`, `resident_msb_pages`, `carve_directory_entries` | any history of allocate-on-write updates, torn ones included | dropped names never missed; the mapped page never surfaced after a completed update |
| Image audit (`forensic/src/lib.rs:320-451`) | list of anomalies | `audit_image`, `check_checkpoints`, `sweep_resident_self_blocks` | an image that may end at any byte | exact sweep, no verdict from what is not there |
| Boot record, superblock, metadata block, checkpoint (`boot.rs`, `superblock.rs`, `metablock.rs`, `checkpoint.rs`) | parsed fields | `BootSector::parse`, `require_v3`, `Superblock::parse_at`, `MetadataBlockRef::parse`, `MetaBlock::parse`, `locations_from_superblock` | two parsers of one header want 40 and 80 bytes, the audit has a third reader; every error counts from its own offset | what is accepted in a short image holds in every longer one; `Truncated` says what is missing |
| CRC audit (`metablock.rs:134-153`, `lib.rs:468-483`) | none | `verify_crc32c`, `audit_crc_range` | a range partly past the end | a verdict only on bytes that are there |
| Byte readers (`bytes.rs`) | none | `le_u16`, `le_u32`, `le_u64` | zero past the end | modelled inside each reader that uses them |
| Finding reports, fuzz targets, fixtures | none | `severity`, `code`, `note`, `audit_findings` | none | - |

The components interact by calls only, all on the caller's thread:

    find_by_path -> list_dir -> object_table -> ObjectTable::lookup -> MinstorePage::row
                        \-> walk_directory -> ContainerResolver::from_resident_image   (once)
                                  \-> descend -> read_page -> resolve_block_offset
                                                     -> resolve_virtual | resident_block_offset
    recover_residue -> resident_msb_pages -> carve_directory_entries -> MinstorePage::rows
    audit_image -> BootSector::parse -> check_checkpoints -> sweep_resident_self_blocks
    (a caller)  -> BootSector::parse, require_v3, Superblock::parse_at, MetaBlock::parse,
                   locations_from_superblock, then any of the above on the same image

There is no shared state, no callback and no thread, so nothing interleaves *inside* the crates.
The one real concurrency is in the past: the ReFS driver wrote the medium, and a crash may have
stopped it at any point. `CowVolume` models that writer; it is composed with the residue scan.
Crash recovery, retries and timeouts do not occur in the crates themselves.

`PROJECT.json` lists the components with their status and every hazard at its line.

## 2. Modules

| Module | Models | Used by |
|---|---|---|
| `RefsImage` | what an image is to the readers: cluster -> page, which pages fit | the scan, the walk and the residue modules |
| `ContainerBase` | block arithmetic, the map of lowest witnesses (pure), `resolve_virtual` | below |
| `ContainerResolver` | `from_resident_image`, one step per cluster | its proofs, `MCContainerResolver` |
| `BlockResolution` | the resolution strategies and the round trip (pure) | `DirectoryWalk` |
| `PageTree` | what is reachable, readable, a leaf (pure, no order) | `TreeListing`, `DirectoryWalk` |
| `TreeListing` | the *abstract* specification of listing a directory: one answer, given once | refined by `DirectoryWalk` |
| `DirectoryWalk` | `walk_directory` and the recursion of `descend`, call stack explicit | its proofs, `MCDirectoryWalk` |
| `CowVolume` | the external allocate-on-write driver, with torn updates and a second directory | `ResidueRecovery` |
| `ResidueScan` | the two passes of `recover_residue`; what is surfaced of a page is the set of its names | its proofs, `MCResidueScan`, `ResidueRecovery` |
| `ResidueRecovery` | composition: any history of `CowVolume`, then `ResidueScan` on its medium | its proofs |
| `VolumeHeaders` | the medium as the header parsers see it, and what each of them answers for an image of any length (pure) | below |
| `VolumeOpening` | a caller opening a volume: the parsers in order, the first error ending it | `Examination` |
| `ImageAudit` | `audit_image`, stage by stage, on an image of any length; `audit_crc_range` | `Examination` |
| `Examination` | composition: the image is opened, then audited | its proofs, `MCImageAudit` |
| `MinstorePage` | the bounds arithmetic of a Minstore node over any slice, object-table rows (pure) | `RowReaders`, `PathLookup` |
| `RowReaders` | what `collect_entries`, the branch rows of `descend`, `ContainerTable` and `ObjectTable` make of one row; UTF-16 decoding (pure) | `PageRows`, `MCPathLookup` |
| `PageRows` | the row loop of each of the four readers over a page cut at any byte | its proofs, `MCPageRows` |
| `PathLookup` | `find_by_path`, with `list_dir`, `object_table` and the row loop of `lookup` under it | its proofs, `MCPathLookup` |
| `ContainerBaseProofs`, `ContainerResolverProofs`, `DirectoryWalkProofs`, `PathLookupProofs`, `ResidueScanProofs`, `ResidueRecoveryProofs`, `ExaminationProofs`, `PageRowsProofs` | theorems about the module of that name | - |

**State.** A byte offset that the code reaches is a multiple of 4096, so it is a cluster number
here (`RefsImage`). A page keeps only what is read of it: self-block, table identifier, whether
`MinstorePage::parse` accepts it, the branch flag, the child block of each row, the entries it
decodes to. `image.get(..)`-style bounds checks are `Fits`. The header and
audit modules are about where the image *ends*, so they count bytes, in a scaled layout whose sizes
are constants. `MinstorePage` is about
positions the page itself supplies: a slice is its length and the value of each field position, in
the code's own byte layout, the values at different positions independent of each other (so every
byte slice is covered). `RowReaders` continues it into the fields of a row; a name is a sequence of
code units on the page and of code points, U+FFFD among them, once decoded. `PathLookup` takes the
answer of `walk_directory` for a root block as given; `TreeListing` says what that answer may be, and
`MCPathLookup` takes some of the listings from leaf pages that `RowReaders` decodes.

**Actions.** A loop body is an action per way through it (`LearnBase`, `KeepFirst`,
`SkipInconsistent`, ...); an early return is an action (`ZeroBand`, `EnterCapped`, `EnterSeen`);
the `?` operator is one action that drops the stack and the entries (`EnterUnresolved`). In
`DirectoryWalk`, `call` is the block `descend` was just called with and `stack` holds the open
`for row` loops, so `Len(stack)` is the `depth` argument. `root`, `tree` and `cut` are history
variables: no action reads them to decide a step. So are `whole` in `PageRows` (the page the bytes were
cut from) and `torn` in `CowVolume`.

Operators whose name extends another with a lower-case suffix (`AtCap_deep`, `Dropped_kept`)
are seeded faults: the same definition with a plausible bug. `PROJECT.json` pairs each
property with one that must break it. They take no part in any specification.

## 3. Runs

| Run | Question | Bounds |
|---|---|---|
| `container_scan` | does the scan build the map of lowest witnesses and find every agreed page? | all images of 5 clusters, 2-cluster pages, 6 self-blocks, bands 0, 2, 3, 6 |
| `directory_walk` | is the walk bounded, exact, honest, and an implementation of `TreeListing`? | 4 clusters, 14 root rows, 9 kinds of page elsewhere, depth 2, 3 pages |
| `residue_scan` | do the two passes surface exactly the superseded names? | 5 clusters, numbers 1-3 of the root table, another table, a malformed page, a branch |
| `residue_recovery` | is residue right after any history of updates, and what does a torn one cost? | 5 clusters, block numbers below 6, 2 names, a root directory of 1 or 2 leaves and another directory with names of the same |
| `image_audit` | are errors and verdicts exact, never about bytes that are not there, and do readers and audit agree? | 6 clusters, band 4, cluster sizes 0, 2, 4, 8, 9 to a page of 4, every length |
| `path_lookup` | does a path lookup stay in the slice, list the right tree and answer what the path means? | three-row object tables cut at 12 lengths with lying headers; two directories, some of their listings decoded from leaf pages; paths to length 3 |
| `page_rows` | does a cut page read as the whole one less what is not there? | two 200-byte records of every kind, three slot arrangements, cuts where each slot, record, key, value and field ends |
| `walk_truncates` | is a listing never silently truncated? (no) | as `directory_walk` |
| `walk_no_fallback` | is the low mapping a fallback? (no) | 6 clusters |
| `residue_two_leaves` | is a live name never carved? (no) | as `residue_recovery` |
| `audit_relocated` | is a clean image quiet? (no) | as `image_audit` |
| `audit_ungated` | is a volume of another version left alone? (no) | as `image_audit` |

What the passing ones show:

* `container_scan`: `BaseIsFirstWitness` ties the loop to the pure map at every step, which is why
  `DirectoryWalk` may use `ResidentBase` for the whole constructor. `AgreementResolves` is what the
  module documentation calls ground truth, made precise: if the pages of a container agree, each
  is found where it sits. `OnePageMovesOneContainer` compares each scan with the scan of the same image
  less one page: a stale, relocated or lying page moves at most the container it records, and only
  as its lowest witness. `ResolvedNearImage`: nothing resolves a band or more past the end of the image.
* `directory_walk`: `WalkBounded` (caps, no page twice, no loop nested in itself),
  `ListingFollowsVisits` (each visited leaf once, nothing fabricated), `OkIsClosed` (an `Ok` has
  been everywhere except where a cap refused), `UnresolvedIsGenuine` and `AgreedPagesAreFound` (an
  error is a real wall, and only contradictory self-blocks can hide a resident page),
  `PagesVisitedOnce` (the visited set holds block numbers, the documentation speaks of physical blocks:
  the round trip keeps two numbers from reading one page, also when the band is wrong for the volume),
  `ImplementsListing` (`Listed == INSTANCE TreeListing WITH ...`: every step of the walk is a step of
  the abstract specification or a stutter, the answer included), `WalkReturns`.
* `residue_scan`: `CurrentIsHighest` and `ResidueIsExact` hold on *any* image, well-formed or not.
* `residue_recovery`: on images a real history produces, `DroppedNamesRecovered` (nothing dropped
  and still on the medium is missed) and `MappedNeverStale` (the page the object table maps is not
  surfaced; of several leaves below it a live one may be), once the last update completed; and
  `TornSurfacesOneName`: with a single leaf no live name is surfaced, and a torn update, however many
  were torn before it, costs at most one.
* `image_audit`: of the opening, `ReadingOutlastsTheImage` (a header or checksum verdict from a short
  image is the one any longer image gives) and `TruncatedNamesWhatIsMissing` (`need` and `have` count
  from the same place); of the audit, `SweepIsExact` states the sweep without the loop,
  `CheckpointVerdictIsReal` and `OneVerdictOnRejection` are about reading past the end, and
  `CleanSliceIsQuiet`, with the driver's own container size as `Band`, is the strongest form of "a clean image yields an empty vector" that holds; of
  both, `AuditAgreesWithReaders`: the audit, which reads the superblock with code of its own, does not
  contradict the parsers, but for the superblock that is cut short. `AuditReturns`.
* `path_lookup`: `LookupReadsInside` (no slot tried and no field answered with is a zero read past
  the end, whatever the header claims), `RootIsRegistered` (the tree walked belongs to the first
  complete row of the identifier, at every component, with nothing left over from the one before),
  `AnswerIsPathMeaning` (the answer is what the path means, stated with no lookup in sight; `None`
  exactly when it leads nowhere, a directory that cannot be listed included), `FindReturns`.
* `page_rows`: `CutReadsSame` (no field is made up from a cut or taken from after its row, and no row
  costs another; hence the object table, read in a slice to the end of the image, reads as its page
  when its slots and rows lie in it), `PlacementIsOneRecord` (the two searches of a band answer from
  one row), `NamesCollideVisibly` (two names decode to one only with a U+FFFD in it).

**Why the bounds are enough.** Five clusters hold two witnesses of one container and one of
another, in either order, with one page that overruns the image. Three pages and depth 2 let both
caps bite alone and together, and a cycle, a shared child, a repeated row and a short row all
occur under them. Five clusters let an update reuse the cluster of a page two versions old while
the previous version is still there; the second directory's one page takes block numbers above the root's
and clusters from it, its updates complete or torn, which is what the table filter of the scan is for. The audit instance makes a page half a cluster, a cluster and
two clusters long, and lets the image end inside every header field; every boot record meets one
superblock, every superblock one boot record, and every placement of two pages the sound ones. The lookup instance ends the
table before, inside and after the node header, the slots and each record, lets the claimed count
and both offsets lie, and orders complete rows, short rows and duplicates in every way; three
components are enough to come back to a directory and go on from it. Two records are enough for `page_rows`
because rows meet only through the slots: one record after the other, before it, twice, or a slot that
leads nowhere; the declared lengths sit at and just below each threshold of the four readers.

**Bounds by name.** `Clusters`, `PageClusters`, `MaxCluster` (overflow limit), `MaxDepth`,
`MaxVisited`, `MaxBlock` (updates stop), `MaxLen`, `MediumClusters`,
`MaxCheckpoints`. All but three stand for constants of the code or for the size
of the input; `MaxBlock`, `MaxLen` and `MediumClusters` exist for model checking.

**Fairness.** `ContainerResolver`, `DirectoryWalk`, `PathLookup`, `Examination` and `ResidueScan` assume
`WF_vars(Next)`: each is one loop or recursion on the caller's thread, which waits for nothing, so
an enabled step is taken. Liveness then says the call returns, on every image. `ResidueRecovery`
assumes none: the driver may stop writing at any time, and only safety is stated of it; of `PageRows`, a bounded count, too.
`CHECK_DEADLOCK FALSE` is set where the modelled call returns and nothing follows.

## 4. Findings

Each is a run that TLC refutes; the quoted lines are in `PROJECT.json`.

* `walk_truncates`: a cap makes `descend` answer `Ok(())`, so a listing may be partial with no sign.
* `walk_no_fallback`: `resident_block_offset` returns the first candidate that *fits*. As
  `block - 65536` fits whenever `block` does, the documented low fallback is dead code.
* `residue_two_leaves`: with two leaves an update writes the leaf and then the branch page above it, which has
  the highest number and no names, so it is taken for the current version and the live leaves, the
  one just written included, are carved as stale. (In the trace that leaf holds the only name.)
* `audit_relocated`: on a clean image longer than one band, pages of a relocated container are flagged.
* `audit_ungated`: `audit_image` never asks for the version, so a v1 volume is judged by the v3 layout.

Noted without a run:

* After a torn update the orphan page has the highest number and is taken for current, so the page the
  object table still maps is carved as stale; `forensic/src/lib.rs:527-529` takes the highest number for the
  current version without that case. `TornSurfacesOneName` bounds what it costs.
* An image that ends 4 to 39 bytes into the superblock gets a self-block verdict with `recorded` 0, read
  past the end; `AuditAgreesWithReaders` names this as the one case where readers and audit differ.
  One that ends inside the signature makes `parse_at` answer `BadBlockSignature` with zero bytes as found.
* A directory entry whose value is too short for an object identifier is given identifier 0.
* The checkpoint anomaly is documented as copies that disagree; only a superblock that names none is found.
* `object_table` hands `MinstorePage::parse` everything from cluster 56 to the end of the image, not one
  page; `CutReadsSame` says when that makes no difference. Its branch pages are not descended.
* `core/src/directory.rs:82-83` tells callers to pass their own resolver to `walk_directory`, which takes
  none and uses the default band.

## 5. Proofs

TLAPS checks these for every value of the constants that satisfies the named assumptions; TLC evaluates
the same assumptions on each instance. They say that sizes, caps and numbers are naturals, those
the code divides by above zero (`SizesAssumption`, `MaxClusterAssumption`, `AddressingAssumption`,
`AuditAssumption`), that the fields of a header end in the order they do (`HeadersAssumption`), that the
inputs are ones the program can be given (`ScanAssumption`, `WalkAssumption`, `LookupAssumption`,
`ResidueAssumption`, `RowsAssumption`: an image is a function from clusters to pages, a slice is a length and
fields) and that the marks for *no page* and *no current version* are neither (`NoPageAssumption`,
`NothingAssumption`, `NoneAssumption`). None is about what an image holds. Of the external driver
`VolumeAssumption` and `PlaceAssumption` say that names are finitely many, a page is one place, and a new
volume has places to spare for an update.

* **`ContainerBaseProofs`**: lemmas about the operators: a decomposed block recomposes, an implied base
  is a cluster, the least witness exists and is unique, `ResidentBase` is well typed, and agreement
  makes `ResolveVirtual` exact (`AgreedWitnessResolves`).
* **`ContainerResolverProofs`**: `ScanTypeCorrect`, `ScanFindsFirstWitness`,
  `ScanResolvesNearImage`, `ScanAgreementResolves`, `ScanConfinesDamage`. The inductive invariant
  is that the map under construction is `BaseBelow(image, band, c)`, with two facts that are lost
  otherwise: the loop is never past the end, and `done` is set with `c` at the end or at the first
  page that does not fit, so the clusters not inspected hold no witness.
  `ScanConfinesDamage` compares two images: the lowest witness of a container is still the lowest once another page is gone.
* **`DirectoryWalkProofs`**: `WalkTypeCorrect`, `WalkStaysBounded`, `WalkErrorsAreGenuine`,
  `WalkFindsAgreedPages`, `WalkOkIsClosed`, `WalkVisitsPagesOnce`, `WalkListsVisitedLeaves`. None is
  inductive alone. The strengthenings: the open
  pages are visited branch pages, each with a next row at most one past its last (*Open*); a
  block about to be entered is the root or a child of a visited page (*Led*); every visited page
  was read, and every row of a visited branch page is visited, refused by a cap, being entered, or
  still ahead of its open loop (*Closed*). When the stack empties nothing is ahead, which is
  `OkIsClosed`. `WalkFindsAgreedPages` is the scan's agreement lemma carried into the walk.
  `WalkVisitsPagesOnce` needs no strengthening: by the lemma *ResolvedPageAnswers* a block resolves only
  to a page that records it, so two visited blocks at one cluster are one block, and `WalkBounded` has it
  visited once. `WalkListsVisitedLeaves` rests on *FlattenAppend*: what one more visit adds to the
  flattened listing.
* **`PathLookupProofs`**: `CapacityFits`, `SlotInside` and `AnswerInside` are about the arithmetic
  alone, for every slice; on them rest `LookupTypeCorrect`, `LookupStaysInside` and
  `LookupFindsFirstRow`. The last needs to know that no row already passed answers (*RowsPassed*)
  and that the table being read was there (*TableOpen*). `LookupAnswersTheMeaning` adds that the
  components before the current one lead to the directory being listed (*InItsDirectory*) and that a
  listing taken is the meaning of that directory (*ListedIsListing*).
* **`ResidueScanProofs`**: `ResidueTypeCorrect`, `ResidueJudgesByHighest`, `ResidueSurfacesExactly`, on any
  image. The invariant: in pass 1 `current` is the current version of the clusters passed, `Nothing`
  when no root page is among them; from pass 2 on it is that of the image, and `out` lists, in order and
  once each, the stale pages among the clusters passed.
* **`ResidueRecoveryProofs`**: `MappedPageIsNeverStale`, `TornUpdateSurfacesOneName`,
  `DroppedNamesAreRecovered`, after any number of updates, each of them complete or torn. They need the
  volume's own invariant: block numbers are handed out once (*BlocksFresh*), the live pages are root pages
  on the medium (*TreeLive*), what an update wrote last is numbered above every root page
  (*UpdateHighest*) and so is the mapped page when it completed (*MappedHighest*), and, for one leaf, a root
  page numbered above the mapped one lacks at most one of the live names (*OrphansClose*): that is why any number
  of torn updates costs one name. The scan's invariant is reused by `INSTANCE`.
* **`ExaminationProofs`**: `ExaminationTypeCorrect`, `ReadingsOutlastTheImage`,
  `TruncationsNameWhatIsMissing`, `RejectionIsOneVerdict`, `SweepFlagsExactly`, `CheckpointVerdictsAreReal`,
  `CleanSlicesAreQuiet`, `AuditAndReadersAgree`, for every layout of the headers, page size and cluster
  size. Opening: every header read so far was accepted, and the refusal, if any, is that of the next
  one; each parser is shown monotone in the length. Audit: per stage, which tests have passed and which verdicts may be in
  `out` (*Staged*, *Verdicts*), and in the sweep, that the flagged clusters are the misplaced ones
  below `at` (*Swept*); that stopping at the first page past the image loses none is a fact about
  whole pages, proved apart.
* **`PageRowsProofs`**: `RowsTypeCorrect`, `CutPagesReadTheSame`, `BandsArePlacedByOneRecord`, `LostNamesShow`,
  for every page, cut and reader. The invariant counts: `out` has one row for each used row passed, in
  order (*Collected*). *CutRow* and *CutYields* show that a row in the cut is the same row of the whole
  page, and *DecodeTells* that decoding is injective where no U+FFFD comes out.

**Induction over data.** `Decode`, the path meaning `Leads` and `FlattenSeq` are recursive over
sequences. The prover cannot instantiate the library's induction theorems, so these proofs argue by least
counterexample: `LeastExists` (every nonempty set of naturals has a least element) gives the first index where a fact
fails, and the step before it refutes that. That the recursive function exists at all is proved in
the same way (*DecodeFromExists*, *LeadsExists*, *FlatExists*).

Only model-checked: the liveness properties (`ScanReturns`, `WalkReturns`, `ResidueReturns`, `AuditReturns`,
`FindReturns`), as the prover has no liveness under fairness, and the refinement `ImplementsListing`.

## 6. Plan

The order was: block addressing first, because every other reader rests on it; the tree walk and
its abstract specification; residue recovery with its writer; the audit; path lookup; then the proofs.

1. Done: `ContainerResolver`, `BlockResolution`, `DirectoryWalk` refining `TreeListing`,
   `ResidueScan` composed with `CowVolume`, `VolumeOpening` composed with `ImageAudit`, `RowReaders` and
   `PageRows`, `MinstorePage` under `PathLookup`; the proofs of section 5.
2. Proofs to come: the safety part of `ImplementsListing`, that every step of the walk is a step of
   `TreeListing` or a stutter. It needs that the blocks visited by an `Ok` walk no cap cut are exactly `Reachable`,
   that a walk a cap did cut outgrows it (more than `MaxVisited` blocks reached, or the stack as a chain of
   `MaxDepth` branch pages), and that `Clusters` steps reach everything, as distinct pages sit at distinct clusters.
3. Model extensions to come: `resolve_virtual` with the 64-bit width of its sums; the
   residue comparison over decoded names, where two names on disk may be one.

## 7. Not modelled

* `severity`, `code`, `note`, `evidence` and `audit_findings` format one anomaly each; no state, no choice
  of the reader depends on them. Fuzz targets and test fixtures drive the crates.
* The cluster size is one field of the model, so the saturating product of two on-disk fields is not.
  The checksum is abstracted to *a changed byte in the range changes it*; its polynomial is not modelled.
* Field offsets and endianness of the headers are abstracted to the order in which fields end, which is
  all that a cut image can tell apart; those of Minstore rows are kept.
* `MinstorePage::level` and `is_leaf` have no caller in the crates. Memory use and running time beyond the
  caps are not stated.
