# lamfold in TLA+

lamfold is a `no_std` Rust stack that reads read-only media file systems for a
boot loader. This directory holds TLA+ models of its core, TLC runs that check
them on small instances, and TLAPS proofs of the properties that hold for every
instance. All paths below are relative to the repository's `crates/`.

## The system

### Parts

| part | source | state it keeps | operations |
|---|---|---|---|
| block cache | `lamfold/src/cache.rs` | map of blocks with stamps, logical clock, byte count | `get`, `insert` (evicts) |
| path layer | `lamfold/src/path.rs` | none between calls; a stack of components and a link count within one | `resolve`, `read_path`, `read_dir_path`, `metadata_path` |
| frontend contract | `lamfold/src/frontend.rs`, `source.rs` | none | `lookup`, `read_dir`, `metadata`, `read_at`, `read_link`; `BlockSource::read_at` |
| stream decoder | `lamfold/src/stream.rs` | output so far, position | `decode_stream` for gzip, zstd, xz, lzma, legacy LZ4 |
| block codecs, caps | `lamfold/src/codec.rs`, `read_cap.rs` | none | `decode`, `checked_full_read_len`, `checked_block_len` |
| fs-verity | `lamfold/src/verity.rs`, `verify.rs` | leaf digests of one file | `merkle_root`, `fsverity_digest_sha256`, `verify_block` |
| cpio frontend | `lamfold-cpio/src/cpio.rs` | buffers, tree of nodes, decompression budget | `open` (does all the work), the rest reads the tree |
| erofs frontend | `lamfold-erofs/src/erofs.rs` | parsed inodes, decoded compressed files | `open`, directory calls, `read_at` |
| squashfs frontend | `lamfold-squash/src/squash.rs` | interned inodes, map from inode reference to node | `open`, directory calls, `read_at` |
| iso9660 frontend | `lamfold-iso/src/iso9660.rs`, `rock_ridge.rs`, `el_torito.rs` | interned inodes by directory record, name tree in use, boot catalog | as squashfs, and `el_torito_uefi_image` |
| udf frontend | `lamfold-udf/src/udf.rs` | interned inodes by File Entry | as squashfs |
| cramfs, romfs frontends | `lamfold-cramfs/src/cramfs.rs`, `lamfold-romfs/src/romfs.rs` | none: a node id is a place on the device | as squashfs |

### How they interact

A caller holds a frontend and a `SubstrateCtx` and calls the path layer, which
walks with `lookup` and `read_link` and then reads with `metadata` and
`read_at`. A frontend reads its `BlockSource`, which fills the buffer or fails,
decodes with the codecs or with the stream decoder (the cpio chain), and shows
file data to the verifier of the context before it hands it out (erofs). Node
ids a frontend returns are passed back to it in later calls.

Everything takes `&mut self`; there are no threads, callbacks or timers and
nothing is ever written. So there is no concurrency to model and no crash
recovery. What is hard is elsewhere:

* a call may fail at any device read, half way through a loop, and the next
  call starts from what it left behind (interned nodes, decoded files);
* long sequences of legal inputs: records of several archives over the same
  paths, symlinks that grow the work left to do, inserts of different sizes;
* positions: block borders, tails, fragments, holes, zones of a packed index,
  alignment between archives, caps that must be exact;
* loops that must end on cyclic or damaged data.

`hazards` in `PROJECT.json` lists these, each at its line with the properties
that cover it.

### What makes each part correct

* Cache: the byte count is the bytes held, the cap is never exceeded, evictions
  follow least-recent use, an insert returns.
* Path layer: a path means what textual substitution of its symlinks means; a
  read returns the file's bytes and no filler; every call returns.
* Cpio: the tree is what replaying the records in order gives; spans stay in
  their buffers; the budget is charged exactly once per member; `open` returns.
* fs-verity: the root and the measurement determine the file; the verifier
  accepts exactly the genuine blocks at their own offsets.
* Erofs: nothing unverified is surfaced; a read returns the file's bytes in
  every layout; a failed decode is not taken for the file; the index walk finds
  the pclusters.
* Every frontend: one id per inode, for good; listings, lookups, links and reads
  are what was written; an error has its reason; on damaged data too ids are good
  and every call comes to an end.
* ISO: the UEFI boot image is found wherever the catalog has it.
* Stream decoder: the output is the stream's own, within the cap, and the
  position reported is the stream's end.

## Modules

| module | models | state and actions |
|---|---|---|
| `BlockCacheSpec` | what `cache.rs` promises | a map and the order of use; `Get`, `Insert` are single steps |
| `BlockCache` | `cache.rs` | `entries`, `tick`, `cur_bytes`; an insert is `InsertStart`, `EvictOne`…, `InsertFinish`, or `InsertDeclined`. `TickMod` is the clock's width, `BlockLen` the block sizes |
| `PathResolve` | `path.rs` | `node`, `pending`, `links` of `resolve`, then the buffer of `read_path`; one action per turn of each loop and per way out |
| `Cpio` | `cpio.rs` | position in the chain (`SkipZeros`, `DecodeMember`, `ArchiveStart`), the records of one archive (`ParseRecord`, `ParseTrailer`), and their fold into the tree one path component at a time (`InsertExisting`, `InsertNew`, `NextRecord`) |
| `Verity`, `MerkleTree` | `verity.rs`, `verify.rs` | the hash operators; the level loop of `merkle_root` |
| `ErofsRead` | `read_at`, `read_inode_data`, `materialize_compressed` | one action per block of a request (`CopyBlock`) and per pcluster (`DecodeHead`); `decoded` survives from call to call |
| `ErofsIndex` | `build_heads_full`, `build_heads_compact`, `resolve_compact_heads` | one action per group unpacked, per entry resolved and per address summed |
| `Frontend` | what `FoldFrontend` promises | a tree, the ids handed out, and one call at a time: `Opened` or `Refused`, `Start`, `Learn`, `Finish`; no panic; `SafeNext` is what holds on any device, `Next` adds the right answers of intact volumes |
| `Cells`, `FrontendCalls` | what the frontends share | results and the `?` operator, the device; the call protocol, `intern`, the search of a listing |
| `SquashFs` | `squash.rs` | `read_dir` is one step per child (`DirChild`), `read_at` one per block (`ReadPiece`) |
| `Romfs` | `romfs.rs` | one step per header of a directory (`DirEntry`); `ResolvedHeader` follows hard links |
| `Cramfs` | `cramfs.rs` | one step per directory record and per page inflated (`InflatePage`); `Whole` answers or panics |
| `Udf` | `udf.rs` | the descriptor chain in `Open`; one step per child and per extent (`ReadExtent`) |
| `Iso9660` | `iso9660.rs`, `rock_ridge.rs`, `el_torito.rs` | one step per record (`NextRecord`), per continuation area (`Continue`), per extent and per zisofs block; `Uefi` |
| `ErofsTree` | `open`, `parse_inode`, `parse_dir_block`, `read_dir`, `read_link` … of `erofs.rs` | `open` in three steps, of which `ReadConfig` swallows its errors; one step per directory block |
| `SquashImages`, `RomfsImages`, `CramfsImages`, `UdfImages`, `IsoImages`, `ErofsImages` | | the volumes for TLC: each with the tree it was made from, intact, and with one thing damaged |
| `Frontends` | | the six side by side, what is assumed of their constants and devices, the refinement mapping to `Frontend` and the properties |
| `StreamDecode` | `stream.rs` | one action per chunk, frame or block decoded |
| `BlockCacheProofs`, `PathResolveProofs`, `StreamDecodeProofs`, `MerkleTreeProofs`, `ErofsReadProofs`, `CpioProofs`, `FrontendProofs` | | the theorems |
| `VerityProofs` | | lemmas on blocks, padding and induction that the Merkle tree, the EROFS reads, the path layer and the frontends share |
| `MC…` | | the instances for TLC |

Operators whose comment begins "A mutant of" are deliberately wrong variants of
the definition that follows them. No module uses them; they are put in place of
that definition to see that the property named in `PROJECT.json` then fails.

### Abstractions

* A byte is a number or a model value that tells its origin; contents are small.
  Block addresses are `ADDR_BITS` wide in `ErofsIndex` (32 in the code).
* SHA-256 is an injective function; the salt of fs-verity is left out.
* Decompressors are external crates: a compressed block carries what it
  decompresses to.
* An intact EROFS volume is one that stores the file, which `Stores` says layout by
  layout from the on-disk format; no volume is labelled intact. Likewise the streams
  of each codec are a grammar over the items of the input (`Longest` and what it is
  made of in `StreamDecode`), and the measurement of a file is given all levels at once
  (`MeasurementOf` in `MerkleTree`). The properties compare with these definitions.
* `ErofsRead` starts from a parsed inode (`read_at` is called after `metadata`)
  and a list of heads; `ErofsIndex` is where heads come from. A pcluster carries what
  the stream in its span yields: where in the padded span that stream starts
  (`erofs.rs:985`-`1018`: LZ4's zero padding, the two places of a deflate stream, the
  zstd magic) is part of the external decoder, and a span in which none is found is one
  that does not decode. The chunk format of an inode is one of five kinds (`Formats`):
  4-byte addresses, or what `read_chunked` refuses.
* In `SquashFs` a metadata block is a sequence of cells or torn (it does not
  decompress), and `as usize` keeps a number, as on 64-bit targets; `block_count`
  (`squash.rs:121`, `:123`) would truncate on a 32-bit one.
* In `Iso9660` the catalog's block addresses are taken in the volume's block size, as
  the code does; the images have the descriptor size for it, so the runs cannot tell
  that from the `lba * 2048` of the comment (see below).
* In the frontends a device is a sequence of cells. A cell stands for a fixed-size
  piece of a record (an inode, a directory entry's fixed part, a pointer, a piece
  of a name) or for a stored byte, and lengths and offsets count cells, so block
  borders, padding and alignment keep their arithmetic at a smaller scale. Basic
  and extended squashfs inodes have the same fields. The padding of a UDF
  identifier is to `FID_ALIGN` cells (4 bytes in the code).
* Damaged volumes have one thing changed: a size, pointer, count, tag or flag, or a
  part missing or emptied; cyclic `next` pointers, hard links and continuation
  areas are among them. A reference into the middle of a record is not considered.
* A sum of 32-bit block addresses wraps (`Wrap` in `Udf`), as in a release build; a
  debug build panics there.
* The iso9660 frontend is modelled with its default feature `zisofs`.
* In `ErofsTree` a directory or a link is stored plain or with an inline tail;
  the compressed and chunked layouts are in `ErofsRead`, and reading a file is
  there too. `read_at` is not among the calls of `ErofsTree`.
* A device failure is an action enabled wherever the code reads the device. A read
  past the end of the device, which is an `Io` error in the code, is a result of its
  own (`OutOfRange`), so that on intact volumes it is told from a failing device.

## Runs

| run | bound | what it shows |
|---|---|---|
| `cache` | 3 keys, 4 blocks (one larger than the cap), cap 4, 6 ticks | the cache implements `BlockCacheSpec`; accounting, cap, the `break` exit, inserts return |
| `path` | all the trees and paths of the MC module, `MAX_SYMLINKS` 2, cap 4 | resolution is substitution; reads are prefixes, and whole when the data is; calls return |
| `cpio` | up to two archives of two records, and chains of three items, whole and cut; cap 40 | the tree, spans, budget; `open` returns |
| `merkle` | all files of up to 7 cells, blocks of two digests | root, measurement, verifier, termination |
| `erofs_read` | files of up to 7 bytes, two-byte blocks, two calls | nothing unverified surfaces, requests are filled with the file's bytes, calls return |
| `erofs_index` | up to 50 clusters, every alignment, six pcluster patterns | the pclusters are found, holes and overflows refused, the walk returns |
| `frontends` | volumes of six formats; three calls in any order on an intact one, two on a damaged one; windows at offsets 0, 4 and 6 of 1 and 6 bytes | the frontends implement `Frontend`, and on damaged volumes what of it holds on any device; calls end; tables, block lists, the UEFI image, the LZMA window |
| `stream_decode` | streams of up to three pieces, cap 5 | output, end, cap, reasons of failure, termination |

The bounds are chosen so that every case of the arithmetic occurs: files end
before, at and after a block border; the index has entries in every zone and
last groups that are half full (50 clusters also exceed the cap); three calls of a
frontend are a listing, a second listing in the sub-directory and a read, with a
failure in between, and two reach every loop of a damaged volume; the windows
start in the first block, in a later one, past what a short cramfs page leaves of a
file of 7, and at and past the end of shorter files, and end inside a block or past
several; link, continuation and extent bounds of 2 and an entry bound of 12 are exceeded; one link more than `MAX_SYMLINKS` is met; the caps are hit
exactly and exceeded by one. Six ticks fill the cache and evict twice. What
happens once the clock has wrapped is left to the proofs, which hold for every
`TickMod` and `TickBound`.

A run checks a type invariant in `cache` and `path`. The other modules that are
proved about have theirs in the proofs module, as a part of the inductive invariant;
in the rest a value out of range shows as a violation of the properties themselves.

`CHECK_DEADLOCK FALSE` is set where the number of calls or ticks is bounded, and
for the index walk, which ends.

### Fairness

`WF_vars(Step)` in each module: code that has been called takes its next step,
since it is sequential and nothing can block it. A device failure and a new
call are never assumed. For the frontends the same is stated without fairness:
`Progress` says that each step of a call leads to a later stage of it (`Stage`: the
steps of `open`, or the parsing before a loop) or is a turn of its loop and lowers
`Fuel`, which is positive before the turn (entries, records and continuation areas,
extents or bytes left), so every call ends on any device, with a reply or with the
panic below.

### The refinement

`Implements` is the specification of `Frontend` under the mapping of `Frontends`:
the volume is the image's tree with its `intact` flag and what `probe` says of it,
the phase is read off `pc`, call and reply are `arg` and `ret`, and `ids` is the
table from inode keys to ids (for cramfs, romfs and erofs, whose ids are places,
the set of ids handed out). `Finish` demands the right answer of an intact volume,
so a wrong byte, a lost entry, an id that changes after a failed listing, an error
without a reason, and a volume that opens though `probe` refuses it, all violate it.

There are two steps the contract does not have, each stated exactly and allowed by
name; without either disjunct the run fails. `SlicePanic`, on damaged volumes only:
cramfs's `read_at` panics when the offset is below the inode's size and past what the
pages inflated to (the run `cramfs_short` shows it as a disagreement). `LinkUnread`: a
UDF symbolic link has kind `Symlink` (`lamfold-udf/src/udf.rs:124`), but `read_link` is
left at its default and answers `None`, which by `lamfold/src/frontend.rs:97` says that
the node is not a symlink; `resolve` then refuses a path through it.

`SafeOnAnyVolume` is the weaker `SafeNext` (or `SlicePanic`) under the same mapping, which makes no
difference between intact and damaged volumes: ids are never given up or given to
two inodes, an id that was handed out is never `NotFound` and one that was not is
refused (the formats with a table are asked for such ids), every id in a reply is a
good one, a read is never longer than its buffer, and only what `probe` accepts
opens. `Implements` compares with the tree an image was made from and stays with
TLC; `SafeOnAnyVolume` needs no such tree and is proved for every device.
`PathResolve` starts from the same contract, as its assumption `IsTree`.

### Disagreements found

Each is a run with `expect: violation`.

* `cpio_lost`: `insert` walks through existing nodes whatever their kind, so a
  record below a symlink becomes a child of the link node, where `lookup`
  answers `NotDirectory` (`lamfold-cpio/src/cpio.rs:158`).
* `erofs_zstd`: a zstd pcluster that decodes short is accepted, and everything
  after it is read at the wrong offset (`lamfold-erofs/src/erofs.rs:1030`).
* `erofs_meta`: `read_dir` and `read_link` surface metadata that was never shown
  to the verifier (`erofs.rs:663`, `:746`), where `lamfold/src/verify.rs:18` says a
  frontend calls `verify_block` "for each data/metadata block it surfaces".
* `cramfs_short`: a cramfs page that inflates short is taken as it is (`codec.rs:143`
  refuses only what is too long), so the file may be shorter than its inode says;
  `read_at` compares the offset with the inode's size only, and `&data[start..start + n]`
  panics when the offset lies between the two (`lamfold-cramfs/src/cramfs.rs:196`), where
  `frontend.rs:87` promises a number of bytes, 0 at the end. The image has a file of 7
  bytes of which 5 are inflated, read at offset 6.

Smaller ones met on the way, without a run of their own: UDF's symlinks (above); a
directory record for a directory that an earlier child implied is ignored, so the
directory keeps the implied mode, though `cpio.rs:159` says that such a record "can fill
in" the node; `read_path` returns a short file as
success when `read_at` ends before the announced size (`path.rs:85`; `path`
checks that what it returns is then still a prefix); `lamfold-cpio/src/lib.rs:15`
says a compressed member is refused, which it no longer is; the comment at
`lamfold-squash/src/squash.rs:437` promises at most one block of extra work,
and a window over a block border costs nearly two; near the cap a corrupt LZ4
block is reported as too large, whatever is wrong with it (`stream.rs:344`); the comment on
`el_torito_uefi_image` gives the image's place as `lba * 2048` (`iso9660.rs:306`,
`el_torito.rs:16`), its code uses the volume's block size (`iso9660.rs:325`); a read error in `parse_lzma_cfg`
leaves the window unset as if there were no configuration (`erofs.rs:334`); the
buffer of a compressed cramfs page is allocated from two stored offsets without the
chokepoint that `read_cap.rs:1` says every such allocation goes through
(`lamfold-cramfs/src/cramfs.rs:83`).

## Proofs

Each proofs module has an inductive invariant, the lemmas that every action keeps
it, and the theorems, which follow. What is quantified over is named in the module's
assumptions, which TLC evaluates on the instances of the runs.

### `BlockCacheProofs`

For all keys, blocks, sizes, caps and clock widths (`Keys` are naturals, sizes and
`Cap` naturals, `TickMod` positive):

* `TypeCorrect`, `AccountingCorrect` (`Accounting`), `CapCorrect` (`CapRespected`),
  `BreakCorrect` (`BreakIsSafe`). The inductive invariant is `TypeOK`, `Accounting`,
  `CapRespected` and `CallOK`, which says that during an insert its key is out of the
  map and its block fits an empty cache; without it the last step could store twice
  under a key, and the `break` exit could overfill. `Accounting` counts the pairs of a
  key and a byte index; `RemoveBytes`, `PutBytes` and `StampBytes` say what the three
  changes of the map do to that set.
* `EvictsLeastRecentlyUsed` (`IsLRU`), if `TickBound < TickMod`: a 64-bit clock that
  has not wrapped. The refinement needs three more invariants: `ClockOK` (an insert has
  a tick to spare), `StampsOK` (stamps differ and none is from the future), and
  `EvictionOK` (what an insert has removed so far is older than all that is left, and
  the youngest of it was one block too many). `InsertFinish` is then `Insert` of
  `BlockCacheSpec` with the removed keys as the witness, `Get` is `Get`, and every other
  step is a stutter. After a wrap the statement is false, since an old stamp then looks
  young; the four theorems above hold all the same.

### `PathResolveProofs`

For all volumes, paths and limits (every volume is a tree in the sense of `IsTree`,
which is the frontend contract): `TypeCorrect`, `ResolvesPastSymlinks`
(`NeverOnSymlink`), `ReadsFaithfully` (`ReadIsPrefix`), `ReadsWholeFile`
(`ReadIsWhole`). The inductive invariant adds `BufferOK`: while a read runs its buffer
has the announced size and what was got so far is the file's beginning.

`ResolvesBySubstitution` (`ResolveIsSubstitution`): `resolve` has a node and a stack,
the reference `NamedBy` only a text, in which it replaces the first symlink until none
is left or the limit is reached. The invariant that connects them is `TextOK`: after
`links` links the walk is in the text that so many substitutions give, the components
walked so far followed by the reversed stack are that text, and no component walked is
a link. So the link the walk comes to is the first of its text, and pushing its target
on the stack is the substitution (`ReachedLink`, `ReachedAgain`). The assumptions are
that paths and readable targets are sequences of strings and that an unreadable target
is told from one that is not UTF-8. The texts and walks of the reference are recursive
functions; `Recursion` shows that a function with such an equation exists, by the
induction on naturals of `VerityProofs`.

### `StreamDecodeProofs`

For all inputs, caps and LZ4 block sizes (an input is a codec and a sequence of items
with natural lengths): `CapNeverExceeded` (`WithinCap`), `DecodesExactly`
(`DecodesTheStream`), `RefusesForAReason` (`FailsForAReason`). The inductive invariant
adds `GatheredOK`, that the output and the current frame together are the bytes of
the items before the position, in order; and `ParsedOne`, `ParsedZstd` and
`ParsedLz4`, that those items are the beginning of a stream in the codec's grammar.
The cap can only be compared with what a whole stream would give (`AboveCap`) because
the bytes gathered are known exactly.

### `VerityProofs`, `MerkleTreeProofs`

For every alphabet, set of files over it and positive block size:

* `MeasurementIsTheFile` (`MeasurementBinds`): equal measurements mean equal files. The
  descriptor gives the length, the length gives the number of levels and their lengths,
  and equality of digests goes down level by level (`LevelBinds`), because a padded
  block together with its length determines the block (`HashLevelBinds`).
* `RootIsTheFile` (`RootCoversFile`): the root, opened as often as the loop went round,
  is the file and the zeros after it. `Opened` goes down where the loop went up;
  `UnderDigests` says that opening the digests of a level gives that level, padded,
  which needs that a digest is never taken for padding and that no level is empty.
* `VerifierExact` (`VerifierIsExact`), from `VerifierAccepts`, which the EROFS proofs
  use too.
* `EachLevelShrinks`, an action property: with more than one digest to a block every
  turn of the loop shortens the level.

The levels are a recursive function; that it exists and satisfies its equation is
proved (`ClimbExists`, `ClimbsAgree`, `LevelsStep`) rather than assumed. Induction on
natural numbers is `NatInd`, stated of subsets of the naturals and derived from the
well-foundedness of `<`, since a theorem with a predicate as its parameter cannot be
instantiated. The inductive invariant is the type, `AtLevel` (the level in hand is the
level of that depth), `Shorter` (those before it did not fit in one block) and `RootOK`.

### `ErofsReadProofs`

For all volumes with typed fields, block sizes, genuine files and calls:
`OnlyTrustedBytes` (`SurfacedIsTrusted`), `ReadsExactly` (`ReadsTheFile`),
`CachesWholeFiles` (`CacheIsWhole`). The inductive invariant adds `Underway` (the
request is filled from the front up to the block in hand, which leaves no gap),
`FilledOK` (what is filled is the file's, on an intact volume) and `DecodeOK` (a decode
under way has the file up to the next head). `ReadsBytes` says of each layout that
the block it reads of an intact volume is the file's; that a verified block is the
genuine one is `VerifierAccepts`.

### `CpioProofs`

For all images of typed items, all caps and header sizes that are multiples of four
(and for a single archive, that the entries `cpio_reader`, an external crate, reports
lie in the input): `SpansAreInBuffers` (`SpansInBuffers`), `BudgetIsExact`
(`BudgetExact`), `FoldsIntoATree` (`IsATree`). The inductive invariant adds the types,
`Shape` (what each phase of `open` has in hand) and `DecodedFinite`, which makes the
count of decoded bytes a number.

### `FrontendProofs`

For all six frontends (EROFS without `read_at`, which is in `ErofsReadProofs`), every
device whatever its cells hold, every sequence of calls, names and windows, a device
failure at every read, and all values of the formats' constants. What is assumed of a
device is that it is a sequence and that what a stored stream holds is one (`IsDisk`);
of numbers that they are unsigned; of sector, page, alignment and block sizes that they
are positive (an EROFS block size is a power of two; a squashfs or ISO one is stored,
and `open` refuses zero). The images of the runs are instances, but no image has to be
well formed:

* `SafeOnEveryVolume` (`SafeOnAnyVolume`), a refinement: every step of a frontend is a
  step of the contract's `SafeNext`, a stutter, or cramfs's `SlicePanic`. So no frontend
  panics in any other way, and cramfs only for an offset below the inode's size and past
  the end of what was inflated, with ids and table untouched;
* `IdsAreOnePerInode` (`OneIdPerInode`): a table has one node per inode key, and each
  node is what the device says of that key (for ISO, where the node is put together
  from several records, that its first extent is the one of the record at its key);
* `BlocksAlwaysCoverFile` (`BlocksCoverFile`): the last `else` of squashfs's `read_at`
  is never taken;
* `EveryCallAdvances` (`Progress`): every call comes to an end, cyclic data included.

The inductive invariant is `AllInv`, one conjunct per format (`SquashInv`, `RomInv`,
`CramInv`, `UdfInv`, `IsoInv`, `ErofsInv`), each with three parts. `CallState` says
what call is under way at each `pc` and that buffers are empty outside loops, which is
how an answer is known to be the call's own. The table part says that nodes and keys
correspond one to one (`Tabled`: as many nodes as keys, ids injective and onto), and
that a node is the parse of its key; `InternedTabled` is what `intern` does to it. For
the formats whose ids are places it is that an id is its own key. The loop part relates
position, gathered output and what is left: what a read has gathered is no longer than
what was asked for up to its position (a cramfs page no longer than what is left of the
file, whose size is above the offset asked for), and the entries of a listing have ids that were handed out (for places, they are
when the listing returns). Without it neither the length of a read nor the ids in a
reply follow, since a loop is long past the checks its call started with.

Each action has a lemma that it keeps the invariant, is one of the contract's steps in
the frontend's own variables (`SafeStep`: `Mounts`, `Refuses`, `Calls`, `GoesOn`,
`Replies`, `Panics`) and advances (`Advances`); `ReplyStep`, `RefuseStep` and their like do the
part that all formats share, and `SafeStepIsContract` carries it through the mapping.
The fuel of an ISO listing is the records left times `MAX_CONTINUATIONS + 2`, less the
continuation areas followed in the record at hand, since a record's areas are read
before the next record.

### Only model-checked

* Liveness (`InsertReturns`, `Terminates`, `Opens`, `WalkReturns`, `ReadReturns`):
  fairness and ENABLED are out of the prover's reach.
* `LastFileWins`, `TreeIsTheRecords`: they compare with a replay of the records, written
  with recursive operators over nested streams, which the prover cannot reason about as
  it stands.
* `FindsThePclusters` and `RefusedForAReason` of `ErofsIndex`: the truth they compare
  with is what the MC module wrote into the bits.
* `Implements`, beyond `SafeOnAnyVolume`, and `FindsUefiImage` and
  `LzmaDictIsTheVolumes`: the right answers of an intact volume are those of the tree
  its image was made from, which the image modules know and the device does not say.

## Not modelled

* The decompressors (external crates), and so the stream formats inside `codec.rs`
  beyond how long their results may be.
* Allocation: the caps are guards, memory itself has no model.
* The error type's wording, lossy UTF-8 conversion of names, POSIX mode bits other
  than cpio's (ISO's PX entry is parsed and never used).
* Composition of a frontend with itself (a squashfs in a file of an ISO): a
  `BlockSource` is a device whatever it is made of.

## Plan

Done, in this order: cache, path layer, cpio, fs-verity, erofs reads, stream
decoder, squashfs, erofs index; then the frontend contract, romfs, cramfs, udf,
iso9660 and the erofs tree; then the proofs above. Left are proofs:

1. `LastFileWins` and `TreeIsTheRecords`, with their references as recursive functions,
   as was done for `ResolveIsSubstitution` and `RootCoversFile`.
2. `FindsThePclusters`, once an index is characterised by its format instead of by how
   it was made.
3. `Implements` for romfs and cramfs, the formats simplest to characterise in the same
   way: an intact volume as one whose cells encode a tree.
