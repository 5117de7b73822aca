# WfmOxide in TLA+

WfmOxide reads oscilloscope captures of eleven formats and returns calibrated
voltages, as a Rust library with a Python extension (`crates/wfm_oxide`) and as
a command line tool (`crates/wfm_oxide_cli`). This directory holds its TLA+
modules, the TLC configurations that check them on small instances, and the
TLAPS proofs, for every size, of all its safety properties and of the safety of
each refinement.
Source lines below are relative to `src/crates/wfm_oxide/src/`, and `main.rs` is
`src/crates/wfm_oxide_cli/src/main.rs`.

Contents: [inventory](#1-inventory), [modules](#2-modules-and-the-code),
[runs](#3-runs), [proofs](#4-proofs), [disagreements](#5-where-code-and-documentation-disagree),
[limits](#6-what-is-not-modelled), [plan](#7-plan).

## 1. Inventory

| Part | State it keeps | Operations | Hard behaviour | Correct when |
|---|---|---|---|---|
| **Sample decoding** (`sample.rs`) | none; reads a slice of the mapped file | `decode_with`, `decode_serial_typed`, `read_sample` | three ways to decode the same samples (contiguous chunks, serial loop, parallel loop); the chunked one is chosen by probing an index closure at two indices; an index past the slice panics | the way that is taken cannot be told from the result |
| **Per-family preparation** (`parser.rs`, accessors in `structs.rs`) | none | `get_channel_data_*`, `apply_slice` | eleven window computations over untrusted header fields in wrapping `u32`, 8-byte `usize` and division; several notions of "enabled" per family | windows stay in the file, slices are windows of the whole channel, no byte is given to two samples, panics happen on known headers only |
| **Opening** (`dho.rs`, `keysight.rs`, `siglent.rs`, `lecroy.rs`, `rohde_schwarz.rs`) | builds the header of a handle | `parse`, `open` | checks made once, relied on at every later decode; normalisations (DHO fallback calibration, LeCroy channel and count, R&S counts) | what is checked suffices for what is decoded |
| **Handle** (`mmap.rs`, `lib.rs`) | an immutable mapping and header | `enabled_channels`, `extract_channel`, `extract_all_channels`, `channel_sample_count`, `channel_metadata`, `time_axis`, `get_time_axis` | each answer is computed separately, from other header fields than the next | the answers agree with each other |
| **Concurrent extraction** (`lib.rs:97-117`, `parser.rs:22-85`, `sample.rs:148-200`) | a shared handle, the call of each Python thread, the loops and ranges of the rayon pool | the two bindings release the GIL; a `par_iter` over slots whose slots are `par_iter`s themselves | calls overlap; ranges are split, stolen and finished in any order; a worker that waits for a nested loop takes work of another call on its stack; a range may panic while its siblings run | every call returns what it would return alone; nothing of a call outlives it |
| **`wfm-oxide convert`** (`main.rs:198-464`) | files, the input being converted, a count of failures | option checks, format and output resolution, decode, create, write | inputs that fail or panic, full disks, interrupts, outputs that collide or replace inputs, running again | exit status 0 means whole outputs; one bad input stops nothing else |
| **Family detection** (`mmap.rs:92-361`, the `looks_like_*` functions) | none | `WfmFile::open` up to the family's parser | eleven detectors in a fixed order, two of them text searches, one without a magic; an ISF header that ends at the first `#`; files shorter than what is looked at | the mark a file carries decides, and a short file is an error, not a panic |
| **DHO block scan** (`dho.rs:49-330`) | an offset, the blocks read | `parse_blocks`, `extract_calibration`, `find_data_section` | lengths that chain offsets, two calibration forms and a legacy one, a search that skips zero bytes | the handle is the one the file as a whole calls for |
| **Keysight cursor** (`keysight.rs:129-278`) | a cursor, the buffer chosen, the waveforms kept | the record and buffer loops of `parse` | four sizes from the file move the cursor, two of them signed | the cursor stays in the file and never moves back into a payload |
| **R&S pair** (`rohde_schwarz.rs:51-127, 179-371`) | two files of another program | `looks_like_rs`, `open`, `parse_xml` | three looks at two files that an instrument may be replacing | an undisturbed pair opens as it was written; a disturbed one decodes or is refused |
| **`wfm-oxide info` and tables** (`main.rs:76-157, 264-317`) | none | `cmd_info`, `convert_one` | counts from the header, rows from a decode, times from the command line | the three agree |
| **CSV and NPY bytes** (`main.rs:353-464`) | a file, a buffer | `write_csv`, `write_npy` | a row count written before the rows, short writes, errors, interrupts | a whole file reads back, a torn one does not pass for whole |
| binread layouts (`structs.rs`) | - | generated code | layout without control; where the last field ends is in `Sniff` | partly modelled |
| Python wrapper (`src/python`) | - | forwards calls | none | not modelled |

How the parts interact: the CLI and Python open a `WfmFile`; opening asks the
detectors, lets the first that accepts parse, and makes a handle that never changes. A decode prepares a
*plan* (which bytes, how many samples, which type, which index closure, which
calibration) and runs it through `decode_with`. `get_all_channels` prepares and
runs one per slot, on the pool. Python threads share the handle; the CLI uses
it from one thread.

`PROJECT.json` lists the hazards of this code at their lines, with the
properties that cover each.

## 2. Modules and the code

Each of the first seven (to `WfmFile`) extends the one before it, and `Opening`
extends `Order` too:

* **`Sample`** - one decode. A *plan* record is the argument list of
  `decode_with`; `RawIdx` is the common shape of all index closures
  (`((start + i) * mul + add) / div`). A decoded sample is abstracted to where
  it comes from: its type, the absolute position of its first byte, the
  calibration entry applied. `f32` arithmetic is left out: it is the same
  expression on every path (`sample.rs:27-38`). `FastPath` is the probe of
  `sample.rs:81`, `DecodeChunks`, `DecodeEach` and `DecodeWith` are the loops.
* **`Families`** - `Prepare(w, ch, start, length)`: the eleven
  `get_channel_data_*` functions up to their decode, guards in source order.
  `u32` sums wrap at `U32` and the Tektronix base, an `i32` cast to `usize`,
  wraps at `USize`: the release build does not check overflow. Integer division
  by zero panics in either build. Rust's slice length `None` is `Absent`.
* **`Opening`** - what each parser checks and re-assigns before a handle exists
  (`OpenDho`, `OpenKeysight`, `OpenSiglent`, `OpenLecroy`, `OpenRs`). The six
  families of `AsStored` use their header as it is stored.
* **`Order`** - `InOrder`, the loop over channels or records that keeps some of
  them.
* **`Handle`** - the questions an open handle answers, as operators of it.
  `SlotChannels` is the dispatch of `get_all_channels`: which channel each
  position is decoded from.
* **`Table`** - what `info` prints of a handle and the table `convert_one` hands
  to a writer, operators of the handle too.
* **`WfmFile`** - the machine *open, drop* over a set `Files`, and the
  properties that relate answers to each other and to the file. `FileShape` is
  all that is assumed of a file: the widths of its fields.
* **`HandleProofs`** - theorems about `WfmFile` (section 4).
* **`OrderProofs`** - lemmas about `Order` and sets of numbers.
* **`CallSpec`** - the abstract specification of the bindings: a thread asks, and
  is answered once, atomically, with `Expected`, the sequential result.
* **`Extraction`** - the concurrent implementation. `frame[<<t, 0>>]` is the
  loop over slots of thread t's call and `frame[<<t, k>>]` the decode loop of
  its slot k: the ranges nobody has taken, the results, a panic mark. A *leaf*
  is a range a worker has taken, with its position and its depth in that
  worker's stack. Actions of a calling thread: `Begin`, `Answer`, `Drop`.
  Actions of the pool: `Split`, `Take`, `DecodeSample`, `DecodeSlot`, `Nest`,
  `Join`, `Return`. `Expected` is never used by an action: what is answered is
  built sample by sample and slot by slot.
* **`ExtractionProofs`** - theorems about `Extraction` (section 4), of calls and
  their replies, and of the pool.
* **`Convert`** - `wfm-oxide convert` on its own: a path is a directory and a
  name, a name is the sequence of its dot-separated parts (so that
  `file_stem` and `with_extension` do what they do), a capture is how its
  decode ends, an export is of which input and whether it is whole.
  `DiskError` may happen wherever the code touches the disk, `Kill` anywhere,
  `Rerun` repeats the command on what the last run left.
* **`ConvertProofs`** - theorems about `Convert` (section 4).
* **`BatchSpec`** - what a batch promises: its inputs are settled one after the
  other, each published whole or failed, only the output of the input being
  converted may lose what it held, and the status sums them up.
  `Convert!ImplementsBatch` maps a file on disk to the input whose whole
  conversion it is.
* **`OpenSpec`** - opening a file in one step: after a while, once, the answer
  `OpenFile` gives for the file as a whole, or, of a file described only as far
  as the detectors look, an error or any family.
* **`KeysightScan`** - `keysight::parse` with its cursor, a raw file being the
  sizes and counts its headers hold. `ReadHead`, `ReadRecord`, `ReadBuffer`,
  `EndRecord`, `Finish` are the steps of its two loops; each fails where the
  code bails or a read hits the end of the file. A negative size is taken as a
  `usize` where the code casts it. `Described` says, without a walk, where every
  header and payload is.
* **`KeysightProofs`** - theorems about `KeysightScan` (section 4).
* **`DhoScan`** - `dho::parse`: `ReadBlock` and `EndOfBlocks` are
  `parse_blocks`, `Calibrate` is `extract_calibration`, `SkipZero` (a byte at a
  time), `EndOfPadding` and `ReadSection` are `find_data_section` and the checks
  that follow. A raw file is its blocks' headers, the padding, and the few
  fields of the section header, byte by byte where the search looks at them
  (`RawShape`).
* **`Sniff`** - the detectors of `WfmFile::open`, one action each, in their
  order. A file is what they look at: size, first bytes, three words, and where
  the searched texts occur. What the family's parser then says is a field of
  the file, except for ISF and Tektronix, which are parsed in `open` itself.
* **`WfmOpen`** - the composition of `Sniff`, `KeysightScan` and `DhoScan`: the
  detectors run, and the
  walk of the family that claims the file follows if the capture has a body of
  that family. It instances `Sniff` and `DhoScan`, extends `KeysightScan`, and
  implements `OpenSpec`. A mark of a file with a body fits it (`MarkOfBody`).
* **`OpenProofs`** - theorems about `WfmOpen` (section 4).
* **`RsPair`** - an exporter that writes pairs (external: it finishes one before
  it starts the next and writes each file from its beginning) and the open that
  looks at them in three moments: `SniffXml`, `ReadXml`, `MapPayload`. The XML
  is the sequence of the attributes `parse_xml` looks for (`Attrs`), those of
  `I_0` to `I_3` one by one, and is cut anywhere: `extract_attr` takes each
  attribute up to its closing quote, also from a tag that is cut, and a cut
  inside a character makes the file no text at all. Through
  `INSTANCE WfmFile` it implements the handle machine for the files that any
  cut or mixed pair describes.
* **`RsPairProofs`** - theorems about `RsPair` (section 4).
* **`Writer`** - `write_csv` and `write_npy` as sequences of write calls through
  a `BufWriter` (external) to a disk that takes a write in pieces or fails, and
  a reader of what is left: lines of CSV, cells of NPY at the offsets its dtype
  and shape declare.
* **`WriterProofs`** - theorems about `Writer` (section 4).
* **`MC...`** - the instances TLC checks.

What rayon does is modelled from how `src/` uses it and marked external in the
map: ranges are split any number of times in the middle, a worker takes any
available range of any loop, a leaf runs its indices in order, a worker whose top
leaf waits for a nested loop may take other ranges on top of it, a panic ends
its leaf and is resumed by the caller when the loop is finished. This allows
every schedule of the real pool, and some it does not choose: the real
splitter stops early and thieves prefer old ranges. Safety carries over.

Operators commented *Variant* are plausible mistakes. `PROJECT.json` pairs each
property with one of them, and the property fails when it replaces the
definition below it.

## 3. Runs

| Run | Config | Asks | Distinct states |
|---|---|---|---|
| `handle` | `MCWfmFile.cfg` | do the answers of one handle, and the `info` lines and export tables made of it, agree with each other and with the file, for every header in the corpus | 2 769 |
| `overlapping_calls` | `MCExtraction.cfg` | two threads, two workers, a nested loop each or a panic | 86 803 |
| `nested_loops` | `MCNested.cfg` | one call with up to two nested loops of three samples, or a panicking loop of five, or the dividing R&S closure | 48 343 |
| `calls_return` | `MCReturns.cfg` | two calls on a pool of one worker: does every call return | 24 150 |
| `convert_batch` | `MCConvert.cfg` | nine command lines on every disk of the corpus, any failure, interrupt and second run; does it implement `BatchSpec` | 27 524 |
| `open` | `MCWfmOpen.cfg` | which detector takes which of 15 915 captures, and do the Keysight and DHO walks end in what `OpenSpec` says | 130 163 |
| `rs_pair` | `MCRsPair.cfg` | sessions of one or two captures exported while they are opened | 101 717 |
| `writer` | `MCWriter.cfg` | tables of up to four channels in both formats, any short write, error or interrupt | 8 747 |
| `positions`, `time_axis`, `unreachable_arm`, `output_names` | - | documented claims the code does not keep (section 5) | - |

What the properties say:

* `WindowsInFile`: every slice a decode is given lies in the file; a DS1000Z
  decode, whose slice runs to the end of the file, reads only inside the
  declared depth.
* `SliceIsWindow`: `start` and `length` select a window of the whole channel,
  although the two decodes may take different paths.
* `EveryByteOnce`: no byte belongs to two samples, of one channel or two, in the
  five families that compute where a sample is (the others are told an offset per
  channel, and a header may tell the same one twice).
* `PanicsOnlyOn`: extraction panics on exactly three kinds of header: zero
  sample width in Tektronix WFM or ISF, odd interwoven DS2000.
* `OpenChecksSuffice`, `AnswersAgree`: what `open` accepted decodes; enabled
  list, slots, metadata and calibration agree. Their stated exceptions (R&S
  leading plus record, DS1000Z `flags` against `enabled_val`) are cases the code
  really lets through: the first is refused by the decode itself, which is what
  `WindowsInFile` sees to; in the second `extract_channel` reads, for a channel
  that is on in `enabled_val` alone, the lane of another, and `EveryByteOnce`
  speaks of the channels `flags` names.
* `ReplyCorrect`, `ImplementsCalls`: concurrent calls implement `CallSpec`.
* `WorkIsBorrowed`: no range belongs to a call that has returned, or to an
  unmapped file. This is what makes the borrowed closures sound, and a panic in
  a sibling range is the interesting case.
* `EachIndexOnce`, `ResultsStay`, `BelowTopWaits`: an index is in one place;
  results and panic marks are not lost; a worker's stack waits for its top.
* `CallsReturn`: every call returns, also with more nested loops than workers.
* `SuccessIsComplete`, `OnlyDecodedReplaces`: the convert command, as in section
  1. `ImplementsBatch` says more: at every step no output but the current one is
  disturbed, one bad input stops no other, and a run ends.
* `PayloadsApart`: the payloads the Keysight walk picks lie in the file, in
  order and apart, and no header still to be read lies in one of them.
* `ReadAsWritten`: an accepted DHO file is read as it was written exactly when the low byte of its point count is not zero. Other
  counts (a multiple of 256) shift the header by a byte, and some pass.
* `StaysInFile`: the DHO walk and the detectors never look past the end of a
  file, whatever its length and whatever the lengths in it claim.
* `ImplementsOpen`: a Keysight or DHO file is recognised, and its walk ends in
  exactly the answer that a view of the whole file gives, and does end.
* `OneSignature`, `SignatureDecides`: no file carries the marks of two families,
  and only the ISF and LeCroy text searches can take a file from the family
  whose mark it has. `CurveFound`: an ISF file is read as written exactly when
  no `#` precedes that of its curve.
* `QuietOpen`, `TornPayloadRefused`, `TornXmlReads`: what the R&S open makes of
  a pair at rest, of its own half-written payload, of its own half-written XML.
  The last is accepted if the payload is long enough, and then misread: as a
  single channel, without its last channels (the stride is then too narrow and
  the length check passes all the same), or with slot numbers for the last
  channel numbers, which may repeat one. Never with a channel missing from the
  middle, nor with a channel missing once a number is read.
  `ImplementsWfmFile`: whatever pair it accepts is the open of one file of the
  handle machine, so `OpenChecksSuffice` speaks of it too. A new payload under an old XML is accepted when the lengths fit; nothing in
  the format would tell.
* `RowTimes`: a row's time is that of its sample, as `get_time_axis` has it.
  `ColumnsAreChannels`: export and Python tell the same of a capture, and the
  refusal of `main.rs:298` is for Keysight captures alone. `InfoPredictsRows`:
  the counts `info` prints are the rows an export holds, except for a Keysight
  buffer shorter than its declared count. That the writers' `col[i]` is in range
  is part of the `TypeOK` of `WfmFile`.
* `TornNpyIsShort`, `NpyReadsBack`, `CsvLinesAreRows`, `Ends`: an interrupted
  NPY file never has the size it declares; a finished one has every cell at its
  place; every finished line of a CSV file, whole or torn, is its row.

Bounds, and why they are enough:

* `SerialThreshold` is 2 or 3 (256 000 in the code): both sides of the
  threshold are reached with loops of two to five samples. Nothing else in the
  code depends on its value.
* `U32 = 64` and `USize = 4096`: some headers of the corpus lie just below the
  wrap, so sums wrap onto the header, the payload and beyond it.
* `SiglentHeaderSize = 2048` is the real constant.
* The corpus of `MCWfmFile` gives every field zero, small, exact and too large
  values, on files too short, exact and longer than the payload, so each guard
  of each parser is taken both ways. Channel sets contain none, one, two (both
  lanes), three (the stride-4 case) and four. Slices start before, inside, at
  and beyond the end, and one starts at the last `usize`. Fields are independent
  where the parser reads them independently.
* `MCExtraction` needs two threads and two workers: one worker that waits while
  the other holds part of its nested loop, and takes a range of the other
  thread's call meanwhile, is the smallest case in which order can matter.
  `MCNested` gives the depth that two calls at once cannot afford. Threads and
  workers are symmetric, and symmetry is used for safety only, never in
  `calls_return`. `MaxSlots = 4` is the code's largest slot count for the
  families of the corpus.
* `MCWfmOpen`, Keysight: up to three records and three buffers (sixteen once, the
  limit), each header and payload size negative, zero, one too small, exact and
  too large, in files a byte short, exact and a byte long. Real sizes are used.
* `MCWfmOpen`, DHO: every pair of eleven blocks (each type, long enough and too short,
  stored, inflated, corrupt) and triples of channels; point counts on both sides
  of each byte boundary with hints that divide them or not.
* `MCWfmOpen`, marks: each searched text just inside and just outside its window;
  files cut at each length a detector or a reader checks and one below.
* `MCRsPair`: two captures are enough for every mixture of an old and a new
  file; the payload is seen at the lengths where a check could change its mind,
  the XML after each attribute. In three of the multi-channel captures channels
  have other numbers than their slots, and in one a slot number is that of
  another channel.
* `MCWriter` scales the buffer to 9 bytes and the header's length field to 120,
  so that calls fill, straddle and overfill the one and the widest header does
  not fit the other; alignment is the real 64.
* `MaxRuns = 2` reaches a run on what an interrupted or failed run left; three
  runs add nothing, as the disk is all a run inherits. Three inputs reach a
  failure before, between and after successes.

`CHECK_DEADLOCK FALSE` is set where the system stops: all calls answered and
the handle dropped, the process exited and not run again, a file opened or
written. `WfmFile` and `RsPair` never stop and are checked for deadlock.

Fairness. `Extraction!Spec` asks weak fairness of each worker (`Work(w)`: rayon
workers loop until the pool has no work they can take) and of each caller's
return (`Answer(t)`: it is woken by the latch of its loop). Nothing is asked of
`Split`, of threads beginning calls, or of dropping the handle. Only
`CallsReturn` uses it. `Convert!Spec` asks weak fairness of the process taking
its next step, whichever outcome the disk gives it; not of `Kill` or `Rerun`.
`WfmOpen` and `Writer` likewise: a sequential program takes its next step.
`RsPair` asks none.

Refinements, each a PROPERTY of a run: `Extraction` implements `CallSpec`
(`ImplementsCalls`), `Convert` implements `BatchSpec`, `WfmOpen` implements
`OpenSpec`, `RsPair` implements `WfmFile`. All four are also proved, without the
liveness in the second and the third.

## 4. Proofs

Eight modules hold theorems. Each inductive invariant is a conjunction of named
parts, each action has its lemma, and the last step of a theorem is temporal.
Constants are arbitrary but for the named assumptions, which TLC evaluates in
the runs that extend the module.

### Concurrent extraction: `ExtractionProofs`

For any set of threads, workers, handles and requests, any threshold and any
number of slots:

| Theorem | States |
|---|---|
| `TypeCorrect` | `Safety => []TypeOK` |
| `Replies` | `Safety => []ReplyCorrect` |
| `Borrowed` | `Safety => []WorkIsBorrowed` |
| `Implements` | `Safety => ImplementsCalls`, the refinement of `CallSpec` |
| `Once` | `Safety => []EachIndexOnce` |
| `StackWaits` | `Safety => []BelowTopWaits` |
| `Stay` | `Safety => ResultsStay` |
| `NoDeadlock` | `Safety => []NeverStuck`: while a call runs, it can be answered or a worker can take a step |
| `ConcurrentWindows` | `Safety => []RepliesFit`, of `Held` handles: the slices threads get fit the whole channel, and a panic has one of three headers for its cause |

Assumptions: `SlotsAssumption` (no handle has more than `MaxSlots` slots),
`PlansAssumption` (slots are a sequence of numbers, and a plan asks for a
natural number of samples) and, for `NoDeadlock` alone, `WorkersAssumption` (the
pool has a worker). `PlansAssumption` holds of every handle that a file can be
opened to and of every call with `usize` arguments (`PlansOfHeld`).

`ReplyCorrect` is not inductive: nothing in it says why the results a finished
loop has collected are right. `IInv` adds it in six parts.

1. `CallsInv`: calls are well formed, and a running call has a mapped file.
2. `FramesInv`: an open loop belongs to a running call, is one that call opens
   (`LoopExists`), has its length, and everything stored in it is the value of
   its index (`Value`) at an index that can be done (`Good`); a panic mark has
   an index that cannot be done. `Good` and `Value` are defined from the
   request alone, so this says nothing about who did the work or when.
3. `LeavesInv`: leaves walk inside open loops.
4. `CoveredInv`: in a loop without a panic an index not stored yet is in a range
   left or ahead of a leaf. So a loop with neither is complete.
5. `NestedInv`: a running call that fans out keeps its loop over slots open,
   and the loop of a slot is open only under a leaf at that slot. So when the
   loop over slots is finished no nested loop is left behind.
6. `ReplyCorrect` itself.

The lemmas before it say what a complete loop collects: `DecodeLoopCollects` (a
decode loop yields what `DecodeWith` yields), `SlotLoopCollects` (a loop over
slots yields `AllChannels`) and `OneSlotAnswers` (a call without one). The
nested-panic case is in `JoinInv`: the child's mark has a cause, so the
sequential decode of that slot panics too, so the parent's mark has one.

`PoolInv` adds that what `CoveredInv` finds is in one place only: `AloneInv` (no
index belongs to two of a loop's ranges and leaves, and none of them is stored)
and `DepthsInv` (a worker's leaves have the depths of a stack).
`BelowTopWaits` needs the first: two leaves at one slot could collect each
other's loop. `NoDeadlock` follows from all of them. A worker with leaves has one on top
(`HasTop`, by counting depths). A leaf on top that cannot go on waits for a loop
over samples, and that loop has a range left or a leaf that can go on
(`TopGoesOn`): loops over samples wait for nothing. So if no leaf can go on,
every worker is free to take a range, and there is one.

`ConcurrentWindows` joins this with `HandleProofs`, which it instances: by
`Replies` a thread is told what a sequential call returns, by `WindowOfWhole` and
`CauseOfPanic` that is a window of the whole channel, its error or one of the
known panics. Its hypothesis is that the handles are `Held`, as everything open
returns is (lemma `Opened`), and that arguments are `usize` or absent.

### Handles: `HandleProofs`

For any set of files of the eleven families and any start and length:

| Theorem | States |
|---|---|
| `TypeCorrect` | `[]TypeOK`: header ranges, and tables as wide as their rows |
| `Windows` | `[]WindowsInFile` |
| `Panics` | `[]PanicsOnlyOn` |
| `Slices` | `[]SliceIsWindow` |
| `ChecksSuffice` | `[]OpenChecksSuffice` |
| `Agreement` | `[]AnswersAgree` |
| `TimesAgree` | `[]RowTimes` |
| `ColumnsAgree` | `[]ColumnsAreChannels` |
| `InfoTells` | `[]InfoPredictsRows` |
| `BytesOnce` | `[]EveryByteOnce` |

Assumptions: `FilesAssumption` (`FileShape`: each header field has the width it
is read with; nothing relates two fields, or a field to the size of the file),
`ArgumentsAssumption` (start and length are `usize` or absent),
`WidthAssumption`, `HeaderSizeAssumption`, `ThresholdAssumption`.

A handle does not change, so the invariant only says where it comes from
(`HandleInv`); the work is in three steps. `Held` is what opening establishes
for each family, beyond the ranges of `FileShape`: the checks and the
normalisations. `Prepared` says what the eleven `Prepare...` make of a held
header: the same error for every slice, or a plan that is `Sound` (its buffers
lie in the file, its index closure steps over whole samples, no sample ends
behind its buffer but the last of an odd interwoven DS2000) and for a slice the
same plan with another window. `Answered` says what decoding makes of a sound
plan: whichever of the three paths `decode_with` takes, the per-element loop's
result, because a closure that is the identity at 0 and 1 is the identity. From
these each theorem follows by arithmetic; `PlanOf` and `Decodable` collect, per
family, which channels have a plan and with which calibration. `EveryByteOnce`
needs to know where the samples are: a whole channel is a `Grid`, samples at even
distances no smaller than a sample, so a byte tells its sample (`GridOnce`, a
bijection); and two channels are lanes of one step (`LanesApart`) or blocks one
after the other (`BlocksApart`), in each family by how it numbers its channels.

### `wfm-oxide convert`: `ConvertProofs`

For any set of command lines and disks, any number of inputs and of runs:

| Theorem | States |
|---|---|
| `TypeCorrect` | `Spec => []TypeOK` |
| `Success` | `Spec => []SuccessIsComplete` |
| `Replaces` | `Spec => OnlyDecodedReplaces` |
| `SafelyBatch` | `Spec => Batch!Safety`, the refinement of `BatchSpec` without its fairness |

Assumptions: `CommandsAssumption` (the argument parser asks for an input),
`DisksAssumption` (a disk says of every path a command may touch what is there)
and `RunsAssumption`.

`SuccessIsComplete` says nothing of a run that goes on. `IInv` adds which inputs
are settled (`ProgressInv`, `LoopInv`), that the input about to be written is a
good one (`DiskInv`), and that as long as nothing has failed every output so far
holds the last input written to it, unless it is the one being written
(`WrittenInv`, `Holds`). Outputs may collide and may be inputs; neither
assumption excludes it.

### Opening: `KeysightProofs`, `OpenProofs`

For Keysight files of any size with any sizes and counts in their headers:

| Theorem | States |
|---|---|
| `TypeCorrect` | `Spec => []TypeOK`: the cursor stays in the file |
| `WindowsApart` | `Spec => []PayloadsApart` |
| `WalkAnswersWhole` | `Spec => []AnswersWhole`: the walk ends in `OpenKeysight(Described(raw))` |

Assumptions: `RawsAssumption` (the reader meets as many records and buffers as
were declared, a file and a point count, an `i32`, are smaller than the address
space, and an `i32` taken as a `usize` is beyond the file's end or not negative)
and `WidthAssumption`.

`PayloadsApart` is not inductive: it says nothing of the cursor. `IInv` is
`CounterInv` (where the walk is, which counters are within which declared
counts) and `WindowInv`: every window kept lies behind the cursor (`Behind`),
those kept are apart, and the open record's choice lies behind those of earlier
records. Then a header is read at the cursor, so behind every window, and a
payload behind its header. `FittingSize` is the arithmetic heart: a size that
passes the checked addition is not negative.

`WalkInv` compares the walk with the file as a whole: the cursor is where
`RecAt` and `AfterBuffers` put it, all records so far are good (`GoodTo`), the
waveforms kept are those of the records so far (`WavesTo`), and the choice is
the first float or first logic buffer read (`Picked`). `RecAt` and
`AfterBuffers` are recursive functions; `Recursive`, `BuffersFollow` and
`RecordsFollow` unfold them, by induction over a set (below). `OpenedWhole` says
what `OpenKeysight` makes of the description: an error if it is `Bad`, else
`WavesTo` all its records; `BadHead`, `BadBuffer` and `BeyondEnd` give each
failure of the walk its reason there, `AllGood` the converse.

`OpenProofs`, for any captures:

| Theorem | States |
|---|---|
| `InFile` | `Opens => []StaysInFile` |
| `OneMark` | `Opens => []OneSignature` |
| `MarkDecides` | `Opens => []SignatureDecides` |
| `FirstHashIsCurve` | `Opens => []CurveFound` |
| `LowByteDecides` | `Opens => []ReadAsWritten` |
| `OneAnswer` | `Opens => Abstract!Safety`, the refinement of `OpenSpec`, but for the promise that an answer comes |
| `WalkedHandles` | what `HandleProofs` proves holds of every handle of a Keysight or DHO file with a body |

Assumption: `CapturesAssumption`. `MarkShape` and `RawShape` say what any mark and
any DHO file have; of a file with a body it says more, that it has its family's
mark and that no text search takes it. Such a file is what `ImplementsOpen`
speaks of; a file that a text search takes from its family is the case of
`MarkDecides`, which needs nothing of the kind.

* `SniffInv`: until somebody has claimed the file, the detector of the family
  whose mark it carries is still to be asked; the claim is then `Rightful`. Two
  marks differ in their first or third byte (`MarkByte`).
* `DhoInv` keeps the offset in the file, and `PlaceInv` says where the walk is:
  behind the blocks it has read (`Ends`), then behind zeros. So the section is
  found where the first byte that is not zero is, and the walk's answer is
  `Faithful` to the file as a whole. `ReadAsWritten` is then arithmetic on
  little-endian numbers, one byte shifted (`LittleEndian`, `NumbersBack`).
* `ClaimInv`: a file with a body is claimed by its family's detector and by none
  before it; a DHO file too short for the detector is refused by all that
  follow.
* `OneAnswer` needs all of these and `WalkInv`: an answer once there stays, and
  it is among the `Outcomes` of the file (`AnswerOfKeysight`, `AnswerOfDho`,
  `AnswerOfMark`).
* `WalkedHandles` hands the answer on to the decodes. It instances
  `HandleProofs` with a handle that is there once the walk has ended well
  (`TheHandle`) and shows that it is `Held`: a Keysight walk's windows end in the
  file and have one of the two kinds that can be read (`KeptInv`, `WalkedKeysight`),
  and the bytes a DHO walk has read describe a file of `FileShape`, which
  `OpenDho` makes a `Held` handle of (`WalkedDho`).

### R&S pairs: `RsPairProofs`

For any sessions of captures:

| Theorem | States |
|---|---|
| `TypeCorrect` | `Spec => []TypeOK` |
| `Torn` | `Spec => []TornPayloadRefused` |
| `Reads` | `Spec => []TornXmlReads` |
| `Quiet` | `Spec => []QuietOpen` |
| `Implements` | `Spec => ImplementsWfmFile`, the refinement of `WfmFile` |
| `MixedPairs` | what `HandleProofs` proves holds of every handle of a cut or mixed pair |

Assumption: `SessionsAssumption` (`CaptureShape`: fields have the widths they
are written with, and a payload is smaller than the address space). `FilesInv`
says how far apart the two files can be, `ReaderInv` what the reader has seen of
them, `QuietInv` that with nothing written since the sniff it has seen what is
there. `MixedPairs` instances `HandleProofs` with the files that pairs describe,
proves its assumptions of them (`PairsAreFiles`) and every behaviour one of its
(`IsPairHandle`).

### Exports: `WriterProofs`

For any tables of any number of channels and rows, any capacity of the buffer,
any alignment, any largest header and any piece the disk takes of a write:

| Theorem | States |
|---|---|
| `TypeCorrect` | `Spec => []TypeOK`: file and buffer together are what the calls so far wrote |
| `Torn` | `Spec => []TornNpyIsShort` |
| `ReadsBack` | `Spec => []NpyReadsBack` |
| `LinesAreRows` | `Spec => []CsvLinesAreRows` |

Assumptions: `JobsAssumption` (a table has a format, a list of channels, a number
of rows, and a time column or none) and `SizesAssumption` (the four sizes are
positive numbers).

None of the last three is inductive: each speaks of the file, and what comes
into it next is in the buffer. `IInv` says it of both while the writer runs:
file and then buffer are what the calls so far wrote (`Written`), also after an
error. However it ended, the file is the older export, untouched, or a beginning
of the image of the table (`Begun`, by `Begins`); a finished one is all of it
(`Whole`), and its header fits the length field (`Short`). The properties then
are facts about images and their beginnings.

* `Torn`: the image is 10 + `HeaderLen` bytes and then as many as dtype and shape
  declare (`DeclaredSize`), so a beginning of the declared length is the image.
* `ReadsBack`: the pieces of the payload before a cell add up to the offset that
  the declaration gives it, a row having the bytes of an item, also with fields of
  two widths (`CellBytes`); without a time column a cell is an item (`Untimed`).
* `LinesAreRows`: `LineEndsAt` says where the line ends of the image are and
  `FinishedLines` that those of a beginning are the first ones; a line is what
  lies between two of them.

Calls and images are `FlattenSeq`s, sums and digits are recursive functions. What
such a fold yields is shown by induction over a set of lengths (below):
`Flattened` gives `FlattenSeq` its equation, `FlattenAppend`, `FlattenConcat`,
`FlattenSplit` and `FlattenNested` say how it meets the operators on sequences,
`FlatAt` which byte is at a position, `SumUpto` and `EqualPieces` what lengths add
up to.

### Facts about numbers: `OrderProofs`

The library's induction theorems take an operator as a parameter, which the
installed provers cannot instantiate. Induction over a *set* needs none: a set
of naturals that is not empty has a least member (`Least`, from the library's
theorem on well-founded relations), and a set that has 0 and with each number
the next one has all (`SetInduction`). So a recursive function has its equation
at every number (`Recursive`), and two with the same equation agree
(`SameRecursion`). The other lemmas say what `InOrder`, and `CHOOSE` of a least
member, return.

### Only model-checked

* Liveness: `CallsReturn`, `Ends`, the promise of an answer in `ImplementsOpen`
  and the fairness conjunct of `ImplementsBatch`, whose safety is proved. The
  prover knows neither fairness nor `ENABLED`.

What the numbers in the file's text are (formatting), and the `f32` arithmetic of
calibration, are in no module and so in no proof (section 6).

The SMT backend of this version of `tlapm` encodes the domain of a sequence by an
equivalence, `DOMAIN s = 1 .. Len(s)`, that it also reads from right to left, of
functions that are no sequences. All proofs here were checked a second time with
that axiom weakened to its sound direction; none rests on the other one.

## 5. Where code and documentation disagree

Each is a run with one property that fails.

* `positions`: `mmap.rs:423` says position i of `extract_all_channels` is
  channel i+1; for R&S, Keysight and LeCroy it is the i-th active channel
  (`parser.rs:47-82`).
* `time_axis`: `src/README.md:114` says the axis is as long as the data;
  `lib.rs:84` takes a declared Keysight count the decode then cuts
  (`parser.rs:313`).
* `unreachable_arm`: `main.rs:236` is reached by a batch with `--format` and
  neither `--output` nor `--out-dir`.
* `output_names`: `main.rs:37` promises `<out-dir>/<stem>.<ext>`;
  `with_extension` on the stem (`main.rs:234`) cuts it at its last dot, so
  `run.1.wfm` and `run.2.wfm` both become `run.csv`.

Two smaller ones are in the model without a run of their own:
`rohde_schwarz.rs:185` speaks of the first kilobyte where the code takes 4096
bytes (`rohde_schwarz.rs:189`) and does not recognise an XML in which that cut
splits a character (`Sniff!CutInside`); and `.ok()` in `parser.rs:26` makes a
channel that fails to decode `None` (`Handle!AllChannels`), where
`src/README.md:123` says `None` is never a soft error.

## 6. What is not modelled

* `f32` calibration arithmetic, the offsets of fields inside a header, the text
  of messages and of numbers: no control depends on them.
* The key/value text of an ISF header and the attribute scanner of `parse_xml`,
  beyond which keys, tags and attributes are there; the model string of a DHO file.
* The Python wrapper: it forwards to the calls of `CallSpec`.
* A mapped file that its producer rewrites or truncates while a handle is open:
  the outcome is the operating system's.
* Python's reference counting, beyond that a running call keeps its handle.
* Rayon's choice among the schedules described in section 2, its deques and
  sleeping workers.
* Debug builds, in which the `u32` sums (and the digit count of ISF) panic
  instead of wrapping.

## 7. Plan

Everything named in section 2 is built and checked, and section 4 says what is
proved. What is left are the parts of section 6 that are this program's own: the
attribute scanner of `parse_xml` and the key/value text of an ISF header, each as
a machine over the characters it looks for, and the fixed layouts of `structs.rs`.
