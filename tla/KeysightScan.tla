---------------------------- MODULE KeysightScan ----------------------------
(***************************************************************************)
(* keysight::parse: one cursor walks the waveform records and, in each,    *)
(* the buffers. Every header states its own size and every buffer the size *)
(* of its payload, so where the next header is read depends on all that    *)
(* was read before it.                                                     *)
(*                                                                         *)
(* A raw file is its length, the declared number of records n and, as long *)
(* as the counts are plausible, the records and buffers a reader finds at  *)
(* the offsets the headers give. kind "other" is any buffer type but 1, 6. *)
(***************************************************************************)
EXTENDS Opening

CONSTANT Raws         \* the files that may be parsed

VARIABLES raw,        \* the mapped file
          pc,         \* "head", "record", "buffer" or "done"
          cursor,     \* c.position()
          k, b,       \* the waveform and the buffer read next, from 1
          chosen,     \* the best buffer of this record so far, or NoBuffer
          wfs,        \* the waveforms kept
          result      \* None yet, Ok(handle) or Err

vars == <<raw, pc, cursor, k, b, chosen, wfs, result>>

HeadSize     == 12
RecordMin    == 140
BufferMin    == 12
MaxWaveforms == 64
MaxBuffers   == 16

BufferHeaders == [hsize: Int, kind: {"float", "logic", "other"}, bpp: Int, size: Int]
RecordHeaders == [hsize: Int, nbufs: Int, pts: Int, bufs: Seq(BufferHeaders)]
RawFiles      == [size: Nat, n: Int, recs: Seq(RecordHeaders), timed: BOOLEAN]

(* The reader meets as many records and buffers as were declared. A file   *)
(* is mapped, and counts and sizes are i32s: none is beyond a usize, and a *)
(* negative buffer size taken as a usize is beyond the end of any file.    *)
ASSUME RawsAssumption ==
    /\ Raws \subseteq RawFiles
    /\ \A r \in Raws :
        /\ r.size < USize
        /\ r.n \in 0 .. MaxWaveforms => Len(r.recs) = r.n
        /\ \A i \in 1 .. Len(r.recs) : LET rec == r.recs[i] IN
            /\ rec.pts < USize
            /\ rec.nbufs \in 1 .. MaxBuffers => Len(rec.bufs) = rec.nbufs
            /\ rec.nbufs <= 0 => rec.bufs = <<>>
            /\ \A j \in 1 .. Len(rec.bufs) :
                    rec.bufs[j].size \in r.size - USize + 1 .. USize - 1

NoBuffer == [kind |-> "none"]
NoResult == [tag |-> "none"]

Begin ==
    /\ pc = "head" /\ cursor = 0 /\ k = 1 /\ b = 1
    /\ chosen = NoBuffer /\ wfs = <<>> /\ result = NoResult

Init == raw \in Raws /\ Begin

(* bail!, or read_exact at the end of the file *)
Fail ==
    /\ result' = Err("implausible record")
    /\ pc' = "done"
    /\ UNCHANGED <<raw, cursor, k, b, chosen, wfs>>

(* read_i32 at the cursor *)
Readable == cursor + 4 <= raw.size

ReadHead ==
    /\ pc = "head"
    /\ IF raw.size < HeadSize \/ raw.n \notin 0 .. MaxWaveforms THEN Fail
       ELSE /\ cursor' = HeadSize
            /\ pc' = "record"
            /\ UNCHANGED <<raw, k, b, chosen, wfs, result>>

Record == raw.recs[k]

(* Variant: where the header ends is not compared with the file.          *)
PlausibleRecordAnywhere(rec) ==
    rec.hsize >= RecordMin /\ rec.nbufs \in 1 .. MaxBuffers /\ rec.pts > 0
PlausibleRecord(rec) ==
    /\ rec.hsize >= RecordMin
    /\ cursor + rec.hsize <= raw.size
    /\ rec.nbufs \in 1 .. MaxBuffers
    /\ rec.pts > 0

ReadRecord ==
    /\ pc = "record" /\ k <= raw.n
    /\ IF ~Readable \/ ~PlausibleRecord(Record) THEN Fail
       ELSE /\ cursor' = cursor + Record.hsize
            /\ b' = 1
            /\ chosen' = NoBuffer
            /\ pc' = "buffer"
            /\ UNCHANGED <<raw, k, wfs, result>>

(* Variant: the end of the payload is computed with a wrapping addition. *)
FitsWrapping(at, size) == (at + size) % USize <= raw.size
(* data_start.checked_add(buffer_size): a negative size is a huge usize. *)
Fits(at, size) == at + (size % USize) <= raw.size

(* Float beats logic; among equals the first one read stays.              *)
(* Variant: whatever float comes last is taken. *)
UpgradesLast(buf) == Supported(buf) /\ (chosen = NoBuffer \/ buf.kind = "float")
Upgrades(buf) ==
    /\ Supported(buf)
    /\ \/ chosen = NoBuffer
       \/ chosen.kind # "float" /\ buf.kind = "float"

Window(buf, at) == [kind |-> buf.kind, bpp |-> buf.bpp, off |-> at, len |-> buf.size]

ReadBuffer ==
    /\ pc = "buffer" /\ b <= Record.nbufs
    /\ LET buf == Record.bufs[b]
           at  == cursor + buf.hsize
       IN  IF \/ ~Readable
              \/ buf.hsize < BufferMin
              \/ at > raw.size
              \/ ~Fits(at, buf.size)
           THEN Fail
           ELSE /\ chosen' = IF Upgrades(buf) THEN Window(buf, at) ELSE chosen
                /\ cursor' = at + buf.size
                /\ b' = b + 1
                /\ UNCHANGED <<raw, pc, k, wfs, result>>

(* A record without a supported buffer is dropped. *)
EndRecord ==
    /\ pc = "buffer" /\ b > Record.nbufs
    /\ wfs' = IF chosen = NoBuffer THEN wfs
              ELSE Append(wfs, [pts |-> Record.pts, off |-> chosen.off,
                                len |-> chosen.len, kind |-> chosen.kind,
                                bpp |-> chosen.bpp])
    /\ k' = k + 1
    /\ pc' = "record"
    /\ UNCHANGED <<raw, cursor, b, chosen, result>>

Finish ==
    /\ pc = "record" /\ k > raw.n
    /\ result' = Ok([fam |-> "Keysight", size |-> raw.size,
                     h |-> [timed |-> raw.timed, wfs |-> wfs]])
    /\ pc' = "done"
    /\ UNCHANGED <<raw, cursor, k, b, chosen, wfs>>

Next == ReadHead \/ ReadRecord \/ ReadBuffer \/ EndRecord \/ Finish

Spec == Init /\ [][Next]_vars /\ WF_vars(Next)

-----------------------------------------------------------------------------
(* The windows picked so far, the one of the open record last.             *)
Windows == IF pc = "buffer" /\ chosen # NoBuffer THEN Append(wfs, chosen) ELSE wfs

(* The cursor stays in the file, never before the last window, and the     *)
(* counters within what the header declares.                               *)
TypeOK ==
    /\ pc \in {"head", "record", "buffer", "done"}
    /\ cursor \in 0 .. raw.size
    /\ pc = "record" => k \in 1 .. raw.n + 1
    /\ pc = "buffer" => k \in 1 .. raw.n /\ b \in 1 .. Record.nbufs + 1
    /\ pc = "done" <=> result # NoResult

(* The payload windows that later decodes read lie in the file behind the  *)
(* headers, in file order and apart, and no header still to be read can    *)
(* lie in one of them: the cursor only ever moves past them, whatever the  *)
(* sizes in the headers, negative ones included (keysight.rs:228-259).     *)
PayloadsApart ==
    /\ \A i \in 1 .. Len(Windows) :
        /\ Windows[i].off >= HeadSize + RecordMin + BufferMin
        /\ Windows[i].len >= 0
        /\ Windows[i].off + Windows[i].len <= cursor
    /\ \A i, j \in 1 .. Len(Windows) :
        i < j => Windows[i].off + Windows[i].len < Windows[j].off

-----------------------------------------------------------------------------
(* The same file as a whole, for OpenKeysight: each header is where all    *)
(* sizes before it put it.                                                 *)
AfterBuffers(rec, at, j) ==
    LET after[m \in 0 .. j] ==
            IF m = 0 THEN at + rec.hsize
            ELSE after[m - 1] + rec.bufs[m].hsize + rec.bufs[m].size
    IN  after[j]
RecAt(recs, i) ==
    LET at[m \in 1 .. i] ==
            IF m = 1 THEN HeadSize
            ELSE AfterBuffers(recs[m - 1], at[m - 1], Len(recs[m - 1].bufs))
    IN  at[i]

Intact(r) ==
    /\ r.size >= HeadSize
    /\ r.n \in 0 .. MaxWaveforms
    /\ \A i \in 1 .. Len(r.recs) : LET rec == r.recs[i] IN
        /\ rec.hsize >= RecordMin
        /\ rec.nbufs <= MaxBuffers
        /\ \A j \in 1 .. Len(rec.bufs) :
              rec.bufs[j].hsize >= BufferMin /\ rec.bufs[j].size >= 0

Described(r) ==
    [fam |-> "Keysight", size |-> r.size,
     h |-> [intact |-> Intact(r), timed |-> r.timed,
            wfs |-> [i \in 1 .. Len(r.recs) |->
               LET rec == r.recs[i]
               IN  [pts |-> rec.pts,
                    bufs |-> [j \in 1 .. Len(rec.bufs) |->
                                [kind |-> rec.bufs[j].kind, bpp |-> rec.bufs[j].bpp,
                                 off |-> AfterBuffers(rec, RecAt(r.recs, i), j - 1)
                                         + rec.bufs[j].hsize,
                                 len |-> rec.bufs[j].size]]]]]]
=============================================================================
