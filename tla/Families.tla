------------------------------ MODULE Families ------------------------------
(***************************************************************************)
(* The eleven file families: the header accessors of structs.rs and the    *)
(* get_channel_data_* functions of parser.rs, up to the decode they start. *)
(*                                                                         *)
(* A handle w is an open WfmFile: w.fam the header variant, w.h the header *)
(* fields that decide control flow, w.size the length of the mapped file.  *)
(* Prepare(w, ch, start, length) is the plan handed to the decode, or the  *)
(* error, or the panic, that comes before it. Channels are 0-based, as     *)
(* channel_idx is in the code.                                             *)
(***************************************************************************)
EXTENDS Sample, Sequences, FiniteSets

CONSTANTS U32,        \* u32 sums wrap at U32 (2^32) in the release build
          USize       \* usize sums wrap at USize (2^64)

ASSUME WidthAssumption == U32 \in Nat \ {0} /\ USize \in Nat /\ USize > U32

Absent == -1                          \* Option::None of start and length
UnwrapOr(opt, default) == IF opt = Absent THEN default ELSE opt
Smaller(a, b) == IF a <= b THEN a ELSE b
MonusSat(a, b) == IF b <= a THEN a - b ELSE 0           \* saturating_sub

(* Variant: length is not cut to what remains. *)
ApplySliceUncut(total, start, length) ==
    LET s == Smaller(UnwrapOr(start, 0), total)
    IN  [start |-> s, len |-> UnwrapOr(length, total - s)]

(* Parser::apply_slice *)
ApplySlice(total, start, length) ==
    LET s   == Smaller(UnwrapOr(start, 0), total)
        rem == total - s
    IN  [start |-> s, len |-> Smaller(UnwrapOr(length, rem), rem)]

Buffer(off, len) == [off |-> off, len |-> len]

(* A plan over one buffer: samples at (start+i)*mul + add, in units of the *)
(* sample width once divided by div.                                       *)
Strided(buf, slice, ty, mul, add, div, cal) ==
    [tag |-> "plan",
     plan |-> [woven |-> FALSE, buf |-> buf, odd |-> buf, n |-> slice.len,
               ty |-> ty, cal |-> cal,
               idx |-> [start |-> slice.start, mul |-> mul, add |-> add,
                        div |-> div]]]
Packed(buf, slice, ty, cal) == Strided(buf, slice, ty, 1, 0, 1, cal)

(* The calibration is abstracted to the header entry it is computed from   *)
(* and to whether its sign is flipped.                                     *)
Cal(ch, inv) == [ch |-> ch, inv |-> inv]
NoEntry == -1                         \* the header has a single calibration

NotEnabled == Err("channel not enabled")
NoChannel  == Err("no such channel")
Overrun    == Err("payload overruns file")

-----------------------------------------------------------------------------
(* DS1000Z: flags is the set of bits of the flags byte, on the per-channel *)
(* enabled_val. Nothing in the format ties one to the other.               *)
Stride1000Z(h) == IF Cardinality(h.flags) = 3 THEN 4 ELSE Cardinality(h.flags)

(* Variant: three channels are taken to be three lanes wide. *)
Points1000ZThree(h) == IF h.flags = {} THEN 0 ELSE h.depth \div Cardinality(h.flags)
Points1000Z(h) == IF h.flags = {} THEN 0 ELSE h.depth \div Stride1000Z(h)

(* Variant: with two lanes, the channel's parity picks the lane. *)
Lane1000ZParity(h, ch) ==
    CASE Stride1000Z(h) = 2 -> 1 - (ch % 2)
      [] Stride1000Z(h) = 4 -> 4 - (ch + 1)
      [] OTHER              -> 0

Lane1000Z(h, ch) ==
    CASE Stride1000Z(h) = 2 -> IF h.flags \cap 0 .. ch - 1 = {} THEN 1 ELSE 0
      [] Stride1000Z(h) = 4 -> 4 - (ch + 1)
      [] OTHER              -> 0

Prepare1000Z(w, ch, start, length) ==
    LET h    == w.h
        data == (h.hoff + h.hsize) % U32
    IN  IF ch > 3 THEN NoChannel
        ELSE IF ~h.on[ch] THEN NotEnabled
        ELSE IF data + h.depth > w.size THEN Overrun
        ELSE Strided(Buffer(data, w.size - data),
                     ApplySlice(Points1000Z(h), start, length),
                     "U8", Stride1000Z(h), Lane1000Z(h, ch), 1,
                     Cal(ch, h.inv[ch]))

(* DS1000E: channel 2 follows channel 1, roll-stop padding included. *)
DataStart1000E == 276
Skip1000E(h)   == IF h.roll = 0 THEN 0 ELSE (h.roll + 2) % U32
Points1000E(h) == MonusSat(h.depth, Skip1000E(h))

Prepare1000E(w, ch, start, length) ==
    LET h      == w.h
        points == Points1000E(h)
        first  == IF h.on[0] THEN points + Skip1000E(h) ELSE 0
        data   == DataStart1000E + (IF ch = 0 THEN 0 ELSE first)
    IN  IF ch > 1 THEN NoChannel
        ELSE IF ~h.on[ch] THEN NotEnabled
        ELSE IF data + points > w.size THEN Overrun
        ELSE Packed(Buffer(data, w.size - data),
                    ApplySlice(points, start, length),
                    "U8", Cal(ch, h.inv[ch]))

(* DS2000: an interwoven capture alternates between the buffers of         *)
(* channels 1 and 2, each of raw_depth = wfm_len / 2 bytes.                *)
Prepare2000(w, ch, start, length) ==
    LET h     == w.h
        slice == ApplySlice(h.wlen, start, length)
        cal   == Cal(ch, h.inv[ch])
        At(k) == (h.offs[k] + h.zpt) % U32
        half  == h.wlen \div 2
    IN  IF ch > 3 THEN NoChannel
        ELSE IF ~h.on[ch] THEN NotEnabled
        ELSE IF h.woven
        THEN IF At(0) + half > w.size \/ At(1) + half > w.size THEN Overrun
             ELSE [tag |-> "plan",
                   plan |-> [woven |-> TRUE, buf |-> Buffer(At(0), half),
                             odd |-> Buffer(At(1), half), n |-> slice.len,
                             ty |-> "U8", cal |-> cal,
                             idx |-> [start |-> slice.start, mul |-> 1,
                                      add |-> 0, div |-> 1]]]
        ELSE IF At(ch) + h.wlen > w.size THEN Overrun
        ELSE Packed(Buffer(At(ch), h.wlen), slice, "U8", cal)

(* DS4000: on is the set of bits of enabled_mask. *)
Prepare4000(w, ch, start, length) ==
    LET h == w.h
    IN  IF ch > 3 THEN NoChannel
        ELSE IF ch \notin h.on THEN NotEnabled
        ELSE IF h.offs[ch] + h.depth > w.size THEN Overrun
        ELSE Packed(Buffer(h.offs[ch], h.depth),
                    ApplySlice(h.depth, start, length),
                    "U8", Cal(ch, h.inv[ch]))

(* Tektronix WFM: base is an i32, so a negative one is a huge usize and    *)
(* the sum wraps back into range.                                          *)
TekAt(h, field) == (h.base + field) % USize

PrepareTek(w, ch, start, length) ==
    LET h    == w.h
        from == TekAt(h, h.start)
        upto == TekAt(h, h.stop)
        ty   == CASE h.bpp = 1 -> "I8"
                  [] h.bpp = 2 -> IF h.le THEN "I16Le" ELSE "I16Be"
                  [] OTHER     -> IF h.le THEN "I32Le" ELSE "I32Be"
    IN  IF ch > 0 THEN NoChannel
        ELSE IF upto > w.size \/ from >= upto THEN Overrun
        ELSE IF h.bpp = 0 THEN Panic("attempt to divide by zero")
        ELSE IF h.bpp \notin {1, 2, 4} THEN Err("unsupported width")
        ELSE Packed(Buffer(from, upto - from),
                    ApplySlice((upto - from) \div h.bpp, start, length),
                    ty, Cal(NoEntry, FALSE))

(* Tektronix ISF *)
PrepareIsf(w, ch, start, length) ==
    LET h   == w.h
        buf == Buffer(h.off, w.size - h.off)
        ty  == IF h.byt = 1 THEN "I8" ELSE IF h.le THEN "I16Le" ELSE "I16Be"
    IN  IF ch > 0 THEN NoChannel
        ELSE IF h.off > w.size THEN Overrun
        ELSE IF h.byt = 0 THEN Panic("attempt to divide by zero")
        ELSE IF h.byt \notin {1, 2} THEN Err("unsupported width")
        ELSE Packed(buf,
                    ApplySlice(Smaller(h.pts, buf.len \div h.byt), start, length),
                    ty, Cal(NoEntry, FALSE))

(* DHO: n_ch interleaved u16 columns; cals[ch] says whose calibration      *)
(* block slot ch carries, or NoEntry.                                      *)
PrepareDho(w, ch, start, length) ==
    LET h     == w.h
        total == h.n * h.nch * 2
    IN  IF ch > 3 THEN NoChannel
        ELSE IF h.cals[ch] = NoEntry THEN NotEnabled
        ELSE IF h.data + total > w.size THEN Overrun
        ELSE Strided(Buffer(h.data, total), ApplySlice(h.n, start, length),
                     "U16Le", h.nch, ch, 1, Cal(h.cals[ch], FALSE))

(* Keysight: one waveform record per channel. *)
PrepareKeysight(w, ch, start, length) ==
    LET wf == w.h.wfs[ch + 1]
        ty == IF wf.kind = "float" THEN "F32Le" ELSE "U8"
    IN  IF ch >= Len(w.h.wfs) THEN NoChannel
        ELSE IF wf.off + wf.len > w.size THEN Overrun
        ELSE IF <<wf.kind, wf.bpp>> \notin {<<"float", 4>>, <<"logic", 1>>}
        THEN Err("buffer not supported")
        ELSE Packed(Buffer(wf.off, wf.len),
                    ApplySlice(Smaller(wf.pts, wf.len \div wf.bpp), start, length),
                    ty, Cal(NoEntry, FALSE))

(* Variant: the 0-based number is looked up among the 1-based ones. *)
EntriesZeroBased(chans, n) == {k \in 1 .. Len(chans) : chans[k].channel = n - 1}

(* The entry of a channel list that find(|c| c.channel == n) returns. *)
Entries(chans, n) == {k \in 1 .. Len(chans) : chans[k].channel = n}
FindChannel(chans, n) ==
    chans[CHOOSE k \in Entries(chans, n) : \A j \in Entries(chans, n) : k <= j]

(* Siglent: consecutive payloads of wave_length bytes. *)
PrepareSiglent(w, ch, start, length) ==
    LET h == w.h
        c == FindChannel(h.chans, ch + 1)
    IN  IF ch > 3 THEN NoChannel
        ELSE IF Entries(h.chans, ch + 1) = {} THEN NotEnabled
        ELSE IF c.off + h.wlen > w.size THEN Overrun
        ELSE Packed(Buffer(c.off, h.wlen), ApplySlice(h.wlen, start, length),
                    "U8", Cal(ch, FALSE))

(* LeCroy: one channel per file, under the number WAVE_SOURCE declared. *)
PrepareLecroy(w, ch, start, length) ==
    LET h  == w.h
        ty == IF h.width = 1 THEN "I8" ELSE IF h.le THEN "I16Le" ELSE "I16Be"
    IN  IF ch + 1 # h.channel THEN NoChannel
        ELSE IF h.off + h.len > w.size THEN Overrun
        ELSE Packed(Buffer(h.off, h.len), ApplySlice(h.pts, start, length),
                    ty, Cal(NoEntry, FALSE))

(* Rohde & Schwarz: rows of row_stride bytes after an 8-byte header and    *)
(* the leading-settling rows; the closure divides a byte offset by bps.    *)
RsType == [int8 |-> "I8", int16 |-> "I16Le", float32 |-> "F32Le", xy |-> "F32Le"]

PrepareRs(w, ch, start, length) ==
    LET h    == w.h
        c    == FindChannel(h.chans, ch + 1)
        data == 8 + h.lead * h.stride
        rows == h.rec * h.stride
    IN  IF Entries(h.chans, ch + 1) = {} THEN NotEnabled
        ELSE IF data + rows > w.size THEN Overrun
        ELSE Strided(Buffer(data, rows), ApplySlice(h.rec, start, length),
                     RsType[h.fmt], h.stride, h.prefix + c.slot * h.bps, h.bps,
                     Cal(c.slot, FALSE))

(* WfmFile::extract_channel dispatches on the header variant. *)
Prepare(w, ch, start, length) ==
    CASE w.fam = "Ds1000z"      -> Prepare1000Z(w, ch, start, length)
      [] w.fam = "Ds1000e"      -> Prepare1000E(w, ch, start, length)
      [] w.fam = "Ds2000"       -> Prepare2000(w, ch, start, length)
      [] w.fam = "Ds4000"       -> Prepare4000(w, ch, start, length)
      [] w.fam = "Tektronix"    -> PrepareTek(w, ch, start, length)
      [] w.fam = "Isf"          -> PrepareIsf(w, ch, start, length)
      [] w.fam = "Dho"          -> PrepareDho(w, ch, start, length)
      [] w.fam = "Keysight"     -> PrepareKeysight(w, ch, start, length)
      [] w.fam = "Siglent"      -> PrepareSiglent(w, ch, start, length)
      [] w.fam = "Lecroy"       -> PrepareLecroy(w, ch, start, length)
      [] w.fam = "RohdeSchwarz" -> PrepareRs(w, ch, start, length)

(* get_channel_data_*: prepare, then decode. *)
ChannelData(w, ch, start, length) ==
    LET r == Prepare(w, ch, start, length)
    IN  IF r.tag = "plan" THEN DecodeWith(r.plan) ELSE r
=============================================================================
