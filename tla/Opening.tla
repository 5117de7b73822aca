------------------------------- MODULE Opening ------------------------------
(***************************************************************************)
(* What WfmFile::open makes of a file once its family is known: the checks *)
(* and normalisations each parser does before a handle exists. A file f    *)
(* has f.fam, f.size and f.h, the fields as they are stored; the handle    *)
(* has the fields as the header structs keep them.                         *)
(***************************************************************************)
EXTENDS Families, Order

CONSTANT SiglentHeaderSize           \* HEADER_SIZE, 0x800 in the code

ASSUME HeaderSizeAssumption == SiglentHeaderSize \in Nat

Channels == 0 .. 3

(* The families whose fixed-layout header is read as it stands. *)
AsStored == {"Ds1000z", "Ds1000e", "Ds2000", "Ds4000", "Tektronix", "Isf"}
AllFamilies == AsStored \cup {"Dho", "Keysight", "Siglent", "Lecroy", "RohdeSchwarz"}

(* Of n active slots each has a calibration, its own or the first found.   *)
SlotCal(blocks, n, c) ==
    LET found == {d \in Channels : blocks[d] # NoEntry}
        first == CHOOSE d \in found : \A e \in found : d <= e
    IN  IF c >= n THEN NoEntry
        ELSE IF blocks[c] # NoEntry THEN blocks[c] ELSE blocks[first]

(* dho::parse, once the blocks are walked: h.blocks[c] is the calibration  *)
(* that the blocks give slot c, or NoEntry.                                *)
OpenDho(f) ==
    LET h == f.h
    IN  IF \A c \in Channels : h.blocks[c] = NoEntry THEN Err("no calibration")
        ELSE IF h.n = 0 \/ h.nch \notin 1 .. 4 THEN Err("data shape invalid")
        ELSE IF h.n > (f.size - h.data) \div (2 * h.nch) THEN Overrun
        ELSE Ok([fam |-> f.fam, size |-> f.size,
                 h |-> [n |-> h.n, nch |-> h.nch, data |-> h.data,
                        cals |-> [c \in Channels |-> SlotCal(h.blocks, h.nch, c)]]])

(* keysight::parse: of each record's buffers the first float one, or else  *)
(* the first logic one; records with neither are dropped. intact says that *)
(* the counts and header sizes met on the way are plausible.               *)
(* Variant: the width is left to the decode to check. *)
SupportedAnyWidth(b) == b.kind \in {"float", "logic"}
Supported(b) == <<b.kind, b.bpp>> \in {<<"float", 4>>, <<"logic", 1>>}
OfKind(bufs, kind) == {k \in 1 .. Len(bufs) :
                            Supported(bufs[k]) /\ bufs[k].kind = kind}
Chosen(bufs) ==
    LET best == IF OfKind(bufs, "float") # {} THEN OfKind(bufs, "float")
                ELSE OfKind(bufs, "logic")
    IN  bufs[CHOOSE k \in best : \A j \in best : k <= j]
HasSupported(wf) == \E k \in 1 .. Len(wf.bufs) : Supported(wf.bufs[k])

OpenKeysight(f) ==
    LET wfs  == f.h.wfs
        kept == InOrder({k \in 1 .. Len(wfs) : HasSupported(wfs[k])})
    IN  IF \/ ~f.h.intact
           \/ \E k \in 1 .. Len(wfs) :
              \/ wfs[k].pts <= 0
              \/ wfs[k].bufs = <<>>
              \/ \E b \in 1 .. Len(wfs[k].bufs) :
                    wfs[k].bufs[b].off + wfs[k].bufs[b].len > f.size
        THEN Err("implausible record")
        ELSE Ok([fam |-> f.fam, size |-> f.size,
                 h |-> [timed |-> f.h.timed,
                        wfs |-> [k \in 1 .. Len(kept) |->
                           LET b == Chosen(wfs[kept[k]].bufs)
                           IN  [pts |-> wfs[kept[k]].pts, off |-> b.off,
                                len |-> b.len, kind |-> b.kind,
                                bpp |-> b.bpp]]]])

(* siglent::looks_like_siglent and parse: enabled channels' payloads follow *)
(* one another after the header.                                            *)
OpenSiglent(f) ==
    LET h  == f.h
        on == InOrder({c \in Channels : h.on[c] = 1})
    IN  IF \/ f.size < SiglentHeaderSize
           \/ \E c \in Channels : h.on[c] > 1
           \/ on = <<>>
           \/ h.wlen = 0
           \/ SiglentHeaderSize + h.wlen * Len(on) > f.size
        THEN Err("not a Siglent capture")
        ELSE Ok([fam |-> f.fam, size |-> f.size,
                 h |-> [wlen |-> h.wlen,
                        chans |-> [k \in 1 .. Len(on) |->
                            [channel |-> on[k] + 1,
                             off |-> SiglentHeaderSize + (k - 1) * h.wlen]]]])

(* Variant: WAVE_SOURCE is trusted. *)
LecroyTrusted(source) == source + 1
(* WAVE_SOURCE is 0..3 for the analogue inputs, otherwise channel 1 is meant. *)
LecroyChannel(source) == IF source \in 0 .. 3 THEN source + 1 ELSE 1

(* lecroy::parse: an out-of-range WAVE_SOURCE becomes channel 1, and the   *)
(* sample count never exceeds what the payload holds.                      *)
OpenLecroy(f) ==
    LET h == f.h
    IN  IF h.width \notin {1, 2} THEN Err("unknown COMM_TYPE")
        ELSE IF h.off + h.len > f.size THEN Overrun
        ELSE Ok([fam |-> f.fam, size |-> f.size,
                 h |-> [channel |-> LecroyChannel(h.source),
                        off |-> h.off, len |-> h.len, width |-> h.width,
                        le |-> h.le, timed |-> h.timed,
                        pts |-> Smaller(h.count, h.len \div h.width)]])

(* rohde_schwarz::open and the tail of parse_xml: the XML's counts are cut *)
(* to the payload header's hw record length, each on its own; slots are    *)
(* given to the active channels in order.                                  *)
RsBytes  == [int8 |-> 1, int16 |-> 2, float32 |-> 4, xy |-> 4]
RsPrefix(fmt) == IF fmt = "xy" THEN 8 ELSE 0

(* Variant: the payload is measured by the XML's record length. *)
PayloadFitsRec(h, stride, size) == 8 + stride * h.rec <= size
PayloadFits(h, stride, size)    == 8 + stride * h.hw <= size

OpenRs(f) ==
    LET h      == f.h
        bps    == RsBytes[h.fmt]
        stride == RsPrefix(h.fmt) + Len(h.active) * bps
    IN  IF f.size < 8 \/ h.hw = 0 \/ h.active = <<>> THEN Err("bad R&S pair")
        ELSE IF ~PayloadFits(h, stride, f.size) THEN Overrun
        ELSE Ok([fam |-> f.fam, size |-> f.size,
                 h |-> [fmt |-> h.fmt, bps |-> bps, prefix |-> RsPrefix(h.fmt),
                        stride |-> stride, timed |-> h.timed,
                        rec |-> Smaller(h.rec, h.hw),
                        lead |-> Smaller(h.lead, h.hw),
                        chans |-> [k \in 1 .. Len(h.active) |->
                            [channel |-> h.active[k], slot |-> k - 1]]]])

(* WfmFile::open, from the family on. *)
OpenFile(f) ==
    CASE f.fam \in AsStored       -> Ok(f)
      [] f.fam = "Dho"            -> OpenDho(f)
      [] f.fam = "Keysight"       -> OpenKeysight(f)
      [] f.fam = "Siglent"        -> OpenSiglent(f)
      [] f.fam = "Lecroy"         -> OpenLecroy(f)
      [] f.fam = "RohdeSchwarz"   -> OpenRs(f)
=============================================================================
