------------------------------- MODULE WfmFile ------------------------------
(***************************************************************************)
(* The life of a WfmFile: a handle is opened on some file of Files, asked  *)
(* any of its questions, and dropped. The properties relate the answers of *)
(* different operations to each other and to the opened file.              *)
(***************************************************************************)
EXTENDS Table

CONSTANTS Files,      \* the files that may be opened
          Starts,     \* values of the start argument, Absent among them
          Lengths     \* values of the length argument, Absent among them

U32s   == 0 .. U32 - 1
Usizes == 0 .. USize - 1

(* A file on disk: nothing is known of the numbers in its header but the   *)
(* width each is read with (structs.rs, and the parsers of the families    *)
(* that have one); an enabled_val or a flag bit is there for each channel, *)
(* and an R&S export has the channels CH1 to CH4.                          *)
FileShape(f) ==
    /\ f.fam \in AllFamilies /\ f.size \in Usizes
    /\ LET h == f.h IN
       /\ f.fam = "Ds1000z" =>
            /\ h.flags \subseteq Channels /\ h.on \in [Channels -> BOOLEAN]
            /\ h.depth \in U32s /\ h.hoff \in U32s /\ h.hsize \in U32s
       /\ f.fam = "Ds1000e" =>
            h.on \in [0 .. 1 -> BOOLEAN] /\ h.depth \in U32s /\ h.roll \in U32s
       /\ f.fam = "Ds2000" =>
            /\ h.on \in [Channels -> BOOLEAN] /\ h.woven \in BOOLEAN
            /\ h.offs \in [Channels -> U32s] /\ h.zpt \in U32s /\ h.wlen \in U32s
       /\ f.fam = "Ds4000" =>
            /\ h.on \subseteq Channels
            /\ h.offs \in [Channels -> U32s] /\ h.depth \in U32s
       /\ f.fam = "Tektronix" =>
            /\ h.base \in Int /\ h.start \in U32s /\ h.stop \in U32s
            /\ h.bpp \in U32s /\ h.le \in BOOLEAN
       /\ f.fam = "Isf" =>
            /\ h.off \in Usizes /\ h.pts \in U32s /\ h.byt \in U32s /\ h.le \in BOOLEAN
       /\ f.fam = "Dho" =>
            /\ h.blocks \in [Channels -> Nat \cup {NoEntry}]
            /\ h.n \in Usizes /\ h.nch \in Usizes /\ h.data \in Usizes
       /\ f.fam = "Keysight" =>
            /\ h.intact \in BOOLEAN /\ Len(h.wfs) \in Nat
            /\ \A k \in 1 .. Len(h.wfs) :
                 /\ h.wfs[k].pts \in Int /\ h.wfs[k].pts < USize
                 /\ Len(h.wfs[k].bufs) \in Nat
                 /\ \A b \in 1 .. Len(h.wfs[k].bufs) :
                      h.wfs[k].bufs[b].off \in Usizes /\ h.wfs[k].bufs[b].len \in Usizes
       /\ f.fam = "Siglent" => h.on \in [Channels -> U32s] /\ h.wlen \in U32s
       /\ f.fam = "Lecroy" =>
            /\ h.source \in Int /\ h.width \in Int /\ h.le \in BOOLEAN
            /\ h.off \in Usizes /\ h.len \in Usizes /\ h.count \in Usizes
       /\ f.fam = "RohdeSchwarz" =>
            /\ h.fmt \in DOMAIN RsBytes /\ h.active \in Seq(1 .. 4)
            /\ h.hw \in U32s /\ h.rec \in Usizes /\ h.lead \in Usizes

ASSUME FilesAssumption == \A f \in Files : FileShape(f)
ASSUME ArgumentsAssumption == Starts \cup Lengths \subseteq Usizes \cup {Absent}

VARIABLES handle      \* Closed, or the outcome of the last open

vars == <<handle>>

Closed == [tag |-> "closed"]

Init == handle = Closed

Open(f) ==
    /\ handle = Closed
    /\ handle' = OpenFile(f)

Drop ==
    /\ handle # Closed
    /\ handle' = Closed

Next == (\E f \in Files : Open(f)) \/ Drop

Spec == Init /\ [][Next]_vars

-----------------------------------------------------------------------------
(* What the answers of one handle must satisfy together.                   *)
IsOpen == handle.tag = "ok"
W      == handle.val
Asked  == 0 .. 4                    \* channels asked for, one beyond the last
Enabled(w) == {EnabledChannels(w)[k] : k \in 1 .. Len(EnabledChannels(w))}
Whole(w, ch) == ChannelData(w, ch, Absent, Absent)
Requests == [channel : {Absent, 0, 1, 4}, start : Starts, length : Lengths, time : {TRUE}]
Rectangular(t) ==
    /\ t.chans # <<>>
    /\ \A k \in Columns(t) : DOMAIN t.data[k] = 0 .. t.rows - 1
    /\ t.timed => t.times \in [0 .. t.rows - 1 -> 0 .. USize - 1]
TableOK(r) == r.tag = "ok" => Rectangular(r.val)

(* A handle is closed, failed or open; an open one of a family whose       *)
(* parser checks the payload has a well-formed header. A table made of it  *)
(* has as many cells in every column and in the time column as it has rows *)
(* (the writers index them all by row, main.rs:381, 443).                  *)
TypeOK ==
    /\ handle.tag \in {"closed", "err", "ok"}
    /\ IsOpen => /\ W.size \in Nat
                 /\ W.fam = "Dho" => W.h.cals \in [Channels -> Nat \cup {NoEntry}]
                 /\ W.fam = "Lecroy" => W.h.channel \in 1 .. 4
                 /\ \A q \in Requests : TableOK(TableOf(W, q))

(* Every slice of the mapped file that a decode is given lies in the file, *)
(* and what a DS1000Z decode reads lies in the depth the header declares   *)
(* although its slice runs on to the end of the file (parser.rs:526-534).  *)
WindowsInFile ==
    IsOpen => \A ch \in Asked, s \in Starts, l \in Lengths :
        LET r == Prepare(W, ch, s, l)
        IN  r.tag = "plan" =>
            /\ r.plan.buf.off + r.plan.buf.len <= W.size
            /\ r.plan.odd.off + r.plan.odd.len <= W.size
            /\ W.fam = "Ds1000z" =>
                 \A i \in 0 .. r.plan.n - 1 :
                    Where(r.plan, i).at + 1 <= W.h.depth

(* A slice is that window of the whole channel: same bytes, same order,    *)
(* same calibration, whichever of the fast path, the serial loop and the   *)
(* parallel loop each of the two decodes takes (sample.rs:81, 159).        *)
SliceIsWindow ==
    IsOpen => \A ch \in Asked :
        LET whole == Whole(W, ch)
        IN  \A s \in Starts, l \in Lengths :
            LET part == ChannelData(W, ch, s, l)
            IN  /\ whole.tag = "err" => part = whole
                /\ whole.tag = "ok" =>
                     LET cut == ApplySlice(Cardinality(DOMAIN whole.val), s, l)
                     IN  part = Ok([i \in 0 .. cut.len - 1 |->
                                        whole.val[cut.start + i]])

(* In the families that compute where a channel's samples are, no byte of  *)
(* the file is part of two samples, of one channel or of two: the lanes,   *)
(* columns and blocks of the enabled channels never overlap, though the    *)
(* DS1000Z flags and enabled_val may disagree and an R&S export may list a *)
(* channel twice (parser.rs:87-176, 230-272, 325-349, 503-600).            *)
LaidOut(w) == w.fam \in {"Ds1000z", "Ds1000e", "Dho", "Siglent", "RohdeSchwarz"}

BytesOf(v) == UNION {v[i].at .. v[i].at + BytesPerSample[v[i].ty] - 1 : i \in DOMAIN v}

EveryByteOnce ==
    IsOpen /\ LaidOut(W) =>
        LET data == {c \in Enabled(W) : Whole(W, c).tag = "ok"}
            Size(c) == Cardinality(BytesOf(Whole(W, c).val))
        IN  /\ \A c \in data : LET v == Whole(W, c).val IN
                   Cardinality(BytesOf(v)) =
                       Cardinality({p \in (DOMAIN v) \X (0 .. 3) :
                                        p[2] < BytesPerSample[v[p[1]].ty]})
            /\ \A c, d \in data :
                   c # d => BytesOf(Whole(W, c).val) \cap BytesOf(Whole(W, d).val) = {}

(* Extraction panics on exactly three headers a file may carry: a zero     *)
(* sample width in Tektronix WFM (parser.rs:483) or ISF (parser.rs:397),   *)
(* and an interwoven DS2000 capture of odd length when the slice reaches   *)
(* its last sample (parser.rs:449). No other header gets past the checks.  *)
PanicsOnlyOn ==
    IsOpen => \A ch \in Asked, s \in Starts, l \in Lengths :
        ChannelData(W, ch, s, l).tag = "panic" =>
            \/ W.fam = "Tektronix" /\ W.h.bpp = 0
            \/ W.fam = "Isf" /\ W.h.byt = 0
            \/ /\ W.fam = "Ds2000" /\ W.h.woven /\ W.h.wlen % 2 = 1
               /\ LET cut == ApplySlice(W.h.wlen, s, l)
                  IN  cut.start + cut.len = W.h.wlen

(* The checks a parser makes when it opens a file are enough for every     *)
(* enabled channel to be decoded later; R&S escapes when leading and       *)
(* record, each cut to the hw length, together exceed it                   *)
(* (rohde_schwarz.rs:117-118, parser.rs:118).                              *)
CheckedAtOpen(w) ==
    \/ w.fam \in {"Dho", "Siglent", "Lecroy", "Keysight"}
    \/ w.fam = "RohdeSchwarz" /\ 8 + (w.h.lead + w.h.rec) * w.h.stride <= w.size

OpenChecksSuffice ==
    IsOpen /\ CheckedAtOpen(W) =>
        \A ch \in Enabled(W), s \in Starts, l \in Lengths :
            ChannelData(W, ch, s, l).tag = "ok"

(* get_all_channels answers for the channels enabled_channels lists and    *)
(* for no other, metadata likewise, and the sign a decode applies is the   *)
(* inverted flag metadata reports. For DS1000Z the three read different    *)
(* fields (flags, enabled_val), so they agree only if those do.            *)
Consistent(w) == w.fam = "Ds1000z" => w.h.flags = {c \in Channels : w.h.on[c]}

AnswersAgree ==
    IsOpen /\ Consistent(W) =>
        LET all == AllChannels(W, Absent, Absent)
        IN  /\ all.tag = "ok" =>
                 {SlotChannels(W)[k] : k \in {j \in DOMAIN all.val : all.val[j].tag = "some"}}
                    = {c \in Enabled(W) : Whole(W, c).tag = "ok"}
            /\ \A c \in Channels : LET m == ChannelMetadata(W, c) IN
                 /\ W.fam # "Keysight" => (m.tag = "some" <=> c \in Enabled(W))
                 /\ m.tag = "some" /\ Whole(W, c).tag = "ok" =>
                      \A i \in DOMAIN Whole(W, c).val : Whole(W, c).val[i].cal = m.val

-----------------------------------------------------------------------------
(* What the command line makes of the same handle.                         *)

SameTimes(table, axis) ==
    table.tag = "ok" /\ table.val.timed /\ axis.tag = "ok" /\ axis.val # None =>
        \A i \in DOMAIN table.val.times :
            i \in DOMAIN axis.val.val => table.val.times[i] = axis.val.val[i]

(* The time column of an export and get_time_axis of the same slice give   *)
(* each sample the same time (main.rs:307, 373 and lib.rs get_time_axis):  *)
(* row i has the time of the sample that is in it, also when start is past *)
(* the end or so large that start + i would wrap. The two are computed     *)
(* from different counts, so one may be longer than the other.             *)
RowTimes ==
    IsOpen => \A q \in Requests :
        SameTimes(TableOf(W, q), GetTimeAxis(W, q.start, q.length))

SameColumns(table, all) ==
    /\ table.tag = "ok" /\ Consistent(W) =>
         /\ all.tag = "ok"
         /\ LET some == InOrder({k \in DOMAIN all.val : all.val[k] # None}) IN
                [k \in Columns(table.val) |-> Some(table.val.data[k])]
                    = [k \in DOMAIN some |-> all.val[some[k]]]
    /\ table = Err("lengths differ") => W.fam = "Keysight"

(* An export of every channel has the columns that get_all_channels gives  *)
(* the Python caller, in the same order; where that call makes a failing   *)
(* channel None, the export fails. For DS1000Z the lists come from         *)
(* different fields (flags, enabled_val) and agree only if those do. The   *)
(* refusal to mix channel lengths (main.rs:296-299) only ever concerns     *)
(* Keysight, whose records have counts of their own: the channels of every *)
(* other capture have the same length, whatever the slice.                 *)
ColumnsAreChannels ==
    IsOpen => \A q \in {r \in Requests : r.channel = Absent} :
        SameColumns(TableOf(W, q), AllChannels(W, q.start, q.length))

Predicts(line, table) ==
    table.tag = "ok" =>
        \/ table.val.rows = line.samples
        \/ LET wf == W.h.wfs[line.channel] IN
             /\ W.fam = "Keysight"
             /\ table.val.rows = wf.len \div wf.bpp /\ table.val.rows < line.samples

WholeOf(line) ==
    [channel |-> line.channel, start |-> Absent, length |-> Absent, time |-> FALSE]

(* info, which decodes nothing, tells what convert will find: a channel    *)
(* it lists converts to as many rows as channel_sample_count makes of the  *)
(* header, or fails, or panics; only a Keysight record whose buffer is     *)
(* short has fewer (main.rs:108-111, parser.rs:313, mmap.rs:703).          *)
InfoPredictsRows ==
    IsOpen => \A k \in DOMAIN InfoOf(W).lines :
        Predicts(InfoOf(W).lines[k], TableOf(W, WholeOf(InfoOf(W).lines[k])))

-----------------------------------------------------------------------------
(* Claims of the documentation that the code does not keep.                *)

(* mmap.rs:423 "Position i in the returned vec is None when channel i+1    *)
(* is not enabled".                                                        *)
PositionIsChannel ==
    IsOpen => LET all == AllChannels(W, Absent, Absent) IN
        all.tag = "ok" => \A k \in DOMAIN all.val :
            (k - 1) \notin Enabled(W) => all.val[k] = None

(* README.md:114 get_time_axis() is "same length as channel data".         *)
TimesMatchData ==
    IsOpen => \A s \in Starts, l \in Lengths :
        LET times == GetTimeAxis(W, s, l)
        IN  times.tag = "ok" /\ times.val # None =>
            \A ch \in Enabled(W) : LET v == ChannelData(W, ch, s, l) IN
                v.tag = "ok" => DOMAIN times.val.val = DOMAIN v.val
=============================================================================
