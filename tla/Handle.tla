------------------------------- MODULE Handle -------------------------------
(***************************************************************************)
(* The questions an open WfmFile answers: mmap.rs from enabled_channels on,*)
(* the get_all_channels dispatch of parser.rs and get_time_axis of lib.rs. *)
(* A handle is immutable, so each answer is an operator of it.             *)
(***************************************************************************)
EXTENDS Opening

None    == [tag |-> "none"]
Some(v) == [tag |-> "some", val |-> v]

(* 0-based channel numbers, in the order enabled_channels() lists them.    *)
EnabledChannels(w) ==
    LET h == w.h
    IN  CASE w.fam = "Ds1000z" -> InOrder(h.flags)
          [] w.fam = "Ds1000e" -> InOrder({c \in 0 .. 1 : h.on[c]})
          [] w.fam = "Ds2000"  -> InOrder({c \in Channels : h.on[c]})
          [] w.fam = "Ds4000"  -> InOrder(h.on)
          [] w.fam \in {"Tektronix", "Isf"} -> <<0>>
          [] w.fam = "Dho"     -> InOrder({c \in Channels : h.cals[c] # NoEntry})
          [] w.fam = "Keysight" -> [k \in 1 .. Len(h.wfs) |-> k - 1]
          [] w.fam = "Lecroy"  -> <<h.channel - 1>>
          [] w.fam \in {"Siglent", "RohdeSchwarz"} ->
                 [k \in 1 .. Len(h.chans) |-> h.chans[k].channel - 1]

(* The channel each position of get_all_channels is decoded from. *)
SlotChannels(w) ==
    CASE w.fam \in {"Ds1000z", "Ds2000", "Ds4000", "Dho", "Siglent"} -> <<0, 1, 2, 3>>
      [] w.fam = "Ds1000e" -> <<0, 1>>
      [] w.fam \in {"Tektronix", "Isf"} -> <<0>>
      [] w.fam \in {"Keysight", "Lecroy", "RohdeSchwarz"} -> EnabledChannels(w)

(* extract_all_channels: .ok() turns an error into None; a panic in one    *)
(* slot unwinds the whole call.                                            *)
AllChannels(w, start, length) ==
    LET slots == SlotChannels(w)
        r == [k \in 1 .. Len(slots) |-> ChannelData(w, slots[k], start, length)]
    IN  IF \E k \in 1 .. Len(slots) : r[k].tag = "panic"
        THEN Panic("a slot panicked")
        ELSE Ok([k \in 1 .. Len(slots) |->
                    IF r[k].tag = "ok" THEN Some(r[k].val) ELSE None])

CountIsf(w) ==
    Smaller(w.h.pts, MonusSat(w.size, w.h.off) \div (IF w.h.byt = 0 THEN 1 ELSE w.h.byt))

(* channel_sample_count *)
SampleCount(w, ch) ==
    LET h == w.h
        Known(n) == IF ch \in {EnabledChannels(w)[k] : k \in 1 .. Len(EnabledChannels(w))}
                    THEN Ok(n) ELSE NotEnabled
    IN  CASE w.fam = "Ds1000z" -> Known(Points1000Z(h))
          [] w.fam = "Ds1000e" -> Known(Points1000E(h))
          [] w.fam = "Ds2000"  -> Known(h.wlen)
          [] w.fam = "Ds4000"  -> Known(h.depth)
          [] w.fam = "Tektronix" ->
                 LET from == TekAt(h, h.start)
                     upto == TekAt(h, h.stop)
                 IN  IF ch > 0 THEN NoChannel
                     ELSE IF h.bpp = 0 \/ upto <= from THEN Overrun
                     ELSE Ok((upto - from) \div h.bpp)
          [] w.fam = "Isf"      -> IF ch > 0 THEN NoChannel ELSE Ok(CountIsf(w))
          [] w.fam = "Dho"      -> Known(h.n)
          [] w.fam = "Keysight" -> IF ch >= Len(h.wfs) THEN NoChannel
                                   ELSE Ok(h.wfs[ch + 1].pts)
          [] w.fam = "Siglent"  -> Known(h.wlen)
          [] w.fam = "Lecroy"   -> Known(h.pts)
          [] w.fam = "RohdeSchwarz" -> Known(h.rec)

(* channel_metadata, reduced to the header entry it reads and its sign. *)
ChannelMetadata(w, ch) ==
    LET h == w.h
    IN  IF ch \notin Channels THEN None
        ELSE CASE w.fam = "Ds1000z" ->
                    IF ch \in h.flags THEN Some(Cal(ch, h.inv[ch])) ELSE None
               [] w.fam = "Ds1000e" ->
                    IF ch > 1 THEN None
                    ELSE IF h.on[ch] THEN Some(Cal(ch, h.inv[ch])) ELSE None
               [] w.fam = "Ds2000" ->
                    IF h.on[ch] THEN Some(Cal(ch, h.inv[ch])) ELSE None
               [] w.fam = "Ds4000" ->
                    IF ch \in h.on THEN Some(Cal(ch, h.inv[ch])) ELSE None
               [] w.fam \in {"Tektronix", "Isf"} ->
                    IF ch = 0 THEN Some(Cal(NoEntry, FALSE)) ELSE None
               [] w.fam = "Dho" ->
                    IF h.cals[ch] = NoEntry THEN None
                    ELSE Some(Cal(h.cals[ch], FALSE))
               [] w.fam = "Keysight" -> None
               [] w.fam = "Siglent" ->
                    IF Entries(h.chans, ch + 1) = {} THEN None
                    ELSE Some(Cal(ch, FALSE))
               [] w.fam = "Lecroy" ->
                    IF h.channel = ch + 1 THEN Some(Cal(NoEntry, FALSE)) ELSE None
               [] w.fam = "RohdeSchwarz" ->
                    IF Entries(h.chans, ch + 1) = {} THEN None
                    ELSE Some(Cal(FindChannel(h.chans, ch + 1).slot, FALSE))

(* time_axis().is_some(): timed stands for a positive stored rate or step. *)
HasTimeAxis(w) ==
    CASE w.fam = "Ds1000z"  -> w.h.timed /\ w.h.flags # {}
      [] w.fam = "Keysight" -> w.h.wfs # <<>> /\ w.h.timed
      [] w.fam = "RohdeSchwarz" -> w.h.rec # 0 /\ w.h.timed
      [] w.fam \in {"Ds2000", "Ds4000", "Isf", "Lecroy"} -> w.h.timed
      [] w.fam \in {"Dho", "Siglent"} -> TRUE
      [] w.fam \in {"Ds1000e", "Tektronix"} -> FALSE

(* lib.rs get_time_axis: the sample indices of the timestamps returned.    *)
GetTimeAxis(w, start, length) ==
    LET n == SampleCount(w, EnabledChannels(w)[1])
        s == ApplySlice(n.val, start, length)
    IN  IF ~HasTimeAxis(w) \/ EnabledChannels(w) = <<>> THEN Ok(None)
        ELSE IF n.tag # "ok" THEN n
        ELSE Ok(Some([i \in 0 .. s.len - 1 |-> s.start + i]))
=============================================================================
