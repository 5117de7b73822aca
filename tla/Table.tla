------------------------------- MODULE Table --------------------------------
(***************************************************************************)
(* What the command line makes of a capture (crates/wfm_oxide_cli): info   *)
(* lists its channels, and convert builds in memory the table that a       *)
(* writer then puts into a file. A request q has a 1-based channel, start  *)
(* and length, each possibly Absent, and time.                             *)
(***************************************************************************)
EXTENDS Handle

Columns(t) == 1 .. Len(t.chans)
Listed(w)  == {EnabledChannels(w)[k] : k \in 1 .. Len(EnabledChannels(w))}

-----------------------------------------------------------------------------
(* cmd_info: a count that fails is shown as 0, the capture line needs one. *)

(* Variant: the count of the first channel stands for all. *)
SamplesOfFirst(w, ch) ==
    LET n == SampleCount(w, EnabledChannels(w)[1]) IN IF n.tag = "ok" THEN n.val ELSE 0
Samples(w, ch) == LET n == SampleCount(w, ch) IN IF n.tag = "ok" THEN n.val ELSE 0
ChannelLine(w, ch) ==
    [channel |-> ch + 1, samples |-> Samples(w, ch), meta |-> ChannelMetadata(w, ch)]

InfoOf(w) ==
    LET on == EnabledChannels(w)
    IN  [lines |-> [k \in 1 .. Len(on) |-> ChannelLine(w, on[k])],
         capture |-> IF HasTimeAxis(w) /\ on # <<>> THEN Samples(w, on[1]) ELSE 0]

(* Variant: the columns are filled from the last channel back. *)
DataOfReversed(w, chosen, q) ==
    [k \in 1 .. Len(chosen) |->
        ChannelData(w, chosen[Len(chosen) + 1 - k], q.start, q.length)]
(* extract_channel of every column; the loop ends at the first failure.    *)
DataOf(w, chosen, q) ==
    [k \in 1 .. Len(chosen) |-> ChannelData(w, chosen[k], q.start, q.length)]

(* Variant: start is cut to the rows written. *)
TimesCut(rows, q) == [i \in 0 .. rows - 1 |-> Smaller(UnwrapOr(q.start, 0), rows) + i]
(* The sample index that each row's timestamp is computed from; the sum    *)
(* start_pt + i is a usize.                                                *)
Times(rows, q) == [i \in 0 .. rows - 1 |-> (UnwrapOr(q.start, 0) + i) % USize]

Rows(v) == Cardinality(DOMAIN v)
LengthsDiffer(data) == \E k \in 2 .. Len(data) : Rows(data[k].val) # Rows(data[1].val)

(* convert_one from the decoded columns on, up to the writers. *)
TableFrom(w, q, chosen, data) ==
    LET failed == {k \in 1 .. Len(chosen) : data[k].tag # "ok"}
        rows   == Rows(data[1].val)
        timed  == q.time /\ HasTimeAxis(w)
    IN  IF failed # {} THEN data[CHOOSE k \in failed : \A j \in failed : k <= j]
        ELSE IF LengthsDiffer(data) THEN Err("lengths differ")
        ELSE Ok([chans |-> chosen, rows |-> rows,
                 data  |-> [k \in 1 .. Len(chosen) |-> data[k].val],
                 timed |-> timed,
                 times |-> IF timed THEN Times(rows, q) ELSE <<>>])

(* Which channels convert_one decodes. *)
Requested(w, q) == IF q.channel = Absent THEN EnabledChannels(w) ELSE <<q.channel - 1>>

TableOf(w, q) ==
    IF EnabledChannels(w) = <<>> THEN Err("no enabled channels")
    ELSE IF q.channel # Absent /\ q.channel - 1 \notin Listed(w) THEN NotEnabled
    ELSE TableFrom(w, q, Requested(w, q), DataOf(w, Requested(w, q), q))
=============================================================================
