---------------------------- MODULE MCExtraction ----------------------------
(***************************************************************************)
(* Two threads and two workers on handles small enough to walk every       *)
(* interleaving: SerialThreshold = 2 makes a decode of two samples a loop. *)
(***************************************************************************)
EXTENDS Extraction, TLC

CONSTANTS t1, t2, w1, w2

Symmetric == Permutations({t1, t2}) \cup Permutations({w1, w2})

\* DS1000E: a nested loop of `depth` samples per channel that is on
DS1000E(on, depth) ==
    [fam |-> "Ds1000e", size |-> 276 + 2 * depth,
     h |-> [on |-> [c \in 0 .. 1 |-> c \in on], inv |-> [c \in 0 .. 1 |-> c = 1],
            depth |-> depth, roll |-> 0]]

\* DS2000, interwoven, of odd length: the last sample is out of bounds
DS2000(wlen) ==
    [fam |-> "Ds2000", size |-> 20,
     h |-> [on |-> [c \in Channels |-> c = 1], inv |-> [c \in Channels |-> FALSE],
            woven |-> TRUE, offs |-> [c \in Channels |-> 4 * c], zpt |-> 1,
            wlen |-> wlen, timed |-> TRUE]]

\* LeCroy, channel 3: a loop started by the caller itself
LeCroy(pts) ==
    [fam |-> "Lecroy", size |-> 4 + 2 * pts,
     h |-> [channel |-> 3, off |-> 4, len |-> 2 * pts, width |-> 2, le |-> TRUE,
            timed |-> TRUE, pts |-> pts]]

\* R&S: two columns read through the dividing index closure
RS(rec) ==
    [fam |-> "RohdeSchwarz", size |-> 8 + rec * 4,
     h |-> [fmt |-> "int16", bps |-> 2, prefix |-> 0, stride |-> 4, rec |-> rec,
            lead |-> 0, timed |-> TRUE,
            chans |-> <<[channel |-> 3, slot |-> 0], [channel |-> 1, slot |-> 1]>>]]

Req(all, ch, s, l) == [all |-> all, ch |-> ch, start |-> s, length |-> l]
One(ch) == Req(FALSE, ch, Absent, Absent)
All     == Req(TRUE, 0, Absent, Absent)


\* two overlapping calls, at most one nested loop each
TwoCallHandles == {DS1000E({1}, 2), LeCroy(3), DS2000(1)}
TwoCallRequests == {All, One(1), One(2)}
\* one call, two nested loops or a panicking one
OneCallHandles == {DS1000E({0, 1}, 3), RS(2), DS2000(5)}
OneCallRequests == {All, One(2), Req(TRUE, 0, 1, 1)}
=============================================================================
