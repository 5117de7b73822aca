---------------------------- MODULE HandleProofs ----------------------------
(***************************************************************************)
(* Proofs about the handles of WfmFile, for every set of files and of      *)
(* arguments. A handle never changes, so the inductive invariant only says *)
(* where it comes from; the work is in what opening a file of each family  *)
(* establishes (Held), and in what follows from that for the plan of a     *)
(* decode (Sound) and for the decode of a slice of it.                     *)
(***************************************************************************)
EXTENDS WfmFile, OrderProofs

(* What is known of the header of an open handle.                          *)
HeldDho(w) ==
    /\ w.h.n \in Usizes /\ w.h.n > 0 /\ w.h.nch \in 1 .. 4 /\ w.h.data \in Nat
    /\ w.h.cals \in [Channels -> Nat \cup {NoEntry}]
    /\ \A c \in Channels : w.h.cals[c] # NoEntry <=> c < w.h.nch
    /\ w.h.data + w.h.n * w.h.nch * 2 <= w.size

HeldKeysight(w) ==
    /\ Len(w.h.wfs) \in Nat
    /\ \A k \in 1 .. Len(w.h.wfs) : LET wf == w.h.wfs[k] IN
         /\ wf.pts \in Usizes /\ wf.off \in Nat /\ wf.len \in Nat
         /\ wf.off + wf.len <= w.size
         /\ <<wf.kind, wf.bpp>> \in {<<"float", 4>>, <<"logic", 1>>}

HeldSiglent(w) ==
    /\ w.h.wlen \in Usizes /\ w.h.wlen > 0 /\ Len(w.h.chans) \in 1 .. 4
    /\ \A k \in 1 .. Len(w.h.chans) :
         /\ w.h.chans[k].channel \in 1 .. 4
         /\ w.h.chans[k].off = SiglentHeaderSize + (k - 1) * w.h.wlen
         /\ w.h.chans[k].off \in Nat
         /\ w.h.chans[k].off + w.h.wlen <= w.size
    /\ \A j, k \in 1 .. Len(w.h.chans) :
         j < k => w.h.chans[j].channel < w.h.chans[k].channel

HeldLecroy(w) ==
    /\ w.h.channel \in 1 .. 4 /\ w.h.width \in {1, 2} /\ w.h.le \in BOOLEAN
    /\ w.h.off \in Nat /\ w.h.len \in Nat /\ w.h.off + w.h.len <= w.size
    /\ w.h.pts \in Usizes /\ w.h.pts * w.h.width <= w.h.len

HeldRs(w) ==
    /\ w.h.fmt \in DOMAIN RsBytes
    /\ w.h.bps = RsBytes[w.h.fmt] /\ w.h.prefix = RsPrefix(w.h.fmt)
    /\ Len(w.h.chans) \in Nat \ {0}
    /\ w.h.stride = w.h.prefix + Len(w.h.chans) * w.h.bps
    /\ w.h.rec \in Usizes /\ w.h.lead \in Nat
    /\ \A k \in 1 .. Len(w.h.chans) :
         w.h.chans[k].channel \in 1 .. 4 /\ w.h.chans[k].slot = k - 1

Held(w) ==
    /\ w.fam \in AllFamilies /\ w.size \in Usizes
    /\ w.fam \in AsStored => FileShape(w)
    /\ w.fam = "Dho" => HeldDho(w)
    /\ w.fam = "Keysight" => HeldKeysight(w)
    /\ w.fam = "Siglent" => HeldSiglent(w)
    /\ w.fam = "Lecroy" => HeldLecroy(w)
    /\ w.fam = "RohdeSchwarz" => HeldRs(w)

Outcome(r) ==
    \/ r.tag = "err"
    \/ r.tag = "ok" /\ Held(r.val)

-----------------------------------------------------------------------------
LEMMA Widths == U32 \in Nat /\ U32 > 0 /\ USize \in Nat /\ USize > U32 /\ U32s \subseteq Usizes
                /\ Usizes \subseteq Nat
BY WidthAssumption DEF U32s, Usizes

LEMMA Wraps ==
    ASSUME NEW a \in Nat, NEW b \in Nat
    PROVE  (a + b) % U32 \in Nat /\ (a + b) % USize \in Nat
BY WidthAssumption

LEMMA Refused ==
    ASSUME NEW r, NEW e, r = Err(e)
    PROVE  Outcome(r)
<1>1. r.tag = "err"
  BY DEF Err
<1> QED
  BY <1>1 DEF Outcome

LEMMA Accepted ==
    ASSUME NEW r, NEW w, r = Ok(w), Held(w)
    PROVE  Outcome(r)
<1>1. r.tag = "ok" /\ r.val = w
  BY DEF Ok
<1> QED
  BY <1>1 DEF Outcome

(* The calibration of a DHO slot is that of a block, or there is none.     *)
LEMMA SlotCals ==
    ASSUME NEW blocks \in [Channels -> Nat \cup {NoEntry}],
           \E c \in Channels : blocks[c] # NoEntry,
           NEW n \in 1 .. 4, NEW c \in Channels
    PROVE  /\ SlotCal(blocks, n, c) \in Nat \cup {NoEntry}
           /\ SlotCal(blocks, n, c) # NoEntry <=> c < n
<1> DEFINE found == {d \in Channels : blocks[d] # NoEntry}
           first == CHOOSE d \in found : \A e \in found : d <= e
<1>1. \E d \in found : \A e \in found : d <= e
  BY Least DEF Channels
<1>2. first \in found
  BY <1>1
<1> HIDE DEF first
<1>3. blocks[first] \in Nat /\ blocks[first] # NoEntry
  BY <1>2
<1>4. SlotCal(blocks, n, c) = IF c >= n THEN NoEntry
                              ELSE IF blocks[c] # NoEntry THEN blocks[c] ELSE blocks[first]
  BY DEF SlotCal, first
<1> QED
  BY <1>3, <1>4 DEF Channels, NoEntry

LEMMA OpenedDho ==
    ASSUME NEW f, FileShape(f), f.fam = "Dho"
    PROVE  Outcome(OpenDho(f))
<1> DEFINE h == f.h
           w == [fam |-> f.fam, size |-> f.size,
                 h |-> [n |-> h.n, nch |-> h.nch, data |-> h.data,
                        cals |-> [c \in Channels |-> SlotCal(h.blocks, h.nch, c)]]]
<1>1. /\ h.blocks \in [Channels -> Nat \cup {NoEntry}]
      /\ h.n \in Usizes /\ h.nch \in Usizes /\ h.data \in Usizes /\ f.size \in Usizes
  BY DEF FileShape
<1>2. CASE \/ \A c \in Channels : h.blocks[c] = NoEntry
           \/ h.n = 0 \/ h.nch \notin 1 .. 4
           \/ h.n > (f.size - h.data) \div (2 * h.nch)
  BY <1>2 DEF OpenDho, Outcome, Err, Overrun
<1>3. CASE /\ \E c \in Channels : h.blocks[c] # NoEntry
           /\ h.n # 0 /\ h.nch \in 1 .. 4
           /\ ~(h.n > (f.size - h.data) \div (2 * h.nch))
  <2>1. OpenDho(f) = Ok(w)
    BY <1>3 DEF OpenDho
  <2>2. w.h.cals \in [Channels -> Nat \cup {NoEntry}]
        /\ \A c \in Channels : w.h.cals[c] # NoEntry <=> c < w.h.nch
    <3>1. \A c \in Channels : w.h.cals[c] = SlotCal(h.blocks, h.nch, c)
      OBVIOUS
    <3>2. \A c \in Channels : /\ SlotCal(h.blocks, h.nch, c) \in Nat \cup {NoEntry}
                              /\ SlotCal(h.blocks, h.nch, c) # NoEntry <=> c < h.nch
      BY <1>1, <1>3, SlotCals
    <3> QED
      BY <3>1, <3>2
  <2>8. h.n \in Nat /\ h.data \in Nat /\ f.size \in Nat
    BY <1>1, Widths
  <2>3. h.n \in Nat /\ h.n > 0 /\ h.data \in Nat /\ f.size \in Nat
    BY <1>3, <2>8
  <2>4. h.data + h.n * h.nch * 2 <= f.size
    <3> DEFINE d == f.size - h.data
    <3>1. d \in Int /\ h.n <= d \div (2 * h.nch)
      BY <1>3, <2>3
    <3> HIDE DEF d
    <3>2. CASE h.nch = 1
      BY <2>3, <3>1, <3>2 DEF d
    <3>3. CASE h.nch = 2
      BY <2>3, <3>1, <3>3 DEF d
    <3>4. CASE h.nch = 3
      BY <2>3, <3>1, <3>4 DEF d
    <3>5. CASE h.nch = 4
      BY <2>3, <3>1, <3>5 DEF d
    <3> QED
      BY <1>3, <3>2, <3>3, <3>4, <3>5
  <2>5. /\ w.fam = "Dho" /\ w.size = f.size
        /\ w.h.n = h.n /\ w.h.nch = h.nch /\ w.h.data = h.data
    OBVIOUS
  <2> HIDE DEF w
  <2>6. HeldDho(w)
    BY <1>1, <1>3, <2>2, <2>3, <2>4, <2>5 DEF HeldDho
  <2>7. Held(w)
    BY <1>1, <2>5, <2>6 DEF Held, AllFamilies, AsStored
  <2> QED
    BY <2>1, <2>7 DEF Outcome, Ok
<1> QED
  BY <1>2, <1>3

(* A function on 1 .. n is a sequence of length n. *)
LEMMA LengthIs ==
    ASSUME NEW n \in Nat, NEW S, NEW s \in [1 .. n -> S]
    PROVE  s \in Seq(S) /\ Len(s) = n
OBVIOUS

(* Of the buffers of a record one that is supported is chosen, if any is.  *)
LEMMA ChosenIsSupported ==
    ASSUME NEW bufs, Len(bufs) \in Nat, \E k \in 1 .. Len(bufs) : Supported(bufs[k])
    PROVE  \E k \in 1 .. Len(bufs) : Supported(bufs[k]) /\ Chosen(bufs) = bufs[k]
<1> DEFINE best == IF OfKind(bufs, "float") # {} THEN OfKind(bufs, "float")
                   ELSE OfKind(bufs, "logic")
           least == CHOOSE k \in best : \A j \in best : k <= j
<1>1. \A k \in best : k \in 1 .. Len(bufs) /\ Supported(bufs[k])
  BY DEF OfKind
<1>2. best # {}
  <2>1. PICK k \in 1 .. Len(bufs) : Supported(bufs[k])
    OBVIOUS
  <2>2. bufs[k].kind \in {"float", "logic"}
    BY <2>1 DEF Supported
  <2>3. k \in OfKind(bufs, "float") \cup OfKind(bufs, "logic")
    BY <2>1, <2>2 DEF OfKind
  <2> QED
    BY <2>3
<1>3. best \in SUBSET Nat
  BY <1>1
<1> HIDE DEF best
<1>4. \E k \in best : \A j \in best : k <= j
  BY <1>2, <1>3, Least
<1>5. least \in best
  BY <1>4
<1>6. Chosen(bufs) = bufs[least]
  BY DEF Chosen, best
<1> QED
  BY <1>1, <1>5, <1>6

LEMMA OpenedKeysight ==
    ASSUME NEW f, FileShape(f), f.fam = "Keysight"
    PROVE  Outcome(OpenKeysight(f))
<1> DEFINE wfs == f.h.wfs
           K == {k \in 1 .. Len(wfs) : HasSupported(wfs[k])}
           kept == InOrder(K)
           Record(k) == LET b == Chosen(wfs[kept[k]].bufs)
                        IN  [pts |-> wfs[kept[k]].pts, off |-> b.off,
                             len |-> b.len, kind |-> b.kind, bpp |-> b.bpp]
           w == [fam |-> f.fam, size |-> f.size,
                 h |-> [timed |-> f.h.timed, wfs |-> [k \in 1 .. Len(kept) |-> Record(k)]]]
           bad == \/ ~f.h.intact
                  \/ \E k \in 1 .. Len(wfs) :
                     \/ wfs[k].pts <= 0
                     \/ wfs[k].bufs = <<>>
                     \/ \E b \in 1 .. Len(wfs[k].bufs) :
                           wfs[k].bufs[b].off + wfs[k].bufs[b].len > f.size
<1>1. /\ f.size \in Usizes /\ Len(wfs) \in Nat
      /\ \A k \in 1 .. Len(wfs) :
           /\ wfs[k].pts \in Int /\ wfs[k].pts < USize
           /\ Len(wfs[k].bufs) \in Nat
           /\ \A b \in 1 .. Len(wfs[k].bufs) :
                wfs[k].bufs[b].off \in Usizes /\ wfs[k].bufs[b].len \in Usizes
  BY DEF FileShape
<1>2. OpenKeysight(f) = IF bad THEN Err("implausible record") ELSE Ok(w)
  BY DEF OpenKeysight
<1> HIDE DEF bad, w
<1>3. CASE bad
  <2>1. OpenKeysight(f) = Err("implausible record")
    BY <1>2, <1>3, Zenon
  <2> QED
    BY <2>1, Refused
<1>4. CASE ~bad
  <2>11. K \in SUBSET (1 .. Len(wfs)) /\ IsFiniteSet(1 .. Len(wfs))
    BY <1>1, FS_Interval, SMTT(30)
  <2>12. IsFiniteSet(K)
    BY <2>11, FS_Subset
  <2>1. K \in SUBSET Nat /\ IsFiniteSet(K)
    BY <1>1, <2>11, <2>12
  <2>2. Cardinality(K) \in Nat /\ kept \in [1 .. Cardinality(K) -> K]
    BY <2>1, InOrderLists
  <2>3. Len(kept) = Cardinality(K)
    BY <2>2, LengthIs, SMTT(30)
  <2> HIDE DEF kept
  <2>4. ASSUME NEW k \in 1 .. Len(kept)
        PROVE  /\ Record(k).pts \in Usizes /\ Record(k).off \in Nat /\ Record(k).len \in Nat
               /\ Record(k).off + Record(k).len <= f.size
               /\ <<Record(k).kind, Record(k).bpp>> \in {<<"float", 4>>, <<"logic", 1>>}
    <3> DEFINE j == kept[k]
    <3>1. j \in 1 .. Len(wfs) /\ HasSupported(wfs[j])
      BY <2>2, <2>3
    <3> HIDE DEF j
    <3>2. PICK b \in 1 .. Len(wfs[j].bufs) :
             Supported(wfs[j].bufs[b]) /\ Chosen(wfs[j].bufs) = wfs[j].bufs[b]
      BY <1>1, <3>1, ChosenIsSupported DEF HasSupported
    <3>3. Record(k) = [pts |-> wfs[j].pts, off |-> wfs[j].bufs[b].off,
                       len |-> wfs[j].bufs[b].len, kind |-> wfs[j].bufs[b].kind,
                       bpp |-> wfs[j].bufs[b].bpp]
      BY <3>2 DEF j
    <3>4. wfs[j].pts > 0 /\ ~(wfs[j].bufs[b].off + wfs[j].bufs[b].len > f.size)
      BY <1>1, <1>4, <3>1, SMTT(30) DEF bad
    <3>5. wfs[j].pts \in Usizes
      BY <1>1, <3>1, <3>4, Widths, SMTT(30) DEF Usizes
    <3>6. wfs[j].bufs[b].off \in Nat /\ wfs[j].bufs[b].len \in Nat /\ f.size \in Nat
      BY <1>1, <3>1, Widths
    <3>7. wfs[j].bufs[b].off + wfs[j].bufs[b].len <= f.size
      <4> DEFINE o == wfs[j].bufs[b].off
                 l == wfs[j].bufs[b].len
                 z == f.size
      <4>1. o \in Nat /\ l \in Nat /\ z \in Nat
        BY <3>6
      <4>2. ~(o + l > z)
        BY <3>4
      <4> HIDE DEF o, l, z
      <4>3. o + l <= z
        BY <4>1, <4>2
      <4> QED
        BY <4>3 DEF o, l, z
    <3> HIDE DEF Record
    <3> QED
      BY <3>2, <3>3, <3>5, <3>6, <3>7 DEF Supported
  <2>5. w.h.wfs = [k \in 1 .. Len(kept) |-> Record(k)]
    BY DEF w
  <2> HIDE DEF Record
  <2>6. Len(w.h.wfs) = Len(kept)
    <3>1. w.h.wfs \in [1 .. Len(kept) -> {Record(k) : k \in 1 .. Len(kept)}]
      BY <2>5
    <3> QED
      BY <2>2, <2>3, <3>1, LengthIs
  <2>7. w.fam = "Keysight" /\ w.size = f.size
    BY DEF w
  <2>8. \A k \in 1 .. Len(kept) : w.h.wfs[k] = Record(k)
    BY <2>5
  <2>9. HeldKeysight(w)
    BY <2>2, <2>3, <2>4, <2>6, <2>7, <2>8 DEF HeldKeysight
  <2>10. Held(w)
    BY <1>1, <2>7, <2>9 DEF Held, AllFamilies, AsStored
  <2> QED
    BY <1>2, <1>4, <2>10 DEF Outcome, Ok
<1> QED
  BY <1>3, <1>4

(* The payloads of the enabled channels of a Siglent file end in the file. *)
LEMMA OpenedSiglent ==
    ASSUME NEW f, FileShape(f), f.fam = "Siglent"
    PROVE  Outcome(OpenSiglent(f))
<1> DEFINE h == f.h
           On == {c \in Channels : h.on[c] = 1}
           on == InOrder(On)
           Entry(k) == [channel |-> on[k] + 1, off |-> SiglentHeaderSize + (k - 1) * h.wlen]
           chans == [k \in 1 .. Len(on) |-> Entry(k)]
           w == [fam |-> f.fam, size |-> f.size, h |-> [wlen |-> h.wlen, chans |-> chans]]
           bad == \/ f.size < SiglentHeaderSize
                  \/ \E c \in Channels : h.on[c] > 1
                  \/ on = <<>>
                  \/ h.wlen = 0
                  \/ SiglentHeaderSize + h.wlen * Len(on) > f.size
<1>1. /\ f.size \in Usizes /\ h.wlen \in Usizes
      /\ f.size \in Nat /\ h.wlen \in Nat /\ SiglentHeaderSize \in Nat
  BY Widths, HeaderSizeAssumption DEF FileShape
<1>2. OpenSiglent(f) = IF bad THEN Err("not a Siglent capture") ELSE Ok(w)
  BY DEF OpenSiglent
<1>3. On \in SUBSET (0 .. 3) /\ On \in SUBSET Nat
  BY DEF Channels
<1>4. IsFiniteSet(On) /\ Cardinality(On) <= 4
  <2>1. IsFiniteSet(0 .. 3) /\ Cardinality(0 .. 3) = 4
    <3>1. 0 \in Int /\ 3 \in Int
      OBVIOUS
    <3>2. IsFiniteSet(0 .. 3) /\ Cardinality(0 .. 3) = IF 0 > 3 THEN 0 ELSE 3 - 0 + 1
      BY <3>1, FS_Interval
    <3> QED
      BY <3>2
  <2> HIDE DEF On
  <2> QED
    BY <1>3, <2>1, FS_Subset, ZenonT(60)
<1>5. /\ Cardinality(On) \in Nat /\ on \in [1 .. Cardinality(On) -> On]
      /\ \A j, k \in 1 .. Cardinality(On) : j < k => on[j] < on[k]
  <2> HIDE DEF On
  <2> QED
    BY <1>3, <1>4, InOrderLists
<1> HIDE DEF On, on
<1>6. Len(on) = Cardinality(On) /\ on \in Seq(On)
  BY <1>5, LengthIs
<1> HIDE DEF bad, w
<1>7. CASE bad
  BY <1>2, <1>7, Refused, Zenon
<1>8. CASE ~bad
  <2>1. Len(on) \in 1 .. 4
    <3>1. on # <<>>
      BY <1>8 DEF bad
    <3>2. Len(on) # 0
      BY <1>6, <3>1
    <3> QED
      BY <1>4, <1>5, <1>6, <3>2
  <2>2. h.wlen > 0 /\ SiglentHeaderSize + h.wlen * Len(on) <= f.size
    <3> DEFINE l == h.wlen
               z == f.size
               n == Len(on)
    <3>1. ~(l = 0) /\ ~(SiglentHeaderSize + l * n > z)
      BY <1>8 DEF bad
    <3>2. l \in Nat /\ z \in Nat /\ n \in 1 .. 4 /\ SiglentHeaderSize \in Nat
      BY <1>1, <2>1
    <3> HIDE DEF l, z, n
    <3>3. l > 0 /\ SiglentHeaderSize + l * n <= z
      BY <3>1, <3>2
    <3> QED
      BY <3>3 DEF l, z, n
  <2>3. chans \in [1 .. Len(on) -> {Entry(k) : k \in 1 .. Len(on)}]
    OBVIOUS
  <2>4. Len(chans) = Len(on)
    BY <2>1, <2>3, LengthIs
  <2>5. ASSUME NEW k \in 1 .. Len(on)
        PROVE  /\ on[k] \in 0 .. 3
               /\ SiglentHeaderSize + (k - 1) * h.wlen \in Nat
               /\ SiglentHeaderSize + (k - 1) * h.wlen + h.wlen <= f.size
    <3>1. on[k] \in 0 .. 3
      BY <1>3, <1>5, <1>6
    <3> DEFINE l == h.wlen
               z == f.size
               n == Len(on)
    <3>2. l \in Nat /\ z \in Nat /\ n \in 1 .. 4 /\ SiglentHeaderSize \in Nat /\ k \in 1 .. n
      BY <1>1, <2>1
    <3>3. SiglentHeaderSize + l * n <= z
      BY <2>2
    <3> HIDE DEF l, z, n
    <3>4. k \in 1 .. 4 /\ n \in {1, 2, 3, 4} /\ k <= n
      BY <3>2
    <3>5. /\ SiglentHeaderSize + (k - 1) * l \in Nat
          /\ SiglentHeaderSize + (k - 1) * l + l <= z
      BY <3>2, <3>3, <3>4
    <3> QED
      BY <3>1, <3>5 DEF l, z, n
  <2>6. \A k \in 1 .. Len(on) : /\ chans[k].channel = on[k] + 1
                                /\ chans[k].off = SiglentHeaderSize + (k - 1) * h.wlen
    OBVIOUS
  <2>7. /\ w.fam = "Siglent" /\ w.size = f.size
        /\ w.h.wlen = h.wlen /\ w.h.chans = chans
    BY DEF w
  <2> HIDE DEF chans
  <2>8. \A j, k \in 1 .. Len(on) : j < k => chans[j].channel < chans[k].channel
    <3> SUFFICES ASSUME NEW j \in 1 .. Len(on), NEW k \in 1 .. Len(on), j < k
                 PROVE  chans[j].channel < chans[k].channel
      OBVIOUS
    <3>1. on[j] \in 0 .. 3 /\ on[k] \in 0 .. 3 /\ on[j] < on[k]
      BY <1>5, <1>6, <2>5
    <3> QED
      BY <2>6, <3>1
  <2>9. \A k \in 1 .. Len(on) : chans[k].channel \in 1 .. 4
    <3> SUFFICES ASSUME NEW k \in 1 .. Len(on)
                 PROVE  chans[k].channel \in 1 .. 4
      OBVIOUS
    <3>1. on[k] \in 0 .. 3 /\ chans[k].channel = on[k] + 1
      BY <2>5, <2>6
    <3> QED
      BY <3>1
  <2>10. HeldSiglent(w)
    BY <1>1, <2>1, <2>2, <2>4, <2>5, <2>6, <2>7, <2>8, <2>9 DEF HeldSiglent
  <2>11. Held(w)
    BY <1>1, <2>7, <2>10 DEF Held, AllFamilies, AsStored
  <2>12. OpenSiglent(f) = Ok(w)
    BY <1>2, <1>8, Zenon
  <2> QED
    BY <2>11, <2>12, Accepted
<1> QED
  BY <1>7, <1>8

(* A LeCroy handle counts no more samples than its payload holds.          *)
LEMMA OpenedLecroy ==
    ASSUME NEW f, FileShape(f), f.fam = "Lecroy"
    PROVE  Outcome(OpenLecroy(f))
<1> DEFINE h == f.h
           w == [fam |-> f.fam, size |-> f.size,
                 h |-> [channel |-> LecroyChannel(h.source),
                        off |-> h.off, len |-> h.len, width |-> h.width,
                        le |-> h.le, timed |-> h.timed,
                        pts |-> Smaller(h.count, h.len \div h.width)]]
<1>1. /\ h.source \in Int /\ h.width \in Int /\ h.le \in BOOLEAN /\ f.size \in Usizes
      /\ h.off \in Usizes /\ h.len \in Usizes /\ h.count \in Usizes
  BY DEF FileShape
<1>2. h.off \in Nat /\ h.len \in Nat /\ f.size \in Nat /\ h.count \in Nat
  BY <1>1, Widths
<1>3. OpenLecroy(f) = IF h.width \notin {1, 2} THEN Err("unknown COMM_TYPE")
                      ELSE IF h.off + h.len > f.size THEN Overrun
                      ELSE Ok(w)
  BY DEF OpenLecroy
<1>4. /\ w.fam = "Lecroy" /\ w.size = f.size
      /\ w.h.channel = LecroyChannel(h.source) /\ w.h.off = h.off /\ w.h.len = h.len
      /\ w.h.width = h.width /\ w.h.le = h.le
      /\ w.h.pts = Smaller(h.count, h.len \div h.width)
  OBVIOUS
<1> HIDE DEF w
<1>5. CASE h.width \notin {1, 2}
  BY <1>3, <1>5, Refused, Zenon
<1>6. CASE h.width \in {1, 2} /\ h.off + h.len > f.size
  <2>1. OpenLecroy(f) = Err("payload overruns file")
    BY <1>3, <1>6, Zenon DEF Overrun
  <2> QED
    BY <2>1, Refused
<1>7. CASE h.width \in {1, 2} /\ ~(h.off + h.len > f.size)
  <2>1. w.h.channel \in 1 .. 4
    BY <1>1, <1>4 DEF LecroyChannel
  <2>2. h.off + h.len <= f.size
    <3> DEFINE o == h.off
               l == h.len
               z == f.size
    <3>1. o \in Nat /\ l \in Nat /\ z \in Nat /\ ~(o + l > z)
      BY <1>2, <1>7
    <3> HIDE DEF o, l, z
    <3>2. o + l <= z
      BY <3>1
    <3> QED
      BY <3>2 DEF o, l, z
  <2>3. w.h.pts \in Usizes /\ w.h.pts * w.h.width <= w.h.len
    <3> DEFINE n == h.count
               l == h.len
               b == h.width
               p == Smaller(n, l \div b)
    <3>1. n \in Usizes /\ n \in Nat /\ l \in Nat /\ b \in {1, 2}
      BY <1>1, <1>2, <1>7
    <3> HIDE DEF n, l, b
    <3>2. l \div b \in Nat /\ (l \div b) * b <= l
      BY <3>1
    <3>3. p \in Nat /\ p <= n /\ p <= l \div b
      BY <3>1, <3>2 DEF Smaller
    <3> HIDE DEF p
    <3>4. p \in Usizes
      BY <3>1, <3>3, Widths DEF Usizes
    <3>5. p * b <= l
      BY <3>1, <3>2, <3>3
    <3> QED
      BY <1>4, <3>4, <3>5 DEF n, l, b, p
  <2>4. HeldLecroy(w)
    BY <1>1, <1>2, <1>4, <1>7, <2>1, <2>2, <2>3 DEF HeldLecroy
  <2>5. Held(w)
    BY <1>1, <1>4, <2>4 DEF Held, AllFamilies, AsStored
  <2>6. OpenLecroy(f) = Ok(w)
    BY <1>3, <1>7, Zenon
  <2> QED
    BY <2>5, <2>6, Accepted
<1> QED
  BY <1>5, <1>6, <1>7

(* An R&S row is a whole number of samples, the time prefix included.      *)
LEMMA OpenedRs ==
    ASSUME NEW f, FileShape(f), f.fam = "RohdeSchwarz"
    PROVE  Outcome(OpenRs(f))
<1> DEFINE h == f.h
           bps == RsBytes[h.fmt]
           stride == RsPrefix(h.fmt) + Len(h.active) * bps
           Entry(k) == [channel |-> h.active[k], slot |-> k - 1]
           chans == [k \in 1 .. Len(h.active) |-> Entry(k)]
           w == [fam |-> f.fam, size |-> f.size,
                 h |-> [fmt |-> h.fmt, bps |-> bps, prefix |-> RsPrefix(h.fmt),
                        stride |-> stride, timed |-> h.timed,
                        rec |-> Smaller(h.rec, h.hw),
                        lead |-> Smaller(h.lead, h.hw), chans |-> chans]]
           bad == f.size < 8 \/ h.hw = 0 \/ h.active = <<>>
           short == ~PayloadFits(h, stride, f.size)
<1>1. /\ f.size \in Usizes /\ h.fmt \in DOMAIN RsBytes /\ h.active \in Seq(1 .. 4)
      /\ h.hw \in U32s /\ h.rec \in Usizes /\ h.lead \in Usizes
  BY DEF FileShape
<1>2. h.hw \in Nat /\ h.rec \in Nat /\ h.lead \in Nat
  BY <1>1, Widths DEF U32s
<1>3. OpenRs(f) = IF bad THEN Err("bad R&S pair") ELSE IF short THEN Overrun ELSE Ok(w)
  BY DEF OpenRs
<1>4. /\ w.fam = "RohdeSchwarz" /\ w.size = f.size
      /\ w.h.fmt = h.fmt /\ w.h.bps = bps /\ w.h.prefix = RsPrefix(h.fmt)
      /\ w.h.stride = stride /\ w.h.chans = chans
      /\ w.h.rec = Smaller(h.rec, h.hw) /\ w.h.lead = Smaller(h.lead, h.hw)
  OBVIOUS
<1> HIDE DEF w, bad, short
<1>5. CASE bad
  BY <1>3, <1>5, Refused, Zenon
<1>6. CASE ~bad /\ short
  <2>1. OpenRs(f) = Err("payload overruns file")
    BY <1>3, <1>6, Zenon DEF Overrun
  <2> QED
    BY <2>1, Refused
<1>7. CASE ~bad /\ ~short
  <2>1. Len(h.active) \in Nat \ {0} /\ \A k \in 1 .. Len(h.active) : h.active[k] \in 1 .. 4
    BY <1>1, <1>7 DEF bad
  <2>2. chans \in [1 .. Len(h.active) -> {Entry(k) : k \in 1 .. Len(h.active)}]
    OBVIOUS
  <2>3. Len(chans) = Len(h.active)
    BY <2>1, <2>2, LengthIs
  <2>4. \A k \in 1 .. Len(h.active) :
           chans[k].channel = h.active[k] /\ chans[k].slot = k - 1
    OBVIOUS
  <2> HIDE DEF chans
  <2>5. w.h.rec \in Usizes /\ w.h.lead \in Nat
    BY <1>1, <1>2, <1>4, Widths DEF Smaller, U32s
  <2>6. HeldRs(w)
    BY <1>1, <1>4, <2>1, <2>3, <2>4, <2>5 DEF HeldRs
  <2>7. Held(w)
    BY <1>1, <1>4, <2>6 DEF Held, AllFamilies, AsStored
  <2>8. OpenRs(f) = Ok(w)
    BY <1>3, <1>7, Zenon
  <2> QED
    BY <2>7, <2>8, Accepted
<1> QED
  BY <1>5, <1>6, <1>7

(* Whatever a file holds, opening it fails or yields a handle that Held    *)
(* describes; it never panics.                                             *)
LEMMA Opened ==
    ASSUME NEW f, FileShape(f)
    PROVE  Outcome(OpenFile(f))
<1>1. CASE f.fam \in AsStored
  <2>1. OpenFile(f) = Ok(f)
    BY <1>1 DEF OpenFile, AsStored
  <2>2. f.size \in Usizes /\ f.fam \in AllFamilies
    BY DEF FileShape
  <2>3. f.fam \notin {"Dho", "Keysight", "Siglent", "Lecroy", "RohdeSchwarz"}
    BY <1>1 DEF AsStored
  <2>4. Held(f)
    BY <2>2, <2>3 DEF Held
  <2> QED
    BY <2>1, <2>4, Accepted
<1>2. CASE f.fam = "Dho"
  <2>1. OpenFile(f) = OpenDho(f)
    BY <1>2 DEF OpenFile, AsStored
  <2> QED
    BY <1>2, <2>1, OpenedDho
<1>3. CASE f.fam = "Keysight"
  <2>1. OpenFile(f) = OpenKeysight(f)
    BY <1>3 DEF OpenFile, AsStored
  <2> QED
    BY <1>3, <2>1, OpenedKeysight
<1>4. CASE f.fam = "Siglent"
  <2>1. OpenFile(f) = OpenSiglent(f)
    BY <1>4 DEF OpenFile, AsStored
  <2> QED
    BY <1>4, <2>1, OpenedSiglent
<1>5. CASE f.fam = "Lecroy"
  <2>1. OpenFile(f) = OpenLecroy(f)
    BY <1>5 DEF OpenFile, AsStored
  <2> QED
    BY <1>5, <2>1, OpenedLecroy
<1>6. CASE f.fam = "RohdeSchwarz"
  <2>1. OpenFile(f) = OpenRs(f)
    BY <1>6 DEF OpenFile, AsStored
  <2> QED
    BY <1>6, <2>1, OpenedRs
<1>7. f.fam \in AsStored \cup {"Dho", "Keysight", "Siglent", "Lecroy", "RohdeSchwarz"}
  BY DEF FileShape, AllFamilies
<1> QED
  BY <1>1, <1>2, <1>3, <1>4, <1>5, <1>6, <1>7

-----------------------------------------------------------------------------
(* The inductive invariant: a handle is closed, or the outcome of opening  *)
(* a file.                                                                 *)
HandleInv == handle = Closed \/ Outcome(handle)

LEMMA Initially == Init => HandleInv
BY DEF Init, HandleInv

LEMMA Inductively == HandleInv /\ [Next]_vars => HandleInv'
<1> SUFFICES ASSUME HandleInv, [Next]_vars
             PROVE  HandleInv'
  OBVIOUS
<1>1. ASSUME NEW f \in Files, Open(f)
      PROVE  HandleInv'
  <2>1. FileShape(f)
    BY FilesAssumption
  <2>2. Outcome(OpenFile(f)) /\ handle' = OpenFile(f)
    BY <1>1, <2>1, Opened DEF Open
  <2> HIDE DEF Outcome
  <2> QED
    BY <2>2 DEF HandleInv
<1>2. CASE Drop
  BY <1>2 DEF Drop, HandleInv
<1>3. CASE UNCHANGED vars
  BY <1>3 DEF vars, HandleInv
<1> QED
  BY <1>1, <1>2, <1>3 DEF Next

LEMMA Always == Spec => []HandleInv
BY Initially, Inductively, PTL DEF Spec

LEMMA OpenIsHeld ==
    ASSUME HandleInv, IsOpen
    PROVE  Held(W)
BY DEF HandleInv, IsOpen, W, Outcome, Closed

-----------------------------------------------------------------------------
(* The plan of a decode. One made for the whole channel is Sound: it reads *)
(* within one or two buffers that lie in the file, its index closure steps *)
(* over whole samples, and no sample ends behind its buffer, but for the   *)
(* last one of an interwoven capture of odd length.                        *)
Args == Usizes \cup {Absent}

BufferIn(w, buf) == buf.off \in Nat /\ buf.len \in Nat /\ buf.off + buf.len <= w.size

OddOneOut(w, p, i) ==
    w.fam = "Ds2000" /\ w.h.woven /\ w.h.wlen % 2 = 1 /\ p.n = w.h.wlen /\ i = p.n - 1

Sound(w, p) ==
    /\ p.n \in Nat /\ p.ty \in SampleTypes /\ p.woven \in BOOLEAN
    /\ BufferIn(w, p.buf) /\ BufferIn(w, p.odd)
    /\ p.idx.start = 0 /\ p.idx.div \in {1, 2, 4}
    /\ \E k, a \in Nat : p.idx.mul = k * p.idx.div /\ p.idx.add = a * p.idx.div
    /\ \A i \in 0 .. p.n - 1 : InBounds(p, i) \/ OddOneOut(w, p, i)

(* The plan for a slice is that of the whole channel with another window.  *)
Windowed(p, cut) ==
    [woven |-> p.woven, buf |-> p.buf, odd |-> p.odd, n |-> cut.len,
     ty |-> p.ty, cal |-> p.cal,
     idx |-> [start |-> cut.start, mul |-> p.idx.mul, add |-> p.idx.add, div |-> p.idx.div]]

Sliced(r, s, l) ==
    IF r.tag = "plan"
    THEN [tag |-> "plan", plan |-> Windowed(r.plan, ApplySlice(r.plan.n, s, l))]
    ELSE r

ZeroWidth(w) ==
    \/ w.fam = "Tektronix" /\ w.h.bpp = 0
    \/ w.fam = "Isf" /\ w.h.byt = 0

Prepared(w, whole, part, s, l) ==
    /\ part = Sliced(whole, s, l)
    /\ \/ whole.tag = "err"
       \/ whole.tag = "panic" /\ ZeroWidth(w)
       \/ whole.tag = "plan" /\ Sound(w, whole.plan)

(* A slice lies in the channel, and the one without arguments is all of it.*)
LEMMA SliceInside ==
    ASSUME NEW total \in Nat, NEW s \in Args, NEW l \in Args
    PROVE  LET cut == ApplySlice(total, s, l)
           IN  /\ cut.start \in Nat /\ cut.len \in Nat
               /\ cut.start + cut.len <= total
               /\ cut = [start |-> cut.start, len |-> cut.len]
BY Widths DEF ApplySlice, Args, UnwrapOr, Smaller, Absent, Usizes

LEMMA SliceWhole ==
    ASSUME NEW total \in Nat
    PROVE  ApplySlice(total, Absent, Absent) = [start |-> 0, len |-> total]
BY DEF ApplySlice, UnwrapOr, Smaller, Absent

LEMMA Width ==
    ASSUME NEW ty \in SampleTypes
    PROVE  BytesPerSample[ty] \in {1, 2, 4}
BY DEF SampleTypes, BytesPerSample

(* What is to be known of the arguments of Strided.                        *)
Lanes(w, buf, total, ty, mul, add, div) ==
    /\ total \in Nat /\ ty \in SampleTypes /\ BufferIn(w, buf)
    /\ div \in {1, 2, 4} /\ \E k, a \in Nat : mul = k * div /\ add = a * div
    /\ \A i \in 0 .. total - 1 :
          ((i * mul + add) \div div) * BytesPerSample[ty] + BytesPerSample[ty] <= buf.len

LEMMA StridedIsSound ==
    ASSUME NEW w, NEW buf, NEW total, NEW ty, NEW mul, NEW add, NEW div, NEW cal,
           NEW s \in Args, NEW l \in Args, Lanes(w, buf, total, ty, mul, add, div)
    PROVE  Prepared(w, Strided(buf, ApplySlice(total, Absent, Absent), ty, mul, add, div, cal),
                       Strided(buf, ApplySlice(total, s, l), ty, mul, add, div, cal), s, l)
<1> DEFINE cut == ApplySlice(total, s, l)
           all == [start |-> 0, len |-> total]
           r == Strided(buf, all, ty, mul, add, div, cal)
           p == r.plan
<1>1. total \in Nat /\ ApplySlice(total, Absent, Absent) = all
  BY SliceWhole DEF Lanes
<1>2. /\ r.tag = "plan" /\ p.n = total /\ p.ty = ty /\ p.woven = FALSE /\ p.cal = cal
      /\ p.buf = buf /\ p.odd = buf
      /\ p.idx.start = 0 /\ p.idx.mul = mul /\ p.idx.add = add /\ p.idx.div = div
  BY DEF Strided
<1>3. Strided(buf, cut, ty, mul, add, div, cal) = Sliced(r, s, l)
  BY DEF Strided, Sliced, Windowed
<1> HIDE DEF r
<1>4. \A i \in 0 .. total - 1 : InBounds(p, i)
  <2> SUFFICES ASSUME NEW i \in 0 .. total - 1
               PROVE  InBounds(p, i)
    OBVIOUS
  <2>1. i \in Nat
    BY <1>1
  <2>2. Where(p, i) = [buf |-> buf, at |-> ((i * mul + add) \div div) * BytesPerSample[ty]]
    BY <1>2, <2>1 DEF Where, RawIdx
  <2>3. ((i * mul + add) \div div) * BytesPerSample[ty] + BytesPerSample[ty] <= buf.len
    BY DEF Lanes
  <2> QED
    BY <1>2, <2>2, <2>3 DEF InBounds
<1>5. Sound(w, p)
  BY <1>2, <1>4 DEF Sound, Lanes
<1>6. Strided(buf, ApplySlice(total, Absent, Absent), ty, mul, add, div, cal) = r
  BY <1>1 DEF r
<1>7. Prepared(w, r, Sliced(r, s, l), s, l)
  BY <1>2, <1>5 DEF Prepared
<1> QED
  BY <1>3, <1>6, <1>7

(* An error is the same whatever the slice. *)
LEMMA ErrorIsPrepared ==
    ASSUME NEW w, NEW r, NEW e, r = Err(e), NEW s, NEW l
    PROVE  Prepared(w, r, r, s, l)
<1>1. r.tag = "err"
  BY DEF Err
<1> QED
  BY <1>1 DEF Prepared, Sliced

LEMMA HeldAsStored ==
    ASSUME NEW w, Held(w), w.fam \in AsStored
    PROVE  FileShape(w)
BY DEF Held

(* DS1000Z: the lanes are as many as flags has bits, rounded up to a power *)
(* of two, and that many samples of depth belong to each.                  *)
LEMMA Strides ==
    ASSUME NEW h, h.flags \subseteq Channels, NEW ch \in Channels
    PROVE  /\ h.flags = {} => Stride1000Z(h) = 0
           /\ h.flags # {} => Stride1000Z(h) \in {1, 2, 4}
           /\ Lane1000Z(h, ch) \in Nat
           /\ h.flags # {} => Lane1000Z(h, ch) < Stride1000Z(h)
<1> DEFINE n == Cardinality(h.flags)
<1>1. IsFiniteSet(0 .. 3) /\ Cardinality(0 .. 3) = 4
  <2>1. 0 \in Int /\ 3 \in Int
    OBVIOUS
  <2>2. IsFiniteSet(0 .. 3) /\ Cardinality(0 .. 3) = IF 0 > 3 THEN 0 ELSE 3 - 0 + 1
    BY <2>1, FS_Interval
  <2> QED
    BY <2>2
<1>2. IsFiniteSet(h.flags) /\ n <= 4
  BY <1>1, FS_Subset DEF Channels
<1>3. n \in Nat
  BY <1>2, FS_CardinalityType
<1>4. h.flags = {} <=> n = 0
  BY <1>2, FS_EmptySet
<1>5. Stride1000Z(h) = IF n = 3 THEN 4 ELSE n
  BY DEF Stride1000Z
<1> HIDE DEF n
<1>6. n \in 0 .. 4
  BY <1>2, <1>3
<1>7. Lane1000Z(h, ch) = CASE Stride1000Z(h) = 2 -> IF h.flags \cap 0 .. ch - 1 = {} THEN 1 ELSE 0
                           [] Stride1000Z(h) = 4 -> 4 - (ch + 1)
                           [] OTHER              -> 0
  BY DEF Lane1000Z
<1>8. ch \in {0, 1, 2, 3}
  BY DEF Channels
<1>9. Stride1000Z(h) \in {0, 1, 2, 4} /\ (Stride1000Z(h) = 0 <=> h.flags = {})
  BY <1>4, <1>5, <1>6
<1> QED
  BY <1>7, <1>8, <1>9

(* The last sample of every lane lies in the depth.                        *)
LEMMA LanesFit ==
    ASSUME NEW h, h.flags \subseteq Channels, h.depth \in Nat, NEW ch \in Channels
    PROVE  /\ Points1000Z(h) \in Nat
           /\ \A i \in 0 .. Points1000Z(h) - 1 :
                /\ i * Stride1000Z(h) + Lane1000Z(h, ch) \in Nat
                /\ i * Stride1000Z(h) + Lane1000Z(h, ch) + 1 <= h.depth
<1> DEFINE stride == Stride1000Z(h)
           lane == Lane1000Z(h, ch)
           total == Points1000Z(h)
           d == h.depth
<1>1. /\ h.flags = {} => stride = 0
      /\ h.flags # {} => stride \in {1, 2, 4}
      /\ lane \in Nat
      /\ h.flags # {} => lane < stride
  BY Strides
<1>2. total = IF h.flags = {} THEN 0 ELSE d \div stride
  BY DEF Points1000Z
<1> HIDE DEF stride, lane, total
<1>3. total \in Nat
  BY <1>1, <1>2
<1>4. ASSUME NEW i \in 0 .. total - 1
      PROVE  i * stride + lane \in Nat /\ i * stride + lane + 1 <= d
  <2>1. h.flags # {} /\ i \in Nat /\ i + 1 <= d \div stride /\ d \in Nat
    BY <1>2, <1>3
  <2> HIDE DEF d
  <2>2. CASE stride = 1
    BY <1>1, <2>1, <2>2
  <2>3. CASE stride = 2
    BY <1>1, <2>1, <2>3
  <2>4. CASE stride = 4
    BY <1>1, <2>1, <2>4
  <2> QED
    BY <1>1, <2>1, <2>2, <2>3, <2>4
<1> QED
  BY <1>3, <1>4 DEF total, stride, lane

LEMMA Prepared1000Z ==
    ASSUME NEW w, Held(w), w.fam = "Ds1000z",
           NEW ch \in Nat, NEW s \in Args, NEW l \in Args
    PROVE  Prepared(w, Prepare1000Z(w, ch, Absent, Absent), Prepare1000Z(w, ch, s, l), s, l)
<1> DEFINE h == w.h
           data == (h.hoff + h.hsize) % U32
           stride == Stride1000Z(h)
           lane == Lane1000Z(h, ch)
           buf == Buffer(data, w.size - data)
           total == Points1000Z(h)
           Plan(a, b) == Strided(buf, ApplySlice(total, a, b), "U8", stride, lane, 1,
                                 Cal(ch, h.inv[ch]))
<1>0. /\ h.flags \subseteq Channels
      /\ h.depth \in U32s /\ h.hoff \in U32s /\ h.hsize \in U32s /\ w.size \in Usizes
  BY HeldAsStored DEF FileShape, AsStored
<1>7. h.depth \in Nat /\ h.hoff \in Nat /\ h.hsize \in Nat /\ w.size \in Nat
  BY <1>0, Widths
<1>8. data \in Nat
  BY <1>7, Wraps
<1>1. h.flags \subseteq Channels /\ h.depth \in Nat /\ w.size \in Nat /\ data \in Nat
  BY <1>0, <1>7, <1>8
<1>2. \A a, b : Prepare1000Z(w, ch, a, b) =
         IF ch > 3 THEN NoChannel ELSE IF ~h.on[ch] THEN NotEnabled
         ELSE IF data + h.depth > w.size THEN Overrun ELSE Plan(a, b)
  BY DEF Prepare1000Z
<1> HIDE DEF data, Plan
<1>3. CASE ch > 3
  BY <1>2, <1>3, ErrorIsPrepared, Zenon DEF NoChannel
<1>4. CASE ~(ch > 3) /\ ~h.on[ch]
  BY <1>2, <1>4, ErrorIsPrepared, Zenon DEF NotEnabled
<1>5. CASE ~(ch > 3) /\ h.on[ch] /\ data + h.depth > w.size
  BY <1>2, <1>5, ErrorIsPrepared, Zenon DEF Overrun
<1>6. CASE ~(ch > 3) /\ h.on[ch] /\ ~(data + h.depth > w.size)
  <2>1. ch \in Channels
    BY <1>6 DEF Channels
  <2>2. /\ h.flags = {} => stride = 0
        /\ h.flags # {} => stride \in {1, 2, 4}
        /\ lane \in Nat
        /\ h.flags # {} => lane < stride
    BY <1>1, <2>1, Strides
  <2>3. total = IF h.flags = {} THEN 0 ELSE h.depth \div stride
    BY DEF Points1000Z
  <2> HIDE DEF stride, lane, total
  <2>4. BufferIn(w, buf) /\ buf.len >= h.depth
    BY <1>1, <1>6 DEF BufferIn, Buffer
  <2>5. total \in Nat
    BY <1>1, <2>2, <2>3
  <2>6. stride = stride * 1 /\ lane = lane * 1 /\ stride \in Nat
    BY <2>2
  <2>7. \A i \in 0 .. total - 1 : i * stride + lane \in Nat /\ i * stride + lane + 1 <= h.depth
    BY <1>1, <2>1, LanesFit DEF total, stride, lane
  <2>8. BytesPerSample["U8"] = 1 /\ "U8" \in SampleTypes
    BY DEF BytesPerSample, SampleTypes
  <2>9. \A i \in 0 .. total - 1 :
           ((i * stride + lane) \div 1) * BytesPerSample["U8"] + BytesPerSample["U8"] <= buf.len
    <3> SUFFICES ASSUME NEW i \in 0 .. total - 1
                 PROVE  ((i * stride + lane) \div 1) * 1 + 1 <= buf.len
      BY <2>8
    <3> DEFINE x == i * stride + lane
    <3>1. x \in Nat /\ x + 1 <= h.depth
      BY <2>7
    <3>2. buf.len \in Nat
      BY <2>4 DEF BufferIn
    <3> HIDE DEF x, buf
    <3>3. (x \div 1) * 1 + 1 <= buf.len
      BY <1>1, <2>4, <3>1, <3>2
    <3> QED
      BY <3>3 DEF x
  <2>10. Lanes(w, buf, total, "U8", stride, lane, 1)
    BY <2>2, <2>4, <2>5, <2>6, <2>8, <2>9 DEF Lanes
  <2>11. Prepared(w, Plan(Absent, Absent), Plan(s, l), s, l)
    BY <2>10, StridedIsSound DEF Plan
  <2> QED
    BY <1>2, <1>6, <2>11, Zenon
<1> QED
  BY <1>3, <1>4, <1>5, <1>6

(* Samples side by side that fit their buffer.                             *)
LEMMA PackedIsSound ==
    ASSUME NEW w, NEW buf, NEW total \in Nat, NEW ty \in SampleTypes, NEW cal,
           NEW s \in Args, NEW l \in Args,
           BufferIn(w, buf), total * BytesPerSample[ty] <= buf.len
    PROVE  Prepared(w, Packed(buf, ApplySlice(total, Absent, Absent), ty, cal),
                       Packed(buf, ApplySlice(total, s, l), ty, cal), s, l)
<1> DEFINE b == BytesPerSample[ty]
           n == buf.len
<1>1. b \in {1, 2, 4} /\ n \in Nat /\ total * b <= n
  BY Width DEF BufferIn
<1> HIDE DEF b, n
<1>2. ASSUME NEW i \in 0 .. total - 1
      PROVE  ((i * 1 + 0) \div 1) * b + b <= n
  BY <1>1
<1>3. 1 = 1 * 1 /\ 0 = 0 * 1 /\ 1 \in {1, 2, 4} /\ 1 \in Nat /\ 0 \in Nat
  OBVIOUS
<1>4. Lanes(w, buf, total, ty, 1, 0, 1)
  BY <1>2, <1>3 DEF Lanes, b, n
<1> QED
  BY <1>4, StridedIsSound DEF Packed

LEMMA Prepared1000E ==
    ASSUME NEW w, Held(w), w.fam = "Ds1000e",
           NEW ch \in Nat, NEW s \in Args, NEW l \in Args
    PROVE  Prepared(w, Prepare1000E(w, ch, Absent, Absent), Prepare1000E(w, ch, s, l), s, l)
<1> DEFINE h == w.h
           points == Points1000E(h)
           first == IF h.on[0] THEN points + Skip1000E(h) ELSE 0
           data == DataStart1000E + (IF ch = 0 THEN 0 ELSE first)
           buf == Buffer(data, w.size - data)
           Plan(a, b) == Packed(buf, ApplySlice(points, a, b), "U8", Cal(ch, h.inv[ch]))
<1>1. h.depth \in U32s /\ h.roll \in U32s /\ w.size \in Usizes
  BY HeldAsStored DEF FileShape, AsStored
<1>2. h.depth \in Nat /\ h.roll \in Nat /\ w.size \in Nat
  BY <1>1, Widths
<1>3. Skip1000E(h) \in Nat
  BY <1>2, Wraps DEF Skip1000E
<1>4. points \in Nat
  BY <1>2, <1>3 DEF Points1000E, MonusSat
<1> HIDE DEF points
<1>5. data \in Nat
  BY <1>3, <1>4 DEF DataStart1000E
<1>6. \A a, b : Prepare1000E(w, ch, a, b) =
         IF ch > 1 THEN NoChannel ELSE IF ~h.on[ch] THEN NotEnabled
         ELSE IF data + points > w.size THEN Overrun ELSE Plan(a, b)
  BY DEF Prepare1000E, points
<1> HIDE DEF data, Plan
<1>7. CASE ch > 1
  BY <1>6, <1>7, ErrorIsPrepared, Zenon DEF NoChannel
<1>8. CASE ~(ch > 1) /\ ~h.on[ch]
  BY <1>6, <1>8, ErrorIsPrepared, Zenon DEF NotEnabled
<1>9. CASE ~(ch > 1) /\ h.on[ch] /\ data + points > w.size
  BY <1>6, <1>9, ErrorIsPrepared, Zenon DEF Overrun
<1>10. CASE ~(ch > 1) /\ h.on[ch] /\ ~(data + points > w.size)
  <2>1. ~(data + points > w.size)
    BY <1>10
  <2>2. BufferIn(w, buf) /\ buf.len >= points
    BY <1>2, <1>4, <1>5, <2>1 DEF BufferIn, Buffer
  <2>3. BytesPerSample["U8"] = 1 /\ "U8" \in SampleTypes
    BY DEF BytesPerSample, SampleTypes
  <2>4. buf.len \in Nat
    BY <2>2 DEF BufferIn
  <2> HIDE DEF buf
  <2>5. points * BytesPerSample["U8"] <= buf.len
    BY <1>4, <2>2, <2>3, <2>4
  <2>6. Prepared(w, Plan(Absent, Absent), Plan(s, l), s, l)
    BY <1>4, <2>2, <2>3, <2>5, PackedIsSound DEF Plan
  <2> QED
    BY <1>6, <1>10, <2>6, Zenon
<1> QED
  BY <1>7, <1>8, <1>9, <1>10, Zenon

LEMMA Prepared4000 ==
    ASSUME NEW w, Held(w), w.fam = "Ds4000",
           NEW ch \in Nat, NEW s \in Args, NEW l \in Args
    PROVE  Prepared(w, Prepare4000(w, ch, Absent, Absent), Prepare4000(w, ch, s, l), s, l)
<1> DEFINE h == w.h
           buf == Buffer(h.offs[ch], h.depth)
           Plan(a, b) == Packed(buf, ApplySlice(h.depth, a, b), "U8", Cal(ch, h.inv[ch]))
<1>1. h.offs \in [Channels -> U32s] /\ h.depth \in U32s /\ w.size \in Usizes
  BY HeldAsStored DEF FileShape, AsStored
<1>2. h.depth \in Nat /\ w.size \in Nat
  BY <1>1, Widths
<1>3. \A a, b : Prepare4000(w, ch, a, b) =
         IF ch > 3 THEN NoChannel ELSE IF ch \notin h.on THEN NotEnabled
         ELSE IF h.offs[ch] + h.depth > w.size THEN Overrun ELSE Plan(a, b)
  BY DEF Prepare4000
<1> HIDE DEF Plan
<1>4. CASE ch > 3
  BY <1>3, <1>4, ErrorIsPrepared, Zenon DEF NoChannel
<1>5. CASE ~(ch > 3) /\ ch \notin h.on
  BY <1>3, <1>5, ErrorIsPrepared, Zenon DEF NotEnabled
<1>6. CASE ~(ch > 3) /\ ch \in h.on /\ h.offs[ch] + h.depth > w.size
  BY <1>3, <1>6, ErrorIsPrepared, Zenon DEF Overrun
<1>7. CASE ~(ch > 3) /\ ch \in h.on /\ ~(h.offs[ch] + h.depth > w.size)
  <2>1. ~(h.offs[ch] + h.depth > w.size)
    BY <1>7
  <2>2. ch \in Channels
    BY <1>7 DEF Channels
  <2>3. h.offs[ch] \in Nat
    BY <1>1, <2>2, Widths
  <2>4. BufferIn(w, buf) /\ buf.len = h.depth
    BY <1>2, <2>1, <2>3 DEF BufferIn, Buffer
  <2>5. BytesPerSample["U8"] = 1 /\ "U8" \in SampleTypes
    BY DEF BytesPerSample, SampleTypes
  <2> HIDE DEF buf
  <2>6. h.depth * BytesPerSample["U8"] <= buf.len
    BY <1>2, <2>4, <2>5
  <2>7. Prepared(w, Plan(Absent, Absent), Plan(s, l), s, l)
    BY <1>2, <2>4, <2>5, <2>6, PackedIsSound DEF Plan
  <2> QED
    BY <1>3, <1>7, <2>7, Zenon
<1> QED
  BY <1>4, <1>5, <1>6, <1>7, Zenon

LEMMA PreparedTek ==
    ASSUME NEW w, Held(w), w.fam = "Tektronix",
           NEW ch \in Nat, NEW s \in Args, NEW l \in Args
    PROVE  Prepared(w, PrepareTek(w, ch, Absent, Absent), PrepareTek(w, ch, s, l), s, l)
<1> DEFINE h == w.h
           from == TekAt(h, h.start)
           upto == TekAt(h, h.stop)
           ty == CASE h.bpp = 1 -> "I8"
                   [] h.bpp = 2 -> IF h.le THEN "I16Le" ELSE "I16Be"
                   [] OTHER     -> IF h.le THEN "I32Le" ELSE "I32Be"
           buf == Buffer(from, upto - from)
           total == (upto - from) \div h.bpp
           Plan(a, b) == Packed(buf, ApplySlice(total, a, b), ty, Cal(NoEntry, FALSE))
<1>1. /\ h.base \in Int /\ h.start \in U32s /\ h.stop \in U32s /\ h.bpp \in U32s
      /\ w.size \in Usizes
  BY HeldAsStored DEF FileShape, AsStored
<1>2. h.start \in Nat /\ h.stop \in Nat /\ h.bpp \in Nat /\ w.size \in Nat
  BY <1>1, Widths
<1>3. from \in Nat /\ upto \in Nat
  BY <1>1, <1>2, WidthAssumption DEF TekAt
<1>4. \A a, b : PrepareTek(w, ch, a, b) =
         IF ch > 0 THEN NoChannel ELSE IF upto > w.size \/ from >= upto THEN Overrun
         ELSE IF h.bpp = 0 THEN Panic("attempt to divide by zero")
         ELSE IF h.bpp \notin {1, 2, 4} THEN Err("unsupported width") ELSE Plan(a, b)
  BY DEF PrepareTek
<1> HIDE DEF from, upto, Plan
<1>5. CASE ch > 0
  BY <1>4, <1>5, ErrorIsPrepared, Zenon DEF NoChannel
<1>6. CASE ~(ch > 0) /\ (upto > w.size \/ from >= upto)
  BY <1>4, <1>6, ErrorIsPrepared, Zenon DEF Overrun
<1>7. CASE ~(ch > 0) /\ ~(upto > w.size \/ from >= upto) /\ h.bpp = 0
  <2> DEFINE r == Panic("attempt to divide by zero")
  <2>1. PrepareTek(w, ch, Absent, Absent) = r /\ PrepareTek(w, ch, s, l) = r
    BY <1>4, <1>7, Zenon
  <2>2. r.tag = "panic"
    BY DEF Panic
  <2>3. ZeroWidth(w)
    BY <1>7 DEF ZeroWidth
  <2> HIDE DEF r
  <2> QED
    BY <2>1, <2>2, <2>3 DEF Prepared, Sliced
<1>8. CASE ~(ch > 0) /\ ~(upto > w.size \/ from >= upto) /\ h.bpp # 0 /\ h.bpp \notin {1, 2, 4}
  BY <1>4, <1>8, ErrorIsPrepared, Zenon
<1>9. CASE ~(ch > 0) /\ ~(upto > w.size \/ from >= upto) /\ h.bpp # 0 /\ h.bpp \in {1, 2, 4}
  <2>1. ~(upto > w.size) /\ ~(from >= upto) /\ h.bpp \in {1, 2, 4}
    BY <1>9
  <2>2. upto - from \in Nat /\ BufferIn(w, buf) /\ buf.len = upto - from
    BY <1>2, <1>3, <2>1 DEF BufferIn, Buffer
  <2>3. ty \in SampleTypes /\ BytesPerSample[ty] = h.bpp
    BY <2>1 DEF BytesPerSample, SampleTypes
  <2> HIDE DEF buf, ty
  <2>4. total \in Nat /\ total * BytesPerSample[ty] <= buf.len
    <3> DEFINE n == upto - from
               b == h.bpp
    <3>1. n \in Nat /\ b \in {1, 2, 4}
      BY <2>1, <2>2
    <3> HIDE DEF n, b
    <3>2. n \div b \in Nat /\ (n \div b) * b <= n
      BY <3>1
    <3> QED
      BY <2>2, <2>3, <3>2 DEF n, b
  <2> HIDE DEF total
  <2>5. Prepared(w, Plan(Absent, Absent), Plan(s, l), s, l)
    BY <2>2, <2>3, <2>4, PackedIsSound DEF Plan
  <2> QED
    BY <1>4, <1>9, <2>5, Zenon
<1> QED
  BY <1>5, <1>6, <1>7, <1>8, <1>9, Zenon

LEMMA PreparedIsf ==
    ASSUME NEW w, Held(w), w.fam = "Isf",
           NEW ch \in Nat, NEW s \in Args, NEW l \in Args
    PROVE  Prepared(w, PrepareIsf(w, ch, Absent, Absent), PrepareIsf(w, ch, s, l), s, l)
<1> DEFINE h == w.h
           buf == Buffer(h.off, w.size - h.off)
           ty == IF h.byt = 1 THEN "I8" ELSE IF h.le THEN "I16Le" ELSE "I16Be"
           total == Smaller(h.pts, buf.len \div h.byt)
           Plan(a, b) == Packed(buf, ApplySlice(total, a, b), ty, Cal(NoEntry, FALSE))
<1>1. h.off \in Usizes /\ h.pts \in U32s /\ h.byt \in U32s /\ w.size \in Usizes
  BY HeldAsStored DEF FileShape, AsStored
<1>2. h.off \in Nat /\ h.pts \in Nat /\ h.byt \in Nat /\ w.size \in Nat
  BY <1>1, Widths
<1>3. \A a, b : PrepareIsf(w, ch, a, b) =
         IF ch > 0 THEN NoChannel ELSE IF h.off > w.size THEN Overrun
         ELSE IF h.byt = 0 THEN Panic("attempt to divide by zero")
         ELSE IF h.byt \notin {1, 2} THEN Err("unsupported width") ELSE Plan(a, b)
  BY DEF PrepareIsf
<1> HIDE DEF Plan
<1>4. CASE ch > 0
  BY <1>3, <1>4, ErrorIsPrepared, Zenon DEF NoChannel
<1>5. CASE ~(ch > 0) /\ h.off > w.size
  BY <1>3, <1>5, ErrorIsPrepared, Zenon DEF Overrun
<1>6. CASE ~(ch > 0) /\ ~(h.off > w.size) /\ h.byt = 0
  <2> DEFINE r == Panic("attempt to divide by zero")
  <2>1. PrepareIsf(w, ch, Absent, Absent) = r /\ PrepareIsf(w, ch, s, l) = r
    BY <1>3, <1>6, Zenon
  <2>2. r.tag = "panic"
    BY DEF Panic
  <2>3. ZeroWidth(w)
    BY <1>6 DEF ZeroWidth
  <2> HIDE DEF r
  <2> QED
    BY <2>1, <2>2, <2>3 DEF Prepared, Sliced
<1>7. CASE ~(ch > 0) /\ ~(h.off > w.size) /\ h.byt # 0 /\ h.byt \notin {1, 2}
  BY <1>3, <1>7, ErrorIsPrepared, Zenon
<1>8. CASE ~(ch > 0) /\ ~(h.off > w.size) /\ h.byt # 0 /\ h.byt \in {1, 2}
  <2>1. ~(h.off > w.size) /\ h.byt \in {1, 2}
    BY <1>8
  <2>2. BufferIn(w, buf) /\ buf.len \in Nat
    BY <1>2, <2>1 DEF BufferIn, Buffer
  <2>3. ty \in SampleTypes /\ BytesPerSample[ty] = h.byt
    BY <2>1 DEF BytesPerSample, SampleTypes
  <2> HIDE DEF buf, ty
  <2>4. total \in Nat /\ total * BytesPerSample[ty] <= buf.len
    <3> DEFINE n == buf.len
               b == h.byt
               p == h.pts
    <3>1. n \in Nat /\ b \in {1, 2} /\ p \in Nat
      BY <1>2, <2>1, <2>2
    <3> HIDE DEF n, b, p
    <3>2. n \div b \in Nat /\ (n \div b) * b <= n
      BY <3>1
    <3>3. Smaller(p, n \div b) \in Nat /\ Smaller(p, n \div b) <= n \div b
      BY <3>1, <3>2 DEF Smaller
    <3>4. Smaller(p, n \div b) * b <= n
      BY <3>1, <3>2, <3>3
    <3> QED
      BY <2>3, <3>3, <3>4 DEF n, b, p
  <2> HIDE DEF total
  <2>5. Prepared(w, Plan(Absent, Absent), Plan(s, l), s, l)
    BY <2>2, <2>3, <2>4, PackedIsSound DEF Plan
  <2> QED
    BY <1>3, <1>8, <2>5, Zenon
<1> QED
  BY <1>4, <1>5, <1>6, <1>7, <1>8, Zenon

(* The entry that is found is one with the number asked for.               *)
LEMMA Found ==
    ASSUME NEW chans, Len(chans) \in Nat, NEW n, Entries(chans, n) # {}
    PROVE  \E k \in 1 .. Len(chans) : chans[k].channel = n /\ FindChannel(chans, n) = chans[k]
<1> DEFINE E == Entries(chans, n)
           least == CHOOSE k \in E : \A j \in E : k <= j
<1>1. E \in SUBSET Nat /\ \A k \in E : k \in 1 .. Len(chans) /\ chans[k].channel = n
  BY DEF Entries
<1>2. FindChannel(chans, n) = chans[least]
  BY DEF FindChannel
<1> HIDE DEF E
<1>3. \E k \in E : \A j \in E : k <= j
  BY <1>1, Least DEF E
<1>4. least \in E
  BY <1>3
<1> QED
  BY <1>1, <1>2, <1>4

LEMMA PreparedSiglent ==
    ASSUME NEW w, Held(w), w.fam = "Siglent",
           NEW ch \in Nat, NEW s \in Args, NEW l \in Args
    PROVE  Prepared(w, PrepareSiglent(w, ch, Absent, Absent), PrepareSiglent(w, ch, s, l), s, l)
<1> DEFINE h == w.h
           c == FindChannel(h.chans, ch + 1)
           none == Entries(h.chans, ch + 1) = {}
           Plan(a, b) == Packed(Buffer(c.off, h.wlen), ApplySlice(h.wlen, a, b), "U8",
                                Cal(ch, FALSE))
<1>1. HeldSiglent(w)
  BY DEF Held
<1>2. h.wlen \in Nat /\ Len(h.chans) \in Nat /\ w.size \in Nat
  <2>1. w.size \in Usizes
    BY DEF Held
  <2>2. h.wlen \in Usizes /\ Len(h.chans) \in 1 .. 4
    BY <1>1 DEF HeldSiglent
  <2>3. 1 .. 4 \subseteq Nat
    OBVIOUS
  <2> HIDE DEF h
  <2> QED
    BY <2>1, <2>2, <2>3, Widths, Zenon
<1>3. \A a, b : PrepareSiglent(w, ch, a, b) =
         IF ch > 3 THEN NoChannel ELSE IF none THEN NotEnabled
         ELSE IF c.off + h.wlen > w.size THEN Overrun ELSE Plan(a, b)
  BY DEF PrepareSiglent
<1> HIDE DEF Plan, c, none
<1>4. CASE ch > 3
  BY <1>3, <1>4, ErrorIsPrepared, Zenon DEF NoChannel
<1>5. CASE ~(ch > 3) /\ none
  BY <1>3, <1>5, ErrorIsPrepared, Zenon DEF NotEnabled
<1>6. CASE ~(ch > 3) /\ ~none /\ c.off + h.wlen > w.size
  BY <1>3, <1>6, ErrorIsPrepared, Zenon DEF Overrun
<1>7. CASE ~(ch > 3) /\ ~none /\ ~(c.off + h.wlen > w.size)
  <2>1. \E k \in 1 .. Len(h.chans) : c = h.chans[k]
    BY <1>2, <1>7, Found DEF none, c
  <2>2. c.off \in Nat /\ c.off + h.wlen <= w.size
    BY <1>1, <2>1 DEF HeldSiglent
  <2> DEFINE buf == Buffer(c.off, h.wlen)
  <2>3. BufferIn(w, buf) /\ buf.len = h.wlen
    BY <1>2, <2>2 DEF BufferIn, Buffer
  <2>4. BytesPerSample["U8"] = 1 /\ "U8" \in SampleTypes
    BY DEF BytesPerSample, SampleTypes
  <2> HIDE DEF buf
  <2>5. h.wlen * BytesPerSample["U8"] <= buf.len
    BY <1>2, <2>3, <2>4
  <2>6. Prepared(w, Plan(Absent, Absent), Plan(s, l), s, l)
    BY <1>2, <2>3, <2>4, <2>5, PackedIsSound DEF Plan, buf
  <2> QED
    BY <1>3, <1>7, <2>6, Zenon
<1> QED
  BY <1>4, <1>5, <1>6, <1>7, Zenon

(* DS2000: the two halves of an interwoven capture hold all its samples    *)
(* but for the last one when they are odd in number.                       *)
LEMMA WovenIsSound ==
    ASSUME NEW w, w.fam = "Ds2000", w.h.woven, w.h.wlen \in Nat, w.size \in Nat,
           NEW a \in Nat, NEW b \in Nat, NEW cal, NEW s, NEW l,
           a + w.h.wlen \div 2 <= w.size, b + w.h.wlen \div 2 <= w.size
    PROVE  LET Plan(slice) ==
                 [tag |-> "plan",
                  plan |-> [woven |-> TRUE, buf |-> Buffer(a, w.h.wlen \div 2),
                            odd |-> Buffer(b, w.h.wlen \div 2), n |-> slice.len,
                            ty |-> "U8", cal |-> cal,
                            idx |-> [start |-> slice.start, mul |-> 1, add |-> 0, div |-> 1]]]
           IN  Prepared(w, Plan(ApplySlice(w.h.wlen, Absent, Absent)),
                           Plan(ApplySlice(w.h.wlen, s, l)), s, l)
<1> DEFINE n == w.h.wlen
           half == n \div 2
           Plan(slice) ==
                 [tag |-> "plan",
                  plan |-> [woven |-> TRUE, buf |-> Buffer(a, half),
                            odd |-> Buffer(b, half), n |-> slice.len,
                            ty |-> "U8", cal |-> cal,
                            idx |-> [start |-> slice.start, mul |-> 1, add |-> 0, div |-> 1]]]
           all == [start |-> 0, len |-> n]
           r == Plan(all)
           p == r.plan
<1>1. ApplySlice(n, Absent, Absent) = all
  BY SliceWhole
<1>2. /\ r.tag = "plan" /\ p.n = n /\ p.ty = "U8" /\ p.woven = TRUE /\ p.cal = cal
      /\ p.buf = Buffer(a, half) /\ p.odd = Buffer(b, half)
      /\ p.idx.start = 0 /\ p.idx.mul = 1 /\ p.idx.add = 0 /\ p.idx.div = 1
  OBVIOUS
<1>3. Plan(ApplySlice(n, s, l)) = Sliced(r, s, l)
  BY DEF Sliced, Windowed
<1>4. n \in Nat /\ half \in Nat
  OBVIOUS
<1> HIDE DEF r
<1>5. BufferIn(w, p.buf) /\ BufferIn(w, p.odd) /\ p.buf.len = half /\ p.odd.len = half
  BY <1>2, <1>4 DEF BufferIn, Buffer
<1>6. BytesPerSample["U8"] = 1 /\ "U8" \in SampleTypes
  BY DEF BytesPerSample, SampleTypes
<1>7. \A i \in 0 .. p.n - 1 : InBounds(p, i) \/ OddOneOut(w, p, i)
  <2> SUFFICES ASSUME NEW i \in 0 .. n - 1, ~OddOneOut(w, p, i)
               PROVE  InBounds(p, i)
    BY <1>2
  <2>1. i \in Nat /\ i + 1 <= n
    BY <1>4
  <2>2. n % 2 = 1 => i + 1 < n
    BY <1>2, <2>1 DEF OddOneOut
  <2>3. i \div 2 + 1 <= half
    <3> HIDE DEF n
    <3> QED
      BY <1>4, <2>1, <2>2
  <2>4. Where(p, i).at = i \div 2 /\ Where(p, i).buf \in {p.buf, p.odd}
    BY <1>2, <2>1 DEF Where
  <2> QED
    BY <1>2, <1>5, <1>6, <2>3, <2>4 DEF InBounds
<1>8. 1 = 1 * 1 /\ 0 = 0 * 1 /\ 1 \in {1, 2, 4} /\ 1 \in Nat /\ 0 \in Nat
  OBVIOUS
<1>9. Sound(w, p)
  BY <1>2, <1>4, <1>5, <1>6, <1>7, <1>8 DEF Sound
<1>10. Prepared(w, r, Sliced(r, s, l), s, l)
  BY <1>2, <1>9 DEF Prepared
<1>11. Plan(ApplySlice(n, Absent, Absent)) = r
  BY <1>1 DEF r
<1> HIDE DEF Plan
<1>12. Prepared(w, Plan(ApplySlice(n, Absent, Absent)), Plan(ApplySlice(n, s, l)), s, l)
  BY <1>3, <1>10, <1>11
<1> QED
  BY <1>12 DEF Plan

LEMMA Prepared2000 ==
    ASSUME NEW w, Held(w), w.fam = "Ds2000",
           NEW ch \in Nat, NEW s \in Args, NEW l \in Args
    PROVE  Prepared(w, Prepare2000(w, ch, Absent, Absent), Prepare2000(w, ch, s, l), s, l)
<1> DEFINE h == w.h
           cal == Cal(ch, h.inv[ch])
           At(k) == (h.offs[k] + h.zpt) % U32
           half == h.wlen \div 2
           Woven(a, b) ==
                 [tag |-> "plan",
                  plan |-> [woven |-> TRUE, buf |-> Buffer(At(0), half),
                            odd |-> Buffer(At(1), half), n |-> ApplySlice(h.wlen, a, b).len,
                            ty |-> "U8", cal |-> cal,
                            idx |-> [start |-> ApplySlice(h.wlen, a, b).start,
                                     mul |-> 1, add |-> 0, div |-> 1]]]
           Plan(a, b) == Packed(Buffer(At(ch), h.wlen), ApplySlice(h.wlen, a, b), "U8", cal)
           far == At(0) + half > w.size \/ At(1) + half > w.size
           over == At(ch) + h.wlen > w.size
<1>1. /\ h.offs \in [Channels -> U32s] /\ h.zpt \in U32s /\ h.wlen \in U32s
      /\ w.size \in Usizes
  BY HeldAsStored DEF FileShape, AsStored
<1>2. h.zpt \in Nat /\ h.wlen \in Nat /\ w.size \in Nat
  BY <1>1, Widths
<1>3. \A k \in Channels : At(k) \in Nat
  <2> SUFFICES ASSUME NEW k \in Channels
               PROVE  At(k) \in Nat
    OBVIOUS
  <2>1. h.offs[k] \in Nat
    BY <1>1, Widths
  <2> QED
    BY <1>2, <2>1, Wraps
<1>4. \A a, b : Prepare2000(w, ch, a, b) =
         IF ch > 3 THEN NoChannel ELSE IF ~h.on[ch] THEN NotEnabled
         ELSE IF h.woven THEN IF far THEN Overrun ELSE Woven(a, b)
         ELSE IF over THEN Overrun ELSE Plan(a, b)
  BY DEF Prepare2000
<1>5. ~far => Prepared(w, Woven(Absent, Absent), Woven(s, l), s, l) \/ ~h.woven
  <2> SUFFICES ASSUME ~far, h.woven
               PROVE  Prepared(w, Woven(Absent, Absent), Woven(s, l), s, l)
    OBVIOUS
  <2> DEFINE x == At(0)
             y == At(1)
  <2>1. x \in Nat /\ y \in Nat
    BY <1>3 DEF Channels
  <2> HIDE DEF At
  <2>2. half \in Nat
    BY <1>2
  <2>3. x + half <= w.size /\ y + half <= w.size
    BY <1>2, <2>1, <2>2
  <2> QED
    BY <1>2, <2>1, <2>3, WovenIsSound
<1>6. ~over /\ ch <= 3 => Prepared(w, Plan(Absent, Absent), Plan(s, l), s, l)
  <2> SUFFICES ASSUME ~over, ch <= 3
               PROVE  Prepared(w, Plan(Absent, Absent), Plan(s, l), s, l)
    OBVIOUS
  <2> DEFINE x == At(ch)
             buf == Buffer(x, h.wlen)
  <2>1. ch \in Channels
    BY DEF Channels
  <2>2. x \in Nat
    BY <1>3, <2>1
  <2> HIDE DEF At
  <2>3. BufferIn(w, buf) /\ buf.len = h.wlen
    BY <1>2, <2>2 DEF BufferIn, Buffer
  <2>4. BytesPerSample["U8"] = 1 /\ "U8" \in SampleTypes
    BY DEF BytesPerSample, SampleTypes
  <2> HIDE DEF buf
  <2>5. h.wlen * BytesPerSample["U8"] <= buf.len
    BY <1>2, <2>3, <2>4
  <2> QED
    BY <1>2, <2>3, <2>4, <2>5, PackedIsSound DEF buf
<1>7. ~(ch > 3) => ch <= 3
  OBVIOUS
<1> HIDE DEF far, over, Woven, Plan, At
<1>8. CASE ch > 3
  BY <1>4, <1>8, ErrorIsPrepared, Zenon DEF NoChannel
<1>9. CASE ~(ch > 3) /\ ~h.on[ch]
  BY <1>4, <1>9, ErrorIsPrepared, Zenon DEF NotEnabled
<1>10. CASE ~(ch > 3) /\ h.on[ch] /\ ((h.woven /\ far) \/ (~h.woven /\ over))
  BY <1>4, <1>10, ErrorIsPrepared, Zenon DEF Overrun
<1>11. CASE ~(ch > 3) /\ h.on[ch] /\ h.woven /\ ~far
  BY <1>4, <1>5, <1>11, Zenon
<1>12. CASE ~(ch > 3) /\ h.on[ch] /\ ~h.woven /\ ~over
  BY <1>4, <1>6, <1>7, <1>12, Zenon
<1> QED
  BY <1>8, <1>9, <1>10, <1>11, <1>12, Zenon

(* Keysight: the buffer of one record.                                     *)
LEMMA PreparedKeysight ==
    ASSUME NEW w, Held(w), w.fam = "Keysight",
           NEW ch \in Nat, NEW s \in Args, NEW l \in Args
    PROVE  Prepared(w, PrepareKeysight(w, ch, Absent, Absent), PrepareKeysight(w, ch, s, l), s, l)
<1> DEFINE wf == w.h.wfs[ch + 1]
           ty == IF wf.kind = "float" THEN "F32Le" ELSE "U8"
           none == ch >= Len(w.h.wfs)
           over == wf.off + wf.len > w.size
           other == <<wf.kind, wf.bpp>> \notin {<<"float", 4>>, <<"logic", 1>>}
           total == Smaller(wf.pts, wf.len \div wf.bpp)
           buf == Buffer(wf.off, wf.len)
           Plan(a, b) == Packed(buf, ApplySlice(total, a, b), ty, Cal(NoEntry, FALSE))
<1>1. HeldKeysight(w)
  BY DEF Held
<1>2. \A a, b : PrepareKeysight(w, ch, a, b) =
         IF none THEN NoChannel ELSE IF over THEN Overrun
         ELSE IF other THEN Err("buffer not supported") ELSE Plan(a, b)
  BY DEF PrepareKeysight
<1>3. ~none => Prepared(w, Plan(Absent, Absent), Plan(s, l), s, l)
  <2> SUFFICES ASSUME ~none
               PROVE  Prepared(w, Plan(Absent, Absent), Plan(s, l), s, l)
    OBVIOUS
  <2>1. Len(w.h.wfs) \in Nat
    BY <1>1 DEF HeldKeysight
  <2>2. ch + 1 \in 1 .. Len(w.h.wfs)
    BY <2>1
  <2>3. /\ wf.pts \in Usizes /\ wf.off \in Nat /\ wf.len \in Nat
        /\ wf.off + wf.len <= w.size
        /\ <<wf.kind, wf.bpp>> \in {<<"float", 4>>, <<"logic", 1>>}
    BY <1>1, <2>2 DEF HeldKeysight
  <2> HIDE DEF wf
  <2>4. wf.pts \in Nat
    BY <2>3, Widths
  <2>5. ty \in SampleTypes /\ BytesPerSample[ty] = wf.bpp /\ wf.bpp \in {1, 4}
    BY <2>3 DEF SampleTypes, BytesPerSample
  <2>6. BufferIn(w, buf) /\ buf.len = wf.len
    BY <2>3 DEF BufferIn, Buffer
  <2> HIDE DEF buf, ty
  <2>7. total \in Nat /\ total * BytesPerSample[ty] <= buf.len
    <3> DEFINE n == wf.len
               b == wf.bpp
               p == wf.pts
    <3>1. n \in Nat /\ b \in {1, 4} /\ p \in Nat
      BY <2>3, <2>4, <2>5
    <3> HIDE DEF n, b, p
    <3>2. n \div b \in Nat /\ (n \div b) * b <= n
      BY <3>1
    <3>3. Smaller(p, n \div b) \in Nat /\ Smaller(p, n \div b) <= n \div b
      BY <3>1, <3>2 DEF Smaller
    <3>4. Smaller(p, n \div b) * b <= n
      BY <3>1, <3>2, <3>3
    <3> QED
      BY <2>5, <2>6, <3>3, <3>4 DEF n, b, p
  <2> HIDE DEF total
  <2> QED
    BY <2>5, <2>6, <2>7, PackedIsSound
<1> HIDE DEF none, over, other, Plan
<1>4. CASE none
  BY <1>2, <1>4, ErrorIsPrepared, Zenon DEF NoChannel
<1>5. CASE ~none /\ over
  BY <1>2, <1>5, ErrorIsPrepared, Zenon DEF Overrun
<1>6. CASE ~none /\ ~over /\ other
  BY <1>2, <1>6, ErrorIsPrepared, Zenon
<1>7. CASE ~none /\ ~over /\ ~other
  BY <1>2, <1>3, <1>7, Zenon
<1> QED
  BY <1>4, <1>5, <1>6, <1>7, Zenon

(* LeCroy: what the count was cut to fits the payload.                     *)
LEMMA PreparedLecroy ==
    ASSUME NEW w, Held(w), w.fam = "Lecroy",
           NEW ch \in Nat, NEW s \in Args, NEW l \in Args
    PROVE  Prepared(w, PrepareLecroy(w, ch, Absent, Absent), PrepareLecroy(w, ch, s, l), s, l)
<1> DEFINE h == w.h
           ty == IF h.width = 1 THEN "I8" ELSE IF h.le THEN "I16Le" ELSE "I16Be"
           none == ch + 1 # h.channel
           over == h.off + h.len > w.size
           buf == Buffer(h.off, h.len)
           Plan(a, b) == Packed(buf, ApplySlice(h.pts, a, b), ty, Cal(NoEntry, FALSE))
<1>1. HeldLecroy(w)
  BY DEF Held
<1>2. \A a, b : PrepareLecroy(w, ch, a, b) =
         IF none THEN NoChannel ELSE IF over THEN Overrun ELSE Plan(a, b)
  BY DEF PrepareLecroy
<1>3. Prepared(w, Plan(Absent, Absent), Plan(s, l), s, l)
  <2>1. /\ h.width \in {1, 2} /\ h.le \in BOOLEAN
        /\ h.off \in Nat /\ h.len \in Nat /\ h.off + h.len <= w.size
        /\ h.pts \in Usizes /\ h.pts * h.width <= h.len
    BY <1>1 DEF HeldLecroy
  <2>2. h.pts \in Nat
    BY <2>1, Widths
  <2>3. ty \in SampleTypes /\ BytesPerSample[ty] = h.width
    BY <2>1 DEF SampleTypes, BytesPerSample
  <2>4. BufferIn(w, buf) /\ buf.len = h.len
    BY <2>1 DEF BufferIn, Buffer
  <2> HIDE DEF buf, ty
  <2>5. h.pts * BytesPerSample[ty] <= buf.len
    BY <2>1, <2>3, <2>4
  <2> QED
    BY <2>2, <2>3, <2>4, <2>5, PackedIsSound
<1> HIDE DEF none, over, Plan
<1>4. CASE none
  BY <1>2, <1>4, ErrorIsPrepared, Zenon DEF NoChannel
<1>5. CASE ~none /\ over
  BY <1>2, <1>5, ErrorIsPrepared, Zenon DEF Overrun
<1>6. CASE ~none /\ ~over
  BY <1>2, <1>3, <1>6, Zenon
<1> QED
  BY <1>4, <1>5, <1>6, Zenon

(* DHO: the column of an enabled slot lies in the row.                     *)
LEMMA PreparedDho ==
    ASSUME NEW w, Held(w), w.fam = "Dho",
           NEW ch \in Nat, NEW s \in Args, NEW l \in Args
    PROVE  Prepared(w, PrepareDho(w, ch, Absent, Absent), PrepareDho(w, ch, s, l), s, l)
<1> DEFINE h == w.h
           total == h.n * h.nch * 2
           none == h.cals[ch] = NoEntry
           over == h.data + total > w.size
           buf == Buffer(h.data, total)
           Plan(a, b) == Strided(buf, ApplySlice(h.n, a, b), "U16Le", h.nch, ch, 1,
                                 Cal(h.cals[ch], FALSE))
<1>1. HeldDho(w)
  BY DEF Held
<1>2. \A a, b : PrepareDho(w, ch, a, b) =
         IF ch > 3 THEN NoChannel ELSE IF none THEN NotEnabled
         ELSE IF over THEN Overrun ELSE Plan(a, b)
  BY DEF PrepareDho
<1>3. ~(ch > 3) /\ ~none => Prepared(w, Plan(Absent, Absent), Plan(s, l), s, l)
  <2> SUFFICES ASSUME ~(ch > 3), ~none
               PROVE  Prepared(w, Plan(Absent, Absent), Plan(s, l), s, l)
    OBVIOUS
  <2>1. /\ h.n \in Usizes /\ h.nch \in 1 .. 4 /\ h.data \in Nat
        /\ \A c \in Channels : h.cals[c] # NoEntry <=> c < h.nch
        /\ h.data + total <= w.size
    BY <1>1 DEF HeldDho
  <2>2. h.n \in Nat
    BY <2>1, Widths
  <2>3. ch \in Channels
    BY DEF Channels
  <2>4. ch < h.nch
    BY <2>1, <2>3
  <2> DEFINE n == h.n
             k == h.nch
  <2>5. n \in Nat /\ k \in {1, 2, 3, 4} /\ ch < k
    BY <2>1, <2>2, <2>4
  <2> HIDE DEF n, k
  <2>6. n * k * 2 \in Nat /\ \A i \in 0 .. n - 1 : i * k + ch \in Nat /\ (i * k + ch) * 2 + 2 <= n * k * 2
    <3>1. CASE k = 1
      BY <2>5, <3>1
    <3>2. CASE k = 2
      BY <2>5, <3>2
    <3>3. CASE k = 3
      BY <2>5, <3>3
    <3>4. CASE k = 4
      BY <2>5, <3>4
    <3> QED
      BY <2>5, <3>1, <3>2, <3>3, <3>4
  <2>7. total = n * k * 2
    BY DEF n, k
  <2>8. BufferIn(w, buf) /\ buf.len = n * k * 2
    BY <2>1, <2>6, <2>7 DEF BufferIn, Buffer
  <2>9. BytesPerSample["U16Le"] = 2 /\ "U16Le" \in SampleTypes
    BY DEF BytesPerSample, SampleTypes
  <2>10. \A i \in 0 .. n - 1 :
            ((i * k + ch) \div 1) * BytesPerSample["U16Le"] + BytesPerSample["U16Le"] <= buf.len
    <3> SUFFICES ASSUME NEW i \in 0 .. n - 1
                 PROVE  ((i * k + ch) \div 1) * 2 + 2 <= n * k * 2
      BY <2>8, <2>9
    <3> DEFINE x == i * k + ch
               y == n * k * 2
    <3>1. x \in Nat /\ x * 2 + 2 <= y
      BY <2>6
    <3> HIDE DEF x, y
    <3>2. (x \div 1) * 2 + 2 <= y
      BY <3>1
    <3> QED
      BY <3>2 DEF x, y
  <2>11. k = k * 1 /\ ch = ch * 1 /\ k \in Nat
    BY <2>5
  <2> HIDE DEF buf
  <2>12. Lanes(w, buf, n, "U16Le", k, ch, 1)
    BY <2>5, <2>8, <2>9, <2>10, <2>11 DEF Lanes
  <2> QED
    BY <2>12, StridedIsSound DEF n, k
<1> HIDE DEF none, over, Plan
<1>4. CASE ch > 3
  BY <1>2, <1>4, ErrorIsPrepared, Zenon DEF NoChannel
<1>5. CASE ~(ch > 3) /\ none
  BY <1>2, <1>5, ErrorIsPrepared, Zenon DEF NotEnabled
<1>6. CASE ~(ch > 3) /\ ~none /\ over
  BY <1>2, <1>6, ErrorIsPrepared, Zenon DEF Overrun
<1>7. CASE ~(ch > 3) /\ ~none /\ ~over
  BY <1>2, <1>3, <1>7, Zenon
<1> QED
  BY <1>4, <1>5, <1>6, <1>7, Zenon

(* Rohde & Schwarz: a row is a whole number of samples wide, the prefix of *)
(* an XY row among them, so the sample of a slot lies in the row.          *)
LEMMA RsRow ==
    ASSUME NEW w, HeldRs(w), NEW c \in 1 .. Len(w.h.chans)
    PROVE  LET b == w.h.bps IN
           /\ b \in {1, 2, 4} /\ RsType[w.h.fmt] \in SampleTypes
           /\ BytesPerSample[RsType[w.h.fmt]] = b
           /\ \E k, a \in Nat : /\ a + 1 <= k /\ w.h.stride = k * b
                                /\ w.h.prefix + w.h.chans[c].slot * b = a * b
<1> DEFINE h == w.h
           n == Len(h.chans)
           b == h.bps
           p == h.prefix
           slot == h.chans[c].slot
<1>1. h.fmt \in {"int8", "int16", "float32", "xy"}
  BY DEF HeldRs, RsBytes
<1>2. b \in {1, 2, 4} /\ RsType[h.fmt] \in SampleTypes /\ BytesPerSample[RsType[h.fmt]] = b
  BY <1>1 DEF HeldRs, RsBytes, RsType, SampleTypes, BytesPerSample
<1>3. p = 0 \/ (p = 8 /\ b = 4)
  BY <1>1 DEF HeldRs, RsBytes, RsPrefix
<1>4. n \in Nat /\ slot = c - 1 /\ h.stride = p + n * b
  BY DEF HeldRs
<1>5. slot \in Nat /\ slot + 1 <= n
  BY <1>4
<1> DEFINE q == IF p = 0 THEN 0 ELSE 2
<1>6. q \in Nat /\ p = q * b
  BY <1>2, <1>3
<1> HIDE DEF n, b, p, slot, q
<1>7. p + n * b = (n + q) * b /\ p + slot * b = (slot + q) * b
  <2>1. CASE b = 1
    BY <1>4, <1>5, <1>6, <2>1
  <2>2. CASE b = 2
    BY <1>4, <1>5, <1>6, <2>2
  <2>3. CASE b = 4
    BY <1>4, <1>5, <1>6, <2>3
  <2> QED
    BY <1>2, <2>1, <2>2, <2>3
<1>8. n + q \in Nat /\ slot + q \in Nat /\ (slot + q) + 1 <= n + q
  BY <1>4, <1>5, <1>6
<1>9. \E k, a \in Nat : a + 1 <= k /\ h.stride = k * b /\ p + slot * b = a * b
  BY <1>4, <1>7, <1>8
<1> QED
  BY <1>2, <1>9 DEF b, p, slot

(* The last sample of row i ends in row i.                                 *)
LEMMA InRow ==
    ASSUME NEW k \in Nat, NEW a \in Nat, a + 1 <= k, NEW n \in Nat, NEW i \in 0 .. n - 1
    PROVE  i * k + a \in Nat /\ n * k \in Nat /\ i * k + a + 1 <= n * k
<1> DEFINE x == i * k
           d == n - (i + 1)
           y == d * k
<1>1. i \in Nat /\ d \in Nat /\ n = d + (i + 1)
  OBVIOUS
<1>2. x \in Nat /\ y \in Nat
  BY <1>1
<1>3. n * k = y + x + k
  <2> HIDE DEF d
  <2>1. (d + (i + 1)) * k = d * k + i * k + k
    BY <1>1
  <2> QED
    BY <1>1, <2>1
<1> HIDE DEF x, y
<1>4. x + a + 1 <= y + x + k /\ x + a \in Nat /\ y + x + k \in Nat
  BY <1>2
<1> QED
  BY <1>3, <1>4 DEF x

LEMMA PreparedRs ==
    ASSUME NEW w, Held(w), w.fam = "RohdeSchwarz",
           NEW ch \in Nat, NEW s \in Args, NEW l \in Args
    PROVE  Prepared(w, PrepareRs(w, ch, Absent, Absent), PrepareRs(w, ch, s, l), s, l)
<1> DEFINE h == w.h
           c == FindChannel(h.chans, ch + 1)
           none == Entries(h.chans, ch + 1) = {}
           data == 8 + h.lead * h.stride
           rows == h.rec * h.stride
           over == data + rows > w.size
           ty == RsType[h.fmt]
           buf == Buffer(data, rows)
           Plan(a, b) == Strided(buf, ApplySlice(h.rec, a, b), ty, h.stride,
                                 h.prefix + c.slot * h.bps, h.bps, Cal(c.slot, FALSE))
<1>1. HeldRs(w) /\ w.size \in Usizes
  BY DEF Held
<1>2. \A a, b : PrepareRs(w, ch, a, b) =
         IF none THEN NotEnabled ELSE IF over THEN Overrun ELSE Plan(a, b)
  BY DEF PrepareRs
<1>3. ~none /\ ~over => Prepared(w, Plan(Absent, Absent), Plan(s, l), s, l)
  <2> SUFFICES ASSUME ~none, ~over
               PROVE  Prepared(w, Plan(Absent, Absent), Plan(s, l), s, l)
    OBVIOUS
  <2>1. Len(h.chans) \in Nat
    BY <1>1 DEF HeldRs
  <2>2. PICK j \in 1 .. Len(h.chans) : c = h.chans[j]
    BY <2>1, Found DEF none, c
  <2> DEFINE b == h.bps
             add == h.prefix + c.slot * b
  <2> HIDE DEF c
  <2>3. /\ b \in {1, 2, 4} /\ ty \in SampleTypes /\ BytesPerSample[ty] = b
        /\ \E k, a \in Nat : a + 1 <= k /\ h.stride = k * b /\ add = a * b
    BY <1>1, <2>2, RsRow
  <2>4. PICK k \in Nat, a \in Nat : a + 1 <= k /\ h.stride = k * b /\ add = a * b
    BY <2>3
  <2>5. h.rec \in Nat /\ h.lead \in Nat /\ w.size \in Nat
    BY <1>1, Widths DEF HeldRs
  <2> DEFINE stride == h.stride
             n == h.rec
  <2>6. stride \in Nat
    BY <2>3, <2>4, SMTT(30)
  <2>7. data \in Nat /\ rows \in Nat
    <3>1. \A x, y \in Nat : 8 + x * y \in Nat /\ x * y \in Nat
      OBVIOUS
    <3> QED
      BY <2>5, <2>6, <3>1
  <2> HIDE DEF data, rows, ty, add, b
  <2>8. BufferIn(w, buf) /\ buf.len = rows
    BY <2>5, <2>7 DEF BufferIn, Buffer
  <2>9. ASSUME NEW i \in 0 .. n - 1
        PROVE  ((i * stride + add) \div b) * b + b <= rows
    <3>0. n \in Nat
      BY <2>5
    <3> HIDE DEF n, stride
    <3>1. i * k + a \in Nat /\ n * k \in Nat /\ i * k + a + 1 <= n * k /\ i \in Nat /\ n \in Nat
      <4>1. i \in Nat
        BY <3>0
      <4> QED
        BY <2>4, <3>0, <4>1, InRow
    <3>2. i * stride = (i * k) * b /\ n * stride = (n * k) * b
      <4>0. stride = k * b
        BY <2>4 DEF stride
      <4>1. CASE b = 1
        BY <3>1, <4>0, <4>1
      <4>2. CASE b = 2
        BY <3>1, <4>0, <4>2
      <4>3. CASE b = 4
        BY <3>1, <4>0, <4>3
      <4> QED
        BY <2>3, <4>1, <4>2, <4>3
    <3>3. rows = (n * k) * b
      BY <3>2 DEF rows, n, stride
    <3> DEFINE x == i * k
               y == n * k
    <3>4. x \in Nat /\ y \in Nat /\ x + a + 1 <= y
      BY <3>1
    <3>5. i * stride + add = x * b + a * b
      BY <2>4, <3>2
    <3> HIDE DEF x
    <3> HIDE DEF y
    <3>6. ((x * b + a * b) \div b) * b + b <= y * b
      <4>1. CASE b = 1
        BY <3>4, <4>1
      <4>2. CASE b = 2
        BY <3>4, <4>2
      <4>3. CASE b = 4
        BY <3>4, <4>3
      <4> QED
        BY <2>3, <4>1, <4>2, <4>3
    <3> QED
      BY <3>3, <3>5, <3>6 DEF y
  <2>10. Lanes(w, buf, n, ty, stride, add, b)
    BY <2>3, <2>4, <2>5, <2>8, <2>9 DEF Lanes
  <2> QED
    BY <2>10, StridedIsSound DEF ty, add, b
<1> HIDE DEF none, over, Plan
<1>4. CASE none
  BY <1>2, <1>4, ErrorIsPrepared, Zenon DEF NotEnabled
<1>5. CASE ~none /\ over
  BY <1>2, <1>5, ErrorIsPrepared, Zenon DEF Overrun
<1>6. CASE ~none /\ ~over
  BY <1>2, <1>3, <1>6, Zenon
<1> QED
  BY <1>4, <1>5, <1>6, Zenon

(* Every decode the handle is asked for is an error found before it, or    *)
(* has a plan that reads samples which are there; a plan for a slice is    *)
(* the window of the one for the whole channel.                            *)
LEMMA PreparedAny ==
    ASSUME NEW w, Held(w), NEW ch \in Nat, NEW s \in Args, NEW l \in Args
    PROVE  Prepared(w, Prepare(w, ch, Absent, Absent), Prepare(w, ch, s, l), s, l)
<1>1. CASE w.fam = "Ds1000z"
  BY <1>1, Prepared1000Z DEF Prepare
<1>2. CASE w.fam = "Ds1000e"
  BY <1>2, Prepared1000E DEF Prepare
<1>3. CASE w.fam = "Ds2000"
  BY <1>3, Prepared2000 DEF Prepare
<1>4. CASE w.fam = "Ds4000"
  BY <1>4, Prepared4000 DEF Prepare
<1>5. CASE w.fam = "Tektronix"
  BY <1>5, PreparedTek DEF Prepare
<1>6. CASE w.fam = "Isf"
  BY <1>6, PreparedIsf DEF Prepare
<1>7. CASE w.fam = "Dho"
  BY <1>7, PreparedDho DEF Prepare
<1>8. CASE w.fam = "Keysight"
  BY <1>8, PreparedKeysight DEF Prepare
<1>9. CASE w.fam = "Siglent"
  BY <1>9, PreparedSiglent DEF Prepare
<1>10. CASE w.fam = "Lecroy"
  BY <1>10, PreparedLecroy DEF Prepare
<1>11. CASE w.fam = "RohdeSchwarz"
  BY <1>11, PreparedRs DEF Prepare
<1> QED
  BY <1>1, <1>2, <1>3, <1>4, <1>5, <1>6, <1>7, <1>8, <1>9, <1>10, <1>11
  DEF Held, AllFamilies, AsStored

-----------------------------------------------------------------------------
(* The decode. Of a plan whose closure steps over whole samples the probe  *)
(* at two indices accepts only the one that does not step at all, so every *)
(* loop returns what the per-element loop returns.                         *)
Stepping(p) ==
    /\ p.n \in Nat /\ p.ty \in SampleTypes /\ p.woven \in BOOLEAN
    /\ p.buf.len \in Nat /\ p.idx.start \in Nat /\ p.idx.div \in {1, 2, 4}
    /\ \E k, a \in Nat : p.idx.mul = k * p.idx.div /\ p.idx.add = a * p.idx.div

LEMMA Steps ==
    ASSUME NEW p, Stepping(p)
    PROVE  \E k, a \in Nat : \A i \in Nat : RawIdx(p.idx, i) = (p.idx.start + i) * k + a
<1> DEFINE c == p.idx.start
           m == p.idx.mul
           d == p.idx.add
           b == p.idx.div
<1>1. PICK k \in Nat, a \in Nat : m = k * b /\ d = a * b
  BY DEF Stepping
<1>2. c \in Nat /\ b \in {1, 2, 4}
  BY DEF Stepping
<1>3. ASSUME NEW i \in Nat
      PROVE  RawIdx(p.idx, i) = (c + i) * k + a
  <2>1. RawIdx(p.idx, i) = ((c + i) * m + d) \div b
    BY DEF RawIdx
  <2> DEFINE x == (c + i) * k
  <2> HIDE DEF c, m, d, b
  <2>2. x \in Nat
    BY <1>2
  <2>3. (c + i) * m = x * b
    <3>1. CASE b = 1
      BY <1>1, <1>2, <3>1
    <3>2. CASE b = 2
      BY <1>1, <1>2, <3>2
    <3>3. CASE b = 4
      BY <1>1, <1>2, <3>3
    <3> QED
      BY <1>2, <3>1, <3>2, <3>3
  <2> HIDE DEF x
  <2>4. (x * b + a * b) \div b = x + a
    <3>1. CASE b = 1
      BY <2>2, <3>1
    <3>2. CASE b = 2
      BY <2>2, <3>2
    <3>3. CASE b = 4
      BY <2>2, <3>3
    <3> QED
      BY <1>2, <3>1, <3>2, <3>3
  <2> QED
    BY <1>1, <2>1, <2>3, <2>4 DEF x
<1> QED
  BY <1>3

LEMMA ProbeIsEnough ==
    ASSUME NEW p, Stepping(p), ~p.woven, FastPath(p), NEW i \in Nat
    PROVE  RawIdx(p.idx, i) = i
<1> DEFINE c == p.idx.start
<1>1. PICK k \in Nat, a \in Nat : \A j \in Nat : RawIdx(p.idx, j) = (c + j) * k + a
  BY Steps
<1>2. c \in Nat
  BY DEF Stepping
<1> HIDE DEF c
<1>3. (c + 0) * k + a = 0 /\ (c + 1) * k + a = 1
  BY <1>1 DEF FastPath
<1>4. c * k \in Nat /\ (c + 0) * k = c * k /\ (c + 1) * k = c * k + k
  BY <1>2
<1>5. c * k = 0 /\ a = 0 /\ k = 1
  <2> DEFINE y == c * k
  <2>1. y \in Nat /\ y + a = 0 /\ y + k + a = 1
    BY <1>3, <1>4
  <2> HIDE DEF y
  <2>2. y = 0 /\ a = 0 /\ k = 1
    BY <2>1
  <2> QED
    BY <2>2 DEF y
<1>6. c = 0
  BY <1>2, <1>5
<1> QED
  BY <1>1, <1>5, <1>6

LEMMA DecodeIsEach ==
    ASSUME NEW p, Stepping(p)
    PROVE  DecodeWith(p) = DecodeEach(p)
<1>1. CASE Parallel(p) \/ ~(FastPath(p) /\ p.ty \notin {"I32Le", "I32Be"})
  BY <1>1, Zenon DEF DecodeWith, DecodeSerialTyped
<1>2. CASE ~Parallel(p) /\ FastPath(p)
  <2> DEFINE b == BytesPerSample[p.ty]
             n == p.n
             l == p.buf.len
  <2>1. ~p.woven
    BY <1>2 DEF Parallel
  <2>2. b \in {1, 2, 4} /\ n \in Nat /\ l \in Nat /\ n * b <= l
    BY <1>2, Width DEF Stepping, FastPath
  <2>3. ASSUME NEW i \in 0 .. n - 1
        PROVE  InBounds(p, i) /\ ReadSample(p, i) = [ty |-> p.ty, at |-> p.buf.off + i * b, cal |-> p.cal]
    <3>1. i \in Nat
      BY <2>2
    <3>2. Where(p, i) = [buf |-> p.buf, at |-> i * b]
      BY <1>2, <2>1, <3>1, ProbeIsEnough DEF Where
    <3>3. i * b + b <= n * b /\ i * b + b \in Nat /\ n * b \in Nat
      <4> HIDE DEF b, n
      <4> QED
        BY <2>2, <3>1
    <3>4. InBounds(p, i) <=> i * b + b <= l
      BY <3>2 DEF InBounds
    <3>5. i * b + b <= l
      BY <2>2, <3>3
    <3> QED
      BY <3>2, <3>4, <3>5 DEF ReadSample
  <2>4. DecodeEach(p) = Ok([i \in 0 .. n - 1 |-> ReadSample(p, i)])
    BY <2>3 DEF DecodeEach
  <2>5. [i \in 0 .. n - 1 |-> ReadSample(p, i)]
          = [i \in 0 .. n - 1 |-> [ty |-> p.ty, at |-> p.buf.off + i * b, cal |-> p.cal]]
    BY <2>3
  <2>6. DecodeChunks(p) = DecodeEach(p)
    BY <2>4, <2>5 DEF DecodeChunks
  <2> QED
    BY <1>2, <2>6, Zenon DEF DecodeWith, DecodeSerialTyped
<1> QED
  BY <1>1, <1>2

(* Sample i of a window is sample cut.start + i of the whole.              *)
LEMMA WindowReads ==
    ASSUME NEW w, NEW p, Sound(w, p), NEW cut, cut.start \in Nat, cut.len \in Nat
    PROVE  LET q == Windowed(p, cut) IN
           /\ Stepping(q) /\ q.n = cut.len
           /\ \A i \in Nat : /\ Where(q, i) = Where(p, cut.start + i)
                             /\ InBounds(q, i) <=> InBounds(p, cut.start + i)
                             /\ ReadSample(q, i) = ReadSample(p, cut.start + i)
<1> DEFINE q == Windowed(p, cut)
<1>1. /\ q.woven = p.woven /\ q.buf = p.buf /\ q.odd = p.odd /\ q.n = cut.len
      /\ q.ty = p.ty /\ q.cal = p.cal /\ q.idx.start = cut.start
      /\ q.idx.mul = p.idx.mul /\ q.idx.add = p.idx.add /\ q.idx.div = p.idx.div
  BY DEF Windowed
<1> HIDE DEF q
<1>2. p.buf.len \in Nat
  BY DEF Sound, BufferIn
<1>3. Stepping(q)
  BY <1>1, <1>2 DEF Stepping, Sound
<1>4. ASSUME NEW i \in Nat
      PROVE  Where(q, i) = Where(p, cut.start + i)
  <2>1. p.idx.start = 0
    BY DEF Sound
  <2> DEFINE j == cut.start + i
  <2>2. q.idx.start + i = j /\ p.idx.start + j = j
    BY <1>1, <2>1
  <2> HIDE DEF j
  <2>3. RawIdx(q.idx, i) = RawIdx(p.idx, j)
    BY <1>1, <2>2 DEF RawIdx
  <2> QED
    BY <1>1, <2>2, <2>3 DEF Where, j
<1>5. ASSUME NEW i \in Nat
      PROVE  /\ InBounds(q, i) <=> InBounds(p, cut.start + i)
             /\ ReadSample(q, i) = ReadSample(p, cut.start + i)
  BY <1>1, <1>4 DEF InBounds, ReadSample
<1> QED
  BY <1>1, <1>3, <1>4, <1>5 DEF q

LEMMA ArgumentsAre == Starts \subseteq Args /\ Lengths \subseteq Args /\ Absent \in Args
BY ArgumentsAssumption DEF Args

(* What a channel's decode answers: the error or panic that comes before   *)
(* it whatever the slice, or the window of the whole channel's samples     *)
(* unless one of them is not there.                                        *)
Answered(w, ch, s, l) ==
    LET r == Prepare(w, ch, Absent, Absent)
        cut == ApplySlice(r.plan.n, s, l)
        data == ChannelData(w, ch, s, l)
    IN  \/ r.tag = "err" /\ data = r
        \/ r.tag = "panic" /\ ZeroWidth(w) /\ data = r
        \/ /\ r.tag = "plan" /\ Sound(w, r.plan) /\ Prepare(w, ch, s, l) = Sliced(r, s, l)
           /\ cut.start \in Nat /\ cut.len \in Nat /\ cut.start + cut.len <= r.plan.n
           /\ data = IF \A i \in 0 .. cut.len - 1 : InBounds(r.plan, cut.start + i)
                     THEN Ok([i \in 0 .. cut.len - 1 |-> ReadSample(r.plan, cut.start + i)])
                     ELSE Panic("index out of bounds")

LEMMA Answers ==
    ASSUME NEW w, Held(w), NEW ch \in Nat, NEW s \in Args, NEW l \in Args
    PROVE  Answered(w, ch, s, l)
<1> DEFINE r == Prepare(w, ch, Absent, Absent)
           part == Prepare(w, ch, s, l)
           p == r.plan
           cut == ApplySlice(p.n, s, l)
           data == ChannelData(w, ch, s, l)
<1>1. Prepared(w, r, part, s, l)
  BY PreparedAny
<1>2. data = IF part.tag = "plan" THEN DecodeWith(part.plan) ELSE part
  BY DEF ChannelData
<1>3. CASE r.tag = "err"
  BY <1>1, <1>2, <1>3 DEF Prepared, Sliced, Answered
<1>4. CASE r.tag = "panic"
  BY <1>1, <1>2, <1>4 DEF Prepared, Sliced, Answered
<1>5. CASE r.tag = "plan"
  <2>1. Sound(w, p) /\ part = Sliced(r, s, l)
    BY <1>1, <1>5 DEF Prepared
  <2>2. p.n \in Nat
    BY <2>1 DEF Sound
  <2>3. cut.start \in Nat /\ cut.len \in Nat /\ cut.start + cut.len <= p.n
    BY <2>2, SliceInside
  <2> DEFINE q == Windowed(p, cut)
  <2>4. part.tag = "plan" /\ part.plan = q
    BY <1>5, <2>1 DEF Sliced
  <2> HIDE DEF cut, p, r
  <2>5. /\ Stepping(q) /\ q.n = cut.len
        /\ \A i \in Nat : /\ InBounds(q, i) <=> InBounds(p, cut.start + i)
                          /\ ReadSample(q, i) = ReadSample(p, cut.start + i)
    BY <2>1, <2>3, WindowReads
  <2>6. data = DecodeEach(q)
    BY <1>2, <2>4, <2>5, DecodeIsEach
  <2> HIDE DEF q, data
  <2>7. 0 .. cut.len - 1 \subseteq Nat
    BY <2>3
  <2>8. data = IF \A i \in 0 .. cut.len - 1 : InBounds(p, cut.start + i)
               THEN Ok([i \in 0 .. cut.len - 1 |-> ReadSample(p, cut.start + i)])
               ELSE Panic("index out of bounds")
    <3>1. (\A i \in 0 .. cut.len - 1 : InBounds(q, i))
             <=> \A i \in 0 .. cut.len - 1 : InBounds(p, cut.start + i)
      BY <2>5, <2>7
    <3>2. [i \in 0 .. cut.len - 1 |-> ReadSample(q, i)]
             = [i \in 0 .. cut.len - 1 |-> ReadSample(p, cut.start + i)]
      BY <2>5, <2>7
    <3> QED
      BY <2>5, <2>6, <3>1, <3>2 DEF DecodeEach
  <2> QED
    BY <1>5, <2>1, <2>3, <2>8 DEF Answered, p, cut, r, data
<1> QED
  BY <1>1, <1>3, <1>4, <1>5 DEF Prepared

-----------------------------------------------------------------------------
(* A DS1000Z decode reads no byte behind the depth the header declares.    *)
LEMMA WithinDepth ==
    ASSUME NEW w, Held(w), w.fam = "Ds1000z", NEW ch \in Nat,
           Prepare(w, ch, Absent, Absent).tag = "plan",
           NEW i \in 0 .. Prepare(w, ch, Absent, Absent).plan.n - 1
    PROVE  Where(Prepare(w, ch, Absent, Absent).plan, i).at + 1 <= w.h.depth
<1> DEFINE h == w.h
           data == (h.hoff + h.hsize) % U32
           stride == Stride1000Z(h)
           lane == Lane1000Z(h, ch)
           total == Points1000Z(h)
           r == Strided(Buffer(data, w.size - data), ApplySlice(total, Absent, Absent),
                        "U8", stride, lane, 1, Cal(ch, h.inv[ch]))
<1>1. h.flags \subseteq Channels /\ h.depth \in U32s
  BY HeldAsStored DEF FileShape, AsStored
<1>2. h.depth \in Nat
  BY <1>1, Widths
<1>3. Prepare(w, ch, Absent, Absent) = IF ch > 3 THEN NoChannel ELSE IF ~h.on[ch] THEN NotEnabled
         ELSE IF data + h.depth > w.size THEN Overrun ELSE r
  BY DEF Prepare, Prepare1000Z
<1>4. NoChannel.tag # "plan" /\ NotEnabled.tag # "plan" /\ Overrun.tag # "plan"
  BY DEF NoChannel, NotEnabled, Overrun, Err
<1> HIDE DEF r, data
<1>5. Prepare(w, ch, Absent, Absent) = r /\ ~(ch > 3)
  BY <1>3, <1>4, Zenon
<1>6. ch \in Channels
  BY <1>5 DEF Channels
<1>7. total \in Nat /\ \A j \in 0 .. total - 1 : (j * stride + lane) + 1 <= h.depth /\ j * stride + lane \in Nat
  BY <1>1, <1>2, <1>6, LanesFit
<1>8. ApplySlice(total, Absent, Absent) = [start |-> 0, len |-> total]
  BY <1>7, SliceWhole
<1> HIDE DEF total, stride, lane
<1>9. /\ r.plan.n = total /\ r.plan.woven = FALSE /\ r.plan.ty = "U8" /\ r.plan.idx.start = 0
      /\ r.plan.idx.mul = stride /\ r.plan.idx.add = lane /\ r.plan.idx.div = 1
  BY <1>8 DEF r, Strided
<1> HIDE DEF h
<1>10. i \in 0 .. total - 1 /\ i \in Nat
  BY <1>5, <1>7, <1>9
<1>11. BytesPerSample["U8"] = 1
  BY DEF BytesPerSample, SampleTypes
<1> DEFINE x == i * stride + lane
<1>12. x \in Nat /\ x + 1 <= h.depth
  BY <1>7, <1>10
<1>13. Where(r.plan, i).at = (x \div 1) * 1
  BY <1>9, <1>10, <1>11 DEF Where, RawIdx
<1> HIDE DEF x
<1>14. Where(r.plan, i).at + 1 <= h.depth
  BY <1>12, <1>13
<1> QED
  BY <1>5, <1>14 DEF h

(* THEOREM: every slice of the file that a decode of an open handle is     *)
(* given lies in the file, whatever the header says; and a DS1000Z decode  *)
(* stays in the depth that the header declares (the checks before decode   *)
(* in parser.rs, apply_slice).                                             *)
LEMMA WindowsHold == HandleInv => WindowsInFile
<1> SUFFICES ASSUME HandleInv, IsOpen, NEW ch \in Asked, NEW s \in Starts, NEW l \in Lengths,
                    Prepare(W, ch, s, l).tag = "plan"
             PROVE  /\ Prepare(W, ch, s, l).plan.buf.off + Prepare(W, ch, s, l).plan.buf.len <= W.size
                    /\ Prepare(W, ch, s, l).plan.odd.off + Prepare(W, ch, s, l).plan.odd.len <= W.size
                    /\ W.fam = "Ds1000z" =>
                         \A i \in 0 .. Prepare(W, ch, s, l).plan.n - 1 :
                            Where(Prepare(W, ch, s, l).plan, i).at + 1 <= W.h.depth
  BY DEF WindowsInFile
<1> DEFINE r == Prepare(W, ch, Absent, Absent)
           p == r.plan
           cut == ApplySlice(p.n, s, l)
           part == Prepare(W, ch, s, l)
<1>1. Held(W) /\ ch \in Nat /\ s \in Args /\ l \in Args
  BY OpenIsHeld, ArgumentsAre DEF Asked
<1>2. Prepared(W, r, part, s, l)
  BY <1>1, PreparedAny
<1>3. r.tag = "plan" /\ Sound(W, p) /\ part = Sliced(r, s, l)
  BY <1>2 DEF Prepared, Sliced
<1>4. p.n \in Nat
  BY <1>3 DEF Sound
<1>5. cut.start \in Nat /\ cut.len \in Nat /\ cut.start + cut.len <= p.n
  BY <1>1, <1>4, SliceInside
<1> DEFINE q == Windowed(p, cut)
<1>6. part.plan = q /\ q.buf = p.buf /\ q.odd = p.odd
  BY <1>3 DEF Sliced, Windowed
<1>7. ASSUME W.fam = "Ds1000z", NEW i \in 0 .. part.plan.n - 1
      PROVE  Where(part.plan, i).at + 1 <= W.h.depth
  <2> HIDE DEF cut, q, part, p
  <2>1. q.n = cut.len /\ \A j \in Nat : Where(q, j) = Where(p, cut.start + j)
    BY <1>3, <1>5, WindowReads DEF q
  <2>2. i \in Nat /\ cut.start + i \in 0 .. p.n - 1
    BY <1>4, <1>5, <1>6, <1>7, <2>1
  <2>3. Where(p, cut.start + i).at + 1 <= W.h.depth
    BY <1>1, <1>3, <1>7, <2>2, WithinDepth DEF p
  <2> QED
    BY <1>6, <2>1, <2>2, <2>3
<1>8. p.buf.off + p.buf.len <= W.size /\ p.odd.off + p.odd.len <= W.size
  BY <1>3 DEF Sound, BufferIn
<1> HIDE DEF part, q, p
<1>9. part.plan.buf.off + part.plan.buf.len <= W.size /\ part.plan.odd.off + part.plan.odd.len <= W.size
  BY <1>6, <1>8
<1> QED
  BY <1>7, <1>9 DEF part

(* Every slice that a decode of an open handle is given lies in the file,  *)
(* whatever the header says, and a DS1000Z decode reads only within the    *)
(* declared depth (parser.rs:86-540).                                      *)
THEOREM Windows == Spec => []WindowsInFile
BY Always, WindowsHold, PTL

(* The index of a window's sample in the whole.                            *)
LEMMA Within ==
    ASSUME NEW n \in Nat, NEW a \in Nat, NEW b \in Nat, a + b <= n, NEW i \in 0 .. b - 1
    PROVE  i \in Nat /\ a + i \in 0 .. n - 1 /\ (a + i = n - 1 => a + b = n)
OBVIOUS

(* Extraction of any channel and slice of an open handle panics only on a  *)
(* zero sample width and on the last sample of an interwoven capture of    *)
(* odd length (parser.rs:397, 449, 483).                                   *)
PanicCause(w, s, l) ==
    \/ w.fam = "Tektronix" /\ w.h.bpp = 0
    \/ w.fam = "Isf" /\ w.h.byt = 0
    \/ /\ w.fam = "Ds2000" /\ w.h.woven /\ w.h.wlen % 2 = 1
       /\ LET cut == ApplySlice(w.h.wlen, s, l)
          IN  cut.start + cut.len = w.h.wlen

LEMMA CauseOfPanic ==
    ASSUME NEW w, Held(w), NEW ch \in Nat, NEW s \in Args, NEW l \in Args,
           ChannelData(w, ch, s, l).tag = "panic"
    PROVE  PanicCause(w, s, l)
<1> DEFINE r == Prepare(w, ch, Absent, Absent)
           p == r.plan
           cut == ApplySlice(p.n, s, l)
           data == ChannelData(w, ch, s, l)
           whole == [i \in 0 .. cut.len - 1 |-> ReadSample(p, cut.start + i)]
<1>1. Answered(w, ch, s, l)
  BY Answers
<1>2. CASE r.tag = "plan" /\ Sound(w, p)
  <2>1. /\ cut.start \in Nat /\ cut.len \in Nat /\ cut.start + cut.len <= p.n
        /\ data = IF \A i \in 0 .. cut.len - 1 : InBounds(p, cut.start + i)
                  THEN Ok(whole) ELSE Panic("index out of bounds")
    BY <1>1, <1>2 DEF Answered
  <2>2. Ok(whole).tag = "ok"
    BY DEF Ok
  <2> HIDE DEF whole
  <2>3. PICK i \in 0 .. cut.len - 1 : ~InBounds(p, cut.start + i)
    BY <2>1, <2>2
  <2>4. p.n \in Nat /\ \A j \in 0 .. p.n - 1 : InBounds(p, j) \/ OddOneOut(w, p, j)
    BY <1>2 DEF Sound
  <2> DEFINE n == p.n
             j == cut.start + i
  <2>8. n = p.n /\ j = cut.start + i
    OBVIOUS
  <2> HIDE DEF cut, p
  <2>5. j \in 0 .. n - 1 /\ (j = n - 1 => cut.start + cut.len = n)
    <3>1. n \in Nat /\ cut.start \in Nat /\ cut.len \in Nat /\ cut.start + cut.len <= n
      BY <2>1, <2>4
    <3> HIDE DEF n
    <3> QED
      BY <3>1, Within
  <2> HIDE DEF n, j
  <2>6. OddOneOut(w, p, j)
    BY <2>3, <2>4, <2>5 DEF n, j
  <2>7. /\ w.fam = "Ds2000" /\ w.h.woven /\ w.h.wlen % 2 = 1 /\ n = w.h.wlen /\ j = n - 1
    BY <2>6, <2>8 DEF OddOneOut
  <2>9. cut.start + cut.len = n
    BY <2>5, <2>7
  <2>10. cut = ApplySlice(w.h.wlen, s, l)
    BY <2>7, <2>8 DEF cut
  <2> QED
    BY <2>7, <2>9, <2>10 DEF PanicCause
<1>3. CASE r.tag = "panic" /\ ZeroWidth(w)
  BY <1>3 DEF ZeroWidth, PanicCause
<1>4. ~(r.tag = "err" /\ data = r)
  OBVIOUS
<1> QED
  BY <1>1, <1>2, <1>3, <1>4 DEF Answered, PanicCause

LEMMA PanicsHold == HandleInv => PanicsOnlyOn
<1> SUFFICES ASSUME HandleInv, IsOpen, NEW ch \in Asked, NEW s \in Starts, NEW l \in Lengths,
                    ChannelData(W, ch, s, l).tag = "panic"
             PROVE  PanicCause(W, s, l)
  BY DEF PanicsOnlyOn, PanicCause
<1>1. Held(W) /\ ch \in Nat /\ s \in Args /\ l \in Args
  BY OpenIsHeld, ArgumentsAre DEF Asked
<1> QED
  BY <1>1, CauseOfPanic

(* Extraction panics on three kinds of header and no other: a zero sample  *)
(* width of Tektronix WFM or of ISF, and an interwoven DS2000 capture of   *)
(* odd length whose last sample is asked for (parser.rs:397, 449, 483).    *)
THEOREM Panics == Spec => []PanicsOnlyOn
BY Always, PanicsHold, PTL

LEMMA Counted ==
    ASSUME NEW n \in Nat
    PROVE  IsFiniteSet(0 .. n - 1) /\ Cardinality(0 .. n - 1) = n
<1>1. 0 \in Int /\ n - 1 \in Int
  OBVIOUS
<1>2. IsFiniteSet(0 .. n - 1) /\ Cardinality(0 .. n - 1) = IF 0 > n - 1 THEN 0 ELSE (n - 1) - 0 + 1
  BY <1>1, FS_Interval
<1> QED
  BY <1>2

(* What a channel that decodes answers whole and sliced.                   *)
LEMMA Sliding ==
    ASSUME NEW w, Held(w), NEW ch \in Nat, NEW s \in Args, NEW l \in Args,
           Whole(w, ch).tag = "ok"
    PROVE  LET r == Prepare(w, ch, Absent, Absent)
               p == r.plan
               cut == ApplySlice(p.n, s, l)
           IN  /\ r.tag = "plan" /\ Sound(w, p) /\ p.n \in Nat
               /\ \A i \in 0 .. p.n - 1 : InBounds(p, i)
               /\ Whole(w, ch) = Ok([i \in 0 .. p.n - 1 |-> ReadSample(p, i)])
               /\ cut.start \in Nat /\ cut.len \in Nat /\ cut.start + cut.len <= p.n
               /\ ChannelData(w, ch, s, l)
                    = Ok([i \in 0 .. cut.len - 1 |-> ReadSample(p, cut.start + i)])
<1> DEFINE r == Prepare(w, ch, Absent, Absent)
           p == r.plan
           cut == ApplySlice(p.n, s, l)
           n == p.n
           all == ApplySlice(n, Absent, Absent)
<1>1. Answered(w, ch, s, l) /\ Answered(w, ch, Absent, Absent)
  BY Answers, ArgumentsAre
<1>2. r.tag = "plan" /\ Sound(w, p)
  BY <1>1 DEF Answered, Whole
<1>3. n \in Nat
  BY <1>2 DEF Sound
<1>4. all.start = 0 /\ all.len = n
  BY <1>3, SliceWhole
<1>5. Whole(w, ch) = IF \A i \in 0 .. all.len - 1 : InBounds(p, all.start + i)
                     THEN Ok([i \in 0 .. all.len - 1 |-> ReadSample(p, all.start + i)])
                     ELSE Panic("index out of bounds")
  BY <1>1, <1>2 DEF Answered, Whole
<1> HIDE DEF all, n, cut, r
<1>6. Panic("index out of bounds").tag # "ok"
  BY DEF Panic
<1>7. /\ \A i \in 0 .. n - 1 : InBounds(p, 0 + i)
      /\ Whole(w, ch) = Ok([i \in 0 .. n - 1 |-> ReadSample(p, 0 + i)])
  BY <1>4, <1>5, <1>6
<1>8. \A i \in 0 .. n - 1 : 0 + i = i
  BY <1>3
<1>9. /\ \A i \in 0 .. n - 1 : InBounds(p, i)
      /\ Whole(w, ch) = Ok([i \in 0 .. n - 1 |-> ReadSample(p, i)])
  BY <1>7, <1>8
<1>10. /\ cut.start \in Nat /\ cut.len \in Nat /\ cut.start + cut.len <= n
       /\ ChannelData(w, ch, s, l) =
             IF \A i \in 0 .. cut.len - 1 : InBounds(p, cut.start + i)
             THEN Ok([i \in 0 .. cut.len - 1 |-> ReadSample(p, cut.start + i)])
             ELSE Panic("index out of bounds")
  BY <1>1, <1>2 DEF Answered, cut, n, r
<1>11. \A i \in 0 .. cut.len - 1 : cut.start + i \in 0 .. n - 1
  BY <1>3, <1>10, Within
<1>12. ChannelData(w, ch, s, l) = Ok([i \in 0 .. cut.len - 1 |-> ReadSample(p, cut.start + i)])
  BY <1>9, <1>10, <1>11
<1> QED
  BY <1>2, <1>3, <1>9, <1>10, <1>12 DEF cut, n, r

(* A slice of a channel is that window of the whole channel, for every     *)
(* start and length and every threshold of the parallel loop; a channel    *)
(* that fails, fails the same whatever the slice (sample.rs:81, 159).      *)
IsWindow(w, ch, s, l, part) ==
    LET whole == Whole(w, ch)
        cut == ApplySlice(Cardinality(DOMAIN whole.val), s, l)
    IN  /\ whole.tag = "err" => part = whole
        /\ whole.tag = "ok" =>
             part = Ok([i \in 0 .. cut.len - 1 |-> whole.val[cut.start + i]])

LEMMA WindowOfWhole ==
    ASSUME NEW w, Held(w), NEW ch \in Nat, NEW s \in Args, NEW l \in Args
    PROVE  IsWindow(w, ch, s, l, ChannelData(w, ch, s, l))
<1> DEFINE r == Prepare(w, ch, Absent, Absent)
           p == r.plan
           n == p.n
           cut == ApplySlice(n, s, l)
<1>1. Absent \in Args
  BY DEF Args
<1>2. CASE Whole(w, ch).tag = "err"
  <2>1. Answered(w, ch, Absent, Absent) /\ Answered(w, ch, s, l)
    BY <1>1, Answers
  <2>2. Ok([i \in 0 .. ApplySlice(n, Absent, Absent).len - 1 |->
                 ReadSample(p, ApplySlice(n, Absent, Absent).start + i)]).tag # "err"
        /\ Panic("index out of bounds").tag # "err"
    BY DEF Ok, Panic
  <2>3. r.tag = "err" /\ Whole(w, ch) = r
    BY <1>2, <2>1, <2>2 DEF Answered, Whole
  <2>4. ChannelData(w, ch, s, l) = Whole(w, ch)
    BY <2>1, <2>3 DEF Answered
  <2> QED
    BY <1>2, <2>4 DEF IsWindow
<1>3. CASE Whole(w, ch).tag = "ok"
  <2> DEFINE all == [i \in 0 .. n - 1 |-> ReadSample(p, i)]
  <2>1. /\ n \in Nat /\ Whole(w, ch) = Ok(all)
        /\ cut.start \in Nat /\ cut.len \in Nat /\ cut.start + cut.len <= n
        /\ ChannelData(w, ch, s, l)
             = Ok([i \in 0 .. cut.len - 1 |-> ReadSample(p, cut.start + i)])
    BY <1>3, Sliding
  <2>2. Whole(w, ch).val = all
    BY <2>1 DEF Ok
  <2>3. Cardinality(DOMAIN all) = n
    BY <2>1, Counted
  <2> HIDE DEF n, cut, p
  <2>4. \A i \in 0 .. cut.len - 1 : all[cut.start + i] = ReadSample(p, cut.start + i)
    BY <2>1
  <2> HIDE DEF all
  <2>5. ChannelData(w, ch, s, l) = Ok([i \in 0 .. cut.len - 1 |-> all[cut.start + i]])
    BY <2>1, <2>4
  <2> QED
    BY <1>3, <2>2, <2>3, <2>5 DEF cut, IsWindow
<1> QED
  BY <1>2, <1>3 DEF IsWindow

LEMMA SlicesHold == HandleInv => SliceIsWindow
<1> SUFFICES ASSUME HandleInv, IsOpen, NEW ch \in Asked, NEW s \in Starts, NEW l \in Lengths
             PROVE  IsWindow(W, ch, s, l, ChannelData(W, ch, s, l))
  BY DEF SliceIsWindow, IsWindow
<1>1. Held(W) /\ ch \in Nat /\ s \in Args /\ l \in Args
  BY OpenIsHeld, ArgumentsAre DEF Asked
<1> QED
  BY <1>1, WindowOfWhole

(* For any file, start and length: what is answered is that window of the *)
(* whole channel, although the two may be decoded on different paths       *)
(* (parser.rs:15-20, sample.rs:76-198).                                    *)
THEOREM Slices == Spec => []SliceIsWindow
BY Always, SlicesHold, PTL

-----------------------------------------------------------------------------
(* The channels that an open handle lists.                                 *)
OnChannels(w) ==
    CASE w.fam = "Ds1000z" -> w.h.flags
      [] w.fam = "Ds1000e" -> {c \in 0 .. 1 : w.h.on[c]}
      [] w.fam = "Ds2000"  -> {c \in Channels : w.h.on[c]}
      [] w.fam = "Ds4000"  -> w.h.on
      [] w.fam \in {"Tektronix", "Isf"} -> {0}
      [] w.fam = "Dho"     -> {c \in Channels : w.h.cals[c] # NoEntry}
      [] w.fam = "Keysight" -> 0 .. Len(w.h.wfs) - 1
      [] w.fam = "Lecroy"  -> {w.h.channel - 1}
      [] w.fam \in {"Siglent", "RohdeSchwarz"} -> {c \in Nat : Entries(w.h.chans, c + 1) # {}}

Ascending(on) == \A j, k \in 1 .. Len(on) : j < k => on[j] < on[k]

Lists(on, S) ==
    /\ Len(on) \in Nat /\ on \in [1 .. Len(on) -> S] /\ S \subseteq Nat
    /\ \A c \in S : \E k \in 1 .. Len(on) : on[k] = c

LEMMA InOrderIsList ==
    ASSUME NEW S \in SUBSET Channels
    PROVE  Lists(InOrder(S), S) /\ Ascending(InOrder(S))
<1>1. IsFiniteSet(0 .. 3)
  <2>1. 0 \in Int /\ 3 \in Int
    OBVIOUS
  <2> QED
    BY <2>1, FS_Interval
<1>2. IsFiniteSet(S) /\ S \in SUBSET Nat
  <2>1. S \in SUBSET (0 .. 3)
    BY DEF Channels
  <2>2. IsFiniteSet(S)
    BY <1>1, <2>1, FS_Subset
  <2> QED
    BY <2>1, <2>2
<1> DEFINE N == Cardinality(S)
           f == InOrder(S)
<1>3. /\ N \in Nat /\ f \in [1 .. N -> S]
      /\ \A k \in S : \E n \in 1 .. N : f[n] = k
      /\ \A m, n \in 1 .. N : m < n => f[m] < f[n]
  BY <1>2, InOrderLists
<1> HIDE DEF N, f
<1>4. Len(f) = N
  BY <1>3, LengthIs
<1> QED
  BY <1>2, <1>3, <1>4 DEF Lists, Ascending, f

(* The entries of Siglent and R&S headers, in their order.                 *)
LEMMA EntriesAreListed ==
    ASSUME NEW w, Len(w.h.chans) \in Nat,
           \A k \in 1 .. Len(w.h.chans) : w.h.chans[k].channel \in 1 .. 4
    PROVE  Lists([k \in 1 .. Len(w.h.chans) |-> w.h.chans[k].channel - 1],
                 {c \in Nat : Entries(w.h.chans, c + 1) # {}})
<1> DEFINE N == Len(w.h.chans)
           on == [k \in 1 .. N |-> w.h.chans[k].channel - 1]
           S == {c \in Nat : Entries(w.h.chans, c + 1) # {}}
<1>1. ASSUME NEW k \in 1 .. N
      PROVE  on[k] \in S
  <2>1. w.h.chans[k].channel \in 1 .. 4
    OBVIOUS
  <2>2. on[k] \in Nat /\ on[k] + 1 = w.h.chans[k].channel
    BY <2>1, SMTT(30)
  <2>3. k \in Entries(w.h.chans, on[k] + 1)
    BY <2>2 DEF Entries
  <2> QED
    BY <2>2, <2>3
<1>2. ASSUME NEW c \in S
      PROVE  \E k \in 1 .. N : on[k] = c
  <2>1. PICK k \in 1 .. N : w.h.chans[k].channel = c + 1
    BY DEF Entries
  <2> QED
    BY <2>1
<1>3. on \in [1 .. N -> S]
  BY <1>1
<1>4. S \subseteq Nat /\ N \in Nat
  OBVIOUS
<1> HIDE DEF S, N, on
<1>5. Len(on) = N
  BY <1>3, <1>4, LengthIs
<1>6. Lists(on, S)
  BY <1>2, <1>3, <1>4, <1>5 DEF Lists, N
<1> QED
  BY <1>6 DEF on, S, N

LEMMA Listing ==
    ASSUME NEW w, Held(w)
    PROVE  /\ Lists(EnabledChannels(w), OnChannels(w))
           /\ w.fam # "RohdeSchwarz" => Ascending(EnabledChannels(w))
<1> DEFINE on == EnabledChannels(w)
           S == OnChannels(w)
<1>1. CASE w.fam = "Ds1000z"
  <2>1. w.h.flags \subseteq Channels
    BY <1>1, HeldAsStored DEF FileShape, AsStored
  <2>2. on = InOrder(w.h.flags) /\ S = w.h.flags
    BY <1>1 DEF EnabledChannels, OnChannels
  <2> QED
    BY <2>1, <2>2, InOrderIsList
<1>2. CASE w.fam = "Ds1000e"
  <2>1. on = InOrder({c \in 0 .. 1 : w.h.on[c]}) /\ S = {c \in 0 .. 1 : w.h.on[c]}
    BY <1>2 DEF EnabledChannels, OnChannels
  <2>2. {c \in 0 .. 1 : w.h.on[c]} \subseteq Channels
    BY DEF Channels
  <2> QED
    BY <2>1, <2>2, InOrderIsList
<1>3. CASE w.fam = "Ds2000"
  <2>1. on = InOrder({c \in Channels : w.h.on[c]}) /\ S = {c \in Channels : w.h.on[c]}
    BY <1>3 DEF EnabledChannels, OnChannels
  <2> QED
    BY <2>1, InOrderIsList
<1>4. CASE w.fam = "Ds4000"
  <2>1. w.h.on \subseteq Channels
    BY <1>4, HeldAsStored DEF FileShape, AsStored
  <2>2. on = InOrder(w.h.on) /\ S = w.h.on
    BY <1>4 DEF EnabledChannels, OnChannels
  <2> QED
    BY <2>1, <2>2, InOrderIsList
<1>5. CASE w.fam \in {"Tektronix", "Isf"}
  <2>1. on = <<0>> /\ S = {0}
    BY <1>5 DEF EnabledChannels, OnChannels
  <2> QED
    BY <2>1 DEF Lists, Ascending
<1>6. CASE w.fam = "Dho"
  <2>1. on = InOrder({c \in Channels : w.h.cals[c] # NoEntry})
        /\ S = {c \in Channels : w.h.cals[c] # NoEntry}
    BY <1>6 DEF EnabledChannels, OnChannels
  <2> QED
    BY <2>1, InOrderIsList
<1>7. CASE w.fam = "Keysight"
  <2> DEFINE N == Len(w.h.wfs)
             f == [k \in 1 .. N |-> k - 1]
  <2>1. on = f /\ S = 0 .. N - 1
    BY <1>7 DEF EnabledChannels, OnChannels
  <2>2. N \in Nat
    BY <1>7 DEF Held, HeldKeysight
  <2> HIDE DEF N
  <2>3. Len(f) = N /\ f \in [1 .. N -> 0 .. N - 1]
    BY <2>2
  <2>4. \A c \in 0 .. N - 1 : c + 1 \in 1 .. N /\ f[c + 1] = c
    BY <2>2
  <2>5. \A j, k \in 1 .. N : j < k => f[j] < f[k]
    BY <2>2
  <2>6. 0 .. N - 1 \subseteq Nat
    BY <2>2
  <2> HIDE DEF f
  <2>7. Lists(f, 0 .. N - 1) /\ Ascending(f)
    BY <2>2, <2>3, <2>4, <2>5, <2>6 DEF Lists, Ascending
  <2> QED
    BY <2>1, <2>7
<1>8. CASE w.fam = "Lecroy"
  <2>1. on = <<w.h.channel - 1>> /\ S = {w.h.channel - 1}
    BY <1>8 DEF EnabledChannels, OnChannels
  <2> DEFINE c == w.h.channel - 1
  <2>2. c \in Nat
    BY <1>8 DEF Held, HeldLecroy
  <2> HIDE DEF c
  <2>3. Lists(<<c>>, {c}) /\ Ascending(<<c>>)
    BY <2>2 DEF Lists, Ascending
  <2> QED
    BY <2>1, <2>3 DEF c
<1>9. CASE w.fam \in {"Siglent", "RohdeSchwarz"}
  <2> DEFINE N == Len(w.h.chans)
             f == [k \in 1 .. N |-> w.h.chans[k].channel - 1]
  <2>1. on = f /\ S = {c \in Nat : Entries(w.h.chans, c + 1) # {}}
    BY <1>9 DEF EnabledChannels, OnChannels
  <2>2. N \in Nat /\ \A k \in 1 .. N : w.h.chans[k].channel \in 1 .. 4
    BY <1>9 DEF Held, HeldSiglent, HeldRs
  <2>3. Lists(f, {c \in Nat : Entries(w.h.chans, c + 1) # {}})
    BY <2>2, EntriesAreListed
  <2>4. ASSUME w.fam = "Siglent"
        PROVE  Ascending(f)
    <3>1. \A j, k \in 1 .. N : j < k => w.h.chans[j].channel < w.h.chans[k].channel
      BY <2>4 DEF Held, HeldSiglent
    <3> HIDE DEF N
    <3>2. Len(f) = N
      BY <2>2
    <3>3. ASSUME NEW j \in 1 .. N, NEW k \in 1 .. N, j < k
          PROVE  f[j] < f[k]
      <4>1. w.h.chans[j].channel \in 1 .. 4 /\ w.h.chans[k].channel \in 1 .. 4
            /\ w.h.chans[j].channel < w.h.chans[k].channel
        BY <2>2, <3>1, <3>3
      <4> QED
        BY <4>1
    <3> HIDE DEF f
    <3> QED
      BY <3>2, <3>3 DEF Ascending
  <2> QED
    BY <1>9, <2>1, <2>3, <2>4
<1> QED
  BY <1>1, <1>2, <1>3, <1>4, <1>5, <1>6, <1>7, <1>8, <1>9 DEF Held, AllFamilies, AsStored

LEMMA EnabledIs ==
    ASSUME NEW w, Held(w)
    PROVE  Enabled(w) = OnChannels(w) /\ Listed(w) = OnChannels(w) /\ OnChannels(w) \subseteq Nat
BY Listing DEF Lists, Enabled, Listed

-----------------------------------------------------------------------------
(* How many samples the header declares for a channel.                     *)
Count(w, ch) ==
    CASE w.fam = "Ds1000z" -> Points1000Z(w.h)
      [] w.fam = "Ds1000e" -> Points1000E(w.h)
      [] w.fam = "Ds4000"  -> w.h.depth
      [] w.fam = "Tektronix" -> (TekAt(w.h, w.h.stop) - TekAt(w.h, w.h.start)) \div w.h.bpp
      [] w.fam = "Isf"      -> CountIsf(w)
      [] w.fam = "Dho"      -> w.h.n
      [] w.fam = "Keysight" -> w.h.wfs[ch + 1].pts
      [] w.fam \in {"Ds2000", "Siglent"} -> w.h.wlen
      [] w.fam = "Lecroy"   -> w.h.pts
      [] w.fam = "RohdeSchwarz" -> w.h.rec

LEMMA Small ==
    ASSUME NEW n \in Nat, NEW m \in Usizes, n <= m
    PROVE  n \in Usizes
BY Widths DEF Usizes

LEMMA Points1000ZAre ==
    ASSUME NEW w, Held(w), w.fam = "Ds1000z"
    PROVE  Points1000Z(w.h) \in Usizes
<1> DEFINE h == w.h
           d == h.depth
           stride == Stride1000Z(h)
           total == Points1000Z(h)
<1>1. h.flags \subseteq Channels /\ d \in U32s
  BY HeldAsStored DEF FileShape, AsStored
<1>2. d \in Usizes /\ d \in Nat
  BY <1>1, Widths
<1>3. 0 \in Channels
  BY DEF Channels
<1>4. h.flags # {} => stride \in {1, 2, 4}
  BY <1>1, <1>3, Strides
<1>5. total = IF h.flags = {} THEN 0 ELSE d \div stride
  BY DEF Points1000Z
<1> HIDE DEF d, stride, total
<1>6. total \in Nat /\ total <= d
  BY <1>2, <1>4, <1>5
<1> QED
  BY <1>2, <1>6, Small DEF total

LEMMA Points1000EAre ==
    ASSUME NEW w, Held(w), w.fam = "Ds1000e"
    PROVE  Points1000E(w.h) \in Usizes
<1> DEFINE d == w.h.depth
           k == Skip1000E(w.h)
<1>1. d \in U32s /\ w.h.roll \in U32s
  BY HeldAsStored DEF FileShape, AsStored
<1>2. d \in Usizes /\ d \in Nat /\ w.h.roll \in Nat
  BY <1>1, Widths
<1>3. k \in Nat
  BY <1>2, Wraps DEF Skip1000E
<1>4. Points1000E(w.h) = MonusSat(d, k)
  BY DEF Points1000E
<1> HIDE DEF d, k
<1>5. MonusSat(d, k) \in Nat /\ MonusSat(d, k) <= d
  BY <1>2, <1>3 DEF MonusSat
<1> QED
  BY <1>2, <1>4, <1>5, Small

LEMMA TekCount ==
    ASSUME NEW w, Held(w), w.fam = "Tektronix", w.h.bpp # 0,
           TekAt(w.h, w.h.start) < TekAt(w.h, w.h.stop)
    PROVE  (TekAt(w.h, w.h.stop) - TekAt(w.h, w.h.start)) \div w.h.bpp \in Usizes
<1> DEFINE h == w.h
           a == TekAt(h, h.start)
           z == TekAt(h, h.stop)
           b == h.bpp
<1>1. /\ h.base \in Int /\ h.start \in U32s /\ h.stop \in U32s /\ b \in U32s
  BY HeldAsStored DEF FileShape, AsStored
<1>2. h.start \in Nat /\ h.stop \in Nat /\ b \in Nat
  BY <1>1, Widths
<1>3. \A x \in Int : x % USize \in 0 .. USize - 1
  BY WidthAssumption
<1>4. a \in Usizes /\ z \in Usizes
  BY <1>1, <1>2, <1>3 DEF TekAt, Usizes
<1>5. a \in Nat /\ z \in Nat
  BY <1>4, Widths
<1>6. \A x, y \in Nat : y > 0 => x \div y \in Nat /\ x \div y <= x
  <2> SUFFICES ASSUME NEW x \in Nat, NEW y \in Nat, y > 0
               PROVE  x \div y \in Nat /\ x \div y <= x
    OBVIOUS
  <2> DEFINE q == x \div y
  <2>1. q \in Nat /\ y * q <= x
    OBVIOUS
  <2> HIDE DEF q
  <2>2. q <= y * q
    <3>1. y * q = q + (y - 1) * q /\ (y - 1) * q \in Nat
      BY <2>1
    <3> QED
      BY <2>1, <3>1
  <2>3. q <= x
    BY <2>1, <2>2
  <2> QED
    BY <2>1, <2>3 DEF q
<1> HIDE DEF a, z, b
<1>7. z - a \in Nat /\ z - a <= z /\ b > 0
  BY <1>2, <1>5 DEF a, z, b
<1> DEFINE q == (z - a) \div b
<1>8. q \in Nat /\ q <= z - a
  BY <1>2, <1>6, <1>7
<1> HIDE DEF q
<1>9. q <= z
  BY <1>5, <1>7, <1>8
<1> QED
  BY <1>4, <1>8, <1>9, Small DEF q, a, z, b

LEMMA IsfCount ==
    ASSUME NEW w, Held(w), w.fam = "Isf"
    PROVE  CountIsf(w) \in Usizes
<1> DEFINE h == w.h
           p == h.pts
           b == IF h.byt = 0 THEN 1 ELSE h.byt
           m == MonusSat(w.size, h.off)
<1>1. h.off \in Usizes /\ p \in U32s /\ h.byt \in U32s /\ w.size \in Usizes
  BY HeldAsStored DEF FileShape, AsStored
<1>2. h.off \in Nat /\ p \in Nat /\ h.byt \in Nat /\ w.size \in Nat /\ p \in Usizes
  BY <1>1, Widths
<1>3. m \in Nat /\ b \in Nat /\ b > 0
  BY <1>2 DEF MonusSat
<1>4. CountIsf(w) = Smaller(p, m \div b)
  BY DEF CountIsf
<1> HIDE DEF m, b, p
<1>5. m \div b \in Nat
  BY <1>3
<1>6. Smaller(p, m \div b) \in Nat /\ Smaller(p, m \div b) <= p
  BY <1>2, <1>5 DEF Smaller
<1> QED
  BY <1>2, <1>4, <1>6, Small

(* The count is a number of the program: where the header has one at all.  *)
HasCount(w, ch) ==
    /\ w.fam = "Tektronix" => w.h.bpp # 0 /\ TekAt(w.h, w.h.start) < TekAt(w.h, w.h.stop)
    /\ w.fam = "Keysight" => ch < Len(w.h.wfs)

LEMMA CountIn ==
    ASSUME NEW w, Held(w), NEW ch \in Nat, HasCount(w, ch)
    PROVE  Count(w, ch) \in Usizes
<1>1. CASE w.fam = "Ds1000z"
  <2>1. Count(w, ch) = Points1000Z(w.h)
    BY <1>1 DEF Count
  <2> QED
    BY <1>1, <2>1, Points1000ZAre
<1>2. CASE w.fam = "Ds1000e"
  <2>1. Count(w, ch) = Points1000E(w.h)
    BY <1>2 DEF Count
  <2> QED
    BY <1>2, <2>1, Points1000EAre
<1>3. CASE w.fam = "Ds2000"
  <2>1. Count(w, ch) = w.h.wlen /\ w.h.wlen \in U32s
    BY <1>3, HeldAsStored DEF FileShape, AsStored, Count
  <2> QED
    BY <2>1, Widths
<1>4. CASE w.fam = "Ds4000"
  <2>1. Count(w, ch) = w.h.depth /\ w.h.depth \in U32s
    BY <1>4, HeldAsStored DEF FileShape, AsStored, Count
  <2> QED
    BY <2>1, Widths
<1>5. CASE w.fam = "Tektronix"
  <2>1. Count(w, ch) = (TekAt(w.h, w.h.stop) - TekAt(w.h, w.h.start)) \div w.h.bpp
    BY <1>5 DEF Count
  <2> QED
    BY <1>5, <2>1, TekCount DEF HasCount
<1>6. CASE w.fam = "Isf"
  <2>1. Count(w, ch) = CountIsf(w)
    BY <1>6 DEF Count
  <2> QED
    BY <1>6, <2>1, IsfCount
<1>7. CASE w.fam = "Dho"
  BY <1>7 DEF Held, HeldDho, Count
<1>8. CASE w.fam = "Keysight"
  <2>1. Len(w.h.wfs) \in Nat /\ ch < Len(w.h.wfs)
    BY <1>8 DEF Held, HeldKeysight, HasCount
  <2>2. ch + 1 \in 1 .. Len(w.h.wfs)
    BY <2>1
  <2>3. Count(w, ch) = w.h.wfs[ch + 1].pts
    BY <1>8 DEF Count
  <2> QED
    BY <1>8, <2>2, <2>3 DEF Held, HeldKeysight
<1>9. CASE w.fam = "Siglent"
  BY <1>9 DEF Held, HeldSiglent, Count
<1>10. CASE w.fam = "Lecroy"
  BY <1>10 DEF Held, HeldLecroy, Count
<1>11. CASE w.fam = "RohdeSchwarz"
  BY <1>11 DEF Held, HeldRs, Count
<1> QED
  BY <1>1, <1>2, <1>3, <1>4, <1>5, <1>6, <1>7, <1>8, <1>9, <1>10, <1>11
  DEF Held, AllFamilies, AsStored

LEMMA TekEnds ==
    ASSUME NEW w, Held(w), w.fam = "Tektronix"
    PROVE  TekAt(w.h, w.h.start) \in Nat /\ TekAt(w.h, w.h.stop) \in Nat
<1>1. w.h.base \in Int /\ w.h.start \in U32s /\ w.h.stop \in U32s
  BY HeldAsStored DEF FileShape, AsStored
<1>2. w.h.start \in Nat /\ w.h.stop \in Nat
  BY <1>1, Widths
<1> QED
  BY <1>1, <1>2, WidthAssumption DEF TekAt

(* channel_sample_count answers it for the channels that are listed.       *)
LEMMA Counts ==
    ASSUME NEW w, Held(w), NEW ch \in Nat
    PROVE  IF HasCount(w, ch) /\ ch \in OnChannels(w)
           THEN SampleCount(w, ch) = Ok(Count(w, ch))
           ELSE SampleCount(w, ch).tag # "ok"
<1> DEFINE listed == ch \in {EnabledChannels(w)[k] : k \in 1 .. Len(EnabledChannels(w))}
<1>0. NotEnabled.tag # "ok" /\ NoChannel.tag # "ok" /\ Overrun.tag # "ok"
  BY DEF NotEnabled, NoChannel, Overrun, Err
<1>1. listed <=> ch \in OnChannels(w)
  BY EnabledIs DEF Enabled
<1> HIDE DEF listed
<1>2. CASE w.fam \in {"Ds1000z", "Ds1000e", "Ds2000", "Ds4000", "Dho", "Siglent", "Lecroy",
                     "RohdeSchwarz"}
  <2>1. SampleCount(w, ch) = IF listed THEN Ok(Count(w, ch)) ELSE NotEnabled
    BY <1>2 DEF SampleCount, Count, listed
  <2>2. HasCount(w, ch)
    BY <1>2 DEF HasCount
  <2> QED
    BY <1>0, <1>1, <2>1, <2>2, Zenon
<1>3. CASE w.fam = "Tektronix"
  <2> DEFINE from == TekAt(w.h, w.h.start)
             upto == TekAt(w.h, w.h.stop)
             bad == w.h.bpp = 0 \/ upto <= from
             off == ch > 0
  <2>1. SampleCount(w, ch) = IF off THEN NoChannel
                             ELSE IF bad THEN Overrun ELSE Ok(Count(w, ch))
    BY <1>3 DEF SampleCount, Count
  <2>2. ~bad <=> HasCount(w, ch)
    BY <1>3, TekEnds DEF HasCount
  <2>3. ~off <=> ch \in OnChannels(w)
    BY <1>3 DEF OnChannels
  <2> HIDE DEF bad, off
  <2> QED
    BY <1>0, <2>1, <2>2, <2>3, Zenon
<1>4. CASE w.fam = "Isf"
  <2> DEFINE off == ch > 0
  <2>1. SampleCount(w, ch) = IF off THEN NoChannel ELSE Ok(Count(w, ch))
    BY <1>4 DEF SampleCount, Count
  <2>2. HasCount(w, ch)
    BY <1>4 DEF HasCount
  <2>3. ~off <=> ch \in OnChannels(w)
    BY <1>4 DEF OnChannels
  <2> HIDE DEF off
  <2> QED
    BY <1>0, <2>1, <2>2, <2>3, Zenon
<1>5. CASE w.fam = "Keysight"
  <2> DEFINE off == ch >= Len(w.h.wfs)
  <2>1. SampleCount(w, ch) = IF off THEN NoChannel ELSE Ok(Count(w, ch))
    BY <1>5 DEF SampleCount, Count
  <2>2. Len(w.h.wfs) \in Nat
    BY <1>5 DEF Held, HeldKeysight
  <2>3. (~off <=> HasCount(w, ch)) /\ (~off <=> ch \in OnChannels(w))
    BY <1>5, <2>2 DEF HasCount, OnChannels
  <2> HIDE DEF off
  <2> QED
    BY <1>0, <2>1, <2>3, Zenon
<1> QED
  BY <1>2, <1>3, <1>4, <1>5 DEF Held, AllFamilies, AsStored

(* What convert_one made of the columns it decoded when it got to the      *)
(* writers: every column is there and as long as the first.                *)
TableIs(w, q, chosen, data, t) ==
    /\ \A k \in 1 .. Len(chosen) : data[k].tag = "ok"
    /\ ~LengthsDiffer(data)
    /\ t.chans = chosen /\ t.rows = Rows(data[1].val)
    /\ t.data = [k \in 1 .. Len(chosen) |-> data[k].val]
    /\ t.timed = (q.time /\ HasTimeAxis(w))
    /\ t.timed => t.times = Times(t.rows, q)

LEMMA TableMade ==
    ASSUME NEW w, NEW q, NEW chosen, NEW data, Len(chosen) \in Nat,
           TableFrom(w, q, chosen, data).tag = "ok"
    PROVE  TableIs(w, q, chosen, data, TableFrom(w, q, chosen, data).val)
<1> DEFINE failed == {k \in 1 .. Len(chosen) : data[k].tag # "ok"}
           first == CHOOSE k \in failed : \A j \in failed : k <= j
           rows == Rows(data[1].val)
           timed == q.time /\ HasTimeAxis(w)
           t == [chans |-> chosen, rows |-> rows,
                 data  |-> [k \in 1 .. Len(chosen) |-> data[k].val],
                 timed |-> timed, times |-> IF timed THEN Times(rows, q) ELSE <<>>]
<1>1. TableFrom(w, q, chosen, data) =
         IF failed # {} THEN data[first]
         ELSE IF LengthsDiffer(data) THEN Err("lengths differ") ELSE Ok(t)
  BY DEF TableFrom
<1>2. failed # {} => first \in failed
  <2> SUFFICES ASSUME failed # {}
               PROVE  first \in failed
    OBVIOUS
  <2>1. failed \in SUBSET Nat
    OBVIOUS
  <2> HIDE DEF failed
  <2>2. \E k \in failed : \A j \in failed : k <= j
    BY <2>1, Least
  <2> QED
    BY <2>2
<1>3. failed # {} => data[first].tag # "ok"
  BY <1>2
<1>4. Err("lengths differ").tag # "ok"
  BY DEF Err
<1>5. Ok(t).val = t
  BY DEF Ok
<1>6. /\ t.chans = chosen /\ t.rows = rows
      /\ t.data = [k \in 1 .. Len(chosen) |-> data[k].val]
      /\ t.timed = timed /\ (timed => t.times = Times(rows, q))
  OBVIOUS
<1> HIDE DEF t, first, timed, rows
<1>7. failed = {} /\ ~LengthsDiffer(data) /\ TableFrom(w, q, chosen, data).val = t
  <2> HIDE DEF failed
  <2> QED
    BY <1>1, <1>3, <1>4, <1>5, Zenon
<1> QED
  BY <1>6, <1>7 DEF TableIs, rows, timed

LEMMA TableOfMade ==
    ASSUME NEW w, Held(w), NEW q, TableOf(w, q).tag = "ok"
    PROVE  /\ EnabledChannels(w) # <<>>
           /\ q.channel # Absent => q.channel - 1 \in OnChannels(w)
           /\ Len(Requested(w, q)) \in Nat \ {0}
           /\ \A k \in 1 .. Len(Requested(w, q)) : Requested(w, q)[k] \in OnChannels(w)
           /\ TableIs(w, q, Requested(w, q), DataOf(w, Requested(w, q), q), TableOf(w, q).val)
<1> DEFINE on == EnabledChannels(w)
           chosen == Requested(w, q)
           data == DataOf(w, chosen, q)
           unlisted == q.channel # Absent /\ q.channel - 1 \notin Listed(w)
<1>1. TableOf(w, q) = IF on = <<>> THEN Err("no enabled channels")
                      ELSE IF unlisted THEN NotEnabled ELSE TableFrom(w, q, chosen, data)
  BY DEF TableOf
<1>2. Err("no enabled channels").tag # "ok" /\ NotEnabled.tag # "ok"
  BY DEF Err, NotEnabled
<1>3. Lists(on, OnChannels(w)) /\ Listed(w) = OnChannels(w)
  BY Listing, EnabledIs
<1> HIDE DEF unlisted, on, data
<1>4. on # <<>> /\ ~unlisted /\ TableOf(w, q) = TableFrom(w, q, chosen, data)
  BY <1>1, <1>2, Zenon
<1>5. q.channel # Absent => q.channel - 1 \in OnChannels(w)
  BY <1>3, <1>4 DEF unlisted
<1>6. Len(chosen) \in Nat \ {0} /\ \A k \in 1 .. Len(chosen) : chosen[k] \in OnChannels(w)
  <2>1. CASE q.channel = Absent
    <3>1. chosen = on
      BY <2>1 DEF Requested, on
    <3> HIDE DEF chosen
    <3>2. Len(on) \in Nat /\ on \in [1 .. Len(on) -> OnChannels(w)]
      BY <1>3 DEF Lists
    <3>3. Len(on) # 0
      BY <1>4, <3>2
    <3> QED
      BY <3>1, <3>2, <3>3
  <2>2. CASE q.channel # Absent
    <3>1. chosen = <<q.channel - 1>>
      BY <2>2 DEF Requested
    <3> QED
      BY <1>5, <2>2, <3>1
  <2> QED
    BY <2>1, <2>2
<1>7. TableIs(w, q, chosen, data, TableOf(w, q).val)
  BY <1>4, <1>6, TableMade
<1> QED
  BY <1>4, <1>5, <1>6, <1>7 DEF on, data

(* THEOREM: row i of an export and entry i of the time axis of the same    *)
(* slice are computed from the same sample number, although one adds to    *)
(* the start that was asked for, in a usize, and the other to the start    *)
(* cut to the count (main.rs:373, lib.rs get_time_axis).                   *)
LEMMA RowTimesHold == HandleInv => RowTimes
<1> SUFFICES ASSUME HandleInv, IsOpen, NEW q \in Requests,
                    TableOf(W, q).tag = "ok", TableOf(W, q).val.timed,
                    GetTimeAxis(W, q.start, q.length).tag = "ok",
                    GetTimeAxis(W, q.start, q.length).val # None,
                    NEW i \in DOMAIN TableOf(W, q).val.times,
                    i \in DOMAIN GetTimeAxis(W, q.start, q.length).val.val
             PROVE  TableOf(W, q).val.times[i] = GetTimeAxis(W, q.start, q.length).val.val[i]
  BY DEF RowTimes, SameTimes
<1> DEFINE on == EnabledChannels(W)
           n == SampleCount(W, on[1])
           s == ApplySlice(n.val, q.start, q.length)
           axis == [j \in 0 .. s.len - 1 |-> s.start + j]
           table == TableOf(W, q)
           rows == table.val.rows
           noAxis == ~HasTimeAxis(W) \/ on = <<>>
<1>1. Held(W) /\ q.start \in Args /\ q.length \in Args
  BY OpenIsHeld, ArgumentsAre, SMTT(30) DEF Requests
<1>2. GetTimeAxis(W, q.start, q.length)
        = IF noAxis THEN Ok(None) ELSE IF n.tag # "ok" THEN n ELSE Ok(Some(axis))
  BY DEF GetTimeAxis
<1> HIDE DEF axis, n
<1>3. ~noAxis /\ n.tag = "ok" /\ GetTimeAxis(W, q.start, q.length).val.val = axis
  <2>1. Ok(None).val = None /\ Ok(Some(axis)).val.val = axis
    BY DEF Ok, Some
  <2> HIDE DEF noAxis
  <2> QED
    BY <1>2, <2>1
<1>4. on[1] \in Nat
  <2>1. Lists(on, OnChannels(W))
    BY <1>1, Listing
  <2>2. on # <<>>
    BY <1>3
  <2> HIDE DEF on
  <2>3. 1 \in 1 .. Len(on)
    BY <2>1, <2>2 DEF Lists
  <2> QED
    BY <2>1, <2>3 DEF Lists
<1>5. n = Ok(Count(W, on[1])) /\ Count(W, on[1]) \in Usizes
  <2>1. n = Ok(Count(W, on[1])) /\ HasCount(W, on[1])
    BY <1>1, <1>3, <1>4, Counts, Zenon DEF n
  <2> QED
    BY <1>1, <1>4, <2>1, CountIn
<1> DEFINE total == Count(W, on[1])
<1>6. n.val = total /\ total \in Nat /\ total < USize
  <2>1. n.val = total
    BY <1>5 DEF Ok
  <2> HIDE DEF total
  <2> QED
    BY <1>5, <2>1, Widths DEF total, Usizes
<1>7. table.val.times = Times(rows, q)
  <2>1. TableIs(W, q, Requested(W, q), DataOf(W, Requested(W, q), q), table.val)
    BY <1>1, TableOfMade
  <2> HIDE DEF table
  <2> QED
    BY <2>1 DEF TableIs, table
<1> HIDE DEF table
<1> DEFINE start == UnwrapOr(q.start, 0)
<1>8. start \in Nat
  BY <1>1, Widths DEF Args, UnwrapOr
<1>9. i \in 0 .. s.len - 1 /\ axis[i] = s.start + i
  BY <1>3 DEF axis
<1>10. s.len \in Nat /\ s.start = Smaller(start, total) /\ s.start + s.len <= total
  BY <1>1, <1>6, SliceInside DEF ApplySlice
<1> HIDE DEF total, start, s
<1>11. i \in Nat /\ s.start = start /\ start + i < USize
  <2> DEFINE a == s.start
             b == s.len
  <2>1. i \in 0 .. b - 1 /\ b \in Nat /\ a = Smaller(start, total) /\ a + b <= total
    BY <1>9, <1>10
  <2> HIDE DEF a, b
  <2>2. i \in Nat /\ a = start /\ start + i < total
    BY <1>6, <1>8, <2>1 DEF Smaller
  <2> QED
    BY <1>6, <1>8, <2>2, WidthAssumption DEF a
<1>12. (start + i) % USize = start + i
  <2> DEFINE x == start + i
  <2>1. x \in Nat /\ x < USize
    BY <1>8, <1>11
  <2> HIDE DEF x
  <2> QED
    BY <2>1, WidthAssumption DEF x
<1>13. Times(rows, q)[i] = (start + i) % USize
  BY <1>7 DEF Times, start, table
<1> QED
  BY <1>3, <1>7, <1>9, <1>11, <1>12, <1>13 DEF table

(* A row of an export has the time of its sample, for any start, also one  *)
(* behind the end (main.rs:300-317, lib.rs:84-96).                         *)
THEOREM TimesAgree == Spec => []RowTimes
BY Always, RowTimesHold, PTL

-----------------------------------------------------------------------------
(* The plan of a channel that decodes, and of which channels that is.      *)
Decodable(w) ==
    IF w.fam = "Ds1000z" THEN {c \in Channels : w.h.on[c]} ELSE OnChannels(w)

Total(w, ch) ==
    IF w.fam = "Keysight"
    THEN Smaller(w.h.wfs[ch + 1].pts, w.h.wfs[ch + 1].len \div w.h.wfs[ch + 1].bpp)
    ELSE Count(w, ch)

CalOf(w, ch) ==
    CASE w.fam \in {"Ds1000z", "Ds1000e", "Ds2000", "Ds4000"} -> Cal(ch, w.h.inv[ch])
      [] w.fam \in {"Tektronix", "Isf", "Keysight", "Lecroy"} -> Cal(NoEntry, FALSE)
      [] w.fam = "Dho"          -> Cal(w.h.cals[ch], FALSE)
      [] w.fam = "Siglent"      -> Cal(ch, FALSE)
      [] w.fam = "RohdeSchwarz" -> Cal(FindChannel(w.h.chans, ch + 1).slot, FALSE)

LEMMA Spreads ==
    ASSUME NEW buf, NEW total \in Nat, NEW ty, NEW mul, NEW add, NEW div, NEW cal
    PROVE  /\ Strided(buf, ApplySlice(total, Absent, Absent), ty, mul, add, div, cal).tag = "plan"
           /\ Packed(buf, ApplySlice(total, Absent, Absent), ty, cal).tag = "plan"
           /\ Strided(buf, ApplySlice(total, Absent, Absent), ty, mul, add, div, cal).plan.n = total
           /\ Strided(buf, ApplySlice(total, Absent, Absent), ty, mul, add, div, cal).plan.cal = cal
           /\ Packed(buf, ApplySlice(total, Absent, Absent), ty, cal).plan.n = total
           /\ Packed(buf, ApplySlice(total, Absent, Absent), ty, cal).plan.cal = cal
<1>1. ApplySlice(total, Absent, Absent).len = total
  BY SliceWhole
<1> QED
  BY <1>1 DEF Packed, Strided

LEMMA SpreadsPacked ==
    ASSUME NEW buf, NEW total \in Nat, NEW ty, NEW cal
    PROVE  LET p == Packed(buf, ApplySlice(total, Absent, Absent), ty, cal)
           IN  p.tag = "plan" /\ p.plan.n = total /\ p.plan.cal = cal
<1>1. ApplySlice(total, Absent, Absent).len = total
  BY SliceWhole
<1> QED
  BY <1>1 DEF Packed, Strided

(* None of the errors before a decode is taken for a plan, or for what the *)
(* command line says of channels of different lengths.                     *)
NoPlan == {NoChannel, NotEnabled, Overrun, Panic("attempt to divide by zero"),
           Err("unsupported width"), Err("buffer not supported")}

LEMMA NoPlanIs == \A r \in NoPlan : r.tag # "plan" /\ r # Err("lengths differ")
<1> DEFINE causes == {"no such channel", "channel not enabled", "payload overruns file",
                      "unsupported width", "buffer not supported"}
<1>1. \A e : Err(e).tag = "err" /\ Err(e).why = e /\ Panic(e).tag = "panic"
  BY DEF Err, Panic
<1>2. ASSUME NEW r \in NoPlan
      PROVE  (\E e \in causes : r = Err(e)) \/ r = Panic("attempt to divide by zero")
  BY DEF NoPlan, NoChannel, NotEnabled, Overrun
<1>3. "lengths differ" \notin causes
  OBVIOUS
<1> HIDE DEF causes
<1>4. ASSUME NEW r \in NoPlan
      PROVE  r.tag # "plan" /\ r # Err("lengths differ")
  <2>1. CASE r = Panic("attempt to divide by zero")
    BY <1>1, <2>1
  <2>2. ASSUME NEW e \in causes, r = Err(e)
        PROVE  r.tag # "plan" /\ r # Err("lengths differ")
    BY <1>1, <1>3, <2>2
  <2> QED
    BY <1>2, <2>1, <2>2
<1> QED
  BY <1>4

PlanOf(w, ch, r) ==
    r \in NoPlan \/ (/\ r.tag = "plan" /\ ch \in Decodable(w) /\ HasCount(w, ch)
                     /\ r.plan.n = Total(w, ch) /\ r.plan.cal = CalOf(w, ch))

LEMMA PlanIs ==
    ASSUME NEW w, Held(w), NEW ch \in Nat
    PROVE  PlanOf(w, ch, Prepare(w, ch, Absent, Absent))
<1> DEFINE h == w.h
           r == Prepare(w, ch, Absent, Absent)
           All(n) == ApplySlice(n, Absent, Absent)
           good == ch \in Decodable(w) /\ HasCount(w, ch)
<1>0. /\ NoChannel \in NoPlan /\ NotEnabled \in NoPlan /\ Overrun \in NoPlan
      /\ Panic("attempt to divide by zero") \in NoPlan
      /\ Err("unsupported width") \in NoPlan /\ Err("buffer not supported") \in NoPlan
  BY DEF NoPlan
<1>1. ASSUME good, w.fam # "Keysight"
      PROVE  Count(w, ch) \in Nat /\ Total(w, ch) = Count(w, ch)
  BY <1>1, CountIn, Widths DEF Total
<1>2. CASE w.fam = "Ds1000z"
  <2> DEFINE data == (h.hoff + h.hsize) % U32
             off == ch > 3
             over == data + h.depth > w.size
             buf == Buffer(data, w.size - data)
             plan == Strided(buf, All(Count(w, ch)), "U8", Stride1000Z(h), Lane1000Z(h, ch), 1,
                             CalOf(w, ch))
  <2>1. r = IF off THEN NoChannel ELSE IF ~h.on[ch] THEN NotEnabled
            ELSE IF over THEN Overrun ELSE plan
    BY <1>2 DEF Prepare, Prepare1000Z, Count, CalOf
  <2>2. ~off /\ h.on[ch] => good
    BY <1>2 DEF Decodable, HasCount, Channels
  <2>3. good => plan.tag = "plan" /\ plan.plan.n = Total(w, ch) /\ plan.plan.cal = CalOf(w, ch)
    BY <1>1, <1>2, Spreads
  <2> HIDE DEF off, over, plan, r
  <2>4. r \in NoPlan \/ (r = plan /\ good)
    BY <1>0, <2>1, <2>2, Zenon
  <2> QED
    BY <2>3, <2>4 DEF PlanOf, r
<1>3. CASE w.fam = "Ds1000e"
  <2> DEFINE points == Points1000E(h)
             first == IF h.on[0] THEN points + Skip1000E(h) ELSE 0
             data == DataStart1000E + (IF ch = 0 THEN 0 ELSE first)
             off == ch > 1
             over == data + points > w.size
             buf == Buffer(data, w.size - data)
             plan == Packed(buf, All(Count(w, ch)), "U8", CalOf(w, ch))
  <2>1. r = IF off THEN NoChannel ELSE IF ~h.on[ch] THEN NotEnabled
            ELSE IF over THEN Overrun ELSE plan
    BY <1>3 DEF Prepare, Prepare1000E, Count, CalOf
  <2>2. ~off /\ h.on[ch] => good
    BY <1>3 DEF Decodable, OnChannels, HasCount
  <2>3. good => plan.tag = "plan" /\ plan.plan.n = Total(w, ch) /\ plan.plan.cal = CalOf(w, ch)
    BY <1>1, <1>3, Spreads
  <2> HIDE DEF off, over, plan, r
  <2>4. r \in NoPlan \/ (r = plan /\ good)
    BY <1>0, <2>1, <2>2, Zenon
  <2> QED
    BY <2>3, <2>4 DEF PlanOf, r
<1>4. CASE w.fam = "Ds2000"
  <2> DEFINE At(k) == (h.offs[k] + h.zpt) % U32
             half == h.wlen \div 2
             off == ch > 3
             far == At(0) + half > w.size \/ At(1) + half > w.size
             over == At(ch) + h.wlen > w.size
             slice == All(Count(w, ch))
             woven == [tag |-> "plan",
                       plan |-> [woven |-> TRUE, buf |-> Buffer(At(0), half),
                                 odd |-> Buffer(At(1), half), n |-> slice.len,
                                 ty |-> "U8", cal |-> CalOf(w, ch),
                                 idx |-> [start |-> slice.start, mul |-> 1, add |-> 0, div |-> 1]]]
             plan == Packed(Buffer(At(ch), h.wlen), slice, "U8", CalOf(w, ch))
  <2>1. r = IF off THEN NoChannel ELSE IF ~h.on[ch] THEN NotEnabled
            ELSE IF h.woven THEN IF far THEN Overrun ELSE woven
            ELSE IF over THEN Overrun ELSE plan
    BY <1>4 DEF Prepare, Prepare2000, Count, CalOf
  <2>2. ~off /\ h.on[ch] => good
    BY <1>4 DEF Decodable, OnChannels, HasCount, Channels
  <2>3. good => plan.tag = "plan" /\ plan.plan.n = Total(w, ch) /\ plan.plan.cal = CalOf(w, ch)
    BY <1>1, <1>4, Spreads
  <2>5. good => woven.tag = "plan" /\ woven.plan.n = Total(w, ch) /\ woven.plan.cal = CalOf(w, ch)
    BY <1>1, <1>4, SliceWhole
  <2> HIDE DEF off, over, far, plan, woven, r
  <2>4. r \in NoPlan \/ (r = plan /\ good) \/ (r = woven /\ good)
    BY <1>0, <2>1, <2>2, Zenon
  <2> QED
    BY <2>3, <2>4, <2>5 DEF PlanOf, r
<1>5. CASE w.fam = "Ds4000"
  <2> DEFINE off == ch > 3
             over == h.offs[ch] + h.depth > w.size
             plan == Packed(Buffer(h.offs[ch], h.depth), All(Count(w, ch)), "U8", CalOf(w, ch))
  <2>1. r = IF off THEN NoChannel ELSE IF ch \notin h.on THEN NotEnabled
            ELSE IF over THEN Overrun ELSE plan
    BY <1>5 DEF Prepare, Prepare4000, Count, CalOf
  <2>2. ch \in h.on => good
    BY <1>5 DEF Decodable, OnChannels, HasCount
  <2>3. good => plan.tag = "plan" /\ plan.plan.n = Total(w, ch) /\ plan.plan.cal = CalOf(w, ch)
    BY <1>1, <1>5, Spreads
  <2> HIDE DEF off, over, plan, r
  <2>4. r \in NoPlan \/ (r = plan /\ good)
    BY <1>0, <2>1, <2>2, Zenon
  <2> QED
    BY <2>3, <2>4 DEF PlanOf, r
<1>6. CASE w.fam = "Tektronix"
  <2> DEFINE from == TekAt(h, h.start)
             upto == TekAt(h, h.stop)
             ty == CASE h.bpp = 1 -> "I8"
                     [] h.bpp = 2 -> IF h.le THEN "I16Le" ELSE "I16Be"
                     [] OTHER     -> IF h.le THEN "I32Le" ELSE "I32Be"
             off == ch > 0
             over == upto > w.size \/ from >= upto
             plan == Packed(Buffer(from, upto - from), All(Count(w, ch)), ty, CalOf(w, ch))
  <2>1. r = IF off THEN NoChannel ELSE IF over THEN Overrun
            ELSE IF h.bpp = 0 THEN Panic("attempt to divide by zero")
            ELSE IF h.bpp \notin {1, 2, 4} THEN Err("unsupported width") ELSE plan
    BY <1>6 DEF Prepare, PrepareTek, Count, CalOf
  <2>2. ~off /\ ~over /\ h.bpp # 0 => good
    BY <1>6, TekEnds DEF Decodable, OnChannels, HasCount
  <2>3. good => plan.tag = "plan" /\ plan.plan.n = Total(w, ch) /\ plan.plan.cal = CalOf(w, ch)
    BY <1>1, <1>6, Spreads
  <2> HIDE DEF off, over, plan, r
  <2>4. r \in NoPlan \/ (r = plan /\ good)
    BY <1>0, <2>1, <2>2, Zenon
  <2> QED
    BY <2>3, <2>4 DEF PlanOf, r
<1>7. CASE w.fam = "Isf"
  <2> DEFINE buf == Buffer(h.off, w.size - h.off)
             ty == IF h.byt = 1 THEN "I8" ELSE IF h.le THEN "I16Le" ELSE "I16Be"
             total == Smaller(h.pts, buf.len \div h.byt)
             off == ch > 0
             over == h.off > w.size
             plan == Packed(buf, All(total), ty, CalOf(w, ch))
  <2>1. r = IF off THEN NoChannel ELSE IF over THEN Overrun
            ELSE IF h.byt = 0 THEN Panic("attempt to divide by zero")
            ELSE IF h.byt \notin {1, 2} THEN Err("unsupported width") ELSE plan
    BY <1>7 DEF Prepare, PrepareIsf, CalOf
  <2>2. ~off => good
    BY <1>7 DEF Decodable, OnChannels, HasCount
  <2>3. good /\ ~over /\ h.byt # 0 => plan.tag = "plan" /\ plan.plan.n = Total(w, ch) /\ plan.plan.cal = CalOf(w, ch)
    <3> SUFFICES ASSUME good, ~over, h.byt # 0
                 PROVE  plan.tag = "plan" /\ plan.plan.n = Total(w, ch) /\ plan.plan.cal = CalOf(w, ch)
      OBVIOUS
    <3>1. h.off \in Usizes /\ w.size \in Usizes
      BY <1>7, HeldAsStored DEF FileShape, AsStored
    <3>2. h.off \in Nat /\ w.size \in Nat
      BY <3>1, Widths
    <3>3. MonusSat(w.size, h.off) = w.size - h.off
      BY <3>2 DEF MonusSat
    <3>4. total = Count(w, ch)
      BY <1>7, <3>3 DEF Count, CountIsf, Buffer
    <3> HIDE DEF total, buf
    <3> QED
      BY <1>1, <1>7, <3>4, Spreads, SMTT(30)
  <2> HIDE DEF off, over, plan, r
  <2>4. r \in NoPlan \/ (r = plan /\ good /\ ~over /\ h.byt # 0)
    BY <1>0, <2>1, <2>2, Zenon
  <2> QED
    BY <2>3, <2>4 DEF PlanOf, r
<1>8. CASE w.fam = "Dho"
  <2> DEFINE total == h.n * h.nch * 2
             off == ch > 3
             none == h.cals[ch] = NoEntry
             over == h.data + total > w.size
             plan == Strided(Buffer(h.data, total), All(Count(w, ch)), "U16Le", h.nch, ch, 1,
                             CalOf(w, ch))
  <2>1. r = IF off THEN NoChannel ELSE IF none THEN NotEnabled
            ELSE IF over THEN Overrun ELSE plan
    BY <1>8 DEF Prepare, PrepareDho, Count, CalOf
  <2>2. ~off /\ ~none => good
    BY <1>8 DEF Decodable, OnChannels, HasCount, Channels
  <2>3. good => plan.tag = "plan" /\ plan.plan.n = Total(w, ch) /\ plan.plan.cal = CalOf(w, ch)
    BY <1>1, <1>8, Spreads
  <2> HIDE DEF off, none, over, plan, r
  <2>4. r \in NoPlan \/ (r = plan /\ good)
    BY <1>0, <2>1, <2>2, Zenon
  <2> QED
    BY <2>3, <2>4 DEF PlanOf, r
<1>9. CASE w.fam = "Keysight"
  <2> DEFINE wf == h.wfs[ch + 1]
             ty == IF wf.kind = "float" THEN "F32Le" ELSE "U8"
             off == ch >= Len(h.wfs)
             over == wf.off + wf.len > w.size
             other == <<wf.kind, wf.bpp>> \notin {<<"float", 4>>, <<"logic", 1>>}
             total == Smaller(wf.pts, wf.len \div wf.bpp)
             plan == Packed(Buffer(wf.off, wf.len), All(total), ty, CalOf(w, ch))
  <2>1. r = IF off THEN NoChannel ELSE IF over THEN Overrun
            ELSE IF other THEN Err("buffer not supported") ELSE plan
    BY <1>9 DEF Prepare, PrepareKeysight, CalOf
  <2>2. Len(h.wfs) \in Nat
    BY <1>9 DEF Held, HeldKeysight
  <2>3. ~off => good
    BY <1>9, <2>2 DEF Decodable, OnChannels, HasCount
  <2>4. ~off => plan.tag = "plan" /\ plan.plan.n = Total(w, ch) /\ plan.plan.cal = CalOf(w, ch)
    <3> SUFFICES ASSUME ~off
                 PROVE  plan.tag = "plan" /\ plan.plan.n = Total(w, ch) /\ plan.plan.cal = CalOf(w, ch)
      OBVIOUS
    <3>1. ch + 1 \in 1 .. Len(h.wfs)
      BY <2>2
    <3>2. wf.pts \in Usizes /\ wf.len \in Nat /\ wf.bpp \in {1, 4}
      BY <1>9, <3>1 DEF Held, HeldKeysight
    <3>3. total = Total(w, ch)
      BY <1>9 DEF Total
    <3> HIDE DEF wf
    <3>4. wf.pts \in Nat
      BY <3>2, Widths
    <3>5. total \in Nat
      BY <3>2, <3>4 DEF Smaller
    <3> HIDE DEF total, ty
    <3>6. plan.tag = "plan" /\ plan.plan.n = total /\ plan.plan.cal = CalOf(w, ch)
      <4> DEFINE buf == Buffer(wf.off, wf.len)
                 cal == CalOf(w, ch)
      <4> SUFFICES LET p == Packed(buf, ApplySlice(total, Absent, Absent), ty, cal)
                   IN  p.tag = "plan" /\ p.plan.n = total /\ p.plan.cal = cal
        OBVIOUS
      <4> HIDE DEF buf, cal
      <4> QED
        BY <3>5, SpreadsPacked
    <3> HIDE DEF plan
    <3> QED
      BY <3>3, <3>6, SMTT(30)
  <2> HIDE DEF off, over, other, plan, r
  <2>5. r \in NoPlan \/ (r = plan /\ good /\ ~off)
    BY <1>0, <2>1, <2>3, Zenon
  <2> QED
    BY <2>4, <2>5 DEF PlanOf, r
<1>10. CASE w.fam = "Siglent"
  <2> DEFINE c == FindChannel(h.chans, ch + 1)
             off == ch > 3
             none == Entries(h.chans, ch + 1) = {}
             over == c.off + h.wlen > w.size
             plan == Packed(Buffer(c.off, h.wlen), All(Count(w, ch)), "U8", CalOf(w, ch))
  <2>1. r = IF off THEN NoChannel ELSE IF none THEN NotEnabled
            ELSE IF over THEN Overrun ELSE plan
    BY <1>10 DEF Prepare, PrepareSiglent, Count, CalOf
  <2>2. ~none => good
    BY <1>10 DEF Decodable, OnChannels, HasCount
  <2>3. good => plan.tag = "plan" /\ plan.plan.n = Total(w, ch) /\ plan.plan.cal = CalOf(w, ch)
    BY <1>1, <1>10, Spreads
  <2> HIDE DEF off, none, over, plan, r
  <2>4. r \in NoPlan \/ (r = plan /\ good)
    BY <1>0, <2>1, <2>2, Zenon
  <2> QED
    BY <2>3, <2>4 DEF PlanOf, r
<1>11. CASE w.fam = "Lecroy"
  <2> DEFINE ty == IF h.width = 1 THEN "I8" ELSE IF h.le THEN "I16Le" ELSE "I16Be"
             none == ch + 1 # h.channel
             over == h.off + h.len > w.size
             plan == Packed(Buffer(h.off, h.len), All(Count(w, ch)), ty, CalOf(w, ch))
  <2>1. r = IF none THEN NoChannel ELSE IF over THEN Overrun ELSE plan
    BY <1>11 DEF Prepare, PrepareLecroy, Count, CalOf
  <2>2. ~none => good
    <3>1. h.channel \in 1 .. 4
      BY <1>11 DEF Held, HeldLecroy
    <3> QED
      BY <1>11, <3>1 DEF Decodable, OnChannels, HasCount
  <2>3. good => plan.tag = "plan" /\ plan.plan.n = Total(w, ch) /\ plan.plan.cal = CalOf(w, ch)
    BY <1>1, <1>11, Spreads
  <2> HIDE DEF none, over, plan, r
  <2>4. r \in NoPlan \/ (r = plan /\ good)
    BY <1>0, <2>1, <2>2, Zenon
  <2> QED
    BY <2>3, <2>4 DEF PlanOf, r
<1>12. CASE w.fam = "RohdeSchwarz"
  <2> DEFINE c == FindChannel(h.chans, ch + 1)
             data == 8 + h.lead * h.stride
             rows == h.rec * h.stride
             none == Entries(h.chans, ch + 1) = {}
             over == data + rows > w.size
             plan == Strided(Buffer(data, rows), All(Count(w, ch)), RsType[h.fmt], h.stride,
                             h.prefix + c.slot * h.bps, h.bps, CalOf(w, ch))
  <2>1. r = IF none THEN NotEnabled ELSE IF over THEN Overrun ELSE plan
    BY <1>12 DEF Prepare, PrepareRs, Count, CalOf
  <2>2. ~none => good
    BY <1>12 DEF Decodable, OnChannels, HasCount
  <2>3. good => plan.tag = "plan" /\ plan.plan.n = Total(w, ch) /\ plan.plan.cal = CalOf(w, ch)
    BY <1>1, <1>12, Spreads
  <2> HIDE DEF none, over, plan, r
  <2>4. r \in NoPlan \/ (r = plan /\ good)
    BY <1>0, <2>1, <2>2, Zenon
  <2> QED
    BY <2>3, <2>4 DEF PlanOf, r
<1> QED
  BY <1>2, <1>3, <1>4, <1>5, <1>6, <1>7, <1>8, <1>9, <1>10, <1>11, <1>12
  DEF Held, AllFamilies, AsStored

(* What a channel that decodes has in its cells.                           *)
LEMMA Decoded ==
    ASSUME NEW w, Held(w), NEW ch \in Nat, NEW s \in Args, NEW l \in Args,
           ChannelData(w, ch, s, l).tag = "ok"
    PROVE  LET data == ChannelData(w, ch, s, l)
               cut == ApplySlice(Total(w, ch), s, l)
           IN  /\ ch \in Decodable(w) /\ HasCount(w, ch) /\ Total(w, ch) \in Nat
               /\ cut.len \in Nat /\ DOMAIN data.val = 0 .. cut.len - 1
               /\ Rows(data.val) = cut.len
               /\ \A i \in 0 .. cut.len - 1 : data.val[i].cal = CalOf(w, ch)
<1> DEFINE data == ChannelData(w, ch, s, l)
           r == Prepare(w, ch, Absent, Absent)
           p == r.plan
           cut == ApplySlice(p.n, s, l)
           v == [i \in 0 .. cut.len - 1 |-> ReadSample(p, cut.start + i)]
<1>1. Answered(w, ch, s, l) /\ PlanOf(w, ch, r)
  BY Answers, PlanIs
<1>2. Panic("index out of bounds").tag # "ok" /\ Ok(v).val = v
  BY DEF Panic, Ok
<1> HIDE DEF v
<1>3. r.tag = "plan" /\ Sound(w, p) /\ cut.len \in Nat /\ data = Ok(v)
  BY <1>1, <1>2 DEF Answered, v
<1>4. r \notin NoPlan
  BY <1>3, NoPlanIs
<1>5. /\ ch \in Decodable(w) /\ HasCount(w, ch)
      /\ p.n = Total(w, ch) /\ p.cal = CalOf(w, ch)
  BY <1>1, <1>4 DEF PlanOf
<1>6. p.n \in Nat
  BY <1>3 DEF Sound
<1>7. data.val = v
  BY <1>2, <1>3
<1>8. \A i \in 0 .. cut.len - 1 : v[i].cal = CalOf(w, ch)
  BY <1>5 DEF v, ReadSample
<1>9. DOMAIN v = 0 .. cut.len - 1
  BY DEF v
<1> HIDE DEF cut
<1>10. Rows(v) = cut.len
  BY <1>3, <1>9, Counted DEF Rows
<1> QED
  BY <1>3, <1>5, <1>6, <1>7, <1>8, <1>9, <1>10 DEF cut

LEMMA DecodableIs ==
    ASSUME NEW w, Held(w), Consistent(w)
    PROVE  Decodable(w) = OnChannels(w)
BY DEF Decodable, OnChannels, Consistent

-----------------------------------------------------------------------------
(* THEOREM: an open handle has the shape that its family's parser checks,  *)
(* and a table made of it as many cells in every column, the time column   *)
(* included, as it has rows: the writers index them all by row             *)
(* (main.rs:381, 443).                                                     *)
LEMMA TableIsRectangular ==
    ASSUME NEW w, Held(w), NEW q \in Requests, TableOf(w, q).tag = "ok"
    PROVE  Rectangular(TableOf(w, q).val)
<1> DEFINE t == TableOf(w, q).val
           chosen == Requested(w, q)
           data == DataOf(w, chosen, q)
           N == Len(chosen)
<1>1. /\ N \in Nat \ {0} /\ \A k \in 1 .. N : chosen[k] \in OnChannels(w)
      /\ TableIs(w, q, chosen, data, t)
  BY TableOfMade
<1>2. q.start \in Args /\ q.length \in Args /\ q.start \in Starts
  BY ArgumentsAre DEF Requests
<1>3. data = [k \in 1 .. N |-> ChannelData(w, chosen[k], q.start, q.length)]
  BY DEF DataOf
<1> HIDE DEF chosen, N, data, t
<1>4. ASSUME NEW k \in 1 .. N
      PROVE  Rows(data[k].val) \in Nat /\ DOMAIN data[k].val = 0 .. Rows(data[k].val) - 1
  <2>1. chosen[k] \in Nat /\ data[k] = ChannelData(w, chosen[k], q.start, q.length)
        /\ data[k].tag = "ok"
    BY <1>1, <1>3, EnabledIs DEF TableIs, N
  <2> QED
    BY <1>2, <2>1, Decoded
<1>5. Len(data) = N
  BY <1>1, <1>3
<1>6. \A k \in 1 .. N : Rows(data[k].val) = Rows(data[1].val)
  <2>1. \A k \in 2 .. N : Rows(data[k].val) = Rows(data[1].val)
    BY <1>1, <1>5 DEF TableIs, LengthsDiffer
  <2>2. \A k \in 1 .. N : k = 1 \/ k \in 2 .. N
    BY <1>1
  <2> QED
    BY <2>1, <2>2
<1>7. /\ t.chans = chosen /\ t.rows = Rows(data[1].val)
      /\ \A k \in 1 .. N : t.data[k] = data[k].val
      /\ t.timed => t.times = Times(t.rows, q)
  BY <1>1 DEF TableIs, N
<1>8. t.rows \in Nat
  BY <1>1, <1>4, <1>7
<1>9. \A k \in Columns(t) : DOMAIN t.data[k] = 0 .. t.rows - 1
  <2>1. Columns(t) = 1 .. N
    BY <1>7 DEF Columns, N
  <2> QED
    BY <1>4, <1>6, <1>7, <2>1
<1>10. t.chans # <<>>
  <2>1. N # 0
    BY <1>1
  <2> QED
    BY <1>7, <2>1 DEF N
<1>11. Times(t.rows, q) \in [0 .. t.rows - 1 -> 0 .. USize - 1]
  <2> DEFINE a == UnwrapOr(q.start, 0)
             n == t.rows
  <2>1. a \in Nat
    BY <1>2, Widths DEF Args, UnwrapOr
  <2> HIDE DEF a
  <2>2. \A i \in 0 .. n - 1 : (a + i) % USize \in 0 .. USize - 1
    BY <1>8, <2>1, WidthAssumption
  <2>3. Times(n, q) = [i \in 0 .. n - 1 |-> (a + i) % USize]
    BY DEF Times, a
  <2> HIDE DEF n
  <2>4. Times(n, q) \in [0 .. n - 1 -> 0 .. USize - 1]
    BY <2>2, <2>3
  <2> QED
    BY <2>4 DEF n
<1> QED
  BY <1>7, <1>9, <1>10, <1>11 DEF Rectangular, t

LEMMA TypesHold == HandleInv => TypeOK
<1> SUFFICES ASSUME HandleInv
             PROVE  TypeOK
  OBVIOUS
<1>1. handle.tag \in {"closed", "err", "ok"}
  BY DEF HandleInv, Outcome, Closed
<1>2. ASSUME IsOpen
      PROVE  /\ W.size \in Nat
             /\ W.fam = "Dho" => W.h.cals \in [Channels -> Nat \cup {NoEntry}]
             /\ W.fam = "Lecroy" => W.h.channel \in 1 .. 4
             /\ \A q \in Requests : TableOK(TableOf(W, q))
  <2>1. Held(W)
    BY <1>2, OpenIsHeld
  <2>2. W.size \in Nat
    <3>1. W.size \in Usizes
      BY <2>1 DEF Held
    <3> QED
      BY <3>1, Widths
  <2>3. W.fam = "Dho" => W.h.cals \in [Channels -> Nat \cup {NoEntry}]
    BY <2>1 DEF Held, HeldDho
  <2>4. W.fam = "Lecroy" => W.h.channel \in 1 .. 4
    BY <2>1 DEF Held, HeldLecroy
  <2>5. \A q \in Requests : TableOK(TableOf(W, q))
    BY <2>1, TableIsRectangular DEF TableOK
  <2> QED
    BY <2>2, <2>3, <2>4, <2>5
<1> QED
  BY <1>1, <1>2 DEF TypeOK

(* A handle is one that some file of the set opens to; its header's fields *)
(* are in the ranges the accessors rely on, and every table has its        *)
(* columns as long as its rows (main.rs:297-317).                          *)
THEOREM TypeCorrect == Spec => []TypeOK
BY Always, TypesHold, PTL

(* THEOREM: info, which decodes nothing, tells of every channel it lists   *)
(* the number of rows that convert will write, if it writes any; only a    *)
(* Keysight record with a short buffer has fewer (main.rs:108-111,         *)
(* parser.rs:313, mmap.rs:703).                                            *)
LEMMA InfoHolds == HandleInv => InfoPredictsRows
<1> SUFFICES ASSUME HandleInv, IsOpen, NEW k \in DOMAIN InfoOf(W).lines
             PROVE  Predicts(InfoOf(W).lines[k], TableOf(W, WholeOf(InfoOf(W).lines[k])))
  BY DEF InfoPredictsRows
<1> DEFINE on == EnabledChannels(W)
           ch == on[k]
           line == InfoOf(W).lines[k]
           q == WholeOf(line)
           table == TableOf(W, q)
<1>1. Held(W)
  BY OpenIsHeld
<1>2. Lists(on, OnChannels(W))
  BY <1>1, Listing
<1>3. k \in 1 .. Len(on) /\ line = ChannelLine(W, ch)
  BY DEF InfoOf
<1> HIDE DEF on, line
<1>4. ch \in OnChannels(W) /\ ch \in Nat
  BY <1>2, <1>3 DEF Lists
<1>5. line.channel = ch + 1 /\ line.samples = Samples(W, ch)
  BY <1>3 DEF ChannelLine
<1>6. /\ q.channel = ch + 1 /\ q.start = Absent /\ q.length = Absent
      /\ q.channel - 1 = ch /\ q.channel # Absent
  BY <1>4, <1>5, SMTT(30) DEF WholeOf, Absent
<1> HIDE DEF q, ch, table
<1> SUFFICES ASSUME table.tag = "ok"
             PROVE  \/ table.val.rows = line.samples
                    \/ LET wf == W.h.wfs[line.channel] IN
                         /\ W.fam = "Keysight"
                         /\ table.val.rows = wf.len \div wf.bpp /\ table.val.rows < line.samples
  BY DEF Predicts, line, q, table
<1> DEFINE chosen == Requested(W, q)
           data == DataOf(W, chosen, q)
           rows == table.val.rows
<1>7. chosen = <<ch>>
  BY <1>6 DEF Requested
<1>8. TableIs(W, q, chosen, data, table.val)
  BY <1>1, TableOfMade DEF table
<1>9. data[1] = ChannelData(W, ch, Absent, Absent)
  BY <1>6, <1>7 DEF DataOf
<1>10. data[1].tag = "ok" /\ rows = Rows(data[1].val)
  BY <1>7, <1>8 DEF TableIs
<1> HIDE DEF data, rows
<1>11. /\ HasCount(W, ch) /\ Total(W, ch) \in Nat
       /\ Rows(data[1].val) = ApplySlice(Total(W, ch), Absent, Absent).len
  BY <1>1, <1>4, <1>9, <1>10, ArgumentsAre, Decoded
<1>12. rows = Total(W, ch)
  BY <1>10, <1>11, SliceWhole
<1>13. line.samples = Count(W, ch)
  <2>1. SampleCount(W, ch) = Ok(Count(W, ch))
    BY <1>1, <1>4, <1>11, Counts
  <2> QED
    BY <1>5, <2>1 DEF Samples, Ok
<1>14. CASE W.fam # "Keysight"
  BY <1>12, <1>13, <1>14, SMTT(30) DEF Total, rows
<1>15. CASE W.fam = "Keysight"
  <2> DEFINE wf == W.h.wfs[ch + 1]
             m == wf.len \div wf.bpp
  <2>1. Total(W, ch) = Smaller(wf.pts, m) /\ Count(W, ch) = wf.pts
    BY <1>15 DEF Total, Count
  <2>2. ch + 1 \in 1 .. Len(W.h.wfs)
    <3>1. Len(W.h.wfs) \in Nat /\ ch < Len(W.h.wfs)
      BY <1>1, <1>11, <1>15 DEF Held, HeldKeysight, HasCount
    <3> QED
      BY <1>4, <3>1
  <2>3. wf.pts \in Usizes /\ wf.len \in Nat /\ wf.bpp \in {1, 4}
    BY <1>1, <1>15, <2>2 DEF Held, HeldKeysight
  <2>4. wf.pts \in Nat
    BY <2>3, Widths
  <2> HIDE DEF wf
  <2>5. m \in Nat
    BY <2>3
  <2> HIDE DEF m
  <2>6. rows = wf.pts \/ (rows = m /\ m < wf.pts)
    BY <1>12, <2>1, <2>4, <2>5 DEF Smaller
  <2> QED
    BY <1>5, <1>13, <1>15, <2>1, <2>6 DEF rows, m, wf
<1> QED
  BY <1>14, <1>15

(* What info says without a decode is what convert then writes, but for a  *)
(* Keysight buffer shorter than its declared count (main.rs:108-111).      *)
THEOREM InfoTells == Spec => []InfoPredictsRows
BY Always, InfoHolds, PTL

(* A plan has all its samples, but in an interwoven DS2000 capture.        *)
LEMMA DecodesIn ==
    ASSUME NEW w, Held(w), w.fam # "Ds2000", NEW ch \in Nat, NEW s \in Args, NEW l \in Args,
           Prepare(w, ch, Absent, Absent).tag = "plan"
    PROVE  ChannelData(w, ch, s, l).tag = "ok"
<1> DEFINE r == Prepare(w, ch, Absent, Absent)
           p == r.plan
           cut == ApplySlice(p.n, s, l)
           v == [i \in 0 .. cut.len - 1 |-> ReadSample(p, cut.start + i)]
<1>1. Answered(w, ch, s, l)
  BY Answers
<1> HIDE DEF v
<1>2. /\ Sound(w, p) /\ cut.start \in Nat /\ cut.len \in Nat /\ cut.start + cut.len <= p.n
      /\ ChannelData(w, ch, s, l) = IF \A i \in 0 .. cut.len - 1 : InBounds(p, cut.start + i)
                                    THEN Ok(v) ELSE Panic("index out of bounds")
  BY <1>1 DEF Answered, v
<1>3. p.n \in Nat /\ \A i \in 0 .. p.n - 1 : InBounds(p, i)
  BY <1>2 DEF Sound, OddOneOut
<1> HIDE DEF cut, r
<1>4. \A i \in 0 .. cut.len - 1 : cut.start + i \in 0 .. p.n - 1
  BY <1>2, <1>3, Within
<1>5. ChannelData(w, ch, s, l) = Ok(v)
  BY <1>2, <1>3, <1>4
<1> QED
  BY <1>5 DEF Ok

(* THEOREM: what a DHO, Siglent, LeCroy or Keysight parser checks when it  *)
(* opens a file is enough for every channel it lists to be decoded later,  *)
(* whatever the slice; of R&S, where leading and record together fit.      *)
LEMMA ChecksHold == HandleInv => OpenChecksSuffice
<1> SUFFICES ASSUME HandleInv, IsOpen, CheckedAtOpen(W), NEW ch \in Enabled(W),
                    NEW s \in Starts, NEW l \in Lengths
             PROVE  ChannelData(W, ch, s, l).tag = "ok"
  BY DEF OpenChecksSuffice
<1> DEFINE h == W.h
           r == Prepare(W, ch, Absent, Absent)
<1>1. Held(W)
  BY OpenIsHeld
<1>2. ch \in OnChannels(W) /\ ch \in Nat /\ s \in Args /\ l \in Args
  BY <1>1, EnabledIs, ArgumentsAre
<1>3. W.size \in Nat
  <2>1. W.size \in Usizes
    BY <1>1 DEF Held
  <2> QED
    BY <2>1, Widths
<1>4. CASE W.fam = "Dho"
  <2> DEFINE total == h.n * h.nch * 2
             plan == Strided(Buffer(h.data, total), ApplySlice(h.n, Absent, Absent), "U16Le",
                             h.nch, ch, 1, Cal(h.cals[ch], FALSE))
             over == h.data + total > W.size
  <2>1. ch \in Channels /\ h.cals[ch] # NoEntry
    BY <1>2, <1>4 DEF OnChannels
  <2>2. ~over
    <3>1. h.data + total <= W.size /\ h.data \in Nat /\ h.n \in Usizes /\ h.nch \in 1 .. 4
      BY <1>1, <1>4 DEF Held, HeldDho
    <3>2. h.n \in Nat /\ h.nch \in Nat
      <4>1. 1 .. 4 \subseteq Nat
        OBVIOUS
      <4> HIDE DEF h
      <4> QED
        BY <3>1, <4>1, Widths, Zenon
    <3>3. \A x, y \in Nat : x * y * 2 \in Nat
      OBVIOUS
    <3>4. total \in Nat
      BY <3>2, <3>3
    <3> HIDE DEF total
    <3> QED
      BY <1>3, <3>1, <3>4
  <2>3. ~(ch > 3)
    BY <2>1 DEF Channels
  <2>4. r = IF ch > 3 THEN NoChannel ELSE IF h.cals[ch] = NoEntry THEN NotEnabled
            ELSE IF over THEN Overrun ELSE plan
    BY <1>4 DEF Prepare, PrepareDho
  <2>5. plan.tag = "plan"
    BY DEF Strided
  <2> HIDE DEF over, plan, r
  <2>6. r.tag = "plan"
    BY <2>1, <2>2, <2>3, <2>4, <2>5, Zenon
  <2> QED
    BY <1>1, <1>2, <1>4, <2>6, DecodesIn DEF r
<1>5. CASE W.fam = "Siglent"
  <2> DEFINE c == FindChannel(h.chans, ch + 1)
             plan == Packed(Buffer(c.off, h.wlen), ApplySlice(h.wlen, Absent, Absent), "U8",
                            Cal(ch, FALSE))
             none == Entries(h.chans, ch + 1) = {}
             over == c.off + h.wlen > W.size
  <2>1. ~none /\ HeldSiglent(W)
    BY <1>1, <1>2, <1>5 DEF OnChannels, Held
  <2>2. Len(h.chans) \in Nat
    BY <2>1 DEF HeldSiglent
  <2>3. PICK k \in 1 .. Len(h.chans) : h.chans[k].channel = ch + 1 /\ c = h.chans[k]
    BY <2>1, <2>2, Found
  <2> HIDE DEF c, none
  <2>4. ch + 1 \in 1 .. 4 /\ c.off \in Nat /\ c.off + h.wlen <= W.size /\ h.wlen \in Usizes
    BY <2>1, <2>3 DEF HeldSiglent
  <2>5. h.wlen \in Nat
    BY <2>4, Widths
  <2>6. ~over /\ ~(ch > 3)
    BY <1>2, <1>3, <2>4, <2>5
  <2>7. r = IF ch > 3 THEN NoChannel ELSE IF none THEN NotEnabled
            ELSE IF over THEN Overrun ELSE plan
    BY <1>5 DEF Prepare, PrepareSiglent, c, none
  <2>8. plan.tag = "plan"
    BY DEF Packed, Strided
  <2> HIDE DEF over, plan, r
  <2>9. r.tag = "plan"
    BY <2>1, <2>6, <2>7, <2>8, Zenon
  <2> QED
    BY <1>1, <1>2, <1>5, <2>9, DecodesIn DEF r
<1>6. CASE W.fam = "Lecroy"
  <2> DEFINE ty == IF h.width = 1 THEN "I8" ELSE IF h.le THEN "I16Le" ELSE "I16Be"
             plan == Packed(Buffer(h.off, h.len), ApplySlice(h.pts, Absent, Absent), ty,
                            Cal(NoEntry, FALSE))
             none == ch + 1 # h.channel
             over == h.off + h.len > W.size
  <2>1. HeldLecroy(W) /\ ch = h.channel - 1
    BY <1>1, <1>2, <1>6 DEF Held, OnChannels
  <2>2. ~none /\ ~over
    BY <1>3, <2>1 DEF HeldLecroy
  <2>3. r = IF none THEN NoChannel ELSE IF over THEN Overrun ELSE plan
    BY <1>6 DEF Prepare, PrepareLecroy
  <2>4. plan.tag = "plan"
    BY DEF Packed, Strided
  <2> HIDE DEF none, over, plan, r
  <2>5. r.tag = "plan"
    BY <2>2, <2>3, <2>4, Zenon
  <2> QED
    BY <1>1, <1>2, <1>6, <2>5, DecodesIn DEF r
<1>7. CASE W.fam = "Keysight"
  <2> DEFINE wf == h.wfs[ch + 1]
             ty == IF wf.kind = "float" THEN "F32Le" ELSE "U8"
             total == Smaller(wf.pts, wf.len \div wf.bpp)
             plan == Packed(Buffer(wf.off, wf.len), ApplySlice(total, Absent, Absent), ty,
                            Cal(NoEntry, FALSE))
             none == ch >= Len(h.wfs)
             over == wf.off + wf.len > W.size
             other == <<wf.kind, wf.bpp>> \notin {<<"float", 4>>, <<"logic", 1>>}
  <2>1. Len(h.wfs) \in Nat /\ ch \in 0 .. Len(h.wfs) - 1
    BY <1>1, <1>2, <1>7 DEF Held, HeldKeysight, OnChannels
  <2>2. ch + 1 \in 1 .. Len(h.wfs) /\ ~none
    BY <2>1
  <2>3. wf.off \in Nat /\ wf.len \in Nat /\ wf.off + wf.len <= W.size /\ ~other
    BY <1>1, <1>7, <2>2 DEF Held, HeldKeysight
  <2>4. ~over
    BY <1>3, <2>3
  <2>5. r = IF none THEN NoChannel ELSE IF over THEN Overrun
            ELSE IF other THEN Err("buffer not supported") ELSE plan
    BY <1>7 DEF Prepare, PrepareKeysight
  <2>6. plan.tag = "plan"
    BY DEF Packed, Strided
  <2> HIDE DEF none, over, other, plan, r
  <2>7. r.tag = "plan"
    BY <2>2, <2>3, <2>4, <2>5, <2>6, Zenon
  <2> QED
    BY <1>1, <1>2, <1>7, <2>7, DecodesIn DEF r
<1>8. CASE W.fam = "RohdeSchwarz"
  <2> DEFINE c == FindChannel(h.chans, ch + 1)
             data == 8 + h.lead * h.stride
             rows == h.rec * h.stride
             plan == Strided(Buffer(data, rows), ApplySlice(h.rec, Absent, Absent),
                             RsType[h.fmt], h.stride, h.prefix + c.slot * h.bps, h.bps,
                             Cal(c.slot, FALSE))
             none == Entries(h.chans, ch + 1) = {}
             over == data + rows > W.size
  <2>1. ~none /\ HeldRs(W) /\ 8 + (h.lead + h.rec) * h.stride <= W.size
    BY <1>1, <1>2, <1>8 DEF OnChannels, Held, CheckedAtOpen
  <2>2. h.lead \in Nat /\ h.rec \in Nat
    BY <2>1, Widths DEF HeldRs
  <2>3. h.stride \in Nat
    <3>1. Len(h.chans) \in Nat \ {0}
      BY <2>1 DEF HeldRs
    <3>2. 1 \in 1 .. Len(h.chans)
      BY <3>1
    <3>3. PICK k \in Nat, a \in Nat : h.stride = k * h.bps
      BY <2>1, <3>2, RsRow
    <3>4. h.bps \in {1, 2, 4}
      BY <2>1, <3>2, RsRow
    <3> QED
      BY <3>3, <3>4
  <2>4. ~over
    <3>1. \A a, b, c0 \in Nat : (a + b) * c0 = a * c0 + b * c0 /\ a * c0 \in Nat /\ b * c0 \in Nat
      OBVIOUS
    <3> DEFINE x == h.lead * h.stride
               y == h.rec * h.stride
    <3>2. (h.lead + h.rec) * h.stride = x + y /\ x \in Nat /\ y \in Nat
      BY <2>2, <2>3, <3>1
    <3> HIDE DEF x, y
    <3>3. 8 + (x + y) <= W.size
      BY <2>1, <3>2
    <3>4. ~((8 + x) + y > W.size)
      BY <1>3, <3>2, <3>3
    <3> QED
      BY <3>4 DEF x, y
  <2>5. r = IF none THEN NotEnabled ELSE IF over THEN Overrun ELSE plan
    BY <1>8 DEF Prepare, PrepareRs
  <2>6. plan.tag = "plan"
    BY DEF Strided
  <2> HIDE DEF none, over, plan, r
  <2>7. r.tag = "plan"
    BY <2>1, <2>4, <2>5, <2>6, Zenon
  <2> QED
    BY <1>1, <1>2, <1>8, <2>7, DecodesIn DEF r
<1> QED
  BY <1>4, <1>5, <1>6, <1>7, <1>8 DEF CheckedAtOpen

(* What open has checked of a DHO, Siglent, LeCroy, Keysight or R&S        *)
(* capture lets every listed channel decode, for any slice; of R&S only    *)
(* if leading and record length together fit too (parser.rs:86-330).       *)
THEOREM ChecksSuffice == Spec => []OpenChecksSuffice
BY Always, ChecksHold, PTL

-----------------------------------------------------------------------------
(* get_all_channels, channel by channel.                                   *)
LEMMA Slots ==
    ASSUME NEW w, Held(w)
    PROVE  LET slots == SlotChannels(w) IN
           /\ Len(slots) \in Nat /\ slots \in [1 .. Len(slots) -> Nat]
           /\ \A c \in OnChannels(w) : \E k \in 1 .. Len(slots) : slots[k] = c
           /\ ZeroWidth(w) => \A k \in 1 .. Len(slots) : slots[k] \in OnChannels(w)
<1> DEFINE slots == SlotChannels(w)
<1>1. CASE w.fam \in {"Ds1000z", "Ds2000", "Ds4000", "Dho", "Siglent"}
  <2>1. slots = <<0, 1, 2, 3>>
    BY <1>1 DEF SlotChannels
  <2>2. ASSUME NEW c \in OnChannels(w)
        PROVE  c \in {0, 1, 2, 3}
    <3>1. CASE w.fam \in {"Ds2000", "Dho"}
      BY <2>2, <3>1 DEF OnChannels, Channels
    <3>2. CASE w.fam = "Ds1000z"
      <4>1. c \in Channels
        BY <2>2, <3>2, HeldAsStored DEF FileShape, AsStored, OnChannels
      <4> QED
        BY <4>1 DEF Channels
    <3>3. CASE w.fam = "Ds4000"
      <4>1. c \in Channels
        BY <2>2, <3>3, HeldAsStored DEF FileShape, AsStored, OnChannels
      <4> QED
        BY <4>1 DEF Channels
    <3>4. CASE w.fam = "Siglent"
      <4>1. c \in Nat /\ Entries(w.h.chans, c + 1) # {} /\ HeldSiglent(w)
        BY <2>2, <3>4 DEF OnChannels, Held
      <4>2. PICK k \in 1 .. Len(w.h.chans) : w.h.chans[k].channel = c + 1
        BY <4>1 DEF Entries
      <4>3. c + 1 \in 1 .. 4
        BY <4>1, <4>2 DEF HeldSiglent
      <4> QED
        BY <4>1, <4>3
    <3> QED
      BY <1>1, <3>1, <3>2, <3>3, <3>4
  <2>3. \A c \in {0, 1, 2, 3} : c + 1 \in 1 .. 4 /\ <<0, 1, 2, 3>>[c + 1] = c
    OBVIOUS
  <2>4. ~ZeroWidth(w)
    BY <1>1 DEF ZeroWidth
  <2>5. Len(<<0, 1, 2, 3>>) = 4 /\ <<0, 1, 2, 3>> \in [1 .. 4 -> Nat] /\ 4 \in Nat
    OBVIOUS
  <2> HIDE DEF slots
  <2> QED
    BY <2>1, <2>2, <2>3, <2>4, <2>5 DEF slots
<1>2. CASE w.fam = "Ds1000e"
  <2>1. slots = <<0, 1>>
    BY <1>2 DEF SlotChannels
  <2>2. OnChannels(w) \subseteq {0, 1}
    BY <1>2 DEF OnChannels
  <2>3. \A c \in {0, 1} : c + 1 \in 1 .. 2 /\ <<0, 1>>[c + 1] = c
    OBVIOUS
  <2>4. ~ZeroWidth(w)
    BY <1>2 DEF ZeroWidth
  <2>5. Len(<<0, 1>>) = 2 /\ <<0, 1>> \in [1 .. 2 -> Nat] /\ 2 \in Nat
    OBVIOUS
  <2> HIDE DEF slots
  <2> QED
    BY <2>1, <2>2, <2>3, <2>4, <2>5 DEF slots
<1>3. CASE w.fam \in {"Tektronix", "Isf", "Keysight", "Lecroy", "RohdeSchwarz"}
  <2>1. slots = EnabledChannels(w)
    <3>1. CASE w.fam \in {"Tektronix", "Isf"}
      BY <3>1 DEF SlotChannels, EnabledChannels
    <3>2. CASE w.fam \in {"Keysight", "Lecroy", "RohdeSchwarz"}
      BY <3>2 DEF SlotChannels
    <3> QED
      BY <1>3, <3>1, <3>2
  <2>2. Lists(slots, OnChannels(w))
    BY <2>1, Listing
  <2> HIDE DEF slots
  <2> QED
    BY <2>2 DEF Lists, slots
<1> QED
  BY <1>1, <1>2, <1>3 DEF Held, AllFamilies, AsStored

(* The slots are a sequence of channel numbers, and a plan asks for a      *)
(* number of samples.                                                      *)
LEMMA SlotsAreNumbers == ASSUME NEW w, Held(w) PROVE SlotChannels(w) \in Seq(Nat)
BY Slots

LEMMA PlansAreNumbers ==
    ASSUME NEW w, Held(w), NEW ch \in Nat, NEW s \in Args, NEW l \in Args,
           Prepare(w, ch, s, l).tag = "plan"
    PROVE  Prepare(w, ch, s, l).plan.n \in Nat
<1> DEFINE whole == Prepare(w, ch, Absent, Absent)
           part == Prepare(w, ch, s, l)
           cut == ApplySlice(whole.plan.n, s, l)
<1>1. part = Sliced(whole, s, l) /\ (whole.tag = "plan" => Sound(w, whole.plan))
  BY PreparedAny DEF Prepared
<1>2. whole.tag = "plan"
  BY <1>1 DEF Sliced
<1>3. whole.plan.n \in Nat
  BY <1>1, <1>2 DEF Sound
<1>4. cut.len \in Nat
  BY <1>3, SliceInside
<1>5. part.plan = Windowed(whole.plan, cut)
  BY <1>1, <1>2 DEF Sliced
<1> QED
  BY <1>4, <1>5 DEF Windowed

(* A channel that is not listed neither decodes nor panics.                *)
LEMMA Unlisted ==
    ASSUME NEW w, Held(w), Consistent(w), NEW s \in Args, NEW l \in Args,
           NEW k \in 1 .. Len(SlotChannels(w)), SlotChannels(w)[k] \notin OnChannels(w)
    PROVE  ChannelData(w, SlotChannels(w)[k], s, l).tag = "err"
<1> DEFINE c == SlotChannels(w)[k]
           r == Prepare(w, c, Absent, Absent)
<1>1. c \in Nat /\ ~ZeroWidth(w)
  BY Slots
<1> HIDE DEF c
<1>2. Answered(w, c, s, l) /\ PlanOf(w, c, r)
  BY <1>1, Answers, PlanIs
<1>3. c \notin Decodable(w)
  BY DecodableIs DEF c
<1>4. r.tag # "plan"
  BY <1>2, <1>3, NoPlanIs DEF PlanOf
<1> QED
  BY <1>1, <1>2, <1>4 DEF Answered, c

LEMMA SomeIs == None.tag = "none" /\ \A v : Some(v).tag = "some" /\ Some(v) # None /\ Some(v).val = v
<1>1. None.tag = "none" /\ \A v : Some(v).tag = "some" /\ Some(v).val = v
  BY DEF None, Some
<1>2. "none" # "some"
  OBVIOUS
<1> QED
  BY <1>1, <1>2

(* The answer of get_all_channels, when no channel panics.                 *)
LEMMA AllChannelsAre ==
    ASSUME NEW w, NEW s, NEW l,
           LET slots == SlotChannels(w) IN
           \/ AllChannels(w, s, l).tag = "ok"
           \/ \A k \in 1 .. Len(slots) : ChannelData(w, slots[k], s, l).tag # "panic"
    PROVE  LET slots == SlotChannels(w)
               all == AllChannels(w, s, l)
           IN  /\ all.tag = "ok" /\ DOMAIN all.val = 1 .. Len(slots)
               /\ \A k \in 1 .. Len(slots) :
                    all.val[k] = IF ChannelData(w, slots[k], s, l).tag = "ok"
                                 THEN Some(ChannelData(w, slots[k], s, l).val) ELSE None
<1> DEFINE slots == SlotChannels(w)
           all == AllChannels(w, s, l)
           r == [k \in 1 .. Len(slots) |-> ChannelData(w, slots[k], s, l)]
           bad == \E k \in 1 .. Len(slots) : r[k].tag = "panic"
           val == [k \in 1 .. Len(slots) |-> IF r[k].tag = "ok" THEN Some(r[k].val) ELSE None]
<1>1. all = IF bad THEN Panic("a slot panicked") ELSE Ok(val)
  BY DEF AllChannels
<1>2. Panic("a slot panicked").tag # "ok" /\ Ok(val).val = val /\ Ok(val).tag = "ok"
  BY DEF Panic, Ok
<1>3. ~bad \/ all.tag = "ok"
  OBVIOUS
<1> HIDE DEF val, bad
<1>4. all = Ok(val)
  BY <1>1, <1>2, <1>3, Zenon
<1> HIDE DEF slots
<1>5. DOMAIN val = 1 .. Len(slots) /\ \A k \in 1 .. Len(slots) :
         val[k] = IF ChannelData(w, slots[k], s, l).tag = "ok"
                  THEN Some(ChannelData(w, slots[k], s, l).val) ELSE None
  BY DEF val
<1> HIDE DEF all
<1> QED
  BY <1>2, <1>4, <1>5 DEF all, slots

LEMMA Metadata ==
    ASSUME NEW w, Held(w), NEW ch \in Channels
    PROVE  IF w.fam # "Keysight" /\ ch \in OnChannels(w)
           THEN ChannelMetadata(w, ch) = Some(CalOf(w, ch))
           ELSE ChannelMetadata(w, ch) = None
<1> DEFINE m == ChannelMetadata(w, ch)
           on == ch \in OnChannels(w)
<1>0. ch \in Nat /\ ch \in 0 .. 3
  BY DEF Channels
<1>1. CASE w.fam = "Ds1000z"
  <2>1. m = IF ch \in w.h.flags THEN Some(CalOf(w, ch)) ELSE None
    BY <1>1 DEF ChannelMetadata, CalOf
  <2>2. on <=> ch \in w.h.flags
    BY <1>1 DEF OnChannels
  <2> HIDE DEF m, on
  <2> QED
    BY <1>1, <2>1, <2>2 DEF m, on
<1>2. CASE w.fam = "Ds1000e"
  <2>1. m = IF ch > 1 THEN None ELSE IF w.h.on[ch] THEN Some(CalOf(w, ch)) ELSE None
    BY <1>2 DEF ChannelMetadata, CalOf
  <2>2. on <=> ~(ch > 1) /\ w.h.on[ch]
    BY <1>0, <1>2 DEF OnChannels
  <2> HIDE DEF m, on
  <2> QED
    BY <1>2, <2>1, <2>2, Zenon DEF m, on
<1>3. CASE w.fam = "Ds2000"
  <2>1. m = IF w.h.on[ch] THEN Some(CalOf(w, ch)) ELSE None
    BY <1>3 DEF ChannelMetadata, CalOf
  <2>2. on <=> w.h.on[ch]
    BY <1>3 DEF OnChannels
  <2> HIDE DEF m, on
  <2> QED
    BY <1>3, <2>1, <2>2, Zenon DEF m, on
<1>4. CASE w.fam = "Ds4000"
  <2>1. m = IF ch \in w.h.on THEN Some(CalOf(w, ch)) ELSE None
    BY <1>4 DEF ChannelMetadata, CalOf
  <2>2. on <=> ch \in w.h.on
    BY <1>4 DEF OnChannels
  <2> HIDE DEF m, on
  <2> QED
    BY <1>4, <2>1, <2>2, Zenon DEF m, on
<1>5. CASE w.fam \in {"Tektronix", "Isf"}
  <2>1. m = IF ch = 0 THEN Some(CalOf(w, ch)) ELSE None
    BY <1>5 DEF ChannelMetadata, CalOf
  <2>2. (on <=> ch = 0) /\ w.fam # "Keysight"
    BY <1>5 DEF OnChannels
  <2> HIDE DEF m, on
  <2> QED
    BY <2>1, <2>2, Zenon DEF m, on
<1>6. CASE w.fam = "Dho"
  <2>1. m = IF w.h.cals[ch] = NoEntry THEN None ELSE Some(CalOf(w, ch))
    BY <1>6 DEF ChannelMetadata, CalOf
  <2>2. (on <=> w.h.cals[ch] # NoEntry) /\ w.fam # "Keysight"
    BY <1>6 DEF OnChannels
  <2> HIDE DEF m, on
  <2> QED
    BY <2>1, <2>2, Zenon DEF m, on
<1>7. CASE w.fam = "Keysight"
  BY <1>7 DEF ChannelMetadata
<1>8. CASE w.fam = "Siglent"
  <2> DEFINE none == Entries(w.h.chans, ch + 1) = {}
  <2>1. m = IF none THEN None ELSE Some(CalOf(w, ch))
    BY <1>8 DEF ChannelMetadata, CalOf
  <2>2. (on <=> ~none) /\ w.fam # "Keysight"
    BY <1>0, <1>8 DEF OnChannels
  <2> HIDE DEF m, on, none
  <2> QED
    BY <2>1, <2>2, Zenon DEF m, on
<1>9. CASE w.fam = "Lecroy"
  <2>1. m = IF w.h.channel = ch + 1 THEN Some(CalOf(w, ch)) ELSE None
    BY <1>9 DEF ChannelMetadata, CalOf
  <2>2. w.h.channel \in 1 .. 4
    BY <1>9 DEF Held, HeldLecroy
  <2>3. (on <=> w.h.channel = ch + 1) /\ w.fam # "Keysight"
    BY <1>0, <1>9, <2>2 DEF OnChannels
  <2> HIDE DEF m, on
  <2> QED
    BY <2>1, <2>3, Zenon DEF m, on
<1>10. CASE w.fam = "RohdeSchwarz"
  <2> DEFINE none == Entries(w.h.chans, ch + 1) = {}
  <2>1. m = IF none THEN None ELSE Some(CalOf(w, ch))
    BY <1>10 DEF ChannelMetadata, CalOf
  <2>2. (on <=> ~none) /\ w.fam # "Keysight"
    BY <1>0, <1>10 DEF OnChannels
  <2> HIDE DEF m, on, none
  <2> QED
    BY <2>1, <2>2, Zenon DEF m, on
<1> QED
  BY <1>1, <1>2, <1>3, <1>4, <1>5, <1>6, <1>7, <1>8, <1>9, <1>10 DEF Held, AllFamilies, AsStored

(* THEOREM: enabled_channels, get_all_channels, channel_metadata and the   *)
(* decode of an open handle agree on which channels there are, and on the  *)
(* calibration and sign of each; for DS1000Z where the two fields of the   *)
(* header they go by agree (mmap.rs:364-489, parser.rs extract_all).       *)
LEMMA AgreementHolds == HandleInv => AnswersAgree
<1> SUFFICES ASSUME HandleInv, IsOpen, Consistent(W)
             PROVE  LET all == AllChannels(W, Absent, Absent)
                    IN  /\ all.tag = "ok" =>
                             {SlotChannels(W)[k] : k \in {j \in DOMAIN all.val : all.val[j].tag = "some"}}
                                = {c \in Enabled(W) : Whole(W, c).tag = "ok"}
                        /\ \A c \in Channels : LET m == ChannelMetadata(W, c) IN
                             /\ W.fam # "Keysight" => (m.tag = "some" <=> c \in Enabled(W))
                             /\ m.tag = "some" /\ Whole(W, c).tag = "ok" =>
                                  \A i \in DOMAIN Whole(W, c).val : Whole(W, c).val[i].cal = m.val
  BY DEF AnswersAgree
<1> DEFINE all == AllChannels(W, Absent, Absent)
           slots == SlotChannels(W)
           some == {j \in DOMAIN all.val : all.val[j].tag = "some"}
<1>1. Held(W) /\ Absent \in Args
  BY OpenIsHeld, ArgumentsAre
<1>2. Enabled(W) = OnChannels(W) /\ Decodable(W) = OnChannels(W)
  BY <1>1, EnabledIs, DecodableIs
<1>3. ASSUME NEW c \in Nat, Whole(W, c).tag = "ok"
      PROVE  c \in OnChannels(W)
  BY <1>1, <1>2, <1>3, Decoded DEF Whole
<1>4. ASSUME all.tag = "ok"
      PROVE  {slots[k] : k \in some} = {c \in Enabled(W) : Whole(W, c).tag = "ok"}
  <2>1. /\ DOMAIN all.val = 1 .. Len(slots)
        /\ \A k \in 1 .. Len(slots) :
             all.val[k] = IF Whole(W, slots[k]).tag = "ok" THEN Some(Whole(W, slots[k]).val) ELSE None
    BY <1>4, AllChannelsAre DEF Whole
  <2> HIDE DEF all
  <2>2. some = {k \in 1 .. Len(slots) : Whole(W, slots[k]).tag = "ok"}
    BY <2>1, SomeIs
  <2>3. /\ slots \in [1 .. Len(slots) -> Nat]
        /\ \A c \in OnChannels(W) : \E k \in 1 .. Len(slots) : slots[k] = c
    BY <1>1, Slots
  <2> HIDE DEF some, slots
  <2> QED
    BY <1>2, <1>3, <2>2, <2>3
<1>5. ASSUME NEW c \in Channels
      PROVE  LET m == ChannelMetadata(W, c) IN
             /\ W.fam # "Keysight" => (m.tag = "some" <=> c \in Enabled(W))
             /\ m.tag = "some" /\ Whole(W, c).tag = "ok" =>
                  \A i \in DOMAIN Whole(W, c).val : Whole(W, c).val[i].cal = m.val
  <2> DEFINE m == ChannelMetadata(W, c)
  <2>1. IF W.fam # "Keysight" /\ c \in OnChannels(W) THEN m = Some(CalOf(W, c)) ELSE m = None
    BY <1>1, Metadata
  <2>2. c \in Nat
    BY DEF Channels
  <2>3. ASSUME Whole(W, c).tag = "ok"
        PROVE  \A i \in DOMAIN Whole(W, c).val : Whole(W, c).val[i].cal = CalOf(W, c)
    BY <1>1, <2>2, <2>3, Decoded DEF Whole
  <2> HIDE DEF m
  <2>4. W.fam # "Keysight" => (m.tag = "some" <=> c \in Enabled(W))
    BY <1>2, <2>1, SomeIs
  <2>5. m.tag = "some" => m.val = CalOf(W, c)
    BY <2>1, SomeIs
  <2> QED
    BY <2>3, <2>4, <2>5 DEF m
<1> QED
  BY <1>4, <1>5

(* Enabled list, slots, metadata and calibration of a handle are computed  *)
(* separately, from different fields, and agree unless a DS1000Z header    *)
(* contradicts itself about what is on (mmap.rs:364-726).                  *)
THEOREM Agreement == Spec => []AnswersAgree
BY Always, AgreementHolds, PTL

(* The positions of the listed channels in get_all_channels, in order.     *)
LEMMA Positions ==
    ASSUME NEW w, Held(w)
    PROVE  LET on == EnabledChannels(w)
               slots == SlotChannels(w)
           IN  \E f \in [1 .. Len(on) -> 1 .. Len(slots)] :
                  /\ \A k \in 1 .. Len(on) : slots[f[k]] = on[k]
                  /\ \A j, k \in 1 .. Len(on) : j < k => f[j] < f[k]
                  /\ \A p \in 1 .. Len(slots) : slots[p] \in OnChannels(w) =>
                       \E k \in 1 .. Len(on) : f[k] = p
<1> DEFINE on == EnabledChannels(w)
           slots == SlotChannels(w)
           S == OnChannels(w)
<1>1. Lists(on, S) /\ (w.fam # "RohdeSchwarz" => Ascending(on))
  BY Listing
<1>2. Len(slots) \in Nat /\ \A c \in S : \E k \in 1 .. Len(slots) : slots[k] = c
  BY Slots
<1>3. CASE w.fam \in {"Tektronix", "Isf", "Keysight", "Lecroy", "RohdeSchwarz"}
  <2>1. slots = on
    <3>1. CASE w.fam \in {"Tektronix", "Isf"}
      BY <3>1 DEF SlotChannels, EnabledChannels
    <3>2. CASE w.fam \in {"Keysight", "Lecroy", "RohdeSchwarz"}
      BY <3>2 DEF SlotChannels
    <3> QED
      BY <1>3, <3>1, <3>2
  <2> DEFINE N == Len(on)
             f == [k \in 1 .. N |-> k]
  <2>2. N \in Nat
    BY <1>1 DEF Lists
  <2> HIDE DEF on, slots, N
  <2>3. /\ f \in [1 .. N -> 1 .. N]
        /\ \A k \in 1 .. N : f[k] = k
    OBVIOUS
  <2> HIDE DEF f
  <2>4. /\ f \in [1 .. N -> 1 .. N]
        /\ \A k \in 1 .. N : on[f[k]] = on[k]
        /\ \A j, k \in 1 .. N : j < k => f[j] < f[k]
        /\ \A p \in 1 .. N : \E k \in 1 .. N : f[k] = p
    BY <2>3
  <2>5. \E g \in [1 .. N -> 1 .. N] :
           /\ \A k \in 1 .. N : on[g[k]] = on[k]
           /\ \A j, k \in 1 .. N : j < k => g[j] < g[k]
           /\ \A p \in 1 .. N : on[p] \in S => \E k \in 1 .. N : g[k] = p
    <3> HIDE DEF S
    <3> QED
      BY <2>4
  <2>6. on = EnabledChannels(w) /\ slots = SlotChannels(w) /\ N = Len(on) /\ S = OnChannels(w)
    BY DEF on, slots, N
  <2> HIDE DEF S
  <2> QED
    BY <2>1, <2>5, <2>6
<1>4. CASE w.fam \in {"Ds1000z", "Ds1000e", "Ds2000", "Ds4000", "Dho", "Siglent"}
  <2>1. \A p \in 1 .. Len(slots) : slots[p] = p - 1
    <3>1. \A p \in 1 .. 4 : <<0, 1, 2, 3>>[p] = p - 1
      OBVIOUS
    <3>2. \A p \in 1 .. 2 : <<0, 1>>[p] = p - 1
      OBVIOUS
    <3>3. Len(<<0, 1, 2, 3>>) = 4 /\ Len(<<0, 1>>) = 2
      OBVIOUS
    <3>4. slots = <<0, 1, 2, 3>> \/ slots = <<0, 1>>
      BY <1>4 DEF SlotChannels
    <3> HIDE DEF slots
    <3> QED
      BY <3>1, <3>2, <3>3, <3>4
  <2> DEFINE N == Len(on)
             M == Len(slots)
             f == [k \in 1 .. N |-> on[k] + 1]
  <2>2. Ascending(on) /\ N \in Nat /\ on \in [1 .. N -> S] /\ S \subseteq Nat
        /\ \A c \in S : \E k \in 1 .. N : on[k] = c
    BY <1>1, <1>4 DEF Lists
  <2> HIDE DEF on, slots, S
  <2>3. ASSUME NEW k \in 1 .. N
        PROVE  on[k] \in Nat /\ f[k] \in 1 .. M /\ slots[f[k]] = on[k]
    <3>1. on[k] \in S /\ on[k] \in Nat
      BY <2>2
    <3>2. PICK p \in 1 .. M : slots[p] = on[k]
      BY <1>2, <3>1
    <3>3. p = on[k] + 1
      BY <2>1, <3>1, <3>2
    <3> QED
      BY <3>1, <3>2, <3>3
  <2>4. \A j, k \in 1 .. N : j < k => f[j] < f[k]
    BY <2>2, <2>3 DEF Ascending
  <2>5. ASSUME NEW p \in 1 .. M, slots[p] \in S
        PROVE  \E k \in 1 .. N : f[k] = p
    <3>1. PICK k \in 1 .. N : on[k] = slots[p]
      BY <2>2, <2>5
    <3>2. slots[p] = p - 1
      BY <2>1
    <3> QED
      BY <3>1, <3>2
  <2>6. f \in [1 .. N -> 1 .. M]
    BY <2>3
  <2> HIDE DEF f
  <2> QED
    BY <2>3, <2>4, <2>5, <2>6 DEF on, slots, S
<1> QED
  BY <1>3, <1>4 DEF Held, AllFamilies, AsStored

(* A position after the first one is a position, and so is the first.      *)
LEMMA AfterFirst ==
    ASSUME NEW n, n \in Nat, NEW k, k \in 2 .. n
    PROVE  k \in 1 .. n /\ 1 \in 1 .. n
OBVIOUS

(* Positions are numbers.                                                  *)
LEMMA PositionsAre ==
    ASSUME NEW n, n \in Nat, NEW S, S \subseteq 1 .. n
    PROVE  S \in SUBSET Nat
OBVIOUS

(* A sequence given position by position has as many as it has positions.  *)
LEMMA LengthOf ==
    ASSUME NEW n, n \in Nat, NEW s, s = [k \in 1 .. n |-> s[k]]
    PROVE  Len(s) = n
OBVIOUS

(* An export of every channel has as its columns the channels that         *)
(* get_all_channels answers with, in the same order (main.rs:279-299,      *)
(* parser.rs extract_all_channels).                                        *)
LEMMA ColumnsOf ==
    ASSUME NEW w, Held(w), Consistent(w), NEW q \in Requests, q.channel = Absent,
           TableOf(w, q).tag = "ok"
    PROVE  LET t == TableOf(w, q).val
               all == AllChannels(w, q.start, q.length)
               some == InOrder({k \in DOMAIN all.val : all.val[k] # None})
           IN  /\ all.tag = "ok"
               /\ [k \in Columns(t) |-> Some(t.data[k])]
                     = [k \in DOMAIN some |-> all.val[some[k]]]
<1> DEFINE on == EnabledChannels(w)
           slots == SlotChannels(w)
           S == OnChannels(w)
           N == Len(on)
           M == Len(slots)
           t == TableOf(w, q).val
           s == q.start
           l == q.length
           all == AllChannels(w, s, l)
           data == DataOf(w, on, q)
           P == {k \in DOMAIN all.val : all.val[k] # None}
<1>1. s \in Args /\ l \in Args
  BY ArgumentsAre DEF Requests
<1>2. Requested(w, q) = on
  BY DEF Requested
<1>3. TableIs(w, q, on, data, t)
  BY <1>2, TableOfMade
<1>4. Lists(on, S) /\ M \in Nat /\ slots \in [1 .. M -> Nat]
  BY Listing, Slots
<1> HIDE DEF on, slots, t, all, S
<1>5. \A k \in 1 .. N : data[k] = ChannelData(w, on[k], s, l) /\ data[k].tag = "ok"
  BY <1>3 DEF TableIs, DataOf
<1>6. ASSUME NEW k \in 1 .. M
      PROVE  ChannelData(w, slots[k], s, l).tag = IF slots[k] \in S THEN "ok" ELSE "err"
  <2>1. CASE slots[k] \in S
    <3>1. PICK j \in 1 .. N : on[j] = slots[k]
      BY <1>4, <2>1 DEF Lists
    <3> QED
      BY <1>5, <2>1, <3>1
  <2>2. CASE slots[k] \notin S
    BY <1>1, <2>2, Unlisted DEF slots, S
  <2> QED
    BY <2>1, <2>2
<1>7. /\ all.tag = "ok" /\ DOMAIN all.val = 1 .. M
      /\ \A k \in 1 .. M : all.val[k] = IF ChannelData(w, slots[k], s, l).tag = "ok"
                                        THEN Some(ChannelData(w, slots[k], s, l).val) ELSE None
  <2>1. \A k \in 1 .. M : ChannelData(w, slots[k], s, l).tag # "panic"
    BY <1>6
  <2> QED
    BY <2>1, AllChannelsAre DEF slots, all
<1>8. P = {k \in 1 .. M : slots[k] \in S}
  <2>1. \A k \in 1 .. M : all.val[k] # None <=> slots[k] \in S
    BY <1>6, <1>7, SomeIs
  <2> QED
    BY <1>7, <2>1
<1>9. PICK f \in [1 .. N -> 1 .. M] :
         /\ \A k \in 1 .. N : slots[f[k]] = on[k]
         /\ \A j, k \in 1 .. N : j < k => f[j] < f[k]
         /\ \A p \in 1 .. M : slots[p] \in S => \E k \in 1 .. N : f[k] = p
  BY Positions DEF on, slots, S
<1> HIDE DEF P
<1>10. InOrder(P) = f
  <2>1. N \in Nat /\ \A k \in 1 .. N : on[k] \in S
    BY <1>4 DEF Lists
  <2>2. f \in [1 .. N -> P]
    BY <1>8, <1>9, <2>1
  <2>3. P \in SUBSET Nat
    BY <1>4, <1>8
  <2>4. \A p \in P : \E k \in 1 .. N : f[k] = p
    BY <1>8, <1>9
  <2> HIDE DEF N
  <2> QED
    BY <1>9, <2>1, <2>2, <2>3, <2>4, InOrderIs
<1>11. Columns(t) = 1 .. N /\ \A k \in 1 .. N : t.data[k] = data[k].val
  BY <1>3 DEF TableIs, Columns
<1>12. \A k \in 1 .. N : all.val[f[k]] = Some(t.data[k])
  <2> SUFFICES ASSUME NEW k \in 1 .. N
               PROVE  all.val[f[k]] = Some(t.data[k])
    OBVIOUS
  <2>1. f[k] \in 1 .. M /\ slots[f[k]] = on[k]
    BY <1>9
  <2>2. ChannelData(w, slots[f[k]], s, l) = data[k] /\ data[k].tag = "ok"
    BY <1>5, <2>1
  <2> HIDE DEF data
  <2> QED
    BY <1>7, <1>11, <2>1, <2>2
<1>13. DOMAIN f = 1 .. N
  OBVIOUS
<1>14. [k \in Columns(t) |-> Some(t.data[k])] = [k \in DOMAIN f |-> all.val[f[k]]]
  BY <1>11, <1>12, <1>13
<1> QED
  BY <1>7, <1>10, <1>14 DEF t, all, P

LEMMA SameLengths ==
    ASSUME NEW w, Held(w), NEW q \in Requests, q.channel = Absent,
           TableOf(w, q) = Err("lengths differ")
    PROVE  w.fam = "Keysight"
<1> SUFFICES ASSUME w.fam # "Keysight"
             PROVE  FALSE
  OBVIOUS
<1>2. Lists(EnabledChannels(w), OnChannels(w))
  BY Listing
<1>17. PICK N : N \in Nat /\ N = Len(EnabledChannels(w))
  BY <1>2 DEF Lists
<1> DEFINE on == EnabledChannels(w)
           data == DataOf(w, on, q)
           failed == {k \in 1 .. Len(on) : data[k].tag # "ok"}
           first == CHOOSE k \in failed : \A j \in failed : k <= j
           differ == Err("lengths differ")
<1>1. q.start \in Args /\ q.length \in Args
  BY ArgumentsAre DEF Requests
<1>21. Lists(on, OnChannels(w)) /\ N = Len(on)
  BY <1>2, <1>17
<1> HIDE DEF on
<1>18. data = [k \in 1 .. N |-> ChannelData(w, on[k], q.start, q.length)]
  BY <1>21 DEF DataOf
<1>19. \A k \in 1 .. N : on[k] \in Nat
  BY <1>21 DEF Lists, OnChannels, Channels
<1>20. Len(data) = N
  <2> HIDE DEF data
  <2>1. data = [k \in 1 .. N |-> data[k]]
    BY <1>18, Zenon
  <2> QED
    BY <1>17, <2>1, LengthOf
<1>3. N \in Nat /\ data = [k \in 1 .. N |-> ChannelData(w, on[k], q.start, q.length)]
      /\ \A k \in 1 .. N : on[k] \in Nat
  BY <1>17, <1>18, <1>19
<1>4. TableOf(w, q) = IF on = <<>> THEN Err("no enabled channels") ELSE TableFrom(w, q, on, data)
  BY DEF TableOf, Requested, on
<1>5. Err("no enabled channels") # differ /\ differ.tag = "err"
  <2>1. Err("no enabled channels").why = "no enabled channels" /\ differ.why = "lengths differ"
    BY DEF Err
  <2>2. "no enabled channels" # "lengths differ"
    OBVIOUS
  <2>3. differ.tag = "err"
    BY DEF Err
  <2> HIDE DEF differ
  <2> QED
    BY <2>1, <2>2, <2>3
<1> HIDE DEF data
<1>6. TableFrom(w, q, on, data) = differ
  <2> HIDE DEF differ
  <2> QED
    BY <1>4, <1>5, Zenon DEF differ
<1>7. ASSUME NEW k \in 1 .. N, data[k].tag # "ok"
      PROVE  data[k] # differ
  <2> DEFINE ch == on[k]
             r == Prepare(w, ch, Absent, Absent)
  <2>1. ch \in Nat /\ data[k] = ChannelData(w, ch, q.start, q.length)
    BY <1>3
  <2> HIDE DEF ch
  <2>2. Answered(w, ch, q.start, q.length) /\ PlanOf(w, ch, r)
    BY <1>1, <2>1, Answers, PlanIs
  <2>3. CASE r.tag = "err" /\ data[k] = r
    <3>1. r \in NoPlan
      BY <2>2, <2>3 DEF PlanOf
    <3> QED
      BY <2>3, <3>1, NoPlanIs DEF differ
  <2>4. CASE data[k].tag = "panic"
    BY <1>5, <2>4
  <2>5. CASE r.tag = "plan"
    <3>1. data[k].tag \in {"ok", "panic"}
      <4>1. \A v : Ok(v).tag = "ok" /\ Panic(v).tag = "panic"
        BY DEF Ok, Panic
      <4> QED
        BY <2>1, <2>2, <2>5, <4>1 DEF Answered
    <3> QED
      BY <1>5, <1>7, <3>1
  <2> QED
    BY <2>1, <2>2, <2>3, <2>4, <2>5 DEF Answered
<1>8. failed # {} => first \in failed
  <2> SUFFICES ASSUME failed # {}
               PROVE  first \in failed
    OBVIOUS
  <2>1. failed \in SUBSET Nat
    <3>1. failed \subseteq 1 .. N
      BY <1>21, Zenon
    <3> QED
      BY <1>17, <3>1, PositionsAre, ZenonT(60)
  <2> HIDE DEF failed
  <2>2. \E k \in failed : \A j \in failed : k <= j
    BY <2>1, Least
  <2> QED
    BY <2>2
<1>9. failed # {} => data[first] # differ
  BY <1>7, <1>8, <1>21
<1>10. \A v : Ok(v) # differ
  <2>1. \A v : Ok(v).tag = "ok"
    BY DEF Ok
  <2> QED
    BY <1>5, <2>1
<1>11. failed = {} /\ LengthsDiffer(data)
  <2> DEFINE rows == Rows(data[1].val)
             timed == q.time /\ HasTimeAxis(w)
             t == [chans |-> on, rows |-> rows,
                   data  |-> [k \in 1 .. Len(on) |-> data[k].val],
                   timed |-> timed, times |-> IF timed THEN Times(rows, q) ELSE <<>>]
  <2>1. TableFrom(w, q, on, data) =
           IF failed # {} THEN data[first] ELSE IF LengthsDiffer(data) THEN differ ELSE Ok(t)
    BY DEF TableFrom
  <2> HIDE DEF failed, first, differ, t
  <2> QED
    BY <1>6, <1>9, <1>10, <2>1, Zenon
<1>12. Len(data) = N
  BY <1>20
<1>13. PICK k : k \in 2 .. N /\ Rows(data[k].val) # Rows(data[1].val)
  BY <1>11, <1>12 DEF LengthsDiffer
<1>14. ASSUME NEW j \in 1 .. N
       PROVE  Rows(data[j].val) = ApplySlice(Total(w, on[j]), q.start, q.length).len
  <2>1. data[j].tag = "ok"
    BY <1>11, <1>21
  <2> QED
    BY <1>1, <1>3, <2>1, Decoded, ZenonT(60)
<1>15. Total(w, on[k]) = Total(w, on[1])
  BY DEF Total, Count, Held, AllFamilies, AsStored
<1>16. k \in 1 .. N /\ 1 \in 1 .. N
  BY <1>13, <1>17, AfterFirst, Zenon
<1> QED
  BY <1>13, <1>14, <1>15, <1>16

LEMMA ColumnsHold == HandleInv => ColumnsAreChannels
<1> SUFFICES ASSUME HandleInv, IsOpen, NEW q \in Requests, q.channel = Absent
             PROVE  SameColumns(TableOf(W, q), AllChannels(W, q.start, q.length))
  BY DEF ColumnsAreChannels
<1>1. Held(W)
  BY OpenIsHeld
<1>2. TableOf(W, q).tag = "ok" /\ Consistent(W) =>
        LET t == TableOf(W, q).val
            all == AllChannels(W, q.start, q.length)
            some == InOrder({k \in DOMAIN all.val : all.val[k] # None})
        IN  /\ all.tag = "ok"
            /\ [k \in Columns(t) |-> Some(t.data[k])] = [k \in DOMAIN some |-> all.val[some[k]]]
  BY <1>1, ColumnsOf
<1>3. TableOf(W, q) = Err("lengths differ") => W.fam = "Keysight"
  BY <1>1, SameLengths
<1> QED
  BY <1>2, <1>3 DEF SameColumns

(* The export and get_all_channels tell the same of any capture that does  *)
(* not contradict itself, and only a Keysight one is refused because its   *)
(* channels differ in length (main.rs:264-317).                            *)
THEOREM ColumnsAgree == Spec => []ColumnsAreChannels
BY Always, ColumnsHold, PTL

-----------------------------------------------------------------------------
(* Samples at even distances. Where they start, and that a step is no      *)
(* narrower than a sample, is all that the bytes they take depend on.      *)
Grid(v, n, ty, at, step) ==
    /\ n \in Nat /\ at \in Nat /\ step \in Nat
    /\ ty \in SampleTypes /\ BytesPerSample[ty] <= step
    /\ DOMAIN v = 0 .. n - 1
    /\ \A i \in 0 .. n - 1 : v[i].ty = ty /\ v[i].at = at + i * step

Pairs(v) == {p \in (DOMAIN v) \X (0 .. 3) : p[2] < BytesPerSample[v[p[1]].ty]}

LEMMA Later ==
    ASSUME NEW i \in Nat, NEW j \in Nat, i < j, NEW step \in Nat
    PROVE  i * step + step <= j * step /\ i * step \in Nat /\ j * step \in Nat
<1> DEFINE d == j - (i + 1)
<1>1. d \in Nat /\ j = d + (i + 1)
  OBVIOUS
<1> HIDE DEF d
<1>2. j * step = d * step + i * step + step
  BY <1>1
<1>3. d * step \in Nat /\ i * step \in Nat
  BY <1>1
<1> QED
  BY <1>2, <1>3

LEMMA GridBytes ==
    ASSUME NEW v, NEW n, NEW ty, NEW at, NEW step, Grid(v, n, ty, at, step)
    PROVE  /\ BytesOf(v) = UNION {at + i * step .. at + i * step + BytesPerSample[ty] - 1 :
                                     i \in 0 .. n - 1}
           /\ Pairs(v) = {p \in (0 .. n - 1) \X (0 .. 3) : p[2] < BytesPerSample[ty]}
           /\ \A x \in BytesOf(v) : \E i \in 0 .. n - 1, k \in 0 .. BytesPerSample[ty] - 1 :
                                        x = at + i * step + k
<1> DEFINE b == BytesPerSample[ty]
           bytes == UNION {at + i * step .. at + i * step + b - 1 : i \in 0 .. n - 1}
<1>1. n \in Nat /\ at \in Nat /\ step \in Nat /\ b \in Nat
  BY Width DEF Grid
<1>2. \A i \in 0 .. n - 1 : v[i].at .. v[i].at + BytesPerSample[v[i].ty] - 1
                               = at + i * step .. at + i * step + b - 1
  BY DEF Grid
<1>3. DOMAIN v = 0 .. n - 1
  BY DEF Grid
<1>4. BytesOf(v) = bytes
  BY <1>2, <1>3 DEF BytesOf
<1>5. Pairs(v) = {p \in (0 .. n - 1) \X (0 .. 3) : p[2] < b}
  BY DEF Pairs, Grid
<1>6. ASSUME NEW x \in bytes
      PROVE  \E i \in 0 .. n - 1, k \in 0 .. b - 1 : x = at + i * step + k
  <2> HIDE DEF b
  <2>1. PICK i \in 0 .. n - 1 : x \in at + i * step .. at + i * step + b - 1
    OBVIOUS
  <2> DEFINE y == at + i * step
  <2>2. y \in Nat
    BY <1>1
  <2>3. x \in y .. y + b - 1
    BY <2>1
  <2> HIDE DEF y
  <2>4. x - y \in 0 .. b - 1 /\ x = y + (x - y)
    BY <1>1, <2>2, <2>3
  <2> QED
    BY <2>4 DEF y
<1> QED
  BY <1>4, <1>5, <1>6

(* No byte is part of two samples of a grid: a sample and the place of one *)
(* of its bytes are told by where that byte is.                            *)
LEMMA GridOnce ==
    ASSUME NEW v, NEW n, NEW ty, NEW at, NEW step, Grid(v, n, ty, at, step)
    PROVE  Cardinality(BytesOf(v)) = Cardinality(Pairs(v))
<1> DEFINE b == BytesPerSample[ty]
           P == Pairs(v)
           T == BytesOf(v)
           f == [p \in P |-> at + p[1] * step + p[2]]
<1>1. n \in Nat /\ at \in Nat /\ step \in Nat /\ b \in {1, 2, 4} /\ b <= step
  BY Width DEF Grid
<1>2. P = {p \in (0 .. n - 1) \X (0 .. 3) : p[2] < b}
  BY GridBytes
<1>3. T = UNION {at + i * step .. at + i * step + b - 1 : i \in 0 .. n - 1}
  BY GridBytes
<1>4. \A x \in T : \E i \in 0 .. n - 1, k \in 0 .. b - 1 : x = at + i * step + k
  BY GridBytes
<1> HIDE DEF P, T, b
<1>5. IsFiniteSet(P)
  <2>1. 0 \in Int /\ n - 1 \in Int /\ 3 \in Int
    BY <1>1
  <2>2. IsFiniteSet(0 .. n - 1) /\ IsFiniteSet(0 .. 3)
    BY <2>1, FS_Interval
  <2>3. IsFiniteSet((0 .. n - 1) \X (0 .. 3))
    BY <2>2, FS_Product
  <2>4. P \in SUBSET ((0 .. n - 1) \X (0 .. 3))
    BY <1>2
  <2> QED
    BY <2>3, <2>4, FS_Subset
<1>6. ASSUME NEW p \in P
      PROVE  f[p] \in T
  <2>1. p[1] \in 0 .. n - 1 /\ p[2] \in 0 .. 3 /\ p[2] < b
    BY <1>2
  <2> DEFINE y == at + p[1] * step
  <2>2. y \in Nat
    BY <1>1, <2>1
  <2>3. f[p] = y + p[2]
    OBVIOUS
  <2> HIDE DEF y
  <2>4. f[p] \in y .. y + b - 1
    BY <1>1, <2>1, <2>2, <2>3
  <2> QED
    BY <1>3, <2>1, <2>4 DEF y
<1>7. ASSUME NEW x \in T
      PROVE  \E p \in P : f[p] = x
  <2>1. PICK i \in 0 .. n - 1, k \in 0 .. b - 1 : x = at + i * step + k
    BY <1>4
  <2>2. k \in 0 .. 3 /\ k < b
    BY <1>1
  <2>3. <<i, k>> \in P
    BY <1>2, <2>2
  <2>4. f[<<i, k>>] = x
    BY <2>1, <2>3
  <2> QED
    BY <2>3, <2>4
<1>8. ASSUME NEW p \in P, NEW q \in P, f[p] = f[q]
      PROVE  p = q
  <2>1. /\ p = <<p[1], p[2]>> /\ p[1] \in Nat /\ p[2] \in Nat /\ p[2] < b
        /\ q = <<q[1], q[2]>> /\ q[1] \in Nat /\ q[2] \in Nat /\ q[2] < b
    BY <1>1, <1>2
  <2> DEFINE i == p[1]
             k == p[2]
             j == q[1]
             m == q[2]
  <2>2. at + i * step + k = at + j * step + m
    BY <1>8
  <2>3. i \in Nat /\ k \in Nat /\ k < b /\ j \in Nat /\ m \in Nat /\ m < b
    BY <2>1
  <2> HIDE DEF f, i, k, j, m
  <2>4. ~(i < j)
    <3> SUFFICES ASSUME i < j
                 PROVE  FALSE
      OBVIOUS
    <3> DEFINE x == i * step
               y == j * step
    <3>1. x + step <= y /\ x \in Nat /\ y \in Nat
      BY <1>1, <2>3, Later
    <3>2. at + x + k = at + y + m
      BY <2>2
    <3> HIDE DEF x, y
    <3> QED
      BY <1>1, <2>3, <3>1, <3>2
  <2>5. ~(j < i)
    <3> SUFFICES ASSUME j < i
                 PROVE  FALSE
      OBVIOUS
    <3> DEFINE x == i * step
               y == j * step
    <3>1. y + step <= x /\ x \in Nat /\ y \in Nat
      BY <1>1, <2>3, Later
    <3>2. at + x + k = at + y + m
      BY <2>2
    <3> HIDE DEF x, y
    <3> QED
      BY <1>1, <2>3, <3>1, <3>2
  <2>6. i = j
    BY <2>3, <2>4, <2>5
  <2> DEFINE z == i * step
  <2>7. z \in Nat /\ at + z + k = at + z + m
    BY <1>1, <2>2, <2>3, <2>6
  <2> HIDE DEF z
  <2>8. k = m
    BY <1>1, <2>3, <2>7
  <2> QED
    BY <2>1, <2>6, <2>8 DEF i, j, k, m
<1>9. f \in Bijection(P, T)
  <2>1. f \in [P -> T]
    BY <1>6
  <2> HIDE DEF f
  <2>2. IsInjective(f)
    BY <1>8, <2>1 DEF IsInjective
  <2> QED
    BY <1>7, <2>1, <2>2 DEF Bijection, Injection, Surjection
<1>10. ExistsBijection(P, T)
  BY <1>9 DEF ExistsBijection
<1> QED
  BY <1>5, <1>10, FS_Bijection DEF P, T

(* Two grids of one step share no byte when the samples of one always come *)
(* first within the step, nor do two of which one ends before the other.   *)
LEMMA LanesApart ==
    ASSUME NEW v, NEW n, NEW ty, NEW u, NEW m, NEW uy, NEW at, NEW step, NEW x \in Nat, NEW y \in Nat,
           at \in Nat, Grid(v, n, ty, at + x, step), Grid(u, m, uy, at + y, step),
           x + BytesPerSample[ty] <= y, y + BytesPerSample[uy] <= step
    PROVE  BytesOf(v) \cap BytesOf(u) = {}
<1> DEFINE b == BytesPerSample[ty]
           c == BytesPerSample[uy]
<1>0. n \in Nat /\ m \in Nat /\ step \in Nat /\ ty \in SampleTypes /\ uy \in SampleTypes
  BY DEF Grid
<1>1. n \in Nat /\ m \in Nat /\ at \in Nat /\ step \in Nat /\ b \in Nat /\ c \in Nat
  BY <1>0, Width
<1>2. \A z \in BytesOf(v) : \E i \in 0 .. n - 1, k \in 0 .. b - 1 : z = at + x + i * step + k
  BY GridBytes
<1>3. \A z \in BytesOf(u) : \E j \in 0 .. m - 1, k \in 0 .. c - 1 : z = at + y + j * step + k
  BY GridBytes
<1>4. x + b <= y /\ y + c <= step
  OBVIOUS
<1> HIDE DEF b, c
<1>5. ASSUME NEW i \in 0 .. n - 1, NEW k \in 0 .. b - 1, NEW j \in 0 .. m - 1, NEW l \in 0 .. c - 1,
             at + x + i * step + k = at + y + j * step + l
      PROVE  FALSE
  <2> DEFINE p == i * step
             q == j * step
  <2>1. i \in Nat /\ j \in Nat /\ k \in Nat /\ l \in Nat /\ k < b /\ l < c
    BY <1>1
  <2>2. p \in Nat /\ q \in Nat /\ (i < j => p + step <= q) /\ (j < i => q + step <= p)
    BY <1>1, <2>1, Later
  <2>3. i = j => p = q
    OBVIOUS
  <2>4. at + x + p + k = at + y + q + l
    BY <1>5
  <2> HIDE DEF p, q
  <2>5. CASE i < j
    BY <1>1, <1>4, <2>1, <2>2, <2>4, <2>5
  <2>6. CASE j < i
    BY <1>1, <1>4, <2>1, <2>2, <2>4, <2>6
  <2>7. CASE i = j
    BY <1>1, <1>4, <2>1, <2>2, <2>3, <2>4, <2>7
  <2> QED
    BY <2>1, <2>5, <2>6, <2>7
<1> SUFFICES ASSUME NEW z \in BytesOf(v), z \in BytesOf(u)
             PROVE  FALSE
  OBVIOUS
<1>6. PICK i \in 0 .. n - 1, k \in 0 .. b - 1 : z = at + x + i * step + k
  BY <1>2
<1>7. PICK j \in 0 .. m - 1, l \in 0 .. c - 1 : z = at + y + j * step + l
  BY <1>3
<1>8. at + x + i * step + k = at + y + j * step + l
  BY <1>6, <1>7
<1> QED
  BY <1>5, <1>8

LEMMA BlocksApart ==
    ASSUME NEW v, NEW n, NEW ty, NEW at, NEW u, NEW m, NEW uy, NEW ut,
           Grid(v, n, ty, at, 1), Grid(u, m, uy, ut, 1), at + n <= ut
    PROVE  BytesOf(v) \cap BytesOf(u) = {}
<1> DEFINE b == BytesPerSample[ty]
           c == BytesPerSample[uy]
<1>1. n \in Nat /\ m \in Nat /\ at \in Nat /\ ut \in Nat /\ b = 1 /\ c = 1
  BY Width, SMTT(30) DEF Grid
<1>2. \A z \in BytesOf(v) : \E i \in 0 .. n - 1, k \in 0 .. b - 1 : z = at + i * 1 + k
  BY GridBytes
<1>3. \A z \in BytesOf(u) : \E i \in 0 .. m - 1, k \in 0 .. c - 1 : z = ut + i * 1 + k
  BY GridBytes
<1> HIDE DEF b, c
<1>4. \A z \in BytesOf(v) : z < at + n
  BY <1>1, <1>2
<1>5. \A z \in BytesOf(u) : z >= ut
  BY <1>1, <1>3
<1>6. \A z \in BytesOf(v) : z \in Nat
  BY <1>1, <1>2
<1> QED
  BY <1>1, <1>4, <1>5, <1>6

(* A whole channel is a grid of the bytes its plan goes over.              *)
LEMMA GridOf ==
    ASSUME NEW w, Held(w), NEW ch \in Nat, NEW buf, buf.off \in Nat, NEW total \in Nat,
           NEW ty \in SampleTypes, NEW k \in Nat, k > 0, NEW a \in Nat,
           NEW div \in {1, 2, 4}, NEW mul, NEW add, NEW cal, mul = k * div, add = a * div,
           Prepare(w, ch, Absent, Absent)
               = Strided(buf, ApplySlice(total, Absent, Absent), ty, mul, add, div, cal),
           Whole(w, ch).tag = "ok"
    PROVE  Grid(Whole(w, ch).val, total, ty,
                buf.off + a * BytesPerSample[ty], k * BytesPerSample[ty])
<1> DEFINE r == Prepare(w, ch, Absent, Absent)
           p == r.plan
           b == BytesPerSample[ty]
           cut == ApplySlice(p.n, Absent, Absent)
           v == [i \in 0 .. total - 1 |-> ReadSample(p, i)]
           data == Whole(w, ch)
<1>1. ApplySlice(total, Absent, Absent) = [start |-> 0, len |-> total]
  BY SliceWhole
<1>2. /\ r.tag = "plan" /\ p.n = total /\ p.ty = ty /\ p.woven = FALSE /\ p.buf = buf
      /\ p.idx = [start |-> 0, mul |-> mul, add |-> add, div |-> div]
  BY <1>1 DEF Strided
<1>3. cut = [start |-> 0, len |-> total]
  BY <1>1, <1>2
<1>4. Answered(w, ch, Absent, Absent)
  BY Answers, ArgumentsAre
<1>5. data = IF \A i \in 0 .. cut.len - 1 : InBounds(p, cut.start + i)
             THEN Ok([i \in 0 .. cut.len - 1 |-> ReadSample(p, cut.start + i)])
             ELSE Panic("index out of bounds")
  BY <1>2, <1>4, Zenon DEF Answered, Whole
<1>6. [i \in 0 .. cut.len - 1 |-> ReadSample(p, cut.start + i)] = v
  <2>1. cut.start = 0 /\ cut.len = total
    BY <1>3
  <2> HIDE DEF cut, p
  <2>2. \A i \in 0 .. total - 1 : cut.start + i = i
    BY <2>1
  <2> QED
    BY <2>1, <2>2
<1>7. Panic("index out of bounds").tag # "ok" /\ Ok(v).val = v
  BY DEF Panic, Ok
<1>8. data.val = v
  <2> HIDE DEF v, p, cut
  <2> QED
    BY <1>5, <1>6, <1>7
<1>9. b \in {1, 2, 4}
  BY Width
<1>10. ASSUME NEW i \in 0 .. total - 1
       PROVE  v[i].ty = ty /\ v[i].at = (buf.off + a * b) + i * (k * b)
  <2> HIDE DEF p
  <2>1. i \in Nat
    OBVIOUS
  <2>2. v[i].ty = ty /\ v[i].at = buf.off + RawIdx(p.idx, i) * b
    BY <1>2 DEF ReadSample, Where
  <2> DEFINE z == i * k
  <2>3. RawIdx(p.idx, i) = z + a
    <3>1. RawIdx(p.idx, i) = ((0 + i) * (k * div) + a * div) \div div
      BY <1>2 DEF RawIdx
    <3>2. CASE div = 1
      BY <2>1, <3>1, <3>2
    <3>3. CASE div = 2
      BY <2>1, <3>1, <3>3
    <3>4. CASE div = 4
      BY <2>1, <3>1, <3>4
    <3> QED
      BY <3>2, <3>3, <3>4
  <2> HIDE DEF b, v
  <2>4. buf.off + (z + a) * b = (buf.off + a * b) + i * (k * b)
    BY <1>9, <2>1
  <2> QED
    BY <2>2, <2>3, <2>4
<1>11. buf.off + a * b \in Nat /\ k * b \in Nat /\ b <= k * b
  BY <1>9
<1>12. DOMAIN v = 0 .. total - 1
  OBVIOUS
<1> HIDE DEF v
<1> QED
  BY <1>8, <1>10, <1>11, <1>12 DEF Grid

LEMMA PlannedIfDecoded ==
    ASSUME NEW w, Held(w), NEW ch \in Nat, Whole(w, ch).tag = "ok"
    PROVE  Prepare(w, ch, Absent, Absent).tag = "plan"
<1>1. Answered(w, ch, Absent, Absent)
  BY Answers, ArgumentsAre
<1> QED
  BY <1>1 DEF Answered, Whole

LEMMA Refusals == NoChannel.tag # "plan" /\ NotEnabled.tag # "plan" /\ Overrun.tag # "plan"
BY DEF NoChannel, NotEnabled, Overrun, Err

LEMMA ByteWide == "U8" \in SampleTypes /\ BytesPerSample["U8"] = 1
BY DEF SampleTypes, BytesPerSample

(* DS1000Z: of two channels of flags the lower one has the higher lane.    *)
LEMMA LanesDiffer ==
    ASSUME NEW h, h.flags \subseteq Channels, NEW c \in h.flags, NEW d \in h.flags, c < d
    PROVE  Lane1000Z(h, d) + 1 <= Lane1000Z(h, c)
<1> DEFINE n == Cardinality(h.flags)
<1>1. IsFiniteSet(h.flags) /\ n \in Nat /\ n <= 4
  <2>1. 0 \in Int /\ 3 \in Int
    OBVIOUS
  <2>2. IsFiniteSet(0 .. 3) /\ Cardinality(0 .. 3) = IF 0 > 3 THEN 0 ELSE 3 - 0 + 1
    BY <2>1, FS_Interval
  <2>3. IsFiniteSet(h.flags) /\ n <= 4
    BY <2>2, FS_Subset DEF Channels
  <2> QED
    BY <2>3, FS_CardinalityType
<1>2. IsFiniteSet({c, d}) /\ Cardinality({c, d}) = 2
  <2>1. IsFiniteSet({c}) /\ Cardinality({c}) = 1
    BY FS_Singleton
  <2>2. c # d
    BY DEF Channels
  <2>3. {c} \cup {d} = {c, d} /\ d \notin {c}
    BY <2>2
  <2> QED
    BY <2>1, <2>3, FS_AddElement
<1>3. 2 <= n /\ (n = 2 => h.flags = {c, d})
  <2>1. {c, d} \in SUBSET h.flags
    OBVIOUS
  <2> QED
    BY <1>1, <1>2, <2>1, FS_Subset
<1>4. Stride1000Z(h) = IF n = 3 THEN 4 ELSE n
  BY DEF Stride1000Z
<1> HIDE DEF n
<1>5. c \in 0 .. 3 /\ d \in 0 .. 3
  BY DEF Channels
<1>6. CASE n = 2
  <2>1. h.flags \cap 0 .. c - 1 = {} /\ c \in h.flags \cap 0 .. d - 1
    BY <1>3, <1>5, <1>6
  <2>2. Lane1000Z(h, c) = 1 /\ Lane1000Z(h, d) = 0
    BY <1>4, <1>6, <2>1 DEF Lane1000Z
  <2> QED
    BY <2>2
<1>7. CASE n # 2
  <2>1. Stride1000Z(h) = 4
    BY <1>1, <1>3, <1>4, <1>7
  <2>2. Lane1000Z(h, c) = 4 - (c + 1) /\ Lane1000Z(h, d) = 4 - (d + 1)
    BY <2>1 DEF Lane1000Z
  <2> QED
    BY <1>5, <2>2
<1> QED
  BY <1>6, <1>7

LEMMA Grid1000Z ==
    ASSUME NEW w, Held(w), w.fam = "Ds1000z", NEW ch \in w.h.flags, Whole(w, ch).tag = "ok"
    PROVE  LET h == w.h
               at == (h.hoff + h.hsize) % U32
           IN  /\ at \in Nat /\ Lane1000Z(h, ch) \in Nat
               /\ Lane1000Z(h, ch) + 1 <= Stride1000Z(h)
               /\ Grid(Whole(w, ch).val, Points1000Z(h), "U8", at + Lane1000Z(h, ch),
                       Stride1000Z(h))
<1> DEFINE h == w.h
           at == (h.hoff + h.hsize) % U32
           lane == Lane1000Z(h, ch)
           stride == Stride1000Z(h)
           total == Points1000Z(h)
           buf == Buffer(at, w.size - at)
           plan == Strided(buf, ApplySlice(total, Absent, Absent), "U8", stride, lane, 1,
                           Cal(ch, h.inv[ch]))
<1>1. /\ h.flags \subseteq Channels
      /\ h.depth \in U32s /\ h.hoff \in U32s /\ h.hsize \in U32s
  BY HeldAsStored DEF FileShape, AsStored
<1>2. h.depth \in Nat /\ h.hoff \in Nat /\ h.hsize \in Nat
  BY <1>1, Widths
<1>3. at \in Nat /\ ch \in Channels /\ ch \in Nat
  BY <1>1, <1>2, Wraps DEF Channels
<1>4. stride \in {1, 2, 4} /\ lane \in Nat /\ lane < stride
  BY <1>1, <1>3, Strides
<1>5. total \in Nat
  BY <1>1, <1>2, <1>3, LanesFit
<1>6. Prepare(w, ch, Absent, Absent) \in {NoChannel, NotEnabled, Overrun, plan}
  BY DEF Prepare, Prepare1000Z
<1>7. buf.off = at
  BY DEF Buffer
<1> HIDE DEF at, lane, stride, total, buf
<1>8. Prepare(w, ch, Absent, Absent) = plan
  <2> HIDE DEF plan
  <2> QED
    BY <1>3, <1>6, PlannedIfDecoded, Refusals
<1>9. stride \in Nat /\ stride > 0 /\ stride = stride * 1 /\ lane = lane * 1 /\ 1 \in {1, 2, 4}
  BY <1>4
<1>10. Grid(Whole(w, ch).val, total, "U8", buf.off + lane * BytesPerSample["U8"],
            stride * BytesPerSample["U8"])
  BY <1>3, <1>4, <1>5, <1>7, <1>8, <1>9, GridOf, ByteWide
<1>11. Grid(Whole(w, ch).val, total, "U8", at + lane, stride)
  BY <1>7, <1>9, <1>10, ByteWide
<1> QED
  BY <1>3, <1>4, <1>11 DEF at, lane, stride, total

LEMMA Apart1000Z ==
    ASSUME NEW w, Held(w), w.fam = "Ds1000z",
           NEW c \in w.h.flags, NEW d \in w.h.flags, c < d,
           Whole(w, c).tag = "ok", Whole(w, d).tag = "ok"
    PROVE  BytesOf(Whole(w, d).val) \cap BytesOf(Whole(w, c).val) = {}
<1> DEFINE h == w.h
           at == (h.hoff + h.hsize) % U32
           x == Lane1000Z(h, d)
           y == Lane1000Z(h, c)
<1>1. h.flags \subseteq Channels
  BY HeldAsStored DEF FileShape, AsStored
<1>2. x + 1 <= y
  BY <1>1, LanesDiffer
<1>3. /\ at \in Nat /\ x \in Nat /\ y \in Nat /\ y + 1 <= Stride1000Z(h)
      /\ Grid(Whole(w, c).val, Points1000Z(h), "U8", at + y, Stride1000Z(h))
      /\ Grid(Whole(w, d).val, Points1000Z(h), "U8", at + x, Stride1000Z(h))
  BY Grid1000Z
<1> HIDE DEF at, x, y
<1> QED
  BY <1>2, <1>3, LanesApart, ByteWide

(* DS1000E: channel 2 starts where channel 1 and its padding end.          *)
LEMMA Grid1000E ==
    ASSUME NEW w, Held(w), w.fam = "Ds1000e", NEW ch \in 0 .. 1, Whole(w, ch).tag = "ok"
    PROVE  LET points == Points1000E(w.h)
               skip == Skip1000E(w.h)
               at == IF ch = 0 THEN DataStart1000E
                     ELSE DataStart1000E + (IF w.h.on[0] THEN points + skip ELSE 0)
           IN  /\ points \in Nat /\ skip \in Nat
               /\ Grid(Whole(w, ch).val, points, "U8", at, 1)
<1> DEFINE h == w.h
           points == Points1000E(h)
           skip == Skip1000E(h)
           first == IF h.on[0] THEN points + skip ELSE 0
           at == DataStart1000E + (IF ch = 0 THEN 0 ELSE first)
           buf == Buffer(at, w.size - at)
           plan == Packed(buf, ApplySlice(points, Absent, Absent), "U8", Cal(ch, h.inv[ch]))
<1>1. h.depth \in U32s /\ h.roll \in U32s
  BY HeldAsStored DEF FileShape, AsStored
<1>2. h.depth \in Nat /\ h.roll \in Nat
  BY <1>1, Widths
<1>3. skip \in Nat
  BY <1>2, Wraps DEF Skip1000E
<1>4. points \in Nat
  BY <1>2, <1>3 DEF Points1000E, MonusSat
<1>5. Prepare(w, ch, Absent, Absent) \in {NoChannel, NotEnabled, Overrun, plan}
  BY DEF Prepare, Prepare1000E
<1> HIDE DEF points, skip
<1>6. at \in Nat /\ buf.off = at
  BY <1>3, <1>4 DEF DataStart1000E, Buffer
<1> HIDE DEF at, buf
<1>7. Prepare(w, ch, Absent, Absent) = plan
  <2> HIDE DEF plan
  <2> QED
    BY <1>5, PlannedIfDecoded, Refusals
<1>8. plan = Strided(buf, ApplySlice(points, Absent, Absent), "U8", 1, 0, 1, Cal(ch, h.inv[ch]))
  BY DEF Packed
<1> HIDE DEF plan
<1>9. Grid(Whole(w, ch).val, points, "U8", buf.off + 0 * BytesPerSample["U8"],
           1 * BytesPerSample["U8"])
  <2>1. 1 \in Nat /\ 0 \in Nat /\ 1 > 0 /\ 1 = 1 * 1 /\ 0 = 0 * 1 /\ 1 \in {1, 2, 4} /\ ch \in Nat
    OBVIOUS
  <2> QED
    BY <1>4, <1>6, <1>7, <1>8, <2>1, GridOf, ByteWide
<1>10. Grid(Whole(w, ch).val, points, "U8", at, 1)
  <2>1. buf.off + 0 * BytesPerSample["U8"] = at /\ 1 * BytesPerSample["U8"] = 1
    BY <1>6, ByteWide
  <2> QED
    BY <1>9, <2>1
<1>11. at = IF ch = 0 THEN DataStart1000E ELSE DataStart1000E + first
  BY DEF at, DataStart1000E
<1> QED
  BY <1>3, <1>4, <1>10, <1>11 DEF points, skip

LEMMA Apart1000E ==
    ASSUME NEW w, Held(w), w.fam = "Ds1000e", w.h.on[0],
           Whole(w, 0).tag = "ok", Whole(w, 1).tag = "ok"
    PROVE  BytesOf(Whole(w, 0).val) \cap BytesOf(Whole(w, 1).val) = {}
<1> DEFINE n == Points1000E(w.h)
           skip == Skip1000E(w.h)
<1>1. n \in Nat /\ skip \in Nat /\ Grid(Whole(w, 0).val, n, "U8", DataStart1000E, 1)
  <2>1. 0 \in 0 .. 1
    OBVIOUS
  <2> QED
    BY <2>1, Grid1000E
<1>2. Grid(Whole(w, 1).val, n, "U8", DataStart1000E + (n + skip), 1)
  <2>1. 1 \in 0 .. 1 /\ 1 # 0
    OBVIOUS
  <2> QED
    BY <2>1, Grid1000E
<1> HIDE DEF n, skip
<1>3. DataStart1000E + n <= DataStart1000E + (n + skip)
  BY <1>1 DEF DataStart1000E
<1> QED
  BY <1>1, <1>2, <1>3, BlocksApart

(* DHO: each channel is a column of the rows.                              *)
LEMMA GridDho ==
    ASSUME NEW w, Held(w), w.fam = "Dho", NEW ch \in Channels, w.h.cals[ch] # NoEntry,
           Whole(w, ch).tag = "ok"
    PROVE  /\ w.h.data \in Nat /\ ch * 2 \in Nat /\ ch * 2 + 2 <= w.h.nch * 2
           /\ Grid(Whole(w, ch).val, w.h.n, "U16Le", w.h.data + ch * 2, w.h.nch * 2)
<1> DEFINE h == w.h
           buf == Buffer(h.data, h.n * h.nch * 2)
           plan == Strided(buf, ApplySlice(h.n, Absent, Absent), "U16Le", h.nch, ch, 1,
                           Cal(h.cals[ch], FALSE))
<1>1. HeldDho(w)
  BY DEF Held
<1>2. h.n \in Usizes /\ h.nch \in 1 .. 4 /\ h.data \in Nat /\ ch < h.nch
  BY <1>1 DEF HeldDho
<1>3. h.n \in Nat /\ h.nch \in Nat /\ h.nch > 0 /\ ch \in Nat
  <2>1. h.n \in Nat
    BY <1>2, Widths
  <2>2. h.nch \in Nat /\ h.nch > 0 /\ ch \in Nat
    BY <1>2 DEF Channels
  <2> QED
    BY <2>1, <2>2
<1>4. Prepare(w, ch, Absent, Absent) \in {NoChannel, NotEnabled, Overrun, plan}
  BY DEF Prepare, PrepareDho
<1>5. Prepare(w, ch, Absent, Absent) = plan
  <2> HIDE DEF plan
  <2> QED
    BY <1>3, <1>4, PlannedIfDecoded, Refusals
<1>6. buf.off = h.data
  BY DEF Buffer
<1> HIDE DEF buf
<1>7. "U16Le" \in SampleTypes /\ BytesPerSample["U16Le"] = 2
  BY DEF SampleTypes, BytesPerSample
<1>8. h.nch = h.nch * 1 /\ ch = ch * 1 /\ 1 \in {1, 2, 4}
  BY <1>3
<1>9. Grid(Whole(w, ch).val, h.n, "U16Le", buf.off + ch * BytesPerSample["U16Le"],
           h.nch * BytesPerSample["U16Le"])
  BY <1>2, <1>3, <1>5, <1>6, <1>7, <1>8, GridOf
<1>10. ch * 2 \in Nat /\ ch * 2 + 2 <= h.nch * 2
  BY <1>2, <1>3
<1> QED
  BY <1>2, <1>6, <1>7, <1>9, <1>10

LEMMA ApartDho ==
    ASSUME NEW w, Held(w), w.fam = "Dho", NEW c \in Channels, NEW d \in Channels, c < d,
           w.h.cals[c] # NoEntry, w.h.cals[d] # NoEntry,
           Whole(w, c).tag = "ok", Whole(w, d).tag = "ok"
    PROVE  BytesOf(Whole(w, c).val) \cap BytesOf(Whole(w, d).val) = {}
<1> DEFINE x == c * 2
           y == d * 2
<1>1. /\ w.h.data \in Nat /\ x \in Nat
      /\ Grid(Whole(w, c).val, w.h.n, "U16Le", w.h.data + x, w.h.nch * 2)
  BY GridDho
<1>2. /\ y \in Nat /\ y + 2 <= w.h.nch * 2
      /\ Grid(Whole(w, d).val, w.h.n, "U16Le", w.h.data + y, w.h.nch * 2)
  BY GridDho
<1>3. x + 2 <= y
  BY DEF Channels
<1>4. BytesPerSample["U16Le"] = 2
  BY DEF SampleTypes, BytesPerSample
<1> HIDE DEF x, y
<1> QED
  BY <1>1, <1>2, <1>3, <1>4, LanesApart

(* Siglent: the payloads follow each other in channel order.               *)
LEMMA GridSiglent ==
    ASSUME NEW w, Held(w), w.fam = "Siglent", NEW ch \in Nat,
           Entries(w.h.chans, ch + 1) # {}, Whole(w, ch).tag = "ok"
    PROVE  \E k \in 1 .. Len(w.h.chans) :
              /\ w.h.chans[k].channel = ch + 1 /\ w.h.wlen \in Nat
              /\ w.h.chans[k].off = SiglentHeaderSize + (k - 1) * w.h.wlen
              /\ Grid(Whole(w, ch).val, w.h.wlen, "U8", w.h.chans[k].off, 1)
<1> DEFINE h == w.h
           c == FindChannel(h.chans, ch + 1)
           buf == Buffer(c.off, h.wlen)
           plan == Packed(buf, ApplySlice(h.wlen, Absent, Absent), "U8", Cal(ch, FALSE))
<1>1. HeldSiglent(w)
  BY DEF Held
<1>2. h.wlen \in Usizes /\ Len(h.chans) \in 1 .. 4
  BY <1>1 DEF HeldSiglent
<1>3. h.wlen \in Nat /\ Len(h.chans) \in Nat
  <2>1. h.wlen \in Nat
    BY <1>2, Widths
  <2>2. Len(h.chans) \in Nat
    BY <1>2
  <2> QED
    BY <2>1, <2>2
<1>4. PICK k \in 1 .. Len(h.chans) : h.chans[k].channel = ch + 1 /\ c = h.chans[k]
  BY <1>3, Found
<1>5. h.chans[k].off = SiglentHeaderSize + (k - 1) * h.wlen /\ h.chans[k].off \in Nat
  BY <1>1 DEF HeldSiglent
<1>6. Prepare(w, ch, Absent, Absent) \in {NoChannel, NotEnabled, Overrun, plan}
  BY DEF Prepare, PrepareSiglent
<1> HIDE DEF c
<1>7. Prepare(w, ch, Absent, Absent) = plan
  <2> HIDE DEF plan
  <2> QED
    BY <1>6, PlannedIfDecoded, Refusals
<1>8. buf.off = h.chans[k].off
  BY <1>4 DEF Buffer
<1> HIDE DEF buf
<1>9. plan = Strided(buf, ApplySlice(h.wlen, Absent, Absent), "U8", 1, 0, 1, Cal(ch, FALSE))
  BY DEF Packed
<1> HIDE DEF plan
<1>10. Grid(Whole(w, ch).val, h.wlen, "U8", buf.off + 0 * BytesPerSample["U8"],
            1 * BytesPerSample["U8"])
  <2>1. 1 \in Nat /\ 0 \in Nat /\ 1 > 0 /\ 1 = 1 * 1 /\ 0 = 0 * 1 /\ 1 \in {1, 2, 4}
    OBVIOUS
  <2> QED
    BY <1>3, <1>5, <1>7, <1>8, <1>9, <2>1, GridOf, ByteWide
<1>11. buf.off + 0 * BytesPerSample["U8"] = h.chans[k].off /\ 1 * BytesPerSample["U8"] = 1
  BY <1>5, <1>8, ByteWide
<1> QED
  BY <1>3, <1>4, <1>5, <1>10, <1>11

LEMMA ApartSiglent ==
    ASSUME NEW w, Held(w), w.fam = "Siglent", NEW c \in Nat, NEW d \in Nat, c < d,
           Entries(w.h.chans, c + 1) # {}, Entries(w.h.chans, d + 1) # {},
           Whole(w, c).tag = "ok", Whole(w, d).tag = "ok"
    PROVE  BytesOf(Whole(w, c).val) \cap BytesOf(Whole(w, d).val) = {}
<1> DEFINE n == w.h.wlen
           N == Len(w.h.chans)
<1>1. PICK j \in 1 .. N :
         /\ w.h.chans[j].channel = c + 1 /\ n \in Nat
         /\ w.h.chans[j].off = SiglentHeaderSize + (j - 1) * n
         /\ Grid(Whole(w, c).val, n, "U8", w.h.chans[j].off, 1)
  BY GridSiglent
<1>2. PICK k \in 1 .. N :
         /\ w.h.chans[k].channel = d + 1
         /\ w.h.chans[k].off = SiglentHeaderSize + (k - 1) * n
         /\ Grid(Whole(w, d).val, n, "U8", w.h.chans[k].off, 1)
  BY GridSiglent
<1>3. N \in 1 .. 4 /\ \A i, m \in 1 .. N : i < m => w.h.chans[i].channel < w.h.chans[m].channel
  BY DEF Held, HeldSiglent
<1>4. j < k
  <2>1. ~(k < j) /\ k # j
    <3>1. k < j => w.h.chans[k].channel < w.h.chans[j].channel
      BY <1>3
    <3>2. w.h.chans[j].channel = c + 1 /\ w.h.chans[k].channel = d + 1
      BY <1>1, <1>2
    <3>3. ~(d + 1 < c + 1) /\ c + 1 # d + 1
      OBVIOUS
    <3> QED
      BY <3>1, <3>2, <3>3
  <2>2. j \in Nat /\ k \in Nat
    BY <1>3
  <2> QED
    BY <2>1, <2>2
<1>5. (j - 1) * n + n <= (k - 1) * n /\ (j - 1) * n \in Nat /\ (k - 1) * n \in Nat
  <2>1. j - 1 \in Nat /\ k - 1 \in Nat /\ j - 1 < k - 1 /\ n \in Nat
    BY <1>1, <1>3, <1>4
  <2> QED
    BY <2>1, Later
<1> DEFINE x == (j - 1) * n
           y == (k - 1) * n
<1>6. x + n <= y /\ x \in Nat /\ y \in Nat
  BY <1>5
<1>7. w.h.chans[j].off = SiglentHeaderSize + x /\ w.h.chans[k].off = SiglentHeaderSize + y
  BY <1>1, <1>2
<1> HIDE DEF n, x, y
<1>8. w.h.chans[j].off + n <= w.h.chans[k].off
  BY <1>1, <1>6, <1>7, HeaderSizeAssumption
<1> QED
  BY <1>1, <1>2, <1>8, BlocksApart

(* Rohde & Schwarz: each channel is a column of the rows, behind the time. *)
LEMMA GridRs ==
    ASSUME NEW w, Held(w), w.fam = "RohdeSchwarz", NEW ch \in Nat,
           Entries(w.h.chans, ch + 1) # {}, Whole(w, ch).tag = "ok"
    PROVE  LET at == 8 + w.h.lead * w.h.stride + w.h.prefix
           IN  /\ at \in Nat /\ w.h.rec \in Nat
               /\ \E k \in 1 .. Len(w.h.chans) :
                     /\ w.h.chans[k].channel = ch + 1
                     /\ Grid(Whole(w, ch).val, w.h.rec, RsType[w.h.fmt],
                             at + (k - 1) * w.h.bps, w.h.stride)
<1> DEFINE h == w.h
           b == h.bps
           c == FindChannel(h.chans, ch + 1)
           data == 8 + h.lead * h.stride
           ty == RsType[h.fmt]
           buf == Buffer(data, h.rec * h.stride)
           add == h.prefix + c.slot * b
           plan == Strided(buf, ApplySlice(h.rec, Absent, Absent), ty, h.stride, add, b,
                           Cal(c.slot, FALSE))
<1>1. HeldRs(w)
  BY DEF Held
<1>2. h.rec \in Usizes /\ h.lead \in Nat /\ Len(h.chans) \in Nat
  BY <1>1 DEF HeldRs
<1>3. h.rec \in Nat
  BY <1>2, Widths
<1>4. PICK k \in 1 .. Len(h.chans) : h.chans[k].channel = ch + 1 /\ c = h.chans[k]
  BY <1>2, Found
<1>5. c.slot = k - 1
  BY <1>1, <1>4 DEF HeldRs
<1>6. Prepare(w, ch, Absent, Absent) \in {NotEnabled, Overrun, plan}
  BY DEF Prepare, PrepareRs
<1>7. h.prefix \in {0, 8}
  BY <1>1 DEF HeldRs, RsBytes, RsPrefix
<1> HIDE DEF c
<1>8. /\ b \in {1, 2, 4} /\ ty \in SampleTypes /\ BytesPerSample[ty] = b
      /\ \E m, a \in Nat : a + 1 <= m /\ h.stride = m * b /\ add = a * b
  BY <1>1, <1>4, RsRow
<1>9. PICK m \in Nat, a \in Nat : a + 1 <= m /\ h.stride = m * b /\ add = a * b
  BY <1>8
<1>10. Prepare(w, ch, Absent, Absent) = plan
  <2> HIDE DEF plan
  <2> QED
    BY <1>6, PlannedIfDecoded, Refusals
<1>11. h.stride \in Nat /\ data \in Nat /\ buf.off = data /\ m > 0
  <2>1. h.stride \in Nat /\ m > 0
    BY <1>8, <1>9, SMTT(30)
  <2>2. h.lead * h.stride \in Nat
    BY <1>2, <2>1
  <2> QED
    BY <2>1, <2>2 DEF Buffer
<1> HIDE DEF data, buf, add, ty, b
<1>12. Grid(Whole(w, ch).val, h.rec, ty, buf.off + a * BytesPerSample[ty], m * BytesPerSample[ty])
  <2> DEFINE cal == Cal(c.slot, FALSE)
  <2>1. Prepare(w, ch, Absent, Absent)
           = Strided(buf, ApplySlice(h.rec, Absent, Absent), ty, h.stride, add, b, cal)
    BY <1>10
  <2> HIDE DEF cal, plan
  <2>2. ty \in SampleTypes /\ b \in {1, 2, 4} /\ buf.off \in Nat
    BY <1>8, <1>11
  <2> QED
    BY <1>3, <1>9, <1>11, <2>1, <2>2, GridOf
<1>13. buf.off + a * BytesPerSample[ty] = data + h.prefix + (k - 1) * b
  <2>1. add = h.prefix + (k - 1) * b
    BY <1>5 DEF add
  <2> DEFINE y == (k - 1) * b
  <2>2. y \in Nat
    BY <1>2, <1>8
  <2> HIDE DEF y
  <2>3. data + (h.prefix + y) = data + h.prefix + y
    BY <1>7, <1>11, <2>2
  <2> QED
    BY <1>8, <1>9, <1>11, <2>1, <2>3 DEF y
<1>14. data + h.prefix \in Nat
  BY <1>7, <1>11
<1> QED
  BY <1>3, <1>4, <1>8, <1>9, <1>12, <1>13, <1>14 DEF data, ty, b

LEMMA ApartRs ==
    ASSUME NEW w, Held(w), w.fam = "RohdeSchwarz", NEW c \in Nat, NEW d \in Nat, c # d,
           Entries(w.h.chans, c + 1) # {}, Entries(w.h.chans, d + 1) # {},
           Whole(w, c).tag = "ok", Whole(w, d).tag = "ok"
    PROVE  BytesOf(Whole(w, c).val) \cap BytesOf(Whole(w, d).val) = {}
<1> DEFINE h == w.h
           b == h.bps
           N == Len(h.chans)
           p == h.prefix
           ty == RsType[h.fmt]
           origin == 8 + h.lead * h.stride
           at == origin + p
<1>1. PICK j \in 1 .. N : /\ at \in Nat /\ h.chans[j].channel = c + 1
                          /\ Grid(Whole(w, c).val, h.rec, ty, at + (j - 1) * b, h.stride)
  BY GridRs
<1>2. PICK k \in 1 .. N : /\ h.chans[k].channel = d + 1
                          /\ Grid(Whole(w, d).val, h.rec, ty, at + (k - 1) * b, h.stride)
  BY GridRs
<1>3. HeldRs(w)
  BY DEF Held
<1>4. b \in {1, 2, 4} /\ BytesPerSample[ty] = b
  BY <1>1, <1>3, RsRow
<1>5. N \in Nat /\ p \in {0, 8} /\ h.stride = p + N * b
  BY <1>3 DEF HeldRs, RsBytes, RsPrefix
<1>6. j # k
  BY <1>1, <1>2
<1> DEFINE x == (j - 1) * b
           y == (k - 1) * b
<1> HIDE DEF b, N, p, ty, at
<1>7. x \in Nat /\ y \in Nat /\ x + b <= N * b /\ y + b <= N * b /\ N * b \in Nat
  BY <1>4, <1>5
<1>8. (j < k => x + b <= y) /\ (k < j => y + b <= x)
  BY <1>4, <1>5
<1>9. j < k \/ k < j
  BY <1>5, <1>6
<1>10. x + b <= h.stride /\ y + b <= h.stride
  <2> DEFINE z == N * b
  <2>1. z \in Nat /\ x + b <= z /\ y + b <= z /\ h.stride = p + z
    BY <1>5, <1>7
  <2> HIDE DEF x, y, z
  <2> QED
    BY <1>4, <1>5, <1>7, <2>1
<1> HIDE DEF x, y
<1>11. /\ Grid(Whole(w, c).val, h.rec, ty, at + x, h.stride)
       /\ Grid(Whole(w, d).val, h.rec, ty, at + y, h.stride)
  BY <1>1, <1>2 DEF x, y
<1>12. CASE j < k
  BY <1>1, <1>4, <1>7, <1>8, <1>10, <1>11, <1>12, LanesApart
<1>13. CASE k < j
  <2>1. BytesOf(Whole(w, d).val) \cap BytesOf(Whole(w, c).val) = {}
    BY <1>1, <1>4, <1>7, <1>8, <1>10, <1>11, <1>13, LanesApart
  <2> QED
    BY <2>1
<1> QED
  BY <1>9, <1>12, <1>13

-----------------------------------------------------------------------------
(* A channel of a family that is laid out is a grid, and so are any two.   *)
LEMMA GridAny ==
    ASSUME NEW w, Held(w), LaidOut(w), NEW ch \in OnChannels(w), Whole(w, ch).tag = "ok"
    PROVE  \E n, ty, at, step : Grid(Whole(w, ch).val, n, ty, at, step)
<1>1. CASE w.fam = "Ds1000z"
  BY <1>1, Grid1000Z DEF OnChannels
<1>2. CASE w.fam = "Ds1000e"
  BY <1>2, Grid1000E DEF OnChannels
<1>3. CASE w.fam = "Dho"
  BY <1>3, GridDho DEF OnChannels
<1>4. CASE w.fam = "Siglent"
  BY <1>4, GridSiglent DEF OnChannels
<1>5. CASE w.fam = "RohdeSchwarz"
  BY <1>5, GridRs DEF OnChannels
<1> QED
  BY <1>1, <1>2, <1>3, <1>4, <1>5 DEF LaidOut

LEMMA ApartAny ==
    ASSUME NEW w, Held(w), LaidOut(w), NEW c \in OnChannels(w), NEW d \in OnChannels(w), c < d,
           Whole(w, c).tag = "ok", Whole(w, d).tag = "ok"
    PROVE  BytesOf(Whole(w, c).val) \cap BytesOf(Whole(w, d).val) = {}
<1> DEFINE A == BytesOf(Whole(w, c).val)
           B == BytesOf(Whole(w, d).val)
<1>1. CASE w.fam = "Ds1000z"
  <2>1. B \cap A = {}
    BY <1>1, Apart1000Z DEF OnChannels
  <2> QED
    BY <2>1
<1>2. CASE w.fam = "Ds1000e"
  <2>1. c \in 0 .. 1 /\ d \in 0 .. 1 /\ w.h.on[c]
    BY <1>2 DEF OnChannels
  <2>2. c = 0 /\ d = 1
    BY <2>1
  <2> QED
    BY <1>2, <2>1, <2>2, Apart1000E
<1>3. CASE w.fam = "Dho"
  BY <1>3, ApartDho DEF OnChannels
<1>4. CASE w.fam = "Siglent"
  BY <1>4, ApartSiglent DEF OnChannels
<1>5. CASE w.fam = "RohdeSchwarz"
  <2>1. /\ c \in Nat /\ Entries(w.h.chans, c + 1) # {}
        /\ d \in Nat /\ Entries(w.h.chans, d + 1) # {} /\ c # d
    BY <1>5 DEF OnChannels
  <2> QED
    BY <1>5, <2>1, ApartRs
<1> QED
  BY <1>1, <1>2, <1>3, <1>4, <1>5 DEF LaidOut

LEMMA BytesHold == HandleInv => EveryByteOnce
<1> SUFFICES ASSUME HandleInv, IsOpen, LaidOut(W)
             PROVE  LET data == {c \in Enabled(W) : Whole(W, c).tag = "ok"}
                    IN  /\ \A c \in data : LET v == Whole(W, c).val IN
                               Cardinality(BytesOf(v)) = Cardinality(Pairs(v))
                        /\ \A c, d \in data : c # d =>
                               BytesOf(Whole(W, c).val) \cap BytesOf(Whole(W, d).val) = {}
  BY Zenon DEF EveryByteOnce, Pairs
<1>1. Held(W)
  BY OpenIsHeld
<1>2. Enabled(W) = OnChannels(W) /\ OnChannels(W) \subseteq Nat
  BY <1>1, EnabledIs
<1>3. ASSUME NEW c \in Enabled(W), Whole(W, c).tag = "ok"
      PROVE  Cardinality(BytesOf(Whole(W, c).val)) = Cardinality(Pairs(Whole(W, c).val))
  BY <1>1, <1>2, <1>3, GridAny, GridOnce
<1>4. ASSUME NEW c \in Enabled(W), NEW d \in Enabled(W), c # d,
             Whole(W, c).tag = "ok", Whole(W, d).tag = "ok"
      PROVE  BytesOf(Whole(W, c).val) \cap BytesOf(Whole(W, d).val) = {}
  <2>1. c < d \/ d < c
    BY <1>2, <1>4
  <2>2. CASE c < d
    BY <1>1, <1>2, <1>4, <2>2, ApartAny
  <2>3. CASE d < c
    <3>1. BytesOf(Whole(W, d).val) \cap BytesOf(Whole(W, c).val) = {}
      BY <1>1, <1>2, <1>4, <2>3, ApartAny
    <3> QED
      BY <3>1
  <2> QED
    BY <2>1, <2>2, <2>3
<1> QED
  BY <1>3, <1>4, Zenon

(* No byte of the file is part of two samples, of one channel or of two,   *)
(* whatever the flags and the channel lists of the header say, in the      *)
(* families that compute where a sample is (parser.rs:87-176, 230-272,     *)
(* 325-349, 503-600).                                                      *)
THEOREM BytesOnce == Spec => []EveryByteOnce
BY Always, BytesHold, PTL
=============================================================================
